----------------------------- MODULE MCScripts -----------------------------
(***************************************************************************)
(* CheckQueue, Script and SigHash on small instances: the scripts of a     *)
(* block are checked in the queue, by the interpreter, against the hash of *)
(* the transaction.  A behaviour is one of a single scene, and the         *)
(* variables of the others keep an initial state.                          *)
(***************************************************************************)
EXTENDS CheckQueue, Sequences, TLC

CONSTANTS
    Programs, Outputs, Serialized, Flags,       \* of Script
    Txs,                                        \* of SigHash
    c1, c2, c3                                  \* of CheckQueue: the checks

VARIABLES
    scene,
    program, flags, start, script, m,
    tx, copy, nIn, nHashType, edits

-----------------------------------------------------------------------------
(* Scripts: "branches" are all scripts of up to five conditionals and other *)
(* opcodes, "stack" one opcode on some stacks, "multisig" stacks with up to *)
(* two signatures and three keys, "verify" inputs of up to three            *)
(* instructions for some outputs, two of which hold the hash of a script.   *)

I == INSTANCE Script WITH       \* the instructions and items, for the constants of E
    Byte <- 16, nMaxNumSize <- 2, OP_PUSHDATA1 <- 6, MaxSmall <- 3, MaxElement <- 7,
    MaxOpCount <- 4, MaxStack <- 8, MaxPubKeys <- 3, Programs <- <<>>, Outputs <- {},
    Serialized <- <<>>, Flags <- {}

Code(ops) == {I!Op(o) : o \in ops}
SigOf(k) == I!Signature(k, 0, I!Canonical)
KeyOf(k) == I!Key(k, 0)
Hash160(item) == I!HashOf(I!Hashes["OP_HASH160"], item)

BranchOps ==
    Code({"OP_IF", "OP_NOTIF", "OP_ELSE", "OP_ENDIF", "OP_VERIF", "OP_CAT", "OP_TOALTSTACK"})
    \cup {I!Small(1)}
StackOps ==
    Code({"OP_2DROP", "OP_2DUP", "OP_3DUP", "OP_2OVER", "OP_2ROT", "OP_2SWAP", "OP_IFDUP",
          "OP_DEPTH", "OP_DROP", "OP_DUP", "OP_NIP", "OP_OVER", "OP_PICK", "OP_ROLL", "OP_ROT",
          "OP_SWAP", "OP_TUCK", "OP_SIZE", "OP_EQUAL", "OP_EQUALVERIFY", "OP_1ADD", "OP_1SUB",
          "OP_NEGATE", "OP_ABS", "OP_NOT", "OP_0NOTEQUAL", "OP_ADD", "OP_SUB", "OP_BOOLAND",
          "OP_BOOLOR", "OP_NUMEQUAL", "OP_NUMEQUALVERIFY", "OP_NUMNOTEQUAL", "OP_LESSTHAN",
          "OP_GREATERTHAN", "OP_LESSTHANOREQUAL", "OP_GREATERTHANOREQUAL", "OP_MIN", "OP_MAX",
          "OP_WITHIN", "OP_VERIFY", "OP_NOP", "OP_NOP1", "OP_FROMALTSTACK", "OP_TOALTSTACK",
          "OP_RESERVED", "OP_RETURN", "OP_HASH160"})
StartStacks ==
    {<<>>, <<<<1>>, <<2>>, <<3>>>>, <<<<1>>, <<>>, <<3>>, <<0>>, <<2>>, <<1>>>>,
     <<<<7, 3>>, <<15>>>>, <<<<1, 1, 1>>, <<8>>>>}
MultisigStacks ==
    {<<<<>>>> \o s \o <<I!serialize(Len(s))>> \o k \o <<I!serialize(Len(k))>> :
        s \in UNION {[1 .. n -> {SigOf(i) : i \in 1 .. 3}] : n \in 0 .. 2},
        k \in UNION {[1 .. n -> {KeyOf(i) : i \in 1 .. 3}] : n \in 0 .. 3}}
VerifyOps ==
    {I!Push(i) : i \in {<<>>, <<1>>, SigOf(1), I!Signature(1, 0, I!OddHashType), KeyOf(1),
                        I!ScriptItem(1), I!ScriptItem(2)}} \cup Code({"OP_DUP"})

ScriptPrograms ==
    "branches" :> [ops |-> BranchOps, stacks |-> {<<>>, <<<<>>, <<1>>>>},
                   flags |-> {{}}, length |-> 5]
    @@ "stack" :> [ops |-> StackOps, stacks |-> StartStacks, flags |-> {{}, {"MINIMALDATA"}},
                   length |-> 1]
    @@ "multisig" :> [ops |-> Code({"OP_CHECKMULTISIG", "OP_CODESEPARATOR"}),
                      stacks |-> MultisigStacks, flags |-> {{}, {"STRICTENC", "NULLDUMMY"}},
                      length |-> 1]
    @@ "verify" :> [ops |-> VerifyOps, stacks |-> {<<>>}, flags |-> {{}}, length |-> 3]

PayToKey == <<I!Push(KeyOf(1)), I!Op("OP_CHECKSIG")>>
NotOneOfTwo ==
    <<I!Small(1), I!Push(KeyOf(2)), I!Push(KeyOf(3)), I!Small(2), I!Op("OP_CHECKMULTISIG"),
      I!Op("OP_NOT")>>
PayToScript(i) ==
    <<I!Op("OP_HASH160"), I!Push(Hash160(I!ScriptItem(i))), I!Op("OP_EQUAL")>>
ScriptSerialized == <<PayToKey, NotOneOfTwo>>
ScriptOutputs ==
    {PayToKey, PayToScript(1), PayToScript(2), <<I!Op("OP_NOP1")>>,
     <<I!Op("OP_DUP"), I!Op("OP_HASH160"), I!Push(Hash160(KeyOf(1))),
       I!Op("OP_EQUALVERIFY"), I!Op("OP_CHECKSIG")>>}

E == INSTANCE Script WITH
    Byte <- 16, nMaxNumSize <- 2, OP_PUSHDATA1 <- 6, MaxSmall <- 3, MaxElement <- 7,
    MaxOpCount <- 4, MaxStack <- 8, MaxPubKeys <- 3

ASSUME E!ScriptAssumption

-----------------------------------------------------------------------------
(* Signature hashes: two inputs, and one or two outputs.                    *)

SignedTxs ==
    {[vin |-> <<[prevout |-> 3, nSequence |-> 1], [prevout |-> 4, nSequence |-> 0]>>,
      vout |-> o, nVersion |-> 1, nLockTime |-> 1, code |-> c] :
        o \in {<<7>>, <<7, 8>>}, c \in {<<6, 0, 5>>, <<0, 5>>}}

H == INSTANCE SigHash WITH
    Prevout <- {3, 4}, Out <- {7, 8},
    Codes <- {<<5>>, <<0, 5>>, <<6, 0, 5, 0>>, <<0>>}, MaxVin <- 3, MaxVout <- 3, MaxEdits <- 2

ASSUME H!SigHashAssumption

-----------------------------------------------------------------------------

scriptVars == <<program, flags, start, script, m>>
hashVars == <<tx, copy, nIn, nHashType, edits>>

ScriptInit ==
    IF scene = "script" THEN E!Init
    ELSE program = "verify" /\ flags = {} /\ start = <<>> /\ script = <<>> /\ m = E!Machine(<<>>)
HashInit ==
    IF scene = "sighash" THEN H!Init
    ELSE /\ tx = CHOOSE t \in Txs : TRUE
         /\ copy = tx /\ nIn = 1 /\ edits = 0
         /\ nHashType = CHOOSE t \in H!HashTypes : TRUE

\* The checks are interchangeable: c1 and c2 stand for any two that fail.
ScriptsInit ==
    /\ scene \in {"queue", "script", "sighash"}
    /\ Init /\ ScriptInit /\ HashInit
    /\ bad \in IF scene = "queue" THEN {{}, {c1}, {c1, c2}} ELSE {{}}

ScriptsNext ==
    /\ UNCHANGED scene
    /\ \/ scene = "queue" /\ Next /\ UNCHANGED <<scriptVars, hashVars>>
       \/ scene = "script" /\ E!Next /\ UNCHANGED <<vars, hashVars>>
       \/ scene = "sighash" /\ H!Next /\ UNCHANGED <<vars, scriptVars>>

\* The scheduler runs every thread that can run, as in FairSpec.
ScriptsSpec ==
    /\ ScriptsInit /\ [][ScriptsNext]_<<scene, vars, scriptVars, hashVars>>
    /\ \A t \in Thread : WF_vars(scene = "queue" /\ pc[Master] # "aborted" /\ Loop(t))

-----------------------------------------------------------------------------
(* The properties; those of the queue are the ones of CheckQueue.           *)

\* EvalScript against what the script means: vfExec executes exactly the chosen
\* branches, the stack operations do what their comments say, the limits hold, and
\* CHECKMULTISIG finds an assignment of signatures to keys whenever there is one.
ScriptExact ==
    scene = "script" =>
        E!BranchesExact /\ E!EffectsExact /\ E!LimitsHold /\ E!MultisigExact

\* VerifyScript: a flag only ever makes fewer inputs valid, and the assert that the
\* stack of a P2SH input is not empty holds.
FlagsRestrict == scene = "script" => E!FlagsRestrict

\* SignatureHash: a signature stays good for exactly those changes of the
\* transaction that its hash type allows.
DigestCommits == scene = "sighash" => H!DigestCommits
=============================================================================
