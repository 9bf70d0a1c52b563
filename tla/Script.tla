------------------------------- MODULE Script -------------------------------
(***************************************************************************)
(* EvalScript and VerifyScript.  A script is a sequence of instructions; a *)
(* state is a script that is being written and executed at the same time,  *)
(* so that the states are all scripts over some opcodes.  Stack items are  *)
(* byte vectors as in ScriptNum; keys, signatures, hashes and serialized   *)
(* scripts begin with a negative number, and are too long for numbers.     *)
(***************************************************************************)
EXTENDS ScriptNum, TLC

CONSTANTS
    MaxElement, MaxOpCount, MaxStack, MaxPubKeys,   \* 520, 201, 1000 and 20
    Programs,       \* opcodes, start stacks, flags and length of the scripts to try
    Outputs,        \* the output scripts to verify against
    Serialized,     \* the scripts that items may hold
    Flags           \* the flags to verify with

VARIABLES program, flags, start, script, m

vars == <<program, flags, start, script, m>>

ScriptAssumption ==
    /\ NumAssumption /\ {MaxElement, MaxOpCount, MaxStack, MaxPubKeys} \subseteq Nat

-----------------------------------------------------------------------------
(* The opcodes, by what EvalScript does with them.                         *)

Pushes == {"push", "small", "OP_RESERVED"}      \* up to OP_16
Conditional == {"OP_IF", "OP_NOTIF", "OP_VERIF", "OP_VERNOTIF", "OP_ELSE", "OP_ENDIF"}
Disabled ==
    {"OP_CAT", "OP_SUBSTR", "OP_LEFT", "OP_RIGHT", "OP_INVERT", "OP_AND", "OP_OR", "OP_XOR",
     "OP_2MUL", "OP_2DIV", "OP_MUL", "OP_DIV", "OP_MOD", "OP_LSHIFT", "OP_RSHIFT"}

\* How many items the operations on the stack need.
Needs ==
    [op \in {"OP_2DROP", "OP_2DUP", "OP_NIP", "OP_OVER", "OP_SWAP", "OP_TUCK"} |-> 2]
    @@ [op \in {"OP_IFDUP", "OP_DROP", "OP_DUP", "OP_SIZE"} |-> 1]
    @@ [op \in {"OP_2OVER", "OP_2SWAP"} |-> 4] @@ [op \in {"OP_3DUP", "OP_ROT"} |-> 3]
    @@ "OP_2ROT" :> 6 @@ "OP_DEPTH" :> 0

Unary == {"OP_1ADD", "OP_1SUB", "OP_NEGATE", "OP_ABS", "OP_NOT", "OP_0NOTEQUAL"}
Binary ==
    {"OP_ADD", "OP_SUB", "OP_BOOLAND", "OP_BOOLOR", "OP_NUMEQUAL", "OP_NUMEQUALVERIFY",
     "OP_NUMNOTEQUAL", "OP_LESSTHAN", "OP_GREATERTHAN", "OP_LESSTHANOREQUAL",
     "OP_GREATERTHANOREQUAL", "OP_MIN", "OP_MAX"}

Hashes == "OP_RIPEMD160" :> 1 @@ "OP_SHA1" :> 2 @@ "OP_SHA256" :> 3 @@ "OP_HASH160" :> 4
          @@ "OP_HASH256" :> 5

\* The comments at the opcodes: how many items they need and what becomes of these.
Effect ==
    "OP_2DROP" :> <<2, <<>>>> @@ "OP_2DUP" :> <<2, <<1, 2, 1, 2>>>>
    @@ "OP_3DUP" :> <<3, <<1, 2, 3, 1, 2, 3>>>> @@ "OP_2OVER" :> <<4, <<1, 2, 3, 4, 1, 2>>>>
    @@ "OP_2ROT" :> <<6, <<3, 4, 5, 6, 1, 2>>>> @@ "OP_2SWAP" :> <<4, <<3, 4, 1, 2>>>>
    @@ "OP_DROP" :> <<1, <<>>>> @@ "OP_DUP" :> <<1, <<1, 1>>>> @@ "OP_NIP" :> <<2, <<2>>>>
    @@ "OP_OVER" :> <<2, <<1, 2, 1>>>> @@ "OP_ROT" :> <<3, <<2, 3, 1>>>>
    @@ "OP_SWAP" :> <<2, <<2, 1>>>> @@ "OP_TUCK" :> <<2, <<2, 1, 2>>>>

-----------------------------------------------------------------------------
(* Instructions and items.                                                  *)

Op(op) == [op |-> op, arg |-> <<>>, code |-> Byte]
Push(data) == [op |-> "push", arg |-> data, code |-> Len(data)]
Small(n) == [op |-> "small", arg |-> serialize(n), code |-> OP_1 + n - 1]

Key(k, hybrid) == <<-1, k, hybrid>>
Signature(k, sep, form) == <<-2, k, sep, form>>
HashOf(op, item) == <<-3, op, 0>> \o item
ScriptItem(s) == <<-4, s, 0>>
IsItem(item, tag) == item # <<>> /\ item[1] = tag

Canonical == 0
HighS == 1
OddHashType == 2
NotDER == 3

vchTrue == <<1>>
vchFalse == <<>>
Bool(b) == IF b THEN vchTrue ELSE vchFalse

\* Bytes that are no script of the instance have a bad opcode.
Decoded(item) ==
    IF item = <<>> THEN <<>>
    ELSE IF IsItem(item, -4) THEN Serialized[item[2]] ELSE <<Op("OP_INVALIDOPCODE")>>

-----------------------------------------------------------------------------
(* Signatures.  One is good for its key and for the code after the          *)
(* OP_CODESEPARATOR it was made for; "form" is how it is encoded.           *)

CheckSignatureEncoding(sig, f) ==
    LET form == IF IsItem(sig, -2) THEN sig[4] ELSE NotDER
    IN  /\ f \cap {"DERSIG", "LOW_S", "STRICTENC"} # {} => form # NotDER
        /\ "LOW_S" \in f => form # HighS
        /\ "STRICTENC" \in f => form # OddHashType

CheckPubKeyEncoding(key, f) == "STRICTENC" \in f => IsItem(key, -1) /\ key[3] = 0

CheckSig(sig, key, sep) ==
    IsItem(key, -1) /\ IsItem(sig, -2) /\ sig[2] = key[2] /\ sig[3] = sep

-----------------------------------------------------------------------------
(* The operations on the stack.                                             *)

Top(s, k) == s[Len(s) + 1 - k]
Drop(s, k) == SubSeq(s, 1, Len(s) - k)
Swap(s, j, k) == [s EXCEPT ![Len(s) + 1 - j] = Top(s, k), ![Len(s) + 1 - k] = Top(s, j)]
Erase(s, k) == RemoveAt(s, Len(s) + 1 - k)

StackOp(op, s) ==
    CASE op = "OP_2DROP" -> Drop(s, 2)
      [] op = "OP_2DUP" -> s \o <<Top(s, 2), Top(s, 1)>>
      [] op = "OP_3DUP" -> s \o <<Top(s, 3), Top(s, 2), Top(s, 1)>>
      [] op = "OP_2OVER" -> s \o <<Top(s, 4), Top(s, 3)>>
      [] op = "OP_2ROT" -> Erase(Erase(s, 6), 5) \o <<Top(s, 6), Top(s, 5)>>
      [] op = "OP_2SWAP" -> Swap(Swap(s, 4, 2), 3, 1)
      [] op = "OP_IFDUP" -> IF CastToBool(Top(s, 1)) THEN Append(s, Top(s, 1)) ELSE s
      [] op = "OP_DEPTH" -> Append(s, serialize(Len(s)))
      [] op = "OP_DROP" -> Drop(s, 1)
      [] op = "OP_DUP" -> Append(s, Top(s, 1))
      [] op = "OP_NIP" -> Erase(s, 2)
      [] op = "OP_OVER" -> Append(s, Top(s, 2))
      [] op = "OP_ROT" -> Swap(Swap(s, 3, 2), 2, 1)
      [] op = "OP_SWAP" -> Swap(s, 2, 1)
      [] op = "OP_TUCK" -> InsertAt(s, Len(s) - 1, Top(s, 1))
      [] op = "OP_SIZE" -> Append(s, serialize(Len(Top(s, 1))))

UnaryOp(op, n) ==
    CASE op = "OP_1ADD" -> n + 1
      [] op = "OP_1SUB" -> n - 1
      [] op = "OP_NEGATE" -> -n
      [] op = "OP_ABS" -> IF n < 0 THEN -n ELSE n
      [] op = "OP_NOT" -> IF n = 0 THEN 1 ELSE 0
      [] op = "OP_0NOTEQUAL" -> IF n # 0 THEN 1 ELSE 0

BinaryOp(op, a, b) ==
    LET Is(c) == IF c THEN 1 ELSE 0
    IN  CASE op = "OP_ADD" -> a + b
          [] op = "OP_SUB" -> a - b
          [] op = "OP_BOOLAND" -> Is(a # 0 /\ b # 0)
          [] op = "OP_BOOLOR" -> Is(a # 0 \/ b # 0)
          [] op \in {"OP_NUMEQUAL", "OP_NUMEQUALVERIFY"} -> Is(a = b)
          [] op = "OP_NUMNOTEQUAL" -> Is(a # b)
          [] op = "OP_LESSTHAN" -> Is(a < b)
          [] op = "OP_GREATERTHAN" -> Is(a > b)
          [] op = "OP_LESSTHANOREQUAL" -> Is(a <= b)
          [] op = "OP_GREATERTHANOREQUAL" -> Is(a >= b)
          [] op = "OP_MIN" -> IF a < b THEN a ELSE b
          [] op = "OP_MAX" -> IF a > b THEN a ELSE b

-----------------------------------------------------------------------------
(* The machine: stack, altstack, vfExec, nOpCount, the number of            *)
(* instructions read, the code separator, and whether there is no error.    *)

Machine(s) ==
    [stack |-> s, alt |-> <<>>, vfExec |-> <<>>, nOpCount |-> 0, pc |-> 0, sep |-> 0, ok |-> TRUE]
Error(x) == [x EXCEPT !.ok = FALSE]
Stack(x, s) == [x EXCEPT !.stack = s]
\* The result of a comparison, which an opcode that ends in VERIFY takes off again.
Result(x, s, b, verify) ==
    IF ~verify THEN Stack(x, Append(s, Bool(b))) ELSE IF b THEN Stack(x, s) ELSE Error(x)

fExec(x) == \A i \in DOMAIN x.vfExec : x.vfExec[i]

\* The first signature is tried with one key after the other, then the next one
\* with the rest, until there are fewer keys than signatures left.
RECURSIVE Match(_, _, _, _)
Match(sigs, pubkeys, sep, f) ==
    IF sigs = <<>> THEN "true"
    ELSE IF Len(sigs) > Len(pubkeys) THEN "false"
    ELSE IF ~CheckSignatureEncoding(sigs[1], f) \/ ~CheckPubKeyEncoding(pubkeys[1], f) THEN "error"
    ELSE Match(IF CheckSig(sigs[1], pubkeys[1], sep) THEN Tail(sigs) ELSE sigs,
               Tail(pubkeys), sep, f)

CheckMultiSig(x, verify, f) ==
    LET s == x.stack
        fRequireMinimal == "MINIMALDATA" \in f
        Count(i) == IF Len(s) >= i /\ IsNum(Top(s, i), fRequireMinimal)
                    THEN set_vch(Top(s, i)) ELSE -1
        nKeysCount == Count(1)
        nSigsCount == Count(2 + nKeysCount)
        size == 3 + nKeysCount + nSigsCount
        nOpCount == x.nOpCount + nKeysCount
        pubkeys == [i \in 1 .. nKeysCount |-> Top(s, 1 + i)]
        sigs == [i \in 1 .. nSigsCount |-> Top(s, 2 + nKeysCount + i)]
        result == Match(sigs, pubkeys, x.sep, f)
    IN  IF \/ nKeysCount \notin 0 .. MaxPubKeys \/ nOpCount > MaxOpCount
           \/ nSigsCount \notin 0 .. nKeysCount \/ Len(s) < size
        THEN Error(x)
        ELSE IF result = "error" \/ ("NULLDUMMY" \in f /\ Top(s, size) # <<>>) THEN Error(x)
        ELSE Result([x EXCEPT !.nOpCount = nOpCount], Drop(s, size), result = "true", verify)

\* An IF that is not executed. Faulty variant: it is not counted.
FaultyNested(x) == x
Nested(x) == [x EXCEPT !.vfExec = Append(@, FALSE)]

Control(op, x) ==
    LET s == x.stack
        value == CastToBool(Top(s, 1)) <=> op = "OP_IF"
    IN  CASE op \in {"OP_IF", "OP_NOTIF"} ->
                IF ~fExec(x) THEN Nested(x)
                ELSE IF s = <<>> THEN Error(x)
                ELSE [x EXCEPT !.vfExec = Append(@, value), !.stack = Drop(s, 1)]
          [] op = "OP_ELSE" /\ x.vfExec # <<>> -> [x EXCEPT !.vfExec[Len(x.vfExec)] = ~@]
          [] op = "OP_ENDIF" /\ x.vfExec # <<>> -> [x EXCEPT !.vfExec = Front(@)]
          [] OTHER -> Error(x)

\* An opcode that is executed, on a stack that is large enough for those of Needs.
Execute(op, x, f) ==
    LET s == x.stack
        Has(k) == Len(s) >= k
        IsN(k) == Has(k) /\ IsNum(Top(s, k), "MINIMALDATA" \in f)
        N(k) == set_vch(Top(s, k))
    IN  CASE op = "OP_NOP" -> x
          [] op = "OP_NOP1" /\ "DISCOURAGE_UPGRADABLE_NOPS" \notin f -> x
          [] op = "OP_VERIFY" /\ Has(1) -> Result(x, Drop(s, 1), CastToBool(Top(s, 1)), TRUE)
          [] op = "OP_TOALTSTACK" /\ Has(1) ->
                [x EXCEPT !.stack = Drop(s, 1), !.alt = Append(@, Top(s, 1))]
          [] op = "OP_FROMALTSTACK" /\ x.alt # <<>> ->
                [x EXCEPT !.stack = Append(s, Last(x.alt)), !.alt = Front(@)]
          [] op \in DOMAIN Needs /\ Has(IF op \in DOMAIN Needs THEN Needs[op] ELSE 0) ->
                Stack(x, StackOp(op, s))
          [] op \in {"OP_PICK", "OP_ROLL"} /\ Has(2) /\ IsN(1) ->
                IF N(1) \notin 0 .. Len(s) - 2 THEN Error(x)
                ELSE Stack(x, Append(IF op = "OP_PICK" THEN Drop(s, 1)
                                     ELSE Erase(Drop(s, 1), N(1) + 1), Top(s, N(1) + 2)))
          [] op \in {"OP_EQUAL", "OP_EQUALVERIFY"} /\ Has(2) ->
                Result(x, Drop(s, 2), Top(s, 2) = Top(s, 1), op = "OP_EQUALVERIFY")
          [] op \in Unary /\ IsN(1) -> Stack(x, Append(Drop(s, 1), serialize(UnaryOp(op, N(1)))))
          [] op \in Binary /\ IsN(2) /\ IsN(1) ->
                LET n == BinaryOp(op, N(2), N(1))
                IN  IF op = "OP_NUMEQUALVERIFY" THEN Result(x, Drop(s, 2), n = 1, TRUE)
                    ELSE Stack(x, Append(Drop(s, 2), serialize(n)))
          [] op = "OP_WITHIN" /\ IsN(3) /\ IsN(2) /\ IsN(1) ->
                Result(x, Drop(s, 3), N(2) <= N(3) /\ N(3) < N(1), FALSE)
          [] op \in DOMAIN Hashes /\ Has(1) ->
                Stack(x, Append(Drop(s, 1), HashOf(Hashes[op], Top(s, 1))))
          [] op = "OP_CODESEPARATOR" -> [x EXCEPT !.sep = x.pc]
          [] op \in {"OP_CHECKSIG", "OP_CHECKSIGVERIFY"} /\ Has(2) ->
                IF ~CheckSignatureEncoding(Top(s, 2), f) \/ ~CheckPubKeyEncoding(Top(s, 1), f)
                THEN Error(x)
                ELSE Result(x, Drop(s, 2), CheckSig(Top(s, 2), Top(s, 1), x.sep),
                            op = "OP_CHECKSIGVERIFY")
          [] op \in {"OP_CHECKMULTISIG", "OP_CHECKMULTISIGVERIFY"} ->
                CheckMultiSig(x, op = "OP_CHECKMULTISIGVERIFY", f)
          [] OTHER -> Error(x)

StackLimit(x) == IF Len(x.stack) + Len(x.alt) > MaxStack THEN Error(x) ELSE x

Step(x, i, f) ==
    LET y == [x EXCEPT !.pc = @ + 1, !.nOpCount = IF i.op \in Pushes THEN @ ELSE @ + 1]
    IN  IF Len(i.arg) > MaxElement \/ y.nOpCount > MaxOpCount \/ i.op \in Disabled THEN Error(y)
        ELSE StackLimit(
            CASE i.op = "push" /\ fExec(x) ->
                    IF "MINIMALDATA" \in f /\ ~CheckMinimalPush(i.arg, i.code) THEN Error(y)
                    ELSE Stack(y, Append(y.stack, i.arg))
              [] i.op = "small" /\ fExec(x) -> Stack(y, Append(y.stack, i.arg))
              [] i.op \in Conditional -> Control(i.op, y)
              [] i.op \notin {"push", "small"} \cup Conditional /\ fExec(x) -> Execute(i.op, y, f)
              [] OTHER -> y)

Ended(x) == [ok |-> x.ok /\ x.vfExec = <<>>, stack |-> x.stack]
EvalScript(s, code, f) ==
    Ended(FoldLeft(LAMBDA x, i : IF x.ok THEN Step(x, i, f) ELSE x, Machine(s), code))

IsPushOnly(code) == \A i \in DOMAIN code : code[i].op \in Pushes
IsPayToScriptHash(code) ==
    /\ Len(code) = 3 /\ code[1].op = "OP_HASH160" /\ code[3].op = "OP_EQUAL"
    /\ code[2].op = "push" /\ IsItem(code[2].arg, -3)
Good(e) == e.ok /\ e.stack # <<>> /\ CastToBool(Last(e.stack))

\* Faulty variant: what the output script leaves is not looked at.
FaultyPassed(e) == e.ok
Passed(e) == Good(e)

CleanStack(e, f) ==
    IF Good(e) /\ ("CLEANSTACK" \in f => Len(e.stack) = 1) THEN "true" ELSE "false"

\* e1 and e2 are what the scripts of the input and of the output leave; "assert" is
\* where the code would stop.
PayToScriptHash(e1, scriptSig, f) ==
    IF ~IsPushOnly(scriptSig) THEN "false"
    ELSE IF e1.stack = <<>> THEN "assert"
    ELSE CleanStack(EvalScript(Front(e1.stack), Decoded(Last(e1.stack)), f), f)

VerifyOutput(e1, e2, scriptSig, scriptPubKey, f) ==
    IF ~e1.ok \/ ~Passed(e2) THEN "false"
    ELSE IF "P2SH" \in f /\ IsPayToScriptHash(scriptPubKey) THEN PayToScriptHash(e1, scriptSig, f)
    ELSE CleanStack(e2, f)

VerifyInput(e1, scriptSig, scriptPubKey, f) ==
    VerifyOutput(e1, EvalScript(e1.stack, scriptPubKey, f), scriptSig, scriptPubKey, f)

VerifyScript(scriptSig, scriptPubKey, f) ==
    IF "SIGPUSHONLY" \in f /\ ~IsPushOnly(scriptSig) THEN "false"
    ELSE VerifyInput(EvalScript(<<>>, scriptSig, f), scriptSig, scriptPubKey, f)

-----------------------------------------------------------------------------

Init ==
    /\ program \in DOMAIN Programs
    /\ flags \in Programs[program].flags /\ start \in Programs[program].stacks
    /\ script = <<>> /\ m = Machine(start)

Next ==
    /\ m.ok /\ Len(script) < Programs[program].length
    /\ \E i \in Programs[program].ops : script' = Append(script, i) /\ m' = Step(m, i, flags)
    /\ UNCHANGED <<program, flags, start>>

Spec == Init /\ [][Next]_vars

-----------------------------------------------------------------------------
(* Conditionals by their structure: what is between an IF and its ENDIF is  *)
(* cut at the ELSEs of its own level, and every second piece is executed.   *)

IsIf(i) == i.op \in {"OP_IF", "OP_NOTIF"}
Depth(s, k) ==
    Cardinality({j \in 1 .. k : IsIf(s[j])}) - Cardinality({j \in 1 .. k : s[j].op = "OP_ENDIF"})
Balanced(s) ==
    /\ \A k \in DOMAIN s : Depth(s, k) >= IF s[k].op = "OP_ELSE" THEN 1 ELSE 0
    /\ Depth(s, Len(s)) = 0

\* s begins with an IF, which ends at e.
Chosen(s, e, value) ==
    LET elses == {k \in 2 .. e - 1 : s[k].op = "OP_ELSE" /\ Depth(s, k) = 1}
        taken == {k \in (2 .. e - 1) \ elses :
                    value <=> Cardinality({j \in elses : j < k}) % 2 = 0}
    IN  [n \in 1 .. Cardinality(taken) |->
            s[CHOOSE k \in taken : Cardinality({j \in taken : j <= k}) = n]]

RECURSIVE Structured(_, _, _)
Structured(s, x, f) ==
    IF ~x.ok \/ s = <<>> THEN x
    ELSE IF ~IsIf(s[1]) THEN Structured(Tail(s), Step([x EXCEPT !.nOpCount = 0], s[1], f), f)
    ELSE IF x.stack = <<>> THEN Error(x)
    ELSE LET e == Min({k \in DOMAIN s : Depth(s, k) = 0})
             value == CastToBool(Last(x.stack)) <=> s[1].op = "OP_IF"
         IN  Structured(Chosen(s, e, value) \o SubSeq(s, e + 1, Len(s)),
                        Stack(x, Front(x.stack)), f)

\* A script with balanced conditionals leaves what its chosen branches leave, and
\* fails if they fail, if it has a disabled opcode anywhere, or if it has too many
\* opcodes, executed or not; any other is not finished or fails.
BranchesExact ==
    program = "branches" =>
        LET x == Structured(script, Machine(start), flags)
            always ==
                \/ \E i \in DOMAIN script : script[i].op \in Disabled \cup {"OP_VERIF", "OP_VERNOTIF"}
                \/ Cardinality({i \in DOMAIN script : script[i].op \notin Pushes}) > MaxOpCount
        IN  IF ~Balanced(script) THEN m.ok => m.vfExec # <<>>
            ELSE /\ m.ok <=> ~always /\ x.ok
                 /\ m.ok => m.stack = x.stack /\ m.alt = x.alt /\ m.vfExec = <<>>

\* Every stack operation does what its comment says to the items above, and nothing
\* to those below; what is pushed by PICK stays in its place and by ROLL does not.
EffectsExact ==
    m.ok /\ fExec(m) /\ program = "stack" =>
        /\ \A op \in DOMAIN Effect :
            LET n == Effect[op][1]
                x == Step(m, Op(op), flags)
                items == SubSeq(m.stack, Len(m.stack) - n + 1, Len(m.stack))
                expected == Drop(m.stack, n)
                            \o [i \in DOMAIN Effect[op][2] |-> items[Effect[op][2][i]]]
            IN  IF Len(m.stack) < n \/ m.nOpCount = MaxOpCount THEN ~x.ok
                ELSE /\ x.ok <=> Len(expected) + Len(m.alt) <= MaxStack
                     /\ x.stack = expected
        /\ \A n \in 0 .. Len(m.stack) - 1 :
            LET s == m.stack
                x(op) == Execute(op, Stack(m, Append(s, serialize(n))), flags)
            IN  /\ x("OP_PICK").stack = Append(s, s[Len(s) - n])
                /\ x("OP_ROLL").stack
                    = SubSeq(s, 1, Len(s) - n - 1) \o SubSeq(s, Len(s) - n + 1, Len(s))
                      \o <<s[Len(s) - n]>>

\* Limits hold in every state of a script that has not failed.
LimitsHold == m.ok => m.nOpCount <= MaxOpCount /\ Len(m.stack) + Len(m.alt) <= MaxStack

\* CHECKMULTISIG is true exactly if the signatures can be given to different keys
\* in the order of the keys, each to one it is good for.
MultisigExact ==
    m.ok /\ program = "multisig" =>
        \A k \in 0 .. 3 : \A n \in 0 .. k :
            LET s == m.stack
                form == /\ Len(s) >= k + n + 3
                        /\ Top(s, 1) = serialize(k) /\ Top(s, k + 2) = serialize(n)
                key(i) == Top(s, 1 + i)
                sig(i) == Top(s, 2 + k + i)
                x == Execute("OP_CHECKMULTISIG", m, flags)
            IN  form /\ x.ok =>
                x.stack = Append(Drop(s, k + n + 3),
                    Bool(\E g \in [1 .. n -> 1 .. k] :
                            /\ \A i, j \in 1 .. n : i < j => g[i] < g[j]
                            /\ \A i \in 1 .. n : CheckSig(sig(i), key(g[i]), m.sep)))

\* Every flag only makes fewer scripts valid ("P2SH should be one", a softfork), and
\* the stack of P2SH is never empty; CLEANSTACK is used with P2SH only.
FlagsRestrict ==
    program = "verify" =>
        \A pub \in Outputs :
            LET sets == {f \in SUBSET Flags : "CLEANSTACK" \in f => "P2SH" \in f}
                verdict == [f \in sets |-> VerifyScript(script, pub, f)]
            IN  \A f \in sets :
                    /\ verdict[f] # "assert"
                    /\ verdict[f] = "true" =>
                        \A x \in f : f \ {x} \in sets => verdict[f \ {x}] = "true"
=============================================================================
