------------------------------ MODULE SigHash -------------------------------
(***************************************************************************)
(* SignatureHash: which parts of a transaction a signature commits to.  A  *)
(* state is a signed transaction beside a copy of it, and each step        *)
(* changes the copy in one place.  The digest is the sequence of numbers   *)
(* that is hashed, so that two transactions have one digest exactly if     *)
(* they are serialised alike.                                              *)
(***************************************************************************)
EXTENDS Integers, Sequences, SequencesExt

CONSTANTS
    Txs,                    \* the transactions to sign
    Prevout, Out,           \* numbers for the outputs spent, and for the new ones
    Codes,                  \* script codes: sequences of opcodes and Separator
    MaxVin, MaxVout, MaxEdits

VARIABLES
    tx, copy,               \* vin, vout, nVersion, nLockTime and the script code
    nIn, nHashType, edits

vars == <<tx, copy, nIn, nHashType, edits>>

Separator == 0
Null == -1

SigHashAssumption ==
    /\ Prevout \subseteq Nat /\ Out \subseteq Nat /\ Codes \subseteq Seq(Nat)
    /\ {MaxVin, MaxVout, MaxEdits} \subseteq Nat

\* A hash type is its base and SIGHASH_ANYONECANPAY; any other base than NONE and
\* SINGLE is treated like ALL.
HashTypes == [base : {"ALL", "NONE", "SINGLE", "other"}, fAnyoneCanPay : BOOLEAN]

In == [prevout : Prevout, nSequence : {0, 1}]

-----------------------------------------------------------------------------

\* The code without its separators, written piece by piece after its length.
SerializeScriptCode(code) ==
    LET nCodeSeparators == Len(SelectSeq(code, LAMBDA op : op = Separator))
        Read(s, op) ==
            IF op = Separator THEN [written |-> s.written \o s.piece, piece |-> <<>>]
            ELSE [s EXCEPT !.piece = Append(@, op)]
        s == FoldLeft(Read, [written |-> <<>>, piece |-> <<>>], code)
    IN  <<Len(code) - nCodeSeparators>> \o s.written \o s.piece

SerializeInput(t, i, n, type) ==
    LET k == IF type.fAnyoneCanPay THEN n ELSE i
    IN  <<t.vin[k].prevout>>
        \o (IF k # n THEN <<0>> ELSE SerializeScriptCode(t.code))
        \o <<IF k # n /\ type.base \in {"NONE", "SINGLE"} THEN 0 ELSE t.vin[k].nSequence>>

\* Faulty variant: SINGLE signs no output at all.
FaultySerializeOutput(t, i, n, type) == IF type.base = "SINGLE" THEN <<Null>> ELSE <<t.vout[i]>>

SerializeOutput(t, i, n, type) ==
    IF type.base = "SINGLE" /\ i # n THEN <<Null>> ELSE <<t.vout[i]>>

Serialize(t, n, type) ==
    LET nInputs == IF type.fAnyoneCanPay THEN 1 ELSE Len(t.vin)
        nOutputs == IF type.base = "NONE" THEN 0 ELSE IF type.base = "SINGLE" THEN n ELSE Len(t.vout)
    IN  <<t.nVersion, nInputs>>
        \o FlattenSeq([i \in 1 .. nInputs |-> SerializeInput(t, i, n, type)])
        \o <<nOutputs>> \o FlattenSeq([i \in 1 .. nOutputs |-> SerializeOutput(t, i, n, type)])
        \o <<t.nLockTime>>

one == <<1>>

\* The hash type itself is written last; it is the same on both sides here.
SignatureHash(t, n, type) ==
    IF n > Len(t.vin) \/ (type.base = "SINGLE" /\ n > Len(t.vout)) THEN one
    ELSE Serialize(t, n, type)

-----------------------------------------------------------------------------

Init ==
    /\ tx \in Txs /\ copy = tx /\ edits = 0
    /\ nIn \in DOMAIN tx.vin /\ nHashType \in HashTypes

Edited(t) ==
    /\ edits < MaxEdits /\ edits' = edits + 1
    /\ copy' = t /\ UNCHANGED <<tx, nIn, nHashType>>

EditHeader ==
    \E n \in {1, 2} : Edited([copy EXCEPT !.nVersion = n]) \/ Edited([copy EXCEPT !.nLockTime = n])
EditInput == \E i \in DOMAIN copy.vin, x \in In : Edited([copy EXCEPT !.vin[i] = x])
EditOutput == \E i \in DOMAIN copy.vout, x \in Out : Edited([copy EXCEPT !.vout[i] = x])
AddInput == \E x \in In : Len(copy.vin) < MaxVin /\ Edited([copy EXCEPT !.vin = Append(@, x)])
AddOutput == \E x \in Out : Len(copy.vout) < MaxVout /\ Edited([copy EXCEPT !.vout = Append(@, x)])
DropOutput == Len(copy.vout) > 1 /\ Edited([copy EXCEPT !.vout = Front(@)])
EditCode == \E c \in Codes : Edited([copy EXCEPT !.code = c])

Next ==
    \/ EditHeader \/ EditInput \/ EditOutput \/ AddInput \/ AddOutput \/ DropOutput \/ EditCode

Spec == Init /\ [][Next]_vars

-----------------------------------------------------------------------------

Opcodes(code) == SelectSeq(code, LAMBDA op : op # Separator)

\* What is signed, by the hash type: all inputs or the own one, the sequence numbers
\* of the others only with ALL, and all outputs, none, or the one beside the input.
Commits ==
    /\ tx.nVersion = copy.nVersion /\ tx.nLockTime = copy.nLockTime
    /\ Opcodes(tx.code) = Opcodes(copy.code)
    /\ tx.vin[nIn] = copy.vin[nIn]
    /\ ~nHashType.fAnyoneCanPay =>
        /\ Len(tx.vin) = Len(copy.vin)
        /\ \A i \in DOMAIN tx.vin :
            /\ tx.vin[i].prevout = copy.vin[i].prevout
            /\ nHashType.base \in {"ALL", "other"} => tx.vin[i] = copy.vin[i]
    /\ nHashType.base \in {"ALL", "other"} => tx.vout = copy.vout
    /\ nHashType.base = "SINGLE" => tx.vout[nIn] = copy.vout[nIn]

\* A signature stays good for exactly those changes its hash type allows. SINGLE
\* without an output beside the input signs the number one, whatever the rest is.
DigestCommits ==
    LET OutOfRange(t) == nHashType.base = "SINGLE" /\ nIn > Len(t.vout)
    IN  SignatureHash(tx, nIn, nHashType) = SignatureHash(copy, nIn, nHashType)
        <=> IF OutOfRange(tx) \/ OutOfRange(copy) THEN OutOfRange(tx) /\ OutOfRange(copy)
            ELSE Commits
=============================================================================
