----------------------------- MODULE ScriptNum ------------------------------
(***************************************************************************)
(* Byte vectors as numbers and as truth values (CScriptNum, CastToBool),   *)
(* and how a script pushes them (CScript::operator<<, GetOp,               *)
(* CheckMinimalPush).  A byte has Byte values, 256 in the code, and its    *)
(* upper half has the sign bit set.                                        *)
(***************************************************************************)
EXTENDS Integers, Sequences, SequencesExt, FiniteSetsExt

CONSTANTS
    Byte,
    nMaxNumSize,    \* of the operand of a numeric operation
    OP_PUSHDATA1,   \* the sizes below are opcodes that push so many bytes
    MaxSmall        \* 16: the largest number with an opcode of its own

SignBit == Byte \div 2

NumAssumption ==
    /\ Byte \in Nat /\ Byte >= 4 /\ Byte % 2 = 0 /\ nMaxNumSize \in Nat \ {0}
    /\ OP_PUSHDATA1 \in 2 .. Byte - 1 /\ MaxSmall \in 1 .. SignBit - 1

-----------------------------------------------------------------------------

RECURSIVE Digits(_)
Digits(n) == IF n = 0 THEN <<>> ELSE <<n % Byte>> \o Digits(n \div Byte)

\* The sign is put into the last byte, or into one more if its sign bit is in use.
serialize(value) ==
    LET neg == value < 0
        result == Digits(IF neg THEN -value ELSE value)
    IN  IF value = 0 THEN <<>>
        ELSE IF Last(result) >= SignBit THEN Append(result, IF neg THEN SignBit ELSE 0)
        ELSE IF neg THEN Append(Front(result), Last(result) + SignBit)
        ELSE result

Unsigned(vch) == FoldRight(LAMBDA b, n : b + Byte * n, vch, 0)

set_vch(vch) ==
    IF vch = <<>> THEN 0
    ELSE IF Last(vch) >= SignBit THEN -Unsigned(Append(Front(vch), Last(vch) - SignBit))
    ELSE Unsigned(vch)

IsMinimal(vch) ==
    \/ vch = <<>> \/ Last(vch) % SignBit # 0
    \/ Len(vch) > 1 /\ vch[Len(vch) - 1] >= SignBit

\* The constructor throws for what is too long or, if asked, not minimal.
IsNum(vch, fRequireMinimal) ==
    Len(vch) <= nMaxNumSize /\ (fRequireMinimal => IsMinimal(vch))

CastToBool(vch) ==
    \E i \in DOMAIN vch : vch[i] # 0 /\ ~(i = Len(vch) /\ vch[i] = SignBit)

-----------------------------------------------------------------------------
(* Pushes.  Opcodes are numbers; those from OP_1 on push a small number.    *)

OP_PUSHDATA2 == OP_PUSHDATA1 + 1
OP_PUSHDATA4 == OP_PUSHDATA1 + 2
OP_1NEGATE == OP_PUSHDATA1 + 3
OP_1 == OP_PUSHDATA1 + 5

\* Sizes in 1, 2 or 4 bytes, the lowest first.
Fixed(n, size) == [i \in 1 .. size |-> (n \div Byte^(i - 1)) % Byte]
SizeBytes == OP_PUSHDATA1 :> 1 @@ OP_PUSHDATA2 :> 2 @@ OP_PUSHDATA4 :> 4

PushData(b) ==
    LET size == Len(b)
        op == IF size < Byte THEN OP_PUSHDATA1
              ELSE IF size < Byte^2 THEN OP_PUSHDATA2 ELSE OP_PUSHDATA4
    IN  IF size < OP_PUSHDATA1 THEN <<size>> \o b
        ELSE <<op>> \o Fixed(size, SizeBytes[op]) \o b

push_int64(n) ==
    IF n = -1 \/ n \in 1 .. MaxSmall THEN <<n + OP_1 - 1>>
    ELSE IF n = 0 THEN <<0>> ELSE PushData(serialize(n))

\* The next opcode of a script, its operand and what follows, or ok = FALSE.
GetOp(script) ==
    LET bad == [ok |-> FALSE]
        opcode == Head(script)
        n == IF opcode \in DOMAIN SizeBytes THEN SizeBytes[opcode] ELSE 0
        rest == SubSeq(script, 2 + n, Len(script))
        nSize == IF n = 0 THEN opcode ELSE Unsigned(SubSeq(script, 2, 1 + n))
    IN  IF script = <<>> THEN bad
        ELSE IF opcode > OP_PUSHDATA4
        THEN [ok |-> TRUE, opcode |-> opcode, data |-> <<>>, rest |-> rest]
        ELSE IF Len(script) < 1 + n \/ Len(rest) < nSize THEN bad
        ELSE [ok |-> TRUE, opcode |-> opcode, data |-> SubSeq(rest, 1, nSize),
              rest |-> SubSeq(rest, nSize + 1, Len(rest))]

\* What an instruction leaves on the stack.
Pushed(g) == IF g.opcode <= OP_PUSHDATA4 THEN g.data ELSE serialize(g.opcode - OP_1 + 1)

CheckMinimalPush(data, opcode) ==
    IF data = <<>> THEN opcode = 0
    ELSE IF Len(data) = 1 /\ data[1] \in 1 .. MaxSmall THEN opcode = OP_1 + data[1] - 1
    ELSE IF data = <<SignBit + 1>> THEN opcode = OP_1NEGATE
    ELSE IF Len(data) < OP_PUSHDATA1 THEN opcode = Len(data)
    ELSE IF Len(data) < Byte THEN opcode = OP_PUSHDATA1
    ELSE IF Len(data) < Byte^2 THEN opcode = OP_PUSHDATA2
    ELSE TRUE
=============================================================================
