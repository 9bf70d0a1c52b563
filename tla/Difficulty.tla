----------------------------- MODULE Difficulty -----------------------------
(***************************************************************************)
(* The target of the next block, its compact form, and block times.        *)
(*                                                                         *)
(* arith_uint256 has Digits digits of base Base (32 of base 256), and the  *)
(* compact form a mantissa of three digits whose top bit is the sign.  A   *)
(* compact number is [size, word].  The mantissa of the code's 0x007fffff  *)
(* is Half - 1 with Half = Base^3 / 2.  Block times of Params() are scaled *)
(* down: the ratio of the limits to the timespan is that of the main net.  *)
(***************************************************************************)
EXTENDS Integers, Sequences, FiniteSets, FiniteSetsExt

CONSTANTS
    Base, Digits,
    ProofOfWorkLimit,
    TargetTimespan, TargetSpacing,
    AllowMinDifficultyBlocks,
    MedianTimeSpan,     \* 11 in the code
    Delays,             \* bound: the time from one block to the next
    MaxBlocks           \* bound

Modulus == Base ^ Digits
Half == Base ^ 3 \div 2
Interval == TargetTimespan \div TargetSpacing

DifficultyAssumption ==
    /\ Base \in {2, 4, 16, 256} /\ Digits > 3 /\ ProofOfWorkLimit \in 1 .. Modulus - 1
    /\ TargetTimespan % 4 = 0 /\ TargetTimespan % TargetSpacing = 0
    /\ 4 * TargetTimespan * ProofOfWorkLimit < Modulus

VARIABLES blocks    \* of the chain: time and nBits

vars == <<blocks>>

-----------------------------------------------------------------------------
(* arith_uint256.                                                           *)

SetCompact(c) ==
    IF c.size <= 3 THEN c.word \div Base ^ (3 - c.size)
    ELSE (c.word * Base ^ (c.size - 3)) % Modulus

Overflows(c) ==
    c.word # 0 /\ \/ c.size > Digits + 2
                  \/ c.word > Base - 1 /\ c.size > Digits + 1
                  \/ c.word > Base * Base - 1 /\ c.size > Digits

Size(x) == Min({n \in 0 .. Digits : x < Base ^ n})

\* A mantissa with the bit of the sign is divided by Base.  Faulty variant: it is
\* not, and loses the bit.
FaultySigned(size, word) == [size |-> size, word |-> word % Half]
Signed(size, word) ==
    IF word >= Half THEN [size |-> size + 1, word |-> word \div Base]
    ELSE [size |-> size, word |-> word]

GetCompact(x) ==
    LET n == Size(x)
    IN  Signed(n, IF n <= 3 THEN x * Base ^ (3 - n) ELSE x \div Base ^ (n - 3))

\* ~bnTarget / (bnTarget + 1) + 1.
GetBlockProof(c) ==
    LET target == SetCompact(c)
    IN  IF Overflows(c) \/ target = 0 THEN 0
        ELSE (Modulus - 1 - target) \div (target + 1) + 1

\* The range check of CheckProofOfWork.
InRange(c) ==
    LET target == SetCompact(c)
    IN  target # 0 /\ ~Overflows(c) /\ target <= ProofOfWorkLimit

-----------------------------------------------------------------------------
(* Block times and the work required.                                       *)

Last == Len(blocks)
Limit == GetCompact(ProofOfWorkLimit)

Sorted(S, f) ==
    CHOOSE seq \in [1 .. Cardinality(S) -> S] :
        /\ \A i, j \in 1 .. Cardinality(S) : i # j => seq[i] # seq[j]
        /\ \A i \in 1 .. Cardinality(S) - 1 : f[seq[i]] <= f[seq[i + 1]]

\* GetMedianTimePast of the n-th block.
MedianTimePast(n) ==
    LET span == Max({1, n - MedianTimeSpan + 1}) .. n
        times == [i \in span |-> blocks[i].time]
    IN  times[Sorted(span, times)[Cardinality(span) \div 2 + 1]]

\* The last block before the interval's first that is not a special one.
LastOrdinary ==
    Max({1} \cup {n \in 1 .. Last : (n - 1) % Interval = 0 \/ blocks[n].nBits # Limit})

Clamped(span) ==
    IF span < TargetTimespan \div 4 THEN TargetTimespan \div 4
    ELSE IF span > TargetTimespan * 4 THEN TargetTimespan * 4
    ELSE span

\* Faulty variant: the timespan is not limited.
FaultyRetarget(old, span) == Min({(old * Max({span, 0})) \div TargetTimespan, ProofOfWorkLimit})
Retarget(old, span) ==
    Min({((old * Clamped(span)) % Modulus) \div TargetTimespan, ProofOfWorkLimit})

GetNextWorkRequired(time) ==
    IF Last % Interval # 0
    THEN IF ~AllowMinDifficultyBlocks THEN blocks[Last].nBits
         ELSE IF time > blocks[Last].time + TargetSpacing * 2 THEN Limit
         ELSE blocks[LastOrdinary].nBits
    ELSE GetCompact(Retarget(SetCompact(blocks[Last].nBits),
                             blocks[Last].time - blocks[Last - Interval + 1].time))

Init == blocks = <<[time |-> 0, nBits |-> Limit]>>

\* A block that ContextualCheckBlockHeader accepts.  Faulty variant: any time is.
FaultyTooOld(time) == FALSE
TooOld(time) == time <= MedianTimePast(Last)

Accept(delay) ==
    LET time == blocks[Last].time + delay
    IN  /\ Last < MaxBlocks
        /\ ~TooOld(time)
        /\ blocks' = Append(blocks, [time |-> time, nBits |-> GetNextWorkRequired(time)])

Next == \E delay \in Delays : Accept(delay)

Spec == Init /\ [][Next]_vars

-----------------------------------------------------------------------------

\* What GetNextWorkRequired asks for is in the range of CheckProofOfWork, for every
\* target that retargeting leads to.
RequiredInRange == InRange(blocks[Last].nBits)

\* Block times may go back, the median of the last ones never does.
MedianGrows == Last > 1 => MedianTimePast(Last) >= MedianTimePast(Last - 1)

\* A retarget multiplies the target by at most four and, but for rounding to the
\* compact form, divides it by at most four.
StepLimited ==
    Last > 1 /\ (Last - 1) % Interval = 0 =>
        LET old == SetCompact(blocks[Last - 1].nBits)
            new == SetCompact(blocks[Last].nBits)
        IN  /\ new <= 4 * old
            /\ old <= 4 * (new + Base ^ Max({0, Size(new) - 2})) + 3

\* The compact form rounds down, by less than one unit of its mantissa, and is a
\* fixed point of the two conversions; the work of a target is 2^256 / (target + 1).
CompactExact ==
    Last = 1 => \A x \in 0 .. Modulus - 1 :
        LET c == GetCompact(x)
            y == SetCompact(c)
        IN  /\ y <= x /\ x - y < Base ^ Max({0, c.size - 3})
            /\ ~Overflows(c) /\ c.word < Half
            /\ GetCompact(y) = c \/ x = 0
            /\ y > 0 => GetBlockProof(c) = Modulus \div (y + 1)
=============================================================================
