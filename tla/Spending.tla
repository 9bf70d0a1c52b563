------------------------------ MODULE Spending ------------------------------
(***************************************************************************)
(* How the wallet pays: SendMoney, the selection of coins, and the loop of *)
(* CreateTransaction that raises the fee until it is enough for the size   *)
(* of what was built.  cs_main and cs_wallet are held all along, so the    *)
(* coins do not change.  Amounts are exact; a size is that of so many      *)
(* inputs and outputs, and the signatures add some bytes each time anew.   *)
(* Random choices, of the order of the coins and of the subsets that are   *)
(* tried, are free choices.                                                *)
(***************************************************************************)
EXTENDS Integers, Sequences, SequencesExt, FiniteSetsExt

CONSTANTS
    Coin, Wallets, Sends,           \* coins, and wallets and payments to try
    CENT,
    MinRelay, MinTx, PayTx, Estimate, MaxTxFee,     \* rates and the limit of fees
    Kilo, InputSize, OutputSize, SpendSize, SigBytes, MaxSize, MaxFreeSize,
    SendFree, SpendZeroConf

VARIABLES
    vCoins,         \* nValue, nDepth, IsFromMe and fSpendable of the coins
    vecSend,        \* the amounts to pay
    step,           \* of SendMoney
    nFeeRet, setCoins, nChange,
    nBytes,
    key,            \* of the reservation: "pool", "reserved" or "kept"
    labelled        \* txDestChange is set

vars == <<vCoins, vecSend, step, nFeeRet, setCoins, nChange, nBytes, key, labelled>>

SpendingAssumption ==
    /\ Wallets \subseteq [Coin -> [nValue : Nat \ {0}, nDepth : Nat, fromMe : BOOLEAN,
                                  fSpendable : BOOLEAN]]
    /\ Sends \subseteq Seq(Nat \ {0}) /\ <<>> \notin Sends
    /\ {CENT, Kilo, InputSize, OutputSize, SpendSize, MaxSize} \subseteq Nat \ {0}
    /\ {MinRelay, MinTx, PayTx, Estimate, MaxTxFee, MaxFreeSize} \subseteq Nat
    /\ SigBytes \subseteq Nat /\ {SendFree, SpendZeroConf} \subseteq BOOLEAN

Steps == {"select", "price", "commit", "failed", "done"}
TypeOK ==
    /\ step \in Steps /\ nFeeRet \in Nat /\ setCoins \subseteq Coin
    /\ nChange \in Nat /\ nBytes \in Nat /\ key \in {"pool", "reserved", "kept"}
    /\ labelled \in BOOLEAN

Total(S) == MapThenSumSet(LAMBDA c : vCoins[c].nValue, S)
nValue == FoldLeft(+, 0, vecSend)

-----------------------------------------------------------------------------
(* Fees.                                                                    *)

GetFee(rate, size) ==
    LET nFee == (rate * size) \div Kilo
    IN  IF nFee = 0 THEN rate ELSE nFee

IsDust(n) == n < 3 * GetFee(MinRelay, SpendSize)

FirstFee(size) ==
    IF PayTx > 0 THEN Max({GetFee(PayTx, size), PayTx})
    ELSE IF Estimate > 0 THEN GetFee(Estimate, size) ELSE GetFee(MinTx, size)

GetMinimumFee(size) == Min({Max({FirstFee(size), GetFee(MinRelay, size)}), MaxTxFee})

-----------------------------------------------------------------------------
(* Selection: each operator gives the sets of coins that may be chosen.     *)

\* One repetition of ApproximateBestSubset: first the coins of "drawn", in the
\* order of vValue, then, if they did not reach the target, the others. A coin
\* that reaches it is taken out again.
Try(vValue, target, drawn, total) ==
    LET Add(s, c) ==
            LET sum == s.sum + vCoins[c].nValue
            IN  IF sum < target THEN [s EXCEPT !.sum = sum, !.included = @ \cup {c}]
                ELSE [s EXCEPT !.reached = TRUE,
                               !.nBest = Min({@, sum}),
                               !.best = IF sum < s.nBest THEN s.included \cup {c} ELSE @]
        First == FoldLeft(Add, [sum |-> 0, included |-> {}, reached |-> FALSE,
                                nBest |-> total, best |-> ToSet(vValue)],
                          SelectSeq(vValue, LAMBDA c : c \in drawn))
    IN  IF First.reached THEN First
        ELSE FoldLeft(Add, First, SelectSeq(vValue, LAMBDA c : c \notin drawn))

\* What is kept after all the repetitions is the best of one of them, and any of
\* them may be the only one that was drawn.
ApproximateBestSubset(vValue, total, target) ==
    IF total = target THEN {ToSet(vValue)}
    ELSE {Try(vValue, target, drawn, total).best : drawn \in SUBSET ToSet(vValue)}

\* By value, the largest first; equal ones in any order.
Sorted(S) == {s \in SetToSeqs(S) : IsSorted(s, LAMBDA c, d : vCoins[c].nValue >= vCoins[d].nValue)}

Eligible(nConfMine, nConfTheirs) ==
    {c \in Coin : /\ vCoins[c].fSpendable
                  /\ vCoins[c].nDepth >= IF vCoins[c].fromMe THEN nConfMine ELSE nConfTheirs}

\* The second try leaves change of at least CENT. Faulty variant: it is not made.
FaultyBestSubsets(lower, target) ==
    UNION {ApproximateBestSubset(s, Total(lower), target) : s \in Sorted(lower)}

BestSubsets(lower, target) ==
    UNION {UNION {IF Total(b) # target /\ Total(lower) >= target + CENT
                  THEN ApproximateBestSubset(s, Total(lower), target + CENT)
                  ELSE {b} : b \in ApproximateBestSubset(s, Total(lower), target)}
           : s \in Sorted(lower)}

SelectCoinsMinConf(eligible, target) ==
    LET exact == {c \in eligible : vCoins[c].nValue = target}
        lower == {c \in eligible : vCoins[c].nValue < target + CENT}
        larger == eligible \ lower
        lowest == {c \in larger : \A d \in larger : vCoins[c].nValue <= vCoins[d].nValue}
        Prefers(b) ==
            \E c \in lowest : \/ Total(b) # target /\ Total(b) < target + CENT
                              \/ vCoins[c].nValue <= Total(b)
    IN  IF exact # {} THEN {{c} : c \in exact}
        ELSE IF Total(lower) = target THEN {lower}
        ELSE IF Total(lower) < target THEN {{c} : c \in lowest}
        ELSE LET best == BestSubsets(lower, target)
             IN  {b \in best : ~Prefers(b)}
                 \cup IF \E b \in best : Prefers(b) THEN {{c} : c \in lowest} ELSE {}

Levels ==
    <<Eligible(1, 6), Eligible(1, 1)>> \o IF SpendZeroConf THEN <<Eligible(0, 1)>> ELSE <<>>

SelectCoins(target) ==
    LET chosen == [i \in DOMAIN Levels |-> SelectCoinsMinConf(Levels[i], target)]
        good == {i \in DOMAIN Levels : chosen[i] # {}}
    IN  IF good = {} THEN {} ELSE chosen[Min(good)]

-----------------------------------------------------------------------------
(* SendMoney and CreateTransaction.                                         *)

\* SendMoney has refused an amount above GetBalance.
Init ==
    /\ vCoins \in Wallets /\ vecSend \in Sends /\ nValue <= Total(Last(Levels))
    /\ step = "select" /\ nFeeRet = 0 /\ setCoins = {} /\ nChange = 0 /\ nBytes = 0
    /\ key = "pool" /\ labelled = FALSE

Fail == step' = "failed"

TooSmall ==
    /\ step = "select" /\ \E i \in DOMAIN vecSend : IsDust(vecSend[i])
    /\ Fail /\ UNCHANGED <<vCoins, vecSend, nFeeRet, setCoins, nChange, nBytes, key, labelled>>

Insufficient ==
    /\ step = "select" /\ \A i \in DOMAIN vecSend : ~IsDust(vecSend[i])
    /\ SelectCoins(nValue + nFeeRet) = {}
    /\ Fail /\ UNCHANGED <<vCoins, vecSend, nFeeRet, setCoins, nChange, nBytes, key, labelled>>

\* Change that would be dust goes to the fee. A change output takes the reserved
\* key, the one of an earlier round if there is one; without it the key goes back.
Change(rest) ==
    LET none == rest = 0 \/ IsDust(rest)
    IN  /\ nChange' = IF none THEN 0 ELSE rest
        /\ nFeeRet' = IF none THEN nFeeRet + rest ELSE nFeeRet
        /\ key' = IF none THEN "pool" ELSE "reserved"
        /\ labelled' = (labelled \/ rest > 0)

Build ==
    /\ step = "select" /\ \A i \in DOMAIN vecSend : ~IsDust(vecSend[i])
    /\ \E S \in SelectCoins(nValue + nFeeRet) :
        /\ setCoins' = S
        /\ Change(Total(S) - nValue - nFeeRet)
    /\ \E b \in SigBytes :
        nBytes' = Cardinality(setCoins') * (InputSize + b)
                  + (Len(vecSend) + IF nChange' > 0 THEN 1 ELSE 0) * OutputSize
    /\ step' = "price"
    /\ UNCHANGED <<vCoins, vecSend>>

\* SignSignature fails for an input.
SignFails ==
    /\ step = "price"
    /\ Fail /\ UNCHANGED <<vCoins, vecSend, nFeeRet, setCoins, nChange, nBytes, key, labelled>>

\* The transaction is too large, or its fee would have to be above maxTxFee.
GiveUp ==
    /\ step = "price"
    /\ nBytes >= MaxSize \/ GetMinimumFee(nBytes) < GetFee(MinRelay, nBytes)
    /\ Fail /\ UNCHANGED <<vCoins, vecSend, nFeeRet, setCoins, nChange, nBytes, key, labelled>>

\* The priority may be enough for a free transaction.
Free ==
    /\ step = "price" /\ nBytes < MaxSize
    /\ SendFree /\ nBytes <= MaxFreeSize
    /\ step' = "commit"
    /\ UNCHANGED <<vCoins, vecSend, nFeeRet, setCoins, nChange, nBytes, key, labelled>>

Price ==
    /\ step = "price" /\ nBytes < MaxSize
    /\ GetMinimumFee(nBytes) >= GetFee(MinRelay, nBytes)
    /\ IF nFeeRet >= GetMinimumFee(nBytes)
       THEN step' = "commit" /\ UNCHANGED nFeeRet
       ELSE step' = "select" /\ nFeeRet' = GetMinimumFee(nBytes)
    /\ UNCHANGED <<vCoins, vecSend, setCoins, nChange, nBytes, key, labelled>>

\* CommitTransaction keeps the key, and the end of SendMoney gives back one that
\* is still reserved.
Commit ==
    /\ step = "commit" /\ step' = "done"
    /\ key' = IF key = "reserved" THEN "kept" ELSE key
    /\ UNCHANGED <<vCoins, vecSend, nFeeRet, setCoins, nChange, nBytes, labelled>>

Abandon ==
    /\ step = "failed" /\ key = "reserved" /\ key' = "pool"
    /\ UNCHANGED <<vCoins, vecSend, step, nFeeRet, setCoins, nChange, nBytes, labelled>>

Next ==
    \/ TooSmall \/ Insufficient \/ Build \/ SignFails \/ GiveUp \/ Free \/ Price \/ Commit \/ Abandon

Spec == Init /\ [][Next]_vars

-----------------------------------------------------------------------------
(* Properties.                                                              *)

Paid == step \in {"commit", "done"}

\* What the inputs are worth is what the outputs and the returned fee are worth.
Conserved == step \in {"price", "commit", "done"} => Total(setCoins) = nValue + nChange + nFeeRet

\* The fee is enough for the size that is sent, unless it was small enough to be
\* free, and no output is dust.
FeeEnough ==
    Paid =>
        /\ nFeeRet >= GetMinimumFee(nBytes) \/ (SendFree /\ nBytes <= MaxFreeSize)
        /\ nChange > 0 => ~IsDust(nChange)

\* A key has left the pool for good exactly when there is a change output.
KeyKeptForChange ==
    /\ step = "done" => (key = "kept" <=> nChange > 0)
    /\ key = "kept" => step = "done"

\* The coins are those of the first of the three levels of confirmation that has
\* enough of them, and the call fails for want of funds only if none has.
FirstLevel ==
    step = "select" =>
        LET target == nValue + nFeeRet
            enough == {i \in DOMAIN Levels : Total(Levels[i]) >= target}
        IN  /\ SelectCoins(target) = {} <=> enough = {}
            /\ \A S \in SelectCoins(target) : S \subseteq Levels[Min(enough)]

\* Change is nothing or at least CENT, unless all coins of the level together
\* would leave less.
ChangeNotSmall ==
    step = "select" =>
        LET target == nValue + nFeeRet
        IN  \A S \in SelectCoins(target) :
                \/ Total(S) = target \/ Total(S) >= target + CENT
                \/ \E i \in DOMAIN Levels : S \subseteq Levels[i] /\ Total(Levels[i]) < target + CENT

\* Each new round pays more than the last: the loop ends.
FeeRises == step = "price" /\ step' = "select" => nFeeRet' > nFeeRet

\* SendMoney: "set the change to be in the same account".
LabelIsChange == step = "done" /\ labelled => nChange > 0
=============================================================================
