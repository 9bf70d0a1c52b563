---------------------------- MODULE WalletProofs ----------------------------
(***************************************************************************)
(* Proofs about the key pool (KeyPool) and the wallet database (WalletDb), *)
(* for any number of holders, keys, users, writes and handles: no key is   *)
(* lost or taken twice, and no handle is closed under its user.            *)
(***************************************************************************)
EXTENDS KeyPool, WalletDb, FiniteSetTheorems, TLAPS

-----------------------------------------------------------------------------
(* Least and greatest indices.                                              *)

\* A set of natural numbers with an element has a least one: *setKeyPool.begin().
LEMMA MinIsLeast ==
    ASSUME NEW S \in SUBSET Nat, S # {}
    PROVE  Min(S) \in S /\ \A y \in S : Min(S) <= y
<1> DEFINE T == {0 .. x : x \in S}
           R == StrictSubsetOrdering(Nat)
<1>1. T \subseteq FiniteSubsetsOf(Nat) /\ T # {}
  <2>1. \A x \in S : 0 .. x \in SUBSET Nat /\ IsFiniteSet(0 .. x)
    BY FS_Interval
  <2>2. PICK x \in S : TRUE
    BY Zenon
  <2>3. 0 .. x \in T
    OBVIOUS
  <2> QED BY Zenon, <2>1, <2>3 DEF FiniteSubsetsOf
<1>2. IsWellFoundedOn(R, FiniteSubsetsOf(Nat))
  BY Zenon, FS_StrictSubsetOrderingWellFounded
<1>3. PICK I \in T : \A J \in T : ~ (<<J, I>> \in R)
  <2> HIDE DEF T, R
  <2> QED BY Zenon, <1>1, <1>2, WFMin
<1>4. PICK x \in S : I = 0 .. x
  OBVIOUS
<1>5. ASSUME NEW y \in S, y < x PROVE FALSE
  <2>1. 0 .. y \in T
    OBVIOUS
  <2>2. 0 .. y \subseteq 0 .. x /\ x \in 0 .. x /\ x \notin 0 .. y
    BY <1>5
  <2>3. <<0 .. y, 0 .. x>> \in R
    BY <2>2 DEF StrictSubsetOrdering
  <2> QED BY Zenon, <2>1, <2>3, <1>3, <1>4
<1>6. \A y \in S : x =< y
  BY <1>5
<1> QED BY Zenon, <1>6 DEF Min

\* A set of numbers up to n with an element has a greatest one: *(--setKeyPool.end()).
LEMMA MaxIsGreatest ==
    ASSUME NEW n \in Nat, NEW S \in SUBSET (0 .. n), S # {}
    PROVE  Max(S) \in S /\ \A y \in S : Max(S) >= y
<1> DEFINE D == {n - x : x \in S}
<1>1. D \in SUBSET Nat /\ D # {}
  <2>1. PICK x \in S : TRUE
    BY Zenon
  <2>2. n - x \in D
    OBVIOUS
  <2>3. \A y \in S : n - y \in Nat
    OBVIOUS
  <2> QED BY Zenon, <2>2, <2>3
<1>2. Min(D) \in D /\ \A y \in D : Min(D) <= y
  BY Zenon, <1>1, MinIsLeast
<1>3. PICK x \in S : Min(D) = n - x
  BY Zenon, <1>2
<1>4. \A y \in S : n - y \in D
  OBVIOUS
<1>5. \A y \in S : x >= y
  BY <1>2, <1>3, <1>4
<1> QED BY Zenon, <1>5 DEF Max
-----------------------------------------------------------------------------
(* The key pool: the inductive invariant.                                   *)

\* Keys are numbered in the order they are made, and an index never runs ahead of
\* them: each new index comes with a new key.
KeysTyped ==
    /\ nextKey \in 1 .. MaxKeys + 1
    /\ fUseCrypto \in BOOLEAN /\ locked \in BOOLEAN /\ mkey \in BOOLEAN /\ reused \in BOOLEAN
    /\ setKeyPool \subseteq 1 .. nextKey - 1
    /\ DOMAIN pool \subseteq 1 .. nextKey - 1
    /\ \A i \in DOMAIN pool : pool[i] \in 1 .. nextKey - 1
    /\ DOMAIN keys = 1 .. nextKey - 1
    /\ held \in [Holder -> [index : 0 .. nextKey - 1, key : 0 .. nextKey - 1]]
    /\ \A h \in Holder : held[h] # Nothing => held[h].index # None /\ held[h].key # None
    /\ encrypt \in {"no", "txn", "erase", "fill", "moved"}
    /\ used \subseteq 1 .. nextKey - 1

\* What the wallet does with a new key agrees with what wallet.dat says; only
\* before TxnCommit memory is ahead of it, and then no key is made.
CryptInv ==
    /\ \A k \in DOMAIN keys : keys[k] = (IF mkey THEN "crypted" ELSE "plain")
    /\ fUseCrypto <=> mkey \/ encrypt = "txn"
    /\ encrypt = "txn" => ~mkey
    /\ encrypt \in {"erase", "fill", "moved"} => mkey

\* No two records have one key, no record a key taken for good, and one that has
\* the key of a holder is the one of its index.
RecordInv ==
    /\ \A i, j \in DOMAIN pool : pool[i] = pool[j] => i = j
    /\ \A i \in DOMAIN pool : pool[i] \notin used
    /\ \A h \in Holder, i \in DOMAIN pool :
          held[h] # Nothing /\ pool[i] = held[h].key => i = held[h].index

\* Unless an index was reused, a holder has the key of its index's record, an index
\* is with the pool or with one holder, and what the pool lists has a record.
ReserveInv ==
    ~reused =>
        /\ \A h \in Holder : held[h] # Nothing =>
              /\ held[h].index \in DOMAIN pool /\ pool[held[h].index] = held[h].key
              /\ held[h].index \notin setKeyPool
        /\ \A h, g \in Holder :
              h # g /\ held[h] # Nothing /\ held[g] # Nothing => held[h].index # held[g].index
        /\ encrypt # "erase" => setKeyPool \subseteq DOMAIN pool

KeyPoolInv == KeysTyped /\ CryptInv /\ RecordInv /\ ReserveInv

-----------------------------------------------------------------------------
(* What TopUpKeyPool writes.                                                *)

\* The size of the pool is a number, and so is what is missing.
LEMMA PoolSize ==
    ASSUME KeysTyped
    PROVE  /\ Cardinality(setKeyPool) \in Nat
           /\ \A size \in Nat : Missing(size) \in Nat
<1>1. IsFiniteSet(1 .. nextKey - 1)
  BY FS_Interval DEF KeysTyped
<1>2. Cardinality(setKeyPool) \in Nat
  BY Zenon, <1>1, FS_Subset, FS_CardinalityType DEF KeysTyped
<1> QED BY <1>2 DEF Missing

\* The last index is below the next key.
LEMMA LastIndex ==
    ASSUME KeysTyped
    PROVE  Last(setKeyPool) \in 0 .. nextKey - 1
<1>1. CASE setKeyPool = {}
  BY <1>1 DEF Last, KeysTyped
<1>2. CASE setKeyPool # {}
  <2>1. nextKey - 1 \in Nat /\ setKeyPool \in SUBSET (0 .. nextKey - 1)
    BY DEF KeysTyped
  <2>2. Max(setKeyPool) \in setKeyPool
    BY Zenon, <1>2, <2>1, MaxIsGreatest
  <2> QED BY Zenon, <1>2, <2>1, <2>2 DEF Last
<1> QED BY Zenon, <1>1, <1>2

\* New keys go under new indices: the records keep different keys, none of them
\* taken for good, and those of the holders unless an index is reused.
LEMMA TopUpFacts ==
    ASSUME KeyPoolInv, NEW n \in Nat, TopUp(n), KeyPoolAssumption
    PROVE  /\ nextKey' = nextKey + n /\ nextKey' \in 1 .. MaxKeys + 1
           /\ DOMAIN keys' = 1 .. nextKey' - 1
           /\ encrypt # "txn" =>
                \A k \in DOMAIN keys' : keys'[k] = (IF mkey THEN "crypted" ELSE "plain")
           /\ NewIndices(n) \subseteq 1 .. nextKey' - 1
           /\ DOMAIN pool' = DOMAIN pool \cup NewIndices(n)
           /\ \A i \in DOMAIN pool' : pool'[i] \in 1 .. nextKey' - 1
           /\ \A i, j \in DOMAIN pool' : pool'[i] = pool'[j] => i = j
           /\ \A i \in DOMAIN pool' : pool'[i] \notin used
           /\ \A h \in Holder, i \in DOMAIN pool' :
                held[h] # Nothing /\ pool'[i] = held[h].key => i = held[h].index
           /\ reused' \in BOOLEAN
           /\ ~reused' =>
                /\ ~reused
                /\ \A h \in Holder : held[h] # Nothing =>
                      /\ held[h].index \notin NewIndices(n)
                      /\ held[h].index \in DOMAIN pool' /\ pool'[held[h].index] = held[h].key
<1> DEFINE L == Last(setKeyPool)
<1>1. L \in 0 .. nextKey - 1
  BY Zenon, LastIndex DEF KeyPoolInv
<1>2. nextKey \in Nat /\ nextKey >= 1 /\ nextKey' = nextKey + n /\ nextKey' \in 1 .. MaxKeys + 1
  BY KeyPoolAssumption DEF KeyPoolInv, KeysTyped, TopUp
<1>3. NewIndices(n) = L + 1 .. L + n
  BY Zenon DEF NewIndices
<1> HIDE DEF L
<1>4. NewIndices(n) \subseteq 1 .. nextKey' - 1
  BY <1>1, <1>2, <1>3
<1>5. /\ DOMAIN pool' = DOMAIN pool \cup NewIndices(n)
      /\ \A i \in NewIndices(n) : pool'[i] = nextKey + (i - L) - 1
      /\ \A i \in DOMAIN pool \ NewIndices(n) : pool'[i] = pool[i]
  BY Zenon DEF TopUp, WithNewPool, L
<1>6. \A i \in NewIndices(n) : pool'[i] \in nextKey .. nextKey' - 1
  BY <1>1, <1>2, <1>3, <1>5
<1>7. \A i \in DOMAIN pool \ NewIndices(n) : pool'[i] \in 1 .. nextKey - 1
  BY Zenon, <1>5 DEF KeyPoolInv, KeysTyped
<1>8. \A i \in DOMAIN pool' : pool'[i] \in 1 .. nextKey' - 1
  BY <1>2, <1>5, <1>6, <1>7
<1>9. \A i, j \in DOMAIN pool' : pool'[i] = pool'[j] => i = j
  <2> SUFFICES ASSUME NEW i \in DOMAIN pool', NEW j \in DOMAIN pool', pool'[i] = pool'[j]
               PROVE  i = j
    OBVIOUS
  <2>1. CASE i \in NewIndices(n) /\ j \in NewIndices(n)
    BY <2>1, <1>1, <1>2, <1>3, <1>5
  <2>2. CASE i \notin NewIndices(n) /\ j \notin NewIndices(n)
    BY Zenon, <2>2, <1>5 DEF KeyPoolInv, RecordInv
  <2>3. CASE (i \in NewIndices(n)) # (j \in NewIndices(n))
    BY <2>3, <1>2, <1>5, <1>6, <1>7
  <2> QED BY Zenon, <2>1, <2>2, <2>3
<1>10. \A i \in DOMAIN pool' : pool'[i] \notin used
  <2>1. used \subseteq 1 .. nextKey - 1 /\ \A i \in DOMAIN pool : pool[i] \notin used
    BY Zenon DEF KeyPoolInv, KeysTyped, RecordInv
  <2> QED BY <2>1, <1>2, <1>5, <1>6
<1>11. \A h \in Holder : held[h].key \in 0 .. nextKey - 1 /\ held[h].index \in 0 .. nextKey - 1
  BY Zenon DEF KeyPoolInv, KeysTyped
<1>12. \A h \in Holder, i \in DOMAIN pool' :
          held[h] # Nothing /\ pool'[i] = held[h].key => i = held[h].index
  BY <1>2, <1>5, <1>6, <1>11 DEF KeyPoolInv, RecordInv
<1>13. reused' \in BOOLEAN
  BY Zenon DEF TopUp, KeyPoolInv, KeysTyped
<1>14. ~reused' => ~reused /\ \A h \in Holder : held[h].index \notin NewIndices(n)
  BY Zenon DEF TopUp
<1>15. ~reused' => \A h \in Holder : held[h] # Nothing =>
          held[h].index \in DOMAIN pool' /\ pool'[held[h].index] = held[h].key
  BY Zenon, <1>14, <1>5 DEF KeyPoolInv, ReserveInv
<1>16. DOMAIN keys' = 1 .. nextKey' - 1
  BY <1>2 DEF TopUp, WithNewKeys
<1>17. ASSUME encrypt # "txn", NEW k \in DOMAIN keys'
       PROVE  keys'[k] = (IF mkey THEN "crypted" ELSE "plain")
  <2>1. k < nextKey => k \in DOMAIN keys /\ keys'[k] = keys[k]
    BY <1>2, <1>16 DEF TopUp, WithNewKeys, KeyPoolInv, KeysTyped
  <2>2. ~(k < nextKey) => keys'[k] = (IF fUseCrypto THEN "crypted" ELSE "plain")
    BY Zenon, <1>2, <1>16 DEF TopUp, WithNewKeys
  <2>3. fUseCrypto <=> mkey
    BY Zenon, <1>17 DEF KeyPoolInv, CryptInv
  <2> QED BY Zenon, <2>1, <2>2, <2>3 DEF KeyPoolInv, CryptInv
<1> QED BY Zenon, <1>2, <1>4, <1>5, <1>8, <1>9, <1>10, <1>12, <1>13, <1>14, <1>15, <1>16, <1>17

-----------------------------------------------------------------------------
(* Preservation, action by action.                                          *)

\* A new wallet has no key.
LEMMA KeyPoolInitInv == KeyPoolInit => KeyPoolInv
<1> SUFFICES ASSUME KeyPoolInit PROVE KeyPoolInv
  OBVIOUS
<1>1. 1 \in 1 .. MaxKeys + 1 /\ 1 .. 1 - 1 = {} /\ Nothing \in [index : 0 .. 1 - 1, key : 0 .. 1 - 1]
  BY KeyPoolAssumption DEF Nothing, None
<1>2. KeysTyped
  <2>1. DOMAIN pool = {} /\ DOMAIN keys = {}
    BY DEF KeyPoolInit
  <2>2. held \in [Holder -> [index : 0 .. nextKey - 1, key : 0 .. nextKey - 1]]
    BY Zenon, <1>1 DEF KeyPoolInit
  <2>3. \A h \in Holder : held[h] = Nothing
    BY Zenon DEF KeyPoolInit
  <2> QED BY Zenon, <1>1, <2>1, <2>2, <2>3 DEF KeyPoolInit, KeysTyped
<1>3. CryptInv /\ RecordInv /\ ReserveInv
  BY DEF KeyPoolInit, CryptInv, RecordInv, ReserveInv
<1> QED BY Zenon, <1>2, <1>3 DEF KeyPoolInv

\* n new keys whose indices all join the pool: TopUpKeyPool, and the second loop of
\* NewKeyPool.
LEMMA AddedKeysInv ==
    ASSUME KeyPoolInv, NEW n \in Nat, TopUp(n), encrypt \in {"no", "fill"},
           setKeyPool' = setKeyPool \cup NewIndices(n),
           UNCHANGED <<fUseCrypto, locked, held, mkey, encrypt, used>>
    PROVE  KeyPoolInv'
<1>1. /\ nextKey' = nextKey + n /\ nextKey' \in 1 .. MaxKeys + 1
      /\ DOMAIN keys' = 1 .. nextKey' - 1
      /\ \A k \in DOMAIN keys' : keys'[k] = (IF mkey THEN "crypted" ELSE "plain")
      /\ NewIndices(n) \subseteq 1 .. nextKey' - 1
      /\ DOMAIN pool' = DOMAIN pool \cup NewIndices(n)
      /\ \A i \in DOMAIN pool' : pool'[i] \in 1 .. nextKey' - 1
  BY Zenon, TopUpFacts, KeyPoolAssumption
<1>2. /\ \A i, j \in DOMAIN pool' : pool'[i] = pool'[j] => i = j
      /\ \A i \in DOMAIN pool' : pool'[i] \notin used
      /\ \A h \in Holder, i \in DOMAIN pool' :
           held[h] # Nothing /\ pool'[i] = held[h].key => i = held[h].index
      /\ reused' \in BOOLEAN
      /\ ~reused' =>
           /\ ~reused
           /\ \A h \in Holder : held[h] # Nothing =>
                 /\ held[h].index \notin NewIndices(n)
                 /\ held[h].index \in DOMAIN pool' /\ pool'[held[h].index] = held[h].key
  BY Zenon, TopUpFacts, KeyPoolAssumption
<1>3. KeysTyped'
  <2>1. 1 .. nextKey - 1 \subseteq 1 .. nextKey' - 1 /\ 0 .. nextKey - 1 \subseteq 0 .. nextKey' - 1
    BY <1>1, KeyPoolAssumption DEF KeyPoolInv, KeysTyped
  <2>2. held' \in [Holder -> [index : 0 .. nextKey' - 1, key : 0 .. nextKey' - 1]]
    BY Zenon, <2>1 DEF KeyPoolInv, KeysTyped
  <2>3. setKeyPool' \subseteq 1 .. nextKey' - 1 /\ DOMAIN pool' \subseteq 1 .. nextKey' - 1
    BY Zenon, <2>1, <1>1 DEF KeyPoolInv, KeysTyped
  <2>4. used' \subseteq 1 .. nextKey' - 1
    BY Zenon, <2>1 DEF KeyPoolInv, KeysTyped
  <2> QED BY Zenon, <1>1, <1>2, <2>2, <2>3, <2>4 DEF KeyPoolInv, KeysTyped
<1>4. CryptInv'
  BY Zenon, <1>1 DEF KeyPoolInv, CryptInv
<1>5. RecordInv'
  BY Zenon, <1>2 DEF RecordInv
<1>6. ReserveInv'
  BY Zenon, <1>1, <1>2 DEF KeyPoolInv, ReserveInv
<1> QED BY Zenon, <1>3, <1>4, <1>5, <1>6 DEF KeyPoolInv

\* TopUpKeyPool adds keys to the pool and to wallet.dat.
LEMMA TopUpKeyPoolInv ==
    ASSUME KeyPoolInv, NEW size \in 1 .. KeyPoolSize, TopUpKeyPool(size)
    PROVE  KeyPoolInv'
<1>1. Missing(size) \in Nat
  BY PoolSize, KeyPoolAssumption DEF KeyPoolInv
<1> QED BY Zenon, <1>1, AddedKeysInv DEF TopUpKeyPool

\* A record of the key pool is written.
LEMMA WritePoolInv ==
    ASSUME KeyPoolInv, WritePool
    PROVE  KeyPoolInv'
BY Zenon, AddedKeysInv DEF WritePool

\* ReserveKeyFromKeyPool: the lowest index of the pool goes to the holder.
LEMMA GetReservedKeyInv ==
    ASSUME KeyPoolInv, NEW h \in Holder, GetReservedKey(h)
    PROVE  KeyPoolInv'
<1> DEFINE n == IF locked THEN 0 ELSE Missing(KeyPoolSize)
           full == setKeyPool \cup NewIndices(n)
           m == Min(full)
<1>1. n \in Nat
  BY Zenon, PoolSize, KeyPoolAssumption DEF KeyPoolInv
<1>2. /\ TopUp(n) /\ full # {} /\ setKeyPool' = full \ {m}
      /\ held' = IF m \in DOMAIN pool'
                 THEN [held EXCEPT ![h] = [index |-> m, key |-> pool'[m]]] ELSE held
      /\ UNCHANGED <<fUseCrypto, locked, mkey, encrypt, used>>
      /\ encrypt = "no" /\ held[h] = Nothing
  BY Zenon DEF GetReservedKey
<1> HIDE DEF n
<1>3. /\ nextKey' = nextKey + n /\ nextKey' \in 1 .. MaxKeys + 1
      /\ DOMAIN keys' = 1 .. nextKey' - 1
      /\ \A k \in DOMAIN keys' : keys'[k] = (IF mkey THEN "crypted" ELSE "plain")
      /\ NewIndices(n) \subseteq 1 .. nextKey' - 1
      /\ DOMAIN pool' = DOMAIN pool \cup NewIndices(n)
      /\ \A i \in DOMAIN pool' : pool'[i] \in 1 .. nextKey' - 1
  BY Zenon, <1>1, <1>2, TopUpFacts, KeyPoolAssumption
<1>4. /\ \A i, j \in DOMAIN pool' : pool'[i] = pool'[j] => i = j
      /\ \A i \in DOMAIN pool' : pool'[i] \notin used
      /\ \A g \in Holder, i \in DOMAIN pool' :
           held[g] # Nothing /\ pool'[i] = held[g].key => i = held[g].index
      /\ reused' \in BOOLEAN
      /\ ~reused' =>
           /\ ~reused
           /\ \A g \in Holder : held[g] # Nothing =>
                 /\ held[g].index \notin NewIndices(n)
                 /\ held[g].index \in DOMAIN pool' /\ pool'[held[g].index] = held[g].key
  BY Zenon, <1>1, <1>2, TopUpFacts, KeyPoolAssumption
<1>5. nextKey \in Nat /\ nextKey' \in Nat /\ nextKey <= nextKey'
  BY <1>1, <1>3, KeyPoolAssumption DEF KeyPoolInv, KeysTyped
<1>6. full \subseteq 1 .. nextKey' - 1
  <2>1. 1 .. nextKey - 1 \subseteq 1 .. nextKey' - 1
    BY <1>1, <1>3, KeyPoolAssumption DEF KeyPoolInv, KeysTyped
  <2> QED BY Zenon, <2>1, <1>3 DEF KeyPoolInv, KeysTyped
<1>7. m \in full
  <2>1. full \in SUBSET Nat /\ full # {}
    BY <1>2, <1>5, <1>6
  <2> QED BY Zenon, <2>1, MinIsLeast
<1> HIDE DEF m
<1>8. held \in [Holder -> [index : 0 .. nextKey' - 1, key : 0 .. nextKey' - 1]]
  BY <1>5 DEF KeyPoolInv, KeysTyped
<1>9. /\ held' \in [Holder -> [index : 0 .. nextKey' - 1, key : 0 .. nextKey' - 1]]
      /\ \A g \in Holder : g # h => held'[g] = held[g]
      /\ held'[h] = IF m \in DOMAIN pool' THEN [index |-> m, key |-> pool'[m]] ELSE Nothing
  BY <1>2, <1>3, <1>5, <1>6, <1>7, <1>8
<1>10. \A g \in Holder : held'[g] # Nothing => held'[g].index # None /\ held'[g].key # None
  <2>1. m \in DOMAIN pool' => m # None /\ pool'[m] # None
    BY <1>3, <1>5, <1>6, <1>7 DEF None
  <2> QED BY SMTT(20), <1>9, <2>1 DEF KeyPoolInv, KeysTyped
<1>11. KeysTyped'
  <2>1. DOMAIN pool' \subseteq 1 .. nextKey' - 1 /\ used' \subseteq 1 .. nextKey' - 1
    BY SMTT(20), <1>2, <1>3, <1>5 DEF KeyPoolInv, KeysTyped
  <2>2. setKeyPool' \subseteq 1 .. nextKey' - 1
    BY Zenon, <1>2, <1>6
  <2> QED BY Zenon, <1>2, <1>3, <1>4, <1>9, <1>10, <2>1, <2>2 DEF KeyPoolInv, KeysTyped
<1>12. CryptInv'
  BY Zenon, <1>2, <1>3 DEF KeyPoolInv, CryptInv
<1>13. RecordInv'
  BY Zenon, <1>2, <1>4, <1>9 DEF RecordInv
<1>14. ReserveInv'
  <2> SUFFICES ASSUME ~reused' PROVE ReserveInv'
    BY Zenon DEF ReserveInv
  <2>1. /\ setKeyPool \subseteq DOMAIN pool
        /\ \A g \in Holder : held[g] # Nothing => held[g].index \notin full
    BY Zenon, <1>2, <1>4 DEF KeyPoolInv, ReserveInv
  <2>2. m \in DOMAIN pool' /\ full \subseteq DOMAIN pool'
    BY Zenon, <2>1, <1>3, <1>7
  <2>3. held'[h] = [index |-> m, key |-> pool'[m]]
    BY Zenon, <2>2, <1>9
  <2>4. \A g \in Holder : held'[g] # Nothing =>
           /\ held'[g].index \in DOMAIN pool' /\ pool'[held'[g].index] = held'[g].key
           /\ held'[g].index \notin setKeyPool'
    BY <1>2, <1>4, <1>9, <2>1, <2>2, <2>3
  <2>5. \A g, f \in Holder :
           g # f /\ held'[g] # Nothing /\ held'[f] # Nothing => held'[g].index # held'[f].index
    BY SMTT(20), <1>4, <1>7, <1>9, <2>1, <2>3 DEF KeyPoolInv, ReserveInv
  <2> QED BY Zenon, <1>2, <2>2, <2>4, <2>5 DEF ReserveInv
<1> QED BY Zenon, <1>11, <1>12, <1>13, <1>14 DEF KeyPoolInv

\* KeepKey: the record of the index goes, and with it the only one of the key.
LEMMA KeepKeyInv ==
    ASSUME KeyPoolInv, NEW h \in Holder, KeepKey(h)
    PROVE  KeyPoolInv'
<1> DEFINE i == held[h].index
           k == held[h].key
<1>1. /\ held[h] # Nothing /\ DOMAIN pool' = DOMAIN pool \ {i}
      /\ \A j \in DOMAIN pool' : pool'[j] = pool[j]
      /\ used' = used \cup {k}
      /\ UNCHANGED <<nextKey, fUseCrypto, locked, setKeyPool, keys, mkey, encrypt, reused>>
  BY Zenon DEF KeepKey, Erased
<1>2. held \in [Holder -> [index : 0 .. nextKey - 1, key : 0 .. nextKey - 1]]
  BY Zenon DEF KeyPoolInv, KeysTyped
<1>3. held'[h] = Nothing /\ \A g \in Holder : g # h => held'[g] = held[g]
  BY Zenon, <1>2 DEF KeepKey
<1>4. Nothing \in [index : 0 .. nextKey - 1, key : 0 .. nextKey - 1]
  BY DEF Nothing, None, KeyPoolInv, KeysTyped
<1>5. held' \in [Holder -> [index : 0 .. nextKey - 1, key : 0 .. nextKey - 1]]
  BY Zenon, <1>2, <1>4 DEF KeepKey
<1>6. k \in 1 .. nextKey - 1
  BY <1>1 DEF KeyPoolInv, KeysTyped, None
<1> HIDE DEF i, k
<1>7. KeysTyped'
  BY Zenon, <1>1, <1>3, <1>5, <1>6 DEF KeyPoolInv, KeysTyped
<1>8. CryptInv'
  BY Zenon, <1>1 DEF KeyPoolInv, CryptInv
<1>9. RecordInv'
  <2>1. \A j \in DOMAIN pool' : pool[j] # k
    BY Zenon, <1>1 DEF KeyPoolInv, RecordInv, i, k
  <2> QED BY <1>1, <1>3, <2>1 DEF KeyPoolInv, RecordInv
<1>10. ReserveInv'
  <2> SUFFICES ASSUME ~reused' PROVE ReserveInv'
    BY Zenon DEF ReserveInv
  <2>1. i \notin setKeyPool /\ \A g \in Holder : g # h /\ held[g] # Nothing => held[g].index # i
    BY Zenon, <1>1 DEF KeyPoolInv, ReserveInv, i
  <2> QED BY SMTT(20), <1>1, <1>3, <2>1 DEF KeyPoolInv, ReserveInv
<1> QED BY Zenon, <1>7, <1>8, <1>9, <1>10 DEF KeyPoolInv

\* ReturnKey: the index goes back to the pool, which has its record.
LEMMA ReturnKeyInv ==
    ASSUME KeyPoolInv, NEW h \in Holder, ReturnKey(h)
    PROVE  KeyPoolInv'
<1> DEFINE i == held[h].index
<1>1. /\ held[h] # Nothing /\ setKeyPool' = setKeyPool \cup {i} /\ encrypt = "no"
      /\ UNCHANGED <<nextKey, fUseCrypto, locked, keys, pool, mkey, encrypt, used, reused>>
  BY Zenon DEF ReturnKey
<1>2. held \in [Holder -> [index : 0 .. nextKey - 1, key : 0 .. nextKey - 1]]
  BY Zenon DEF KeyPoolInv, KeysTyped
<1>3. held'[h] = Nothing /\ \A g \in Holder : g # h => held'[g] = held[g]
  BY Zenon, <1>2 DEF ReturnKey
<1>4. Nothing \in [index : 0 .. nextKey - 1, key : 0 .. nextKey - 1]
  BY DEF Nothing, None, KeyPoolInv, KeysTyped
<1>5. held' \in [Holder -> [index : 0 .. nextKey - 1, key : 0 .. nextKey - 1]]
  BY Zenon, <1>2, <1>4 DEF ReturnKey
<1>6. i \in 1 .. nextKey - 1
  BY <1>1 DEF KeyPoolInv, KeysTyped, None
<1> HIDE DEF i
<1>7. KeysTyped'
  BY Zenon, <1>1, <1>3, <1>5, <1>6 DEF KeyPoolInv, KeysTyped
<1>8. CryptInv'
  BY Zenon, <1>1 DEF KeyPoolInv, CryptInv
<1>9. RecordInv'
  BY <1>1, <1>3 DEF KeyPoolInv, RecordInv
<1>10. ReserveInv'
  <2> SUFFICES ASSUME ~reused' PROVE ReserveInv'
    BY Zenon DEF ReserveInv
  <2>1. i \in DOMAIN pool /\ \A g \in Holder : g # h /\ held[g] # Nothing => held[g].index # i
    BY Zenon, <1>1 DEF KeyPoolInv, ReserveInv, i
  <2> QED BY <1>1, <1>3, <2>1 DEF KeyPoolInv, ReserveInv
<1> QED BY Zenon, <1>7, <1>8, <1>9, <1>10 DEF KeyPoolInv

\* The steps of EncryptWallet that make no key, Unlock and Lock.
LEMMA EncryptInv ==
    ASSUME KeyPoolInv,
           Unlock \/ LockWallet \/ BeginEncrypt \/ TxnCommit \/ ClearPool \/ RemoveOld \/ RenameNew
    PROVE  KeyPoolInv'
<1>1. CASE Unlock \/ LockWallet \/ RemoveOld \/ RenameNew
  <2>1. /\ UNCHANGED <<nextKey, fUseCrypto, setKeyPool, held, keys, pool, mkey, used, reused>>
        /\ locked' \in BOOLEAN
        /\ encrypt' \in {encrypt, "moved", "no"} /\ encrypt # "erase" /\ encrypt # "txn"
        /\ encrypt' = "moved" => mkey
    BY ZenonT(30), <1>1
       DEF Unlock, LockWallet, RemoveOld, RenameNew, KeyPoolInv, KeysTyped, CryptInv
  <2>2. KeysTyped'
    BY Zenon, <2>1 DEF KeyPoolInv, KeysTyped
  <2>3. CryptInv' /\ RecordInv' /\ ReserveInv'
    BY Zenon, <2>1 DEF KeyPoolInv, CryptInv, RecordInv, ReserveInv
  <2> QED BY Zenon, <2>2, <2>3 DEF KeyPoolInv
<1>2. CASE BeginEncrypt
  BY Zenon, <1>2 DEF BeginEncrypt, KeyPoolInv, KeysTyped, CryptInv, RecordInv, ReserveInv
<1>3. CASE TxnCommit
  <2>1. DOMAIN keys' = DOMAIN keys /\ \A k \in DOMAIN keys' : keys'[k] = "crypted"
    BY Zenon, <1>3 DEF TxnCommit, Committed
  <2>2. KeysTyped'
    BY Zenon, <1>3, <2>1 DEF TxnCommit, KeyPoolInv, KeysTyped
  <2>3. CryptInv'
    BY Zenon, <1>3, <2>1 DEF TxnCommit, KeyPoolInv, CryptInv
  <2>4. RecordInv' /\ ReserveInv'
    BY Zenon, <1>3 DEF TxnCommit, KeyPoolInv, RecordInv, ReserveInv
  <2> QED BY Zenon, <2>2, <2>3, <2>4 DEF KeyPoolInv
<1>4. CASE ClearPool
  BY Zenon, <1>4 DEF ClearPool, KeyPoolInv, KeysTyped, CryptInv, RecordInv, ReserveInv
<1> QED BY Zenon, <1>1, <1>2, <1>3, <1>4

\* NewKeyPool erases records of the pool, never one of a holder.
LEMMA ErasePoolInv ==
    ASSUME KeyPoolInv, ErasePool
    PROVE  KeyPoolInv'
<1>1. PICK i \in setKeyPool : pool' = Erased(i)
  BY Zenon DEF ErasePool
<1>2. /\ DOMAIN pool' = DOMAIN pool \ {i}
      /\ \A j \in DOMAIN pool' : pool'[j] = pool[j]
      /\ encrypt = "erase"
      /\ UNCHANGED <<nextKey, fUseCrypto, locked, setKeyPool, held, keys, mkey, encrypt, used,
                     reused>>
  BY Zenon, <1>1 DEF ErasePool, Erased
<1>3. KeysTyped'
  BY Zenon, <1>2 DEF KeyPoolInv, KeysTyped
<1>4. CryptInv'
  BY Zenon, <1>2 DEF KeyPoolInv, CryptInv
<1>5. RecordInv'
  BY Zenon, <1>2 DEF KeyPoolInv, RecordInv
<1>6. ReserveInv'
  BY Zenon, <1>2 DEF KeyPoolInv, ReserveInv
<1> QED BY Zenon, <1>3, <1>4, <1>5, <1>6 DEF KeyPoolInv

\* LoadWallet lists the records, whatever was reserved when the process ended.
LEMMA RestartInv ==
    ASSUME KeyPoolInv, Restart
    PROVE  KeyPoolInv'
<1>1. \A h \in Holder : held'[h] = Nothing
  BY Zenon DEF Restart
<1>2. Nothing \in [index : 0 .. nextKey - 1, key : 0 .. nextKey - 1]
  BY DEF Nothing, None, KeyPoolInv, KeysTyped
<1>3. held' \in [Holder -> [index : 0 .. nextKey - 1, key : 0 .. nextKey - 1]]
  BY Zenon, <1>2 DEF Restart
<1>4. KeysTyped'
  BY Zenon, <1>1, <1>3 DEF Restart, KeyPoolInv, KeysTyped
<1>5. CryptInv'
  BY Zenon DEF Restart, KeyPoolInv, CryptInv, KeysTyped
<1>6. RecordInv' /\ ReserveInv'
  BY Zenon, <1>1 DEF Restart, KeyPoolInv, RecordInv, ReserveInv
<1> QED BY Zenon, <1>4, <1>5, <1>6 DEF KeyPoolInv

-----------------------------------------------------------------------------
(* The theorem about the key pool.                                          *)

\* Every step of the wallet's keys preserves the invariant.
LEMMA KeyPoolStepInv == KeyPoolInv /\ [KeyPoolNext]_keyPoolVars => KeyPoolInv'
<1> SUFFICES ASSUME KeyPoolInv, [KeyPoolNext]_keyPoolVars PROVE KeyPoolInv'
  OBVIOUS
<1>1. ASSUME NEW size \in 1 .. KeyPoolSize, TopUpKeyPool(size) PROVE KeyPoolInv'
  BY Zenon, <1>1, TopUpKeyPoolInv
<1>2. ASSUME NEW h \in Holder, GetReservedKey(h) PROVE KeyPoolInv'
  BY Zenon, <1>2, GetReservedKeyInv
<1>3. ASSUME NEW h \in Holder, KeepKey(h) PROVE KeyPoolInv'
  BY Zenon, <1>3, KeepKeyInv
<1>4. ASSUME NEW h \in Holder, ReturnKey(h) PROVE KeyPoolInv'
  BY Zenon, <1>4, ReturnKeyInv
<1>5. CASE Unlock \/ LockWallet \/ BeginEncrypt \/ TxnCommit \/ ClearPool \/ RemoveOld \/ RenameNew
  BY Zenon, <1>5, EncryptInv
<1>6. CASE ErasePool
  BY Zenon, <1>6, ErasePoolInv
<1>7. CASE WritePool
  BY Zenon, <1>7, WritePoolInv
<1>8. CASE Restart
  BY Zenon, <1>8, RestartInv
<1>9. CASE UNCHANGED keyPoolVars
  BY Zenon, <1>9 DEF keyPoolVars, KeyPoolInv, KeysTyped, CryptInv, RecordInv, ReserveInv
<1> QED BY Zenon, <1>1, <1>2, <1>3, <1>4, <1>5, <1>6, <1>7, <1>8, <1>9 DEF KeyPoolNext

\* The invariant says what KeysSafe promises.
LEMMA KeyPoolInvSafe == KeyPoolInv => KeysSafe
<1> SUFFICES ASSUME KeyPoolInv PROVE KeysSafe
  OBVIOUS
<1>1. /\ nextKey \in Nat /\ MaxKeys \in Nat
      /\ 1 .. nextKey - 1 \subseteq 1 .. MaxKeys /\ 0 .. nextKey - 1 \subseteq 0 .. MaxKeys
  BY KeyPoolAssumption DEF KeyPoolInv, KeysTyped
<1>2. KeyPoolTypeOK
  <2>1. held \in [Holder -> [index : 0 .. MaxKeys, key : 0 .. MaxKeys]]
    BY Zenon, <1>1 DEF KeyPoolInv, KeysTyped
  <2>2. setKeyPool \subseteq 1 .. MaxKeys /\ DOMAIN pool \subseteq 1 .. MaxKeys /\ used \subseteq 1 .. MaxKeys
    BY Zenon, <1>1 DEF KeyPoolInv, KeysTyped
  <2> QED BY Zenon, <2>1, <2>2 DEF KeyPoolTypeOK, KeyPoolInv, KeysTyped
<1>3. \A h \in Holder : held[h].key \in DOMAIN keys \cup {None}
  <2>1. \A h \in Holder : held[h].key \in 0 .. nextKey - 1
    BY Zenon DEF KeyPoolInv, KeysTyped
  <2>2. \A k \in 0 .. nextKey - 1 : k \in 1 .. nextKey - 1 \/ k = None
    BY <1>1 DEF None
  <2> QED BY Zenon, <2>1, <2>2 DEF KeyPoolInv, KeysTyped
<1>4. KeysRecoverable
  BY ZenonT(30), <1>3 DEF KeysRecoverable, KeyPoolInv, KeysTyped, CryptInv
<1>5. None \notin used /\ Nothing.key = None /\ Nothing.index = None
  BY DEF KeyPoolInv, KeysTyped, None, Nothing
<1>6. ASSUME ~reused PROVE UsedOnce
  <2>1. \A h \in Holder : held[h].key \notin used
    BY Zenon, <1>5, <1>6 DEF KeyPoolInv, RecordInv, ReserveInv
  <2>2. ASSUME NEW h \in Holder, NEW g \in Holder, h # g, held[h] # Nothing
        PROVE  held[h].key # held[g].key
    <3>1. CASE held[g] = Nothing
      BY Zenon, <2>2, <3>1, <1>5 DEF KeyPoolInv, KeysTyped
    <3>2. CASE held[g] # Nothing
      BY Zenon, <2>2, <3>2, <1>6 DEF KeyPoolInv, ReserveInv, RecordInv
    <3> QED BY Zenon, <3>1, <3>2
  <2> QED BY Zenon, <2>1, <2>2 DEF UsedOnce, KeyPoolInv, RecordInv
<1>7. UsedOnceUnlessReused
  BY Zenon, <1>6 DEF UsedOnceUnlessReused, KeyPoolInv, KeysTyped
<1>8. PoolReadable
  <2> SUFFICES ASSUME ~reused, encrypt = "no", NEW i \in setKeyPool
               PROVE  /\ i \in DOMAIN pool /\ pool[i] \in DOMAIN keys
                      /\ \A h \in Holder : held[h].index # i
    BY Zenon DEF PoolReadable
  <2>1. i \in DOMAIN pool /\ pool[i] \in DOMAIN keys
    BY Zenon DEF KeyPoolInv, KeysTyped, ReserveInv
  <2>2. i # None
    BY DEF KeyPoolInv, KeysTyped, None
  <2> QED BY Zenon, <2>1, <2>2, <1>5 DEF KeyPoolInv, ReserveInv
<1> QED BY Zenon, <1>2, <1>4, <1>7, <1>8 DEF KeysSafe

\* For any number of holders and any size of the pool: whenever the process dies
\* wallet.dat has every key that was given out, plain or crypted as the master key
\* record says; unless NewKeyPool or TopUpKeyPool reused an index no key is taken
\* twice, and ReserveKeyFromKeyPool reads what it looks for.
THEOREM KeysAreSafe == KeyPoolSpec => []KeysSafe
<1>1. KeyPoolInit => KeyPoolInv
  BY Zenon, KeyPoolInitInv
<1>2. KeyPoolInv /\ [KeyPoolNext]_keyPoolVars => KeyPoolInv'
  BY Zenon, KeyPoolStepInv
<1>3. KeyPoolInv => KeysSafe
  BY Zenon, KeyPoolInvSafe
<1> QED BY <1>1, <1>2, <1>3, PTL DEF KeyPoolSpec

-----------------------------------------------------------------------------
(* The wallet database: the inductive invariant.                            *)

\* The users that mapFileUseCount counts.
Busy == {u \in User : at[u] # "idle"}

\* Those between nWalletDBUpdated++ and the write, and those that have stored it.
Writing == {u \in User : at[u] \in {"counted", "write"}}
Storing == {u \in User : at[u] = "write"}

\* The count is exact, and without an entry the file is detached: no handle, and
\* wallet.dat is complete.
CountExact ==
    /\ mapFileUseCount = Absent => Busy = {} /\ mapDb = 0 /\ dat = 1 .. written
    /\ mapFileUseCount # Absent => mapFileUseCount = Cardinality(Busy)

\* Who has a handle has the shared one and is counted.
HandleInv ==
    \A u \in User : pdb[u] # 0 => pdb[u] = mapDb /\ at[u] \in {"open", "counted", "write"}

\* The environment is closed only by the last Flush and with the file detached.
EnvInv ==
    /\ ~fDbEnvInit => mapFileUseCount = Absent /\ stage = 4
    /\ 1 .. written \subseteq dat \cup logged

\* nWalletDBUpdated may lose an increment but never counts a write that nobody makes.
CounterInv ==
    /\ Cardinality(Writing) + written <= MaxWrites
    /\ nWalletDBUpdated <= written + Cardinality(Storing)
    /\ nLastSeen <= written + Cardinality(Storing)
    /\ nLastFlushed <= written + Cardinality(Storing)
    /\ nSeen \in [User -> Nat]
    /\ \A u \in User : nSeen[u] <= written + Cardinality(Storing)

WalletDbInv == WalletDbTypeOK /\ CountExact /\ HandleInv /\ EnvInv /\ CounterInv

-----------------------------------------------------------------------------
(* Preservation, action by action.                                          *)

\* Sets of users are finite, and one user more or less is one more or less.
LEMMA UserSets ==
    /\ Cardinality(User) \in Nat
    /\ \A S \in SUBSET User : Cardinality(S) \in 0 .. Cardinality(User) /\ (Cardinality(S) = 0 <=> S = {})
    /\ \A S \in SUBSET User : \A u \in User \ S : Cardinality(S \cup {u}) = Cardinality(S) + 1
    /\ \A S \in SUBSET User : \A u \in S : Cardinality(S \ {u}) = Cardinality(S) - 1
<1>1. \A S \in SUBSET User : IsFiniteSet(S) /\ Cardinality(S) <= Cardinality(User)
  BY Zenon, FS_Subset, WalletDbAssumption
<1>2. \A S \in SUBSET User : Cardinality(S) \in Nat /\ (Cardinality(S) = 0 <=> S = {})
  BY Zenon, <1>1, FS_CardinalityType, FS_EmptySet
<1>3. \A S \in SUBSET User : \A u \in User \ S : Cardinality(S \cup {u}) = Cardinality(S) + 1
  BY Zenon, <1>1, FS_AddElement
<1>4. \A S \in SUBSET User : \A u \in S : Cardinality(S \ {u}) = Cardinality(S) - 1
  BY Zenon, <1>1, FS_RemoveElement
<1> QED BY <1>1, <1>2, <1>3, <1>4

\* Nothing is open at the start.
LEMMA WalletDbInitInv == WalletDbInit => WalletDbInv
<1> SUFFICES ASSUME WalletDbInit PROVE WalletDbInv
  OBVIOUS
<1>1. Busy = {} /\ Writing = {} /\ Storing = {}
  BY Zenon DEF WalletDbInit, Busy, Writing, Storing
<1>2. Cardinality({}) = 0
  BY Zenon, FS_EmptySet
<1>3. WalletDbTypeOK
  BY UserSets, WalletDbAssumption DEF WalletDbInit, WalletDbTypeOK, Absent, Places
<1>4. CountExact /\ HandleInv /\ EnvInv
  BY <1>1 DEF WalletDbInit, CountExact, HandleInv, EnvInv
<1>5. CounterInv
  BY <1>1, <1>2, WalletDbAssumption DEF WalletDbInit, CounterInv
<1> QED BY Zenon, <1>3, <1>4, <1>5 DEF WalletDbInv

\* The constructor of CDB counts its user, opens a handle that is missing and shares it.
LEMMA OpenInv ==
    ASSUME WalletDbInv, NEW u \in User, Open(u)
    PROVE  WalletDbInv'
<1>1. at' = [at EXCEPT ![u] = "open"] /\ at[u] = "idle" /\ at \in [User -> Places]
  BY Zenon DEF Open, WalletDbInv, WalletDbTypeOK
<1>2. Busy' = Busy \cup {u} /\ u \notin Busy /\ Writing' = Writing /\ Storing' = Storing
  BY Zenon, <1>1 DEF Busy, Writing, Storing
<1>3. /\ Busy \subseteq User /\ Cardinality(Busy') = Cardinality(Busy) + 1
      /\ Cardinality(Busy) \in Nat /\ Cardinality(Busy') \in 0 .. Cardinality(User)
      /\ (Busy = {} => Cardinality(Busy) = 0)
  <2>1. Busy \in SUBSET User /\ Busy' \in SUBSET User
    BY Zenon, <1>2 DEF Busy
  <2> QED BY <1>2, <2>1, UserSets
<1>4. mapFileUseCount' = Cardinality(Busy') /\ mapFileUseCount' # Absent
  BY <1>3 DEF Open, WalletDbInv, CountExact, Absent
<1>5. mapDb' = handles' /\ mapDb' # 0 /\ handles' \in 0 .. MaxOpens /\ (mapDb # 0 => mapDb' = mapDb)
      /\ handles <= handles' /\ handles \in Nat
  BY WalletDbAssumption DEF Open, WalletDbInv, WalletDbTypeOK
<1>6. pdb' = [pdb EXCEPT ![u] = mapDb'] /\ pdb \in [User -> 0 .. handles]
  BY Zenon DEF Open, WalletDbInv, WalletDbTypeOK
<1>7. WalletDbTypeOK'
  <2>1. pdb' \in [User -> 0 .. handles']
    BY <1>5, <1>6
  <2>2. at' \in [User -> Places]
    BY Zenon, <1>1 DEF Places
  <2>3. mapFileUseCount' \in Absent .. Cardinality(User)
    BY <1>3, <1>4, UserSets DEF Absent
  <2> QED BY Zenon, <1>5, <2>1, <2>2, <2>3
          DEF Open, dataVars, threadVars, WalletDbInv, WalletDbTypeOK
<1>8. CountExact'
  BY Zenon, <1>4 DEF CountExact
<1>9. HandleInv'
  BY Zenon, <1>1, <1>5, <1>6 DEF WalletDbInv, HandleInv
<1>10. EnvInv' /\ CounterInv'
  BY Zenon, <1>2 DEF Open, dataVars, threadVars, WalletDbInv, EnvInv, CounterInv
<1> QED BY Zenon, <1>7, <1>8, <1>9, <1>10 DEF WalletDbInv

\* A constructor that throws leaves an entry with the count it found.
LEMMA OpenFailsInv ==
    ASSUME WalletDbInv, NEW u \in User, OpenFails(u)
    PROVE  WalletDbInv'
<1>1. /\ mapFileUseCount' = IF mapFileUseCount = Absent THEN 0 ELSE mapFileUseCount
      /\ fDbEnvInit
      /\ UNCHANGED <<fDbEnvInit, mapDb, handles, at, pdb, nSeen, nWalletDBUpdated, written, logged,
                     dat, nLastSeen, nLastFlushed, quiet, stage>>
  BY Zenon DEF OpenFails, userVars, dataVars, threadVars
<1>2. Busy' = Busy /\ Writing' = Writing /\ Storing' = Storing /\ Busy \in SUBSET User
  BY Zenon, <1>1 DEF Busy, Writing, Storing
<1>3. mapFileUseCount = Absent => Cardinality(Busy) = 0
  BY Zenon, <1>2, UserSets DEF WalletDbInv, CountExact
<1>4. WalletDbTypeOK'
  BY SMTT(20), <1>1, UserSets DEF WalletDbInv, WalletDbTypeOK, Absent
<1>5. CountExact'
  BY Zenon, <1>1, <1>2, <1>3 DEF WalletDbInv, CountExact, Absent
<1>6. HandleInv' /\ EnvInv' /\ CounterInv'
  BY Zenon, <1>1, <1>2 DEF WalletDbInv, HandleInv, EnvInv, CounterInv
<1> QED BY Zenon, <1>4, <1>5, <1>6 DEF WalletDbInv

\* The first half of nWalletDBUpdated++ leaves room for the write.
LEMMA ReadCounterInv ==
    ASSUME WalletDbInv, NEW u \in User, ReadCounter(u)
    PROVE  WalletDbInv'
<1>1. at' = [at EXCEPT ![u] = "counted"] /\ at[u] = "open" /\ at \in [User -> Places]
  BY Zenon DEF ReadCounter, WalletDbInv, WalletDbTypeOK
<1>2. /\ Busy' = Busy /\ Storing' = Storing
      /\ Writing' = Writing \cup {u} /\ u \in User \ Writing /\ Writing \in SUBSET User
  BY Zenon, <1>1 DEF Busy, Writing, Storing
<1>3. Cardinality(Writing') = Cardinality(Writing) + 1 /\ Cardinality(Writing) \in Nat
  BY <1>2, UserSets
<1>4. /\ Cardinality(Writing) + written < MaxWrites
      /\ nSeen' = [nSeen EXCEPT ![u] = nWalletDBUpdated]
      /\ UNCHANGED <<fDbEnvInit, mapFileUseCount, mapDb, handles, pdb, nWalletDBUpdated, written,
                     logged, dat, nLastSeen, nLastFlushed, quiet, stage>>
  BY Zenon DEF ReadCounter, Writing, envVars, dataVars, threadVars
<1>5. WalletDbTypeOK'
  <2>1. at' \in [User -> Places]
    BY Zenon, <1>1 DEF Places
  <2> QED BY Zenon, <1>4, <2>1 DEF WalletDbInv, WalletDbTypeOK
<1>6. CountExact' /\ HandleInv' /\ EnvInv'
  BY Zenon, <1>1, <1>2, <1>4 DEF WalletDbInv, CountExact, HandleInv, EnvInv
<1>7. CounterInv'
  <2>1. written \in Nat /\ nWalletDBUpdated \in Nat
    BY WalletDbAssumption DEF WalletDbInv, WalletDbTypeOK
  <2>2. Cardinality(Writing') + written' <= MaxWrites
    BY <1>3, <1>4, <2>1, WalletDbAssumption
  <2>3. nSeen' \in [User -> Nat] /\ \A v \in User : nSeen'[v] <= written' + Cardinality(Storing')
    BY Zenon, <1>2, <1>4, <2>1 DEF WalletDbInv, CounterInv
  <2> QED BY Zenon, <1>2, <1>4, <2>2, <2>3 DEF WalletDbInv, CounterInv
<1> QED BY Zenon, <1>5, <1>6, <1>7 DEF WalletDbInv

\* The second half may overwrite what others stored, with no more than they could.
LEMMA StoreCounterInv ==
    ASSUME WalletDbInv, NEW u \in User, StoreCounter(u)
    PROVE  WalletDbInv'
<1>1. at' = [at EXCEPT ![u] = "write"] /\ at[u] = "counted" /\ at \in [User -> Places]
  BY Zenon DEF StoreCounter, WalletDbInv, WalletDbTypeOK
<1>2. /\ Busy' = Busy /\ Writing' = Writing /\ Storing' = Storing \cup {u}
      /\ u \in User \ Storing /\ Storing \in SUBSET User /\ Writing \in SUBSET User
      /\ Storing' \in SUBSET Writing
  BY Zenon, <1>1 DEF Busy, Writing, Storing
<1>3. Cardinality(Storing') = Cardinality(Storing) + 1 /\ Cardinality(Storing) \in Nat
  BY <1>2, UserSets
<1>4. /\ nWalletDBUpdated' = nSeen[u] + 1
      /\ UNCHANGED <<fDbEnvInit, mapFileUseCount, mapDb, handles, pdb, nSeen, written,
                     logged, dat, nLastSeen, nLastFlushed, quiet, stage>>
  BY Zenon DEF StoreCounter, envVars, dataVars, threadVars
<1>5. Cardinality(Storing') <= Cardinality(Writing) /\ Cardinality(Writing) \in Nat
  <2>1. IsFiniteSet(Writing)
    BY Zenon, <1>2, FS_Subset, WalletDbAssumption
  <2> QED BY Zenon, <1>2, <2>1, FS_Subset, FS_CardinalityType
<1>6. /\ written \in Nat /\ nSeen[u] \in Nat /\ nSeen[u] <= written + Cardinality(Storing)
      /\ Cardinality(Writing) + written <= MaxWrites
  BY SMTT(20), WalletDbAssumption DEF WalletDbInv, WalletDbTypeOK, CounterInv
<1>7. nWalletDBUpdated' <= written + Cardinality(Storing') /\ nWalletDBUpdated' \in 0 .. MaxWrites
  BY <1>3, <1>4, <1>5, <1>6, WalletDbAssumption
<1>8. WalletDbTypeOK'
  <2>1. at' \in [User -> Places]
    BY Zenon, <1>1 DEF Places
  <2> QED BY Zenon, <1>4, <1>7, <2>1 DEF WalletDbInv, WalletDbTypeOK
<1>9. CountExact' /\ HandleInv' /\ EnvInv'
  BY Zenon, <1>1, <1>2, <1>4 DEF WalletDbInv, CountExact, HandleInv, EnvInv
<1>10. CounterInv'
  <2>1. \A n \in Nat : n <= written + Cardinality(Storing) => n <= written + Cardinality(Storing')
    BY <1>3, <1>6
  <2>2. nLastSeen \in Nat /\ nLastFlushed \in Nat /\ nSeen \in [User -> Nat]
    BY SMTT(20), WalletDbAssumption DEF WalletDbInv, WalletDbTypeOK, CounterInv
  <2> QED BY Zenon, <1>2, <1>4, <1>6, <1>7, <2>1, <2>2 DEF WalletDbInv, CounterInv
<1> QED BY Zenon, <1>8, <1>9, <1>10 DEF WalletDbInv

\* A write goes to the logs.
LEMMA WriteInv ==
    ASSUME WalletDbInv, NEW u \in User, Write(u)
    PROVE  WalletDbInv'
<1>1. at' = [at EXCEPT ![u] = "open"] /\ at[u] = "write" /\ at \in [User -> Places]
  BY Zenon DEF Write, WalletDbInv, WalletDbTypeOK
<1>2. /\ Busy' = Busy /\ u \in Busy /\ Writing' = Writing \ {u} /\ Storing' = Storing \ {u}
      /\ u \in Storing /\ u \in Writing /\ Storing \in SUBSET User /\ Writing \in SUBSET User
  BY Zenon, <1>1 DEF Busy, Writing, Storing
<1>3. /\ Cardinality(Storing') = Cardinality(Storing) - 1 /\ Cardinality(Storing) \in Nat
      /\ Cardinality(Writing') = Cardinality(Writing) - 1 /\ Cardinality(Writing) \in Nat
      /\ Cardinality(Writing') \in Nat
  <2>1. Writing' \in SUBSET User
    BY Zenon, <1>2
  <2> QED BY <1>2, <2>1, UserSets
<1>4. /\ written' = written + 1 /\ logged' = logged \cup {written + 1}
      /\ UNCHANGED <<fDbEnvInit, mapFileUseCount, mapDb, handles, pdb, nSeen, nWalletDBUpdated,
                     dat, nLastSeen, nLastFlushed, quiet, stage>>
  BY Zenon DEF Write, envVars, threadVars
<1>5. written \in Nat /\ Cardinality(Writing) + written <= MaxWrites
  BY SMTT(20), WalletDbAssumption DEF WalletDbInv, WalletDbTypeOK, CounterInv
<1>6. written' + Cardinality(Storing') = written + Cardinality(Storing)
      /\ written' + Cardinality(Writing') <= MaxWrites /\ written' \in 0 .. MaxWrites
  BY <1>3, <1>4, <1>5, WalletDbAssumption
<1>7. 1 .. written' = 1 .. written \cup {written + 1}
  BY <1>4, <1>5
<1>8. WalletDbTypeOK'
  <2>1. at' \in [User -> Places]
    BY Zenon, <1>1 DEF Places
  <2>2. logged' \subseteq 1 .. written' /\ dat' \subseteq 1 .. written'
    BY Zenon, <1>4, <1>7 DEF WalletDbInv, WalletDbTypeOK
  <2> QED BY Zenon, <1>4, <1>6, <2>1, <2>2 DEF WalletDbInv, WalletDbTypeOK
<1>9. CountExact'
  BY Zenon, <1>2, <1>4 DEF WalletDbInv, CountExact
<1>10. HandleInv'
  BY Zenon, <1>1, <1>4 DEF WalletDbInv, HandleInv
<1>11. EnvInv'
  BY Zenon, <1>4, <1>7 DEF WalletDbInv, EnvInv
<1>12. CounterInv'
  BY SMTT(20), <1>3, <1>4, <1>5, <1>6 DEF WalletDbInv, CounterInv
<1> QED BY Zenon, <1>8, <1>9, <1>10, <1>11, <1>12 DEF WalletDbInv

\* CDB::Close forgets the handle while it is still counted.
LEMMA CloseInv ==
    ASSUME WalletDbInv, NEW u \in User, Close(u)
    PROVE  WalletDbInv'
<1>1. at' = [at EXCEPT ![u] = "close"] /\ at[u] = "open" /\ at \in [User -> Places]
  BY Zenon DEF Close, WalletDbInv, WalletDbTypeOK
<1>2. Busy' = Busy /\ Writing' = Writing /\ Storing' = Storing
  BY Zenon, <1>1 DEF Busy, Writing, Storing
<1>3. /\ pdb' = [pdb EXCEPT ![u] = 0] /\ pdb \in [User -> 0 .. handles] /\ handles \in Nat
      /\ UNCHANGED <<fDbEnvInit, mapFileUseCount, mapDb, handles, nSeen, nWalletDBUpdated, written,
                     logged, dat, nLastSeen, nLastFlushed, quiet, stage>>
  BY WalletDbAssumption
     DEF Close, envVars, dataVars, threadVars, WalletDbInv, WalletDbTypeOK
<1>4. WalletDbTypeOK'
  <2>1. at' \in [User -> Places] /\ pdb' \in [User -> 0 .. handles']
    BY <1>1, <1>3 DEF Places
  <2> QED BY Zenon, <1>3, <2>1 DEF WalletDbInv, WalletDbTypeOK
<1>5. HandleInv'
  BY Zenon, <1>1, <1>3 DEF WalletDbInv, HandleInv
<1>6. CountExact' /\ EnvInv' /\ CounterInv'
  BY Zenon, <1>2, <1>3 DEF WalletDbInv, CountExact, EnvInv, CounterInv
<1> QED BY Zenon, <1>4, <1>5, <1>6 DEF WalletDbInv

\* and gives up its count last.
LEMMA ReleaseInv ==
    ASSUME WalletDbInv, NEW u \in User, Release(u)
    PROVE  WalletDbInv'
<1>1. at' = [at EXCEPT ![u] = "idle"] /\ at[u] = "close" /\ at \in [User -> Places]
  BY Zenon DEF Release, WalletDbInv, WalletDbTypeOK
<1>2. /\ Busy' = Busy \ {u} /\ u \in Busy /\ Writing' = Writing /\ Storing' = Storing
      /\ Busy \in SUBSET User /\ Busy' \in SUBSET User
  BY Zenon, <1>1 DEF Busy, Writing, Storing
<1>3. Cardinality(Busy') = Cardinality(Busy) - 1 /\ Cardinality(Busy') \in 0 .. Cardinality(User)
  BY Zenon, <1>2, UserSets
<1>4. /\ mapFileUseCount' = mapFileUseCount - 1
      /\ UNCHANGED <<fDbEnvInit, mapDb, handles, pdb, nSeen, nWalletDBUpdated, written,
                     logged, dat, nLastSeen, nLastFlushed, quiet, stage>>
  BY Zenon DEF Release, dataVars, threadVars
<1>5. mapFileUseCount # Absent /\ mapFileUseCount' = Cardinality(Busy') /\ mapFileUseCount' # Absent
  BY <1>2, <1>3, <1>4 DEF WalletDbInv, CountExact, Absent
<1>6. WalletDbTypeOK'
  <2>1. at' \in [User -> Places]
    BY Zenon, <1>1 DEF Places
  <2>2. mapFileUseCount' \in Absent .. Cardinality(User)
    BY <1>3, <1>5, UserSets DEF Absent
  <2> QED BY Zenon, <1>4, <2>1, <2>2 DEF WalletDbInv, WalletDbTypeOK
<1>7. CountExact'
  BY Zenon, <1>5 DEF CountExact
<1>8. HandleInv'
  BY Zenon, <1>1, <1>4 DEF WalletDbInv, HandleInv
<1>9. EnvInv' /\ CounterInv'
  BY Zenon, <1>2, <1>4, <1>5 DEF WalletDbInv, EnvInv, CounterInv
<1> QED BY Zenon, <1>6, <1>7, <1>8, <1>9 DEF WalletDbInv

\* A file that is not in use has no user, and nobody has its handle.
LEMMA UnusedMeansIdle ==
    ASSUME WalletDbInv, Unused
    PROVE  Busy = {} /\ \A u \in User : pdb[u] = 0
<1>1. Busy \in SUBSET User
  BY Zenon DEF Busy
<1>2. Busy = {}
  BY Zenon, <1>1, UserSets DEF Unused, WalletDbInv, CountExact, Absent
<1> QED BY Zenon, <1>2 DEF Busy, WalletDbInv, HandleInv

\* Whoever detaches the file does so when it is not in use: ThreadFlushWalletDB,
\* BackupWallet and the calls of CDBEnv::Flush, the last of which may also close the
\* environment and remove the logs.
LEMMA DetachInv ==
    ASSUME WalletDbInv, Unused, Detach,
           handles' = handles, userVars' = userVars, nWalletDBUpdated' = nWalletDBUpdated,
           written' = written, fDbEnvInit' \in BOOLEAN, logged' \subseteq logged,
           nLastSeen' = nLastSeen, nLastFlushed' \in {nLastFlushed, nWalletDBUpdated},
           stage' \in 1 .. 4, ~fDbEnvInit' => stage' = 4
    PROVE  WalletDbInv'
<1>1. Busy = {} /\ \A u \in User : pdb[u] = 0
  BY Zenon, UnusedMeansIdle
<1>2. /\ mapDb' = 0 /\ mapFileUseCount' = Absent /\ dat' = 1 .. written
      /\ UNCHANGED <<handles, at, pdb, nSeen, nWalletDBUpdated, written, nLastSeen>>
  BY Zenon DEF Detach, userVars
<1>3. Busy' = {} /\ Writing' = Writing /\ Storing' = Storing
  BY Zenon, <1>1, <1>2 DEF Busy, Writing, Storing
<1>4. Absent \in Absent .. Cardinality(User) /\ handles \in Nat
  BY SMTT(20), UserSets, WalletDbAssumption DEF Absent, WalletDbInv, WalletDbTypeOK
<1>5. WalletDbTypeOK'
  BY Zenon, <1>2, <1>4 DEF WalletDbInv, WalletDbTypeOK
<1>6. CountExact' /\ HandleInv' /\ EnvInv'
  BY Zenon, <1>1, <1>2, <1>3 DEF CountExact, HandleInv, EnvInv
<1>7. CounterInv'
  BY Zenon, <1>2, <1>3 DEF WalletDbInv, CounterInv
<1> QED BY Zenon, <1>5, <1>6, <1>7 DEF WalletDbInv

\* CDB::Rewrite leaves the file with an entry, and with a handle if the copy fails.
LEMMA RewriteInv ==
    ASSUME WalletDbInv, Rewrite
    PROVE  WalletDbInv'
<1>1. Busy = {} /\ \A u \in User : pdb[u] = 0
  BY Zenon, UnusedMeansIdle DEF Rewrite
<1>2. /\ handles < MaxOpens /\ handles' = handles + 1 /\ mapDb' \in {0, handles'}
      /\ mapFileUseCount' = 0 /\ dat' = 1 .. written
      /\ UNCHANGED <<fDbEnvInit, at, pdb, nSeen, nWalletDBUpdated, written, logged, nLastSeen,
                     nLastFlushed, quiet, stage>>
  BY Zenon DEF Rewrite, userVars, threadVars
<1>3. Busy' = {} /\ Writing' = Writing /\ Storing' = Storing /\ Cardinality({}) = 0
  BY Zenon, <1>1, <1>2, FS_EmptySet DEF Busy, Writing, Storing
<1>4. WalletDbTypeOK'
  <2>1. handles' \in 0 .. MaxOpens /\ 0 .. handles \subseteq 0 .. handles'
    BY <1>2, WalletDbAssumption DEF WalletDbInv, WalletDbTypeOK
  <2>2. pdb' \in [User -> 0 .. handles']
    BY Zenon, <1>2, <2>1 DEF WalletDbInv, WalletDbTypeOK
  <2>3. mapFileUseCount' \in Absent .. Cardinality(User)
    BY <1>2, UserSets DEF Absent
  <2> QED BY Zenon, <1>2, <2>1, <2>2, <2>3 DEF WalletDbInv, WalletDbTypeOK
<1>5. CountExact' /\ HandleInv'
  BY SMTT(20), <1>1, <1>2, <1>3 DEF CountExact, HandleInv, Absent
<1>6. EnvInv'
  <2>1. fDbEnvInit
    BY DEF Rewrite, Runs, WalletDbInv, EnvInv
  <2> QED BY Zenon, <1>2, <2>1 DEF EnvInv
<1>7. CounterInv'
  BY Zenon, <1>2, <1>3 DEF WalletDbInv, CounterInv
<1> QED BY Zenon, <1>4, <1>5, <1>6, <1>7 DEF WalletDbInv

\* Both calls of CDBEnv::Flush in Shutdown.
LEMMA FlushInv ==
    ASSUME WalletDbInv, FlushFirst \/ FlushLast
    PROVE  WalletDbInv'
<1>1. /\ handles' = handles /\ userVars' = userVars /\ nWalletDBUpdated' = nWalletDBUpdated
      /\ written' = written /\ nLastSeen' = nLastSeen /\ nLastFlushed' = nLastFlushed
      /\ stage \in {2, 3} /\ stage' = stage + 1
      /\ IF mapFileUseCount = 0 THEN Detach ELSE UNCHANGED <<mapDb, mapFileUseCount, dat>>
      /\ \/ fDbEnvInit' = fDbEnvInit /\ logged' = logged
         \/ stage' = 4 /\ mapFileUseCount' = Absent /\ fDbEnvInit' = FALSE /\ logged' = {}
  <2>1. CASE FlushFirst
    BY SMTT(20), <2>1 DEF FlushFirst, Flush, threadVars
  <2>2. CASE FlushLast
    BY SMTT(20), <2>2 DEF FlushLast, Flush, threadVars
  <2> QED BY Zenon, <2>1, <2>2
<1>2. fDbEnvInit = TRUE
  BY <1>1 DEF WalletDbInv, EnvInv, WalletDbTypeOK
<1>3. fDbEnvInit' \in BOOLEAN /\ logged' \subseteq logged /\ (~fDbEnvInit' => stage' = 4)
  BY Zenon, <1>1, <1>2
<1>4. CASE mapFileUseCount = 0
  <2>1. Detach
    BY Zenon, <1>1, <1>4
  <2>2. Unused
    BY Zenon, <1>4 DEF Unused
  <2> QED BY <1>1, <1>3, <2>1, <2>2, DetachInv
<1>5. CASE mapFileUseCount # 0
  <2>1. /\ UNCHANGED <<mapDb, mapFileUseCount, dat, at, pdb, nSeen>>
        /\ (fDbEnvInit' = fDbEnvInit /\ logged' = logged) \/ mapFileUseCount = Absent
    BY Zenon, <1>1, <1>5 DEF userVars
  <2>2. Busy' = Busy /\ Writing' = Writing /\ Storing' = Storing
    BY Zenon, <2>1 DEF Busy, Writing, Storing
  <2>3. WalletDbTypeOK'
    BY SMTT(20), <1>1, <1>3, <2>1 DEF WalletDbInv, WalletDbTypeOK
  <2>4. CountExact' /\ HandleInv'
    BY Zenon, <1>1, <2>1, <2>2 DEF WalletDbInv, CountExact, HandleInv
  <2>5. EnvInv'
    BY Zenon, <1>1, <1>2, <1>3, <2>1 DEF WalletDbInv, EnvInv, CountExact
  <2>6. CounterInv'
    BY Zenon, <1>1, <2>1, <2>2 DEF WalletDbInv, CounterInv
  <2> QED BY Zenon, <2>3, <2>4, <2>5, <2>6 DEF WalletDbInv
<1> QED BY Zenon, <1>4, <1>5

\* ThreadFlushWalletDB and the join of the threads touch neither file nor users.
LEMMA QuietInv ==
    ASSUME WalletDbInv, SeeUpdate \/ TwoSeconds \/ Joined \/ UNCHANGED walletDbVars
    PROVE  WalletDbInv'
<1>1. /\ UNCHANGED <<fDbEnvInit, mapFileUseCount, mapDb, handles, at, pdb, nSeen,
                     nWalletDBUpdated, written, logged, dat, nLastFlushed>>
      /\ nLastSeen' \in {nLastSeen, nWalletDBUpdated}
      /\ stage' = stage \/ (stage = 1 /\ stage' = 2)
  BY Zenon DEF SeeUpdate, TwoSeconds, Joined, walletDbVars, envVars, userVars, dataVars, threadVars
<1>2. Busy' = Busy /\ Writing' = Writing /\ Storing' = Storing
  BY Zenon, <1>1 DEF Busy, Writing, Storing
<1>3. WalletDbTypeOK'
  BY SMTT(20), <1>1 DEF WalletDbInv, WalletDbTypeOK
<1>4. CountExact' /\ HandleInv' /\ EnvInv'
  BY SMTT(20), <1>1, <1>2 DEF WalletDbInv, CountExact, HandleInv, EnvInv
<1>5. CounterInv'
  BY Zenon, <1>1, <1>2 DEF WalletDbInv, CounterInv
<1> QED BY Zenon, <1>3, <1>4, <1>5 DEF WalletDbInv

-----------------------------------------------------------------------------
(* The theorem about the wallet database.                                   *)

\* Every step of the users, of ThreadFlushWalletDB and of Shutdown.
LEMMA WalletDbStepInv == WalletDbInv /\ [WalletDbNext]_walletDbVars => WalletDbInv'
<1> SUFFICES ASSUME WalletDbInv, [WalletDbNext]_walletDbVars PROVE WalletDbInv'
  OBVIOUS
<1>1. ASSUME NEW u \in User, Use(u) PROVE WalletDbInv'
  BY Zenon, <1>1, OpenInv, OpenFailsInv, ReadCounterInv, StoreCounterInv, WriteInv, CloseInv, ReleaseInv
     DEF Use
<1>2. CASE FlushWallet
  <2>1. /\ Unused /\ Detach /\ stage = 1
        /\ handles' = handles /\ userVars' = userVars /\ nWalletDBUpdated' = nWalletDBUpdated
        /\ written' = written /\ fDbEnvInit' = fDbEnvInit /\ logged' = logged
        /\ nLastSeen' = nLastSeen /\ nLastFlushed' = nWalletDBUpdated /\ stage' = stage
    BY Zenon, <1>2 DEF FlushWallet, Due, Unused
  <2>2. fDbEnvInit
    BY <2>1 DEF WalletDbInv, EnvInv
  <2> QED BY <2>1, <2>2, DetachInv
<1>3. CASE BackupWallet
  <2>1. /\ Unused /\ Detach /\ stage <= 2
        /\ handles' = handles /\ userVars' = userVars /\ nWalletDBUpdated' = nWalletDBUpdated
        /\ written' = written /\ fDbEnvInit' = fDbEnvInit /\ logged' = logged
        /\ nLastSeen' = nLastSeen /\ nLastFlushed' = nLastFlushed /\ stage' = stage
    BY Zenon, <1>3 DEF BackupWallet, Runs, threadVars
  <2>2. fDbEnvInit /\ stage \in 1 .. 4
    BY <2>1 DEF WalletDbInv, EnvInv, WalletDbTypeOK
  <2> QED BY Zenon, <2>1, <2>2, DetachInv
<1>4. CASE Rewrite
  BY Zenon, <1>4, RewriteInv
<1>5. CASE FlushFirst \/ FlushLast
  BY Zenon, <1>5, FlushInv
<1>6. CASE SeeUpdate \/ TwoSeconds \/ Joined \/ UNCHANGED walletDbVars
  BY Zenon, <1>6, QuietInv
<1> QED BY Zenon, <1>1, <1>2, <1>3, <1>4, <1>5, <1>6 DEF WalletDbNext

\* The invariant says what WalletDbSafe promises.
LEMMA WalletDbInvSafe == WalletDbInv => WalletDbSafe
<1> SUFFICES ASSUME WalletDbInv PROVE WalletDbSafe
  OBVIOUS
<1>1. HandlesAlive
  BY Zenon DEF WalletDbInv, HandleInv, EnvInv, CountExact, Busy, HandlesAlive
<1>2. NothingLost
  BY Zenon DEF WalletDbInv, EnvInv, CountExact, NothingLost
<1> QED BY Zenon, <1>1, <1>2 DEF WalletDbSafe, WalletDbInv

\* For any number of users, whatever they interleave with ThreadFlushWalletDB,
\* BackupWallet, CDB::Rewrite and Shutdown: no CDB object keeps a handle that was closed
\* or outlives the environment, and every committed write is in wallet.dat or in the
\* logs, in wallet.dat once the logs are removed.
THEOREM WalletDbIsSafe == WalletDbSpec => []WalletDbSafe
<1>1. WalletDbInit => WalletDbInv
  BY Zenon, WalletDbInitInv
<1>2. WalletDbInv /\ [WalletDbNext]_walletDbVars => WalletDbInv'
  BY Zenon, WalletDbStepInv
<1>3. WalletDbInv => WalletDbSafe
  BY Zenon, WalletDbInvSafe
<1> QED BY <1>1, <1>2, <1>3, PTL DEF WalletDbSpec
=============================================================================
