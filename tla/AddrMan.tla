------------------------------- MODULE AddrMan -------------------------------
(***************************************************************************)
(* The address manager: addresses heard of go into "new" buckets, those    *)
(* that were reached into "tried" buckets, and an address leaves a full    *)
(* bucket when another enters. An id stands for the address it was created *)
(* for. Times are kept only where the order of two of them decides: which  *)
(* of a full new bucket goes depends on times and random numbers, and is   *)
(* any of it. peers.dat is written every 15 minutes and at the end, and    *)
(* read at the start. A start from an older dump brings the state a start  *)
(* at the time of that dump would have, so the last dump is enough.        *)
(***************************************************************************)
EXTENDS Naturals, Sequences, FiniteSets, TLC

CONSTANTS
  Addr, Source,
  NewBucket, TriedBucket,
  GetNewBucket,      \* GetNewBucket[a, s]: the new bucket of a heard of from s
  GetTriedBucket,    \* GetTriedBucket[a]
  NewBucketSize, TriedBucketSize,
  BucketsPerAddress, \* ADDRMAN_NEW_BUCKETS_PER_ADDRESS
  Inspect,           \* ADDRMAN_TRIED_ENTRIES_INSPECT_ON_EVICT
  GetAddrPct,        \* ADDRMAN_GETADDR_MAX_PCT
  MaxTime            \* bound on the times of success

AddrManAssumption ==
  /\ GetNewBucket \in [Addr \X Source -> NewBucket]
  /\ GetTriedBucket \in [Addr -> TriedBucket]
  /\ {NewBucketSize, TriedBucketSize, BucketsPerAddress, Inspect} \subseteq Nat \ {0}
  /\ MaxTime \in Nat

VARIABLES
  mapInfo,  \* the entries, each [source, ref, tried, success, pos]
  vRandom,  \* all entries in random order
  nNew, nTried,
  vvNew,    \* vvNew[b]: the entries of new bucket b
  vvTried   \* vvTried[b]: the entries of tried bucket b, in order

vars == <<mapInfo, vRandom, nNew, nTried, vvNew, vvTried>>

Entry == [source : Source, ref : Nat, tried : BOOLEAN, success : 0..MaxTime, pos : Nat]
Known == DOMAIN mapInfo

Init ==
  /\ mapInfo = << >> /\ vRandom = <<>> /\ nNew = 0 /\ nTried = 0
  /\ vvNew = [b \in NewBucket |-> {}] /\ vvTried = [b \in TriedBucket |-> <<>>]

-----------------------------------------------------------------------------
(* A state of the tables is a record; the operations are functions on it.   *)

Tables == [info |-> mapInfo, rnd |-> vRandom, nNew |-> nNew, nTried |-> nTried,
           new |-> vvNew, tried |-> vvTried]

Becomes(t) ==
  /\ mapInfo' = t.info /\ vRandom' = t.rnd /\ nNew' = t.nNew /\ nTried' = t.nTried
  /\ vvNew' = t.new /\ vvTried' = t.tried

(* Create: the entry goes to the end of vRandom. *)
Create(t, a, s) ==
  [t EXCEPT !.info = t.info @@ a :> [source |-> s, ref |-> 0, tried |-> FALSE, success |-> 0,
                                     pos |-> Len(t.rnd) + 1],
            !.rnd = Append(@, a),
            !.nNew = @ + 1]

SwapRandom(t, i, j) ==
  [t EXCEPT !.rnd = [t.rnd EXCEPT ![i] = t.rnd[j], ![j] = t.rnd[i]],
            !.info = [t.info EXCEPT ![t.rnd[i]].pos = j, ![t.rnd[j]].pos = i]]

(* An entry no bucket refers to is swapped to the end of vRandom and erased. *)
Erase(t, a) ==
  LET u == SwapRandom(t, t.info[a].pos, Len(t.rnd)) IN
  [u EXCEPT !.rnd = SubSeq(@, 1, Len(@) - 1),
            !.info = [b \in DOMAIN u.info \ {a} |-> u.info[b]],
            !.nNew = @ - 1]

(* ShrinkNew, with the entry that goes. *)
ShrinkNew(t, b, a) ==
  LET u == [t EXCEPT !.info[a].ref = @ - 1, !.new[b] = @ \ {a}] IN
  IF u.info[a].ref = 0 THEN Erase(u, a) ELSE u

(* The results of adding an entry to a new bucket, which may be full. *)
Insert(t, b, a) ==
  IF a \in t.new[b] THEN {t}
  ELSE LET u == [t EXCEPT !.info[a].ref = @ + 1] IN
       {[v EXCEPT !.new[b] = @ \cup {a}] :
          v \in IF Cardinality(u.new[b]) = NewBucketSize
                  THEN {ShrinkNew(u, b, c) : c \in u.new[b]} ELSE {u}}

(* A known entry is added once more if it is not tried and not in too many *)
(* buckets; whether its time is news, and the dice, allow it or not.       *)
MayAdd(t, a) == ~t.info[a].tried /\ t.info[a].ref < BucketsPerAddress

(* Add_ *)
Add(a, s) ==
  /\ \/ /\ a \notin Known
        /\ \E t \in Insert(Create(Tables, a, s), GetNewBucket[a, s], a) : Becomes(t)
     \/ /\ a \in Known /\ MayAdd(Tables, a)
        /\ \E t \in Insert(Tables, GetNewBucket[a, s], a) : Becomes(t)

-----------------------------------------------------------------------------
(* Moving to the tried table.                                               *)

(* k random positions of n, the i-th at i or after it. *)
Positions(k, n) == {r \in [1..k -> 1..n] : \A i \in 1..k : r[i] >= i}

(* SelectTried with the random positions r: the first entries of the bucket *)
(* are shuffled in, and a position is returned.                            *)
SelectTried(info, v, r) ==
  LET k == IF Len(v) < Inspect THEN Len(v) ELSE Inspect
      after[i \in 0..k] ==
        IF i = 0 THEN [v |-> v, pos |-> 0, oldest |-> 0]
        ELSE LET p == after[i - 1]
                 x == p.v[r[i]]
                 w == [p.v EXCEPT ![r[i]] = p.v[i], ![i] = x]
             IN IF p.pos = 0 \/ info[x].success < p.oldest
                  THEN [v |-> w, pos |-> r[i], oldest |-> info[x].success]
                  ELSE [p EXCEPT !.v = w]
  IN after[k]

(* The random positions SelectTried may draw. *)
Draws(n) == Positions(IF n < Inspect THEN n ELSE Inspect, n)

(* Faulty variant: the evicted entry goes to its own new bucket, full or not. *)
FaultyOwn(t, old, origin) ==
  [t EXCEPT !.info[old].tried = FALSE, !.info[old].ref = 1,
            !.new[GetNewBucket[old, t.info[old].source]] = @ \cup {old}, !.nNew = @ + 1]

(* The entry evicted from the tried table goes back to its new bucket, or, *)
(* if that is full, to the one the other entry came from.                  *)
Back(t, old, origin) ==
  LET own == GetNewBucket[old, t.info[old].source]
      b == IF Cardinality(t.new[own]) < NewBucketSize THEN own ELSE origin
  IN [t EXCEPT !.info[old].tried = FALSE, !.info[old].ref = 1,
               !.new[b] = @ \cup {old}, !.nNew = @ + 1]

(* The entry leaves all new buckets. *)
LeaveNew(t, a, origin) ==
  [t EXCEPT !.info[a].ref = @ - Cardinality({b \in NewBucket : a \in t.new[b]}),
            !.nNew = @ - 1,
            !.new = [b \in NewBucket |-> t.new[b] \ {a}]]

(* MakeTried: the results of moving an entry to its tried bucket. *)
MakeTried(t, a, origin) ==
  LET u == LeaveNew(t, a, origin)
      k == GetTriedBucket[a]
  IN IF Len(u.tried[k]) < TriedBucketSize
       THEN {[u EXCEPT !.tried[k] = Append(@, a), !.nTried = @ + 1, !.info[a].tried = TRUE]}
       ELSE {LET s == SelectTried(u.info, u.tried[k], r)
                 v == Back(u, s.v[s.pos], origin)
             IN [v EXCEPT !.tried[k] = [s.v EXCEPT ![s.pos] = a], !.info[a].tried = TRUE] :
             r \in Draws(Len(u.tried[k]))}

(* Good_ *)
Good(a, time) ==
  /\ a \in Known
  /\ LET t == [Tables EXCEPT !.info[a].success = time] IN
     IF mapInfo[a].tried THEN Becomes(t)
     ELSE \E b \in {c \in NewBucket : a \in vvNew[c]} :
          \E u \in MakeTried(t, a, b) : Becomes(u)

-----------------------------------------------------------------------------
(* GetAddr_ brings entries drawn at random to the front of vRandom until it *)
(* has as many good ones as it gives, or all were drawn.                    *)
GetAddr ==
  LET n == Len(vRandom)
      give == (GetAddrPct * n) \div 100
  IN /\ give > 0
     /\ \E k \in give..n : \E r \in Positions(k, n) :
          LET after[i \in 0..k] == IF i = 0 THEN Tables ELSE SwapRandom(after[i - 1], i, r[i])
          IN Becomes(after[k])

(* peers.dat: the entries of the new table, those of the tried table, and  *)
(* the members of the new buckets.                                         *)
Serialize(t) ==
  [new |-> [a \in {b \in DOMAIN t.info : t.info[b].ref > 0} |->
              [source |-> t.info[a].source, success |-> t.info[a].success]],
   tried |-> [a \in {b \in DOMAIN t.info : t.info[b].tried} |->
              [source |-> t.info[a].source, success |-> t.info[a].success]],
   buckets |-> t.new]

(* An order in which the entries are read. *)
Orders(S) == {q \in [1..Cardinality(S) -> S] : \A i, j \in DOMAIN q : q[i] = q[j] => i = j}

(* Faulty variant: references are not counted again. *)
FaultyRead(f, q) ==
  [info |-> [a \in DOMAIN f.new \cup DOMAIN f.tried |->
      [source |-> IF a \in DOMAIN f.new THEN f.new[a].source ELSE f.tried[a].source,
       success |-> IF a \in DOMAIN f.new THEN f.new[a].success ELSE f.tried[a].success,
       ref |-> IF a \in DOMAIN f.new THEN 1 ELSE 0,
       tried |-> a \in DOMAIN f.tried,
       pos |-> CHOOSE i \in DOMAIN q : q[i] = a]],
   rnd |-> q, nNew |-> Cardinality(DOMAIN f.new), nTried |-> Cardinality(DOMAIN f.tried),
   new |-> f.buckets,
   tried |-> [k \in TriedBucket |-> SelectSeq(q, LAMBDA a : a \in DOMAIN f.tried /\ GetTriedBucket[a] = k)]]

(* Unserialize: vRandom, the tried buckets and the references are made anew. *)
Unserialize(f, q) ==
  [info |-> [a \in DOMAIN f.new \cup DOMAIN f.tried |->
      [source |-> IF a \in DOMAIN f.new THEN f.new[a].source ELSE f.tried[a].source,
       success |-> IF a \in DOMAIN f.new THEN f.new[a].success ELSE f.tried[a].success,
       ref |-> Cardinality({b \in NewBucket : a \in f.buckets[b]}),
       tried |-> a \in DOMAIN f.tried,
       pos |-> CHOOSE i \in DOMAIN q : q[i] = a]],
   rnd |-> q, nNew |-> Cardinality(DOMAIN f.new), nTried |-> Cardinality(DOMAIN f.tried),
   new |-> f.buckets,
   tried |-> [k \in TriedBucket |-> SelectSeq(q, LAMBDA a : a \in DOMAIN f.tried /\ GetTriedBucket[a] = k)]]

(* The program stops with a last DumpAddresses and starts again. *)
Restart ==
  LET f == Serialize(Tables) IN
  \E p \in Orders(DOMAIN f.new), q \in Orders(DOMAIN f.tried) :
    Becomes(Unserialize(f, p \o q))

Next ==
  \/ \E a \in Addr : \/ \E s \in Source : Add(a, s)
                     \/ \E time \in 1..MaxTime : Good(a, time)
  \/ GetAddr \/ Restart

Spec == Init /\ [][Next]_vars

-----------------------------------------------------------------------------
(* Properties.                                                              *)

(* The types of the tables (mapInfo, vRandom, vvNew, vvTried). *)
TypeOK ==
  /\ Known \subseteq Addr /\ \A a \in Known : mapInfo[a] \in Entry
  /\ vRandom \in Seq(Addr) /\ nNew \in Nat /\ nTried \in Nat
  /\ vvNew \in [NewBucket -> SUBSET Addr] /\ vvTried \in [TriedBucket -> Seq(Addr)]

(* Check_, the consistency check that DEBUG_ADDRMAN compiles in: vRandom    *)
(* holds every entry at the position it records, an entry is tried and in   *)
(* one tried bucket or new and counted once for each new bucket it is in,   *)
(* and nNew and nTried count them.                                          *)
Check ==
  LET tried == {a \in Known : mapInfo[a].tried} IN
  /\ Len(vRandom) = nTried + nNew
  /\ \A a \in Known :
       /\ mapInfo[a].pos \in DOMAIN vRandom /\ vRandom[mapInfo[a].pos] = a
       /\ IF mapInfo[a].tried
            THEN /\ mapInfo[a].success > 0 /\ mapInfo[a].ref = 0
                 /\ Cardinality({<<b, i>> \in TriedBucket \X (1..TriedBucketSize) :
                                   i \in DOMAIN vvTried[b] /\ vvTried[b][i] = a}) = 1
            ELSE /\ mapInfo[a].ref \in 1..BucketsPerAddress
                 /\ mapInfo[a].ref = Cardinality({b \in NewBucket : a \in vvNew[b]})
  /\ nTried = Cardinality(tried) /\ nNew = Cardinality(Known \ tried)
  /\ \A b \in TriedBucket : \A i \in DOMAIN vvTried[b] : vvTried[b][i] \in tried
  /\ \A b \in NewBucket : vvNew[b] \subseteq Known \ tried

(* Buckets stay within their sizes: when an entry goes back from a tried    *)
(* bucket, `there is certainly place' where the other came from             *)
(* (addrman.cpp:239).                                                       *)
BucketSizes ==
  /\ \A b \in NewBucket : Cardinality(vvNew[b]) <= NewBucketSize
  /\ \A b \in TriedBucket : Len(vvTried[b]) <= TriedBucketSize

(* A dump and a restart bring back the same table: the same entries in the  *)
(* same new buckets, and the same entries in each tried bucket.             *)
RoundTrip ==
  LET f == Serialize(Tables) IN
  \A p \in Orders(DOMAIN f.new), q \in Orders(DOMAIN f.tried) :
    LET t == Unserialize(f, p \o q) IN
    /\ DOMAIN t.info = Known
    /\ \A a \in Known : [t.info[a] EXCEPT !.pos = 0] = [mapInfo[a] EXCEPT !.pos = 0]
    /\ t.new = vvNew /\ t.nNew = nNew /\ t.nTried = nTried
    /\ \A k \in TriedBucket : {t.tried[k][i] : i \in DOMAIN t.tried[k]}
                              = {vvTried[k][i] : i \in DOMAIN vvTried[k]}

(* `find the least recently tried among them' (addrman.cpp:137): of the     *)
(* entries it inspects, SelectTried returns the position of one that        *)
(* succeeded longest ago.                                                   *)
SelectsOldest ==
  \A b \in TriedBucket : Len(vvTried[b]) = TriedBucketSize =>
    \A r \in Draws(TriedBucketSize) :
      LET s == SelectTried(mapInfo, vvTried[b], r) IN
      \A i \in DOMAIN r : mapInfo[s.v[s.pos]].success <= mapInfo[s.v[i]].success
=============================================================================
