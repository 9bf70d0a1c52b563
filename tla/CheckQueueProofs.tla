-------------------------- MODULE CheckQueueProofs --------------------------
(***************************************************************************)
(* Proofs about CheckQueue, for any number of workers, checks and any      *)
(* batch size: nTodo counts what is outstanding, Wait is exact, and the    *)
(* counters agree whenever the queue is unused and its mutex is free.      *)
(***************************************************************************)
EXTENDS CheckQueue, FiniteSetTheorems, TLAPS

\* The threads counted in nTotal and not in nIdle.
Busy == {t \in Thread : pc[t] \in {"locked", "working"}}

\* The threads inside cond.wait.
Asleep == {t \in Thread : pc[t] \in {"waiting", "notified"}}

\* Where a thread may be, and what it holds there.
PlaceInv ==
    /\ \A t \in Thread : pc[t] = "locked" <=> mutex = t
    /\ \A t \in Thread : pc[t] = "working" <=> batch[t] # {}
    /\ \A w \in Worker : pc[w] \notin {"out", "adding", "aborted"}
    /\ pc[Master] # "exited"

\* Threads, counted.
CountInv ==
    /\ nTotal = nIdle + Cardinality(Busy)
    /\ nIdle >= Cardinality(Asleep)

\* What the results so far say about the checks accounted for.
ResultInv ==
    /\ Outstanding \subseteq pushed
    /\ pushed \subseteq used
    /\ pc[Master] \in {"out", "aborted"} => pushed = {}
    /\ fAllOk => (pushed \ Outstanding) \cap bad = {}
    /\ ~fAllOk => pushed \cap bad # {}
    /\ \A t \in Thread : pc[t] = "working" /\ ~fOk[t] => pushed \cap bad # {}

IInv == TypeOK /\ PlaceInv /\ CountInv /\ TodoCounts /\ ResultInv

-----------------------------------------------------------------------------
\* There are finitely many threads, and sets of checks are finite.
LEMMA Finiteness ==
    /\ IsFiniteSet(Thread)
    /\ \A S \in SUBSET Check : IsFiniteSet(S) /\ Cardinality(S) \in Nat
    /\ \A S \in SUBSET Thread : IsFiniteSet(S) /\ Cardinality(S) \in Nat
<1>1. IsFiniteSet(Thread)
  BY Zenon, QueueAssumption, FS_AddElement DEF Thread
<1>2. \A S \in SUBSET Check : IsFiniteSet(S) /\ Cardinality(S) \in Nat
  BY Zenon, QueueAssumption, FS_Subset, FS_CardinalityType
<1>3. \A S \in SUBSET Thread : IsFiniteSet(S) /\ Cardinality(S) \in Nat
  BY Zenon, <1>1, FS_Subset, FS_CardinalityType
<1> QED BY Zenon, <1>1, <1>2, <1>3

\* The batch size is a positive number, whatever the counters are.
LEMMA BatchSize ==
    ASSUME TypeOK
    PROVE  nNow \in Nat \ {0}
<1>1. Cardinality(queue) \in Nat
  BY Zenon, Finiteness DEF TypeOK
<1>2. Cardinality(queue) \div (nTotal + nIdle + 1) \in Int
  BY <1>1 DEF TypeOK
<1> QED BY <1>2, QueueAssumption DEF nNow

\* The initial state: nobody counted, nothing pushed.
LEMMA InitIInv == Init => IInv
<1> SUFFICES ASSUME Init PROVE IInv
  OBVIOUS
<1>1. TypeOK
  BY Zenon, QueueAssumption DEF Init, TypeOK, Thread, Place
<1>2. PlaceInv
  BY Zenon, QueueAssumption DEF Init, PlaceInv, Thread
<1>3. Busy = {} /\ Asleep = {} /\ Outstanding = {}
  BY Zenon DEF Init, Busy, Asleep, Outstanding, Thread
<1>4. CountInv /\ TodoCounts
  BY <1>3, FS_EmptySet DEF Init, CountInv, TodoCounts
<1>5. ResultInv
  BY Zenon, <1>3 DEF Init, ResultInv, Thread
<1> QED BY Zenon, <1>1, <1>2, <1>4, <1>5 DEF IInv

-----------------------------------------------------------------------------
(* Preservation, action by action.                                          *)

\* A step that moves threads only within cond.wait, or from outside the pool to
\* outside the pool, counts nobody differently.
LEMMA SameCount ==
    ASSUME IInv, UNCHANGED <<nIdle, nTotal>>, Busy' = Busy, Asleep' = Asleep
    PROVE  CountInv'
BY Zenon DEF IInv, CountInv

\* A thread that moves alone.
LEMMA Moved ==
    ASSUME IInv, NEW t \in Thread, NEW x \in Place, pc' = [pc EXCEPT ![t] = x]
    PROVE  /\ pc' \in [Thread -> Place] /\ pc'[t] = x
           /\ \A u \in Thread : u # t => pc'[u] = pc[u]
<1>1. pc \in [Thread -> Place]
  BY Zenon DEF IInv, TypeOK
<1> QED BY Zenon, <1>1

\* A thread that takes the mutex, or lets it go to do something else than a batch, or
\* does neither.
LEMMA Placed ==
    ASSUME IInv, NEW t \in Thread, NEW x \in Place, pc' = [pc EXCEPT ![t] = x], batch' = batch,
           pc[t] # "working" /\ x # "working",
           \/ mutex = NoThread /\ mutex' = t /\ x = "locked"
           \/ pc[t] = "locked" /\ mutex' = NoThread /\ x # "locked"
           \/ pc[t] # "locked" /\ mutex' = mutex /\ x # "locked",
           t = Master => x # "exited",
           t # Master => x \notin {"out", "adding", "aborted"}
    PROVE  PlaceInv'
<1>1. /\ pc' \in [Thread -> Place] /\ pc'[t] = x
      /\ \A u \in Thread : u # t => pc'[u] = pc[u]
  BY Zenon, Moved
<1>2. PlaceInv /\ NoThread \notin Thread /\ Master \in Thread /\ Worker \subseteq Thread
  BY Zenon, QueueAssumption DEF IInv, Thread
<1>3. \A u \in Thread : pc'[u] = "locked" <=> mutex' = u
  BY <1>1, <1>2 DEF PlaceInv
<1>4. \A u \in Thread : pc'[u] = "working" <=> batch'[u] # {}
  BY Zenon, <1>1, <1>2 DEF PlaceInv
<1>5. \A w \in Worker : pc'[w] \notin {"out", "adding", "aborted"}
  BY <1>1, <1>2, QueueAssumption DEF PlaceInv
<1>6. pc'[Master] # "exited"
  BY Zenon, <1>1, <1>2 DEF PlaceInv
<1> QED BY Zenon, <1>3, <1>4, <1>5, <1>6 DEF PlaceInv

\* A step that takes, runs or adds no check.
LEMMA SameTodo ==
    ASSUME IInv, UNCHANGED <<queue, nTodo, batch>>
    PROVE  Outstanding' = Outstanding /\ TodoCounts'
BY Zenon DEF IInv, TodoCounts, Outstanding

\* And that leaves the results alone.
LEMMA SameResult ==
    ASSUME IInv, Outstanding' = Outstanding, UNCHANGED <<fAllOk, fOk, bad, pushed, used>>,
           \A u \in Thread : pc'[u] = "working" => pc[u] = "working",
           pc'[Master] \in {"out", "aborted"} => pc[Master] \in {"out", "aborted"}
    PROVE  ResultInv'
<1>1. ResultInv
  BY Zenon DEF IInv
<1> QED BY Zenon, <1>1 DEF ResultInv

\* The constructor and the call of Wait move only the master.
LEMMA MasterMoves ==
    ASSUME IInv, Construct \/ CallWait
    PROVE  IInv'
<1>1. PICK x \in {"adding", "aborted", "start"} : pc' = [pc EXCEPT ![Master] = x]
  BY Zenon DEF Construct, CallWait
<1>2. /\ pc[Master] \in {"out", "adding"} /\ (x = "aborted" => pc[Master] = "out")
      /\ UNCHANGED <<queue, nIdle, nTotal, fAllOk, nTodo, mutex, batch, fOk, interruptible, bad,
                     pushed, used, result, spurious>>
  <2>1. pc \in [Thread -> Place] /\ Master \in Thread
    BY Zenon DEF IInv, TypeOK, Thread
  <2>2. CASE Construct
    BY Zenon, <2>2 DEF Construct, qvars
  <2>3. CASE CallWait
    BY Zenon, <1>1, <2>1, <2>3 DEF CallWait, qvars
  <2> QED BY Zenon, <2>2, <2>3
<1>3. x \in Place /\ Master \in Thread
  BY Zenon DEF Place, Thread
<1>4. /\ pc' \in [Thread -> Place] /\ pc'[Master] = x
      /\ \A u \in Thread : u # Master => pc'[u] = pc[u]
  BY Zenon, <1>1, <1>3, Moved
<1>5. TypeOK'
  BY Zenon, <1>2, <1>4 DEF IInv, TypeOK
<1>6. PlaceInv'
  BY Zenon, <1>1, <1>2, <1>3, Placed
<1>7. Busy' = Busy /\ Asleep' = Asleep
  BY Zenon, <1>2, <1>4 DEF Busy, Asleep
<1>8. CountInv'
  BY Zenon, <1>2, <1>7, SameCount
<1>9. Outstanding' = Outstanding /\ TodoCounts'
  BY Zenon, <1>2, SameTodo
<1>10. ResultInv'
  <2>1. \A u \in Thread : pc'[u] = "working" => pc[u] = "working"
    BY Zenon, <1>4
  <2>2. pc'[Master] \in {"out", "aborted"} => pc[Master] \in {"out", "aborted"}
    BY Zenon, <1>2, <1>4
  <2> QED BY Zenon, <1>2, <1>9, <2>1, <2>2, SameResult
<1> QED BY Zenon, <1>5, <1>6, <1>8, <1>9, <1>10 DEF IInv

\* Add pushes new checks and wakes workers that wait.
LEMMA AddIInv ==
    ASSUME IInv, NEW S \in SUBSET (Check \ used), Add(S)
    PROVE  IInv'
<1>1. pc' \in [Thread -> Place]
      /\ \A t \in Thread : pc'[t] = pc[t] \/ (t # Master /\ pc[t] = "waiting" /\ pc'[t] = "notified")
  BY QueueAssumption DEF IInv, TypeOK, Add, NotifyWorkers, Thread, Place
<1>2. S \in SUBSET Check /\ IsFiniteSet(S) /\ Cardinality(S) \in Nat
  BY Zenon, Finiteness
<1>3. TypeOK'
  BY <1>1, <1>2 DEF IInv, TypeOK, Add, AddTodo
<1>4. PlaceInv'
  BY <1>1 DEF IInv, PlaceInv, Add, Thread
<1>5. Busy' = Busy /\ Asleep' = Asleep
  BY Zenon, <1>1 DEF Busy, Asleep
<1>6. CountInv'
  BY Zenon, <1>5, SameCount DEF Add
<1>7. Outstanding' = Outstanding \cup S /\ Outstanding \cap S = {} /\ Outstanding \subseteq Check
  BY DEF IInv, TypeOK, ResultInv, Outstanding, Add, Thread
<1>8. Cardinality(Outstanding \cup S) = Cardinality(Outstanding) + Cardinality(S)
  <2>1. Cardinality(Outstanding \cup S)
        = Cardinality(Outstanding) + Cardinality(S) - Cardinality(Outstanding \cap S)
    BY Zenon, <1>2, <1>7, Finiteness, FS_Union
  <2> QED BY <2>1, <1>2, <1>7, Finiteness, FS_EmptySet
<1>9. \A t \in Thread : batch[t] \cap S = {}
  BY <1>7 DEF Outstanding
<1>10. TodoCounts'
  BY Zenon, <1>7, <1>8, <1>9 DEF IInv, TodoCounts, Add, AddTodo
<1>11. ResultInv'
  <2>1. pc'[Master] = "adding" /\ \A t \in Thread : pc'[t] = "working" => pc[t] = "working"
    BY Zenon, <1>1 DEF Add, Thread
  <2>2. pushed' \ Outstanding' \subseteq pushed \ Outstanding
    BY Zenon, <1>7 DEF Add
  <2> QED BY Zenon, <1>7, <2>1, <2>2 DEF IInv, ResultInv, Add
<1> QED BY Zenon, <1>3, <1>4, <1>6, <1>10, <1>11 DEF IInv

\* A thread joins the pool: counted in nTotal, and busy.
LEMMA EnterIInv ==
    ASSUME IInv, NEW t \in Thread, Enter(t)
    PROVE  IInv'
<1>1. /\ pc[t] = "start" /\ mutex = NoThread /\ mutex' = t /\ nTotal' = nTotal + 1
      /\ pc' = [pc EXCEPT ![t] = "locked"]
      /\ UNCHANGED <<queue, nIdle, fAllOk, nTodo, batch, fOk, interruptible, bad, pushed, used,
                     result, spurious>>
  BY Zenon DEF Enter
<1>2. "locked" \in Place
  BY Zenon DEF Place
<1>3. /\ pc' \in [Thread -> Place] /\ pc'[t] = "locked"
      /\ \A u \in Thread : u # t => pc'[u] = pc[u]
  BY Zenon, <1>1, <1>2, Moved
<1>4. TypeOK'
  BY <1>1, <1>3 DEF IInv, TypeOK
<1>5. PlaceInv'
  BY Zenon, <1>1, <1>2, Placed
<1>6. Busy' = Busy \cup {t} /\ t \notin Busy /\ Asleep' = Asleep
  BY Zenon, <1>1, <1>3 DEF Busy, Asleep
<1>7. Cardinality(Busy') = Cardinality(Busy) + 1 /\ Cardinality(Busy) \in Nat
  BY Zenon, <1>6, Finiteness, FS_AddElement DEF Busy
<1>8. CountInv'
  BY <1>1, <1>6, <1>7 DEF IInv, TypeOK, CountInv
<1>9. Outstanding' = Outstanding /\ TodoCounts'
  BY Zenon, <1>1, SameTodo
<1>10. ResultInv'
  <2>1. \A u \in Thread : pc'[u] = "working" => pc[u] = "working"
    BY Zenon, <1>3
  <2>2. pc'[Master] \in {"out", "aborted"} => pc[Master] \in {"out", "aborted"}
    BY Zenon, <1>3 DEF Thread
  <2> QED BY Zenon, <1>1, <1>9, <2>1, <2>2, SameResult
<1> QED BY Zenon, <1>4, <1>5, <1>8, <1>9, <1>10 DEF IInv

\* A thread accounts for its batch: those checks are outstanding no more.
LEMMA FinishIInv ==
    ASSUME IInv, NEW t \in Thread, Finish(t)
    PROVE  IInv'
<1> DEFINE B == batch[t]
<1>1. B \in SUBSET Check /\ B \subseteq Outstanding /\ Outstanding \in SUBSET Check
  BY DEF IInv, TypeOK, Outstanding, Thread
<1>2. Outstanding' = Outstanding \ B
  <2>1. \A u \in Thread : batch'[u] = IF u = t THEN {} ELSE batch[u]
    BY Zenon DEF IInv, TypeOK, Finish
  <2>2. queue' = queue /\ queue \cap B = {}
        /\ \A u \in Thread : u # t => batch[u] \cap B = {}
    BY Zenon DEF IInv, TodoCounts, Finish
  <2> QED BY <2>1, <2>2 DEF Outstanding
<1>3. Cardinality(Outstanding \ B) = Cardinality(Outstanding) - Cardinality(B)
  <2>1. Cardinality(Outstanding \ B)
        = Cardinality(Outstanding) - Cardinality(Outstanding \cap B)
    BY Zenon, <1>1, Finiteness, FS_Difference
  <2>2. Outstanding \cap B = B
    BY Zenon, <1>1
  <2> QED BY Zenon, <2>1, <2>2
<1>4. nTodo' = Cardinality(Outstanding') /\ nTodo' \in Nat
  BY Zenon, <1>1, <1>2, <1>3, Finiteness DEF IInv, TodoCounts, Finish
<1>5. pc' \in [Thread -> Place] /\ pc'[t] = "locked"
      /\ \A u \in Thread : u # t =>
            pc'[u] = pc[u] \/ (pc[u] = "waiting" /\ pc'[u] = "notified" /\ u = Master)
  BY Zenon DEF IInv, TypeOK, Finish, NotifyMaster, Place
<1>6. TypeOK'
  BY Zenon, <1>4, <1>5 DEF IInv, TypeOK, Finish, MergedOk, BatchOk, Thread
<1>7. PlaceInv'
  <2>1. mutex = NoThread /\ mutex' = t /\ \A u \in Thread : pc[u] # "locked"
    BY Zenon, QueueAssumption DEF IInv, PlaceInv, Finish, Thread
  <2>2. \A u \in Thread : batch'[u] = IF u = t THEN {} ELSE batch[u]
    BY Zenon DEF IInv, TypeOK, Finish
  <2>3. pc[t] = "working"
    BY Zenon DEF Finish
  <2> QED BY <1>5, <2>1, <2>2, <2>3, QueueAssumption DEF IInv, PlaceInv, Thread
<1>8. Busy' = Busy /\ Asleep' = Asleep
  BY Zenon, <1>5 DEF Finish, Busy, Asleep
<1>9. CountInv'
  BY Zenon, <1>8, SameCount DEF Finish
<1>10. TodoCounts'
  BY Zenon, <1>4 DEF IInv, TypeOK, TodoCounts, Finish
<1>11. ResultInv'
  <2>1. fAllOk' = (fAllOk /\ fOk[t] /\ B \cap bad = {}) /\ bad' = bad /\ pushed' = pushed
        /\ used' = used /\ fOk' = fOk /\ pc[t] = "working"
    BY Zenon DEF Finish, MergedOk, BatchOk
  <2>2. fAllOk' => (pushed' \ Outstanding') \cap bad' = {}
    BY Zenon, <1>2, <2>1 DEF IInv, ResultInv
  <2>3. ~fAllOk' => pushed' \cap bad' # {}
    BY Zenon, <1>1, <2>1 DEF IInv, ResultInv
  <2>4. pc'[Master] \in {"out", "aborted"} => pc[Master] \in {"out", "aborted"}
    BY Zenon, <1>5 DEF Thread
  <2>5. \A u \in Thread : pc'[u] = "working" => pc[u] = "working"
    BY Zenon, <1>5
  <2> QED BY Zenon, <1>2, <2>1, <2>2, <2>3, <2>4, <2>5 DEF IInv, ResultInv
<1> QED BY Zenon, <1>6, <1>7, <1>9, <1>10, <1>11 DEF IInv

\* A thread comes back from cond.wait: idle no more.
LEMMA WakeIInv ==
    ASSUME IInv, NEW t \in Thread, Wake(t)
    PROVE  IInv'
<1>1. /\ pc[t] = "notified" /\ mutex = NoThread /\ mutex' = t /\ nIdle' = nIdle - 1
      /\ pc' = [pc EXCEPT ![t] = "locked"]
      /\ UNCHANGED <<queue, nTotal, fAllOk, nTodo, batch, fOk, interruptible, bad, pushed, used,
                     result, spurious>>
  BY Zenon DEF Wake
<1>2. "locked" \in Place
  BY Zenon DEF Place
<1>3. /\ pc' \in [Thread -> Place] /\ pc'[t] = "locked"
      /\ \A u \in Thread : u # t => pc'[u] = pc[u]
  BY Zenon, <1>1, <1>2, Moved
<1>4. Busy' = Busy \cup {t} /\ t \notin Busy /\ Asleep' = Asleep \ {t} /\ t \in Asleep
  BY Zenon, <1>1, <1>3 DEF Busy, Asleep
<1>5. Cardinality(Busy') = Cardinality(Busy) + 1 /\ Cardinality(Busy) \in Nat
  BY Zenon, <1>4, Finiteness, FS_AddElement DEF Busy
<1>6. /\ Cardinality(Asleep') = Cardinality(Asleep) - 1 /\ Cardinality(Asleep') \in Nat
      /\ Cardinality(Asleep) \in Nat
  <2>1. IsFiniteSet(Asleep) /\ IsFiniteSet(Asleep \ {t}) /\ Cardinality(Asleep \ {t}) \in Nat
        /\ Cardinality(Asleep) \in Nat
    BY Zenon, Finiteness DEF Asleep
  <2> QED BY Zenon, <1>4, <2>1, FS_RemoveElement
<1>7. CountInv' /\ nIdle' \in Nat
  BY <1>1, <1>5, <1>6 DEF IInv, TypeOK, CountInv
<1>8. TypeOK'
  BY Zenon, <1>1, <1>3, <1>7 DEF IInv, TypeOK
<1>9. PlaceInv'
  BY Zenon, <1>1, <1>2, Placed
<1>10. Outstanding' = Outstanding /\ TodoCounts'
  BY Zenon, <1>1, SameTodo
<1>11. ResultInv'
  <2>1. \A u \in Thread : pc'[u] = "working" => pc[u] = "working"
    BY Zenon, <1>3
  <2>2. pc'[Master] \in {"out", "aborted"} => pc[Master] \in {"out", "aborted"}
    BY Zenon, <1>3 DEF Thread
  <2> QED BY Zenon, <1>1, <1>10, <2>1, <2>2, SameResult
<1> QED BY Zenon, <1>7, <1>8, <1>9, <1>10, <1>11 DEF IInv

\* A thread takes a batch from the queue: the outstanding checks are the same.
LEMMA TakeBatchIInv ==
    ASSUME IInv, NEW t \in Thread, TakeBatch(t)
    PROVE  IInv'
<1>1. PICK B \in SUBSET queue : /\ Cardinality(B) = nNow
                                /\ batch' = [batch EXCEPT ![t] = B]
                                /\ queue' = queue \ B
  BY Zenon DEF TakeBatch
<1>2. B # {}
  BY Zenon, <1>1, BatchSize, FS_EmptySet DEF IInv
<1>3. mutex = t /\ batch[t] = {} /\ pc[t] = "locked"
  BY Zenon DEF IInv, PlaceInv, TakeBatch
<1>4. \A u \in Thread : batch'[u] = IF u = t THEN B ELSE batch[u]
  BY Zenon, <1>1 DEF IInv, TypeOK
<1>5. TypeOK'
  BY Zenon, <1>1 DEF IInv, TypeOK, TakeBatch, Place
<1>6. PlaceInv'
  BY Zenon, <1>2, <1>3, <1>4, QueueAssumption DEF IInv, TypeOK, PlaceInv, TakeBatch, Thread
<1>7. Busy' = Busy /\ Asleep' = Asleep
  BY Zenon, <1>3 DEF IInv, TypeOK, TakeBatch, Busy, Asleep
<1>8. CountInv'
  BY Zenon, <1>7, SameCount DEF TakeBatch
<1>9. Outstanding' = Outstanding
  BY <1>1, <1>3, <1>4 DEF Outstanding
<1>10. TodoCounts'
  BY <1>1, <1>4, <1>9 DEF IInv, TodoCounts, TakeBatch
<1>11. ResultInv'
  BY Zenon, <1>3, <1>9 DEF IInv, TypeOK, ResultInv, TakeBatch, Thread
<1> QED BY Zenon, <1>5, <1>6, <1>8, <1>10, <1>11 DEF IInv

\* With nothing left to do, no thread holds a check.
LEMMA NothingOutstanding ==
    ASSUME IInv, nTodo = 0
    PROVE  Outstanding = {}
<1>1. Outstanding \in SUBSET Check
  BY DEF IInv, TypeOK, Outstanding, Thread
<1> QED BY Zenon, <1>1, Finiteness, FS_EmptySet DEF IInv, TodoCounts

\* The master leaves the pool.
LEMMA WaitReturnsIInv ==
    ASSUME IInv, WaitReturns
    PROVE  IInv'
<1>1. /\ pc[Master] = "locked" /\ nTodo = 0 /\ nTotal' = nTotal - 1 /\ result' = fAllOk /\ fAllOk' = TRUE
      /\ pushed' = {} /\ mutex' = NoThread /\ pc' = [pc EXCEPT ![Master] = "out"]
      /\ UNCHANGED <<queue, nIdle, nTodo, batch, fOk, interruptible, bad, used, spurious>>
  BY Zenon DEF WaitReturns, MayReturn, ResetOk
<1>2. "out" \in Place /\ Master \in Thread
  BY Zenon DEF Place, Thread
<1>3. /\ pc' \in [Thread -> Place] /\ pc'[Master] = "out"
      /\ \A u \in Thread : u # Master => pc'[u] = pc[u]
  BY Zenon, <1>1, <1>2, Moved
<1>4. Busy' = Busy \ {Master} /\ Master \in Busy /\ Asleep' = Asleep
  BY Zenon, <1>1, <1>2, <1>3 DEF Busy, Asleep
<1>5. /\ Cardinality(Busy') = Cardinality(Busy) - 1 /\ Cardinality(Busy') \in Nat
      /\ Cardinality(Busy) \in Nat
  <2>1. IsFiniteSet(Busy) /\ IsFiniteSet(Busy \ {Master}) /\ Cardinality(Busy \ {Master}) \in Nat
        /\ Cardinality(Busy) \in Nat
    BY Zenon, Finiteness DEF Busy
  <2> QED BY Zenon, <1>4, <2>1, FS_RemoveElement
<1>6. CountInv' /\ nTotal' \in Nat
  BY <1>1, <1>4, <1>5 DEF IInv, TypeOK, CountInv
<1>7. TypeOK'
  BY Zenon, <1>1, <1>2, <1>3, <1>6, QueueAssumption DEF IInv, TypeOK
<1>8. PlaceInv'
  BY Zenon, <1>1, <1>2, Placed
<1>9. Outstanding' = Outstanding /\ TodoCounts'
  BY Zenon, <1>1, SameTodo
<1>10. Outstanding = {}
  BY Zenon, <1>1, NothingOutstanding
<1>11. \A t \in Thread : pc'[t] # "working"
  <2>1. \A t \in Thread : batch'[t] = {}
    BY Zenon, <1>9, <1>10 DEF Outstanding
  <2> QED BY Zenon, <1>8, <2>1 DEF PlaceInv
<1>12. ResultInv'
  BY Zenon, <1>1, <1>9, <1>10, <1>11 DEF ResultInv
<1> QED BY Zenon, <1>6, <1>7, <1>8, <1>9, <1>12 DEF IInv

\* A thread goes to sleep: counted idle.
LEMMA WaitIInv ==
    ASSUME IInv, NEW t \in Thread, Wait(t)
    PROVE  IInv'
<1>1. /\ pc[t] = "locked" /\ nIdle' = nIdle + 1 /\ mutex' = NoThread
      /\ pc' = [pc EXCEPT ![t] = "waiting"]
      /\ UNCHANGED <<queue, nTotal, fAllOk, nTodo, batch, fOk, interruptible, bad, pushed, used,
                     result, spurious>>
  BY Zenon DEF Wait
<1>2. "waiting" \in Place
  BY Zenon DEF Place
<1>3. /\ pc' \in [Thread -> Place] /\ pc'[t] = "waiting"
      /\ \A u \in Thread : u # t => pc'[u] = pc[u]
  BY Zenon, <1>1, <1>2, Moved
<1>4. Busy' = Busy \ {t} /\ t \in Busy /\ Asleep' = Asleep \cup {t} /\ t \notin Asleep
  BY Zenon, <1>1, <1>3 DEF Busy, Asleep
<1>5. Cardinality(Busy') = Cardinality(Busy) - 1 /\ Cardinality(Busy) \in Nat
  BY Zenon, <1>4, Finiteness, FS_RemoveElement DEF Busy
<1>6. Cardinality(Asleep') = Cardinality(Asleep) + 1 /\ Cardinality(Asleep) \in Nat
  BY Zenon, <1>4, Finiteness, FS_AddElement DEF Asleep
<1>7. CountInv'
  BY <1>1, <1>5, <1>6 DEF IInv, TypeOK, CountInv
<1>8. TypeOK'
  BY <1>1, <1>3 DEF IInv, TypeOK
<1>9. PlaceInv'
  BY Zenon, <1>1, <1>2, Placed
<1>10. Outstanding' = Outstanding /\ TodoCounts'
  BY Zenon, <1>1, SameTodo
<1>11. ResultInv'
  <2>1. \A u \in Thread : pc'[u] = "working" => pc[u] = "working"
    BY Zenon, <1>3
  <2>2. pc'[Master] \in {"out", "aborted"} => pc[Master] \in {"out", "aborted"}
    BY Zenon, <1>3 DEF Thread
  <2> QED BY Zenon, <1>1, <1>10, <2>1, <2>2, SameResult
<1> QED BY Zenon, <1>7, <1>8, <1>9, <1>10, <1>11 DEF IInv

\* Spurious wake-ups count nobody differently.
LEMMA SpuriousIInv ==
    ASSUME IInv, NEW t \in Thread, SpuriousWakeup(t)
    PROVE  IInv'
<1>1. /\ pc[t] = "waiting" /\ spurious' = spurious + 1 /\ pc' = [pc EXCEPT ![t] = "notified"]
      /\ UNCHANGED <<queue, nIdle, nTotal, fAllOk, nTodo, mutex, batch, fOk, interruptible, bad,
                     pushed, used, result>>
  BY Zenon DEF SpuriousWakeup, qvars
<1>2. "notified" \in Place
  BY Zenon DEF Place
<1>3. /\ pc' \in [Thread -> Place] /\ pc'[t] = "notified"
      /\ \A u \in Thread : u # t => pc'[u] = pc[u]
  BY Zenon, <1>1, <1>2, Moved
<1>4. Busy' = Busy /\ Asleep' = Asleep
  BY Zenon, <1>1, <1>3 DEF Busy, Asleep
<1>5. CountInv'
  BY Zenon, <1>1, <1>4, SameCount
<1>6. TypeOK'
  BY <1>1, <1>3 DEF IInv, TypeOK
<1>7. PlaceInv'
  BY Zenon, <1>1, <1>2, Placed
<1>8. Outstanding' = Outstanding /\ TodoCounts'
  BY Zenon, <1>1, SameTodo
<1>9. ResultInv'
  <2>1. \A u \in Thread : pc'[u] = "working" => pc[u] = "working"
    BY Zenon, <1>3
  <2>2. pc'[Master] \in {"out", "aborted"} => pc[Master] \in {"out", "aborted"}
    BY Zenon, <1>3 DEF Thread
  <2> QED BY Zenon, <1>1, <1>8, <2>1, <2>2, SameResult
<1> QED BY Zenon, <1>5, <1>6, <1>7, <1>8, <1>9 DEF IInv

\* The request to interrupt moves nobody.
LEMMA InterruptAllIInv ==
    ASSUME IInv, InterruptAll
    PROVE  IInv'
<1>1. /\ interruptible' = Thread
      /\ UNCHANGED <<queue, nIdle, nTotal, fAllOk, nTodo, mutex, pc, batch, fOk, bad, pushed, used,
                     result, spurious>>
  BY Zenon DEF InterruptAll, qvars
<1>2. TypeOK' /\ PlaceInv'
  BY Zenon, <1>1 DEF IInv, TypeOK, PlaceInv
<1>3. Busy' = Busy /\ Asleep' = Asleep
  BY Zenon, <1>1 DEF Busy, Asleep
<1>4. CountInv'
  BY Zenon, <1>1, <1>3, SameCount
<1>5. Outstanding' = Outstanding /\ TodoCounts'
  BY Zenon, <1>1, SameTodo
<1>6. ResultInv'
  BY Zenon, <1>1, <1>5, SameResult
<1> QED BY Zenon, <1>2, <1>4, <1>5, <1>6 DEF IInv

\* An interrupted thread stays counted in nIdle and in nTotal.
LEMMA InterruptedIInv ==
    ASSUME IInv, NEW t \in Thread, Interrupted(t)
    PROVE  IInv'
<1> DEFINE x == IF t = Master THEN "start" ELSE "exited"
<1>1. /\ pc[t] \in {"waiting", "notified"} /\ pc' = [pc EXCEPT ![t] = x]
      /\ interruptible' = interruptible \ {t}
      /\ UNCHANGED <<queue, nIdle, nTotal, fAllOk, nTodo, mutex, batch, fOk, bad, pushed, used,
                     result, spurious>>
  BY Zenon DEF Interrupted, qvars
<1>2. /\ x \in Place /\ x \in {"start", "exited"}
      /\ (t = Master => x # "exited") /\ (t # Master => x \notin {"out", "adding", "aborted"})
  BY Zenon DEF Place
<1> HIDE DEF x
<1>3. /\ pc' \in [Thread -> Place] /\ pc'[t] = x
      /\ \A u \in Thread : u # t => pc'[u] = pc[u]
  BY Zenon, <1>1, <1>2, Moved
<1>4. Busy' = Busy /\ Asleep' \subseteq Asleep
  BY Zenon, <1>1, <1>2, <1>3 DEF Busy, Asleep
<1>5. Cardinality(Asleep') <= Cardinality(Asleep) /\ Cardinality(Asleep') \in Nat
      /\ Cardinality(Asleep) \in Nat
  <2>1. Asleep \in SUBSET Thread /\ Asleep' \in SUBSET Thread
    BY Zenon, <1>4 DEF Asleep
  <2> QED BY Zenon, <2>1, <1>4, Finiteness, FS_Subset
<1>6. CountInv'
  BY <1>1, <1>4, <1>5 DEF IInv, TypeOK, CountInv
<1>7. TypeOK'
  BY Zenon, <1>1, <1>3 DEF IInv, TypeOK
<1>8. PlaceInv'
  BY Zenon, <1>1, <1>2, Placed
<1>9. Outstanding' = Outstanding /\ TodoCounts'
  BY Zenon, <1>1, SameTodo
<1>10. ResultInv'
  <2>1. \A u \in Thread : pc'[u] = "working" => pc[u] = "working"
    BY Zenon, <1>2, <1>3
  <2>2. pc'[Master] \in {"out", "aborted"} => pc[Master] \in {"out", "aborted"}
    BY Zenon, <1>2, <1>3 DEF Thread
  <2> QED BY Zenon, <1>1, <1>9, <2>1, <2>2, SameResult
<1> QED BY Zenon, <1>6, <1>7, <1>8, <1>9, <1>10 DEF IInv

\* A stuttering step changes nothing the invariant speaks of.
LEMMA StutterIInv ==
    ASSUME IInv, UNCHANGED vars
    PROVE  IInv'
<1>1. UNCHANGED <<queue, nIdle, nTotal, fAllOk, nTodo, mutex, pc, batch, fOk, interruptible, bad,
                  pushed, used, result, spurious>>
  BY Zenon DEF vars
<1>2. TypeOK' /\ PlaceInv'
  BY Zenon, <1>1 DEF IInv, TypeOK, PlaceInv
<1>3. Busy' = Busy /\ Asleep' = Asleep
  BY Zenon, <1>1 DEF Busy, Asleep
<1>4. CountInv'
  BY Zenon, <1>1, <1>3, SameCount
<1>5. Outstanding' = Outstanding /\ TodoCounts'
  BY Zenon, <1>1, SameTodo
<1>6. ResultInv'
  BY Zenon, <1>1, <1>5, SameResult
<1> QED BY Zenon, <1>2, <1>4, <1>5, <1>6 DEF IInv

\* Every step of every thread preserves the invariant.
THEOREM NextIInv == IInv /\ [Next]_vars => IInv'
<1> SUFFICES ASSUME IInv, [Next]_vars PROVE IInv'
  OBVIOUS
<1>1. CASE Construct \/ CallWait
  BY Zenon, <1>1, MasterMoves
<1>2. CASE InterruptAll
  BY Zenon, <1>2, InterruptAllIInv
<1>3. ASSUME NEW S \in SUBSET (Check \ used), Add(S) PROVE IInv'
  BY Zenon, <1>3, AddIInv
<1>4. ASSUME NEW t \in Thread, Loop(t) \/ SpuriousWakeup(t) PROVE IInv'
  BY Zenon, <1>4, EnterIInv, FinishIInv, WakeIInv, TakeBatchIInv, WaitIInv,
     InterruptedIInv, WaitReturnsIInv, SpuriousIInv DEF Loop
<1>5. CASE UNCHANGED vars
  BY Zenon, <1>5, StutterIInv
<1> QED BY Zenon, <1>1, <1>2, <1>3, <1>4, <1>5 DEF Next

-----------------------------------------------------------------------------
\* The inductive invariant holds in every reachable state.
THEOREM Invariance == Spec => []IInv
<1>1. Init => IInv
  BY Zenon, InitIInv
<1>2. IInv /\ [Next]_vars => IInv'
  BY Zenon, NextIInv
<1> QED BY <1>1, <1>2, PTL DEF Spec

\* nTodo counts exactly the checks that are queued or in a thread's batch, and
\* no check is in two places, for any number of threads and any batch size.
THEOREM TodoCountsCorrect == Spec => []TodoCounts
<1>1. IInv => TodoCounts
  BY Zenon DEF IInv
<1> QED BY <1>1, Invariance, PTL

\* Wait returns only when every pushed check is accounted for, and returns TRUE
\* exactly if all of them succeed.
THEOREM WaitIsExactCorrect == Spec => WaitIsExact
<1> DEFINE Exact == pc[Master] = "locked" /\ pc'[Master] = "out"
                    => Outstanding = {} /\ result' = (pushed \cap bad = {})
<1>1. IInv /\ [Next]_vars => [Exact]_vars
  <2> SUFFICES ASSUME IInv, Next, pc[Master] = "locked", pc'[Master] = "out"
               PROVE  Outstanding = {} /\ result' = (pushed \cap bad = {})
    OBVIOUS
  <2>1. WaitReturns
    <3>1. ASSUME NEW S \in SUBSET (Check \ used), Add(S) PROVE FALSE
      BY Zenon, <3>1 DEF Add
    <3>2. ASSUME NEW t \in Thread, Loop(t) \/ SpuriousWakeup(t) PROVE WaitReturns
      BY Zenon, <3>2 DEF Loop, SpuriousWakeup, Enter, Finish, NotifyMaster, Wake, TakeBatch,
                  Wait, Interrupted, IInv, TypeOK, Thread
    <3> QED BY Zenon, <3>1, <3>2 DEF Next, Construct, CallWait, InterruptAll
  <2>2. Outstanding = {}
    BY Zenon, <2>1, NothingOutstanding DEF WaitReturns, MayReturn
  <2>3. result' = fAllOk /\ fAllOk \in BOOLEAN
    BY Zenon, <2>1 DEF WaitReturns, IInv, TypeOK
  <2>4. pushed \ Outstanding = pushed
    BY Zenon, <2>2
  <2> QED BY Zenon, <2>2, <2>3, <2>4 DEF IInv, ResultInv
<1> QED BY <1>1, Invariance, PTL DEF Spec, WaitIsExact

\* Whenever no control exists and the mutex is free, the asserts of the
\* constructor hold, also after threads have been interrupted.
THEOREM UnusedUnderMutexCorrect == Spec => []UnusedUnderMutex
<1>1. IInv => UnusedUnderMutex
  <2> SUFFICES ASSUME IInv, pc[Master] = "out", mutex = NoThread
               PROVE  Unused
    BY Zenon DEF UnusedUnderMutex
  <2>1. pushed = {} /\ Outstanding = {}
    BY Zenon DEF IInv, ResultInv
  <2>2. nTodo = 0
    BY Zenon, <2>1, FS_EmptySet DEF IInv, TodoCounts
  <2>3. fAllOk
    BY Zenon, <2>1 DEF IInv, ResultInv
  <2>4. Busy = {}
    BY <2>1, QueueAssumption DEF IInv, PlaceInv, Busy, Outstanding, Thread
  <2>5. nTotal = nIdle
    BY <2>4, FS_EmptySet DEF IInv, CountInv, TypeOK
  <2> QED BY Zenon, <2>2, <2>3, <2>5 DEF Unused
<1> QED BY <1>1, Invariance, PTL
=============================================================================
