----------------------------- MODULE CheckQueue -----------------------------
(***************************************************************************)
(* The script verification queue (checkqueue.h): ConnectBlock, the master, *)
(* pushes batches of checks that worker threads and then the master itself *)
(* take and run.  A critical section is two steps, taking the mutex with   *)
(* the clean-up of the previous round, and the top of the loop, because    *)
(* the constructor of CCheckQueueControl reads the counters without the    *)
(* mutex and may see them in between.                                      *)
(*                                                                         *)
(* The order of the queue is abstracted: a batch is any nNow of the checks *)
(* queued ("the order of booleans doesn't matter").  A check is a name,    *)
(* bad the set of those that return false.  fQuit is never set by the code *)
(* and is left out, as is a NULL queue (no worker threads).                *)
(***************************************************************************)
EXTENDS Integers, FiniteSets

CONSTANTS
    Worker,         \* the script check threads
    Master,         \* the thread that runs ConnectBlock
    Check,          \* the checks that will be pushed
    nBatchSize,     \* the largest batch
    NoThread,       \* the mutex is free
    MaxSpurious     \* bound on spurious wake-ups

ASSUME QueueAssumption ==
    /\ IsFiniteSet(Worker)
    /\ IsFiniteSet(Check)
    /\ Master \notin Worker
    /\ NoThread \notin Worker \cup {Master}
    /\ nBatchSize \in Nat \ {0}
    /\ MaxSpurious \in Nat

VARIABLES
    queue,          \* the checks nobody has taken
    nIdle,
    nTotal,
    fAllOk,
    nTodo,
    mutex,          \* the thread that holds it
    pc,             \* where each thread is
    batch,          \* vChecks of each thread
    fOk,            \* fAllOk as each thread read it when it took its batch
    interruptible,  \* the threads boost will interrupt at their next wait
    bad,            \* the checks that fail
    pushed,         \* the checks pushed under the current control
    used,           \* the checks ever pushed
    result,         \* what the last Wait returned
    spurious        \* spurious wake-ups so far

qvars == <<queue, nIdle, nTotal, fAllOk, nTodo>>
vars == <<queue, nIdle, nTotal, fAllOk, nTodo, mutex, pc, batch, fOk,
          interruptible, bad, pushed, used, result, spurious>>

Thread == Worker \cup {Master}

Init ==
    /\ queue = {}
    /\ nIdle = 0
    /\ nTotal = 0
    /\ fAllOk = TRUE
    /\ nTodo = 0
    /\ mutex = NoThread
    /\ pc = [t \in Thread |-> IF t = Master THEN "out" ELSE "start"]
    /\ batch = [t \in Thread |-> {}]
    /\ fOk = [t \in Thread |-> TRUE]
    /\ interruptible = {}
    /\ bad \in SUBSET Check
    /\ pushed = {}
    /\ used = {}
    /\ result = TRUE
    /\ spurious = 0

-----------------------------------------------------------------------------
(* The master: CCheckQueueControl.                                          *)

\* The three asserts of the constructor, read without the mutex.
Unused == nTotal = nIdle /\ nTodo = 0 /\ fAllOk

Construct ==
    /\ pc[Master] = "out"
    /\ pc' = [pc EXCEPT ![Master] = IF Unused THEN "adding" ELSE "aborted"]
    /\ UNCHANGED <<qvars, mutex, batch, fOk, interruptible, bad, pushed, used,
                   result, spurious>>

\* pc after condWorker.notify_one or notify_all.
NotifyWorkers(S) ==
    LET waiters == {w \in Worker : pc[w] = "waiting"}
    IN  IF waiters = {} THEN {pc}
        ELSE IF Cardinality(S) = 1
        THEN { [pc EXCEPT ![w] = "notified"] : w \in waiters }
        ELSE { [t \in Thread |-> IF t \in waiters THEN "notified" ELSE pc[t]] }

AddTodo(S) == nTodo + Cardinality(S)

Add(S) ==
    /\ pc[Master] = "adding"
    /\ mutex = NoThread
    /\ queue' = queue \cup S
    /\ nTodo' = AddTodo(S)
    /\ pc' \in NotifyWorkers(S)
    /\ pushed' = pushed \cup S
    /\ used' = used \cup S
    /\ UNCHANGED <<nIdle, nTotal, fAllOk, mutex, batch, fOk, interruptible,
                   bad, result, spurious>>

\* ConnectBlock calls Wait, or returns early and the destructor does.
CallWait ==
    /\ pc[Master] = "adding"
    /\ pc' = [pc EXCEPT ![Master] = "start"]
    /\ UNCHANGED <<qvars, mutex, batch, fOk, interruptible, bad, pushed, used,
                   result, spurious>>

-----------------------------------------------------------------------------
(* Loop, for workers and master.                                            *)

\* The mutex is taken for the first time in this call of Loop.
Enter(t) ==
    /\ pc[t] = "start"
    /\ mutex = NoThread
    /\ mutex' = t
    /\ nTotal' = nTotal + 1
    /\ pc' = [pc EXCEPT ![t] = "locked"]
    /\ UNCHANGED <<queue, nIdle, fAllOk, nTodo, batch, fOk, interruptible, bad,
                   pushed, used, result, spurious>>

\* Whether the batch went well: after a failure the rest is not even run.
BatchOk(t) == fOk[t] /\ batch[t] \cap bad = {}

\* pc after condMaster.notify_one for the last check done.
FaultyNotifyMaster(t, todo) == pc       \* Faulty variant: the master is not told.

NotifyMaster(t, todo) ==
    IF todo = 0 /\ t # Master /\ pc[Master] = "waiting"
    THEN [pc EXCEPT ![Master] = "notified"]
    ELSE pc

FaultyMergedOk(t) == BatchOk(t)         \* Faulty variant: overwrites the result.

MergedOk(t) == fAllOk /\ BatchOk(t)

\* The batch has been run; the mutex is taken again to account for it.
Finish(t) ==
    /\ pc[t] = "working"
    /\ mutex = NoThread
    /\ mutex' = t
    /\ fAllOk' = MergedOk(t)
    /\ nTodo' = nTodo - Cardinality(batch[t])
    /\ batch' = [batch EXCEPT ![t] = {}]
    /\ pc' = [NotifyMaster(t, nTodo') EXCEPT ![t] = "locked"]
    /\ UNCHANGED <<queue, nIdle, nTotal, fOk, interruptible, bad, pushed, used,
                   result, spurious>>

\* cond.wait returns with the mutex.
Wake(t) ==
    /\ pc[t] = "notified"
    /\ mutex = NoThread
    /\ mutex' = t
    /\ nIdle' = nIdle - 1
    /\ pc' = [pc EXCEPT ![t] = "locked"]
    /\ UNCHANGED <<queue, nTotal, fAllOk, nTodo, batch, fOk, interruptible,
                   bad, pushed, used, result, spurious>>

\* How many checks to take now.
nNow ==
    LET share == Cardinality(queue) \div (nTotal + nIdle + 1)
        capped == IF share < nBatchSize THEN share ELSE nBatchSize
    IN  IF capped > 1 THEN capped ELSE 1

TakeBatch(t) ==
    /\ pc[t] = "locked"
    /\ queue # {}
    /\ \E B \in SUBSET queue :
        /\ Cardinality(B) = nNow
        /\ batch' = [batch EXCEPT ![t] = B]
        /\ queue' = queue \ B
    /\ fOk' = [fOk EXCEPT ![t] = fAllOk]
    /\ mutex' = NoThread
    /\ pc' = [pc EXCEPT ![t] = "working"]
    /\ UNCHANGED <<nIdle, nTotal, fAllOk, nTodo, interruptible, bad, pushed,
                   used, result, spurious>>

MayReturn == queue = {} /\ nTodo = 0

FaultyResetOk == fAllOk         \* Faulty variant: no reset for new work.

ResetOk == TRUE

\* Wait returns, and ConnectBlock goes on without the control.
WaitReturns ==
    /\ pc[Master] = "locked"
    /\ MayReturn
    /\ nTotal' = nTotal - 1
    /\ result' = fAllOk
    /\ fAllOk' = ResetOk
    /\ pushed' = {}
    /\ mutex' = NoThread
    /\ pc' = [pc EXCEPT ![Master] = "out"]
    /\ UNCHANGED <<queue, nIdle, nTodo, batch, fOk, interruptible, bad, used,
                   spurious>>

Wait(t) ==
    /\ pc[t] = "locked"
    /\ queue = {}
    /\ t = Master => ~MayReturn
    /\ nIdle' = nIdle + 1
    /\ mutex' = NoThread
    /\ pc' = [pc EXCEPT ![t] = "waiting"]
    /\ UNCHANGED <<queue, nTotal, fAllOk, nTodo, batch, fOk, interruptible,
                   bad, pushed, used, result, spurious>>

-----------------------------------------------------------------------------
(* boost::condition_variable and boost::thread::interrupt.                  *)

SpuriousWakeup(t) ==
    /\ spurious < MaxSpurious
    /\ pc[t] = "waiting"
    /\ spurious' = spurious + 1
    /\ pc' = [pc EXCEPT ![t] = "notified"]
    /\ UNCHANGED <<qvars, mutex, batch, fOk, interruptible, bad, pushed, used,
                   result>>

\* Shutdown interrupts every thread of the group, once.
InterruptAll ==
    /\ interruptible = {}
    /\ \A t \in Thread : pc[t] # "exited"
    /\ interruptible' = Thread
    /\ UNCHANGED <<qvars, mutex, pc, batch, fOk, bad, pushed, used, result,
                   spurious>>

\* cond.wait throws thread_interrupted, and nIdle and nTotal stay as they are.
\* A worker ends; the master leaves Wait and the destructor of the control,
\* whose fDone is still false, calls it again.
Interrupted(t) ==
    /\ t \in interruptible
    /\ pc[t] \in {"waiting", "notified"}
    /\ mutex = NoThread
    /\ interruptible' = interruptible \ {t}
    /\ pc' = [pc EXCEPT ![t] = IF t = Master THEN "start" ELSE "exited"]
    /\ UNCHANGED <<qvars, mutex, batch, fOk, bad, pushed, used, result, spurious>>

-----------------------------------------------------------------------------
\* Steps of Loop, by thread.
Loop(t) ==
    \/ Enter(t) \/ Finish(t) \/ Wake(t) \/ TakeBatch(t) \/ Wait(t)
    \/ Interrupted(t)
    \/ t = Master /\ WaitReturns

\* After abort nothing runs any more.
Next ==
    /\ pc[Master] # "aborted"
    /\ \/ Construct \/ CallWait \/ InterruptAll
       \/ \E S \in SUBSET (Check \ used) : Add(S)
       \/ \E t \in Thread : Loop(t) \/ SpuriousWakeup(t)

Spec == Init /\ [][Next]_vars

\* The scheduler runs every thread that can run.
FairSpec ==
    /\ Spec
    /\ \A t \in Thread : WF_vars(pc[Master] # "aborted" /\ Loop(t))

-----------------------------------------------------------------------------
(* Properties.                                                              *)

Place == {"out", "adding", "start", "locked", "working", "waiting",
          "notified", "exited", "aborted"}

\* Types of the variables.
TypeOK ==
    /\ queue \in SUBSET Check
    /\ nIdle \in Nat
    /\ nTotal \in Nat
    /\ fAllOk \in BOOLEAN
    /\ nTodo \in Nat
    /\ mutex \in Thread \cup {NoThread}
    /\ pc \in [Thread -> Place]
    /\ batch \in [Thread -> SUBSET Check]
    /\ fOk \in [Thread -> BOOLEAN]
    /\ interruptible \in SUBSET Thread
    /\ bad \in SUBSET Check
    /\ pushed \in SUBSET Check
    /\ used \in SUBSET Check
    /\ result \in BOOLEAN
    /\ spurious \in Nat

\* The checks pushed and not yet accounted for.
Outstanding == queue \cup UNION {batch[t] : t \in Thread}

\* nTodo "includes elements that are not anymore in queue, but still in
\* worker's own batches": it counts exactly the checks not yet accounted for,
\* no check is in two batches, and none is dropped.
TodoCounts ==
    /\ nTodo = Cardinality(Outstanding)
    /\ \A t \in Thread : batch[t] \cap queue = {}
    /\ \A t, u \in Thread : t # u => batch[t] \cap batch[u] = {}

\* What Wait promises ConnectBlock: when it returns, every check pushed under
\* this control has been run or skipped after a failure, no thread still holds
\* one, and the result is TRUE exactly if none of them fails, whatever failed
\* under an earlier control.
WaitIsExact ==
    [][ pc[Master] = "locked" /\ pc'[Master] = "out"
        => /\ Outstanding = {}
           /\ result' = (pushed \cap bad = {}) ]_vars

\* Between two controls and with the mutex free the queue is as unused as the
\* constructor asserts, interrupted threads included: every thread counted in
\* nTotal is counted in nIdle.
UnusedUnderMutex == pc[Master] = "out" /\ mutex = NoThread => Unused

\* The asserts of the constructor ("passed queue is supposed to be unused")
\* never fail.
ControlAsserts == pc[Master] # "aborted"

\* No wake-up is lost: a call of Wait returns, also when the workers are
\* interrupted while it waits, or the master is.
WaitEnds ==
    pc[Master] \in {"start", "locked", "working", "waiting", "notified"}
        ~> pc[Master] = "out"

=============================================================================
