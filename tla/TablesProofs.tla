---------------------------- MODULE TablesProofs ---------------------------
(***************************************************************************)
(* Proofs about RpcServer, Alerts and Market: three tables a node keeps,   *)
(* of timers, of alerts and of market objects.  For any number of workers, *)
(* calls and blocks: an unlocked wallet has a timer that will lock it,     *)
(* but for the exceptions that RelockPending names.                        *)
(* For any network, any alerts and any number of connections: the alerts a *)
(* node keeps do not cancel each other.  For every tree of blocks and      *)
(* every set of objects: the market index covers the active chain.         *)
(***************************************************************************)
EXTENDS RpcServer, Alerts, Market, TLAPS

-----------------------------------------------------------------------------
(* RpcServer.                                                               *)

\* Where a worker can be, and where it is while a call that unlocks the wallet runs.
Section == {"topup", "arm", "derive", "rekey"}
Place == {"idle", "enter", "reading", "check", "wait", "waiting", "leave"} \cup Section

\* The wallet need not be locked, or there is a timer that will lock it.
Settled == stray \/ Reached("cancel") \/ TimerRuns

\* walletpassphrasechange keeps the wallet locked until it has derived the key, and
\* leaves it unlocked only if it found it so, with its timer.
ChangeSettled(w) ==
    /\ at[w] = "derive" => locked /\ (fWasLocked \/ Settled)
    /\ at[w] = "rekey" => locked \/ fWasLocked \/ Settled

\* What RelockPending needs to be inductive: cs_main keeps the calls that unlock
\* the wallet apart, and walletpassphrasechange remembers what it found.
IInv ==
    /\ at \in [Worker -> Place] /\ stopper \in 1 .. 6
    /\ \A w \in Worker : (at[w] \in Section => csMain = w) /\ ChangeSettled(w)
    /\ RelockPending

\* No call that unlocks the wallet starts, ends or comes to its next lock.
SameCalls ==
    /\ at' \in [Worker -> Place]
    /\ \A v \in Worker : at'[v] \in Section <=> at[v] \in Section
    /\ \A v \in Worker : at'[v] \in {"derive", "rekey"} => at'[v] = at[v]

-----------------------------------------------------------------------------
\* StopRPCThreads has cancelled the timers exactly from its third step on.
LEMMA CancelStep ==
    ASSUME NEW n \in 1 .. 6
    PROVE  (\E i \in 1 .. n : Steps[i] = "cancel") <=> n >= 3
<1>1. Steps[1] # "cancel" /\ Steps[2] # "cancel" /\ Steps[3] = "cancel"
  BY Zenon DEF Steps
<1>2. CASE n >= 3
  <2>1. 3 \in 1 .. n
    BY <1>2
  <2> QED BY Zenon, <1>1, <1>2, <2>1
<1>3. CASE ~(n >= 3)
  <2>1. \A i \in 1 .. n : i = 1 \/ i = 2
    BY <1>3
  <2> QED BY Zenon, <1>1, <1>3, <2>1
<1> QED BY Zenon, <1>2, <1>3

\* A worker goes from one place outside of the section to another.
LEMMA GoOutside ==
    ASSUME at \in [Worker -> Place], NEW w \in Worker, NEW pl \in Place, Go(w, pl),
           at[w] \notin Section, pl \notin Section
    PROVE  SameCalls
<1>1. /\ at' \in [Worker -> Place] /\ at'[w] = pl
      /\ \A v \in Worker : v # w => at'[v] = at[v]
  BY Zenon DEF Go
<1>2. "derive" \in Section /\ "rekey" \in Section
  BY Zenon DEF Section
<1> QED BY Zenon, <1>1, <1>2 DEF SameCalls

\* notify_all moves only workers that wait for a block.
LEMMA NotifiedSame ==
    ASSUME at \in [Worker -> Place], Notified
    PROVE  SameCalls
BY Zenon DEF Notified, Place, Section, SameCalls

\* A worker enters the section, from which cs_main keeps all others away.
LEMMA GoInside ==
    ASSUME IInv, csMain = None, NEW w \in Worker, NEW pl \in Place, Go(w, pl)
    PROVE  /\ at' \in [Worker -> Place] /\ at'[w] = pl
           /\ \A v \in Worker : at[v] \notin Section /\ (v # w => at'[v] \notin Section)
<1>1. /\ at' \in [Worker -> Place] /\ at'[w] = pl
      /\ \A v \in Worker : v # w => at'[v] = at[v]
  BY Zenon DEF IInv, Go
<1>2. \A v \in Worker : at[v] \notin Section
  BY Zenon, RpcAssumption DEF IInv
<1> QED BY Zenon, <1>1, <1>2

\* It leaves, and there is none left in it.
LEMMA GoOut ==
    ASSUME IInv, NEW w \in Worker, at[w] \in Section, Answer(w)
    PROVE  at' \in [Worker -> Place] /\ \A v \in Worker : at'[v] \notin Section
<1>1. /\ at' \in [Worker -> Place] /\ at'[w] = "idle"
      /\ \A v \in Worker : v # w => at'[v] = at[v]
  BY Zenon DEF IInv, Answer, Go, Place
<1>2. \A v \in Worker : v # w => at[v] \notin Section
  BY Zenon DEF IInv
<1> QED BY Zenon, <1>1, <1>2 DEF Section

\* Steps that leave the calls and the wallet alone and keep what is settled.
LEMMA CallsUntouched ==
    ASSUME IInv, SameCalls, stopper' \in 1 .. 6, UNCHANGED <<csMain, locked, fWasLocked>>,
           Settled => Settled'
    PROVE  IInv'
<1>1. ASSUME NEW v \in Worker PROVE (at'[v] \in Section => csMain' = v) /\ ChangeSettled(v)'
  BY Zenon DEF IInv, SameCalls, ChangeSettled
<1>2. Unlocking' <=> Unlocking
  BY Zenon DEF SameCalls, Section, Unlocking
<1>3. RelockPending'
  BY Zenon, <1>2 DEF IInv, RelockPending, Settled
<1> QED BY Zenon, <1>1, <1>3 DEF IInv, SameCalls

\* What is settled stays so while the timers and StopRPCThreads are left alone and
\* no expired timer is taken.
LEMMA SettledKept ==
    ASSUME UNCHANGED <<stray, stopper, nWalletUnlockTime, timer, timers>>,
           [call |-> None, timer |-> timers] \in handlers =>
               [call |-> None, timer |-> timers] \in handlers'
    PROVE  Settled => Settled'
BY Zenon DEF Settled, TimerRuns, Reached

\* Steps that leave all of this alone.
LEMMA WalletUntouched ==
    ASSUME IInv, SameCalls, UNCHANGED <<csMain, walletVars, stopVars>>,
           [call |-> None, timer |-> timers] \in handlers =>
               [call |-> None, timer |-> timers] \in handlers'
    PROVE  IInv'
<1>1. /\ UNCHANGED <<csMain, locked, fWasLocked>> /\ stopper' \in 1 .. 6
      /\ UNCHANGED <<stray, stopper, nWalletUnlockTime, timer, timers>>
  BY Zenon DEF IInv, walletVars, stopVars
<1>2. Settled => Settled'
  BY Zenon, <1>1, SettledKept
<1> QED BY Zenon, <1>1, <1>2, CallsUntouched

\* No call unlocks the wallet any more: it is locked, or settled.
LEMMA AllOutside ==
    ASSUME at' \in [Worker -> Place], stopper' \in 1 .. 6,
           \A v \in Worker : at'[v] \notin Section, locked' \/ Settled'
    PROVE  IInv'
<1>1. ASSUME NEW v \in Worker PROVE ChangeSettled(v)'
  BY Zenon DEF ChangeSettled, Section
<1>2. RelockPending'
  BY Zenon DEF RelockPending, Settled
<1> QED BY Zenon, <1>1, <1>2 DEF IInv

\* One call does.
LEMMA OneInside ==
    ASSUME at' \in [Worker -> Place], stopper' \in 1 .. 6, NEW w \in Worker, csMain' = w,
           at'[w] \in Section, ChangeSettled(w)', \A v \in Worker : v # w => at'[v] \notin Section
    PROVE  IInv'
<1>1. ASSUME NEW v \in Worker PROVE ChangeSettled(v)'
  BY Zenon DEF ChangeSettled, Section
<1>2. Unlocking'
  BY Zenon DEF Unlocking, Section
<1>3. RelockPending'
  BY Zenon, <1>2 DEF RelockPending
<1> QED BY Zenon, <1>1, <1>3 DEF IInv

-----------------------------------------------------------------------------
\* walletpassphrase and walletlock.
LEMMA WalletCallStep ==
    ASSUME IInv, NEW w \in Worker, Unlock(w) \/ TopUp(w) \/ Arm(w) \/ walletlock(w)
    PROVE  IInv'
<1>0. at \in [Worker -> Place] /\ stopper \in 1 .. 6
  BY Zenon DEF IInv
<1>1. CASE Unlock(w)
  <2>1. at[w] = "enter" /\ csMain = None /\ stopper' = stopper
    BY Zenon, <1>1 DEF Unlock, stopVars
  <2>2. CASE csMain' = w /\ Go(w, "topup")
    <3>1. "topup" \in Place /\ "topup" \in Section
      BY Zenon DEF Place, Section
    <3>2. /\ at' \in [Worker -> Place] /\ at'[w] = "topup"
          /\ \A v \in Worker : v # w => at'[v] \notin Section
      BY Zenon, <2>1, <2>2, <3>1, GoInside
    <3>3. ChangeSettled(w)'
      BY Zenon, <3>2 DEF ChangeSettled
    <3> QED BY Zenon, <1>0, <2>1, <2>2, <3>1, <3>2, <3>3, OneInside
  <2>3. CASE Answer(w) /\ UNCHANGED <<csMain, locked>>
    <3>1. UNCHANGED <<csMain, walletVars, stopVars, handlers>> /\ Go(w, "idle")
      BY Zenon, <1>1, <2>3 DEF Unlock, Answer, walletVars
    <3>2. "idle" \in Place /\ "idle" \notin Section /\ "enter" \notin Section
      BY Zenon DEF Place, Section
    <3>3. SameCalls
      BY Zenon, <1>0, <2>1, <3>1, <3>2, GoOutside
    <3> QED BY Zenon, <3>1, <3>3, WalletUntouched
  <2> QED BY Zenon, <1>1, <2>2, <2>3 DEF Unlock
<1>2. CASE TopUp(w)
  <2>1. at[w] = "topup" /\ at[w] \in Section /\ stopper' = stopper
    BY Zenon, <1>2 DEF TopUp, stopVars, Section
  <2>2. CASE Go(w, "arm") /\ UNCHANGED csMain
    <3>1. "arm" \in Place /\ "arm" \in Section
      BY Zenon DEF Place, Section
    <3>2. /\ at' \in [Worker -> Place] /\ at'[w] = "arm"
          /\ \A v \in Worker : v # w => at'[v] = at[v]
      BY Zenon, <1>0, <2>2, <3>1 DEF Go
    <3>3. csMain' = w /\ \A v \in Worker : v # w => at'[v] \notin Section
      BY Zenon, <2>1, <2>2, <3>2 DEF IInv
    <3>4. ChangeSettled(w)'
      BY Zenon, <3>2 DEF ChangeSettled
    <3> QED BY Zenon, <1>0, <2>1, <3>1, <3>2, <3>3, <3>4, OneInside
  <2>3. CASE Answer(w) /\ stray' = TRUE
    <3>1. Settled'
      BY Zenon, <2>3 DEF Settled
    <3> QED BY Zenon, <1>0, <2>1, <2>3, <3>1, GoOut, AllOutside
  <2> QED BY Zenon, <1>2, <2>2, <2>3 DEF TopUp
<1>3. CASE Arm(w)
  <2>1. /\ at[w] \in Section /\ Answer(w) /\ stopper' = stopper
        /\ timer' = timers' /\ nWalletUnlockTime' = timers'
    BY Zenon, <1>3 DEF Arm, RunLater, stopVars, Section
  <2>2. Settled'
    BY Zenon, <2>1 DEF Settled, TimerRuns
  <2> QED BY Zenon, <1>0, <2>1, <2>2, GoOut, AllOutside
<1>4. CASE walletlock(w)
  <2>1. /\ csMain = None /\ Go(w, "idle") /\ stopper' = stopper /\ locked'
        /\ "idle" \in Place /\ "idle" \notin Section
    BY Zenon, <1>4 DEF walletlock, Answer, stopVars, Place, Section
  <2>2. at' \in [Worker -> Place] /\ \A v \in Worker : at'[v] \notin Section
    BY Zenon, <2>1, GoInside
  <2> QED BY Zenon, <1>0, <2>1, <2>2, AllOutside
<1> QED BY Zenon, <1>1, <1>2, <1>3, <1>4

\* walletpassphrasechange.
LEMMA ChangeStep ==
    ASSUME IInv, NEW w \in Worker, ChangeLock(w) \/ ChangeUnlock(w) \/ ChangeEnd(w)
    PROVE  IInv'
<1>0. at \in [Worker -> Place] /\ stopper \in 1 .. 6
  BY Zenon DEF IInv
<1>1. CASE ChangeLock(w)
  <2>1. /\ csMain = None /\ csMain' = w /\ Go(w, "derive") /\ stopper' = stopper
        /\ fWasLocked' = locked /\ locked'
        /\ UNCHANGED <<handlers, stray, nWalletUnlockTime, timer, timers>>
    BY Zenon, <1>1 DEF ChangeLock, stopVars
  <2>2. "derive" \in Place /\ "derive" \in Section
    BY Zenon DEF Place, Section
  <2>3. /\ at' \in [Worker -> Place] /\ at'[w] = "derive"
        /\ \A v \in Worker : at[v] \notin Section /\ (v # w => at'[v] \notin Section)
    BY Zenon, <2>1, <2>2, GoInside
  <2>4. ~Unlocking
    BY Zenon, <2>3 DEF Unlocking, Section
  <2>5. locked \/ Settled
    BY Zenon, <2>4 DEF IInv, RelockPending, Settled
  <2>6. Settled => Settled'
    BY Zenon, <2>1, SettledKept
  <2>7. ChangeSettled(w)'
    BY Zenon, <2>1, <2>3, <2>5, <2>6 DEF ChangeSettled
  <2> QED BY Zenon, <1>0, <2>1, <2>2, <2>3, <2>7, OneInside
<1>2. CASE ChangeUnlock(w)
  <2>1. /\ at[w] = "derive" /\ at[w] \in Section /\ stopper' = stopper
        /\ UNCHANGED <<handlers, stray, nWalletUnlockTime, timer, timers>>
    BY Zenon, <1>2 DEF ChangeUnlock, stopVars, Section
  <2>2. csMain = w /\ locked /\ (fWasLocked \/ Settled)
    BY Zenon, <2>1 DEF IInv, ChangeSettled
  <2>3. Settled => Settled'
    BY Zenon, <2>1, SettledKept
  <2>4. CASE Go(w, "rekey") /\ UNCHANGED <<csMain, call, fWasLocked>>
    <3>1. "rekey" \in Place /\ "rekey" \in Section
      BY Zenon DEF Place, Section
    <3>2. /\ at' \in [Worker -> Place] /\ at'[w] = "rekey"
          /\ \A v \in Worker : v # w => at'[v] = at[v]
      BY Zenon, <1>0, <2>4, <3>1 DEF Go
    <3>3. csMain' = w /\ \A v \in Worker : v # w => at'[v] \notin Section
      BY Zenon, <2>2, <2>4, <3>2 DEF IInv
    <3>4. ChangeSettled(w)'
      BY Zenon, <2>2, <2>3, <2>4, <3>2 DEF ChangeSettled
    <3> QED BY Zenon, <1>0, <2>1, <3>1, <3>2, <3>3, <3>4, OneInside
  <2>5. CASE Answer(w) /\ UNCHANGED locked
    BY Zenon, <1>0, <2>1, <2>2, <2>5, GoOut, AllOutside
  <2> QED BY Zenon, <1>2, <2>4, <2>5 DEF ChangeUnlock
<1>3. CASE ChangeEnd(w)
  <2>1. /\ at[w] = "rekey" /\ at[w] \in Section /\ Answer(w)
        /\ UNCHANGED <<handlers, stopper, nWalletUnlockTime, timer, timers>>
    BY Zenon, <1>3 DEF ChangeEnd, stopVars, Section
  <2>2. locked \/ fWasLocked \/ Settled
    BY Zenon, <2>1 DEF IInv, ChangeSettled
  <2>3. CASE locked' = (locked \/ fWasLocked) /\ UNCHANGED stray
    <3>1. Settled => Settled'
      BY Zenon, <2>1, <2>3, SettledKept
    <3> QED BY Zenon, <1>0, <2>1, <2>2, <2>3, <3>1, GoOut, AllOutside
  <2>4. CASE stray' = (stray \/ fWasLocked) /\ UNCHANGED locked
    <3>1. fWasLocked \/ Settled => Settled'
      BY Zenon, <2>1, <2>4 DEF Settled, TimerRuns, Reached
    <3> QED BY Zenon, <1>0, <2>1, <2>2, <2>4, <3>1, GoOut, AllOutside
  <2> QED BY Zenon, <1>3, <2>3, <2>4 DEF ChangeEnd
<1> QED BY Zenon, <1>1, <1>2, <1>3

\* A worker takes a call, or an expired timer: LockWallet.
LEMMA TakeStep ==
    ASSUME IInv, NEW w \in Worker, Take(w)
    PROVE  IInv'
<1>0. at \in [Worker -> Place] /\ stopper \in 1 .. 6
  BY Zenon DEF IInv
<1>1. PICK h \in handlers : handlers' = handlers \ {h} /\ (Serve(w, h) \/ LockWallet(w, h))
  BY Zenon DEF Take
<1>2. CASE Serve(w, h)
  <2>1. at[w] = "idle" /\ UNCHANGED <<csMain, walletVars, stopVars>>
    BY Zenon, <1>2 DEF Take, Serve
  <2>2. PICK pl \in {"reading", "enter"} : Go(w, pl)
    BY Zenon, <1>2 DEF Serve
  <2>3. pl \in Place /\ pl \notin Section /\ at[w] \notin Section
    BY Zenon, <2>1 DEF Place, Section
  <2>4. SameCalls
    BY Zenon, <1>0, <2>2, <2>3, GoOutside
  <2>5. h # [call |-> None, timer |-> timers]
    BY <1>2 DEF Serve
  <2> QED BY Zenon, <1>1, <2>1, <2>4, <2>5, WalletUntouched
<1>3. CASE LockWallet(w, h)
  <2>1. UNCHANGED <<at, stopper, csMain, fWasLocked>> /\ locked'
    BY Zenon, <1>3 DEF Take, LockWallet, stopVars
  <2>2. ASSUME NEW v \in Worker, at[v] = "derive" PROVE fWasLocked' \/ Settled'
    <3>1. CASE ~fWasLocked
      <4>1. stray' = TRUE
        BY <1>3, <2>2, <3>1 DEF LockWallet
      <4> QED BY Zenon, <4>1 DEF Settled
    <3>2. CASE fWasLocked
      BY Zenon, <2>1, <3>2
    <3> QED BY Zenon, <3>1, <3>2
  <2>3. ASSUME NEW v \in Worker PROVE ChangeSettled(v)'
    BY Zenon, <2>1, <2>2 DEF ChangeSettled
  <2>4. RelockPending'
    BY Zenon, <2>1 DEF RelockPending
  <2> QED BY Zenon, <2>1, <2>3, <2>4 DEF IInv
<1> QED BY Zenon, <1>1, <1>2, <1>3

\* StopRPCThreads cancels the timers, which ends the promise, and wakes the workers.
LEMMA StopStep ==
    ASSUME IInv, Stop
    PROVE  IInv'
<1>0. at \in [Worker -> Place] /\ stopper \in 1 .. 6
  BY Zenon DEF IInv
<1>1. /\ stopper' \in 1 .. 6 /\ stopper' = stopper + 1
      /\ UNCHANGED <<csMain, locked, fWasLocked, stray, nWalletUnlockTime, timers, handlers>>
  BY <1>0 DEF Stop
<1>2. SameCalls
  <2>1. CASE UNCHANGED at
    BY Zenon, <1>0, <2>1 DEF SameCalls
  <2>2. CASE Notified
    BY Zenon, <1>0, <2>2, NotifiedSame
  <2> QED BY Zenon, <2>1, <2>2 DEF Stop
<1>3. (Reached("cancel") <=> stopper >= 3) /\ (Reached("cancel")' <=> stopper' >= 3)
  BY Zenon, <1>0, <1>1, CancelStep DEF Reached
<1>4. Settled => Settled'
  <2>1. CASE stopper' >= 3
    BY Zenon, <1>3, <2>1 DEF Settled
  <2>2. CASE ~(stopper' >= 3)
    <3>1. ~(stopper >= 3) /\ Steps[stopper'] # "cancel"
      BY <1>0, <1>1, <2>2 DEF Steps
    <3>2. timer' = timer
      BY Zenon, <3>1 DEF Stop
    <3> QED BY Zenon, <1>1, <1>3, <2>2, <3>1, <3>2 DEF Settled, TimerRuns
  <2> QED BY Zenon, <2>1, <2>2
<1> QED BY Zenon, <1>1, <1>2, <1>4, CallsUntouched

\* Every step of the server keeps the timer of an unlocked wallet.
LEMMA RelockStep ==
    ASSUME IInv, [Next]_vars
    PROVE  IInv'
<1>0. at \in [Worker -> Place] /\ stopper \in 1 .. 6
  BY Zenon DEF IInv
<1>1. ASSUME NEW c \in Call, Submit(c) PROVE IInv'
  <2>1. UNCHANGED <<csMain, walletVars, stopVars, at>>
    BY Zenon, <1>1 DEF Submit
  <2>2. SameCalls
    BY Zenon, <1>0, <2>1 DEF SameCalls
  <2> QED BY Zenon, <1>1, <2>1, <2>2, WalletUntouched DEF Submit
<1>2. ASSUME Expire PROVE IInv'
  <2>1. /\ UNCHANGED <<at, stopper, csMain, locked, fWasLocked, stray, nWalletUnlockTime, timers>>
        /\ handlers' = handlers \cup {[call |-> None, timer |-> timer]}
    BY Zenon, <1>2 DEF Expire, stopVars
  <2>2. SameCalls
    BY Zenon, <1>0, <2>1 DEF SameCalls
  <2>3. Settled => Settled'
    BY Zenon, <2>1 DEF Settled, TimerRuns, Reached
  <2> QED BY Zenon, <1>0, <2>1, <2>2, <2>3, CallsUntouched
<1>3. ASSUME NewBlock PROVE IInv'
  <2>1. Notified /\ UNCHANGED <<csMain, walletVars, stopVars, handlers>>
    BY Zenon, <1>3 DEF NewBlock
  <2> QED BY Zenon, <1>0, <2>1, NotifiedSame, WalletUntouched
<1>4. ASSUME NEW w \in Worker, Work(w) \/ Hangup(w) PROVE IInv'
  <2>1. CASE Poll(w) \/ CheckTip(w) \/ EnterWait(w) \/ TimeOut(w) \/ Leave(w) \/ Hangup(w)
    <3>1. /\ at[w] \notin Section /\ UNCHANGED <<csMain, walletVars, stopVars, handlers>>
          /\ \E pl \in {"check", "wait", "waiting", "leave", "idle"} : Go(w, pl)
      BY Zenon, <2>1
      DEF Poll, CheckTip, EnterWait, TimeOut, TimedOut, Leave, Hangup, Answer, Section
    <3>2. PICK pl \in {"check", "wait", "waiting", "leave", "idle"} : Go(w, pl)
      BY Zenon, <3>1
    <3>3. pl \in Place /\ pl \notin Section
      BY Zenon DEF Place, Section
    <3>4. SameCalls
      BY Zenon, <1>0, <3>1, <3>2, <3>3, GoOutside
    <3> QED BY Zenon, <3>1, <3>4, WalletUntouched
  <2> QED BY Zenon, <1>4, <2>1, TakeStep, WalletCallStep, ChangeStep DEF Work
<1>5. CASE UNCHANGED vars
  <2>1. UNCHANGED <<csMain, walletVars, stopVars, handlers, at>>
    BY Zenon, <1>5 DEF vars, walletVars, stopVars
  <2>2. SameCalls
    BY Zenon, <1>0, <2>1 DEF SameCalls
  <2> QED BY Zenon, <2>1, <2>2, WalletUntouched
<1> QED BY Zenon, <1>1, <1>2, <1>3, <1>4, <1>5, StopStep DEF Next

\* walletpassphrase: for any workers and calls, and however walletlock,
\* walletpassphrasechange, expired timers and other walletpassphrase calls come between
\* its steps, an unlocked wallet has a timer that will lock it until StopRPCThreads
\* cancels the timers; except after a call that failed when it had unlocked the wallet,
\* or a timer that expired inside walletpassphrasechange, until the wallet is locked or
\* walletpassphrase succeeds.
THEOREM WalletRelocks == Spec => []RelockPending
<1>1. Init => IInv
  <2> SUFFICES ASSUME Init PROVE IInv
    OBVIOUS
  <2>1. at \in [Worker -> Place] /\ stopper \in 1 .. 6 /\ locked
        /\ \A w \in Worker : at[w] = "idle"
    BY DEF Init, Place
  <2>2. RelockPending
    BY Zenon, <2>1 DEF RelockPending
  <2>3. ASSUME NEW w \in Worker PROVE at[w] \notin Section /\ ChangeSettled(w)
    BY Zenon, <2>1 DEF Section, ChangeSettled
  <2> QED BY Zenon, <2>1, <2>2, <2>3 DEF IInv
<1>2. IInv /\ [Next]_vars => IInv'
  BY Zenon, RelockStep
<1>3. IInv => RelockPending
  BY Zenon DEF IInv
<1> QED BY <1>1, <1>2, <1>3, PTL DEF Spec

-----------------------------------------------------------------------------
(* Alerts.                                                                  *)

\* NoneCancelled is inductive once mapAlerts has an entry for every node.
KeptInv == mapAlerts = [n \in Node |-> mapAlerts[n]] /\ NoneCancelled

-----------------------------------------------------------------------------
\* What ProcessAlert leaves of mapAlerts has no alert that cancels another: the new
\* alert removes those it cancels, and is refused if one of the others cancels it.
LEMMA KeptSound ==
    ASSUME KeptInv, NEW n \in Node, NEW a
    PROVE  \A b, c \in Kept(n, a) : b # c => ~Cancels(b, c)
<1>1. \A b, c \in mapAlerts[n] : b # c => ~Cancels(b, c)
  BY Zenon DEF KeptInv, NoneCancelled
<1>2. CASE ~Acceptable(a)
  BY Zenon, <1>1, <1>2 DEF Kept
<1>3. CASE Acceptable(a) /\ ~ProcessAlert(n, a)
  <2>1. Kept(n, a) = Remaining(n, a)
    BY Zenon, <1>3 DEF Kept
  <2> QED BY Zenon, <1>1, <2>1 DEF Remaining
<1>4. CASE Acceptable(a) /\ ProcessAlert(n, a)
  <2>1. Kept(n, a) = Remaining(n, a) \cup {a}
    BY Zenon, <1>4 DEF Kept
  <2>2. \A b \in Remaining(n, a) : b \in mapAlerts[n] /\ ~Cancels(a, b) /\ ~Cancels(b, a)
    BY Zenon, <1>4 DEF Remaining, ProcessAlert
  <2> QED BY Zenon, <1>1, <2>1, <2>2
<1> QED BY Zenon, <1>2, <1>3, <1>4

\* Processing an alert preserves the invariant while no time passes.
LEMMA ProcessedSound ==
    ASSUME KeptInv, NEW n \in Node, NEW a, Processed(n, a), inEffect' = inEffect
    PROVE  KeptInv'
<1>1. mapAlerts' = [mapAlerts EXCEPT ![n] = Kept(n, a)]
  BY Zenon DEF Processed
<1>2. mapAlerts' = [m \in Node |-> mapAlerts'[m]]
  BY Zenon, <1>1 DEF KeptInv
<1>3. ASSUME NEW m \in Node, NEW b \in mapAlerts'[m], NEW c \in mapAlerts'[m], b # c
      PROVE  ~Cancels(b, c)'
  <2>1. Cancels(b, c)' <=> Cancels(b, c)
    BY Zenon DEF Cancels
  <2>2. CASE m = n
    <3>1. b \in Kept(n, a) /\ c \in Kept(n, a)
      BY Zenon, <1>1, <1>3, <2>2 DEF KeptInv
    <3> QED BY Zenon, <1>3, <2>1, <3>1, KeptSound
  <2>3. CASE m # n
    <3>1. b \in mapAlerts[m] /\ c \in mapAlerts[m]
      BY Zenon, <1>1, <1>3, <2>3 DEF KeptInv
    <3> QED BY Zenon, <1>3, <2>1, <3>1 DEF KeptInv, NoneCancelled
  <2> QED BY Zenon, <2>2, <2>3
<1> QED BY Zenon, <1>2, <1>3 DEF KeptInv, NoneCancelled

\* An alert that expires cancels nothing any more, and none comes into effect.
LEMMA TimeSound ==
    ASSUME KeptInv, mapAlerts' = mapAlerts, inEffect' \subseteq inEffect
    PROVE  KeptInv'
<1>1. \A b, c : Cancels(b, c)' => Cancels(b, c)
  BY Zenon DEF Cancels
<1> QED BY Zenon, <1>1 DEF KeptInv, NoneCancelled

-----------------------------------------------------------------------------
\* Every step of the network preserves the invariant.
LEMMA AlertsStep ==
    ASSUME KeptInv, [AlertsNext]_alertVars
    PROVE  KeptInv'
<1>1. ASSUME NEW n \in Node, NEW a \in Alert, Inject(n, a) PROVE KeptInv'
  BY Zenon, <1>1, ProcessedSound DEF Inject
<1>2. ASSUME NEW p \in Pairs, Deliver(p) PROVE KeptInv'
  <2>1. p[2] \in Node /\ inEffect' = inEffect
    BY Zenon, <1>2 DEF Deliver, Pairs
  <2>2. UNCHANGED mapAlerts \/ Processed(p[2], Head(wire[p]))
    BY Zenon, <1>2 DEF Deliver
  <2> QED BY Zenon, <2>1, <2>2, ProcessedSound, TimeSound
<1>3. ASSUME NEW p \in Pairs, Connect(p) \/ Greet(p) PROVE KeptInv'
  BY Zenon, <1>3, TimeSound DEF Connect, Greet
<1>4. ASSUME NEW c \in up, Disconnect(c) PROVE KeptInv'
  BY Zenon, <1>4, TimeSound DEF Disconnect
<1>5. ASSUME NEW a \in Alert, ExpireAlert(a) PROVE KeptInv'
  BY Zenon, <1>5, TimeSound DEF ExpireAlert, Pass
<1>6. CASE UNCHANGED alertVars
  BY Zenon, <1>6, TimeSound DEF alertVars
<1> QED BY Zenon, <1>1, <1>2, <1>3, <1>4, <1>5, <1>6 DEF AlertsNext

\* CAlert::ProcessAlert: for any network and any alerts, in whatever order they
\* arrive, cancel each other and expire, no alert that a node keeps is cancelled by
\* another that it keeps.
THEOREM KeptAlertsStand == AlertsSpec => []NoneCancelled
<1>1. AlertsInit => KeptInv
  BY Zenon DEF AlertsInit, KeptInv, NoneCancelled
<1>2. KeptInv /\ [AlertsNext]_alertVars => KeptInv'
  BY Zenon, AlertsStep
<1>3. KeptInv => NoneCancelled
  BY Zenon DEF KeptInv
<1> QED BY <1>1, <1>2, <1>3, PTL DEF AlertsSpec

-----------------------------------------------------------------------------
(* Market.  The invariant is about what a crash may leave: any surviving    *)
(* index covers the chain of any surviving best block, because the index is *)
(* forced to disk before a best block is written.                           *)

Covers(i, b) == InChain(b) \subseteq DOMAIN i

\* The inductive invariant.
CoverInv ==
    /\ DOMAIN content \subseteq Block /\ Genesis \in DOMAIN content
    /\ \A b \in DOMAIN content : Chain[b] \subseteq DOMAIN content
    /\ tip \in DOMAIN content /\ coinsMay \subseteq DOMAIN content
    /\ index \in indexMay /\ (flushing => indexMay = {index})
    /\ Covers(index, tip)
    /\ \A i \in indexMay : \A b \in coinsMay : Covers(i, b)

\* The genesis block's branch is indexed before anything else happens.
LEMMA InitCovers == MarketInit => CoverInv
<1> SUFFICES ASSUME MarketInit PROVE CoverInv
    OBVIOUS
<1> USE MarketAssumption
<1>1. DOMAIN content = {Genesis} /\ Chain[Genesis] = {Genesis} /\ DOMAIN index = {GenesisBranch}
    BY Zenon DEF MarketInit
<1>2. InBlock(Genesis) = {GenesisBranch}
    BY DEF MarketInit, InBlock, GenesisTx
<1>3. InChain(Genesis) = {GenesisBranch}
    BY <1>1, <1>2 DEF InChain
<1>4. QED
    BY Zenon, <1>1, <1>3 DEF MarketInit, CoverInv, Covers

\* A block that is mined changes nothing about the chains of the others.
LEMMA MineKeepsChains ==
    ASSUME CoverInv, NEW b \in Block \ {Genesis}, NEW txs, Mine(b, txs),
           NEW c \in DOMAIN content
    PROVE  InChain(c)' = InChain(c)
<1>1. Chain[c] \subseteq DOMAIN content /\ b \notin DOMAIN content
    BY Zenon DEF CoverInv, Mine
<1>2. \A d \in Chain[c] : content'[d] = content[d]
    BY Zenon, <1>1 DEF Mine
<1>3. \A d \in Chain[c] : InBlock(d)' = InBlock(d)
    BY Zenon, <1>2 DEF InBlock
<1>4. QED
    BY Zenon, <1>3 DEF InChain

\* Mine keeps the invariant: the new block's ancestors were mined before it.
LEMMA MineCovers ==
    ASSUME CoverInv, NEW b \in Block \ {Genesis}, NEW txs, Mine(b, txs)
    PROVE  CoverInv'
<1> USE MarketAssumption
<1>1. DOMAIN content' = DOMAIN content \cup {b}
    BY Zenon DEF Mine
<1>2. UNCHANGED <<tip, index, indexMay, coinsMay, flushing>>
    BY Zenon DEF Mine
<1>3. \A c \in DOMAIN content : InChain(c)' = InChain(c)
    BY Zenon, MineKeepsChains
<1>4. Chain[b] \subseteq DOMAIN content'
    BY <1>1 DEF CoverInv, Mine
<1>5. Covers(index, tip)'
    BY Zenon, <1>2, <1>3 DEF CoverInv, Covers
<1>6. \A i \in indexMay' : \A c \in coinsMay' : Covers(i, c)'
    BY <1>2, <1>3 DEF CoverInv, Covers
<1>7. \A c \in DOMAIN content' : Chain[c] \subseteq DOMAIN content'
    BY Zenon, <1>1, <1>4 DEF CoverInv
<1>8. QED
    BY Zenon, <1>1, <1>2, <1>5, <1>6, <1>7 DEF CoverInv

\* ConnectTip keeps the invariant: WriteMarketIndex adds the block's objects and removes
\* none.
LEMMA ConnectCovers ==
    ASSUME CoverInv, NEW b \in Block \ {Genesis}, ConnectTip(b)
    PROVE  CoverInv'
<1>1. DOMAIN index' = Stored \cup InBlock(b)
  <2>1. index' \in Written(b)
      BY Zenon DEF ConnectTip
  <2>2. QED
      BY Zenon, <2>1 DEF Written
<1>2. \A c \in Block : InChain(c)' = InChain(c)
  <2>1. content' = content
      BY Zenon DEF ConnectTip
  <2>2. \A d : InBlock(d)' = InBlock(d)
      BY Zenon, <2>1 DEF InBlock
  <2>3. QED
      BY Zenon, <2>2 DEF InChain
<1>3. InChain(b) = InChain(tip) \cup InBlock(b)
  <2>1. Chain[b] = Chain[tip] \cup {b}
      BY Zenon, MarketAssumption DEF ConnectTip
  <2>2. QED
      BY Zenon, <2>1 DEF InChain
<1>4. Covers(index', b)
    BY Zenon, <1>1, <1>3 DEF CoverInv, Covers, Stored
<1>5. \A c \in coinsMay : Covers(index', c)
    BY Zenon, <1>1 DEF CoverInv, Covers, Stored
<1>6. \A i \in indexMay' : \A c \in coinsMay' : Covers(i, c)'
    BY Zenon, <1>2, <1>5 DEF CoverInv, Covers, ConnectTip
<1>7. Covers(index, tip)'
    BY Zenon, <1>2, <1>4 DEF Covers, ConnectTip
<1>8. QED
    BY Zenon, <1>6, <1>7, MarketAssumption DEF CoverInv, ConnectTip

\* DisconnectTip keeps the invariant: the chain loses a block, the index nothing.
LEMMA DisconnectCovers == CoverInv /\ DisconnectTip => CoverInv'
<1> SUFFICES ASSUME CoverInv, DisconnectTip PROVE CoverInv'
    OBVIOUS
<1> USE MarketAssumption
<1>1. tip \in Block \ {Genesis} /\ tip' = Parent[tip] /\ UNCHANGED <<content, index, indexMay, coinsMay, flushing>>
    BY Zenon DEF CoverInv, DisconnectTip
<1>2. \A c \in Block : InChain(c)' = InChain(c)
    BY <1>1 DEF InChain, InBlock
<1>3. Chain[tip'] \subseteq Chain[tip] /\ tip' \in Block
    BY Zenon, <1>1
<1>4. InChain(tip') \subseteq InChain(tip)
    BY <1>3 DEF InChain
<1>5. Covers(index, tip)'
    BY <1>1, <1>2, <1>3, <1>4 DEF CoverInv, Covers
<1>6. tip' \in DOMAIN content
  <2>1. Chain[tip] \subseteq DOMAIN content
      BY Zenon DEF CoverInv
  <2>2. tip' \in Chain[tip']
      BY <1>1, <1>3 DEF CoverInv
  <2>3. QED
      BY Zenon, <2>1, <2>2, <1>3
<1>7. \A i \in indexMay' : \A c \in coinsMay' : Covers(i, c)'
    BY <1>1, <1>2 DEF CoverInv, Covers
<1>8. QED
    BY Zenon, <1>1, <1>5, <1>6, <1>7 DEF CoverInv

\* The steps that write to the databases or lose what was written.
LEMMA DiskCovers == CoverInv /\ (FlushMarket \/ FlushCoins \/ Crash) => CoverInv'
<1> SUFFICES ASSUME CoverInv, FlushMarket \/ FlushCoins \/ Crash PROVE CoverInv'
    OBVIOUS
<1>1. content' = content
    BY Zenon DEF FlushMarket, FlushCoins, Crash
<1>2. \A c : InChain(c)' = InChain(c)
    BY Zenon, <1>1 DEF InChain, InBlock
<1>3. CASE FlushMarket
    BY Zenon, <1>1, <1>2, <1>3 DEF CoverInv, Covers, FlushMarket, Synced
<1>4. CASE FlushCoins
    BY Zenon, <1>1, <1>2, <1>4 DEF CoverInv, Covers, FlushCoins
<1>5. CASE Crash
    BY Zenon, <1>1, <1>2, <1>5 DEF CoverInv, Covers, Crash
<1>6. QED
    BY Zenon, <1>3, <1>4, <1>5

\* The RPC calls keep the invariant: they only add transactions.
LEMMA CreateCovers == ASSUME CoverInv, NEW o \in Object, Create(o) PROVE CoverInv'
<1>1. UNCHANGED <<content, tip, index, indexMay, coinsMay, flushing>>
    BY Zenon DEF Create, createbranch, createdecision, createmarket, createtrade,
           createsealedvote, createstealvote, createrevealvote, Commit
<1>2. \A c : InChain(c)' = InChain(c)
    BY Zenon, <1>1 DEF InChain, InBlock
<1>3. QED
    BY Zenon, <1>1, <1>2 DEF CoverInv, Covers

\* Every step keeps the invariant.
LEMMA NextCovers == CoverInv /\ [MarketNext]_marketVars => CoverInv'
<1> SUFFICES ASSUME CoverInv, [MarketNext]_marketVars PROVE CoverInv'
    OBVIOUS
<1>1. CASE \E o \in Object : Create(o)
    BY Zenon, <1>1, CreateCovers
<1>2. CASE \E b \in Block \ {Genesis} : ConnectTip(b)
    BY Zenon, <1>2, ConnectCovers
<1>3. CASE \E b \in Block \ {Genesis} : \E txs \in SUBSET created : Mine(b, txs)
    BY Zenon, <1>3, MineCovers
<1>4. CASE DisconnectTip
    BY Zenon, <1>4, DisconnectCovers
<1>5. CASE FlushMarket \/ FlushCoins \/ Crash
    BY Zenon, <1>5, DiskCovers
<1>6. CASE UNCHANGED marketVars
    BY <1>6 DEF marketVars, CoverInv, Covers, InChain, InBlock
<1>7. QED
    BY Zenon, <1>1, <1>2, <1>3, <1>4, <1>5, <1>6 DEF MarketNext

\* Every object of the active chain is in the market index at all times: ConnectBlock
\* indexes a block before the tip moves, and FlushStateToDisk forces the market database
\* to disk before the coin database can name that block after a crash.
THEOREM IndexCovers == MarketSpec => []IndexCoversChain
<1>1. CoverInv => IndexCoversChain
    BY Zenon DEF CoverInv, Covers, IndexCoversChain, Stored
<1>2. QED
    BY <1>1, InitCovers, NextCovers, PTL DEF MarketSpec
=============================================================================
