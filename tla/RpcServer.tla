----------------------------- MODULE RpcServer ------------------------------
(***************************************************************************)
(* The RPC server: worker threads that run the handlers of rpc_io_service  *)
(* (requests and expired timers), the calls with more than one step, and   *)
(* StopRPCThreads.                                                         *)
(*                                                                         *)
(* walletpassphrase unlocks the wallet, fills the key pool and starts the  *)
(* timer that locks the wallet again; walletpassphrasechange locks and     *)
(* unlocks it on its way; getblocktemplate may wait for a new block.  All  *)
(* calls here need cs_main and cs_wallet (threadSafe is false in the table *)
(* of calls); the handler of a timer does not.  A timer is the number of   *)
(* the walletpassphrase call that started it.                              *)
(***************************************************************************)
EXTENDS Integers, FiniteSets

CONSTANTS
    Worker, Call,
    Method,         \* of a call: "unlock", "change", "lock", "poll" or "idle"
    None,
    MaxTip          \* bound: new blocks

VARIABLES
    fRPCRunning,
    stopper,        \* how far StopRPCThreads has come
    sent,           \* calls that clients have made
    handlers,       \* of rpc_io_service: calls and expired timers
    at, call,       \* what each worker does, and for which call
    csMain,         \* who has cs_main and cs_wallet
    locked, nWalletUnlockTime,
    fWasLocked,     \* of the walletpassphrasechange that runs
    timer, timers,  \* the timer of "lockwallet" that runs, and how many were started
    chainTip, watched,   \* hashWatchedChain
    early,          \* history: a timer locked the wallet after a newer one was started
    stray           \* history: a call failed after Unlock, or a timer expired while
                    \* walletpassphrasechange had locked a wallet it will leave unlocked

vars == <<fRPCRunning, stopper, sent, handlers, at, call, csMain, locked, nWalletUnlockTime,
          fWasLocked, timer, timers, chainTip, watched, early, stray>>
walletVars == <<locked, nWalletUnlockTime, fWasLocked, timer, timers, early, stray>>
pollVars == <<chainTip, watched>>
stopVars == <<fRPCRunning, stopper>>

ASSUME RpcAssumption ==
    /\ Method \in [Call -> {"unlock", "change", "lock", "poll", "idle"}]
    /\ None \notin Worker

Steps == <<"run", "flag", "cancel", "stop", "notify", "joined">>

TypeOK ==
    /\ fRPCRunning \in BOOLEAN /\ stopper \in 1 .. 6 /\ sent \subseteq Call
    /\ at \in [Worker -> {"idle", "enter", "reading", "topup", "arm", "derive", "rekey",
                          "check", "wait", "waiting", "leave"}]
    /\ call \in [Worker -> Call \cup {None}] /\ csMain \in Worker \cup {None}
    /\ locked \in BOOLEAN /\ nWalletUnlockTime \in 0 .. timers /\ timer \in 0 .. timers
    /\ chainTip \in 0 .. MaxTip /\ watched \in [Worker -> 0 .. MaxTip]
    /\ fWasLocked \in BOOLEAN
    /\ csMain # None => at[csMain] \in {"topup", "arm", "derive", "rekey"}

Init ==
    /\ fRPCRunning = TRUE /\ stopper = 1
    /\ sent = {} /\ handlers = {}
    /\ at = [w \in Worker |-> "idle"] /\ call = [w \in Worker |-> None]
    /\ csMain = None
    /\ locked = TRUE /\ nWalletUnlockTime = 0 /\ timer = 0 /\ timers = 0
    /\ chainTip = 0 /\ watched = [w \in Worker |-> 0]
    /\ fWasLocked = FALSE /\ early = FALSE /\ stray = FALSE

Reached(step) == \E i \in 1 .. stopper : Steps[i] = step

Go(w, place) == at' = [at EXCEPT ![w] = place]
Answer(w) == Go(w, "idle") /\ call' = [call EXCEPT ![w] = None]

-----------------------------------------------------------------------------
(* The handlers.                                                            *)

\* A client connects and sends a request, or, when it is idle, none.
Submit(c) ==
    /\ c \notin sent /\ ~Reached("cancel")
    /\ sent' = sent \cup {c}
    /\ handlers' = handlers \cup {[call |-> c, timer |-> 0]}
    /\ UNCHANGED <<stopVars, at, call, csMain, walletVars, pollVars>>

Expire ==
    /\ timer # 0
    /\ handlers' = handlers \cup {[call |-> None, timer |-> timer]}
    /\ timer' = 0
    /\ UNCHANGED <<stopVars, sent, at, call, csMain, locked, nWalletUnlockTime, fWasLocked,
                   timers, pollVars, early, stray>>

\* RPCAcceptHandler, ServiceConnection.
Serve(w, h) ==
    /\ h.call # None
    /\ Go(w, IF Method[h.call] = "idle" THEN "reading" ELSE "enter")
    /\ call' = [call EXCEPT ![w] = h.call]
    /\ UNCHANGED walletVars

\* RPCRunHandler, LockWallet.
LockWallet(w, h) ==
    /\ h.call = None
    /\ locked' = TRUE /\ nWalletUnlockTime' = 0
    /\ early' = (early \/ h.timer < timers)
    /\ stray' = (~fWasLocked /\ \E v \in Worker : at[v] = "derive")
    /\ UNCHANGED <<at, call, fWasLocked, timer, timers>>

Take(w) ==
    /\ at[w] = "idle" /\ ~Reached("stop")
    /\ \E h \in handlers : handlers' = handlers \ {h} /\ (Serve(w, h) \/ LockWallet(w, h))
    /\ UNCHANGED <<stopVars, sent, csMain, pollVars>>

\* The client closes the connection that a worker reads from.
Hangup(w) ==
    /\ at[w] = "reading" /\ Answer(w)
    /\ UNCHANGED <<stopVars, sent, handlers, csMain, walletVars, pollVars>>

-----------------------------------------------------------------------------
(* walletpassphrase and walletlock.                                         *)

\* The passphrase is the right one, or the call throws.
Unlock(w) ==
    /\ at[w] = "enter" /\ Method[call[w]] = "unlock" /\ csMain = None
    /\ \/ csMain' = w /\ Go(w, "topup") /\ locked' = FALSE /\ UNCHANGED call
       \/ Answer(w) /\ UNCHANGED <<csMain, locked>>
    /\ UNCHANGED <<stopVars, sent, handlers, nWalletUnlockTime, fWasLocked, timer, timers,
                   pollVars, early, stray>>

\* TopUpKeyPool cannot write, or the time-out is not a number: the call throws.
TopUp(w) ==
    /\ at[w] = "topup"
    /\ \/ Go(w, "arm") /\ UNCHANGED <<csMain, call, stray>>
       \/ csMain' = None /\ Answer(w) /\ stray' = TRUE
    /\ UNCHANGED <<stopVars, sent, handlers, locked, nWalletUnlockTime, fWasLocked, timer, timers,
                   pollVars, early>>

\* RPCRunLater: the new time replaces that of a running timer.  Faulty variant: a
\* running timer is kept.
FaultyRunLater == IF timer = 0 THEN timers + 1 ELSE timer
RunLater == timers + 1

Arm(w) ==
    /\ at[w] = "arm"
    /\ timers' = timers + 1 /\ timer' = RunLater /\ nWalletUnlockTime' = timers + 1
    /\ csMain' = None /\ Answer(w) /\ stray' = FALSE
    /\ UNCHANGED <<stopVars, sent, handlers, locked, fWasLocked, pollVars, early>>

walletlock(w) ==
    /\ at[w] = "enter" /\ Method[call[w]] = "lock" /\ csMain = None
    /\ locked' = TRUE /\ nWalletUnlockTime' = 0
    /\ Answer(w) /\ stray' = FALSE
    /\ UNCHANGED <<stopVars, sent, handlers, csMain, fWasLocked, timer, timers, pollVars, early>>

-----------------------------------------------------------------------------
(* walletpassphrasechange: ChangeWalletPassphrase derives keys for seconds  *)
(* without a lock that LockWallet takes.                                    *)

\* bool fWasLocked = IsLocked(), and Lock().
ChangeLock(w) ==
    /\ at[w] = "enter" /\ Method[call[w]] = "change" /\ csMain = None
    /\ csMain' = w /\ Go(w, "derive")
    /\ fWasLocked' = locked /\ locked' = TRUE
    /\ UNCHANGED <<stopVars, sent, handlers, call, nWalletUnlockTime, timer, timers, pollVars,
                   early, stray>>

\* CCryptoKeyStore::Unlock; a wrong passphrase leaves the wallet locked.
ChangeUnlock(w) ==
    /\ at[w] = "derive"
    /\ \/ Go(w, "rekey") /\ locked' = FALSE /\ UNCHANGED <<csMain, call, fWasLocked>>
       \/ csMain' = None /\ Answer(w) /\ fWasLocked' = FALSE /\ UNCHANGED locked
    /\ UNCHANGED <<stopVars, sent, handlers, nWalletUnlockTime, timer, timers, pollVars, early, stray>>

\* if (fWasLocked) Lock(); if the key cannot be encrypted, the call returns before.
ChangeEnd(w) ==
    /\ at[w] = "rekey"
    /\ csMain' = None /\ Answer(w) /\ fWasLocked' = FALSE
    /\ \/ locked' = (locked \/ fWasLocked) /\ UNCHANGED stray
       \/ stray' = (stray \/ fWasLocked) /\ UNCHANGED locked
    /\ UNCHANGED <<stopVars, sent, handlers, nWalletUnlockTime, timer, timers, pollVars, early>>

-----------------------------------------------------------------------------
(* getblocktemplate with a longpollid.                                      *)

Poll(w) ==
    /\ at[w] = "enter" /\ Method[call[w]] = "poll" /\ csMain = None
    /\ watched' = [watched EXCEPT ![w] = chainTip]
    /\ Go(w, "check")
    /\ UNCHANGED <<stopVars, sent, handlers, call, csMain, walletVars, chainTip>>

\* The condition of the loop, then the wait: cvBlockChange is notified without
\* csBestBlock, so that a notification may come between them.
CheckTip(w) ==
    /\ at[w] = "check"
    /\ Go(w, IF chainTip = watched[w] /\ fRPCRunning THEN "wait" ELSE "leave")
    /\ UNCHANGED <<stopVars, sent, handlers, call, csMain, walletVars, pollVars>>

EnterWait(w) ==
    /\ at[w] = "wait" /\ Go(w, "waiting")
    /\ UNCHANGED <<stopVars, sent, handlers, call, csMain, walletVars, pollVars>>

\* timed_wait; "leave" when mempool.GetTransactionsUpdated() has changed.
FaultyTimedOut(w) == at[w] = "waiting" /\ Go(w, "waiting")
TimedOut(w) == at[w] = "waiting" /\ (Go(w, "check") \/ Go(w, "leave"))

TimeOut(w) ==
    /\ TimedOut(w)
    /\ UNCHANGED <<stopVars, sent, handlers, call, csMain, walletVars, pollVars>>

Leave(w) ==
    /\ at[w] = "leave" /\ csMain = None /\ Answer(w)
    /\ UNCHANGED <<stopVars, sent, handlers, csMain, walletVars, pollVars>>

Notified == at' = [w \in Worker |-> IF at[w] = "waiting" THEN "check" ELSE at[w]]

\* UpdateTip.
NewBlock ==
    /\ csMain = None /\ chainTip < MaxTip
    /\ chainTip' = chainTip + 1
    /\ Notified
    /\ UNCHANGED <<stopVars, sent, handlers, call, csMain, walletVars, watched>>

-----------------------------------------------------------------------------
(* StopRPCThreads.                                                          *)

Stop ==
    /\ stopper < 6 /\ stopper' = stopper + 1
    /\ LET step == Steps[stopper']
       IN  /\ fRPCRunning' = (fRPCRunning /\ step # "flag")
           /\ timer' = IF step = "cancel" THEN 0 ELSE timer
           /\ IF step = "notify" THEN Notified ELSE UNCHANGED at
           /\ step = "joined" => \A w \in Worker : at[w] = "idle"
    /\ UNCHANGED <<sent, handlers, call, csMain, locked, nWalletUnlockTime, fWasLocked, timers,
                   pollVars, early, stray>>

Work(w) ==
    \/ Take(w) \/ Unlock(w) \/ TopUp(w) \/ Arm(w) \/ walletlock(w)
    \/ ChangeLock(w) \/ ChangeUnlock(w) \/ ChangeEnd(w)
    \/ Poll(w) \/ CheckTip(w) \/ EnterWait(w) \/ TimeOut(w) \/ Leave(w)

Next ==
    \/ \E c \in Call : Submit(c)
    \/ Expire \/ NewBlock \/ Stop
    \/ \E w \in Worker : Work(w) \/ Hangup(w)

Spec == Init /\ [][Next]_vars

-----------------------------------------------------------------------------

\* A call that unlocks the wallet has not ended.
Unlocking == \E w \in Worker : at[w] \in {"topup", "arm", "derive", "rekey"}

\* The timer that was started last runs or has expired, and unlocked_until says so.
TimerRuns ==
    /\ nWalletUnlockTime = timers
    /\ timer = timers \/ [call |-> None, timer |-> timers] \in handlers

\* "Stores the wallet decryption key in memory for 'timeout' seconds"
\* (rpcwallet.cpp:1715): while the server runs, a wallet that calls have unlocked has
\* a timer that will lock it, whatever calls and expired timers come in between.
\* The exceptions are those of stray, until the wallet is locked or walletpassphrase
\* succeeds: a call that failed between Unlock and RPCRunLater or Lock, and a timer
\* whose LockWallet came between Lock and Unlock of walletpassphrasechange.
RelockPending == ~locked /\ ~Unlocking /\ ~stray /\ ~Reached("cancel") => TimerRuns

\* "will set a new unlock time that overrides the old one" (rpcwallet.cpp:1721).
OverridesOld == ~early

\* "or 0 if the wallet is locked" (rpcmisc.cpp:63).
ZeroIfLocked == ~Unlocking /\ locked => nWalletUnlockTime = 0

\* "First, cancel all timers and acceptors [...] the destructor of
\* boost::asio::io_service can hang if this is skipped" (rpcserver.cpp:739).
TimersCancelled == Reached("joined") => timer = 0

\* A long poll ends when there is a new block or the server stops, also if it
\* misses the notification; StopRPCThreads ends although workers wait.
PollsEnd ==
    \A w \in Worker :
        (at[w] = "check" /\ (chainTip # watched[w] \/ ~fRPCRunning)) ~> at[w] = "idle"
Stops == (~fRPCRunning) ~> (stopper = 6)
=============================================================================
