------------------------------ MODULE WalletDb ------------------------------
(***************************************************************************)
(* The Berkeley DB environment of the wallet (db.cpp) and those who use    *)
(* it: threads that write with a CDB object each, ThreadFlushWalletDB,     *)
(* BackupWallet, CDB::Rewrite, and the two calls of CDBEnv::Flush in       *)
(* Shutdown.  There is one file, wallet.dat, and a handle of it that all   *)
(* objects share, counted in mapFileUseCount under cs_db.                  *)
(*                                                                         *)
(* nWalletDBUpdated is changed without a lock, so an increment can be      *)
(* lost.  "net" stands for the threads joined before Shutdown, "rpc" for   *)
(* those StopRPCThreads joins, "miner" for one nobody joins, and "main"    *)
(* for Shutdown itself, whose FlushStateToDisk calls SetBestChain.         *)
(***************************************************************************)
EXTENDS Integers, FiniteSets

CONSTANTS
    User,           \* "net", "rpc", "miner", "main" or some of them
    MaxWrites, MaxOpens     \* bounds: writes and handles

ASSUME WalletDbAssumption ==
    IsFiniteSet(User) /\ MaxWrites \in Nat /\ MaxOpens \in Nat

Absent == -1        \* no entry in mapFileUseCount

VARIABLES
    fDbEnvInit,
    mapFileUseCount,
    mapDb,          \* the handle, 0 for NULL
    handles,        \* how many were opened
    at, pdb,        \* of each user: where it is, and its handle
    nSeen,          \* what it read of nWalletDBUpdated
    nWalletDBUpdated,
    written,        \* how many writes were committed
    logged,         \* those that are in the logs
    dat,            \* those wallet.dat has without the logs
    nLastSeen, nLastFlushed, quiet,     \* of ThreadFlushWalletDB
    stage           \* of Shutdown: 1 before it, 2 threads joined, 3 and 4 after each Flush

walletDbVars ==
    <<fDbEnvInit, mapFileUseCount, mapDb, handles, at, pdb, nSeen, nWalletDBUpdated,
      written, logged, dat, nLastSeen, nLastFlushed, quiet, stage>>
envVars == <<fDbEnvInit, mapFileUseCount, mapDb, handles>>
userVars == <<at, pdb, nSeen>>
dataVars == <<written, logged, dat>>
threadVars == <<nLastSeen, nLastFlushed, quiet>>

Places == {"idle", "open", "counted", "write", "close"}

WalletDbTypeOK ==
    /\ fDbEnvInit \in BOOLEAN /\ mapFileUseCount \in Absent .. Cardinality(User)
    /\ handles \in 0 .. MaxOpens /\ mapDb \in {0, handles}
    /\ at \in [User -> Places] /\ pdb \in [User -> 0 .. handles]
    /\ written \in 0 .. MaxWrites /\ logged \subseteq 1 .. written /\ dat \subseteq 1 .. written
    /\ {nWalletDBUpdated, nLastSeen, nLastFlushed} \subseteq 0 .. MaxWrites
    /\ stage \in 1 .. 4

WalletDbInit ==
    /\ fDbEnvInit = TRUE /\ mapFileUseCount = Absent /\ mapDb = 0 /\ handles = 0
    /\ at = [u \in User |-> "idle"] /\ pdb = [u \in User |-> 0] /\ nSeen = [u \in User |-> 0]
    /\ nWalletDBUpdated = 0 /\ written = 0 /\ logged = {} /\ dat = {}
    /\ nLastSeen = 0 /\ nLastFlushed = 0 /\ quiet = FALSE /\ stage = 1

Idle(u) == u \in User => at[u] = "idle"

-----------------------------------------------------------------------------
(* CDB objects.                                                             *)

Runs(u) ==
    \/ u = "net" /\ stage = 1
    \/ u = "rpc" /\ stage <= 2
    \/ u = "main" /\ stage = 3
    \/ u = "miner"

\* A handle that is missing is opened and shared. (An environment that was closed
\* cannot be opened again.)
Open(u) ==
    /\ at[u] = "idle" /\ Runs(u) /\ fDbEnvInit
    /\ mapFileUseCount' = IF mapFileUseCount = Absent THEN 1 ELSE mapFileUseCount + 1
    /\ IF mapDb = 0
       THEN handles < MaxOpens /\ handles' = handles + 1 /\ mapDb' = handles + 1
       ELSE UNCHANGED <<handles, mapDb>>
    /\ pdb' = [pdb EXCEPT ![u] = mapDb']
    /\ at' = [at EXCEPT ![u] = "open"]
    /\ UNCHANGED <<fDbEnvInit, nSeen, nWalletDBUpdated, dataVars, threadVars, stage>>

\* The file cannot be opened: the constructor takes its count back and throws.
OpenFails(u) ==
    /\ at[u] = "idle" /\ Runs(u) /\ fDbEnvInit /\ mapDb = 0
    /\ mapFileUseCount' = IF mapFileUseCount = Absent THEN 0 ELSE mapFileUseCount
    /\ UNCHANGED <<fDbEnvInit, mapDb, handles, userVars, nWalletDBUpdated, dataVars, threadVars, stage>>

\* nWalletDBUpdated++, then the write.
ReadCounter(u) ==
    /\ at[u] = "open" /\ Cardinality({v \in User : at[v] \in {"counted", "write"}}) + written < MaxWrites
    /\ nSeen' = [nSeen EXCEPT ![u] = nWalletDBUpdated]
    /\ at' = [at EXCEPT ![u] = "counted"]
    /\ UNCHANGED <<envVars, pdb, nWalletDBUpdated, dataVars, threadVars, stage>>

StoreCounter(u) ==
    /\ at[u] = "counted"
    /\ nWalletDBUpdated' = nSeen[u] + 1
    /\ at' = [at EXCEPT ![u] = "write"]
    /\ UNCHANGED <<envVars, pdb, nSeen, dataVars, threadVars, stage>>

Write(u) ==
    /\ at[u] = "write"
    /\ written' = written + 1 /\ logged' = logged \cup {written + 1}
    /\ at' = [at EXCEPT ![u] = "open"]
    /\ UNCHANGED <<envVars, pdb, nSeen, nWalletDBUpdated, dat, threadVars, stage>>

\* Close forgets the handle, makes a checkpoint, and only then gives up its count.
Close(u) ==
    /\ at[u] = "open"
    /\ at' = [at EXCEPT ![u] = "close"] /\ pdb' = [pdb EXCEPT ![u] = 0]
    /\ UNCHANGED <<envVars, nSeen, nWalletDBUpdated, dataVars, threadVars, stage>>

Release(u) ==
    /\ at[u] = "close"
    /\ mapFileUseCount' = mapFileUseCount - 1
    /\ at' = [at EXCEPT ![u] = "idle"]
    /\ UNCHANGED <<fDbEnvInit, mapDb, handles, pdb, nSeen, nWalletDBUpdated, dataVars, threadVars, stage>>

-----------------------------------------------------------------------------
(* Who detaches the file from the logs.                                     *)

\* Faulty variant: nobody asks.
FaultyUnused == TRUE
Unused == mapFileUseCount \in {Absent, 0}

\* CloseDb, CheckpointLSN and the removal of the count.
Detach ==
    /\ mapDb' = 0 /\ mapFileUseCount' = Absent
    /\ dat' = 1 .. written

\* A change restarts the two seconds the wallet must be quiet.
SeeUpdate ==
    /\ stage = 1 /\ nLastSeen # nWalletDBUpdated
    /\ nLastSeen' = nWalletDBUpdated /\ quiet' = FALSE
    /\ UNCHANGED <<envVars, userVars, nWalletDBUpdated, dataVars, nLastFlushed, stage>>

TwoSeconds ==
    /\ stage = 1 /\ ~quiet /\ quiet' = TRUE
    /\ UNCHANGED <<envVars, userVars, nWalletDBUpdated, dataVars, nLastSeen, nLastFlushed, stage>>

\* An update that comes after SeeUpdate looked does not restart them.
Due == stage = 1 /\ nLastFlushed # nWalletDBUpdated /\ quiet

\* Faulty variant: the update counts as flushed although the file is in use.
FaultyFlushWallet ==
    /\ Due
    /\ nLastFlushed' = nWalletDBUpdated
    /\ IF mapFileUseCount = 0 THEN Detach ELSE UNCHANGED <<mapDb, mapFileUseCount, dat>>
    /\ UNCHANGED <<fDbEnvInit, handles, userVars, nWalletDBUpdated, written, logged, nLastSeen, quiet, stage>>

\* ThreadFlushWalletDB, if the file is listed and not in use.
FlushWallet ==
    /\ Due /\ mapFileUseCount = 0
    /\ nLastFlushed' = nWalletDBUpdated
    /\ Detach
    /\ UNCHANGED <<fDbEnvInit, handles, userVars, nWalletDBUpdated, written, logged, nLastSeen, quiet, stage>>

\* BackupWallet, called by an RPC thread, waits until the file is not in use.
BackupWallet ==
    /\ "rpc" \in User /\ Idle("rpc") /\ Runs("rpc") /\ Unused
    /\ Detach
    /\ UNCHANGED <<fDbEnvInit, handles, userVars, nWalletDBUpdated, written, logged, threadVars, stage>>

\* CDB::Rewrite likewise; then, still under cs_db, a CDB object of its own reads
\* the file. If the copy fails the handle of that object stays open.
Rewrite ==
    /\ "rpc" \in User /\ Idle("rpc") /\ Runs("rpc") /\ Unused
    /\ handles < MaxOpens /\ handles' = handles + 1
    /\ mapDb' \in {0, handles + 1}
    /\ mapFileUseCount' = 0 /\ dat' = 1 .. written
    /\ UNCHANGED <<fDbEnvInit, userVars, nWalletDBUpdated, written, logged, threadVars, stage>>

-----------------------------------------------------------------------------
(* Shutdown.                                                                *)

\* Flush leaves a file that is in use as it is, and at the end the environment.
Flush(fShutdown) ==
    /\ IF mapFileUseCount = 0 THEN Detach ELSE UNCHANGED <<mapDb, mapFileUseCount, dat>>
    /\ IF fShutdown /\ mapFileUseCount' = Absent
       THEN fDbEnvInit' = FALSE /\ logged' = {}
       ELSE UNCHANGED <<fDbEnvInit, logged>>

Joined ==
    /\ stage = 1 /\ Idle("net") /\ stage' = 2
    /\ UNCHANGED <<envVars, userVars, nWalletDBUpdated, dataVars, threadVars>>

FlushFirst ==
    /\ stage = 2 /\ Idle("rpc") /\ stage' = 3 /\ Flush(FALSE)
    /\ UNCHANGED <<handles, userVars, nWalletDBUpdated, written, threadVars>>

FlushLast ==
    /\ stage = 3 /\ Idle("main") /\ stage' = 4 /\ Flush(TRUE)
    /\ UNCHANGED <<handles, userVars, nWalletDBUpdated, written, threadVars>>

Use(u) ==
    \/ Open(u) \/ OpenFails(u) \/ ReadCounter(u) \/ StoreCounter(u) \/ Write(u)
    \/ Close(u) \/ Release(u)

WalletDbNext ==
    \/ \E u \in User : Use(u)
    \/ SeeUpdate \/ TwoSeconds \/ FlushWallet \/ BackupWallet \/ Rewrite
    \/ Joined \/ FlushFirst \/ FlushLast

WalletDbSpec == WalletDbInit /\ [][WalletDbNext]_walletDbVars

\* ThreadFlushWalletDB runs every half second.
Fairness == WF_walletDbVars(SeeUpdate) /\ WF_walletDbVars(TwoSeconds) /\ WF_walletDbVars(FlushWallet)

-----------------------------------------------------------------------------
(* Properties.                                                              *)

\* No object has a handle that was closed, nor an environment: who detaches the
\* file, and the end of Shutdown, respect every use.
HandlesAlive ==
    \A u \in User :
        /\ pdb[u] # 0 => pdb[u] = mapDb
        /\ at[u] # "idle" => fDbEnvInit

\* What was written is in wallet.dat or in the logs, which are removed only with
\* the environment; an environment that was closed left all in wallet.dat.
NothingLost ==
    /\ \A w \in 1 .. written : w \in dat \cup logged
    /\ ~fDbEnvInit => dat = 1 .. written

\* No thread uses a handle that another has closed: CloseDb is called only for a
\* file that nobody uses, and what was written is in the log or in wallet.dat.
WalletDbSafe == WalletDbTypeOK /\ HandlesAlive /\ NothingLost

\* While the node runs, once the last use has ended wallet.dat gets all that was
\* written, also what a lost increment of nWalletDBUpdated stands for.
UpdatesFlushed ==
    <>[](stage = 1 /\ \A u \in User : at[u] = "idle") => <>[](dat = 1 .. written)
=============================================================================
