# Verification of the Hivemind node

Hivemind is a fork of Bitcoin Core 0.10: a node that validates a block chain,
relays blocks and transactions, keeps a wallet and mines, with prediction
markets (branches, decisions, markets, trades and votes) carried in
transactions. This directory holds TLA+ models of its stateful parts and of the
algorithms they rest on, TLC configurations that check them on small instances,
and TLAPS proofs of the properties that matter most, for all instances.

`PROJECT.json` lists the components, the runs, the source lines each definition
models, the hazards of the code and the properties that watch them, faulty
variants that show that each property can fail, and the theorems.

## Inventory of the system

| Part | Source | Concurrency and failures | Module |
|---|---|---|---|
| Block index and active chain | main.cpp, chain.h | several threads race for `cs_main`; crash between writes; operator commands | `ChainState` |
| Skip list, locators, difficulty | chain.cpp, pow.cpp, arith_uint256.cpp | forks; compact numbers at their limits | `ChainWalk`, `Difficulty` |
| Block content and undo data | main.cpp, coins.h, undo.h | reorganisation, `VerifyDB`, first start | `BlockUndo` |
| Block files | main.cpp, txdb.cpp | crash between writes to files and index, `-reindex` | `BlockFiles` |
| Coin views and database | coins.cpp, txdb.cpp | cached flags, crash between flushes | `CoinsCache`, `CoinsView` |
| Script check queue | checkqueue.h | worker threads, condition variables, interruption | `CheckQueue` |
| Scripts and signature hashes | script/ | limits, sets of flags | `ScriptNum`, `Script`, `SigHash` |
| Encodings | serialize.h, compressor.cpp, script.h, base58.cpp, utilmoneystr.cpp | one value, one form | `Codecs` |
| Merkle trees | primitives/block.cpp, merkleblock.cpp | duplicated transactions | `MerkleTrees` |
| Memory pool | txmempool.cpp, main.cpp | reorganisation in many steps | `Mempool` |
| Mining | miner.cpp | the tip moves between the steps | `Miner` |
| Market index | txdb.cpp, main.cpp, rpcwallet.cpp | unforced writes lost by a crash; reorganisation | `Market` |
| Voting schedule and outcomes | miner.cpp, rpcwallet.cpp | two formulas for one window; unsigned heights | `Outcome` |
| Wallet transactions and balances | wallet.cpp, wallet.h | notifications one by one; crash; rescan | `Wallet` |
| Payments | wallet.cpp, rpcwallet.cpp | a loop that raises the fee; random choices | `Spending` |
| Accounts and address book | wallet.cpp, rpcwallet.cpp, walletdb.cpp | crash between the writes of a call | `Accounts` |
| Key pool and encryption | wallet.cpp, crypter.cpp, walletdb.cpp, db.cpp | crash in `EncryptWallet`; reservations outlive top-ups | `KeyPool` |
| Wallet database environment | db.cpp, walletdb.cpp, init.cpp | threads share a handle; an unlocked counter; shutdown | `WalletDb` |
| Block download | main.cpp | peers stall, leave, change branch; a handler without `cs_main` | `BlockDownload` |
| Transaction relay and orphans | main.cpp, net.cpp | any arrival order; retries after time-outs | `TxRelay` |
| Node objects and network threads | net.cpp, sync.h | socket, message and opening threads share nodes | `NodeLifecycle` |
| Message framing and flow control | net.cpp, main.cpp | bytes in pieces of any size, bounded buffers | `SocketFlow` |
| Peer session | main.cpp, net.cpp | messages in flight while versions change; pings and time-outs in two threads | `Handshake`, `Keepalive` |
| Alerts | alert.cpp, main.cpp | any paths and orders, cancellation, expiry | `Alerts` |
| Address manager | addrman.cpp, addrman.h | five copies of the same facts; dump and reload | `AddrMan` |
| RPC server | rpcserver.cpp, rpcwallet.cpp, rpcmining.cpp | workers, timers, long polls, shutdown | `RpcServer` |

Not modelled, with the reasons in `PROJECT.json`: fee estimation, reputation and
prices (floating point), standard scripts and signing, the conversions of RPC
calls, network addresses and proxies, small containers and locks, cryptography,
command-line tools, graphical interface, embedded libraries. Of a part that is
modelled, `PROJECT.json` says which operations are left out.

## How the parts interact, and how the modules are joined

Peers reach the node through `SocketFlow` (bytes to messages), served by the
threads of `NodeLifecycle`, at addresses from `AddrMan`. A connection begins with
`Handshake` and is watched by `Keepalive`. Messages feed `BlockDownload`,
`TxRelay` and `Alerts`. A downloaded block is stored by `BlockFiles` and enters
`ChainState`, whose `ConnectTip` and `DisconnectTip` apply it (`BlockUndo`) to
the coins (`CoinsCache`), with script checks (`Script`, `SigHash`) run by
`CheckQueue`, to the market database (`Market`) and to the pool (`Mempool`); pool
and chain notify the `Wallet`, which takes keys from `KeyPool`, pays by
`Spending`, is divided into `Accounts` and kept in the file of `WalletDb`. Users
come through the threads of `RpcServer`. `Miner` builds blocks from the pool, with
the outcomes of `Outcome`.

`Wallet` is a composition: it instantiates `Mempool` and conjoins the wallet's
reaction to every step of the pool and the chain. `CoinsCache` instantiates
`CoinsView`, the abstract specification it implements. `Codecs` and `Script`
extend `ScriptNum`. The other modules stand alone and take from their neighbours
only what they need: `Market`, `Mempool`, `BlockUndo` and `Wallet` take a tree of
blocks that connect or do not, `BlockDownload` takes what each peer has.

The modules named `MC...` give the constants small values. Several models share
one such module when they share a question: a variable `scene` chooses one at
the start, and the others keep their initial state. So the state space of a run
is the sum of the scenes, not the product.

| Module | Scenes |
|---|---|
| `MCChainState` | `ChainState` with an operator, or with crashes |
| `MCValidation` | `CoinsCache`, `BlockUndo`, `Mempool`, `Wallet`, `KeyPool`, `WalletDb`, `Spending`, `Accounts` twice |
| `MCBlocks` | `Market` with a fork, with trades, with votes; `Outcome`; `Miner`; `BlockFiles` twice; `ChainWalk`; `Difficulty` twice; `MerkleTrees` |
| `MCPeers` | `NodeLifecycle` with callers and an opener, with two openers; `SocketFlow`; `AddrMan` with two bucket sizes; `Handshake`; `Keepalive`; `Alerts`; `RpcServer` |
| `MCRelay` | `TxRelay`, `BlockDownload` twice, `Codecs` |
| `MCScripts` | `CheckQueue`, `Script`, `SigHash` |
| `MCProgress` | `ChainState`, `BlockDownload`, `TxRelay`, `NodeLifecycle`, `SocketFlow`, `RpcServer`, `WalletDb`, for liveness |

## The modules

**ChainState.** State: the block index as sets of blocks by flag
(`haveData`, `haveUndo`, `nChainTx`, `failedValid`, `failedChild`),
`setBlockIndexCandidates`, `mapBlocksUnlinked`, `nSequenceId`, the tip, what
each thread in `ActivateBestChain` or `InvalidateBlock` is about to do, and
what is on disk. Actions: `AcceptBlockHeader`, `ProcessNewBlock`,
`FindMostWorkChain`, the steps of `ActivateBestChainStep` (`DisconnectStep`,
`ConnectStep`, `ConnectFails`, `CheckTip`), `InvalidateBlock` and its steps,
`ReconsiderBlock`, the two writes of `FlushStateToDisk` and `Restart`, which
is a crash and `LoadBlockIndexDB`. `cs_main` is a variable: a thread gives it
up where the code does. Validity of a block is a constant. The order of
pointers, which breaks ties between blocks read from disk, is any order.

**ChainWalk** adds blocks after their parents and moves the tip; `GetAncestor`,
`CChain`, `FindFork` and `GetLocator` are compared with the parents.
**Difficulty** appends block times; `GetNextWorkRequired`, `SetCompact`,
`GetCompact`, `GetBlockProof` and `GetMedianTimePast` work on numbers of a few
digits in a small base, in which every carry and limit of the 256-bit ones
occurs.

**BlockUndo.** State: the coins with versions, heights and outputs, the active
chain, the undo data. Actions: `ConnectBlock` (with the checks of a block's
content and `UpdateCoins`), `DisconnectBlock`, the first start. `VerifyDB` is
an operator that is evaluated in every state.

**BlockFiles.** State: what lies where in the block and undo files, the index and
the file records in memory and on disk. Actions: a block and its undo data are
written (`FindBlockPos`, `FindUndoPos`), `FlushBlockFile`, `FlushStateToDisk`,
a crash that loses what was not synchronised, and the scan of `-reindex`.

**CoinsCache** and **CoinsView.** Two caches with `DIRTY` and `FRESH` flags over
a database. Actions: fetches by either cache, `ModifyCoins`, `OpenView`,
`FlushView`, `DiscardView`, `FlushTip`, `Crash`. `CoinsView` has three versions
of the coins, each with its best block, and no flags; the refinement mapping
computes what a fetch would return.

**CheckQueue.** State: the counters `nIdle`, `nTotal`, `nTodo`, `fAllOk`, the
mutex, the place of each thread, the batches. Actions: `Construct` (the
control object), `Add`, `CallWait`, `Loop` for workers and master,
`SpuriousWakeup`, `InterruptAll`. A critical section takes two steps because
the constructor reads the counters without the mutex.

**ScriptNum**, **Script** and **SigHash.** `EvalScript` is a step per opcode over
stack, alternative stack, `vfExec` and counters; the script grows with the
execution, so the states are all scripts over a set of opcodes. `VerifyScript`
is evaluated on inputs and outputs, for all sets of flags. The digest of
`SignatureHash` is the sequence that would be hashed.

**Codecs** and **MerkleTrees.** A state is a value, or a list of transactions; the
encoders, decoders, trees and proofs are operators that the invariants compare
with each other and with what the code's comments say.

**Mempool.** State: the pool, `mapNextTx`, `totalTxSize`, the chain and the
block the coin database stands at. `DisconnectTip` takes a step for every
transaction it offers to the pool again. Relay policy is an open choice for
the transactions in `Refusable`.

**Miner.** The steps of `HivemindMiner`: note the tip, `CreateNewBlock` (two
queues, dependencies, priority and fee order), `IncrementExtraNonce`, search,
`ProcessBlockFound`; blocks of other nodes come between.

**Market.** State: transactions created, contents of blocks, the market
database, and the versions of it and of the best block that a crash may leave.
Actions: `Create` (the `create*` calls with their look-ups), `Mine`,
`ConnectTip`, `DisconnectTip`, the two flushes, `Crash`.

**Outcome.** One branch's decisions, votes and markets; `MineBlock` publishes
the ballot and runs `getOutcomeTx`. Heights are taken modulo `Word`, which
stands for 2^32.

**Wallet.** State: `mapWallet` with the block of each transaction, the same in
`wallet.dat` with the best block, the cached credits and debits, and the
notifications still to be delivered. Actions: those of the pool and the chain,
`Notify` (one `SyncWithWallets` call), `CommitTransaction`, `GetBalance`,
`FlushStateToDisk`, `Restart` with the rescan, `ReacceptWalletTransactions`.

**Spending.** One payment: `SendMoney`, then rounds of `CreateTransaction`, each
with `SelectCoins` (three levels of confirmations, the approximation of the best
subset as any of its draws), change, dust and the fee for the size.

**Accounts.** State: the address book, current keys, moves, transactions with
their positions, all of it in memory and on disk. Actions: the RPC calls that
change them, with a crash between any two writes, restarts, `-zapwallettxes` and
the load of old wallets.

**KeyPool.** State: the set of indices in memory, the reservations, the key,
pool and master key records on disk, where `EncryptWallet` is. Actions:
`TopUpKeyPool`, `GetReservedKey`, `KeepKey`, `ReturnKey`, `Unlock`,
`LockWallet`, the steps of `EncryptWallet` with `NewKeyPool` and
`CDB::Rewrite`, `Restart`.

**WalletDb.** State: the handle, `mapFileUseCount`, `nWalletDBUpdated`, what is
logged and what is in `wallet.dat`, the stage of `Shutdown`. Actions: the steps
of a `CDB` object's life, of `ThreadFlushWalletDB`, `BackupWallet`,
`CDB::Rewrite` and `CDBEnv::Flush`.

**BlockDownload.** `CNodeState` of each peer, `mapBlocksInFlight`,
`nSyncStarted`, `nPreferredDownload`. Actions: the handlers of `version`,
`inv`, `headers` and `block`, `SendMessages` with its time-outs,
`InitializeNode`, `FinalizeNode`. Time is a choice.

**TxRelay.** Orphans, `mapOrphanTransactionsByPrev`, `mapAskFor`,
`mapAlreadyAskedFor`, inventories. Actions: `Inv`, `ReceiveTx` (with the whole
orphan loop, as the least set closed under its rounds), `SendMessages`,
`SendRawTransaction`, `FinalizeNode`, `Tick`.

**NodeLifecycle.** Where each `CNode` is, its references, flags and grant; which
openers hold a grant (`held`); as history, which nodes `ConnectNode` found to
exist (`found`), which were dialled without a grant (`direct`), and grants moved
to deleted nodes (`lost`). Steps of `ThreadSocketHandler`, `ThreadMessageHandler`
and the openers between their locks. `OpenNetworkConnection` has three kinds of
callers, which are three actions: `Open` (an address and a grant:
`ThreadOpenConnections`, `ThreadOpenAddedConnections`), `OpenName` (a name and a
grant: one-shots, `-addnode` behind a name proxy) and `OpenDirect` (a name and
NULL for the grant: `-connect`, `addnode onetry`). `ConnectNode` looks for an
existing node only without a name, and `Move` is the `if (grantOutbound)` after
it. A name is the text of an address; host names and the interruption points of
the threads at shutdown are left out.

**SocketFlow.** Two ends of a connection: send queue with offset and size, a
stream of bounded size, the receive buffer, the waiting getdata. Actions:
`Push`, `Send`, `Recv`, `Process`.

**Handshake** has two ends that send and process `version`, `verack` and other
messages, each written with one version and read with another.
**Keepalive** has a clock, the message thread (pings), the socket thread
(inactivity) and peers of four kinds.

**Alerts.** `mapAlerts` of each node of a network, what each knows of the others,
messages in flight. Actions: an alert is issued, delivered (`ProcessAlert` and
`RelayTo`), connections come and go, an alert expires.

**AddrMan.** `mapInfo`, `vRandom`, the new and tried buckets and both counters.
Actions: `Add`, `Good` (with `MakeTried`), `GetAddr`, `Restart`.

**RpcServer.** Workers with a place in a call, the posted handlers, the timer that
locks the wallet, the tip a long poll watches, the steps of `StopRPCThreads`.
Actions: `walletpassphrase` in three steps (`Unlock`, `TopUp`, `Arm`),
`walletlock`, `walletpassphrasechange` in three (`ChangeLock`, `ChangeUnlock`,
`ChangeEnd`), `getblocktemplate` with a long poll, `LockWallet` when a timer has
expired, which takes no lock that the calls hold and so comes between their
steps. A call may throw, or return early, wherever the code can. The history
variable `stray` marks what the code leaves without a timer. `encryptwallet`,
which ends the program, and the dialogs of the graphical interface, which unlock
the wallet without a timer, are left out.

## The runs

Passing runs. The third column says which cases the bounds were chosen for.

| Run | Shows | Bounds |
|---|---|---|
| `chain` | Index, candidates and disk stay consistent; no failed block is active; without an operator the best valid chain is active whenever no thread works, and a restart finds a candidate. | Two branches of two blocks, the end of one invalid: enough for a reorganisation that fails half-way and for blocks before their parents. Two threads, one crash; or one invalidation and one reconsideration. |
| `validation` | Coins: the database represents its best block, the caches implement one view. Undo: disconnecting restores the coins field by field. Pool: the asserts of `check`, nothing lost or dropped without reason. Wallet: follows the chain, caches exact. Keys: recoverable, used once. Payments: covered, enough fee, change from a reserved key. Database: no closed handle is used, nothing written is lost. Accounts: they add up, agree with the coins and survive crashes. | Two branches of two or three blocks with a double spend, a chain of spends, a coinbase and outputs that are never stored; any time of flushing; two key holders, a pool of two and six keys: a pool that is drained, encrypted and refilled; wallets of three coins of four values; four users of the wallet file, two writes. |
| `blocks` | The market database covers the active chain, references resolve on a growing chain, every decision is in one outcome, that of its ballot. Templates are valid and accepted. Skip list, locators, targets and compact numbers are exact; Merkle trees prove; block files can be read and a reindex finds what is stored. | Two branches of two blocks and two transactions with one object; six schedules with zero, equal and overlapping times, heights to 9; a pool of four transactions in a block with room for less; a fork of two long branches; targets of eight digits of base 4 over two and a half intervals; all lists up to seven entries; three blocks of which two fit a file, so that a file is closed. |
| `peers` | No thread uses a deleted node, grants are conserved and limit the connections dialled with one; messages arrive whole and answers in order; `Check_` holds; messages are read with the version they were written with; prompt peers are kept and silent ones dropped; alerts arrive and are cancelled; an unlocked wallet has its time-out. | Two nodes for three connections: callers and one opener, by name with and without a grant, among all threads; or two openers that dial one address, one of them also a second by name, while no messages are handled. A node dialled with a grant is counted against the grants taken, so that the limit binds with two nodes; a stream of three bytes, smaller than a message; three addresses in buckets of one and two; three versions, one too old; two time-outs of eleven ticks; a network of three with three connections; two calls of `walletpassphrase`, one of `walletlock` and of `walletpassphrasechange`, and a silent client, for two workers. |
| `relay` | Orphan maps, requests and blocks in flight are exact; orphans are taken when parents come; nothing is echoed; requests stay in the window. Encodings are read back, from one form where the code claims one. | Two peers; a chain of three transactions, an invalid one and one sent by RPC, with room for two orphans; a window of one block, so that it is full; bytes of 16 values, strings to three bytes and some at every length where another form begins. |
| `scripts` | `Wait` returns the conjunction of the checks and always ends. `EvalScript` executes the branches its conditionals choose, opcodes do what their comments say, limits hold, `CHECKMULTISIG` finds an assignment; a flag never makes an input valid; a signature commits to exactly what its hash type says. | Two workers and a master, three checks in batches of one, of which none, one or two fail (which ones does not matter, the queue treats them alike), a spurious wake-up, interruption at any time. All scripts of up to five conditionals and other opcodes; a limit of four opcodes and of eight stack items, so that both are exceeded; every opcode on several stacks; two signatures and three keys; inputs of three instructions under all sets of seven flags; up to two edits of a transaction. |
| `progress` | The best chain wins; blocks and transactions are fetched although another peer was asked first; messages arrive; disconnected nodes are deleted; RPC calls and the shutdown of the server end; `wallet.dat` gets what was written. | One silent and one prompt peer, two transactions of which both have one and the prompt peer the other; two threads; messages that fit the stream; two workers with a call of `walletpassphrase` and a long poll; two users of the wallet file. |

Deadlock is checked in `chain`. The other runs have behaviours that end: peers
have left, messages are used up, a bound is reached, a payment is made. Where a
process must not stop, that is a property: `OneIsPossible` in `StreamExact`,
`WaitEnds`, and those of `progress`.

Runs that TLC refutes, each with a finding in `PROJECT.json`:
`chain_invalidate_assert` (an assert fails after `invalidateblock` on a header),
`market_ledger` (objects of disconnected blocks stay in the market database),
`outcome_decided` (`getOutcomeTx` leaves when there is something to decide),
`pool_coinbase` (with `COINBASE_MATURITY` 1 the pool keeps a spend of a coinbase
that no longer exists), `key_reuse` (two holders of one key).

**What the passing runs assume.** In `validation` the properties of the
pool are checked where policy refuses no transaction of a disconnected block (the
wallet's also where it does), and no pool transaction spends the coinbase
of a block that may be disconnected; LevelDB takes every batch; the first start
is not interrupted; the old wallets that `ReorderTransactions` numbers have no two
items without position before one that has one. In `chain` an operator and a crash
do not come together. In `peers`, `NodesSafe` excepts the nodes that `ConnectNode`
found to exist, the grants of which may get `lost`, and its limit of outgoing
connections does not count those dialled without a grant; `RelockPending` excepts
what `stray` marks: a call that throws after unlocking the wallet and before its
timer is started or the wallet locked, and a timer that expires while
`walletpassphrasechange` has locked a wallet which it will leave unlocked. In `progress`, `DisconnectedDeleted` is about nodes
that callers opened. Each of these is there because the property fails without it;
see below.

**Fairness** is weak fairness of steps that a running thread takes by itself:
the loops of the socket and message threads, the threads inside
`ActivateBestChain`, script check threads, the second write of a flush, the
workers and the stopping thread of the RPC server, `ThreadFlushWalletDB`, and the
passing of time. In addition the prompt peers answer: without an honest peer no
download ends. Nothing is assumed of the other peers, of openers, callers,
operators or RPC clients. A behaviour of `MCProgress` stays in its scene, so the
weak fairness of a disjunction with one action per scene (`Turn1` to `Turn5`) is
that of the scene's action.

## What is proved

TLAPS checks all theorems, for all values of the constants under the named
assumptions of the modules, which TLC evaluates on the instances of the runs: a
tree of finitely many blocks with growing work (`TreeAssumption`,
`ValidityAssumption`), finite sets of workers and checks (`QueueAssumption`),
coins of each block (`CoinsAssumption`), a tree of blocks (`MarketAssumption`),
a tree of blocks that passed `ConnectBlock` (`ChainAssumption`),
finite sets of nodes and openers (`NodeAssumption`), calls of the five kinds
(`RpcAssumption`), sizes that are numbers
(`KeyPoolAssumption`), a finite set of users (`WalletDbAssumption`) and a finite
set of peers (`TxRelayAssumption`). Each
inductive invariant also holds in TLC on a small instance; it is stated next to
the proof. A leaf that needs no arithmetic names `Zenon`, which does not slow down
over a long module as the encoding for the SMT solver does.

* **The chain** (`ChainStateProofs`, with lemmas in `TipProofs`), for any tree of
  blocks and any number of threads, invalidations and crashes. `TypeCorrect`,
  `ChainTxCompleteCorrect`, `ActiveChainCorrect`, `DiskCorrect` and
  `PruneAssertCorrect` (the assert after `PruneBlockIndexCandidates`) follow from
  `IInv`: linked blocks are stored and closed under `Parent`; a thread inside a
  step holds `cs_main` and works towards a linked candidate; the disk differs
  from memory only by the dirty entries. The last makes `DiskRecoverable`
  inductive: between the two writes of a flush nothing is dirty, so the best
  block written second has its chain in the index.
* **The best chain** (the same modules). `TipIsBestCorrect`: no failed block is
  active, unless a crash and `invalidateblock` came together; without
  `invalidateblock` every stored chain is linked, and whenever no thread works
  none that the checks accept has more work than the active one.
  `RestartCorrect`: `LoadBlockIndexDB` leaves a candidate.
  Their invariant `QuietInv` has three parts, each needed by the next.
  `ActiveInv`: a thread that steps goes towards a chain without failed blocks,
  and while `InvalidateBlock` disconnects, what has failed lies above its
  block. `MarkInv`: without an operator only blocks that fail, or descend from
  one that does, are marked failed, in memory and on disk, and every stored
  block is linked, waits in `mapBlocksUnlinked`, or misses data below it.
  `BestInv`: every acceptable stored block is matched by an acceptable
  candidate, and either the tip matches all of them or some thread will look
  again. The candidates' half says why `PruneBlockIndexCandidates` and the
  removals of `FindMostWorkChain` lose nothing; it needs `StepBest`, that nothing
  better becomes a candidate while a thread is inside a step.
* **The script check queue** (`CheckQueueProofs`): `nTodo` counts what is
  outstanding, `WaitIsExact` and `UnusedUnderMutex`. The invariant counts threads
  (`nTotal` is `nIdle` plus the busy ones) and relates `fAllOk` to the checks
  accounted for; `WaitIsExact` needs both, because `Wait` returns when `nTodo` is
  zero.
* **The coins** (`CoinsProofs`): the flags mean what they say, the assert of
  `BatchWrite` holds, the database represents its best block, and `CoinsCache`
  implements `CoinsView`. The invariant says what each combination of flags
  implies about the level below; a `FRESH` entry has no record there.
* **The memory pool** (`CoinsProofs`), for any tree of valid blocks and any
  transactions. `PoolIsIndexed`, without conditions: `mapNextTx` has exactly the
  inputs of the pool, `totalTxSize` counts each transaction once, nothing confirmed
  is pooled, and a transaction leaves only into a block or with an input that is
  gone or immature. `PoolIInv` adds that in the middle of `DisconnectTip` what is
  left to offer is the end of the block and none of it is pooled. The recursive
  `remove` is the least set that is closed under spenders, so what it takes and
  why (`Descendants`, `TakenWhy`) needs no induction. `PoolCheckHolds`: all of
  `PoolCheck`, so the asserts of `check` and of `removeCoinbaseSpends`, under the
  two conditions that the code does not ensure by itself: `PolicyKeeps` (the policy
  takes back what a block contained) and `CoinbaseUnspent` (nothing pooled spends
  the coinbase of the tip, which `pool_coinbase` shows to be necessary). Its
  invariant `PoolCInv` says what is missing while `DisconnectTip` runs: an input
  of the pool is available or is created by what is still to be offered, and the
  pool conflicts with none of that.
* **The orphans** (`RelayProofs`): `OrphansAreConsistent`, for any peers and
  transactions. The two orphan maps agree and keep to their limit after
  resolution, eviction, punishment and disconnection; an orphan waits for a parent
  that is not in the pool, or for one that came by RPC; the step that brings the
  last parent takes it, unless it is bad or came from a peer that the same loop has
  just punished; what the pool holds has its parents there; nothing is announced
  to the peer that announced it. `AcceptedFixed` says that the work queue of the
  "tx" handler reaches a fixed point of its rounds, without induction: the
  intersection of all sets that a round does not leave is one. `RequestsInv`
  bounds the two minutes added per request (`asked`) by the number of peers that
  announced the transaction, and `KnownInv` says that an announcement is in
  `setInventoryKnown` of its sender before anything is queued for it.
* **The markets** (`TablesProofs`): the market database covers the active chain
  through reorganisations and crashes. The invariant speaks of every index and
  every best block that a crash may leave.
* **The nodes** (`NodeProofs`): `NodesAreSafe`, for any number of nodes and
  openers, each with any addresses and names to dial, with a grant or without.
  `RefCovers` is not inductive for a node whose opener has not set
  `fNetworkNode`: the socket thread drops a reference only for nodes that are
  inbound or marked, so `Own` adds that such a node is not counted, has one
  opener, and keeps the reference of its creation. The limit of outgoing
  connections, not more of those dialled with a grant than grants are taken, needs
  `Covered` (such a node has a grant, or its opener holds one and is about to move
  it there) and the sum of `GrantsConserved`. The nodes of `-connect` and
  `addnode onetry` come on top of it.
* **The wallet** (`WalletProofs`). `KeysAreSafe`, for any number of holders and
  keys: `CryptInv` says that memory is ahead of `wallet.dat` only before
  `TxnCommit`, when no key is made; `RecordInv` that no two records have one key
  and none a key taken for good; `ReserveInv` that, unless an index was reused, it
  is with the pool or with one holder. `WalletDbIsSafe`, for any number of users
  and writes: the count is exact although it is read and changed in separate
  critical sections, a missing count means a detached file, and `CounterInv`
  bounds the unlocked `nWalletDBUpdated`: increments may be lost, none is made up.
* **The server and the alerts** (`TablesProofs`). `WalletRelocks`, for any
  number of workers and any calls, failing ones included: while the server runs, a
  wallet that no call is at work on and `stray` does not mark is locked, or the
  newest timer runs or waits for a worker, and `unlocked_until` is its time. Two
  things make it inductive: `cs_main` keeps the calls apart, so that at most one is
  between unlocking and its end (`Section`), while `LockWallet` may come in at any
  step; and `ChangeSettled` says what `walletpassphrasechange` will leave: with
  `fWasLocked` a locked wallet, else a wallet whose timer still runs unless a timer
  expired meanwhile. `KeptAlertsStand`: with any alerts, networks
  and orders of delivery no node keeps an alert together with one that cancels
  it. `ProcessAlert` does it in one pass: it removes what the new alert cancels and
  refuses the alert if one that stays cancels it.

Only model-checked, and why:

* all liveness (`progress`, `WaitEnds`): fairness is outside the prover's reach;
* what is computed by recursion or folds over sequences, where a proof would be
  an induction over data: `Script`, `SigHash`, `Codecs`, `MerkleTrees`,
  `ChainWalk`, `Difficulty`, `BlockUndo` (coins of a block), `Spending`, `Miner`,
  `Accounts`, the notification queue of `Wallet`, the order of `BlockDownload`'s requests, the reassembly in `SocketFlow`;
* the rest, which is within reach and not done: `AddrMan`, `BlockFiles`,
  `Handshake`, `Keepalive`, `Outcome`, `Arrives` and `NotifiedOnce`
  of `Alerts`.

## Known disagreements that are not runs of their own

The definitions are in the modules. Each was refuted by TLC on an instance like
those of the runs, unless it says that it was only read.

* `invalidateblock`: `InvalidateReadds` and `ActivatesMostWork` (main.cpp:2352,
  the loop inserts the invalidated block and not the one it looks at),
  `RestartFindsCandidate` with an operator and a crash (main.cpp:2204), and
  `TipIsBest` too, because the mark may be flushed before the tip moves;
  `reconsiderblock`: `ChainTxLinked` (main.cpp:2464), `FailedChildDescends`
  (main.cpp:2383).
* `ControlAsserts` (checkqueue.h:184): the counters are read without the mutex.
* `DatabaseRepresentsBest` under `FailingSpec` (coins.cpp:180): a refused batch
  empties the cache and keeps its best block.
* `BlockUndo`: `GenesisConnects` with `CrashAtInit` (compare the comment at
  chainparams.cpp:101); a coin of the genesis block that is spent whole has
  height 0 in its undo record, which marks records without height (main.cpp:1673).
* `BlockFiles`: `UsedBytes` after a reindex, which counts sizes again, and
  `UndoFlushedFirst`.
* `Mempool`: `SweepAssert` with maturity 1 (txmempool.cpp:486),
  `InputsAvailable` when policy refuses a disconnected transaction whose child
  is in the pool (main.cpp:2068), `PoolFinal` with lock heights (main.cpp:969).
* `Wallet`: `CachesExact` excepts outputs whose spender left the pool in
  `DisconnectTip`; the wallet is not told (main.cpp:2068, 2070), although
  `SyncTransaction` means to recompute them (wallet.cpp:707).
* `Spending`: `SendMoney` labels the change destination although the last round
  had no change (rpcwallet.cpp:366).
* `Accounts`: `getbalance` and `getbalance "*" 0` "should return the same number"
  and differ when a trusted unconfirmed payment spends an output of a transaction
  that a reorganisation unconfirmed; `ReorderTransactions` compares the unshifted
  position, so that positions may coincide; `ListAccountCreditDebit("")` gives it
  the default account's entries only. Only read: `sendmany` does not label its
  change.
* `KeyPool`: `PoolReadable` excepts reused indices; a crash inside `CDB::Rewrite`
  leaves only `wallet.dat.rewrite`; a crash before `NewKeyPool` keeps the old
  pool in an encrypted wallet.
* `RpcServer`: "Stores the wallet decryption key in memory for 'timeout' seconds"
  (rpcwallet.cpp:1715) is `RelockPending` without its exceptions. It fails when
  `walletpassphrase` throws after `Unlock`, when `walletpassphrasechange` returns
  before its last `Lock`, and, though no call fails, when the timer expires while
  `walletpassphrasechange` derives keys: `LockWallet` locks a wallet that is locked
  already, and the call unlocks it again. Also `OverridesOld` (rpcwallet.cpp:1721), `ZeroIfLocked`
  (rpcmisc.cpp:63), `TimersCancelled` (rpcserver.cpp:745). An idle client keeps
  the join of `StopRPCThreads` waiting. Only read: `deadlineTimers` is not
  synchronised.
* `BlockDownload`: `PreferredExact` (main.cpp:320), `ValidatedExact`
  (main.cpp:341).
* `Market`: `ReferencesResolve` of a revealed vote after a reorganisation
  (rpcwallet.cpp:3136), `HeightRecorded` (txdb.cpp:281).
* `Outcome`: `BallotComplete` (rpcwallet.cpp:2491), `OutcomeBeforeNextBallot`
  (rpcwallet.cpp:2392), `VotesCounted` (miner.cpp:106), `MarketsPaid`
  (miner.cpp:208).
* `NodeLifecycle`: `ConnectNode` keeps the pointer that `FindNode` returned
  without a reference (net.cpp:387), so `NodesSafe` excepts those nodes;
  `GrantReleased` when a node is disconnected between its insertion and `MoveTo`
  (net.cpp:1396); `DisconnectedDeleted` with openers, because a node that is
  disconnected before `fNetworkNode` is set keeps its reference (net.cpp:715);
  with nodes dialled without a grant (net.cpp:1214, rpcnet.cpp:189) the outgoing
  connections exceed `semOutbound`, and with them "Maintain at most <n>
  connections" (init.cpp:281) too.
* `SocketFlow`: `DoesNotDeadlock` for both ends together (net.cpp:806).
* `Keepalive`: a user's pings restart the time-out of an unanswered one (net.h:44).
* `Alerts`: an alert that is refused still removes what it cancels, cancellation
  through `setCancel` is not transitive, so that two nodes may keep different
  alerts, and a peer that relays a cancelled alert gets ten points.
* `AddrMan`: `SelectsOldest` (addrman.cpp:147).
* `Codecs`: the example for 16511 at serialize.h:276 has three bytes, the format of
  line 267 two.
* Only read: with regtest's limit of 2^255 (chainparams.cpp:276) the product in
  `GetNextWorkRequired` (pow.cpp:65) exceeds 256 bits at a retarget; `Difficulty`
  assumes a limit for which it does not, as the main network's is.
  `fSkipProofOfWorkCheck = true` is marked as to be taken out (chainparams.cpp:190).

## What the abstractions leave out

Names, keys, signatures and hashes are values of small sets, distinct when the
program's are. In `Script` the limit of 10,000 bytes, `FindAndDelete` and the
counts of signature operations are left out, and `OP_NOP1` stands for all ten. In
`Accounts`, `importprivkey` and `importaddress`, which may relabel the current key
of an account, are left out. Every counter that the code does not bound has a bound
named `Max...`, which is a guard and so only shortens behaviours. `Keepalive` leaves
out a `pong` with a nonce of zero or too short for one (main.cpp:4163).
`BlockDownload` treats the ways in which a `headers` message is refused as one.
That its requests stay in the window is checked in the instance with an invalid
block only.
`Miner` always checks the height in the coinbase, which the code does once enough
blocks have version 2 (main.cpp:2676). In `Outcome` the period `tau` is not zero.
The amounts of `Codecs` are short: the limit of ten digits in `ParseMoney` and the
width of 64 bits are not reached. The runs of `Accounts` have no unconfirmed
transaction with inputs of the wallet and of others (rpcwallet.cpp:654). Integers have
their width where it matters: heights in `Outcome`, targets in `Difficulty`, script
numbers in `ScriptNum`.

## What could come next

1. Proofs: `BucketSizes` of `AddrMan`, `ReadAsWritten` of `Handshake`, blocks in flight
   (`FlightExact`), after the folds there are written as sets.
2. Reconsideration: what `ReconsiderBlock` leaves of `MarkInv`, so that
   `TipIsBestCorrect` can be stated with an operator whose commands are over.
3. Models of fee estimation (on rationals) and of `CBloomFilter`'s use in
   `merkleblock`.
