----------------------------- MODULE MCProgress -----------------------------
(***************************************************************************)
(* What must happen in the end, on small instances of ChainState,          *)
(* BlockDownload, TxRelay, NodeLifecycle, SocketFlow, RpcServer and        *)
(* WalletDb.  They share nothing here: a behaviour is one of a single      *)
(* scene.  A behaviour stays in its scene, so that a fairness condition    *)
(* that joins an action of each scene is the condition on the action of    *)
(* its own: Turn lists them.                                               *)
(***************************************************************************)
EXTENDS Integers, Sequences, FiniteSets, TLC

CONSTANTS Scenes, None, NoThread

VARIABLES
    scene,
    mapBlockIndex, haveData, haveUndo, nChainTx, failedValid, failedChild,
    setDirtyBlockIndex, setBlockIndexCandidates, mapBlocksUnlinked, nSequenceId, tip,
    csMain, pc, mostWork, oldTip, starting, flushing, disk, calls,
    status, versioned, disconnect, shouldBan, preferred, syncing, bestKnown, lastUnknown,
    lastCommon, flight, nPreferred, nSync, reading, index, data, downloadTip,
    connected, pool, orphans, byPrev, announced, asked, askFor, requested, known, toSend,
    sentInv,
    place, ref, flags, addr, grant, sem, sock, sCopy, msg, mCopy, open, held, found, direct, lost,
    out, recv, getdata, got, started,
    fRPCRunning, stopper, sent, handlers, at, call, rMain, locked, nWalletUnlockTime,
    fWasLocked, timer, timers, rTip, watched, early, stray,
    fDbEnvInit, mapFileUseCount, mapDb, handles, dbAt, pdb, nSeen, nWalletDBUpdated, written,
    logged, dat, nLastSeen, nLastFlushed, quiet, stage

chainVars ==
    <<mapBlockIndex, haveData, haveUndo, nChainTx, failedValid, failedChild,
      setDirtyBlockIndex, setBlockIndexCandidates, mapBlocksUnlinked, nSequenceId, tip,
      csMain, pc, mostWork, oldTip, starting, flushing, disk, calls>>
downloadVars ==
    <<status, versioned, disconnect, shouldBan, preferred, syncing, bestKnown, lastUnknown,
      lastCommon, flight, nPreferred, nSync, reading, index, data, downloadTip>>
relayVars ==
    <<connected, pool, orphans, byPrev, announced, asked, askFor, requested, known, toSend,
      sentInv>>
nodeVars ==
    <<place, ref, flags, addr, grant, sem, sock, sCopy, msg, mCopy, open, held, found, direct, lost>>
flowVars == <<out, recv, getdata, got, started>>
rpcVars ==
    <<fRPCRunning, stopper, sent, handlers, at, call, rMain, locked, nWalletUnlockTime,
      fWasLocked, timer, timers, rTip, watched, early, stray>>
dbVars ==
    <<fDbEnvInit, mapFileUseCount, mapDb, handles, dbAt, pdb, nSeen, nWalletDBUpdated, written,
      logged, dat, nLastSeen, nLastFlushed, quiet, stage>>
all == <<scene, chainVars, downloadVars, relayVars, nodeVars, flowVars, rpcVars, dbVars>>

-----------------------------------------------------------------------------
(* A chain a1 a2 whose end ConnectBlock rejects, a block b1 beside it, and  *)
(* two threads that process blocks.                                         *)

Fork == {"g", "a1", "a2", "b1"}
ForkParent == [b \in Fork |-> IF b = "a2" THEN "a1" ELSE "g"]
ForkAncestors == [b \in Fork |-> {"g", b, ForkParent[b]}]
ForkWork == "g" :> 1 @@ "a1" :> 2 @@ "b1" :> 2 @@ "a2" :> 3
ForkOrders == {"g" :> 0 @@ "a1" :> i @@ "a2" :> 1 @@ "b1" :> 1 : i \in {0, 2}}

C == INSTANCE ChainState WITH
    Block <- Fork, Genesis <- "g", Parent <- ForkParent, Ancestors <- ForkAncestors,
    ChainWork <- ForkWork, NonFinal <- {}, Unconnectable <- {"a2"},
    AddressOrders <- ForkOrders, Thread <- {"t1", "t2"}, MaxInvalidate <- 0,
    MaxReconsider <- 0, MaxCrash <- 0

(* Both peers have b1; q is prompt, p may not answer. *)

LineParent == "b1" :> "g"
LineHeight == "g" :> 0 @@ "b1" :> 1
LineChain == "g" :> {"g"} @@ "b1" :> {"g", "b1"}
LineHas == [p \in {"p", "q"} |-> {"b1"}]

D == INSTANCE BlockDownload WITH
    Peer <- {"p", "q"}, Block <- {"g", "b1"}, Genesis <- "g", Parent <- LineParent,
    Height <- LineHeight, Chain <- LineChain, Failed <- {}, Connected <- {"p", "q"},
    Preferred <- {"p", "q"}, Has <- LineHas, Client <- {}, Prompt <- {"q"}, Window <- 1,
    MaxInTransit <- 1, tip <- downloadTip

(* Two transactions, of which p1 has one; p2 is prompt, p1 may not answer. *)

NoParents == [t \in {"a", "c"} |-> {}]
HasSome == "p1" :> {"a"} @@ "p2" :> {"a", "c"}

R == INSTANCE TxRelay WITH
    Peer <- {"p1", "p2"}, Tx <- {"a", "c"}, Parents <- NoParents, Invalid <- {},
    Refused <- {}, Has <- HasSome, Local <- {"c"}, Prompt <- {"p2"}, MaxOrphanTx <- 1,
    MaxAskFor <- 2

(* Callers from two addresses. *)

NoTargets == [o \in {} |-> {}]

N == INSTANCE NodeLifecycle WITH
    Node <- {"n1", "n2"}, Addr <- {"a1", "a2"}, Opener <- {}, Targets <- NoTargets,
    Names <- NoTargets, Direct <- NoTargets,
    Callers <- {"a1", "a2"}, MaxOutbound <- 1, MaxInbound <- 2, Null <- None

(* One end asks, in messages that fit into the stream. *)

MessageSize == "ping" :> 1 @@ "pong" :> 1 @@ "getdata" :> 1 @@ "block" :> 2
Kinds == DOMAIN MessageSize
MessageItems == [k \in Kinds |-> IF k = "getdata" THEN 3 ELSE 0]
MessageReply == [k \in Kinds |-> IF k = "ping" THEN "pong" ELSE None]
Speaks == "a" :> {"getdata", "ping"} @@ "b" :> {}

F == INSTANCE SocketFlow WITH
    End <- {"a", "b"}, Size <- MessageSize, Items <- MessageItems, Reply <- MessageReply,
    Block <- "block", Starts <- Speaks, HeaderSize <- 1, Wire <- 4, SendBufferSize <- 4,
    ReceiveFloodSize <- 2, MaxSent <- 2

(* A call of walletpassphrase and a long poll, for two workers. *)

CallKind == "c1" :> "unlock" @@ "c2" :> "poll"

S == INSTANCE RpcServer WITH
    Worker <- {"w1", "w2"}, Call <- {"c1", "c2"}, Method <- CallKind, MaxTip <- 1, None <- "none", csMain <- rMain, chainTip <- rTip

(* A thread of the network and one of the RPC server write to the wallet. *)

B == INSTANCE WalletDb WITH
    User <- {"net", "rpc"}, MaxWrites <- 2, MaxOpens <- 2, at <- dbAt

ASSUME
    /\ C!TreeAssumption /\ C!ValidityAssumption /\ D!DownloadAssumption
    /\ R!TxRelayAssumption /\ N!NodeAssumption /\ F!FlowAssumption /\ S!RpcAssumption

-----------------------------------------------------------------------------
(* An action of one module leaves the others alone. *)

InChain(A) ==
    /\ scene = "chain" /\ A
    /\ UNCHANGED <<scene, dbVars, downloadVars, relayVars, nodeVars, flowVars, rpcVars>>
InDownload(A) ==
    /\ scene = "download" /\ A
    /\ UNCHANGED <<scene, dbVars, chainVars, relayVars, nodeVars, flowVars, rpcVars>>
InRelay(A) ==
    /\ scene = "relay" /\ A
    /\ UNCHANGED <<scene, dbVars, chainVars, downloadVars, nodeVars, flowVars, rpcVars>>
InNodes(A) ==
    /\ scene = "nodes" /\ A
    /\ UNCHANGED <<scene, dbVars, chainVars, downloadVars, relayVars, flowVars, rpcVars>>
InFlow(A) ==
    /\ scene = "flow" /\ A
    /\ UNCHANGED <<scene, dbVars, chainVars, downloadVars, relayVars, nodeVars, rpcVars>>
InRpc(A) ==
    /\ scene = "rpc" /\ A
    /\ UNCHANGED <<scene, dbVars, chainVars, downloadVars, relayVars, nodeVars, flowVars>>
InWalletDb(A) ==
    /\ scene = "walletdb" /\ A
    /\ UNCHANGED <<scene, chainVars, downloadVars, relayVars, nodeVars, flowVars, rpcVars>>

ProgressInit ==
    /\ scene \in Scenes
    /\ C!Init /\ D!Init /\ R!RelayInit /\ N!NodesInit /\ F!Init /\ S!Init /\ B!WalletDbInit

ProgressNext ==
    \/ InChain(C!Next)
    \/ InDownload(D!Next)
    \/ InRelay(R!RelayNext)
    \/ InNodes(N!NodesNext)
    \/ InFlow(F!Next)
    \/ InRpc(S!Next)
    \/ InWalletDb(B!WalletDbNext)

(* The fair actions of the modules, one of each scene in each. *)
Turn1 ==
    \/ InChain(C!FlushCoins)
    \/ InDownload(D!SendMessages("p", TRUE, FALSE))
    \/ InRelay(R!Tick)
    \/ InNodes(N!SocketThread)
    \/ InFlow(F!Send("a") \/ F!Recv("a"))
    \/ InRpc(S!Stop)
    \/ InWalletDb(B!SeeUpdate)

Turn2 ==
    \/ InChain(C!Activate("t1"))
    \/ InDownload(D!FinalizeNode("p"))
    \/ InRelay(R!SendMessages("p1", TRUE))
    \/ InNodes(N!MessageThread)
    \/ InFlow(F!Send("b") \/ F!Recv("b"))
    \/ InRpc(S!Work("w1"))
    \/ InWalletDb(B!TwoSeconds)

Turn3 ==
    \/ InChain(C!Activate("t2"))
    \/ InDownload(D!SendMessages("q", FALSE, FALSE))
    \/ InRelay(R!SendMessages("p2", TRUE))
    \/ InFlow(F!Process("a"))
    \/ InRpc(S!Work("w2"))
    \/ InWalletDb(B!FlushWallet)

Turn4 ==
    \/ InDownload(\E b \in D!Newest("q") : D!Headers("q", b))
    \/ InRelay(R!ReceiveTx("p2", "a"))
    \/ InFlow(F!Process("b"))

Turn5 ==
    \/ InDownload(\E b \in D!Asked("q") \cap LineHas["q"] : D!Block_("q", b, TRUE))
    \/ InRelay(R!ReceiveTx("p2", "c"))

ProgressSpec ==
    /\ ProgressInit /\ [][ProgressNext]_all
    /\ WF_all(Turn1) /\ WF_all(Turn2) /\ WF_all(Turn3) /\ WF_all(Turn4) /\ WF_all(Turn5)

-----------------------------------------------------------------------------
(* The properties, each of the module it comes from.                        *)

(* A stored chain of acceptable blocks is activated, or one with as much    *)
(* work is (ActivateBestChain), with two threads that race for cs_main.     *)
BestChainWins == C!BestChainWins

(* Every block a prompt peer has is stored, whatever the other was asked for *)
(* and does not send (the block download time-out of SendMessages), and a   *)
(* transaction it announced comes into the pool although another was asked  *)
(* first (mapAlreadyAskedFor, AskFor).                                      *)
Downloads == (scene = "download" => D!Downloads) /\ (scene = "relay" => R!Fetched)

(* Every message sent is processed and every block asked for is delivered   *)
(* (SocketSendData, ProcessGetData); a disconnected node that callers       *)
(* opened is deleted (ThreadSocketHandler).                                 *)
Delivered == (scene = "flow" => F!Delivered) /\ N!DisconnectedDeleted

(* A long poll of getblocktemplate ends when there is a new block or the    *)
(* server stops, also if the notification comes between its check and its   *)
(* wait; StopRPCThreads ends although workers wait.                         *)
RpcEnds == []S!TypeOK /\ S!PollsEnd /\ S!Stops

(* ThreadFlushWalletDB: once its users are done and the node runs on,       *)
(* wallet.dat gets all that was written, although increments of             *)
(* nWalletDBUpdated may be lost and the file may be in use when it is due.  *)
UpdatesFlushed == scene = "walletdb" => B!UpdatesFlushed
=============================================================================
