--------------------------- MODULE NodeLifecycle ---------------------------
(***************************************************************************)
(* The life of a CNode: created by the thread that accepts or by one that  *)
(* dials, kept alive by nRefCount while the socket and message threads     *)
(* work on copies of vNodes, moved to vNodesDisconnected and deleted when  *)
(* nobody refers to it; and the semaphore that limits outbound             *)
(* connections, whose grants travel with the nodes.  OpenNetworkConnection *)
(* is called with an address and a grant, with a name and a grant, or with *)
(* a name and no grant; a name is the text of an address.                  *)
(***************************************************************************)
EXTENDS Integers, FiniteSets

CONSTANTS
  Node,         \* storage for CNode objects, reused after a delete
  Addr,         \* network addresses
  Opener,       \* ThreadOpenConnections, ThreadOpenAddedConnections, RPC workers
  Targets,      \* Targets[o]: the addresses opener o dials
  Names,        \* Names[o]: those it dials by name: one-shots, -addnode with a proxy
  Direct,       \* Direct[o]: those it dials by name without a grant: -connect, onetry
  Callers,      \* the addresses inbound connections come from
  MaxOutbound,  \* the initial value of semOutbound
  MaxInbound,   \* nMaxConnections - MAX_OUTBOUND_CONNECTIONS
  Null

ASSUME NodeAssumption ==
  /\ IsFiniteSet(Node) /\ IsFiniteSet(Opener) /\ Null \notin Node \cup Addr
  /\ {Targets, Names, Direct} \subseteq [Opener -> SUBSET Addr] /\ Callers \subseteq Addr
  /\ MaxOutbound \in Nat /\ MaxInbound \in Nat

VARIABLES
  place,   \* place[n]: "free" memory, in "vNodes", or in "vNodesDisconnected"
  ref,     \* nRefCount
  flags,   \* flags[n]: which of fDisconnect, fInbound, fNetworkNode are set
  addr,    \* the address of the node
  grant,   \* the nodes that hold a grant of the semaphore
  sem,     \* the value of semOutbound
  sock,    \* the socket thread: where it is in its loop
  sCopy,   \* its copy of vNodes
  msg,     \* the message thread: where it is in its loop
  mCopy,   \* its copy of vNodes
  open,    \* open[o]: where opener o is, its address, its pointer, nRefCount as read
  held,    \* the openers that hold a grant of the semaphore
  found,   \* (history) the nodes that ConnectNode found to exist already
  direct,  \* (history) the nodes that were dialled without a grant
  lost     \* (history) the number of grants moved to a node that was deleted

nodeVars ==
  <<place, ref, flags, addr, grant, sem, sock, sCopy, msg, mCopy, open, held, found, direct, lost>>

In(p) == {n \in Node : place[n] = p}
vNodes == In("vNodes")

Idle == [at |-> "idle", to |-> Null, node |-> Null, seen |-> 0]

Flag == {"fDisconnect", "fInbound", "fNetworkNode"}
OpenerAt == {"idle", "find", "dial", "found", "bump", "move", "mark"}

(* Types; a count may be wrong, and negative, once an opener raced with it. *)
NodesTypeOK ==
  /\ place \in [Node -> {"free", "vNodes", "vNodesDisconnected"}]
  /\ ref \in [Node -> Int] /\ flags \in [Node -> SUBSET Flag]
  /\ addr \in [Node -> Addr \cup {Null}]
  /\ grant \subseteq Node /\ sem \in 0..MaxOutbound
  /\ sock \in {"disconnect", "delete", "accept", "copy", "service", "release"}
  /\ msg \in {"copy", "process", "release"}
  /\ sCopy \subseteq Node /\ mCopy \subseteq Node
  /\ open \in [Opener -> [at : OpenerAt, to : Addr \cup {Null},
                          node : Node \cup {Null}, seen : Int]]
  /\ held \subseteq Opener /\ found \subseteq Node /\ direct \subseteq Node
  /\ lost \in 0..MaxOutbound

NodesInit ==
  /\ place = [n \in Node |-> "free"] /\ ref = [n \in Node |-> 0]
  /\ flags = [n \in Node |-> {}] /\ addr = [n \in Node |-> Null]
  /\ grant = {} /\ sem = MaxOutbound
  /\ sock = "disconnect" /\ sCopy = {} /\ msg = "copy" /\ mCopy = {}
  /\ open = [o \in Opener |-> Idle] /\ held = {} /\ found = {} /\ direct = {} /\ lost = 0

(* Memory `new' may return: no pointer to it is left over. *)
Fresh(n) ==
  /\ place[n] = "free" /\ n \notin sCopy \cup mCopy
  /\ \A o \in Opener : open[o].node # n

(* A node added to vNodes with one reference and no grant; none is on its  *)
(* way to it if bare.                                                      *)
Added(n, a, fl, bare) ==
  /\ place' = [place EXCEPT ![n] = "vNodes"]
  /\ ref' = [ref EXCEPT ![n] = 1]
  /\ flags' = [flags EXCEPT ![n] = fl]
  /\ addr' = [addr EXCEPT ![n] = a]
  /\ grant' = grant \ {n} /\ lost' = lost + Cardinality(grant \cap {n})
  /\ found' = found \ {n}
  /\ direct' = IF bare THEN direct \cup {n} ELSE direct \ {n}

-----------------------------------------------------------------------------
(* ThreadSocketHandler.                                                     *)

(* The nodes whose reference the socket thread drops on disconnection. *)
Counted(n) == flags[n] \cap {"fNetworkNode", "fInbound"} # {}

(* The semaphore after the nodes of S let go of their grants. *)
Posted(S) == sem + Cardinality(grant \cap S)

(* Nodes marked for disconnection, and those without a reference whose     *)
(* buffers are empty, leave vNodes, give their grant back and lose the     *)
(* reference of the list.                                                  *)
Disconnect ==
  \E unused \in SUBSET {n \in vNodes : ref[n] <= 0} :
    LET gone == {n \in vNodes : "fDisconnect" \in flags[n]} \cup unused IN
    /\ sock = "disconnect" /\ sock' = "delete"
    /\ place' = [n \in Node |-> IF n \in gone THEN "vNodesDisconnected" ELSE place[n]]
    /\ grant' = grant \ gone
    /\ sem' = Posted(gone)
    /\ ref' = [n \in Node |-> IF n \in gone /\ Counted(n) THEN ref[n] - 1 ELSE ref[n]]
    /\ UNCHANGED <<flags, addr, sCopy, msg, mCopy, open, held, found, direct, lost>>

(* Faulty variant: a disconnected node is deleted whoever refers to it. *)
FaultyDeletable(n) == place[n] = "vNodesDisconnected"

(* Faulty variant: a node is deleted when its count drops below zero. *)
FaultyUnreferenced(n) == place[n] = "vNodesDisconnected" /\ ref[n] < 0

(* Nobody refers to the node any more. *)
Deletable(n) == place[n] = "vNodesDisconnected" /\ ref[n] <= 0

(* The destructor gives a grant the node still has back. *)
Delete ==
  LET dead == {n \in Node : Deletable(n)} IN
  /\ sock = "delete" /\ sock' = "accept"
  /\ place' = [n \in Node |-> IF n \in dead THEN "free" ELSE place[n]]
  /\ ref' = [n \in Node |-> IF n \in dead THEN 0 ELSE ref[n]]
  /\ flags' = [n \in Node |-> IF n \in dead THEN {} ELSE flags[n]]
  /\ addr' = [n \in Node |-> IF n \in dead THEN Null ELSE addr[n]]
  /\ grant' = grant \ dead
  /\ sem' = Posted(dead)
  /\ UNCHANGED <<sCopy, msg, mCopy, open, held, found, direct, lost>>

(* Inbound connections are accepted below their limit. *)
Room == Cardinality({n \in vNodes : "fInbound" \in flags[n]}) < MaxInbound

(* A caller is accepted, or there is none, or it is turned away. *)
Accept ==
  /\ sock = "accept" /\ sock' = "copy"
  /\ \/ /\ Room
        /\ \E n \in Node, a \in Callers : Fresh(n) /\ Added(n, a, {"fInbound"}, FALSE)
     \/ UNCHANGED <<place, ref, flags, addr, grant, found, direct, lost>>
  /\ UNCHANGED <<sem, sCopy, msg, mCopy, open, held>>

(* AddRef on every node of a copy of vNodes. *)
With(S) == [n \in Node |-> IF n \in S THEN ref[n] + 1 ELSE ref[n]]

(* Release on every node of a copy. *)
Without(S) == [n \in Node |-> IF n \in S THEN ref[n] - 1 ELSE ref[n]]

SocketCopy ==
  /\ sock = "copy" /\ sock' = "service"
  /\ sCopy' = vNodes /\ ref' = With(vNodes)
  /\ UNCHANGED <<place, flags, addr, grant, sem, msg, mCopy, open, held, found, direct, lost>>

(* Nodes with a closed socket, a socket error or a timeout are marked. *)
Service ==
  /\ sock = "service" /\ sock' = "release"
  /\ \E S \in SUBSET sCopy :
       flags' = [n \in Node |-> IF n \in S THEN flags[n] \cup {"fDisconnect"} ELSE flags[n]]
  /\ UNCHANGED <<place, ref, addr, grant, sem, sCopy, msg, mCopy, open, held, found, direct, lost>>

SocketRelease ==
  /\ sock = "release" /\ sock' = "disconnect"
  /\ ref' = Without(sCopy) /\ sCopy' = {}
  /\ UNCHANGED <<place, flags, addr, grant, sem, msg, mCopy, open, held, found, direct, lost>>

-----------------------------------------------------------------------------
(* ThreadMessageHandler.                                                    *)

MessageCopy ==
  /\ msg = "copy" /\ msg' = "process"
  /\ mCopy' = vNodes /\ ref' = With(vNodes)
  /\ UNCHANGED <<place, flags, addr, grant, sem, sock, sCopy, open, held, found, direct, lost>>

(* Messages are processed and sent; a node may be marked on the way. *)
Process ==
  /\ msg = "process" /\ msg' = "release"
  /\ \E S \in SUBSET mCopy :
       flags' = [n \in Node |-> IF n \in S THEN flags[n] \cup {"fDisconnect"} ELSE flags[n]]
  /\ UNCHANGED <<place, ref, addr, grant, sem, sock, sCopy, mCopy, open, held, found, direct, lost>>

MessageRelease ==
  /\ msg = "release" /\ msg' = "copy"
  /\ ref' = Without(mCopy) /\ mCopy' = {}
  /\ UNCHANGED <<place, flags, addr, grant, sem, sock, sCopy, open, held, found, direct, lost>>

-----------------------------------------------------------------------------
(* The opening threads: OpenNetworkConnection and ConnectNode.              *)

Goes(o, at) == open' = [open EXCEPT ![o].at = at]

(* The opener gives up: a grant it has is posted when it goes out of scope. *)
GiveUp(o) ==
  /\ open' = [open EXCEPT ![o] = Idle]
  /\ held' = held \ {o} /\ sem' = sem + Cardinality(held \cap {o})
  /\ UNCHANGED <<place, ref, flags, addr, grant, found, direct, lost>>

(* No node has the address or the name. *)
Start(o, a, at) ==
  /\ open[o].at = "idle" /\ \A n \in vNodes : addr[n] # a
  /\ open' = [open EXCEPT ![o] = [at |-> at, to |-> a, node |-> Null, seen |-> 0]]
  /\ UNCHANGED <<place, ref, flags, addr, grant, sock, sCopy, msg, mCopy, found, direct, lost>>

(* An opener takes a grant of the semaphore, for which it may have waited. *)
Wait(o) == sem > 0 /\ sem' = sem - 1 /\ held' = held \cup {o}

(* ThreadOpenConnections and ThreadOpenAddedConnections with an address. *)
Open(o, a) == Wait(o) /\ Start(o, a, "find")

(* ProcessOneShot, and ThreadOpenAddedConnections behind a name proxy: a   *)
(* name, for which ConnectNode does not look again.                        *)
OpenName(o, a) == Wait(o) /\ Start(o, a, "dial")

(* -connect and addnode onetry: a name, and NULL for the grant. *)
OpenDirect(o, a) == Start(o, a, "dial") /\ UNCHANGED <<sem, held>>

(* ConnectNode looks for an existing connection and keeps a bare pointer. *)
Find(o) ==
  /\ open[o].at = "find"
  /\ \/ \E n \in vNodes :
          /\ addr[n] = open[o].to
          /\ open' = [open EXCEPT ![o].at = "found", ![o].node = n]
          /\ found' = found \cup {n}
     \/ /\ \A n \in vNodes : addr[n] # open[o].to
        /\ Goes(o, "dial") /\ UNCHANGED found
  /\ UNCHANGED <<place, ref, flags, addr, grant, sem, sock, sCopy, msg, mCopy, held, direct, lost>>

(* AddRef on the node that was found, outside cs_vNodes: nRefCount++ reads *)
(* and writes, and another thread's update may come between. A write to a  *)
(* node that was deleted meanwhile lands in its old memory.                *)
Load(o) ==
  /\ open[o].at = "found"
  /\ open' = [open EXCEPT ![o].at = "bump", ![o].seen = ref[open[o].node]]
  /\ UNCHANGED <<place, ref, flags, addr, grant, sem, sock, sCopy, msg, mCopy, held, found, direct, lost>>

Store(o) ==
  /\ open[o].at = "bump"
  /\ ref' = [ref EXCEPT ![open[o].node] = open[o].seen + 1]
  /\ open' = [open EXCEPT ![o].at = "move", ![o].seen = 0]
  /\ UNCHANGED <<place, flags, addr, grant, sem, sock, sCopy, msg, mCopy, held, found, direct, lost>>

(* The connection is made and the new node enters vNodes, or it fails. *)
Dial(o) ==
  /\ open[o].at = "dial"
  /\ \/ \E n \in Node :
          /\ Fresh(n) /\ Added(n, open[o].to, {}, o \notin held)
          /\ open' = [open EXCEPT ![o].at = "move", ![o].node = n]
          /\ UNCHANGED <<sem, held>>
     \/ GiveUp(o)
  /\ UNCHANGED <<sock, sCopy, msg, mCopy>>

(* Faulty variant: the grant the node had is overwritten. *)
FaultyMoveTo(o) ==
  sem' = sem /\ grant' = grant \cup {open[o].node} /\ held' = held \ {o}

(* CSemaphoreGrant::MoveTo: the node's own grant, if any, is released. *)
MoveTo(o) ==
  sem' = Posted({open[o].node}) /\ grant' = grant \cup {open[o].node} /\ held' = held \ {o}

(* OpenNetworkConnection hands over the grant it was given, if any. *)
Move(o) ==
  /\ open[o].at = "move" /\ Goes(o, "mark")
  /\ IF o \in held THEN MoveTo(o) ELSE UNCHANGED <<sem, grant, held>>
  /\ UNCHANGED <<place, ref, flags, addr, sock, sCopy, msg, mCopy, found, direct, lost>>

(* fNetworkNode is set, and the opener forgets the node. *)
Mark(o) ==
  /\ open[o].at = "mark"
  /\ flags' = [flags EXCEPT ![open[o].node] = @ \cup {"fNetworkNode"}]
  /\ open' = [open EXCEPT ![o] = Idle]
  /\ UNCHANGED <<place, ref, addr, grant, sem, sock, sCopy, msg, mCopy, held, found, direct, lost>>

-----------------------------------------------------------------------------
SocketThread ==
  Disconnect \/ Delete \/ Accept \/ SocketCopy \/ Service \/ SocketRelease

MessageThread == MessageCopy \/ Process \/ MessageRelease

OpenerThread(o) ==
  Find(o) \/ Load(o) \/ Store(o) \/ Dial(o) \/ Move(o) \/ Mark(o)

NodesNext ==
  \/ SocketThread \/ MessageThread
  \/ \E o \in Opener :
       \/ OpenerThread(o)
       \/ \E a \in Targets[o] : Open(o, a)
       \/ \E a \in Names[o] : OpenName(o, a)
       \/ \E a \in Direct[o] : OpenDirect(o, a)

NodesSpec == NodesInit /\ [][NodesNext]_nodeVars

(* Every thread keeps running; whether an opener dials again is its choice. *)
FairSpec ==
  /\ NodesSpec /\ WF_nodeVars(SocketThread) /\ WF_nodeVars(MessageThread)
  /\ \A o \in Opener : WF_nodeVars(OpenerThread(o))

-----------------------------------------------------------------------------
(* Properties.                                                              *)

(* The number of copies of vNodes that a node is in. *)
Copies(n) == (IF n \in sCopy THEN 1 ELSE 0) + (IF n \in mCopy THEN 1 ELSE 0)

(* A node's count covers the threads that work on it and its place in       *)
(* vNodes, whatever the order of copies, releases and disconnections.       *)
RefCovers(n) == ref[n] >= Copies(n) + (IF n \in vNodes THEN 1 ELSE 0)

(* No thread works on the node after it was deleted: `wait until threads    *)
(* are done using it' (net.cpp:726).                                        *)
UsersSafe(n) ==
  n \in sCopy \cup mCopy \cup {open[o].node : o \in Opener} => place[n] # "free"

(* Every grant of the semaphore is free, with a node, or with an opener that *)
(* has not handed it over: none is doubled, and none is lost unless it was   *)
(* handed to a node after its deletion.                                      *)
GrantsConserved ==
  sem + Cardinality(grant) + Cardinality(held) + lost = MaxOutbound

(* At most MaxInbound nodes that this program accepted are connected         *)
(* (ThreadSocketHandler), and of those it dialled with a grant at most       *)
(* MaxOutbound less the grants that semOutbound still has to give.  The      *)
(* nodes of -connect and addnode onetry come on top.                         *)
ConnectionLimits ==
  /\ Cardinality({n \in vNodes \ direct : "fInbound" \notin flags[n]}) <= MaxOutbound - sem - lost
  /\ Cardinality({n \in vNodes : "fInbound" \in flags[n]}) <= MaxInbound

(* ThreadSocketHandler deletes no node that it, ThreadMessageHandler or the *)
(* OpenNetworkConnection that made it works on: nRefCount covers every use, *)
(* in whatever order the threads copy, release and disconnect. The nodes    *)
(* that ConnectNode found to exist are left out: FindNode takes no          *)
(* reference, and AddRef comes after the lock was released. No grant of     *)
(* semOutbound is lost or doubled on its way from an opener to a node       *)
(* (CSemaphoreGrant::MoveTo), again but for nodes that were found, and the  *)
(* connections that were accepted or dialled with a grant stay within the   *)
(* limits, whatever is dialled without one.                                 *)
NodesSafe ==
  /\ NodesTypeOK /\ GrantsConserved /\ ConnectionLimits
  /\ \A n \in Node \ found :
       RefCovers(n) /\ UsersSafe(n) /\ (n \in grant => place[n] # "free")

(* `release outbound grant (if any)' (net.cpp:708): a node that was          *)
(* disconnected does not keep a slot for outbound connections.              *)
GrantReleased == grant \subseteq vNodes

(* `hold in disconnected pool until all refs are released' (net.cpp:714):   *)
(* a disconnected node is deleted when the threads are done with it.        *)
DisconnectedDeleted ==
  \A n \in Node : place[n] = "vNodesDisconnected" ~> place[n] = "free"
=============================================================================
