--------------------------- MODULE BlockDownload ---------------------------
(***************************************************************************)
(* Downloading blocks from several peers (main.cpp): the state kept for    *)
(* each node, the blocks in flight, the choice of what to ask whom, and    *)
(* the time-outs that drop a peer.                                         *)
(*                                                                         *)
(* The message handler thread runs the handlers and SendMessages one after *)
(* the other under cs_main; the socket thread finalises nodes.  The        *)
(* handler of "version" does not take cs_main, so its update of            *)
(* nPreferredDownload is a read and a later write.  Time is the choice     *)
(* whether a time-out has expired.  Work is height; Failed are headers     *)
(* already known to be invalid.                                            *)
(***************************************************************************)
EXTENDS Integers, Sequences, FiniteSets, SequencesExt

CONSTANTS
    Peer, Block, Genesis, None,
    Parent, Height, Chain,
    Failed,         \* blocks found invalid earlier (BLOCK_FAILED_MASK)
    Connected,      \* peers that are connected to begin with
    Preferred,      \* outbound or whitelisted, no one-shot, no client
    Has,            \* the blocks a peer announces and sends
    Client,         \* peers without NODE_NETWORK, and one-shot ones
    Prompt,         \* honest peers that answer before any time-out
    Window,         \* BLOCK_DOWNLOAD_WINDOW
    MaxInTransit    \* MAX_BLOCKS_IN_TRANSIT_PER_PEER

DownloadAssumption ==
    /\ Genesis \in Block /\ None \notin Block \cup Peer
    /\ Height \in [Block -> Nat] /\ Height[Genesis] = 0
    /\ Parent \in [Block \ {Genesis} -> Block]
    /\ Chain \in [Block -> SUBSET Block] /\ Chain[Genesis] = {Genesis}
    /\ \A b \in Block \ {Genesis} :
        /\ Chain[b] = Chain[Parent[b]] \cup {b}
        /\ Height[b] = Height[Parent[b]] + 1
    /\ \A b \in Failed : b # Genesis /\ Parent[b] = Genesis
    /\ Connected \cup Preferred \cup Client \cup Prompt \subseteq Peer
    /\ Has \in [Peer -> SUBSET Block]
    /\ Window \in Nat \ {0} /\ MaxInTransit \in Nat \ {0}

VARIABLES
    status,         \* of a NodeId: "new", "live" (in mapNodeState) or "gone"
    versioned,      \* nVersion # 0
    disconnect,     \* fDisconnect
    shouldBan,      \* fShouldBan
    preferred,      \* fPreferredDownload
    syncing,        \* fSyncStarted
    bestKnown,      \* pindexBestKnownBlock
    lastUnknown,    \* hashLastUnknownBlock
    lastCommon,     \* pindexLastCommonBlock
    flight,         \* the blocks in flight, see Received and MarkInFlight
    nPreferred,     \* nPreferredDownload
    nSync,          \* nSyncStarted
    reading,        \* "version" is being handled: the peer and the count read
    index,          \* mapBlockIndex
    data,           \* blocks with BLOCK_HAVE_DATA
    tip             \* chainActive.Tip()

node == <<status, versioned, disconnect, shouldBan>>
sync == <<preferred, syncing, nPreferred, nSync, reading>>
avail == <<bestKnown, lastUnknown, lastCommon>>
store == <<index, data, tip>>
vars == <<node, sync, avail, flight, store>>

Init ==
    /\ status = [p \in Peer |-> IF p \in Connected THEN "live" ELSE "new"]
    /\ versioned = Connected
    /\ disconnect = {} /\ shouldBan = {} /\ syncing = {}
    /\ preferred = Connected \cap Preferred
    /\ bestKnown = [p \in Peer |-> None]
    /\ lastUnknown = [p \in Peer |-> None]
    /\ lastCommon = [p \in Peer |-> None]
    /\ flight = [of |-> [p \in Peer |-> <<>>], n |-> [p \in Peer |-> 0],
                 map |-> <<>>, validated |-> 0, stalling |-> {}]
    /\ nPreferred = Cardinality(Connected \cap Preferred)
    /\ nSync = 0
    /\ reading = <<>>
    /\ index = {Genesis} \cup Failed /\ data = {Genesis} \cup Failed /\ tip = Genesis

-----------------------------------------------------------------------------
(* Blocks in flight.  flight.of[p] is vBlocksInFlight of p, with whether the *)
(* header was validated; n its nBlocksInFlight; map is mapBlocksInFlight;    *)
(* validated is nQueuedValidatedHeaders; stalling are the peers with a       *)
(* nStallingSince.                                                           *)

FaultyReceived(f, h) ==     \* Faulty variant: nBlocksInFlight is not lowered.
    IF h \notin DOMAIN f.map THEN f
    ELSE [f EXCEPT !.of[f.map[h]] = SelectSeq(@, LAMBDA e : e.hash # h),
                   !.map = [x \in DOMAIN f.map \ {h} |-> f.map[x]]]

Received(f, h) ==
    IF h \notin DOMAIN f.map THEN f
    ELSE LET p == f.map[h]
             e == CHOOSE q \in ToSet(f.of[p]) : q.hash = h
         IN  [f EXCEPT !.of[p] = Remove(@, e),
                       !.n[p] = @ - 1,
                       !.map = [x \in DOMAIN f.map \ {h} |-> f.map[x]],
                       !.validated = @ - (IF e.validated THEN 1 ELSE 0),
                       !.stalling = @ \ {p}]

MarkInFlight(f, p, h, v) ==
    LET r == Received(f, h)
    IN  [r EXCEPT !.of[p] = Append(@, [hash |-> h, validated |-> v]),
                  !.n[p] = @ + 1,
                  !.map = [x \in DOMAIN r.map \cup {h} |-> IF x = h THEN p ELSE r.map[x]],
                  !.validated = @ + (IF v THEN 1 ELSE 0)]

-----------------------------------------------------------------------------
(* What a peer has.                                                         *)

\* A block announced by p becomes its best one if it has as much work.
Better(best, b) == IF best = None THEN b ELSE IF Height[b] >= Height[best] THEN b ELSE best

\* ProcessBlockAvailability, with the headers idx known.
BestOf(p, idx) == IF lastUnknown[p] \in idx THEN Better(bestKnown[p], lastUnknown[p]) ELSE bestKnown[p]
UnknownOf(p, idx) == IF lastUnknown[p] \in idx THEN None ELSE lastUnknown[p]

\* UpdateBlockAvailability.
UpdateAvailability(p, b, idx) ==
    /\ bestKnown' = [bestKnown EXCEPT ![p] = IF b \in idx THEN Better(BestOf(p, idx), b) ELSE BestOf(p, idx)]
    /\ lastUnknown' = [lastUnknown EXCEPT ![p] = IF b \in idx THEN UnknownOf(p, idx) ELSE b]
    /\ UNCHANGED lastCommon

Ancestor(b, h) == CHOOSE c \in Chain[b] : Height[c] = h
LastCommonAncestor(a, b) ==
    CHOOSE c \in Chain[a] \cap Chain[b] : \A d \in Chain[a] \cap Chain[b] : Height[d] <= Height[c]

\* nChainTx # 0.
Linked(b) == Chain[b] \subseteq data

\* The loop of FindNextBlocksToDownload over the blocks path, for peer p: what it
\* has found so far, and whether it has returned.
Scan(p, path, from, windowEnd, count) ==
    LET Step(r, b) ==
            IF r.done THEN r
            ELSE IF b \in Failed THEN [r EXCEPT !.done = TRUE]
            ELSE IF b \in data THEN IF Linked(b) THEN [r EXCEPT !.common = b] ELSE r
            ELSE IF b \in DOMAIN flight.map
                 THEN IF r.waitingfor = None THEN [r EXCEPT !.waitingfor = flight.map[b]] ELSE r
            ELSE IF Height[b] > windowEnd
                 THEN [r EXCEPT !.done = TRUE,
                                !.staller = IF r.blocks = <<>> /\ r.waitingfor # p
                                            THEN r.waitingfor ELSE None]
            ELSE [r EXCEPT !.blocks = Append(@, b), !.done = Len(r.blocks) + 1 = count]
    IN  FoldLeft(Step, [common |-> from, blocks |-> <<>>, waitingfor |-> None,
                        staller |-> None, done |-> FALSE], path)

\* FindNextBlocksToDownload: the new pindexLastCommonBlock, the blocks and the
\* staller.
FaultyWindowEnd(h) == h + Window + 1    \* Faulty variant: off by one.
WindowEnd(h) == h + Window

FromCommon(p, best) ==
    LastCommonAncestor(
        IF lastCommon[p] # None THEN lastCommon[p]
        ELSE Ancestor(tip, IF Height[best] < Height[tip] THEN Height[best] ELSE Height[tip]),
        best)

FindNext(p, count) ==
    LET best == BestOf(p, index)
        none(c) == [common |-> c, blocks |-> <<>>, staller |-> None]
    IN  IF best = None THEN none(lastCommon[p])
        ELSE IF Height[best] < Height[tip] THEN none(lastCommon[p])
        ELSE LET from == FromCommon(p, best)
                 end == WindowEnd(Height[from])
                 max == IF Height[best] < end + 1 THEN Height[best] ELSE end + 1
             IN  IF from = best THEN none(from)
                 ELSE Scan(p, [i \in 1..(max - Height[from]) |-> Ancestor(best, Height[from] + i)],
                           from, end, count)

-----------------------------------------------------------------------------
(* Handlers.                                                                *)

Talking(p) == /\ status[p] = "live" /\ p \notin disconnect
              /\ reading = <<>>     \* the message handler is one thread

\* A connection: InitializeNode.
InitializeNode(p) ==
    /\ status[p] = "new"
    /\ status' = [status EXCEPT ![p] = "live"]
    /\ UNCHANGED <<versioned, disconnect, shouldBan, sync, avail, flight, store>>

\* "version" up to UpdatePreferredDownload's read of the count.
VersionReads(p) ==
    /\ Talking(p) /\ p \notin versioned
    /\ reading' = <<p, nPreferred>>
    /\ UNCHANGED <<node, preferred, syncing, nPreferred, nSync, avail, flight, store>>

\* Its write.
VersionWrites ==
    /\ reading # <<>>
    /\ LET p == reading[1]
       IN  /\ preferred' = preferred \cup ({p} \cap Preferred)
           /\ nPreferred' = reading[2] + (IF p \in Preferred THEN 1 ELSE 0)
           /\ versioned' = versioned \cup {p}
    /\ reading' = <<>>
    /\ UNCHANGED <<status, disconnect, shouldBan, syncing, nSync, avail, flight, store>>

\* "inv" for a block.  recent: the tip is close to today.
Inv(p, b, recent) ==
    /\ Talking(p) /\ p \in versioned
    /\ UpdateAvailability(p, b, index)
    /\ flight' = IF b \notin index /\ b \notin DOMAIN flight.map /\ recent /\ flight.n[p] < MaxInTransit
                 THEN MarkInFlight(flight, p, b, FALSE) ELSE flight
    /\ UNCHANGED <<node, sync, store>>

\* "headers" ending in b, linked to what we have by the locator we sent.
Headers(p, b) ==
    /\ Talking(p) /\ p \in versioned
    /\ Chain[b] \cap Failed = {}
    /\ index' = index \cup Chain[b]
    /\ UpdateAvailability(p, b, index')
    /\ UNCHANGED <<node, sync, flight, data, tip>>

\* ActivateBestChain: a linked block with more work than the tip.
BestTip(d) ==
    LET linked == {b \in d : Chain[b] \subseteq d \ Failed}
        top == {b \in linked : \A c \in linked : Height[c] <= Height[b]}
    IN  IF tip \in top THEN {tip} ELSE top

\* "block": ProcessNewBlock.  A block that fails CheckBlock is forgotten and the
\* sender gets a ban score; one whose parent is unknown or failed is not stored.
Block_(p, b, ok) ==
    /\ Talking(p) /\ p \in versioned
    /\ p \in Prompt => ok
    /\ flight' = Received(flight, b)
    /\ IF ok /\ b # Genesis /\ Parent[b] \in index \ Failed /\ b \notin Failed
       THEN /\ index' = index \cup {b}
            /\ data' = data \cup {b}
            /\ tip' \in BestTip(data')
       ELSE UNCHANGED store
    /\ shouldBan' = IF ok THEN shouldBan ELSE shouldBan \cup {p}
    /\ UNCHANGED <<status, versioned, disconnect, sync, avail>>

\* The requests of SendMessages.
Ask(p) ==
    \E found \in {FindNext(p, MaxInTransit - flight.n[p])} :
    \E asked \in {FoldLeft(LAMBDA f, b : MarkInFlight(f, p, b, TRUE), flight, found.blocks)} :
        /\ bestKnown' = [bestKnown EXCEPT ![p] = BestOf(p, index)]
        /\ lastUnknown' = [lastUnknown EXCEPT ![p] = UnknownOf(p, index)]
        /\ lastCommon' = [lastCommon EXCEPT ![p] = found.common]
        /\ flight' = IF asked.n[p] = 0 /\ found.staller # None
                     THEN [asked EXCEPT !.stalling = @ \cup {found.staller}]
                     ELSE asked

\* SendMessages, to a peer that is neither whitelisted nor local (those are not
\* dropped for a ban score).  late: a time-out has expired; recent: the best header is less
\* than a day old.
SendMessages(p, late, recent) ==
    LET fetch == p \in preferred \/ (nPreferred = 0 /\ p \notin Client)
        start == p \notin syncing /\ p \notin Client /\ fetch /\ (nSync = 0 \/ recent)
        drop == \/ p \in shouldBan
                \/ late /\ (p \in flight.stalling \/ flight.of[p] # <<>>)
        ask == ~drop /\ p \notin Client /\ fetch /\ flight.n[p] < MaxInTransit
    IN  /\ Talking(p) /\ p \in versioned
        /\ late => p \notin Prompt
        /\ disconnect' = IF drop THEN disconnect \cup {p} ELSE disconnect
        /\ shouldBan' = shouldBan \ {p}
        /\ syncing' = IF start THEN syncing \cup {p} ELSE syncing
        /\ nSync' = IF start THEN nSync + 1 ELSE nSync
        /\ IF ask THEN Ask(p) ELSE UNCHANGED <<avail, flight>>
        /\ UNCHANGED <<status, versioned, preferred, nPreferred, reading, store>>

\* The connection breaks.
Close(p) ==
    /\ status[p] = "live" /\ p \notin disconnect /\ p \notin Prompt
    /\ disconnect' = disconnect \cup {p}
    /\ UNCHANGED <<status, versioned, shouldBan, sync, avail, flight, store>>

\* FinalizeNode, from the socket thread, once no one holds the node.
FaultyFinalized(f, p) ==    \* Faulty variant: mapBlocksInFlight keeps its blocks.
    [f EXCEPT !.of[p] = <<>>, !.n[p] = 0, !.stalling = @ \ {p}]

Finalized(f, p) ==
    [f EXCEPT !.of[p] = <<>>, !.n[p] = 0, !.stalling = @ \ {p},
              !.map = [x \in DOMAIN f.map \ {e.hash : e \in ToSet(f.of[p])} |-> f.map[x]]]

SyncLeft(p) == IF p \in syncing THEN nSync - 1 ELSE nSync

FinalizeNode(p) ==
    /\ status[p] = "live" /\ p \in disconnect
    /\ reading # <<>> => reading[1] # p
    /\ status' = [status EXCEPT ![p] = "gone"]
    /\ nSync' = SyncLeft(p)
    /\ syncing' = syncing \ {p}
    /\ nPreferred' = IF p \in preferred THEN nPreferred - 1 ELSE nPreferred
    /\ preferred' = preferred \ {p}
    /\ bestKnown' = [bestKnown EXCEPT ![p] = None]
    /\ lastUnknown' = [lastUnknown EXCEPT ![p] = None]
    /\ lastCommon' = [lastCommon EXCEPT ![p] = None]
    /\ flight' = Finalized(flight, p)
    /\ versioned' = versioned \ {p}
    /\ disconnect' = disconnect \ {p}
    /\ shouldBan' = shouldBan \ {p}
    /\ UNCHANGED <<reading, store>>

-----------------------------------------------------------------------------
Next ==
    \/ \E p \in Peer :
        \/ InitializeNode(p) \/ VersionReads(p) \/ Close(p) \/ FinalizeNode(p)
        \/ \E b \in Has[p] : \/ \E recent \in BOOLEAN : Inv(p, b, recent)
                             \/ Headers(p, b)
                             \/ \E ok \in BOOLEAN : Block_(p, b, ok)
        \/ \E late, recent \in BOOLEAN : SendMessages(p, late, recent)
    \/ VersionWrites

Spec == Init /\ [][Next]_vars

Asked(p) == {e.hash : e \in ToSet(flight.of[p])}
Newest(p) == {b \in Has[p] : \A c \in Has[p] : Height[c] <= Height[b]}

\* The message handler comes round to every peer, clocks run, the socket thread
\* deletes disconnected nodes, and prompt peers announce their newest block and
\* answer requests.
Fairness ==
    /\ \A p \in Peer \ Prompt : WF_vars(SendMessages(p, TRUE, FALSE)) /\ WF_vars(FinalizeNode(p))
    /\ \A p \in Prompt :
        /\ WF_vars(SendMessages(p, FALSE, FALSE))
        /\ WF_vars(\E b \in Newest(p) : Headers(p, b))
        /\ WF_vars(\E b \in Asked(p) \cap Has[p] : Block_(p, b, TRUE))

FairSpec == Spec /\ Fairness

-----------------------------------------------------------------------------
(* Properties.                                                              *)

Live == {p \in Peer : status[p] = "live"}

\* Types of the variables.
TypeOK ==
    /\ status \in [Peer -> {"new", "live", "gone"}]
    /\ versioned \cup disconnect \cup shouldBan \cup preferred \cup syncing \subseteq Peer
    /\ bestKnown \in [Peer -> Block \cup {None}]
    /\ lastUnknown \in [Peer -> Block \cup {None}]
    /\ lastCommon \in [Peer -> Block \cup {None}]
    /\ \A p \in Peer : \A e \in ToSet(flight.of[p]) : e.hash \in Block /\ e.validated \in BOOLEAN
    /\ flight.n \in [Peer -> Nat]
    /\ DOMAIN flight.map \subseteq Block /\ ToSet(flight.map) \subseteq Peer
    /\ flight.validated \in Int /\ flight.stalling \subseteq Peer
    /\ nPreferred \in Int /\ nSync \in Int
    /\ data \subseteq index /\ index \subseteq Block /\ tip \in data

\* mapBlocksInFlight and the lists of the nodes are two views of one set: a block
\* is in flight from one live node at most, its iterator is valid, and
\* nBlocksInFlight is the length of the list.  MarkBlockAsReceived and the stall
\* detection dereference State(...) of what they find there.
FlightExact ==
    /\ \A p \in Peer : Len(flight.of[p]) = flight.n[p]
    /\ \A p \in Peer : flight.of[p] # <<>> => p \in Live
    /\ \A p \in Peer, h \in Block :
        (h \in DOMAIN flight.map /\ flight.map[h] = p)
        <=> \E i \in DOMAIN flight.of[p] : flight.of[p][i].hash = h
    /\ \A p \in Peer : \A i, j \in DOMAIN flight.of[p] :
        flight.of[p][i].hash = flight.of[p][j].hash => i = j
    /\ flight.stalling \subseteq Live

\* "Number of nodes with fSyncStarted."
SyncExact == nSync = Cardinality(syncing)

\* "Number of preferable block download peers."
PreferredExact == nPreferred = Cardinality(preferred)

\* "Number of blocks in flight with validated headers."
ValidatedExact ==
    flight.validated = Cardinality({<<p, i>> \in Peer \X (1..MaxInTransit) :
                                      i \in DOMAIN flight.of[p] /\ flight.of[p][i].validated})

\* "The last full block we both have": an ancestor of what the peer has
\* announced, with all its own ancestors stored.
LastCommonIsFull == \A p \in Live : lastCommon[p] # None => Chain[lastCommon[p]] \subseteq data

\* "Never fetch further than the best block we know the peer has, or more than
\* BLOCK_DOWNLOAD_WINDOW + 1 beyond the last linked block we have in common": a
\* request is for a block of the peer's best chain, within the window of the
\* common block, that we lack and no one was asked for; and no peer is asked for
\* more than MAX_BLOCKS_IN_TRANSIT_PER_PEER blocks.
RequestStep ==
    \A p \in Peer : \A e \in ToSet(flight'.of[p]) \ ToSet(flight.of[p]) :
        /\ e.hash \notin data \cup DOMAIN flight.map
        /\ flight'.n[p] <= MaxInTransit
        /\ e.validated =>
            /\ e.hash \in Chain[bestKnown'[p]] \ Failed
            /\ \E c \in Chain[e.hash] : Linked(c) /\ Height[e.hash] <= Height[c] + Window
RequestsInWindow == [][RequestStep]_vars

\* Every valid block a prompt peer has is stored in the end, whatever other peers
\* were asked for and did not send.
Downloads ==
    <>[](\A p \in Prompt : \A b \in Has[p] :
            status[p] = "live" /\ Chain[b] \cap Failed = {} => b \in data)
=============================================================================
