------------------------------ MODULE MCRelay -------------------------------
(***************************************************************************)
(* TxRelay, BlockDownload and Codecs on small instances.  They share       *)
(* nothing here: a behaviour is one of a single scene, and the variables   *)
(* of the others keep an initial state.                                    *)
(***************************************************************************)
EXTENDS TxRelay, Sequences, TLC

CONSTANTS
    Scenes, None,
    Seeds, Alphabet, MaxLen     \* of Codecs

VARIABLES
    scene,
    status, versioned, disconnect, shouldBan, preferred, syncing, bestKnown, lastUnknown,
    lastCommon, flight, nPreferred, nSync, reading, index, data, tip,
    codec, v

downloadVars ==
    <<status, versioned, disconnect, shouldBan, preferred, syncing, bestKnown, lastUnknown,
      lastCommon, flight, nPreferred, nSync, reading, index, data, tip>>
codecVars == <<codec, v>>

-----------------------------------------------------------------------------
(* Relay: transactions a, b and c in a chain, x, which is invalid and      *)
(* spends a and b, and l of the node's own.                                 *)

Spends == "a" :> {} @@ "b" :> {"a"} @@ "c" :> {"b"} @@ "x" :> {"a", "b"} @@ "l" :> {}
Offers == "p1" :> {"a", "b", "c"} @@ "p2" :> {"c", "x", "l"}

-----------------------------------------------------------------------------
(* Download: a chain g b1 b2, with a fork c1 off g ("flight"), or a block   *)
(* x1 known to be invalid ("failed").                                       *)

ParentOf == "b1" :> "g" @@ "b2" :> "b1" @@ "c1" :> "g" @@ "x1" :> "g"
HeightOf == "g" :> 0 @@ "b1" :> 1 @@ "b2" :> 2 @@ "c1" :> 1 @@ "x1" :> 1
ChainOf ==
    "g" :> {"g"} @@ "b1" :> {"g", "b1"} @@ "b2" :> {"g", "b1", "b2"} @@ "c1" :> {"g", "c1"}
    @@ "x1" :> {"g", "x1"}
In(f, S) == [b \in S |-> f[b]]

FlightParent == In(ParentOf, {"b1", "b2", "c1"})
FlightHeight == In(HeightOf, {"g", "b1", "b2", "c1"})
FlightChain == In(ChainOf, {"g", "b1", "b2", "c1"})
FlightHas == "p" :> {"b1", "b2"} @@ "q" :> {"c1", "b2"}

Flight == INSTANCE BlockDownload WITH
    Peer <- {"p", "q"}, Block <- {"g", "b1", "b2", "c1"}, Genesis <- "g",
    Parent <- FlightParent, Height <- FlightHeight, Chain <- FlightChain, Failed <- {}, Connected <- {"p"},
    Preferred <- {"p", "q"}, Has <- FlightHas, Client <- {},
    Prompt <- {}, Window <- 1, MaxInTransit <- 1

FailingParent == In(ParentOf, {"b1", "b2", "x1"})
FailingHeight == In(HeightOf, {"g", "b1", "b2", "x1"})
FailingChain == In(ChainOf, {"g", "b1", "b2", "x1"})
FailingHas == "p" :> {"b1", "b2", "x1"} @@ "q" :> {"b2"}

Failing == INSTANCE BlockDownload WITH
    Peer <- {"p", "q"}, Block <- {"g", "b1", "b2", "x1"}, Genesis <- "g",
    Parent <- FailingParent, Height <- FailingHeight, Chain <- FailingChain, Failed <- {"x1"}, Connected <- {"p"},
    Preferred <- {"p", "q"}, Has <- FailingHas, Client <- {},
    Prompt <- {}, Window <- 1, MaxInTransit <- 2

ASSUME
    /\ Flight!DownloadAssumption /\ Failing!DownloadAssumption

-----------------------------------------------------------------------------
(* Codecs: bytes have 16 values; strings of up to three bytes, and some     *)
(* long ones around the lengths at which another form begins.               *)

LongStrings == {[i \in 1 .. n |-> 3] : n \in {2, 15, 16, 255, 256}}
Integer == UNION {[1 .. n -> {0, 1, 8}] : n \in 0 .. 2}
KeyCurve == {<<1, 2>>, <<1, 3>>, <<3, 1>>, <<3, 6>>}

T == INSTANCE Codecs WITH       \* the templates, for the constants of B
    Byte <- 16, nMaxNumSize <- 2, OP_PUSHDATA1 <- 3, MaxSmall <- 2, MAX_SIZE <- 4000,
    Group <- 8, COIN <- 1000, Decimals <- 3, HashSize <- 2, Curve <- KeyCurve, MaxSig <- 10,
    Seeds <- <<>>, Alphabet <- <<>>, MaxLen <- <<>>

CodecSeeds ==
    "size" :> ((0 .. 300) \cup (3990 .. 4100) \cup (65530 .. 65540)) @@ "number" :> (-300 .. 300)
    @@ "amount" :> ({k * 10^e : k \in 0 .. 120, e \in 0 .. 6} \cup {10^9, 2 * 10^9, 11 * 10^8})
    @@ "compressed" :> {x \in 0 .. 2000 : (x + 9) % 10 <= 5 \/ x < 20}
    @@ "money" :> ((-1100 .. 2000) \cup {12300, 99999})
    @@ "signature" :>
        {<<T!Tag, Len(r) + Len(s) + 4, T!IntTag, Len(r)>> \o r
            \o <<T!IntTag, Len(s)>> \o s \o <<1>> :
            r \in Integer, s \in Integer}
    @@ "output" :>
        ({T!KeyIDScript(h) : h \in [1 .. 2 -> {0, 3}]}
         \cup {T!ScriptIDScript(h) : h \in [1 .. 2 -> {0, 3}]}
         \cup {T!PubKeyScript(<<k, x>>) : k \in {2, 3}, x \in 0 .. 3}
         \cup {T!PubKeyScript(<<4, x, y>>) : x \in {1, 3}, y \in {2, 3, 6}})
    @@ "data" :> (LongStrings \cup {<<>>})
    @@ "script" :>
        ({T!PushData(d) : d \in LongStrings}
         \cup {<<>>, <<3, 2, 1, 1>>, <<T!OP_PUSHDATA2, 3, 0, 1, 2, 3>>,
               <<T!OP_PUSHDATA4, 1, 0, 0, 0, 6>>})
    @@ [c \in {"bytes", "raw", "text", "cash"} |-> {<<>>}]
CodecAlphabet ==
    [c \in {"bytes", "data", "script"} |-> 0 .. 15] @@ "raw" :> {0, 1, 57, 58, 255}
    @@ "text" :> {0, 1, 57, -1, -2} @@ "cash" :> {0, 7, 10, -1, 11}
CodecMaxLen ==
    [c \in {"bytes", "script"} |-> 3] @@ "data" :> 2 @@ "raw" :> 4 @@ "text" :> 4 @@ "cash" :> 5

B == INSTANCE Codecs WITH
    Byte <- 16, nMaxNumSize <- 2, OP_PUSHDATA1 <- 3, MaxSmall <- 2, MAX_SIZE <- 4000,
    Group <- 8, COIN <- 1000, Decimals <- 3, HashSize <- 2, Curve <- KeyCurve, MaxSig <- 10

ASSUME B!CodecAssumption

-----------------------------------------------------------------------------

SceneInit ==
    /\ scene \in Scenes
    /\ RelayInit
    /\ IF scene = "failed" THEN Failing!Init ELSE Flight!Init
    /\ IF scene = "codec" THEN B!Init ELSE codec = "size" /\ v = 0

SceneNext ==
    /\ UNCHANGED scene
    /\ \/ scene = "relay" /\ RelayNext /\ UNCHANGED <<downloadVars, codecVars>>
       \/ /\ \/ scene = "flight" /\ Flight!Next
             \/ scene = "failed" /\ Failing!Next
          /\ UNCHANGED <<relayVars, codecVars>>
       \/ scene = "codec" /\ B!Next /\ UNCHANGED <<relayVars, downloadVars>>

SceneSpec == SceneInit /\ [][SceneNext]_<<scene, relayVars, downloadVars, codecVars>>

-----------------------------------------------------------------------------
(* The properties, each of the module it comes from.                        *)

(* mapBlocksInFlight and the lists of the nodes agree (MarkBlockAsInFlight,  *)
(* MarkBlockAsReceived, FinalizeNode), nSyncStarted counts the nodes with    *)
(* fSyncStarted, and pindexLastCommonBlock is a block whose chain is stored, *)
(* whoever disconnects, stalls or changes branch; FindNextBlocksToDownload  *)
(* asks within the window, for what nobody was asked for and the peer has.  *)
DownloadExact ==
    /\ [](/\ scene = "flight" =>
              Flight!TypeOK /\ Flight!FlightExact /\ Flight!SyncExact /\ Flight!LastCommonIsFull
          /\ scene = "failed" =>
              Failing!TypeOK /\ Failing!FlightExact /\ Failing!SyncExact /\ Failing!LastCommonIsFull)
    /\ [][scene = "failed" => Failing!RequestStep]_downloadVars

(* Each conversion and its inverse: what is written is read back, what is   *)
(* read has one form where the code claims so, and the rest is refused.     *)
CodecsExact ==
    scene = "codec" =>
        /\ B!SizesOneToOne /\ B!AmountsOneToOne /\ B!NumbersMinimal /\ B!PushesMinimal
        /\ B!ScriptsRestored /\ B!SignaturesCanonical /\ B!Base58RoundTrip /\ B!MoneyRoundTrip
=============================================================================
