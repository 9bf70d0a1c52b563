----------------------------- MODULE BlockFiles -----------------------------
(***************************************************************************)
(* The block and undo files (blk?????.dat, rev?????.dat), what the block   *)
(* index and CBlockFileInfo say of them, the flush that makes both         *)
(* durable, and -reindex, which scans the files to build the index again.  *)
(*                                                                         *)
(* A file is a set of <<file, position, block>>.  A write destroys what it *)
(* overlaps; truncating destroys what lies behind.  Statistics of a file,  *)
(* preallocation and running out of disk space are left out; the mark that *)
(* FindMostWorkChain puts on the descendants of a failed block is in       *)
(* ChainState.  cs_main is held in every action.                           *)
(***************************************************************************)
EXTENDS Integers, Sequences, FiniteSets, FiniteSetsExt

CONSTANTS
    Block, Genesis, Parent,
    Size, UndoSize,         \* bytes of a block and of its undo data, headers included
    File, MAX_BLOCKFILE_SIZE,
    Unconnectable,          \* blocks ConnectBlock refuses
    Volatile                \* the kinds of file whose uncommitted writes a crash may lose

VARIABLES
    stored,         \* the content of the files, by kind
    cached,         \* the writes FileCommit has not made durable, by kind
    index,          \* mapBlockIndex
    pos,            \* nFile and nDataPos of a block with BLOCK_HAVE_DATA, or None; likewise
    undoPos,        \*   nUndoPos with BLOCK_HAVE_UNDO
    failed,         \* BLOCK_FAILED_MASK
    info,           \* vinfoBlockFile
    nLastBlockFile,
    fReindex,
    scan,           \* ThreadImport: the file and position it is at
    unknown,        \* mapBlocksUnknownParent
    queue,          \* blocks whose earlier encountered successors are to be processed
    disk,           \* the block tree database
    short           \* history: a reindex has left a size below the end of a block in the index

vars == <<stored, cached, index, pos, undoPos, failed, info, nLastBlockFile, fReindex, scan,
          unknown, queue, disk, short>>
fileVars == <<stored, cached>>
indexVars == <<index, pos, undoPos, failed, info, nLastBlockFile>>
scanVars == <<fReindex, scan, unknown, queue, short>>

None == <<-1, -1>>
FileKind == {"blk", "rev"}
NoInfo == [nSize |-> 0, nUndoSize |-> 0]

FilesAssumption ==
    /\ Genesis \in Block /\ Parent \in [Block -> Block]
    /\ Size \in [Block -> Nat \ {0}] /\ UndoSize \in [Block -> Nat \ {0}]
    /\ Volatile \subseteq FileKind /\ File = 0 .. Max(File)

TypeOK ==
    /\ \A k \in FileKind : cached[k] \subseteq stored[k]
    /\ \A b \in Block \ index : pos[b] = None /\ undoPos[b] = None
    /\ index # {} /\ ~fReindex => Genesis \in index
    /\ nLastBlockFile \in File /\ scan[1] \in File

Bytes(kind, b) == IF kind = "blk" THEN Size[b] ELSE UndoSize[b]

Overlap(kind, e, f) ==
    e[1] = f[1] /\ e[2] < f[2] + Bytes(kind, f[3]) /\ f[2] < e[2] + Bytes(kind, e[3])

\* An entry is written: WriteBlockToDisk, UndoWriteToDisk.
Written(kind, set, e) == {f \in set : ~Overlap(kind, e, f)} \cup {e}

ReadBlockFromDisk(b, p) == <<p[1], p[2], b>> \in stored["blk"]
UndoReadFromDisk(b, p) == <<p[1], p[2], b>> \in stored["rev"]

-----------------------------------------------------------------------------

\* AddBlock and the size of FindBlockPos, which at a known position adds to the
\* size instead of taking the end of the block.
Counted(b, f) == [info EXCEPT ![f].nSize = @ + Size[b]]

\* The first file from nLastBlockFile on with room for b.
Room(b) ==
    CHOOSE f \in File :
        /\ f >= nLastBlockFile /\ info[f].nSize + Size[b] < MAX_BLOCKFILE_SIZE
        /\ \A g \in nLastBlockFile .. f - 1 : info[g].nSize + Size[b] >= MAX_BLOCKFILE_SIZE

HasRoom(b) ==
    \E f \in File : f >= nLastBlockFile /\ info[f].nSize + Size[b] < MAX_BLOCKFILE_SIZE

\* FlushBlockFile commits the files of nLastBlockFile; when it leaves them it
\* first truncates them to the sizes of info.
End(kind, f) == IF kind = "blk" THEN info[f].nSize ELSE info[f].nUndoSize

Truncated(kind) ==
    {e \in stored[kind] : e[1] = nLastBlockFile => e[2] + Bytes(kind, e[3]) <= End(kind, e[1])}

FaultyFlushBlockFile(kind) == cached[kind]
FlushBlockFile(kind) == {e \in cached[kind] : e[1] # nLastBlockFile}

\* FindBlockPos and WriteBlockToDisk for a new block.
WriteBlock(b) ==
    LET f == Room(b)
        e == <<f, info[f].nSize, b>>
        leaves == f # nLastBlockFile
    IN  /\ pos' = [pos EXCEPT ![b] = <<e[1], e[2]>>]
        /\ stored' = [blk |-> Written("blk", IF leaves THEN Truncated("blk") ELSE stored["blk"], e),
                      rev |-> IF leaves THEN Truncated("rev") ELSE stored["rev"]]
        /\ cached' = [blk |-> Written("blk", IF leaves THEN FlushBlockFile("blk") ELSE cached["blk"], e),
                      rev |-> IF leaves THEN FlushBlockFile("rev") ELSE cached["rev"]]
        /\ info' = Counted(b, f)
        /\ nLastBlockFile' = f

\* AcceptBlockHeader accepts an unknown block on a known one that has not
\* failed, and a known one that has not failed.
HeaderAccepted(b) ==
    /\ b \notin failed
    /\ b \notin index => b = Genesis \/ (Parent[b] \in index /\ Parent[b] \notin failed)

\* AcceptBlockHeader, for a header that comes before its block.
Header(b) ==
    /\ ~fReindex /\ b \notin index
    /\ HeaderAccepted(b)
    /\ index' = index \cup {b}
    /\ UNCHANGED <<fileVars, pos, undoPos, failed, info, nLastBlockFile, scanVars, disk>>

\* AcceptBlock, for a block from a peer.
AcceptBlock(b) ==
    /\ ~fReindex /\ pos[b] = None
    /\ HeaderAccepted(b) /\ HasRoom(b)
    /\ index' = index \cup {b}
    /\ WriteBlock(b)
    /\ UNCHANGED <<undoPos, failed, scanVars, disk>>

\* ConnectBlock, once the block's parent is connected: it writes the undo data
\* to the file of the block, or finds the block invalid.
Connectable(b) ==
    /\ b # Genesis /\ b \notin failed /\ pos[b] # None /\ undoPos[b] = None
    /\ pos[Parent[b]] # None
    /\ Parent[b] = Genesis \/ undoPos[Parent[b]] # None

\* The undo data goes to the end of the undo data of the block's file.
FindUndoPos(b) == <<pos[b][1], info[pos[b][1]].nUndoSize>>

ConnectBlock(b) ==
    /\ Connectable(b) /\ b \notin Unconnectable
    /\ LET e == Append(FindUndoPos(b), b)
       IN  /\ undoPos' = [undoPos EXCEPT ![b] = <<e[1], e[2]>>]
           /\ info' = [info EXCEPT ![e[1]].nUndoSize = @ + UndoSize[b]]
           /\ stored' = [stored EXCEPT !["rev"] = Written("rev", @, e)]
           /\ cached' = [cached EXCEPT !["rev"] = Written("rev", @, e)]
    /\ UNCHANGED <<index, pos, failed, nLastBlockFile, scanVars, disk>>

InvalidBlockFound(b) ==
    /\ Connectable(b) /\ b \in Unconnectable
    /\ failed' = failed \cup {b}
    /\ UNCHANGED <<fileVars, index, pos, undoPos, info, nLastBlockFile, scanVars, disk>>

\* FlushStateToDisk commits the files of nLastBlockFile and then writes the
\* index, the file information and nLastBlockFile in one batch.
FlushStateToDisk ==
    /\ cached' = [kind \in FileKind |-> FlushBlockFile(kind)]
    /\ disk' = [index |-> index, pos |-> pos, undoPos |-> undoPos, failed |-> failed,
                info |-> info, nLastBlockFile |-> nLastBlockFile, fReindex |-> disk.fReindex]
    /\ UNCHANGED <<stored, indexVars, scanVars>>

-----------------------------------------------------------------------------
(* Crashes, restarts and -reindex.                                          *)

\* LoadBlockIndexDB reads the information of the files up to nLastBlockFile, and
\* of those behind it until one has none.
Loaded(db) ==
    [f \in File |-> IF \A g \in db.nLastBlockFile + 1 .. f : db.info[g] # NoInfo
                    THEN db.info[f] ELSE NoInfo]

Short(p, i) == \E b \in Block : p[b] # None /\ p[b][2] + Size[b] > i[p[b][1]].nSize

Restart(db) ==
    /\ index' = db.index /\ pos' = db.pos /\ undoPos' = db.undoPos /\ failed' = db.failed
    /\ nLastBlockFile' = db.nLastBlockFile
    /\ info' = Loaded(db)
    /\ fReindex' = db.fReindex
    /\ cached' = [kind \in FileKind |-> {}]
    /\ scan' = <<0, 0>> /\ unknown' = {} /\ queue' = <<>>
    /\ short' = (short \/ (~db.fReindex /\ Short(db.pos, info')))

\* The process ends.  If the machine fails too, writes that were not committed
\* may be lost; those that survive a restart are durable.
Crash ==
    /\ \E blk \in SUBSET cached["blk"], rev \in SUBSET cached["rev"] :
        /\ "blk" \in Volatile \/ blk = {}
        /\ "rev" \in Volatile \/ rev = {}
        /\ stored' = [blk |-> stored["blk"] \ blk, rev |-> stored["rev"] \ rev]
    /\ Restart(disk)
    /\ UNCHANGED disk

EmptyDatabase ==
    [index |-> {}, pos |-> [b \in Block |-> None], undoPos |-> [b \in Block |-> None],
     failed |-> {}, info |-> [f \in File |-> NoInfo], nLastBlockFile |-> 0, fReindex |-> TRUE]

\* A restart with -reindex wipes the databases.
StartReindex ==
    /\ disk' = EmptyDatabase
    /\ Restart(EmptyDatabase)
    /\ UNCHANGED stored

\* ProcessNewBlock for a stored block: AcceptBlock with a known position.
ProcessStored(e) ==
    LET b == e[3]
        new == HeaderAccepted(b) /\ pos[b] = None
    IN  /\ IF new
           THEN /\ index' = index \cup {b} /\ pos' = [pos EXCEPT ![b] = <<e[1], e[2]>>]
                /\ info' = Counted(b, e[1]) /\ nLastBlockFile' = e[1]
           ELSE UNCHANGED <<index, pos, info, nLastBlockFile>>
        /\ UNCHANGED <<short, fileVars, undoPos, failed, disk, fReindex>>

\* The stored blocks of a file, from a position on.
Ahead == {e \in stored["blk"] : e[1] = scan[1] /\ e[2] >= scan[2]}

Found == CHOOSE e \in Ahead : \A f \in Ahead : e[2] <= f[2]

\* LoadExternalBlockFile finds a block.  One whose parent is not known is kept
\* for later.
ScanBlock ==
    /\ fReindex /\ queue = <<>> /\ Ahead # {}
    /\ scan' = <<Found[1], Found[2] + Size[Found[3]]>>
    /\ IF Found[3] # Genesis /\ Parent[Found[3]] \notin index
       THEN /\ unknown' = unknown \cup {Found}
            /\ UNCHANGED <<fileVars, indexVars, fReindex, queue, short, disk>>
       ELSE /\ ProcessStored(Found)
            /\ queue' = <<Found[3]>>
            /\ UNCHANGED unknown

\* It then processes the successors of the block that it kept, and theirs.
ScanSuccessor ==
    /\ fReindex /\ queue # <<>>
    /\ LET range == {e \in unknown : Parent[e[3]] = Head(queue)}
       IN  \/ /\ range = {}
              /\ queue' = Tail(queue)
              /\ UNCHANGED <<fileVars, indexVars, fReindex, unknown, short, disk>>
           \/ \E e \in range :
              /\ ProcessStored(e)
              /\ unknown' = unknown \ {e}
              /\ queue' = IF HeaderAccepted(e[3]) THEN Append(queue, e[3]) ELSE queue
    /\ UNCHANGED scan

\* Files are created in order and never removed.
Exists(f) == \E e \in stored["blk"] : e[1] >= f

ScanNextFile ==
    /\ fReindex /\ queue = <<>> /\ Ahead = {} /\ Exists(scan[1] + 1)
    /\ scan' = <<scan[1] + 1, 0>>
    /\ UNCHANGED <<fileVars, indexVars, fReindex, unknown, queue, short, disk>>

\* ThreadImport writes that reindexing is done.
FinishReindex ==
    /\ fReindex /\ queue = <<>> /\ Ahead = {} /\ ~Exists(scan[1] + 1)
    /\ fReindex' = FALSE
    /\ disk' = [disk EXCEPT !.fReindex = FALSE]
    /\ scan' = <<0, 0>> /\ unknown' = {}
    /\ short' = (short \/ Short(pos, info))
    /\ UNCHANGED <<fileVars, indexVars, queue>>

-----------------------------------------------------------------------------

\* After InitBlockIndex.
Init ==
    LET first == [EmptyDatabase EXCEPT !.index = {Genesis}, !.pos[Genesis] = <<0, 0>>,
                                       !.info[0].nSize = Size[Genesis], !.fReindex = FALSE]
    IN  /\ stored = [blk |-> {<<0, 0, Genesis>>}, rev |-> {}]
        /\ cached = [kind \in FileKind |-> {}]
        /\ index = first.index /\ pos = first.pos /\ undoPos = first.undoPos
        /\ failed = {} /\ info = first.info /\ nLastBlockFile = 0
        /\ fReindex = FALSE /\ scan = <<0, 0>> /\ unknown = {} /\ queue = <<>>
        /\ disk = first /\ short = FALSE

Next ==
    \/ \E b \in Block : Header(b) \/ AcceptBlock(b) \/ ConnectBlock(b) \/ InvalidBlockFound(b)
    \/ FlushStateToDisk \/ Crash \/ StartReindex
    \/ ScanBlock \/ ScanSuccessor \/ ScanNextFile \/ FinishReindex

Spec == Init /\ [][Next]_vars

-----------------------------------------------------------------------------

\* Every block the index has data of can be read, now and by a process that
\* starts from the database after any crash, unless a reindex has left sizes that
\* are too small.
Readable(db) ==
    /\ \A b \in Block : db.pos[b] # None => ReadBlockFromDisk(b, db.pos[b])
    /\ \/ "rev" \in Volatile
       \/ \A b \in Block : db.undoPos[b] # None => UndoReadFromDisk(b, db.undoPos[b])

BlocksReadable ==
    short \/ (Readable([pos |-> pos, undoPos |-> undoPos]) /\ Readable(disk))

\* FlushStateToDisk: "First make sure all block and undo data is flushed to
\* disk.  Then update all block file information (which may refer to block and
\* undo files)": no undo data the database refers to can still be lost.
UndoFlushedFirst ==
    \A b \in Block : disk.undoPos[b] # None =>
        <<disk.undoPos[b][1], disk.undoPos[b][2], b>> \notin cached["rev"]

\* CBlockFileInfo: nSize is the "number of used bytes of block file".
UsedBytes ==
    ~fReindex => ~Short(pos, info)

\* When a reindex ends it has found every block that is stored with all its
\* ancestors, whatever the order they are stored in.
Ancestors[b \in Block] == IF b = Genesis THEN {b} ELSE {b} \cup Ancestors[Parent[b]]

ReindexFinds ==
    FinishReindex =>
        \A b \in Block :
            (/\ \A c \in Ancestors[b] : \E e \in stored["blk"] : e[3] = c
             /\ Ancestors[b] \cap failed = {}) => pos[b] # None
=============================================================================
