---------------------------- MODULE BlockUploader ----------------------------
(***************************************************************************)
(* The block uploader, its bitmap of changed blocks and the writer of the  *)
(* repository's block objects: one backup or one restore of a raw volume.  *)
(* A reader and a writer run next to each other, joined by a channel and a *)
(* list of free buffers; the object's blocks are written by further        *)
(* goroutines.  A device is a function from positions to 0 or 1.           *)
(***************************************************************************)
EXTENDS Naturals, Sequences, FiniteSets

CONSTANTS
    Jobs,           \* the backups and restores considered, with the volume,
                    \* the snapshots and what the CBT service does
    BlockSize,      \* positions in a block
    Buffers,        \* capacity of the list of free buffers
    AsyncWrites,    \* blocks of the object written at a time
    MaxBlockFaults  \* bound: calls that fail

ASSUME BlockAssumption ==
    /\ BlockSize \in Nat \ {0}
    /\ Buffers \in Nat \ {0}
    /\ AsyncWrites \in Nat \ {0}
    /\ MaxBlockFaults \in Nat

VARIABLES
    job,        \* the job, one of Jobs
    run,       \* the goroutine that runs the job
    rd,         \* the reader
    chan,       \* [results, closed]: the channel between the two
    wr,         \* the writer
    used,       \* buffers taken from the list of free ones
    obj,        \* the object being written
    saved,      \* the snapshot that the backup saves
    dest,       \* the device that is restored
    pf,         \* the goroutine that prefetches the object's blocks
    ctxDone,       \* the context has been cancelled
    blockFaults \* calls that have failed

blockVars == <<job, run, rd, chan, wr, used, obj, saved, dest, pf, ctxDone,
               blockFaults>>

Nothing == <<>>    \* no parent object, no snapshot, no prefetching

Positions(dev) == Cardinality(DOMAIN dev)

\* The smaller of two numbers.
Lesser(m, n) == IF m < n THEN m ELSE n

\* The iterator of a bitmap goes through its blocks in order.
Least(S) == CHOOSE i \in S : \A j \in S : i <= j

BlocksIn(size) == (size + BlockSize - 1) \div BlockSize

\* Block i of a device, its tail filled with zeros.
BlockOf(dev, i) ==
    [k \in 1 .. BlockSize |->
        LET at == i * BlockSize + k - 1 IN
        IF at \in DOMAIN dev THEN dev[at] ELSE 0]

Zero == [k \in 1 .. BlockSize |-> 0]

ObjectOf(dev) == [i \in 1 .. BlocksIn(Positions(dev)) |-> BlockOf(dev, i - 1)]

IsDevice(dev) ==
    IsFiniteSet(DOMAIN dev) /\ dev \in [0 .. Positions(dev) - 1 -> {0, 1}]

\* The snapshots a job finds were saved by backups, each of which has saved
\* the volume as it was.
ASSUME JobsAssumption ==
    \A j \in Jobs :
        /\ j.kind \in {"backup", "restore"}
        /\ IsDevice(j.device)
        /\ j.kind = "restore" => 1 \in DOMAIN j.snaps
        /\ \A k \in DOMAIN j.snaps :
               /\ k \in Nat \ {0}
               /\ IsDevice(j.snaps[k].device)
               /\ j.snaps[k].object = ObjectOf(j.snaps[k].device)

\* A call fails.
BlockFault ==
    /\ blockFaults < MaxBlockFaults
    /\ blockFaults' = blockFaults + 1

\* ... as it does, too, when it uses the context and that is cancelled.
Breaks == BlockFault \/ (ctxDone /\ UNCHANGED blockFaults)

-----------------------------------------------------------------------------
(***************************************************************************)
(* The bitmap.                                                             *)
(***************************************************************************)
Set(offset, length, size) ==
    IF offset >= size THEN {}
    ELSE LET len == Lesser(length, size - offset) IN
         (offset \div BlockSize) .. (BlocksIn(offset + len) - 1)

SetFull(size) == 0 .. (BlocksIn(size) - 1)

SetRanges(ranges, size) ==
    UNION {Set(r[1], r[2], size) : r \in ranges}

\* The service reports the positions asked for one by one, or one range that
\* goes beyond the end of the device.
Reports(positions) ==
    {{<<p, 1>> : p \in positions}}
        \cup (IF positions = {} THEN {}
              ELSE {{<<0, BlockSize * (1 + BlocksIn(Positions(job.device)))>>}})

Differences(dev1, dev2) ==
    {p \in DOMAIN dev1 : p \notin DOMAIN dev2 \/ dev1[p] # dev2[p]}

\* What may become of an empty bitmap, and whether an error is recorded.
\* When a call fails some of its ranges may have been set.
SetBitmapOrFull(size, change, changed, allocated, incOnly) ==
    LET full == {[blocks |-> SetFull(size), err |-> TRUE]}
        fell == IF change /\ job.changedFails
                THEN {{}, SetRanges({<<p, 1>> : p \in changed}, size)}
                ELSE {{}}
    IN  IF ~job.service \/ ~job.named \/ (incOnly /\ ~change) THEN full
        ELSE IF change /\ ~job.changedFails
        THEN {[blocks |-> SetRanges(r, size), err |-> FALSE] :
                  r \in Reports(changed)}
        ELSE IF (change /\ incOnly) \/ job.allocatedFails THEN full
        ELSE UNION {{[blocks |-> part \cup SetRanges(r, size), err |-> change] :
                         r \in Reports(allocated)} : part \in fell}

-----------------------------------------------------------------------------
(***************************************************************************)
(* The parent of a backup, and what makes a restore incremental.           *)
(***************************************************************************)
\* Both tags have to be there, and those of this volume.
OfThisVolume(snap) ==
    /\ snap.tags.change
    /\ snap.tags.volume # "none"
    /\ job.volume # "none"
    /\ snap.tags.volume = job.volume

Candidates ==
    {k \in DOMAIN job.snaps :
        job.snaps[k].tags.requester /\ job.snaps[k].tags.uploader}

\* The last one in the order of the list that no other one follows.
FindPreviousSnapshot ==
    CHOOSE k \in Candidates :
        \A j \in Candidates : job.snaps[j].start <= job.snaps[k].start

Parent ==
    IF job.given # 0 THEN job.given
    ELSE IF Candidates # {} THEN FindPreviousSnapshot ELSE 0

FullBackup == [object |-> Nothing, from |-> 0]

GetParentBackupInfo ==
    /\ run.pc = "parent"
    /\ \/ /\ IF job.forceFull
             THEN run' = [run EXCEPT !.pc = "bitmap"]
             ELSE IF job.volume # "none" /\ Parent \in DOMAIN job.snaps
                     /\ OfThisVolume(job.snaps[Parent])
             THEN run' = [run EXCEPT
                              !.pc = "bitmap",
                              !.parent = [object |-> job.snaps[Parent].object,
                                          from |-> Parent]]
             ELSE run' = [run EXCEPT !.pc = "bitmap", !.errors = TRUE]
          /\ UNCHANGED blockFaults
       \/ /\ BlockFault
          /\ ~job.forceFull
          /\ run' = [run EXCEPT !.pc = "bitmap", !.errors = TRUE]
    /\ UNCHANGED <<job, rd, chan, wr, used, obj, saved, dest, pf, ctxDone>>

Allocated(dev) == {p \in DOMAIN dev : dev[p] # 0}

\* Mutated: the parent stays after an error.
BackupBitmapKeepsParent ==
    /\ run.pc = "bitmap" /\ job.kind = "backup"
    /\ \E bm \in SetBitmapOrFull(
                    Positions(job.device), run.parent.from # 0,
                    IF run.parent.from = 0 THEN {}
                    ELSE Differences(job.device,
                                     job.snaps[run.parent.from].device),
                    Allocated(job.device), FALSE) :
          /\ run' = [run EXCEPT !.pc = "open", !.blocks = bm.blocks,
                                !.errors = @ \/ bm.err]
          /\ rd' = [rd EXCEPT !.todo = bm.blocks]
    /\ UNCHANGED <<job, chan, wr, used, obj, saved, dest, pf, ctxDone, blockFaults>>

\* An error takes the parent away; any error is a fallback.
BackupBitmap ==
    /\ run.pc = "bitmap" /\ job.kind = "backup"
    /\ \E bm \in SetBitmapOrFull(
                    Positions(job.device), run.parent.from # 0,
                    IF run.parent.from = 0 THEN {}
                    ELSE Differences(job.device,
                                     job.snaps[run.parent.from].device),
                    Allocated(job.device), FALSE) :
          /\ run' = [run EXCEPT
                         !.pc = "open",
                         !.blocks = bm.blocks,
                         !.errors = @ \/ bm.err,
                         !.parent.object = IF bm.err THEN Nothing ELSE @]
          /\ rd' = [rd EXCEPT !.todo = bm.blocks]
    /\ UNCHANGED <<job, chan, wr, used, obj, saved, dest, pf, ctxDone, blockFaults>>

\* The object's writer, with the entries of the parent, if there is one.
Start(m) == [m EXCEPT !.pc = "copy"]

Fail(m) == [m EXCEPT !.pc = "ended", !.result = "failed"]

NewObjectWriter ==
    /\ run.pc = "open" /\ job.kind = "backup"
    /\ \/ /\ run' = Start(run)
          /\ obj' = [obj EXCEPT !.parent = run.parent.object]
          /\ rd' = [rd EXCEPT !.pc = "take"]
          /\ wr' = [wr EXCEPT !.pc = "receive"]
          /\ UNCHANGED blockFaults
       \/ /\ Breaks
          /\ run' = Fail(run)
          /\ UNCHANGED <<obj, rd, wr>>
    /\ UNCHANGED <<job, chan, used, saved, dest, pf, ctxDone>>

-----------------------------------------------------------------------------
(***************************************************************************)
(* The object's writer.                                                    *)
(***************************************************************************)
\* The entries up to block i: those of the parent, then zero blocks.
FillTo(i) ==
    LET n == Len(obj.entries)
        cloned == obj.entries \o
                  SubSeq(obj.parent, n + 1, Lesser(i, Len(obj.parent)))
    IN  cloned \o [j \in 1 .. (i - Len(cloned)) |-> Zero]

\* A block of data waits for a free slot among the asynchronous writes; no
\* data, and the object is only extended.
CanWriteAt == obj.err \/ Cardinality(obj.async) < AsyncWrites

WriteAt(data, i) ==
    IF data = <<>>
    THEN obj' = [obj EXCEPT !.entries = FillTo(i)]
    ELSE obj' = [obj EXCEPT !.entries = Append(FillTo(i), <<"unset">>),
                            !.async = @ \cup {<<i + 1, data>>}]

WriteObject(w) ==
    /\ w \in obj.async
    /\ \/ /\ obj' = [obj EXCEPT !.entries[w[1]] = w[2], !.async = @ \ {w}]
          /\ UNCHANGED blockFaults
       \/ /\ Breaks
          /\ obj' = [obj EXCEPT !.err = TRUE, !.async = @ \ {w}]
    /\ UNCHANGED <<job, run, rd, chan, wr, used, saved, dest, pf, ctxDone>>

-----------------------------------------------------------------------------
(***************************************************************************)
(* The reader.  It may have got a buffer when the writer gives up or the   *)
(* context is cancelled, and then still reads and sends.                   *)
(***************************************************************************)
ReaderLeaves == rd' = [rd EXCEPT !.pc = "left"] /\ chan' = [chan EXCEPT !.closed = TRUE]

\* Mutated: the reader does not look whether the writer has given up.
TakeBufferUntold ==
    /\ rd.pc = "take"
    /\ \/ /\ rd.todo = {} \/ ctxDone
          /\ ReaderLeaves
          /\ UNCHANGED used
       \/ /\ rd.todo # {}
          /\ used < Buffers
          /\ used' = used + 1
          /\ rd' = [rd EXCEPT !.pc = "read"]
          /\ UNCHANGED chan
    /\ UNCHANGED <<job, run, wr, obj, saved, dest, pf, ctxDone, blockFaults>>

TakeBuffer ==
    /\ rd.pc = "take"
    /\ \/ /\ rd.todo = {} \/ ctxDone \/ wr.pc = "left"
          /\ ReaderLeaves
          /\ UNCHANGED used
       \/ /\ rd.todo # {}
          /\ used < Buffers
          /\ used' = used + 1
          /\ rd' = [rd EXCEPT !.pc = "read"]
          /\ UNCHANGED chan
    /\ UNCHANGED <<job, run, wr, obj, saved, dest, pf, ctxDone, blockFaults>>

Send(r) == chan' = [chan EXCEPT !.results = Append(@, r)]

\* The data of block i, from the device or from the object.  The position
\* in the object is moved only when the blocks do not follow each other.
Data(i) ==
    IF job.kind = "backup" THEN BlockOf(job.device, i)
    ELSE job.snaps[1].object[i + 1]

Prefetched(i) ==
    pf' = IF pf = Nothing THEN pf ELSE [pf EXCEPT !.at = i + 1, !.awake = TRUE]

ReadBlock ==
    /\ rd.pc = "read"
    /\ Len(chan.results) < Buffers
    /\ LET i == Least(rd.todo) IN
       \/ /\ Send([block |-> i, data |-> Data(i)])
          /\ rd' = [pc |-> "take", todo |-> rd.todo \ {i}]
          /\ IF job.kind = "restore" THEN Prefetched(i) ELSE UNCHANGED pf
          /\ UNCHANGED <<used, blockFaults>>
       \/ /\ IF job.kind = "restore" THEN Breaks ELSE BlockFault
          /\ chan' = [results |-> Append(chan.results, [block |-> i, data |-> Nothing]),
                      closed |-> TRUE]
          /\ rd' = [rd EXCEPT !.pc = "left"]
          /\ used' = used - 1
          /\ UNCHANGED pf
    /\ UNCHANGED <<job, run, wr, obj, saved, dest, ctxDone>>

-----------------------------------------------------------------------------
(***************************************************************************)
(* The writer of a backup.                                                 *)
(***************************************************************************)
WriterLeaves(err) == wr' = [wr EXCEPT !.pc = "left", !.err = err]

WriterCancelled ==
    /\ wr.pc = "receive" /\ ctxDone
    /\ WriterLeaves("cancelled")
    /\ UNCHANGED <<job, run, rd, chan, used, obj, saved, dest, pf, ctxDone,
                   blockFaults>>

\* Nothing comes any more: that is the end, or too early.
Drained ==
    /\ wr.pc = "receive" /\ chan.closed /\ chan.results = <<>>
    /\ wr.zero = <<>> \/ ctxDone \/ wr.count < Cardinality(run.blocks)
    /\ WriterLeaves(IF ctxDone THEN "cancelled"
                    ELSE IF wr.count < Cardinality(run.blocks) THEN "failed"
                    ELSE "none")
    /\ UNCHANGED <<job, run, rd, chan, used, obj, saved, dest, pf, ctxDone,
                   blockFaults>>

Receive ==
    /\ wr.pc = "receive" /\ chan.results # <<>>
    /\ chan' = [chan EXCEPT !.results = Tail(@)]
    /\ LET r == Head(chan.results) IN
       IF r.data = Nothing
       THEN WriterLeaves("failed")
       ELSE wr' = [wr EXCEPT !.pc = "write", !.result = r]
    /\ UNCHANGED <<job, run, rd, used, obj, saved, dest, pf, ctxDone, blockFaults>>

Written(w) ==
    [w EXCEPT !.pc = "receive", !.count = @ + 1, !.last = w.result.block + 1]

BackupWrite ==
    /\ wr.pc = "write" /\ job.kind = "backup"
    /\ CanWriteAt
    /\ \/ /\ ~obj.err
          /\ WriteAt(wr.result.data, wr.result.block)
          /\ wr' = Written(wr)
          /\ UNCHANGED blockFaults
       \/ /\ obj.err
          /\ WriterLeaves("failed")
          /\ UNCHANGED <<obj, blockFaults>>
       \/ /\ BlockFault
          /\ WriterLeaves("failed")
          /\ UNCHANGED obj
    /\ used' = used - 1
    /\ UNCHANGED <<job, run, rd, chan, saved, dest, pf, ctxDone>>

-----------------------------------------------------------------------------
(***************************************************************************)
(* What follows once both have left.                                       *)
(***************************************************************************)
BothLeft == rd.pc = "left" /\ wr.pc = "left"

CopyEnds ==
    /\ run.pc = "copy" /\ BothLeft
    /\ run' = IF wr.err # "none"
               THEN [run EXCEPT !.pc = "ended", !.result = wr.err]
               ELSE IF job.kind = "restore"
               THEN [run EXCEPT !.pc = "ended", !.result = "completed"]
               ELSE IF wr.last < BlocksIn(Positions(job.device))
               THEN [run EXCEPT !.pc = "tail"]
               ELSE [run EXCEPT !.pc = "result"]
    /\ pf' = IF pf = Nothing THEN pf ELSE [pf EXCEPT !.cancelled = TRUE]
    /\ UNCHANGED <<job, rd, chan, wr, used, obj, saved, dest, ctxDone, blockFaults>>

\* The object is extended to the size of the volume; a block that the volume
\* fills in part only is always copied.
CopyTailData ==
    /\ run.pc = "tail"
    /\ LET size == Positions(job.device)
           last == size \div BlockSize IN
       \/ /\ ~obj.err
          /\ IF size % BlockSize = 0
             THEN WriteAt(<<>>, last)
             ELSE CanWriteAt /\ WriteAt(BlockOf(job.device, last), last)
          /\ run' = [run EXCEPT !.pc = "result"]
          /\ UNCHANGED blockFaults
       \/ /\ obj.err
          /\ run' = Fail(run)
          /\ UNCHANGED <<obj, blockFaults>>
       \/ /\ BlockFault
          /\ run' = Fail(run)
          /\ UNCHANGED obj
    /\ UNCHANGED <<job, rd, chan, wr, used, saved, dest, pf, ctxDone>>

\* The object has its name once every block is written.
Result ==
    /\ run.pc = "result"
    /\ obj.async = {}
    /\ run' = IF obj.err THEN Fail(run) ELSE [run EXCEPT !.pc = "save"]
    /\ UNCHANGED <<job, rd, chan, wr, used, obj, saved, dest, pf, ctxDone,
                   blockFaults>>

\* Metadata, the snapshot with its tags, and a flush.  When the flush fails
\* the snapshot may be there all the same.
SaveSnapshot ==
    /\ run.pc = "save"
    /\ LET snap == [object |-> obj.entries, size |-> Positions(job.device)] IN
       \/ /\ run' = [run EXCEPT !.pc = "ended", !.result = "completed"]
          /\ saved' = <<snap>>
          /\ UNCHANGED blockFaults
       \/ /\ Breaks
          /\ run' = Fail(run)
          /\ saved' \in {saved, <<snap>>}
    /\ UNCHANGED <<job, rd, chan, wr, used, obj, dest, pf, ctxDone>>

-----------------------------------------------------------------------------
(***************************************************************************)
(* Restores.                                                               *)
(***************************************************************************)
Snap == job.snaps[1]

RestoreBitmap ==
    /\ run.pc = "bitmap" /\ job.kind = "restore"
    /\ \E bm \in IF ~job.incremental
                 THEN {[blocks |-> SetFull(Len(Snap.object) * BlockSize),
                        err |-> FALSE]}
                 ELSE SetBitmapOrFull(
                        Len(Snap.object) * BlockSize,
                        OfThisVolume(Snap),
                        Differences(job.device, Snap.device), {}, TRUE) :
          /\ run' = [run EXCEPT !.pc = "open", !.blocks = bm.blocks,
                                  !.errors = @ \/ bm.err]
          /\ rd' = [rd EXCEPT !.todo = bm.blocks]
    /\ UNCHANGED <<job, chan, wr, used, obj, saved, dest, pf, ctxDone, blockFaults>>

\* The size of the volume that was backed up: as tagged, or the object's.
SourceSize ==
    IF Snap.sized THEN Positions(Snap.device) ELSE Len(Snap.object) * BlockSize

\* The object is opened, if it fits the device; its entries are loaded for
\* prefetching, which is done without when that fails.
OpenObject ==
    /\ run.pc = "open" /\ job.kind = "restore"
    /\ \/ /\ SourceSize <= Positions(dest)
          /\ run' = Start(run)
          /\ rd' = [rd EXCEPT !.pc = "take"]
          /\ wr' = [wr EXCEPT !.pc = "receive"]
          /\ \/ /\ pf' = [pc |-> "top", at |-> 0, next |-> 0, awake |-> FALSE,
                          cancelled |-> ctxDone]
                /\ UNCHANGED blockFaults
             \/ /\ BlockFault
                /\ pf' = Nothing
       \/ /\ \/ SourceSize > Positions(dest) /\ UNCHANGED blockFaults
             \/ Breaks
          /\ run' = Fail(run)
          /\ UNCHANGED <<rd, wr, pf>>
    /\ UNCHANGED <<job, chan, used, obj, saved, dest, ctxDone>>

\* Block i of the device, as far as the volume reaches.
Overwrite(dev, i, data) ==
    [p \in DOMAIN dev |->
        IF p \in i * BlockSize .. Lesser((i + 1) * BlockSize, SourceSize) - 1
        THEN data[p - i * BlockSize + 1]
        ELSE dev[p]]

Zeroed(dev, zero) ==
    [p \in DOMAIN dev |->
        IF zero # <<>> /\ p \in zero[1] .. zero[2] - 1 THEN 0 ELSE dev[p]]

\* Mutated: a run that goes on forgets where it began.
ExtendedForgetful(zero, i) ==
    <<i * BlockSize, Lesser((i + 1) * BlockSize, SourceSize)>>

\* A run of zero blocks is put off until another block follows it.
Extended(zero, i) ==
    LET end == Lesser((i + 1) * BlockSize, SourceSize) IN
    IF zero # <<>> /\ zero[2] = i * BlockSize
    THEN <<zero[1], end>> ELSE <<i * BlockSize, end>>

RestoreWrite ==
    /\ wr.pc = "write" /\ job.kind = "restore"
    /\ LET r == wr.result
           follows == wr.zero # <<>> /\ wr.zero[2] = r.block * BlockSize IN
       \/ /\ r.data = Zero
          /\ wr' = [Written(wr) EXCEPT !.zero = Extended(wr.zero, r.block)]
          /\ dest' = IF follows THEN dest ELSE Zeroed(dest, wr.zero)
          /\ UNCHANGED blockFaults
       \/ /\ r.data # Zero
          /\ wr' = [Written(wr) EXCEPT !.zero = <<>>]
          /\ dest' = Overwrite(Zeroed(dest, wr.zero), r.block, r.data)
          /\ UNCHANGED blockFaults
       \/ /\ BlockFault
          /\ WriterLeaves("failed")
          /\ dest' \in {dest, Zeroed(dest, wr.zero)}
    /\ used' = used - 1
    /\ UNCHANGED <<job, run, rd, chan, obj, saved, pf, ctxDone>>

\* The last run of zero blocks, by one call or, when it fails, block by
\* block.
FlushZeroBlocks ==
    /\ wr.pc = "receive" /\ chan.closed /\ chan.results = <<>> /\ ~ctxDone
    /\ wr.count = Cardinality(run.blocks)
    /\ wr.zero # <<>>
    /\ \/ /\ WriterLeaves("none")
          /\ dest' = Zeroed(dest, wr.zero)
          /\ UNCHANGED blockFaults
       \/ /\ BlockFault
          /\ WriterLeaves("failed")
          /\ UNCHANGED dest
    /\ UNCHANGED <<job, run, rd, chan, used, obj, saved, pf, ctxDone>>

\* Prefetching goes one block ahead of the reader, and ends when there are
\* no more blocks or the object is closed; it waits under the lock that the
\* reader and the closing goroutine take to wake it up.
PrefetchStep ==
    /\ pf # Nothing
    /\ \/ /\ pf.pc = "top"
          /\ LET next == IF pf.next < pf.at THEN pf.at ELSE pf.next IN
             pf' = IF pf.cancelled \/ next >= Len(Snap.object)
                   THEN [pf EXCEPT !.pc = "left"]
                   ELSE IF next > pf.at + 1
                   THEN [pf EXCEPT !.pc = "wait", !.awake = FALSE]
                   ELSE [pf EXCEPT !.next = next + 1]
       \/ /\ pf.pc = "wait" /\ (pf.awake \/ pf.cancelled)
          /\ pf' = [pf EXCEPT !.pc = "top"]
    /\ UNCHANGED <<job, run, rd, chan, wr, used, obj, saved, dest, ctxDone,
                   blockFaults>>

-----------------------------------------------------------------------------
BlockInit ==
    /\ job \in Jobs
    /\ run = [pc |-> IF job.kind = "backup" THEN "parent" ELSE "bitmap",
               parent |-> FullBackup, blocks |-> {}, errors |-> FALSE,
               result |-> "none"]
    /\ rd = [pc |-> "idle", todo |-> {}]
    /\ chan = [results |-> <<>>, closed |-> FALSE]
    /\ wr = [pc |-> "idle", count |-> 0, last |-> 0, zero |-> <<>>,
             result |-> Nothing, err |-> "none"]
    /\ used = 0
    /\ obj = [entries |-> <<>>, parent |-> Nothing, async |-> {}, err |-> FALSE]
    /\ saved = Nothing
    /\ dest = IF job.kind = "restore" THEN job.device ELSE <<>>
    /\ pf = Nothing
    /\ ctxDone = FALSE
    /\ blockFaults = 0

Cancel ==
    /\ ~ctxDone /\ run.pc # "ended"
    /\ job.cancellable
    /\ ctxDone' = TRUE
    /\ UNCHANGED <<job, run, rd, chan, wr, used, obj, saved, dest, pf,
                   blockFaults>>

BlockStep ==
    \/ GetParentBackupInfo \/ BackupBitmap \/ NewObjectWriter
    \/ TakeBuffer \/ ReadBlock
    \/ WriterCancelled \/ Drained \/ Receive \/ BackupWrite
    \/ \E w \in obj.async : WriteObject(w)
    \/ CopyEnds \/ CopyTailData \/ Result \/ SaveSnapshot
    \/ RestoreBitmap \/ OpenObject \/ RestoreWrite \/ FlushZeroBlocks
    \/ PrefetchStep

BlockNext == BlockStep \/ Cancel

BlockSpec == BlockInit /\ [][BlockNext]_blockVars

-----------------------------------------------------------------------------
(***************************************************************************)
(* Properties.                                                             *)
(***************************************************************************)
\* A snapshot that can be found holds the volume as it was, whatever parent
\* its blocks were cloned from, whichever ranges the service left out, and
\* in whatever order its blocks were written.
SavedIsSource ==
    saved # Nothing => saved[1].object = ObjectOf(job.device)

\* A restore that completes has made the device what was backed up, and has
\* left alone what lies beyond.
RestoredIsSaved ==
    job.kind = "restore" /\ run.result = "completed" =>
        \A p \in DOMAIN dest :
            dest[p] = IF p < SourceSize
                      THEN Snap.object[(p \div BlockSize) + 1][(p % BlockSize) + 1]
                      ELSE job.device[p]

\* Neither the job nor its prefetching waits for what never comes.
BlockGoesOn ==
    /\ run.pc # "ended" => ENABLED BlockStep
    /\ run.pc = "ended" /\ pf # Nothing /\ pf.pc # "left" =>
          ENABLED PrefetchStep

=============================================================================
