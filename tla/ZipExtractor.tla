---------------------------- MODULE ZipExtractor ----------------------------
(***************************************************************************)
(* zipextractor/zipextractor.go with the copier (copy.go), the sink        *)
(* (folder_sink.go, through EntryFile) and the program around them, which  *)
(* persists the checkpoints it is given and starts over from the last one  *)
(* after a stop, an error, a crash of the process or a loss of power.      *)
(*                                                                         *)
(* The sources of the entries are abstract: they keep the contract of      *)
(* ResumableSource. A stored entry is read by seeksource, which emits its  *)
(* checkpoint and hands over data in the same read and drops the error of  *)
(* the consumer. A deflated one is read by flatesource, which emits at     *)
(* block ends, in a read that hands over nothing, and returns that error;  *)
(* where empty blocks follow, or an empty last one, it does so again with  *)
(* nothing handed over in between.                                         *)
(* An ignored entry is a stored one whose writer writes nothing and does   *)
(* not move WriteOffset (folder_sink.go:153, nop_sink.go:55).              *)
(***************************************************************************)
EXTENDS EntryFile, FiniteSetsExt

CONSTANTS
  NumEntries,    \* entries of the archive
  Archive,       \* Archive[i]: kind (how it is made or read) and size of entry i
  BlockEnds,     \* offsets at which a block of a deflated entry ends
  EmptyBlocks,   \* most empty blocks that follow such an end
  MaxRead,       \* most units one read of the copier hands over
  MaxFaults,     \* bound on errors, crashes and fresh restarts together
  PowerFails     \* the machine may lose power, not just the process die

Entries == 0 .. NumEntries - 1
Kinds == {"dir", "symlink", "stored", "ignored", "deflated", "lzma"}

ASSUME ConstantsAssumption ==
  /\ NumEntries \in Nat
  /\ Archive \in [Entries -> [kind : Kinds, size : Nat]]
  /\ BlockEnds \subseteq Nat
  /\ EmptyBlocks \in Nat
  /\ MaxRead \in Nat \ {0}
  /\ MaxFaults \in Nat
  /\ PowerFails \in BOOLEAN

VARIABLES
  pc,        \* idle (no Resume is running), entry, copy or write
  ckpt,      \* the checkpoint Resume works on, mutated as it goes
  saved,     \* the checkpoint the save consumer persisted last
  held,      \* the caller still has the pointer to ckpt from a failed Resume
  src,       \* the source of the entry: its offset, whether it wants a save,
             \* and the block ends it stopped at since it last handed over data
  chunk,     \* what the copier has read and not written yet
  stop,      \* the consumer asked to stop (copier.stop, stopError)
  cache,     \* the destination of each entry, as the process sees it
  disk,      \* the same, as far as it has been synced
  result,    \* what the last Resume returned
  faults

vars == <<pc, ckpt, saved, held, src, chunk, stop, cache, disk, result, faults>>
files == <<cache, disk>>

NoOffset == -1
NoSave == [idx |-> -1, woff |-> NoOffset, soff |-> NoOffset]
Start(i) == [idx |-> i, woff |-> NoOffset, soff |-> NoOffset]
NoChunk == [at |-> 0, n |-> 0, end |-> "more"]
\* slip: the copier asks for a save before it has copied anything
NewSourceWanting(off) == [off |-> off, want |-> TRUE, ends |-> 0]

NewSource(off) == [off |-> off, want |-> FALSE, ends |-> 0]

kind == Archive[ckpt.idx].kind
size == Archive[ckpt.idx].size
IsFile(i) == Archive[i].kind \in {"stored", "ignored", "deflated", "lzma"}
IsWritten(i) == Archive[i].kind \in {"stored", "deflated", "lzma"}
SavesAnywhere == kind \in {"stored", "ignored"}

\* The destination may hold an older, longer version of an entry.
Init ==
  /\ pc = "idle"
  /\ ckpt = Start(0)
  /\ saved = NoSave
  /\ held = FALSE
  /\ src = NewSource(0)
  /\ chunk = NoChunk
  /\ stop = FALSE
  /\ cache \in [Entries -> {Missing, Older(MaxRead + 1)}]
  /\ disk = cache
  /\ result = "none"
  /\ faults = 0

Fault == faults < MaxFaults /\ faults' = faults + 1

\* Resume returns; the caller may have the pointer it passed or was given
Return(res) ==
  /\ pc' = "idle"
  /\ result' = res
  /\ held' = (res = "failed" /\ saved' # NoSave)

-----------------------------------------------------------------------------
(***************************************************************************)
(* Resume, as called by the program.                                       *)
(***************************************************************************)
Begin(c) ==
  /\ pc = "idle"
  /\ pc' = "entry"
  /\ ckpt' = c
  /\ held' = FALSE
  /\ stop' = FALSE
  /\ result' = "none"
  /\ UNCHANGED <<src, chunk>>

\* The first j file entries have been preallocated.
PreallocatedUpTo(j) ==
  [i \in Entries |-> IF i < j /\ IsWritten(i) THEN Preallocated(cache[i], Archive[i].size)
                                           ELSE cache[i]]

ResumeFresh ==
  /\ Begin(Start(0))
  /\ result # "ok"
  /\ cache' = PreallocatedUpTo(NumEntries)
  /\ saved' = NoSave
  /\ IF saved = NoSave THEN UNCHANGED faults ELSE Fault
  /\ UNCHANGED disk

PreallocateFails ==
  /\ pc = "idle" /\ result # "ok"
  /\ \E j \in 0 .. NumEntries - 1 : cache' = PreallocatedUpTo(j)
  /\ saved' = NoSave
  /\ Fault
  /\ Return("failed")
  /\ UNCHANGED <<ckpt, src, chunk, stop, disk>>

ResumeSaved ==
  /\ saved # NoSave
  /\ result # "ok"
  /\ Begin(saved)
  /\ UNCHANGED <<saved, files, faults>>

\* A retry in the same process, with the checkpoint the failed Resume left.
ResumeHeld ==
  /\ held
  /\ Begin(ckpt)
  /\ UNCHANGED <<saved, files, faults>>

-----------------------------------------------------------------------------
(***************************************************************************)
(* The loop over the entries.                                              *)
(***************************************************************************)
AtEntry == pc = "entry" /\ ckpt.idx < NumEntries

\* The end of the loop body: the next index, no entry, no source checkpoint.
NextEntry(c) == Start(c.idx + 1)

\* On a stop the index stays; what was in the entry is dropped all the same.
AfterStop(c) == Start(c.idx)

EntryDone ==
  /\ IF stop THEN ckpt' = AfterStop(ckpt) /\ Return("stopped")
             ELSE /\ ckpt' = NextEntry(ckpt)
                  /\ pc' = "entry"
                  /\ UNCHANGED <<held, result>>
  /\ chunk' = NoChunk

MakeDirOrSymlink ==
  /\ AtEntry
  /\ kind \in {"dir", "symlink"}
  /\ cache' = [cache EXCEPT ![ckpt.idx] = Made(size)]
  /\ EntryDone
  /\ UNCHANGED <<saved, src, stop, disk, faults>>

\* slip: a resumed entry is written from its start
WriteOffsetZero(c) == 0

\* slip: no entry has been opened before
WriteOffsetAsIs(c) == c.woff

(***************************************************************************)
(* An entry is opened where the checkpoint says: the source is resumed and *)
(* then read up to WriteOffset if it is behind it. LZMA starts over.       *)
(***************************************************************************)
WriteOffset(c) == IF kind = "lzma" \/ c.woff = NoOffset THEN 0 ELSE c.woff

ResumedAt(c) ==
  LET at == IF c.soff = NoOffset THEN 0 ELSE c.soff IN
  CASE SavesAnywhere     -> {at}
    [] kind = "deflated" -> {at, 0}
    [] OTHER             -> {0}

\* slip: a source that is behind its writer is not read up to it
DiscardedNothing(off, writeOffset) == off

Discarded(off, writeOffset) == IF off < writeOffset THEN writeOffset ELSE off

OpenEntry ==
  /\ AtEntry
  /\ IsFile(ckpt.idx)
  /\ \E off \in ResumedAt(ckpt) :
       src' = NewSource(Discarded(off, WriteOffset(ckpt)))
  /\ cache' = IF IsWritten(ckpt.idx)
                THEN [cache EXCEPT ![ckpt.idx] = WriterAt(Created(@), WriteOffset(ckpt))]
                ELSE cache
  /\ ckpt' = [ckpt EXCEPT !.woff = WriteOffset(ckpt)]
  /\ chunk' = NoChunk
  /\ pc' = "copy"
  /\ UNCHANGED <<saved, held, stop, disk, result, faults>>

\* Any call before the copy may fail, the last one with the file created.
EntryFails ==
  /\ AtEntry
  /\ ckpt' = [ckpt EXCEPT !.woff = WriteOffset(ckpt)]
  /\ \/ UNCHANGED cache
     \/ IsWritten(ckpt.idx) /\ cache' = [cache EXCEPT ![ckpt.idx] = Created(@)]
  /\ UNCHANGED <<saved, src, chunk, stop, disk>>
  /\ Fault
  /\ Return("failed")

Finish ==
  /\ pc = "entry" /\ ckpt.idx = NumEntries
  /\ UNCHANGED <<ckpt, saved, src, chunk, stop, files, faults>>
  /\ Return("ok")

-----------------------------------------------------------------------------
(***************************************************************************)
(* OnSave: the source's checkpoint is noted, the writer is synced, and the *)
(* checkpoint as it is now is given to the consumer, which persists it and *)
(* says whether to stop. Sync and Save may fail, the note stays.           *)
(***************************************************************************)
Noted(c, off) == [c EXCEPT !.soff = off]

\* slip: the checkpoint is saved without a sync
SyncedNothing(i) == disk

Synced(i) == [disk EXCEPT ![i] = cache[i]]

Save ==
  /\ ckpt' = Noted(ckpt, src.off)
  /\ disk' = Synced(ckpt.idx)
  /\ saved' = Noted(ckpt, src.off)
  /\ stop' \in {stop, TRUE}

SaveFails ==
  /\ ckpt' = Noted(ckpt, src.off)
  /\ disk' \in {disk, Synced(ckpt.idx)}
  /\ Fault
  /\ UNCHANGED <<saved, stop>>

NoSaveNow == UNCHANGED <<ckpt, disk, saved, stop, faults>>

(***************************************************************************)
(* The copier reads. The cases differ in when a wanted save is served and  *)
(* in what becomes of its error.                                           *)
(***************************************************************************)
EndsAfter(n, end) ==
  CASE n > 0                -> 0
    [] n = 0 /\ end = "more" -> src.ends + 1
    [] OTHER                -> src.ends

Hands(n, end, want) ==
  /\ chunk' = [at |-> src.off, n |-> n, end |-> end]
  /\ src' = [off |-> src.off + n, want |-> want, ends |-> EndsAfter(n, end)]
  /\ pc' = "write"
  /\ UNCHANGED <<held, cache, result>>

Lengths == 1 .. Lesser(MaxRead, size - src.off)

Copying == pc = "copy"

ReadEnd ==
  /\ Copying /\ src.off >= size
  /\ Hands(0, "eof", src.want)
  /\ NoSaveNow

\* seeksource: handleSave, then the bytes
ReadStored ==
  /\ Copying /\ SavesAnywhere /\ src.off < size
  /\ IF src.want THEN (Save /\ UNCHANGED faults) \/ SaveFails ELSE NoSaveNow
  /\ \E n \in Lengths : Hands(n, "more", FALSE)

\* flatesource: the bytes, the last ones perhaps with the end of the stream
ReadDeflated ==
  /\ Copying /\ kind = "deflated" /\ src.off < size
  /\ NoSaveNow
  /\ \E n \in Lengths :
       \/ Hands(n, "more", src.want)
       \/ src.off + n = size /\ Hands(n, "eof", src.want)

\* flatesource: a save where a block ends, and then where an empty one does
BlockEndsNow ==
  kind = "deflated" /\ src.off <= size /\ src.off \in BlockEnds /\ src.ends <= EmptyBlocks

ReadDeflatedSave ==
  /\ Copying /\ src.want /\ BlockEndsNow
  /\ \/ Save /\ UNCHANGED faults /\ Hands(0, "more", FALSE)
     \/ SaveFails /\ Hands(0, "error", FALSE)

ReadPlain ==
  /\ Copying /\ kind = "lzma" /\ src.off < size
  /\ NoSaveNow
  /\ \E n \in Lengths : Hands(n, "more", FALSE)

\* the read fails after the save it may have served, if it comes first
ReadFails ==
  /\ Copying
  /\ Hands(0, "error", FALSE)
  /\ Fault
  /\ IF SavesAnywhere /\ src.want /\ src.off < size
       THEN Save
       ELSE UNCHANGED <<ckpt, disk, saved, stop>>

(***************************************************************************)
(* The copier writes what it read, then looks at the error of the read,    *)
(* asks ShouldSave and goes round unless it was told to stop.              *)
(***************************************************************************)
Written(n) ==
  IF IsWritten(ckpt.idx)
    THEN [cache EXCEPT ![ckpt.idx] = Appended(@, ckpt.woff, chunk.at, n)]
    ELSE cache

Moved(n) == IF IsWritten(ckpt.idx) THEN [ckpt EXCEPT !.woff = @ + n] ELSE ckpt

\* slip: only the loop over the entries is told to stop
CopierRunsOn == FALSE

CopierStops == stop

Write ==
  /\ pc = "write" /\ chunk.end = "more"
  /\ cache' = Written(chunk.n)
  /\ IF CopierStops
       THEN ckpt' = AfterStop(ckpt) /\ Return("stopped") /\ UNCHANGED src
       ELSE /\ ckpt' = Moved(chunk.n)
            /\ pc' = "copy"
            /\ src' \in {src, [src EXCEPT !.want = TRUE]}
            /\ UNCHANGED <<held, result>>
  /\ chunk' = NoChunk
  /\ UNCHANGED <<saved, stop, disk, faults>>

WriteLast ==
  /\ pc = "write" /\ chunk.end = "eof"
  /\ cache' = Written(chunk.n)
  /\ EntryDone
  /\ UNCHANGED <<saved, src, stop, disk, faults>>

CopyFails ==
  /\ pc = "write" /\ chunk.end = "error"
  /\ cache' = Written(chunk.n)
  /\ ckpt' = Moved(chunk.n)
  /\ chunk' = NoChunk
  /\ UNCHANGED <<saved, src, stop, disk, faults>>
  /\ Return("failed")

WriteFails ==
  /\ pc = "write"
  /\ \E n \in 0 .. chunk.n : cache' = Written(n) /\ ckpt' = Moved(n)
  /\ chunk' = NoChunk
  /\ UNCHANGED <<saved, src, stop, disk>>
  /\ Fault
  /\ Return("failed")

-----------------------------------------------------------------------------
(***************************************************************************)
(* What happens to the program.                                            *)
(***************************************************************************)
Dies ==
  /\ pc' = "idle"
  /\ ckpt' = Start(0)
  /\ held' = FALSE
  /\ src' = NewSource(0)
  /\ chunk' = NoChunk
  /\ stop' = FALSE
  /\ result' = "none"
  /\ Fault
  /\ UNCHANGED saved

Crash == Dies /\ UNCHANGED files

\* Each file comes back as it was, or as it was synced.
PowerLoss ==
  /\ PowerFails
  /\ Dies
  /\ \E lost \in SUBSET Entries :
       cache' = [i \in Entries |-> IF i \in lost THEN disk[i] ELSE cache[i]]
  /\ disk' = cache'

Extract ==
  \/ ResumeSaved \/ (saved = NoSave /\ ResumeFresh)
  \/ MakeDirOrSymlink \/ OpenEntry \/ Finish
  \/ ReadEnd \/ ReadStored \/ ReadDeflated \/ ReadDeflatedSave \/ ReadPlain
  \/ Write \/ WriteLast \/ CopyFails

Next ==
  \/ Extract
  \/ ResumeFresh \/ PreallocateFails \/ ResumeHeld
  \/ EntryFails \/ ReadFails \/ WriteFails
  \/ Crash \/ PowerLoss

Spec == Init /\ [][Next]_vars

\* A Resume that runs goes on, and a program whose Resume did not succeed
\* calls it again.
FairSpec == Spec /\ WF_vars(Extract)

-----------------------------------------------------------------------------
CheckpointRecord ==
  [idx : {-1} \cup 0 .. NumEntries, woff : {NoOffset} \cup Nat, soff : {NoOffset} \cup Nat]

TypeOK ==
  /\ pc \in {"idle", "entry", "copy", "write"}
  /\ ckpt \in CheckpointRecord /\ ckpt.idx >= 0
  /\ pc \in {"copy", "write"} => ckpt.idx < NumEntries /\ ckpt.woff \in Nat
  /\ saved = NoSave \/ (saved \in CheckpointRecord /\ saved.idx \in Entries)
  /\ held \in BOOLEAN /\ stop \in BOOLEAN
  /\ src \in [off : Nat, want : BOOLEAN, ends : 0 .. EmptyBlocks + 1]
  /\ chunk \in [at : Nat, n : Nat, end : {"more", "eof", "error"}]
  /\ cache \in [Entries -> EntryFiles] /\ disk \in [Entries -> EntryFiles]
  /\ result \in {"none", "ok", "stopped", "failed"}
  /\ faults \in 0 .. MaxFaults

Extracted(i) ==
  Archive[i].kind = "ignored" \/ Complete(cache[i], Archive[i].size)

(***************************************************************************)
(* When Resume returns its result, every entry is on the file system, with *)
(* all of its data and nothing after it: whatever stops, errors, crashes   *)
(* and retries came before, and whatever the destination held.             *)
(***************************************************************************)
ResultComplete == result = "ok" => \A i \in Entries : Extracted(i)

(***************************************************************************)
(* A persisted checkpoint can be resumed at any time: the entries before   *)
(* it are complete, the entry it is in has its data up to WriteOffset, and *)
(* the source checkpoint is not past it (the discard only goes forward).   *)
(***************************************************************************)
Resumable(c) ==
  /\ \A i \in Entries : i < c.idx => Extracted(i)
  /\ c.woff <= cache[c.idx].good
  /\ IsWritten(c.idx) => c.soff <= c.woff

SavedResumable == saved # NoSave => Resumable(saved)

(***************************************************************************)
(* The data a persisted checkpoint counts on in its own entry survives a   *)
(* loss of power: it was synced before the checkpoint was saved.           *)
(***************************************************************************)
SavedDurable == saved # NoSave => disk[saved.idx].good >= saved.woff

(***************************************************************************)
(* The persisted checkpoint only moves forward, unless the program starts  *)
(* afresh: neither a retry with a stale checkpoint nor a source that falls *)
(* back to its start makes one that is behind the last.                    *)
(***************************************************************************)
SavedAdvances ==
  [][saved # NoSave /\ saved' # NoSave =>
       \/ saved'.idx > saved.idx
       \/ saved'.idx = saved.idx /\ saved'.woff >= saved.woff]_vars

(***************************************************************************)
(* Whatever stops, errors, retries, crashes and fresh starts happen, zip   *)
(* keeps the promise of extractor.go: nothing persisted is lost, no save   *)
(* and no result follow a stop, and the result means everything is there.  *)
(***************************************************************************)
PlaceExtracted ==
  LET i == Min({j \in Entries : ~Extracted(j)} \cup {NumEntries}) IN
  [idx |-> i, off |-> IF i \in Entries THEN cache[i].good ELSE 0]

Promise == INSTANCE ResumableExtraction
  WITH extracted <- PlaceExtracted,
       saved <- [idx |-> saved.idx, off |-> IF saved = NoSave THEN 0 ELSE saved.woff],
       stopping <- stop /\ pc # "idle"

KeepsPromise == Promise!Spec

(***************************************************************************)
(* Extraction ends, even when the consumer stops it at every single save:  *)
(* a resumed entry gains data before it can be saved again.                *)
(***************************************************************************)
Finishes == <>(result = "ok")

(***************************************************************************)
(* Why it ends: a save that the next read can serve is for a place past    *)
(* the one persisted last, or, where empty blocks follow, for the same     *)
(* place once more in a call that has come there by itself. A consumer     *)
(* that stops at each save has more of the archive every time.             *)
(***************************************************************************)
CanSave ==
  /\ pc = "copy" /\ src.want
  /\ (SavesAnywhere /\ src.off < size) \/ BlockEndsNow

NextSaveGains ==
  CanSave /\ saved # NoSave =>
    \/ saved.idx < ckpt.idx
    \/ /\ saved.idx = ckpt.idx
       /\ saved.soff < src.off \/ (saved.soff = src.off /\ src.ends > 0)

(***************************************************************************)
(* Zip keeps to what sink.go lets a caller do with each destination: it is *)
(* opened at a WriteOffset that the file has the data up to, the data that *)
(* follows is the next of the entry, nothing is written but while the      *)
(* writer is open, and never past the size of the entry.                   *)
(***************************************************************************)
Place(i) == INSTANCE Sink
  WITH Lengths <- 0 .. Archive[i].size,
       dest <- [kind |-> IF cache[i].len = -1 THEN "none" ELSE "file", file |-> cache[i]],
       woff <- IF pc \in {"copy", "write"} /\ ckpt.idx = i THEN ckpt.woff ELSE -1

WrittenEntries == {i \in Entries : IsWritten(i)}

KeepsToSink ==
  /\ \A i \in WrittenEntries : Place(i)!Init
  /\ [][\A i \in WrittenEntries : [Place(i)!Next]_(Place(i)!vars)]_vars

-----------------------------------------------------------------------------
\* "saving a checkpoint [...] is only useful if we *know* that all the data we
\* say we've decompressed is actually on disk" (sink.go:69-72): an extraction
\* resumed after a loss of power is complete when it returns its result.
CompleteAfterPowerLoss == result = "ok" => \A i \in Entries : Extracted(i)
=============================================================================
