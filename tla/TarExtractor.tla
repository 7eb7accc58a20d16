---------------------------- MODULE TarExtractor ----------------------------
(***************************************************************************)
(* tarextractor/tarextractor.go with the copier (copy.go), the sink        *)
(* (folder_sink.go, through EntryFile) and the program around them.        *)
(*                                                                         *)
(* Unlike zip there is one source for the whole archive, which the program *)
(* owns and may use for several calls of Resume, with its wanted saves and *)
(* the save consumer of the call before. Entries are found one by one by   *)
(* the tar reader (itchio/arkive, external), which is saved along with the *)
(* source. The stream is made of one unit for each header and of the data. *)
(***************************************************************************)
EXTENDS EntryFile, FiniteSetsExt, Sequences

CONSTANTS
  NumEntries,    \* entries of the archive
  Archive,       \* Archive[i]: kind and size of entry i
  Sources,       \* "seek": saves at any byte, in the read that hands over data,
                 \* and drops the error of its consumer; "blocks": saves in a read
                 \* of its own, at a block end, as often as empty blocks end there;
                 \* returns that error, may resume at 0 instead
  EmptyBlocks,   \* most empty blocks that follow a block end
  Reused,        \* those the program makes its next extractor over again
  MaxRead,       \* most units one read of the copier hands over
  MaxFaults,     \* bound on errors, crashes and fresh restarts together
  Retries,       \* it may retry with the checkpoint a failed Resume left behind
  PowerFails     \* the machine may lose power, not just the process die

Entries == 0 .. NumEntries - 1
Kinds == {"dir", "symlink", "file", "other"}

ASSUME ConstantsAssumption ==
  /\ NumEntries \in Nat
  /\ Archive \in [Entries -> [kind : Kinds, size : Nat]]
  /\ \A i \in Entries : Archive[i].kind # "file" => Archive[i].size = 0
  /\ Sources \subseteq {"seek", "blocks"} /\ Reused \subseteq Sources
  /\ EmptyBlocks \in Nat
  /\ MaxRead \in Nat \ {0} /\ MaxFaults \in Nat
  /\ Retries \in BOOLEAN /\ PowerFails \in BOOLEAN
  /\ Retries => Reused = {}        \* looked at apart

VARIABLES
  pc,        \* idle (no Resume is running), next, open, copy or write
  ckpt,      \* the checkpoint Resume works on, mutated as it goes
  listed,    \* state.Result.Entries: indices of the entries listed so far
  saved,     \* what the save consumer persisted last: checkpoint and list
  held,      \* the caller still has the pointer to ckpt from a failed Resume
  current,   \* the variable the save callback closes over is not nil
  sr,        \* the tar reader: the entry it is in and how much of it was read
  src,       \* the source: which one, its offset, whether it wants a save, and
             \* the block ends it stopped at since it last handed over data
  chunk,     \* what the copier has read and not written yet
  stop,      \* the consumer asked to stop (copier.stop, stopError)
  cache,     \* the destination of each entry, as the process sees it
  disk,      \* the same, as far as it has been synced
  result,    \* what the last Resume returned
  faults

vars == <<pc, ckpt, listed, saved, held, current, sr, src, chunk, stop,
          cache, disk, result, faults>>

None == -1
NoEntry == [of |-> None, woff |-> 0]
NoReader == [cur |-> None, at |-> 0]
NoChunk == [at |-> 0, n |-> 0, end |-> "more"]
Misread == -1

At(i) == [idx |-> i, entry |-> NoEntry, src |-> None, tar |-> NoReader]
NoSave == [ckpt |-> At(None), listed |-> <<>>]

IsFile(i) == Archive[i].kind = "file"

\* the units of an entry in the stream: its header, then its data
Units == [i \in Entries |-> {i} \X (0 .. Archive[i].size)]

\* where in the stream the header of each entry is, and where a tar reader is
HeaderAt ==
  [i \in Entries |-> Cardinality(UNION {Units[j] : j \in {k \in Entries : k < i}})]

PosOf(r) == IF r.cur = None THEN 0 ELSE HeaderAt[r.cur] + 1 + r.at

Init ==
  /\ pc = "idle"
  /\ ckpt = At(0) /\ listed = <<>>
  /\ saved = NoSave /\ held = FALSE
  /\ current = FALSE
  /\ sr = NoReader
  /\ src \in [kind : Sources, off : {0}, want : {FALSE}, ends : {0}]
  /\ chunk = NoChunk
  /\ stop = FALSE
  /\ cache \in [Entries -> {Missing, Older(MaxRead + 1)}]
  /\ disk = cache
  /\ result = "none"
  /\ faults = 0

Fault == faults < MaxFaults /\ faults' = faults + 1

\* Resume returns; the caller may have the pointer it passed or was given
Return(res) ==
  /\ pc' = "idle"
  /\ result' = res
  /\ held' = (Retries /\ res = "failed" /\ saved # NoSave)

-----------------------------------------------------------------------------
(***************************************************************************)
(* Resume, up to its loop. The save consumer of this call is only set once *)
(* the source has been resumed and read up to the tar reader: a save which *)
(* is still wanted then goes to the callback of the call before, with the  *)
(* checkpoint, the list and the tar reader of that call. A decompressing   *)
(* source no longer wants one: its own Resume reads the source below up to *)
(* the decompressor, which serves the save to nobody (SaveCanBeResumed of  *)
(* DecompressingSource has the inner checkpoint strictly before it).       *)
(***************************************************************************)
\* what reading leaves of a wanted save, when nobody looks at what is emitted
WantAfterReading(want) == IF src.kind = "seek" THEN {FALSE} ELSE {FALSE, want}

\* slip: the source is at a place it may save at, and wants to
ResumedSourcesWanting(offset) ==
  [kind : {src.kind}, off : {offset}, want : {TRUE}, ends : {0}]

ResumedSources(offset) ==
  [kind : {src.kind}, off : {offset}, ends : {0},
   want : {src.want /\ src.kind = "seek" /\ src.kind \in Reused}]

\* from the nil checkpoint, which reads no further than a header
FreshSources ==
  [kind : {src.kind}, off : {0}, ends : {0},
   want : {src.want /\ src.kind \in Reused} \cup (IF src.kind = "blocks" THEN {FALSE} ELSE {})]

\* slip: a source that is behind the tar reader is not read up to it
DiscardedNothing(s, pos) == {s}

Discarded(s, pos) ==
  IF s.off < pos
    THEN [kind : {s.kind}, off : {pos}, want : WantAfterReading(s.want), ends : {0}]
    ELSE {s}

\* slip: the entry is not part of the checkpoint
SavedByNoEntry(c, offset, reader, list) ==
  [ckpt |-> [At(c.idx) EXCEPT !.src = offset, !.tar = reader], listed |-> list]

\* slip: the entry is listed before it is complete
SavedByListing(c, offset, reader, list) ==
  [ckpt |-> [c EXCEPT !.src = offset, !.tar = reader],
   listed |-> Append(list, c.entry.of)]

SavedBy(c, offset, reader, list) ==
  [ckpt |-> [c EXCEPT !.src = offset, !.tar = reader], listed |-> list]

\* what may have been persisted after a discard of s up to pos
SavedInDiscard(s, pos) ==
  {saved} \cup
  (IF s.want /\ current /\ s.off < pos
     THEN {SavedBy(ckpt, offset, sr, listed) : offset \in s.off + 1 .. pos - 1}
     ELSE {})

ResumeOffsets(c) == IF src.kind = "blocks" THEN {c.src, 0} ELSE {c.src}

Begin(c, list) ==
  /\ pc = "idle" /\ result # "ok"
  /\ ckpt' = c
  /\ listed' = list
  /\ sr' = c.tar
  /\ pc' = IF c.entry = NoEntry THEN "next" ELSE "open"
  /\ current' = (c.entry # NoEntry)
  /\ held' = FALSE
  /\ stop' = FALSE
  /\ result' = "none"
  /\ UNCHANGED <<chunk, cache, disk>>

\* from a checkpoint that has a state, hence a tar checkpoint
ResumeWith(c, list) ==
  /\ \E offset \in ResumeOffsets(c) : \E s \in ResumedSources(offset) :
       /\ src' \in Discarded(s, PosOf(c.tar))
       /\ saved' \in SavedInDiscard(s, PosOf(c.tar))
  /\ Begin(c, list)
  /\ UNCHANGED faults

ResumeSaved == saved # NoSave /\ ResumeWith(saved.ckpt, saved.listed)

\* A retry in the same process; between entries there is no state to resume.
ResumeHeld ==
  /\ held
  /\ IF ckpt.tar # NoReader THEN ResumeWith(ckpt, listed)
     ELSE /\ src' \in FreshSources
          /\ Begin(At(0), <<>>)
          /\ UNCHANGED <<saved, faults>>

ResumeFresh ==
  /\ src' \in FreshSources
  /\ saved' = NoSave
  /\ IF saved = NoSave THEN UNCHANGED faults ELSE Fault
  /\ Begin(At(0), <<>>)

\* The source cannot be resumed or read up to the tar reader, or that one
\* cannot be resumed.
ResumeFails ==
  /\ pc = "idle" /\ result # "ok"
  /\ Fault
  /\ \/ UNCHANGED <<src, saved>>
     \/ /\ saved # NoSave
        /\ LET c == saved.ckpt IN
           \E offset \in ResumeOffsets(c) : \E s \in ResumedSources(offset) :
             /\ src' \in Discarded(s, PosOf(c.tar))
             /\ saved' \in SavedInDiscard(s, PosOf(c.tar))
  /\ Return("failed")
  /\ UNCHANGED <<ckpt, listed, current, sr, chunk, stop, cache, disk>>

-----------------------------------------------------------------------------
(***************************************************************************)
(* The loop over the entries.                                              *)
(***************************************************************************)

\* slip: the index is counted at both ends of the loop
NextEntryTwice(c) == At(c.idx + 2)

\* The end of the loop body and the start of the next: another index, no
\* entry, no source checkpoint, no state.
NextEntry(c) == At(c.idx + 1)

\* On a stop the index stays; what was in the entry is dropped all the same.
AfterStop(c) == At(c.idx)

EntryDone ==
  IF stop THEN ckpt' = AfterStop(ckpt) /\ Return("stopped") /\ UNCHANGED current
          ELSE /\ ckpt' = NextEntry(ckpt)
               /\ pc' = "next"
               /\ current' = FALSE
               /\ UNCHANGED <<held, result>>

(***************************************************************************)
(* Next skips what is left of an entry and reads a header. A save that the *)
(* source makes meanwhile is dropped, there is no entry it could be for.   *)
(***************************************************************************)
NextHeader ==
  LET r == [cur |-> sr.cur + 1, at |-> 0] IN
  /\ pc = "next" /\ sr.cur + 1 < NumEntries
  /\ sr' = r
  /\ src' \in [kind : {src.kind}, off : {src.off + PosOf(r) - PosOf(sr)},
                want : WantAfterReading(src.want), ends : {0}]
  /\ IF Archive[r.cur].kind = "other"
       THEN /\ ckpt' = [ckpt EXCEPT !.idx = @ + 1]
            /\ UNCHANGED <<pc, current>>
       ELSE /\ ckpt' = [ckpt EXCEPT !.entry = [of |-> r.cur, woff |-> 0]]
            /\ pc' = "open"
            /\ current' = TRUE
  /\ UNCHANGED <<listed, saved, held, chunk, stop, cache, disk, result, faults>>

NextFails ==
  /\ pc = "next"
  /\ \E n \in 0 .. 1 : src' = [src EXCEPT !.off = @ + n]
  /\ Fault
  /\ Return("failed")
  /\ UNCHANGED <<ckpt, listed, saved, current, sr, chunk, stop, cache, disk>>

Finish ==
  /\ pc = "next" /\ sr.cur + 1 = NumEntries
  /\ Return("ok")
  /\ UNCHANGED <<ckpt, listed, saved, current, sr, src, chunk, stop, cache, disk, faults>>

MakeDirOrSymlink ==
  /\ pc = "open" /\ ~IsFile(ckpt.entry.of)
  /\ cache' = [cache EXCEPT ![ckpt.entry.of] = Made(Archive[ckpt.entry.of].size)]
  /\ EntryDone
  /\ UNCHANGED <<listed, saved, sr, src, chunk, stop, disk, faults>>

OpenEntry ==
  /\ pc = "open" /\ IsFile(ckpt.entry.of)
  /\ cache' = [cache EXCEPT ![ckpt.entry.of] = WriterAt(Created(@), ckpt.entry.woff)]
  /\ chunk' = NoChunk
  /\ pc' = "copy"
  /\ UNCHANGED <<ckpt, listed, saved, held, current, sr, src, stop, disk, result, faults>>

EntryFails ==
  /\ pc = "open"
  /\ \/ UNCHANGED cache
     \/ IsFile(ckpt.entry.of) /\ cache' = [cache EXCEPT ![ckpt.entry.of] = Created(@)]
  /\ Fault
  /\ Return("failed")
  /\ UNCHANGED <<ckpt, listed, saved, current, sr, src, chunk, stop, disk>>

-----------------------------------------------------------------------------
(***************************************************************************)
(* OnSave, in the read of an entry: the source is where the tar reader is. *)
(* The state is noted in the checkpoint, the writer is not synced.         *)
(***************************************************************************)
Noted(c) == [c EXCEPT !.src = src.off, !.tar = sr]

Save ==
  /\ ckpt' = Noted(ckpt)
  /\ saved' = SavedBy(ckpt, src.off, sr, listed)
  /\ stop' \in {stop, TRUE}

SaveFails ==
  /\ ckpt' \in {ckpt, Noted(ckpt)}
  /\ Fault
  /\ UNCHANGED <<saved, stop>>

NoSaveNow == UNCHANGED <<ckpt, saved, stop, faults>>

(***************************************************************************)
(* The copier reads the entry from the tar reader, and that the source.    *)
(***************************************************************************)
size == Archive[sr.cur].size

EndsAfter(n, end) ==
  CASE n > 0                -> 0
    [] n = 0 /\ end = "more" -> src.ends + 1
    [] OTHER                -> src.ends

Hands(n, end, want) ==
  /\ chunk' = [at |-> IF src.off = PosOf(sr) /\ ckpt.entry.of = sr.cur THEN sr.at ELSE Misread,
               n |-> n, end |-> end]
  /\ sr' = [sr EXCEPT !.at = @ + n]
  /\ src' = [kind |-> src.kind, off |-> src.off + n, want |-> want,
              ends |-> EndsAfter(n, end)]
  /\ pc' = "write"
  /\ UNCHANGED <<listed, held, current, cache, disk, result>>

Reading == pc = "copy" /\ sr.at < size

Lengths == 1 .. Lesser(MaxRead, size - sr.at)

ReadEnd ==
  /\ pc = "copy" /\ sr.at = size
  /\ Hands(0, "eof", src.want)
  /\ NoSaveNow

Read ==
  /\ Reading
  /\ src.kind = "seek" => ~src.want
  /\ NoSaveNow
  /\ \E n \in Lengths : Hands(n, "more", src.want)

ReadSavesSeek ==
  /\ Reading /\ src.kind = "seek" /\ src.want
  /\ (Save /\ UNCHANGED faults) \/ SaveFails
  /\ \E n \in Lengths : Hands(n, "more", FALSE)

\* a block may end anywhere, and empty ones after it
BlockEndsNow == src.kind = "blocks" /\ src.ends <= EmptyBlocks

ReadSavesBlocks ==
  /\ Reading /\ src.want /\ BlockEndsNow
  /\ \/ Save /\ UNCHANGED faults /\ Hands(0, "more", FALSE)
     \/ SaveFails /\ Hands(0, "error", FALSE)

\* the read fails after the save it served, if that comes first
ReadFails ==
  /\ Reading
  /\ Fault
  /\ IF src.kind = "seek" /\ src.want
       THEN Save /\ Hands(0, "error", FALSE)
       ELSE UNCHANGED <<ckpt, saved, stop>> /\ Hands(0, "error", src.want)

(***************************************************************************)
(* The copier writes what it read and asks ShouldSave, even when told to   *)
(* stop. The entry is listed when the copier is done, and when it stops.   *)
(***************************************************************************)
Written(n) ==
  [cache EXCEPT ![ckpt.entry.of] = Appended(@, ckpt.entry.woff, chunk.at, n)]

\* slip: the writer does not count what it wrote
MovedNot(c, n) == c

Moved(c, n) == [c EXCEPT !.entry.woff = @ + n]

\* slip: only the loop over the entries is told to stop
CopierRunsOn == FALSE

CopierStops == stop

Write ==
  /\ pc = "write" /\ chunk.end = "more"
  /\ cache' = Written(chunk.n)
  /\ src' \in {src, [src EXCEPT !.want = TRUE]}
  /\ chunk' = NoChunk
  /\ IF CopierStops
       THEN /\ listed' = Append(listed, ckpt.entry.of)
            /\ ckpt' = AfterStop(ckpt)
            /\ Return("stopped")
       ELSE /\ ckpt' = Moved(ckpt, chunk.n)
            /\ pc' = "copy"
            /\ UNCHANGED <<listed, held, result>>
  /\ UNCHANGED <<saved, current, sr, stop, disk, faults>>

WriteLast ==
  /\ pc = "write" /\ chunk.end = "eof"
  /\ cache' = Written(chunk.n)
  /\ chunk' = NoChunk
  /\ listed' = Append(listed, ckpt.entry.of)
  /\ EntryDone
  /\ UNCHANGED <<saved, sr, src, stop, disk, faults>>

CopyFails ==
  /\ pc = "write" /\ chunk.end = "error"
  /\ cache' = Written(chunk.n)
  /\ chunk' = NoChunk
  /\ Return("failed")
  /\ UNCHANGED <<ckpt, listed, saved, current, sr, src, stop, disk, faults>>

WriteFails ==
  /\ pc = "write"
  /\ \E n \in 0 .. chunk.n : cache' = Written(n) /\ ckpt' = Moved(ckpt, n)
  /\ chunk' = NoChunk
  /\ Fault
  /\ Return("failed")
  /\ UNCHANGED <<listed, saved, current, sr, src, stop, disk>>

-----------------------------------------------------------------------------
(***************************************************************************)
(* What happens to the program.                                            *)
(***************************************************************************)
Dies ==
  /\ pc' = "idle"
  /\ ckpt' = At(0) /\ listed' = <<>>
  /\ held' = FALSE /\ current' = FALSE
  /\ sr' = NoReader
  /\ src' = [kind |-> src.kind, off |-> 0, want |-> FALSE, ends |-> 0]
  /\ chunk' = NoChunk
  /\ stop' = FALSE
  /\ result' = "none"
  /\ Fault
  /\ UNCHANGED saved

Crash == Dies /\ UNCHANGED <<cache, disk>>

PowerLoss ==
  /\ PowerFails
  /\ Dies
  /\ \E lost \in SUBSET Entries :
       cache' = [i \in Entries |-> IF i \in lost THEN disk[i] ELSE cache[i]]
  /\ disk' = cache'

Extract ==
  \/ ResumeSaved \/ (saved = NoSave /\ ResumeFresh)
  \/ NextHeader \/ Finish \/ MakeDirOrSymlink \/ OpenEntry
  \/ ReadEnd \/ Read \/ ReadSavesSeek \/ ReadSavesBlocks
  \/ Write \/ WriteLast \/ CopyFails

Next ==
  \/ Extract
  \/ ResumeFresh \/ ResumeHeld \/ ResumeFails
  \/ NextFails \/ EntryFails \/ ReadFails \/ WriteFails
  \/ Crash \/ PowerLoss

Spec == Init /\ [][Next]_vars

\* A Resume that runs goes on, and a program whose Resume did not succeed
\* calls it again.
FairSpec == Spec /\ WF_vars(Extract)

-----------------------------------------------------------------------------
EntryRecord == [of : {None} \cup Entries, woff : Nat]
ReaderRecord == [cur : {None} \cup Entries, at : Nat]
CheckpointRecord ==
  [idx : {None} \cup 0 .. NumEntries, entry : EntryRecord, src : {None} \cup Nat,
   tar : ReaderRecord]

TypeOK ==
  /\ pc \in {"idle", "next", "open", "copy", "write"}
  /\ ckpt \in CheckpointRecord
  /\ saved \in [ckpt : CheckpointRecord, listed : Seq(Entries)]
  /\ listed \in Seq(Entries)
  /\ held \in BOOLEAN /\ current \in BOOLEAN /\ stop \in BOOLEAN
  /\ sr \in ReaderRecord
  /\ src \in [kind : Sources, off : Nat, want : BOOLEAN, ends : 0 .. EmptyBlocks + 1]
  /\ chunk \in [at : Nat \cup {Misread}, n : Nat, end : {"more", "eof", "error"}]
  /\ cache \in [Entries -> EntryFiles] /\ disk \in [Entries -> EntryFiles]
  /\ result \in {"none", "ok", "stopped", "failed"}
  /\ faults \in 0 .. MaxFaults

Extracted(i) == Archive[i].kind = "other" \/ Complete(cache[i], Archive[i].size)

\* the list has the files before entry n, once each, in the order of the archive
ListsFilesBefore(list, n) ==
  /\ \A k, m \in DOMAIN list : k < m => list[k] < list[m]
  /\ \A i \in Entries : IsFile(i) /\ i < n <=> \E k \in DOMAIN list : list[k] = i

(***************************************************************************)
(* The source and the tar reader that reads it are at the same place while *)
(* Resume runs, although they are saved apart, are resumed apart, and the  *)
(* source may come back before the place it was saved at.                  *)
(***************************************************************************)
Aligned == pc # "idle" => src.off = PosOf(sr)

(***************************************************************************)
(* When Resume returns its result every entry is on the file system, with  *)
(* all of its data and nothing after it, whatever stops, errors and        *)
(* crashes came before and whatever the destination held.                  *)
(***************************************************************************)
ResultComplete == result = "ok" => \A i \in Entries : Extracted(i)

(***************************************************************************)
(* The result lists every file once, in the order of the archive, although *)
(* the list is built up by several calls of Resume and an entry is also    *)
(* listed when the copier stops in the middle of it.                       *)
(***************************************************************************)
ResultListsFiles == result = "ok" => ListsFilesBefore(listed, NumEntries)

(***************************************************************************)
(* The parts of a persisted checkpoint agree with each other and with the  *)
(* destination: entry index, entry, tar reader and list are of the same    *)
(* place, the entry was written as far as it was read, the source is not   *)
(* past the tar reader (the discard only goes forward), and what comes     *)
(* before is complete.                                                     *)
(***************************************************************************)
SavedResumable ==
  saved # NoSave =>
    LET c == saved.ckpt IN
    /\ c.entry.of = c.idx /\ c.tar.cur = c.idx
    /\ c.entry.woff = c.tar.at /\ c.entry.woff <= cache[c.idx].good
    /\ c.src <= PosOf(c.tar)
    /\ \A i \in Entries : i < c.idx => Extracted(i)
    /\ ListsFilesBefore(saved.listed, c.idx)

(***************************************************************************)
(* Whatever stops, errors, crashes and fresh starts happen, tar keeps the  *)
(* promise of extractor.go: nothing persisted is lost, no save and no      *)
(* result follow a stop, and the result means everything is there.         *)
(***************************************************************************)
PlaceExtracted ==
  LET i == Min({j \in Entries : ~Extracted(j)} \cup {NumEntries}) IN
  [idx |-> i, off |-> IF i \in Entries THEN cache[i].good ELSE 0]

Promise == INSTANCE ResumableExtraction
  WITH extracted <- PlaceExtracted,
       saved <- [idx |-> saved.ckpt.idx, off |-> saved.ckpt.entry.woff],
       stopping <- stop /\ pc # "idle"

KeepsPromise == Promise!Spec

(***************************************************************************)
(* Extraction ends, even when the consumer stops it at every single save:  *)
(* a resumed entry gains data before it can be saved again. The exception  *)
(* is a seekable source used again with a save still wanted, every time:   *)
(* the copier asks ShouldSave after it was told to stop (copy.go:80), and  *)
(* the next call then saves, and stops, before it has read anything.       *)
(***************************************************************************)
Finishes ==
  <>(result = "ok") \/ []<>(pc = "idle" /\ src.want /\ src.kind = "seek")

(***************************************************************************)
(* Why it ends, but for that: a save that the next read can serve is for a *)
(* place past the one persisted last, or, where empty blocks follow, for   *)
(* the same place once more in a call that has come there by itself.       *)
(***************************************************************************)
CanSave == Reading /\ src.want /\ (src.kind = "seek" \/ BlockEndsNow)

NextSaveGains ==
  CanSave /\ saved # NoSave =>
    \/ PosOf(saved.ckpt.tar) < PosOf(sr)
    \/ PosOf(saved.ckpt.tar) = PosOf(sr) /\ src.ends > 0
    \/ src.kind = "seek" /\ src.kind \in Reused

(***************************************************************************)
(* Tar keeps to what sink.go lets a caller do with each file: it is opened *)
(* at a WriteOffset that the file has the data up to, the data that        *)
(* follows is the next of the entry, nothing is written but while the      *)
(* writer is open, and never past the size of the entry.                   *)
(***************************************************************************)
Place(i) == INSTANCE Sink
  WITH Lengths <- 0 .. Archive[i].size,
       dest <- [kind |-> IF cache[i].len = -1 THEN "none" ELSE "file", file |-> cache[i]],
       woff <- IF pc \in {"copy", "write"} /\ ckpt.entry.of = i THEN ckpt.entry.woff ELSE -1

Files == {i \in Entries : IsFile(i)}

KeepsToSink ==
  /\ \A i \in Files : Place(i)!Init
  /\ [][\A i \in Files : [Place(i)!Next]_(Place(i)!vars)]_vars

-----------------------------------------------------------------------------
(***************************************************************************)
(* Statements of the documentation the code does not keep.                 *)
(***************************************************************************)

\* Resume "perform[s] extraction, optionally resuming from a checkpoint"
\* (extractor.go:146): also from the one that an error has left in memory.
RetryComplete == result = "ok" => \A i \in Entries : Extracted(i)
=============================================================================
