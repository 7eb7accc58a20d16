------------------------ MODULE ZipExtractor_proofs ------------------------
(***************************************************************************)
(* What zipextractor.go keeps for every archive, every place a source may  *)
(* save at and every number of faults. All rests on one invariant: the     *)
(* checkpoint Resume works on, or has left in memory, is never behind the  *)
(* persisted one and never ahead of the data, and while an entry is copied *)
(* its source, its WriteOffset and its file are at the same place.         *)
(***************************************************************************)
EXTENDS ZipExtractor, LeastNatural, TLAPS

\* A checkpoint is in use while Resume runs, and after it failed.
InUse == pc # "idle" \/ held

SizeOf(i) == Archive[i].size

\* What comes before an entry is only certain to stay if no power is lost.
EarlierExtracted(c) == PowerFails \/ \A i \in Entries : i < c.idx => Extracted(i)

InsideEntry(c) ==
  c.idx \in Entries =>
    /\ c.woff <= cache[c.idx].good
    /\ IsWritten(c.idx) => c.soff <= c.woff /\ c.woff <= SizeOf(c.idx)
    /\ Archive[c.idx].kind = "lzma" => c.soff = NoOffset
    /\ Archive[c.idx].kind = "ignored" => c.woff <= 0

NotBehindSaved(c) ==
  saved # NoSave =>
    \/ saved.idx < c.idx
    \/ saved.idx = c.idx /\ saved.woff <= c.woff

CkptInv == InUse => EarlierExtracted(ckpt) /\ InsideEntry(ckpt) /\ NotBehindSaved(ckpt)

SavedInv ==
  saved # NoSave =>
    /\ saved.idx \in Entries /\ saved.woff \in Nat
    /\ Archive[saved.idx].kind \in {"stored", "ignored", "deflated"}
    /\ EarlierExtracted(saved) /\ InsideEntry(saved)
    /\ saved.woff <= disk[saved.idx].good

\* The source, the chunk that was read, WriteOffset and the end of the file.
CopyInv ==
  pc \in {"copy", "write"} =>
    /\ IsFile(ckpt.idx)
    /\ IsWritten(ckpt.idx) =>
         /\ cache[ckpt.idx] = [len |-> ckpt.woff, good |-> ckpt.woff]
         /\ pc = "copy" => src.off = ckpt.woff
         /\ pc = "write" =>
              /\ chunk.at = ckpt.woff
              /\ src.off = chunk.at + chunk.n
              /\ src.off <= SizeOf(ckpt.idx)
              /\ chunk.end = "eof" => src.off = SizeOf(ckpt.idx)

ResultInv ==
  /\ pc # "idle" => result = "none" /\ ~held
  /\ held => result = "failed"
  /\ result = "ok" /\ ~PowerFails => \A i \in Entries : Extracted(i)

ZipInv == TypeOK /\ CkptInv /\ SavedInv /\ CopyInv /\ ResultInv

USE ConstantsAssumption

-----------------------------------------------------------------------------
LEMMA ArchiveFacts ==
  ASSUME NEW i \in Entries
  PROVE  /\ Archive[i].kind \in Kinds /\ Archive[i].size \in Nat
         /\ IsFile(i) <=> Archive[i].kind \in {"stored", "ignored", "deflated", "lzma"}
         /\ IsWritten(i) <=> IsFile(i) /\ Archive[i].kind # "ignored"
  BY DEF IsFile, IsWritten

\* What the file operations make of a file whose data is right up to a point.
LEMMA FileFacts ==
  ASSUME NEW f \in EntryFiles
  PROVE  /\ Created(f) \in EntryFiles /\ Created(f).good = f.good
         /\ \A n \in Nat : /\ Preallocated(f, n) \in EntryFiles
                           /\ Preallocated(f, n).good = f.good
                           /\ Made(n) = [len |-> n, good |-> n]
                           /\ WriterAt(f, n) \in EntryFiles
                           /\ n <= f.good => WriterAt(f, n) = [len |-> n, good |-> n]
  BY DEF EntryFiles, Created, Preallocated, Made, WriterAt, Greater, Lesser

LEMMA AppendedInPlace ==
  ASSUME NEW pos \in Nat, NEW n \in Nat
  PROVE  Appended([len |-> pos, good |-> pos], pos, pos, n)
           = [len |-> pos + n, good |-> pos + n]
  BY DEF Appended, Greater, Lesser

LEMMA InitZipInv == Init => ZipInv
<1> SUFFICES ASSUME Init PROVE ZipInv
  OBVIOUS
<1>1. {Missing, Older(MaxRead + 1)} \subseteq EntryFiles
  BY DEF Missing, Older, EntryFiles
<1>2. cache \in [Entries -> EntryFiles] /\ disk \in [Entries -> EntryFiles]
  BY <1>1 DEF Init
<1>3. ckpt \in CheckpointRecord /\ ckpt.idx >= 0
  BY DEF Init, Start, NoOffset, CheckpointRecord
<1>4. TypeOK
  <2>1. /\ src \in [off : Nat, want : BOOLEAN, ends : 0 .. EmptyBlocks + 1]
        /\ chunk \in [at : Nat, n : Nat, end : {"more", "eof", "error"}]
    BY DEF Init, NewSource, NoChunk
  <2>2. pc = "idle" /\ result = "none"
    BY DEF Init
  <2>3. saved = NoSave /\ held \in BOOLEAN /\ stop \in BOOLEAN
    BY DEF Init
  <2>4. faults \in 0 .. MaxFaults
    BY DEF Init
  <2> QED BY <1>2, <1>3, <2>1, <2>2, <2>3, <2>4 DEF TypeOK
<1> QED
  BY <1>4 DEF Init, ZipInv, CkptInv, SavedInv, CopyInv, ResultInv, InUse

-----------------------------------------------------------------------------
(***************************************************************************)
(* Resume, and what happens to the program.                                *)
(***************************************************************************)

\* Preallocation leaves the data where it is.
LEMMA PreallocatedKeeps ==
  ASSUME TypeOK, NEW j \in Nat, cache' = PreallocatedUpTo(j)
  PROVE  /\ cache' \in [Entries -> EntryFiles]
         /\ \A i \in Entries : cache'[i].good = cache[i].good
<1>1. ASSUME NEW i \in Entries
      PROVE  cache'[i] \in EntryFiles /\ cache'[i].good = cache[i].good
  BY <1>1, ArchiveFacts, FileFacts DEF PreallocatedUpTo, TypeOK
<1> QED BY <1>1 DEF PreallocatedUpTo

LEMMA BeginInv ==
  ASSUME ZipInv, NEW c \in CheckpointRecord, Begin(c), c.idx >= 0,
         UNCHANGED disk, faults' \in 0 .. MaxFaults,
         cache' \in [Entries -> EntryFiles],
         \/ c = Start(0) /\ saved' = NoSave
         \/ /\ UNCHANGED <<saved, cache>> /\ result # "ok"
            /\ EarlierExtracted(c) /\ InsideEntry(c) /\ NotBehindSaved(c)
  PROVE  ZipInv'
<1>1. TypeOK'
  BY DEF ZipInv, TypeOK, Begin, NoSave
<1>2. CASE c = Start(0) /\ saved' = NoSave
  <2>1. EarlierExtracted(ckpt)' /\ NotBehindSaved(ckpt)'
    BY <1>2 DEF Begin, Start, EarlierExtracted, NotBehindSaved, Entries
  <2>2. InsideEntry(ckpt)'
    <3>1. ckpt'.woff = -1 /\ ckpt'.soff = -1
      BY <1>2 DEF Begin, Start, NoOffset
    <3>2. ASSUME ckpt'.idx \in Entries PROVE cache'[ckpt'.idx].good \in Nat
      BY <3>2, <1>1 DEF TypeOK, EntryFiles
    <3> QED BY <3>1, <3>2, ArchiveFacts DEF InsideEntry, SizeOf, NoOffset
  <2> QED
    BY <1>1, <1>2, <2>1, <2>2
    DEF ZipInv, Begin, CkptInv, SavedInv, CopyInv, ResultInv
<1>3. CASE /\ UNCHANGED <<saved, cache>> /\ result # "ok"
           /\ EarlierExtracted(c) /\ InsideEntry(c) /\ NotBehindSaved(c)
  <2>1. EarlierExtracted(ckpt)' /\ InsideEntry(ckpt)' /\ NotBehindSaved(ckpt)'
    BY <1>3 DEF Begin, EarlierExtracted, InsideEntry, NotBehindSaved, Extracted
  <2>2. SavedInv'
    BY <1>3 DEF ZipInv, SavedInv, EarlierExtracted, InsideEntry, Extracted
  <2> QED
    BY <1>1, <1>3, <2>1, <2>2 DEF ZipInv, Begin, CkptInv, CopyInv, ResultInv
<1> QED BY <1>2, <1>3

LEMMA FaultCounted ==
  ASSUME TypeOK, Fault \/ UNCHANGED faults
  PROVE  faults' \in 0 .. MaxFaults
  BY DEF TypeOK, Fault

LEMMA StartFacts ==
  ASSUME NEW i \in 0 .. NumEntries
  PROVE  /\ Start(i) \in CheckpointRecord
         /\ Start(i).idx = i /\ Start(i).woff = -1 /\ Start(i).soff = -1
  BY DEF Start, NoOffset, CheckpointRecord

LEMMA ResumeInv ==
  ASSUME ZipInv, ResumeFresh \/ ResumeSaved \/ ResumeHeld
  PROVE  ZipInv'
<1> USE DEF ZipInv
<1>1. faults' \in 0 .. MaxFaults
  BY FaultCounted DEF ResumeFresh, ResumeSaved, ResumeHeld
<1>2. CASE ResumeFresh
  <2>1. cache' \in [Entries -> EntryFiles]
    BY <1>2, PreallocatedKeeps DEF ResumeFresh
  <2> QED BY <1>1, <1>2, <2>1, StartFacts, BeginInv DEF ResumeFresh
<1>3. CASE ResumeSaved
  <2>1. saved \in CheckpointRecord /\ saved.idx \in Entries /\ saved.woff \in Nat
    BY <1>3 DEF ResumeSaved, TypeOK, SavedInv
  <2>2. saved.idx >= 0
    BY <2>1 DEF Entries
  <2>3. NotBehindSaved(saved)
    BY <2>1 DEF NotBehindSaved
  <2> QED
    BY <1>1, <1>3, <2>1, <2>2, <2>3, BeginInv DEF ResumeSaved, SavedInv, files, TypeOK
<1>4. CASE ResumeHeld
  BY <1>1, <1>4, BeginInv DEF ResumeHeld, CkptInv, InUse, ResultInv, files, TypeOK
<1> QED BY <1>2, <1>3, <1>4

LEMMA PreallocateFailsInv == ASSUME ZipInv, PreallocateFails PROVE ZipInv'
<1>1. cache' \in [Entries -> EntryFiles]
  BY PreallocatedKeeps DEF PreallocateFails, ZipInv
<1>2. pc' = "idle" /\ ~held' /\ held' \in BOOLEAN /\ result' = "failed" /\ saved' = NoSave
  BY DEF PreallocateFails, Return
<1>3. TypeOK'
  BY <1>1, <1>2, FaultCounted DEF PreallocateFails, ZipInv, TypeOK
<1> QED BY <1>2, <1>3 DEF ZipInv, CkptInv, InUse, SavedInv, CopyInv, ResultInv

\* The process dies with what it had in memory; the data up to WriteOffset of
\* the persisted checkpoint was synced before.
LEMMA DiesInv == ASSUME ZipInv, Crash \/ PowerLoss PROVE ZipInv'
<1> USE DEF ZipInv
<1>1. /\ pc' = "idle" /\ held' = FALSE /\ result' = "none" /\ saved' = saved
      /\ ckpt' = Start(0) /\ src' = NewSource(0) /\ chunk' = NoChunk /\ stop' = FALSE
      /\ faults' \in 0 .. MaxFaults
  BY FaultCounted DEF Crash, PowerLoss, Dies
<1>2. /\ cache' \in [Entries -> EntryFiles] /\ disk' \in [Entries -> EntryFiles]
      /\ ~PowerFails => UNCHANGED <<cache, disk>>
      /\ \A i \in Entries : /\ cache'[i] = cache[i] \/ cache'[i] = disk[i]
                            /\ disk'[i] = cache[i] \/ disk'[i] = disk[i]
  BY DEF Crash, PowerLoss, files, TypeOK
<1>3. TypeOK'
  <2>1. /\ src' \in [off : Nat, want : BOOLEAN, ends : 0 .. EmptyBlocks + 1]
        /\ chunk' \in [at : Nat, n : Nat, end : {"more", "eof", "error"}]
    BY <1>1 DEF NewSource, NoChunk
  <2>2. ckpt' \in CheckpointRecord /\ ckpt'.idx >= 0
    BY <1>1, StartFacts
  <2>3. saved' = NoSave \/ (saved' \in CheckpointRecord /\ saved'.idx \in Entries)
    BY <1>1 DEF TypeOK
  <2> QED BY <1>1, <1>2, <2>1, <2>2, <2>3 DEF TypeOK
<1>4. SavedInv'
  <2> SUFFICES ASSUME saved # NoSave PROVE SavedInv'
    BY <1>1 DEF SavedInv
  <2>1. EarlierExtracted(saved)'
    BY <1>1, <1>2 DEF SavedInv, EarlierExtracted, Extracted
  <2>2. saved.woff <= cache'[saved.idx].good /\ saved.woff <= disk'[saved.idx].good
    BY <1>2 DEF SavedInv, InsideEntry
  <2> QED BY <1>1, <2>1, <2>2 DEF SavedInv, InsideEntry
<1> QED BY <1>1, <1>3, <1>4 DEF CkptInv, InUse, CopyInv, ResultInv

-----------------------------------------------------------------------------
(***************************************************************************)
(* The loop over the entries.                                              *)
(***************************************************************************)
AtFile == pc # "idle" /\ ckpt.idx \in Entries

\* Work on one entry leaves those before it, and what was persisted, alone.
LEMMA OtherEntriesKept ==
  ASSUME ZipInv, AtFile, NEW f \in EntryFiles,
         cache' = [cache EXCEPT ![ckpt.idx] = f],
         saved # NoSave /\ saved.idx = ckpt.idx => saved.woff <= f.good,
         UNCHANGED <<saved, disk>>
  PROVE  /\ cache' \in [Entries -> EntryFiles] /\ cache'[ckpt.idx] = f
         /\ SavedInv'
         /\ PowerFails \/ \A i \in Entries : i < ckpt.idx => Extracted(i)'
<1> USE DEF ZipInv, AtFile
<1>1. /\ cache' \in [Entries -> EntryFiles] /\ cache'[ckpt.idx] = f
      /\ \A i \in Entries : i # ckpt.idx => cache'[i] = cache[i]
  BY DEF TypeOK
<1>2. EarlierExtracted(ckpt) /\ NotBehindSaved(ckpt)
  BY DEF CkptInv, InUse
<1>3. \A i \in Entries : i < ckpt.idx => i # ckpt.idx
  BY DEF Entries
<1>4. PowerFails \/ \A i \in Entries : i < ckpt.idx => Extracted(i)'
  BY <1>1, <1>2, <1>3 DEF EarlierExtracted, Extracted
<1>5. SavedInv'
  <2> SUFFICES ASSUME saved # NoSave PROVE SavedInv'
    BY DEF SavedInv
  <2>1. /\ saved.idx \in Entries /\ saved.woff \in Nat /\ saved.idx <= ckpt.idx
        /\ saved.idx \in Int /\ ckpt.idx \in Int
    BY <1>2 DEF SavedInv, NotBehindSaved, Entries
  <2>2. EarlierExtracted(saved)'
    BY <1>4, <2>1 DEF EarlierExtracted, Entries
  <2>3. saved.woff <= cache'[saved.idx].good
    BY <1>1, <2>1 DEF SavedInv, InsideEntry
  <2> QED BY <2>1, <2>2, <2>3 DEF SavedInv, InsideEntry
<1> QED BY <1>1, <1>4, <1>5

\* The checkpoint goes to another place of its entry, which the file has the
\* data up to.
LEMMA WriteOffsetMoves ==
  ASSUME ZipInv, AtFile, NEW f \in EntryFiles, NEW w \in Nat,
         cache' = [cache EXCEPT ![ckpt.idx] = f],
         ckpt' = [ckpt EXCEPT !.woff = w],
         w <= f.good,
         IsWritten(ckpt.idx) => ckpt.soff <= w /\ w <= SizeOf(ckpt.idx),
         Archive[ckpt.idx].kind = "ignored" => w = 0,
         saved # NoSave /\ saved.idx = ckpt.idx => saved.woff <= w,
         UNCHANGED <<saved, disk>>
  PROVE  /\ cache' \in [Entries -> EntryFiles] /\ cache'[ckpt.idx] = f
         /\ SavedInv'
         /\ ckpt' \in CheckpointRecord /\ ckpt'.idx = ckpt.idx /\ ckpt'.woff = w
         /\ EarlierExtracted(ckpt)' /\ InsideEntry(ckpt)' /\ NotBehindSaved(ckpt)'
<1> USE DEF ZipInv, AtFile
<1>1. saved # NoSave /\ saved.idx = ckpt.idx => saved.woff <= f.good
  BY DEF SavedInv, EntryFiles
<1>2. /\ ckpt' \in CheckpointRecord /\ ckpt'.idx = ckpt.idx /\ ckpt'.woff = w
      /\ ckpt'.soff = ckpt.soff
  BY DEF TypeOK, CheckpointRecord
<1>3. /\ cache' \in [Entries -> EntryFiles] /\ cache'[ckpt.idx] = f /\ SavedInv'
      /\ EarlierExtracted(ckpt)'
  BY <1>1, <1>2, OtherEntriesKept DEF EarlierExtracted
<1>4. InsideEntry(ckpt)'
  BY <1>2, <1>3 DEF CkptInv, InUse, InsideEntry
<1>5. NotBehindSaved(ckpt)'
  BY <1>2 DEF CkptInv, InUse, NotBehindSaved
<1> QED BY <1>2, <1>3, <1>4, <1>5

LEMMA EntryDoneInv ==
  ASSUME ZipInv, AtFile, NEW f \in EntryFiles,
         cache' = [cache EXCEPT ![ckpt.idx] = f],
         saved # NoSave /\ saved.idx = ckpt.idx => saved.woff <= f.good,
         (IsFile(ckpt.idx) /\ ~IsWritten(ckpt.idx)) \/ Complete(f, SizeOf(ckpt.idx)),
         EntryDone, UNCHANGED <<saved, src, stop, disk, faults>>
  PROVE  ZipInv'
<1> USE DEF ZipInv, AtFile
<1>1. /\ cache' \in [Entries -> EntryFiles] /\ cache'[ckpt.idx] = f /\ SavedInv'
      /\ PowerFails \/ \A i \in Entries : i < ckpt.idx => Extracted(i)'
  BY OtherEntriesKept
<1>2. \A i \in Entries : i = ckpt.idx => Extracted(i)'
  BY <1>1, ArchiveFacts DEF Extracted, SizeOf
<1>3. chunk' \in [at : Nat, n : Nat, end : {"more", "eof", "error"}]
  BY DEF EntryDone, NoChunk
<1>4. ckpt.idx \in 0 .. NumEntries /\ ckpt.idx + 1 \in 0 .. NumEntries
  BY DEF Entries
<1>5. CASE stop
  <2>1. ckpt' \in CheckpointRecord /\ ckpt'.idx >= 0
    BY <1>4, <1>5, StartFacts DEF EntryDone, AfterStop
  <2>2. pc' = "idle" /\ result' = "stopped" /\ held' = FALSE
    BY <1>5 DEF EntryDone, Return
  <2>3. TypeOK'
    BY <1>1, <1>3, <2>1, <2>2 DEF TypeOK
  <2> QED BY <1>1, <2>2, <2>3 DEF CkptInv, InUse, CopyInv, ResultInv
<1>6. CASE ~stop
  <2>1. ckpt' = Start(ckpt.idx + 1) /\ pc' = "entry" /\ UNCHANGED <<held, result>>
    BY <1>6 DEF EntryDone, NextEntry
  <2>2. /\ ckpt' \in CheckpointRecord /\ ckpt'.idx = ckpt.idx + 1
        /\ ckpt'.woff = -1 /\ ckpt'.soff = -1
    BY <1>4, <2>1, StartFacts
  <2>3. TypeOK'
    BY <1>1, <1>3, <1>4, <2>1, <2>2 DEF TypeOK
  <2>4. EarlierExtracted(ckpt)'
    BY <1>1, <1>2, <2>2 DEF EarlierExtracted, Entries
  <2>5. InsideEntry(ckpt)'
    <3>1. ASSUME ckpt'.idx \in Entries PROVE cache'[ckpt'.idx].good \in Nat
      BY <1>1, <3>1 DEF EntryFiles
    <3> QED BY <2>2, <3>1, ArchiveFacts DEF InsideEntry, SizeOf, NoOffset
  <2>6. NotBehindSaved(ckpt)'
    BY <2>2 DEF CkptInv, InUse, NotBehindSaved, SavedInv, Entries
  <2> QED
    BY <1>1, <2>1, <2>3, <2>4, <2>5, <2>6 DEF CkptInv, CopyInv, ResultInv
<1> QED BY <1>5, <1>6

LEMMA FailedInv ==
  ASSUME ZipInv, SavedInv', EarlierExtracted(ckpt)', InsideEntry(ckpt)', NotBehindSaved(ckpt)',
         cache' \in [Entries -> EntryFiles], disk' \in [Entries -> EntryFiles],
         ckpt' \in CheckpointRecord, ckpt'.idx >= 0,
         chunk' \in [at : Nat, n : Nat, end : {"more", "eof", "error"}],
         UNCHANGED <<saved, src, stop>>, Fault \/ UNCHANGED faults, Return("failed")
  PROVE  ZipInv'
<1>1. pc' = "idle" /\ result' = "failed" /\ held' \in BOOLEAN
  BY DEF Return
<1>2. faults' \in 0 .. MaxFaults
  BY FaultCounted DEF ZipInv
<1>3. TypeOK'
  BY <1>1, <1>2 DEF ZipInv, TypeOK
<1> QED BY <1>1, <1>3 DEF ZipInv, CkptInv, CopyInv, ResultInv

LEMMA MakeDirOrSymlinkInv == ASSUME ZipInv, MakeDirOrSymlink PROVE ZipInv'
<1>1. AtFile /\ Archive[ckpt.idx].kind \in {"dir", "symlink"}
  BY DEF MakeDirOrSymlink, AtEntry, AtFile, ZipInv, TypeOK, CheckpointRecord, Entries, kind
<1>2. SizeOf(ckpt.idx) \in Nat
  BY <1>1, ArchiveFacts DEF AtFile, SizeOf
<1> DEFINE f == Made(SizeOf(ckpt.idx))
<1>3. f \in EntryFiles /\ Complete(f, SizeOf(ckpt.idx))
  BY <1>2 DEF Made, EntryFiles, Complete
<1>4. ~(saved # NoSave /\ saved.idx = ckpt.idx)
  BY <1>1 DEF ZipInv, SavedInv
<1>5. cache' = [cache EXCEPT ![ckpt.idx] = f]
  BY DEF MakeDirOrSymlink, size, SizeOf
<1> HIDE DEF f
<1> QED
  BY <1>1, <1>3, <1>4, <1>5, EntryDoneInv DEF MakeDirOrSymlink

\* Where the code opens an entry is where the checkpoint is, but for LZMA, which
\* is never persisted.
LEMMA WriteOffsetFacts ==
  ASSUME ZipInv, pc = "entry", AtFile
  PROVE  /\ WriteOffset(ckpt) \in Nat
         /\ WriteOffset(ckpt) <= cache[ckpt.idx].good
         /\ IsWritten(ckpt.idx) =>
              /\ WriteOffset(ckpt) <= SizeOf(ckpt.idx)
              /\ ckpt.soff <= WriteOffset(ckpt)
         /\ Archive[ckpt.idx].kind = "ignored" => WriteOffset(ckpt) = 0
         /\ saved # NoSave /\ saved.idx = ckpt.idx => saved.woff <= WriteOffset(ckpt)
<1> USE DEF ZipInv, AtFile
<1>1. /\ ckpt.woff \in {-1} \cup Nat /\ ckpt.soff \in {-1} \cup Nat
      /\ cache[ckpt.idx].good \in Nat /\ SizeOf(ckpt.idx) \in Nat
  BY ArchiveFacts DEF TypeOK, CheckpointRecord, EntryFiles, SizeOf, NoOffset
<1>2. InsideEntry(ckpt) /\ NotBehindSaved(ckpt)
  BY DEF CkptInv, InUse
<1>3. saved # NoSave /\ saved.idx = ckpt.idx =>
        Archive[ckpt.idx].kind # "lzma" /\ saved.woff \in Nat /\ saved.woff <= ckpt.woff
  BY <1>2 DEF SavedInv, NotBehindSaved, Entries
<1>4. CASE Archive[ckpt.idx].kind = "lzma" \/ ckpt.woff = -1
  BY <1>1, <1>2, <1>3, <1>4 DEF WriteOffset, kind, NoOffset, InsideEntry
<1>5. CASE ~(Archive[ckpt.idx].kind = "lzma" \/ ckpt.woff = -1)
  BY <1>1, <1>2, <1>3, <1>5 DEF WriteOffset, kind, NoOffset, InsideEntry
<1> QED BY <1>4, <1>5

LEMMA OpenEntryInv == ASSUME ZipInv, OpenEntry PROVE ZipInv'
<1> USE DEF ZipInv
<1> DEFINE w == WriteOffset(ckpt)
<1> DEFINE f == IF IsWritten(ckpt.idx) THEN WriterAt(Created(cache[ckpt.idx]), w)
                                       ELSE cache[ckpt.idx]
<1>1. AtFile /\ IsFile(ckpt.idx) /\ pc = "entry" /\ ckpt.idx >= 0 /\ ckpt.idx < NumEntries
  BY DEF OpenEntry, AtEntry, AtFile, TypeOK, CheckpointRecord, Entries
<1>2. /\ w \in Nat /\ w <= cache[ckpt.idx].good
      /\ IsWritten(ckpt.idx) => ckpt.soff <= w /\ w <= SizeOf(ckpt.idx)
      /\ Archive[ckpt.idx].kind = "ignored" => w = 0
      /\ saved # NoSave /\ saved.idx = ckpt.idx => saved.woff <= w
  BY <1>1, WriteOffsetFacts
<1>3. cache[ckpt.idx] \in EntryFiles
  BY <1>1 DEF AtFile, TypeOK
<1>4. /\ f \in EntryFiles /\ w <= f.good
      /\ IsWritten(ckpt.idx) => f = [len |-> w, good |-> w]
  <2>1. CASE IsWritten(ckpt.idx)
    <3>1. Created(cache[ckpt.idx]) \in EntryFiles /\ w <= Created(cache[ckpt.idx]).good
      BY <1>2, <1>3, FileFacts
    <3>2. f = [len |-> w, good |-> w] /\ f \in EntryFiles
      BY <1>2, <2>1, <3>1, FileFacts
    <3> QED BY <1>2, <3>2
  <2>2. CASE ~IsWritten(ckpt.idx)
    BY <1>2, <1>3, <2>2
  <2> QED BY <2>1, <2>2
<1>5. cache' = [cache EXCEPT ![ckpt.idx] = f]
  BY <1>1 DEF OpenEntry, AtFile, TypeOK
<1>6. ckpt' = [ckpt EXCEPT !.woff = w] /\ UNCHANGED <<saved, disk>>
  BY DEF OpenEntry
<1> HIDE DEF w, f
<1>7. /\ cache' \in [Entries -> EntryFiles] /\ cache'[ckpt.idx] = f /\ SavedInv'
      /\ ckpt' \in CheckpointRecord /\ ckpt'.idx = ckpt.idx /\ ckpt'.woff = w
      /\ EarlierExtracted(ckpt)' /\ InsideEntry(ckpt)' /\ NotBehindSaved(ckpt)'
  BY <1>1, <1>2, <1>4, <1>5, <1>6, WriteOffsetMoves
<1>8. /\ pc' = "copy" /\ chunk' = NoChunk /\ UNCHANGED <<held, stop, result, faults>>
      /\ src' \in [off : Nat, want : BOOLEAN, ends : 0 .. EmptyBlocks + 1]
      /\ IsWritten(ckpt.idx) => src'.off = w
  <2>1. PICK off \in ResumedAt(ckpt) :
          src' = NewSource(Discarded(off, w))
    BY DEF OpenEntry, w
  <2>2. off \in Nat /\ (IsWritten(ckpt.idx) => off <= w)
    <3>1. off \in {0, ckpt.soff} /\ off # -1 /\ ckpt.soff \in {-1} \cup Nat
      BY <2>1 DEF ResumedAt, TypeOK, CheckpointRecord, NoOffset
    <3> QED BY <1>2, <3>1
  <2>3. Discarded(off, w) \in Nat /\ (IsWritten(ckpt.idx) => Discarded(off, w) = w)
    BY <1>2, <2>2 DEF Discarded
  <2>4. src' = [off |-> Discarded(off, w), want |-> FALSE, ends |-> 0]
    BY <2>1 DEF NewSource
  <2> QED BY <2>3, <2>4, ConstantsAssumption DEF OpenEntry
<1>9. TypeOK'
  <2>1. chunk' \in [at : Nat, n : Nat, end : {"more", "eof", "error"}]
    BY <1>8 DEF NoChunk
  <2> QED BY <1>1, <1>2, <1>6, <1>7, <1>8, <2>1 DEF TypeOK
<1>10. CopyInv'
  BY <1>1, <1>4, <1>7, <1>8 DEF CopyInv, IsFile
<1> QED BY <1>7, <1>8, <1>9, <1>10, <1>1 DEF CkptInv, ResultInv

LEMMA EntryFailsInv == ASSUME ZipInv, EntryFails PROVE ZipInv'
<1> USE DEF ZipInv
<1> DEFINE w == WriteOffset(ckpt)
<1>1. AtFile /\ pc = "entry" /\ ckpt.idx >= 0
  BY DEF EntryFails, AtEntry, AtFile, TypeOK, CheckpointRecord, Entries
<1>2. /\ w \in Nat /\ w <= cache[ckpt.idx].good
      /\ IsWritten(ckpt.idx) => ckpt.soff <= w /\ w <= SizeOf(ckpt.idx)
      /\ Archive[ckpt.idx].kind = "ignored" => w = 0
      /\ saved # NoSave /\ saved.idx = ckpt.idx => saved.woff <= w
  BY <1>1, WriteOffsetFacts
<1>3. cache[ckpt.idx] \in EntryFiles
  BY <1>1 DEF AtFile, TypeOK
<1>4. PICK f \in EntryFiles :
        f.good = cache[ckpt.idx].good /\ cache' = [cache EXCEPT ![ckpt.idx] = f]
  <2>1. CASE UNCHANGED cache
    <3>1. cache' = [cache EXCEPT ![ckpt.idx] = cache[ckpt.idx]]
      BY <1>1, <2>1 DEF AtFile, TypeOK
    <3> QED BY <1>3, <3>1
  <2>2. CASE cache' = [cache EXCEPT ![ckpt.idx] = Created(@)]
    BY <1>3, <2>2, FileFacts
  <2> QED BY <2>1, <2>2 DEF EntryFails
<1>5. ckpt' = [ckpt EXCEPT !.woff = w] /\ UNCHANGED <<saved, disk>>
  BY DEF EntryFails
<1> HIDE DEF w
<1>6. /\ cache' \in [Entries -> EntryFiles] /\ SavedInv'
      /\ ckpt' \in CheckpointRecord /\ ckpt'.idx = ckpt.idx
      /\ EarlierExtracted(ckpt)' /\ InsideEntry(ckpt)' /\ NotBehindSaved(ckpt)'
  BY <1>1, <1>2, <1>4, <1>5, WriteOffsetMoves
<1> QED BY <1>1, <1>6, FailedInv DEF EntryFails, TypeOK

LEMMA FinishInv == ASSUME ZipInv, Finish PROVE ZipInv'
<1> USE DEF ZipInv
<1>1. /\ pc' = "idle" /\ result' = "ok" /\ held' = FALSE
      /\ UNCHANGED <<ckpt, saved, src, chunk, stop, cache, disk, faults>>
  BY DEF Finish, Return, files
<1>2. TypeOK'
  BY <1>1 DEF TypeOK
<1>3. PowerFails \/ \A i \in Entries : Extracted(i)
  BY DEF Finish, CkptInv, InUse, EarlierExtracted, Entries
<1>4. SavedInv' /\ ResultInv'
  BY <1>1, <1>3 DEF SavedInv, ResultInv, EarlierExtracted, InsideEntry, Extracted
<1> QED BY <1>1, <1>2, <1>4 DEF CkptInv, InUse, CopyInv

-----------------------------------------------------------------------------
(***************************************************************************)
(* The copy of an entry.                                                   *)
(***************************************************************************)
Saveable == Archive[ckpt.idx].kind \in {"stored", "ignored", "deflated"}

SavesOrNot ==
  \/ UNCHANGED <<ckpt, disk, saved, stop>> /\ (UNCHANGED faults \/ Fault)
  \/ Saveable /\ SaveFails
  \/ Saveable /\ Save /\ (UNCHANGED faults \/ Fault)

\* The source's checkpoint is noted, and persisted or not: the file has the data
\* up to WriteOffset, and a source that is written from is at that place.
LEMMA SaveInv ==
  ASSUME ZipInv, pc = "copy", UNCHANGED cache,
         SavesOrNot
  PROVE  /\ ckpt' \in CheckpointRecord /\ ckpt'.idx = ckpt.idx /\ ckpt'.woff = ckpt.woff
         /\ saved' = saved \/ saved' = ckpt'
         /\ disk' \in [Entries -> EntryFiles] /\ stop' \in BOOLEAN
         /\ faults' \in 0 .. MaxFaults
         /\ SavedInv'
         /\ EarlierExtracted(ckpt)' /\ InsideEntry(ckpt)' /\ NotBehindSaved(ckpt)'
<1> USE DEF ZipInv
<1>1. /\ AtFile /\ ckpt.woff \in Nat /\ src.off \in Nat
      /\ cache[ckpt.idx] \in EntryFiles /\ cache[ckpt.idx].good \in Nat
      /\ EarlierExtracted(ckpt) /\ InsideEntry(ckpt) /\ NotBehindSaved(ckpt)
  <2>1. AtFile /\ ckpt.woff \in Nat /\ src.off \in Nat
    BY DEF AtFile, TypeOK, CheckpointRecord, Entries
  <2>2. cache[ckpt.idx] \in EntryFiles
    BY <2>1 DEF AtFile, TypeOK
  <2>3. cache[ckpt.idx].good \in Nat
    BY <2>2 DEF EntryFiles
  <2>4. EarlierExtracted(ckpt) /\ InsideEntry(ckpt) /\ NotBehindSaved(ckpt)
    BY DEF CkptInv, InUse
  <2> QED BY <2>1, <2>2, <2>3, <2>4
<1>2. faults' \in 0 .. MaxFaults
  BY FaultCounted DEF SavesOrNot, SaveFails
<1>3. CASE UNCHANGED <<ckpt, disk, saved, stop>>
  BY <1>1, <1>2, <1>3
  DEF TypeOK, SavedInv, EarlierExtracted, InsideEntry, NotBehindSaved, Extracted
<1>4. CASE Saveable /\ (SaveFails \/ Save)
  <2> DEFINE c == Noted(ckpt, src.off)
  <2>1. /\ c \in CheckpointRecord
        /\ c.idx = ckpt.idx /\ c.woff = ckpt.woff /\ c.soff = src.off
    BY <1>1 DEF Noted, TypeOK, CheckpointRecord
  <2>2. ckpt' = c
    BY <1>4 DEF Save, SaveFails
  <2> HIDE DEF c
  <2>3. IsWritten(ckpt.idx) => src.off = ckpt.woff
    BY DEF CopyInv
  <2>4. EarlierExtracted(ckpt)' /\ InsideEntry(ckpt)'
    BY <1>1, <1>4, <2>1, <2>2, <2>3 DEF EarlierExtracted, InsideEntry, Extracted, Saveable
  <2>5. /\ disk' \in [Entries -> EntryFiles]
        /\ \A i \in Entries : disk'[i] = disk[i] \/ (i = ckpt.idx /\ disk'[i] = cache[i])
    BY <1>1, <1>4 DEF Save, SaveFails, Synced, TypeOK, AtFile
  <2>6. CASE SaveFails
    <3>1. saved' = saved /\ stop' = stop
      BY <2>6 DEF SaveFails
    <3>2. saved # NoSave => saved.woff <= disk'[saved.idx].good
      BY <2>5 DEF SavedInv, InsideEntry
    <3>3. SavedInv'
      BY <3>1, <3>2 DEF SavedInv, EarlierExtracted, InsideEntry, Extracted
    <3>4. NotBehindSaved(ckpt)'
      BY <1>1, <2>1, <2>2, <3>1 DEF NotBehindSaved
    <3> QED BY <1>2, <2>1, <2>2, <2>4, <2>5, <3>1, <3>3, <3>4 DEF TypeOK
  <2>7. CASE Save
    <3>1. saved' = c /\ stop' \in BOOLEAN
      BY <2>7 DEF Save, c, TypeOK
    <3>2. disk'[ckpt.idx] = cache[ckpt.idx]
      BY <1>1, <2>7 DEF Save, Synced, TypeOK, AtFile
    <3>3. SavedInv'
      <4>1. c.idx \in Entries /\ c.woff \in Nat /\ c.woff <= disk'[c.idx].good
        BY <1>1, <2>1, <3>2 DEF AtFile, InsideEntry
      <4>2. Archive[c.idx].kind \in {"stored", "ignored", "deflated"}
        BY <1>4, <2>1 DEF Saveable
      <4>3. EarlierExtracted(saved)' /\ InsideEntry(saved)'
        BY <2>2, <2>4, <3>1 DEF EarlierExtracted, InsideEntry
      <4> QED BY <3>1, <4>1, <4>2, <4>3 DEF SavedInv
    <3>4. NotBehindSaved(ckpt)'
      BY <1>1, <2>1, <2>2, <3>1 DEF NotBehindSaved
    <3> QED BY <1>2, <2>1, <2>2, <2>4, <2>5, <3>1, <3>3, <3>4
  <2> QED BY <1>4, <2>6, <2>7
<1> QED BY <1>3, <1>4 DEF SavesOrNot

LEMMA HandsInv ==
  ASSUME ZipInv, pc = "copy",
         SavesOrNot,
         NEW n \in Nat, NEW end \in {"more", "eof", "error"}, NEW want \in BOOLEAN,
         Hands(n, end, want), n = 0 /\ end = "more" => src.ends <= EmptyBlocks,
         IsWritten(ckpt.idx) => src.off + n <= SizeOf(ckpt.idx),
         IsWritten(ckpt.idx) /\ end = "eof" => src.off + n = SizeOf(ckpt.idx)
  PROVE  ZipInv'
<1> USE DEF ZipInv
<1>1. UNCHANGED <<cache, held, result>> /\ pc' = "write"
  BY DEF Hands
<1>2. /\ ckpt' \in CheckpointRecord /\ ckpt'.idx = ckpt.idx /\ ckpt'.woff = ckpt.woff
      /\ saved' = saved \/ saved' = ckpt'
      /\ disk' \in [Entries -> EntryFiles] /\ stop' \in BOOLEAN /\ faults' \in 0 .. MaxFaults
      /\ SavedInv'
      /\ EarlierExtracted(ckpt)' /\ InsideEntry(ckpt)' /\ NotBehindSaved(ckpt)'
  BY <1>1, SaveInv
<1>3. /\ ckpt.idx \in Entries /\ ckpt.idx >= 0 /\ ckpt.idx < NumEntries
      /\ ckpt.woff \in Nat /\ src.off \in Nat
  BY DEF TypeOK, CheckpointRecord, Entries
<1>4. /\ chunk' = [at |-> src.off, n |-> n, end |-> end]
      /\ src' = [off |-> src.off + n, want |-> want, ends |-> EndsAfter(n, end)]
  BY DEF Hands
<1>9. EndsAfter(n, end) \in 0 .. EmptyBlocks + 1
  BY ConstantsAssumption DEF EndsAfter, TypeOK
<1>5. /\ chunk' \in [at : Nat, n : Nat, end : {"more", "eof", "error"}]
      /\ chunk'.at = src.off /\ chunk'.n = n /\ chunk'.end = end
      /\ src' \in [off : Nat, want : BOOLEAN, ends : 0 .. EmptyBlocks + 1] /\ src'.off = src.off + n
  BY <1>3, <1>4, <1>9
<1>6. saved' = NoSave \/ (saved' \in CheckpointRecord /\ saved'.idx \in Entries)
  BY <1>2, <1>3 DEF TypeOK
<1>7. TypeOK'
  BY <1>1, <1>2, <1>3, <1>5, <1>6 DEF TypeOK
<1>8. CopyInv'
  BY <1>1, <1>2, <1>5 DEF CopyInv
<1> QED BY <1>1, <1>2, <1>7, <1>8 DEF CkptInv, ResultInv

LEMMA ReadInv ==
  ASSUME ZipInv,
         ReadEnd \/ ReadStored \/ ReadDeflated \/ ReadDeflatedSave \/ ReadPlain \/ ReadFails
  PROVE  ZipInv'
<1> USE DEF ZipInv
<1>1. pc = "copy"
  BY DEF ReadEnd, ReadStored, ReadDeflated, ReadDeflatedSave, ReadPlain, ReadFails, Copying
<1>2. /\ ckpt.idx \in Entries /\ src.off \in Nat /\ src.want \in BOOLEAN
      /\ size = SizeOf(ckpt.idx) /\ SizeOf(ckpt.idx) \in Nat
  <2>1. ckpt.idx \in Entries
    BY <1>1 DEF TypeOK, CheckpointRecord, Entries
  <2> QED BY <2>1, ArchiveFacts DEF TypeOK, size, SizeOf
<1>3. IsWritten(ckpt.idx) => src.off <= SizeOf(ckpt.idx)
  BY <1>1, <1>2 DEF CkptInv, InUse, InsideEntry, CopyInv
<1>4. \A n \in Lengths : n \in Nat /\ n # 0 /\ src.off + n <= SizeOf(ckpt.idx)
  BY <1>2 DEF Lengths, Lesser
<1>5. SavesAnywhere \/ kind = "deflated" => Saveable
  BY DEF SavesAnywhere, kind, Saveable
<1>6. /\ NoSaveNow => SavesOrNot
      /\ Saveable /\ ((Save /\ UNCHANGED faults) \/ SaveFails) => SavesOrNot
  <2>1. NoSaveNow => SavesOrNot
    BY DEF NoSaveNow, SavesOrNot
  <2>2. ASSUME Saveable, Save, UNCHANGED faults PROVE SavesOrNot
    BY <2>2 DEF SavesOrNot
  <2>3. ASSUME Saveable, SaveFails PROVE SavesOrNot
    BY <2>3 DEF SavesOrNot
  <2> QED BY <2>1, <2>2, <2>3
<1>7. CASE ReadEnd
  <2>1. SavesOrNot /\ Hands(0, "eof", src.want)
    BY <1>6, <1>7 DEF ReadEnd
  <2>2. IsWritten(ckpt.idx) => src.off + 0 = SizeOf(ckpt.idx) /\ src.off + 0 <= SizeOf(ckpt.idx)
    BY <1>2, <1>3, <1>7 DEF ReadEnd
  <2> QED BY <1>1, <1>2, <2>1, <2>2, HandsInv
<1>8. CASE ReadStored
  <2>1. SavesOrNot
    BY <1>5, <1>6, <1>8 DEF ReadStored
  <2>2. PICK n \in Lengths : Hands(n, "more", FALSE)
    BY <1>8 DEF ReadStored
  <2> QED BY <1>1, <1>4, <2>1, <2>2, HandsInv
<1>9. CASE ReadDeflated
  <2>1. SavesOrNot
    BY <1>6, <1>9 DEF ReadDeflated
  <2>2. PICK n \in Lengths : \/ Hands(n, "more", src.want)
                             \/ src.off + n = size /\ Hands(n, "eof", src.want)
    BY <1>9 DEF ReadDeflated
  <2> QED BY <1>1, <1>2, <1>4, <2>1, <2>2, HandsInv
<1>10. CASE ReadDeflatedSave
  <2>1. SavesOrNot
    BY <1>5, <1>6, <1>10 DEF ReadDeflatedSave, BlockEndsNow
  <2>2. PICK end \in {"more", "error"} : Hands(0, end, FALSE)
    BY <1>10 DEF ReadDeflatedSave
  <2>3. src.off + 0 <= SizeOf(ckpt.idx)
    BY <1>2, <1>10 DEF ReadDeflatedSave, BlockEndsNow
  <2>4. src.ends <= EmptyBlocks
    BY <1>10 DEF ReadDeflatedSave, BlockEndsNow
  <2> QED BY <1>1, <2>1, <2>2, <2>3, <2>4, HandsInv
<1>11. CASE ReadPlain
  <2>1. SavesOrNot
    BY <1>6, <1>11 DEF ReadPlain
  <2>2. PICK n \in Lengths : Hands(n, "more", FALSE)
    BY <1>11 DEF ReadPlain
  <2> QED BY <1>1, <1>4, <2>1, <2>2, HandsInv
<1>12. CASE ReadFails
  <2>1. SavesOrNot /\ Hands(0, "error", FALSE)
    BY <1>5, <1>12 DEF ReadFails, SavesOrNot
  <2>2. IsWritten(ckpt.idx) => src.off + 0 <= SizeOf(ckpt.idx)
    BY <1>2, <1>3
  <2> QED BY <1>1, <2>1, <2>2, HandsInv
<1> QED BY <1>7, <1>8, <1>9, <1>10, <1>11, <1>12

\* The file after n units of the chunk, and WriteOffset with it.
WrittenFile(n) ==
  IF IsWritten(ckpt.idx) THEN Appended(cache[ckpt.idx], ckpt.woff, chunk.at, n)
                         ELSE cache[ckpt.idx]

WrittenOffset(n) == IF IsWritten(ckpt.idx) THEN ckpt.woff + n ELSE ckpt.woff

LEMMA WrittenFacts ==
  ASSUME ZipInv, pc = "write", NEW n \in 0 .. chunk.n
  PROVE  /\ AtFile /\ ckpt.idx >= 0 /\ ckpt.idx < NumEntries /\ IsFile(ckpt.idx)
         /\ n \in Nat /\ WrittenFile(n) \in EntryFiles /\ WrittenOffset(n) \in Nat
         /\ Written(n) = [cache EXCEPT ![ckpt.idx] = WrittenFile(n)]
         /\ Moved(n) = [ckpt EXCEPT !.woff = WrittenOffset(n)]
         /\ WrittenOffset(n) <= WrittenFile(n).good
         /\ ckpt.woff <= WrittenOffset(n) /\ ckpt.woff \in Nat
         /\ Archive[ckpt.idx].kind = "ignored" => WrittenOffset(n) = 0
         /\ IsWritten(ckpt.idx) =>
              /\ WrittenFile(n) = [len |-> WrittenOffset(n), good |-> WrittenOffset(n)]
              /\ WrittenOffset(n) = ckpt.woff + n /\ ckpt.soff <= WrittenOffset(n)
              /\ WrittenOffset(n) <= SizeOf(ckpt.idx)
<1> USE DEF ZipInv
<1>1. AtFile /\ ckpt.idx >= 0 /\ ckpt.idx < NumEntries /\ IsFile(ckpt.idx)
  BY DEF AtFile, TypeOK, CheckpointRecord, Entries, CopyInv
<1>2. /\ n \in Nat /\ chunk.n \in Nat /\ n <= chunk.n
      /\ ckpt.woff \in Nat /\ cache[ckpt.idx] \in EntryFiles /\ ckpt.soff \in Int
      /\ SizeOf(ckpt.idx) \in Nat
  BY <1>1, ArchiveFacts DEF TypeOK, AtFile, CheckpointRecord, NoOffset, SizeOf
<1>3. InsideEntry(ckpt)
  BY DEF CkptInv, InUse
<1>4. CASE IsWritten(ckpt.idx)
  <2>1. /\ cache[ckpt.idx] = [len |-> ckpt.woff, good |-> ckpt.woff]
        /\ chunk.at = ckpt.woff /\ chunk.at + chunk.n <= SizeOf(ckpt.idx)
        /\ ckpt.soff <= ckpt.woff
    BY <1>1, <1>3, <1>4 DEF CopyInv, InsideEntry, AtFile
  <2>2. WrittenOffset(n) = ckpt.woff + n
    BY <1>4 DEF WrittenOffset
  <2>3. WrittenFile(n) = [len |-> ckpt.woff + n, good |-> ckpt.woff + n]
    BY <1>2, <1>4, <2>1, AppendedInPlace DEF WrittenFile
  <2>4. WrittenFile(n) \in EntryFiles /\ WrittenFile(n).good = ckpt.woff + n
    BY <1>2, <2>3 DEF EntryFiles
  <2>5. /\ Written(n) = [cache EXCEPT ![ckpt.idx] = WrittenFile(n)]
        /\ Moved(n) = [ckpt EXCEPT !.woff = WrittenOffset(n)]
    BY <1>4, <2>2 DEF Written, Moved, WrittenFile
  <2>6. Archive[ckpt.idx].kind # "ignored"
    BY <1>4 DEF IsWritten
  <2> QED BY <1>1, <1>2, <1>4, <2>1, <2>2, <2>3, <2>4, <2>5, <2>6
<1>5. CASE ~IsWritten(ckpt.idx)
  <2>1. WrittenFile(n) = cache[ckpt.idx] /\ WrittenOffset(n) = ckpt.woff
    BY <1>5 DEF WrittenFile, WrittenOffset
  <2>2. Written(n) = [cache EXCEPT ![ckpt.idx] = cache[ckpt.idx]]
    BY <1>1, <1>5 DEF Written, TypeOK, AtFile
  <2>3. Moved(n) = [ckpt EXCEPT !.woff = ckpt.woff]
    BY <1>5 DEF Moved, TypeOK, CheckpointRecord
  <2>4. ckpt.woff <= cache[ckpt.idx].good
        /\ (Archive[ckpt.idx].kind = "ignored" => ckpt.woff = 0)
    BY <1>1, <1>2, <1>3 DEF InsideEntry, AtFile
  <2> QED BY <1>1, <1>2, <1>5, <2>1, <2>2, <2>3, <2>4
<1> QED BY <1>4, <1>5

\* WriteOffset moves with what was written.
LEMMA WrittenMoves ==
  ASSUME ZipInv, pc = "write", NEW n \in 0 .. chunk.n,
         cache' = Written(n), ckpt' = Moved(n), UNCHANGED <<saved, disk>>
  PROVE  /\ cache' \in [Entries -> EntryFiles] /\ cache'[ckpt.idx] = WrittenFile(n)
         /\ SavedInv'
         /\ ckpt' \in CheckpointRecord /\ ckpt'.idx = ckpt.idx
         /\ ckpt'.woff = WrittenOffset(n)
         /\ EarlierExtracted(ckpt)' /\ InsideEntry(ckpt)' /\ NotBehindSaved(ckpt)'
<1> USE DEF ZipInv
<1>1. saved # NoSave /\ saved.idx = ckpt.idx => saved.woff <= WrittenOffset(n)
  <2>1. saved # NoSave /\ saved.idx = ckpt.idx => saved.woff \in Nat /\ saved.woff <= ckpt.woff
    BY WrittenFacts DEF CkptInv, InUse, NotBehindSaved, SavedInv, Entries, AtFile
  <2> QED BY <2>1, WrittenFacts
<1> QED BY <1>1, WrittenFacts, WriteOffsetMoves

LEMMA WriteInv == ASSUME ZipInv, Write PROVE ZipInv'
<1> USE DEF ZipInv
<1> DEFINE n == chunk.n
<1>1. pc = "write" /\ n \in 0 .. chunk.n
  BY DEF Write, TypeOK
<1>2. /\ cache' = Written(n) /\ chunk' = NoChunk /\ UNCHANGED <<saved, stop, disk, faults>>
      /\ chunk' \in [at : Nat, n : Nat, end : {"more", "eof", "error"}]
  BY DEF Write, NoChunk
<1>3. CASE stop
  <2>1. ckpt' = AfterStop(ckpt) /\ Return("stopped") /\ UNCHANGED src
    BY <1>3 DEF Write, CopierStops
  <2>2. pc' = "idle" /\ result' = "stopped" /\ held' = FALSE
    BY <2>1 DEF Return
  <2>3. ckpt' \in CheckpointRecord /\ ckpt'.idx >= 0
    <3>1. ckpt.idx \in 0 .. NumEntries /\ ckpt' = Start(ckpt.idx)
      BY <1>1, <2>1, WrittenFacts DEF AfterStop, AtFile, Entries
    <3> QED BY <3>1, StartFacts
  <2>4. saved # NoSave /\ saved.idx = ckpt.idx => saved.woff <= WrittenFile(n).good
    <3>1. saved # NoSave /\ saved.idx = ckpt.idx => saved.woff \in Nat /\ saved.woff <= ckpt.woff
      BY <1>1, WrittenFacts DEF CkptInv, InUse, NotBehindSaved, SavedInv, Entries, AtFile
    <3>2. ckpt.woff <= WrittenOffset(n) /\ WrittenOffset(n) <= WrittenFile(n).good
          /\ ckpt.woff \in Nat /\ WrittenOffset(n) \in Nat /\ WrittenFile(n).good \in Nat
      BY <1>1, WrittenFacts DEF EntryFiles
    <3> QED BY <3>1, <3>2
  <2>5. cache' \in [Entries -> EntryFiles] /\ SavedInv'
    BY <1>1, <1>2, <2>4, WrittenFacts, OtherEntriesKept
  <2>6. TypeOK'
    BY <1>2, <2>1, <2>2, <2>3, <2>5 DEF TypeOK
  <2> QED BY <2>2, <2>5, <2>6 DEF CkptInv, InUse, CopyInv, ResultInv
<1>4. CASE ~stop
  <2>1. /\ ckpt' = Moved(n) /\ pc' = "copy" /\ UNCHANGED <<held, result>>
        /\ src' \in {src, [src EXCEPT !.want = TRUE]}
    BY <1>4 DEF Write, CopierStops
  <2>2. src' \in [off : Nat, want : BOOLEAN, ends : 0 .. EmptyBlocks + 1] /\ src'.off = src.off
    BY <2>1 DEF TypeOK
  <2>3. /\ cache' \in [Entries -> EntryFiles] /\ cache'[ckpt.idx] = WrittenFile(n)
        /\ SavedInv'
        /\ ckpt' \in CheckpointRecord /\ ckpt'.idx = ckpt.idx /\ ckpt'.woff = WrittenOffset(n)
        /\ EarlierExtracted(ckpt)' /\ InsideEntry(ckpt)' /\ NotBehindSaved(ckpt)'
    BY <1>1, <1>2, <2>1, WrittenMoves
  <2>4. TypeOK'
    BY <1>1, <1>2, <2>1, <2>2, <2>3, WrittenFacts DEF TypeOK
  <2>5. CopyInv'
    <3>1. IsWritten(ckpt.idx) => src.off = ckpt.woff + n
      BY <1>1 DEF CopyInv
    <3> QED BY <1>1, <2>1, <2>2, <2>3, <3>1, WrittenFacts DEF CopyInv
  <2> QED BY <1>1, <2>1, <2>3, <2>4, <2>5 DEF CkptInv, ResultInv
<1> QED BY <1>3, <1>4 DEF TypeOK

LEMMA WriteLastInv == ASSUME ZipInv, WriteLast PROVE ZipInv'
<1> USE DEF ZipInv
<1> DEFINE n == chunk.n
<1>1. pc = "write" /\ n \in 0 .. chunk.n /\ chunk.end = "eof"
  BY DEF WriteLast, TypeOK
<1>2. IsWritten(ckpt.idx) => ckpt.woff + n = SizeOf(ckpt.idx)
  BY <1>1 DEF CopyInv
<1>3. IsWritten(ckpt.idx) => Complete(WrittenFile(n), SizeOf(ckpt.idx))
  BY <1>1, <1>2, WrittenFacts DEF Complete
<1>4. saved # NoSave /\ saved.idx = ckpt.idx => saved.woff <= WrittenFile(n).good
  <2>1. saved # NoSave /\ saved.idx = ckpt.idx => saved.woff \in Nat /\ saved.woff <= ckpt.woff
    BY <1>1, WrittenFacts DEF CkptInv, InUse, NotBehindSaved, SavedInv, Entries, AtFile
  <2>2. ckpt.woff <= WrittenOffset(n) /\ WrittenOffset(n) <= WrittenFile(n).good
        /\ ckpt.woff \in Nat /\ WrittenOffset(n) \in Nat /\ WrittenFile(n).good \in Nat
    BY <1>1, WrittenFacts DEF EntryFiles
  <2> QED BY <2>1, <2>2
<1>5. cache' = [cache EXCEPT ![ckpt.idx] = WrittenFile(n)]
  BY <1>1, WrittenFacts DEF WriteLast
<1> QED
  BY <1>1, <1>3, <1>4, <1>5, WrittenFacts, EntryDoneInv DEF WriteLast

LEMMA CopyEndsInv == ASSUME ZipInv, CopyFails \/ WriteFails PROVE ZipInv'
<1> USE DEF ZipInv
<1>1. pc = "write" /\ chunk.n \in 0 .. chunk.n
  BY DEF CopyFails, WriteFails, TypeOK
<1>2. PICK n \in 0 .. chunk.n : cache' = Written(n) /\ ckpt' = Moved(n)
  BY <1>1 DEF CopyFails, WriteFails
<1>3. /\ UNCHANGED <<saved, src, stop, disk>> /\ (Fault \/ UNCHANGED faults) /\ Return("failed")
      /\ chunk' \in [at : Nat, n : Nat, end : {"more", "eof", "error"}]
  BY DEF CopyFails, WriteFails, NoChunk
<1>4. /\ cache' \in [Entries -> EntryFiles] /\ SavedInv'
      /\ ckpt' \in CheckpointRecord /\ ckpt'.idx = ckpt.idx
      /\ EarlierExtracted(ckpt)' /\ InsideEntry(ckpt)' /\ NotBehindSaved(ckpt)'
  BY <1>1, <1>2, <1>3, WrittenMoves
<1> QED BY <1>3, <1>4, FailedInv DEF TypeOK

-----------------------------------------------------------------------------
LEMMA NextZipInv == ZipInv /\ [Next]_vars => ZipInv'
<1> SUFFICES ASSUME ZipInv, [Next]_vars PROVE ZipInv'
  OBVIOUS
<1>1. CASE UNCHANGED vars
  BY <1>1
  DEF vars, ZipInv, TypeOK, CkptInv, SavedInv, CopyInv, ResultInv, InUse, EarlierExtracted,
      InsideEntry, NotBehindSaved, Extracted
<1>2. CASE ResumeFresh \/ ResumeSaved \/ ResumeHeld
  BY <1>2, ResumeInv
<1>3. CASE PreallocateFails
  BY <1>3, PreallocateFailsInv
<1>4. CASE MakeDirOrSymlink
  BY <1>4, MakeDirOrSymlinkInv
<1>5. CASE OpenEntry
  BY <1>5, OpenEntryInv
<1>6. CASE EntryFails
  BY <1>6, EntryFailsInv
<1>7. CASE Finish
  BY <1>7, FinishInv
<1>8. CASE ReadEnd \/ ReadStored \/ ReadDeflated \/ ReadDeflatedSave \/ ReadPlain \/ ReadFails
  BY <1>8, ReadInv
<1>9. CASE Write
  BY <1>9, WriteInv
<1>10. CASE WriteLast
  BY <1>10, WriteLastInv
<1>11. CASE CopyFails \/ WriteFails
  BY <1>11, CopyEndsInv
<1>12. CASE Crash \/ PowerLoss
  BY <1>12, DiesInv
<1> QED
  BY <1>1, <1>2, <1>3, <1>4, <1>5, <1>6, <1>7, <1>8, <1>9, <1>10, <1>11, <1>12
  DEF Next, Extract

\* The checkpoint a step persists is the one Resume works on.
LEMMA NextAdvances ==
  ASSUME ZipInv, Next, saved # NoSave, saved' # NoSave
  PROVE  \/ saved'.idx > saved.idx
         \/ saved'.idx = saved.idx /\ saved'.woff >= saved.woff
<1>1. saved.idx \in Int /\ saved.woff \in Nat
  BY DEF ZipInv, SavedInv, Entries
<1>2. CASE saved' = saved
  BY <1>1, <1>2
<1>3. CASE pc = "copy" /\ Save
  <2>1. NotBehindSaved(ckpt) /\ ckpt.idx \in Int /\ ckpt.woff \in Nat
    BY <1>3 DEF ZipInv, CkptInv, InUse, TypeOK, CheckpointRecord
  <2>2. saved'.idx = ckpt.idx /\ saved'.woff = ckpt.woff
    BY <1>3 DEF Save, Noted, ZipInv, TypeOK, CheckpointRecord
  <2> QED BY <1>1, <2>1, <2>2 DEF NotBehindSaved
<1>4. saved' = saved \/ saved' = NoSave \/ (pc = "copy" /\ Save)
  BY DEF Next, Extract, ResumeFresh, ResumeSaved, ResumeHeld, PreallocateFails,
         MakeDirOrSymlink, OpenEntry, EntryFails, Finish, ReadEnd, ReadStored, ReadDeflated,
         ReadDeflatedSave, ReadPlain, ReadFails, Copying, NoSaveNow, SaveFails, Write,
         WriteLast, CopyFails, WriteFails, Crash, PowerLoss, Dies
<1> QED BY <1>2, <1>3, <1>4

LEMMA ZipInvariant == Spec => []ZipInv
  BY InitZipInv, NextZipInv, PTL DEF Spec

(***************************************************************************)
(* The variables stay in their types, for every archive.                   *)
(***************************************************************************)
THEOREM ZipTyped == Spec => []TypeOK
  BY ZipInvariant, PTL DEF ZipInv

(***************************************************************************)
(* Without losses of power, whatever else fails, a result that is returned *)
(* is complete: every entry of every archive, with nothing after its data. *)
(***************************************************************************)
THEOREM ZipResultComplete == ~PowerFails => (Spec => []ResultComplete)
<1> SUFFICES ASSUME ~PowerFails PROVE Spec => []ResultComplete
  OBVIOUS
<1>1. ZipInv => ResultComplete
  BY DEF ZipInv, ResultInv, ResultComplete
<1> QED BY <1>1, ZipInvariant, PTL

(***************************************************************************)
(* Without losses of power, the persisted checkpoint can always be resumed.*)
(***************************************************************************)
THEOREM ZipSavedResumable == ~PowerFails => (Spec => []SavedResumable)
<1> SUFFICES ASSUME ~PowerFails PROVE Spec => []SavedResumable
  OBVIOUS
<1>1. ZipInv => SavedResumable
  BY DEF ZipInv, SavedInv, SavedResumable, Resumable, EarlierExtracted, InsideEntry
<1> QED BY <1>1, ZipInvariant, PTL

(***************************************************************************)
(* The data a persisted checkpoint counts on in its own entry is on disk,  *)
(* losses of power included.                                               *)
(***************************************************************************)
THEOREM ZipSavedDurable == Spec => []SavedDurable
<1>1. ZipInv => SavedDurable
  <2> SUFFICES ASSUME ZipInv, saved # NoSave PROVE disk[saved.idx].good >= saved.woff
    BY DEF SavedDurable
  <2>1. saved.woff <= disk[saved.idx].good
    BY DEF ZipInv, SavedInv
  <2> QED BY <2>1
<1> QED BY <1>1, ZipInvariant, PTL

(***************************************************************************)
(* The persisted checkpoint never moves back, but for a fresh start.       *)
(***************************************************************************)
THEOREM ZipSavedAdvances == Spec => SavedAdvances
<1>1. ZipInv /\ [Next]_vars =>
        [saved # NoSave /\ saved' # NoSave =>
           \/ saved'.idx > saved.idx
           \/ saved'.idx = saved.idx /\ saved'.woff >= saved.woff]_vars
  BY NextAdvances
<1> QED BY <1>1, ZipInvariant, PTL DEF Spec, SavedAdvances

-----------------------------------------------------------------------------
(***************************************************************************)
(* The promise of extractor.go, kept step by step: the place up to which   *)
(* everything is extracted is the first entry that is not complete.        *)
(***************************************************************************)
SavedPlace == [idx |-> saved.idx, off |-> IF saved = NoSave THEN 0 ELSE saved.woff]
Stopping == stop /\ pc # "idle"

\* Who was told to stop does nothing else than return.
StopInv == stop => pc \in {"write", "idle"}

LEMMA NextStopInv == ASSUME ZipInv, StopInv, [Next]_vars PROVE StopInv'
<1>1. CASE UNCHANGED vars
  BY <1>1 DEF vars, StopInv
<1>2. CASE Next
  <2>1. pc' \in {"write", "idle"} \/ ~stop'
    BY <1>2
    DEF StopInv, Next, Extract, ResumeFresh, ResumeSaved, ResumeHeld, Begin, PreallocateFails,
        MakeDirOrSymlink, EntryDone, OpenEntry, EntryFails, AtEntry, Finish, Return, ReadEnd,
        ReadStored, ReadDeflated, ReadDeflatedSave, ReadPlain, ReadFails, Hands, Write,
        CopierStops, WriteLast, CopyFails, WriteFails, Crash, PowerLoss, Dies
  <2> QED BY <2>1 DEF StopInv
<1> QED BY <1>1, <1>2

LEMMA PlaceFacts ==
  ASSUME TypeOK
  PROVE  /\ PlaceExtracted \in [idx : 0 .. NumEntries, off : Nat]
         /\ \A j \in Entries : j < PlaceExtracted.idx => Extracted(j)
         /\ PlaceExtracted.idx \in Entries =>
              /\ ~Extracted(PlaceExtracted.idx)
              /\ PlaceExtracted.off = cache[PlaceExtracted.idx].good
         /\ PlaceExtracted.idx \notin Entries =>
              PlaceExtracted = [idx |-> NumEntries, off |-> 0]
<1> DEFINE S == {j \in Entries : ~Extracted(j)} \cup {NumEntries}
           i == Min(S)
<1>1. S \in SUBSET (0 .. NumEntries) /\ S \in SUBSET Nat /\ S # {}
  BY DEF Entries
<1> HIDE DEF S
<1>2. i \in S /\ \A y \in S : i <= y
  BY <1>1, MinIsLeast
<1> HIDE DEF i
<1>3. i \in 0 .. NumEntries
  BY <1>1, <1>2
<1>4. PlaceExtracted = [idx |-> i, off |-> IF i \in Entries THEN cache[i].good ELSE 0]
  BY DEF PlaceExtracted, i, S
<1>5. \A j \in Entries : j < i => Extracted(j)
  BY <1>2, <1>3 DEF S, Entries
<1>6. i \in Entries => ~Extracted(i) /\ cache[i].good \in Nat
  BY <1>2 DEF S, Entries, TypeOK, EntryFiles
<1>7. i \notin Entries => i = NumEntries
  BY <1>3 DEF Entries
<1> QED BY <1>3, <1>4, <1>5, <1>6, <1>7

\* What the abstract specification asks of every state.
PlaceKept ==
  /\ PlaceExtracted \in Promise!Places
  /\ Promise!AtMost(SavedPlace, PlaceExtracted)
  /\ result = "ok" => PlaceExtracted = Promise!End

LEMMA SavedIsExtracted == ASSUME ~PowerFails PROVE ZipInv => PlaceKept
<1> SUFFICES ASSUME ZipInv PROVE PlaceKept
  OBVIOUS
<1> USE DEF ZipInv
<1>1. PlaceExtracted \in [idx : 0 .. NumEntries, off : Nat]
  BY PlaceFacts
<1>2. PlaceExtracted \in Promise!Places
  BY <1>1 DEF Promise!Places
<1>3. Promise!AtMost(SavedPlace, PlaceExtracted)
  <2>1. CASE saved = NoSave
    <3>1. SavedPlace.idx = -1
      BY <2>1 DEF SavedPlace, NoSave
    <3> QED BY <1>1, <3>1 DEF Promise!AtMost
  <2>2. CASE saved # NoSave
    <3>1. PICK i \in Entries : i = saved.idx
      BY <2>2 DEF SavedInv
    <3>2. /\ saved.woff <= cache[i].good
          /\ \A j \in Entries : j < i => Extracted(j)
      BY <2>2, <3>1 DEF SavedInv, InsideEntry, EarlierExtracted
    <3>3. ~(PlaceExtracted.idx < i)
      <4> SUFFICES ASSUME PlaceExtracted.idx < i PROVE FALSE
        OBVIOUS
      <4>1. PlaceExtracted.idx \in Entries
        BY <1>1 DEF Entries
      <4> QED BY <3>2, <4>1, PlaceFacts
    <3>4. PlaceExtracted.idx = i => saved.woff <= PlaceExtracted.off
      BY <3>2, PlaceFacts
    <3> QED BY <1>1, <2>2, <3>1, <3>3, <3>4 DEF Promise!AtMost, SavedPlace, Entries
  <2> QED BY <2>1, <2>2
<1>4. ASSUME result = "ok" PROVE PlaceExtracted = Promise!End
  <2>1. \A j \in Entries : Extracted(j)
    BY <1>4 DEF ResultInv
  <2> QED BY <2>1, PlaceFacts DEF Promise!End
<1> QED BY <1>2, <1>3, <1>4 DEF PlaceKept

LEMMA PromiseInit == ASSUME Init PROVE Promise!Init
<1>1. PlaceExtracted \in Promise!Places
  BY InitZipInv, PlaceFacts DEF ZipInv, Promise!Places
<1>2. SavedPlace = Promise!None
  BY DEF Init, SavedPlace, NoSave, Promise!None
<1> QED BY <1>1, <1>2 DEF Init, SavedPlace, Promise!Init

\* Each step, as far as the promise can tell.
Works == UNCHANGED <<saved, Stopping>> /\ result' = "none"

Persists ==
  /\ ~Stopping /\ Stopping' \in BOOLEAN /\ result' = "none"
  /\ SavedPlace' \in Promise!Places /\ Promise!AtMost(SavedPlace, SavedPlace')

Returns ==
  /\ UNCHANGED saved /\ Stopping' = FALSE
  /\ \/ result' = "failed"
     \/ result' = "stopped" /\ Stopping
     \/ result' = "ok" /\ ~Stopping

LEMMA WorksRefines == ASSUME Works, PlaceKept' PROVE Promise!Next
  BY DEF Works, PlaceKept, SavedPlace, Stopping, Promise!Next, Promise!Extract,
         Promise!KeepsSaved

LEMMA PersistsRefines == ASSUME Persists, PlaceKept' PROVE Promise!Next
  BY DEF Persists, PlaceKept, SavedPlace, Stopping, Promise!Next, Promise!Save,
         Promise!KeepsSaved

LEMMA ReturnsRefines == ASSUME Returns, PlaceKept' PROVE Promise!Next
  BY DEF Returns, PlaceKept, SavedPlace, Stopping, Promise!Next, Promise!Return,
         Promise!ReturnsError, Promise!ReturnsErrStop, Promise!ReturnsResult,
         Promise!KeepsSaved

LEMMA ResumeRefines ==
  ASSUME ZipInv, PlaceKept', ResumeFresh \/ PreallocateFails \/ ResumeSaved \/ ResumeHeld
  PROVE  Promise!Next
<1>1. CASE ResumeFresh \/ PreallocateFails
  <2>1. saved' = NoSave /\ (stop' = FALSE \/ pc' = "idle") /\ result' \in {"none", "failed"}
    BY <1>1 DEF ResumeFresh, Begin, PreallocateFails, Return
  <2>2. SavedPlace' = Promise!None /\ Stopping' = FALSE
    BY <2>1 DEF SavedPlace, NoSave, Promise!None, Stopping
  <2> QED
    BY <2>1, <2>2 DEF PlaceKept, SavedPlace, Stopping, Promise!Next, Promise!StartAfresh
<1>2. CASE ResumeSaved \/ ResumeHeld
  <2>1. saved' = saved /\ pc = "idle" /\ stop' = FALSE /\ result' = "none"
    BY <1>2 DEF ResumeSaved, ResumeHeld, Begin
  <2>2. Stopping = FALSE /\ Stopping' = FALSE
    BY <2>1 DEF Stopping
  <2> QED BY <2>1, <2>2, WorksRefines DEF Works
<1> QED BY <1>1, <1>2

LEMMA LoopRefines ==
  ASSUME ZipInv, StopInv, PlaceKept',
         MakeDirOrSymlink \/ OpenEntry \/ EntryFails \/ Finish
  PROVE  Promise!Next
<1> USE DEF ZipInv
<1>1. pc = "entry" /\ result = "none" /\ ~stop /\ UNCHANGED <<saved, stop>>
  BY DEF MakeDirOrSymlink, OpenEntry, EntryFails, Finish, AtEntry, ResultInv, StopInv
<1>2. Stopping = FALSE /\ Stopping' = FALSE
  BY <1>1 DEF Stopping
<1>3. CASE MakeDirOrSymlink \/ OpenEntry
  <2>1. result' = result
    BY <1>1, <1>3 DEF MakeDirOrSymlink, EntryDone, OpenEntry
  <2> QED BY <1>1, <1>2, <2>1, WorksRefines DEF Works
<1>4. CASE EntryFails \/ Finish
  <2>1. result' \in {"failed", "ok"}
    BY <1>4 DEF EntryFails, Finish, Return
  <2> QED BY <1>1, <1>2, <2>1, ReturnsRefines DEF Returns
<1> QED BY <1>3, <1>4

LEMMA ReadRefines ==
  ASSUME ZipInv, StopInv, PlaceKept',
         ReadEnd \/ ReadStored \/ ReadDeflated \/ ReadDeflatedSave \/ ReadPlain \/ ReadFails
  PROVE  Promise!Next
<1> USE DEF ZipInv
<1>1. pc = "copy" /\ result = "none" /\ ~stop /\ pc' = "write" /\ result' = result
  BY DEF ReadEnd, ReadStored, ReadDeflated, ReadDeflatedSave, ReadPlain, ReadFails, Copying,
         Hands, ResultInv, StopInv
<1>2. UNCHANGED <<saved, stop>> \/ Save
  BY DEF ReadEnd, ReadStored, ReadDeflated, ReadDeflatedSave, ReadPlain, ReadFails, NoSaveNow,
         SaveFails
<1>3. CASE UNCHANGED <<saved, stop>>
  <2>1. Stopping = FALSE /\ Stopping' = FALSE
    BY <1>1, <1>3 DEF Stopping
  <2> QED BY <1>1, <1>3, <2>1, WorksRefines DEF Works
<1>4. CASE Save
  <2>1. /\ ckpt.idx \in 0 .. NumEntries /\ ckpt.woff \in Nat /\ NotBehindSaved(ckpt)
        /\ ckpt \in CheckpointRecord
    BY <1>1 DEF TypeOK, CheckpointRecord, CkptInv, InUse
  <2>2. saved'.idx = ckpt.idx /\ saved'.woff = ckpt.woff /\ stop' \in BOOLEAN
    BY <1>4, <2>1 DEF Save, Noted, TypeOK, CheckpointRecord
  <2>3. SavedPlace' = [idx |-> ckpt.idx, off |-> ckpt.woff]
    BY <2>1, <2>2 DEF SavedPlace, NoSave
  <2>4. SavedPlace' \in Promise!Places
    BY <2>1, <2>3 DEF Promise!Places
  <2>5. Promise!AtMost(SavedPlace, SavedPlace')
    <3>1. saved = NoSave => SavedPlace.idx = -1
      BY DEF SavedPlace, NoSave
    <3> QED BY <2>1, <2>3, <3>1 DEF Promise!AtMost, NotBehindSaved, SavedPlace
  <2>6. Stopping' \in BOOLEAN /\ ~Stopping
    BY <1>1, <2>2 DEF Stopping
  <2> QED BY <1>1, <2>4, <2>5, <2>6, PersistsRefines DEF Persists
<1> QED BY <1>2, <1>3, <1>4

LEMMA WriteRefines ==
  ASSUME ZipInv, PlaceKept', Write \/ WriteLast \/ CopyFails \/ WriteFails
  PROVE  Promise!Next
<1> USE DEF ZipInv
<1>1. pc = "write" /\ result = "none" /\ UNCHANGED <<saved, stop>>
  BY DEF Write, WriteLast, CopyFails, WriteFails, ResultInv
<1>2. \/ ~stop /\ result' = "none"
      \/ stop /\ pc' = "idle" /\ result' = "stopped"
      \/ pc' = "idle" /\ result' = "failed"
  BY <1>1 DEF Write, WriteLast, EntryDone, CopierStops, CopyFails, WriteFails, Return
<1>3. CASE ~stop /\ result' = "none"
  <2>1. Stopping = FALSE /\ Stopping' = FALSE
    BY <1>1, <1>3 DEF Stopping
  <2> QED BY <1>1, <1>3, <2>1, WorksRefines DEF Works
<1>4. CASE stop /\ pc' = "idle" /\ result' = "stopped"
  BY <1>1, <1>4, ReturnsRefines DEF Returns, Stopping
<1>5. CASE pc' = "idle" /\ result' = "failed"
  BY <1>1, <1>5, ReturnsRefines DEF Returns, Stopping
<1> QED BY <1>2, <1>3, <1>4, <1>5

LEMMA DiesRefines == ASSUME ~PowerFails, Crash \/ PowerLoss PROVE Promise!Next
<1>1. Crash
  BY DEF PowerLoss
<1>2. UNCHANGED <<cache, saved>> /\ stop' = FALSE /\ result' = "none"
  BY <1>1 DEF Crash, Dies, files
<1>3. UNCHANGED PlaceExtracted
  BY <1>2 DEF PlaceExtracted, Extracted
<1> QED BY <1>2, <1>3 DEF Promise!Next, Promise!Dies

LEMMA StepKeepsPromise ==
  ASSUME ~PowerFails, ZipInv, StopInv, PlaceKept', [Next]_vars
  PROVE  [Promise!Next]_(Promise!vars)
<1>1. CASE UNCHANGED vars
  BY <1>1 DEF vars, Promise!vars, PlaceExtracted, Extracted
<1>2. CASE Next
  BY <1>2, ResumeRefines, LoopRefines, ReadRefines, WriteRefines, DiesRefines
  DEF Next, Extract
<1> QED BY <1>1, <1>2

(***************************************************************************)
(* Without losses of power, and retries with what an error left in memory  *)
(* included, zip keeps the promise of extractor.go for every archive.      *)
(***************************************************************************)
THEOREM ZipKeepsPromise == ~PowerFails => (Spec => KeepsPromise)
<1> SUFFICES ASSUME ~PowerFails PROVE Spec => KeepsPromise
  OBVIOUS
<1>1. Init => Promise!Init
  BY PromiseInit
<1>2. Init => StopInv
  BY DEF Init, StopInv
<1>3. ZipInv /\ StopInv /\ [Next]_vars => StopInv'
  BY NextStopInv
<1>4. ZipInv => PlaceKept
  BY SavedIsExtracted
<1>5. ZipInv /\ StopInv /\ PlaceKept' /\ [Next]_vars => [Promise!Next]_(Promise!vars)
  BY StepKeepsPromise
<1> QED
  BY <1>1, <1>2, <1>3, <1>4, <1>5, ZipInvariant, PTL DEF Spec, KeepsPromise, Promise!Spec

-----------------------------------------------------------------------------
(***************************************************************************)
(* Why extraction ends. A source is opened at or after the persisted       *)
(* checkpoint and wants no save; it only wants one after a write; and by   *)
(* then it has handed over something, or stopped at a block end where it   *)
(* could save.                                                             *)
(***************************************************************************)
InSavedEntry == saved # NoSave /\ saved.idx = ckpt.idx

\* where a save may be wanted, or come to be wanted by the write in hand
MayServe ==
  \/ pc = "copy" /\ src.want
  \/ pc = "write" /\ chunk.end = "more"

Gained == saved.soff < src.off \/ (saved.soff = src.off /\ src.ends > 0)

GainInv ==
  /\ saved # NoSave => saved.soff \in Nat
  /\ InUse /\ InSavedEntry => saved.soff <= ckpt.soff
  /\ pc \in {"copy", "write"} /\ InSavedEntry => saved.soff <= src.off
  /\ MayServe /\ InSavedEntry => Gained

LEMMA OpenGains == ASSUME ZipInv, GainInv, OpenEntry PROVE GainInv'
<1> USE DEF ZipInv
<1> DEFINE w == WriteOffset(ckpt)
<1>1. AtFile /\ IsFile(ckpt.idx) /\ pc = "entry"
  BY DEF OpenEntry, AtEntry, AtFile, TypeOK, CheckpointRecord, Entries
<1>2. /\ w \in Nat
      /\ saved # NoSave /\ saved.idx = ckpt.idx => saved.woff <= w
      /\ Archive[ckpt.idx].kind = "ignored" => w = 0
  BY <1>1, WriteOffsetFacts
<1>3. /\ UNCHANGED saved /\ pc' = "copy" /\ ckpt' = [ckpt EXCEPT !.woff = w]
      /\ ckpt'.idx = ckpt.idx /\ ckpt'.soff = ckpt.soff
  BY DEF OpenEntry, TypeOK, CheckpointRecord
<1>4. PICK off \in ResumedAt(ckpt) :
        src' = NewSource(Discarded(off, w))
  BY DEF OpenEntry, w
<1>5. ~src'.want /\ src'.off = Discarded(off, w) /\ ckpt.soff \in {-1} \cup Nat
  BY <1>4 DEF NewSource, TypeOK, CheckpointRecord, NoOffset
<1> HIDE DEF w
<1>6. ASSUME InSavedEntry PROVE saved.soff <= src'.off
  <2>1. /\ saved.soff \in Nat /\ saved.woff \in Nat /\ saved.soff <= ckpt.soff
        /\ Archive[ckpt.idx].kind \in {"stored", "ignored", "deflated"}
        /\ IsWritten(ckpt.idx) => saved.soff <= saved.woff
    BY <1>1, <1>6 DEF GainInv, InUse, SavedInv, InsideEntry, InSavedEntry
  <2>2. CASE IsWritten(ckpt.idx)
    <3>1. Discarded(off, w) \in Int /\ Discarded(off, w) >= w
      BY <1>2, <1>5 DEF ResumedAt, Discarded, NoOffset
    <3> QED BY <1>2, <1>5, <1>6, <2>1, <2>2, <3>1 DEF InSavedEntry
  <2>3. CASE ~IsWritten(ckpt.idx)
    <3>1. kind = "ignored"
      BY <1>1, <2>1, <2>3, ArchiveFacts DEF AtFile, kind
    <3>2. off = ckpt.soff
      BY <1>4, <1>5, <2>1, <3>1 DEF ResumedAt, SavesAnywhere, NoOffset
    <3> QED BY <1>2, <1>5, <2>1, <3>1, <3>2 DEF Discarded, kind
  <2> QED BY <2>2, <2>3
<1> QED BY <1>1, <1>3, <1>5, <1>6 DEF GainInv, InUse, InSavedEntry, MayServe

\* A save is for where the source is, and the read goes on from there.
LEMMA HandsGains ==
  ASSUME ZipInv, GainInv, pc = "copy", SavesOrNot,
         NEW n \in Nat, NEW end \in {"more", "eof", "error"}, NEW want \in BOOLEAN,
         Hands(n, end, want)
  PROVE  GainInv'
<1> USE DEF ZipInv
<1>1. UNCHANGED <<cache, held>> /\ pc' = "write"
  BY DEF Hands
<1>2. /\ src'.off = src.off + n /\ src.off \in Nat /\ chunk'.end = end
      /\ n = 0 /\ end = "more" => src'.ends > 0
  BY DEF Hands, EndsAfter, TypeOK
<1>3. ckpt \in CheckpointRecord /\ ckpt.soff \in Int /\ InUse
  BY DEF TypeOK, CheckpointRecord, InUse, NoOffset
<1>4. ckpt'.idx = ckpt.idx
  BY <1>1, SaveInv
<1>6. MayServe' => end = "more"
  BY <1>1, <1>2 DEF MayServe
<1>7. \/ ckpt' = ckpt /\ saved' = saved
      \/ ckpt' = Noted(ckpt, src.off) /\ saved' \in {saved, Noted(ckpt, src.off)}
  BY DEF SavesOrNot, Save, SaveFails
<1>8. /\ Noted(ckpt, src.off).soff = src.off /\ Noted(ckpt, src.off).idx = ckpt.idx
  BY <1>3 DEF Noted, CheckpointRecord
<1>9. saved' # NoSave => saved'.soff \in Nat
  BY <1>2, <1>7, <1>8 DEF GainInv
<1>10. ASSUME InSavedEntry' PROVE saved'.soff <= ckpt'.soff /\ saved'.soff <= src.off
  <2>1. CASE saved' = saved
    <3>1. InSavedEntry
      BY <1>4, <1>10, <2>1 DEF InSavedEntry
    <3> QED BY <1>3, <1>7, <1>8, <2>1, <3>1 DEF GainInv
  <2>2. CASE saved' = Noted(ckpt, src.off) /\ ckpt' = saved'
    BY <1>2, <1>8, <2>2
  <2> QED BY <1>7, <2>1, <2>2
<1>11. ASSUME InSavedEntry' PROVE saved'.soff <= src'.off /\ (n > 0 => saved'.soff < src'.off)
  BY <1>2, <1>9, <1>10, <1>11 DEF InSavedEntry
<1>12. ASSUME InSavedEntry', MayServe' PROVE Gained'
  BY <1>2, <1>6, <1>9, <1>11, <1>12 DEF Gained, InSavedEntry
<1> QED BY <1>9, <1>10, <1>11, <1>12 DEF GainInv

LEMMA ReadGains ==
  ASSUME ZipInv, GainInv,
         ReadEnd \/ ReadStored \/ ReadDeflated \/ ReadDeflatedSave \/ ReadPlain \/ ReadFails
  PROVE  GainInv'
<1> USE DEF ZipInv
<1>1. pc = "copy"
  BY DEF ReadEnd, ReadStored, ReadDeflated, ReadDeflatedSave, ReadPlain, ReadFails, Copying
<1>2. src.off \in Nat /\ src.want \in BOOLEAN /\ size \in Nat
  <2>1. ckpt.idx \in Entries
    BY <1>1 DEF TypeOK, CheckpointRecord, Entries
  <2> QED BY <2>1, ArchiveFacts DEF TypeOK, size
<1>3. \A n \in Lengths : n \in Nat /\ n # 0
  BY <1>2 DEF Lengths, Lesser
<1>4. SavesAnywhere \/ kind = "deflated" => Saveable
  BY DEF SavesAnywhere, kind, Saveable
<1>5. SavesOrNot
  BY <1>4 DEF SavesOrNot, ReadEnd, ReadStored, ReadDeflated, ReadDeflatedSave, ReadPlain,
              ReadFails, NoSaveNow, BlockEndsNow
<1>6. PICK n \in Nat, end \in {"more", "eof", "error"}, want \in BOOLEAN :
        Hands(n, end, want)
  <2>1. CASE ReadEnd \/ ReadFails
    BY <1>2, <2>1 DEF ReadEnd, ReadFails
  <2>2. CASE ReadStored \/ ReadPlain
    BY <1>3, <2>2 DEF ReadStored, ReadPlain
  <2>3. CASE ReadDeflated
    BY <1>2, <1>3, <2>3 DEF ReadDeflated
  <2>4. CASE ReadDeflatedSave
    BY <2>4 DEF ReadDeflatedSave
  <2> QED BY <2>1, <2>2, <2>3, <2>4
<1> QED BY <1>1, <1>5, <1>6, HandsGains

LEMMA WriteGains ==
  ASSUME ZipInv, GainInv, Write \/ WriteLast \/ CopyFails \/ WriteFails
  PROVE  GainInv'
<1> USE DEF ZipInv
<1>1. pc = "write" /\ UNCHANGED saved /\ InUse /\ ckpt \in CheckpointRecord
  BY DEF Write, WriteLast, CopyFails, WriteFails, InUse, TypeOK
<1>2. \/ ~InUse'
      \/ pc' = "entry" /\ ckpt' = Start(ckpt.idx + 1)
      \/ pc' = "idle" /\ ckpt'.idx = ckpt.idx /\ ckpt'.soff = ckpt.soff
      \/ /\ pc' = "copy" /\ chunk.end = "more"
         /\ ckpt'.idx = ckpt.idx /\ ckpt'.soff = ckpt.soff
         /\ src' \in {src, [src EXCEPT !.want = TRUE]}
  <2>1. \A n \in 0 .. chunk.n : Moved(n).idx = ckpt.idx /\ Moved(n).soff = ckpt.soff
    BY <1>1 DEF Moved, CheckpointRecord
  <2>2. chunk.n \in 0 .. chunk.n
    BY DEF TypeOK
  <2>3. CASE Write
    BY <2>1, <2>2, <2>3 DEF Write, Return, InUse
  <2>4. CASE WriteLast
    BY <2>4 DEF WriteLast, EntryDone, NextEntry, Return, InUse
  <2>5. CASE CopyFails \/ WriteFails
    BY <2>1, <2>2, <2>5 DEF CopyFails, WriteFails, Return
  <2> QED BY <2>3, <2>4, <2>5
<1>3. CASE ~InUse'
  BY <1>1, <1>3 DEF GainInv, InUse, MayServe
<1>4. CASE pc' = "entry" /\ ckpt' = Start(ckpt.idx + 1)
  <2>1. ~InSavedEntry'
    <3>1. ckpt'.idx = ckpt.idx + 1 /\ ckpt.idx \in Int
      BY <1>1, <1>4 DEF Start, CheckpointRecord
    <3>2. saved # NoSave => saved.idx \in Int /\ saved.idx <= ckpt.idx
      BY <1>1, <3>1 DEF CkptInv, NotBehindSaved, SavedInv, Entries
    <3> QED BY <1>1, <3>1, <3>2 DEF InSavedEntry
  <2> QED BY <1>1, <1>4, <2>1 DEF GainInv
<1>5. CASE pc' = "idle" /\ ckpt'.idx = ckpt.idx /\ ckpt'.soff = ckpt.soff
  BY <1>1, <1>5 DEF GainInv, InSavedEntry, MayServe
<1>6. CASE /\ pc' = "copy" /\ chunk.end = "more"
           /\ ckpt'.idx = ckpt.idx /\ ckpt'.soff = ckpt.soff
           /\ src' \in {src, [src EXCEPT !.want = TRUE]}
  <2>1. src'.off = src.off /\ src'.ends = src.ends
    BY <1>6 DEF TypeOK
  <2>2. MayServe' => MayServe
    BY <1>1, <1>6, <2>1 DEF MayServe
  <2> QED BY <1>1, <1>6, <2>1, <2>2 DEF GainInv, Gained, InSavedEntry
<1> QED BY <1>2, <1>3, <1>4, <1>5, <1>6

LEMMA NextGains == ASSUME ZipInv, GainInv, [Next]_vars PROVE GainInv'
<1> USE DEF ZipInv
<1>1. CASE UNCHANGED vars
  BY <1>1 DEF vars, GainInv, Gained, InUse, InSavedEntry, MayServe
<1>2. CASE ResumeFresh \/ PreallocateFails
  <2>1. saved' = NoSave
    BY <1>2 DEF ResumeFresh, PreallocateFails
  <2> QED BY <2>1 DEF GainInv, InSavedEntry
<1>3. CASE ResumeSaved \/ ResumeHeld
  <2>1. pc' = "entry" /\ UNCHANGED saved /\ ckpt' \in {saved, ckpt}
        /\ (ckpt' = saved \/ InUse)
    BY <1>3 DEF ResumeSaved, ResumeHeld, Begin, InUse
  <2> QED BY <2>1 DEF GainInv, InSavedEntry, MayServe
<1>4. CASE MakeDirOrSymlink
  <2>1. AtFile /\ pc = "entry" /\ Archive[ckpt.idx].kind \in {"dir", "symlink"}
    BY <1>4 DEF MakeDirOrSymlink, AtEntry, AtFile, TypeOK, CheckpointRecord, Entries, kind
  <2>2. /\ saved # NoSave => saved.idx < ckpt.idx
        /\ ckpt.idx \in Int /\ (saved # NoSave => saved.idx \in Int)
    BY <2>1 DEF CkptInv, InUse, NotBehindSaved, SavedInv, AtFile, Entries
  <2>3. /\ UNCHANGED saved /\ pc' \in {"idle", "entry"}
        /\ ckpt' \in {Start(ckpt.idx), Start(ckpt.idx + 1)}
    BY <1>4 DEF MakeDirOrSymlink, EntryDone, AfterStop, NextEntry, Return
  <2>4. ~InSavedEntry'
    BY <2>2, <2>3 DEF InSavedEntry, Start
  <2> QED BY <2>3, <2>4 DEF GainInv
<1>5. CASE OpenEntry
  BY <1>5, OpenGains
<1>6. CASE EntryFails
  <2>1. /\ pc = "entry" /\ pc' = "idle" /\ UNCHANGED saved
        /\ ckpt'.idx = ckpt.idx /\ ckpt'.soff = ckpt.soff
    BY <1>6 DEF EntryFails, AtEntry, Return, TypeOK, CheckpointRecord
  <2> QED BY <2>1 DEF GainInv, InUse, InSavedEntry, MayServe
<1>7. CASE Finish
  <2>1. pc' = "idle" /\ held' = FALSE /\ UNCHANGED saved
    BY <1>7 DEF Finish, Return
  <2> QED BY <2>1 DEF GainInv, InUse, MayServe
<1>8. CASE ReadEnd \/ ReadStored \/ ReadDeflated \/ ReadDeflatedSave \/ ReadPlain \/ ReadFails
  BY <1>8, ReadGains
<1>9. CASE Write \/ WriteLast \/ CopyFails \/ WriteFails
  BY <1>9, WriteGains
<1>10. CASE Crash \/ PowerLoss
  <2>1. pc' = "idle" /\ held' = FALSE /\ UNCHANGED saved
    BY <1>10 DEF Crash, PowerLoss, Dies
  <2> QED BY <2>1 DEF GainInv, InUse, MayServe
<1> QED
  BY <1>1, <1>2, <1>3, <1>4, <1>5, <1>6, <1>7, <1>8, <1>9, <1>10 DEF Next, Extract

LEMMA GainSaves == ASSUME ZipInv, GainInv PROVE NextSaveGains
<1> SUFFICES ASSUME CanSave, saved # NoSave
             PROVE  saved.idx < ckpt.idx \/ (saved.idx = ckpt.idx /\ Gained)
  BY DEF NextSaveGains, Gained
<1>1. NotBehindSaved(ckpt) /\ MayServe
  BY DEF CanSave, ZipInv, CkptInv, InUse, MayServe
<1> QED BY <1>1 DEF NotBehindSaved, GainInv, InSavedEntry

(***************************************************************************)
(* A save that the next read can serve is for a place past the persisted   *)
(* one, or for an empty block at the place this very call has come to and  *)
(* stopped at: for every archive, and whatever failed before, losses of    *)
(* power included. No consumer that stops a call at each of its saves is   *)
(* given the same place by the next one.                                   *)
(***************************************************************************)
THEOREM ZipNextSaveGains == Spec => []NextSaveGains
<1>1. Init => GainInv
  BY DEF Init, GainInv, InSavedEntry
<1>2. ZipInv /\ GainInv /\ [Next]_vars => GainInv'
  BY NextGains
<1>3. ZipInv /\ GainInv => NextSaveGains
  BY GainSaves
<1> QED BY <1>1, <1>2, <1>3, ZipInvariant, PTL DEF Spec

-----------------------------------------------------------------------------
(***************************************************************************)
(* What sink.go lets a caller do, kept step by step for each destination.  *)
(***************************************************************************)
DestOf(i) == [kind |-> IF cache[i].len = -1 THEN "none" ELSE "file", file |-> cache[i]]

OffsetOf(i) == IF pc \in {"copy", "write"} /\ ckpt.idx = i THEN ckpt.woff ELSE -1

PlacesKeep == \A i \in WrittenEntries : [Place(i)!Next]_(Place(i)!vars)

\* Both modules have EntryFile for what is done to a file.
LEMMA SameCreated ==
  ASSUME NEW i, NEW f
  PROVE  Place(i)!Created(f) = Created(f)
<1>1. \A a, b : Place(i)!Greater(a, b) = Greater(a, b)
  BY DEF Place!Greater, Greater
<1> QED BY <1>1 DEF Place!Created, Created

LEMMA SameWriterAt ==
  ASSUME NEW i, NEW f, NEW n
  PROVE  Place(i)!WriterAt(f, n) = WriterAt(f, n)
<1>1. \A a, b : Place(i)!Lesser(a, b) = Lesser(a, b)
  BY DEF Place!Lesser, Lesser
<1> QED BY <1>1 DEF Place!WriterAt, WriterAt

LEMMA SamePreallocated ==
  ASSUME NEW i, NEW f, NEW n
  PROVE  Place(i)!Preallocated(f, n) = Preallocated(f, n)
<1>1. \A a, b : Place(i)!Greater(a, b) = Greater(a, b)
  BY DEF Place!Greater, Greater
<1> QED BY <1>1, SameCreated DEF Place!Preallocated, Preallocated

LEMMA SameAppended ==
  ASSUME NEW i, NEW f, NEW pos, NEW at, NEW n
  PROVE  Place(i)!Appended(f, pos, at, n) = Appended(f, pos, at, n)
<1>1. \A a, b : /\ Place(i)!Greater(a, b) = Greater(a, b)
               /\ Place(i)!Lesser(a, b) = Lesser(a, b)
  BY DEF Place!Greater, Greater, Place!Lesser, Lesser
<1> QED BY <1>1 DEF Place!Appended, Appended

LEMMA PlaceInit ==
  ASSUME Init, NEW i \in WrittenEntries
  PROVE  Place(i)!Init
<1>1. i \in Entries /\ cache[i] \in {Missing, Older(MaxRead + 1)}
  BY DEF Init, WrittenEntries
<1>2. cache[i].len = -1 => cache[i] = Missing
  BY <1>1 DEF Missing, Older
<1>3. cache[i] \in EntryFiles
  BY <1>1 DEF Missing, Older, EntryFiles
<1>4. Place(i)!EntryFiles = EntryFiles /\ Place(i)!Missing = Missing
  BY DEF Place!EntryFiles, EntryFiles, Place!Missing, Missing
<1>5. DestOf(i) \in [kind : {"none", "dir", "link", "file"}, file : EntryFiles]
      /\ (DestOf(i).kind # "file" => DestOf(i).file = Missing)
  BY <1>2, <1>3 DEF DestOf
<1>6. OffsetOf(i) = -1
  BY DEF Init, OffsetOf
<1> QED
  BY <1>4, <1>5, <1>6 DEF DestOf, OffsetOf, Place!Init, Place!Kinds, Place!NoWriter

\* What leaves a destination alone, but that its writer may be closed.
LEMMA LeftAlone ==
  ASSUME NEW i \in WrittenEntries, cache'[i] = cache[i], OffsetOf(i)' \in {OffsetOf(i), -1}
  PROVE  [Place(i)!Next]_(Place(i)!vars)
<1>1. DestOf(i)' = DestOf(i)
  BY DEF DestOf
<1>2. CASE OffsetOf(i)' = OffsetOf(i)
  BY <1>1, <1>2 DEF DestOf, OffsetOf, Place!vars
<1>3. CASE OffsetOf(i)' = -1
  BY <1>1, <1>3 DEF DestOf, OffsetOf, Place!Next, Place!CloseWriter, Place!NoWriter
<1> QED BY <1>2, <1>3

\* A destination that a step leaves a file at.
LEMMA LeavesFile ==
  ASSUME NEW i, NEW f, cache'[i] = f, f.len # -1
  PROVE  DestOf(i)' = Place(i)!File(f)
  BY DEF DestOf, Place!File

\* Preallocation of a file that may not be there.
LEMMA PreallocatedFacts ==
  ASSUME NEW f \in EntryFiles, NEW n \in Nat
  PROVE  /\ Created(f) \in EntryFiles /\ Created(f).len \in Nat
         /\ Preallocated(f, 0) = Created(f)
         /\ Preallocated(Created(f), n) = Preallocated(f, n)
         /\ Preallocated(f, n).len \in Nat
<1>1. f = [len |-> f.len, good |-> f.good] /\ f.len \in {-1} \cup Nat /\ f.good \in Nat
  BY DEF EntryFiles
<1>2. Created(f) = [len |-> Greater(f.len, 0), good |-> f.good]
  BY <1>1 DEF Created
<1>3. Created(Created(f)) = Created(f) /\ Created(f) \in EntryFiles /\ Created(f).len \in Nat
  <2>1. Greater(f.len, 0) \in Nat /\ Greater(Greater(f.len, 0), 0) = Greater(f.len, 0)
    BY <1>1 DEF Greater
  <2>2. Created(Created(f)) = [len |-> Greater(Greater(f.len, 0), 0), good |-> f.good]
    <3>1. /\ Created(f).len = Greater(f.len, 0) /\ Created(f).good = f.good
          /\ Created(Created(f)) = [Created(f) EXCEPT !.len = Greater(Created(f).len, 0)]
      BY <1>2 DEF Created
    <3> QED BY <1>2, <3>1
  <2> QED BY <1>1, <1>2, <2>1, <2>2 DEF EntryFiles
<1>4. \A m \in Nat :
        Preallocated(f, m) = [len |-> Greater(Created(f).len, m), good |-> f.good]
  BY <1>1 DEF Preallocated
<1>5. Preallocated(Created(f), n) = [len |-> Greater(Created(f).len, n), good |-> f.good]
  BY <1>2, <1>3 DEF Preallocated
<1>6. \A m \in Nat : Greater(Created(f).len, m) \in Nat
  BY <1>3 DEF Greater
<1>7. Greater(Created(f).len, 0) = Created(f).len
  BY <1>3 DEF Greater
<1>8. Created(f) = [len |-> Created(f).len, good |-> f.good]
  BY <1>2
<1> QED BY <1>3, <1>4, <1>5, <1>6, <1>7, <1>8

\* The file of an entry is made, or made longer; no writer is open on it.
LEMMA PreallocateIsCall ==
  ASSUME ZipInv, NEW i \in WrittenEntries, NEW n \in 0 .. SizeOf(i),
         cache'[i] = Preallocated(cache[i], n),
         OffsetOf(i)' = OffsetOf(i)
  PROVE  Place(i)!Next
<1>1. i \in Entries /\ cache[i] \in EntryFiles /\ n \in Nat
  BY ArchiveFacts DEF WrittenEntries, ZipInv, TypeOK, SizeOf
<1>2. /\ Preallocated(Created(cache[i]), n) = Preallocated(cache[i], n)
      /\ Preallocated(cache[i], n).len # -1
  BY <1>1, PreallocatedFacts
<1>3. DestOf(i)' = Place(i)!File(Place(i)!Preallocated(Place(i)!Created(cache[i]), n))
  <2>1. PICK f : f = Preallocated(cache[i], n)
    OBVIOUS
  <2>2. DestOf(i)' = Place(i)!File(f)
    BY <1>2, <2>1, LeavesFile
  <2>3. f = Place(i)!Preallocated(Place(i)!Created(cache[i]), n)
    <3>1. PICK g : g = Created(cache[i])
      OBVIOUS
    <3>2. Place(i)!Created(cache[i]) = g /\ Place(i)!Preallocated(g, n) = Preallocated(g, n)
      BY <3>1, SameCreated, SamePreallocated
    <3> QED BY <1>2, <2>1, <3>1, <3>2
  <2> QED BY <2>2, <2>3
<1>4. DestOf(i).kind # "dir" /\ DestOf(i).file = cache[i]
  BY DEF DestOf
<1>5. Place(i)!Preallocate(n)
  BY <1>3, <1>4 DEF DestOf, OffsetOf, Place!Preallocate, Place!OpenedHere
<1> QED BY <1>5 DEF Place!Next, SizeOf

LEMMA ResumeKeepsToSink ==
  ASSUME ZipInv, ResumeFresh \/ PreallocateFails \/ ResumeSaved \/ ResumeHeld
  PROVE  PlacesKeep
<1> SUFFICES ASSUME NEW i \in WrittenEntries PROVE [Place(i)!Next]_(Place(i)!vars)
  BY DEF PlacesKeep
<1>1. OffsetOf(i) = -1 /\ OffsetOf(i)' = -1
  BY DEF ResumeFresh, PreallocateFails, ResumeSaved, ResumeHeld, Begin, Return, OffsetOf
<1>2. /\ i \in Entries /\ IsWritten(i) /\ SizeOf(i) \in 0 .. SizeOf(i)
  BY ArchiveFacts DEF WrittenEntries, SizeOf
<1>3. cache'[i] = cache[i] \/ cache'[i] = Preallocated(cache[i], SizeOf(i))
  BY <1>2 DEF ResumeFresh, PreallocateFails, ResumeSaved, ResumeHeld, files,
              PreallocatedUpTo, SizeOf
<1> QED BY <1>1, <1>2, <1>3, LeftAlone, PreallocateIsCall

\* Work on one entry is a call for its destination and leaves the others alone.
LEMMA OneEntryWorks ==
  ASSUME ZipInv, NEW e \in Entries, e = ckpt.idx,
         ckpt'.idx = ckpt.idx \/ pc' \notin {"copy", "write"},
         NEW f \in EntryFiles, cache' = [cache EXCEPT ![e] = f],
         IsWritten(e) => [Place(e)!Next]_(Place(e)!vars)
  PROVE  PlacesKeep
<1> SUFFICES ASSUME NEW i \in WrittenEntries PROVE [Place(i)!Next]_(Place(i)!vars)
  BY DEF PlacesKeep
<1>1. CASE i = e
  BY <1>1 DEF WrittenEntries
<1>2. CASE i # e
  <2>1. cache'[i] = cache[i] /\ OffsetOf(i)' = -1
    BY <1>2 DEF WrittenEntries, OffsetOf, ZipInv, TypeOK
  <2> QED BY <2>1, LeftAlone
<1> QED BY <1>1, <1>2

LEMMA OpenKeepsToSink == ASSUME ZipInv, OpenEntry PROVE PlacesKeep
<1> USE DEF ZipInv
<1>1. AtFile /\ pc = "entry" /\ ckpt.idx \in Entries
  BY DEF OpenEntry, AtEntry, AtFile, TypeOK, CheckpointRecord, Entries
<1> PICK i \in Entries : i = ckpt.idx
  BY <1>1
<1> PICK w : w = WriteOffset(ckpt)
  OBVIOUS
<1> DEFINE f == IF IsWritten(i) THEN WriterAt(Created(cache[i]), w) ELSE cache[i]
<1>2. /\ w \in Nat /\ w <= cache[i].good
      /\ IsWritten(i) => w <= SizeOf(i)
  BY <1>1, WriteOffsetFacts
<1>3. cache[i] \in EntryFiles /\ SizeOf(i) \in Nat
  BY <1>1, ArchiveFacts DEF TypeOK, SizeOf
<1>4. f \in EntryFiles /\ cache' = [cache EXCEPT ![i] = f]
  BY <1>1, <1>2, <1>3, FileFacts DEF OpenEntry, TypeOK
<1>5. pc' = "copy" /\ ckpt'.idx = i /\ ckpt'.woff = w
  BY DEF OpenEntry, TypeOK, CheckpointRecord
<1>6. ASSUME IsWritten(i) PROVE Place(i)!Next
  <2>1. f = WriterAt(Created(cache[i]), w) /\ cache'[i] = f /\ f.len # -1
        /\ w <= Created(cache[i]).good
    BY <1>1, <1>2, <1>3, <1>4, <1>6, FileFacts DEF TypeOK, WriterAt
  <2>2. DestOf(i)' = Place(i)!File(Place(i)!WriterAt(Place(i)!Created(cache[i]), w))
    <3>1. PICK g : g = f
      OBVIOUS
    <3>2. DestOf(i)' = Place(i)!File(g)
      BY <2>1, <3>1, LeavesFile
    <3>3. g = Place(i)!WriterAt(Place(i)!Created(cache[i]), w)
      <4>1. PICK e : e = Created(cache[i])
        OBVIOUS
      <4>2. Place(i)!Created(cache[i]) = e /\ Place(i)!WriterAt(e, w) = WriterAt(e, w)
        BY <4>1, SameCreated, SameWriterAt
      <4> QED BY <2>1, <3>1, <4>1, <4>2
    <3> QED BY <3>2, <3>3
  <2>3. /\ DestOf(i).kind # "dir" /\ DestOf(i).file = cache[i]
        /\ w <= Place(i)!Created(cache[i]).good /\ OffsetOf(i)' = w
    BY <1>5, <2>1, SameCreated DEF DestOf, OffsetOf
  <2>4. Place(i)!GetWriter(w)
    BY <1>5, <2>2, <2>3 DEF DestOf, OffsetOf, Place!GetWriter, Place!OpenedHere
  <2>5. w \in 0 .. SizeOf(i)
    BY <1>2, <1>3, <1>6
  <2> QED BY <2>4, <2>5 DEF Place!Next, SizeOf
<1> QED BY <1>1, <1>4, <1>5, <1>6, OneEntryWorks

LEMMA EntryFailsKeepsToSink == ASSUME ZipInv, EntryFails PROVE PlacesKeep
<1> USE DEF ZipInv
<1>1. AtFile /\ pc = "entry" /\ pc' = "idle" /\ ckpt.idx \in Entries
  BY DEF EntryFails, AtEntry, Return, AtFile, TypeOK, CheckpointRecord, Entries
<1> PICK i \in Entries : i = ckpt.idx
  BY <1>1
<1>2. cache[i] \in EntryFiles /\ SizeOf(i) \in Nat
  BY <1>1, ArchiveFacts DEF TypeOK, SizeOf
<1>3. OffsetOf(i) = -1 /\ OffsetOf(i)' = -1
  BY <1>1 DEF OffsetOf
<1>4. CASE UNCHANGED cache
  <2>1. cache' = [cache EXCEPT ![i] = cache[i]]
    BY <1>1, <1>4 DEF TypeOK
  <2>2. IsWritten(i) => [Place(i)!Next]_(Place(i)!vars)
    BY <1>1, <1>3, <1>4, LeftAlone DEF WrittenEntries
  <2> QED BY <1>1, <1>2, <2>1, <2>2, OneEntryWorks
<1>5. CASE cache' = [cache EXCEPT ![i] = Created(cache[i])]
  <2>1. /\ Preallocated(cache[i], 0) = Created(cache[i]) /\ Created(cache[i]) \in EntryFiles
        /\ cache'[i] = Created(cache[i]) /\ 0 \in 0 .. SizeOf(i)
    BY <1>2, <1>5, PreallocatedFacts DEF TypeOK
  <2>2. IsWritten(i) => Place(i)!Next
    BY <1>1, <1>3, <2>1, PreallocateIsCall DEF WrittenEntries
  <2> QED BY <1>1, <1>5, <2>1, <2>2, OneEntryWorks
<1> QED BY <1>4, <1>5 DEF EntryFails

\* A write goes to WriteOffset, with what comes there next.
LEMMA WriteIsCall ==
  ASSUME ZipInv, pc = "write", NEW n \in 0 .. chunk.n, cache' = Written(n),
         \/ pc' \notin {"copy", "write"}
         \/ pc' = "copy" /\ ckpt' = Moved(n)
  PROVE  PlacesKeep
<1> USE DEF ZipInv
<1>0. ckpt.idx \in Entries
  BY WrittenFacts DEF AtFile
<1> PICK i \in Entries : i = ckpt.idx
  BY <1>0
<1>1. /\ n \in Nat /\ ckpt.woff \in Nat
      /\ WrittenFile(n) \in EntryFiles /\ cache' = [cache EXCEPT ![i] = WrittenFile(n)]
      /\ Moved(n) = [ckpt EXCEPT !.woff = WrittenOffset(n)]
      /\ WrittenOffset(n) \in Nat /\ cache'[i] = WrittenFile(n)
  BY WrittenFacts DEF TypeOK
<1>2. Moved(n).idx = i /\ Moved(n).woff = WrittenOffset(n)
  BY <1>1 DEF TypeOK, CheckpointRecord
<1>3. ASSUME IsWritten(i) PROVE Place(i)!Next
  <2>1. /\ WrittenFile(n) = [len |-> ckpt.woff + n, good |-> ckpt.woff + n]
        /\ WrittenOffset(n) = ckpt.woff + n /\ ckpt.woff + n <= SizeOf(i)
        /\ chunk.at = ckpt.woff
    BY <1>3, WrittenFacts DEF CopyInv
  <2>2. WrittenFile(n) = Appended(cache[i], ckpt.woff, ckpt.woff, n)
    BY <1>3, <2>1 DEF WrittenFile
  <2>3. DestOf(i)' = Place(i)!File(Place(i)!Appended(cache[i], ckpt.woff, ckpt.woff, n))
    <3>1. PICK g : g = WrittenFile(n)
      OBVIOUS
    <3>2. g.len # -1
      BY <1>1, <2>1, <3>1
    <3>3. DestOf(i)' = Place(i)!File(g)
      BY <1>1, <3>1, <3>2, LeavesFile
    <3>4. g = Place(i)!Appended(cache[i], ckpt.woff, ckpt.woff, n)
      BY <2>2, <3>1, SameAppended
    <3> QED BY <3>3, <3>4
  <2>4. DestOf(i).file = cache[i] /\ OffsetOf(i) = ckpt.woff /\ ckpt.woff # -1
    BY <1>1 DEF DestOf, OffsetOf
  <2>5. n \in 0 .. SizeOf(i)
    BY <1>1, <2>1, ArchiveFacts DEF SizeOf
  <2>6. CASE pc' \notin {"copy", "write"}
    <3>1. OffsetOf(i)' = -1
      BY <2>6 DEF OffsetOf
    <3>2. Place(i)!WriteAndClose(n)
      BY <2>3, <2>4, <3>1 DEF DestOf, OffsetOf, Place!WriteAndClose, Place!NoWriter
    <3> QED BY <2>5, <3>2 DEF Place!Next, SizeOf
  <2>7. CASE pc' = "copy" /\ ckpt' = Moved(n)
    <3>1. OffsetOf(i)' = ckpt.woff + n
      BY <1>2, <2>1, <2>7 DEF OffsetOf
    <3>2. Place(i)!Write(n)
      BY <2>3, <2>4, <3>1 DEF DestOf, OffsetOf, Place!Write, Place!NoWriter
    <3> QED BY <2>5, <3>2 DEF Place!Next, SizeOf
  <2> QED BY <2>6, <2>7
<1> QED BY <1>1, <1>2, <1>3, OneEntryWorks

LEMMA StepKeepsToSink == ASSUME ~PowerFails, ZipInv, [Next]_vars PROVE PlacesKeep
<1> USE DEF ZipInv
<1>1. CASE UNCHANGED <<cache, pc, ckpt>> \/ (UNCHANGED cache /\ pc' \notin {"copy", "write"})
  <2>1. \A i : cache'[i] = cache[i] /\ OffsetOf(i)' \in {OffsetOf(i), -1}
    BY <1>1 DEF OffsetOf
  <2> QED BY <2>1, LeftAlone DEF PlacesKeep
<1>2. CASE ResumeFresh \/ PreallocateFails \/ ResumeSaved \/ ResumeHeld
  BY <1>2, ResumeKeepsToSink
<1>3. CASE MakeDirOrSymlink
  <2>1. AtFile /\ ~IsWritten(ckpt.idx)
    BY <1>3 DEF MakeDirOrSymlink, AtEntry, AtFile, TypeOK, CheckpointRecord, Entries, kind,
                IsWritten
  <2>2. size \in Nat
    BY <2>1, ArchiveFacts DEF AtFile, size
  <2>3. Made(size) \in EntryFiles /\ cache' = [cache EXCEPT ![ckpt.idx] = Made(size)]
    BY <1>3, <2>2 DEF MakeDirOrSymlink, Made, EntryFiles
  <2>4. pc' \notin {"copy", "write"} /\ ckpt.idx \in Entries
    BY <1>3, <2>1 DEF MakeDirOrSymlink, EntryDone, Return, AtFile
  <2>5. PICK e \in Entries : e = ckpt.idx
    BY <2>4
  <2> QED BY <2>1, <2>3, <2>4, <2>5, OneEntryWorks
<1>4. CASE OpenEntry
  BY <1>4, OpenKeepsToSink
<1>5. CASE EntryFails
  BY <1>5, EntryFailsKeepsToSink
<1>6. CASE ReadEnd \/ ReadStored \/ ReadDeflated \/ ReadDeflatedSave \/ ReadPlain \/ ReadFails
  <2>1. pc = "copy" /\ pc' = "write" /\ UNCHANGED cache
    BY <1>6 DEF ReadEnd, ReadStored, ReadDeflated, ReadDeflatedSave, ReadPlain, ReadFails,
                Copying, Hands
  <2>2. ckpt' \in {ckpt, Noted(ckpt, src.off)}
    BY <1>6 DEF ReadEnd, ReadStored, ReadDeflated, ReadDeflatedSave, ReadPlain, ReadFails,
                NoSaveNow, Save, SaveFails
  <2>3. ckpt'.idx = ckpt.idx /\ ckpt'.woff = ckpt.woff
    BY <2>2 DEF Noted, TypeOK, CheckpointRecord
  <2>4. \A i : cache'[i] = cache[i] /\ OffsetOf(i)' = OffsetOf(i)
    BY <2>1, <2>3 DEF OffsetOf
  <2> QED BY <2>4, LeftAlone DEF PlacesKeep
<1>7. CASE Write \/ WriteLast \/ CopyFails \/ WriteFails
  <2>1. pc = "write" /\ chunk.n \in 0 .. chunk.n
    BY <1>7 DEF Write, WriteLast, CopyFails, WriteFails, TypeOK
  <2>2. PICK n \in 0 .. chunk.n :
          /\ cache' = Written(n)
          /\ pc' \notin {"copy", "write"} \/ (pc' = "copy" /\ ckpt' = Moved(n))
    BY <1>7, <2>1 DEF Write, WriteLast, EntryDone, CopyFails, WriteFails, Return
  <2> QED BY <2>1, <2>2, WriteIsCall
<1>8. CASE UNCHANGED vars \/ Finish \/ Crash \/ PowerLoss
  BY <1>1, <1>8 DEF vars, files, Finish, Return, Crash, PowerLoss, Dies
<1> QED
  BY <1>2, <1>3, <1>4, <1>5, <1>6, <1>7, <1>8 DEF Next, Extract

(***************************************************************************)
(* Without losses of power, zip calls its sink as sink.go allows, for      *)
(* every archive: it opens a writer where the file has data up to, after   *)
(* retries and crashes too, and writes there what comes next. This is what *)
(* FolderSink, which implements Sink, counts on.                           *)
(***************************************************************************)
THEOREM ZipKeepsToSink == ~PowerFails => (Spec => KeepsToSink)
<1> SUFFICES ASSUME ~PowerFails PROVE Spec => KeepsToSink
  OBVIOUS
<1>1. Init => \A i \in WrittenEntries : Place(i)!Init
  BY PlaceInit
<1>2. ZipInv /\ [Next]_vars =>
        [\A i \in WrittenEntries : [Place(i)!Next]_(Place(i)!vars)]_vars
  BY StepKeepsToSink DEF PlacesKeep
<1> QED BY <1>1, <1>2, ZipInvariant, PTL DEF Spec, KeepsToSink

WritersAtOffset == \A i \in WrittenEntries : Place(i)!WriterAtOffset

(***************************************************************************)
(* What zip gets from its sink for keeping to the contract, losses of      *)
(* power included: a file that is written has all of its data up to        *)
(* WriteOffset, and nothing after it that counts.                          *)
(***************************************************************************)
THEOREM ZipWritersAtOffset == Spec => []WritersAtOffset
<1>1. ZipInv => WritersAtOffset
  <2> SUFFICES ASSUME ZipInv, NEW i \in WrittenEntries,
                      pc \in {"copy", "write"}, ckpt.idx = i
               PROVE  /\ cache[i].good = ckpt.woff /\ cache[i].len >= ckpt.woff
                      /\ cache[i].len # -1
    BY DEF WritersAtOffset, Place!WriterAtOffset, Place!NoWriter
  <2>1. IsWritten(i) /\ ckpt.woff \in Nat
    BY DEF WrittenEntries, ZipInv, TypeOK
  <2> QED BY <2>1 DEF ZipInv, CopyInv
<1> QED BY <1>1, ZipInvariant, PTL

-----------------------------------------------------------------------------
(***************************************************************************)
(* Every entry has a source of its own, and all of them come and go while  *)
(* one checkpoint is carried along: the source checkpoint in it has to be  *)
(* one that the source of the same entry can have emitted. It is what the  *)
(* theorems about seeksource and flatesource ask of their caller.          *)
(***************************************************************************)
EmittedBySource(i) ==
  {off \in 0 .. SizeOf(i) :
     \/ Archive[i].kind \in {"stored", "ignored"} /\ off < SizeOf(i)
     \/ Archive[i].kind = "deflated" /\ off \in BlockEnds}

Own(c) == c.soff # NoOffset => c.idx \in Entries /\ c.soff \in EmittedBySource(c.idx)

OwnSourceCheckpoints == Own(ckpt) /\ (saved # NoSave => Own(saved))

\* The index moves together with a reset, or not at all.
LEMMA StartOwn == ASSUME NEW i PROVE Own(Start(i))
  BY DEF Own, Start

LEMMA SavesOwn ==
  ASSUME TypeOK, OwnSourceCheckpoints, pc = "copy", src.off <= size,
         (SavesAnywhere /\ src.off < size) \/ (kind = "deflated" /\ src.off \in BlockEnds),
         ckpt' = Noted(ckpt, src.off), saved' \in {saved, Noted(ckpt, src.off)}
  PROVE  OwnSourceCheckpoints'
<1>1. ckpt.idx \in Entries /\ src.off \in Nat /\ ckpt \in CheckpointRecord
  BY DEF TypeOK, CheckpointRecord, Entries
<1>2. PICK i \in Entries : i = ckpt.idx
  BY <1>1
<1>3. /\ src.off \in 0 .. SizeOf(i)
      /\ \/ Archive[i].kind \in {"stored", "ignored"} /\ src.off < SizeOf(i)
         \/ Archive[i].kind = "deflated" /\ src.off \in BlockEnds
  <2>1. SizeOf(i) \in Nat /\ src.off <= SizeOf(i) /\ SizeOf(i) = size
    BY <1>2, ArchiveFacts DEF SizeOf, size
  <2> QED BY <1>1, <1>2, <2>1 DEF SavesAnywhere, kind
<1>4. src.off \in EmittedBySource(i)
  BY <1>3 DEF EmittedBySource
<1>5. Noted(ckpt, src.off).idx = i /\ Noted(ckpt, src.off).soff = src.off
  BY <1>1, <1>2 DEF Noted, CheckpointRecord
<1>6. Own(Noted(ckpt, src.off))
  BY <1>4, <1>5 DEF Own
<1> QED BY <1>6 DEF OwnSourceCheckpoints, Own

LEMMA NextOwn == ASSUME TypeOK, OwnSourceCheckpoints, [Next]_vars PROVE OwnSourceCheckpoints'
<1>1. CASE UNCHANGED vars
  BY <1>1 DEF vars, OwnSourceCheckpoints, Own
<1>2. CASE ResumeFresh \/ PreallocateFails \/ ResumeSaved \/ ResumeHeld
  <2>1. saved' \in {saved, NoSave}
    BY <1>2 DEF ResumeFresh, PreallocateFails, ResumeSaved, ResumeHeld
  <2>2. Own(ckpt')
    BY <1>2, StartOwn
    DEF ResumeFresh, PreallocateFails, ResumeSaved, ResumeHeld, Begin, OwnSourceCheckpoints
  <2> QED BY <2>1, <2>2 DEF OwnSourceCheckpoints, Own
<1>3. CASE \/ MakeDirOrSymlink \/ WriteLast \/ Crash \/ PowerLoss
  <2>1. saved' = saved
    BY <1>3 DEF MakeDirOrSymlink, WriteLast, Crash, PowerLoss, Dies
  <2>2. \E i : ckpt' = Start(i)
    BY <1>3 DEF MakeDirOrSymlink, WriteLast, Crash, PowerLoss, Dies, EntryDone, AfterStop,
                NextEntry
  <2> QED BY <2>1, <2>2, StartOwn DEF OwnSourceCheckpoints, Own
<1>4. CASE OpenEntry \/ EntryFails
  <2>1. saved' = saved /\ ckpt' = [ckpt EXCEPT !.woff = WriteOffset(ckpt)]
    BY <1>4 DEF OpenEntry, EntryFails
  <2>2. ckpt'.idx = ckpt.idx /\ ckpt'.soff = ckpt.soff
    BY <2>1 DEF TypeOK, CheckpointRecord
  <2> QED BY <2>1, <2>2 DEF OwnSourceCheckpoints, Own
<1>5. CASE Finish
  BY <1>5 DEF Finish, OwnSourceCheckpoints, Own
<1>6. CASE ReadEnd \/ ReadStored \/ ReadDeflated \/ ReadDeflatedSave \/ ReadPlain \/ ReadFails
  <2>1. CASE UNCHANGED <<ckpt, saved>>
    BY <2>1 DEF OwnSourceCheckpoints, Own
  <2>2. CASE ~UNCHANGED <<ckpt, saved>>
    <3>0. src.off < size => src.off <= size
      <4>1. pc = "copy"
        BY <1>6 DEF ReadEnd, ReadStored, ReadDeflated, ReadDeflatedSave, ReadPlain, ReadFails,
                    Copying
      <4>2. ckpt.idx \in Entries
        BY <4>1 DEF TypeOK, CheckpointRecord, Entries
      <4> QED BY <4>2, ArchiveFacts DEF TypeOK, size
    <3>1. /\ pc = "copy" /\ src.off <= size
          /\ \/ SavesAnywhere /\ src.off < size
             \/ kind = "deflated" /\ src.off \in BlockEnds
          /\ ckpt' = Noted(ckpt, src.off) /\ saved' \in {saved, Noted(ckpt, src.off)}
      BY <1>6, <2>2, <3>0
      DEF ReadEnd, ReadStored, ReadDeflated, ReadDeflatedSave, ReadPlain, ReadFails,
          Copying, NoSaveNow, Save, SaveFails, BlockEndsNow
    <3> QED BY <3>1, SavesOwn
  <2> QED BY <2>1, <2>2
<1>7. CASE Write \/ CopyFails \/ WriteFails
  <2>1. saved' = saved /\ (ckpt' = AfterStop(ckpt) \/ \E n : ckpt' = Moved(n))
    BY <1>7 DEF Write, CopyFails, WriteFails
  <2>2. CASE ckpt' = AfterStop(ckpt)
    BY <2>1, <2>2, StartOwn DEF AfterStop, OwnSourceCheckpoints, Own
  <2>3. ASSUME NEW n, ckpt' = Moved(n) PROVE ckpt'.idx = ckpt.idx /\ ckpt'.soff = ckpt.soff
    BY <2>3 DEF Moved, TypeOK, CheckpointRecord
  <2> QED BY <2>1, <2>2, <2>3 DEF OwnSourceCheckpoints, Own
<1> QED
  BY <1>1, <1>2, <1>3, <1>4, <1>5, <1>6, <1>7 DEF Next, Extract

(***************************************************************************)
(* Whatever fails, and whichever checkpoint is used again, zip resumes the *)
(* source of an entry from a checkpoint that this source can have emitted: *)
(* inside the entry and, when it is deflated, at the end of a block. The   *)
(* hypothesis OwnCheckpoints of SeekSource holds of it, and a persisted    *)
(* checkpoint never makes a source panic (seeksource.go:139).              *)
(***************************************************************************)
THEOREM ZipResumesOwnSource == Spec => []OwnSourceCheckpoints
<1>1. Init => OwnSourceCheckpoints
  BY StartOwn DEF Init, OwnSourceCheckpoints
<1>2. ZipInv /\ OwnSourceCheckpoints /\ [Next]_vars => OwnSourceCheckpoints'
  BY NextOwn DEF ZipInv
<1> QED BY <1>1, <1>2, ZipInvariant, PTL DEF Spec

-----------------------------------------------------------------------------
(***************************************************************************)
(* Why a call of Resume returns: it counts the entries up, in an entry the *)
(* source moves on, and where it stays it has come to the end of one more  *)
(* empty block or the copier is one step further.                          *)
(***************************************************************************)
SourceInside == pc \in {"copy", "write"} => src.off <= SizeOf(ckpt.idx)

Rank == <<ckpt.idx,
          IF pc = "entry" THEN -1 ELSE src.off,
          src.ends,
          IF pc = "copy" THEN 1 ELSE IF pc = "write" /\ chunk.end # "more" THEN 2 ELSE 0>>

Before(a, b) == \E k \in 1 .. 4 : a[k] < b[k] /\ \A j \in 1 .. k - 1 : a[j] = b[j]

WorksOn == [][pc # "idle" => pc' = "idle" \/ Before(Rank, Rank')]_vars

\* A read stays inside the entry.
LEMMA HandsInside ==
  ASSUME TypeOK, SourceInside, pc = "copy", ckpt'.idx = ckpt.idx,
         NEW n \in {0} \cup Lengths, NEW end, NEW want, Hands(n, end, want)
  PROVE  /\ SourceInside' /\ n \in Nat /\ src'.off = src.off + n
         /\ n \in Lengths => n > 0
<1>1. ckpt.idx \in Entries /\ src.off \in Nat /\ MaxRead \in Nat
  BY DEF TypeOK, CheckpointRecord, Entries
<1>2. PICK s \in Nat : s = SizeOf(ckpt.idx) /\ s = size
  BY <1>1, ArchiveFacts DEF SizeOf, size
<1>3. n \in Nat /\ src.off + n <= s /\ (n \in Lengths => n > 0)
  BY <1>1, <1>2 DEF SourceInside, Lengths, Lesser
<1> QED BY <1>1, <1>2, <1>3 DEF Hands, SourceInside, SizeOf

LEMMA NoteKeepsIndex ==
  ASSUME TypeOK,
         ReadEnd \/ ReadStored \/ ReadDeflated \/ ReadDeflatedSave \/ ReadPlain \/ ReadFails
  PROVE  /\ ckpt'.idx = ckpt.idx /\ pc = "copy"
         /\ \E n \in {0} \cup Lengths : \E end, want : Hands(n, end, want)
<1>1. ckpt' \in {ckpt, Noted(ckpt, src.off)} /\ pc = "copy"
  BY DEF ReadEnd, ReadStored, ReadDeflated, ReadDeflatedSave, ReadPlain, ReadFails,
         Copying, NoSaveNow, Save, SaveFails
<1>2. ckpt'.idx = ckpt.idx
  BY <1>1 DEF Noted, TypeOK, CheckpointRecord
<1>3. \A n \in Lengths : n # 0
  BY DEF Lengths
<1>4. CASE ReadStored \/ ReadDeflated \/ ReadPlain
  <2>1. PICK n \in Lengths : \E end, want : Hands(n, end, want)
    BY <1>4 DEF ReadStored, ReadDeflated, ReadPlain
  <2> QED BY <1>1, <1>2, <1>3, <2>1
<1>5. CASE ReadEnd \/ ReadDeflatedSave \/ ReadFails
  <2>1. \E end, want : Hands(0, end, want)
    BY <1>5 DEF ReadEnd, ReadDeflatedSave, ReadFails
  <2> QED BY <1>1, <1>2, <2>1
<1> QED BY <1>4, <1>5

LEMMA OpenInside == ASSUME ZipInv, OwnSourceCheckpoints, OpenEntry PROVE SourceInside'
<1> USE DEF ZipInv
<1>1. AtFile /\ pc = "entry" /\ ckpt.idx \in Entries /\ ckpt \in CheckpointRecord
  BY DEF OpenEntry, AtEntry, AtFile, TypeOK, CheckpointRecord, Entries
<1>2. PICK i \in Entries : i = ckpt.idx
  BY <1>1
<1>3. PICK s \in Nat : s = SizeOf(i)
  BY <1>2, ArchiveFacts DEF SizeOf
<1>4. PICK w : w = WriteOffset(ckpt)
  OBVIOUS
<1>5. w \in Nat /\ w <= s
  <2>1. w \in Nat /\ (IsWritten(i) => w <= s)
    BY <1>1, <1>2, <1>3, <1>4, WriteOffsetFacts
  <2>2. ASSUME ~IsWritten(i) PROVE w <= 0
    <3>1. Archive[i].kind = "ignored"
      <4>1. IsFile(ckpt.idx)
        BY DEF OpenEntry
      <4> QED BY <1>2, <2>2, <4>1 DEF IsFile, IsWritten
    <3>2. ckpt.woff <= 0
      BY <1>1, <1>2, <3>1 DEF CkptInv, InUse, InsideEntry
    <3> QED BY <1>4, <3>2 DEF WriteOffset
  <2> QED BY <1>3, <2>1, <2>2
<1>6. PICK off \in ResumedAt(ckpt) :
        src' = NewSource(Discarded(off, w))
  BY <1>4 DEF OpenEntry
<1>7. off \in Nat /\ off <= s
  <2>1. ckpt.soff # NoOffset => ckpt.soff \in 0 .. s
    BY <1>2, <1>3 DEF OwnSourceCheckpoints, Own, EmittedBySource
  <2> QED BY <1>3, <1>6, <2>1 DEF ResumedAt
<1>8. src'.off = Discarded(off, w) /\ ckpt'.idx = i
  BY <1>1, <1>2, <1>6 DEF OpenEntry, NewSource, CheckpointRecord
<1>9. src'.off <= s
  BY <1>3, <1>5, <1>7, <1>8 DEF Discarded
<1> QED BY <1>3, <1>8, <1>9 DEF SourceInside, SizeOf

LEMMA NextInside ==
  ASSUME ZipInv, OwnSourceCheckpoints, SourceInside, [Next]_vars
  PROVE  SourceInside'
<1> USE DEF ZipInv
<1>1. CASE UNCHANGED vars
  BY <1>1 DEF vars, SourceInside, SizeOf
<1>2. CASE pc' \notin {"copy", "write"}
  BY <1>2 DEF SourceInside
<1>3. CASE OpenEntry
  BY <1>3, OpenInside
<1>4. CASE ReadEnd \/ ReadStored \/ ReadDeflated \/ ReadDeflatedSave \/ ReadPlain \/ ReadFails
  BY <1>4, NoteKeepsIndex, HandsInside
<1>5. CASE Write
  <2>1. CASE pc' = "copy"
    <3>1. ckpt' = Moved(chunk.n) /\ src'.off = src.off /\ pc = "write"
      BY <1>5, <2>1 DEF Write, Return, TypeOK
    <3>2. ckpt'.idx = ckpt.idx
      BY <3>1 DEF Moved, TypeOK, CheckpointRecord
    <3> QED BY <3>1, <3>2 DEF SourceInside, SizeOf
  <2>2. CASE pc' # "copy"
    BY <1>2, <1>5, <2>2 DEF Write, Return
  <2> QED BY <2>1, <2>2
<1>6. CASE \/ ResumeFresh \/ PreallocateFails \/ ResumeSaved \/ ResumeHeld
           \/ MakeDirOrSymlink \/ EntryFails \/ Finish
           \/ WriteLast \/ CopyFails \/ WriteFails \/ Crash \/ PowerLoss
  <2>1. pc' \notin {"copy", "write"}
    BY <1>6 DEF ResumeFresh, PreallocateFails, ResumeSaved, ResumeHeld, Begin, Return,
                MakeDirOrSymlink, EntryDone, EntryFails, Finish, WriteLast, CopyFails,
                WriteFails, Crash, PowerLoss, Dies
  <2> QED BY <1>2, <2>1
<1> QED BY <1>1, <1>3, <1>4, <1>5, <1>6 DEF Next, Extract

(***************************************************************************)
(* No source is read past the end of its entry, whatever its kind and from *)
(* whichever checkpoint it was resumed.                                    *)
(***************************************************************************)
THEOREM ZipReadsInside == Spec => []SourceInside
<1>1. Init => OwnSourceCheckpoints /\ SourceInside
  BY StartOwn DEF Init, OwnSourceCheckpoints, SourceInside
<1>2. ZipInv /\ OwnSourceCheckpoints /\ SourceInside /\ [Next]_vars =>
        OwnSourceCheckpoints' /\ SourceInside'
  BY NextOwn, NextInside DEF ZipInv
<1> QED BY <1>1, <1>2, ZipInvariant, PTL DEF Spec

\* A step of the copier gains on the one before.
LEMMA CopierGains ==
  ASSUME TypeOK, SourceInside,
         \/ ReadEnd \/ ReadStored \/ ReadDeflated \/ ReadDeflatedSave \/ ReadPlain \/ ReadFails
  PROVE  Before(Rank, Rank')
<1>1. ckpt'.idx = ckpt.idx /\ pc = "copy" /\ src.off \in Nat /\ src.ends \in Int
  BY NoteKeepsIndex DEF TypeOK
<1>0. PICK n \in {0} \cup Lengths : \E end, want : Hands(n, end, want)
  BY NoteKeepsIndex
<1>2. PICK end, want : Hands(n, end, want)
  BY <1>0
<1>3. n \in Nat /\ src'.off = src.off + n /\ (n \in Lengths => n > 0)
  BY <1>1, <1>2, HandsInside
<1>4. pc' = "write" /\ chunk'.end = end /\ src'.ends = EndsAfter(n, end)
  BY <1>2 DEF Hands
<1>5. CASE n > 0
  BY <1>1, <1>3, <1>4, <1>5 DEF Before, Rank
<1>6. CASE n = 0
  <2>1. src'.off = src.off
    BY <1>1, <1>3, <1>6
  <2>2. Rank'[1] = Rank[1] /\ Rank'[2] = Rank[2]
    BY <1>1, <1>4, <2>1 DEF Rank
  <2>3. CASE end = "more"
    <3>1. src'.ends = src.ends + 1
      BY <1>4, <1>6, <2>3 DEF EndsAfter
    <3>2. Rank[3] = src.ends /\ Rank'[3] = src.ends + 1
      BY <3>1 DEF Rank
    <3> QED BY <1>1, <2>2, <3>2 DEF Before
  <2>4. CASE end # "more"
    <3>1. src'.ends = src.ends
      BY <1>4, <1>6, <2>4 DEF EndsAfter
    <3>2. Rank'[3] = Rank[3] /\ Rank[4] = 1 /\ Rank'[4] = 2
      BY <1>1, <1>4, <2>4, <3>1 DEF Rank
    <3> QED BY <2>2, <3>2 DEF Before
  <2> QED BY <2>3, <2>4
<1> QED BY <1>3, <1>5, <1>6

LEMMA StepGains ==
  ASSUME TypeOK, SourceInside, Next, pc # "idle", pc' # "idle"
  PROVE  Before(Rank, Rank')
<1>1. CASE MakeDirOrSymlink \/ WriteLast
  <2>1. ckpt' = NextEntry(ckpt)
    BY <1>1 DEF MakeDirOrSymlink, WriteLast, EntryDone, Return
  <2>2. ckpt'.idx = ckpt.idx + 1 /\ ckpt.idx \in Int
    BY <2>1 DEF NextEntry, Start, TypeOK, CheckpointRecord
  <2>3. Rank'[1] = Rank[1] + 1 /\ Rank[1] \in Int
    BY <2>2 DEF Rank
  <2> QED BY <2>3 DEF Before
<1>2. CASE OpenEntry
  <2>1. ckpt'.idx = ckpt.idx /\ pc = "entry" /\ pc' = "copy"
    BY <1>2 DEF OpenEntry, AtEntry, TypeOK, CheckpointRecord
  <2>2. src'.off \in Nat
    <3> PICK w : w = WriteOffset(ckpt)
      OBVIOUS
    <3>1. PICK off \in ResumedAt(ckpt) :
            src' = NewSource(Discarded(off, w))
      BY <1>2 DEF OpenEntry
    <3>2. off \in Nat /\ w \in Nat
      BY <3>1 DEF ResumedAt, WriteOffset, TypeOK, CheckpointRecord, NoOffset
    <3> QED BY <3>1, <3>2 DEF NewSource, Discarded
  <2>3. Rank'[1] = Rank[1] /\ Rank[2] = -1 /\ Rank'[2] = src'.off
    BY <2>1 DEF Rank
  <2>4. -1 < src'.off
    BY <2>2
  <2>5. Rank[2] < Rank'[2]
    BY <2>3, <2>4
  <2> QED BY <2>3, <2>5 DEF Before
<1>3. CASE ReadEnd \/ ReadStored \/ ReadDeflated \/ ReadDeflatedSave \/ ReadPlain \/ ReadFails
  BY <1>3, CopierGains
<1>4. CASE Write
  <2>1. /\ ckpt' = Moved(chunk.n) /\ src'.off = src.off /\ src'.ends = src.ends
        /\ pc = "write" /\ pc' = "copy" /\ chunk.end = "more"
    BY <1>4 DEF Write, Return, TypeOK
  <2>2. ckpt'.idx = ckpt.idx
    BY <2>1 DEF Moved, TypeOK, CheckpointRecord
  <2> QED BY <2>1, <2>2 DEF Before, Rank
<1> QED
  BY <1>1, <1>2, <1>3, <1>4
  DEF Next, Extract, ResumeFresh, PreallocateFails, ResumeSaved, ResumeHeld, Begin, Return,
      EntryFails, Finish, CopyFails, WriteFails, Crash, PowerLoss, Dies

(***************************************************************************)
(* Every step of a call of Resume that does not end it gains on the one    *)
(* before, in entries, in data, in block ends or in the copier's loop.     *)
(* All four are bounded (ZipTyped, ZipReadsInside): for every archive,     *)
(* Resume takes finitely many steps until it returns.                      *)
(***************************************************************************)
THEOREM ZipWorksOn == Spec => WorksOn
<1>1. Init => OwnSourceCheckpoints /\ SourceInside
  BY StartOwn DEF Init, OwnSourceCheckpoints, SourceInside
<1>2. ZipInv /\ OwnSourceCheckpoints /\ SourceInside /\ [Next]_vars =>
        OwnSourceCheckpoints' /\ SourceInside'
  BY NextOwn, NextInside DEF ZipInv
<1>3. ZipInv /\ SourceInside /\ [Next]_vars =>
        [pc # "idle" => pc' = "idle" \/ Before(Rank, Rank')]_vars
  BY StepGains DEF ZipInv
<1> QED BY <1>1, <1>2, <1>3, ZipInvariant, PTL DEF Spec, WorksOn
=============================================================================
