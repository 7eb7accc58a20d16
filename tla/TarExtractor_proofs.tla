------------------------ MODULE TarExtractor_proofs ------------------------
(***************************************************************************)
(* What tarextractor.go keeps for every archive, both kinds of source, all *)
(* lengths of reads and every number of faults. All rests on one invariant:*)
(* the tar reader, the source, WriteOffset and the file are at one place   *)
(* while an entry is copied, and a checkpoint that has a state was made at *)
(* such a moment and is not ahead of the data.                             *)
(***************************************************************************)
EXTENDS TarExtractor, FiniteSetTheorems, LeastNatural, TLAPS

\* What the data is like is only said of runs that lose none and do not retry
\* with the checkpoint of an error, which is known to go wrong.
Safe == ~Retries /\ ~PowerFails

SizeOf(i) == Archive[i].size

ExtractedBefore(n) == \A i \in Entries : i < n => Extracted(i)

\* A checkpoint that has a state was made in a read of its entry.
MadeInEntry(c) ==
  /\ c.idx \in Entries /\ IsFile(c.idx)
  /\ c.entry.of = c.idx /\ c.tar.cur = c.idx /\ c.tar.at <= SizeOf(c.idx)
  /\ c.src = PosOf(c.tar)

SavedInv ==
  saved # NoSave =>
    /\ MadeInEntry(saved.ckpt)
    /\ ListsFilesBefore(saved.listed, saved.ckpt.idx)
    /\ Safe => /\ saved.ckpt.entry.woff = saved.ckpt.tar.at
               /\ saved.ckpt.entry.woff <= cache[saved.ckpt.idx].good
               /\ ExtractedBefore(saved.ckpt.idx)

CkptInv ==
  /\ ckpt.tar # NoReader => MadeInEntry(ckpt) /\ ListsFilesBefore(listed, ckpt.idx)
  /\ held => Retries

NotBehindSaved(c) ==
  saved # NoSave =>
    \/ saved.ckpt.idx < c.idx
    \/ saved.ckpt.idx = c.idx /\ saved.ckpt.entry.woff <= c.entry.woff

PlaceInv ==
  pc # "idle" =>
    /\ src.off = PosOf(sr)
    /\ ListsFilesBefore(listed, ckpt.idx)
    /\ pc = "next" => ckpt = At(sr.cur + 1) /\ sr.cur \in {None} \cup Entries
    /\ pc # "next" => /\ ckpt.idx \in Entries /\ ckpt.entry.of = ckpt.idx
                      /\ sr.cur = ckpt.idx /\ sr.at <= SizeOf(sr.cur)
    /\ pc \in {"copy", "write"} => IsFile(ckpt.idx)
    /\ pc = "write" /\ chunk.end = "eof" => sr.at = SizeOf(sr.cur) /\ chunk.n = 0
    /\ stop => pc = "write"
    /\ result = "none"

DataInv ==
  pc # "idle" /\ Safe =>
    /\ ExtractedBefore(ckpt.idx) /\ NotBehindSaved(ckpt)
    /\ pc \in {"open", "copy"} => sr.at = ckpt.entry.woff
    /\ pc = "open" => ckpt.entry.woff <= cache[ckpt.idx].good
    /\ pc \in {"copy", "write"} =>
         cache[ckpt.idx] = [len |-> ckpt.entry.woff, good |-> ckpt.entry.woff]
    /\ pc = "write" => chunk.at = ckpt.entry.woff /\ sr.at = ckpt.entry.woff + chunk.n

ResultInv ==
  result = "ok" => /\ ListsFilesBefore(listed, NumEntries)
                   /\ Safe => \A i \in Entries : Extracted(i)

TarInv == TypeOK /\ SavedInv /\ CkptInv /\ PlaceInv /\ DataInv /\ ResultInv

USE ConstantsAssumption

-----------------------------------------------------------------------------
LEMMA ArchiveFacts ==
  ASSUME NEW i \in Entries
  PROVE  /\ Archive[i].kind \in Kinds /\ Archive[i].size \in Nat
         /\ ~IsFile(i) => Archive[i].size = 0
  BY DEF IsFile

\* The stream up to a header is finite, however long.
UnitsBefore(i) == UNION {Units[j] : j \in {k \in Entries : k < i}}

LEMMA UnitsFinite ==
  ASSUME NEW j \in Entries
  PROVE  IsFiniteSet(Units[j]) /\ Cardinality(Units[j]) = 1 + SizeOf(j)
<1>1. Units[j] = {j} \X (0 .. SizeOf(j)) /\ SizeOf(j) \in Nat
  BY ArchiveFacts DEF Units, SizeOf
<1>2. /\ IsFiniteSet({j}) /\ Cardinality({j}) = 1
      /\ IsFiniteSet(0 .. SizeOf(j)) /\ Cardinality(0 .. SizeOf(j)) = SizeOf(j) + 1
  <2>1. SizeOf(j) \in Int /\ 0 \in Int /\ ~(0 > SizeOf(j))
    BY <1>1
  <2>2. Cardinality(0 .. SizeOf(j)) = SizeOf(j) - 0 + 1
    BY <2>1, FS_Interval
  <2>3. IsFiniteSet({j}) /\ Cardinality({j}) = 1
    BY FS_Singleton
  <2>4. IsFiniteSet(0 .. SizeOf(j))
    BY <2>1, FS_Interval
  <2> QED BY <1>1, <2>2, <2>3, <2>4
<1>3. IsFiniteSet(Units[j]) /\ Cardinality(Units[j]) = 1 * (SizeOf(j) + 1)
  BY <1>1, <1>2, FS_Product
<1> QED BY <1>1, <1>3

LEMMA UnitsBeforeFinite ==
  ASSUME NEW i \in Entries
  PROVE  IsFiniteSet(UnitsBefore(i)) /\ HeaderAt[i] = Cardinality(UnitsBefore(i))
<1> DEFINE Before == {k \in Entries : k < i}
           T == {Units[j] : j \in Before}
           f == [j \in Before |-> Units[j]]
<1>1. IsFiniteSet(Before)
  <2>1. IsFiniteSet(Entries)
    BY FS_Interval DEF Entries
  <2> QED BY <2>1, FS_Subset
<1>2. f \in Surjection(Before, T)
  BY DEF Surjection
<1>3. IsFiniteSet(T)
  <2> HIDE DEF f, T, Before
  <2> QED BY <1>1, <1>2, FS_Surjection
<1>4. ASSUME NEW u \in T PROVE IsFiniteSet(u)
  <2>1. PICK j \in Before : u = Units[j]
    BY <1>4
  <2> QED BY <2>1, UnitsFinite
<1>5. IsFiniteSet(UNION T)
  <2> HIDE DEF T
  <2> QED BY <1>3, <1>4, FS_UNION
<1> QED BY <1>5 DEF HeaderAt, UnitsBefore

LEMMA HeaderAtNat == \A i \in Entries : HeaderAt[i] \in Nat
<1> SUFFICES ASSUME NEW i \in Entries PROVE HeaderAt[i] \in Nat
  OBVIOUS
<1> QED BY UnitsBeforeFinite, FS_CardinalityType

\* The header of an entry comes right after the data of the one before.
LEMMA HeaderNext ==
  ASSUME NEW i \in Entries, i + 1 \in Entries
  PROVE  HeaderAt[i + 1] = HeaderAt[i] + 1 + SizeOf(i)
<1>1. UnitsBefore(i + 1) = UnitsBefore(i) \cup Units[i]
  <2>1. {k \in Entries : k < i + 1} = {k \in Entries : k < i} \cup {i}
    BY DEF Entries
  <2> QED BY <2>1 DEF UnitsBefore
<1>2. UnitsBefore(i) \cap Units[i] = {}
  <2> SUFFICES ASSUME NEW j \in Entries, j < i, NEW u \in Units[j], u \in Units[i]
               PROVE  FALSE
    BY DEF UnitsBefore
  <2>1. u[1] = j /\ u[1] = i
    BY DEF Units
  <2> QED BY <2>1 DEF Entries
<1>3. Cardinality(UnitsBefore(i) \cap Units[i]) = 0
  BY <1>2, FS_EmptySet
<1>4. HeaderAt[i + 1] = HeaderAt[i] + (1 + SizeOf(i)) - 0
  BY <1>1, <1>3, UnitsBeforeFinite, UnitsFinite, FS_Union
<1> QED BY <1>4, HeaderAtNat, ArchiveFacts DEF SizeOf

LEMMA PosFacts ==
  ASSUME NEW r \in ReaderRecord
  PROVE  /\ PosOf(r) \in Nat
         /\ \A n \in Nat : r.cur # None => PosOf([r EXCEPT !.at = @ + n]) = PosOf(r) + n
<1>1. CASE r.cur = None
  BY <1>1 DEF PosOf
<1>2. CASE r.cur # None
  <2>1. HeaderAt[r.cur] \in Nat /\ r.at \in Nat
    BY <1>2, HeaderAtNat DEF ReaderRecord
  <2>2. ASSUME NEW n \in Nat PROVE PosOf([r EXCEPT !.at = @ + n]) = PosOf(r) + n
    BY <1>2, <2>1 DEF PosOf, ReaderRecord
  <2> QED BY <1>2, <2>1, <2>2 DEF PosOf
<1> QED BY <1>1, <1>2

LEMMA AtFacts ==
  ASSUME NEW i \in 0 .. NumEntries
  PROVE  /\ At(i) \in CheckpointRecord /\ At(i).idx = i
         /\ At(i).entry = NoEntry /\ At(i).tar = NoReader /\ At(i).entry.woff = 0
  BY DEF At, NoEntry, NoReader, None, CheckpointRecord, EntryRecord, ReaderRecord

LEMMA NoReaderFacts == NoReader \in ReaderRecord /\ NoReader.cur = None /\ PosOf(NoReader) = 0
  BY DEF NoReader, ReaderRecord, PosOf

\* What the file operations make of a file whose data is right up to a point.
LEMMA FileFacts ==
  ASSUME NEW f \in EntryFiles
  PROVE  /\ Created(f) \in EntryFiles /\ Created(f).good = f.good
         /\ \A n \in Nat : /\ Made(n) = [len |-> n, good |-> n] /\ Made(n) \in EntryFiles
                           /\ WriterAt(f, n) \in EntryFiles
                           /\ n <= f.good => WriterAt(f, n) = [len |-> n, good |-> n]
         /\ \A p \in Nat, a \in Int, n \in Nat : Appended(f, p, a, n) \in EntryFiles
  BY DEF EntryFiles, Created, Made, WriterAt, Appended, Greater, Lesser

LEMMA AppendedInPlace ==
  ASSUME NEW pos \in Nat, NEW n \in Nat
  PROVE  Appended([len |-> pos, good |-> pos], pos, pos, n)
           = [len |-> pos + n, good |-> pos + n]
  BY DEF Appended, Greater, Lesser

\* The list of the files, as an entry is passed.
LEMMA ListEmpty == ListsFilesBefore(<<>>, 0)
  BY DEF ListsFilesBefore, Entries

LEMMA ListPasses ==
  ASSUME NEW list \in Seq(Entries), NEW n \in Entries, ListsFilesBefore(list, n)
  PROVE  /\ ~IsFile(n) => ListsFilesBefore(list, n + 1)
         /\ IsFile(n) => ListsFilesBefore(Append(list, n), n + 1)
<1>1. \A k \in DOMAIN list : list[k] \in Entries /\ list[k] < n
  BY DEF ListsFilesBefore
<1>2. n \in Int /\ \A i \in Entries : i \in Int /\ (i < n + 1 <=> i < n \/ i = n)
  BY DEF Entries
<1>3. ASSUME ~IsFile(n) PROVE ListsFilesBefore(list, n + 1)
  BY <1>2, <1>3 DEF ListsFilesBefore
<1>4. ASSUME IsFile(n) PROVE ListsFilesBefore(Append(list, n), n + 1)
  <2> DEFINE l == Append(list, n)
  <2>1. /\ DOMAIN list = 1 .. Len(list) /\ DOMAIN l = 1 .. Len(list) + 1
        /\ \A k \in DOMAIN list : l[k] = list[k]
        /\ l[Len(list) + 1] = n /\ Len(list) \in Nat
    OBVIOUS
  <2> HIDE DEF l
  <2>2. ASSUME NEW k \in DOMAIN l, NEW m \in DOMAIN l, k < m PROVE l[k] < l[m]
    <3>1. k \in DOMAIN list
      BY <2>1, <2>2
    <3>2. CASE m \in DOMAIN list
      BY <2>1, <2>2, <3>1, <3>2 DEF ListsFilesBefore
    <3>3. CASE m = Len(list) + 1
      BY <1>1, <2>1, <3>1, <3>3
    <3> QED BY <2>1, <3>2, <3>3
  <2>3. ASSUME NEW i \in Entries
        PROVE  IsFile(i) /\ i < n + 1 <=> \E k \in DOMAIN l : l[k] = i
    <3>1. (\E k \in DOMAIN l : l[k] = i) <=> (\E k \in DOMAIN list : list[k] = i) \/ i = n
      <4>1. DOMAIN l = DOMAIN list \cup {Len(list) + 1}
        BY <2>1
      <4> QED BY <2>1, <4>1, Zenon
    <3>2. IsFile(i) /\ i < n <=> \E k \in DOMAIN list : list[k] = i
      BY DEF ListsFilesBefore
    <3> QED BY <1>2, <1>4, <3>1, <3>2
  <2>4. ListsFilesBefore(l, n + 1)
    BY <2>2, <2>3 DEF ListsFilesBefore
  <2> QED BY <2>4 DEF l
<1> QED BY <1>3, <1>4

LEMMA InitTarInv == Init => TarInv
<1> SUFFICES ASSUME Init PROVE TarInv
  OBVIOUS
<1>1. {Missing, Older(MaxRead + 1)} \subseteq EntryFiles
  BY DEF Missing, Older, EntryFiles
<1>2. cache \in [Entries -> EntryFiles] /\ disk \in [Entries -> EntryFiles]
  BY <1>1 DEF Init
<1>3. ckpt = At(0) /\ ckpt \in CheckpointRecord /\ ckpt.tar = NoReader
  BY AtFacts DEF Init
<1>4. saved = NoSave /\ saved \in [ckpt : CheckpointRecord, listed : Seq(Entries)]
  BY DEF Init, NoSave, At, NoEntry, NoReader, None, CheckpointRecord, EntryRecord, ReaderRecord
<1>5. TypeOK
  <2>1. src \in [kind : Sources, off : Nat, want : BOOLEAN, ends : 0 .. EmptyBlocks + 1]
    <3>1. \A k \in Sources :
            [kind |-> k, off |-> 0, want |-> FALSE, ends |-> 0]
              \in [kind : Sources, off : Nat, want : BOOLEAN, ends : 0 .. EmptyBlocks + 1]
      BY ConstantsAssumption
    <3>2. src = [kind |-> src.kind, off |-> 0, want |-> FALSE, ends |-> 0]
          /\ src.kind \in Sources
      BY DEF Init
    <3> QED BY <3>1, <3>2
  <2>2. chunk \in [at : Nat \cup {Misread}, n : Nat, end : {"more", "eof", "error"}]
    BY DEF Init, NoChunk
  <2>3. listed \in Seq(Entries) /\ sr \in ReaderRecord /\ faults \in 0 .. MaxFaults
    BY NoReaderFacts DEF Init
  <2>4. pc = "idle" /\ result = "none" /\ held \in BOOLEAN /\ current \in BOOLEAN /\ stop \in BOOLEAN
    BY DEF Init
  <2> QED BY <1>2, <1>3, <1>4, <2>1, <2>2, <2>3, <2>4 DEF TypeOK
<1> QED
  BY <1>3, <1>4, <1>5
  DEF Init, TarInv, SavedInv, CkptInv, PlaceInv, DataInv, ResultInv

-----------------------------------------------------------------------------
(***************************************************************************)
(* Resume, up to its loop, and what happens to the program.                *)
(***************************************************************************)
SourceStates == [kind : Sources, off : Nat, want : BOOLEAN, ends : 0 .. EmptyBlocks + 1]
Chunks == [at : Nat \cup {Misread}, n : Nat, end : {"more", "eof", "error"}]

LEMMA NoEnds == 0 \in 0 .. EmptyBlocks + 1
  BY ConstantsAssumption

LEMMA FaultCounted ==
  ASSUME TypeOK, Fault \/ UNCHANGED faults
  PROVE  faults' \in 0 .. MaxFaults
  BY DEF TypeOK, Fault

LEMMA MadeFacts ==
  ASSUME NEW c \in CheckpointRecord, MadeInEntry(c)
  PROVE  /\ c.idx \in Entries /\ c.tar \in ReaderRecord /\ c.tar # NoReader
         /\ c.entry # NoEntry /\ c.entry.woff \in Nat /\ c.src = PosOf(c.tar)
         /\ PosOf(c.tar) \in Nat
  BY PosFacts
  DEF MadeInEntry, CheckpointRecord, EntryRecord, NoReader, NoEntry, None, Entries

\* A resumed source is read up to the tar reader, which serves no save: one
\* that still wants a save is there at once.
LEMMA DiscardedFacts ==
  ASSUME TypeOK, NEW c \in CheckpointRecord, MadeInEntry(c),
         NEW offset \in ResumeOffsets(c), NEW s \in ResumedSources(offset),
         NEW d \in Discarded(s, PosOf(c.tar)), NEW v \in SavedInDiscard(s, PosOf(c.tar))
  PROVE  d \in SourceStates /\ d.off = PosOf(c.tar) /\ v = saved
<1> DEFINE pos == PosOf(c.tar)
<1>1. pos \in Nat /\ c.src = pos
  BY MadeFacts
<1>2. /\ src.kind \in Sources /\ src.want \in BOOLEAN
      /\ offset = pos \/ (offset = 0 /\ src.kind = "blocks")
  BY <1>1 DEF TypeOK, ResumeOffsets
<1>3. /\ s.kind = src.kind /\ s.off = offset /\ s.ends = 0
      /\ s.want = (src.want /\ src.kind = "seek" /\ src.kind \in Reused)
      /\ s = [kind |-> s.kind, off |-> s.off, want |-> s.want, ends |-> s.ends]
  BY DEF ResumedSources
<1> HIDE DEF pos
<1>4. CASE offset < pos
  <2>1. src.kind = "blocks"
    BY <1>1, <1>2, <1>4
  <2>2. s.want = FALSE
    BY <1>3, <2>1
  <2>3. d.kind = src.kind /\ d.off = pos /\ d.ends = 0 /\ d.want = FALSE
        /\ d = [kind |-> d.kind, off |-> d.off, want |-> d.want, ends |-> d.ends]
    BY <1>3, <1>4, <2>1, <2>2 DEF Discarded, WantAfterReading, pos
  <2>4. v = saved
    BY <2>2 DEF SavedInDiscard
  <2>5. d \in SourceStates
    <3>1. d.ends \in 0 .. EmptyBlocks + 1 /\ d.want \in BOOLEAN
      BY <2>3, NoEnds
    <3> QED BY <1>1, <1>2, <2>3, <3>1 DEF SourceStates
  <2> QED BY <2>3, <2>4, <2>5 DEF pos
<1>5. CASE ~(offset < pos)
  <2>1. offset = pos
    BY <1>1, <1>2, <1>5
  <2>2. d = s /\ v = saved
    BY <1>3, <1>5 DEF Discarded, SavedInDiscard, pos
  <2>3. s.want \in BOOLEAN
    BY <1>3
  <2>4. s \in SourceStates
    <3>1. s.ends \in 0 .. EmptyBlocks + 1
      BY <1>3, NoEnds
    <3> QED BY <1>1, <1>2, <1>3, <2>1, <2>3, <3>1 DEF SourceStates
  <2> QED BY <1>3, <2>1, <2>2, <2>4 DEF pos
<1> QED BY <1>4, <1>5

LEMMA FreshSourcesFacts ==
  ASSUME TypeOK, NEW s \in FreshSources
  PROVE  s \in SourceStates /\ s.off = 0
<1>1. src.kind \in Sources /\ src.want \in BOOLEAN
  BY DEF TypeOK
<1>2. /\ s = [kind |-> s.kind, off |-> s.off, want |-> s.want, ends |-> s.ends]
      /\ s.kind = src.kind /\ s.off = 0 /\ s.ends = 0
      /\ s.want = (src.want /\ src.kind \in Reused) \/ s.want = FALSE
  BY DEF FreshSources
<1>3. s.want \in BOOLEAN
  <2>1. CASE s.want = FALSE
    BY <2>1
  <2>2. CASE s.want = (src.want /\ src.kind \in Reused)
    BY <2>2
  <2> QED BY <1>2, <2>1, <2>2
<1>4. s = [kind |-> s.kind, off |-> s.off, want |-> s.want, ends |-> s.ends]
  BY <1>2
<1>5. s.kind \in Sources /\ s.off \in Nat /\ s.ends \in 0 .. EmptyBlocks + 1
  <2>1. s.kind = src.kind /\ s.off = 0
    BY <1>2
  <2>2. s.ends = 0
    BY <1>2
  <2>3. s.ends \in 0 .. EmptyBlocks + 1
    BY <2>2, ConstantsAssumption
  <2> QED BY <1>1, <2>1, <2>3
<1>6. s \in SourceStates
  BY <1>3, <1>4, <1>5 DEF SourceStates
<1> QED BY <1>2, <1>6

LEMMA BeginInv ==
  ASSUME TarInv, NEW c \in CheckpointRecord, NEW list \in Seq(Entries), Begin(c, list),
         src' \in SourceStates, src'.off = PosOf(c.tar), faults' \in 0 .. MaxFaults,
         saved' = saved \/ saved' = NoSave,
         \/ c = At(0) /\ list = <<>> /\ (Safe => saved' = NoSave)
         \/ /\ MadeInEntry(c) /\ ListsFilesBefore(list, c.idx) /\ saved' = saved
            /\ Safe => c = saved.ckpt /\ saved # NoSave
  PROVE  TarInv'
<1> USE DEF TarInv
<1>1. /\ ckpt' = c /\ listed' = list /\ sr' = c.tar /\ held' = FALSE /\ stop' = FALSE
      /\ result' = "none" /\ UNCHANGED <<chunk, cache, disk>>
      /\ pc' = IF c.entry = NoEntry THEN "next" ELSE "open"
      /\ current' \in BOOLEAN
  BY DEF Begin
<1>2. saved' \in [ckpt : CheckpointRecord, listed : Seq(Entries)]
  <2>1. At(None) \in CheckpointRecord
    BY DEF At, CheckpointRecord, None, EntryRecord, ReaderRecord, NoEntry, NoReader
  <2>2. NoSave \in [ckpt : CheckpointRecord, listed : Seq(Entries)]
    <3>1. <<>> \in Seq(Entries)
      OBVIOUS
    <3> QED BY <2>1, <3>1 DEF NoSave
  <2>3. saved \in [ckpt : CheckpointRecord, listed : Seq(Entries)]
    BY DEF TypeOK
  <2> QED BY <2>2, <2>3
<1>3. TypeOK'
  <2>1. c.tar \in ReaderRecord
    BY DEF CheckpointRecord
  <2> QED BY <1>1, <1>2, <2>1 DEF TypeOK, SourceStates
<1>4. SavedInv'
  BY <1>1 DEF SavedInv, MadeInEntry, ListsFilesBefore, ExtractedBefore, Extracted
<1>5. CASE c = At(0) /\ list = <<>> /\ (Safe => saved' = NoSave)
  <2>1. /\ c.idx = 0 /\ c.entry = NoEntry /\ c.tar = NoReader /\ c.entry.woff = 0
        /\ pc' = "next" /\ sr'.cur = -1
    BY <1>1, <1>5, AtFacts, NoReaderFacts DEF None
  <2>2. CkptInv'
    BY <1>1, <2>1 DEF CkptInv
  <2>3. PlaceInv'
    BY <1>1, <1>5, <2>1, ListEmpty DEF PlaceInv, None
  <2>4. DataInv'
    BY <1>1, <1>5, <2>1 DEF DataInv, ExtractedBefore, NotBehindSaved, Entries
  <2> QED BY <1>1, <1>3, <1>4, <2>2, <2>3, <2>4 DEF ResultInv
<1>6. CASE /\ MadeInEntry(c) /\ ListsFilesBefore(list, c.idx) /\ saved' = saved
           /\ Safe => c = saved.ckpt /\ saved # NoSave
  <2>1. pc' = "open" /\ c.idx \in Entries /\ c.entry.woff \in Nat
    BY <1>1, <1>6, MadeFacts
  <2>2. CkptInv'
    BY <1>1, <1>6 DEF CkptInv, MadeInEntry
  <2>3. PlaceInv'
    BY <1>1, <1>6, <2>1 DEF PlaceInv, MadeInEntry, SizeOf
  <2>4. DataInv'
    <3> SUFFICES ASSUME Safe PROVE DataInv'
      BY DEF DataInv
    <3>1. ExtractedBefore(c.idx)' /\ c.entry.woff <= cache'[c.idx].good /\ c.tar.at = c.entry.woff
      BY <1>1, <1>6 DEF SavedInv, ExtractedBefore, Extracted
    <3>2. NotBehindSaved(c)'
      BY <1>6, <2>1 DEF NotBehindSaved
    <3> QED BY <1>1, <2>1, <3>1, <3>2 DEF DataInv, NotBehindSaved, ExtractedBefore
  <2> QED BY <1>1, <1>3, <1>4, <2>2, <2>3, <2>4 DEF ResultInv
<1> QED BY <1>5, <1>6

LEMMA ResumeInv ==
  ASSUME TarInv, ResumeFresh \/ ResumeSaved \/ ResumeHeld
  PROVE  TarInv'
<1> USE DEF TarInv
<1>1. faults' \in 0 .. MaxFaults
  BY FaultCounted DEF ResumeFresh, ResumeSaved, ResumeHeld, ResumeWith
<1>2. At(0) \in CheckpointRecord /\ <<>> \in Seq(Entries) /\ PosOf(At(0).tar) = 0
  BY AtFacts, NoReaderFacts
<1>3. ASSUME NEW c \in CheckpointRecord, NEW list \in Seq(Entries), ResumeWith(c, list),
             MadeInEntry(c), ListsFilesBefore(list, c.idx),
             Safe => c = saved.ckpt /\ saved # NoSave
      PROVE  TarInv'
  <2>1. PICK offset \in ResumeOffsets(c) : \E s \in ResumedSources(offset) :
               /\ src' \in Discarded(s, PosOf(c.tar))
               /\ saved' \in SavedInDiscard(s, PosOf(c.tar))
    BY <1>3 DEF ResumeWith
  <2>2. src' \in SourceStates /\ src'.off = PosOf(c.tar) /\ saved' = saved
    BY <1>3, <2>1, DiscardedFacts
  <2>3. Begin(c, list)
    BY <1>3 DEF ResumeWith
  <2> QED BY <1>1, <1>3, <2>2, <2>3, BeginInv
<1>4. CASE ResumeFresh
  <2>1. src' \in SourceStates /\ src'.off = 0
    BY <1>4, FreshSourcesFacts DEF ResumeFresh
  <2> QED BY <1>1, <1>2, <1>4, <2>1, BeginInv DEF ResumeFresh
<1>5. CASE ResumeSaved
  <2>1. saved.ckpt \in CheckpointRecord /\ saved.listed \in Seq(Entries)
    BY DEF TypeOK
  <2> QED BY <1>3, <1>5, <2>1 DEF ResumeSaved, SavedInv
<1>6. CASE ResumeHeld
  <2>1. ~Safe
    BY <1>6 DEF ResumeHeld, CkptInv, Safe
  <2>2. CASE ckpt.tar # NoReader
    BY <1>3, <1>6, <2>1, <2>2 DEF ResumeHeld, CkptInv, TypeOK
  <2>3. CASE ~(ckpt.tar # NoReader)
    <3>1. src' \in FreshSources /\ Begin(At(0), <<>>) /\ UNCHANGED saved
      BY <1>6, <2>3 DEF ResumeHeld
    <3>2. src' \in SourceStates /\ src'.off = 0
      BY <3>1, FreshSourcesFacts
    <3> QED BY <1>1, <1>2, <2>1, <3>1, <3>2, BeginInv
  <2> QED BY <2>2, <2>3
<1> QED BY <1>4, <1>5, <1>6

LEMMA ReturnFacts ==
  ASSUME NEW res, Return(res)
  PROVE  pc' = "idle" /\ result' = res /\ held' \in BOOLEAN /\ (held' => Retries)
  BY DEF Return

\* Nothing is said of a Resume that no longer runs and had no result.
LEMMA IdleInv ==
  ASSUME TypeOK', SavedInv', CkptInv', pc' = "idle", result' # "ok"
  PROVE  TarInv'
  BY DEF TarInv, PlaceInv, DataInv, ResultInv

LEMMA SavedKept ==
  ASSUME SavedInv, UNCHANGED <<saved, cache>>
  PROVE  SavedInv'
  BY DEF SavedInv, ExtractedBefore, Extracted

LEMMA ResumeFailsInv == ASSUME TarInv, ResumeFails PROVE TarInv'
<1> USE DEF TarInv
<1>1. src' \in SourceStates /\ saved' = saved
  <2>1. CASE UNCHANGED <<src, saved>>
    BY <2>1 DEF TypeOK, SourceStates
  <2>2. CASE saved # NoSave /\
             LET c == saved.ckpt IN
             \E offset \in ResumeOffsets(c) : \E s \in ResumedSources(offset) :
               /\ src' \in Discarded(s, PosOf(c.tar))
               /\ saved' \in SavedInDiscard(s, PosOf(c.tar))
    <3>1. saved.ckpt \in CheckpointRecord /\ MadeInEntry(saved.ckpt)
      BY <2>2 DEF TypeOK, SavedInv
    <3> QED BY <2>2, <3>1, DiscardedFacts
  <2> QED BY <2>1, <2>2 DEF ResumeFails
<1>2. /\ UNCHANGED <<ckpt, listed, current, sr, chunk, stop, cache, disk>>
      /\ pc' = "idle" /\ result' = "failed" /\ held' \in BOOLEAN /\ (held' => Retries)
      /\ faults' \in 0 .. MaxFaults
  BY FaultCounted, ReturnFacts DEF ResumeFails
<1>3. TypeOK'
  BY <1>1, <1>2 DEF TypeOK, SourceStates
<1>4. SavedInv'
  BY <1>1, <1>2, SavedKept
<1>5. CkptInv'
  BY <1>2 DEF CkptInv
<1> QED BY <1>2, <1>3, <1>4, <1>5, IdleInv

LEMMA DiesInv == ASSUME TarInv, Crash \/ PowerLoss PROVE TarInv'
<1> USE DEF TarInv
<1>1. /\ pc' = "idle" /\ ckpt' = At(0) /\ listed' = <<>> /\ held' = FALSE /\ current' = FALSE
      /\ sr' = NoReader /\ chunk' = NoChunk /\ stop' = FALSE /\ result' = "none"
      /\ src' = [kind |-> src.kind, off |-> 0, want |-> FALSE, ends |-> 0]
      /\ faults' \in 0 .. MaxFaults /\ saved' = saved
  BY FaultCounted DEF Crash, PowerLoss, Dies
<1>2. /\ cache' \in [Entries -> EntryFiles] /\ disk' \in [Entries -> EntryFiles]
      /\ ~PowerFails => cache' = cache
  <2>1. cache \in [Entries -> EntryFiles] /\ disk \in [Entries -> EntryFiles]
    BY DEF TypeOK
  <2>2. CASE Crash
    BY <2>1, <2>2 DEF Crash
  <2>3. CASE PowerLoss
    <3>1. PICK lost \in SUBSET Entries :
            cache' = [i \in Entries |-> IF i \in lost THEN disk[i] ELSE cache[i]]
      BY <2>3 DEF PowerLoss
    <3>2. cache' \in [Entries -> EntryFiles]
      BY <2>1, <3>1
    <3> QED BY <2>3, <3>2 DEF PowerLoss
  <2> QED BY <2>2, <2>3
<1>3. TypeOK'
  <2>1. src' \in [kind : Sources, off : Nat, want : BOOLEAN, ends : 0 .. EmptyBlocks + 1]
    <3>1. src.kind \in Sources
      BY DEF TypeOK
    <3> QED BY <1>1, <3>1
  <2>2. chunk' \in [at : Nat \cup {Misread}, n : Nat, end : {"more", "eof", "error"}]
    BY <1>1 DEF NoChunk
  <2>3. ckpt' \in CheckpointRecord /\ sr' \in ReaderRecord /\ listed' \in Seq(Entries)
    BY <1>1, AtFacts, NoReaderFacts
  <2>4. held' \in BOOLEAN /\ current' \in BOOLEAN /\ stop' \in BOOLEAN
    BY <1>1
  <2>5. saved' \in [ckpt : CheckpointRecord, listed : Seq(Entries)]
    BY <1>1 DEF TypeOK
  <2> QED BY <1>1, <1>2, <2>1, <2>2, <2>3, <2>4, <2>5 DEF TypeOK
<1>4. SavedInv'
  BY <1>1, <1>2 DEF SavedInv, Safe, ExtractedBefore, Extracted
<1>5. CkptInv'
  BY <1>1, AtFacts DEF CkptInv
<1> QED BY <1>1, <1>3, <1>4, <1>5, IdleInv

-----------------------------------------------------------------------------
(***************************************************************************)
(* The loop over the entries.                                              *)
(***************************************************************************)
LEMMA BetweenEntries ==
  ASSUME TarInv, pc = "next"
  PROVE  /\ ckpt = At(sr.cur + 1) /\ ckpt.idx = sr.cur + 1
         /\ sr.cur \in {None} \cup Entries /\ ckpt.idx \in 0 .. NumEntries
         /\ ckpt.tar = NoReader /\ ckpt.entry.woff = 0 /\ ~stop
         /\ src.off = PosOf(sr) /\ PosOf(sr) \in Nat /\ sr \in ReaderRecord
<1>1. ckpt = At(sr.cur + 1) /\ sr.cur \in {None} \cup Entries /\ ~stop /\ src.off = PosOf(sr)
  BY DEF TarInv, PlaceInv
<1>2. sr.cur + 1 \in 0 .. NumEntries
  BY <1>1 DEF Entries, None
<1> QED BY <1>1, <1>2, AtFacts, PosFacts DEF TarInv, TypeOK

LEMMA NextHeaderInv == ASSUME TarInv, NextHeader PROVE TarInv'
<1> USE DEF TarInv
<1>0. PICK i : i = sr.cur + 1
  OBVIOUS
<1> DEFINE r == [cur |-> i, at |-> 0]
<1>1. /\ pc = "next" /\ i < NumEntries /\ sr' = r
      /\ src' \in [kind : {src.kind}, off : {src.off + PosOf(r) - PosOf(sr)},
                   want : WantAfterReading(src.want), ends : {0}]
      /\ UNCHANGED <<listed, saved, held, chunk, stop, cache, disk, result, faults>>
  BY <1>0 DEF NextHeader
<1>2. ckpt = At(i) /\ i \in Entries /\ ckpt.idx = i /\ i + 1 \in 0 .. NumEntries
  BY <1>0, <1>1, BetweenEntries DEF Entries, None
<1>3. r \in ReaderRecord /\ r.cur = i /\ r.at = 0
  BY <1>2 DEF ReaderRecord
<1> HIDE DEF r
<1>4. src'.off = PosOf(r) /\ src' \in SourceStates
  <2>1. PosOf(r) \in Nat /\ PosOf(sr) \in Nat /\ src.off = PosOf(sr)
    BY <1>1, <1>3, PosFacts, BetweenEntries
  <2>2. src.off + PosOf(r) - PosOf(sr) = PosOf(r)
    BY <2>1
  <2>3. WantAfterReading(src.want) \subseteq BOOLEAN
    BY DEF WantAfterReading, TypeOK
  <2>4. src.kind \in Sources
    BY DEF TypeOK
  <2> QED BY <1>1, <2>1, <2>2, <2>3, <2>4 DEF SourceStates
<1>5. SavedInv'
  BY <1>1, SavedKept
<1>6. /\ ListsFilesBefore(listed, i) /\ listed \in Seq(Entries) /\ result = "none"
      /\ Safe => ExtractedBefore(i) /\ NotBehindSaved(ckpt)
  BY <1>1, <1>2 DEF PlaceInv, DataInv, TypeOK
<1>7. CASE Archive[i].kind = "other"
  <2>1. ckpt' = [ckpt EXCEPT !.idx = @ + 1] /\ UNCHANGED <<pc, current>>
    BY <1>0, <1>1, <1>7 DEF NextHeader, r
  <2>2. ckpt' = At(i + 1)
    BY <1>2, <2>1 DEF At
  <2>3. ckpt' \in CheckpointRecord /\ ckpt'.idx = i + 1 /\ ckpt'.tar = NoReader
    BY <1>2, <2>2, AtFacts
  <2>4. TypeOK'
    BY <1>1, <1>3, <1>4, <2>1, <2>3 DEF TypeOK, SourceStates
  <2>5. CkptInv'
    BY <1>1, <2>3 DEF CkptInv
  <2>6. ListsFilesBefore(listed, i + 1)
    BY <1>2, <1>6, <1>7, ListPasses DEF IsFile
  <2>7. PlaceInv'
    BY <1>1, <1>2, <1>3, <1>4, <1>6, <2>1, <2>2, <2>3, <2>6, BetweenEntries DEF PlaceInv
  <2>8. DataInv'
    <3> SUFFICES ASSUME Safe PROVE DataInv'
      BY DEF DataInv
    <3>1. ExtractedBefore(i + 1)'
      <4> SUFFICES ASSUME NEW j \in Entries, j < i + 1 PROVE Extracted(j)'
        BY DEF ExtractedBefore
      <4>1. Extracted(j)
        <5>1. j < i \/ j = i
          BY <1>2 DEF Entries
        <5> QED BY <1>6, <1>7, <5>1 DEF ExtractedBefore, Extracted
      <4> QED BY <1>1, <4>1 DEF Extracted
    <3>2. NotBehindSaved(ckpt)'
      <4>1. saved # NoSave => saved.ckpt.idx \in Int
        BY DEF SavedInv, MadeInEntry, Entries
      <4> QED BY <1>1, <1>2, <1>6, <2>3, <4>1 DEF NotBehindSaved, Entries
    <3> QED BY <1>1, <2>1, <2>3, <3>1, <3>2 DEF DataInv
  <2> QED BY <1>1, <1>5, <1>6, <2>4, <2>5, <2>7, <2>8 DEF ResultInv
<1>8. CASE Archive[i].kind # "other"
  <2>1. /\ ckpt' = [ckpt EXCEPT !.entry = [of |-> i, woff |-> 0]]
        /\ pc' = "open" /\ current' = TRUE
    BY <1>0, <1>1, <1>3, <1>8 DEF NextHeader, r
  <2>2. /\ ckpt'.idx = i /\ ckpt'.entry = [of |-> i, woff |-> 0] /\ ckpt'.tar = NoReader
        /\ ckpt' \in CheckpointRecord
    <3>1. ckpt \in CheckpointRecord /\ [of |-> i, woff |-> 0] \in EntryRecord
      BY <1>2 DEF TypeOK, EntryRecord
    <3> QED BY <1>1, <1>2, <2>1, <3>1, BetweenEntries DEF CheckpointRecord
  <2>3. TypeOK'
    BY <1>1, <1>3, <1>4, <2>1, <2>2 DEF TypeOK, SourceStates
  <2>4. CkptInv'
    BY <1>1, <2>2 DEF CkptInv
  <2>5. PlaceInv'
    BY <1>1, <1>2, <1>3, <1>4, <1>6, <2>1, <2>2, BetweenEntries, ArchiveFacts
    DEF PlaceInv, SizeOf
  <2>6. DataInv'
    <3> SUFFICES ASSUME Safe PROVE DataInv'
      BY DEF DataInv
    <3>1. ExtractedBefore(i)' /\ cache'[i].good \in Nat
      BY <1>1, <1>2, <1>6 DEF ExtractedBefore, Extracted, TypeOK, EntryFiles
    <3>2. NotBehindSaved(ckpt)'
      BY <1>1, <1>2, <1>6, <2>2, BetweenEntries DEF NotBehindSaved
    <3> QED BY <1>1, <1>3, <2>1, <2>2, <3>1, <3>2 DEF DataInv
  <2> QED BY <1>1, <1>5, <1>6, <2>3, <2>4, <2>5, <2>6 DEF ResultInv
<1> QED BY <1>7, <1>8

LEMMA NextFailsInv == ASSUME TarInv, NextFails PROVE TarInv'
<1> USE DEF TarInv
<1>1. /\ UNCHANGED <<ckpt, listed, saved, current, sr, chunk, stop, cache, disk>>
      /\ pc' = "idle" /\ result' = "failed" /\ held' \in BOOLEAN /\ (held' => Retries)
      /\ faults' \in 0 .. MaxFaults
  BY FaultCounted, ReturnFacts DEF NextFails
<1>2. PICK n \in 0 .. 1 : src' = [src EXCEPT !.off = @ + n]
  BY DEF NextFails
<1>3. TypeOK'
  <2>1. src \in SourceStates /\ src.off + n \in Nat
    BY DEF TypeOK, SourceStates
  <2>2. src' \in SourceStates
    BY <1>2, <2>1 DEF SourceStates
  <2> QED BY <1>1, <2>2 DEF TypeOK, SourceStates
<1> QED BY <1>1, <1>3, SavedKept, IdleInv DEF CkptInv

LEMMA FinishInv == ASSUME TarInv, Finish PROVE TarInv'
<1> USE DEF TarInv
<1>1. /\ UNCHANGED <<ckpt, listed, saved, current, sr, src, chunk, stop, cache, disk, faults>>
      /\ pc = "next" /\ sr.cur + 1 = NumEntries
      /\ pc' = "idle" /\ result' = "ok" /\ held' \in BOOLEAN /\ (held' => Retries)
  BY ReturnFacts DEF Finish
<1>2. TypeOK'
  BY <1>1 DEF TypeOK
<1>3. ckpt.idx = NumEntries
  BY <1>1, BetweenEntries
<1>4. ListsFilesBefore(listed, NumEntries)
  BY <1>1, <1>3 DEF PlaceInv
<1>5. Safe => \A i \in Entries : Extracted(i)
  BY <1>1, <1>3 DEF DataInv, ExtractedBefore, Entries
<1>6. ResultInv'
  BY <1>1, <1>4, <1>5 DEF ResultInv, Extracted
<1>7. CkptInv' /\ SavedInv'
  BY <1>1, SavedKept DEF CkptInv
<1> QED BY <1>1, <1>2, <1>6, <1>7 DEF PlaceInv, DataInv

AtEntry == pc \in {"open", "copy", "write"}

LEMMA InEntry ==
  ASSUME TarInv, AtEntry
  PROVE  /\ ckpt.idx \in Entries /\ ckpt.entry.of = ckpt.idx /\ sr.cur = ckpt.idx
         /\ ckpt.idx \in 0 .. NumEntries /\ ckpt.idx + 1 \in 0 .. NumEntries
         /\ SizeOf(ckpt.idx) \in Nat /\ sr.at \in Nat /\ sr.at <= SizeOf(ckpt.idx)
         /\ cache[ckpt.idx] \in EntryFiles /\ ckpt.entry.woff \in Nat
         /\ sr \in ReaderRecord /\ src.off = PosOf(sr) /\ PosOf(sr) \in Nat
         /\ result = "none" /\ ListsFilesBefore(listed, ckpt.idx)
         /\ Safe /\ saved # NoSave =>
              /\ saved.ckpt.idx \in Entries /\ saved.ckpt.idx <= ckpt.idx
              /\ saved.ckpt.entry.woff \in Nat
              /\ saved.ckpt.idx = ckpt.idx => saved.ckpt.entry.woff <= ckpt.entry.woff
<1> USE DEF TarInv, AtEntry
<1>1. /\ ckpt.idx \in Entries /\ ckpt.entry.of = ckpt.idx /\ sr.cur = ckpt.idx
      /\ sr.at <= SizeOf(ckpt.idx) /\ src.off = PosOf(sr) /\ result = "none"
      /\ ListsFilesBefore(listed, ckpt.idx)
  BY DEF PlaceInv
<1>2. ckpt.idx \in 0 .. NumEntries /\ ckpt.idx + 1 \in 0 .. NumEntries
  BY <1>1 DEF Entries
<1>3. SizeOf(ckpt.idx) \in Nat /\ PosOf(sr) \in Nat
  BY <1>1, ArchiveFacts, PosFacts DEF SizeOf, TypeOK
<1>4. /\ sr \in ReaderRecord /\ sr.at \in Nat /\ cache[ckpt.idx] \in EntryFiles
      /\ ckpt.entry.woff \in Nat
  BY <1>1 DEF TypeOK, ReaderRecord, CheckpointRecord, EntryRecord
<1>5. ASSUME Safe, saved # NoSave
      PROVE  /\ saved.ckpt.idx \in Entries /\ saved.ckpt.idx <= ckpt.idx
             /\ saved.ckpt.entry.woff \in Nat
             /\ saved.ckpt.idx = ckpt.idx => saved.ckpt.entry.woff <= ckpt.entry.woff
  <2>1. NotBehindSaved(ckpt)
    BY <1>5 DEF DataInv
  <2>2. saved.ckpt.idx \in Entries /\ saved.ckpt.entry.woff \in Nat
    BY <1>5, MadeFacts DEF SavedInv, TypeOK
  <2> QED BY <1>2, <1>5, <2>1, <2>2 DEF NotBehindSaved, Entries
<1> QED BY <1>1, <1>2, <1>3, <1>4, <1>5

\* Work on one entry leaves those before it, and what was persisted, alone.
LEMMA OtherEntriesKept ==
  ASSUME TarInv, AtEntry, NEW f \in EntryFiles,
         cache' = [cache EXCEPT ![ckpt.entry.of] = f],
         Safe /\ saved # NoSave /\ saved.ckpt.idx = ckpt.idx
           => saved.ckpt.entry.woff <= f.good,
         UNCHANGED saved
  PROVE  /\ cache' \in [Entries -> EntryFiles] /\ cache'[ckpt.idx] = f
         /\ SavedInv'
         /\ Safe => \A i \in Entries : i < ckpt.idx => Extracted(i)'
<1> USE DEF TarInv
<1>1. /\ cache' \in [Entries -> EntryFiles] /\ cache'[ckpt.idx] = f
      /\ \A i \in Entries : i # ckpt.idx => cache'[i] = cache[i]
  BY InEntry DEF TypeOK
<1>2. \A i \in Entries : i < ckpt.idx => i # ckpt.idx
  BY DEF Entries
<1>3. Safe => \A i \in Entries : i < ckpt.idx => Extracted(i)'
  BY <1>1, <1>2 DEF DataInv, ExtractedBefore, Extracted, AtEntry
<1>4. SavedInv'
  <2> SUFFICES ASSUME Safe, saved # NoSave
               PROVE  /\ saved.ckpt.entry.woff <= cache'[saved.ckpt.idx].good
                      /\ \A i \in Entries : i < saved.ckpt.idx => Extracted(i)'
    BY DEF SavedInv, ExtractedBefore
  <2>1. saved.ckpt.idx \in Entries /\ saved.ckpt.idx <= ckpt.idx /\ ckpt.idx \in Entries
    BY InEntry
  <2>2. \A i \in Entries : i < saved.ckpt.idx => i < ckpt.idx
    BY <2>1 DEF Entries
  <2>3. saved.ckpt.entry.woff <= cache'[saved.ckpt.idx].good
    BY <1>1, <2>1 DEF SavedInv
  <2> QED BY <1>3, <2>2, <2>3
<1> QED BY <1>1, <1>3, <1>4

LEMMA EntryDoneInv ==
  ASSUME TarInv, AtEntry, NEW f \in EntryFiles,
         cache' = [cache EXCEPT ![ckpt.entry.of] = f],
         Safe /\ saved # NoSave /\ saved.ckpt.idx = ckpt.idx
           => saved.ckpt.entry.woff <= f.good,
         Safe => Complete(f, SizeOf(ckpt.idx)),
         EntryDone, chunk' \in Chunks,
         listed' \in Seq(Entries), ListsFilesBefore(listed', ckpt.idx + 1),
         UNCHANGED <<saved, sr, src, stop, disk, faults>>
  PROVE  TarInv'
<1> USE DEF TarInv
<1>1. PICK i \in Entries : i = ckpt.idx /\ i + 1 \in 0 .. NumEntries /\ i \in 0 .. NumEntries
  BY InEntry
<1>2. /\ cache' \in [Entries -> EntryFiles] /\ cache'[i] = f /\ SavedInv'
      /\ Safe => \A j \in Entries : j < i => Extracted(j)'
  BY <1>1, OtherEntriesKept
<1>3. Safe => ExtractedBefore(i + 1)'
  <2>1. Safe => Extracted(i)'
    BY <1>1, <1>2 DEF Extracted, SizeOf
  <2>2. \A j \in Entries : j < i + 1 => j < i \/ j = i
    BY DEF Entries
  <2> QED BY <1>2, <2>1, <2>2 DEF ExtractedBefore
<1>4. CASE stop
  <2>1. /\ ckpt' = At(i) /\ UNCHANGED current
        /\ pc' = "idle" /\ result' = "stopped" /\ held' \in BOOLEAN /\ (held' => Retries)
    BY <1>1, <1>4, ReturnFacts DEF EntryDone, AfterStop
  <2>2. ckpt' \in CheckpointRecord /\ ckpt'.tar = NoReader
    BY <1>1, <2>1, AtFacts
  <2>3. TypeOK'
    BY <1>2, <2>1, <2>2 DEF TypeOK, Chunks
  <2>4. CkptInv'
    BY <2>1, <2>2 DEF CkptInv
  <2> QED BY <1>2, <2>1, <2>3, <2>4, IdleInv
<1>5. CASE ~stop
  <2>1. ckpt' = At(i + 1) /\ pc' = "next" /\ current' = FALSE /\ UNCHANGED <<held, result>>
    BY <1>1, <1>5 DEF EntryDone, NextEntry
  <2>2. /\ ckpt' \in CheckpointRecord /\ ckpt'.tar = NoReader /\ ckpt'.idx = i + 1
    BY <1>1, <2>1, AtFacts
  <2>3. TypeOK'
    BY <1>2, <2>1, <2>2 DEF TypeOK, Chunks
  <2>4. CkptInv'
    BY <2>1, <2>2 DEF CkptInv
  <2>5. PlaceInv'
    BY <1>1, <1>5, <2>1, <2>2, InEntry DEF PlaceInv
  <2>6. DataInv'
    <3> SUFFICES ASSUME Safe PROVE DataInv'
      BY DEF DataInv
    <3>1. NotBehindSaved(ckpt)'
      <4>1. saved # NoSave => saved.ckpt.idx \in Entries /\ saved.ckpt.idx <= i
        BY <1>1, InEntry
      <4>2. saved # NoSave => saved.ckpt.idx < i + 1
        BY <4>1 DEF Entries
      <4> QED BY <2>2, <4>2 DEF NotBehindSaved
    <3> QED BY <1>3, <2>1, <2>2, <3>1 DEF DataInv
  <2>7. ResultInv'
    BY <2>1, InEntry DEF ResultInv
  <2> QED BY <1>2, <2>3, <2>4, <2>5, <2>6, <2>7
<1> QED BY <1>4, <1>5

LEMMA MakeDirOrSymlinkInv == ASSUME TarInv, MakeDirOrSymlink PROVE TarInv'
<1> USE DEF TarInv
<1>1. PICK i \in Entries : i = ckpt.idx /\ SizeOf(i) \in Nat /\ ckpt.entry.of = i
  BY InEntry DEF MakeDirOrSymlink, AtEntry
<1>2. /\ AtEntry /\ ~IsFile(i) /\ EntryDone
      /\ cache' = [cache EXCEPT ![ckpt.entry.of] = Made(SizeOf(i))]
      /\ UNCHANGED <<listed, saved, sr, src, chunk, stop, disk, faults>>
  BY <1>1 DEF MakeDirOrSymlink, AtEntry, SizeOf
<1>3. Made(SizeOf(i)) \in EntryFiles /\ Complete(Made(SizeOf(i)), SizeOf(i))
  BY <1>1 DEF Made, EntryFiles, Complete
<1>4. ~(saved # NoSave /\ saved.ckpt.idx = ckpt.idx)
  BY <1>1, <1>2 DEF SavedInv, MadeInEntry
<1>5. listed' \in Seq(Entries) /\ ListsFilesBefore(listed', i + 1)
  BY <1>1, <1>2, InEntry, ListPasses DEF TypeOK
<1>6. chunk' \in Chunks
  BY <1>2 DEF TypeOK, Chunks
<1> QED BY <1>1, <1>2, <1>3, <1>4, <1>5, <1>6, EntryDoneInv

LEMMA OpenEntryInv == ASSUME TarInv, OpenEntry PROVE TarInv'
<1> USE DEF TarInv
<1>1. PICK i \in Entries, w \in Nat :
        i = ckpt.idx /\ ckpt.entry.of = i /\ w = ckpt.entry.woff
  BY InEntry DEF OpenEntry, AtEntry
<1>2. PICK f : f = WriterAt(Created(cache[i]), w)
  OBVIOUS
<1>3. /\ AtEntry /\ pc = "open" /\ IsFile(i) /\ pc' = "copy" /\ chunk' = NoChunk
      /\ cache' = [cache EXCEPT ![ckpt.entry.of] = f]
      /\ UNCHANGED <<ckpt, listed, saved, held, current, sr, src, stop, disk, result, faults>>
  BY <1>1, <1>2, InEntry DEF OpenEntry, AtEntry
<1>4. cache[i] \in EntryFiles /\ Created(cache[i]) \in EntryFiles
      /\ Created(cache[i]).good = cache[i].good
  BY <1>1, <1>3, InEntry, FileFacts
<1>5. f \in EntryFiles
  BY <1>1, <1>2, <1>4, FileFacts
<1>6. Safe => sr.at = w /\ w <= cache[i].good
  BY <1>1, <1>3 DEF DataInv
<1>7. Safe => f = [len |-> w, good |-> w]
  BY <1>1, <1>2, <1>4, <1>6, FileFacts
<1>8. Safe /\ saved # NoSave /\ saved.ckpt.idx = ckpt.idx => saved.ckpt.entry.woff <= f.good
  BY <1>1, <1>3, <1>7, InEntry
<1>9. /\ cache' \in [Entries -> EntryFiles] /\ cache'[i] = f /\ SavedInv'
      /\ Safe => ExtractedBefore(i)'
  BY <1>1, <1>3, <1>5, <1>8, OtherEntriesKept DEF ExtractedBefore
<1>10. TypeOK'
  <2>1. chunk' \in Chunks
    BY <1>3 DEF NoChunk, Chunks
  <2> QED BY <1>3, <1>9, <2>1 DEF TypeOK, Chunks
<1>11. CkptInv'
  BY <1>3 DEF CkptInv
<1>12. PlaceInv'
  BY <1>1, <1>3 DEF PlaceInv
<1>13. DataInv'
  <2> SUFFICES ASSUME Safe PROVE DataInv'
    BY DEF DataInv
  <2>1. NotBehindSaved(ckpt)'
    BY <1>3 DEF DataInv, NotBehindSaved
  <2> QED BY <1>1, <1>3, <1>6, <1>7, <1>9, <2>1 DEF DataInv
<1>14. ResultInv'
  BY <1>3, InEntry DEF ResultInv
<1> QED BY <1>9, <1>10, <1>11, <1>12, <1>13, <1>14

LEMMA EntryFailsInv == ASSUME TarInv, EntryFails PROVE TarInv'
<1> USE DEF TarInv
<1>1. /\ AtEntry
      /\ UNCHANGED <<ckpt, listed, saved, current, sr, src, chunk, stop, disk>>
      /\ pc' = "idle" /\ result' = "failed" /\ held' \in BOOLEAN /\ (held' => Retries)
      /\ faults' \in 0 .. MaxFaults
  BY FaultCounted, ReturnFacts DEF EntryFails, AtEntry
<1>2. cache' \in [Entries -> EntryFiles] /\ SavedInv'
  <2>1. CASE UNCHANGED cache
    BY <1>1, <2>1, SavedKept DEF TypeOK
  <2>2. CASE cache' = [cache EXCEPT ![ckpt.entry.of] = Created(@)]
    <3>1. PICK f : f = Created(cache[ckpt.idx])
      OBVIOUS
    <3>2. f \in EntryFiles /\ f.good = cache[ckpt.idx].good
      BY <1>1, <3>1, InEntry, FileFacts
    <3>3. cache' = [cache EXCEPT ![ckpt.entry.of] = f]
      BY <1>1, <2>2, <3>1, InEntry
    <3>4. Safe /\ saved # NoSave /\ saved.ckpt.idx = ckpt.idx => saved.ckpt.entry.woff <= f.good
      BY <3>2 DEF SavedInv
    <3> QED BY <1>1, <3>2, <3>3, <3>4, OtherEntriesKept
  <2> QED BY <2>1, <2>2 DEF EntryFails
<1>3. TypeOK'
  BY <1>1, <1>2 DEF TypeOK
<1> QED BY <1>1, <1>2, <1>3, IdleInv DEF CkptInv

-----------------------------------------------------------------------------
(***************************************************************************)
(* The copier reads, and the source may save.                              *)
(***************************************************************************)
SavesOrNot ==
  /\ Fault \/ UNCHANGED faults
  /\ \/ UNCHANGED <<ckpt, saved, stop>>
     \/ Save
     \/ ckpt' \in {ckpt, Noted(ckpt)} /\ UNCHANGED <<saved, stop>>

\* A checkpoint that is noted or saved is of the place the copier is at.
LEMMA SavesFacts ==
  ASSUME TarInv, pc = "copy", UNCHANGED <<cache, listed, held>>, SavesOrNot
  PROVE  /\ ckpt' \in CheckpointRecord /\ ckpt'.idx = ckpt.idx /\ ckpt'.entry = ckpt.entry
         /\ saved' \in [ckpt : CheckpointRecord, listed : Seq(Entries)]
         /\ stop' \in BOOLEAN /\ CkptInv' /\ SavedInv'
         /\ Safe => NotBehindSaved(ckpt)'
<1> USE DEF TarInv
<1>1. AtEntry /\ IsFile(ckpt.idx)
  BY DEF AtEntry, PlaceInv
<1> DEFINE c == Noted(ckpt)
<1>2. /\ c \in CheckpointRecord /\ c.idx = ckpt.idx /\ c.entry = ckpt.entry
      /\ c.src = src.off /\ c.tar = sr
  <2>1. ckpt \in CheckpointRecord /\ src.off \in Nat /\ sr \in ReaderRecord
    BY DEF TypeOK
  <2> QED BY <2>1 DEF Noted, CheckpointRecord
<1>3. MadeInEntry(c)
  BY <1>1, <1>2, InEntry DEF MadeInEntry
<1> HIDE DEF c
<1>4. listed \in Seq(Entries) /\ ListsFilesBefore(listed, ckpt.idx)
  BY <1>1, InEntry DEF TypeOK
<1>5. /\ ckpt' \in {ckpt, c} /\ ckpt' \in CheckpointRecord /\ ckpt'.idx = ckpt.idx
      /\ ckpt'.entry = ckpt.entry
  BY <1>2 DEF SavesOrNot, Save, TypeOK, c
<1>6. CkptInv'
  BY <1>2, <1>3, <1>4, <1>5 DEF CkptInv
<1>7. CASE UNCHANGED <<saved, stop>>
  <2>1. Safe => NotBehindSaved(ckpt)'
    BY <1>5, <1>7 DEF DataInv, NotBehindSaved
  <2> QED BY <1>5, <1>6, <1>7, <2>1, SavedKept DEF TypeOK
<1>8. CASE Save
  <2>1. saved' = [ckpt |-> c, listed |-> listed] /\ stop' \in BOOLEAN
    BY <1>8 DEF Save, SavedBy, Noted, TypeOK, c
  <2>2. saved' \in [ckpt : CheckpointRecord, listed : Seq(Entries)]
    BY <1>2, <1>4, <2>1
  <2>3. SavedInv'
    <3>1. ASSUME Safe
          PROVE  /\ c.entry.woff = c.tar.at /\ c.entry.woff <= cache[c.idx].good
                 /\ ExtractedBefore(c.idx)
      BY <1>1, <1>2, <3>1, InEntry DEF DataInv
    <3> QED
      BY <1>2, <1>3, <1>4, <2>1, <3>1 DEF SavedInv, ExtractedBefore, Extracted
  <2>4. NotBehindSaved(ckpt)'
    BY <1>1, <1>2, <1>5, <2>1, InEntry DEF NotBehindSaved
  <2> QED BY <1>5, <1>6, <2>1, <2>2, <2>3, <2>4
<1> QED BY <1>7, <1>8 DEF SavesOrNot

LEMMA HandsInv ==
  ASSUME TarInv, pc = "copy", SavesOrNot,
         NEW n \in Nat, NEW end \in {"more", "eof", "error"}, NEW want \in BOOLEAN,
         Hands(n, end, want), n = 0 /\ end = "more" => src.ends <= EmptyBlocks,
         sr.at + n <= SizeOf(sr.cur),
         end = "eof" => sr.at = SizeOf(sr.cur) /\ n = 0
  PROVE  TarInv'
<1> USE DEF TarInv
<1>1. /\ pc' = "write" /\ UNCHANGED <<listed, held, current, cache, disk, result>>
      /\ sr' = [sr EXCEPT !.at = @ + n]
      /\ src' = [kind |-> src.kind, off |-> src.off + n, want |-> want,
                 ends |-> EndsAfter(n, end)]
  BY DEF Hands
<1>2. AtEntry
  BY DEF AtEntry
<1>3. /\ ckpt.idx \in Entries /\ ckpt.entry.of = ckpt.idx /\ sr.cur = ckpt.idx
      /\ sr \in ReaderRecord /\ sr.at \in Nat /\ src.off = PosOf(sr) /\ PosOf(sr) \in Nat
      /\ ListsFilesBefore(listed, ckpt.idx) /\ result = "none"
  BY <1>2, InEntry
<1>4. chunk' = [at |-> sr.at, n |-> n, end |-> end]
  BY <1>3 DEF Hands
<1>5. /\ sr' \in ReaderRecord /\ sr'.cur = sr.cur /\ sr'.at = sr.at + n
      /\ PosOf(sr') = src.off + n
  <2>1. sr' \in ReaderRecord /\ sr'.cur = sr.cur /\ sr'.at = sr.at + n
    BY <1>1, <1>3 DEF ReaderRecord
  <2>2. sr.cur # None
    BY <1>3 DEF None, Entries
  <2>3. PosOf(sr') = PosOf(sr) + n
    BY <1>1, <1>3, <2>2, PosFacts
  <2> QED BY <1>3, <2>1, <2>3
<1>6. src' \in SourceStates /\ src'.off = src.off + n
  <2>1. src.kind \in Sources /\ src.off + n \in Nat
    BY <1>3 DEF TypeOK
  <2>2. EndsAfter(n, end) \in 0 .. EmptyBlocks + 1
    BY ConstantsAssumption DEF EndsAfter, TypeOK
  <2> QED BY <1>1, <2>1, <2>2 DEF SourceStates
<1>7. /\ ckpt' \in CheckpointRecord /\ ckpt'.idx = ckpt.idx /\ ckpt'.entry = ckpt.entry
      /\ saved' \in [ckpt : CheckpointRecord, listed : Seq(Entries)]
      /\ stop' \in BOOLEAN /\ CkptInv' /\ SavedInv'
      /\ Safe => NotBehindSaved(ckpt)'
  BY <1>1, SavesFacts
<1>8. faults' \in 0 .. MaxFaults
  BY FaultCounted DEF SavesOrNot
<1>9. TypeOK'
  <2>1. chunk' \in Chunks
    BY <1>3, <1>4 DEF Chunks
  <2> QED BY <1>1, <1>5, <1>6, <1>7, <1>8, <2>1 DEF TypeOK, Chunks, SourceStates
<1>10. PlaceInv'
  BY <1>1, <1>3, <1>4, <1>5, <1>6, <1>7 DEF PlaceInv, SizeOf
<1>11. DataInv'
  <2> SUFFICES ASSUME Safe PROVE DataInv'
    BY DEF DataInv
  <2>1. ExtractedBefore(ckpt.idx) /\ sr.at = ckpt.entry.woff
        /\ cache[ckpt.idx] = [len |-> ckpt.entry.woff, good |-> ckpt.entry.woff]
    BY DEF DataInv
  <2>2. ExtractedBefore(ckpt.idx)'
    BY <1>1, <1>7, <2>1 DEF ExtractedBefore, Extracted
  <2> QED BY <1>1, <1>4, <1>5, <1>7, <2>1, <2>2 DEF DataInv
<1>12. ResultInv'
  BY <1>1, <1>3 DEF ResultInv
<1> QED BY <1>7, <1>9, <1>10, <1>11, <1>12

LEMMA ReadInv ==
  ASSUME TarInv, ReadEnd \/ Read \/ ReadSavesSeek \/ ReadSavesBlocks \/ ReadFails
  PROVE  TarInv'
<1> USE DEF TarInv
<1>1. pc = "copy" /\ size = SizeOf(sr.cur) /\ src.want \in BOOLEAN
  BY DEF ReadEnd, Read, ReadSavesSeek, ReadSavesBlocks, ReadFails, Reading, size, SizeOf, TypeOK
<1>2. sr.at \in Nat /\ SizeOf(sr.cur) \in Nat /\ sr.at <= SizeOf(sr.cur)
  BY <1>1, InEntry DEF AtEntry
<1>2a. 0 \in Nat /\ sr.at + 0 <= SizeOf(sr.cur)
  BY <1>2
<1>3. ASSUME NEW n \in Lengths, Reading
      PROVE  n \in Nat /\ n # 0 /\ sr.at + n <= SizeOf(sr.cur)
  BY <1>1, <1>2, <1>3 DEF Lengths, Lesser
<1>4. CASE ReadEnd
  <2>1. SavesOrNot /\ Hands(0, "eof", src.want) /\ sr.at = SizeOf(sr.cur)
    BY <1>1, <1>4 DEF ReadEnd, NoSaveNow, SavesOrNot
  <2> QED BY <1>2a, <1>1, <2>1, HandsInv
<1>5. CASE Read
  <2>1. SavesOrNot /\ Reading
    BY <1>5 DEF Read, NoSaveNow, SavesOrNot
  <2>2. PICK n \in Lengths : Hands(n, "more", src.want)
    BY <1>5 DEF Read
  <2> QED BY <1>1, <1>3, <2>1, <2>2, HandsInv
<1>6. CASE ReadSavesSeek
  <2>1. SavesOrNot /\ Reading
    BY <1>6 DEF ReadSavesSeek, SaveFails, SavesOrNot
  <2>2. PICK n \in Lengths : Hands(n, "more", FALSE)
    BY <1>6 DEF ReadSavesSeek
  <2> QED BY <1>1, <1>3, <2>1, <2>2, HandsInv
<1>7. CASE ReadSavesBlocks
  <2>1. SavesOrNot
    BY <1>7 DEF ReadSavesBlocks, SaveFails, SavesOrNot
  <2>2. PICK end \in {"more", "error"} : Hands(0, end, FALSE)
    BY <1>7 DEF ReadSavesBlocks
  <2>3. src.ends <= EmptyBlocks
    BY <1>7 DEF ReadSavesBlocks, BlockEndsNow
  <2> QED BY <1>2a, <1>1, <2>1, <2>2, <2>3, HandsInv
<1>8. CASE ReadFails
  <2>1. SavesOrNot
    BY <1>8 DEF ReadFails, SavesOrNot
  <2>2. PICK want \in BOOLEAN : Hands(0, "error", want)
    BY <1>1, <1>8 DEF ReadFails
  <2> QED BY <1>2a, <1>1, <2>1, <2>2, HandsInv
<1> QED BY <1>4, <1>5, <1>6, <1>7, <1>8

-----------------------------------------------------------------------------
(***************************************************************************)
(* The copier writes.                                                      *)
(***************************************************************************)
\* the file after n units of the chunk
WrittenFile(n) == Appended(cache[ckpt.idx], ckpt.entry.woff, chunk.at, n)

LEMMA WrittenFacts ==
  ASSUME TarInv, pc = "write", NEW n \in 0 .. chunk.n
  PROVE  /\ AtEntry /\ n \in Nat /\ chunk.n \in Nat /\ IsFile(ckpt.idx)
         /\ WrittenFile(n) \in EntryFiles
         /\ Written(n) = [cache EXCEPT ![ckpt.entry.of] = WrittenFile(n)]
         /\ Safe =>
              LET w == ckpt.entry.woff + n IN
              /\ WrittenFile(n) = [len |-> w, good |-> w]
              /\ saved # NoSave /\ saved.ckpt.idx = ckpt.idx => saved.ckpt.entry.woff <= w
              /\ sr.at = ckpt.entry.woff + chunk.n
<1> USE DEF TarInv
<1>1. /\ AtEntry /\ IsFile(ckpt.idx) /\ n \in Nat /\ chunk.n \in Nat /\ n <= chunk.n
      /\ chunk.at \in Int
  BY DEF AtEntry, PlaceInv, TypeOK, Misread
<1>2. /\ cache[ckpt.idx] \in EntryFiles /\ ckpt.entry.of = ckpt.idx
      /\ ckpt.entry.woff \in Nat
  BY <1>1, InEntry
<1>3. WrittenFile(n) \in EntryFiles
  BY <1>1, <1>2, FileFacts DEF WrittenFile
<1>4. Written(n) = [cache EXCEPT ![ckpt.entry.of] = WrittenFile(n)]
  BY <1>2 DEF Written, WrittenFile
<1>5. ASSUME Safe
      PROVE  LET w == ckpt.entry.woff + n IN
             /\ WrittenFile(n) = [len |-> w, good |-> w]
             /\ saved # NoSave /\ saved.ckpt.idx = ckpt.idx => saved.ckpt.entry.woff <= w
             /\ sr.at = ckpt.entry.woff + chunk.n
  <2>1. /\ cache[ckpt.idx] = [len |-> ckpt.entry.woff, good |-> ckpt.entry.woff]
        /\ chunk.at = ckpt.entry.woff /\ sr.at = ckpt.entry.woff + chunk.n
    BY <1>5 DEF DataInv
  <2>2. WrittenFile(n) = [len |-> ckpt.entry.woff + n, good |-> ckpt.entry.woff + n]
    BY <1>1, <1>2, <2>1, AppendedInPlace DEF WrittenFile
  <2>3. saved # NoSave /\ saved.ckpt.idx = ckpt.idx
          => saved.ckpt.entry.woff <= ckpt.entry.woff + n
    BY <1>1, <1>2, <1>5, InEntry
  <2> QED BY <2>1, <2>2, <2>3
<1> QED BY <1>1, <1>3, <1>4, <1>5

LEMMA WrittenMoves ==
  ASSUME TarInv, pc = "write", NEW n \in 0 .. chunk.n, cache' = Written(n), UNCHANGED saved
  PROVE  /\ cache' \in [Entries -> EntryFiles] /\ cache'[ckpt.idx] = WrittenFile(n)
         /\ SavedInv'
         /\ Safe => \A i \in Entries : i < ckpt.idx => Extracted(i)'
<1>1. Safe /\ saved # NoSave /\ saved.ckpt.idx = ckpt.idx
        => saved.ckpt.entry.woff <= WrittenFile(n).good
  BY WrittenFacts
<1> QED BY <1>1, WrittenFacts, OtherEntriesKept

LEMMA MovedFacts ==
  ASSUME TarInv, AtEntry, NEW n \in Nat
  PROVE  /\ Moved(ckpt, n) \in CheckpointRecord
         /\ Moved(ckpt, n) = [ckpt EXCEPT !.entry = [of |-> ckpt.idx, woff |-> ckpt.entry.woff + n]]
         /\ MadeInEntry(ckpt) => MadeInEntry(Moved(ckpt, n))
<1>1. /\ ckpt \in CheckpointRecord /\ ckpt.entry \in EntryRecord
      /\ ckpt.entry.of = ckpt.idx /\ ckpt.entry.woff + n \in Nat
  <2>1. ckpt \in CheckpointRecord
    BY DEF TarInv, TypeOK
  <2>2. ckpt.entry.of = ckpt.idx /\ ckpt.entry.woff \in Nat
    BY InEntry
  <2> QED BY <2>1, <2>2 DEF CheckpointRecord
<1>2. [ckpt.entry EXCEPT !.woff = @ + n] = [of |-> ckpt.idx, woff |-> ckpt.entry.woff + n]
  BY <1>1 DEF EntryRecord
<1>3. Moved(ckpt, n) = [ckpt EXCEPT !.entry = [of |-> ckpt.idx, woff |-> ckpt.entry.woff + n]]
  BY <1>1, <1>2 DEF Moved
<1>4. [of |-> ckpt.idx, woff |-> ckpt.entry.woff + n] \in EntryRecord
  BY <1>1 DEF EntryRecord
<1>5. Moved(ckpt, n) \in CheckpointRecord
  BY <1>1, <1>3, <1>4 DEF CheckpointRecord
<1>6. /\ Moved(ckpt, n).idx = ckpt.idx /\ Moved(ckpt, n).tar = ckpt.tar
      /\ Moved(ckpt, n).src = ckpt.src /\ Moved(ckpt, n).entry.of = ckpt.idx
  BY <1>1, <1>3 DEF CheckpointRecord
<1> QED BY <1>3, <1>5, <1>6 DEF MadeInEntry

LEMMA WriteInv == ASSUME TarInv, Write PROVE TarInv'
<1> USE DEF TarInv
<1>1. PICK n \in Nat : n = chunk.n
  BY DEF TypeOK
<1>2. /\ pc = "write" /\ n \in 0 .. chunk.n /\ cache' = Written(n) /\ chunk' = NoChunk
      /\ UNCHANGED <<saved, current, sr, stop, disk, faults>>
      /\ src' \in {src, [src EXCEPT !.want = TRUE]}
  BY <1>1 DEF Write
<1>3. AtEntry /\ IsFile(ckpt.idx)
  BY <1>2, WrittenFacts
<1>4. /\ cache' \in [Entries -> EntryFiles] /\ cache'[ckpt.idx] = WrittenFile(n)
      /\ SavedInv'
      /\ Safe => \A i \in Entries : i < ckpt.idx => Extracted(i)'
  BY <1>2, WrittenMoves
<1>5. src' \in SourceStates /\ src'.off = src.off /\ chunk' \in Chunks
  <2>1. src' \in SourceStates /\ src'.off = src.off
    BY <1>2 DEF TypeOK, SourceStates
  <2>2. chunk' \in Chunks
    BY <1>2 DEF NoChunk, Chunks
  <2> QED BY <2>1, <2>2
<1>6. listed \in Seq(Entries) /\ Append(listed, ckpt.entry.of) \in Seq(Entries)
  <2>1. listed \in Seq(Entries)
    BY DEF TypeOK
  <2>2. ckpt.entry.of \in Entries
    BY <1>3, InEntry
  <2> QED BY <2>1, <2>2
<1>7. CASE stop
  <2>1. /\ listed' = Append(listed, ckpt.entry.of) /\ ckpt' = At(ckpt.idx)
        /\ pc' = "idle" /\ result' = "stopped" /\ held' \in BOOLEAN /\ (held' => Retries)
    BY <1>7, ReturnFacts DEF Write, CopierStops, AfterStop
  <2>2. ckpt' \in CheckpointRecord /\ ckpt'.tar = NoReader
    BY <1>3, <2>1, InEntry, AtFacts
  <2>3. TypeOK'
    BY <1>2, <1>4, <1>5, <1>6, <2>1, <2>2 DEF TypeOK, Chunks, SourceStates
  <2>4. CkptInv'
    BY <2>1, <2>2 DEF CkptInv
  <2> QED BY <1>4, <2>1, <2>3, <2>4, IdleInv
<1>8. CASE ~stop
  <2>1. ckpt' = Moved(ckpt, n) /\ pc' = "copy" /\ UNCHANGED <<listed, held, result>>
    BY <1>1, <1>8 DEF Write, CopierStops
  <2>2. /\ ckpt' \in CheckpointRecord /\ ckpt'.idx = ckpt.idx /\ ckpt'.entry.of = ckpt.idx
        /\ ckpt'.entry.woff = ckpt.entry.woff + n /\ ckpt'.tar = ckpt.tar
        /\ MadeInEntry(ckpt) => MadeInEntry(ckpt')
    BY <1>3, <2>1, MovedFacts DEF TypeOK, CheckpointRecord
  <2>3. TypeOK'
    BY <1>2, <1>4, <1>5, <2>1, <2>2 DEF TypeOK, Chunks, SourceStates
  <2>4. CkptInv'
    BY <2>1, <2>2 DEF CkptInv, MadeInEntry
  <2>5. PlaceInv'
    BY <1>2, <1>3, <1>5, <1>8, <2>1, <2>2, InEntry DEF PlaceInv
  <2>6. DataInv'
    <3> SUFFICES ASSUME Safe PROVE DataInv'
      BY DEF DataInv
    <3>1. ExtractedBefore(ckpt.idx)'
      BY <1>4, <2>2 DEF ExtractedBefore
    <3>2. NotBehindSaved(ckpt)'
      <4>1. saved # NoSave => saved.ckpt.idx \in Int /\ ckpt.idx \in Int /\ saved.ckpt.idx <= ckpt.idx
        BY <1>3, InEntry DEF Entries
      <4>2. saved # NoSave /\ saved.ckpt.idx = ckpt.idx
              => saved.ckpt.entry.woff <= ckpt.entry.woff + n
        BY <1>2, WrittenFacts
      <4> QED BY <1>2, <2>2, <4>1, <4>2 DEF NotBehindSaved
    <3>3. sr'.at = ckpt'.entry.woff
      BY <1>1, <1>2, <2>2, WrittenFacts
    <3>4. cache'[ckpt'.idx] = [len |-> ckpt'.entry.woff, good |-> ckpt'.entry.woff]
      BY <1>2, <1>4, <2>2, WrittenFacts
    <3> QED BY <2>1, <3>1, <3>2, <3>3, <3>4 DEF DataInv
  <2>7. ResultInv'
    BY <1>3, <2>1, InEntry DEF ResultInv
  <2> QED BY <1>4, <2>3, <2>4, <2>5, <2>6, <2>7
<1> QED BY <1>7, <1>8 DEF TypeOK

LEMMA WriteLastInv == ASSUME TarInv, WriteLast PROVE TarInv'
<1> USE DEF TarInv
<1>1. PICK n \in Nat : n = chunk.n
  BY DEF TypeOK
<1>2. /\ pc = "write" /\ n \in 0 .. chunk.n /\ chunk.end = "eof" /\ cache' = Written(n)
      /\ EntryDone /\ listed' = Append(listed, ckpt.entry.of)
      /\ UNCHANGED <<saved, sr, src, stop, disk, faults>>
  BY <1>1 DEF WriteLast
<1>3. /\ AtEntry /\ IsFile(ckpt.idx) /\ WrittenFile(n) \in EntryFiles
      /\ cache' = [cache EXCEPT ![ckpt.entry.of] = WrittenFile(n)]
  BY <1>2, WrittenFacts
<1>4. Safe /\ saved # NoSave /\ saved.ckpt.idx = ckpt.idx
        => saved.ckpt.entry.woff <= WrittenFile(n).good
  BY <1>2, WrittenFacts
<1>5. Safe => Complete(WrittenFile(n), SizeOf(ckpt.idx))
  <2>1. sr.at = SizeOf(ckpt.idx)
    BY <1>2, <1>3, InEntry DEF PlaceInv
  <2> QED BY <1>1, <1>2, <2>1, WrittenFacts DEF Complete
<1>6. listed' \in Seq(Entries) /\ ListsFilesBefore(listed', ckpt.idx + 1)
  <2>1. listed \in Seq(Entries)
    BY DEF TypeOK
  <2>2. /\ ckpt.idx \in Entries /\ ckpt.entry.of = ckpt.idx
        /\ ListsFilesBefore(listed, ckpt.idx)
    BY <1>3, InEntry
  <2> QED BY <1>2, <1>3, <2>1, <2>2, ListPasses
<1>7. chunk' \in Chunks
  BY DEF WriteLast, NoChunk, Chunks
<1> QED BY <1>2, <1>3, <1>4, <1>5, <1>6, <1>7, EntryDoneInv

LEMMA CopyEndsInv == ASSUME TarInv, CopyFails \/ WriteFails PROVE TarInv'
<1> USE DEF TarInv
<1>1. pc = "write" /\ chunk.n \in 0 .. chunk.n
  BY DEF CopyFails, WriteFails, TypeOK
<1>2. PICK n \in 0 .. chunk.n : cache' = Written(n) /\ ckpt' \in {ckpt, Moved(ckpt, n)}
  BY <1>1 DEF CopyFails, WriteFails
<1>3. /\ UNCHANGED <<listed, saved, current, sr, src, stop, disk>> /\ chunk' \in Chunks
      /\ pc' = "idle" /\ result' = "failed" /\ held' \in BOOLEAN /\ (held' => Retries)
      /\ faults' \in 0 .. MaxFaults
  BY FaultCounted, ReturnFacts DEF CopyFails, WriteFails, NoChunk, Chunks
<1>4. cache' \in [Entries -> EntryFiles] /\ SavedInv'
  BY <1>1, <1>2, <1>3, WrittenMoves
<1>5. /\ ckpt' \in CheckpointRecord /\ ckpt'.idx = ckpt.idx /\ ckpt'.tar = ckpt.tar
      /\ MadeInEntry(ckpt) => MadeInEntry(ckpt')
  <2>1. CASE ckpt' = ckpt
    BY <2>1 DEF TypeOK, MadeInEntry
  <2>2. CASE ckpt' = Moved(ckpt, n)
    BY <1>1, <2>2, WrittenFacts, MovedFacts DEF TypeOK, CheckpointRecord
  <2> QED BY <1>2, <2>1, <2>2
<1>6. TypeOK'
  BY <1>3, <1>4, <1>5 DEF TypeOK, Chunks
<1>7. CkptInv'
  BY <1>3, <1>5 DEF CkptInv, MadeInEntry
<1> QED BY <1>3, <1>4, <1>6, <1>7, IdleInv

-----------------------------------------------------------------------------
LEMMA NextTarInv == TarInv /\ [Next]_vars => TarInv'
<1> SUFFICES ASSUME TarInv, [Next]_vars PROVE TarInv'
  OBVIOUS
<1>1. CASE UNCHANGED vars
  BY <1>1
  DEF vars, TarInv, TypeOK, SavedInv, CkptInv, PlaceInv, DataInv, ResultInv, NotBehindSaved,
      ExtractedBefore, Extracted
<1>2. CASE ResumeFresh \/ ResumeSaved \/ ResumeHeld
  BY <1>2, ResumeInv
<1>3. CASE ResumeFails
  BY <1>3, ResumeFailsInv
<1>4. CASE NextHeader
  BY <1>4, NextHeaderInv
<1>5. CASE NextFails
  BY <1>5, NextFailsInv
<1>6. CASE Finish
  BY <1>6, FinishInv
<1>7. CASE MakeDirOrSymlink
  BY <1>7, MakeDirOrSymlinkInv
<1>8. CASE OpenEntry
  BY <1>8, OpenEntryInv
<1>9. CASE EntryFails
  BY <1>9, EntryFailsInv
<1>10. CASE ReadEnd \/ Read \/ ReadSavesSeek \/ ReadSavesBlocks \/ ReadFails
  BY <1>10, ReadInv
<1>11. CASE Write
  BY <1>11, WriteInv
<1>12. CASE WriteLast
  BY <1>12, WriteLastInv
<1>13. CASE CopyFails \/ WriteFails
  BY <1>13, CopyEndsInv
<1>14. CASE Crash \/ PowerLoss
  BY <1>14, DiesInv
<1> QED
  BY <1>1, <1>2, <1>3, <1>4, <1>5, <1>6, <1>7, <1>8, <1>9, <1>10, <1>11, <1>12, <1>13, <1>14
  DEF Next, Extract

LEMMA TarInvariant == Spec => []TarInv
  BY InitTarInv, NextTarInv, PTL DEF Spec

(***************************************************************************)
(* The variables stay in their types, for every archive.                   *)
(***************************************************************************)
THEOREM TarTyped == Spec => []TypeOK
  BY TarInvariant, PTL DEF TarInv

(***************************************************************************)
(* The source and the tar reader are together while Resume runs, retries   *)
(* and losses of power included.                                           *)
(***************************************************************************)
THEOREM TarAligned == Spec => []Aligned
<1>1. TarInv => Aligned
  BY DEF TarInv, PlaceInv, Aligned
<1> QED BY <1>1, TarInvariant, PTL

(***************************************************************************)
(* The result lists every file once and in order, whatever was stopped,    *)
(* failed, retried or lost before.                                         *)
(***************************************************************************)
THEOREM TarResultListsFiles == Spec => []ResultListsFiles
<1>1. TarInv => ResultListsFiles
  BY DEF TarInv, ResultInv, ResultListsFiles
<1> QED BY <1>1, TarInvariant, PTL

(***************************************************************************)
(* Without losses of power and retries with what an error left in memory,  *)
(* a result that is returned is complete.                                  *)
(***************************************************************************)
THEOREM TarResultComplete == Safe => (Spec => []ResultComplete)
<1> SUFFICES ASSUME Safe PROVE Spec => []ResultComplete
  OBVIOUS
<1>1. TarInv => ResultComplete
  BY DEF TarInv, ResultInv, ResultComplete
<1> QED BY <1>1, TarInvariant, PTL

(***************************************************************************)
(* Under the same conditions the persisted checkpoint can be resumed.      *)
(***************************************************************************)
THEOREM TarSavedResumable == Safe => (Spec => []SavedResumable)
<1> SUFFICES ASSUME Safe PROVE Spec => []SavedResumable
  OBVIOUS
<1>1. TarInv => SavedResumable
  <2> SUFFICES ASSUME TarInv, saved # NoSave PROVE SavedResumable
    BY DEF SavedResumable
  <2>1. saved.ckpt \in CheckpointRecord /\ MadeInEntry(saved.ckpt)
    BY DEF TarInv, TypeOK, SavedInv
  <2>2. saved.ckpt.src = PosOf(saved.ckpt.tar) /\ PosOf(saved.ckpt.tar) \in Nat
    BY <2>1, MadeFacts
  <2> QED BY <2>1, <2>2 DEF TarInv, SavedInv, SavedResumable, MadeInEntry, ExtractedBefore
<1> QED BY <1>1, TarInvariant, PTL

-----------------------------------------------------------------------------
(***************************************************************************)
(* The promise of extractor.go, kept step by step: the place up to which   *)
(* everything is extracted is the first entry that is not complete.        *)
(***************************************************************************)
SavedPlace == [idx |-> saved.ckpt.idx, off |-> saved.ckpt.entry.woff]
Stopping == stop /\ pc # "idle"

LEMMA PlaceFacts ==
  ASSUME TypeOK
  PROVE  /\ PlaceExtracted \in [idx : 0 .. NumEntries, off : Nat]
         /\ \A j \in Entries : j < PlaceExtracted.idx => Extracted(j)
         /\ PlaceExtracted.idx \in Entries =>
              /\ ~Extracted(PlaceExtracted.idx)
              /\ PlaceExtracted.off = cache[PlaceExtracted.idx].good
         /\ PlaceExtracted.idx \notin Entries =>
              PlaceExtracted = [idx |-> NumEntries, off |-> 0]
<1> DEFINE S == {j \in Entries : ~Extracted(j)} \cup {NumEntries}
           i == Min(S)
<1>1. S \in SUBSET (0 .. NumEntries) /\ S \in SUBSET Nat /\ S # {}
  BY DEF Entries
<1> HIDE DEF S
<1>2. i \in S /\ \A y \in S : i <= y
  BY <1>1, MinIsLeast
<1> HIDE DEF i
<1>3. i \in 0 .. NumEntries
  BY <1>1, <1>2
<1>4. PlaceExtracted = [idx |-> i, off |-> IF i \in Entries THEN cache[i].good ELSE 0]
  BY DEF PlaceExtracted, i, S
<1>5. \A j \in Entries : j < i => Extracted(j)
  BY <1>2, <1>3 DEF S, Entries
<1>6. i \in Entries => ~Extracted(i) /\ cache[i].good \in Nat
  BY <1>2 DEF S, Entries, TypeOK, EntryFiles
<1>7. i \notin Entries => i = NumEntries
  BY <1>3 DEF Entries
<1> QED BY <1>3, <1>4, <1>5, <1>6, <1>7

\* What the abstract specification asks of every state.
PlaceKept ==
  /\ PlaceExtracted \in Promise!Places
  /\ Promise!AtMost(SavedPlace, PlaceExtracted)
  /\ result = "ok" => PlaceExtracted = Promise!End

LEMMA SavedIsExtracted == ASSUME Safe PROVE TarInv => PlaceKept
<1> SUFFICES ASSUME TarInv PROVE PlaceKept
  OBVIOUS
<1> USE DEF TarInv
<1>1. PlaceExtracted \in [idx : 0 .. NumEntries, off : Nat]
  BY PlaceFacts
<1>2. PlaceExtracted \in Promise!Places
  BY <1>1 DEF Promise!Places
<1>3. Promise!AtMost(SavedPlace, PlaceExtracted)
  <2>1. CASE saved = NoSave
    <3>1. SavedPlace.idx = -1
      BY <2>1 DEF SavedPlace, NoSave, At, None
    <3> QED BY <1>1, <3>1 DEF Promise!AtMost
  <2>2. CASE saved # NoSave
    <3>1. PICK i \in Entries : i = saved.ckpt.idx
      BY <2>2 DEF SavedInv, MadeInEntry
    <3>2. /\ saved.ckpt.entry.woff <= cache[i].good
          /\ \A j \in Entries : j < i => Extracted(j)
      BY <2>2, <3>1 DEF SavedInv, ExtractedBefore
    <3>3. ~(PlaceExtracted.idx < i)
      <4> SUFFICES ASSUME PlaceExtracted.idx < i PROVE FALSE
        OBVIOUS
      <4>1. PlaceExtracted.idx \in Entries
        BY <1>1 DEF Entries
      <4> QED BY <3>2, <4>1, PlaceFacts
    <3>4. PlaceExtracted.idx = i => saved.ckpt.entry.woff <= PlaceExtracted.off
      BY <3>2, PlaceFacts
    <3> QED BY <1>1, <3>1, <3>3, <3>4 DEF Promise!AtMost, SavedPlace, Entries
  <2> QED BY <2>1, <2>2
<1>4. ASSUME result = "ok" PROVE PlaceExtracted = Promise!End
  <2>1. \A j \in Entries : Extracted(j)
    BY <1>4 DEF ResultInv
  <2> QED BY <2>1, PlaceFacts DEF Promise!End
<1> QED BY <1>2, <1>3, <1>4 DEF PlaceKept

LEMMA PromiseInit == ASSUME Safe, Init PROVE Promise!Init
<1>1. PlaceExtracted \in Promise!Places
  BY InitTarInv, PlaceFacts DEF TarInv, Promise!Places
<1>2. SavedPlace = Promise!None
  BY DEF Init, SavedPlace, NoSave, At, None, NoEntry, Promise!None
<1> QED BY <1>1, <1>2 DEF Init, SavedPlace, Promise!Init

\* Each step, as far as the promise can tell.
Works == UNCHANGED <<saved, Stopping>> /\ result' = "none"

Persists ==
  /\ ~Stopping /\ Stopping' \in BOOLEAN /\ result' = "none"
  /\ SavedPlace' \in Promise!Places /\ Promise!AtMost(SavedPlace, SavedPlace')

Returns ==
  /\ UNCHANGED saved /\ Stopping' = FALSE
  /\ \/ result' = "failed"
     \/ result' = "stopped" /\ Stopping
     \/ result' = "ok" /\ ~Stopping

LEMMA WorksRefines == ASSUME Works, PlaceKept' PROVE Promise!Next
  BY DEF Works, PlaceKept, SavedPlace, Stopping, Promise!Next, Promise!Extract,
         Promise!KeepsSaved

LEMMA PersistsRefines == ASSUME Persists, PlaceKept' PROVE Promise!Next
  BY DEF Persists, PlaceKept, SavedPlace, Stopping, Promise!Next, Promise!Save,
         Promise!KeepsSaved

LEMMA ReturnsRefines == ASSUME Returns, PlaceKept' PROVE Promise!Next
  BY DEF Returns, PlaceKept, SavedPlace, Stopping, Promise!Next, Promise!Return,
         Promise!ReturnsError, Promise!ReturnsErrStop, Promise!ReturnsResult,
         Promise!KeepsSaved

LEMMA ResumeRefines ==
  ASSUME Safe, TarInv, PlaceKept', ResumeFresh \/ ResumeSaved \/ ResumeHeld \/ ResumeFails
  PROVE  Promise!Next
<1> USE DEF TarInv
<1>1. ASSUME saved # NoSave,
             \E offset \in ResumeOffsets(saved.ckpt) : \E s \in ResumedSources(offset) :
               /\ src' \in Discarded(s, PosOf(saved.ckpt.tar))
               /\ saved' \in SavedInDiscard(s, PosOf(saved.ckpt.tar))
      PROVE  saved' = saved
  <2>1. saved.ckpt \in CheckpointRecord /\ MadeInEntry(saved.ckpt)
    BY <1>1 DEF TypeOK, SavedInv
  <2> QED BY <1>1, <2>1, DiscardedFacts
<1>2. CASE ResumeFresh
  <2>1. saved' = NoSave /\ stop' = FALSE /\ result' = "none"
    BY <1>2 DEF ResumeFresh, Begin
  <2>2. SavedPlace' = Promise!None /\ Stopping' = FALSE
    BY <2>1 DEF SavedPlace, NoSave, At, None, NoEntry, Promise!None, Stopping
  <2> QED
    BY <2>1, <2>2 DEF PlaceKept, SavedPlace, Stopping, Promise!Next, Promise!StartAfresh
<1>3. CASE ResumeSaved
  <2>1. saved' = saved
    BY <1>1, <1>3 DEF ResumeSaved, ResumeWith
  <2>2. pc = "idle" /\ stop' = FALSE /\ result' = "none"
    BY <1>3 DEF ResumeSaved, ResumeWith, Begin
  <2> QED BY <2>1, <2>2, WorksRefines DEF Works, Stopping
<1>4. CASE ResumeHeld
  BY <1>4 DEF ResumeHeld, CkptInv, Safe
<1>5. CASE ResumeFails
  <2>1. saved' = saved
    BY <1>1, <1>5 DEF ResumeFails
  <2>2. pc' = "idle" /\ result' = "failed"
    BY <1>5, ReturnFacts DEF ResumeFails
  <2> QED BY <2>1, <2>2, ReturnsRefines DEF Returns, Stopping
<1> QED BY <1>2, <1>3, <1>4, <1>5

LEMMA LoopRefines ==
  ASSUME Safe, TarInv, PlaceKept',
         NextHeader \/ Finish \/ MakeDirOrSymlink \/ OpenEntry \/ NextFails \/ EntryFails
  PROVE  Promise!Next
<1> USE DEF TarInv
<1>1. pc \in {"next", "open"} /\ result = "none" /\ ~stop
  BY DEF NextHeader, Finish, MakeDirOrSymlink, OpenEntry, NextFails, EntryFails, PlaceInv
<1>2. CASE NextHeader \/ OpenEntry
  <2>1. UNCHANGED <<saved, stop, result>>
    BY <1>2 DEF NextHeader, OpenEntry
  <2>2. Stopping = FALSE /\ Stopping' = FALSE
    BY <1>1, <2>1 DEF Stopping
  <2> QED BY <1>1, <2>1, <2>2, WorksRefines DEF Works
<1>3. CASE Finish
  <2>1. pc' = "idle" /\ result' = "ok" /\ UNCHANGED saved
    BY <1>3, ReturnFacts DEF Finish
  <2> QED BY <1>1, <2>1, ReturnsRefines DEF Returns, Stopping
<1>4. CASE MakeDirOrSymlink
  BY <1>1, <1>4, WorksRefines DEF MakeDirOrSymlink, EntryDone, Works, Stopping
<1>5. CASE NextFails \/ EntryFails
  <2>1. pc' = "idle" /\ result' = "failed" /\ UNCHANGED saved
    BY <1>5, ReturnFacts DEF NextFails, EntryFails
  <2> QED BY <2>1, ReturnsRefines DEF Returns, Stopping
<1> QED BY <1>2, <1>3, <1>4, <1>5

LEMMA ReadRefines ==
  ASSUME Safe, TarInv, PlaceKept',
         ReadEnd \/ Read \/ ReadSavesSeek \/ ReadSavesBlocks \/ ReadFails
  PROVE  Promise!Next
<1> USE DEF TarInv
<1>1. pc = "copy" /\ result = "none" /\ ~stop /\ pc' = "write" /\ result' = result
  BY DEF ReadEnd, Read, ReadSavesSeek, ReadSavesBlocks, ReadFails, Reading, Hands, PlaceInv
<1>2. UNCHANGED <<saved, stop>> \/ Save
  BY DEF ReadEnd, Read, ReadSavesSeek, ReadSavesBlocks, ReadFails, NoSaveNow, SaveFails
<1>3. CASE UNCHANGED <<saved, stop>>
  BY <1>1, <1>3, WorksRefines DEF Works, Stopping
<1>4. CASE Save
  <2>1. /\ ckpt.idx \in Entries /\ ckpt.idx \in 0 .. NumEntries
        /\ ckpt.entry.woff \in Nat /\ NotBehindSaved(ckpt)
    BY <1>1, InEntry DEF AtEntry, DataInv
  <2>2. SavedPlace' = [idx |-> ckpt.idx, off |-> ckpt.entry.woff] /\ stop' \in BOOLEAN
    BY <1>4 DEF Save, SavedBy, SavedPlace, TypeOK, CheckpointRecord
  <2>3. SavedPlace' \in Promise!Places
    BY <2>1, <2>2 DEF Promise!Places
  <2>4. Promise!AtMost(SavedPlace, SavedPlace')
    <3>1. saved = NoSave => SavedPlace.idx = -1
      BY DEF SavedPlace, NoSave, At, None
    <3> QED BY <2>1, <2>2, <3>1 DEF Promise!AtMost, NotBehindSaved, SavedPlace, Entries
  <2>5. Stopping' \in BOOLEAN /\ ~Stopping
    BY <1>1, <2>2 DEF Stopping
  <2> QED BY <1>1, <2>3, <2>4, <2>5, PersistsRefines DEF Persists
<1> QED BY <1>2, <1>3, <1>4

LEMMA WriteRefines ==
  ASSUME Safe, TarInv, PlaceKept', Write \/ WriteLast \/ CopyFails \/ WriteFails
  PROVE  Promise!Next
<1> USE DEF TarInv
<1>1. pc = "write" /\ result = "none" /\ UNCHANGED <<saved, stop>>
  BY DEF Write, WriteLast, CopyFails, WriteFails, PlaceInv
<1>2. \/ ~stop /\ result' = "none"
      \/ stop /\ pc' = "idle" /\ result' = "stopped"
      \/ pc' = "idle" /\ result' = "failed"
  BY <1>1, ReturnFacts DEF Write, WriteLast, EntryDone, CopierStops, CopyFails, WriteFails
<1>3. CASE ~stop /\ result' = "none"
  BY <1>1, <1>3, WorksRefines DEF Works, Stopping
<1>4. CASE stop /\ pc' = "idle" /\ result' = "stopped"
  BY <1>1, <1>4, ReturnsRefines DEF Returns, Stopping
<1>5. CASE pc' = "idle" /\ result' = "failed"
  BY <1>1, <1>5, ReturnsRefines DEF Returns, Stopping
<1> QED BY <1>2, <1>3, <1>4, <1>5

LEMMA DiesRefines == ASSUME Safe, TarInv, Crash \/ PowerLoss PROVE Promise!Next
<1>1. Crash
  BY DEF PowerLoss, Safe
<1>2. UNCHANGED <<cache, saved>> /\ stop' = FALSE /\ result' = "none"
  BY <1>1 DEF Crash, Dies
<1>3. UNCHANGED PlaceExtracted
  BY <1>2 DEF PlaceExtracted, Extracted
<1> QED BY <1>2, <1>3 DEF Promise!Next, Promise!Dies

LEMMA StepKeepsPromise ==
  ASSUME Safe, TarInv, PlaceKept', [Next]_vars
  PROVE  [Promise!Next]_(Promise!vars)
<1>1. CASE UNCHANGED vars
  BY <1>1 DEF vars, Promise!vars, PlaceExtracted, Extracted
<1>2. CASE Next
  BY <1>2, ResumeRefines, LoopRefines, ReadRefines, WriteRefines, DiesRefines
  DEF Next, Extract
<1> QED BY <1>1, <1>2

(***************************************************************************)
(* Without losses of power and retries with what an error left in memory,  *)
(* tar keeps the promise of extractor.go for every archive: what was       *)
(* persisted stays extracted, no save and no result follow a stop, and a   *)
(* result means everything is there.                                       *)
(***************************************************************************)
THEOREM TarKeepsPromise == Safe => (Spec => KeepsPromise)
<1> SUFFICES ASSUME Safe PROVE Spec => KeepsPromise
  OBVIOUS
<1>1. Init => Promise!Init
  BY PromiseInit
<1>2. TarInv => PlaceKept
  BY SavedIsExtracted
<1>3. TarInv /\ PlaceKept' /\ [Next]_vars => [Promise!Next]_(Promise!vars)
  BY StepKeepsPromise
<1> QED BY <1>1, <1>2, <1>3, TarInvariant, PTL DEF Spec, KeepsPromise, Promise!Spec

-----------------------------------------------------------------------------
(***************************************************************************)
(* Why extraction ends. The tar reader starts at the persisted checkpoint; *)
(* a source that wants a save has handed over something since, or stopped  *)
(* at a block end where it could save. The exception is a seekable source  *)
(* that is used again with a save still wanted.                            *)
(***************************************************************************)
ReusedSeek == src.kind = "seek" /\ src.kind \in Reused

\* where a save may be wanted, or come to be wanted by the write in hand
MayServe == src.want \/ (pc = "write" /\ chunk.end = "more")

Gained ==
  \/ PosOf(saved.ckpt.tar) < PosOf(sr)
  \/ PosOf(saved.ckpt.tar) = PosOf(sr) /\ src.ends > 0
  \/ ReusedSeek

GainInv ==
  /\ pc = "next" /\ sr.cur # None => sr.at <= SizeOf(sr.cur)
  /\ pc # "idle" /\ saved # NoSave =>
       /\ PosOf(saved.ckpt.tar) <= PosOf(sr)
       /\ MayServe => Gained

LEMMA SavedPosNat == ASSUME TarInv, saved # NoSave PROVE PosOf(saved.ckpt.tar) \in Nat
  BY MadeFacts DEF TarInv, SavedInv, TypeOK

LEMMA IdleGains == ASSUME pc' = "idle" PROVE GainInv'
  BY DEF GainInv

LEMMA ResumeGains ==
  ASSUME ~Retries, TarInv, ResumeFresh \/ ResumeSaved \/ ResumeHeld
  PROVE  GainInv'
<1> USE DEF TarInv
<1>1. CASE ResumeFresh
  <2>1. saved' = NoSave /\ sr' = NoReader
    BY <1>1 DEF ResumeFresh, Begin, At
  <2> QED BY <2>1, NoReaderFacts DEF GainInv
<1>2. CASE ResumeSaved
  <2> DEFINE c == saved.ckpt
  <2>1. c \in CheckpointRecord /\ MadeInEntry(c) /\ saved # NoSave
    BY <1>2 DEF ResumeSaved, TypeOK, SavedInv
  <2>a. PICK offset \in ResumeOffsets(c) :
          \E s \in ResumedSources(offset) :
            /\ src' \in Discarded(s, PosOf(c.tar))
            /\ saved' \in SavedInDiscard(s, PosOf(c.tar))
    BY <1>2 DEF ResumeSaved, ResumeWith
  <2>2. PICK s \in ResumedSources(offset) :
          /\ src' \in Discarded(s, PosOf(c.tar))
          /\ saved' \in SavedInDiscard(s, PosOf(c.tar))
    BY <2>a
  <2>3. Begin(c, saved.listed)
    BY <1>2 DEF ResumeSaved, ResumeWith
  <2>4. sr' = c.tar /\ c.entry # NoEntry /\ pc' = "open"
    BY <2>1, <2>3, MadeFacts DEF Begin
  <2>5. saved' = saved /\ PosOf(c.tar) \in Nat
    BY <2>1, <2>2, MadeFacts, DiscardedFacts
  <2>6. src'.want => ReusedSeek /\ src'.kind = src.kind
    <3>1. s.kind = src.kind /\ s.want = (src.want /\ src.kind = "seek" /\ src.kind \in Reused)
      BY DEF ResumedSources
    <3>2. src'.kind = src.kind /\ (src'.want => s.want)
      BY <2>2, <3>1 DEF Discarded, WantAfterReading
    <3> QED BY <3>1, <3>2 DEF ReusedSeek
  <2> HIDE DEF c
  <2>7. MayServe' => ReusedSeek'
    BY <2>4, <2>6 DEF MayServe, ReusedSeek
  <2> QED BY <2>4, <2>5, <2>7 DEF GainInv, Gained, c
<1>3. CASE ResumeHeld
  BY <1>3 DEF ResumeHeld, CkptInv
<1> QED BY <1>1, <1>2, <1>3

LEMMA NextHeaderGains == ASSUME TarInv, GainInv, NextHeader PROVE GainInv'
<1> USE DEF TarInv
<1>0. PICK i : i = sr.cur + 1
  OBVIOUS
<1>1. /\ pc = "next" /\ i < NumEntries /\ sr' = [cur |-> i, at |-> 0]
      /\ UNCHANGED saved /\ pc' \in {"next", "open"}
  BY <1>0 DEF NextHeader
<1>2. /\ i \in Entries /\ sr.cur \in {None} \cup Entries
      /\ sr \in ReaderRecord /\ PosOf(sr) \in Nat
  BY <1>0, <1>1, BetweenEntries DEF Entries, None
<1>3. PosOf(sr') = HeaderAt[i] + 1 /\ HeaderAt[i] \in Nat
  <2>1. i # None
    BY <1>2 DEF None, Entries
  <2> QED BY <1>1, <1>2, <2>1, HeaderAtNat DEF PosOf
<1>4. PosOf(sr) < PosOf(sr')
  <2>1. CASE sr.cur = None
    BY <1>3, <2>1 DEF PosOf
  <2>2. CASE sr.cur \in Entries /\ sr.cur # None
    <3>1. sr.at <= SizeOf(sr.cur) /\ sr.at \in Nat /\ SizeOf(sr.cur) \in Nat
      BY <1>1, <1>2, <2>2, ArchiveFacts DEF GainInv, ReaderRecord, SizeOf
    <3>2. HeaderAt[i] = HeaderAt[sr.cur] + 1 + SizeOf(sr.cur) /\ HeaderAt[sr.cur] \in Nat
      BY <1>0, <1>2, <2>2, HeaderNext, HeaderAtNat
    <3>3. PosOf(sr) = HeaderAt[sr.cur] + 1 + sr.at
      BY <2>2 DEF PosOf
    <3> QED BY <1>3, <3>1, <3>2, <3>3
  <2> QED BY <1>2, <2>1, <2>2
<1>5. sr'.at <= SizeOf(sr'.cur)
  <2>1. SizeOf(i) \in Nat
    BY <1>2, ArchiveFacts DEF SizeOf
  <2> QED BY <1>1, <2>1
<1>6. PosOf(sr') \in Nat
  BY <1>3
<1>7. ASSUME saved # NoSave PROVE PosOf(saved.ckpt.tar) < PosOf(sr')
  BY <1>1, <1>2, <1>4, <1>6, <1>7, SavedPosNat DEF GainInv
<1>8. ASSUME saved' # NoSave
      PROVE  PosOf(saved'.ckpt.tar) < PosOf(sr') /\ PosOf(saved'.ckpt.tar) <= PosOf(sr')
  <2>1. PosOf(saved'.ckpt.tar) < PosOf(sr') /\ PosOf(saved'.ckpt.tar) \in Nat
    BY <1>1, <1>7, <1>8, SavedPosNat
  <2> QED BY <1>6, <2>1
<1> QED BY <1>5, <1>8 DEF GainInv, Gained

\* A save is for where the tar reader is, and the read goes on from there.
LEMMA HandsGains ==
  ASSUME TarInv, GainInv, pc = "copy", SavesOrNot,
         NEW n \in Nat, NEW end \in {"more", "eof", "error"}, NEW want \in BOOLEAN,
         Hands(n, end, want),
         \/ n > 0
         \/ end = "more"
         \/ ~want
         \/ want = src.want /\ UNCHANGED saved
  PROVE  GainInv'
<1> USE DEF TarInv
<1>1. /\ pc' = "write" /\ sr' = [sr EXCEPT !.at = @ + n]
      /\ src' = [kind |-> src.kind, off |-> src.off + n, want |-> want,
                 ends |-> EndsAfter(n, end)]
      /\ chunk'.end = end
  BY DEF Hands
<1>2. /\ sr \in ReaderRecord /\ PosOf(sr) \in Nat /\ sr.cur # None
  <2>1. AtEntry
    BY DEF AtEntry
  <2>2. sr \in ReaderRecord /\ PosOf(sr) \in Nat /\ sr.cur \in Entries
    BY <2>1, InEntry
  <2> QED BY <2>2 DEF None, Entries
<1>3. PosOf(sr') = PosOf(sr) + n
  BY <1>1, <1>2, PosFacts
<1>4. saved' = saved \/ saved'.ckpt.tar = sr
  <2>1. [ckpt EXCEPT !.src = src.off, !.tar = sr].tar = sr
    BY DEF TypeOK, CheckpointRecord
  <2>2. CASE Save
    BY <2>1, <2>2 DEF Save, SavedBy
  <2>3. CASE UNCHANGED saved
    BY <2>3
  <2> QED BY <2>2, <2>3 DEF SavesOrNot
<1>5. ASSUME saved' # NoSave
      PROVE  PosOf(saved'.ckpt.tar) \in Nat /\ PosOf(saved'.ckpt.tar) <= PosOf(sr)
  <2>1. CASE saved' = saved
    BY <1>5, <2>1, SavedPosNat DEF GainInv
  <2>2. CASE saved'.ckpt.tar = sr
    BY <1>2, <2>2
  <2> QED BY <1>4, <2>1, <2>2
<1>6. ASSUME saved' # NoSave, MayServe'
      PROVE  Gained'
  <2>1. CASE n > 0
    <3>1. PosOf(saved'.ckpt.tar) < PosOf(sr')
      BY <1>2, <1>3, <1>5, <1>6, <2>1
    <3> QED BY <3>1 DEF Gained
  <2>2. CASE n = 0 /\ end = "more"
    <3>1. src'.ends > 0
      BY <1>1, <2>2 DEF EndsAfter, TypeOK
    <3>2. PosOf(sr') = PosOf(sr)
      BY <1>2, <1>3, <2>2
    <3>3. PosOf(saved'.ckpt.tar) < PosOf(sr') \/ PosOf(saved'.ckpt.tar) = PosOf(sr')
      BY <1>2, <1>5, <1>6, <3>2
    <3> QED BY <3>1, <3>3 DEF Gained
  <2>3. CASE n = 0 /\ end # "more"
    <3>1. src'.kind = src.kind /\ src'.want = want /\ src'.ends = src.ends
      BY <1>1, <2>3 DEF EndsAfter
    <3>2. src.want /\ UNCHANGED saved
      BY <1>1, <1>6, <2>3, <3>1 DEF MayServe
    <3>3. Gained
      BY <1>6, <3>2 DEF GainInv, MayServe
    <3>4. PosOf(sr') = PosOf(sr)
      BY <1>2, <1>3, <2>3
    <3> QED BY <3>1, <3>2, <3>3, <3>4 DEF Gained, ReusedSeek
  <2> QED BY <2>1, <2>2, <2>3
<1>7. ASSUME saved' # NoSave PROVE PosOf(saved'.ckpt.tar) <= PosOf(sr')
  BY <1>2, <1>3, <1>5, <1>7
<1> QED BY <1>1, <1>6, <1>7 DEF GainInv

LEMMA ReadGains ==
  ASSUME TarInv, GainInv, ReadEnd \/ Read \/ ReadSavesSeek \/ ReadSavesBlocks \/ ReadFails
  PROVE  GainInv'
<1> USE DEF TarInv
<1>1. pc = "copy" /\ size = SizeOf(sr.cur) /\ src.want \in BOOLEAN
  BY DEF ReadEnd, Read, ReadSavesSeek, ReadSavesBlocks, ReadFails, Reading, size, SizeOf, TypeOK
<1>2. sr.at \in Nat /\ SizeOf(sr.cur) \in Nat
  BY <1>1, InEntry DEF AtEntry
<1>3. ASSUME NEW n \in Lengths PROVE n \in Nat /\ n > 0
  BY <1>1, <1>2, <1>3 DEF Lengths, Lesser
<1>4. CASE ReadEnd
  <2>1. SavesOrNot /\ Hands(0, "eof", src.want) /\ UNCHANGED saved
    BY <1>1, <1>4 DEF ReadEnd, NoSaveNow, SavesOrNot
  <2> QED BY <1>1, <2>1, HandsGains
<1>5. CASE Read
  <2>1. SavesOrNot
    BY <1>5 DEF Read, NoSaveNow, SavesOrNot
  <2>2. PICK n \in Lengths : Hands(n, "more", src.want)
    BY <1>5 DEF Read
  <2> QED BY <1>1, <1>3, <2>1, <2>2, HandsGains
<1>6. CASE ReadSavesSeek
  <2>1. SavesOrNot
    BY <1>6 DEF ReadSavesSeek, SaveFails, SavesOrNot
  <2>2. PICK n \in Lengths : Hands(n, "more", FALSE)
    BY <1>6 DEF ReadSavesSeek
  <2> QED BY <1>1, <1>3, <2>1, <2>2, HandsGains
<1>7. CASE ReadSavesBlocks
  <2>1. SavesOrNot
    BY <1>7 DEF ReadSavesBlocks, SaveFails, SavesOrNot
  <2>2. PICK end \in {"more", "error"} : Hands(0, end, FALSE)
    BY <1>7 DEF ReadSavesBlocks
  <2> QED BY <1>1, <2>1, <2>2, HandsGains
<1>8. CASE ReadFails
  <2>1. SavesOrNot
    BY <1>8 DEF ReadFails, SavesOrNot
  <2>2. \/ Hands(0, "error", FALSE)
        \/ UNCHANGED saved /\ Hands(0, "error", src.want)
    BY <1>8 DEF ReadFails
  <2> QED BY <1>1, <2>1, <2>2, HandsGains
<1> QED BY <1>4, <1>5, <1>6, <1>7, <1>8

\* The tar reader, the source and what is persisted stay as they are.
LEMMA SamePlaceGains ==
  ASSUME TarInv, GainInv, AtEntry, UNCHANGED <<saved, sr>>,
         src' \in {src, [src EXCEPT !.want = TRUE]}, MayServe' => MayServe
  PROVE  GainInv'
<1>1. src'.kind = src.kind /\ src'.ends = src.ends
  BY DEF TarInv, TypeOK
<1>2. sr.at <= SizeOf(sr.cur)
  BY InEntry
<1> QED BY <1>1, <1>2 DEF GainInv, Gained, AtEntry, ReusedSeek

LEMMA WriteGains ==
  ASSUME TarInv, GainInv, Write \/ WriteLast
  PROVE  GainInv'
<1>1. AtEntry /\ UNCHANGED <<saved, sr>> /\ pc = "write"
  BY DEF Write, WriteLast, AtEntry
<1>2. CASE Write
  <2>1. src' \in {src, [src EXCEPT !.want = TRUE]} /\ chunk.end = "more" /\ pc' # "write"
    BY <1>2 DEF Write, Return
  <2>3. MayServe' => MayServe
    BY <1>1, <2>1 DEF MayServe
  <2> QED BY <1>1, <2>1, <2>3, SamePlaceGains
<1>3. CASE WriteLast
  <2>1. src' = src /\ pc' # "write"
    BY <1>3 DEF WriteLast, EntryDone, Return
  <2>2. MayServe' => MayServe
    BY <2>1 DEF MayServe
  <2> QED BY <1>1, <2>1, <2>2, SamePlaceGains
<1> QED BY <1>2, <1>3

LEMMA NextGains == ASSUME ~Retries, TarInv, GainInv, [Next]_vars PROVE GainInv'
<1>1. CASE UNCHANGED vars
  BY <1>1 DEF vars, GainInv, Gained, MayServe, ReusedSeek
<1>2. CASE ResumeFresh \/ ResumeSaved \/ ResumeHeld
  BY <1>2, ResumeGains
<1>3. CASE NextHeader
  BY <1>3, NextHeaderGains
<1>4. CASE MakeDirOrSymlink \/ OpenEntry
  <2>1. AtEntry /\ pc' # "write" /\ UNCHANGED <<saved, sr, src>>
    BY <1>4 DEF MakeDirOrSymlink, OpenEntry, EntryDone, Return, AtEntry
  <2>2. MayServe' => MayServe
    BY <2>1 DEF MayServe
  <2> QED BY <2>1, <2>2, SamePlaceGains
<1>5. CASE ReadEnd \/ Read \/ ReadSavesSeek \/ ReadSavesBlocks \/ ReadFails
  BY <1>5, ReadGains
<1>6. CASE Write \/ WriteLast
  BY <1>6, WriteGains
<1>7. CASE \/ ResumeFails \/ NextFails \/ Finish \/ EntryFails \/ CopyFails \/ WriteFails
           \/ Crash \/ PowerLoss
  <2>1. pc' = "idle"
    BY <1>7 DEF ResumeFails, NextFails, Finish, EntryFails, CopyFails, WriteFails, Return,
                Crash, PowerLoss, Dies
  <2> QED BY <2>1, IdleGains
<1> QED BY <1>1, <1>2, <1>3, <1>4, <1>5, <1>6, <1>7 DEF Next, Extract

(***************************************************************************)
(* A save that the next read can serve is past the persisted one in the    *)
(* stream, or for an empty block at the place this very call has come to   *)
(* and stopped at: for every archive and whatever failed before, losses of *)
(* power included, unless a seekable source is used again with a save      *)
(* still wanted. (A retry may start the archive over beside a persisted    *)
(* state.)                                                                 *)
(***************************************************************************)
THEOREM TarNextSaveGains == ~Retries => (Spec => []NextSaveGains)
<1> SUFFICES ASSUME ~Retries PROVE Spec => []NextSaveGains
  OBVIOUS
<1>1. Init => GainInv
  BY DEF Init, GainInv
<1>2. TarInv /\ GainInv /\ [Next]_vars => GainInv'
  BY NextGains
<1>3. GainInv => NextSaveGains
  BY DEF GainInv, Gained, NextSaveGains, CanSave, Reading, MayServe, ReusedSeek
<1> QED BY <1>1, <1>2, <1>3, TarInvariant, PTL DEF Spec

-----------------------------------------------------------------------------
(***************************************************************************)
(* How tar uses its sink: for each file of the archive, a step is one call *)
(* of sink.go, with the WriteOffset and the data it is meant to come with. *)
(***************************************************************************)
DestOf(i) == [kind |-> IF cache[i].len = -1 THEN "none" ELSE "file", file |-> cache[i]]

OffsetOf(i) ==
  IF pc \in {"copy", "write"} /\ ckpt.entry.of = i THEN ckpt.entry.woff ELSE -1

PlacesKeep == \A i \in Files : [Place(i)!Next]_(Place(i)!vars)

\* Both modules have EntryFile for what is done to a file.
LEMMA SameCreated ==
  ASSUME NEW i, NEW f
  PROVE  Place(i)!Created(f) = Created(f)
<1>1. \A a, b : Place(i)!Greater(a, b) = Greater(a, b)
  BY DEF Place!Greater, Greater
<1> QED BY <1>1 DEF Place!Created, Created

LEMMA SameWriterAt ==
  ASSUME NEW i, NEW f, NEW n
  PROVE  Place(i)!WriterAt(f, n) = WriterAt(f, n)
<1>1. \A a, b : Place(i)!Lesser(a, b) = Lesser(a, b)
  BY DEF Place!Lesser, Lesser
<1> QED BY <1>1 DEF Place!WriterAt, WriterAt

LEMMA SamePreallocated ==
  ASSUME NEW i, NEW f, NEW n
  PROVE  Place(i)!Preallocated(f, n) = Preallocated(f, n)
<1>1. \A a, b : Place(i)!Greater(a, b) = Greater(a, b)
  BY DEF Place!Greater, Greater
<1> QED BY <1>1, SameCreated DEF Place!Preallocated, Preallocated

LEMMA SameAppended ==
  ASSUME NEW i, NEW f, NEW pos, NEW at, NEW n
  PROVE  Place(i)!Appended(f, pos, at, n) = Appended(f, pos, at, n)
<1>1. \A a, b : /\ Place(i)!Greater(a, b) = Greater(a, b)
               /\ Place(i)!Lesser(a, b) = Lesser(a, b)
  BY DEF Place!Greater, Greater, Place!Lesser, Lesser
<1> QED BY <1>1 DEF Place!Appended, Appended

LEMMA PlaceInit ==
  ASSUME Init, NEW i \in Files
  PROVE  Place(i)!Init
<1>1. i \in Entries /\ cache[i] \in {Missing, Older(MaxRead + 1)}
  BY DEF Init, Files
<1>2. cache[i].len = -1 => cache[i] = Missing
  BY <1>1 DEF Missing, Older
<1>3. cache[i] \in EntryFiles
  BY <1>1 DEF Missing, Older, EntryFiles
<1>4. Place(i)!EntryFiles = EntryFiles /\ Place(i)!Missing = Missing
  BY DEF Place!EntryFiles, EntryFiles, Place!Missing, Missing
<1>5. DestOf(i) \in [kind : {"none", "dir", "link", "file"}, file : EntryFiles]
      /\ (DestOf(i).kind # "file" => DestOf(i).file = Missing)
  BY <1>2, <1>3 DEF DestOf
<1>6. OffsetOf(i) = -1
  BY DEF Init, OffsetOf
<1> QED
  BY <1>4, <1>5, <1>6 DEF DestOf, OffsetOf, Place!Init, Place!Kinds, Place!NoWriter

\* What leaves a destination alone, but that its writer may be closed.
LEMMA LeftAlone ==
  ASSUME NEW i \in Files, cache'[i] = cache[i], OffsetOf(i)' \in {OffsetOf(i), -1}
  PROVE  [Place(i)!Next]_(Place(i)!vars)
<1>1. DestOf(i)' = DestOf(i)
  BY DEF DestOf
<1>2. CASE OffsetOf(i)' = OffsetOf(i)
  BY <1>1, <1>2 DEF DestOf, OffsetOf, Place!vars
<1>3. CASE OffsetOf(i)' = -1
  BY <1>1, <1>3 DEF DestOf, OffsetOf, Place!Next, Place!CloseWriter, Place!NoWriter
<1> QED BY <1>2, <1>3

\* A destination that a step leaves a file at.
LEMMA LeavesFile ==
  ASSUME NEW i, NEW f, cache'[i] = f, f.len # -1
  PROVE  DestOf(i)' = Place(i)!File(f)
  BY DEF DestOf, Place!File

\* Preallocation of a file that may not be there.
LEMMA PreallocatedFacts ==
  ASSUME NEW f \in EntryFiles, NEW n \in Nat
  PROVE  /\ Created(f) \in EntryFiles /\ Created(f).len \in Nat
         /\ Preallocated(f, 0) = Created(f)
         /\ Preallocated(Created(f), n) = Preallocated(f, n)
         /\ Preallocated(f, n).len \in Nat
<1>1. f = [len |-> f.len, good |-> f.good] /\ f.len \in {-1} \cup Nat /\ f.good \in Nat
  BY DEF EntryFiles
<1>2. Created(f) = [len |-> Greater(f.len, 0), good |-> f.good]
  BY <1>1 DEF Created
<1>3. Created(Created(f)) = Created(f) /\ Created(f) \in EntryFiles /\ Created(f).len \in Nat
  <2>1. Greater(f.len, 0) \in Nat /\ Greater(Greater(f.len, 0), 0) = Greater(f.len, 0)
    BY <1>1 DEF Greater
  <2>2. Created(Created(f)) = [len |-> Greater(Greater(f.len, 0), 0), good |-> f.good]
    <3>1. /\ Created(f).len = Greater(f.len, 0) /\ Created(f).good = f.good
          /\ Created(Created(f)) = [Created(f) EXCEPT !.len = Greater(Created(f).len, 0)]
      BY <1>2 DEF Created
    <3> QED BY <1>2, <3>1
  <2> QED BY <1>1, <1>2, <2>1, <2>2 DEF EntryFiles
<1>4. \A m \in Nat :
        Preallocated(f, m) = [len |-> Greater(Created(f).len, m), good |-> f.good]
  BY <1>1 DEF Preallocated
<1>5. Preallocated(Created(f), n) = [len |-> Greater(Created(f).len, n), good |-> f.good]
  BY <1>2, <1>3 DEF Preallocated
<1>6. \A m \in Nat : Greater(Created(f).len, m) \in Nat
  BY <1>3 DEF Greater
<1>7. Greater(Created(f).len, 0) = Created(f).len
  BY <1>3 DEF Greater
<1>8. Created(f) = [len |-> Created(f).len, good |-> f.good]
  BY <1>2
<1> QED BY <1>3, <1>4, <1>5, <1>6, <1>7, <1>8

\* The file is made if it is not there; no writer is open on it.
LEMMA CreateIsCall ==
  ASSUME TarInv, NEW i \in Files, cache'[i] = Created(cache[i]), OffsetOf(i)' = OffsetOf(i)
  PROVE  Place(i)!Next
<1>1. i \in Entries /\ cache[i] \in EntryFiles /\ 0 \in 0 .. SizeOf(i)
  BY ArchiveFacts DEF Files, TarInv, TypeOK, SizeOf
<1>2. /\ Preallocated(Created(cache[i]), 0) = Created(cache[i])
      /\ Created(cache[i]).len # -1
  BY <1>1, PreallocatedFacts
<1>3. DestOf(i)' = Place(i)!File(Place(i)!Preallocated(Place(i)!Created(cache[i]), 0))
  <2>1. PICK f : f = Created(cache[i])
    OBVIOUS
  <2>2. DestOf(i)' = Place(i)!File(f)
    BY <1>2, <2>1, LeavesFile
  <2>3. f = Place(i)!Preallocated(f, 0) /\ f = Place(i)!Created(cache[i])
    BY <1>2, <2>1, SameCreated, SamePreallocated
  <2> QED BY <2>2, <2>3
<1>4. DestOf(i).kind # "dir" /\ DestOf(i).file = cache[i]
  BY DEF DestOf
<1>5. Place(i)!Preallocate(0)
  BY <1>3, <1>4 DEF DestOf, OffsetOf, Place!Preallocate, Place!OpenedHere
<1> QED BY <1>1, <1>5 DEF Place!Next, SizeOf

\* Work on one entry is a call for its destination and leaves the others alone.
LEMMA OneEntryWorks ==
  ASSUME TarInv, NEW e \in Entries, e = ckpt.entry.of,
         ckpt'.entry.of = ckpt.entry.of \/ pc' \notin {"copy", "write"},
         NEW f \in EntryFiles, cache' = [cache EXCEPT ![e] = f],
         IsFile(e) => [Place(e)!Next]_(Place(e)!vars)
  PROVE  PlacesKeep
<1> SUFFICES ASSUME NEW i \in Files PROVE [Place(i)!Next]_(Place(i)!vars)
  BY DEF PlacesKeep
<1>1. CASE i = e
  BY <1>1 DEF Files
<1>2. CASE i # e
  <2>1. cache'[i] = cache[i] /\ OffsetOf(i)' = -1
    BY <1>2 DEF Files, OffsetOf, TarInv, TypeOK
  <2> QED BY <2>1, LeftAlone
<1> QED BY <1>1, <1>2

\* A writer is opened where the file has the data up to.
LEMMA OpenKeepsToSink == ASSUME Safe, TarInv, OpenEntry PROVE PlacesKeep
<1> USE DEF TarInv
<1>1. AtEntry /\ pc = "open"
  BY DEF OpenEntry, AtEntry
<1> PICK i \in Entries : i = ckpt.idx
  BY <1>1, InEntry
<1> PICK w : w = ckpt.entry.woff
  OBVIOUS
<1>2. /\ ckpt.entry.of = i /\ IsFile(i) /\ w \in Nat /\ w <= cache[i].good /\ w <= SizeOf(i)
      /\ cache[i] \in EntryFiles /\ SizeOf(i) \in Nat
  BY <1>1, InEntry DEF OpenEntry, DataInv
<1> DEFINE f == WriterAt(Created(cache[i]), w)
<1>3. f \in EntryFiles /\ cache' = [cache EXCEPT ![i] = f]
  BY <1>2, FileFacts DEF OpenEntry
<1>4. pc' = "copy" /\ ckpt'.entry.of = i /\ ckpt'.entry.woff = w
  BY <1>2 DEF OpenEntry
<1>5. Place(i)!Next
  <2>1. cache'[i] = f /\ f.len # -1 /\ w <= Created(cache[i]).good
    BY <1>2, <1>3, FileFacts DEF TypeOK, WriterAt
  <2>2. DestOf(i)' = Place(i)!File(Place(i)!WriterAt(Place(i)!Created(cache[i]), w))
    <3>1. PICK g : g = f
      OBVIOUS
    <3>2. DestOf(i)' = Place(i)!File(g)
      BY <2>1, <3>1, LeavesFile
    <3>3. g = Place(i)!WriterAt(Place(i)!Created(cache[i]), w)
      <4>1. PICK e : e = Created(cache[i])
        OBVIOUS
      <4>2. Place(i)!Created(cache[i]) = e /\ Place(i)!WriterAt(e, w) = WriterAt(e, w)
        BY <4>1, SameCreated, SameWriterAt
      <4> QED BY <3>1, <4>1, <4>2
    <3> QED BY <3>2, <3>3
  <2>3. /\ DestOf(i).kind # "dir" /\ DestOf(i).file = cache[i]
        /\ w <= Place(i)!Created(cache[i]).good /\ OffsetOf(i)' = w
    BY <1>4, <2>1, SameCreated DEF DestOf, OffsetOf
  <2>4. Place(i)!GetWriter(w)
    BY <2>2, <2>3 DEF DestOf, OffsetOf, Place!GetWriter, Place!OpenedHere
  <2>5. w \in 0 .. SizeOf(i)
    BY <1>2
  <2> QED BY <2>4, <2>5 DEF Place!Next, SizeOf
<1> QED BY <1>2, <1>3, <1>4, <1>5, OneEntryWorks

LEMMA EntryFailsKeepsToSink == ASSUME TarInv, EntryFails PROVE PlacesKeep
<1> USE DEF TarInv
<1>1. AtEntry /\ pc = "open" /\ pc' = "idle"
  BY DEF EntryFails, Return, AtEntry
<1> PICK i \in Entries : i = ckpt.entry.of
  BY <1>1, InEntry
<1>2. OffsetOf(i) = -1 /\ OffsetOf(i)' = -1
  BY <1>1 DEF OffsetOf
<1>3. CASE UNCHANGED cache
  <2>1. \A j : cache'[j] = cache[j] /\ OffsetOf(j)' = -1
    BY <1>1, <1>3 DEF OffsetOf
  <2> QED BY <2>1, LeftAlone DEF PlacesKeep
<1>4. CASE IsFile(i) /\ cache' = [cache EXCEPT ![i] = Created(cache[i])]
  <2>1. Created(cache[i]) \in EntryFiles /\ cache'[i] = Created(cache[i])
    BY <1>4, FileFacts DEF TypeOK
  <2>2. Place(i)!Next
    BY <1>2, <1>4, <2>1, CreateIsCall DEF Files
  <2> QED BY <1>1, <1>4, <2>1, <2>2, OneEntryWorks
<1> QED BY <1>3, <1>4 DEF EntryFails

\* A write goes to WriteOffset, with what comes there next.
LEMMA WriteIsCall ==
  ASSUME Safe, TarInv, pc = "write", NEW n \in 0 .. chunk.n, cache' = Written(n),
         \/ pc' \notin {"copy", "write"}
         \/ pc' = "copy" /\ ckpt' = Moved(ckpt, n)
  PROVE  PlacesKeep
<1> USE DEF TarInv
<1>0. AtEntry
  BY DEF AtEntry
<1> PICK i \in Entries : i = ckpt.idx
  BY <1>0, InEntry
<1> PICK w : w = ckpt.entry.woff
  OBVIOUS
<1>1. /\ ckpt.entry.of = i /\ w \in Nat /\ n \in Nat /\ w + n <= SizeOf(i) /\ IsFile(i)
      /\ SizeOf(i) \in Nat /\ chunk.at = w
      /\ cache' = [cache EXCEPT ![i] = WrittenFile(n)] /\ WrittenFile(n) \in EntryFiles
      /\ WrittenFile(n) = [len |-> w + n, good |-> w + n]
  BY <1>0, InEntry, WrittenFacts DEF DataInv
<1>2. WrittenFile(n) = Appended(cache[i], w, w, n) /\ cache'[i] = WrittenFile(n)
  BY <1>1 DEF WrittenFile, TypeOK
<1>3. DestOf(i)' = Place(i)!File(Place(i)!Appended(cache[i], w, w, n))
  <2>1. PICK g : g = WrittenFile(n)
    OBVIOUS
  <2>2. g.len # -1
    BY <1>1, <2>1
  <2>3. DestOf(i)' = Place(i)!File(g)
    BY <1>2, <2>1, <2>2, LeavesFile
  <2>4. g = Place(i)!Appended(cache[i], w, w, n)
    BY <1>2, <2>1, SameAppended
  <2> QED BY <2>3, <2>4
<1>4. DestOf(i).file = cache[i] /\ OffsetOf(i) = w /\ w # -1 /\ n \in 0 .. SizeOf(i)
  BY <1>1 DEF DestOf, OffsetOf
<1>5. CASE pc' \notin {"copy", "write"}
  <2>1. OffsetOf(i)' = -1
    BY <1>5 DEF OffsetOf
  <2>2. Place(i)!WriteAndClose(n)
    BY <1>3, <1>4, <2>1 DEF DestOf, OffsetOf, Place!WriteAndClose, Place!NoWriter
  <2>3. Place(i)!Next
    BY <1>4, <2>2 DEF Place!Next, SizeOf
  <2> QED BY <1>1, <1>5, <2>3, OneEntryWorks
<1>6. CASE pc' = "copy" /\ ckpt' = Moved(ckpt, n)
  <2>1. ckpt'.entry.of = i /\ ckpt'.entry.woff = w + n
    BY <1>1, <1>6 DEF Moved, TypeOK, CheckpointRecord, EntryRecord
  <2>2. OffsetOf(i)' = w + n
    BY <1>6, <2>1 DEF OffsetOf
  <2>3. Place(i)!Write(n)
    BY <1>3, <1>4, <2>2 DEF DestOf, OffsetOf, Place!Write, Place!NoWriter
  <2>4. Place(i)!Next
    BY <1>4, <2>3 DEF Place!Next, SizeOf
  <2> QED BY <1>1, <2>1, <2>4, OneEntryWorks
<1> QED BY <1>5, <1>6

LEMMA StepKeepsToSink == ASSUME Safe, TarInv, [Next]_vars PROVE PlacesKeep
<1> USE DEF TarInv
<1>1. CASE UNCHANGED <<cache, pc, ckpt>> \/ (UNCHANGED cache /\ pc' \notin {"copy", "write"})
  <2>1. \A i : cache'[i] = cache[i] /\ OffsetOf(i)' \in {OffsetOf(i), -1}
    BY <1>1 DEF OffsetOf
  <2> QED BY <2>1, LeftAlone DEF PlacesKeep
<1>2. CASE ResumeFresh \/ ResumeSaved \/ ResumeHeld \/ ResumeFails
  <2>1. UNCHANGED cache /\ pc' \notin {"copy", "write"}
    BY <1>2 DEF ResumeFresh, ResumeSaved, ResumeHeld, ResumeWith, ResumeFails, Begin, Return
  <2> QED BY <1>1, <2>1
<1>3. CASE NextHeader \/ NextFails \/ Finish
  <2>1. UNCHANGED cache /\ pc' \notin {"copy", "write"}
    BY <1>3 DEF NextHeader, NextFails, Finish, Return
  <2> QED BY <1>1, <2>1
<1>4. CASE MakeDirOrSymlink
  <2>1. AtEntry /\ ~IsFile(ckpt.entry.of)
    BY <1>4 DEF MakeDirOrSymlink, AtEntry
  <2>2. PICK e \in Entries : e = ckpt.entry.of
    BY <2>1, InEntry
  <2>3. PICK f : f = Made(Archive[e].size)
    OBVIOUS
  <2>4. f \in EntryFiles /\ cache' = [cache EXCEPT ![e] = f]
    BY <1>4, <2>2, <2>3, ArchiveFacts DEF MakeDirOrSymlink, Made, EntryFiles
  <2>5. pc' \notin {"copy", "write"}
    BY <1>4 DEF MakeDirOrSymlink, EntryDone, Return
  <2> QED BY <2>1, <2>2, <2>4, <2>5, OneEntryWorks
<1>5. CASE OpenEntry
  BY <1>5, OpenKeepsToSink
<1>6. CASE EntryFails
  BY <1>6, EntryFailsKeepsToSink
<1>7. CASE ReadEnd \/ Read \/ ReadSavesSeek \/ ReadSavesBlocks \/ ReadFails
  <2>1. pc = "copy" /\ pc' = "write" /\ UNCHANGED cache
    BY <1>7 DEF ReadEnd, Read, ReadSavesSeek, ReadSavesBlocks, ReadFails, Reading, Hands
  <2>2. ckpt' \in {ckpt, Noted(ckpt)}
    BY <1>7 DEF ReadEnd, Read, ReadSavesSeek, ReadSavesBlocks, ReadFails,
                NoSaveNow, Save, SaveFails
  <2>3. ckpt'.entry = ckpt.entry
    BY <2>2 DEF Noted, TypeOK, CheckpointRecord
  <2>4. \A i : cache'[i] = cache[i] /\ OffsetOf(i)' = OffsetOf(i)
    BY <2>1, <2>3 DEF OffsetOf
  <2> QED BY <2>4, LeftAlone DEF PlacesKeep
<1>8. CASE Write \/ WriteLast \/ CopyFails \/ WriteFails
  <2>1. pc = "write" /\ chunk.n \in 0 .. chunk.n
    BY <1>8 DEF Write, WriteLast, CopyFails, WriteFails, TypeOK
  <2>2. PICK n \in 0 .. chunk.n :
          /\ cache' = Written(n)
          /\ pc' \notin {"copy", "write"} \/ (pc' = "copy" /\ ckpt' = Moved(ckpt, n))
    BY <1>8, <2>1 DEF Write, WriteLast, EntryDone, CopyFails, WriteFails, Return
  <2> QED BY <2>1, <2>2, WriteIsCall
<1>9. CASE UNCHANGED vars \/ Crash \/ PowerLoss
  BY <1>1, <1>9 DEF vars, Crash, PowerLoss, Dies, Safe
<1> QED
  BY <1>2, <1>3, <1>4, <1>5, <1>6, <1>7, <1>8, <1>9 DEF Next, Extract

(***************************************************************************)
(* Without losses of power and retries with what an error left in memory,  *)
(* tar calls its sink as sink.go allows, for every archive: a writer is    *)
(* opened where the file has the data up to, although it was not synced    *)
(* when the checkpoint was made, and what is written there comes next.     *)
(***************************************************************************)
THEOREM TarKeepsToSink == Safe => (Spec => KeepsToSink)
<1> SUFFICES ASSUME Safe PROVE Spec => KeepsToSink
  OBVIOUS
<1>1. Init => \A i \in Files : Place(i)!Init
  BY PlaceInit
<1>2. TarInv /\ [Next]_vars => [\A i \in Files : [Place(i)!Next]_(Place(i)!vars)]_vars
  BY StepKeepsToSink DEF PlacesKeep
<1> QED BY <1>1, <1>2, TarInvariant, PTL DEF Spec, KeepsToSink

WritersAtOffset == \A i \in Files : Place(i)!WriterAtOffset

(***************************************************************************)
(* What tar gets from its sink for keeping to the contract: a file that is *)
(* written has all of its data up to WriteOffset, and nothing after it     *)
(* that counts.                                                            *)
(***************************************************************************)
THEOREM TarWritersAtOffset == Safe => (Spec => []WritersAtOffset)
<1> SUFFICES ASSUME Safe PROVE Spec => []WritersAtOffset
  OBVIOUS
<1>1. TarInv => WritersAtOffset
  <2> SUFFICES ASSUME TarInv, NEW i \in Files,
                      pc \in {"copy", "write"}, ckpt.entry.of = i
               PROVE  /\ cache[i].good = ckpt.entry.woff
                      /\ cache[i].len >= ckpt.entry.woff /\ cache[i].len # -1
    BY DEF WritersAtOffset, Place!WriterAtOffset, Place!NoWriter
  <2>1. ckpt.entry.of = ckpt.idx /\ ckpt.entry.woff \in Nat
    BY DEF TarInv, PlaceInv, TypeOK, CheckpointRecord, EntryRecord
  <2>2. cache[i] = [len |-> ckpt.entry.woff, good |-> ckpt.entry.woff]
    BY <2>1 DEF TarInv, DataInv
  <2> QED BY <2>1, <2>2
<1> QED BY <1>1, TarInvariant, PTL

-----------------------------------------------------------------------------
(***************************************************************************)
(* Why a call of Resume returns: it counts the headers up, in an entry it  *)
(* goes from opening over copying to the next header, the copier moves on, *)
(* and where it stays it has come to the end of one more empty block or is *)
(* one step further.                                                       *)
(***************************************************************************)
Rank == <<sr.cur,
          IF pc = "open" THEN 0 ELSE IF pc = "next" THEN 2 ELSE 1,
          sr.at,
          src.ends,
          IF pc = "copy" THEN 1 ELSE IF pc = "write" /\ chunk.end # "more" THEN 2 ELSE 0>>

Before(a, b) == \E k \in 1 .. 5 : a[k] < b[k] /\ \A j \in 1 .. k - 1 : a[j] = b[j]

ReaderInside == pc \in {"open", "copy", "write"} => sr.at <= SizeOf(sr.cur)

WorksOn == [][pc # "idle" => pc' = "idle" \/ Before(Rank, Rank')]_vars

\* The reads of the copier are all the same kind of step.
LEMMA ReadHands ==
  ASSUME TypeOK, ReadEnd \/ Read \/ ReadSavesSeek \/ ReadSavesBlocks \/ ReadFails
  PROVE  pc = "copy" /\ \E n \in {0} \cup Lengths : \E end, want : Hands(n, end, want)
<1>1. pc = "copy"
  BY DEF ReadEnd, Read, ReadSavesSeek, ReadSavesBlocks, ReadFails, Reading
<1>2. CASE Read \/ ReadSavesSeek
  <2>1. PICK n \in Lengths : \E end, want : Hands(n, end, want)
    BY <1>2 DEF Read, ReadSavesSeek
  <2> QED BY <1>1, <2>1
<1>3. CASE ReadEnd \/ ReadSavesBlocks \/ ReadFails
  <2>1. \E end, want : Hands(0, end, want)
    BY <1>3 DEF ReadEnd, ReadSavesBlocks, ReadFails
  <2> QED BY <1>1, <2>1
<1> QED BY <1>2, <1>3

\* A step of the copier gains on the one before.
LEMMA CopierGains ==
  ASSUME TypeOK, ReadEnd \/ Read \/ ReadSavesSeek \/ ReadSavesBlocks \/ ReadFails
  PROVE  Before(Rank, Rank')
<1>1. /\ pc = "copy" /\ sr.cur \in Int /\ sr.at \in Nat /\ src.ends \in Int
  BY ReadHands DEF TypeOK, ReaderRecord, Entries, None
<1>0. PICK n \in {0} \cup Lengths : \E end, want : Hands(n, end, want)
  BY ReadHands
<1>2. PICK end, want : Hands(n, end, want)
  BY <1>0
<1>3. n \in Nat /\ sr'.cur = sr.cur /\ sr'.at = sr.at + n
  BY <1>1, <1>2 DEF Hands, Lengths, TypeOK, ReaderRecord
<1>4. pc' = "write" /\ chunk'.end = end /\ src'.ends = EndsAfter(n, end)
  BY <1>2 DEF Hands
<1>5. Rank'[1] = Rank[1] /\ Rank'[2] = Rank[2] /\ Rank'[3] = Rank[3] + n /\ Rank[3] \in Nat
  BY <1>1, <1>3, <1>4 DEF Rank
<1>6. CASE n > 0
  <2>1. Rank[3] < Rank'[3]
    BY <1>3, <1>5, <1>6
  <2> QED BY <1>5, <2>1 DEF Before
<1>7. CASE n = 0
  <2>1. Rank'[3] = Rank[3]
    BY <1>5, <1>7
  <2>2. CASE end = "more"
    <3>1. src'.ends = src.ends + 1
      BY <1>4, <1>7, <2>2 DEF EndsAfter
    <3>2. Rank[4] = src.ends /\ Rank'[4] = src.ends + 1
      BY <3>1 DEF Rank
    <3> QED BY <1>1, <1>5, <2>1, <3>2 DEF Before
  <2>3. CASE end # "more"
    <3>1. src'.ends = src.ends
      BY <1>4, <1>7, <2>3 DEF EndsAfter
    <3>2. Rank'[4] = Rank[4] /\ Rank[5] = 1 /\ Rank'[5] = 2
      BY <1>1, <1>4, <2>3, <3>1 DEF Rank
    <3> QED BY <1>5, <2>1, <3>2 DEF Before
  <2> QED BY <2>2, <2>3
<1> QED BY <1>3, <1>6, <1>7

(***************************************************************************)
(* The tar reader stays inside the entry it is in, whatever is retried.    *)
(***************************************************************************)
THEOREM TarReadsInside == Spec => []ReaderInside
<1>1. TarInv => ReaderInside
  BY DEF TarInv, PlaceInv, ReaderInside
<1> QED BY <1>1, TarInvariant, PTL

LEMMA StepGains ==
  ASSUME TypeOK, Next, pc # "idle", pc' # "idle"
  PROVE  Before(Rank, Rank')
<1>1. CASE NextHeader
  <2>1. sr'.cur = sr.cur + 1 /\ sr.cur \in Int
    BY <1>1 DEF NextHeader, TypeOK, ReaderRecord, None, Entries
  <2>2. Rank'[1] = Rank[1] + 1 /\ Rank[1] \in Int
    BY <2>1 DEF Rank
  <2> QED BY <2>2 DEF Before
<1>2. CASE MakeDirOrSymlink \/ OpenEntry \/ WriteLast
  <2>1. sr' = sr
    BY <1>2 DEF MakeDirOrSymlink, OpenEntry, WriteLast
  <2>2. \/ pc = "open" /\ pc' \in {"copy", "next"}
        \/ pc = "write" /\ pc' = "next"
    BY <1>2 DEF MakeDirOrSymlink, OpenEntry, WriteLast, EntryDone, Return
  <2>3. Rank'[1] = Rank[1] /\ Rank[2] < Rank'[2]
    BY <2>1, <2>2 DEF Rank
  <2> QED BY <2>3 DEF Before
<1>3. CASE ReadEnd \/ Read \/ ReadSavesSeek \/ ReadSavesBlocks \/ ReadFails
  BY <1>3, CopierGains
<1>4. CASE Write
  <2>1. sr' = sr /\ src'.ends = src.ends /\ pc = "write" /\ pc' = "copy" /\ chunk.end = "more"
    BY <1>4 DEF Write, Return, TypeOK
  <2>2. /\ Rank'[1] = Rank[1] /\ Rank'[2] = Rank[2] /\ Rank'[3] = Rank[3]
        /\ Rank'[4] = Rank[4] /\ Rank[5] = 0 /\ Rank'[5] = 1
    BY <2>1 DEF Rank
  <2> QED BY <2>2 DEF Before
<1> QED
  BY <1>1, <1>2, <1>3, <1>4
  DEF Next, Extract, ResumeFresh, ResumeSaved, ResumeHeld, ResumeWith, ResumeFails, Begin,
      Return, NextFails, EntryFails, Finish, CopyFails, WriteFails, Crash, PowerLoss, Dies

(***************************************************************************)
(* Every step of a call of Resume that does not end it gains on the one    *)
(* before, in headers, in data, in block ends or in the copier's loop.     *)
(* All are bounded (TarTyped, TarReadsInside): whatever is retried and     *)
(* lost, for every archive, Resume takes finitely many steps until it      *)
(* returns.                                                                *)
(***************************************************************************)
THEOREM TarWorksOn == Spec => WorksOn
<1>1. TarInv /\ [Next]_vars =>
        [pc # "idle" => pc' = "idle" \/ Before(Rank, Rank')]_vars
  BY StepGains DEF TarInv
<1> QED BY <1>1, TarInvariant, PTL DEF Spec, WorksOn
=============================================================================
