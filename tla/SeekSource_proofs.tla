------------------------- MODULE SeekSource_proofs -------------------------
(***************************************************************************)
(* What SeekSource keeps for every file, buffer, section and request.      *)
(* Two things the code takes for granted are hypotheses here: that the     *)
(* bounds passed to Section add up without overflow, and, where a property *)
(* needs it, that checkpoints come back to the source that emitted them.   *)
(***************************************************************************)
EXTENDS SeekSource, TLAPS

NoOverflow == \A a, b \in Bounds : a + b <= MaxInt

OwnCheckpoints == \A c \in Foreign : c < 0

USE ConstantsAssumption DEF Ids

-----------------------------------------------------------------------------
(***************************************************************************)
(* The helpers of a read.                                                  *)
(***************************************************************************)

\* handleSave leaves the source aligned, wherever the consumer resumed it.
LEMMA AfterSaveFacts ==
  ASSUME TypeOK, NEW s \in Ids, src[s].ready, src[s].made,
         filePos - src[s].buffered = src[s].start + src[s].offset,
         NEW a \in AfterSave(s)
  PROVE  /\ a.r \in SourceRecord
         /\ a.pos \in Nat
         /\ a.r.made /\ a.r.ready
         /\ a.pos - a.r.buffered = a.r.start + a.r.offset
         /\ a.r.start = src[s].start
         /\ a.r.size = src[s].size
         /\ \/ a.r.offset = src[s].offset
            \/ Emits(src[s]) /\ a.r.offset \in ResumableInSave(s)
         /\ a.r.buffered > 0 => a.r.buffered = src[s].buffered /\ a.pos = filePos
<1>1. src[s] \in SourceRecord
  BY DEF TypeOK
<1>2. /\ src[s].made \in BOOLEAN /\ src[s].start \in Nat /\ src[s].size \in Nat
      /\ src[s].offset \in Nat /\ src[s].ready \in BOOLEAN /\ src[s].buffered \in Nat
      /\ src[s].want \in BOOLEAN /\ src[s].ssc \in BOOLEAN /\ filePos \in Nat
  BY <1>1 DEF SourceRecord, TypeOK
<1> DEFINE r == [src[s] EXCEPT !.want = FALSE]
<1>3. /\ r \in SourceRecord
      /\ r.made = src[s].made /\ r.ready = src[s].ready /\ r.start = src[s].start
      /\ r.size = src[s].size /\ r.offset = src[s].offset /\ r.buffered = src[s].buffered
  BY <1>1 DEF SourceRecord
<1>4. \/ a = [r |-> r, pos |-> filePos]
      \/ /\ Emits(src[s])
         /\ \E c \in ResumableInSave(s) : a = [r |-> Rewound(r, c), pos |-> r.start + c]
  BY DEF AfterSave
<1>5. CASE a = [r |-> r, pos |-> filePos]
  BY <1>2, <1>3, <1>5
<1>6. ASSUME NEW c \in ResumableInSave(s), Emits(src[s]),
             a = [r |-> Rewound(r, c), pos |-> r.start + c]
      PROVE  /\ a.r \in SourceRecord /\ a.pos \in Nat /\ a.r.made /\ a.r.ready
             /\ a.pos - a.r.buffered = a.r.start + a.r.offset
             /\ a.r.start = src[s].start /\ a.r.size = src[s].size /\ a.r.offset = c
             /\ a.r.buffered = 0
  <2>0. c \in Nat
    BY <1>2 DEF ResumableInSave, Resumable, EmittedAt, TypeOK
  <2>1. /\ Rewound(r, c) \in SourceRecord
        /\ Rewound(r, c).made = r.made /\ Rewound(r, c).ready
        /\ Rewound(r, c).start = r.start /\ Rewound(r, c).size = r.size
        /\ Rewound(r, c).offset = c /\ Rewound(r, c).buffered = 0
    BY <1>2, <1>3, <2>0 DEF Rewound, SourceRecord
  <2> QED BY <1>2, <1>3, <1>6, <2>0, <2>1
<1>7. CASE /\ Emits(src[s])
           /\ \E c \in ResumableInSave(s) : a = [r |-> Rewound(r, c), pos |-> r.start + c]
  <2>1. PICK c \in ResumableInSave(s) : a = [r |-> Rewound(r, c), pos |-> r.start + c]
    BY <1>7
  <2> HIDE DEF r
  <2> QED BY <1>6, <1>7, <2>1
<1> QED BY <1>4, <1>5, <1>7

\* What one call of bufio.Reader takes from an aligned source: at least one
\* byte, no more than asked, and never one that is not in the buffer.
LEMMA FetchFacts ==
  ASSUME NEW r \in SourceRecord, NEW pos \in Nat, NEW len \in Nat \ {0},
         NEW k \in Pulls(r, pos, len), r.made, r.ready,
         pos - r.buffered = r.start + r.offset
  PROVE  LET n == Taken(r, k, len) IN
         /\ k \in Nat
         /\ n \in 1 .. len
         /\ Advance(r, k, n) \in SourceRecord
         /\ Advance(r, k, n).made /\ Advance(r, k, n).ready
         /\ Advance(r, k, n).start = r.start
         /\ Advance(r, k, n).size = r.size
         /\ Advance(r, k, n).offset = r.offset + n
         /\ pos + k - Advance(r, k, n).buffered = r.start + r.offset + n
<1>1. /\ r.start \in Nat /\ r.size \in Nat /\ r.offset \in Nat /\ r.buffered \in Nat
  BY DEF SourceRecord
<1>2. k \in Nat /\ (r.buffered > 0 \/ k > 0)
  BY <1>1 DEF Pulls, Smaller
<1> DEFINE n == Taken(r, k, len)
<1>3. n \in 1 .. len /\ n <= r.buffered + k
  BY <1>1, <1>2 DEF Taken, Smaller
<1>4. /\ Advance(r, k, n) \in SourceRecord
      /\ Advance(r, k, n).made = r.made /\ Advance(r, k, n).ready = r.ready
      /\ Advance(r, k, n).start = r.start /\ Advance(r, k, n).size = r.size
      /\ Advance(r, k, n).offset = r.offset + n
      /\ Advance(r, k, n).buffered = r.buffered + k - n
  <2> HIDE DEF n
  <2>1. r.offset + n \in Nat /\ r.buffered + k - n \in Nat
    BY <1>1, <1>2, <1>3
  <2> QED BY <1>3, <2>1 DEF Advance, SourceRecord
<1> HIDE DEF n
<1>5. pos + k - Advance(r, k, n).buffered = r.start + r.offset + n
  BY <1>1, <1>2, <1>3, <1>4
<1> QED BY <1>2, <1>3, <1>4, <1>5 DEF n

-----------------------------------------------------------------------------
(***************************************************************************)
(* Types, alignment and in-place delivery hold together: an aligned source *)
(* is what makes the next offset a natural number of bytes.                *)
(***************************************************************************)
Aligned == TypeOK /\ OwnerAligned /\ DeliveredInPlace

\* The fields of a well-typed source, one by one.
LEMMA SourceFields ==
  ASSUME TypeOK, NEW s \in Ids
  PROVE  /\ src[s] \in SourceRecord
         /\ src[s].made \in BOOLEAN /\ src[s].start \in Nat /\ src[s].size \in Nat
         /\ src[s].offset \in Nat /\ src[s].ready \in BOOLEAN
         /\ src[s].buffered \in Nat /\ src[s].want \in BOOLEAN /\ src[s].ssc \in BOOLEAN
  BY DEF TypeOK, SourceRecord

\* A call that replaces the fields of one source and hands nothing over.
LEMMA QuietStep ==
  ASSUME Aligned, NEW s \in Ids, NEW r \in SourceRecord,
         NEW res \in {"ok", "eof", "error", "panic"},
         src' = [src EXCEPT ![s] = r], out' = Quiet(res), ckpts' = ckpts,
         owner' \in Ids \cup {NoSource}, filePos' \in Nat, strayed' \in BOOLEAN,
         OwnerAligned'
  PROVE  Aligned'
  BY DEF Aligned, TypeOK, DeliveredInPlace, Quiet

\* Read and ReadByte: the bytes come from where the source says it is.
LEMMA FetchStep ==
  ASSUME Aligned, NEW s \in Ids, owner = s, NEW len \in Nat \ {0}, Fetch(s, len)
  PROVE  /\ Aligned'
         /\ owner' = owner
         /\ \E n \in 0 .. len, from \in Nat :
              /\ \/ from = src[s].offset
                 \/ Emits(src[s]) /\ from \in ResumableInSave(s)
              /\ strayed' = (strayed \/ from > src[s].offset)
              /\ src'[s].offset = from + n
              /\ src'[s].start = src[s].start
              /\ src'[s].size = src[s].size
              /\ src'[s].made = src[s].made
              /\ \A t \in Ids \ {s} : src'[t] = src[t]
              /\ \/ n = 0 /\ out' \in {Quiet("eof"), Quiet("error")}
                 \/ n > 0 /\ out' = [id |-> s, at |-> from, unit |-> from,
                                     n |-> n, res |-> "ok"]
         /\ ckpts' = IF Emits(src[s]) THEN [ckpts EXCEPT ![s] = @ \cup {src[s].offset}]
                                      ELSE ckpts
<1>1. /\ src[s].made /\ src[s].ready
      /\ filePos - src[s].buffered = src[s].start + src[s].offset
  BY DEF Aligned, OwnerAligned
<1>2. PICK a \in AfterSave(s) :
        /\ ckpts' = CkptsAfterSave(s)
        /\ UNCHANGED owner
        /\ strayed' = (strayed \/ a.r.offset > src[s].offset)
        /\ \/ \E k \in Pulls(a.r, a.pos, len) :
                LET n == Taken(a.r, k, len) IN
                /\ src' = [src EXCEPT ![s] = Advance(a.r, k, n)]
                /\ filePos' = a.pos + k
                /\ out' = [id |-> s, at |-> a.r.offset,
                           unit |-> a.pos - a.r.buffered - a.r.start,
                           n |-> n, res |-> "ok"]
           \/ /\ a.r.buffered = 0
              /\ src' = [src EXCEPT ![s] = a.r]
              /\ filePos' = a.pos
              /\ out' = Quiet("eof") \/ out' = Quiet("error")
  BY DEF Fetch
<1>3. /\ a.r \in SourceRecord /\ a.pos \in Nat /\ a.r.made /\ a.r.ready
      /\ a.pos - a.r.buffered = a.r.start + a.r.offset
      /\ a.r.start = src[s].start /\ a.r.size = src[s].size
      /\ \/ a.r.offset = src[s].offset
         \/ Emits(src[s]) /\ a.r.offset \in ResumableInSave(s)
  BY <1>1, AfterSaveFacts DEF Aligned
<1>4. ckpts' = IF Emits(src[s]) THEN [ckpts EXCEPT ![s] = @ \cup {src[s].offset}]
                                ELSE ckpts
  BY <1>2 DEF CkptsAfterSave, EmittedAt
<1>5. ckpts' \in [Ids -> SUBSET Nat] /\ strayed' \in BOOLEAN
  BY <1>2, <1>4, SourceFields DEF Aligned, TypeOK
<1>6. /\ src[s].start \in Nat /\ src[s].offset \in Nat /\ src[s].size \in Nat
      /\ a.r.buffered \in Nat /\ a.r.offset \in Nat
  BY <1>3, SourceFields DEF Aligned, SourceRecord
<1>7. CASE \E k \in Pulls(a.r, a.pos, len) :
             LET n == Taken(a.r, k, len) IN
             /\ src' = [src EXCEPT ![s] = Advance(a.r, k, n)]
             /\ filePos' = a.pos + k
             /\ out' = [id |-> s, at |-> a.r.offset,
                        unit |-> a.pos - a.r.buffered - a.r.start,
                        n |-> n, res |-> "ok"]
  <2>1. PICK k \in Pulls(a.r, a.pos, len) :
          LET n == Taken(a.r, k, len) IN
          /\ src' = [src EXCEPT ![s] = Advance(a.r, k, n)]
          /\ filePos' = a.pos + k
          /\ out' = [id |-> s, at |-> a.r.offset,
                     unit |-> a.pos - a.r.buffered - a.r.start,
                     n |-> n, res |-> "ok"]
    BY <1>7
  <2> DEFINE n == Taken(a.r, k, len)
             r == Advance(a.r, k, n)
  <2>2. /\ k \in Nat /\ n \in 1 .. len /\ r \in SourceRecord /\ r.made /\ r.ready
        /\ r.start = a.r.start /\ r.size = a.r.size /\ r.offset = a.r.offset + n
        /\ a.pos + k - r.buffered = a.r.start + a.r.offset + n
    BY <1>3, FetchFacts
  <2>3. /\ src' = [src EXCEPT ![s] = r]
        /\ filePos' = a.pos + k
        /\ out' = [id |-> s, at |-> a.r.offset,
                   unit |-> a.pos - a.r.buffered - a.r.start, n |-> n, res |-> "ok"]
    BY <2>1
  <2> HIDE DEF n, r
  <2>4. a.pos - a.r.buffered - a.r.start = a.r.offset
    BY <1>3, <1>6
  <2>5. src'[s] = r /\ \A t \in Ids \ {s} : src'[t] = src[t]
    BY <2>3 DEF Aligned, TypeOK
  <2>6. TypeOK'
    BY <1>2, <1>3, <1>5, <1>6, <2>2, <2>3, <2>4 DEF Aligned, TypeOK
  <2>7. filePos' - r.buffered = r.start + r.offset
    BY <1>3, <1>6, <2>2, <2>3 DEF SourceRecord
  <2>8. OwnerAligned'
    BY <1>1, <1>2, <2>2, <2>5, <2>7 DEF OwnerAligned
  <2>9. out' = [id |-> s, at |-> a.r.offset, unit |-> a.r.offset,
                n |-> n, res |-> "ok"]
    BY <1>3, <2>3, <2>4
  <2>10. DeliveredInPlace'
    BY <2>9 DEF DeliveredInPlace
  <2>11. n \in 0 .. len /\ n > 0
    BY <2>2
  <2>12. /\ src'[s].offset = a.r.offset + n /\ src'[s].start = src[s].start
         /\ src'[s].size = src[s].size /\ src'[s].made = src[s].made
    BY <1>1, <1>3, <2>2, <2>5
  <2> QED
    BY <1>2, <1>3, <1>4, <1>6, <2>5, <2>6, <2>8, <2>9, <2>10, <2>11, <2>12 DEF Aligned
<1>8. CASE /\ src' = [src EXCEPT ![s] = a.r]
           /\ filePos' = a.pos
           /\ out' = Quiet("eof") \/ out' = Quiet("error")
  <2>1. src'[s] = a.r /\ \A t \in Ids \ {s} : src'[t] = src[t]
    BY <1>8 DEF Aligned, TypeOK
  <2>2. TypeOK'
    BY <1>2, <1>3, <1>5, <1>8 DEF Aligned, TypeOK, Quiet
  <2>3. OwnerAligned' /\ DeliveredInPlace'
    BY <1>2, <1>3, <1>8, <2>1 DEF OwnerAligned, DeliveredInPlace, Quiet
  <2>4. 0 \in 0 .. len /\ src'[s].offset = a.r.offset + 0
    BY <1>3, <1>6, <2>1
  <2>5. out' \in {Quiet("eof"), Quiet("error")}
    BY <1>8
  <2> QED
    BY <1>1, <1>2, <1>3, <1>4, <1>6, <2>1, <2>2, <2>3, <2>4, <2>5 DEF Aligned
<1> QED BY <1>2, <1>7, <1>8

\* Nobody may read yet, and nothing has been handed over.
LEMMA InitAligned == Init => Aligned
<1> SUFFICES ASSUME Init PROVE Aligned
  OBVIOUS
<1>1. \A n \in Nat : NewSource(0, n) \in SourceRecord
  BY DEF NewSource, SourceRecord
<1>2. Unmade \in SourceRecord
  BY <1>1 DEF Unmade, NewSource, SourceRecord
<1>3. src \in [Ids -> SourceRecord]
  BY <1>1, <1>2 DEF Init
<1>4. strayed \in BOOLEAN
  BY Zenon DEF Init
<1> QED BY <1>3, <1>4 DEF Init, Aligned, TypeOK, OwnerAligned, DeliveredInPlace, Quiet

\* Without overflow, a section that fits lies where Section says it does.
LEMMA SectionFacts ==
  ASSUME NoOverflow, NEW r \in SourceRecord, NEW start \in Bounds, NEW size \in Bounds,
         SectionFits(r, start, size), r.start + r.size <= RootSize
  PROVE  /\ SectionOf(r, start, size) \in SourceRecord
         /\ SectionOf(r, start, size).made
         /\ SectionOf(r, start, size).offset = 0
         /\ SectionOf(r, start, size).start = r.start + start
         /\ SectionOf(r, start, size).size = size
         /\ r.start + start + size <= r.start + r.size
<1>1. /\ r.start \in Nat /\ r.size \in Nat /\ start \in Nat /\ size \in Nat
      /\ start + size <= r.size
  BY DEF SourceRecord, SectionFits, Add64, NoOverflow
<1>2. Add64(r.start, start) = r.start + start
  BY <1>1 DEF Add64
<1> QED BY <1>1, <1>2 DEF SectionOf, NewSource, SourceRecord

\* Read asks bufio for something, and for no more than remains.
LEMMA ReadFetches ==
  ASSUME TypeOK, NEW s \in Ids, NEW len \in ReadLens, Read(s, len)
  PROVE  /\ owner = s /\ Fetch(s, Clipped(src[s], len))
         /\ Clipped(src[s], len) \in Nat \ {0}
         /\ Clipped(src[s], len) <= src[s].size - src[s].offset
<1>1. src[s].size \in Nat /\ src[s].offset \in Nat /\ len \in Nat
  BY SourceFields
<1>2. Clipped(src[s], len) > 0 /\ owner = s /\ Fetch(s, Clipped(src[s], len))
  BY DEF Read
<1>3. /\ Clipped(src[s], len) \in Nat \ {0}
      /\ Clipped(src[s], len) <= src[s].size - src[s].offset
  BY <1>1, <1>2 DEF Clipped, Remaining
<1> QED BY <1>2, <1>3

\* Every call keeps the source that may be read aligned.
LEMMA NextAligned == NoOverflow /\ SectionsInsideRoot /\ Aligned /\ [Next]_vars => Aligned'
<1> SUFFICES ASSUME NoOverflow, SectionsInsideRoot, Aligned, [Next]_vars PROVE Aligned'
  OBVIOUS
<1> USE DEF Aligned
<1>1. CASE UNCHANGED vars
  BY <1>1 DEF vars, TypeOK, OwnerAligned, DeliveredInPlace
<1>2. ASSUME NEW s \in Ids, SetSourceSaveConsumer(s) PROVE Aligned'
  <2> DEFINE r == [src[s] EXCEPT !.ssc = TRUE]
  <2>1. /\ r \in SourceRecord /\ r.made = src[s].made /\ r.ready = src[s].ready
        /\ r.buffered = src[s].buffered /\ r.start = src[s].start /\ r.offset = src[s].offset
    BY SourceFields DEF SourceRecord
  <2>2. /\ src' = [src EXCEPT ![s] = r] /\ out' = Quiet("ok")
        /\ owner' = owner /\ filePos' = filePos /\ ckpts' = ckpts /\ strayed' = strayed
    BY <1>2 DEF SetSourceSaveConsumer
  <2> HIDE DEF r
  <2>3. OwnerAligned'
    BY <2>1, <2>2 DEF TypeOK, OwnerAligned
  <2> QED BY <2>1, <2>2, <2>3, QuietStep DEF TypeOK
<1>3. ASSUME NEW s \in Ids, WantSave(s) PROVE Aligned'
  <2> DEFINE r == [src[s] EXCEPT !.want = TRUE]
  <2>1. /\ r \in SourceRecord /\ r.made = src[s].made /\ r.ready = src[s].ready
        /\ r.buffered = src[s].buffered /\ r.start = src[s].start /\ r.offset = src[s].offset
    BY SourceFields DEF SourceRecord
  <2>2. /\ src' = [src EXCEPT ![s] = r] /\ out' = Quiet("ok")
        /\ owner' = owner /\ filePos' = filePos /\ ckpts' = ckpts /\ strayed' = strayed
    BY <1>3 DEF WantSave
  <2> HIDE DEF r
  <2>3. OwnerAligned'
    BY <2>1, <2>2 DEF TypeOK, OwnerAligned
  <2> QED BY <2>1, <2>2, <2>3, QuietStep DEF TypeOK
<1>4. ASSUME NEW s \in Ids, ResumeRefused(s) PROVE Aligned'
  BY <1>4 DEF ResumeRefused, TypeOK, OwnerAligned, DeliveredInPlace, Quiet
<1>5. ASSUME NEW s \in Ids, NEW offset \in Resumable(s), ResumeAt(s, offset) PROVE Aligned'
  <2>1. offset \in Nat
    BY DEF Resumable, TypeOK
  <2> DEFINE r == Rewound(src[s], offset)
  <2>2. /\ r \in SourceRecord /\ r.made = src[s].made /\ r.ready
        /\ r.buffered = 0 /\ r.start = src[s].start /\ r.offset = offset
    BY <2>1, SourceFields DEF SourceRecord, Rewound
  <2>3. /\ src' = [src EXCEPT ![s] = r] /\ src[s].made /\ src[s].start \in Nat
        /\ filePos' = src[s].start + offset /\ owner' = s /\ out' = Quiet("ok")
        /\ ckpts' = ckpts /\ strayed' \in BOOLEAN
    BY <1>5, SourceFields DEF ResumeAt, TypeOK
  <2> HIDE DEF r
  <2>4. src'[s] = r /\ filePos' \in Nat /\ filePos' - r.buffered = r.start + r.offset
    BY <2>1, <2>2, <2>3 DEF TypeOK
  <2>5. OwnerAligned'
    BY <2>2, <2>3, <2>4 DEF OwnerAligned
  <2> QED BY <2>2, <2>3, <2>4, <2>5, QuietStep
<1>6. ASSUME NEW s \in Ids, NEW offset \in Resumable(s), SeekFails(s, offset) PROVE Aligned'
  <2>1. offset \in Nat
    BY DEF Resumable, TypeOK
  <2> DEFINE r == [src[s] EXCEPT !.offset = offset]
  <2>2. r \in SourceRecord
    BY <2>1, SourceFields DEF SourceRecord
  <2>3. /\ src' = [src EXCEPT ![s] = r] /\ owner' = NoSource /\ out' = Quiet("error")
        /\ UNCHANGED <<filePos, ckpts>> /\ strayed' = FALSE
    BY <1>6 DEF SeekFails
  <2> HIDE DEF r
  <2>4. OwnerAligned'
    BY <2>3 DEF OwnerAligned
  <2> QED BY <2>2, <2>3, <2>4, QuietStep DEF TypeOK
<1>7. ASSUME NEW s \in Ids, NEW t \in Sections, NEW start \in Bounds, NEW size \in Bounds,
             Section(s, t, start, size)
      PROVE  Aligned'
  <2>1. CASE ~SectionFits(src[s], start, size)
    BY <1>7, <2>1 DEF Section, TypeOK, OwnerAligned, DeliveredInPlace, Quiet
  <2>2. CASE SectionFits(src[s], start, size)
    <3> DEFINE r == SectionOf(src[s], start, size)
    <3>1. /\ src' = [src EXCEPT ![t] = r] /\ out' = Quiet("ok") /\ ~src[t].made
          /\ UNCHANGED <<filePos, owner, ckpts, strayed>> /\ src[s].made
      BY <1>7, <2>2 DEF Section
    <3>2. r \in SourceRecord
      BY <2>2, <3>1, SectionFacts, SourceFields DEF SectionsInsideRoot
    <3> HIDE DEF r
    <3>3. OwnerAligned'
      BY <3>1 DEF OwnerAligned, TypeOK
    <3> QED BY <3>1, <3>2, <3>3, QuietStep DEF TypeOK
  <2> QED BY <2>1, <2>2
<1>8. ASSUME NEW s \in Ids, ReadUninitialized(s) PROVE Aligned'
  BY <1>8 DEF ReadUninitialized, Stays, TypeOK, OwnerAligned, DeliveredInPlace, Quiet
<1>9. ASSUME NEW s \in Ids, NEW len \in ReadLens, ReadNothing(s, len) PROVE Aligned'
  <2>1. CASE ReadPanics(s, len)
    BY <2>1 DEF ReadPanics, TypeOK, OwnerAligned, DeliveredInPlace, Quiet
  <2> QED
    BY <1>9, <2>1 DEF ReadNothing, Stays, TypeOK, OwnerAligned, DeliveredInPlace, Quiet
<1>10. ASSUME NEW s \in Ids, NEW len \in ReadLens, Read(s, len) PROVE Aligned'
  <2>1. Clipped(src[s], len) \in Nat \ {0} /\ owner = s /\ Fetch(s, Clipped(src[s], len))
    BY <1>10, ReadFetches
  <2> QED BY <2>1, FetchStep
<1>11. ASSUME NEW s \in Ids, ReadByte(s) PROVE Aligned'
  <2>1. 1 \in Nat \ {0} /\ owner = s /\ Fetch(s, 1)
    BY <1>11 DEF ReadByte
  <2> QED BY <2>1, FetchStep
<1> QED BY <1>1, <1>2, <1>3, <1>4, <1>5, <1>6, <1>7, <1>8, <1>9, <1>10, <1>11
        DEF Next, Resume

\* Only Section moves the window of a source, and it keeps it in the root.
LEMMA NextInsideRoot ==
  NoOverflow /\ SectionsInsideRoot /\ Aligned /\ [Next]_vars => SectionsInsideRoot'
<1> SUFFICES ASSUME NoOverflow, SectionsInsideRoot, Aligned, [Next]_vars,
                    NEW u \in Ids, src'[u].made
             PROVE  src'[u].start + src'[u].size <= RootSize
  BY DEF SectionsInsideRoot
<1> USE DEF Aligned
<1> DEFINE Kept == /\ src'[u].made = src[u].made /\ src'[u].start = src[u].start
                   /\ src'[u].size = src[u].size
<1>1. CASE Kept
  BY <1>1 DEF SectionsInsideRoot
<1>2. CASE UNCHANGED src
  BY <1>1, <1>2
<1>3. ASSUME NEW s \in Ids, NEW r, src' = [src EXCEPT ![s] = r],
             r.made = src[s].made, r.start = src[s].start, r.size = src[s].size
      PROVE  Kept
  BY <1>3 DEF TypeOK
<1>4. ASSUME NEW s \in Ids,
             \/ SetSourceSaveConsumer(s)
             \/ WantSave(s)
             \/ \E offset \in Resumable(s) : ResumeAt(s, offset) \/ SeekFails(s, offset)
      PROVE  Kept
  <2>1. CASE SetSourceSaveConsumer(s)
    <3>1. src' = [src EXCEPT ![s] = [src[s] EXCEPT !.ssc = TRUE]]
      BY <2>1 DEF SetSourceSaveConsumer
    <3> QED BY <1>3, <3>1, SourceFields DEF SourceRecord
  <2>2. CASE WantSave(s)
    <3>1. src' = [src EXCEPT ![s] = [src[s] EXCEPT !.want = TRUE]]
      BY <2>2 DEF WantSave
    <3> QED BY <1>3, <3>1, SourceFields DEF SourceRecord
  <2>3. ASSUME NEW offset \in Resumable(s), ResumeAt(s, offset) PROVE Kept
    BY <1>3, <2>3, SourceFields DEF ResumeAt, Rewound, SourceRecord
  <2>4. ASSUME NEW offset \in Resumable(s), SeekFails(s, offset) PROVE Kept
    <3>1. src' = [src EXCEPT ![s] = [src[s] EXCEPT !.offset = offset]]
      BY <2>4 DEF SeekFails
    <3> QED BY <1>3, <3>1, SourceFields DEF SourceRecord
  <2> QED BY <1>4, <2>1, <2>2, <2>3, <2>4
<1>5. ASSUME NEW s \in Ids, NEW len \in ReadLens, Read(s, len) PROVE Kept
  <2>1. Clipped(src[s], len) \in Nat \ {0} /\ owner = s /\ Fetch(s, Clipped(src[s], len))
    BY <1>5, ReadFetches
  <2>2. u # s => src'[u] = src[u]
    BY <2>1, FetchStep
  <2>3. /\ src'[s].made = src[s].made /\ src'[s].start = src[s].start
        /\ src'[s].size = src[s].size
    BY <2>1, FetchStep
  <2> QED BY <2>2, <2>3
<1>6. ASSUME NEW s \in Ids, ReadByte(s) PROVE Kept
  <2>1. 1 \in Nat \ {0} /\ owner = s /\ Fetch(s, 1)
    BY <1>6 DEF ReadByte
  <2>2. u # s => src'[u] = src[u]
    BY <2>1, FetchStep
  <2>3. /\ src'[s].made = src[s].made /\ src'[s].start = src[s].start
        /\ src'[s].size = src[s].size
    BY <2>1, FetchStep
  <2> QED BY <2>2, <2>3
<1>7. ASSUME NEW s \in Ids, NEW t \in Sections, NEW start \in Bounds, NEW size \in Bounds,
             Section(s, t, start, size)
      PROVE  src'[u].start + src'[u].size <= RootSize
  <2>1. CASE ~SectionFits(src[s], start, size)
    BY <1>2, <1>7, <2>1 DEF Section
  <2>2. CASE SectionFits(src[s], start, size)
    <3> DEFINE r == SectionOf(src[s], start, size)
    <3>1. src' = [src EXCEPT ![t] = r] /\ src[s].made
      BY <1>7, <2>2 DEF Section
    <3>2. src[s].start + src[s].size <= RootSize
      BY <3>1 DEF SectionsInsideRoot
    <3>3. /\ r.start = src[s].start + start /\ r.size = size
          /\ src[s].start + start + size <= src[s].start + src[s].size
      <4>1. src[s] \in SourceRecord
        BY SourceFields
      <4> HIDE DEF ConstantsAssumption, Aligned, Kept, SectionsInsideRoot
      <4>2. /\ SectionOf(src[s], start, size).start = src[s].start + start
            /\ SectionOf(src[s], start, size).size = size
            /\ src[s].start + start + size <= src[s].start + src[s].size
        BY <2>2, <3>2, <4>1, SectionFacts
      <4> QED BY <4>2
    <3> HIDE DEF r
    <3>4. CASE u = t
      <4>1. src'[u] = r
        BY <3>1, <3>4 DEF TypeOK
      <4>2. /\ src[s].start \in Nat /\ src[s].size \in Nat /\ start \in Int /\ size \in Int
        BY SourceFields
      <4> QED BY <3>2, <3>3, <4>1, <4>2
    <3>5. CASE u # t
      BY <1>1, <3>1, <3>5 DEF TypeOK
    <3> QED BY <3>4, <3>5
  <2> QED BY <2>1, <2>2
<1>8. ASSUME NEW s \in Ids,
             \/ ResumeRefused(s)
             \/ ReadUninitialized(s)
             \/ \E len \in ReadLens : ReadNothing(s, len)
      PROVE  UNCHANGED src
  BY <1>8 DEF ResumeRefused, ReadUninitialized, ReadNothing, ReadPanics, Stays
<1> HIDE DEF Kept
<1> QED
  BY <1>1, <1>2, <1>4, <1>5, <1>6, <1>7, <1>8 DEF Next, Resume, vars

\* Only the root is there, and it is its own window.
LEMMA InitInsideRoot == Init => SectionsInsideRoot
  BY DEF Init, SectionsInsideRoot, NewSource, Unmade

(***************************************************************************)
(* A source that may be read stands where it says it does, and its bytes   *)
(* are the ones at its offset, for every file, buffer size and request.    *)
(***************************************************************************)
THEOREM SeekSourceAligned ==
  NoOverflow => (Spec => [](TypeOK /\ OwnerAligned /\ DeliveredInPlace))
<1> SUFFICES ASSUME NoOverflow PROVE Spec => [](TypeOK /\ OwnerAligned /\ DeliveredInPlace)
  OBVIOUS
<1>1. Init => Aligned /\ SectionsInsideRoot
  BY InitAligned, InitInsideRoot
<1>2. (Aligned /\ SectionsInsideRoot) /\ [Next]_vars
        => (Aligned /\ SectionsInsideRoot)'
  BY NextAligned, NextInsideRoot
<1>3. Aligned => TypeOK /\ OwnerAligned /\ DeliveredInPlace
  BY DEF Aligned
<1> QED BY <1>1, <1>2, <1>3, PTL DEF Spec

\* Offsets, buffers and positions stay in their types.
THEOREM SeekSourceTyped == NoOverflow => (Spec => []TypeOK)
  BY SeekSourceAligned, PTL

\* What a read hands over is what is at the offset it says.
THEOREM SeekSourceDelivers == NoOverflow => (Spec => []DeliveredInPlace)
  BY SeekSourceAligned, PTL

(***************************************************************************)
(* A section never leaves the source it was cut from, however deep it is   *)
(* nested, as long as the sum that checks it does not overflow.            *)
(***************************************************************************)
THEOREM SeekSourceInsideRoot == NoOverflow => (Spec => []SectionsInsideRoot)
<1> SUFFICES ASSUME NoOverflow PROVE Spec => []SectionsInsideRoot
  OBVIOUS
<1>1. Init => Aligned /\ SectionsInsideRoot
  BY InitAligned, InitInsideRoot
<1>2. (Aligned /\ SectionsInsideRoot) /\ [Next]_vars
        => (Aligned /\ SectionsInsideRoot)'
  BY NextAligned, NextInsideRoot
<1> QED BY <1>1, <1>2, PTL DEF Spec

-----------------------------------------------------------------------------
(***************************************************************************)
(* The source that may be read is not past its end, unless it has strayed: *)
(* a read stops there.                                                     *)
(***************************************************************************)
Contained ==
  owner # NoSource /\ ~strayed => src[owner].offset <= src[owner].size

\* No source has been resumed.
LEMMA InitContained == Init => Contained /\ ReadsInsideSection
  BY DEF Init, Contained, ReadsInsideSection, Quiet

\* One source changes and is not read, the others stay.
LEMMA ContainedStep ==
  ASSUME Aligned, Contained, NEW s \in Ids, NEW r \in SourceRecord,
         src' = [src EXCEPT ![s] = r], owner' \in {owner, s, NoSource},
         owner' \notin {s, NoSource} => strayed' = strayed,
         ~strayed' /\ owner' = s => r.offset <= r.size
  PROVE  Contained'
<1>1. src'[s] = r /\ \A u \in Ids \ {s} : src'[u] = src[u]
  BY DEF Aligned, TypeOK
<1>2. CASE owner' = s
  BY <1>1, <1>2 DEF Contained
<1>3. CASE owner' # s
  BY <1>1, <1>3 DEF Contained, Aligned, TypeOK
<1> QED BY <1>2, <1>3

\* Read and ReadByte stop at the end of the section unless the consumer moved
\* the source on in there.
LEMMA FetchContained ==
  ASSUME Aligned, Contained, NEW s \in Ids, owner = s, NEW len \in Nat \ {0},
         ~strayed => len <= src[s].size - src[s].offset, Fetch(s, len)
  PROVE  Contained' /\ ReadsInsideSection'
<1>1. src[s].made /\ src[s].offset \in Nat /\ src[s].size \in Nat
  BY SourceFields DEF Aligned, OwnerAligned
<1>2. PICK n \in 0 .. len, from \in Nat :
        /\ strayed' = (strayed \/ from > src[s].offset)
        /\ src'[s].offset = from + n
        /\ src'[s].size = src[s].size
        /\ src'[s].made = src[s].made
        /\ \A t \in Ids \ {s} : src'[t] = src[t]
        /\ \/ n = 0 /\ out' \in {Quiet("eof"), Quiet("error")}
           \/ n > 0 /\ out' = [id |-> s, at |-> from, unit |-> from,
                               n |-> n, res |-> "ok"]
  BY FetchStep
<1>4. owner' = s
  BY FetchStep
<1>3. ~strayed' => ~strayed /\ ~(from > src[s].offset)
  BY <1>2, Zenon
<1>5. ~strayed' => from + n <= src[s].size
  BY <1>1, <1>2, <1>3
<1>8. Contained'
  BY <1>2, <1>4, <1>5 DEF Contained
<1>9. ReadsInsideSection'
  <2>1. CASE n = 0 /\ out' \in {Quiet("eof"), Quiet("error")}
    BY <2>1 DEF ReadsInsideSection, Quiet
  <2>2. CASE n > 0 /\ out' = [id |-> s, at |-> from, unit |-> from,
                              n |-> n, res |-> "ok"]
    <3>1. /\ out'.id = s /\ out'.at = from /\ out'.n = n /\ out'.res = "ok"
      BY <2>2
    <3> QED BY <1>2, <1>5, <3>1 DEF ReadsInsideSection
  <2> QED BY <1>2, <2>1, <2>2
<1> QED BY <1>8, <1>9

\* No call takes the source past its end unless it has strayed.
LEMMA NextContained ==
  ASSUME NoOverflow, SectionsInsideRoot, Aligned, Contained, ReadsInsideSection, [Next]_vars
  PROVE  Contained' /\ ReadsInsideSection'
<1> USE DEF Aligned
<1>1. CASE UNCHANGED vars
  BY <1>1 DEF vars, Contained, ReadsInsideSection
<1>2. ASSUME NEW res \in {"ok", "eof", "error"}, out' = Quiet(res) PROVE ReadsInsideSection'
  BY <1>2 DEF ReadsInsideSection, Quiet
<1>4. ASSUME NEW s \in Ids, SetSourceSaveConsumer(s) \/ WantSave(s)
      PROVE  Contained' /\ ReadsInsideSection'
  <2>1. PICK r \in SourceRecord :
          /\ src' = [src EXCEPT ![s] = r] /\ r.offset = src[s].offset
          /\ r.size = src[s].size /\ r.made = src[s].made
    <3>1. CASE SetSourceSaveConsumer(s)
      <4>1. [src[s] EXCEPT !.ssc = TRUE] \in SourceRecord
        BY SourceFields DEF SourceRecord
      <4> QED BY <3>1, <4>1, SourceFields DEF SetSourceSaveConsumer, SourceRecord
    <3>2. CASE WantSave(s)
      <4>1. [src[s] EXCEPT !.want = TRUE] \in SourceRecord
        BY SourceFields DEF SourceRecord
      <4> QED BY <3>2, <4>1, SourceFields DEF WantSave, SourceRecord
    <3> QED BY <1>4, <3>1, <3>2
  <2>2. /\ owner' = owner /\ ckpts' = ckpts /\ strayed' = strayed /\ out' = Quiet("ok")
    BY <1>4 DEF SetSourceSaveConsumer, WantSave
  <2>3. ~strayed' /\ owner' = s => r.offset <= r.size
    BY <2>1, <2>2 DEF Contained
  <2>4. Contained'
    BY <2>1, <2>2, <2>3, ContainedStep
  <2> QED BY <1>2, <2>2, <2>4
<1>5. ASSUME NEW s \in Ids, NEW offset \in Resumable(s),
             ResumeAt(s, offset) \/ SeekFails(s, offset)
      PROVE  Contained' /\ ReadsInsideSection'
  <2>1. offset \in Nat /\ src[s].size \in Nat
    BY SourceFields DEF Resumable, TypeOK
  <2>2. CASE ResumeAt(s, offset)
    <3> DEFINE r == Rewound(src[s], offset)
    <3>1. /\ r \in SourceRecord /\ r.made = src[s].made /\ r.size = src[s].size
          /\ r.offset = offset
      BY <2>1, SourceFields DEF SourceRecord, Rewound
    <3>2. /\ src' = [src EXCEPT ![s] = r] /\ ckpts' = ckpts /\ out' = Quiet("ok")
          /\ owner' = s
          /\ strayed' = (offset > src[s].size)
      BY <2>2 DEF ResumeAt
    <3> HIDE DEF r
    <3>5. ~strayed' => ~(offset > src[s].size)
      BY <3>2, Zenon
    <3>3. /\ owner' = s
          /\ ~strayed' /\ owner' = s => r.offset <= r.size
      BY <2>1, <3>1, <3>2, <3>5
    <3>4. Contained'
      BY <3>1, <3>2, <3>3, ContainedStep
    <3> QED BY <1>2, <3>2, <3>4
  <2>3. CASE SeekFails(s, offset)
    <3> DEFINE r == [src[s] EXCEPT !.offset = offset]
    <3>1. /\ r \in SourceRecord /\ r.made = src[s].made /\ r.size = src[s].size
      BY <2>1, SourceFields DEF SourceRecord
    <3>2. /\ src' = [src EXCEPT ![s] = r] /\ ckpts' = ckpts /\ out' = Quiet("error")
          /\ owner' = NoSource
      BY <2>3 DEF SeekFails
    <3> HIDE DEF r
    <3>3. owner' # s
      BY <3>2
    <3>4. Contained'
      BY <3>1, <3>2, <3>3, ContainedStep
    <3> QED BY <1>2, <3>2, <3>4
  <2> QED BY <1>5, <2>2, <2>3
<1>6. ASSUME NEW s \in Ids, NEW t \in Sections, NEW start \in Bounds, NEW size \in Bounds,
             Section(s, t, start, size)
      PROVE  Contained' /\ ReadsInsideSection'
  <2>0. UNCHANGED <<owner, ckpts, strayed>>
    BY <1>6 DEF Section
  <2>1. CASE ~SectionFits(src[s], start, size)
    BY <1>2, <1>6, <2>0, <2>1 DEF Section, Contained
  <2>2. CASE SectionFits(src[s], start, size)
    <3> DEFINE r == SectionOf(src[s], start, size)
    <3>1. /\ src' = [src EXCEPT ![t] = r] /\ src[s].made /\ ~src[t].made
          /\ out' = Quiet("ok")
      BY <1>6, <2>2 DEF Section
    <3>2. r \in SourceRecord /\ r.made
      BY <2>2, <3>1, SectionFacts, SourceFields DEF SectionsInsideRoot
    <3> HIDE DEF r
    <3>3. owner # t
      BY <3>1 DEF OwnerAligned, TypeOK
    <3>6. Contained'
      BY <2>0, <3>1, <3>2, <3>3, ContainedStep
    <3> QED BY <1>2, <3>1, <3>6
  <2> QED BY <2>1, <2>2
<1>7. ASSUME NEW s \in Ids,
             \/ ResumeRefused(s)
             \/ ReadUninitialized(s)
             \/ \E len \in ReadLens : ReadNothing(s, len)
      PROVE  Contained' /\ ReadsInsideSection'
  <2>1. ASSUME NEW len \in ReadLens, owner = s, ReadPanics(s, len)
        PROVE  Contained' /\ ReadsInsideSection'
    <3>1. strayed
      BY <2>1, SourceFields DEF ReadPanics, Clipped, Remaining, Contained
    <3>2. /\ UNCHANGED <<src, ckpts, strayed>> /\ owner' = NoSource
          /\ out' = Quiet("panic")
      BY <2>1 DEF ReadPanics
    <3>3. ReadsInsideSection'
      BY <3>1, <3>2 DEF ReadsInsideSection
    <3> QED BY <3>2, <3>3 DEF Contained
  <2>2. CASE \/ ResumeRefused(s)
             \/ ReadUninitialized(s)
             \/ \E len \in ReadLens : ReadNothing(s, len) /\ ~ReadPanics(s, len)
    <3>1. /\ UNCHANGED <<src, owner, ckpts, strayed>>
          /\ \E res \in {"ok", "eof", "error"} : out' = Quiet(res)
      BY <2>2 DEF ResumeRefused, ReadUninitialized, ReadNothing, Stays
    <3> QED BY <1>2, <3>1 DEF Contained
  <2>3. ASSUME NEW len \in ReadLens, ReadNothing(s, len) PROVE owner = s
    BY <2>3 DEF ReadNothing
  <2> QED BY <1>7, <2>1, <2>2, <2>3
<1>8. ASSUME NEW s \in Ids, NEW len \in ReadLens, Read(s, len)
      PROVE  Contained' /\ ReadsInsideSection'
  <2>1. /\ Clipped(src[s], len) \in Nat \ {0} /\ owner = s /\ Fetch(s, Clipped(src[s], len))
        /\ Clipped(src[s], len) <= src[s].size - src[s].offset
    BY <1>8, ReadFetches
  <2> QED BY <2>1, FetchContained
<1>9. ASSUME NEW s \in Ids, ReadByte(s) PROVE Contained' /\ ReadsInsideSection'
  <2>1. /\ 1 \in Nat \ {0} /\ owner = s /\ Fetch(s, 1)
        /\ ~strayed => 1 <= src[s].size - src[s].offset
    BY <1>9, SourceFields DEF ReadByte, AtEnd, Contained
  <2> QED BY <2>1, FetchContained
<1> QED BY <1>1, <1>4, <1>5, <1>6, <1>7, <1>8, <1>9 DEF Next, Resume

(***************************************************************************)
(* No source hands over a byte past its end and no read panics, for every  *)
(* file, every cut and every checkpoint, foreign ones included, while the  *)
(* source has not been resumed past its end or further on within a read.   *)
(***************************************************************************)
THEOREM SeekSourceReadsInside == NoOverflow => (Spec => []ReadsInsideSection)
<1> SUFFICES ASSUME NoOverflow PROVE Spec => []ReadsInsideSection
  OBVIOUS
<1> DEFINE I == Aligned /\ SectionsInsideRoot /\ Contained /\ ReadsInsideSection
<1>1. Init => I
  BY InitAligned, InitInsideRoot, InitContained
<1>2. I /\ [Next]_vars => I'
  BY NextAligned, NextInsideRoot, NextContained
<1> QED BY <1>1, <1>2, PTL DEF Spec

\* A read whose consumer resumes the source further on than it was.
SentOn(s, len) == owner = s /\ Fetch(s, len) /\ ~strayed /\ strayed'
NoneSentOn == \A s \in Ids, len \in Nat : ~SentOn(s, len)

\* Nothing has strayed, and nothing a source has emitted would make it.
NeverStrayed ==
  /\ ~strayed
  /\ \A s \in Ids : ckpts[s] \subseteq 0 .. src[s].size
  /\ \A s \in Ids : ~src[s].made => ckpts[s] = {}

\* Calls that emit nothing and leave every source as large as it was.
LEMMA SameSizes ==
  ASSUME NeverStrayed, UNCHANGED ckpts, ~strayed',
         \A u \in Ids : src'[u].size = src[u].size /\ src'[u].made = src[u].made
  PROVE  NeverStrayed'
  BY DEF NeverStrayed

LEMMA FetchNeverStrays ==
  ASSUME Aligned, Contained, NeverStrayed, NoneSentOn, NEW s \in Ids, owner = s,
         NEW len \in Nat \ {0}, Fetch(s, len)
  PROVE  NeverStrayed'
<1>1. ~strayed'
  BY DEF NoneSentOn, SentOn, NeverStrayed
<1>2. src[s].made /\ src[s].offset \in 0 .. src[s].size
  BY SourceFields DEF Aligned, OwnerAligned, Contained, NeverStrayed
<1>3. \A t \in Ids : src'[t].size = src[t].size /\ src'[t].made = src[t].made
  BY FetchStep
<1>4. ckpts' = ckpts \/ ckpts' = [ckpts EXCEPT ![s] = @ \cup {src[s].offset}]
  BY FetchStep
<1>5. CASE ckpts' = ckpts
  BY <1>1, <1>3, <1>5, SameSizes
<1>6. CASE ckpts' = [ckpts EXCEPT ![s] = @ \cup {src[s].offset}]
  <2>1. \A t \in Ids : ckpts'[t] = IF t = s THEN ckpts[t] \cup {src[s].offset} ELSE ckpts[t]
    BY <1>6 DEF Aligned, TypeOK
  <2>2. \A t \in Ids : ckpts'[t] \subseteq 0 .. src'[t].size
    BY <1>2, <1>3, <2>1 DEF NeverStrayed
  <2>3. \A t \in Ids : ~src'[t].made => ckpts'[t] = {}
    BY <1>2, <1>3, <2>1 DEF NeverStrayed
  <2> QED BY <1>1, <2>2, <2>3 DEF NeverStrayed
<1> QED BY <1>4, <1>5, <1>6

LEMMA NextNeverStrays ==
  ASSUME NoOverflow, OwnCheckpoints, SectionsInsideRoot, Aligned, Contained, NeverStrayed,
         [Next]_vars, [NoneSentOn]_vars
  PROVE  NeverStrayed'
<1> USE DEF Aligned
<1>1. CASE UNCHANGED vars
  BY <1>1 DEF vars, NeverStrayed
<1>2. CASE NoneSentOn /\ ~UNCHANGED vars
  <2>1. ASSUME NEW s \in Ids, SetSourceSaveConsumer(s) \/ WantSave(s) PROVE NeverStrayed'
    <3>1. UNCHANGED <<ckpts, strayed>>
      BY <2>1 DEF SetSourceSaveConsumer, WantSave
    <3>2. \A u \in Ids : src'[u].size = src[u].size /\ src'[u].made = src[u].made
      BY <2>1, SourceFields DEF SetSourceSaveConsumer, WantSave, SourceRecord, TypeOK
    <3> QED BY <3>1, <3>2, SameSizes DEF NeverStrayed
  <2>2. ASSUME NEW s \in Ids, NEW offset \in Resumable(s),
               ResumeAt(s, offset) \/ SeekFails(s, offset)
        PROVE  NeverStrayed'
    <3>1. offset \in 0 .. src[s].size
      BY SourceFields DEF Resumable, OwnCheckpoints, NeverStrayed
    <3>2. UNCHANGED ckpts /\ strayed' \in {FALSE, offset > src[s].size}
      BY <2>2, Zenon DEF ResumeAt, SeekFails
    <3>3. ~strayed'
      <4>1. ~(offset > src[s].size)
        BY <3>1, SourceFields DEF SourceRecord
      <4> QED BY <3>2, <4>1, Zenon
    <3>4. \A u \in Ids : src'[u].size = src[u].size /\ src'[u].made = src[u].made
      <4>1. PICK r \in {Rewound(src[s], offset), [src[s] EXCEPT !.offset = offset]} :
              src' = [src EXCEPT ![s] = r]
        BY <2>2 DEF ResumeAt, SeekFails
      <4>2. r.size = src[s].size /\ r.made = src[s].made
        <5>1. CASE r = Rewound(src[s], offset)
          BY <5>1, SourceFields DEF Rewound, SourceRecord
        <5>2. CASE r = [src[s] EXCEPT !.offset = offset]
          BY <5>2, SourceFields DEF SourceRecord
        <5> QED BY <4>1, <5>1, <5>2
      <4> QED BY <4>1, <4>2 DEF TypeOK
    <3> QED BY <3>2, <3>3, <3>4, SameSizes
  <2>3. ASSUME NEW s \in Ids, NEW t \in Sections, NEW start \in Bounds, NEW size \in Bounds,
               Section(s, t, start, size)
        PROVE  NeverStrayed'
    <3>1. UNCHANGED <<ckpts, strayed>>
      BY <2>3 DEF Section
    <3>2. CASE UNCHANGED src
      BY <3>1, <3>2 DEF NeverStrayed
    <3>3. CASE SectionFits(src[s], start, size) /\ ~src[t].made
               /\ src' = [src EXCEPT ![t] = SectionOf(src[s], start, size)]
      <4>1. ckpts'[t] = {} /\ \A u \in Ids \ {t} : src'[u] = src[u]
        BY <3>1, <3>3 DEF NeverStrayed, TypeOK
      <4> QED BY <3>1, <4>1 DEF NeverStrayed
    <3> QED BY <2>3, <3>2, <3>3 DEF Section
  <2>4. ASSUME NEW s \in Ids,
               \/ ResumeRefused(s)
               \/ ReadUninitialized(s)
               \/ \E len \in ReadLens : ReadNothing(s, len)
        PROVE  NeverStrayed'
    <3>1. UNCHANGED <<src, ckpts, strayed>>
      BY <2>4 DEF ResumeRefused, ReadUninitialized, ReadNothing, ReadPanics, Stays
    <3> QED BY <3>1 DEF NeverStrayed
  <2>5. ASSUME NEW s \in Ids, NEW len \in ReadLens, Read(s, len) PROVE NeverStrayed'
    <3>1. /\ Clipped(src[s], len) \in Nat \ {0} /\ owner = s
          /\ Fetch(s, Clipped(src[s], len))
      BY <2>5, ReadFetches
    <3> QED BY <1>2, <3>1, FetchNeverStrays
  <2>6. ASSUME NEW s \in Ids, ReadByte(s) PROVE NeverStrayed'
    <3>1. 1 \in Nat \ {0} /\ owner = s /\ Fetch(s, 1)
      BY <2>6 DEF ReadByte
    <3> QED BY <1>2, <3>1, FetchNeverStrays
  <2> QED BY <1>2, <2>1, <2>2, <2>3, <2>4, <2>5, <2>6 DEF Next, Resume
<1> QED BY <1>1, <1>2

(***************************************************************************)
(* What README.md:39-41 promises, "the offset it returns should be valid", *)
(* holds of a program whose sources get only their own checkpoints back,   *)
(* and not, in the middle of a read, one that is further on. Each of the   *)
(* two, left out, makes Read panic at seeksource.go:139.                   *)
(***************************************************************************)
THEOREM SeekSourceResumedValid ==
  NoOverflow /\ OwnCheckpoints => (Spec /\ [][NoneSentOn]_vars => []ResumedOffsetValid)
<1> SUFFICES ASSUME NoOverflow, OwnCheckpoints
             PROVE  Spec /\ [][NoneSentOn]_vars => []ResumedOffsetValid
  OBVIOUS
<1> DEFINE I == /\ Aligned /\ SectionsInsideRoot /\ Contained /\ ReadsInsideSection
                /\ NeverStrayed
<1>1. Init => I
  <2>1. Init => NeverStrayed
    <3>1. Init => ~strayed
      BY Zenon DEF Init
    <3>2. Init => \A s \in Ids : ckpts[s] = {}
      BY DEF Init
    <3> QED BY <3>1, <3>2 DEF NeverStrayed
  <2> QED BY <2>1, InitAligned, InitInsideRoot, InitContained
<1>2. I /\ [Next]_vars /\ [NoneSentOn]_vars => I'
  BY NextAligned, NextInsideRoot, NextContained, NextNeverStrays
<1>3. I => ResumedOffsetValid
  BY DEF NeverStrayed, ReadsInsideSection, ResumedOffsetValid
<1> QED BY <1>1, <1>2, <1>3, PTL DEF Spec

-----------------------------------------------------------------------------
(***************************************************************************)
(* The contract of savior.Source, for the root and for every section.      *)
(***************************************************************************)
\* What the owner has in its buffer it has read from the file.
BufferInFile ==
  owner # NoSource /\ src[owner].buffered > 0 => filePos <= FileSize

Inside == Aligned /\ SectionsInsideRoot /\ BufferInFile

\* A read hands over bytes of the file, whoever resumed the source meanwhile.
LEMMA FetchInFile ==
  ASSUME Aligned, BufferInFile, NEW s \in Ids, owner = s, NEW len \in Nat \ {0},
         Fetch(s, len)
  PROVE  BufferInFile' /\ (out'.n > 0 => filePos' <= FileSize)
<1>1. /\ src[s].made /\ src[s].ready /\ owner' = owner
      /\ filePos - src[s].buffered = src[s].start + src[s].offset
  BY DEF Aligned, OwnerAligned, Fetch
<1>2. PICK a \in AfterSave(s) :
        \/ \E k \in Pulls(a.r, a.pos, len) :
             /\ src' = [src EXCEPT ![s] = Advance(a.r, k, Taken(a.r, k, len))]
             /\ filePos' = a.pos + k
        \/ /\ a.r.buffered = 0
           /\ src' = [src EXCEPT ![s] = a.r]
           /\ out'.n = 0
  BY DEF Fetch, Quiet
<1>3. /\ a.r \in SourceRecord /\ a.pos \in Nat
      /\ a.r.buffered > 0 => a.r.buffered = src[s].buffered /\ a.pos = filePos
  BY <1>1, AfterSaveFacts DEF Aligned
<1>4. a.r.buffered \in Nat /\ (a.r.buffered > 0 => a.pos <= FileSize)
  BY <1>3 DEF BufferInFile, SourceRecord
<1>5. CASE \E k \in Pulls(a.r, a.pos, len) :
             /\ src' = [src EXCEPT ![s] = Advance(a.r, k, Taken(a.r, k, len))]
             /\ filePos' = a.pos + k
  <2>1. PICK k \in Pulls(a.r, a.pos, len) : filePos' = a.pos + k
    BY <1>5
  <2>2. filePos' <= FileSize
    <3>1. CASE a.r.buffered > 0
      BY <1>3, <1>4, <2>1, <3>1 DEF Pulls
    <3>2. CASE ~(a.r.buffered > 0)
      BY <1>3, <2>1, <3>2 DEF Pulls, Smaller
    <3> QED BY <3>1, <3>2
  <2> QED BY <2>2 DEF BufferInFile
<1>6. CASE a.r.buffered = 0 /\ src' = [src EXCEPT ![s] = a.r] /\ out'.n = 0
  <2>1. src'[owner'].buffered = 0
    BY <1>1, <1>6 DEF Aligned, TypeOK
  <2> QED BY <1>6, <2>1 DEF BufferInFile
<1> QED BY <1>2, <1>5, <1>6

LEMMA InitBuffer == Init => BufferInFile
  BY DEF Init, BufferInFile

LEMMA NextBuffer ==
  ASSUME Aligned, BufferInFile, [Next]_vars
  PROVE  BufferInFile'
<1> USE DEF Aligned
<1>1. CASE UNCHANGED vars
  BY <1>1 DEF vars, BufferInFile
<1>2. ASSUME NEW s \in Ids, SetSourceSaveConsumer(s) \/ WantSave(s) PROVE BufferInFile'
  <2>1. \A u \in Ids : src'[u].buffered = src[u].buffered
    BY <1>2, SourceFields DEF SetSourceSaveConsumer, WantSave, TypeOK, SourceRecord
  <2>2. UNCHANGED <<owner, filePos>> /\ owner \in Ids \cup {NoSource}
    BY <1>2 DEF SetSourceSaveConsumer, WantSave, TypeOK
  <2> QED BY <2>1, <2>2 DEF BufferInFile
<1>3. ASSUME NEW s \in Ids, Resume(s) PROVE BufferInFile'
  <2>1. CASE ResumeRefused(s)
    BY <2>1 DEF ResumeRefused, BufferInFile
  <2>2. ASSUME NEW offset \in Resumable(s), ResumeAt(s, offset) PROVE BufferInFile'
    <3>1. src'[owner'].buffered = 0
      BY <2>2, SourceFields DEF ResumeAt, Rewound, TypeOK, SourceRecord
    <3> QED BY <3>1 DEF BufferInFile
  <2>3. ASSUME NEW offset \in Resumable(s), SeekFails(s, offset) PROVE BufferInFile'
    BY <2>3 DEF SeekFails, BufferInFile
  <2> QED BY <1>3, <2>1, <2>2, <2>3 DEF Resume
<1>4. ASSUME NEW s \in Ids, NEW t \in Sections, NEW start \in Bounds, NEW size \in Bounds,
             Section(s, t, start, size)
      PROVE  BufferInFile'
  <2>1. owner # NoSource => src'[owner] = src[owner]
    BY <1>4 DEF Section, OwnerAligned, TypeOK
  <2>2. UNCHANGED <<owner, filePos>>
    BY <1>4 DEF Section
  <2> QED BY <2>1, <2>2 DEF BufferInFile
<1>5. ASSUME NEW s \in Ids,
             ReadUninitialized(s) \/ \E len \in ReadLens : ReadNothing(s, len)
      PROVE  BufferInFile'
  <2>1. UNCHANGED <<src, filePos>> /\ owner' \in {owner, NoSource}
    BY <1>5 DEF ReadUninitialized, ReadNothing, ReadPanics, Stays
  <2> QED BY <2>1 DEF BufferInFile
<1>6. ASSUME NEW s \in Ids, ReadByte(s) PROVE BufferInFile'
  <2>1. 1 \in Nat \ {0} /\ owner = s /\ Fetch(s, 1)
    BY <1>6 DEF ReadByte
  <2> QED BY <2>1, FetchInFile
<1>7. ASSUME NEW s \in Ids, NEW len \in ReadLens, Read(s, len) PROVE BufferInFile'
  BY <1>7, ReadFetches, FetchInFile
<1> QED BY <1>1, <1>2, <1>3, <1>4, <1>5, <1>6, <1>7 DEF Next

\* A source that was just made is one that has to be resumed.
LEMMA ContractInit == ASSUME NEW u \in Ids, Init PROVE Contract(u)!Init
<1>1. PosOf(u) = -1 /\ ckpts[u] = {} /\ OutOf(u) = [at |-> 0, unit |-> 0, n |-> 0]
  BY DEF Init, PosOf, OutOf, Quiet
<1> QED BY <1>1 DEF Contract!Init, Contract!NotResumed, Contract!Nothing

\* A call that hands nothing over is a pause, wherever it leaves the others.
LEMMA QuietRefines ==
  ASSUME NEW u \in Ids, NEW res, out' = Quiet(res), PosOf(u)' = PosOf(u),
         ckpts'[u] = ckpts[u]
  PROVE  Contract(u)!Next
<1>1. OutOf(u)' = [at |-> 0, unit |-> 0, n |-> 0]
  BY DEF OutOf, Quiet
<1> QED BY <1>1 DEF Contract!Next, Contract!Pause, Contract!Nothing

\* The source that may be read is gone, or was never this one.
LEMMA LoseRefines ==
  ASSUME NEW u \in Ids, out'.n = 0, out'.at = 0, out'.unit = 0, PosOf(u)' = -1,
         ckpts'[u] = ckpts[u]
  PROVE  Contract(u)!Next
<1>1. OutOf(u)' = [at |-> 0, unit |-> 0, n |-> 0]
  BY DEF OutOf
<1> QED BY <1>1 DEF Contract!Next, Contract!Lose, Contract!Nothing, Contract!NotResumed

\* Read and ReadByte deliver or pause, to the source read; no other one sees it.
LEMMA FetchRefines ==
  ASSUME OwnCheckpoints, Inside, NEW u \in Ids, NEW s \in Ids, owner = s,
         NEW len \in Nat \ {0}, Fetch(s, len)
  PROVE  Contract(u)!Next
<1> USE DEF Inside
<1>1. src[s].offset \in Nat /\ ckpts \in [Ids -> SUBSET Nat]
  BY SourceFields DEF Aligned, TypeOK
<1>2. PICK n \in 0 .. len, from \in Nat :
        /\ \/ from = src[s].offset
           \/ Emits(src[s]) /\ from \in ResumableInSave(s)
        /\ src'[s].offset = from + n
        /\ \/ n = 0 /\ out' \in {Quiet("eof"), Quiet("error")}
           \/ n > 0 /\ out' = [id |-> s, at |-> from, unit |-> from,
                               n |-> n, res |-> "ok"]
  BY FetchStep
<1>3. owner' = s /\ Aligned'
  BY FetchStep
<1>4. ckpts' = IF Emits(src[s]) THEN [ckpts EXCEPT ![s] = @ \cup {src[s].offset}]
                                ELSE ckpts
  BY FetchStep
<1>5. CASE u = s
  <2>1. PosOf(u) = src[s].offset /\ PosOf(u)' = from + n /\ PosOf(u) # -1
    BY <1>1, <1>2, <1>3, <1>5 DEF PosOf
  <2>2. ckpts'[u] = IF Emits(src[s]) THEN ckpts[u] \cup {PosOf(u)} ELSE ckpts[u]
    BY <1>1, <1>4, <1>5, <2>1
  <2>3. Emits(src[s]) => ResumableInSave(s) \subseteq ckpts'[u] \cup {0}
    <3>1. ResumableInSave(s) \subseteq {0} \cup ckpts[s] \cup {src[s].offset}
      <4>1. ASSUME NEW c \in Foreign PROVE ~(c >= 0)
        <5>1. c \in Int /\ c < 0
          BY DEF OwnCheckpoints
        <5> QED BY <5>1
      <4> QED BY <4>1 DEF ResumableInSave, Resumable, EmittedAt
    <3> QED BY <1>5, <2>1, <2>2, <3>1
  <2>4. Contract(u)!GoesOnFrom(from)
    <3>1. CASE Emits(src[s])
      BY <1>2, <2>1, <2>2, <2>3, <3>1 DEF Contract!GoesOnFrom
    <3>2. CASE ~Emits(src[s])
      BY <1>2, <2>1, <2>2, <3>2 DEF Contract!GoesOnFrom
    <3> QED BY <3>1, <3>2
  <2>5. CASE n = 0 /\ out' \in {Quiet("eof"), Quiet("error")}
    <3>1. OutOf(u)' = [at |-> 0, unit |-> 0, n |-> 0] /\ PosOf(u)' = from
      BY <2>1, <2>5 DEF OutOf, Quiet
    <3> QED BY <2>1, <2>4, <3>1
            DEF Contract!Next, Contract!Pause, Contract!Nothing, Contract!NotResumed
  <2>6. CASE n > 0 /\ out' = [id |-> s, at |-> from, unit |-> from, n |-> n, res |-> "ok"]
    <3>1. OutOf(u)' = [at |-> from, unit |-> from, n |-> n] /\ out'.n > 0
      BY <1>5, <2>6 DEF OutOf
    <3>2. filePos' <= FileSize
      BY <3>1, FetchInFile
    <3>3. src'[s].start \in Nat /\ src'[s].buffered \in Nat /\ filePos' \in Nat
      BY <1>3 DEF Aligned, TypeOK, SourceRecord
    <3>4. filePos' - src'[s].buffered = src'[s].start + (from + n)
      BY <1>2, <1>3 DEF Aligned, OwnerAligned
    <3>5. from + n <= FileSize /\ n \in 1 .. FileSize
      BY <2>6, <3>2, <3>3, <3>4
    <3>6. from \in ckpts[u] \cup {0, PosOf(u)}
      BY <1>2, <1>5, <2>1 DEF ResumableInSave, Resumable, OwnCheckpoints, EmittedAt
    <3>7. Contract(u)!Deliver(n)
      BY <2>1, <2>4, <3>1, <3>5, <3>6 DEF Contract!Deliver, Contract!NotResumed
    <3> QED BY <3>5, <3>7 DEF Contract!Next
  <2> QED BY <1>2, <2>5, <2>6
<1>6. CASE u # s
  <2>1. PosOf(u)' = -1 /\ ckpts'[u] = ckpts[u]
    BY <1>1, <1>3, <1>4, <1>6 DEF PosOf
  <2>2. OutOf(u)' = [at |-> 0, unit |-> 0, n |-> 0]
    BY <1>2, <1>6 DEF OutOf, Quiet
  <2> QED BY <2>1, <2>2 DEF Contract!Next, Contract!Lose, Contract!Nothing, Contract!NotResumed
<1> QED BY <1>5, <1>6

\* Every call is a step of the contract of every source, or a stutter.
LEMMA StepRefines ==
  ASSUME OwnCheckpoints, Inside, [Next]_vars, NEW u \in Ids
  PROVE  [Contract(u)!Next]_(Contract(u)!vars)
<1> USE DEF Inside, Aligned
<1>1. CASE UNCHANGED vars
  BY <1>1 DEF vars, Contract!vars, PosOf, OutOf
<1>2. ASSUME NEW s \in Ids, SetSourceSaveConsumer(s) \/ WantSave(s)
      PROVE  Contract(u)!Next
  <2>1. out' = Quiet("ok") /\ ckpts' = ckpts /\ owner' = owner
    BY <1>2 DEF SetSourceSaveConsumer, WantSave
  <2>2. src'[u].offset = src[u].offset
    BY <1>2, SourceFields DEF SetSourceSaveConsumer, WantSave, TypeOK, SourceRecord
  <2> QED BY <2>1, <2>2, QuietRefines DEF PosOf
<1>3. ASSUME NEW s \in Ids, NEW offset \in Resumable(s), ResumeAt(s, offset)
      PROVE  Contract(u)!Next
  <2>1. out' = Quiet("ok") /\ ckpts' = ckpts /\ owner' = s
    BY <1>3 DEF ResumeAt
  <2>2. CASE u = s
    <3>1. offset \in ckpts[u] \cup {0}
      BY <2>2 DEF Resumable, OwnCheckpoints
    <3>2. src'[s].offset = offset
      BY <1>3, SourceFields DEF ResumeAt, Rewound, TypeOK, SourceRecord
    <3>3. PosOf(u)' = offset /\ OutOf(u)' = [at |-> 0, unit |-> 0, n |-> 0]
      BY <2>1, <2>2, <3>2 DEF PosOf, OutOf, Quiet
    <3> QED BY <2>1, <3>1, <3>3 DEF Contract!Next, Contract!Resume, Contract!Nothing
  <2>3. CASE u # s
    BY <2>1, <2>3, LoseRefines DEF PosOf, Quiet
  <2> QED BY <2>2, <2>3
<1>4. ASSUME NEW s \in Ids, NEW offset \in Resumable(s), SeekFails(s, offset)
      PROVE  Contract(u)!Next
  <2>1. out' = Quiet("error") /\ ckpts' = ckpts /\ owner' = NoSource
    BY <1>4 DEF SeekFails
  <2> QED BY <2>1, LoseRefines DEF PosOf, Quiet
<1>5. ASSUME NEW s \in Ids, NEW t \in Sections, NEW start \in Bounds, NEW size \in Bounds,
             Section(s, t, start, size)
      PROVE  Contract(u)!Next
  <2>1. /\ \E res : out' = Quiet(res)
        /\ ckpts' = ckpts /\ owner' = owner /\ ~src[t].made
    BY <1>5 DEF Section
  <2>2. owner = u => src'[u] = src[u]
    BY <1>5, <2>1 DEF Section, OwnerAligned, TypeOK
  <2>3. PosOf(u)' = PosOf(u)
    BY <2>1, <2>2 DEF PosOf
  <2> QED BY <2>1, <2>3, QuietRefines
<1>6. ASSUME NEW s \in Ids,
             \/ ResumeRefused(s)
             \/ ReadUninitialized(s)
             \/ \E len \in ReadLens : ReadNothing(s, len)
      PROVE  Contract(u)!Next
  <2>1. ASSUME NEW len \in ReadLens, ReadPanics(s, len) PROVE Contract(u)!Next
    <3>1. out'.n = 0 /\ out'.at = 0 /\ out'.unit = 0 /\ owner' = NoSource /\ ckpts' = ckpts
      BY <2>1 DEF ReadPanics, Quiet
    <3> QED BY <3>1, LoseRefines DEF PosOf
  <2>2. CASE \/ ResumeRefused(s)
             \/ ReadUninitialized(s)
             \/ \E len \in ReadLens : ReadNothing(s, len) /\ ~ReadPanics(s, len)
    <3>1. UNCHANGED <<src, owner, ckpts>> /\ \E res : out' = Quiet(res)
      BY <2>2 DEF ResumeRefused, ReadUninitialized, ReadNothing, Stays
    <3> QED BY <3>1, QuietRefines DEF PosOf
  <2> QED BY <1>6, <2>1, <2>2
<1>7. ASSUME NEW s \in Ids, NEW len \in ReadLens, Read(s, len) PROVE Contract(u)!Next
  BY <1>7, ReadFetches, FetchRefines
<1>8. ASSUME NEW s \in Ids, ReadByte(s) PROVE Contract(u)!Next
  <2>1. 1 \in Nat \ {0} /\ owner = s /\ Fetch(s, 1)
    BY <1>8 DEF ReadByte
  <2> QED BY <2>1, FetchRefines
<1> QED BY <1>1, <1>2, <1>3, <1>4, <1>5, <1>6, <1>7, <1>8 DEF Next, Resume

(***************************************************************************)
(* Every source over the shared reader implements savior.Source: what it   *)
(* delivers is in place, its checkpoints are offsets it had reached, and   *)
(* resuming one of them stands exactly there.                              *)
(***************************************************************************)
THEOREM SeekSourceKeepsContract ==
  NoOverflow /\ OwnCheckpoints => (Spec => KeepsContract)
<1> SUFFICES ASSUME NoOverflow, OwnCheckpoints PROVE Spec => KeepsContract
  OBVIOUS
<1> DEFINE I == Inside
           Steps == \A s \in Ids : [Contract(s)!Next]_(Contract(s)!vars)
<1>1. Init => I
  BY InitAligned, InitInsideRoot, InitBuffer DEF Inside
<1>2. I /\ [Next]_vars => I'
  BY NextAligned, NextInsideRoot, NextBuffer DEF Inside
<1>3. Init => \A s \in Ids : Contract(s)!Init
  BY ContractInit
<1>4. I /\ [Next]_vars => Steps
  BY StepRefines
<1> QED BY <1>1, <1>2, <1>3, <1>4, PTL DEF Spec, KeepsContract

-----------------------------------------------------------------------------
(***************************************************************************)
(* A wanted save is served by the next read that hands over anything, and  *)
(* nothing else takes it back, neither a Resume nor another source of the  *)
(* same reader. If there is a consumer it is given a checkpoint for what   *)
(* the caller had before that read (handleSave, seeksource.go:165).        *)
(***************************************************************************)
ServesWants ==
  [][\A s \in Ids : src[s].made =>
       /\ src[s].want /\ ~src'[s].want =>
            owner = s /\ (src[s].ssc => src[s].offset \in ckpts'[s])
       /\ out'.id = s /\ out'.n > 0 => ~src'[s].want]_vars

\* What every step but a read leaves alone.
LEMMA WantKept ==
  ASSUME TypeOK, NEW s \in Ids, NEW r, src' = [src EXCEPT ![s] = r],
         src[s].made => r.want \in {src[s].want, TRUE},
         NEW res, out' = Quiet(res)
  PROVE  \A u \in Ids : src[u].made =>
           (src[u].want => src'[u].want) /\ out'.n = 0
<1>1. out'.n = 0
  BY DEF Quiet
<1>2. ASSUME NEW u \in Ids, src[u].made, src[u].want PROVE src'[u].want
  <2>1. CASE u = s
    BY <1>2, <2>1 DEF TypeOK
  <2>2. CASE u # s
    BY <1>2, <2>2 DEF TypeOK
  <2> QED BY <2>1, <2>2
<1> QED BY <1>1, <1>2

LEMMA AfterSaveClears ==
  ASSUME NEW s \in Ids, src[s] \in SourceRecord, ckpts[s] \in SUBSET Nat,
         NEW a \in AfterSave(s)
  PROVE  a.r \in SourceRecord /\ ~a.r.want
<1> DEFINE r == [src[s] EXCEPT !.want = FALSE]
<1>1. r \in SourceRecord /\ ~r.want
  BY DEF SourceRecord
<1>2. ASSUME NEW c \in Nat
      PROVE  Rewound(r, c) \in SourceRecord /\ ~Rewound(r, c).want
  BY <1>1 DEF Rewound, SourceRecord
<1>3. \/ a = [r |-> r, pos |-> filePos]
      \/ \E c \in ResumableInSave(s) : a = [r |-> Rewound(r, c), pos |-> r.start + c]
  BY DEF AfterSave
<1>4. CASE a = [r |-> r, pos |-> filePos]
  BY <1>1, <1>4
<1>5. CASE \E c \in ResumableInSave(s) : a = [r |-> Rewound(r, c), pos |-> r.start + c]
  <2>1. PICK c \in ResumableInSave(s) : a = [r |-> Rewound(r, c), pos |-> r.start + c]
    BY <1>5
  <2>2. c \in Nat
    BY DEF ResumableInSave, Resumable, EmittedAt, SourceRecord
  <2> HIDE DEF r
  <2> QED BY <1>2, <2>1, <2>2
<1> QED BY <1>3, <1>4, <1>5

LEMMA FetchServes ==
  ASSUME TypeOK, NEW s \in Ids, NEW len, owner = s, Fetch(s, len)
  PROVE  \A u \in Ids : src[u].made =>
           /\ src[u].want /\ ~src'[u].want =>
                owner = u /\ (src[u].ssc => src[u].offset \in ckpts'[u])
           /\ out'.id = u /\ out'.n > 0 => ~src'[u].want
<1>1. src[s] \in SourceRecord /\ ckpts[s] \in SUBSET Nat
  BY DEF TypeOK
<1>2. PICK a \in AfterSave(s) :
        \/ \E k, n : src' = [src EXCEPT ![s] = Advance(a.r, k, n)] /\ out'.id = s
        \/ src' = [src EXCEPT ![s] = a.r] /\ out'.id = NoSource
  BY DEF Fetch, Quiet
<1>3. a.r \in SourceRecord /\ ~a.r.want
  BY <1>1, AfterSaveClears
<1>4. /\ ~src'[s].want /\ out'.id \in {s, NoSource}
      /\ \A u \in Ids \ {s} : src'[u] = src[u]
  <2>1. CASE src' = [src EXCEPT ![s] = a.r] /\ out'.id = NoSource
    BY <1>3, <2>1 DEF TypeOK
  <2>2. CASE \E k, n : src' = [src EXCEPT ![s] = Advance(a.r, k, n)] /\ out'.id = s
    <3>1. PICK k, n : src' = [src EXCEPT ![s] = Advance(a.r, k, n)] /\ out'.id = s
      BY <2>2
    <3>2. Advance(a.r, k, n).want = a.r.want
      BY <1>3 DEF Advance, SourceRecord
    <3>3. src'[s] = Advance(a.r, k, n) /\ \A u \in Ids \ {s} : src'[u] = src[u]
      BY <3>1 DEF TypeOK
    <3> QED BY <1>3, <3>1, <3>2, <3>3
  <2> QED BY <1>2, <2>1, <2>2
<1>5. ASSUME src[s].want, src[s].ssc PROVE src[s].offset \in ckpts'[s]
  <2>1. ckpts' = [ckpts EXCEPT ![s] = @ \cup {src[s].offset}]
    BY <1>5 DEF Fetch, CkptsAfterSave, Emits, EmittedAt
  <2> QED BY <2>1 DEF TypeOK
<1> QED BY <1>4, <1>5

LEMMA StepServes ==
  ASSUME TypeOK, Next
  PROVE  \A u \in Ids : src[u].made =>
           /\ src[u].want /\ ~src'[u].want =>
                owner = u /\ (src[u].ssc => src[u].offset \in ckpts'[u])
           /\ out'.id = u /\ out'.n > 0 => ~src'[u].want
<1>1. ASSUME NEW s \in Ids, SetSourceSaveConsumer(s) \/ WantSave(s) \/ Resume(s)
      PROVE  \A u \in Ids : src[u].made => (src[u].want => src'[u].want) /\ out'.n = 0
  <2>1. src[s] \in SourceRecord
    BY DEF TypeOK
  <2>2. CASE SetSourceSaveConsumer(s)
    <3>1. [src[s] EXCEPT !.ssc = TRUE].want = src[s].want
      BY <2>1 DEF SourceRecord
    <3> QED BY <2>2, <3>1, WantKept DEF SetSourceSaveConsumer
  <2>3. CASE WantSave(s)
    <3>1. [src[s] EXCEPT !.want = TRUE].want = TRUE
      BY <2>1 DEF SourceRecord
    <3> QED BY <2>3, <3>1, WantKept DEF WantSave
  <2>4. CASE ResumeRefused(s)
    BY <2>4 DEF ResumeRefused, Quiet
  <2>5. ASSUME NEW offset, ResumeAt(s, offset)
        PROVE  \A u \in Ids : src[u].made => (src[u].want => src'[u].want) /\ out'.n = 0
    <3>1. Rewound(src[s], offset).want = src[s].want
      BY <2>1 DEF Rewound, SourceRecord
    <3> QED BY <2>5, <3>1, WantKept DEF ResumeAt
  <2>6. ASSUME NEW offset, SeekFails(s, offset)
        PROVE  \A u \in Ids : src[u].made => (src[u].want => src'[u].want) /\ out'.n = 0
    <3>1. [src[s] EXCEPT !.offset = offset].want = src[s].want
      BY <2>1 DEF SourceRecord
    <3> QED BY <2>6, <3>1, WantKept DEF SeekFails
  <2> QED BY <1>1, <2>2, <2>3, <2>4, <2>5, <2>6 DEF Resume
<1>2. ASSUME NEW s \in Ids, NEW t \in Sections, NEW start \in Bounds, NEW size \in Bounds,
             Section(s, t, start, size)
      PROVE  \A u \in Ids : src[u].made => (src[u].want => src'[u].want) /\ out'.n = 0
  <2>1. CASE UNCHANGED src
    BY <1>2, <2>1 DEF Section, Quiet
  <2>2. CASE src' = [src EXCEPT ![t] = SectionOf(src[s], start, size)] /\ out' = Quiet("ok")
    <3>1. t \in Ids /\ ~src[t].made
      BY <1>2 DEF Section
    <3> QED BY <2>2, <3>1, WantKept
  <2> QED BY <1>2, <2>1, <2>2 DEF Section
<1>3. ASSUME NEW s \in Ids,
             ReadUninitialized(s) \/ \E len \in ReadLens : ReadNothing(s, len)
      PROVE  UNCHANGED src /\ out'.n = 0
  BY <1>3 DEF ReadUninitialized, ReadNothing, ReadPanics, Stays, Quiet
<1>4. ASSUME NEW s \in Ids, ReadByte(s) \/ \E len \in ReadLens : Read(s, len)
      PROVE  owner = s /\ \E len : Fetch(s, len)
  BY <1>4 DEF Read, ReadByte
<1> QED BY <1>1, <1>2, <1>3, <1>4, FetchServes DEF Next

(***************************************************************************)
(* A wanted save is neither lost nor late: it is served before the source  *)
(* hands over anything more, for every file, section and checkpoint,       *)
(* foreign ones included. WantServed rests on it.                          *)
(***************************************************************************)
THEOREM SeekSourceServesWants == NoOverflow => (Spec => ServesWants)
<1>1. TypeOK /\ [Next]_vars =>
        [\A s \in Ids : src[s].made =>
           /\ src[s].want /\ ~src'[s].want =>
                owner = s /\ (src[s].ssc => src[s].offset \in ckpts'[s])
           /\ out'.id = s /\ out'.n > 0 => ~src'[s].want]_vars
  BY StepServes
<1> QED BY <1>1, SeekSourceTyped, PTL DEF Spec, ServesWants
=============================================================================
