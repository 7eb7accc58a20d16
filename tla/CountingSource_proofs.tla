----------------------- MODULE CountingSource_proofs -----------------------
(***************************************************************************)
(* What the callback of a counting source is told, for every depth of      *)
(* nesting. Two sums are kept apart, one by each wrapper and one by each   *)
(* source; that they are equal is the invariant the property rests on.     *)
(***************************************************************************)
EXTENDS CountingSource, SeekSource_proofs

USE ConstantsAssumption DEF Ids

Shifted ==
  /\ shift \in [Ids -> Nat]
  /\ \A s \in Ids : shift[s] = src[s].start

CountingInv == Aligned /\ SectionsInsideRoot /\ Shifted /\ ToldPlaceInFile

-----------------------------------------------------------------------------
LEMMA CountingInitInv == CountingInit => CountingInv
<1> SUFFICES ASSUME CountingInit PROVE CountingInv
  OBVIOUS
<1>1. Aligned /\ SectionsInsideRoot
  BY InitAligned, InitInsideRoot DEF CountingInit
<1>2. Shifted
  BY DEF CountingInit, Init, Shifted, NewSource, Unmade
<1>3. ToldPlaceInFile
  BY DEF CountingInit, ToldPlaceInFile
<1> QED BY <1>1, <1>2, <1>3 DEF CountingInv

\* The wrapper passes every call on, each is one of the source's.
LEMMA CountingIsNext == [CountingNext]_countingVars => [Next]_vars
  BY DEF CountingNext, PassedOn, CountingSection, CountingRead, Next, vars, countingVars

\* A call that is passed on, or that reads, leaves every source where it was cut.
LEMMA StartsKept ==
  ASSUME Aligned, NEW s \in Ids, PassedOn(s) \/ CountingRead(s), NEW u \in Ids
  PROVE  src'[u].start = src[u].start
<1> USE SourceFields DEF Aligned
<1>1. CASE SetSourceSaveConsumer(s) \/ WantSave(s)
  BY <1>1 DEF SetSourceSaveConsumer, WantSave, TypeOK, SourceRecord
<1>2. CASE Resume(s)
  <2>1. CASE ResumeRefused(s)
    BY <2>1 DEF ResumeRefused
  <2>2. ASSUME NEW offset \in Resumable(s), ResumeAt(s, offset)
        PROVE  src'[u].start = src[u].start
    BY <2>2 DEF ResumeAt, Rewound, TypeOK, SourceRecord
  <2>3. ASSUME NEW offset \in Resumable(s), SeekFails(s, offset)
        PROVE  src'[u].start = src[u].start
    BY <2>3 DEF SeekFails, TypeOK, SourceRecord
  <2> QED BY <1>2, <2>1, <2>2, <2>3 DEF Resume
<1>3. CASE \/ ReadUninitialized(s)
           \/ \E len \in ReadLens : ReadNothing(s, len)
  BY <1>3 DEF ReadUninitialized, ReadNothing, ReadPanics, Stays
<1>4. CASE CountingRead(s)
  <2>1. PICK len \in Nat \ {0} : owner = s /\ Fetch(s, len)
    <3>1. 1 \in Nat \ {0}
      OBVIOUS
    <3> QED BY <1>4, <3>1, ReadFetches DEF CountingRead, ReadByte
  <2> QED BY <2>1, FetchStep
<1> QED BY <1>1, <1>2, <1>3, <1>4 DEF PassedOn

LEMMA CountingNextInv ==
  NoOverflow /\ CountingInv /\ [CountingNext]_countingVars => CountingInv'
<1> SUFFICES ASSUME NoOverflow, CountingInv, [CountingNext]_countingVars
             PROVE  CountingInv'
  OBVIOUS
<1> USE DEF CountingInv
<1>1. [Next]_vars
  BY CountingIsNext
<1>2. Aligned' /\ SectionsInsideRoot'
  BY <1>1, NextAligned, NextInsideRoot
<1>3. CASE UNCHANGED countingVars
  <2>1. Shifted' /\ ToldPlaceInFile'
    BY <1>3 DEF countingVars, Shifted, ToldPlaceInFile
  <2> QED BY <1>2, <2>1
<1>4. ASSUME NEW s \in Ids, PassedOn(s) PROVE CountingInv'
  <2>1. Shifted'
    BY <1>4, StartsKept DEF PassedOn, Shifted
  <2>2. ToldPlaceInFile'
    BY <1>4 DEF PassedOn, ToldPlaceInFile
  <2> QED BY <1>2, <2>1, <2>2
<1>5. ASSUME NEW s \in Ids, NEW t \in Sections, NEW start \in Bounds, NEW size \in Bounds,
             CountingSection(s, t, start, size)
      PROVE  CountingInv'
  <2>1. ToldPlaceInFile'
    BY <1>5 DEF CountingSection, ToldPlaceInFile
  <2>2. CASE ~SectionFits(src[s], start, size)
    <3>1. src' = src /\ shift' = shift
      BY <1>5, <2>2 DEF CountingSection, Section
    <3> QED BY <1>2, <2>1, <3>1 DEF Shifted
  <2>3. CASE SectionFits(src[s], start, size)
    <3> DEFINE r == SectionOf(src[s], start, size)
    <3>1. src' = [src EXCEPT ![t] = r] /\ src[s].made
      BY <1>5, <2>3 DEF CountingSection, Section
    <3>2. src[s] \in SourceRecord /\ src[s].start + src[s].size <= RootSize
      BY <3>1, SourceFields DEF Aligned, SectionsInsideRoot
    <3>3. r.made /\ r.start = src[s].start + start
      BY <2>3, <3>2, SectionFacts
    <3> start \in Nat
      BY <2>3 DEF SectionFits
    <3> HIDE DEF r
    <3>4. src'[t] = r /\ \A u \in Ids \ {t} : src'[u] = src[u]
      BY <3>1 DEF Aligned, TypeOK
    <3>5. shift' = [shift EXCEPT ![t] = shift[s] + start]
      BY <1>5, <3>3, <3>4 DEF CountingSection, ShiftOf
    <3>6. Shifted'
      BY <3>3, <3>4, <3>5 DEF Shifted
    <3> QED BY <1>2, <2>1, <3>6
  <2> QED BY <2>2, <2>3
<1>6. ASSUME NEW s \in Ids, CountingRead(s) PROVE CountingInv'
  <2>1. Shifted'
    BY <1>6, StartsKept DEF CountingRead, Shifted
  <2>2. PICK len \in Nat \ {0} : owner = s /\ Fetch(s, len)
    <3>1. 1 \in Nat \ {0}
      OBVIOUS
    <3> QED BY <1>6, <3>1, ReadFetches DEF CountingRead, ReadByte, Aligned
  <2>3. owner' = s
    BY <2>2, FetchStep
  <2>4. filePos' - src'[s].buffered = src'[s].start + src'[s].offset
    BY <1>2, <2>3 DEF Aligned, OwnerAligned
  <2>5. told' # NotTold => told' = src'[s].start + src'[s].offset
    BY <1>6, <2>1 DEF CountingRead, Count, CallbackOffset, Shifted
  <2>6. ToldPlaceInFile'
    BY <2>3, <2>4, <2>5 DEF ToldPlaceInFile
  <2> QED BY <1>2, <2>1, <2>6
<1> QED BY <1>3, <1>4, <1>5, <1>6 DEF CountingNext

(***************************************************************************)
(* The callback is told the place in the file up to which the caller was   *)
(* handed the bytes, for every file, buffer, threshold and depth of        *)
(* sections, as long as the bounds passed to Section add up.               *)
(***************************************************************************)
THEOREM CountingSourceTellsPlace == NoOverflow => (CountingSpec => []ToldPlaceInFile)
<1> SUFFICES ASSUME NoOverflow PROVE CountingSpec => []ToldPlaceInFile
  OBVIOUS
<1>1. CountingInit => CountingInv
  BY CountingInitInv
<1>2. CountingInv /\ [CountingNext]_countingVars => CountingInv'
  BY CountingNextInv
<1>3. CountingInv => ToldPlaceInFile
  BY DEF CountingInv
<1> QED BY <1>1, <1>2, <1>3, PTL DEF CountingSpec

-----------------------------------------------------------------------------
(***************************************************************************)
(* countingsource.go passes every call on, and adds nothing: whatever a    *)
(* program can do with a counting source and its sections, it could have   *)
(* done with the sources below them.                                       *)
(***************************************************************************)
THEOREM CountingSourceIsSeekSource == CountingSpec => Spec
<1>1. CountingInit => Init
  BY DEF CountingInit
<1>2. [CountingNext]_countingVars => [Next]_vars
  BY CountingIsNext
<1> QED BY <1>1, <1>2, PTL DEF CountingSpec, Spec

(***************************************************************************)
(* Hence a counting source keeps the contract of source.go, as zip and tar *)
(* take it for a source, when it is resumed from checkpoints of its own.   *)
(***************************************************************************)
THEOREM CountingSourceKeepsContract ==
  NoOverflow /\ OwnCheckpoints => (CountingSpec => KeepsContract)
  BY CountingSourceIsSeekSource, SeekSourceKeepsContract, PTL
=============================================================================
