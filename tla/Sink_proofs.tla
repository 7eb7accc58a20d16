----------------------------- MODULE Sink_proofs -----------------------------
(***************************************************************************)
(* What the contract of sink.go amounts to for those who keep to it: the   *)
(* sink that implements it (FolderKeepsContract) and the extractors that   *)
(* call it (ZipKeepsToSink, TarKeepsToSink).                               *)
(***************************************************************************)
EXTENDS Sink, TLAPS

TypeOK ==
  /\ dest \in [kind : Kinds, file : EntryFiles]
  /\ woff \in {NoWriter} \cup Nat

\* What is opened, and what preallocation and writes make of it.
LEMMA OpenedFacts ==
  ASSUME TypeOK
  PROVE  /\ OpenedHere \in EntryFiles /\ OpenedHere.good = dest.file.good
         /\ OpenedHere.len >= dest.file.len
<1>1. dest.file \in EntryFiles
  BY DEF TypeOK
<1>2. OpenedHere = [len |-> Greater(dest.file.len, 0), good |-> dest.file.good]
  BY <1>1 DEF OpenedHere, Created, EntryFiles
<1> QED BY <1>1, <1>2 DEF Greater, EntryFiles

LEMMA FileFacts == ASSUME NEW f PROVE File(f) = [kind |-> "file", file |-> f]
BY DEF File

LEMMA AppendedInPlace ==
  ASSUME NEW f \in EntryFiles, NEW w \in Nat, NEW n \in Nat, f.good = w, f.len >= w
  PROVE  /\ Appended(f, w, w, n) \in EntryFiles
         /\ Appended(f, w, w, n).good = w + n /\ Appended(f, w, w, n).len >= w + n
BY DEF Appended, Greater, Lesser, EntryFiles

(***************************************************************************)
(* Whoever keeps to the contract has, whenever a writer is open, the data  *)
(* up to its WriteOffset in the file and nothing that counts after it:     *)
(* that is what lets a checkpoint say no more of a file than an offset.    *)
(***************************************************************************)
THEOREM SinkWriterAtOffset == Lengths \subseteq Nat => (Spec => []WriterAtOffset)
<1> SUFFICES ASSUME Lengths \subseteq Nat PROVE Spec => []WriterAtOffset
  OBVIOUS
<1> DEFINE I == TypeOK /\ WriterAtOffset
<1>1. Init => I
  BY DEF Init, TypeOK, WriterAtOffset
<1>2. I /\ [Next]_vars => I'
  <2> SUFFICES ASSUME I, [Next]_vars PROVE I'
    OBVIOUS
  <2>1. CASE UNCHANGED vars
    BY <2>1 DEF vars, TypeOK, WriterAtOffset
  <2>2. CASE Mkdir \/ Symlink \/ Remove \/ CloseWriter
    <3>1. woff' = NoWriter /\ dest' \in {Folder, Link, Nothing, dest}
      BY <2>2 DEF Mkdir, Symlink, Remove, CloseWriter
    <3> QED BY <3>1 DEF Folder, Link, Nothing, Missing, Kinds, EntryFiles, TypeOK, WriterAtOffset
  <2>3. ASSUME NEW n \in Lengths, GetWriter(n) PROVE I'
    <3>1. WriterAt(OpenedHere, n) = [len |-> n, good |-> n]
      BY <2>3, OpenedFacts DEF GetWriter, WriterAt, Lesser, EntryFiles
    <3>2. dest' = [kind |-> "file", file |-> [len |-> n, good |-> n]] /\ woff' = n
      BY <2>3, <3>1 DEF GetWriter, File
    <3> QED BY <3>2 DEF TypeOK, WriterAtOffset, Kinds, EntryFiles
  <2>4. ASSUME NEW n \in Lengths, Preallocate(n) PROVE I'
    <3>1. PICK f : f = Preallocated(OpenedHere, n)
      OBVIOUS
    <3>2. f \in EntryFiles /\ f.good = dest.file.good /\ f.len >= dest.file.len
      BY <3>1, OpenedFacts DEF Preallocated, Created, Greater, EntryFiles, TypeOK
    <3>3. dest' = [kind |-> "file", file |-> f] /\ woff' = woff
      BY <2>4, <3>1 DEF Preallocate, File
    <3> QED BY <3>2, <3>3 DEF TypeOK, WriterAtOffset, Kinds, EntryFiles, NoWriter
  <2>5. ASSUME NEW n \in Lengths, Write(n) \/ WriteAndClose(n) PROVE I'
    <3>1. woff \in Nat /\ dest.file \in EntryFiles /\ dest.file.good = woff
          /\ dest.file.len >= woff
      BY <2>5 DEF Write, WriteAndClose, TypeOK, WriterAtOffset, NoWriter
    <3>2. PICK f : f = Appended(dest.file, woff, woff, n)
      OBVIOUS
    <3>3. f \in EntryFiles /\ f.good = woff + n /\ f.len >= woff + n
      BY <3>1, <3>2, AppendedInPlace
    <3>4. dest' = [kind |-> "file", file |-> f] /\ woff' \in {NoWriter, woff + n}
      BY <2>5, <3>2 DEF Write, WriteAndClose, File
    <3> QED BY <3>1, <3>3, <3>4 DEF TypeOK, WriterAtOffset, Kinds, NoWriter
  <2>6. ASSUME NEW n \in Lengths, SymlinkAsText(n) PROVE I'
    <3>1. PICK f : f = WriterAt(OpenedHere, 0)
      OBVIOUS
    <3>2. f \in EntryFiles /\ f.good = 0 /\ f.len = 0
      BY <3>1, OpenedFacts DEF WriterAt, Lesser, EntryFiles
    <3>3. PICK g : g = Appended(f, 0, 0, n)
      OBVIOUS
    <3>4. g \in EntryFiles
      BY <3>2, <3>3, AppendedInPlace
    <3>5. dest' = [kind |-> "file", file |-> g] /\ woff' = NoWriter
      BY <2>6, <3>1, <3>3 DEF SymlinkAsText, File
    <3> QED BY <3>4, <3>5 DEF TypeOK, WriterAtOffset, Kinds
  <2> QED BY <2>1, <2>2, <2>3, <2>4, <2>5, <2>6 DEF Next
<1> QED BY <1>1, <1>2, PTL DEF Spec
=============================================================================
