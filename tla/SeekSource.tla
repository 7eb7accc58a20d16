----------------------------- MODULE SeekSource -----------------------------
(***************************************************************************)
(* seeksource/seeksource.go: a savior.Source over an io.ReadSeeker, and    *)
(* the sections cut out of it. All of them share one io.ReadSeeker, each   *)
(* reads through its own bufio.Reader, and each keeps an offset of its own *)
(* that it updates next to that buffer. Nothing in the code ties the three *)
(* together: that they agree is what this module is about.                 *)
(*                                                                         *)
(* The caller is any program that keeps to the contract of source.go: it   *)
(* resumes a source before reading it and, once another source of the same *)
(* io.ReadSeeker has been resumed, does not read the old one until it has  *)
(* resumed it again ("cannot be used anymore", source.go:79).              *)
(***************************************************************************)
EXTENDS Integers

CONSTANTS
  Root,            \* the source NewWithSize, FromBytes or FromFile returns
  Sections,        \* the sources Section may return, one per call
  NoSource,        \* nobody may read
  FileSize,        \* bytes behind the io.ReadSeeker
  RootSize,        \* the size the root was told; FileSize, unless it is stale
  BufSize,         \* capacity of a bufio.Reader
  MaxInt,          \* largest int64
  ReadLens,        \* lengths of the buffers passed to Read
  Bounds,          \* arguments passed to Section
  Foreign          \* offsets of checkpoints this source never emitted

Ids == {Root} \cup Sections

ASSUME ConstantsAssumption ==
  /\ Root \notin Sections
  /\ NoSource \notin Ids
  /\ FileSize \in Nat
  /\ RootSize \in Nat
  /\ BufSize \in Nat \ {0, 1}
  /\ MaxInt \in Nat /\ FileSize <= MaxInt /\ RootSize <= MaxInt
  /\ ReadLens \subseteq Nat
  /\ Bounds \subseteq Int
  /\ Foreign \subseteq -(MaxInt + 1) .. MaxInt

VARIABLES
  src,        \* src[s]: the fields of seekSource s
  filePos,    \* position of the shared io.ReadSeeker
  owner,      \* the source that was resumed last, the one that may be read
  ckpts,      \* ckpts[s]: offsets of the checkpoints s has emitted
  out,        \* what the last call handed to its caller
  strayed     \* history: the owner was resumed past its end, or was sent further
              \* on in a read than that read took into account

vars == <<src, filePos, owner, ckpts, out, strayed>>

Smaller(a, b) == IF a < b THEN a ELSE b

\* int64 addition: past MaxInt the sum comes back as a negative number.
Add64(a, b) == IF a + b > MaxInt THEN a + b - 2 * (MaxInt + 1) ELSE a + b

NewSource(start, size) ==
  [made |-> TRUE, start |-> start, size |-> size, offset |-> 0,
   ready |-> FALSE, buffered |-> 0, want |-> FALSE, ssc |-> FALSE]
Unmade == [NewSource(0, 0) EXCEPT !.made = FALSE]

Quiet(res) == [id |-> NoSource, at |-> 0, unit |-> 0, n |-> 0, res |-> res]

Init ==
  /\ src = [s \in Ids |-> IF s = Root THEN NewSource(0, RootSize) ELSE Unmade]
  /\ filePos = 0
  /\ owner = NoSource
  /\ ckpts = [s \in Ids |-> {}]
  /\ out = Quiet("ok")
  /\ strayed = FALSE

-----------------------------------------------------------------------------
(***************************************************************************)
(* SetSourceSaveConsumer and WantSave only leave a note for the next read. *)
(***************************************************************************)
SetSourceSaveConsumer(s) ==
  /\ src[s].made
  /\ src' = [src EXCEPT ![s].ssc = TRUE]
  /\ out' = Quiet("ok")
  /\ UNCHANGED <<filePos, owner, ckpts, strayed>>

WantSave(s) ==
  /\ src[s].made
  /\ src' = [src EXCEPT ![s].want = TRUE]
  /\ out' = Quiet("ok")
  /\ UNCHANGED <<filePos, owner, ckpts, strayed>>

\* slip: the position moves and the buffer keeps what it had
RewoundBufferKept(r, offset) == [r EXCEPT !.offset = offset, !.ready = TRUE]

(***************************************************************************)
(* Resume. A negative offset is refused before anything is touched; any    *)
(* other offset is stored without a look at the size. A failing Seek       *)
(* leaves the new offset in place with the old buffer.                     *)
(***************************************************************************)
Rewound(r, offset) == [r EXCEPT !.offset = offset, !.ready = TRUE, !.buffered = 0]

ResumeRefused(s) ==
  /\ src[s].made
  /\ \E c \in Foreign : c < 0
  /\ out' = Quiet("error")
  /\ UNCHANGED <<src, filePos, owner, ckpts, strayed>>

ResumeAt(s, offset) ==
  /\ src[s].made
  /\ src[s].start + offset <= MaxInt      \* a negative position is refused
  /\ src' = [src EXCEPT ![s] = Rewound(src[s], offset)]
  /\ filePos' = src[s].start + offset
  /\ owner' = s
  /\ out' = Quiet("ok")
  /\ strayed' = (offset > src[s].size)
  /\ UNCHANGED ckpts

SeekFails(s, offset) ==
  /\ src[s].made
  /\ src' = [src EXCEPT ![s].offset = offset]
  /\ owner' = NoSource
  /\ strayed' = FALSE
  /\ out' = Quiet("error")
  /\ UNCHANGED <<filePos, ckpts>>

\* nil, a checkpoint of its own, or one that comes from somewhere else
Resumable(s) == {0} \cup ckpts[s] \cup {c \in Foreign : c >= 0}

Resume(s) ==
  \/ ResumeRefused(s)
  \/ \E offset \in Resumable(s) : ResumeAt(s, offset) \/ SeekFails(s, offset)

\* slip: start and size are each looked at, their sum is not
SectionFitsApart(r, start, size) ==
  start \in 0 .. r.size /\ size \in 0 .. r.size

(***************************************************************************)
(* Section: bounds are checked against the size of the parent, the start   *)
(* is relative to the start of the parent, the new source is not resumed.  *)
(***************************************************************************)
SectionFits(r, start, size) ==
  start >= 0 /\ size >= 0 /\ Add64(start, size) <= r.size

SectionOf(r, start, size) == NewSource(Add64(r.start, start), size)

Section(s, t, start, size) ==
  /\ src[s].made
  /\ ~src[t].made
  /\ IF SectionFits(src[s], start, size)
       THEN /\ src' = [src EXCEPT ![t] = SectionOf(src[s], start, size)]
            /\ out' = Quiet("ok")
       ELSE /\ out' = Quiet("error")
            /\ UNCHANGED src
  /\ UNCHANGED <<filePos, owner, ckpts, strayed>>

-----------------------------------------------------------------------------
(***************************************************************************)
(* handleSave runs before the bytes of the same call are taken, so the     *)
(* checkpoint is for what the caller already has. The consumer's error is  *)
(* dropped. It may resume this very source before it returns, from the     *)
(* checkpoint it was just given (checker/sourcetester.go:58), from any     *)
(* other or from nil: the buffer is emptied, the position moves, and the   *)
(* read goes on with the length it had worked out before. A consumer whose *)
(* Resume fails is taken to stop the program, as sourcetester's does.      *)
(***************************************************************************)
Emits(r) == r.want /\ r.ssc

\* slip: the checkpoint is a position of the file, not of the section
EmittedAtFilePosition(r) == r.start + r.offset

EmittedAt(r) == r.offset

CkptsAfterSave(s) ==
  IF Emits(src[s]) THEN [ckpts EXCEPT ![s] = @ \cup {EmittedAt(src[s])}] ELSE ckpts

\* slip: the flag is only cleared where the consumer is called
AfterSaveIfConsumed(s) ==
  LET r == [src[s] EXCEPT !.want = ~src[s].ssc] IN {[r |-> r, pos |-> filePos]}

\* where the consumer may have the source resumed: what it was just given, too
ResumableInSave(s) ==
  {c \in Resumable(s) \cup {EmittedAt(src[s])} : src[s].start + c <= MaxInt}

\* the source and the file position handleSave may leave behind
AfterSave(s) ==
  LET r == [src[s] EXCEPT !.want = FALSE] IN
  {[r |-> r, pos |-> filePos]} \cup
  {[r |-> Rewound(r, c), pos |-> r.start + c] :
     c \in IF Emits(src[s]) THEN ResumableInSave(s) ELSE {}}

(***************************************************************************)
(* bufio.Reader: bytes left in the buffer are handed out first; an empty   *)
(* buffer is filled with one read of the file, or bypassed when the caller *)
(* asks for at least BufSize bytes. The file may return less than asked.   *)
(***************************************************************************)
Pulls(r, pos, len) ==
  IF r.buffered > 0 THEN {0}
  ELSE 1 .. Smaller(IF len >= BufSize THEN len ELSE BufSize, FileSize - pos)

\* slip: the length asked for is taken for the length read
TakenAsAsked(r, pulled, len) == len

Taken(r, pulled, len) == Smaller(len, r.buffered + pulled)

\* slip: the offset is not moved by the bytes handed over
AdvanceBufferOnly(r, pulled, n) == [r EXCEPT !.buffered = r.buffered + pulled - n]

Advance(r, pulled, n) ==
  [r EXCEPT !.offset = r.offset + n, !.buffered = r.buffered + pulled - n]

Fetch(s, len) ==
  /\ ckpts' = CkptsAfterSave(s)
  /\ \E a \in AfterSave(s) :
       /\ strayed' = (strayed \/ a.r.offset > src[s].offset)
       /\ \/ \E k \in Pulls(a.r, a.pos, len) :
               LET n == Taken(a.r, k, len) IN
               /\ src' = [src EXCEPT ![s] = Advance(a.r, k, n)]
               /\ filePos' = a.pos + k
               /\ out' = [id |-> s, at |-> a.r.offset,
                          unit |-> a.pos - a.r.buffered - a.r.start,
                          n |-> n, res |-> "ok"]
          \/ /\ a.r.buffered = 0
             /\ src' = [src EXCEPT ![s] = a.r]
             /\ filePos' = a.pos
             /\ \/ a.pos >= FileSize /\ out' = Quiet("eof")
                \/ out' = Quiet("error")
  /\ UNCHANGED owner

(***************************************************************************)
(* Read clips its buffer to what remains of the section: buf[:remaining]   *)
(* panics when remaining is negative. ReadByte has no buffer to clip and   *)
(* only looks whether it stands exactly at the end.                        *)
(***************************************************************************)
Remaining(r) == r.size - r.offset

\* slip: the buffer is not clipped
ClippedNot(r, len) == len

Clipped(r, len) == IF len > Remaining(r) THEN Remaining(r) ELSE len

AtEnd(r) == r.offset = r.size

Stays(res) ==
  /\ out' = Quiet(res)
  /\ UNCHANGED <<src, filePos, owner, ckpts, strayed>>

ReadUninitialized(s) ==
  /\ src[s].made
  /\ ~src[s].ready
  /\ Stays("error")

ReadPanics(s, len) ==
  /\ len > 0
  /\ Clipped(src[s], len) < 0
  /\ owner' = NoSource
  /\ out' = Quiet("panic")
  /\ UNCHANGED <<src, filePos, ckpts, strayed>>

\* every way Read returns before it looks at its own buffer
ReadNothing(s, len) ==
  /\ owner = s /\ src[s].ready
  /\ \/ len = 0 /\ Stays("ok")
     \/ len > 0 /\ AtEnd(src[s]) /\ Stays("eof")
     \/ ReadPanics(s, len)

Read(s, len) ==
  /\ owner = s /\ src[s].ready
  /\ len > 0
  /\ Clipped(src[s], len) > 0
  /\ Fetch(s, Clipped(src[s], len))

ReadByte(s) ==
  /\ owner = s /\ src[s].ready
  /\ ~AtEnd(src[s])
  /\ Fetch(s, 1)

-----------------------------------------------------------------------------
Next ==
  \E s \in Ids :
    \/ SetSourceSaveConsumer(s)
    \/ WantSave(s)
    \/ Resume(s)
    \/ \E t \in Sections, start, size \in Bounds : Section(s, t, start, size)
    \/ ReadUninitialized(s)
    \/ \E len \in ReadLens : ReadNothing(s, len) \/ Read(s, len)
    \/ ReadByte(s)

Spec == Init /\ [][Next]_vars

\* The reader keeps reading whatever source it holds.
Fairness ==
  \A s \in Ids : WF_vars(\/ \E len \in ReadLens : Read(s, len)
                         \/ ReadByte(s))

FairSpec == Spec /\ Fairness

-----------------------------------------------------------------------------
SourceRecord ==
  [made : BOOLEAN, start : Nat, size : Nat, offset : Nat,
   ready : BOOLEAN, buffered : Nat, want : BOOLEAN, ssc : BOOLEAN]

TypeOK ==
  /\ src \in [Ids -> SourceRecord]
  /\ filePos \in Nat
  /\ owner \in Ids \cup {NoSource}
  /\ ckpts \in [Ids -> SUBSET Nat]
  /\ strayed \in BOOLEAN
  /\ out \in [id : Ids \cup {NoSource}, at : Nat, unit : Int, n : Nat,
              res : {"ok", "eof", "error", "panic"}]

(***************************************************************************)
(* The source that may be read stands where it says it does: the next byte *)
(* out of its buffer is the one at its offset, counted from the start of   *)
(* the section (offset, br and rs of seeksource.go agree), however reads,  *)
(* resumes, sections and resumes out of the save consumer interleave.      *)
(***************************************************************************)
OwnerAligned ==
  owner # NoSource =>
    LET r == src[owner] IN
    /\ r.made /\ r.ready
    /\ filePos - r.buffered = r.start + r.offset

\* The bytes a source hands over are those at the offset it was at.
DeliveredInPlace == out.n > 0 => out.unit = out.at

(***************************************************************************)
(* No source hands over a byte past its end (source.go:77, "reads from     *)
(* start to start+size") and no read panics, but one that was resumed past *)
(* its end, or whose consumer resumed it further on while Read was at work *)
(* with the length that remained before (seeksource.go:134-143). A source  *)
(* resumed further back in there is safe, and so is any once it has been   *)
(* resumed again inside its bounds.                                        *)
(***************************************************************************)
ReadsInsideSection ==
  ~strayed =>
    /\ out.res # "panic"
    /\ out.n > 0 => out.at + out.n <= src[out.id].size

\* A section lies inside the source it was cut from, hence inside the root
\* (seeksource.go:113, "section too large").
SectionsInsideRoot ==
  \A s \in Ids : src[s].made => src[s].start + src[s].size <= RootSize

\* A wanted save is served by the source that is read on, unless it is
\* already at its end: the flag is looked at on every path that reads.
WantServed ==
  \A s \in Ids :
    (owner = s /\ src[s].want) ~>
      (owner # s \/ ~src[s].want \/ AtEnd(src[s]))

(***************************************************************************)
(* Every source made over the shared reader keeps the contract of          *)
(* savior.Source: it hands over nothing that is not in the file. That it   *)
(* stops at its own end is ReadsInsideSection.                             *)
(***************************************************************************)
OutOf(s) ==
  IF out.id = s THEN [at |-> out.at, unit |-> out.unit, n |-> out.n]
                ELSE [at |-> 0, unit |-> 0, n |-> 0]

PosOf(s) == IF owner = s THEN src[s].offset ELSE -1

Contract(s) == INSTANCE ResumableSource
  WITH Size <- FileSize, pos <- PosOf(s), ckpts <- ckpts[s], out <- OutOf(s)

KeepsContract ==
  /\ \A s \in Ids : Contract(s)!Init
  /\ [][\A s \in Ids : [Contract(s)!Next]_(Contract(s)!vars)]_vars

-----------------------------------------------------------------------------
(***************************************************************************)
(* Statements of the documentation the code does not keep.                 *)
(***************************************************************************)

\* "Whether it fails or not, the offset it returns should be valid"
\* (README.md:39-41): a resumed source can be read, it does not panic.
ResumedOffsetValid == out.res # "panic"
=============================================================================
