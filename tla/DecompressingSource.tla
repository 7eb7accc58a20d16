------------------------ MODULE DecompressingSource ------------------------
(***************************************************************************)
(* flatesource, gzipsource, bzip2source and brotlisource: sources that     *)
(* decompress another source. They have the same shape. A wanted save goes *)
(* to the inner source; when that one emits a checkpoint of its own, it is *)
(* kept (pending) and the decompressor is asked to stop at the next block  *)
(* boundary; only there a checkpoint is emitted, made of the inner         *)
(* checkpoint and of the state of the decompressor. To resume, the inner   *)
(* source is resumed first and is read up to where the decompressor was.   *)
(*                                                                         *)
(* The inner source is anything that keeps the contract of savior.Source;  *)
(* the decompressor is external (itchio/kompress, itchio/dskompress) and   *)
(* is described by what it has put out after a given number of input units *)
(* and by the input positions at which one of its blocks ends.             *)
(***************************************************************************)
EXTENDS Integers, FiniteSetsExt

CONSTANTS
  Codecs,        \* the sources under consideration
  InSize,        \* units of compressed input
  Yield,         \* Yield[r]: units of output known after r units of input
  BlockEnds,     \* input positions at which the decompressor may save
  ReadLens       \* lengths of the buffers passed to Read

OutSize == Yield[InSize]

ASSUME ConstantsAssumption ==
  /\ Codecs \subseteq {"flate", "gzip", "bzip2", "brotli"}
  /\ InSize \in Nat \ {0}
  /\ Yield \in [0 .. InSize -> Nat]
  /\ \A r \in 1 .. InSize : Yield[r - 1] <= Yield[r]
  /\ Yield[0] = 0 /\ Yield[1] = 0
  /\ BlockEnds \subseteq 2 .. InSize - 1
  /\ ReadLens \subseteq Nat \ {0}

VARIABLES
  codec,       \* which of the four sources this is
  mem,         \* the fields of the source, of its reader and of the inner source
  ssc,         \* a save consumer is set, on this source and on the inner one
  usable,      \* the last Resume succeeded
  early,       \* a save was wanted while it was not, in this process
  ckpts,       \* checkpoints handed to the save consumer, all of them kept
  out          \* what the last call handed to its caller

vars == <<codec, mem, ssc, usable, early, ckpts, out>>

NoPending == -1
Garbage == -1
NoReader == [state |-> "none", r |-> 0, w |-> 0, want |-> FALSE]

\* The state of the program: in is where the inner source is and whether it
\* wants a save, sr the decompressor, pending the inner checkpoint it waits
\* for a block end with (sourceCheckpoint), offset the bytes put out.
Fresh == [in |-> [offset |-> 0, want |-> FALSE], sr |-> NoReader,
          pending |-> NoPending, offset |-> 0]

Quiet(res) == [at |-> 0, unit |-> 0, n |-> 0, res |-> res]

Init ==
  /\ codec \in Codecs
  /\ mem = Fresh
  /\ ssc = FALSE
  /\ usable = FALSE
  /\ early = FALSE
  /\ ckpts = {}
  /\ out = Quiet("ok")

Goes(m, use, res) ==
  /\ mem' = m
  /\ usable' = use
  /\ out' = Quiet(res)

\* The process ends, with a panic or between two calls; the next one makes a
\* new source. What the consumer was given is on disk.
Restart(res) ==
  /\ Goes(Fresh, FALSE, res)
  /\ ssc' = FALSE
  /\ early' = FALSE
  /\ UNCHANGED <<codec, ckpts>>

-----------------------------------------------------------------------------
(***************************************************************************)
(* What one of the four sources does differently from the others.          *)
(***************************************************************************)

\* the offset a resumed source reports: its own, or the decompressor's
FlateOffset(c)  == c.w
\* slip: the position in the input is reported
GzipOffsetOfInput(c) == c.r

GzipOffset(c)   == c.offset
Bzip2Offset(c)  == c.offset
BrotliOffset(c) == c.w

ReportedOffset(c) ==
  CASE codec = "flate"  -> FlateOffset(c)
    [] codec = "gzip"   -> GzipOffset(c)
    [] codec = "bzip2"  -> Bzip2Offset(c)
    [] codec = "brotli" -> BrotliOffset(c)

\* input the constructor of the decompressor reads: gzip reads its header
FlateHeader  == 0
GzipHeader   == 1
Bzip2Header  == 0
BrotliHeader == 0

HeaderUnits ==
  CASE codec = "flate"  -> FlateHeader
    [] codec = "gzip"   -> GzipHeader
    [] codec = "bzip2"  -> Bzip2Header
    [] codec = "brotli" -> BrotliHeader

\* the reader left behind when that constructor fails, where it can fail:
\* gzip assigns the result first and looks at the error afterwards
GzipReaderAfterFailure(sr)   == {NoReader}
BrotliReaderAfterFailure(sr) == {sr}

ReadersAfterFailure(sr) ==
  CASE codec = "gzip"   -> GzipReaderAfterFailure(sr)
    [] codec = "brotli" -> BrotliReaderAfterFailure(sr)
    [] OTHER            -> {}

\* the inner checkpoint once it has been used: bzip2 does not clear it
FlatePending(p)  == NoPending
GzipPending(p)   == NoPending
Bzip2Pending(p)  == p
BrotliPending(p) == NoPending

PendingAfterSave(p) ==
  CASE codec = "flate"  -> FlatePending(p)
    [] codec = "gzip"   -> GzipPending(p)
    [] codec = "bzip2"  -> Bzip2Pending(p)
    [] codec = "brotli" -> BrotliPending(p)

-----------------------------------------------------------------------------
InnerEmits(m) == m.in.want /\ ssc

\* slip: the decompressor is asked to stop, the inner checkpoint is not kept
OnSaveForgetful(m) == IF InnerEmits(m) THEN [m EXCEPT !.sr.want = TRUE] ELSE m

OnSave(m) ==
  IF InnerEmits(m) THEN [m EXCEPT !.pending = m.in.offset, !.sr.want = TRUE] ELSE m

OnSavePanics(m) == InnerEmits(m) /\ m.sr.state = "none"

\* k units are taken from the inner source by a loop that tried to
Take(m, k) == [OnSave(m) EXCEPT !.in.want = FALSE, !.in.offset = m.in.offset + k]

\* the same, by the decompressor: it only makes sense of input in its place
Pull(m, k) ==
  LET t == Take(m, k) IN
  [t EXCEPT !.sr.r = m.sr.r + k,
            !.sr.state = IF m.sr.state = "good" /\ m.in.offset # m.sr.r
                           THEN "garbled" ELSE @]

\* slip: the old reader is dropped before the inner source is read
InnerAtNoReader(m, offset) == [m EXCEPT !.in.offset = offset, !.sr = NoReader]

InnerAt(m, offset) == [m EXCEPT !.in.offset = offset]

-----------------------------------------------------------------------------
(***************************************************************************)
(* Resume.                                                                 *)
(***************************************************************************)

\* The inner source is resumed at its checkpoint, or starts over, and is read
\* up to the position of the decompressor.
Landed(m, c, from) ==
  IF from < c.r THEN Take(InnerAt(m, from), c.r - from) ELSE InnerAt(m, from)

\* The decompressor takes its state back.
Reopened(m, c) ==
  [m EXCEPT !.sr = [state |-> IF m.in.offset = c.r THEN "good" ELSE "garbled",
                    r |-> c.r, w |-> c.w, want |-> FALSE],
            !.offset = ReportedOffset(c)]

\* slip: the offset of before Resume is kept
OpenedOffsetKept(m) ==
  LET t == IF HeaderUnits > 0 THEN Take(m, HeaderUnits) ELSE m IN
  [t EXCEPT !.sr = [state |-> "good", r |-> HeaderUnits, w |-> 0, want |-> FALSE]]

\* A new decompressor on the first unit of input, past its header.
Opened(m) ==
  LET t == IF HeaderUnits > 0 THEN Take(m, HeaderUnits) ELSE m IN
  [t EXCEPT !.sr = [state |-> "good", r |-> HeaderUnits, w |-> 0, want |-> FALSE],
            !.offset = 0]

\* The inner source may refuse to start over, the constructor may fail.
StartOver(m) ==
  LET s == InnerAt(m, 0) IN
  \/ /\ HeaderUnits > 0 /\ OnSavePanics(s)
     /\ Restart("panic")
  \/ /\ ~(HeaderUnits > 0 /\ OnSavePanics(s))
     /\ \/ Goes(Opened(s), TRUE, "ok")
        \/ \E sr \in ReadersAfterFailure(s.sr) :
             Goes([Take(s, 0) EXCEPT !.sr = sr], FALSE, "error")
     /\ UNCHANGED <<codec, ssc, early, ckpts>>
  \/ /\ Goes(m, FALSE, "error")
     /\ UNCHANGED <<codec, ssc, early, ckpts>>

\* nil, or a checkpoint whose Data is of another type
ResumeFromStart == StartOver(mem)

\* The inner source cannot be resumed, or not be read up to the decompressor.
ResumeFails ==
  /\ \E c \in ckpts, offset \in 0 .. InSize, m \in {mem, Take(mem, 0)} :
       offset <= c.r /\ Goes(InnerAt(m, offset), FALSE, "error")
  /\ UNCHANGED <<codec, ssc, early, ckpts>>

ResumeFromCheckpoint(c, from) ==
  LET m == Landed(mem, c, from)
      panics == from < c.r /\ OnSavePanics(InnerAt(mem, from))
  IN
  \/ panics /\ Restart("panic")
  \/ /\ ~panics /\ m.in.offset = c.r
     /\ \/ /\ Goes(Reopened(m, c), TRUE, "ok")
           /\ UNCHANGED <<codec, ssc, early, ckpts>>
        \/ StartOver([m EXCEPT !.sr = NoReader])      \* checkpoint unusable
  \/ ~panics /\ m.in.offset # c.r /\ StartOver(m)

Resume ==
  \/ ResumeFromStart
  \/ ResumeFails
  \/ \E c \in ckpts : \E from \in {c.inner, 0} : ResumeFromCheckpoint(c, from)

-----------------------------------------------------------------------------
(***************************************************************************)
(* Read. The decompressor takes input until it has output to hand over,    *)
(* reaches a block end with a save wanted, or runs out of input. What it   *)
(* hands over then is at most what it knows, and nothing with a save.      *)
(***************************************************************************)
Stops(m) ==
  LET sr == m.sr IN
  {q \in sr.r .. InSize :
     \/ Yield[q] > sr.w
     \/ q = InSize
     \/ q \in BlockEnds /\ (sr.want \/ (q > sr.r /\ InnerEmits(m)))}

\* slip: what was handed over is counted, the position of the output is not
DeliveredInPart(m, n) == [m EXCEPT !.offset = @ + n]

Delivered(m, n) == [m EXCEPT !.sr.w = @ + n, !.offset = @ + n]

Result(m, n, res) ==
  [m |-> m, at |-> m.offset - n,
   unit |-> IF m.sr.state = "good" THEN m.sr.w - n ELSE Garbage,
   n |-> n, res |-> res, saved |-> {}]

\* slip: the checkpoint is for the input taken, not for the output
CheckpointOfInput(m) ==
  [offset |-> m.sr.r, inner |-> m.pending, r |-> m.sr.r, w |-> m.sr.w]

\* slip: the state of the decompressor is that of when the inner one was made
CheckpointOfPending(m) ==
  [offset |-> Yield[m.pending], inner |-> m.pending,
   r |-> m.pending, w |-> Yield[m.pending]]

\* ReadyToSave: a checkpoint is made if there is an inner one and somebody to
\* take it. The decompressor may fail to make its part, or the consumer refuse
\* the whole, which fails the read; the consumer may also resume this source
\* from it before it returns (checker/sourcetester.go:58).
CheckpointOf(m) ==
  [offset |-> m.offset, inner |-> m.pending, r |-> m.sr.r, w |-> m.sr.w]

ReadyToSave(stopped) ==
  LET m == [stopped EXCEPT !.sr.want = FALSE]
      c == CheckpointOf(m)
      s == [m EXCEPT !.pending = PendingAfterSave(m.pending)]
  IN IF m.pending = NoPending \/ ~ssc
       THEN {Result(m, 0, "ok")}
       ELSE {Result(m, 0, "error")} \cup
            {[a EXCEPT !.saved = {c}] :
               a \in {Result(s, 0, "ok"), Result(s, 0, "error"),
                      Result(Reopened(Landed(s, c, c.inner), c), 0, "ok")}}

ReadResults(m, len) ==
  IF m.sr.state = "failed" THEN {Result(m, 0, "error")} ELSE
  LET q == Min(Stops(m))
      p == IF q > m.sr.r THEN Pull(m, q - m.sr.r) ELSE m
      known == Yield[q] - m.sr.w
  IN (IF known > 0 THEN {Result(Delivered(p, n), n, "ok") : n \in 1 .. Min({len, known})}
      ELSE IF q \in BlockEnds /\ p.sr.want THEN ReadyToSave(p)
      ELSE {Result(p, 0, "eof")})
     \cup {Result([Pull(m, k) EXCEPT !.sr.state = "failed"], 0, "error") :
             k \in 0 .. q - m.sr.r - 1}

\* a: what was read; n: how many bytes the caller believes it was handed
Returns(a, n) ==
  /\ mem' = a.m
  /\ ckpts' = ckpts \cup a.saved
  /\ out' = [at |-> a.at, unit |-> a.unit, n |-> n, res |-> a.res]
  /\ UNCHANGED <<codec, ssc, usable, early>>

Read(len) ==
  /\ usable
  /\ \E a \in ReadResults(mem, len) : Returns(a, a.n)

(***************************************************************************)
(* ReadByte reads again when it got nothing, once, whatever the reason was;*)
(* the error of the first read is dropped and, if the second one comes     *)
(* back empty-handed too, the byte in the buffer is one read before.       *)
(***************************************************************************)
ReadByteTakes(a) == IF a.n = 1 THEN {a} ELSE
  {[b EXCEPT !.saved = a.saved \cup b.saved,
             !.unit = IF b.n = 1 THEN b.unit ELSE Garbage] :
     b \in ReadResults(a.m, 1)}

ReadByte ==
  /\ usable
  /\ \E a \in ReadResults(mem, 1) : \E b \in ReadByteTakes(a) :
       Returns(b, IF b.res = "ok" THEN 1 ELSE 0)

ReadUninitialized ==
  /\ mem.sr.state = "none"
  /\ out' = Quiet("error")
  /\ UNCHANGED <<codec, mem, ssc, usable, early, ckpts>>

SetSourceSaveConsumer ==
  /\ ssc' = TRUE
  /\ out' = Quiet("ok")
  /\ UNCHANGED <<codec, mem, usable, early, ckpts>>

\* Resume "must be called before using the source" (source.go:39); early
\* remembers a caller that did not keep to it.
WantSave ==
  /\ mem' = [mem EXCEPT !.in.want = TRUE]
  /\ early' = (early \/ ~usable)
  /\ out' = Quiet("ok")
  /\ UNCHANGED <<codec, ssc, usable, ckpts>>

Crash == Restart("ok")

Next ==
  \/ SetSourceSaveConsumer
  \/ WantSave
  \/ Resume
  \/ \E len \in ReadLens : Read(len)
  \/ ReadByte
  \/ ReadUninitialized
  \/ Crash

Spec == Init /\ [][Next]_vars

\* The caller keeps reading the source it has resumed.
FairSpec == Spec /\ WF_vars(ReadByte \/ \E len \in ReadLens : Read(len))

-----------------------------------------------------------------------------
Reader == [state : {"none", "good", "garbled", "failed"}, r : 0 .. InSize,
           w : 0 .. OutSize, want : BOOLEAN]

Checkpoint == [offset : 0 .. OutSize, inner : 0 .. InSize, r : 0 .. InSize, w : 0 .. OutSize]

TypeOK ==
  /\ codec \in Codecs
  /\ mem \in [in : [offset : 0 .. InSize, want : BOOLEAN], sr : Reader,
              pending : {NoPending} \cup 0 .. InSize, offset : 0 .. OutSize]
  /\ ssc \in BOOLEAN /\ usable \in BOOLEAN /\ early \in BOOLEAN
  /\ ckpts \subseteq Checkpoint
  /\ out \in [at : 0 .. OutSize, unit : {Garbage} \cup 0 .. OutSize, n : Nat,
              res : {"ok", "eof", "error", "panic"}]

(***************************************************************************)
(* Three positions move together while the source may be read: that of the *)
(* inner source, the input of the decompressor and the offset reported to  *)
(* the caller, whichever way the source got there.                         *)
(***************************************************************************)
InStep ==
  usable /\ mem.sr.state # "failed" =>
    /\ mem.sr.state = "good"
    /\ mem.in.offset = mem.sr.r
    /\ mem.offset = mem.sr.w

(***************************************************************************)
(* A decompressor that was asked to stop has an inner checkpoint to stop   *)
(* with, taken no later than its input position: every checkpoint it makes *)
(* can be resumed by reading forward (flatesource.go:73-83).               *)
(***************************************************************************)
SaveCanBeResumed ==
  /\ usable /\ mem.sr.want => mem.pending \in 0 .. mem.sr.r
  /\ \A c \in ckpts : c.inner < c.r /\ c.r \in BlockEnds /\ c.w = Yield[c.r]

\* The caller is handed the bytes of the stream, each at its offset.
DeliveredInPlace == out.n > 0 => out.unit = out.at

(***************************************************************************)
(* OnSave speaks to a reader that exists (gzipsource.go:56), although the  *)
(* inner source keeps a wanted save across Resume, the reader may be nil   *)
(* after a checkpoint that could not be used, and the constructor of gzip  *)
(* reads before there is a new one. Only a caller that wanted a save of a  *)
(* source it had not resumed can make it panic.                            *)
(***************************************************************************)
NeverPanics == [][out' # out /\ out'.res = "panic" => early]_vars

(***************************************************************************)
(* Saving does not keep a caller from the end of the stream: whoever reads *)
(* on gets there, however often it wants a save and although every save    *)
(* may resume the source from the checkpoint it was just given, unless the *)
(* stream fails or the caller itself resumes again and again.              *)
(***************************************************************************)
Over == ~usable \/ mem.sr.state = "failed" \/ mem.offset = OutSize

ReadsToEnd == []<><<Resume>>_vars \/ (usable ~> Over)

Contract == INSTANCE ResumableSource
  WITH Size  <- OutSize,
       pos   <- IF usable THEN mem.offset ELSE -1,
       ckpts <- {c.offset : c \in ckpts},
       out   <- [at |-> IF out.n = 0 THEN 0 ELSE out.at,
                 unit |-> IF out.n = 0 THEN 0 ELSE out.unit, n |-> out.n]

KeepsContract == Contract!Spec

-----------------------------------------------------------------------------
\* "there's no way to handle a short read from ReadByte, so we just read
\* again" (gzipsource.go:172-174): what ReadByte returns then was read.
ByteWasRead == out.n = 1 => out.unit # Garbage
=============================================================================
