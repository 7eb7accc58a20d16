--------------------- MODULE DecompressingSource_proofs ---------------------
(***************************************************************************)
(* What the four decompressing sources keep for every stream, every place  *)
(* its blocks end at and every way Resume can go wrong: their offsets stay *)
(* in step, and every checkpoint they emit can be resumed.                 *)
(***************************************************************************)
EXTENDS DecompressingSource, WellFoundedInduction, TLAPS

Mem == [in : [offset : 0 .. InSize, want : BOOLEAN], sr : Reader,
        pending : {NoPending} \cup 0 .. InSize, offset : 0 .. OutSize]

\* The state of a source that may be read: its decompressor has put out no more
\* than its input gives, and an inner checkpoint it waits with is behind it.
Ready(m) ==
  /\ m.sr.state \in {"good", "failed"}
  /\ m.sr.want => m.pending \in 0 .. m.sr.r
  /\ m.sr.state = "good" =>
       /\ m.in.offset = m.sr.r
       /\ m.offset = m.sr.w
       /\ m.sr.w <= Yield[m.sr.r]
       /\ m.sr.want => m.pending < m.sr.r

\* A checkpoint pairs a block end with all the output before it and an inner
\* checkpoint from before it.
Usable(c) ==
  /\ c \in Checkpoint
  /\ c.r \in BlockEnds /\ c.inner < c.r
  /\ c.w = Yield[c.r] /\ c.offset = c.w

\* An inner source wants a save only of somebody, in a program that keeps to
\* the order of source.go.
SpeaksTo(m) == ~early /\ m.sr.state = "none" => ~m.in.want

\* A source that has just stopped at a block end: the next stop is at another.
AtBlockEnd(m) ==
  /\ m.sr.state = "good" /\ ~m.sr.want
  /\ m.sr.r \in BlockEnds /\ m.sr.w = Yield[m.sr.r]

\* Nothing is left to read, or nothing can be.
Ended(m) == m.sr.state = "failed" \/ m.offset = OutSize

\* n is what a read has left of m: it has handed over output, else taken input,
\* else it has served the save that stopped it.
Further(m, n) ==
  \/ m.offset < n.offset
  \/ /\ m.offset = n.offset
     /\ m.sr.r < n.sr.r \/ (m.sr.r = n.sr.r /\ m.sr.want /\ ~n.sr.want)

\* The next read gets to another place, or to nowhere.
Rests(m) == m.sr.state = "good" => AtBlockEnd(m) \/ m.sr.r = InSize

\* No block is empty: there is output between any two block ends.
BlocksYield == \A q, r \in BlockEnds : q < r => Yield[q] < Yield[r]

StepInv ==
  /\ TypeOK
  /\ usable => Ready(mem)
  /\ \A c \in ckpts : Usable(c)
  /\ SpeaksTo(mem)

-----------------------------------------------------------------------------
LEMMA MinInSet ==
  ASSUME NEW S \in SUBSET Nat, S # {}
  PROVE  Min(S) \in S /\ \A y \in S : Min(S) <= y
<1> DEFINE R == {ss \in Nat \X Nat : ss[1] < ss[2]}
<1>1. IsWellFoundedOn(R, Nat)
  BY NatLessThanWellFounded DEF OpToRel
<1>2. PICK x \in S : \A y \in S : ~(<<y, x>> \in R)
  BY <1>1, WFMin
<1>3. \A y \in S : x <= y
  <2> SUFFICES ASSUME NEW y \in S, y < x PROVE FALSE
    OBVIOUS
  <2>1. <<y, x>> \in Nat \X Nat /\ <<y, x>>[1] = y /\ <<y, x>>[2] = x
    OBVIOUS
  <2>2. <<y, x>>[1] < <<y, x>>[2]
    BY <2>1
  <2>3. <<y, x>> \in R
    BY <2>1, <2>2
  <2> QED BY <1>2, <2>3
<1> QED BY <1>3 DEF Min

\* More input never gives less output: the first place where it did would come
\* after one where it did not.
LEMMA YieldGrows ==
  ASSUME NEW r \in 0 .. InSize, NEW q \in 0 .. InSize, r <= q
  PROVE  Yield[r] \in Nat /\ Yield[q] \in Nat /\ Yield[r] <= Yield[q]
<1>1. InSize \in Nat /\ \A i \in 0 .. InSize : Yield[i] \in Nat
  BY ConstantsAssumption
<1> DEFINE S == {i \in 0 .. InSize : r <= i /\ Yield[i] < Yield[r]}
<1>2. S = {}
  <2> SUFFICES ASSUME S # {} PROVE FALSE
    OBVIOUS
  <2>1. S \in SUBSET Nat
    OBVIOUS
  <2>2. PICK i \in S : \A j \in S : i <= j
    BY <2>1, MinInSet
  <2>3. i \in 0 .. InSize /\ r <= i /\ Yield[i] < Yield[r] /\ i # r
    BY <2>2, <1>1
  <2>4. i - 1 \in 0 .. InSize /\ r <= i - 1 /\ i - 1 \notin S /\ i \in 1 .. InSize
    BY <1>1, <2>2, <2>3
  <2>5. Yield[i - 1] >= Yield[r] /\ Yield[i - 1] <= Yield[i]
    BY <1>1, <2>4, ConstantsAssumption
  <2> QED BY <1>1, <2>3, <2>4, <2>5
<1>3. q \notin S
  BY <1>2
<1> HIDE DEF S
<1>4. ~(Yield[q] < Yield[r])
  BY <1>3 DEF S
<1> QED BY <1>1, <1>4

LEMMA OutSizeFacts ==
  /\ OutSize \in Nat /\ InSize \in Nat
  /\ \A r \in 0 .. InSize : Yield[r] \in 0 .. OutSize
  BY YieldGrows, ConstantsAssumption DEF OutSize

\* What a checkpoint says it will resume at is where its decompressor is.
LEMMA CodecFacts ==
  ASSUME codec \in Codecs
  PROVE  /\ HeaderUnits \in {0, 1}
         /\ \A c : c.offset = c.w => ReportedOffset(c) = c.w
         /\ \A p : PendingAfterSave(p) \in {NoPending, p}
         /\ \A sr : ReadersAfterFailure(sr) \subseteq {NoReader, sr}
<1>1. codec \in {"flate", "gzip", "bzip2", "brotli"}
  BY ConstantsAssumption
<1>2. HeaderUnits \in {0, 1}
  BY <1>1 DEF HeaderUnits, FlateHeader, GzipHeader, Bzip2Header, BrotliHeader
<1>3. ASSUME NEW c, c.offset = c.w PROVE ReportedOffset(c) = c.w
  BY <1>1, <1>3 DEF ReportedOffset, FlateOffset, GzipOffset, Bzip2Offset, BrotliOffset
<1>4. ASSUME NEW p PROVE PendingAfterSave(p) \in {NoPending, p}
  BY <1>1 DEF PendingAfterSave, FlatePending, GzipPending, Bzip2Pending, BrotliPending
<1>5. ASSUME NEW sr PROVE ReadersAfterFailure(sr) \subseteq {NoReader, sr}
  BY <1>1 DEF ReadersAfterFailure, GzipReaderAfterFailure, BrotliReaderAfterFailure
<1> QED BY <1>2, <1>3, <1>4, <1>5

-----------------------------------------------------------------------------
(***************************************************************************)
(* What the operators do to the state of a source.                         *)
(***************************************************************************)
LEMMA MemFields ==
  ASSUME NEW m \in Mem
  PROVE  /\ m.in \in [offset : 0 .. InSize, want : BOOLEAN]
         /\ m.in.offset \in 0 .. InSize /\ m.in.want \in BOOLEAN
         /\ m.sr \in Reader
         /\ m.sr.state \in {"none", "good", "garbled", "failed"}
         /\ m.sr.r \in 0 .. InSize /\ m.sr.w \in 0 .. OutSize /\ m.sr.want \in BOOLEAN
         /\ m.pending \in {NoPending} \cup 0 .. InSize /\ m.offset \in 0 .. OutSize
<1>1. m.in \in [offset : 0 .. InSize, want : BOOLEAN] /\ m.sr \in Reader
  BY DEF Mem
<1> QED BY <1>1 DEF Mem, Reader

\* The inner source, read forward by a loop that tried to save first.
LEMMA InnerTaken ==
  ASSUME NEW S, NEW i \in [offset : S, want : BOOLEAN], NEW want, NEW k
  PROVE  [[i EXCEPT !.want = want] EXCEPT !.offset = k] = [offset |-> k, want |-> want]
<1> DEFINE t == [i EXCEPT !.want = want]
<1>1. t = [offset |-> i.offset, want |-> want]
  OBVIOUS
<1> HIDE DEF t
<1>2. [t EXCEPT !.offset = k] = [offset |-> k, want |-> want]
  BY <1>1
<1> QED BY <1>2 DEF t

LEMMA TakenFrom ==
  ASSUME NEW m \in Mem, NEW k, NEW sr, NEW p,
         OnSave(m) = [in |-> m.in, sr |-> sr, pending |-> p, offset |-> m.offset]
  PROVE  Take(m, k) = [in |-> [offset |-> m.in.offset + k, want |-> FALSE], sr |-> sr,
                       pending |-> p, offset |-> m.offset]
<1> DEFINE i == m.in
           o == OnSave(m)
           at == m.in.offset + k
           taken == [[i EXCEPT !.want = FALSE] EXCEPT !.offset = at]
<1>1. i \in [offset : 0 .. InSize, want : BOOLEAN]
  BY MemFields
<1>2. Take(m, k) = [o EXCEPT !.in.want = FALSE, !.in.offset = at]
  BY DEF Take
<1>3. o = [in |-> i, sr |-> sr, pending |-> p, offset |-> m.offset]
  OBVIOUS
<1> HIDE DEF i, o, at
<1>4. taken = [offset |-> at, want |-> FALSE]
  BY <1>1, InnerTaken
<1>5. Take(m, k) = [o EXCEPT !.in = taken]
  BY <1>2, <1>3
<1> HIDE DEF taken
<1>6. Take(m, k) = [in |-> taken, sr |-> sr, pending |-> p, offset |-> m.offset]
  BY <1>3, <1>5
<1> QED BY <1>4, <1>6 DEF at

LEMMA TakeFacts ==
  ASSUME NEW m \in Mem, NEW k \in Nat, m.in.offset + k <= InSize
  PROVE  /\ Take(m, k) \in Mem
         /\ Take(m, k).in = [offset |-> m.in.offset + k, want |-> FALSE]
         /\ Take(m, k).in.offset = m.in.offset + k /\ Take(m, k).in.want = FALSE
         /\ Take(m, k).offset = m.offset
         /\ Take(m, k).sr.state = m.sr.state
         /\ Take(m, k).sr.r = m.sr.r /\ Take(m, k).sr.w = m.sr.w
         /\ InnerEmits(m) => Take(m, k).sr.want /\ Take(m, k).pending = m.in.offset
         /\ ~InnerEmits(m) => Take(m, k).sr = m.sr /\ Take(m, k).pending = m.pending
<1> DEFINE i == [offset |-> m.in.offset + k, want |-> FALSE]
           sr == [state |-> m.sr.state, r |-> m.sr.r, w |-> m.sr.w, want |-> TRUE]
<1>1. i \in [offset : 0 .. InSize, want : BOOLEAN] /\ sr \in Reader
  BY MemFields, OutSizeFacts DEF Reader
<1>2. CASE InnerEmits(m)
  <2>1. OnSave(m) = [in |-> m.in, sr |-> sr, pending |-> m.in.offset, offset |-> m.offset]
    BY <1>2 DEF OnSave, Mem, Reader
  <2>2. Take(m, k) = [in |-> i, sr |-> sr, pending |-> m.in.offset, offset |-> m.offset]
    BY <2>1, TakenFrom
  <2> QED BY <1>1, <1>2, <2>2, MemFields DEF Mem
<1>3. CASE ~InnerEmits(m)
  <2>1. OnSave(m) = m
    BY <1>3 DEF OnSave
  <2>2. Take(m, k) = [in |-> i, sr |-> m.sr, pending |-> m.pending, offset |-> m.offset]
    BY <2>1, TakenFrom DEF Mem
  <2> QED BY <1>1, <1>3, <2>2, MemFields DEF Mem
<1> QED BY <1>2, <1>3

LEMMA InnerAtFacts ==
  ASSUME NEW m \in Mem, NEW offset \in 0 .. InSize
  PROVE  /\ InnerAt(m, offset) \in Mem
         /\ InnerAt(m, offset).in = [offset |-> offset, want |-> m.in.want]
         /\ InnerAt(m, offset).in.offset = offset
         /\ InnerAt(m, offset).in.want = m.in.want
         /\ InnerAt(m, offset).sr = m.sr
<1> DEFINE i == [offset |-> offset, want |-> m.in.want]
<1>1. i \in [offset : 0 .. InSize, want : BOOLEAN]
  BY MemFields
<1>2. InnerAt(m, offset) = [in |-> i, sr |-> m.sr, pending |-> m.pending,
                            offset |-> m.offset]
  BY DEF InnerAt, Mem
<1> QED BY <1>1, <1>2, MemFields DEF Mem

\* Resuming from a checkpoint always reads the inner source, which thereby
\* forgets a save that was wanted before.
LEMMA LandedFacts ==
  ASSUME NEW m \in Mem, NEW c, Usable(c), NEW from, from = c.inner \/ from = 0
  PROVE  /\ from \in 0 .. InSize /\ from < c.r /\ c.r \in 0 .. InSize
         /\ Landed(m, c, from) \in Mem
         /\ Landed(m, c, from).in.offset = c.r /\ Landed(m, c, from).in.want = FALSE
<1>1. from \in 0 .. InSize /\ from < c.r /\ c.r \in 0 .. InSize
  BY OutSizeFacts DEF Usable, Checkpoint
<1> DEFINE s == InnerAt(m, from)
<1>2. s \in Mem /\ s.in.offset = from
  BY <1>1, InnerAtFacts
<1>3. c.r - from \in Nat /\ from + (c.r - from) = c.r
  BY <1>1, OutSizeFacts
<1> HIDE DEF s
<1>4. s.in.offset + (c.r - from) = c.r /\ c.r <= InSize
  BY <1>1, <1>2, <1>3
<1>5. /\ Take(s, c.r - from) \in Mem
      /\ Take(s, c.r - from).in.offset = c.r /\ Take(s, c.r - from).in.want = FALSE
  <2> DEFINE k == c.r - from
  <2>1. k \in Nat /\ s \in Mem /\ s.in.offset + k = c.r /\ s.in.offset + k <= InSize
    BY <1>2, <1>3, <1>4
  <2> HIDE DEF k
  <2>2. Take(s, k) \in Mem /\ Take(s, k).in.offset = c.r /\ Take(s, k).in.want = FALSE
    BY <2>1, TakeFacts
  <2> QED BY <2>2 DEF k
<1> QED BY <1>1, <1>5 DEF Landed, s

LEMMA ReopenedFacts ==
  ASSUME codec \in Codecs, NEW m \in Mem, NEW c, Usable(c), m.in.offset = c.r
  PROVE  /\ Reopened(m, c) \in Mem /\ Ready(Reopened(m, c))
         /\ AtBlockEnd(Reopened(m, c)) /\ Reopened(m, c).offset = c.offset
<1>1. ReportedOffset(c) = c.w
  BY CodecFacts DEF Usable
<1>2. /\ c.w \in 0 .. OutSize /\ c.r \in 0 .. InSize /\ c.w = Yield[c.r]
  BY DEF Usable, Checkpoint
<1> DEFINE sr == [state |-> "good", r |-> c.r, w |-> c.w, want |-> FALSE]
<1>3. Reopened(m, c) = [in |-> m.in, sr |-> sr, pending |-> m.pending, offset |-> c.w]
  <2>1. sr = [state |-> IF m.in.offset = c.r THEN "good" ELSE "garbled",
              r |-> c.r, w |-> c.w, want |-> FALSE]
    OBVIOUS
  <2>2. Reopened(m, c) = [m EXCEPT !.sr = sr, !.offset = c.w]
    BY <1>1, <2>1 DEF Reopened
  <2> HIDE DEF sr
  <2> QED BY <2>2 DEF Mem
<1>4. sr \in Reader
  BY <1>2 DEF Reader
<1>5. Reopened(m, c) \in Mem
  BY <1>2, <1>3, <1>4, MemFields DEF Mem
<1>6. c.w <= Yield[c.r]
  BY <1>2, OutSizeFacts
<1>7. c.r \in BlockEnds /\ c.offset = c.w
  BY DEF Usable
<1> QED BY <1>2, <1>3, <1>5, <1>6, <1>7 DEF Ready, AtBlockEnd

LEMMA OpenedFacts ==
  ASSUME codec \in Codecs, NEW m \in Mem, m.in.offset = 0
  PROVE  Opened(m) \in Mem /\ Ready(Opened(m)) /\ Opened(m).offset = 0
<1> DEFINE t == IF HeaderUnits > 0 THEN Take(m, HeaderUnits) ELSE m
<1>1. HeaderUnits \in {0, 1} /\ 1 <= InSize
  BY CodecFacts, ConstantsAssumption
<1>2. t \in Mem /\ t.in.offset = HeaderUnits
  <2>1. CASE HeaderUnits = 0
    BY <2>1
  <2>2. CASE HeaderUnits = 1
    <3>1. 1 \in Nat /\ m.in.offset + 1 <= InSize
      BY <1>1
    <3>2. Take(m, 1) \in Mem /\ Take(m, 1).in.offset = m.in.offset + 1
      BY <3>1, TakeFacts
    <3> QED BY <2>2, <3>2
  <2> QED BY <1>1, <2>1, <2>2
<1> DEFINE sr == [state |-> "good", r |-> HeaderUnits, w |-> 0, want |-> FALSE]
<1>3. Opened(m) = [t EXCEPT !.sr = sr, !.offset = 0]
  BY DEF Opened
<1> HIDE DEF t
<1>4. Opened(m) = [in |-> t.in, sr |-> sr, pending |-> t.pending, offset |-> 0]
  BY <1>2, <1>3 DEF Mem
<1>5. sr \in Reader /\ 0 \in 0 .. OutSize
  BY <1>1, OutSizeFacts DEF Reader
<1>6. 0 <= Yield[HeaderUnits]
  BY <1>1, OutSizeFacts
<1> QED BY <1>2, <1>4, <1>5, <1>6, MemFields DEF Mem, Ready

-----------------------------------------------------------------------------
(***************************************************************************)
(* Resume, in every way it can go.                                         *)
(***************************************************************************)
LEMMA FreshFacts ==
  /\ Fresh \in Mem /\ Fresh.in.want = FALSE
  /\ NoReader \in Reader /\ NoReader.state = "none"
<1>1. NoReader \in Reader /\ NoReader.state = "none"
  BY OutSizeFacts DEF NoReader, Reader
<1>2. Fresh.in = [offset |-> 0, want |-> FALSE] /\ Fresh.sr = NoReader
  BY DEF Fresh
<1>3. Fresh.in.want = FALSE /\ [offset |-> 0, want |-> FALSE] \in [offset : 0 .. InSize, want : BOOLEAN]
  BY <1>2, OutSizeFacts
<1>4. Fresh \in Mem
  BY <1>1, <1>3, OutSizeFacts DEF Fresh, Mem
<1> QED BY <1>1, <1>3, <1>4

LEMMA QuietFacts ==
  ASSUME NEW res \in {"ok", "eof", "error", "panic"}
  PROVE  /\ Quiet(res) \in [at : 0 .. OutSize, unit : {Garbage} \cup 0 .. OutSize,
                            n : Nat, res : {"ok", "eof", "error", "panic"}]
         /\ Quiet(res).res = res
  BY OutSizeFacts DEF Quiet

LEMMA InitStepInv == Init => StepInv
<1> SUFFICES ASSUME Init PROVE StepInv
  OBVIOUS
<1>1. mem \in Mem /\ mem.in.want = FALSE
  BY FreshFacts DEF Init
<1>2. TypeOK
  BY <1>1, QuietFacts DEF Init, TypeOK, Mem
<1> QED BY <1>1, <1>2 DEF Init, StepInv, SpeaksTo

LEMMA GoesKeeps ==
  ASSUME StepInv, NEW m \in Mem, NEW use \in BOOLEAN, NEW res \in {"ok", "error"},
         Goes(m, use, res), UNCHANGED <<codec, ssc, early, ckpts>>,
         use => Ready(m), SpeaksTo(m)
  PROVE  StepInv' /\ out'.res # "panic"
<1>1. mem' = m /\ usable' = use /\ out' = Quiet(res)
  BY DEF Goes
<1>2. TypeOK'
  BY <1>1, QuietFacts DEF StepInv, TypeOK, Mem
<1> QED BY <1>1, <1>2, QuietFacts DEF StepInv, SpeaksTo

LEMMA RestartKeeps ==
  ASSUME StepInv, NEW res \in {"ok", "panic"}, Restart(res)
  PROVE  StepInv' /\ out'.res = res
<1>1. mem' = Fresh /\ usable' = FALSE /\ out' = Quiet(res)
  BY DEF Restart, Goes
<1>2. ssc' = FALSE /\ early' = FALSE /\ UNCHANGED <<codec, ckpts>>
  BY DEF Restart
<1>3. TypeOK'
  BY <1>1, <1>2, QuietFacts, FreshFacts DEF StepInv, TypeOK, Mem
<1> QED BY <1>1, <1>2, <1>3, QuietFacts, FreshFacts DEF StepInv, SpeaksTo

LEMMA StartOverKeeps ==
  ASSUME StepInv, NEW m \in Mem, SpeaksTo(m), StartOver(m)
  PROVE  StepInv' /\ (out'.res = "panic" => early)
<1> DEFINE s == InnerAt(m, 0)
<1>1. s \in Mem /\ s.in.offset = 0 /\ s.in.want = m.in.want /\ s.sr = m.sr
  <2>1. 0 \in 0 .. InSize
    BY OutSizeFacts
  <2> QED BY <2>1, InnerAtFacts
<1>2. codec \in Codecs
  BY DEF StepInv, TypeOK
<1>3. CASE HeaderUnits > 0 /\ OnSavePanics(s) /\ Restart("panic")
  <2>1. early
    BY <1>1, <1>3 DEF OnSavePanics, InnerEmits, SpeaksTo
  <2> QED BY <1>3, <2>1, RestartKeeps
<1> HIDE DEF s
<1>4. CASE Goes(Opened(s), TRUE, "ok") /\ UNCHANGED <<codec, ssc, early, ckpts>>
  <2>1. Opened(s) \in Mem /\ Ready(Opened(s))
    BY <1>1, <1>2, OpenedFacts
  <2>2. SpeaksTo(Opened(s))
    BY <2>1 DEF Ready, SpeaksTo
  <2> QED BY <1>4, <2>1, <2>2, GoesKeeps
<1>5. ASSUME NEW sr \in ReadersAfterFailure(s.sr),
             Goes([Take(s, 0) EXCEPT !.sr = sr], FALSE, "error"),
             UNCHANGED <<codec, ssc, early, ckpts>>
      PROVE  StepInv' /\ out'.res # "panic"
  <2> DEFINE t == Take(s, 0)
             u == [t EXCEPT !.sr = sr]
  <2>1. s.in.offset + 0 <= InSize
    BY <1>1, OutSizeFacts
  <2>2. t \in Mem /\ t.in.want = FALSE
    <3>1. 0 \in Nat
      OBVIOUS
    <3> QED BY <1>1, <2>1, <3>1, TakeFacts
  <2>3. sr \in Reader
    BY <1>1, <1>2, <1>5, CodecFacts, FreshFacts, MemFields
  <2>4. Goes(u, FALSE, "error")
    BY <1>5
  <2> HIDE DEF t
  <2>5. u = [in |-> t.in, sr |-> sr, pending |-> t.pending, offset |-> t.offset]
    BY <2>2 DEF Mem
  <2> HIDE DEF u
  <2>6. u \in Mem /\ u.in.want = FALSE
    BY <2>2, <2>3, <2>5, MemFields DEF Mem
  <2>7. SpeaksTo(u)
    BY <2>6 DEF SpeaksTo
  <2> QED BY <1>5, <2>4, <2>6, <2>7, GoesKeeps
<1>6. CASE Goes(m, FALSE, "error") /\ UNCHANGED <<codec, ssc, early, ckpts>>
  BY <1>6, GoesKeeps
<1> QED BY <1>3, <1>4, <1>5, <1>6 DEF StartOver, s

LEMMA ResumeKeeps ==
  ASSUME StepInv, Resume
  PROVE  StepInv' /\ (out'.res = "panic" => early)
<1>1. codec \in Codecs /\ mem \in Mem /\ SpeaksTo(mem) /\ \A c \in ckpts : Usable(c)
  BY DEF StepInv, TypeOK, Mem
<1>2. CASE ResumeFromStart
  BY <1>1, <1>2, StartOverKeeps DEF ResumeFromStart
<1>3. CASE ResumeFails
  <2>1. PICK c \in ckpts, offset \in 0 .. InSize, m \in {mem, Take(mem, 0)} :
          Goes(InnerAt(m, offset), FALSE, "error")
    BY <1>3 DEF ResumeFails
  <2>2. mem.in.offset + 0 <= InSize
    BY <1>1, MemFields, OutSizeFacts
  <2>3. 0 \in Nat /\ Take(mem, 0) \in Mem /\ Take(mem, 0).in.want = FALSE
    BY <1>1, <2>2, TakeFacts
  <2>4. SpeaksTo(Take(mem, 0))
    BY <2>3 DEF SpeaksTo
  <2>5. m \in Mem /\ SpeaksTo(m)
    BY <1>1, <2>3, <2>4
  <2>6. /\ InnerAt(m, offset) \in Mem /\ InnerAt(m, offset).in.want = m.in.want
        /\ InnerAt(m, offset).sr = m.sr
    BY <2>5, InnerAtFacts
  <2>7. SpeaksTo(InnerAt(m, offset))
    BY <2>5, <2>6 DEF SpeaksTo
  <2> QED BY <1>3, <2>1, <2>6, <2>7, GoesKeeps DEF ResumeFails
<1>4. ASSUME NEW c \in ckpts, NEW from \in {c.inner, 0}, ResumeFromCheckpoint(c, from)
      PROVE  StepInv' /\ (out'.res = "panic" => early)
  <2> DEFINE m == Landed(mem, c, from)
             u == [m EXCEPT !.sr = NoReader]
  <2>1. from \in 0 .. InSize /\ m \in Mem /\ m.in.offset = c.r /\ m.in.want = FALSE
    <3>1. mem \in Mem /\ Usable(c)
      BY <1>1
    <3>2. from = c.inner \/ from = 0
      BY <1>4
    <3> QED BY <3>1, <3>2, LandedFacts
  <2>2. CASE OnSavePanics(InnerAt(mem, from)) /\ Restart("panic")
    <3>0. /\ InnerAt(mem, from).in.want = mem.in.want
          /\ InnerAt(mem, from).sr = mem.sr
      BY <1>1, <2>1, InnerAtFacts
    <3>1. early
      BY <1>1, <2>2, <3>0 DEF OnSavePanics, InnerEmits, SpeaksTo
    <3> QED BY <2>2, <3>1, RestartKeeps
  <2> HIDE DEF m
  <2>3. CASE Goes(Reopened(m, c), TRUE, "ok") /\ UNCHANGED <<codec, ssc, early, ckpts>>
    <3>1. Reopened(m, c) \in Mem /\ Ready(Reopened(m, c))
      BY <1>1, <2>1, ReopenedFacts
    <3>2. SpeaksTo(Reopened(m, c))
      BY <3>1 DEF Ready, SpeaksTo
    <3> QED BY <2>3, <3>1, <3>2, GoesKeeps
  <2>4. CASE StartOver(u)
    <3>1. u = [in |-> m.in, sr |-> NoReader, pending |-> m.pending, offset |-> m.offset]
      BY <2>1 DEF Mem
    <3> HIDE DEF u
    <3>2. u \in Mem /\ u.in.want = FALSE
      BY <2>1, <3>1, FreshFacts, MemFields DEF Mem
    <3>3. SpeaksTo(u)
      BY <3>2 DEF SpeaksTo
    <3> QED BY <2>4, <3>2, <3>3, StartOverKeeps
  <2> QED BY <1>4, <2>1, <2>2, <2>3, <2>4 DEF ResumeFromCheckpoint, m
<1> QED BY <1>2, <1>3, <1>4 DEF Resume

-----------------------------------------------------------------------------
(***************************************************************************)
(* Read: every outcome leaves the source in step, or failed.               *)
(***************************************************************************)
LEMMA PullFacts ==
  ASSUME NEW m \in Mem, Ready(m), m.sr.state = "good",
         NEW k \in Nat, m.sr.r + k <= InSize
  PROVE  /\ Pull(m, k) \in Mem
         /\ Pull(m, k).in.offset = m.sr.r + k /\ Pull(m, k).offset = m.sr.w
         /\ Pull(m, k).sr.state = "good"
         /\ Pull(m, k).sr.r = m.sr.r + k /\ Pull(m, k).sr.w = m.sr.w
         /\ Pull(m, k).sr.want => Pull(m, k).pending \in 0 .. m.sr.r
         /\ (k > 0 /\ Pull(m, k).sr.want) => Pull(m, k).pending < m.sr.r + k
         /\ m.sr.want \/ InnerEmits(m) => Pull(m, k).sr.want
<1> DEFINE t == Take(m, k)
           p == Pull(m, k)
           sr == [state |-> "good", r |-> m.sr.r + k, w |-> m.sr.w, want |-> t.sr.want]
<1>1. /\ m.in.offset = m.sr.r /\ m.offset = m.sr.w
      /\ m.sr.r \in 0 .. InSize
      /\ m.sr.want => m.pending \in 0 .. m.sr.r
  BY MemFields DEF Ready
<1>2. m.in.offset + k <= InSize
  BY <1>1
<1>3. /\ t \in Mem /\ t.in.offset = m.in.offset + k /\ t.offset = m.offset
      /\ t.sr.state = "good" /\ t.sr.w = m.sr.w
      /\ InnerEmits(m) => t.pending = m.in.offset /\ t.sr.want
      /\ ~InnerEmits(m) => t.sr = m.sr /\ t.pending = m.pending
  BY <1>2, TakeFacts
<1>4. p = [t EXCEPT !.sr.r = m.sr.r + k, !.sr.state = "good"]
  BY <1>1, <1>3 DEF Pull
<1> HIDE DEF t, p
<1>5. p = [in |-> t.in, sr |-> sr, pending |-> t.pending, offset |-> t.offset]
  <2> DEFINE u == [t EXCEPT !.sr.r = m.sr.r + k]
  <2>1. t.sr \in Reader
    BY <1>3, MemFields
  <2>2. [t.sr EXCEPT !.r = m.sr.r + k] = [state |-> t.sr.state, r |-> m.sr.r + k,
                                         w |-> t.sr.w, want |-> t.sr.want]
    BY <2>1 DEF Reader
  <2>3. u = [in |-> t.in, sr |-> sr, pending |-> t.pending, offset |-> t.offset]
    BY <1>3, <2>2 DEF Mem
  <2>4. p = [u EXCEPT !.sr.state = "good"]
    BY <1>4
  <2> HIDE DEF u
  <2>5. [sr EXCEPT !.state = "good"] = sr
    OBVIOUS
  <2> HIDE DEF sr
  <2> QED BY <2>3, <2>4, <2>5
<1>6. sr \in Reader
  BY <1>1, <1>3, MemFields, OutSizeFacts DEF Reader
<1>7. /\ sr.state = "good" /\ sr.r = m.sr.r + k /\ sr.w = m.sr.w /\ sr.want = t.sr.want
  OBVIOUS
<1> HIDE DEF sr
<1>8. p \in Mem
  BY <1>3, <1>5, <1>6, MemFields DEF Mem
<1>9. ASSUME t.sr.want PROVE t.pending \in 0 .. m.sr.r
  <2>1. CASE InnerEmits(m)
    BY <1>1, <1>3, <2>1, OutSizeFacts
  <2>2. CASE ~InnerEmits(m)
    <3>1. t.sr.want = m.sr.want /\ t.pending = m.pending
      BY <1>3, <2>2
    <3> QED BY <1>1, <1>9, <3>1
  <2> QED BY <2>1, <2>2
<1>10. ASSUME k > 0, t.pending \in 0 .. m.sr.r PROVE t.pending < m.sr.r + k
  BY <1>1, <1>10, OutSizeFacts
<1> QED BY <1>1, <1>3, <1>5, <1>7, <1>8, <1>9, <1>10 DEF p

\* What one read may come to.
Outcome == [m : Mem, at : 0 .. OutSize, unit : {Garbage} \cup 0 .. OutSize, n : Nat,
            res : {"ok", "eof", "error"}, saved : SUBSET Checkpoint]

\* Of a source that was at offset o: what is handed over is what is there, and
\* what is saved is the offset itself. Nothing means a block end, or the end.
Sound(o, a) ==
  /\ a \in Outcome /\ Ready(a.m)
  /\ \A c \in a.saved : Usable(c) /\ c.offset = o
  /\ a.m.offset = o + a.n
  /\ a.n > 0 => a.at = o /\ a.unit = o /\ a.res = "ok"
  /\ a.n = 0 => Rests(a.m)

LEMMA EmptyHanded ==
  ASSUME NEW m \in Mem, Ready(m), NEW res \in {"ok", "eof", "error"},
         Rests(m)
  PROVE  Sound(m.offset, Result(m, 0, res))
<1> DEFINE unit == IF m.sr.state = "good" THEN m.sr.w ELSE Garbage
<1>1. m.offset - 0 = m.offset /\ m.sr.w - 0 = m.sr.w
  BY MemFields, OutSizeFacts
<1>2. Result(m, 0, res) = [m |-> m, at |-> m.offset, unit |-> unit, n |-> 0,
                           res |-> res, saved |-> {}]
  BY <1>1 DEF Result
<1>3. /\ unit \in {Garbage} \cup 0 .. OutSize /\ m.offset \in 0 .. OutSize
      /\ m.offset = m.offset + 0
  BY MemFields, OutSizeFacts
<1> HIDE DEF unit
<1> QED BY <1>2, <1>3 DEF Sound, Outcome

LEMMA SavedWith ==
  ASSUME NEW o, NEW a, Sound(o, a), NEW C, \A c \in C : Usable(c) /\ c.offset = o
  PROVE  Sound(o, [a EXCEPT !.saved = C])
<1>1. C \in SUBSET Checkpoint
  BY DEF Usable
<1>2. [a EXCEPT !.saved = C] = [m |-> a.m, at |-> a.at, unit |-> a.unit, n |-> a.n,
                                res |-> a.res, saved |-> C]
  BY DEF Sound, Outcome
<1> QED BY <1>1, <1>2 DEF Sound, Outcome

\* A save asked for at the end of a block, with all the output before it handed
\* over: the checkpoint can be used.
LEMMA SaveSound ==
  ASSUME codec \in Codecs, NEW p \in Mem, Ready(p), p.sr.state = "good",
         p.sr.r \in BlockEnds, p.sr.w = Yield[p.sr.r], p.sr.want,
         NEW a \in ReadyToSave(p)
  PROVE  Sound(p.offset, a) /\ a.n = 0 /\ a.m.sr.r = p.sr.r /\ ~a.m.sr.want
<1> DEFINE m == [p EXCEPT !.sr.want = FALSE]
           sr == [state |-> "good", r |-> p.sr.r, w |-> p.sr.w, want |-> FALSE]
           c == CheckpointOf(m)
           s == [m EXCEPT !.pending = PendingAfterSave(m.pending)]
<1>1. m = [in |-> p.in, sr |-> sr, pending |-> p.pending, offset |-> p.offset]
  <2>1. \A b : [p.sr EXCEPT !.want = b] = [state |-> p.sr.state, r |-> p.sr.r,
                                          w |-> p.sr.w, want |-> b]
    BY MemFields DEF Reader
  <2>2. [p.sr EXCEPT !.want = FALSE] = sr
    BY <2>1
  <2>3. m = [p EXCEPT !.sr = [p.sr EXCEPT !.want = FALSE]]
    OBVIOUS
  <2> HIDE DEF sr, m
  <2>4. m = [p EXCEPT !.sr = sr]
    BY <2>2, <2>3
  <2> QED BY <2>4 DEF Mem
<1>2. /\ sr \in Reader /\ sr.state = "good" /\ sr.want = FALSE
      /\ sr.r = p.sr.r /\ sr.w = p.sr.w
  BY MemFields DEF Reader
<1>3. a \in {Result(m, 0, "ok")} \/
      /\ m.pending # NoPending
      /\ a \in {Result(m, 0, "error")} \cup
            {[b EXCEPT !.saved = {c}] :
               b \in {Result(s, 0, "ok"), Result(s, 0, "error"),
                      Result(Reopened(Landed(s, c, c.inner), c), 0, "ok")}}
  BY DEF ReadyToSave
<1>4. s = [in |-> p.in, sr |-> sr, pending |-> PendingAfterSave(p.pending), offset |-> p.offset]
  <2> HIDE DEF m, sr
  <2>1. m.pending = p.pending
    BY <1>1
  <2> QED BY <1>1, <2>1
<1>5. c = [offset |-> p.offset, inner |-> p.pending, r |-> p.sr.r, w |-> p.sr.w]
  BY <1>1, <1>2 DEF CheckpointOf
<1> HIDE DEF m, sr, c, s
<1>6. m \in Mem /\ Ready(m) /\ AtBlockEnd(m) /\ m.offset = p.offset
  BY <1>1, <1>2, MemFields DEF Mem, Ready, AtBlockEnd
<1>7. PendingAfterSave(p.pending) \in {NoPending} \cup 0 .. InSize
  BY CodecFacts, MemFields
<1>8. s \in Mem /\ Ready(s) /\ AtBlockEnd(s) /\ s.offset = p.offset
  BY <1>2, <1>4, <1>7, MemFields DEF Mem, Ready, AtBlockEnd
<1>9. Usable(c) /\ c.offset = p.offset
  <2>1. /\ p.offset = p.sr.w /\ p.pending \in 0 .. p.sr.r /\ p.pending < p.sr.r
        /\ p.sr.r \in 0 .. InSize /\ p.sr.w \in 0 .. OutSize
    BY MemFields DEF Ready
  <2>2. p.pending \in 0 .. InSize
    BY <2>1, OutSizeFacts
  <2> QED BY <1>5, <2>1, <2>2 DEF Usable, Checkpoint
<1>10. CASE a \in {Result(m, 0, "ok"), Result(m, 0, "error")}
  <2>1. a.n = 0 /\ a.m = m
    BY <1>10 DEF Result
  <2>2. a.m.sr.r = p.sr.r /\ ~a.m.sr.want
    BY <1>1, <1>2, <2>1
  <2> QED BY <1>6, <1>10, <2>1, <2>2, EmptyHanded DEF Rests
<1>11. ASSUME NEW b, b \in {Result(s, 0, "ok"), Result(s, 0, "error")} \/
                     b = Result(Reopened(Landed(s, c, c.inner), c), 0, "ok"),
             a = [b EXCEPT !.saved = {c}]
       PROVE Sound(p.offset, a) /\ a.n = 0 /\ a.m.sr.r = p.sr.r /\ ~a.m.sr.want
  <2>0. a.n = 0 /\ a.m = b.m
    BY <1>11 DEF Result
  <2>1. CASE b \in {Result(s, 0, "ok"), Result(s, 0, "error")}
    <3>1. Sound(p.offset, b)
      BY <1>8, <2>1, EmptyHanded DEF Rests
    <3>2. b.m.sr = sr
      BY <1>4, <2>1 DEF Result
    <3> QED BY <1>2, <1>9, <1>11, <2>0, <3>1, <3>2, SavedWith
  <2>2. CASE b = Result(Reopened(Landed(s, c, c.inner), c), 0, "ok")
    <3> DEFINE l == Landed(s, c, c.inner)
    <3>1. l \in Mem /\ l.in.offset = c.r
      BY <1>8, <1>9, LandedFacts
    <3> HIDE DEF l
    <3>2. /\ Reopened(l, c) \in Mem /\ Ready(Reopened(l, c))
          /\ AtBlockEnd(Reopened(l, c)) /\ Reopened(l, c).offset = p.offset
      BY <1>9, <3>1, ReopenedFacts
    <3>3. Sound(p.offset, b)
      BY <2>2, <3>2, EmptyHanded DEF l, Rests
    <3>4. b.m.sr.r = c.r /\ ~b.m.sr.want
      BY <2>2, <3>1, <3>2 DEF l, Result, Reopened, Mem
    <3> QED BY <1>5, <1>9, <1>11, <2>0, <3>3, <3>4, SavedWith
  <2> QED BY <1>11, <2>1, <2>2
<1> QED BY <1>3, <1>10, <1>11

LEMMA DeliverySound ==
  ASSUME NEW p \in Mem, Ready(p), p.sr.state = "good", NEW n \in Nat \ {0},
         p.sr.w + n <= Yield[p.sr.r]
  PROVE  Sound(p.offset, Result(Delivered(p, n), n, "ok"))
<1> DEFINE d == Delivered(p, n)
           sr == [state |-> "good", r |-> p.sr.r, w |-> p.sr.w + n, want |-> p.sr.want]
<1>1. /\ p.offset = p.sr.w /\ p.sr.w \in 0 .. OutSize /\ p.sr.r \in 0 .. InSize
      /\ Yield[p.sr.r] \in 0 .. OutSize
  BY MemFields, OutSizeFacts DEF Ready
<1>2. p.sr.w + n \in 0 .. OutSize /\ (p.sr.w + n) - n = p.sr.w
  BY <1>1, OutSizeFacts
<1>3. [p.sr EXCEPT !.w = @ + n] = sr
  BY MemFields DEF Reader
<1>4. d = [p EXCEPT !.sr = [p.sr EXCEPT !.w = @ + n], !.offset = @ + n]
  BY DEF Delivered
<1>5. /\ sr.state = "good" /\ sr.r = p.sr.r /\ sr.w = p.sr.w + n /\ sr.want = p.sr.want
      /\ sr \in Reader
  BY <1>2, MemFields DEF Reader
<1> HIDE DEF sr, d
<1>6. d = [in |-> p.in, sr |-> sr, pending |-> p.pending, offset |-> p.sr.w + n]
  BY <1>1, <1>3, <1>4 DEF Mem
<1>7. d \in Mem /\ Ready(d)
  BY <1>2, <1>5, <1>6, MemFields DEF Mem, Ready
<1>8. Result(d, n, "ok") = [m |-> d, at |-> p.sr.w, unit |-> p.sr.w, n |-> n,
                            res |-> "ok", saved |-> {}]
  BY <1>2, <1>5, <1>6 DEF Result
<1>9. Result(d, n, "ok") \in Outcome
  BY <1>1, <1>7, <1>8 DEF Outcome
<1>10. d.offset = p.offset + n
  BY <1>1, <1>6
<1> QED BY <1>1, <1>7, <1>8, <1>9, <1>10 DEF Sound, d

\* The stream breaks off after k more units of input.
LEMMA FailureSound ==
  ASSUME NEW p \in Mem, p.sr.want => p.pending \in 0 .. p.sr.r
  PROVE  Sound(p.offset, Result([p EXCEPT !.sr.state = "failed"], 0, "error"))
<1> DEFINE f == [p EXCEPT !.sr.state = "failed"]
           sr == [state |-> "failed", r |-> p.sr.r, w |-> p.sr.w, want |-> p.sr.want]
<1>1. [p.sr EXCEPT !.state = "failed"] = sr
  BY MemFields DEF Reader
<1>2. f = [p EXCEPT !.sr = [p.sr EXCEPT !.state = "failed"]]
  OBVIOUS
<1>3. sr.state = "failed" /\ sr.r = p.sr.r /\ sr.want = p.sr.want /\ sr \in Reader
  BY MemFields DEF Reader
<1> HIDE DEF f, sr
<1>4. f = [in |-> p.in, sr |-> sr, pending |-> p.pending, offset |-> p.offset]
  BY <1>1, <1>2 DEF Mem
<1>5. f \in Mem /\ Ready(f) /\ f.offset = p.offset
  BY <1>3, <1>4, MemFields DEF Mem, Ready
<1>6. Rests(f)
  BY <1>3, <1>4 DEF Rests
<1> QED BY <1>5, <1>6, EmptyHanded DEF f

\* A source that has just stopped at the end of a block does not stop again
\* before it has something to hand over, unless the next block is empty.
LEMMA ReadSound ==
  ASSUME codec \in Codecs, NEW m \in Mem, Ready(m), NEW len \in Nat \ {0},
         NEW a \in ReadResults(m, len)
  PROVE  /\ Sound(m.offset, a) /\ a.n \in 0 .. len
         /\ BlocksYield /\ Rests(m) /\ a.n = 0 => a.res # "ok"
         /\ Ended(a.m) \/ Further(m, a.m)
<1> DEFINE q == Min(Stops(m))
           p == IF q > m.sr.r THEN Pull(m, q - m.sr.r) ELSE m
           known == Yield[q] - m.sr.w
<1>1. CASE m.sr.state = "failed"
  <2>1. a = Result(m, 0, "error")
    BY <1>1 DEF ReadResults
  <2>2. a.n = 0 /\ a.res = "error" /\ a.m = m
    BY <2>1 DEF Result
  <2> QED BY <1>1, <2>1, <2>2, EmptyHanded DEF Rests, Ended
<1>2. CASE m.sr.state = "good"
  <2>1. /\ m.sr.r \in 0 .. InSize /\ m.sr.w \in 0 .. OutSize /\ m.in.offset = m.sr.r
        /\ m.offset = m.sr.w
    BY <1>2, MemFields DEF Ready
  <2>2. Stops(m) \in SUBSET Nat /\ Stops(m) \subseteq m.sr.r .. InSize /\ InSize \in Stops(m)
    BY <2>1, OutSizeFacts DEF Stops
  <2>3. q \in Stops(m) /\ q \in m.sr.r .. InSize
    BY <2>2, MinInSet
  <2>4. \/ known > 0 /\ \E n \in 1 .. Min({len, known}) : a = Result(Delivered(p, n), n, "ok")
        \/ ~(known > 0) /\ q \in BlockEnds /\ p.sr.want /\ a \in ReadyToSave(p)
        \/ /\ ~(known > 0) /\ ~(q \in BlockEnds /\ p.sr.want)
           /\ a = Result(p, 0, "eof")
        \/ \E k \in 0 .. q - m.sr.r - 1 :
              a = Result([Pull(m, k) EXCEPT !.sr.state = "failed"], 0, "error")
    BY <1>2 DEF ReadResults
  <2> HIDE DEF q
  <2>5. /\ p \in Mem /\ p.sr.state = "good" /\ p.sr.r = q /\ p.sr.w = m.sr.w /\ Ready(p)
        /\ p.offset = m.offset
        /\ m.sr.want \/ (q > m.sr.r /\ InnerEmits(m)) => p.sr.want
    <3>1. CASE q = m.sr.r
      BY <1>2, <2>1, <3>1
    <3>2. CASE q > m.sr.r
      <4> DEFINE k == q - m.sr.r
      <4>1. k \in Nat /\ k > 0 /\ m.sr.r + k = q /\ m.sr.r + k <= InSize /\ p = Pull(m, k)
        BY <2>1, <2>3, <3>2, OutSizeFacts
      <4> HIDE DEF k, p
      <4>2. /\ p \in Mem /\ p.in.offset = m.sr.r + k /\ p.offset = m.sr.w
            /\ p.sr.state = "good" /\ p.sr.r = m.sr.r + k /\ p.sr.w = m.sr.w
            /\ p.sr.want => p.pending \in 0 .. m.sr.r
            /\ p.sr.want => p.pending < m.sr.r + k
            /\ m.sr.want \/ InnerEmits(m) => p.sr.want
        BY <1>2, <4>1, PullFacts
      <4>3. m.sr.w <= Yield[m.sr.r] /\ Yield[m.sr.r] <= Yield[q]
            /\ Yield[q] \in Nat /\ Yield[m.sr.r] \in Nat
        BY <1>2, <2>1, <2>3, <3>2, YieldGrows, OutSizeFacts DEF Ready
      <4>4. m.sr.w <= Yield[q]
        BY <2>1, <4>3, OutSizeFacts
      <4>5. p.sr.want => p.pending \in 0 .. q
        BY <2>1, <2>3, <4>2, OutSizeFacts
      <4> QED BY <2>1, <4>1, <4>2, <4>4, <4>5 DEF Ready
    <3> QED BY <2>1, <2>3, <3>1, <3>2, OutSizeFacts
  <2>6. m.sr.w <= Yield[q] /\ Yield[q] \in 0 .. OutSize
    BY <2>1, <2>3, <2>5, OutSizeFacts DEF Ready
  <2>7. ASSUME known > 0, NEW n \in 1 .. Min({len, known}), a = Result(Delivered(p, n), n, "ok")
        PROVE Sound(m.offset, a) /\ a.n \in 0 .. len /\ a.n # 0 /\ Further(m, a.m)
    <3>1. known \in Nat
      BY <2>1, <2>6, <2>7, OutSizeFacts
    <3>2. {len, known} \in SUBSET Nat /\ {len, known} # {}
      BY <3>1
    <3>3. /\ Min({len, known}) \in {len, known} /\ Min({len, known}) <= known
          /\ Min({len, known}) <= len
      BY <3>2, MinInSet
    <3>4. n \in Nat \ {0} /\ n <= known /\ n <= len
      BY <2>7, <3>1, <3>3
    <3>5. m.sr.w + n <= Yield[q]
      BY <2>1, <2>6, <3>4, OutSizeFacts
    <3> HIDE DEF p
    <3>6. p.sr.w + n <= Yield[p.sr.r]
      BY <2>5, <3>5
    <3>7. a.n = n
      BY <2>7 DEF Result
    <3>8. Sound(m.offset, a)
      BY <2>5, <2>7, <3>4, <3>6, DeliverySound
    <3>9. Further(m, a.m)
      BY <2>1, <3>4, <3>7, <3>8, OutSizeFacts DEF Sound, Further
    <3> QED BY <3>4, <3>7, <3>8, <3>9
  <2>8. CASE ~(known > 0) /\ q \in BlockEnds /\ p.sr.want /\ a \in ReadyToSave(p)
    <3>1. m.sr.w = Yield[q]
      BY <2>1, <2>6, <2>8, OutSizeFacts
    <3>3. ~(BlocksYield /\ Rests(m))
      <4> SUFFICES ASSUME BlocksYield, Rests(m) PROVE FALSE
        OBVIOUS
      <4>0. AtBlockEnd(m)
        <5>1. m.sr.r # InSize
          <6> SUFFICES ASSUME m.sr.r = InSize PROVE FALSE
            OBVIOUS
          <6>1. q = InSize
            BY <2>1, <2>3, OutSizeFacts
          <6> QED BY <2>8, <6>1, OutSizeFacts, ConstantsAssumption
        <5> QED BY <1>2, <5>1 DEF Rests
      <4>1. q # m.sr.r
        BY <2>1, <2>8, <4>0 DEF AtBlockEnd
      <4>2. m.sr.r < q
        BY <2>1, <2>3, <4>1, OutSizeFacts
      <4>3. Yield[m.sr.r] < Yield[q] /\ m.sr.w = Yield[m.sr.r]
        BY <2>8, <4>0, <4>2 DEF AtBlockEnd, BlocksYield
      <4> QED BY <2>1, <3>1, <4>3, OutSizeFacts
    <3>4. q > m.sr.r \/ (q = m.sr.r /\ m.sr.want)
      BY <2>1, <2>3, <2>8, OutSizeFacts
    <3> HIDE DEF p
    <3>2. p.sr.r \in BlockEnds /\ p.sr.w = Yield[p.sr.r] /\ p.sr.want /\ a \in ReadyToSave(p)
      BY <2>5, <2>8, <3>1
    <3>5. Sound(m.offset, a) /\ a.n = 0 /\ a.m.sr.r = q /\ ~a.m.sr.want
      BY <2>5, <3>2, SaveSound
    <3>6. Further(m, a.m)
      BY <2>1, <3>4, <3>5, OutSizeFacts DEF Sound, Further
    <3> QED BY <2>8, <3>3, <3>5, <3>6
  <2>9. CASE /\ ~(known > 0) /\ ~(q \in BlockEnds /\ p.sr.want)
             /\ a = Result(p, 0, "eof")
    <3>1. a.n = 0 /\ a.res = "eof" /\ a.m = p
      BY <2>9 DEF Result
    <3>2. ~(Yield[q] > m.sr.w)
      BY <2>1, <2>6, <2>9, OutSizeFacts
    <3> HIDE DEF p
    <3>3. q = InSize
      BY <2>3, <2>5, <2>9, <3>2 DEF Stops
    <3>4. a.m.offset = OutSize
      BY <2>1, <2>5, <2>6, <3>1, <3>2, <3>3, OutSizeFacts DEF OutSize
    <3> QED BY <2>5, <2>9, <3>1, <3>3, <3>4, EmptyHanded DEF Rests, Ended
  <2>10. ASSUME NEW k \in 0 .. q - m.sr.r - 1,
                a = Result([Pull(m, k) EXCEPT !.sr.state = "failed"], 0, "error")
         PROVE Sound(m.offset, a) /\ a.n = 0 /\ a.res = "error" /\ Ended(a.m)
    <3> DEFINE f == Pull(m, k)
    <3>1. k \in Nat /\ m.sr.r + k <= InSize
      BY <2>1, <2>3, OutSizeFacts
    <3>2. /\ f \in Mem /\ f.sr.r = m.sr.r + k /\ (f.sr.want => f.pending \in 0 .. m.sr.r)
          /\ f.offset = m.offset
      BY <1>2, <2>1, <3>1, PullFacts
    <3>3. a = Result([f EXCEPT !.sr.state = "failed"], 0, "error")
      BY <2>10
    <3> HIDE DEF f
    <3>4. f.sr.want => f.pending \in 0 .. f.sr.r
      BY <2>1, <3>1, <3>2, OutSizeFacts
    <3>5. a.n = 0 /\ a.res = "error" /\ a.m.sr.state = "failed"
      BY <3>2, <3>3, MemFields DEF Result, Mem, Reader
    <3> QED BY <3>2, <3>3, <3>4, <3>5, FailureSound DEF Ended
  <2>11. 0 \in 0 .. len
    OBVIOUS
  <2> QED BY <2>4, <2>7, <2>8, <2>9, <2>10, <2>11
<1> QED BY <1>1, <1>2 DEF Ready

\* ReadByte may read twice; the state and the checkpoints are those of reads. It
\* says it was handed a byte when the last read gave no error.
LEMMA ReadByteSound ==
  ASSUME codec \in Codecs, NEW o \in Nat, NEW a, Sound(o, a), a.n \in 0 .. 1,
         NEW b \in ReadByteTakes(a)
  PROVE  /\ Sound(o, b) /\ b.n \in 0 .. 1
         /\ BlocksYield /\ b.res = "ok" => b.n = 1
<1>1. CASE a.n = 1
  BY <1>1 DEF ReadByteTakes
<1>2. CASE a.n = 0
  <2>0. a.n # 1
    BY <1>2
  <2>1. PICK r \in ReadResults(a.m, 1) :
          b = [r EXCEPT !.saved = a.saved \cup r.saved,
                        !.unit = IF r.n = 1 THEN r.unit ELSE Garbage]
    BY <2>0 DEF ReadByteTakes
  <2>2. /\ a.m \in Mem /\ Ready(a.m) /\ a.saved \in SUBSET Checkpoint
        /\ a.m.offset \in 0 .. OutSize
    BY MemFields DEF Sound, Outcome
  <2>3. a.m.offset = o
    BY <1>2, <2>2, OutSizeFacts DEF Sound
  <2>4. /\ Sound(o, r) /\ r.n \in 0 .. 1
        /\ BlocksYield /\ Rests(a.m) /\ r.n = 0 => r.res # "ok"
    <3>1. 1 \in Nat \ {0}
      OBVIOUS
    <3> QED BY <2>1, <2>2, <2>3, <3>1, ReadSound
  <2> DEFINE unit == IF r.n = 1 THEN r.unit ELSE Garbage
             saved == a.saved \cup r.saved
  <2>5. unit \in {Garbage} \cup 0 .. OutSize /\ (r.n > 0 => unit = r.unit)
    BY <2>4 DEF Sound, Outcome
  <2>6. saved \in SUBSET Checkpoint /\ \A c \in saved : Usable(c) /\ c.offset = o
    BY <2>2, <2>4 DEF Sound, Outcome
  <2>7. b = [r EXCEPT !.saved = saved, !.unit = unit]
    BY <2>1
  <2> HIDE DEF unit, saved
  <2>8. b = [m |-> r.m, at |-> r.at, unit |-> unit, n |-> r.n, res |-> r.res, saved |-> saved]
    BY <2>4, <2>7 DEF Sound, Outcome
  <2>9. Sound(o, b)
    BY <2>4, <2>5, <2>6, <2>8 DEF Sound, Outcome
  <2> QED BY <1>2, <2>4, <2>8, <2>9 DEF Sound
<1> QED BY <1>1, <1>2

LEMMA ReturnsKeeps ==
  ASSUME StepInv, NEW o, NEW a, Sound(o, a), NEW n \in Nat, Returns(a, n)
  PROVE  StepInv' /\ out'.res # "panic"
<1>1. /\ mem' = a.m /\ ckpts' = ckpts \cup a.saved
      /\ out' = [at |-> a.at, unit |-> a.unit, n |-> n, res |-> a.res]
      /\ UNCHANGED <<codec, ssc, usable, early>>
  BY DEF Returns
<1>2. /\ a.m \in Mem /\ Ready(a.m) /\ a.at \in 0 .. OutSize /\ a.res \in {"ok", "eof", "error"}
      /\ a.unit \in {Garbage} \cup 0 .. OutSize
      /\ a.saved \subseteq Checkpoint /\ \A c \in a.saved : Usable(c)
  BY DEF Sound, Outcome
<1>3. TypeOK'
  <2>1. out' \in [at : 0 .. OutSize, unit : {Garbage} \cup 0 .. OutSize, n : Nat,
                  res : {"ok", "eof", "error", "panic"}]
    BY <1>1, <1>2
  <2> QED BY <1>1, <1>2, <2>1 DEF StepInv, TypeOK, Mem
<1>4. SpeaksTo(mem)'
  BY <1>1, <1>2 DEF Ready, SpeaksTo
<1>5. \A c \in ckpts' : Usable(c)
  BY <1>1, <1>2 DEF StepInv
<1>6. out'.res = a.res
  BY <1>1
<1> QED BY <1>1, <1>2, <1>3, <1>4, <1>5, <1>6 DEF StepInv

LEMMA NextStepInv ==
  ASSUME StepInv, [Next]_vars
  PROVE  StepInv' /\ (out' # out /\ out'.res = "panic" => early)
<1>1. codec \in Codecs /\ mem \in Mem /\ (usable => Ready(mem))
  BY DEF StepInv, TypeOK, Mem
<1>2. CASE SetSourceSaveConsumer
  <2>1. TypeOK'
    BY <1>2, QuietFacts DEF SetSourceSaveConsumer, StepInv, TypeOK
  <2> QED BY <1>2, <2>1, QuietFacts DEF SetSourceSaveConsumer, StepInv, SpeaksTo
<1>3. CASE WantSave
  <2> DEFINE w == [mem EXCEPT !.in.want = TRUE]
             i == [offset |-> mem.in.offset, want |-> TRUE]
  <2>1. mem' = w /\ out' = Quiet("ok") /\ UNCHANGED <<codec, ssc, usable, ckpts>>
    BY <1>3 DEF WantSave
  <2>2. \A b : [mem.in EXCEPT !.want = b] = [offset |-> mem.in.offset, want |-> b]
    BY <1>1, MemFields
  <2>3. w = [mem EXCEPT !.in = [mem.in EXCEPT !.want = TRUE]]
    OBVIOUS
  <2>4. i \in [offset : 0 .. InSize, want : BOOLEAN] /\ i.offset = mem.in.offset
    BY <1>1, MemFields
  <2>5. [mem.in EXCEPT !.want = TRUE] = i
    BY <2>2
  <2> HIDE DEF w, i
  <2>6. w = [in |-> i, sr |-> mem.sr, pending |-> mem.pending, offset |-> mem.offset]
    BY <1>1, <2>3, <2>5 DEF Mem
  <2>7. w \in Mem /\ (Ready(mem) => Ready(w)) /\ w.sr = mem.sr
    BY <1>1, <2>4, <2>6, MemFields DEF Mem, Ready
  <2>8. TypeOK'
    BY <1>3, <2>1, <2>7, QuietFacts DEF WantSave, StepInv, TypeOK, Mem
  <2>9. ~early' => usable
    BY <1>3 DEF WantSave, StepInv, TypeOK
  <2>10. SpeaksTo(mem)'
    BY <1>1, <2>1, <2>7, <2>9 DEF Ready, SpeaksTo
  <2> QED BY <1>1, <2>1, <2>7, <2>8, <2>10, QuietFacts DEF StepInv
<1>4. CASE Resume
  BY <1>4, ResumeKeeps
<1>5. ASSUME NEW len \in ReadLens, Read(len)
      PROVE  StepInv' /\ out'.res # "panic"
  <2>1. PICK a \in ReadResults(mem, len) : Returns(a, a.n)
    BY <1>5 DEF Read
  <2>2. len \in Nat \ {0} /\ Ready(mem)
    BY <1>1, <1>5, ConstantsAssumption DEF Read
  <2>3. Sound(mem.offset, a)
    BY <1>1, <2>2, ReadSound
  <2>4. a.n \in Nat
    BY <2>3 DEF Sound, Outcome
  <2> QED BY <2>1, <2>3, <2>4, ReturnsKeeps
<1>6. CASE ReadByte
  <2>1. PICK a \in ReadResults(mem, 1) :
          \E b \in ReadByteTakes(a) : Returns(b, IF b.res = "ok" THEN 1 ELSE 0)
    BY <1>6 DEF ReadByte
  <2> PICK b \in ReadByteTakes(a) : Returns(b, IF b.res = "ok" THEN 1 ELSE 0)
    BY <2>1
  <2>2. 1 \in Nat \ {0} /\ Ready(mem)
    BY <1>1, <1>6 DEF ReadByte
  <2>3. Sound(mem.offset, a) /\ a.n \in 0 .. 1 /\ mem.offset \in Nat
    BY <1>1, <2>2, ReadSound, MemFields, OutSizeFacts
  <2>4. Sound(mem.offset, b)
    BY <1>1, <2>3, ReadByteSound
  <2>5. (IF b.res = "ok" THEN 1 ELSE 0) \in Nat
    OBVIOUS
  <2> QED BY <2>4, <2>5, ReturnsKeeps
<1>7. CASE ReadUninitialized
  <2>1. TypeOK'
    BY <1>7, QuietFacts DEF ReadUninitialized, StepInv, TypeOK
  <2> QED BY <1>7, <2>1, QuietFacts DEF ReadUninitialized, StepInv, SpeaksTo
<1>8. CASE Crash
  BY <1>8, RestartKeeps DEF Crash
<1>9. CASE UNCHANGED vars
  BY <1>9 DEF vars, StepInv, TypeOK, SpeaksTo, Ready
<1> QED BY <1>2, <1>3, <1>4, <1>5, <1>6, <1>7, <1>8, <1>9 DEF Next

-----------------------------------------------------------------------------
(***************************************************************************)
(* The state of the four sources keeps its type: no offset leaves the      *)
(* stream, whatever the stream is.                                         *)
(***************************************************************************)
THEOREM DecompressTyped == Spec => []TypeOK
<1>1. StepInv => TypeOK
  BY DEF StepInv
<1> QED BY InitStepInv, NextStepInv, <1>1, PTL DEF Spec

(***************************************************************************)
(* While one of the four sources may be read, its inner source, its        *)
(* decompressor and the offset it reports are in step.                     *)
(***************************************************************************)
THEOREM DecompressInStep == Spec => []InStep
<1>1. StepInv => InStep
  BY DEF StepInv, InStep, Ready
<1> QED BY InitStepInv, NextStepInv, <1>1, PTL DEF Spec

(***************************************************************************)
(* A stop is only asked for with an inner checkpoint from before it, and   *)
(* every checkpoint emitted can be resumed by reading forward, up to a     *)
(* block end whose whole output has been delivered.                        *)
(***************************************************************************)
THEOREM DecompressSaves == Spec => []SaveCanBeResumed
<1>1. StepInv => SaveCanBeResumed
  BY DEF StepInv, SaveCanBeResumed, Ready, Usable
<1> QED BY InitStepInv, NextStepInv, <1>1, PTL DEF Spec

(***************************************************************************)
(* OnSave finds a reader to speak to, whatever failed before and whichever *)
(* constructor reads ahead, unless a save was wanted too early.            *)
(***************************************************************************)
THEOREM DecompressNeverPanics == Spec => NeverPanics
<1>1. StepInv /\ [Next]_vars => [out' # out /\ out'.res = "panic" => early]_vars
  BY NextStepInv
<1> QED BY InitStepInv, NextStepInv, <1>1, PTL DEF Spec, NeverPanics

-----------------------------------------------------------------------------
(***************************************************************************)
(* The four sources implement savior.Source. What stands in the way is     *)
(* ReadByte, which reads twice at most and returns a byte of before when it*)
(* stopped at a block end both times: it takes an empty block for that.    *)
(***************************************************************************)
Position == IF usable THEN mem.offset ELSE -1
Offsets == {c.offset : c \in ckpts}
Handed == [at |-> IF out.n = 0 THEN 0 ELSE out.at,
           unit |-> IF out.n = 0 THEN 0 ELSE out.unit, n |-> out.n]

\* What a call hands over is at the offset of before, and so is a checkpoint.
ReadInPlace ==
  /\ usable /\ usable' = usable
  /\ \E n \in Nat :
       /\ mem.offset + n <= OutSize /\ mem'.offset = mem.offset + n
       /\ out'.n = n /\ (n > 0 => out'.at = mem.offset /\ out'.unit = mem.offset)
  /\ Offsets' \in {Offsets, Offsets \cup {mem.offset}}

LEMMA ReturnsInPlace ==
  ASSUME StepInv, usable, NEW a, Sound(mem.offset, a), Returns(a, a.n)
  PROVE  ReadInPlace
<1>1. /\ mem' = a.m /\ ckpts' = ckpts \cup a.saved /\ usable' = usable
      /\ out' = [at |-> a.at, unit |-> a.unit, n |-> a.n, res |-> a.res]
  BY DEF Returns
<1>2. /\ a.m \in Mem /\ a.n \in Nat /\ a.m.offset = mem.offset + a.n
      /\ \A c \in a.saved : c.offset = mem.offset
      /\ a.n > 0 => a.at = mem.offset /\ a.unit = mem.offset
  BY DEF Sound, Outcome
<1>3. a.m.offset <= OutSize
  BY <1>2, MemFields, OutSizeFacts
<1>4. Offsets' \in {Offsets, Offsets \cup {mem.offset}}
  <2>1. CASE a.saved = {}
    BY <1>1, <2>1 DEF Offsets
  <2>2. CASE a.saved # {}
    BY <1>1, <1>2, <2>2 DEF Offsets
  <2> QED BY <2>1, <2>2
<1> QED BY <1>1, <1>2, <1>3, <1>4 DEF ReadInPlace

LEMMA ReadsInPlace ==
  ASSUME BlocksYield, StepInv, ReadByte \/ \E len \in ReadLens : Read(len)
  PROVE  ReadInPlace
<1>1. codec \in Codecs /\ mem \in Mem /\ usable /\ Ready(mem) /\ mem.offset \in Nat
  <2>1. codec \in Codecs /\ mem \in Mem
    BY DEF StepInv, TypeOK, Mem
  <2> QED BY <2>1, MemFields, OutSizeFacts DEF StepInv, Read, ReadByte
<1>2. ASSUME NEW len \in ReadLens, Read(len) PROVE ReadInPlace
  <2>1. PICK a \in ReadResults(mem, len) : Returns(a, a.n)
    BY <1>2 DEF Read
  <2>2. len \in Nat \ {0}
    BY ConstantsAssumption
  <2>3. Sound(mem.offset, a)
    BY <1>1, <2>2, ReadSound
  <2> QED BY <1>1, <2>1, <2>3, ReturnsInPlace
<1>3. CASE ReadByte
  <2>1. PICK a \in ReadResults(mem, 1) :
          \E b \in ReadByteTakes(a) : Returns(b, IF b.res = "ok" THEN 1 ELSE 0)
    BY <1>3 DEF ReadByte
  <2> PICK b \in ReadByteTakes(a) : Returns(b, IF b.res = "ok" THEN 1 ELSE 0)
    BY <2>1
  <2>2. 1 \in Nat \ {0}
    OBVIOUS
  <2>3. Sound(mem.offset, a) /\ a.n \in 0 .. 1
    BY <1>1, <2>2, ReadSound
  <2>4. Sound(mem.offset, b) /\ b.n \in 0 .. 1 /\ (b.res = "ok" => b.n = 1)
    BY <1>1, <2>3, ReadByteSound
  <2>5. b.n = IF b.res = "ok" THEN 1 ELSE 0
    BY <2>4 DEF Sound
  <2>6. Returns(b, b.n)
    BY <2>5
  <2> QED BY <1>1, <2>4, <2>6, ReturnsInPlace
<1> QED BY <1>2, <1>3

\* All other calls hand over nothing and save nothing; Resume leaves a source
\* that can be read at the offset of a checkpoint or at the start.
Elsewhere ==
  /\ ckpts' = ckpts /\ \E res : out' = Quiet(res)
  /\ usable' => \/ usable /\ mem'.offset = mem.offset
                \/ mem'.offset = 0
                \/ \E c \in ckpts : mem'.offset = c.offset

LEMMA StartOverElsewhere ==
  ASSUME codec \in Codecs, NEW m \in Mem, StartOver(m)
  PROVE  Elsewhere
<1> DEFINE s == InnerAt(m, 0)
<1>1. s \in Mem /\ s.in.offset = 0
  <2>1. 0 \in 0 .. InSize
    BY OutSizeFacts
  <2> QED BY <2>1, InnerAtFacts
<1> HIDE DEF s
<1>2. Opened(s).offset = 0
  BY <1>1, OpenedFacts
<1>3. \/ Restart("panic")
      \/ Goes(Opened(s), TRUE, "ok") /\ ckpts' = ckpts
      \/ (\E u : Goes(u, FALSE, "error")) /\ ckpts' = ckpts
  BY DEF StartOver, s
<1> QED BY <1>2, <1>3 DEF Restart, Goes, Elsewhere

LEMMA OthersElsewhere ==
  ASSUME StepInv,
         SetSourceSaveConsumer \/ WantSave \/ Resume \/ ReadUninitialized \/ Crash
  PROVE  Elsewhere
<1>1. codec \in Codecs /\ mem \in Mem /\ \A c \in ckpts : Usable(c)
  BY DEF StepInv, TypeOK, Mem
<1>2. CASE SetSourceSaveConsumer \/ ReadUninitialized
  BY <1>2 DEF SetSourceSaveConsumer, ReadUninitialized, Elsewhere
<1>3. CASE WantSave
  <2>1. mem'.offset = mem.offset
    BY <1>1, <1>3 DEF WantSave, Mem
  <2> QED BY <1>3, <2>1 DEF WantSave, Elsewhere
<1>4. CASE ResumeFromStart
  BY <1>1, <1>4, StartOverElsewhere DEF ResumeFromStart
<1>5. CASE ResumeFails
  BY <1>5 DEF ResumeFails, Goes, Elsewhere
<1>6. ASSUME NEW c \in ckpts, NEW from \in {c.inner, 0}, ResumeFromCheckpoint(c, from)
      PROVE  Elsewhere
  <2> DEFINE m == Landed(mem, c, from)
             u == [m EXCEPT !.sr = NoReader]
  <2>1. m \in Mem /\ m.in.offset = c.r /\ Usable(c)
    <3>1. Usable(c) /\ (from = c.inner \/ from = 0)
      BY <1>1, <1>6
    <3> QED BY <1>1, <3>1, LandedFacts
  <2>2. \/ Restart("panic")
        \/ Goes(Reopened(m, c), TRUE, "ok") /\ ckpts' = ckpts
        \/ StartOver(u)
    BY <1>6, <2>1 DEF ResumeFromCheckpoint
  <2> HIDE DEF m
  <2>3. Reopened(m, c).offset = c.offset
    BY <1>1, <2>1, ReopenedFacts
  <2>4. u \in Mem
    <3>1. u = [in |-> m.in, sr |-> NoReader, pending |-> m.pending, offset |-> m.offset]
      BY <2>1 DEF Mem
    <3> HIDE DEF u
    <3> QED BY <2>1, <3>1, FreshFacts, MemFields DEF Mem
  <2>5. CASE StartOver(u)
    <3> HIDE DEF u
    <3> QED BY <1>1, <2>4, <2>5, StartOverElsewhere
  <2> QED BY <2>2, <2>3, <2>5 DEF Restart, Goes, Elsewhere
<1>7. CASE Crash
  BY <1>7 DEF Crash, Restart, Goes, Elsewhere
<1> QED BY <1>2, <1>3, <1>4, <1>5, <1>6, <1>7 DEF Resume

LEMMA ElsewhereRefines ==
  ASSUME Elsewhere
  PROVE  Contract!Next
<1>1. Handed' = Contract!Nothing /\ Offsets' = Offsets
  BY DEF Elsewhere, Quiet, Handed, Offsets, Contract!Nothing
<1>2. CASE ~usable'
  <2>1. Position' = Contract!NotResumed
    BY <1>2 DEF Position, Contract!NotResumed
  <2> QED BY <1>1, <2>1 DEF Contract!Next, Contract!Lose, Handed, Offsets, Position
<1>3. CASE usable' /\ usable /\ mem'.offset = mem.offset
  <2>1. Position' = Position
    BY <1>3 DEF Position
  <2> QED BY <1>1, <2>1 DEF Contract!Next, Contract!Pause, Handed, Offsets, Position
<1>4. CASE usable' /\ (mem'.offset = 0 \/ \E c \in ckpts : mem'.offset = c.offset)
  <2>1. Position' \in Offsets \cup {0}
    BY <1>4 DEF Position, Offsets
  <2> QED BY <1>1, <2>1 DEF Contract!Next, Contract!Resume, Handed, Offsets, Position
<1> QED BY <1>2, <1>3, <1>4 DEF Elsewhere

LEMMA ReadRefines ==
  ASSUME StepInv, ReadInPlace
  PROVE  Contract!Next
<1>1. PICK n \in Nat :
        /\ mem.offset + n <= OutSize /\ mem'.offset = mem.offset + n
        /\ out'.n = n /\ (n > 0 => out'.at = mem.offset /\ out'.unit = mem.offset)
  BY DEF ReadInPlace
<1>2. mem.offset \in Nat /\ Position = mem.offset /\ Position' = mem.offset + n
  <2>1. mem \in Mem
    BY DEF StepInv, TypeOK, Mem
  <2>2. mem.offset \in Nat
    BY <2>1, MemFields, OutSizeFacts
  <2> QED BY <1>1, <2>2 DEF ReadInPlace, Position
<1>3. Position # Contract!NotResumed /\ Contract!GoesOnFrom(Position)
  <2>1. Offsets' \in {Offsets, Offsets \cup {Position}}
    BY <1>2 DEF ReadInPlace
  <2>2. Position # -1
    BY <1>2
  <2> QED BY <2>1, <2>2 DEF Contract!GoesOnFrom, Contract!NotResumed, Offsets, Position
<1>4. CASE n = 0
  <2>1. Handed' = Contract!Nothing /\ Position' = Position
    BY <1>1, <1>2, <1>4 DEF Handed, Contract!Nothing
  <2> QED BY <1>3, <2>1 DEF Contract!Next, Contract!Pause, Contract!GoesOnFrom, Handed, Offsets, Position
<1>5. CASE n > 0
  <2>1. Handed' = [at |-> Position, unit |-> Position, n |-> n]
    BY <1>1, <1>2, <1>5 DEF Handed
  <2>2. n \in 1 .. OutSize /\ Position + n <= OutSize /\ Position' = Position + n
    BY <1>1, <1>2, <1>5, OutSizeFacts
  <2>3. Contract!Deliver(n)
    BY <1>3, <2>1, <2>2 DEF Contract!Deliver, Contract!GoesOnFrom, Handed, Offsets, Position
  <2> QED BY <2>2, <2>3 DEF Contract!Next
<1> QED BY <1>1, <1>4, <1>5

LEMMA StepKinds ==
  ASSUME BlocksYield, StepInv, [Next]_vars
  PROVE  ReadInPlace \/ Elsewhere \/ UNCHANGED vars
  BY ReadsInPlace, OthersElsewhere DEF Next

(***************************************************************************)
(* As long as no block is empty, what a source of these hands over is what *)
(* is at the offset it says, ReadByte included.                            *)
(***************************************************************************)
THEOREM DecompressDelivers == BlocksYield => (Spec => []DeliveredInPlace)
<1> SUFFICES ASSUME BlocksYield PROVE Spec => []DeliveredInPlace
  OBVIOUS
<1>1. Init => DeliveredInPlace
  BY DEF Init, Quiet, DeliveredInPlace
<1>2. StepInv /\ DeliveredInPlace /\ [Next]_vars => DeliveredInPlace'
  <2> SUFFICES ASSUME StepInv, DeliveredInPlace, [Next]_vars PROVE DeliveredInPlace'
    OBVIOUS
  <2>1. CASE ReadInPlace
    BY <2>1 DEF ReadInPlace, DeliveredInPlace
  <2>2. CASE Elsewhere
    BY <2>2 DEF Elsewhere, Quiet, DeliveredInPlace
  <2>3. CASE UNCHANGED vars
    BY <2>3 DEF vars, DeliveredInPlace
  <2> QED BY <2>1, <2>2, <2>3, StepKinds
<1> QED BY <1>1, <1>2, InitStepInv, NextStepInv, PTL DEF Spec

(***************************************************************************)
(* As long as no block is empty, the four sources implement the contract of*)
(* source.go, whatever becomes of their decompressor, their inner source   *)
(* and their process.                                                      *)
(***************************************************************************)
THEOREM DecompressKeepsContract == BlocksYield => (Spec => KeepsContract)
<1> SUFFICES ASSUME BlocksYield PROVE Spec => KeepsContract
  OBVIOUS
<1>1. Init => Contract!Init
  BY DEF Init, Quiet, Contract!Init, Contract!NotResumed, Contract!Nothing
<1>2. StepInv /\ [Next]_vars => [Contract!Next]_(Contract!vars)
  <2> SUFFICES ASSUME StepInv, [Next]_vars PROVE [Contract!Next]_(Contract!vars)
    OBVIOUS
  <2>1. CASE UNCHANGED vars
    BY <2>1 DEF vars, Contract!vars
  <2> QED BY <2>1, StepKinds, ReadRefines, ElsewhereRefines
<1> QED BY <1>1, <1>2, InitStepInv, NextStepInv, PTL DEF Spec, KeepsContract, Contract!Spec

(***************************************************************************)
(* "There's no way to handle a short read from ReadByte, so we just read   *)
(* again" (gzipsource.go:172): one retry is enough exactly for what the    *)
(* hypothesis says, since decompress_read_byte has a stream with an empty  *)
(* block.                                                                  *)
(***************************************************************************)
THEOREM DecompressByteWasRead == BlocksYield => (Spec => []ByteWasRead)
<1> SUFFICES ASSUME BlocksYield PROVE Spec => []ByteWasRead
  OBVIOUS
<1>1. TypeOK /\ DeliveredInPlace => ByteWasRead
  <2> SUFFICES ASSUME TypeOK, DeliveredInPlace, out.n = 1 PROVE out.unit # Garbage
    BY DEF ByteWasRead
  <2>1. out.at \in 0 .. OutSize
    BY DEF TypeOK
  <2> QED BY <2>1, OutSizeFacts DEF DeliveredInPlace, Garbage
<1> QED BY <1>1, DecompressTyped, DecompressDelivers, PTL

-----------------------------------------------------------------------------
(***************************************************************************)
(* Why whoever reads on gets to the end, empty blocks or not: a read that  *)
(* leaves something to read has gained on the one before, in output, else  *)
(* in input, else by a save that is served and not wanted any more.        *)
(***************************************************************************)
Reads == ReadByte \/ \E len \in ReadLens : Read(len)

ReadsOn ==
  [][\/ Reads /\ (Ended(mem') \/ Further(mem, mem'))
     \/ Resume \/ Crash
     \/ UNCHANGED <<mem.sr, mem.offset>>]_vars

LEMMA FurtherTwice ==
  ASSUME NEW m \in Mem, NEW n \in Mem, NEW k \in Mem, Further(m, n), Further(n, k)
  PROVE  Further(m, k)
<1>1. /\ m.offset \in Int /\ n.offset \in Int /\ k.offset \in Int
      /\ m.sr.r \in Int /\ n.sr.r \in Int /\ k.sr.r \in Int
  BY MemFields, OutSizeFacts
<1> QED BY <1>1 DEF Further

LEMMA EndedStays ==
  ASSUME codec \in Codecs, NEW m \in Mem, Ready(m), Ended(m), NEW len \in Nat \ {0},
         NEW a \in ReadResults(m, len)
  PROVE  Ended(a.m)
<1>1. CASE m.sr.state = "failed"
  <2>1. a.m = m
    BY <1>1 DEF ReadResults, Result
  <2> QED BY <2>1
<1>2. CASE m.offset = OutSize
  <2>1. Sound(m.offset, a)
    BY ReadSound
  <2>2. a.m \in Mem /\ a.n \in Nat /\ a.m.offset = m.offset + a.n
    BY <2>1 DEF Sound, Outcome
  <2>3. a.m.offset = OutSize
    BY <1>2, <2>2, MemFields, OutSizeFacts
  <2> QED BY <2>3 DEF Ended
<1> QED BY <1>1, <1>2 DEF Ended

\* ReadByte reads once, or once more from where the first read got to.
LEMMA ReadByteFurther ==
  ASSUME codec \in Codecs, NEW m \in Mem, Ready(m), NEW a \in ReadResults(m, 1),
         NEW b \in ReadByteTakes(a)
  PROVE  Ended(b.m) \/ Further(m, b.m)
<1>0. 1 \in Nat \ {0}
  OBVIOUS
<1>1. Sound(m.offset, a) /\ (Ended(a.m) \/ Further(m, a.m))
  BY <1>0, ReadSound
<1>2. a.m \in Mem /\ Ready(a.m)
  BY <1>1 DEF Sound, Outcome
<1>3. CASE a.n = 1
  BY <1>1, <1>3 DEF ReadByteTakes
<1>4. CASE a.n # 1
  <2>1. PICK r \in ReadResults(a.m, 1) :
          b = [r EXCEPT !.saved = a.saved \cup r.saved,
                        !.unit = IF r.n = 1 THEN r.unit ELSE Garbage]
    BY <1>4 DEF ReadByteTakes
  <2>2. Sound(a.m.offset, r) /\ (Ended(r.m) \/ Further(a.m, r.m))
    BY <1>0, <1>2, ReadSound
  <2>3. r.m \in Mem /\ b.m = r.m
    BY <2>1, <2>2 DEF Sound, Outcome
  <2>4. CASE Ended(a.m)
    <3>1. Ended(r.m)
      BY <1>0, <1>2, <2>4, EndedStays
    <3> QED BY <2>3, <3>1
  <2>5. CASE Further(m, a.m)
    <3>1. Ended(r.m) \/ Further(m, r.m)
      BY <1>2, <2>2, <2>3, <2>5, FurtherTwice
    <3> QED BY <2>3, <3>1
  <2> QED BY <1>1, <2>4, <2>5
<1> QED BY <1>3, <1>4

LEMMA ReadsFurther ==
  ASSUME StepInv, Reads
  PROVE  Ended(mem') \/ Further(mem, mem')
<1>1. codec \in Codecs /\ mem \in Mem
  BY DEF StepInv, TypeOK, Mem
<1> PICK m : m = mem
  OBVIOUS
<1>2. m \in Mem /\ Ready(m)
  BY <1>1 DEF StepInv, Reads, Read, ReadByte
<1>3. ASSUME NEW len \in ReadLens, Read(len) PROVE Ended(mem') \/ Further(m, mem')
  <2>1. PICK a \in ReadResults(m, len) : mem' = a.m
    BY <1>3 DEF Read, Returns
  <2>2. len \in Nat \ {0}
    BY ConstantsAssumption
  <2>3. Ended(a.m) \/ Further(m, a.m)
    BY <1>1, <1>2, <2>2, ReadSound
  <2> QED BY <2>1, <2>3
<1>4. ASSUME ReadByte PROVE Ended(mem') \/ Further(m, mem')
  <2>1. PICK a \in ReadResults(m, 1) : \E b \in ReadByteTakes(a) : mem' = b.m
    BY <1>4 DEF ReadByte, Returns
  <2>2. PICK b \in ReadByteTakes(a) : mem' = b.m
    BY <2>1
  <2>3. Ended(b.m) \/ Further(m, b.m)
    BY <1>1, <1>2, ReadByteFurther
  <2> QED BY <2>2, <2>3
<1> QED BY <1>3, <1>4 DEF Reads

(***************************************************************************)
(* Between two calls of Resume, the reads of a source gain on each other   *)
(* until it ends, for every stream and every place its blocks end at. What *)
(* they gain is bounded (DecompressTyped): this is all of ReadsToEnd that  *)
(* can be said of single steps.                                            *)
(***************************************************************************)
THEOREM DecompressReadsOn == Spec => ReadsOn
<1> DEFINE Step == \/ Reads /\ (Ended(mem') \/ Further(mem, mem'))
                   \/ Resume \/ Crash
                   \/ UNCHANGED <<mem.sr, mem.offset>>
<1>1. StepInv /\ [Next]_vars => [Step]_vars
  <2> SUFFICES ASSUME StepInv, Next PROVE Step
    OBVIOUS
  <2>1. CASE Reads
    BY <2>1, ReadsFurther
  <2>2. CASE SetSourceSaveConsumer \/ ReadUninitialized
    BY <2>2 DEF SetSourceSaveConsumer, ReadUninitialized
  <2>3. CASE WantSave
    <3>1. mem'.sr = mem.sr /\ mem'.offset = mem.offset
      BY <2>3 DEF WantSave, StepInv, TypeOK
    <3> QED BY <3>1
  <2> QED BY <2>1, <2>2, <2>3 DEF Next, Reads
<1> QED BY <1>1, InitStepInv, NextStepInv, PTL DEF Spec, ReadsOn
=============================================================================
