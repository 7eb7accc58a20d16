--------------------------- MODULE CountingSource ---------------------------
(***************************************************************************)
(* countingsource/countingsource.go: a wrapper of seeksource that passes   *)
(* every call on and tells a callback, every Threshold bytes, how far its  *)
(* caller has read. A section of a wrapped source is wrapped as well, with *)
(* a callback that adds the start of the section and calls the one of the  *)
(* source it was cut from, and so on up to the callback the program gave.  *)
(* Section and the offsets it adds up are kept in both modules apart:      *)
(* sectionStart moves the reads, shift moves what the callback is told.    *)
(***************************************************************************)
EXTENDS SeekSource

CONSTANT Threshold     \* readByteThreshold

ASSUME ThresholdAssumption == Threshold \in Nat

VARIABLES
  counted,    \* counted[s]: numReadBytes of the wrapper of s
  shift,      \* shift[s]: what the callback of s adds before it calls the program's
  told        \* what the program's callback was told by the last call, if it was

countingVars == <<src, filePos, owner, ckpts, out, strayed, counted, shift, told>>

NotTold == -1

CountingInit ==
  /\ Init
  /\ counted = [s \in Ids |-> 0]
  /\ shift = [s \in Ids |-> 0]
  /\ told = NotTold

-----------------------------------------------------------------------------
\* SetSourceSaveConsumer, WantSave and Resume; a read that hands over nothing.
PassedOn(s) ==
  /\ \/ SetSourceSaveConsumer(s) \/ WantSave(s) \/ Resume(s)
     \/ ReadUninitialized(s)
     \/ \E len \in ReadLens : ReadNothing(s, len)
  /\ told' = NotTold
  /\ UNCHANGED <<counted, shift>>

\* slip: every section is taken for one of the root
ShiftOfRoot(s, start) == start

ShiftOf(s, start) == shift[s] + start

CountingSection(s, t, start, size) ==
  /\ Section(s, t, start, size)
  /\ shift' = IF src'[t].made THEN [shift EXCEPT ![t] = ShiftOf(s, start)] ELSE shift
  /\ told' = NotTold
  /\ UNCHANGED counted

\* cc(source.Tell()), through the callbacks of the sections it lies in
CallbackOffset(s) == shift[s] + src'[s].offset

Count(s) ==
  LET n == counted[s] + out'.n IN
  IF n > Threshold
    THEN counted' = [counted EXCEPT ![s] = 0] /\ told' = CallbackOffset(s)
    ELSE counted' = [counted EXCEPT ![s] = n] /\ told' = NotTold

CountingRead(s) ==
  /\ ReadByte(s) \/ \E len \in ReadLens : Read(s, len)
  /\ Count(s)
  /\ UNCHANGED shift

CountingNext ==
  \E s \in Ids :
    \/ PassedOn(s)
    \/ \E t \in Sections, start, size \in Bounds : CountingSection(s, t, start, size)
    \/ CountingRead(s)

CountingSpec == CountingInit /\ [][CountingNext]_countingVars

-----------------------------------------------------------------------------
(***************************************************************************)
(* "This avoids the count jumping back" (countingsource.go:83): what the   *)
(* program is told is the place in the file up to which it was handed the  *)
(* bytes, whichever section of a section it reads and whatever was resumed *)
(* in between, so the count goes back only where the reader does.          *)
(***************************************************************************)
ToldPlaceInFile ==
  told # NotTold =>
    /\ owner # NoSource
    /\ told = filePos - src[owner].buffered
=============================================================================
