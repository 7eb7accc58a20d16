------------------------- MODULE ResumableExtraction -------------------------
(***************************************************************************)
(* What extractor.go promises the program that calls Resume until it has   *)
(* its result, whatever the format: what was persisted stays extracted,    *)
(* the next checkpoint is never behind the last, a program that says stop  *)
(* is given no other checkpoint and no result before Resume returns, and   *)
(* the result means that everything is there.                              *)
(*                                                                         *)
(* A place of the archive is an entry and how much of it was written.      *)
(***************************************************************************)
EXTENDS Integers

CONSTANT NumEntries

VARIABLES
  extracted,    \* the destination has everything before this place
  saved,        \* the place of the checkpoint persisted last, or None
  stopping,     \* the consumer answered AfterSaveStop and Resume still runs
  result        \* what the last Resume returned

vars == <<extracted, saved, stopping, result>>

None == [idx |-> -1, off |-> 0]
End == [idx |-> NumEntries, off |-> 0]
Places == [idx : 0 .. NumEntries, off : Nat]

AtMost(a, b) == a.idx < b.idx \/ (a.idx = b.idx /\ a.off <= b.off)

Init ==
  /\ extracted \in Places
  /\ saved = None
  /\ stopping = FALSE
  /\ result = "none"

-----------------------------------------------------------------------------
\* What a step does may be done again, but not what was persisted.
KeepsSaved == extracted' \in Places /\ AtMost(saved', extracted')

Extract ==
  /\ UNCHANGED <<saved, stopping>>
  /\ KeepsSaved
  /\ result' = "none"

Save ==
  /\ ~stopping
  /\ saved' \in Places /\ AtMost(saved, saved')
  /\ KeepsSaved
  /\ stopping' \in BOOLEAN
  /\ result' = "none"

ReturnsErrStop == stopping /\ result' = "stopped"

ReturnsResult == ~stopping /\ extracted' = End /\ result' = "ok"

ReturnsError == result' = "failed"

Return ==
  /\ ReturnsErrStop \/ ReturnsResult \/ ReturnsError
  /\ KeepsSaved
  /\ stopping' = FALSE
  /\ UNCHANGED saved

Dies ==
  /\ stopping' = FALSE
  /\ result' = "none"
  /\ UNCHANGED <<extracted, saved>>

\* without a checkpoint
StartAfresh ==
  /\ extracted' \in Places
  /\ saved' = None
  /\ stopping' = FALSE
  /\ result' \in {"none", "failed"}

Next == Extract \/ Save \/ Return \/ Dies \/ StartAfresh

Spec == Init /\ [][Next]_vars
=============================================================================
