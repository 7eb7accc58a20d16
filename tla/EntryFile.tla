----------------------------- MODULE EntryFile -----------------------------
(***************************************************************************)
(* What folder_sink.go does to one destination, reduced to what resuming   *)
(* depends on: how long the file is and how much of it, from its start, is *)
(* the data of the archive. Everything past that prefix may be anything:   *)
(* zeroes of a preallocation, an older version, data at the wrong place.   *)
(***************************************************************************)
EXTENDS Integers

Missing == [len |-> -1, good |-> 0]
Older(len) == [len |-> len, good |-> 0]

EntryFiles == [len : {-1} \cup Nat, good : Nat]

Lesser(a, b) == IF a < b THEN a ELSE b
Greater(a, b) == IF a > b THEN a ELSE b

\* createFile: an existing file is opened as it is
Created(f) == [f EXCEPT !.len = Greater(f.len, 0)]

\* slip: the file is not truncated
WriterAtUntruncated(f, writeOffset) == [f EXCEPT !.len = Greater(@, writeOffset)]

\* GetWriter: seek to WriteOffset and truncate there, which also extends
WriterAt(f, writeOffset) ==
  [len |-> writeOffset, good |-> Lesser(f.good, writeOffset)]

\* Preallocate: make room for the whole entry, never less than there is
Preallocated(f, size) == [f EXCEPT !.len = Greater(Created(f).len, size)]

\* Write of the n units from source offset at, at position pos of the file
Appended(f, pos, at, n) ==
  [len |-> Greater(f.len, pos + n),
   good |-> IF at = pos /\ f.good >= pos THEN Greater(f.good, pos + n)
            ELSE IF n = 0 THEN f.good
            ELSE Lesser(f.good, pos)]

\* Mkdir and Symlink make the whole entry, whatever was there
Made(size) == [len |-> size, good |-> size]

Complete(f, size) == f.len = size /\ f.good = size
=============================================================================
