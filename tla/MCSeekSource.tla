---------------------------- MODULE MCSeekSource ----------------------------
(***************************************************************************)
(* Instances of SeekSource for TLC: a file of a few bytes, read through a  *)
(* buffer that is smaller than the file and both larger and smaller than   *)
(* the reads, with sections cut all over it, the wrong ones included.      *)
(***************************************************************************)
EXTENDS SeekSource

\* starts and sizes in the file, a negative one and one past its end
MCBounds == {-1, 1, 2, FileSize + 1}

\* a negative offset, as Test_InvalidCheckpoint passes
MCNegative == {-1}

\* an offset past the end, as Test_InvalidCheckpoint passes
MCPastEnd == {-1, RootSize + 1}
=============================================================================
