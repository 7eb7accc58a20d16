----------------------- MODULE MCDecompressingSource -----------------------
(***************************************************************************)
(* Instances of DecompressingSource for TLC: a stream of a header unit and *)
(* a few blocks, the outputs of which are known as the input is read.      *)
(***************************************************************************)
EXTENDS DecompressingSource

\* header, one block of one unit, one of two units that yields two, a trailer
MCYield == [r \in 0 .. InSize |-> CASE r <= 1 -> 0 [] r = 2 -> 1 [] r = 3 -> 1 [] OTHER -> 3]
MCBlockEnds == {2, 4}

\* a second block that yields nothing, as a flush of the compressor leaves one
MCEmptyYield == [r \in 0 .. InSize |-> CASE r <= 1 -> 0 [] r = 2 -> 1 [] r = 3 -> 1 [] OTHER -> 2]
MCEmptyBlockEnds == {2, 3, 4}
=============================================================================
