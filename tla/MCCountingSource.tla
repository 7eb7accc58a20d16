-------------------------- MODULE MCCountingSource --------------------------
(***************************************************************************)
(* Instances of CountingSource for TLC: a source whose file turned out     *)
(* shorter than it was, a section of it and a section of the section, and  *)
(* checkpoints that come from another file.                                *)
(***************************************************************************)
EXTENDS CountingSource, TLC

\* negative, and past the end
MCForeign == {-1, RootSize + 1}

\* What a source other than the owner has of an offset and a buffer is set
\* anew by Resume before any step or property of the run looks at it, and so is
\* the position of the file when nobody may read; out is never looked at.
MCView ==
  <<[s \in Ids |-> IF s = owner THEN src[s]
                   ELSE [src[s] EXCEPT !.offset = 0, !.buffered = 0]],
    IF owner = NoSource THEN 0 ELSE filePos, owner, ckpts, counted, shift, told>>

\* bound: checkpoints are asked of one of the sources only
MCOneSaver ==
  \E t \in Ids : \A s \in Ids \ {t} : ~src[s].ssc /\ ~src[s].want

MCSymmetry == Permutations(Sections)
=============================================================================
