-------------------------- MODULE ResumableSource --------------------------
(***************************************************************************)
(* What the interface savior.Source promises (source.go), whatever stands  *)
(* behind it: a stream of Size units that is read from start to end, that  *)
(* may hand out checkpoints while it is read, and that can be resumed from *)
(* any of them. Units are numbered, so that "the unit delivered" can be    *)
(* told from "the offset the source claims to be at".                      *)
(***************************************************************************)
EXTENDS Integers

CONSTANT Size              \* number of units in the stream, a natural number

VARIABLES
  pos,      \* offset of the next unit to be read, or NotResumed
  ckpts,    \* offsets of the checkpoints handed to the save consumer
  out       \* what the last read handed over, or Nothing

vars == <<pos, ckpts, out>>

NotResumed == -1
Nothing == [at |-> 0, unit |-> 0, n |-> 0]

Init ==
  /\ pos = NotResumed
  /\ ckpts = {}
  /\ out = Nothing

(***************************************************************************)
(* Resume from a checkpoint, or from the start when there is none (the nil *)
(* checkpoint). A source that cannot use the checkpoint starts over at 0:  *)
(* "if it fails, just return a 0 offset" (README.md).                      *)
(***************************************************************************)
Resume ==
  /\ \E c \in ckpts \cup {0} : pos' \in {0, c}
  /\ out' = Nothing
  /\ UNCHANGED ckpts

\* Resume returned an error, or the reader below now serves somebody else:
\* the source has to be resumed again before it is read.
Lose ==
  /\ pos' = NotResumed
  /\ out' = Nothing
  /\ UNCHANGED ckpts

(***************************************************************************)
(* The checkpoint a read may emit is for the offset *before* what it hands *)
(* over, at which the caller has consumed everything so far. The consumer  *)
(* may resume the source in there, from this checkpoint or from an earlier *)
(* one: the read goes on from where it was resumed.                        *)
(***************************************************************************)
GoesOnFrom(from) ==
  \/ from = pos /\ UNCHANGED ckpts
  \/ ckpts' = ckpts \cup {pos} /\ from \in ckpts' \cup {0}

Deliver(n) ==
  /\ pos # NotResumed
  /\ \E from \in ckpts \cup {0, pos} :
       /\ GoesOnFrom(from)
       /\ from + n <= Size
       /\ out' = [at |-> from, unit |-> from, n |-> n]
       /\ pos' = from + n

\* A read that hands over nothing: end of stream, an error, or a source that
\* stopped at a block boundary to emit its checkpoint.
Pause ==
  /\ out' = Nothing
  /\ \/ UNCHANGED <<pos, ckpts>>
     \/ pos # NotResumed /\ GoesOnFrom(pos')

Next ==
  \/ Resume
  \/ Lose
  \/ \E n \in 1..Size : Deliver(n)
  \/ Pause

Spec == Init /\ [][Next]_vars
=============================================================================
