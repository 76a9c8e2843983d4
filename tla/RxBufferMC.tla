----------------------------- MODULE RxBufferMC -----------------------------
(* What TLC tells states of RxBuffer apart by, and where it stops.         *)
EXTENDS RxBuffer

\* The ghosts steer no step, and after a hazard no property looks at them nor
\* asks which hazard it was: states that differ in no more than that are one.
View ==
  <<pRead, pWrite, lowMem, urgent, timer, enabled, command, mutex, pc, dest,
    hazard = {},
    IF hazard = {} THEN <<fresh, loc>>
    ELSE [t \in Tasks |-> [loc[t] EXCEPT !.over = FALSE, !.marked = FALSE]]>>

\* No interrupt has met a half-done task and no reset pTail.
NoOtherHazard == hazard \subseteq {"byte"}
=============================================================================
