----------------------------- MODULE FlashLogMC -----------------------------
(* Sizes for FlashLog: pages of two bytes, a KB of one page, sectors of    *)
(* three KB prepared after two, packets of up to a page, as in the code.   *)
EXTENDS FlashLog

\* No guard reads the cells, and after a hazard no property does: then states
\* that differ in them are one, and so are states that differ in hazards no
\* property asks for.  (The last conjunct is always so; TLC has to have
\* evaluated the cells.)
LogView ==
  <<mem, nvr, erasing, phase, size, ready, restarts, hazard = {},
    hazard \cap {"unprepared", "switch"}, IF hazard = {} THEN cells ELSE {},
    cells \in [Addr -> {"blank", "live", "garbled"}]>>

\* After a hazard, and after a switch that is one, less is explored.
LessAfterHazard ==
  hazard = {} \/ (restarts <= 1 /\ "switch" \notin hazard)
=============================================================================
