------------------------------ MODULE CopyOut ------------------------------
(***************************************************************************)
(* What a dump or an upload of the log file promises, without a word about *)
(* addresses, chunks, busy destinations or the end of the segment: it      *)
(* takes n bytes off one end of the log as it is when the call is made and *)
(* hands them over, each once and in order.  It is successful when it has  *)
(* handed over the last one, and not otherwise.  If the log is written,    *)
(* erased or moved while it runs nothing is promised any more.             *)
(***************************************************************************)
EXTENDS Integers, Sequences

CONSTANT Byte   \* what a log is made of

VARIABLES
  log,   \* the log file, oldest byte first
  todo,  \* what is still to be handed over
  out,   \* what the copy under way has handed over
  st,    \* "idle", "copying" or "void"
  ok     \* the result of the last copy

vars == <<log, todo, out, st, ok>>

Init ==
  /\ log \in Seq(Byte)
  /\ todo = <<>> /\ out = <<>> /\ st = "idle" /\ ok = FALSE

Oldest(n) == SubSeq(log, 1, n)
Newest(n) == SubSeq(log, Len(log) - n + 1, Len(log))

Begin ==
  /\ st = "idle" /\ st' = "copying"
  /\ \E n \in 1 .. Len(log) : todo' = Oldest(n) \/ todo' = Newest(n)
  /\ ok' = FALSE
  /\ UNCHANGED <<log, out>>

HandOver ==
  /\ st = "copying"
  /\ \E n \in 1 .. Len(todo) :
       /\ out' = out \o SubSeq(todo, 1, n)
       /\ todo' = SubSeq(todo, n + 1, Len(todo))
  /\ UNCHANGED <<log, st, ok>>

Complete ==
  /\ st = "copying" /\ todo = <<>>
  /\ st' = "idle" /\ ok' = TRUE
  /\ out' = <<>>
  /\ UNCHANGED <<log, todo>>

GiveUp ==
  /\ st = "copying"
  /\ st' = "idle" /\ todo' = <<>> /\ out' = <<>>
  /\ UNCHANGED <<log, ok>>

\* The log was written or moved while the call worked out what to copy.
BeginVoid ==
  /\ st = "idle" /\ st' = "void"
  /\ ok' = FALSE
  /\ UNCHANGED <<log, todo, out>>

\* The log is written or moved under the copy, which goes on all the same.
Spoil ==
  /\ st \in {"copying", "void"} /\ st' = "void"
  /\ log' \in Seq(Byte)
  /\ todo' = <<>>
  /\ UNCHANGED <<out, ok>>

EndVoid ==
  /\ st = "void" /\ st' = "idle"
  /\ ok' \in BOOLEAN
  /\ out' = <<>>
  /\ UNCHANGED <<log, todo>>

Write ==
  /\ st = "idle"
  /\ log' \in Seq(Byte)
  /\ UNCHANGED <<todo, out, st, ok>>

Next ==
  \/ Begin \/ HandOver \/ Complete \/ GiveUp
  \/ BeginVoid \/ Spoil \/ EndVoid \/ Write

Spec == Init /\ [][Next]_vars
=============================================================================
