----------------------------- MODULE MCResponse -----------------------------
(* A request, its redirect, and up to two handlers of each phase.          *)
EXTENDS Response

\* A bound: handlers write only while none has a thread or is overdue, and the
\* other way round.
Apart ==
  \/ written' = 0
  \/ /\ \A t \in threads' : t[1] = "timeout"
     /\ \A d \in 1..Len(frames') : ~ frames'[d].overdue
ApartSpec == Init /\ [][Next /\ Apart]_vars /\ Fairness
=============================================================================
