------------------------------- MODULE Loops -------------------------------
(***************************************************************************)
(* The loops of the C code that change nothing but what they return: their *)
(* state after every pass, as a function of how many there were.           *)
(***************************************************************************)
EXTENDS Integers

\* What Body makes of start when it is repeated as long as Goes holds, for
\* loops that make at most so many passes.
While(Goes(_), Body(_), start, most) ==
  LET after[n \in 0..most] ==
        IF n = 0 THEN start
        ELSE LET s == after[n - 1] IN IF Goes(s) THEN Body(s) ELSE s
  IN  after[most]
=============================================================================
