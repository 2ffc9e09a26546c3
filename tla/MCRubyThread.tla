---------------------------- MODULE MCRubyThread ----------------------------
(* Small instances of RubyThread: two or three workers, the thread of the  *)
(* child process and the Ruby thread.                                      *)
EXTENDS RubyThread, TLC

CONSTANTS w1, w2, w3

TwoWorkers == {w1, w2}
ThreeWorkers == {w1, w2, w3}
Symmetry == Permutations(ThreeWorkers)
=============================================================================
