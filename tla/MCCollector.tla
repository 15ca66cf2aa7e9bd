---------------------------- MODULE MCCollector ----------------------------
(* Three objects: a cycle of two functions with data that one of them has, *)
(* or functions that share data with a live one, or a call's function      *)
(* below its parent and main.  Three references are enough for a call's    *)
(* function, its result and an argument to be held at a time.              *)
EXTENDS Collector, TLC

Symmetry == Permutations(Objs)
=============================================================================
