----------------------------- MODULE MCCollector -----------------------------
(***************************************************************************)
(* Instances of Collector for TLC: objects and mutators are                *)
(* interchangeable.                                                        *)
(***************************************************************************)
EXTENDS Collector, TLC

CONSTANTS a, b, t1, t2, gc, left, null

Symmetry ==
  Permutations(Objects \ Leaves) \cup Permutations(Mutators)
=============================================================================
