------------------------------ MODULE MCIaStack ------------------------------
(***************************************************************************)
(* Two threads, two lists and two stacks.                                  *)
(***************************************************************************)
EXTENDS IaStack

CONSTANTS a, b, t1, t2, marks, sweep, null
=============================================================================
