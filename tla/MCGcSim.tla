------------------------------ MODULE MCGcSim ------------------------------
(***************************************************************************)
(* The instance of GcSim for TLC.  Threads, names and every object but the *)
(* root are interchangeable, but the run checks a liveness property, with  *)
(* which symmetry is not sound.                                            *)
(***************************************************************************)
EXTENDS GcSim

CONSTANTS root, a, b, t1, t2, x, none
=============================================================================
