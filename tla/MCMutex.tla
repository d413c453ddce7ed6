------------------------------ MODULE MCMutex ------------------------------
(***************************************************************************)
(* Three threads that take the mutex twice each.                           *)
(***************************************************************************)
EXTENDS Mutex

CONSTANTS t1, t2, t3, nobody
=============================================================================
