-------------------------------- MODULE Lock --------------------------------
(***************************************************************************)
(* What ebi_mutex promises: one owner at a time, and only the owner gives  *)
(* the lock back.  Mutex implements it.                                    *)
(***************************************************************************)
CONSTANTS Threads, NoOwner   \* NoOwner is not a thread

VARIABLE owner

LockTypeOK == owner \in Threads \cup {NoOwner}

LockInit == owner = NoOwner

Acquire(t) == owner = NoOwner /\ owner' = t

Release(t) == owner = t /\ owner' = NoOwner

LockNext == \E t \in Threads : Acquire(t) \/ Release(t)

LockSpec == LockInit /\ [][LockNext]_owner
=============================================================================
