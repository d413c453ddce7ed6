------------------------------- MODULE Mutex -------------------------------
(***************************************************************************)
(* ebi_mutex (src/ebi_core.c): a test-and-set lock whose waiters, after    *)
(* spinning for a while, sleep in WaitOnAddress until an unlocking thread  *)
(* wakes one of them.  `lock` and `waiters` are separate words: one step   *)
(* here is one atomic access to either, or one call of the operating       *)
(* system.                                                                 *)
(***************************************************************************)
EXTENDS Integers, FiniteSets

CONSTANTS
  Threads,
  NoOwner,
  SpinLimit,  \* attempts before lock() sleeps (1000 in the code)
  MaxCalls    \* bound: lock() or try_lock() calls of one thread

ASSUME MutexAssumption ==
  /\ IsFiniteSet(Threads)
  /\ NoOwner \notin Threads
  /\ SpinLimit \in Nat
  /\ MaxCalls \in Nat

VARIABLES
  lock,     \* m->lock
  waiters,  \* m->waiters
  pc,       \* where each thread is
  spin,     \* the local `spin` of its lock() call
  calls     \* calls it has made

vars == <<lock, waiters, pc, spin, calls>>

\* "idle": outside, without the lock      "held": outside, with the lock
\* "try": before the bit-test-and-set     "inc": before waiters is incremented
\* "wait": before WaitOnAddress           "asleep": in it
\* "dec": before waiters is decremented   "check": unlocked, before `waiters > 0`
\* "wake": before WakeByAddressSingle
Locations == {"idle", "try", "inc", "wait", "asleep", "dec", "held", "check", "wake"}

TypeOK ==
  /\ lock \in {0, 1}
  /\ waiters \in Nat
  /\ pc \in [Threads -> Locations]
  /\ spin \in [Threads -> 0..(SpinLimit + 1)]
  /\ calls \in [Threads -> 0..MaxCalls]

Init ==
  /\ lock = 0
  /\ waiters = 0
  /\ pc = [t \in Threads |-> "idle"]
  /\ spin = [t \in Threads |-> 0]
  /\ calls = [t \in Threads |-> 0]

-----------------------------------------------------------------------------
At(t, l) == pc[t] = l

Goto(t, l) == pc' = [pc EXCEPT ![t] = l]

Call(t) == calls[t] < MaxCalls /\ calls' = [calls EXCEPT ![t] = @ + 1]

\* Entry of ebi_mutex_lock.
EnterLock(t) ==
  /\ At(t, "idle")
  /\ Call(t)
  /\ spin' = [spin EXCEPT ![t] = 0]
  /\ Goto(t, "try")
  /\ UNCHANGED <<lock, waiters>>

\* Mutant: the test and the set are two accesses, the test saw the lock free.
AcquireUntested(t) ==
  /\ At(t, "try")
  /\ lock' = 1
  /\ Goto(t, "held")
  /\ UNCHANGED <<waiters, spin, calls>>

AcquireFree(t) ==
  /\ At(t, "try")
  /\ lock = 0
  /\ lock' = 1
  /\ Goto(t, "held")
  /\ UNCHANGED <<waiters, spin, calls>>

\* The bit was set.  `spin` is not reset after a sleep, and counting further
\* than the limit makes no difference.
FailToAcquire(t) ==
  /\ At(t, "try")
  /\ lock = 1
  /\ spin' = [spin EXCEPT ![t] = IF @ > SpinLimit THEN @ ELSE @ + 1]
  /\ Goto(t, IF spin'[t] > SpinLimit THEN "inc" ELSE "try")
  /\ UNCHANGED <<lock, waiters, calls>>

\* Mutant: the increment is missing.
IncWaitersNever(t) ==
  /\ At(t, "inc")
  /\ Goto(t, "wait")
  /\ UNCHANGED <<lock, waiters, spin, calls>>

IncWaiters(t) ==
  /\ At(t, "inc")
  /\ waiters' = waiters + 1
  /\ Goto(t, "wait")
  /\ UNCHANGED <<lock, spin, calls>>

\* Mutant: sleeps whatever the lock is.
SleepAlways(t) ==
  /\ At(t, "wait")
  /\ Goto(t, "asleep")
  /\ UNCHANGED <<lock, waiters, spin, calls>>

\* WaitOnAddress compares the lock with 1 and sleeps in one step.
SleepIfLocked(t) ==
  /\ At(t, "wait")
  /\ Goto(t, IF lock = 1 THEN "asleep" ELSE "dec")
  /\ UNCHANGED <<lock, waiters, spin, calls>>

\* WaitOnAddress may return although nobody woke the thread.
WakeSpuriously(t) ==
  /\ At(t, "asleep")
  /\ Goto(t, "dec")
  /\ UNCHANGED <<lock, waiters, spin, calls>>

\* Mutant: the decrement is missing.
DecWaitersNever(t) ==
  /\ At(t, "dec")
  /\ Goto(t, "try")
  /\ UNCHANGED <<lock, waiters, spin, calls>>

DecWaiters(t) ==
  /\ At(t, "dec")
  /\ waiters' = waiters - 1
  /\ Goto(t, "try")
  /\ UNCHANGED <<lock, spin, calls>>

\* ebi_mutex_try_lock.
TryLock(t) ==
  /\ At(t, "idle")
  /\ Call(t)
  /\ Goto(t, IF lock = 0 THEN "held" ELSE "idle")
  /\ lock' = 1
  /\ UNCHANGED <<waiters, spin>>

\* ebi_mutex_unlock in three steps: the store, the test and the wake-up.
ClearLock(t) ==
  /\ At(t, "held")
  /\ lock' = 0
  /\ Goto(t, "check")
  /\ UNCHANGED <<waiters, spin, calls>>

\* Mutant: wakes only when there are two waiters.
CheckForTwo(t) ==
  /\ At(t, "check")
  /\ Goto(t, IF waiters > 1 THEN "wake" ELSE "idle")
  /\ UNCHANGED <<lock, waiters, spin, calls>>

CheckWaiters(t) ==
  /\ At(t, "check")
  /\ Goto(t, IF waiters > 0 THEN "wake" ELSE "idle")
  /\ UNCHANGED <<lock, waiters, spin, calls>>

\* Wakes any one of the sleeping threads, if there is one.
WakeSingle(t) ==
  /\ At(t, "wake")
  /\ \/ /\ \A s \in Threads : ~At(s, "asleep")
        /\ Goto(t, "idle")
     \/ \E s \in Threads :
          /\ At(s, "asleep")
          /\ pc' = [pc EXCEPT ![t] = "idle", ![s] = "dec"]
  /\ UNCHANGED <<lock, waiters, spin, calls>>

\* What a thread does by itself once it has called lock() or unlock().
Run(t) ==
  \/ AcquireFree(t) \/ FailToAcquire(t) \/ IncWaiters(t) \/ SleepIfLocked(t)
  \/ DecWaiters(t) \/ CheckWaiters(t) \/ WakeSingle(t)

Next ==
  \E t \in Threads :
    EnterLock(t) \/ TryLock(t) \/ ClearLock(t) \/ Run(t) \/ WakeSpuriously(t)

Spec == Init /\ [][Next]_vars

\* A thread that is not asleep runs, and an owner unlocks in the end.  Nothing
\* is assumed of spurious wake-ups, of further calls, or of the order in which
\* the operating system picks sleeping threads.
Fairness == \A t \in Threads : WF_vars(Run(t)) /\ WF_vars(ClearLock(t))

FairSpec == Spec /\ Fairness

-----------------------------------------------------------------------------
owner == IF \E t \in Threads : At(t, "held")
         THEN CHOOSE t \in Threads : At(t, "held")
         ELSE NoOwner

L == INSTANCE Lock

(***************************************************************************)
(* The mutex is a lock: whoever holds it is alone, and nothing but lock(), *)
(* a successful try_lock() and unlock() changes the owner.                 *)
(***************************************************************************)
ImplementsLock == L!LockSpec

MutualExclusion ==
  \A s, t \in Threads : At(s, "held") /\ At(t, "held") => s = t

\* waiters counts the threads between its increment and its decrement.
Counted == {t \in Threads : pc[t] \in {"wait", "asleep", "dec"}}

WaitersExact == waiters = Cardinality(Counted)

\* The lock bit tells whether the mutex is held.
LockedIffHeld == lock = 1 <=> \E t \in Threads : At(t, "held")

(***************************************************************************)
(* No wake-up is lost although unlock() reads `waiters` after it has given *)
(* the lock away: while a thread sleeps, the lock is taken (its owner will *)
(* find the sleeper counted) or some thread is on its way to take it or to *)
(* wake a sleeper.                                                         *)
(***************************************************************************)
NoLostWakeup ==
  (\E t \in Threads : At(t, "asleep")) =>
    \/ lock = 1
    \/ \E t \in Threads : pc[t] \in {"check", "wake", "dec", "try", "inc", "wait"}

(***************************************************************************)
(* Every lock() call returns when the threads make finitely many: nobody   *)
(* sleeps or spins for ever next to a free lock.                           *)
(***************************************************************************)
EveryLockReturns == \A t \in Threads : (pc[t] \notin {"idle", "held"}) ~> At(t, "idle")
=============================================================================
