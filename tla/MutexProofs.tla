---------------------------- MODULE MutexProofs ----------------------------
(***************************************************************************)
(* Proofs about Mutex, for any finite set of threads, any number of calls  *)
(* and any spin limit: mutual exclusion, the waiter count, that no wake-up *)
(* is lost, and that the mutex implements Lock.                            *)
(***************************************************************************)
EXTENDS Mutex, FiniteSetTheorems, TLAPS

\* waiters and the program counters agree, and so do lock and its holder.
IInv ==
  /\ TypeOK
  /\ MutualExclusion
  /\ LockedIffHeld
  /\ WaitersExact
  /\ NoLostWakeup

\* A thread joins or leaves the counted ones, or they stay the same.
LEMMA CountedIsFinite ==
  IsFiniteSet(Counted) /\ Cardinality(Counted) \in Nat
BY MutexAssumption, FS_Subset, FS_CardinalityType DEF Counted

LEMMA CountedGrows ==
  ASSUME WaitersExact, NEW t \in Threads, t \notin Counted, Counted' = Counted \cup {t},
         waiters' = waiters + 1
  PROVE  WaitersExact'
BY CountedIsFinite, FS_AddElement DEF WaitersExact

LEMMA CountedShrinks ==
  ASSUME WaitersExact, NEW t \in Threads, t \in Counted, Counted' = Counted \ {t},
         waiters' = waiters - 1
  PROVE  WaitersExact' /\ waiters' \in Nat
<1>1. Cardinality(Counted \ {t}) = Cardinality(Counted) - 1
  BY CountedIsFinite, FS_RemoveElement
<1>2. IsFiniteSet(Counted \ {t})
  BY CountedIsFinite, FS_Subset
<1>3. Cardinality(Counted \ {t}) \in Nat
  BY <1>2, FS_CardinalityType
<1> QED
  BY <1>1, <1>3 DEF WaitersExact

\* An unlocking thread that finds `waiters` zero leaves nobody asleep.
LEMMA SleepersAreCounted ==
  ASSUME TypeOK, WaitersExact, NEW t \in Threads, At(t, "asleep")
  PROVE  waiters > 0
<1>1. t \in Counted
  BY DEF Counted, At
<1>2. Counted # {}
  BY <1>1
<1>3. Cardinality(Counted) # 0
  BY <1>2, CountedIsFinite, FS_EmptySet
<1> QED
  BY <1>3, CountedIsFinite DEF WaitersExact

-----------------------------------------------------------------------------
LEMMA InitIInv == Init => IInv
<1> SUFFICES ASSUME Init PROVE IInv
  OBVIOUS
<1>1. TypeOK
  BY MutexAssumption DEF Init, TypeOK, Locations
<1>2. Counted = {}
  BY DEF Init, Counted
<1>3. WaitersExact
  BY <1>2, FS_EmptySet DEF Init, WaitersExact
<1> QED
  BY <1>1, <1>3 DEF Init, IInv, MutualExclusion, LockedIffHeld, NoLostWakeup, At

\* A step that moves one thread between places where nothing is counted and
\* the lock is not held.
LEMMA PlainMove ==
  ASSUME IInv, TypeOK', NEW t \in Threads, NEW l, Goto(t, l), UNCHANGED <<lock, waiters>>,
         pc[t] \in Locations \ {"wait", "asleep", "dec", "held"},
         l \in Locations \ {"wait", "asleep", "dec", "held"},
         (\E s \in Threads : At(s, "asleep")) => lock = 1 \/ l \in {"check", "wake", "try", "inc"}
  PROVE  IInv'
<1>1. pc' = [pc EXCEPT ![t] = l] /\ pc \in [Threads -> Locations]
  BY DEF Goto, IInv, TypeOK
<1>2. Counted' = Counted
  BY <1>1 DEF Counted, Locations
<1>3. WaitersExact'
  BY <1>2 DEF IInv, WaitersExact
<1>4. \A s \in Threads : At(s, "held")' <=> At(s, "held")
  BY <1>1 DEF At, Locations
<1>5. MutualExclusion' /\ LockedIffHeld'
  BY <1>4 DEF IInv, MutualExclusion, LockedIffHeld
<1>6. NoLostWakeup'
  <2>1. (\E s \in Threads : At(s, "asleep")') => \E s \in Threads : At(s, "asleep")
    BY <1>1 DEF At, Locations
  <2>2. At(t, l)'
    BY <1>1 DEF At
  <2> QED
    BY <2>1, <2>2 DEF NoLostWakeup, At
<1> QED
  BY <1>3, <1>5, <1>6 DEF IInv

\* A thread takes the free lock.
LEMMA Takes ==
  ASSUME IInv, TypeOK', NEW t \in Threads, Goto(t, "held"), lock = 0, lock' = 1,
         pc[t] \in {"idle", "try"}, UNCHANGED waiters
  PROVE  IInv'
<1>1. pc' = [pc EXCEPT ![t] = "held"] /\ pc \in [Threads -> Locations]
  BY DEF Goto, IInv, TypeOK
<1>2. Counted' = Counted
  BY <1>1 DEF Counted
<1>3. \A s \in Threads : At(s, "held")' => s = t
  BY <1>1 DEF IInv, LockedIffHeld, At
<1>4. At(t, "held")'
  BY <1>1 DEF At
<1> QED
  BY <1>2, <1>3, <1>4 DEF IInv, MutualExclusion, LockedIffHeld, WaitersExact, NoLostWakeup

LEMMA NextIInv == IInv /\ [Next]_vars => IInv'
<1> SUFFICES ASSUME IInv, [Next]_vars PROVE IInv'
  OBVIOUS
<1>a. TypeOK /\ pc \in [Threads -> Locations] /\ waiters \in Nat
  BY DEF IInv, TypeOK
<1>1. ASSUME NEW t \in Threads, EnterLock(t) PROVE IInv'
  <2>1. TypeOK'
    BY <1>1, MutexAssumption DEF IInv, TypeOK, EnterLock, Goto, Call, Locations
  <2> QED
    BY <1>1, <2>1, PlainMove DEF EnterLock, At, Locations
<1>2. ASSUME NEW t \in Threads, AcquireFree(t) PROVE IInv'
  <2>1. TypeOK'
    BY <1>2 DEF IInv, TypeOK, AcquireFree, Goto, Locations
  <2> QED
    BY <1>2, <2>1, Takes DEF AcquireFree, At
<1>3. ASSUME NEW t \in Threads, FailToAcquire(t) PROVE IInv'
  <2>1. TypeOK'
    BY <1>3, MutexAssumption DEF IInv, TypeOK, FailToAcquire, Goto, Locations
  <2> QED
    BY <1>3, <2>1, PlainMove DEF FailToAcquire, At, Locations
<1>4. ASSUME NEW t \in Threads, IncWaiters(t) PROVE IInv'
  <2>1. TypeOK'
    BY <1>4 DEF IInv, TypeOK, IncWaiters, Goto, Locations
  <2>2. pc' = [pc EXCEPT ![t] = "wait"] /\ pc[t] = "inc" /\ lock' = lock
    BY <1>4 DEF IncWaiters, Goto, At
  <2>3. WaitersExact'
    <3>1. t \notin Counted /\ Counted' = Counted \cup {t}
      BY <1>a, <2>2 DEF Counted
    <3> QED
      BY <1>4, <3>1, CountedGrows DEF IncWaiters, IInv
  <2>4. MutualExclusion' /\ LockedIffHeld'
    BY <1>a, <2>2 DEF IInv, MutualExclusion, LockedIffHeld, At
  <2>5. At(t, "wait")'
    BY <1>a, <2>2 DEF At
  <2> QED
    BY <2>1, <2>3, <2>4, <2>5 DEF IInv, NoLostWakeup, At
<1>5. ASSUME NEW t \in Threads, SleepIfLocked(t) PROVE IInv'
  <2>1. TypeOK'
    BY <1>5 DEF IInv, TypeOK, SleepIfLocked, Goto, Locations
  <2>2. /\ pc' = [pc EXCEPT ![t] = IF lock = 1 THEN "asleep" ELSE "dec"]
        /\ pc[t] = "wait" /\ lock' = lock /\ waiters' = waiters
    BY <1>5 DEF SleepIfLocked, Goto, At
  <2>3. Counted' = Counted
    BY <1>a, <2>2 DEF Counted
  <2>4. MutualExclusion' /\ LockedIffHeld'
    BY <1>a, <2>2 DEF IInv, MutualExclusion, LockedIffHeld, At
  <2>5. NoLostWakeup'
    BY <1>a, <2>2 DEF NoLostWakeup, At
  <2> QED
    BY <2>1, <2>2, <2>3, <2>4, <2>5 DEF IInv, WaitersExact
<1>6. ASSUME NEW t \in Threads, WakeSpuriously(t) PROVE IInv'
  <2>1. TypeOK'
    BY <1>6 DEF IInv, TypeOK, WakeSpuriously, Goto, Locations
  <2>2. /\ pc' = [pc EXCEPT ![t] = "dec"] /\ pc[t] = "asleep"
        /\ lock' = lock /\ waiters' = waiters
    BY <1>6 DEF WakeSpuriously, Goto, At
  <2>3. Counted' = Counted
    BY <1>a, <2>2 DEF Counted
  <2>4. MutualExclusion' /\ LockedIffHeld' /\ NoLostWakeup'
    BY <1>a, <2>2 DEF IInv, MutualExclusion, LockedIffHeld, NoLostWakeup, At
  <2> QED
    BY <2>1, <2>2, <2>3, <2>4 DEF IInv, WaitersExact
<1>7. ASSUME NEW t \in Threads, DecWaiters(t) PROVE IInv'
  <2>1. /\ pc' = [pc EXCEPT ![t] = "try"] /\ pc[t] = "dec"
        /\ lock' = lock /\ waiters' = waiters - 1 /\ UNCHANGED <<spin, calls>>
    BY <1>7 DEF DecWaiters, Goto, At
  <2>2. t \in Counted /\ Counted' = Counted \ {t}
    BY <1>a, <2>1 DEF Counted
  <2>3. WaitersExact' /\ waiters' \in Nat
    BY <2>1, <2>2, CountedShrinks DEF IInv
  <2>4. TypeOK'
    BY <2>1, <2>3 DEF IInv, TypeOK, Locations
  <2>5. MutualExclusion' /\ LockedIffHeld' /\ NoLostWakeup'
    BY <1>a, <2>1 DEF IInv, MutualExclusion, LockedIffHeld, NoLostWakeup, At
  <2> QED
    BY <2>3, <2>4, <2>5 DEF IInv
<1>8. ASSUME NEW t \in Threads, TryLock(t) PROVE IInv'
  <2>1. TypeOK'
    BY <1>8, MutexAssumption DEF IInv, TypeOK, TryLock, Goto, Call, Locations
  <2>2. CASE lock = 0
    BY <1>8, <2>1, <2>2, Takes DEF TryLock, At
  <2>3. CASE lock = 1
    BY <1>8, <2>1, <2>3, PlainMove DEF TryLock, At, Locations
  <2> QED
    BY <1>a, <2>2, <2>3 DEF TypeOK
<1>9. ASSUME NEW t \in Threads, ClearLock(t) PROVE IInv'
  <2>1. TypeOK'
    BY <1>9 DEF IInv, TypeOK, ClearLock, Goto, Locations
  <2>2. pc' = [pc EXCEPT ![t] = "check"] /\ pc[t] = "held" /\ lock' = 0 /\ waiters' = waiters
    BY <1>9 DEF ClearLock, Goto, At
  <2>3. Counted' = Counted
    BY <1>a, <2>2 DEF Counted
  <2>4. \A s \in Threads : ~At(s, "held")'
    BY <1>a, <2>2 DEF IInv, MutualExclusion, At
  <2>5. At(t, "check")'
    BY <1>a, <2>2 DEF At
  <2> QED
    BY <2>1, <2>2, <2>3, <2>4, <2>5
       DEF IInv, MutualExclusion, LockedIffHeld, WaitersExact, NoLostWakeup, At
<1>10. ASSUME NEW t \in Threads, CheckWaiters(t) PROVE IInv'
  <2>1. TypeOK'
    BY <1>10 DEF IInv, TypeOK, CheckWaiters, Goto, Locations
  <2>2. (\E s \in Threads : At(s, "asleep")) => waiters > 0
    BY SleepersAreCounted DEF IInv
  <2> QED
    BY <1>10, <2>1, <2>2, PlainMove DEF CheckWaiters, At, Locations
<1>11. ASSUME NEW t \in Threads, WakeSingle(t) PROVE IInv'
  <2>1. CASE \A s \in Threads : ~At(s, "asleep")
    <3>1. Goto(t, "idle")
      BY <1>11, <2>1 DEF WakeSingle
    <3>2. TypeOK'
      BY <1>11, <3>1 DEF IInv, TypeOK, WakeSingle, Goto, Locations
    <3> QED
      BY <1>11, <2>1, <3>1, <3>2, PlainMove DEF WakeSingle, At, Locations
  <2>2. ASSUME NEW s \in Threads, At(s, "asleep"),
               pc' = [pc EXCEPT ![t] = "idle", ![s] = "dec"]
        PROVE  IInv'
    <3>1. /\ pc[s] = "asleep" /\ pc[t] = "wake" /\ s # t
          /\ lock' = lock /\ waiters' = waiters /\ UNCHANGED <<spin, calls>>
      BY <1>11, <2>2 DEF WakeSingle, At
    <3>2. pc' \in [Threads -> Locations] /\ pc'[t] = "idle" /\ pc'[s] = "dec"
          /\ \A u \in Threads \ {s, t} : pc'[u] = pc[u]
      BY <1>a, <2>2, <3>1 DEF Locations
    <3>3. TypeOK'
      BY <3>1, <3>2 DEF IInv, TypeOK
    <3>4. Counted' = Counted
      BY <3>1, <3>2 DEF Counted
    <3>5. MutualExclusion' /\ LockedIffHeld' /\ NoLostWakeup'
      BY <3>1, <3>2 DEF IInv, MutualExclusion, LockedIffHeld, NoLostWakeup, At
    <3> QED
      BY <3>1, <3>3, <3>4, <3>5 DEF IInv, WaitersExact
  <2> QED
    BY <1>11, <2>1, <2>2 DEF WakeSingle
<1>12. CASE UNCHANGED vars
  BY <1>12 DEF vars, IInv, TypeOK, MutualExclusion, LockedIffHeld, WaitersExact, Counted,
     NoLostWakeup, At
<1> QED
  BY <1>1, <1>2, <1>3, <1>4, <1>5, <1>6, <1>7, <1>8, <1>9, <1>10, <1>11, <1>12
     DEF Next, Run

-----------------------------------------------------------------------------
(***************************************************************************)
(* The inductive invariant holds whatever the threads call.                *)
(***************************************************************************)
THEOREM Invariance == Spec => []IInv
BY InitIInv, NextIInv, PTL DEF Spec

(***************************************************************************)
(* The two words of the mutex and every thread's place in its functions    *)
(* are what the code can hold; above all the unsigned waiters is never     *)
(* decremented below zero.                                                 *)
(***************************************************************************)
THEOREM TypeCorrect == Spec => []TypeOK
<1>1. IInv => TypeOK
  BY DEF IInv
<1> QED
  BY <1>1, Invariance, PTL

(***************************************************************************)
(* At most one thread is between lock() and unlock().                      *)
(***************************************************************************)
THEOREM MutexExcludes == Spec => []MutualExclusion
<1>1. IInv => MutualExclusion
  BY DEF IInv
<1> QED
  BY <1>1, Invariance, PTL

(***************************************************************************)
(* m->waiters is the number of threads that have announced they sleep.     *)
(***************************************************************************)
THEOREM WaitersAreCounted == Spec => []WaitersExact
<1>1. IInv => WaitersExact
  BY DEF IInv
<1> QED
  BY <1>1, Invariance, PTL

(***************************************************************************)
(* No thread sleeps next to a free lock with nobody about to wake it.      *)
(***************************************************************************)
THEOREM NoWakeupIsLost == Spec => []NoLostWakeup
<1>1. IInv => NoLostWakeup
  BY DEF IInv
<1> QED
  BY <1>1, Invariance, PTL

\* The owner is the thread that holds the lock, if one does.
OwnerIsHolder ==
  /\ \A t \in Threads : At(t, "held") => owner = t
  /\ (\A t \in Threads : ~At(t, "held")) => owner = NoOwner

LEMMA OwnerHolds == MutualExclusion => OwnerIsHolder
<1> SUFFICES ASSUME MutualExclusion PROVE OwnerIsHolder
  OBVIOUS
<1>1. ASSUME NEW t \in Threads, At(t, "held") PROVE owner = t
  <2>1. owner = CHOOSE s \in Threads : At(s, "held")
    BY <1>1 DEF owner
  <2>2. owner \in Threads /\ At(owner, "held")
    BY <1>1, <2>1
  <2> QED
    BY <1>1, <2>2 DEF MutualExclusion
<1>2. ASSUME \A t \in Threads : ~At(t, "held") PROVE owner = NoOwner
  BY <1>2 DEF owner
<1> QED
  BY <1>1, <1>2 DEF OwnerIsHolder

\* Steps that leave everybody inside or outside leave the owner alone.
LEMMA SameOwner ==
  ASSUME MutualExclusion, MutualExclusion',
         \A t \in Threads : At(t, "held")' <=> At(t, "held")
  PROVE  owner' = owner
<1>1. OwnerIsHolder /\ OwnerIsHolder'
  BY OwnerHolds, PTL
<1> QED
  BY <1>1 DEF OwnerIsHolder

(***************************************************************************)
(* The mutex implements Lock: lock() and a successful try_lock() take the  *)
(* lock when nobody has it, unlock() gives it back, and no other step      *)
(* changes the owner.                                                      *)
(***************************************************************************)
THEOREM MutexImplementsLock == Spec => ImplementsLock
<1>1. Init => L!LockInit
  BY DEF Init, L!LockInit, owner, At
<1>2. IInv /\ IInv' /\ [Next]_vars => [L!LockNext]_owner
  <2> SUFFICES ASSUME IInv, IInv', [Next]_vars PROVE L!LockNext \/ owner' = owner
    OBVIOUS
  <2>a. pc \in [Threads -> Locations] /\ MutualExclusion /\ MutualExclusion' /\ LockedIffHeld
    BY DEF IInv, TypeOK
  <2>b. OwnerIsHolder /\ OwnerIsHolder'
    BY <2>a, OwnerHolds, PTL
  <2>1. ASSUME NEW t \in Threads, lock = 0, Goto(t, "held") PROVE L!LockNext
    <3>1. owner = NoOwner
      BY <2>a, <2>b, <2>1 DEF LockedIffHeld, OwnerIsHolder
    <3>2. At(t, "held")'
      BY <2>a, <2>1 DEF Goto, At
    <3> QED
      BY <2>b, <3>1, <3>2 DEF L!LockNext, L!Acquire, OwnerIsHolder
  <2>2. ASSUME NEW t \in Threads, ClearLock(t) PROVE L!LockNext
    <3>1. owner = t
      BY <2>b, <2>2 DEF ClearLock, OwnerIsHolder
    <3>2. \A s \in Threads : ~At(s, "held")'
      BY <2>a, <2>2 DEF ClearLock, Goto, At, MutualExclusion
    <3> QED
      BY <2>b, <3>1, <3>2 DEF L!LockNext, L!Release, OwnerIsHolder
  <2>3. ASSUME NEW t \in Threads, NEW l, Goto(t, l), l # "held", ~At(t, "held")
        PROVE  owner' = owner
    <3>1. \A s \in Threads : At(s, "held")' <=> At(s, "held")
      BY <2>a, <2>3 DEF Goto, At
    <3> QED
      BY <2>a, <3>1, SameOwner
  <2>4. ASSUME NEW t \in Threads, AcquireFree(t) PROVE L!LockNext
    BY <2>1, <2>4 DEF AcquireFree
  <2>5. ASSUME NEW t \in Threads, TryLock(t) PROVE L!LockNext \/ owner' = owner
    <3>1. CASE lock = 0
      BY <2>1, <2>5, <3>1 DEF TryLock
    <3>2. CASE lock # 0
      BY <2>3, <2>5, <3>2 DEF TryLock, At
    <3> QED
      BY <3>1, <3>2
  <2>6. ASSUME NEW t \in Threads, EnterLock(t) PROVE owner' = owner
    BY <2>3, <2>6 DEF EnterLock, At
  <2>7. ASSUME NEW t \in Threads, FailToAcquire(t) PROVE owner' = owner
    BY <2>3, <2>7 DEF FailToAcquire, At
  <2>8. ASSUME NEW t \in Threads, IncWaiters(t) PROVE owner' = owner
    BY <2>3, <2>8 DEF IncWaiters, At
  <2>9. ASSUME NEW t \in Threads, SleepIfLocked(t) PROVE owner' = owner
    BY <2>3, <2>9 DEF SleepIfLocked, At
  <2>10. ASSUME NEW t \in Threads, WakeSpuriously(t) PROVE owner' = owner
    BY <2>3, <2>10 DEF WakeSpuriously, At
  <2>11. ASSUME NEW t \in Threads, DecWaiters(t) PROVE owner' = owner
    BY <2>3, <2>11 DEF DecWaiters, At
  <2>12. ASSUME NEW t \in Threads, CheckWaiters(t) PROVE owner' = owner
    BY <2>3, <2>12 DEF CheckWaiters, At
  <2>13. ASSUME NEW t \in Threads, WakeSingle(t) PROVE owner' = owner
    <3>1. \A s \in Threads : At(s, "held")' <=> At(s, "held")
      BY <2>a, <2>13 DEF WakeSingle, Goto, At
    <3> QED
      BY <2>a, <3>1, SameOwner
  <2>14. CASE UNCHANGED vars
    BY <2>14 DEF vars, owner, At
  <2> QED
    BY <2>2, <2>4, <2>5, <2>6, <2>7, <2>8, <2>9, <2>10, <2>11, <2>12, <2>13, <2>14
       DEF Next, Run
<1> QED
  BY <1>1, <1>2, Invariance, PTL DEF Spec, ImplementsLock, L!LockSpec
=============================================================================
