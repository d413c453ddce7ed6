------------------------ MODULE ThreadBarrierProofs ------------------------
(***************************************************************************)
(* Proofs about ThreadBarrier, for any number of threads, any width of the *)
(* generation and any number of barriers, whether or not the collector     *)
(* locks itself.                                                           *)
(*                                                                         *)
(* The argument: while the barrier goes round, the threads are split into  *)
(* those that are up to date and those that are late.  Late ones may still *)
(* run, with the old generation; one that is up to date is at the closed   *)
(* fence or has its mutex held by the barrier.                             *)
(*                                                                         *)
(* Where the collector does not lock itself, who has a mutex is known as   *)
(* well, and then nobody waits in a circle.                                *)
(***************************************************************************)
EXTENDS ThreadBarrier, TLAPS

\* The barrier goes from thread to thread.
Rounding == pc[Collector] \in {"lock", "sync"}

\* The threads whose mutex the barrier has taken and not given back.
Held ==
  {t \in Threads : \/ At(Collector, "lock") /\ t < index
                   \/ At(Collector, "sync") /\ t <= index
                   \/ At(Collector, "release") /\ t >= index}

UpToDate(t) == et[t].checkpoint = vm.checkpoint

\* Where a mutator owns its mutex.
OwnerSteps ==
  {"compare", "flush", "copygen", "copycheckpoint", "unlock", "run", "leave"}

\* The collector is never late, so its checkpoints return at once.
CollectorPlaces == StepSteps \cup BarrierSteps \cup {"compare"}
MutatorPlaces == CheckpointSteps \cup MutatorSteps

InPlace ==
  /\ pc \in [Threads -> Locations]
  /\ pc[Collector] \in CollectorPlaces
  /\ \A t \in Mutators : pc[t] \in MutatorPlaces

Places ==
  /\ InPlace
  /\ ret[Collector] = "mark"
  /\ \A t \in Mutators : ret[t] \in {"run", "leave"}

Bounds ==
  /\ pc[Collector] \in {"compare", "mark", "stage", "close", "publish", "count"} =>
       vm.checkpoint < MaxBarriers
  /\ pc[Collector] \in {"lock", "sync", "release"} => index <= NumThreads

FenceClosed ==
  /\ pc[Collector] \in {"publish", "count", "lock", "sync", "release", "open"} => fence = 1
  /\ pc[Collector] \in {"count", "lock", "sync"} => vm.fenced

MutexesOwned ==
  /\ \A t \in Mutators : pc[t] \in OwnerSteps => mutex[t] = t
  /\ \A t \in Held : mutex[t] = Collector

LateOnlyWhileRounding ==
  /\ \A t \in Threads : et[t].checkpoint \in {vm.checkpoint - 1, vm.checkpoint}
  /\ ~Rounding => \A t \in Threads : UpToDate(t)
  /\ Rounding => \A t \in Threads : t < index => UpToDate(t)

GensUpToDate ==
  ~At(Collector, "count") => \A t \in Threads : UpToDate(t) => et[t].gen = vm.gen

Synchronizing ==
  \A t \in Mutators :
    /\ pc[t] \in {"flush", "copygen", "copycheckpoint"} => ~UpToDate(t)
    /\ At(t, "copycheckpoint") => et[t].gen = vm.gen

HasOldGen(t) ==
  At(Collector, "count") \/ (~UpToDate(t) /\ ~At(t, "copycheckpoint"))

OldGensAgree ==
  \A s, t \in Threads : HasOldGen(s) /\ HasOldGen(t) => et[s].gen = et[t].gen

UpToDateStopped ==
  Rounding => \A t \in Threads :
    UpToDate(t) => t \in Held \/ pc[t] \in {"unlock", "test", "wait", "asleep"}

IInv ==
  /\ TypeOK /\ Places /\ Bounds /\ FenceClosed /\ MutexesOwned
  /\ LateOnlyWhileRounding /\ GensUpToDate /\ Synchronizing
  /\ OldGensAgree /\ UpToDateStopped

-----------------------------------------------------------------------------
USE DEF Threads, Mutators, At

\* What vm and an ebi_thread are.
VmRecord == [checkpoint : 0..MaxBarriers, gen : 1..MaxGen, fenced : BOOLEAN, stage : Stages]
ThreadRecord == [checkpoint : 0..MaxBarriers, gen : 1..MaxGen]

LEMMA SetGen ==
  ASSUME NEW f \in [Threads -> ThreadRecord], NEW t \in Threads, NEW g \in 1..MaxGen
  PROVE /\ [f EXCEPT ![t].gen = g] \in [Threads -> ThreadRecord]
        /\ [f EXCEPT ![t].gen = g][t].checkpoint = f[t].checkpoint
        /\ [f EXCEPT ![t].gen = g][t].gen = g
        /\ \A s \in Threads \ {t} : [f EXCEPT ![t].gen = g][s] = f[s]
  BY DEF ThreadRecord

LEMMA InitInv == Init => IInv
<1> SUFFICES ASSUME Init PROVE IInv
  OBVIOUS
<1> USE BarrierAssumption DEF Init
<1>1. TypeOK
  BY DEF TypeOK, Locations, CheckpointSteps, MutatorSteps, StepSteps, Stages, None
<1>2. Places
  BY <1>1 DEF Places, InPlace, CollectorPlaces, MutatorPlaces, StepSteps, MutatorSteps, TypeOK
<1>5. Bounds /\ FenceClosed
  BY DEF Bounds, FenceClosed
<1>3. MutexesOwned
  BY DEF MutexesOwned, OwnerSteps, Held
<1>4. LateOnlyWhileRounding /\ GensUpToDate /\ Synchronizing /\ OldGensAgree /\ UpToDateStopped
  BY DEF LateOnlyWhileRounding, GensUpToDate, Synchronizing, OldGensAgree, UpToDateStopped,
         HasOldGen, UpToDate, Rounding
<1> QED BY <1>1, <1>2, <1>3, <1>4, <1>5 DEF IInv

-----------------------------------------------------------------------------
(***************************************************************************)
(* Types and places.  A step moves one thread, the mutators among their    *)
(* own locations and the collector among its own.                          *)
(***************************************************************************)
LEMMA MutatorGoes ==
  ASSUME InPlace, NEW t \in Mutators, NEW l \in MutatorPlaces, Goto(t, l)
  PROVE  InPlace'
<1>1. MutatorPlaces \subseteq Locations
  BY DEF MutatorPlaces, Locations
<1> QED BY <1>1, BarrierAssumption DEF InPlace, Goto

LEMMA CollectorGoes ==
  ASSUME InPlace, NEW l \in CollectorPlaces, Goto(Collector, l)
  PROVE  InPlace'
<1>1. CollectorPlaces \subseteq Locations
  BY DEF CollectorPlaces, Locations, CheckpointSteps
<1> QED BY <1>1, BarrierAssumption DEF InPlace, Goto

\* A step that leaves ret alone, and one that does not.
LEMMA TypesOfStep ==
  ASSUME IInv, InPlace', ret' = ret,
         vm' \in VmRecord, fence' \in {0, 1}, mutex' \in [Threads -> Threads \cup {None}],
         et' \in [Threads -> ThreadRecord], spin' \in [Threads -> 0..(FenceSpin + 1)],
         index' \in 1..(NumThreads + 1)
  PROVE  TypeOK' /\ Places'
<1>1. TypeOK'
  BY DEF IInv, TypeOK, InPlace, VmRecord, ThreadRecord
<1>2. Places'
  BY DEF IInv, Places
<1> QED BY <1>1, <1>2

\* What TypeOK says of a single variable.
LEMMA TypesOfState ==
  ASSUME IInv
  PROVE  /\ vm \in VmRecord /\ fence \in {0, 1} /\ mutex \in [Threads -> Threads \cup {None}]
         /\ et \in [Threads -> ThreadRecord] /\ pc \in [Threads -> Locations]
         /\ ret \in [Threads -> {"run", "leave", "mark"}]
         /\ spin \in [Threads -> 0..(FenceSpin + 1)] /\ index \in 1..(NumThreads + 1)
         /\ InPlace
  BY DEF IInv, TypeOK, Places, VmRecord, ThreadRecord

LEMMA MutatorTypes ==
  ASSUME IInv, NEW t \in Mutators, LockThread(t) \/ CallCheckpoint(t) \/ UnlockThread(t)
  PROVE TypeOK' /\ Places'
<1> USE TypesOfState DEF MutatorPlaces, CheckpointSteps, MutatorSteps
<1>1. InPlace'
  BY MutatorGoes DEF LockThread, CallCheckpoint, UnlockThread
<1>2. CASE \E l \in {"run", "leave"} : ret' = [ret EXCEPT ![t] = l]
  <2>1. mutex' \in [Threads -> Threads \cup {None}] /\ UNCHANGED <<vm, fence, et, spin, index>>
    BY DEF LockThread, CallCheckpoint, UnlockThread, Acquire, Unlock, None
  <2>2. ret' \in [Threads -> {"run", "leave", "mark"}]
    BY <1>2
  <2>3. TypeOK'
    BY <1>1, <2>1, <2>2 DEF IInv, TypeOK, InPlace
  <2>4. Places'
    BY <1>1, <1>2, BarrierAssumption DEF IInv, Places
  <2> QED BY <2>3, <2>4
<1>3. CASE UnlockThread(t)
  <2>1. mutex' \in [Threads -> Threads \cup {None}] /\ UNCHANGED <<vm, fence, et, ret, spin, index>>
    BY <1>3 DEF UnlockThread, Unlock, None
  <2> QED BY <1>1, <2>1, TypesOfStep
<1> QED BY <1>2, <1>3 DEF LockThread, CallCheckpoint

LEMMA CheckpointTypes ==
  ASSUME IInv, NEW t \in Mutators, Checkpoint(t)
  PROVE TypeOK' /\ Places'
<1> USE TypesOfState
<1>1. \E l \in MutatorPlaces : Goto(t, l)
  <2>1. ret[t] \in MutatorPlaces
    BY DEF IInv, Places, MutatorPlaces, MutatorSteps
  <2>2. {"flush", "copygen", "copycheckpoint", "unlock", "test", "relock", "wait", "asleep"}
          \subseteq MutatorPlaces
    BY DEF MutatorPlaces, CheckpointSteps
  <2> QED BY <2>1, <2>2 DEF Checkpoint, Compare, Flush, CopyGen, CopyCheckpoint, UnlockAtFence,
             TestFence, WaitOnFence, Relock
<1>2. InPlace'
  BY <1>1, MutatorGoes
<1>3. UNCHANGED <<vm, fence, ret, index>>
  BY DEF Checkpoint, Compare, Flush, CopyGen, CopyCheckpoint, UnlockAtFence,
         TestFence, WaitOnFence, Relock
<1>4. mutex' \in [Threads -> Threads \cup {None}]
  BY DEF Checkpoint, Compare, Flush, CopyGen, CopyCheckpoint, UnlockAtFence,
         TestFence, WaitOnFence, Relock, Acquire, Unlock, None
<1>5. et' \in [Threads -> ThreadRecord]
  <2>1. CASE CopyGen(t)
    BY <2>1, SetGen DEF CopyGen, VmRecord
  <2>2. CASE CopyCheckpoint(t)
    BY <2>2 DEF CopyCheckpoint, VmRecord, ThreadRecord
  <2>3. CASE et' = et
    BY <2>3
  <2> QED BY <2>1, <2>2, <2>3 DEF Checkpoint, Compare, Flush, UnlockAtFence, TestFence,
             WaitOnFence, Relock
<1>6. spin' \in [Threads -> 0..(FenceSpin + 1)]
  <2> DEFINE n == IF spin[t] > FenceSpin THEN spin[t] ELSE spin[t] + 1
  <2>1. 0 \in 0..(FenceSpin + 1) /\ n \in 0..(FenceSpin + 1)
    <3>1. FenceSpin \in Nat /\ spin[t] \in 0..(FenceSpin + 1)
      BY BarrierAssumption
    <3> QED BY ONLY <3>1, SMT
  <2>2. \/ spin' = spin \/ spin' = [spin EXCEPT ![t] = 0] \/ spin' = [spin EXCEPT ![t] = n]
    BY DEF Checkpoint, Compare, Flush, CopyGen, CopyCheckpoint, UnlockAtFence,
           TestFence, WaitOnFence, Relock
  <2> HIDE DEF n
  <2> QED BY <2>1, <2>2
<1> QED BY <1>2, <1>3, <1>4, <1>5, <1>6, TypesOfStep

\* The collector's checkpoint returns at once: it is never late there.
LEMMA CollectorChecks ==
  ASSUME IInv, Checkpoint(Collector)
  PROVE  /\ At(Collector, "compare") /\ Goto(Collector, "mark")
         /\ UNCHANGED <<vm, fence, mutex, et, ret, spin, index>>
<1>1. pc[Collector] \notin CheckpointSteps \ {"compare"}
  BY TypesOfState DEF InPlace, CollectorPlaces, StepSteps, BarrierSteps, CheckpointSteps
<1>2. Compare(Collector)
  BY <1>1 DEF Checkpoint, CheckpointSteps, Flush, CopyGen, CopyCheckpoint, UnlockAtFence,
       TestFence, WaitOnFence, Relock
<1>3. UpToDate(Collector) /\ ret[Collector] = "mark"
  BY <1>2, BarrierAssumption DEF Compare, IInv, LateOnlyWhileRounding, Rounding, Places
<1> QED BY <1>2, <1>3 DEF Compare, UpToDate

LEMMA StepTypes ==
  ASSUME IInv, \/ Checkpoint(Collector) \/ CallStep(Collector) \/ MarkAndSweep(Collector)
               \/ AdvanceStage(Collector)
  PROVE TypeOK' /\ Places'
<1> USE TypesOfState
<1>1. \E l \in {"mark", "compare", "stage", "idle", "close"} : Goto(Collector, l)
  BY CollectorChecks DEF CallStep, MarkAndSweep, AdvanceStage
<1>2. InPlace'
  BY <1>1, CollectorGoes DEF CollectorPlaces, StepSteps, BarrierSteps
<1>3. UNCHANGED <<fence, mutex, et, ret, spin, index>>
  BY CollectorChecks DEF CallStep, MarkAndSweep, AdvanceStage
<1>4. vm' \in VmRecord
  <2>1. CASE AdvanceStage(Collector)
    BY <2>1 DEF AdvanceStage, VmRecord, Stages
  <2>2. CASE vm' = vm
    BY <2>2
  <2> QED BY <2>1, <2>2, CollectorChecks DEF CallStep, MarkAndSweep
<1> QED BY <1>2, <1>3, <1>4, TypesOfStep

LEMMA BarrierTypes ==
  ASSUME IInv, Barrier(Collector)
  PROVE TypeOK' /\ Places'
<1> USE TypesOfState
<1>1. CASE CloseFence(Collector)
  <2>1. InPlace'
    BY <1>1, CollectorGoes DEF CloseFence, CollectorPlaces, BarrierSteps
  <2> QED BY <1>1, <2>1, TypesOfStep DEF CloseFence
<1>2. CASE Publish(Collector)
  <2>1. InPlace'
    BY <1>2, CollectorGoes DEF Publish, CollectorPlaces, BarrierSteps
  <2> DEFINE g == IF vm.gen = MaxGen THEN 1 ELSE vm.gen + 1
  <2>2. g \in 1..MaxGen
    <3>1. vm.gen \in 1..MaxGen /\ MaxGen \in Nat \ {0, 1}
      BY BarrierAssumption DEF VmRecord
    <3> QED BY ONLY <3>1, SMT
  <2>3. vm' = [vm EXCEPT !.fenced = TRUE, !.gen = g]
    BY ONLY <1>2, Zenon DEF Publish
  <2> HIDE DEF g
  <2>4. vm' \in VmRecord
    BY <2>2, <2>3, Zenon DEF VmRecord
  <2> QED BY <1>2, <2>1, <2>4, TypesOfStep DEF Publish
<1>3. CASE Count(Collector)
  <2>1. InPlace'
    BY <1>3, CollectorGoes DEF Count, CollectorPlaces, BarrierSteps
  <2>2. vm.checkpoint + 1 \in 0..MaxBarriers
    BY <1>3, BarrierAssumption DEF Count, IInv, Bounds, VmRecord
  <2>3. vm' \in VmRecord
    BY <1>3, <2>2 DEF Count, VmRecord
  <2>4. index' \in 1..(NumThreads + 1)
    BY <1>3, BarrierAssumption DEF Count
  <2> QED BY <1>3, <2>1, <2>3, <2>4, TypesOfStep DEF Count
<1>4. CASE LockOther(Collector)
  <2>1. InPlace'
    BY <1>4, CollectorGoes DEF LockOther, CollectorPlaces, BarrierSteps
  <2>2. mutex' \in [Threads -> Threads \cup {None}]
    BY <1>4, BarrierAssumption DEF LockOther, Acquire
  <2> QED BY <1>4, <2>1, <2>2, TypesOfStep DEF LockOther
<1>5. CASE SyncOther(Collector)
  <2>1. index \in 1..NumThreads /\ NumThreads \in Nat
    BY <1>5, BarrierAssumption DEF SyncOther, IInv, Bounds
  <2>2. et' \in [Threads -> ThreadRecord]
    BY <1>5, <2>1 DEF SyncOther, ThreadRecord, VmRecord
  <2>3. index' \in 1..(NumThreads + 1)
    <3>1. (index < NumThreads /\ index' = index + 1) \/ index' = 1
      BY <1>5 DEF SyncOther
    <3> QED BY ONLY <2>1, <3>1, SMT
  <2>4. \E l \in {"lock", "release"} : Goto(Collector, l)
    BY <1>5 DEF SyncOther
  <2>5. InPlace'
    BY <2>4, CollectorGoes DEF CollectorPlaces, BarrierSteps
  <2> QED BY <1>5, <2>2, <2>3, <2>5, TypesOfStep DEF SyncOther
<1>6. CASE ReleaseOther(Collector)
  <2>1. index \in 1..NumThreads /\ index' = index + 1
    BY <1>6, BarrierAssumption DEF ReleaseOther, IInv, Bounds
  <2>2. \E l \in {"release", "open"} : Goto(Collector, l)
    BY <1>6 DEF ReleaseOther
  <2>3. InPlace'
    BY <2>2, CollectorGoes DEF CollectorPlaces, BarrierSteps
  <2>4. mutex' \in [Threads -> Threads \cup {None}]
    BY <1>6 DEF ReleaseOther, Unlock, None
  <2>5. index' \in 1..(NumThreads + 1)
    BY <2>1, BarrierAssumption
  <2> QED BY <1>6, <2>3, <2>4, <2>5, TypesOfStep DEF ReleaseOther
<1>7. CASE OpenFence(Collector)
  <2>1. InPlace'
    BY <1>7, CollectorGoes DEF OpenFence, CollectorPlaces, BarrierSteps
  <2> QED BY <1>7, <2>1, TypesOfStep DEF OpenFence
<1>8. CASE WakeAll(Collector)
  <2>1. "finish" \in CollectorPlaces /\ "test" \in MutatorPlaces
        /\ "finish" \in Locations /\ "test" \in Locations
    BY DEF CollectorPlaces, MutatorPlaces, Locations, BarrierSteps, CheckpointSteps
  <2>2. InPlace'
    BY <1>8, <2>1, BarrierAssumption DEF WakeAll, InPlace
  <2> QED BY <1>8, <2>2, TypesOfStep DEF WakeAll
<1>9. CASE Finish(Collector)
  <2>1. InPlace'
    BY <1>9, CollectorGoes DEF Finish, CollectorPlaces, StepSteps
  <2>2. vm' \in VmRecord
    BY <1>9 DEF Finish, VmRecord, Stages
  <2> QED BY <1>9, <2>1, <2>2, TypesOfStep DEF Finish
<1> QED BY <1>1, <1>2, <1>3, <1>4, <1>5, <1>6, <1>7, <1>8, <1>9 DEF Barrier

-----------------------------------------------------------------------------
(***************************************************************************)
(* A step of one mutator that copies nothing.  What it has to respect: the *)
(* mutexes the barrier holds, that it synchronizes only when it is late,   *)
(* and that it stays stopped when it is not.                               *)
(***************************************************************************)
LEMMA MutatorMoves ==
  ASSUME IInv, TypeOK', Places', NEW t \in Mutators,
         UNCHANGED <<vm, fence, et, index>>,
         \A s \in Threads \ {t} : pc'[s] = pc[s] /\ mutex'[s] = mutex[s],
         ~At(t, "copycheckpoint"), pc'[t] # "copycheckpoint",
         pc'[t] \in OwnerSteps => mutex'[t] = t,
         t \in Held => mutex'[t] = mutex[t],
         pc'[t] \in {"flush", "copygen"} => ~UpToDate(t),
         Rounding /\ UpToDate(t) => t \in Held \/ pc'[t] \in {"unlock", "test", "wait", "asleep"}
  PROVE  IInv'
<1>1. pc'[Collector] = pc[Collector] /\ Held' = Held /\ (Rounding' <=> Rounding)
  BY BarrierAssumption DEF Held, Rounding
<1>2. Bounds' /\ FenceClosed'
  BY <1>1 DEF IInv, Bounds, FenceClosed
<1>3. MutexesOwned'
  BY <1>1, BarrierAssumption DEF IInv, MutexesOwned, Held
<1>4. LateOnlyWhileRounding' /\ GensUpToDate'
  BY <1>1 DEF IInv, LateOnlyWhileRounding, GensUpToDate, UpToDate
<1>5. Synchronizing'
  BY DEF IInv, Synchronizing, UpToDate
<1>6. \A s \in Threads : HasOldGen(s)' <=> HasOldGen(s)
  BY <1>1 DEF HasOldGen, UpToDate
<1>7. OldGensAgree'
  BY <1>6 DEF IInv, OldGensAgree
<1>8. UpToDateStopped'
  BY <1>1 DEF IInv, UpToDateStopped, UpToDate
<1> QED BY <1>2, <1>3, <1>4, <1>5, <1>7, <1>8 DEF IInv

LEMMA MutatorInv ==
  ASSUME IInv, NEW t \in Mutators, LockThread(t) \/ CallCheckpoint(t) \/ UnlockThread(t)
  PROVE  IInv'
<1>1. TypeOK' /\ Places'
  BY MutatorTypes
<1> USE DEF OwnerSteps, Goto
<1>2. t \notin Held => ~(Rounding /\ UpToDate(t)) \/ pc[t] \in {"unlock", "test", "wait", "asleep"}
  BY DEF IInv, UpToDateStopped
<1>3. pc[t] \in OwnerSteps => mutex[t] = t /\ t \notin Held
  BY BarrierAssumption DEF IInv, MutexesOwned
<1>4. CASE LockThread(t)
  <2>1. t \notin Held
    BY <1>4, BarrierAssumption DEF LockThread, Acquire, IInv, MutexesOwned, None
  <2> QED BY <1>1, <1>2, <1>4, <2>1, MutatorMoves DEF LockThread, Acquire, IInv, TypeOK
<1>5. CASE CallCheckpoint(t)
  BY <1>1, <1>2, <1>3, <1>5, MutatorMoves DEF CallCheckpoint, IInv, TypeOK
<1>6. CASE UnlockThread(t)
  BY <1>1, <1>2, <1>3, <1>6, MutatorMoves DEF UnlockThread, Unlock, IInv, TypeOK
<1> QED BY <1>4, <1>5, <1>6
LEMMA CheckpointInv ==
  ASSUME IInv, NEW t \in Mutators, Checkpoint(t)
  PROVE  IInv'
<1>1. TypeOK' /\ Places'
  BY CheckpointTypes
<1> USE DEF OwnerSteps, Goto
<1>2. t \notin Held => ~(Rounding /\ UpToDate(t)) \/ pc[t] \in {"unlock", "test", "wait", "asleep"}
  BY DEF IInv, UpToDateStopped
<1>3. pc[t] \in OwnerSteps => mutex[t] = t /\ t \notin Held
  BY BarrierAssumption DEF IInv, MutexesOwned
<1>4. ret[t] \in {"run", "leave"}
  BY DEF IInv, Places
<1>5. CASE Compare(t)
  BY <1>1, <1>2, <1>3, <1>4, <1>5, MutatorMoves DEF Compare, UpToDate, IInv, TypeOK
<1>6. CASE Flush(t)
  BY <1>1, <1>2, <1>3, <1>6, MutatorMoves DEF Flush, IInv, TypeOK, Synchronizing
<1>7. CASE CopyGen(t)
  <2>1. /\ pc' = [pc EXCEPT ![t] = "copycheckpoint"]
        /\ et \in [Threads -> ThreadRecord] /\ vm.gen \in 1..MaxGen
        /\ UNCHANGED <<vm, fence, mutex, index>>
    BY <1>7 DEF CopyGen, IInv, TypeOK, ThreadRecord
  <2>2. /\ et'[t].checkpoint = et[t].checkpoint /\ et'[t].gen = vm.gen
        /\ \A s \in Threads \ {t} : et'[s] = et[s]
    BY <1>7, <2>1, SetGen DEF CopyGen
  <2>3. pc'[Collector] = pc[Collector] /\ Held' = Held /\ (Rounding' <=> Rounding)
    BY <2>1, BarrierAssumption DEF Held, Rounding, IInv, TypeOK
  <2>4. ~UpToDate(t) /\ \A s \in Threads : UpToDate(s)' <=> UpToDate(s)
    BY <1>7, <2>1, <2>2 DEF UpToDate, CopyGen, IInv, Synchronizing
  <2>5. Rounding
    BY <2>4 DEF IInv, LateOnlyWhileRounding
  <2>6. Bounds' /\ FenceClosed' /\ MutexesOwned'
    BY <1>3, <1>7, <2>1, <2>3 DEF CopyGen, IInv, TypeOK, Bounds, FenceClosed, MutexesOwned
  <2>7. LateOnlyWhileRounding'
    BY <2>1, <2>2, <2>3, <2>4 DEF IInv, LateOnlyWhileRounding
  <2>8. GensUpToDate'
    BY <2>1, <2>2, <2>3, <2>4 DEF IInv, GensUpToDate
  <2>9. Synchronizing'
    BY <2>1, <2>2, <2>4 DEF IInv, TypeOK, Synchronizing
  <2>10. \A s \in Threads : HasOldGen(s)' => s # t /\ HasOldGen(s)
    BY <2>1, <2>3, <2>4, <2>5 DEF HasOldGen, Rounding, IInv, TypeOK
  <2>11. OldGensAgree'
    BY <2>2, <2>10 DEF IInv, OldGensAgree
  <2>12. UpToDateStopped'
    BY <2>1, <2>3, <2>4 DEF IInv, TypeOK, UpToDateStopped
  <2> QED BY <1>1, <2>6, <2>7, <2>8, <2>9, <2>11, <2>12 DEF IInv
<1>8. CASE CopyCheckpoint(t)
  <2>1. ~UpToDate(t) /\ et[t].gen = vm.gen
    BY <1>8 DEF CopyCheckpoint, IInv, Synchronizing
  <2>2. Rounding /\ vm.fenced
    BY <2>1 DEF IInv, LateOnlyWhileRounding, FenceClosed, Rounding
  <2>3. /\ pc' = [pc EXCEPT ![t] = "unlock"] /\ UNCHANGED <<vm, fence, mutex, index>>
        /\ et'[t].checkpoint = vm.checkpoint /\ et'[t].gen = vm.gen
        /\ \A s \in Threads \ {t} : et'[s] = et[s]
    BY <1>8, <2>1, <2>2 DEF CopyCheckpoint, IInv, TypeOK
  <2>4. pc'[Collector] = pc[Collector] /\ Held' = Held /\ (Rounding' <=> Rounding)
    BY <2>3, BarrierAssumption DEF Held, Rounding, IInv, TypeOK
  <2>5. UpToDate(t)' /\ \A s \in Threads \ {t} : UpToDate(s)' <=> UpToDate(s)
    BY <2>3 DEF UpToDate
  <2>6. Bounds' /\ FenceClosed' /\ MutexesOwned'
    BY <1>3, <1>8, <2>3, <2>4 DEF CopyCheckpoint, IInv, TypeOK, Bounds, FenceClosed, MutexesOwned
  <2>7. LateOnlyWhileRounding'
    BY <2>2, <2>3, <2>4, <2>5 DEF IInv, LateOnlyWhileRounding
  <2>8. GensUpToDate'
    BY <2>3, <2>4, <2>5 DEF IInv, GensUpToDate
  <2>9. Synchronizing'
    BY <2>3, <2>5 DEF IInv, TypeOK, Synchronizing
  <2>10. \A s \in Threads : HasOldGen(s)' => s # t /\ HasOldGen(s)
    BY <2>2, <2>3, <2>4, <2>5 DEF HasOldGen, Rounding, IInv, TypeOK
  <2>11. OldGensAgree'
    BY <2>3, <2>10 DEF IInv, OldGensAgree
  <2>12. UpToDateStopped'
    BY <2>3, <2>4, <2>5 DEF IInv, TypeOK, UpToDateStopped
  <2> QED BY <1>1, <2>6, <2>7, <2>8, <2>9, <2>11, <2>12 DEF IInv
<1>9. CASE UnlockAtFence(t)
  BY <1>1, <1>2, <1>3, <1>9, MutatorMoves DEF UnlockAtFence, Unlock, IInv, TypeOK
<1>10. CASE TestFence(t)
  <2>1. fence # 0 => pc'[t] \in {"wait", "test"}
    BY <1>10 DEF TestFence, IInv, TypeOK
  <2>2. Rounding => fence # 0
    BY DEF IInv, FenceClosed, Rounding
  <2>3. /\ UNCHANGED <<vm, fence, mutex, et, index>> /\ At(t, "test")
        /\ \E l \in {"relock", "wait", "test"} : pc' = [pc EXCEPT ![t] = l]
    BY <1>10 DEF TestFence
  <2> QED BY <1>1, <1>2, <2>1, <2>2, <2>3, MutatorMoves DEF IInv, TypeOK
<1>11. CASE WaitOnFence(t)
  BY <1>1, <1>2, <1>11, MutatorMoves DEF WaitOnFence, IInv, TypeOK
<1>12. CASE Relock(t)
  <2>1. t \notin Held
    BY <1>12, BarrierAssumption DEF Relock, Acquire, IInv, MutexesOwned, None
  <2> QED BY <1>1, <1>2, <1>4, <1>12, <2>1, MutatorMoves DEF Relock, Acquire, IInv, TypeOK
<1> QED BY <1>5, <1>6, <1>7, <1>8, <1>9, <1>10, <1>11, <1>12 DEF Checkpoint
-----------------------------------------------------------------------------
(***************************************************************************)
(* A step of the collector that holds nobody's mutex and publishes nothing *)
(***************************************************************************)
LEMMA CollectorMoves ==
  ASSUME IInv, TypeOK', Places', Bounds', FenceClosed', UNCHANGED <<mutex, et>>,
         vm'.checkpoint = vm.checkpoint, vm'.gen = vm.gen,
         pc[Collector] \notin {"count", "lock", "sync", "release"},
         pc'[Collector] \notin {"count", "lock", "sync", "release"},
         \A t \in Mutators : pc'[t] = pc[t] \/ (At(t, "asleep") /\ pc'[t] = "test")
  PROVE  IInv'
<1>1. Held' = {} /\ ~Rounding /\ ~Rounding'
  BY DEF Held, Rounding
<1>2. MutexesOwned'
  BY <1>1 DEF IInv, MutexesOwned, OwnerSteps
<1>3. LateOnlyWhileRounding' /\ GensUpToDate' /\ UpToDateStopped'
  BY <1>1 DEF IInv, LateOnlyWhileRounding, GensUpToDate, UpToDate, UpToDateStopped
<1>4. Synchronizing'
  BY DEF IInv, Synchronizing, UpToDate
<1>5. \A t \in Threads : ~HasOldGen(t)'
  BY <1>1, <1>3 DEF LateOnlyWhileRounding, HasOldGen
<1>6. OldGensAgree'
  BY <1>5 DEF OldGensAgree
<1> QED BY <1>2, <1>3, <1>4, <1>6 DEF IInv

LEMMA StepInv ==
  ASSUME IInv, \/ Checkpoint(Collector) \/ CallStep(Collector) \/ MarkAndSweep(Collector)
               \/ AdvanceStage(Collector)
  PROVE  IInv'
<1>1. TypeOK' /\ Places'
  BY StepTypes
<1> USE DEF Goto
<1>2. CASE Checkpoint(Collector)
  <2>1. /\ At(Collector, "compare") /\ pc' = [pc EXCEPT ![Collector] = "mark"]
        /\ UNCHANGED <<vm, fence, mutex, et, index>>
    BY <1>2, CollectorChecks
  <2>2. Bounds' /\ FenceClosed'
    BY <2>1, BarrierAssumption DEF IInv, TypeOK, Bounds, FenceClosed, Rounding
  <2> QED BY <1>1, <2>1, <2>2, CollectorMoves, BarrierAssumption DEF IInv, TypeOK
<1>3. CASE CallStep(Collector)
  <2>1. Bounds' /\ FenceClosed'
    BY <1>3, BarrierAssumption DEF CallStep, IInv, TypeOK, Bounds, FenceClosed, Rounding
  <2> QED BY <1>1, <1>3, <2>1, CollectorMoves, BarrierAssumption DEF CallStep, IInv, TypeOK
<1>4. CASE MarkAndSweep(Collector)
  <2>1. Bounds' /\ FenceClosed'
    BY <1>4, BarrierAssumption DEF MarkAndSweep, IInv, TypeOK, Bounds, FenceClosed, Rounding
  <2> QED BY <1>1, <1>4, <2>1, CollectorMoves, BarrierAssumption DEF MarkAndSweep, IInv, TypeOK
<1>5. CASE AdvanceStage(Collector)
  <2>1. vm'.checkpoint = vm.checkpoint /\ vm'.gen = vm.gen /\ UNCHANGED <<fence, mutex, et>>
    BY <1>5 DEF AdvanceStage, IInv, TypeOK
  <2>2. At(Collector, "stage") /\ \E l \in {"idle", "close"} : pc' = [pc EXCEPT ![Collector] = l]
    BY <1>5 DEF AdvanceStage
  <2>3. Bounds' /\ FenceClosed'
    BY <2>1, <2>2, BarrierAssumption DEF IInv, TypeOK, Bounds, FenceClosed, Rounding
  <2>4. pc'[Collector] \in {"idle", "close"} /\ \A t \in Mutators : pc'[t] = pc[t]
    BY <2>2, TypesOfState, BarrierAssumption
  <2> QED BY <1>1, <2>1, <2>2, <2>3, <2>4, CollectorMoves
<1> QED BY <1>2, <1>3, <1>4, <1>5

LEMMA BarrierInv ==
  ASSUME IInv, Barrier(Collector)
  PROVE  IInv'
<1>1. TypeOK' /\ Places'
  BY BarrierTypes
<1>2. Collector \in Threads /\ Collector \notin Mutators /\ pc \in [Threads -> Locations]
  BY BarrierAssumption DEF IInv, TypeOK
<1> USE DEF Goto
<1>3. CASE CloseFence(Collector)
  <2>1. Bounds' /\ FenceClosed'
    BY <1>2, <1>3 DEF CloseFence, IInv, Bounds, FenceClosed, Rounding
  <2> QED BY <1>1, <1>2, <1>3, <2>1, CollectorMoves DEF CloseFence
<1>4. CASE Publish(Collector)
  <2>1. /\ pc' = [pc EXCEPT ![Collector] = "count"] /\ At(Collector, "publish")
        /\ vm'.checkpoint = vm.checkpoint /\ vm'.fenced /\ UNCHANGED <<fence, mutex, et, index>>
    BY <1>4 DEF Publish, IInv, TypeOK
  <2>2. Held' = {} /\ ~Rounding /\ ~Rounding'
    BY <1>2, <2>1 DEF Held, Rounding
  <2>3. \A t \in Threads : UpToDate(t) /\ UpToDate(t)'
    BY <2>1, <2>2 DEF UpToDate, IInv, LateOnlyWhileRounding
  <2>4. Bounds' /\ FenceClosed' /\ MutexesOwned'
    BY <1>2, <2>1, <2>2 DEF IInv, Bounds, FenceClosed, MutexesOwned, OwnerSteps
  <2>5. LateOnlyWhileRounding' /\ GensUpToDate' /\ UpToDateStopped'
    BY <1>2, <2>1, <2>2, <2>3
       DEF IInv, LateOnlyWhileRounding, GensUpToDate, UpToDateStopped, UpToDate
  <2>6. Synchronizing' /\ OldGensAgree'
    <3>1. \A t \in Threads : et[t].gen = vm.gen
      BY <2>1, <2>3 DEF IInv, GensUpToDate
    <3> QED BY <1>2, <2>1, <2>3, <3>1 DEF IInv, Synchronizing, OldGensAgree
  <2> QED BY <1>1, <2>4, <2>5, <2>6 DEF IInv
<1>5. CASE Count(Collector)
  <2>1. /\ pc' = [pc EXCEPT ![Collector] = "lock"] /\ At(Collector, "count")
        /\ vm'.checkpoint = vm.checkpoint + 1 /\ vm'.gen = vm.gen /\ vm'.fenced = vm.fenced
        /\ UNCHANGED <<fence, mutex, et>> /\ index' = 1 /\ vm.checkpoint \in Nat
    BY <1>5 DEF Count, IInv, TypeOK
  <2>2. Held' = {} /\ ~Rounding /\ Rounding'
    BY <1>2, <2>1 DEF Held, Rounding
  <2>3. \A t \in Threads : et[t].checkpoint = vm.checkpoint /\ UpToDate(t) /\ ~UpToDate(t)'
    BY <2>1, <2>2 DEF UpToDate, IInv, LateOnlyWhileRounding
  <2>4. Bounds' /\ FenceClosed' /\ MutexesOwned'
    <3>1. vm.fenced
      BY <2>1 DEF IInv, FenceClosed
    <3> QED BY <1>2, <2>1, <2>2, <3>1, BarrierAssumption
               DEF IInv, Bounds, FenceClosed, MutexesOwned, OwnerSteps
  <2>5. LateOnlyWhileRounding' /\ GensUpToDate' /\ UpToDateStopped'
    BY <1>2, <2>1, <2>2, <2>3
       DEF LateOnlyWhileRounding, GensUpToDate, UpToDateStopped
  <2>6. Synchronizing' /\ OldGensAgree'
    BY <1>2, <2>1, <2>3 DEF IInv, Synchronizing, OldGensAgree, HasOldGen
  <2> QED BY <1>1, <2>4, <2>5, <2>6 DEF IInv
<1>6. CASE LockOther(Collector)
  <2>1. /\ pc' = [pc EXCEPT ![Collector] = "sync"] /\ At(Collector, "lock")
        /\ UNCHANGED <<vm, fence, et, index>>
        /\ mutex[index] = None /\ mutex' = [mutex EXCEPT ![index] = Collector]
    BY <1>6 DEF LockOther, Acquire
  <2>2. index \in Threads /\ mutex \in [Threads -> Threads \cup {None}]
    BY <2>1 DEF IInv, TypeOK, Bounds
  <2>3. Held' = Held \cup {index} /\ Rounding /\ Rounding'
    BY <1>2, <2>1, <2>2 DEF Held, Rounding
  <2>4. Bounds' /\ FenceClosed'
    BY <1>2, <2>1, <2>3 DEF IInv, Bounds, FenceClosed
  <2>5. MutexesOwned'
    BY <1>2, <2>1, <2>2, <2>3, BarrierAssumption DEF IInv, MutexesOwned, OwnerSteps, None
  <2>6. LateOnlyWhileRounding' /\ GensUpToDate' /\ UpToDateStopped'
    BY <1>2, <2>1, <2>3
       DEF IInv, LateOnlyWhileRounding, GensUpToDate, UpToDateStopped, UpToDate
  <2>7. Synchronizing' /\ OldGensAgree'
    BY <1>2, <2>1 DEF IInv, Synchronizing, OldGensAgree, HasOldGen, UpToDate
  <2> QED BY <1>1, <2>4, <2>5, <2>6, <2>7 DEF IInv
<1>7. CASE SyncOther(Collector)
  <2>1. /\ At(Collector, "sync") /\ UNCHANGED <<vm, fence, mutex>>
        /\ \/ index < NumThreads /\ index' = index + 1 /\ pc' = [pc EXCEPT ![Collector] = "lock"]
           \/ index = NumThreads /\ index' = 1 /\ pc' = [pc EXCEPT ![Collector] = "release"]
    BY <1>7, BarrierAssumption DEF SyncOther, IInv, TypeOK, Bounds
  <2>2. PICK i \in Threads : i = index
    BY <2>1 DEF IInv, TypeOK, Bounds
  <2>3. /\ et'[i].checkpoint = vm.checkpoint /\ et'[i].gen = vm.gen
        /\ \A t \in Threads \ {i} : et'[t] = et[t]
    BY <1>2, <1>7, <2>1, <2>2 DEF SyncOther, IInv, TypeOK, GensUpToDate, UpToDate
  <2>4. Held' = Held /\ i \in Held /\ Rounding /\ ~At(Collector, "count")
    BY <1>2, <2>1, <2>2, BarrierAssumption DEF Held, Rounding
  <2>5. UpToDate(i)' /\ \A t \in Threads \ {i} : UpToDate(t)' <=> UpToDate(t)
    BY <2>1, <2>3 DEF UpToDate
  <2>6. Bounds' /\ FenceClosed' /\ MutexesOwned'
    BY <1>2, <2>1, <2>2, <2>4, BarrierAssumption
       DEF IInv, Bounds, FenceClosed, MutexesOwned, OwnerSteps, Rounding
  <2>7. LateOnlyWhileRounding'
    BY <1>2, <2>1, <2>2, <2>3, <2>4, <2>5, BarrierAssumption
       DEF IInv, LateOnlyWhileRounding, Rounding, UpToDate
  <2>8. GensUpToDate'
    BY <2>1, <2>3, <2>4, <2>5 DEF IInv, GensUpToDate
  <2>9. ~(i \in Mutators /\ pc[i] \in OwnerSteps)
    BY <1>2, <2>4 DEF IInv, MutexesOwned
  <2>10. Synchronizing'
    BY <1>2, <2>1, <2>3, <2>5, <2>9 DEF IInv, Synchronizing, OwnerSteps
  <2>11. \A t \in Threads : HasOldGen(t)' => t # i /\ HasOldGen(t)
    BY <1>2, <2>1, <2>5 DEF HasOldGen
  <2>12. OldGensAgree'
    BY <2>3, <2>11 DEF IInv, OldGensAgree
  <2>13. UpToDateStopped'
    BY <1>2, <2>1, <2>4, <2>5 DEF IInv, UpToDateStopped
  <2> QED BY <1>1, <2>6, <2>7, <2>8, <2>10, <2>12, <2>13 DEF IInv
<1>8. CASE ReleaseOther(Collector)
  <2>1. /\ At(Collector, "release") /\ UNCHANGED <<vm, fence, et>>
        /\ mutex' = [mutex EXCEPT ![index] = None]
        /\ \/ index < NumThreads /\ index' = index + 1 /\ pc' = [pc EXCEPT ![Collector] = "release"]
           \/ index = NumThreads /\ pc' = [pc EXCEPT ![Collector] = "open"]
    <3>1. index \in 1..NumThreads /\ NumThreads \in Nat
      BY <1>8, BarrierAssumption DEF ReleaseOther, IInv, TypeOK, Bounds
    <3>2. index < NumThreads \/ index = NumThreads
      BY <3>1
    <3> QED BY <1>8, <3>1, <3>2 DEF ReleaseOther, Unlock
  <2>2. index \in Threads /\ mutex \in [Threads -> Threads \cup {None}]
    BY <2>1 DEF IInv, TypeOK, Bounds
  <2>3. Held' = Held \ {index} /\ index \in Held /\ ~Rounding /\ ~Rounding'
    BY <1>2, <2>1, <2>2, BarrierAssumption DEF Held, Rounding
  <2>4. Bounds' /\ FenceClosed'
    BY <1>2, <2>1, <2>2, <2>3, BarrierAssumption DEF IInv, Bounds, FenceClosed
  <2>5. MutexesOwned'
    <3>1. \A t \in Mutators : pc'[t] = pc[t]
      BY <1>2, <2>1
    <3>2. \A t \in Mutators : pc[t] \in OwnerSteps => t \notin Held
      BY <1>2 DEF IInv, MutexesOwned
    <3> QED BY <2>1, <2>2, <2>3, <3>1, <3>2 DEF IInv, MutexesOwned
  <2>6. LateOnlyWhileRounding' /\ GensUpToDate' /\ UpToDateStopped'
    BY <1>2, <2>1, <2>3
       DEF IInv, LateOnlyWhileRounding, GensUpToDate, UpToDateStopped, UpToDate
  <2>7. Synchronizing'
    <3>1. \A t \in Mutators : pc'[t] = pc[t]
      BY <1>2, <2>1
    <3> QED BY <2>1, <3>1 DEF IInv, Synchronizing, UpToDate
  <2>8. OldGensAgree'
    BY <2>3, <2>6, <1>2, <2>1 DEF LateOnlyWhileRounding, OldGensAgree, HasOldGen
  <2> QED BY <1>1, <2>4, <2>5, <2>6, <2>7, <2>8 DEF IInv
<1>9. CASE OpenFence(Collector)
  <2>1. Bounds' /\ FenceClosed'
    BY <1>2, <1>9 DEF OpenFence, IInv, Bounds, FenceClosed, Rounding
  <2> QED BY <1>1, <1>2, <1>9, <2>1, CollectorMoves DEF OpenFence
<1>10. CASE WakeAll(Collector)
  <2>1. Bounds' /\ FenceClosed'
    BY <1>2, <1>10 DEF WakeAll, IInv, Bounds, FenceClosed, Rounding
  <2> QED BY <1>1, <1>2, <1>10, <2>1, CollectorMoves DEF WakeAll
<1>11. CASE Finish(Collector)
  <2>1. vm'.checkpoint = vm.checkpoint /\ vm'.gen = vm.gen
    BY <1>11 DEF Finish, IInv, TypeOK
  <2>2. Bounds' /\ FenceClosed'
    BY <1>2, <1>11 DEF Finish, IInv, Bounds, FenceClosed, Rounding
  <2> QED BY <1>1, <1>2, <1>11, <2>1, <2>2, CollectorMoves DEF Finish
<1> QED BY <1>3, <1>4, <1>5, <1>6, <1>7, <1>8, <1>9, <1>10, <1>11 DEF Barrier

LEMMA StutterInv == IInv /\ UNCHANGED vars => IInv'
  BY DEF IInv, vars, TypeOK, Places, Bounds, FenceClosed, MutexesOwned, LateOnlyWhileRounding,
         GensUpToDate, Synchronizing, OldGensAgree, UpToDateStopped, Held, UpToDate, HasOldGen,
         Rounding, InPlace

LEMMA NextInv == IInv /\ [Next]_vars => IInv'
<1> SUFFICES ASSUME IInv, Next PROVE IInv'
  BY StutterInv
<1>1. \A t \in Mutators : LockThread(t) \/ CallCheckpoint(t) \/ UnlockThread(t) => IInv'
  BY MutatorInv
<1>2. \A t \in Threads : Checkpoint(t) => IInv'
  BY CheckpointInv, StepInv
<1>3. CallStep(Collector) \/ MarkAndSweep(Collector) \/ AdvanceStage(Collector) => IInv'
  BY StepInv
<1>4. Barrier(Collector) => IInv'
  BY BarrierInv
<1> QED BY <1>1, <1>2, <1>3, <1>4 DEF Next
\* A mutator whose mutex the barrier holds does not run.
LEMMA HeldAreStopped == IInv => \A t \in Mutators : t \in Held => t \notin Running
<1> SUFFICES ASSUME IInv, NEW t \in Mutators, t \in Held, t \in Running PROVE FALSE
  OBVIOUS
<1>1. pc[t] \in OwnerSteps
  BY DEF IInv, Places, InPlace, MutatorPlaces, CheckpointSteps, MutatorSteps, Running, OwnerSteps
<1> QED BY <1>1, BarrierAssumption DEF IInv, MutexesOwned

-----------------------------------------------------------------------------
(***************************************************************************)
(* The invariant holds in every behaviour.                                 *)
(***************************************************************************)
THEOREM Invariance == Spec => []IInv
<1>1. Init => IInv
  BY InitInv
<1>2. IInv /\ [Next]_vars => IInv'
  BY NextInv
<1> QED BY <1>1, <1>2, PTL DEF Spec

(***************************************************************************)
(* The variables have their types; in particular gen.n wraps to 1 and is   *)
(* never 0, the value of an object that no cycle has marked.               *)
(***************************************************************************)
THEOREM TypeCorrect == Spec => []TypeOK
<1>1. IInv => TypeOK
  BY DEF IInv
<1> QED BY <1>1, Invariance, PTL

(***************************************************************************)
(* Threads that may mark at the same time use the same generation: before  *)
(* a barrier the published one, while it goes round only late threads      *)
(* mark, and all of them with the old one.                                 *)
(***************************************************************************)
THEOREM ThreadsAgree == Spec => []MarkersAgree
<1>1. IInv => MarkersAgree
  <2> SUFFICES ASSUME IInv PROVE MarkersAgree
    OBVIOUS
  <2> DEFINE InUse(t) == t \in Running \/ (At(Collector, "sync") /\ t = index /\ ~UpToDate(t))
  <2>1. \A t \in Threads : InUse(t) =>
           (UpToDate(t) /\ ~Rounding) \/ (Rounding /\ HasOldGen(t))
    <3> SUFFICES ASSUME NEW t \in Threads, InUse(t)
                 PROVE  (UpToDate(t) /\ ~Rounding) \/ (Rounding /\ HasOldGen(t))
      OBVIOUS
    <3>1. CASE ~Rounding
      BY <3>1 DEF IInv, LateOnlyWhileRounding
    <3>2. CASE Rounding /\ t \in Running
      <4>1. t \in Mutators
        BY <3>2 DEF Rounding, Running
      <4>2. t \notin Held
        BY <3>2, <4>1, HeldAreStopped
      <4>3. ~UpToDate(t)
        BY <3>2, <4>2 DEF IInv, UpToDateStopped, Running
      <4> QED BY <3>2, <4>3 DEF HasOldGen, Running
    <3>3. CASE Rounding /\ t \notin Running
      <4>1. At(Collector, "sync") /\ t = index /\ ~UpToDate(t)
        BY <3>3
      <4>2. t \in Held
        BY <4>1, BarrierAssumption DEF Held
      <4>3. ~At(t, "copycheckpoint")
        BY <4>1, <4>2, BarrierAssumption DEF IInv, MutexesOwned, OwnerSteps
      <4> QED BY <3>3, <4>1, <4>3 DEF HasOldGen
    <3> QED BY <3>1, <3>2, <3>3
  <2>2. \A s, t \in Threads : InUse(s) /\ InUse(t) => et[s].gen = et[t].gen
    <3> HIDE DEF InUse
    <3> SUFFICES ASSUME NEW s \in Threads, NEW t \in Threads, InUse(s), InUse(t)
                 PROVE  et[s].gen = et[t].gen
      OBVIOUS
    <3>1. CASE Rounding
      BY <2>1, <3>1 DEF IInv, OldGensAgree
    <3>2. CASE ~Rounding /\ At(Collector, "count")
      BY <3>2 DEF IInv, OldGensAgree, HasOldGen
    <3>3. CASE ~Rounding /\ ~At(Collector, "count")
      BY <2>1, <3>3 DEF IInv, GensUpToDate
    <3> QED BY <3>1, <3>2, <3>3
  <2>3. \A g \in GensInUse : \E t \in Threads : InUse(t) /\ g = et[t].gen
    BY DEF GensInUse, Running, UpToDate
  <2> HIDE DEF InUse
  <2> QED BY <2>2, <2>3 DEF MarkersAgree
<1> QED BY <1>1, Invariance, PTL

(***************************************************************************)
(* The barrier touches another thread only while that thread is stopped,   *)
(* and when it has reached the last one nobody runs.                       *)
(***************************************************************************)
THEOREM OthersAreStopped == Spec => []BarrierIsExclusive
<1>1. IInv => BarrierIsExclusive
  <2> SUFFICES ASSUME IInv PROVE BarrierIsExclusive
    OBVIOUS
  <2>1. \A t \in Held : t \notin Running \/ t = Collector
    BY HeldAreStopped DEF Held
  <2>2. At(Collector, "sync") \/ At(Collector, "release") => Collector \notin Running
    BY DEF Running
  <2>3. At(Collector, "sync") => index \in Held
    BY BarrierAssumption DEF IInv, TypeOK, Bounds, Held
  <2>4. At(Collector, "release") /\ index = 1 => Held = Threads
    BY BarrierAssumption DEF Held
  <2> QED BY <2>1, <2>2, <2>3, <2>4 DEF BarrierIsExclusive, Running
<1> QED BY <1>1, Invariance, PTL

(***************************************************************************)
(* No thread is ever more than one checkpoint behind, and when the others  *)
(* are let go every thread has the new generation.                         *)
(***************************************************************************)
THEOREM NobodyIsLeftBehind == Spec => []NobodyLeftBehind
<1>1. IInv => NobodyLeftBehind
  <2> SUFFICES ASSUME IInv PROVE NobodyLeftBehind
    OBVIOUS
  <2>1. \A t \in Threads : et[t].checkpoint \in {vm.checkpoint - 1, vm.checkpoint}
    BY DEF IInv, LateOnlyWhileRounding
  <2>2. ASSUME pc[Collector] \notin BarrierSteps \ {"open", "wake", "finish"}, NEW t \in Threads
        PROVE  et[t] = [checkpoint |-> vm.checkpoint, gen |-> vm.gen]
    <3>1. et[t].checkpoint = vm.checkpoint /\ et[t].gen = vm.gen
      BY <2>2 DEF IInv, LateOnlyWhileRounding, GensUpToDate, UpToDate, Rounding, BarrierSteps
    <3>2. et[t] \in [checkpoint : 0..MaxBarriers, gen : 1..MaxGen]
      BY DEF IInv, TypeOK
    <3> QED BY <3>1, <3>2
  <2> QED BY <2>1, <2>2 DEF NobodyLeftBehind
<1> QED BY <1>1, Invariance, PTL

-----------------------------------------------------------------------------
(***************************************************************************)
(* Who has a mutex: nobody, its own thread where it needs it, or the       *)
(* barrier.  A collector that locks itself is the exception.               *)
(***************************************************************************)
OwnerFits(m) ==
  \/ mutex[m] = None
  \/ mutex[m] = m /\ m # Collector /\ pc[m] \in OwnerSteps
  \/ mutex[m] = Collector /\ m \in Held

OwnersInv == \A m \in Threads : OwnerFits(m)

LEMMA OwnersBegin == ~LocksItself /\ Init => OwnersInv
  BY DEF Init, OwnersInv, OwnerFits

\* A step of a mutator changes its own mutex only.
LEMMA MutatorOwners ==
  ASSUME IInv, OwnersInv, NEW t \in Mutators, UNCHANGED <<vm, index>>,
         \A s \in Threads \ {t} : pc'[s] = pc[s] /\ mutex'[s] = mutex[s],
         \/ mutex'[t] = None
         \/ mutex'[t] = t /\ pc'[t] \in OwnerSteps
         \/ mutex'[t] = mutex[t] /\ pc[t] \notin OwnerSteps
  PROVE  OwnersInv'
<1>1. Collector \in Threads /\ t # Collector /\ t \in Threads
  BY BarrierAssumption
<1>2. Held' = Held
  BY <1>1 DEF Held
<1>3. \A s \in Threads \ {t} : OwnerFits(s)'
  BY <1>2 DEF OwnersInv, OwnerFits
<1>4. OwnerFits(t)'
  BY <1>1, <1>2 DEF OwnersInv, OwnerFits
<1> QED BY <1>3, <1>4 DEF OwnersInv

LEMMA MutatorsKeepOwners ==
  ASSUME IInv, OwnersInv, NEW t \in Mutators,
         LockThread(t) \/ CallCheckpoint(t) \/ UnlockThread(t) \/ Checkpoint(t)
  PROVE  OwnersInv'
<1> USE DEF Goto, OwnerSteps
<1>1. /\ pc \in [Threads -> Locations] /\ mutex \in [Threads -> Threads \cup {None}]
      /\ t \in Threads
  BY TypesOfState
<1>2. ret[t] \in {"run", "leave"}
  BY DEF IInv, Places
<1>3. pc[t] \in OwnerSteps => mutex[t] = t
  BY DEF IInv, MutexesOwned
<1>4. CASE LockThread(t)
  BY <1>1, <1>4, MutatorOwners DEF LockThread, Acquire
<1>5. CASE CallCheckpoint(t)
  BY <1>1, <1>3, <1>5, MutatorOwners DEF CallCheckpoint
<1>6. CASE UnlockThread(t)
  BY <1>1, <1>6, MutatorOwners DEF UnlockThread, Unlock
<1>7. CASE Compare(t)
  BY <1>1, <1>2, <1>3, <1>7, MutatorOwners DEF Compare
<1>8. CASE Flush(t)
  BY <1>1, <1>3, <1>8, MutatorOwners DEF Flush
<1>9. CASE CopyGen(t)
  BY <1>1, <1>3, <1>9, MutatorOwners DEF CopyGen
<1>10. CASE CopyCheckpoint(t)
  BY <1>1, <1>2, <1>3, <1>10, MutatorOwners DEF CopyCheckpoint
<1>11. CASE UnlockAtFence(t)
  BY <1>1, <1>11, MutatorOwners DEF UnlockAtFence, Unlock
<1>12. CASE TestFence(t)
  BY <1>1, <1>12, MutatorOwners DEF TestFence
<1>13. CASE WaitOnFence(t)
  BY <1>1, <1>13, MutatorOwners DEF WaitOnFence
<1>14. CASE Relock(t)
  BY <1>1, <1>2, <1>14, MutatorOwners DEF Relock, Acquire
<1> QED BY <1>4, <1>5, <1>6, <1>7, <1>8, <1>9, <1>10, <1>11, <1>12, <1>13, <1>14 DEF Checkpoint

\* A step of the collector that takes or gives back no mutex.
LEMMA CollectorOwners ==
  ASSUME OwnersInv, mutex' = mutex, Held \subseteq Held',
         \A t \in Mutators : pc'[t] = pc[t] \/ (At(t, "asleep") /\ pc'[t] = "test")
  PROVE  OwnersInv'
<1> SUFFICES ASSUME NEW m \in Threads PROVE OwnerFits(m)'
  BY DEF OwnersInv
<1>1. OwnerFits(m)
  BY DEF OwnersInv
<1>2. m # Collector /\ pc[m] \in OwnerSteps => pc'[m] = pc[m]
  BY DEF OwnerSteps
<1> QED BY <1>1, <1>2 DEF OwnerFits

LEMMA CollectorKeepsOwners ==
  ASSUME IInv, OwnersInv,
         \/ Checkpoint(Collector) \/ CallStep(Collector) \/ MarkAndSweep(Collector)
         \/ AdvanceStage(Collector) \/ Barrier(Collector)
  PROVE  OwnersInv'
<1> USE DEF Goto
<1>1. /\ pc \in [Threads -> Locations] /\ mutex \in [Threads -> Threads \cup {None}]
      /\ Collector \in Threads /\ Collector \notin Mutators
      /\ index \in 1..(NumThreads + 1) /\ NumThreads \in Nat
  BY TypesOfState, BarrierAssumption
<1>2. pc[Collector] \in {"lock", "sync", "release"} => index <= NumThreads
  BY DEF IInv, Bounds
<1>3. CASE Checkpoint(Collector)
  <2>1. /\ At(Collector, "compare") /\ pc' = [pc EXCEPT ![Collector] = "mark"] /\ mutex' = mutex
    BY <1>3, CollectorChecks
  <2>2. Held = {}
    BY <2>1 DEF Held
  <2> QED BY <1>1, <2>1, <2>2, CollectorOwners
<1>4. CASE \/ CallStep(Collector) \/ MarkAndSweep(Collector) \/ AdvanceStage(Collector)
           \/ CloseFence(Collector) \/ Publish(Collector) \/ Count(Collector)
           \/ OpenFence(Collector) \/ Finish(Collector)
  <2>1. pc[Collector] \notin {"lock", "sync", "release"}
    BY <1>4 DEF CallStep, MarkAndSweep, AdvanceStage, CloseFence, Publish, Count, OpenFence, Finish
  <2>2. mutex' = mutex /\ \E l \in Locations : pc' = [pc EXCEPT ![Collector] = l]
    BY <1>4 DEF CallStep, MarkAndSweep, AdvanceStage, CloseFence, Publish, Count, OpenFence, Finish,
                Locations, CheckpointSteps, StepSteps, BarrierSteps
  <2>3. \A t \in Mutators : pc'[t] = pc[t]
    BY <1>1, <2>2
  <2>4. Held = {}
    BY <2>1 DEF Held
  <2> QED BY <2>2, <2>3, <2>4, CollectorOwners
<1>5. CASE WakeAll(Collector)
  <2>1. Held = {}
    BY <1>5 DEF WakeAll, Held
  <2>2. mutex' = mutex /\ \A t \in Mutators : pc'[t] = pc[t] \/ (At(t, "asleep") /\ pc'[t] = "test")
    BY <1>1, <1>5 DEF WakeAll
  <2> QED BY <2>1, <2>2, CollectorOwners
<1>6. CASE LockOther(Collector)
  <2>1. /\ At(Collector, "lock") /\ pc' = [pc EXCEPT ![Collector] = "sync"]
        /\ mutex' = [mutex EXCEPT ![index] = Collector] /\ index' = index
    BY <1>6 DEF LockOther, Acquire
  <2>2. index \in Threads
    BY <1>1, <1>2, <2>1
  <2>3. Held' = Held \cup {index}
    BY <1>1, <2>1, <2>2 DEF Held
  <2> SUFFICES ASSUME NEW m \in Threads PROVE OwnerFits(m)'
    BY DEF OwnersInv
  <2>4. CASE m = index
    BY <1>1, <2>1, <2>2, <2>3, <2>4 DEF OwnerFits
  <2>5. CASE m # index
    BY <1>1, <2>1, <2>3, <2>5 DEF OwnerFits, OwnersInv
  <2> QED BY <2>4, <2>5
<1>7. CASE SyncOther(Collector)
  <2>1. /\ At(Collector, "sync") /\ mutex' = mutex
        /\ \/ /\ index < NumThreads /\ index' = index + 1
              /\ pc' = [pc EXCEPT ![Collector] = "lock"]
           \/ /\ ~(index < NumThreads) /\ index' = 1
              /\ pc' = [pc EXCEPT ![Collector] = "release"]
    BY <1>7 DEF SyncOther
  <2>2. Held \subseteq Held'
    BY <1>1, <1>2, <2>1 DEF Held
  <2>3. \A t \in Mutators : pc'[t] = pc[t]
    BY <1>1, <2>1
  <2> QED BY <2>1, <2>2, <2>3, CollectorOwners
<1>8. CASE ReleaseOther(Collector)
  <2>1. /\ At(Collector, "release") /\ mutex' = [mutex EXCEPT ![index] = None] /\ index' = index + 1
        /\ pc' = [pc EXCEPT ![Collector] = IF index < NumThreads THEN "release" ELSE "open"]
    BY <1>8 DEF ReleaseOther, Unlock
  <2>2. index \in Threads
    BY <1>1, <1>2, <2>1
  <2>3. Held \ {index} \subseteq Held'
    BY <1>1, <1>2, <2>1 DEF Held
  <2> SUFFICES ASSUME NEW m \in Threads PROVE OwnerFits(m)'
    BY DEF OwnersInv
  <2>4. CASE m = index
    BY <1>1, <2>1, <2>2, <2>4 DEF OwnerFits
  <2>5. CASE m # index
    BY <1>1, <2>1, <2>3, <2>5 DEF OwnerFits, OwnersInv
  <2> QED BY <2>4, <2>5
<1> QED BY <1>3, <1>4, <1>5, <1>6, <1>7, <1>8 DEF Barrier

LEMMA OwnersStay == IInv /\ OwnersInv /\ [Next]_vars => OwnersInv'
<1> SUFFICES ASSUME IInv, OwnersInv, [Next]_vars PROVE OwnersInv'
  OBVIOUS
<1>1. CASE UNCHANGED vars
  BY <1>1 DEF vars, OwnersInv, OwnerFits, Held
<1>2. CASE Next
  BY <1>2, MutatorsKeepOwners, CollectorKeepsOwners DEF Next
<1> QED BY <1>1, <1>2

(***************************************************************************)
(* Nobody waits in a circle, unless the collector has locked its own       *)
(* mutex: the barrier waits for a thread only that still has to            *)
(* synchronize or is about to stop at the fence, and a thread for its own  *)
(* mutex only while a barrier that goes round has it.                      *)
(***************************************************************************)
THEOREM NobodyWaitsInACircle == ~LocksItself /\ Spec => []NoCircularWait
<1>1. IInv /\ OwnersInv => NoCircularWait
  <2> SUFFICES ASSUME IInv, OwnersInv PROVE NoCircularWait
    OBVIOUS
  <2>0. /\ index \in 1..(NumThreads + 1) /\ NumThreads \in Nat /\ Collector \in Threads
        /\ mutex \in [Threads -> Threads \cup {None}]
    BY TypesOfState, BarrierAssumption
  <2>1. ASSUME At(Collector, "lock"), mutex[index] # None
        PROVE  /\ mutex[index] = index /\ index # Collector
               /\ \/ At(index, "unlock")
                  \/ et[index].checkpoint # vm.checkpoint /\ pc[index] \in OwnerSteps \ {"unlock"}
    <3>1. index \in Threads /\ index \notin Held
      BY <2>0, <2>1 DEF IInv, Bounds, Held
    <3>2. mutex[index] = index /\ index # Collector /\ pc[index] \in OwnerSteps
      BY <2>1, <3>1 DEF OwnersInv, OwnerFits
    <3>3. UpToDate(index) => At(index, "unlock")
      BY <2>1, <3>1, <3>2 DEF IInv, UpToDateStopped, Rounding, OwnerSteps
    <3> QED BY <3>2, <3>3 DEF UpToDate
  <2>2. ASSUME NEW t \in Mutators, pc[t] \in {"out", "relock"}, mutex[t] # None
        PROVE  mutex[t] = Collector /\ pc[Collector] \in {"lock", "sync", "release"}
    BY <2>2 DEF OwnersInv, OwnerFits, OwnerSteps, Held
  <2> QED BY <2>1, <2>2 DEF NoCircularWait, OwnerSteps
<1> QED BY <1>1, OwnersBegin, OwnersStay, Invariance, PTL DEF Spec
=============================================================================
