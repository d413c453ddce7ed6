--------------------------- MODULE ThreadBarrier ---------------------------
(***************************************************************************)
(* How the threads of a VM agree on a new collection cycle: ebi_checkpoint *)
(* in the mutators, ebi_gc_thread_barrier in the thread that runs          *)
(* ebi_gc_step, the mutex every ebi_thread has, and vm->thread_fence.      *)
(*                                                                         *)
(* A mutator runs with its own mutex locked and looks at vm->checkpoint    *)
(* now and then.  The barrier publishes a new generation, takes every      *)
(* thread's mutex, brings its copies up to date, and lets everybody go.    *)
(* A mutex is an atomic lock here (Mutex shows that ebi_mutex is one); the *)
(* fence is modelled access by access.                                     *)
(***************************************************************************)
EXTENDS Integers

CONSTANTS
  NumThreads,     \* vm->num_threads
  Collector,      \* the thread that calls ebi_gc_step, an index of vm->threads
  LocksItself,    \* does it call it with its own mutex locked?
  MaxGen,         \* the last value of the byte gen.n (255 in the code)
  FenceSpin,      \* attempts before fence_wait sleeps (1000 in the code)
  MaxBarriers     \* bound: barriers in one behaviour

ASSUME BarrierAssumption ==
  /\ NumThreads \in Nat
  /\ Collector \in 1..NumThreads
  /\ LocksItself \in BOOLEAN
  /\ MaxGen \in Nat \ {0, 1}
  /\ FenceSpin \in Nat
  /\ MaxBarriers \in Nat

Threads == 1..NumThreads
Mutators == Threads \ {Collector}
None == 0

VARIABLES
  vm,      \* checkpoint, gen.n, checkpoint_fence and gc_stage of ebi_vm
  fence,   \* vm->thread_fence.lock
  mutex,   \* the owner of each thread's mutex
  et,      \* checkpoint and gen.n of each ebi_thread
  pc,      \* where each thread is
  ret,     \* where its ebi_checkpoint returns to
  spin,    \* the local `spin` of fence_wait
  index    \* the local `i` of the barrier

vars == <<vm, fence, mutex, et, pc, ret, spin, index>>

\* ebi_checkpoint and what it calls: before the comparison of the checkpoints,
\* before the flushing and marking, the two copies, the unlock, the test of the
\* fence, WaitOnAddress, in it, and before the mutex is locked again.
CheckpointSteps ==
  {"compare", "flush", "copygen", "copycheckpoint", "unlock", "test", "wait", "asleep", "relock"}

\* A mutator outside (ebi_unlock_thread has returned), running, and on its way out.
MutatorSteps == {"out", "run", "leave"}

\* ebi_gc_step up to the stage, then ebi_gc_thread_barrier.
StepSteps == {"idle", "mark", "stage"}
BarrierSteps ==
  {"close", "publish", "count", "lock", "sync", "release", "open", "wake", "finish"}

Locations == CheckpointSteps \cup MutatorSteps \cup StepSteps \cup BarrierSteps

Stages == {"idle", "mark", "sweep"}

TypeOK ==
  /\ vm \in [checkpoint : 0..MaxBarriers, gen : 1..MaxGen, fenced : BOOLEAN, stage : Stages]
  /\ fence \in {0, 1}
  /\ mutex \in [Threads -> Threads \cup {None}]
  /\ et \in [Threads -> [checkpoint : 0..MaxBarriers, gen : 1..MaxGen]]
  /\ pc \in [Threads -> Locations]
  /\ ret \in [Threads -> {"run", "leave", "mark"}]
  /\ spin \in [Threads -> 0..(FenceSpin + 1)]
  /\ index \in 1..(NumThreads + 1)

Init ==
  /\ vm = [checkpoint |-> 0, gen |-> 1, fenced |-> FALSE, stage |-> "idle"]
  /\ fence = 0
  /\ mutex = [t \in Threads |-> IF LocksItself /\ t = Collector THEN t ELSE None]
  /\ et = [t \in Threads |-> [checkpoint |-> 0, gen |-> 1]]
  /\ pc = [t \in Threads |-> IF t = Collector THEN "idle" ELSE "out"]
  /\ ret = [t \in Threads |-> IF t = Collector THEN "mark" ELSE "run"]
  /\ spin = [t \in Threads |-> 0]
  /\ index = 1

-----------------------------------------------------------------------------
At(t, l) == pc[t] = l
Goto(t, l) == pc' = [pc EXCEPT ![t] = l]

Acquire(t, m) == mutex[m] = None /\ mutex' = [mutex EXCEPT ![m] = t]
Unlock(m) == mutex' = [mutex EXCEPT ![m] = None]

\* ebi_lock_thread: the mutex, then a checkpoint.
LockThread(t) ==
  /\ At(t, "out")
  /\ Acquire(t, t)
  /\ ret' = [ret EXCEPT ![t] = "run"]
  /\ Goto(t, "compare")
  /\ UNCHANGED <<vm, fence, et, spin, index>>

\* A running mutator calls ebi_checkpoint, by itself or in ebi_unlock_thread.
CallCheckpoint(t) ==
  /\ At(t, "run")
  /\ \E l \in {"run", "leave"} : ret' = [ret EXCEPT ![t] = l]
  /\ Goto(t, "compare")
  /\ UNCHANGED <<vm, fence, mutex, et, spin, index>>

UnlockThread(t) ==
  /\ At(t, "leave")
  /\ Unlock(t)
  /\ Goto(t, "out")
  /\ UNCHANGED <<vm, fence, et, ret, spin, index>>

-----------------------------------------------------------------------------
\* Mutant: the checkpoint is not compared, as if nothing were ever new.
CompareNever(t) ==
  /\ At(t, "compare")
  /\ Goto(t, ret[t])
  /\ UNCHANGED <<vm, fence, mutex, et, ret, spin, index>>

\* ebi_checkpoint.
Compare(t) ==
  /\ At(t, "compare")
  /\ Goto(t, IF et[t].checkpoint = vm.checkpoint THEN ret[t] ELSE "flush")
  /\ UNCHANGED <<vm, fence, mutex, et, ret, spin, index>>

\* ebi_synchronize_thread flushes lists and links, and marks with et->gen.
Flush(t) ==
  /\ At(t, "flush")
  /\ Goto(t, "copygen")
  /\ UNCHANGED <<vm, fence, mutex, et, ret, spin, index>>

CopyGen(t) ==
  /\ At(t, "copygen")
  /\ et' = [et EXCEPT ![t].gen = vm.gen]
  /\ Goto(t, "copycheckpoint")
  /\ UNCHANGED <<vm, fence, mutex, ret, spin, index>>

\* Mutant: a synchronized thread goes on without waiting for the others.
CopyCheckpointAndRun(t) ==
  /\ At(t, "copycheckpoint")
  /\ et' = [et EXCEPT ![t].checkpoint = vm.checkpoint]
  /\ Goto(t, ret[t])
  /\ UNCHANGED <<vm, fence, mutex, ret, spin, index>>

\* Only when checkpoint_fence is set does the thread stop at the fence.
CopyCheckpoint(t) ==
  /\ At(t, "copycheckpoint")
  /\ et' = [et EXCEPT ![t].checkpoint = vm.checkpoint]
  /\ Goto(t, IF vm.fenced THEN "unlock" ELSE ret[t])
  /\ UNCHANGED <<vm, fence, mutex, ret, spin, index>>

\* Mutant: the thread stops at the fence with its mutex locked.
StopLocked(t) ==
  /\ At(t, "unlock")
  /\ spin' = [spin EXCEPT ![t] = 0]
  /\ Goto(t, "test")
  /\ UNCHANGED <<vm, fence, mutex, et, ret, index>>

UnlockAtFence(t) ==
  /\ At(t, "unlock")
  /\ Unlock(t)
  /\ spin' = [spin EXCEPT ![t] = 0]
  /\ Goto(t, "test")
  /\ UNCHANGED <<vm, fence, et, ret, index>>

\* ebi_fence_wait: the test, and WaitOnAddress with the value it passes, 0.
TestFence(t) ==
  /\ At(t, "test")
  /\ IF fence = 0
     THEN Goto(t, "relock") /\ UNCHANGED spin
     ELSE /\ spin' = [spin EXCEPT ![t] = IF @ > FenceSpin THEN @ ELSE @ + 1]
          /\ Goto(t, IF spin'[t] > FenceSpin THEN "wait" ELSE "test")
  /\ UNCHANGED <<vm, fence, mutex, et, ret, index>>

WaitOnFence(t) ==
  /\ At(t, "wait")
  /\ Goto(t, IF fence = 0 THEN "asleep" ELSE "test")
  /\ UNCHANGED <<vm, fence, mutex, et, ret, spin, index>>

Relock(t) ==
  /\ At(t, "relock")
  /\ Acquire(t, t)
  /\ Goto(t, ret[t])
  /\ UNCHANGED <<vm, fence, et, ret, spin, index>>

-----------------------------------------------------------------------------
\* ebi_gc_step: a checkpoint, then marking and sweeping with et->gen.
CallStep(c) ==
  /\ At(c, "idle")
  /\ vm.checkpoint < MaxBarriers
  /\ Goto(c, "compare")
  /\ UNCHANGED <<vm, fence, mutex, et, ret, spin, index>>

MarkAndSweep(c) ==
  /\ At(c, "mark")
  /\ Goto(c, "stage")
  /\ UNCHANGED <<vm, fence, mutex, et, ret, spin, index>>

\* The stage, under gc_mutex, which a single collector never waits for.  A
\* mark phase goes on for as long as there was something to mark.
AdvanceStage(c) ==
  /\ At(c, "stage")
  /\ \/ /\ vm.stage = "mark"
        /\ \/ Goto(c, "idle") /\ UNCHANGED vm
           \/ Goto(c, "close") /\ UNCHANGED vm
     \/ /\ vm.stage # "mark"
        /\ vm' = [vm EXCEPT !.stage = IF @ = "idle" THEN "mark" ELSE "idle"]
        /\ Goto(c, "idle")
  /\ UNCHANGED <<fence, mutex, et, ret, spin, index>>

\* Mutant: the barrier leaves the fence open.
CloseNothing(c) ==
  /\ At(c, "close")
  /\ Goto(c, "publish")
  /\ UNCHANGED <<vm, fence, mutex, et, ret, spin, index>>

\* ebi_gc_thread_barrier, under thread_mutex, which nobody else takes.
CloseFence(c) ==
  /\ At(c, "close")
  /\ fence' = 1
  /\ Goto(c, "publish")
  /\ UNCHANGED <<vm, mutex, et, ret, spin, index>>

\* Mutant: the byte wraps to 0 instead of 1.
PublishZero(c) ==
  /\ At(c, "publish")
  /\ vm' = [vm EXCEPT !.fenced = TRUE, !.gen = IF @ = MaxGen THEN 0 ELSE @ + 1]
  /\ Goto(c, "count")
  /\ UNCHANGED <<fence, mutex, et, ret, spin, index>>

Publish(c) ==
  /\ At(c, "publish")
  /\ vm' = [vm EXCEPT !.fenced = TRUE, !.gen = IF @ = MaxGen THEN 1 ELSE @ + 1]
  /\ Goto(c, "count")
  /\ UNCHANGED <<fence, mutex, et, ret, spin, index>>

Count(c) ==
  /\ At(c, "count")
  /\ vm' = [vm EXCEPT !.checkpoint = @ + 1]
  /\ index' = 1
  /\ Goto(c, "lock")
  /\ UNCHANGED <<fence, mutex, et, ret, spin>>

\* Mutant: the other thread's mutex is not taken.
LockNothing(c) ==
  /\ At(c, "lock")
  /\ Goto(c, "sync")
  /\ UNCHANGED <<vm, fence, mutex, et, ret, spin, index>>

LockOther(c) ==
  /\ At(c, "lock")
  /\ Acquire(c, index)
  /\ Goto(c, "sync")
  /\ UNCHANGED <<vm, fence, et, ret, spin, index>>

\* Mutant: each mutex is given back at once.
SyncAndUnlock(c) ==
  /\ At(c, "sync")
  /\ et' = [et EXCEPT ![index] = [checkpoint |-> vm.checkpoint, gen |-> vm.gen]]
  /\ Unlock(index)
  /\ IF index < NumThreads
     THEN index' = index + 1 /\ Goto(c, "lock")
     ELSE index' = 1 /\ Goto(c, "release")
  /\ UNCHANGED <<vm, fence, ret, spin>>

\* Mutant: the thread's copy of the generation stays what it was.
SyncOtherNotGen(c) ==
  /\ At(c, "sync")
  /\ et' = [et EXCEPT ![index].checkpoint = vm.checkpoint]
  /\ IF index < NumThreads
     THEN index' = index + 1 /\ Goto(c, "lock")
     ELSE index' = 1 /\ Goto(c, "release")
  /\ UNCHANGED <<vm, fence, mutex, ret, spin>>

\* ebi_synchronize_thread of a thread that has not done it itself.
SyncOther(c) ==
  /\ At(c, "sync")
  /\ et' = [et EXCEPT ![index] = IF @.checkpoint = vm.checkpoint THEN @
                                 ELSE [checkpoint |-> vm.checkpoint, gen |-> vm.gen]]
  /\ IF index < NumThreads
     THEN index' = index + 1 /\ Goto(c, "lock")
     ELSE index' = 1 /\ Goto(c, "release")
  /\ UNCHANGED <<vm, fence, mutex, ret, spin>>

ReleaseOther(c) ==
  /\ At(c, "release")
  /\ Unlock(index)
  /\ index' = index + 1
  /\ Goto(c, IF index < NumThreads THEN "release" ELSE "open")
  /\ UNCHANGED <<vm, fence, et, ret, spin>>

OpenFence(c) ==
  /\ At(c, "open")
  /\ fence' = 0
  /\ Goto(c, "wake")
  /\ UNCHANGED <<vm, mutex, et, ret, spin, index>>

\* WakeByAddressAll.
WakeAll(c) ==
  /\ At(c, "wake")
  /\ pc' = [t \in Threads |-> IF t = c THEN "finish"
                              ELSE IF At(t, "asleep") THEN "test" ELSE pc[t]]
  /\ UNCHANGED <<vm, fence, mutex, et, ret, spin, index>>

Finish(c) ==
  /\ At(c, "finish")
  /\ vm' = [vm EXCEPT !.stage = "sweep"]
  /\ Goto(c, "idle")
  /\ UNCHANGED <<fence, mutex, et, ret, spin, index>>

-----------------------------------------------------------------------------
Barrier(c) ==
  \/ CloseFence(c) \/ Publish(c) \/ Count(c) \/ LockOther(c) \/ SyncOther(c)
  \/ ReleaseOther(c) \/ OpenFence(c) \/ WakeAll(c) \/ Finish(c)

Checkpoint(t) ==
  \/ Compare(t) \/ Flush(t) \/ CopyGen(t) \/ CopyCheckpoint(t) \/ UnlockAtFence(t)
  \/ TestFence(t) \/ WaitOnFence(t) \/ Relock(t)

Next ==
  \/ \E t \in Mutators : LockThread(t) \/ CallCheckpoint(t) \/ UnlockThread(t)
  \/ \E t \in Threads : Checkpoint(t)
  \/ CallStep(Collector) \/ MarkAndSweep(Collector) \/ AdvanceStage(Collector)
  \/ Barrier(Collector)

Spec == Init /\ [][Next]_vars

\* A thread that is not blocked runs, and a running mutator calls ebi_checkpoint
\* again and again, as ebi requires.  Nobody has to lock a thread or to call
\* ebi_gc_step.
Fairness ==
  /\ \A t \in Threads : WF_vars(Checkpoint(t))
  /\ \A t \in Mutators : WF_vars(CallCheckpoint(t)) /\ WF_vars(UnlockThread(t))
  /\ WF_vars(Barrier(Collector))

FairSpec == Spec /\ Fairness

-----------------------------------------------------------------------------
\* Threads that may mark objects with their et->gen.
Running == {t \in Threads : pc[t] \in {"run", "leave", "compare", "flush", "mark"}}

\* The barrier marks what a late thread has deferred with that thread's gen.
GensInUse ==
  {et[t].gen : t \in Running}
    \cup {et[i].gen : i \in {j \in Threads : /\ At(Collector, "sync") /\ j = index
                                            /\ et[j].checkpoint # vm.checkpoint}}

(***************************************************************************)
(* "All threads try to write the same values" (ebi_gc_gen): threads that   *)
(* may mark at the same time do so with the same generation, also while a  *)
(* barrier has reached some of them and not the others.                    *)
(***************************************************************************)
MarkersAgree == \A g, h \in GensInUse : g = h

(***************************************************************************)
(* The barrier flushes and updates another thread's ebi_thread only while  *)
(* its owner is outside or at the fence, and from the time it has reached  *)
(* the last one until it lets the first one go nobody runs.                *)
(***************************************************************************)
BarrierIsExclusive ==
  /\ At(Collector, "sync") => index \notin Running
  /\ At(Collector, "release") /\ index = 1 => Running = {}

(***************************************************************************)
(* When the threads are let go every one of them is up to date, and        *)
(* between barriers none is more than one checkpoint behind.               *)
(***************************************************************************)
NobodyLeftBehind ==
  /\ \A t \in Threads : et[t].checkpoint \in {vm.checkpoint - 1, vm.checkpoint}
  /\ pc[Collector] \notin BarrierSteps \ {"open", "wake", "finish"} =>
       \A t \in Threads : et[t] = [checkpoint |-> vm.checkpoint, gen |-> vm.gen]

(***************************************************************************)
(* Nobody waits in a circle.  Where the barrier finds a mutex locked, its  *)
(* own thread has it, which has still to synchronize, or has done so and   *)
(* is about to unlock it at the fence; nothing it does until then waits.   *)
(* Where a mutator finds its mutex locked, a barrier that goes round has   *)
(* it.                                                                     *)
(***************************************************************************)
NoCircularWait ==
  /\ At(Collector, "lock") /\ mutex[index] # None =>
       /\ mutex[index] = index /\ index # Collector
       /\ \/ At(index, "unlock")
          \/ /\ et[index].checkpoint # vm.checkpoint
             /\ pc[index] \in {"run", "leave", "compare", "flush", "copygen", "copycheckpoint"}
  /\ \A t \in Mutators : pc[t] \in {"out", "relock"} /\ mutex[t] # None =>
       mutex[t] = Collector /\ pc[Collector] \in {"lock", "sync", "release"}

(***************************************************************************)
(* A barrier ends: it does not wait for ever for a mutator, and no mutator *)
(* holds its mutex for ever.                                               *)
(***************************************************************************)
BarrierEnds == At(Collector, "close") ~> At(Collector, "idle")

(***************************************************************************)
(* ebi_thread: "the thread will synchronize with others at                 *)
(* `ebi_checkpoint()` if `et->checkpoint != vm->checkpoint`".              *)
(***************************************************************************)
LateThreadsSynchronize ==
  \A t \in Threads :
    (et[t].checkpoint # vm.checkpoint) ~> (et[t].checkpoint = vm.checkpoint)

(***************************************************************************)
(* A thread that stopped at a checkpoint goes on once the others have      *)
(* synchronized: the sketch program allocates after every ebi_checkpoint.  *)
(***************************************************************************)
CheckpointReturns == \A t \in Mutators : At(t, "test") ~> pc[t] \in {"run", "leave"}
=============================================================================
