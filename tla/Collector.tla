------------------------------ MODULE Collector ------------------------------
(***************************************************************************)
(* The marking side of the collector in src/ebi_core.c: allocation, the    *)
(* write barriers of ebi_assign_ref with their deferred links, the lists   *)
(* of objects to traverse, ebi_gc_mark, and the stages ebi_gc_step goes    *)
(* through.  Mutators run in parallel with one collector thread, one step  *)
(* here is one access to a shared object or list.  Lists are pushed and    *)
(* popped in one step (IaStack), mutexes are locks (Mutex), and the        *)
(* handshake of the barrier is that of ThreadBarrier.                      *)
(*                                                                         *)
(* Objects carry the number n only: to_g is never true for an object that  *)
(* was not in G before, so the code puts none there.  The lists of live    *)
(* objects (objs_alive, objs_sweep) are left out: ebi_new and the flushes  *)
(* fill them, and the code moves nothing to those that ebi_gc_sweep takes  *)
(* from, so no object is ever freed.                                       *)
(***************************************************************************)
EXTENDS Integers, Sequences, FiniteSets, FiniteSetsExt

CONSTANTS
  Objects,
  Leaves,     \* objects of a type without references
  Null,
  Fields,     \* the reference fields of the others
  Mutators,
  GcThread,   \* the thread that calls ebi_gc_step
  ListSize,   \* EBI_OBJLIST_SIZE (64)
  MaxLinks,   \* EBI_MAX_DEFER_LINKS (64)
  MaxStores,  \* bound: assignments in one behaviour
  MaxGen      \* bound: no barrier starts at this generation, so gen.n never wraps

ASSUME CollectorAssumption ==
  /\ IsFiniteSet(Objects)
  /\ Leaves \subseteq Objects
  /\ Null \notin Objects
  /\ GcThread \notin Mutators
  /\ (Objects \ Leaves) \X Fields # {}
  /\ ListSize \in Nat \ {0}
  /\ MaxLinks \in Nat \ {0}
  /\ MaxStores \in Nat
  /\ MaxGen \in 1..255

Threads == Mutators \cup {GcThread}
Slots == (Objects \ Leaves) \X Fields

VARIABLES
  n,        \* per object gen.n, 0 before it is allocated
  slot,     \* what each reference field holds
  thread,   \* per ebi_thread: gen, marks and links
  queue,    \* vm->objs_mark, a stack of lists
  vm,       \* gen, stage, and fenced: a barrier is under way
  held,     \* threads whose mutex the barrier holds
  pc,       \* where each thread is
  reg,      \* its local variables
  fresh     \* history: values linked since the thread synchronized

vars == <<n, slot, thread, queue, vm, held, pc, reg, fresh>>

ObjectOrNull == Objects \cup {Null}

Locations ==
  {"run", "prev", "defer", "full", "store", "test", "set", "links", "flush",
   "take", "walk", "fence", "step", "again", "stage", "barrier"}

ThreadRecord ==
  [gen : 1..MaxGen, marks : SUBSET Objects, links : Seq(ObjectOrNull)]

\* et: the ebi_thread a function works on      target: the object ebi_mark marks
\* next: where ebi_mark returns to             after: where ebi_flush_links does
\* pos: the loop index of ebi_flush_links      unseen: fields ebi_gc_mark has to visit
\* found: what ebi_gc_mark returned to ebi_gc_step
\* dest, value: the arguments of ebi_assign_ref
Registers ==
  [et : Threads, target : ObjectOrNull, next : Locations, after : Locations, pos : Nat \ {0},
   unseen : SUBSET Slots, found : BOOLEAN, dest : Slots, value : ObjectOrNull]

TypeOK ==
  /\ n \in [Objects -> 0..MaxGen]
  /\ slot \in [Slots -> ObjectOrNull]
  /\ thread \in [Threads -> ThreadRecord]
  /\ queue \in Seq(SUBSET Objects)
  /\ vm \in [gen : 1..MaxGen, stage : {"idle", "mark", "sweep"}, fenced : BOOLEAN]
  /\ held \in SUBSET Threads
  /\ pc \in [Threads -> Locations]
  /\ reg \in [Threads -> Registers]
  /\ fresh \in [Threads -> SUBSET ObjectOrNull]
  /\ \A t \in Threads : Cardinality(thread[t].marks) <= ListSize

\* Between calls a thread has no locals.
NoLocals(t) ==
  [et |-> t, target |-> Null, next |-> "run", after |-> "run", pos |-> 1, unseen |-> {},
   found |-> FALSE, dest |-> CHOOSE s \in Slots : TRUE, value |-> Null]

Init ==
  /\ n = [o \in Objects |-> 0]
  /\ slot = [s \in Slots |-> Null]
  /\ thread = [t \in Threads |-> [gen |-> 1, marks |-> {}, links |-> <<>>]]
  /\ queue = <<>>
  /\ vm = [gen |-> 1, stage |-> "idle", fenced |-> FALSE]
  /\ held = {}
  /\ pc = [t \in Threads |-> IF t = GcThread THEN "step" ELSE "run"]
  /\ reg = [t \in Threads |-> NoLocals(t)]
  /\ fresh = [t \in Threads |-> {}]

-----------------------------------------------------------------------------
At(t, l) == pc[t] = l
Goto(t, l) == pc' = [pc EXCEPT ![t] = l]
SetLocals(t, r) == reg' = [reg EXCEPT ![t] = r]
SetThread(u, et) == thread' = [thread EXCEPT ![u] = et]

Allocated == {o \in Objects : n[o] # 0}

\* A mutator between two calls whose mutex the barrier does not hold.
Free(t) == At(t, "run") /\ t \notin held

\* The ebi_thread that t works on: its own, or another one in the barrier.
Et(t) == reg[t].et

\* ebi_new: the object has the number that marks it in this cycle.
New(t) ==
  /\ Free(t)
  /\ \E o \in Objects \ Allocated : n' = [n EXCEPT ![o] = thread[t].gen]
  /\ UNCHANGED <<slot, thread, queue, vm, held, pc, reg, fresh>>

\* ebi_assign_ref is called with any two objects, or to clear a field.
AssignRef(t) ==
  /\ Free(t)
  /\ MapThenSumSet(LAMBDA u : Len(thread[u].links), Mutators) < MaxStores
  /\ \E s \in Slots, v \in Allocated \cup {Null} :
       /\ s[1] \in Allocated
       /\ SetLocals(t, [reg[t] EXCEPT !.dest = s, !.value = v])
  /\ Goto(t, "prev")
  /\ UNCHANGED <<n, slot, thread, queue, vm, held, fresh>>

\* Calls ebi_mark(o), which goes on at l.
CallMark(t, o, l) ==
  /\ SetLocals(t, [reg[t] EXCEPT !.target = o, !.next = l])
  /\ Goto(t, "test")

ReturnFromMark(t) ==
  /\ SetLocals(t, [reg[t] EXCEPT !.target = Null, !.next = "run"])
  /\ Goto(t, reg[t].next)

\* Mutant: no deletion barrier.
ReadPrevUnmarked(t) ==
  /\ At(t, "prev")
  /\ Goto(t, "defer")
  /\ UNCHANGED <<n, slot, thread, queue, vm, held, reg, fresh>>

\* The deletion barrier.
ReadPrev(t) ==
  /\ At(t, "prev")
  /\ LET prev == slot[reg[t].dest]
     IN IF prev # Null THEN CallMark(t, prev, "defer") ELSE Goto(t, "defer") /\ UNCHANGED reg
  /\ UNCHANGED <<n, slot, thread, queue, vm, held, fresh>>

\* ebi_defer_link.  It flushes a full array, which stays full: writing past
\* the array is undefined, and such a thread stops here.
DeferLink(t) ==
  /\ \/ /\ pc[t] \in {"defer", "full"}
        /\ Len(thread[t].links) < MaxLinks
        /\ SetThread(t, [thread[t] EXCEPT !.links = Append(@, reg[t].value)])
        /\ fresh' = [fresh EXCEPT ![t] = @ \cup {reg[t].value}]
        /\ Goto(t, "store")
        /\ UNCHANGED reg
     \/ /\ At(t, "defer")
        /\ Len(thread[t].links) = MaxLinks
        /\ SetLocals(t, [reg[t] EXCEPT !.after = "full"])
        /\ Goto(t, "links")
        /\ UNCHANGED <<thread, fresh>>
  /\ UNCHANGED <<n, slot, queue, vm, held>>

StoreRef(t) ==
  /\ At(t, "store")
  /\ slot' = [slot EXCEPT ![reg[t].dest] = reg[t].value]
  /\ SetLocals(t, NoLocals(t))
  /\ Goto(t, "run")
  /\ UNCHANGED <<n, thread, queue, vm, held, fresh>>

-----------------------------------------------------------------------------
\* ebi_mark: the test, and the store with what follows it.  Two threads may
\* both pass the test; they store the same number and both queue the object.
TestMark(t) ==
  /\ At(t, "test")
  /\ IF n[reg[t].target] = thread[Et(t)].gen
     THEN ReturnFromMark(t)
     ELSE Goto(t, "set") /\ UNCHANGED reg
  /\ UNCHANGED <<n, slot, thread, queue, vm, held, fresh>>

\* Mutant: a full list is not sent before the object is added to it.
SetMarkUnbounded(t) ==
  LET o == reg[t].target
  IN /\ At(t, "set")
     /\ n' = [n EXCEPT ![o] = thread[Et(t)].gen]
     /\ SetThread(Et(t), [thread[Et(t)] EXCEPT !.marks = IF o \in Leaves THEN @ ELSE @ \cup {o}])
     /\ ReturnFromMark(t)
     /\ UNCHANGED <<slot, queue, vm, held, fresh>>

\* Mutant: the object is marked and not queued.
SetMarkOnly(t) ==
  /\ At(t, "set")
  /\ n' = [n EXCEPT ![reg[t].target] = thread[Et(t)].gen]
  /\ ReturnFromMark(t)
  /\ UNCHANGED <<slot, thread, queue, vm, held, fresh>>

\* ebi_queue_mark, which sends a full list to objs_mark first.
SetMark(t) ==
  LET o == reg[t].target
      marks == thread[Et(t)].marks
  IN /\ At(t, "set")
     /\ n' = [n EXCEPT ![o] = thread[Et(t)].gen]
     /\ IF o \in Leaves
        THEN UNCHANGED <<thread, queue>>
        ELSE IF Cardinality(marks) = ListSize
        THEN /\ queue' = <<marks>> \o queue
             /\ SetThread(Et(t), [thread[Et(t)] EXCEPT !.marks = {o}])
        ELSE /\ SetThread(Et(t), [thread[Et(t)] EXCEPT !.marks = @ \cup {o}])
             /\ UNCHANGED queue
     /\ ReturnFromMark(t)
     /\ UNCHANGED <<slot, vm, held, fresh>>

\* Mutant: the last link is left out.
FlushLinkButLast(t) ==
  LET links == thread[Et(t)].links
      pos == reg[t].pos
  IN /\ At(t, "links")
     /\ IF pos >= Len(links)
        THEN Goto(t, reg[t].after) /\ SetLocals(t, [reg[t] EXCEPT !.pos = 1, !.after = "run"])
        ELSE /\ links[pos] # Null
             /\ SetLocals(t, [reg[t] EXCEPT !.pos = @ + 1, !.target = links[pos],
                                            !.next = "links"])
             /\ Goto(t, "test")
     /\ UNCHANGED <<n, slot, thread, queue, vm, held, fresh>>

\* ebi_flush_links, which leaves num_defer_links alone.  A link to NULL fails
\* the assertion in ebi_get_obj: such a thread stops here.
FlushLink(t) ==
  LET links == thread[Et(t)].links
      pos == reg[t].pos
  IN /\ At(t, "links")
     /\ IF pos > Len(links)
        THEN Goto(t, reg[t].after) /\ SetLocals(t, [reg[t] EXCEPT !.pos = 1, !.after = "run"])
        ELSE /\ links[pos] # Null
             /\ SetLocals(t, [reg[t] EXCEPT !.pos = @ + 1, !.target = links[pos],
                                            !.next = "links"])
             /\ Goto(t, "test")
     /\ UNCHANGED <<n, slot, thread, queue, vm, held, fresh>>

-----------------------------------------------------------------------------
\* ebi_synchronize_thread of u by t.
BeginSynchronize(t, u) ==
  /\ SetLocals(t, [reg[t] EXCEPT !.et = u, !.pos = 1, !.after = "flush"])
  /\ Goto(t, "links")

\* ebi_checkpoint in a mutator.
Checkpoint(t) ==
  /\ Free(t)
  /\ thread[t].gen # vm.gen
  /\ BeginSynchronize(t, t)
  /\ UNCHANGED <<n, slot, thread, queue, vm, held, fresh>>

\* The end of it: u has the new generation.  A mutator goes on to the fence.
EndSynchronize(t) ==
  /\ fresh' = [fresh EXCEPT ![Et(t)] = {}]
  /\ SetLocals(t, NoLocals(t))
  /\ Goto(t, IF t = GcThread THEN "barrier" ELSE "fence")

\* ebi_flush_marks in it.  Only a thread that synchronizes itself goes on to
\* mark (wait_marks).
FlushMarks(t) ==
  LET u == Et(t)
  IN /\ At(t, "flush")
     /\ queue' = IF thread[u].marks = {} THEN queue ELSE <<thread[u].marks>> \o queue
     /\ IF t = GcThread
        THEN /\ SetThread(u, [thread[u] EXCEPT !.marks = {}, !.gen = vm.gen])
             /\ EndSynchronize(t)
        ELSE /\ SetThread(u, [thread[u] EXCEPT !.marks = {}])
             /\ Goto(t, "take")
             /\ UNCHANGED <<reg, fresh>>
     /\ UNCHANGED <<n, slot, vm, held>>

\* ebi_gc_mark takes a list ...
TakeList(t) ==
  /\ pc[t] \in {"take", "step", "again"}
  /\ queue # <<>>
  /\ queue' = Tail(queue)
  /\ SetLocals(t, [reg[t] EXCEPT !.unseen = Head(queue) \X Fields])
  /\ Goto(t, "walk")
  /\ UNCHANGED <<n, slot, thread, vm, held, fresh>>

\* ... and marks what its objects refer to, field by field.
WalkField(t) ==
  /\ At(t, "walk")
  /\ \E s \in reg[t].unseen :
       LET rest == [reg[t] EXCEPT !.unseen = @ \ {s}]
       IN IF slot[s] = Null
          THEN SetLocals(t, rest) /\ UNCHANGED pc
          ELSE /\ SetLocals(t, [rest EXCEPT !.target = slot[s], !.next = "walk"])
               /\ Goto(t, "test")
  /\ UNCHANGED <<n, slot, thread, queue, vm, held, fresh>>

\* A mutator that synchronizes repeats the flush after every list.
EndWalk(t) ==
  /\ At(t, "walk")
  /\ reg[t].unseen = {}
  /\ IF t = GcThread
     THEN SetLocals(t, [reg[t] EXCEPT !.found = TRUE]) /\ Goto(t, "stage")
     ELSE SetLocals(t, [reg[t] EXCEPT !.after = "flush"]) /\ Goto(t, "links")
  /\ UNCHANGED <<n, slot, thread, queue, vm, held, fresh>>

\* ebi_gc_mark returns false, which ends the loop.
EndMarking(t) ==
  /\ At(t, "take")
  /\ queue = <<>>
  /\ SetThread(t, [thread[t] EXCEPT !.gen = vm.gen])
  /\ EndSynchronize(t)
  /\ UNCHANGED <<n, slot, queue, vm, held>>

-----------------------------------------------------------------------------
\* ebi_gc_step found no list: it sends its own, if it has one, and tries again.
StepFindsNothing(c) ==
  /\ pc[c] \in {"step", "again"}
  /\ queue = <<>>
  /\ IF At(c, "step") /\ thread[c].marks # {}
     THEN /\ queue' = <<thread[c].marks>>
          /\ SetThread(c, [thread[c] EXCEPT !.marks = {}])
          /\ Goto(c, "again")
     ELSE Goto(c, "stage") /\ UNCHANGED <<queue, thread>>
  /\ UNCHANGED <<n, slot, vm, held, reg, fresh>>

\* The stages.  The mark phase ends with the first step that found nothing.
AdvanceStage(c) ==
  /\ At(c, "stage")
  /\ \/ /\ vm.stage # "mark"
        /\ vm' = [vm EXCEPT !.stage = IF @ = "idle" THEN "mark" ELSE "idle"]
        /\ Goto(c, "step")
     \/ /\ vm.stage = "mark" /\ reg[c].found
        /\ Goto(c, "step")
        /\ UNCHANGED vm
     \/ /\ vm.stage = "mark" /\ ~reg[c].found
        /\ vm.gen < MaxGen
        /\ vm' = [vm EXCEPT !.gen = @ + 1, !.fenced = TRUE]
        /\ Goto(c, "barrier")
  /\ SetLocals(c, NoLocals(c))
  /\ UNCHANGED <<n, slot, thread, queue, held, fresh>>

\* The barrier takes the mutex of u, which is not inside a call, and
\* synchronizes u unless u did.
HoldThread(c) ==
  /\ At(c, "barrier")
  /\ \E u \in Threads \ held :
       /\ u = c \/ pc[u] \in {"run", "fence"}
       /\ held' = held \cup {u}
       /\ IF thread[u].gen = vm.gen
          THEN UNCHANGED <<reg, pc>>
          ELSE BeginSynchronize(c, u)
  /\ UNCHANGED <<n, slot, thread, queue, vm, fresh>>

\* It lets everybody go; ebi_gc_step is done.
EndBarrier(c) ==
  /\ At(c, "barrier")
  /\ held = Threads
  /\ held' = {}
  /\ vm' = [vm EXCEPT !.fenced = FALSE, !.stage = "sweep"]
  /\ pc' = [t \in Threads |-> IF t = c THEN "step" ELSE "run"]
  /\ UNCHANGED <<n, slot, thread, queue, reg, fresh>>

-----------------------------------------------------------------------------
Mark(t) ==
  \/ TestMark(t) \/ SetMark(t) \/ FlushLink(t) \/ FlushMarks(t)
  \/ TakeList(t) \/ WalkField(t) \/ EndWalk(t)

Mutate(t) ==
  \/ New(t) \/ AssignRef(t) \/ ReadPrev(t) \/ DeferLink(t) \/ StoreRef(t)
  \/ Checkpoint(t) \/ EndMarking(t)

GcStep(c) == StepFindsNothing(c) \/ AdvanceStage(c) \/ HoldThread(c) \/ EndBarrier(c)

Next ==
  \/ \E t \in Threads : Mark(t)
  \/ \E t \in Mutators : Mutate(t)
  \/ GcStep(GcThread)

Spec == Init /\ [][Next]_vars

-----------------------------------------------------------------------------
\* The generation that running threads mark with.
Cycle == IF vm.fenced THEN vm.gen - 1 ELSE vm.gen

IsMarked(o) == n[o] = Cycle

\* The walk has not come to this field, or is about to mark what it held.
Unvisited(s) ==
  \/ \E i \in DOMAIN queue : s[1] \in queue[i]
  \/ \E t \in Threads : s[1] \in thread[t].marks \/ s \in reg[t].unseen

AboutToMark(o) == \E t \in Threads : pc[t] \in {"test", "set"} /\ reg[t].target = o

IsLinked(o) == \E t \in Threads : o \in fresh[t]

(***************************************************************************)
(* What a marked object refers to is marked or will be: the walk has still *)
(* to visit the field, or a thread has deferred a link to it.  A store     *)
(* behind the walk hides nothing, because the link is deferred before the  *)
(* field is written; and as nothing is left deferred once all threads have *)
(* synchronized, a cycle that ends has marked or queued all of it.         *)
(***************************************************************************)
NoHiddenReference ==
  \A s \in Slots : slot[s] # Null /\ IsMarked(s[1]) =>
    IsMarked(slot[s]) \/ Unvisited(s) \/ AboutToMark(slot[s]) \/ IsLinked(slot[s])

(***************************************************************************)
(* "Issue write barriers to not hide references from the GC threads"       *)
(* (ebi_assign_ref): a reference leaves a field only after it was marked   *)
(* in this cycle or linked, even when two threads assign the same field    *)
(* and neither sees what the other stores.                                 *)
(***************************************************************************)
OverwrittenIsKept ==
  [][\A s \in Slots : slot[s] # Null /\ slot'[s] # slot[s] =>
       IsMarked(slot[s]) \/ IsLinked(slot[s])]_vars

(***************************************************************************)
(* ebi_defer_link flushes a full array so that there is room for one more  *)
(* link (EBI_MAX_DEFER_LINKS).                                             *)
(***************************************************************************)
DeferredLinksFit == \A t \in Threads : At(t, "full") => Len(thread[t].links) < MaxLinks
=============================================================================
