--------------------------- MODULE CollectorProofs ---------------------------
(***************************************************************************)
(* Proofs about the write barriers and the walk of Collector: no reference *)
(* is hidden from the walk, and none is overwritten before it was marked   *)
(* or linked, for any number of threads and any heap.                      *)
(***************************************************************************)
EXTENDS Collector, FiniteSetTheorems, TLAPS

\* Where a thread is: in ebi_mark, in ebi_mark and then at l, in
\* ebi_flush_links, in ebi_gc_mark.
Marking(t) == pc[t] \in {"test", "set"}
Returns(t, l) == Marking(t) /\ reg[t].next = l
Flushing(t) == At(t, "links") \/ Returns(t, "links")
Walking(t) == At(t, "walk") \/ Returns(t, "walk")

\* It synchronizes a thread and has marked what its links refer to.
Flushed(t) == At(t, "flush") \/ (t \in Mutators /\ (At(t, "take") \/ Walking(t)))

\* It is in ebi_assign_ref, and has read the previous value.
Overwrites(t) ==
  \/ pc[t] \in {"defer", "full", "store"}
  \/ Returns(t, "defer")
  \/ Flushing(t) /\ reg[t].after = "full"

Assigns(t) == At(t, "prev") \/ Overwrites(t)

-----------------------------------------------------------------------------
(***************************************************************************)
(* The invariant, in parts; those of a thread are operators of their own.  *)
(***************************************************************************)
\* What a thread does, and that its locals are set for it.
PlaceOK(t) ==
  /\ t \in Mutators => pc[t] \notin {"step", "again", "stage", "barrier"} /\ Et(t) = t
  /\ t = GcThread => pc[t] \notin {"run", "fence", "prev", "defer", "full", "store", "take"}
  /\ Marking(t) => reg[t].target \in Objects /\ reg[t].next \in {"defer", "links", "walk"}
  /\ Returns(t, "defer") => t \in Mutators
  /\ Flushing(t) => reg[t].after \in {"full", "flush"} /\ (reg[t].after = "full" => t \in Mutators)
  /\ ~Flushing(t) => reg[t].pos = 1
  /\ ~Walking(t) => reg[t].unseen = {}
  /\ At(t, "store") => reg[t].value \in fresh[t]
  /\ Assigns(t) => n[reg[t].dest[1]] # 0

\* Threads that are at work mark with the generation of the cycle; one that
\* has the next is stopped.
GenOK(t) ==
  /\ thread[t].gen # Cycle => thread[t].gen = vm.gen /\ (t \in held \/ At(t, "fence"))
  /\ pc[t] \notin {"run", "fence", "barrier"} => thread[Et(t)].gen = Cycle
  /\ t \in held /\ t \in Mutators => pc[t] \in {"run", "fence"}

\* The thread the collector synchronizes is held and does nothing itself.
Synchronizing(c) == At(c, "flush") \/ Flushing(c)

BarrierInv ==
  /\ vm.fenced <=> At(GcThread, "barrier") \/ Synchronizing(GcThread)
  /\ ~vm.fenced => held = {}
  /\ \A u \in held : thread[u].gen = vm.gen \/ (Synchronizing(GcThread) /\ Et(GcThread) = u)
  /\ Synchronizing(GcThread) =>
       /\ Et(GcThread) \in held
       /\ Et(GcThread) # GcThread => pc[Et(GcThread)] \in {"run", "fence"}
  /\ ~Synchronizing(GcThread) => Et(GcThread) = GcThread

\* No mark is from the future, and only objects that exist have references.
HeapInv ==
  /\ \A o \in Objects : n[o] <= Cycle
  /\ \A s \in Slots : slot[s] # Null => n[s[1]] # 0

\* Objects that have references only are listed to be walked.
ListsInv ==
  /\ \A t \in Threads : thread[t].marks \subseteq Objects \ Leaves
  /\ \A i \in DOMAIN queue : queue[i] \subseteq Objects \ Leaves

\* Links are deferred before they are stored ...
LinkInv ==
  \A t \in Threads : \A o \in fresh[t] : \E i \in 1..Len(thread[t].links) : thread[t].links[i] = o

\* ... and what they refer to is marked one by one by the thread that flushes.
IsDone(t, o) == o \in Objects /\ (IsMarked(o) \/ (Marking(t) /\ reg[t].target = o))

FlushOK(t) ==
  \A i \in 1..Len(thread[Et(t)].links) :
    /\ Flushing(t) /\ i < reg[t].pos => IsDone(t, thread[Et(t)].links[i])
    /\ Flushed(t) => thread[Et(t)].links[i] \in Objects /\ IsMarked(thread[Et(t)].links[i])

\* What is about to be overwritten is known to the walk.
KeepOK(t) ==
  Overwrites(t) =>
    \/ slot[reg[t].dest] = Null
    \/ IsMarked(slot[reg[t].dest])
    \/ IsLinked(slot[reg[t].dest])
    \/ Returns(t, "defer") /\ reg[t].target = slot[reg[t].dest]

ThreadInv == \A t \in Threads : PlaceOK(t) /\ GenOK(t) /\ FlushOK(t) /\ KeepOK(t)

IInv ==
  /\ TypeOK
  /\ ThreadInv
  /\ BarrierInv
  /\ HeapInv
  /\ ListsInv
  /\ LinkInv
  /\ NoHiddenReference

-----------------------------------------------------------------------------
(***************************************************************************)
(* Types.                                                                  *)
(***************************************************************************)
LEMMA SomeSlot == (CHOOSE s \in Slots : TRUE) \in Slots
  BY CollectorAssumption DEF Slots

LEMMA NoLocalsType == ASSUME NEW t \in Threads PROVE NoLocals(t) \in Registers
  BY SomeSlot DEF NoLocals, Registers, ObjectOrNull, Locations

\* A list that is not full has room for an object.
LEMMA RoomInList ==
  ASSUME NEW marks \in SUBSET Objects, NEW o \in Objects,
         Cardinality(marks) <= ListSize, Cardinality(marks) # ListSize
  PROVE  Cardinality(marks \cup {o}) <= ListSize
<1>1. IsFiniteSet(marks)
  BY FS_Subset, CollectorAssumption
<1>2. Cardinality(marks) \in Nat
  BY <1>1, FS_CardinalityType
<1>3. Cardinality(marks \cup {o}) = IF o \in marks THEN Cardinality(marks) ELSE Cardinality(marks) + 1
  BY <1>1, FS_AddElement
<1> QED BY <1>2, <1>3, CollectorAssumption

LEMMA SingleFits == ASSUME NEW o PROVE Cardinality({o}) <= ListSize
<1>1. Cardinality({o}) = 1
  BY FS_Singleton
<1> QED BY <1>1, CollectorAssumption

LEMMA EmptyFits == Cardinality({}) <= ListSize
  BY FS_EmptySet, CollectorAssumption

\* All but the last part of TypeOK, which speaks of cardinalities.
Types ==
  /\ n \in [Objects -> 0..MaxGen]
  /\ slot \in [Slots -> ObjectOrNull]
  /\ thread \in [Threads -> ThreadRecord]
  /\ queue \in Seq(SUBSET Objects)
  /\ vm \in [gen : 1..MaxGen, stage : {"idle", "mark", "sweep"}, fenced : BOOLEAN]
  /\ held \in SUBSET Threads
  /\ pc \in [Threads -> Locations]
  /\ reg \in [Threads -> Registers]
  /\ fresh \in [Threads -> SUBSET ObjectOrNull]

MarksFit == \A t \in Threads : Cardinality(thread[t].marks) <= ListSize

LEMMA TypeParts == (TypeOK <=> Types /\ MarksFit) /\ (TypeOK' <=> Types' /\ MarksFit')
  BY DEF TypeOK, Types, MarksFit

\* The values that locals and threads are given have their types.
LEMMA LocalsType ==
  ASSUME Types, NEW t \in Threads
  PROVE  /\ \A s \in Slots, v \in ObjectOrNull : [reg[t] EXCEPT !.dest = s, !.value = v] \in Registers
         /\ \A o \in ObjectOrNull, l \in Locations : [reg[t] EXCEPT !.target = o, !.next = l] \in Registers
         /\ \A l \in Locations : [reg[t] EXCEPT !.after = l] \in Registers
         /\ \A l \in Locations : [reg[t] EXCEPT !.pos = 1, !.after = l] \in Registers
         /\ \A o \in ObjectOrNull, l \in Locations :
              [reg[t] EXCEPT !.pos = reg[t].pos + 1, !.target = o, !.next = l] \in Registers
         /\ \A u \in Threads, l \in Locations :
              [reg[t] EXCEPT !.et = u, !.pos = 1, !.after = l] \in Registers
         /\ \A S \in SUBSET Slots : [reg[t] EXCEPT !.unseen = S] \in Registers
         /\ \A S \in SUBSET Slots, o \in ObjectOrNull, l \in Locations :
              [[reg[t] EXCEPT !.unseen = S] EXCEPT !.target = o, !.next = l] \in Registers
         /\ [reg[t] EXCEPT !.found = TRUE] \in Registers
         /\ reg[t] \in Registers
<1>1. reg[t] \in Registers
  BY DEF Types
<1>0. \A r \in Registers : r.pos + 1 \in Nat \ {0}
  BY DEF Registers
<1>2. \A s \in Slots, v \in ObjectOrNull : [reg[t] EXCEPT !.dest = s, !.value = v] \in Registers
  BY <1>0, <1>1 DEF Registers
<1>3. \A o \in ObjectOrNull, l \in Locations : [reg[t] EXCEPT !.target = o, !.next = l] \in Registers
  BY <1>0, <1>1 DEF Registers
<1>4. \A l \in Locations : [reg[t] EXCEPT !.after = l] \in Registers
  BY <1>0, <1>1 DEF Registers
<1>5. \A l \in Locations : [reg[t] EXCEPT !.pos = 1, !.after = l] \in Registers
  <2>1. \A l \in Locations, p \in Nat \ {0} : [reg[t] EXCEPT !.pos = p, !.after = l] \in Registers
    BY <1>1 DEF Registers
  <2>2. 1 \in Nat \ {0}
    OBVIOUS
  <2> QED BY <2>1, <2>2, Zenon
<1>6. \A o \in ObjectOrNull, l \in Locations :
        [reg[t] EXCEPT !.pos = reg[t].pos + 1, !.target = o, !.next = l] \in Registers
  BY <1>0, <1>1 DEF Registers
<1>7. \A u \in Threads, l \in Locations : [reg[t] EXCEPT !.et = u, !.pos = 1, !.after = l] \in Registers
  <2>1. \A u \in Threads, l \in Locations, p \in Nat \ {0} :
          [reg[t] EXCEPT !.et = u, !.pos = p, !.after = l] \in Registers
    BY <1>1 DEF Registers
  <2>2. 1 \in Nat \ {0}
    OBVIOUS
  <2> QED BY <2>1, <2>2, Zenon
<1>8. \A S \in SUBSET Slots : [reg[t] EXCEPT !.unseen = S] \in Registers
  BY <1>0, <1>1 DEF Registers
<1>9. \A S \in SUBSET Slots, o \in ObjectOrNull, l \in Locations :
        [[reg[t] EXCEPT !.unseen = S] EXCEPT !.target = o, !.next = l] \in Registers
  BY <1>0, <1>1 DEF Registers
<1>10. [reg[t] EXCEPT !.found = TRUE] \in Registers
  BY <1>0, <1>1 DEF Registers
<1> QED BY <1>1, <1>2, <1>3, <1>4, <1>5, <1>6, <1>7, <1>8, <1>9, <1>10, Zenon

LEMMA SetLocalsType ==
  ASSUME Types, NEW t \in Threads, NEW r \in Registers, SetLocals(t, r)
  PROVE  reg' \in [Threads -> Registers]
BY DEF Types, SetLocals

LEMMA GotoType ==
  ASSUME Types, NEW t \in Threads, NEW l \in Locations, Goto(t, l)
  PROVE  pc' \in [Threads -> Locations]
BY DEF Types, Goto

LEMMA ThreadType ==
  ASSUME Types, NEW u \in Threads
  PROVE  /\ \A m \in SUBSET Objects : [thread[u] EXCEPT !.marks = m] \in ThreadRecord
         /\ [thread[u] EXCEPT !.gen = vm.gen] \in ThreadRecord
         /\ \A m \in SUBSET Objects : [thread[u] EXCEPT !.marks = m, !.gen = vm.gen] \in ThreadRecord
         /\ \A v \in ObjectOrNull : [thread[u] EXCEPT !.links = Append(@, v)] \in ThreadRecord
         /\ thread[u] \in ThreadRecord
<1>1. thread[u] \in ThreadRecord
  BY DEF Types
<1>0. vm.gen \in 1..MaxGen
  BY DEF Types
<1>2. \A m \in SUBSET Objects : [thread[u] EXCEPT !.marks = m] \in ThreadRecord
  BY <1>0, <1>1 DEF ThreadRecord
<1>3. [thread[u] EXCEPT !.gen = vm.gen] \in ThreadRecord
  BY <1>0, <1>1 DEF ThreadRecord
<1>4. \A m \in SUBSET Objects : [thread[u] EXCEPT !.marks = m, !.gen = vm.gen] \in ThreadRecord
  BY <1>0, <1>1 DEF ThreadRecord
<1>5. \A v \in ObjectOrNull : [thread[u] EXCEPT !.links = Append(@, v)] \in ThreadRecord
  <2>1. \A l \in Seq(ObjectOrNull) : [thread[u] EXCEPT !.links = l] \in ThreadRecord
    BY <1>1 DEF ThreadRecord
  <2>2. \A v \in ObjectOrNull : Append(thread[u].links, v) \in Seq(ObjectOrNull)
    BY <1>1 DEF ThreadRecord
  <2> QED BY <2>1, <2>2
<1> QED BY <1>1, <1>2, <1>3, <1>4, <1>5, Zenon

LEMMA SetThreadType ==
  ASSUME Types, MarksFit, NEW u \in Threads, NEW et \in ThreadRecord, SetThread(u, et),
         Cardinality(et.marks) <= ListSize
  PROVE  thread' \in [Threads -> ThreadRecord] /\ MarksFit'
BY DEF Types, MarksFit, SetThread

\* What functions go on to.
LEMMA SomeLocations ==
  {"run", "defer", "full", "store", "test", "set", "links", "flush", "take", "walk", "fence",
   "step", "again", "stage", "barrier", "prev"} \subseteq Locations
BY DEF Locations

LEMMA Frame ==
  ASSUME Types, n' = n, slot' = slot, queue' = queue, vm' = vm, held' = held, fresh' = fresh,
         thread' = thread, reg' \in [Threads -> Registers], pc' \in [Threads -> Locations], MarksFit
  PROVE  TypeOK'
BY TypeParts DEF Types, MarksFit

-----------------------------------------------------------------------------
LEMMA TypeStep ==
  ASSUME IInv, Next PROVE TypeOK'
<1> USE DEF IInv
<1>0. Types /\ MarksFit /\ Mutators \subseteq Threads /\ GcThread \in Threads
  BY TypeParts DEF Threads
<1>a. \A t \in Threads : NoLocals(t) \in Registers
  BY NoLocalsType
<1>b. \A t \in Threads :
        /\ reg[t].et \in Threads /\ reg[t].target \in ObjectOrNull /\ reg[t].next \in Locations
        /\ reg[t].after \in Locations /\ reg[t].pos \in Nat \ {0} /\ reg[t].unseen \subseteq Slots
        /\ reg[t].dest \in Slots /\ reg[t].value \in ObjectOrNull
  BY <1>0 DEF Types, Registers
<1>1. ASSUME NEW t \in Mutators, New(t) PROVE TypeOK'
  BY <1>0, <1>1, TypeParts DEF New, Types, MarksFit, ThreadRecord, Threads
<1>2. ASSUME NEW t \in Mutators, AssignRef(t) PROVE TypeOK'
  <2>1. PICK s \in Slots, v \in ObjectOrNull : SetLocals(t, [reg[t] EXCEPT !.dest = s, !.value = v])
    BY <1>2, Zenon DEF AssignRef, Allocated, ObjectOrNull
  <2>2. reg' \in [Threads -> Registers]
    BY <1>0, <2>1, LocalsType, SetLocalsType
  <2>3. pc' \in [Threads -> Locations]
    BY <1>0, <1>2, GotoType, SomeLocations DEF AssignRef
  <2> QED BY <1>0, <1>2, <2>2, <2>3, Frame DEF AssignRef
<1>3. ASSUME NEW t \in Mutators, ReadPrev(t) PROVE TypeOK'
  <2>1. slot[reg[t].dest] \in ObjectOrNull
    BY <1>0, <1>b DEF Types
  <2>2. reg' \in [Threads -> Registers]
    <3>1. CASE reg' = reg
      BY <3>1, <1>0 DEF Types
    <3>2. CASE SetLocals(t, [reg[t] EXCEPT !.target = slot[reg[t].dest], !.next = "defer"])
      BY <3>2, <1>0, <2>1, LocalsType, SetLocalsType, SomeLocations
    <3> QED BY <3>1, <3>2, <1>3 DEF ReadPrev, CallMark
  <2>3. pc' \in [Threads -> Locations]
    BY <1>0, <1>3, GotoType, SomeLocations DEF ReadPrev, CallMark
  <2> QED BY <1>0, <1>3, <2>2, <2>3, Frame DEF ReadPrev
<1>4. ASSUME NEW t \in Mutators, DeferLink(t) PROVE TypeOK'
  <2>1. thread' \in [Threads -> ThreadRecord] /\ MarksFit'
    <3>1. CASE thread' = thread
      BY <3>1, <1>0 DEF Types, MarksFit
    <3>2. CASE SetThread(t, [thread[t] EXCEPT !.links = Append(@, reg[t].value)])
      <4>1. [thread[t] EXCEPT !.links = Append(@, reg[t].value)] \in ThreadRecord
        BY <1>0, <1>b, ThreadType
      <4>2. [thread[t] EXCEPT !.links = Append(@, reg[t].value)].marks = thread[t].marks
        BY <1>0 DEF Types, ThreadRecord
      <4>3. Cardinality(thread[t].marks) <= ListSize
        BY <1>0 DEF MarksFit
      <4> QED BY <3>2, <1>0, <4>1, <4>2, <4>3, SetThreadType
    <3> QED BY <3>1, <3>2, <1>4 DEF DeferLink
  <2>2. reg' \in [Threads -> Registers]
    <3>1. CASE reg' = reg
      BY <3>1, <1>0 DEF Types
    <3>2. CASE SetLocals(t, [reg[t] EXCEPT !.after = "full"])
      BY <3>2, <1>0, LocalsType, SetLocalsType, SomeLocations
    <3> QED BY <3>1, <3>2, <1>4 DEF DeferLink
  <2>3. pc' \in [Threads -> Locations]
    BY <1>0, <1>4, GotoType, SomeLocations DEF DeferLink
  <2>4. fresh' \in [Threads -> SUBSET ObjectOrNull]
    <3>1. reg[t].value \in ObjectOrNull /\ fresh \in [Threads -> SUBSET ObjectOrNull]
      BY <1>0, <1>b DEF Types
    <3>2. CASE fresh' = fresh
      BY <3>1, <3>2
    <3>3. CASE fresh' = [fresh EXCEPT ![t] = @ \cup {reg[t].value}]
      <4>1. fresh[t] \cup {reg[t].value} \in SUBSET ObjectOrNull
        BY <3>1, <1>0
      <4> QED BY <3>1, <3>3, <4>1
    <3> QED BY <1>4, <3>2, <3>3 DEF DeferLink
  <2>5. n' = n /\ slot' = slot /\ queue' = queue /\ vm' = vm /\ held' = held
    BY <1>4 DEF DeferLink
  <2> QED BY <1>0, <2>1, <2>2, <2>3, <2>4, <2>5, TypeParts DEF Types
<1>5. ASSUME NEW t \in Mutators, StoreRef(t) PROVE TypeOK'
  <2>1. slot' \in [Slots -> ObjectOrNull]
    BY <1>0, <1>5, <1>b DEF StoreRef, Types
  <2>2. reg' \in [Threads -> Registers] /\ pc' \in [Threads -> Locations]
    BY <1>0, <1>5, <1>a, SetLocalsType, GotoType, SomeLocations DEF StoreRef
  <2>3. n' = n /\ thread' = thread /\ queue' = queue /\ vm' = vm /\ held' = held /\ fresh' = fresh
    BY <1>5 DEF StoreRef
  <2> QED BY <1>0, <2>1, <2>2, <2>3, TypeParts DEF Types, MarksFit
<1>c. ASSUME NEW t \in Threads, ReturnFromMark(t)
      PROVE  reg' \in [Threads -> Registers] /\ pc' \in [Threads -> Locations]
  <2>1. [reg[t] EXCEPT !.target = Null, !.next = "run"] \in Registers
    BY <1>0, LocalsType, SomeLocations DEF ObjectOrNull
  <2> QED BY <1>0, <1>b, <1>c, <2>1, SetLocalsType, GotoType DEF ReturnFromMark
<1>6. ASSUME NEW t \in Threads, TestMark(t) PROVE TypeOK'
  <2>1. reg' \in [Threads -> Registers] /\ pc' \in [Threads -> Locations]
    <3>1. CASE ReturnFromMark(t)
      BY <3>1, <1>c
    <3>2. CASE Goto(t, "set") /\ reg' = reg
      BY <3>2, <1>0, GotoType, SomeLocations DEF Types
    <3> QED BY <3>1, <3>2, <1>6 DEF TestMark
  <2> QED BY <1>0, <1>6, <2>1, Frame DEF TestMark
<1>7. ASSUME NEW t \in Threads, SetMark(t) PROVE TypeOK'
  <2> DEFINE o == reg[t].target
             marks == thread[Et(t)].marks
             With(m) == [thread[Et(t)] EXCEPT !.marks = m]
  <2>1. /\ Et(t) \in Threads /\ marks \in SUBSET Objects /\ Cardinality(marks) <= ListSize
        /\ thread[Et(t)].gen \in 1..MaxGen
    BY <1>0, <1>b DEF Types, MarksFit, ThreadRecord, Et
  <2>2. o \in Objects
    BY <1>7 DEF SetMark, ThreadInv, PlaceOK, Marking, At
  <2>3. n' \in [Objects -> 0..MaxGen]
    BY <1>0, <1>7, <2>1, <2>2 DEF SetMark, Types
  <2>4. ASSUME NEW m \in SUBSET Objects, Cardinality(m) <= ListSize, SetThread(Et(t), With(m))
        PROVE  thread' \in [Threads -> ThreadRecord] /\ MarksFit'
    <3>1. With(m) \in ThreadRecord
      BY <1>0, <2>1, ThreadType
    <3>2. With(m).marks = m
      BY <1>0, <2>1 DEF Types, ThreadRecord
    <3> QED BY <1>0, <2>1, <2>4, <3>1, <3>2, SetThreadType
  <2>5. thread' \in [Threads -> ThreadRecord] /\ MarksFit' /\ queue' \in Seq(SUBSET Objects)
    <3>1. CASE o \in Leaves
      BY <1>0, <1>7, <3>1 DEF SetMark, Types, MarksFit
    <3>2. CASE o \notin Leaves /\ Cardinality(marks) = ListSize
      <4>1. SetThread(Et(t), With({o})) /\ queue' = <<marks>> \o queue
        BY <1>7, <3>2 DEF SetMark
      <4>2. queue' \in Seq(SUBSET Objects)
        BY <1>0, <2>1, <4>1 DEF Types
      <4> QED BY <2>2, <2>4, <4>1, <4>2, SingleFits
    <3>3. CASE o \notin Leaves /\ Cardinality(marks) # ListSize
      <4>1. SetThread(Et(t), With(marks \cup {o})) /\ queue' = queue
        BY <1>7, <3>3 DEF SetMark
      <4>2. Cardinality(marks \cup {o}) <= ListSize
        BY <2>1, <2>2, <3>3, RoomInList
      <4>3. marks \cup {o} \in SUBSET Objects
        BY <2>1, <2>2
      <4> HIDE DEF With, marks
      <4>4. thread' \in [Threads -> ThreadRecord] /\ MarksFit'
        BY <2>4, <4>1, <4>2, <4>3
      <4> QED BY <1>0, <4>1, <4>4 DEF Types
    <3> QED BY <3>1, <3>2, <3>3
  <2>6. pc' \in [Threads -> Locations] /\ reg' \in [Threads -> Registers]
    BY <1>c, <1>7 DEF SetMark
  <2>7. slot' = slot /\ vm' = vm /\ held' = held /\ fresh' = fresh
    BY <1>7, Zenon DEF SetMark
  <2> QED BY <1>0, <2>3, <2>5, <2>6, <2>7, TypeParts DEF Types
<1>8. ASSUME NEW t \in Threads, FlushLink(t) PROVE TypeOK'
  <2> DEFINE links == thread[Et(t)].links
             pos == reg[t].pos
  <2>1. ~(pos > Len(links)) => links[pos] \in ObjectOrNull
    <3>1. links \in Seq(ObjectOrNull)
      BY <1>0, <1>b DEF Types, ThreadRecord, Et
    <3>2. pos \in Nat \ {0}
      BY <1>b
    <3> QED BY <3>1, <3>2
  <2>2. reg' \in [Threads -> Registers] /\ pc' \in [Threads -> Locations]
    <3>1. CASE pos > Len(links)
      BY <3>1, <1>0, <1>8, <1>b, LocalsType, SetLocalsType, GotoType, SomeLocations DEF FlushLink
    <3>2. CASE ~(pos > Len(links))
      <4>1. SetLocals(t, [reg[t] EXCEPT !.pos = reg[t].pos + 1, !.target = links[pos], !.next = "links"])
        BY <1>8, <3>2 DEF FlushLink
      <4>2. [reg[t] EXCEPT !.pos = reg[t].pos + 1, !.target = links[pos], !.next = "links"] \in Registers
        BY <1>0, <2>1, <3>2, LocalsType, SomeLocations
      <4>3. reg' \in [Threads -> Registers]
        BY <1>0, <4>1, <4>2, SetLocalsType
      <4>4. pc' \in [Threads -> Locations]
        BY <1>0, <1>8, <3>2, GotoType, SomeLocations DEF FlushLink
      <4> QED BY <4>3, <4>4
    <3> QED BY <3>1, <3>2
  <2> QED BY <1>0, <1>8, <2>2, Frame DEF FlushLink
<1>d. ASSUME NEW t \in Threads, NEW u \in Threads, BeginSynchronize(t, u)
      PROVE  reg' \in [Threads -> Registers] /\ pc' \in [Threads -> Locations]
  BY <1>0, <1>d, LocalsType, SetLocalsType, GotoType, SomeLocations DEF BeginSynchronize
<1>9. ASSUME NEW t \in Mutators, Checkpoint(t) PROVE TypeOK'
  BY <1>0, <1>d, <1>9, Frame DEF Checkpoint
<1>e. ASSUME NEW t \in Threads, EndSynchronize(t)
      PROVE  /\ reg' \in [Threads -> Registers] /\ pc' \in [Threads -> Locations]
             /\ fresh' \in [Threads -> SUBSET ObjectOrNull]
  <2>1. reg' \in [Threads -> Registers] /\ pc' \in [Threads -> Locations]
    BY <1>0, <1>a, <1>e, SetLocalsType, GotoType, SomeLocations DEF EndSynchronize
  <2>2. fresh' \in [Threads -> SUBSET ObjectOrNull]
    BY <1>0, <1>e DEF EndSynchronize, Types
  <2> QED BY <2>1, <2>2
<1>10. ASSUME NEW t \in Threads, FlushMarks(t) PROVE TypeOK'
  <2> DEFINE u == Et(t)
  <2>1. u \in Threads /\ thread[u] \in ThreadRecord /\ thread[u].marks \in SUBSET Objects
    BY <1>0, <1>b DEF Types, ThreadRecord, Et
  <2>2. queue' \in Seq(SUBSET Objects)
    <3>1. queue' = queue \/ queue' = <<thread[u].marks>> \o queue
      BY <1>10 DEF FlushMarks
    <3> QED BY <1>0, <2>1, <3>1 DEF Types
  <2>3. thread' \in [Threads -> ThreadRecord] /\ MarksFit'
    <3> DEFINE a == [thread[u] EXCEPT !.marks = {}, !.gen = vm.gen]
               b == [thread[u] EXCEPT !.marks = {}]
    <3>1. a \in ThreadRecord /\ b \in ThreadRecord
      BY <1>0, <2>1, ThreadType
    <3>2. a.marks = {} /\ b.marks = {}
      BY <2>1 DEF ThreadRecord
    <3>3. SetThread(u, a) \/ SetThread(u, b)
      BY <1>10 DEF FlushMarks
    <3> HIDE DEF a, b, u
    <3> QED BY <1>0, <2>1, <3>1, <3>2, <3>3, SetThreadType, EmptyFits
  <2>4. /\ reg' \in [Threads -> Registers] /\ pc' \in [Threads -> Locations]
        /\ fresh' \in [Threads -> SUBSET ObjectOrNull]
    <3>1. CASE EndSynchronize(t)
      BY <3>1, <1>e
    <3>2. CASE Goto(t, "take") /\ reg' = reg /\ fresh' = fresh
      BY <3>2, <1>0, GotoType, SomeLocations DEF Types
    <3> QED BY <3>1, <3>2, <1>10 DEF FlushMarks
  <2>5. n' = n /\ slot' = slot /\ vm' = vm /\ held' = held
    BY <1>10 DEF FlushMarks
  <2> QED BY <1>0, <2>2, <2>3, <2>4, <2>5, TypeParts DEF Types
<1>11. ASSUME NEW t \in Threads, TakeList(t) PROVE TypeOK'
  <2>1. queue' \in Seq(SUBSET Objects) /\ Head(queue) = queue[1] /\ 1 \in DOMAIN queue
    BY <1>0, <1>11 DEF TakeList, Types
  <2>2. Head(queue) \X Fields \in SUBSET Slots
    BY <2>1 DEF ListsInv, Slots
  <2>3. reg' \in [Threads -> Registers]
    BY <1>0, <1>11, <2>2, LocalsType, SetLocalsType DEF TakeList
  <2>4. pc' \in [Threads -> Locations]
    BY <1>0, <1>11, GotoType, SomeLocations DEF TakeList
  <2> QED BY <1>0, <1>11, <2>1, <2>3, <2>4, TypeParts DEF TakeList, Types, MarksFit
<1>12. ASSUME NEW t \in Threads, WalkField(t) PROVE TypeOK'
  <2>1. PICK s \in reg[t].unseen :
          LET rest == [reg[t] EXCEPT !.unseen = @ \ {s}]
          IN  \/ SetLocals(t, rest) /\ pc' = pc
              \/ SetLocals(t, [rest EXCEPT !.target = slot[s], !.next = "walk"]) /\ Goto(t, "test")
    BY <1>12 DEF WalkField
  <2>2. slot[s] \in ObjectOrNull /\ reg[t].unseen \ {s} \in SUBSET Slots
    BY <1>0, <1>b DEF Types
  <2>3. reg' \in [Threads -> Registers]
    BY <1>0, <2>1, <2>2, LocalsType, SetLocalsType, SomeLocations
  <2>4. pc' \in [Threads -> Locations]
    BY <1>0, <2>1, GotoType, SomeLocations DEF Types
  <2> QED BY <1>0, <1>12, <2>3, <2>4, Frame DEF WalkField
<1>13. ASSUME NEW t \in Threads, EndWalk(t) PROVE TypeOK'
  <2>1. reg' \in [Threads -> Registers] /\ pc' \in [Threads -> Locations]
    BY <1>0, <1>13, LocalsType, SetLocalsType, GotoType, SomeLocations DEF EndWalk
  <2> QED BY <1>0, <1>13, <2>1, Frame DEF EndWalk
<1>14. ASSUME NEW t \in Mutators, EndMarking(t) PROVE TypeOK'
  <2>1. /\ reg' \in [Threads -> Registers] /\ pc' \in [Threads -> Locations]
        /\ fresh' \in [Threads -> SUBSET ObjectOrNull]
    BY <1>0, <1>e, <1>14 DEF EndMarking
  <2>2. thread' \in [Threads -> ThreadRecord] /\ MarksFit'
    <3>1. [thread[t] EXCEPT !.gen = vm.gen].marks = thread[t].marks
      BY <1>0 DEF Types, ThreadRecord
    <3>2. Cardinality(thread[t].marks) <= ListSize
      BY <1>0 DEF MarksFit
    <3> QED BY <1>0, <1>14, <3>1, <3>2, ThreadType, SetThreadType DEF EndMarking
  <2> QED BY <1>0, <1>14, <2>1, <2>2, TypeParts DEF EndMarking, Types
<1>15. ASSUME StepFindsNothing(GcThread) PROVE TypeOK'
  <2> DEFINE et == [thread[GcThread] EXCEPT !.marks = {}]
  <2>1. thread[GcThread] \in ThreadRecord /\ thread[GcThread].marks \in SUBSET Objects
    BY <1>0 DEF Types, ThreadRecord
  <2>2. et.marks = {} /\ et \in ThreadRecord
    BY <1>0, <2>1, ThreadType DEF ThreadRecord
  <2>3. CASE queue' = <<thread[GcThread].marks>> /\ SetThread(GcThread, et) /\ Goto(GcThread, "again")
    <3>1. thread' \in [Threads -> ThreadRecord] /\ MarksFit'
      BY <1>0, <2>2, <2>3, SetThreadType, EmptyFits
    <3>2. queue' \in Seq(SUBSET Objects)
      BY <2>1, <2>3
    <3>3. pc' \in [Threads -> Locations]
      BY <1>0, <2>3, GotoType, SomeLocations
    <3> QED BY <1>0, <1>15, <3>1, <3>2, <3>3, TypeParts DEF StepFindsNothing, Types
  <2>4. CASE Goto(GcThread, "stage") /\ queue' = queue /\ thread' = thread
    <3>1. pc' \in [Threads -> Locations]
      BY <1>0, <2>4, GotoType, SomeLocations
    <3> QED BY <1>0, <1>15, <2>4, <3>1, Frame DEF StepFindsNothing, Types
  <2> QED BY <1>15, <2>3, <2>4 DEF StepFindsNothing
<1>16. ASSUME AdvanceStage(GcThread) PROVE TypeOK'
  <2>1. vm' \in [gen : 1..MaxGen, stage : {"idle", "mark", "sweep"}, fenced : BOOLEAN]
    <3>1. vm \in [gen : 1..MaxGen, stage : {"idle", "mark", "sweep"}, fenced : BOOLEAN]
      BY <1>0 DEF Types
    <3>2. vm.gen < MaxGen => vm.gen + 1 \in 1..MaxGen
      BY <3>1, CollectorAssumption
    <3>3. \/ vm' = vm
          \/ \E stage \in {"idle", "mark"} : vm' = [vm EXCEPT !.stage = stage]
          \/ vm.gen < MaxGen /\ vm' = [vm EXCEPT !.gen = vm.gen + 1, !.fenced = TRUE]
      BY <1>16 DEF AdvanceStage
    <3> QED BY <3>1, <3>2, <3>3
  <2>2. reg' \in [Threads -> Registers]
    BY <1>0, <1>a, <1>16, SetLocalsType DEF AdvanceStage
  <2>3. pc' \in [Threads -> Locations]
    BY <1>0, <1>16, GotoType, SomeLocations DEF AdvanceStage
  <2>4. /\ n' = n /\ slot' = slot /\ thread' = thread /\ queue' = queue /\ held' = held
        /\ fresh' = fresh
    BY <1>16, Zenon DEF AdvanceStage
  <2> QED BY <1>0, <2>1, <2>2, <2>3, <2>4, TypeParts DEF Types, MarksFit
<1>17. ASSUME HoldThread(GcThread) PROVE TypeOK'
  <2>1. PICK u \in Threads \ held :
          held' = held \cup {u} /\ (UNCHANGED <<reg, pc>> \/ BeginSynchronize(GcThread, u))
    BY <1>17 DEF HoldThread
  <2>2. reg' \in [Threads -> Registers] /\ pc' \in [Threads -> Locations]
    BY <1>0, <1>d, <2>1 DEF Types
  <2>3. held' \in SUBSET Threads
    BY <1>0, <2>1 DEF Types
  <2>4. n' = n /\ slot' = slot /\ thread' = thread /\ queue' = queue /\ vm' = vm /\ fresh' = fresh
    BY <1>17 DEF HoldThread
  <2> QED BY <1>0, <2>2, <2>3, <2>4, TypeParts DEF Types, MarksFit
<1>18. ASSUME EndBarrier(GcThread) PROVE TypeOK'
  BY <1>0, <1>18, TypeParts DEF EndBarrier, Types, MarksFit, Locations
<1> QED
  BY <1>1, <1>2, <1>3, <1>4, <1>5, <1>6, <1>7, <1>8, <1>9, <1>10, <1>11, <1>12, <1>13, <1>14,
     <1>15, <1>16, <1>17, <1>18, Zenon DEF Next, Mark, Mutate, GcStep

-----------------------------------------------------------------------------
(***************************************************************************)
(* What most steps of a thread t have in common.  The cycle goes on; marks *)
(* are of this cycle; other threads are where they were; links are added   *)
(* by ebi_defer_link only, and forgotten by a thread that has flushed      *)
(* them; and a field gets a value that was linked.                         *)
(***************************************************************************)
Steady(t) ==
  /\ Cycle' = Cycle
  /\ \A o \in Objects : n'[o] = n[o] \/ (n'[o] = Cycle /\ n'[o] # 0)
  /\ \A u \in Threads : u # t => pc'[u] = pc[u] /\ reg'[u] = reg[u]
  /\ \A u \in Threads : thread'[u].links = thread[u].links \/ (u = t /\ pc[t] \in {"defer", "full"})
  /\ \A u \in Threads : fresh[u] \subseteq fresh'[u] \/ (u = Et(t) /\ Flushed(t))
  /\ \A s \in Slots :
       slot'[s] = slot[s] \/ (At(t, "store") /\ s = reg[t].dest /\ slot'[s] = reg[t].value)

\* No thread gets a generation, and the barrier stays where it is.
Quiet(t) ==
  /\ vm'.gen = vm.gen /\ vm'.fenced = vm.fenced /\ held' = held
  /\ \A u \in Threads : thread'[u].gen = thread[u].gen
  /\ reg'[t].et = reg[t].et
  /\ pc[t] \notin {"fence", "barrier"} /\ pc'[t] # "barrier"
  /\ At(t, "run") => t \notin held
  /\ t = GcThread => (Synchronizing(t)' <=> Synchronizing(t))

\* No field leaves the walk before it was visited.
Walks ==
  /\ \A s \in Slots, o \in Objects : Unvisited(s) /\ slot[s] = o => Unvisited(s)' \/ AboutToMark(o)'
  /\ \A o \in Objects : AboutToMark(o) => AboutToMark(o)' \/ IsMarked(o)'
  /\ \A o \in Objects :
       n'[o] # n[o] => n[o] = 0 \/ (\A s \in Slots : s[1] = o => Unvisited(s)')

LEMMA Basics ==
  ASSUME IInv
  PROVE  /\ GcThread \in Threads /\ Mutators \subseteq Threads
         /\ \A t \in Threads : t \in Mutators <=> t # GcThread
         /\ \A t \in Threads :
              /\ reg[t] \in Registers /\ thread[t] \in ThreadRecord
              /\ Et(t) \in Threads /\ reg[t].dest \in Slots
              /\ fresh[t] \subseteq ObjectOrNull
         /\ \A s \in Slots : slot[s] \in ObjectOrNull /\ s[1] \in Objects \ Leaves
         /\ \A o \in Objects : n[o] \in Nat
         /\ vm.gen \in Nat /\ Cycle \in Int
<1>1. GcThread \in Threads /\ Mutators \subseteq Threads /\ \A t \in Threads : t \in Mutators <=> t # GcThread
  BY CollectorAssumption DEF Threads
<1>2. \A t \in Threads : reg[t] \in Registers /\ thread[t] \in ThreadRecord /\ fresh[t] \subseteq ObjectOrNull
  BY DEF IInv, TypeOK
<1>3. \A t \in Threads : Et(t) \in Threads /\ reg[t].dest \in Slots
  BY <1>2 DEF Registers, Et
<1>4. \A s \in Slots : slot[s] \in ObjectOrNull /\ s[1] \in Objects \ Leaves
  BY DEF IInv, TypeOK, Slots
<1>5. /\ \A o \in Objects : n[o] \in Nat
      /\ vm.gen \in Nat /\ Cycle \in Int
  BY DEF IInv, TypeOK, Cycle
<1> QED BY <1>1, <1>2, <1>3, <1>4, <1>5, Zenon

\* Marks and what was linked stay.
LEMMA MarkedStays ==
  ASSUME IInv, NEW t \in Threads, Steady(t), NEW o \in Objects, IsMarked(o)
  PROVE  IsMarked(o)'
BY DEF Steady, IsMarked

LEMMA FlushedAreMarked ==
  ASSUME IInv, NEW t \in Threads, Flushed(t), NEW o \in fresh[Et(t)]
  PROVE  o \in Objects /\ IsMarked(o)
<1>1. PICK i \in 1..Len(thread[Et(t)].links) : thread[Et(t)].links[i] = o
  BY Basics DEF IInv, LinkInv
<1> QED BY <1>1 DEF IInv, ThreadInv, FlushOK

LEMMA LinkedStays ==
  ASSUME IInv, NEW t \in Threads, Steady(t), NEW o, IsLinked(o)
  PROVE  IsLinked(o)' \/ (o \in Objects /\ IsMarked(o)')
<1>1. PICK u \in Threads : o \in fresh[u]
  BY DEF IsLinked
<1>2. CASE o \in fresh'[u]
  BY <1>2 DEF IsLinked
<1>3. CASE o \notin fresh'[u]
  <2>1. u = Et(t) /\ Flushed(t)
    BY <1>1, <1>3 DEF Steady
  <2> QED BY <1>1, <2>1, FlushedAreMarked, MarkedStays
<1> QED BY <1>2, <1>3

\* A field that is written holds what its writer linked.
LEMMA WrittenIsLinked ==
  ASSUME IInv, NEW t \in Threads, Steady(t), NEW s \in Slots, NEW o, slot'[s] = o, slot[s] # o
  PROVE  IsLinked(o)'
<1>1. At(t, "store") /\ o = reg[t].value
  BY DEF Steady
<1>2. o \in fresh[t]
  BY <1>1 DEF IInv, ThreadInv, PlaceOK
<1>3. ~Flushed(t)
  BY <1>1 DEF Flushed, Walking, Returns, Marking, At
<1>4. o \in fresh'[t]
  BY <1>2, <1>3 DEF Steady
<1> QED BY <1>4 DEF IsLinked

LEMMA NothingHidden ==
  ASSUME IInv, NEW t \in Threads, Steady(t), Walks PROVE NoHiddenReference'
<1> SUFFICES ASSUME NEW s \in Slots, NEW o \in Objects, slot'[s] = o, IsMarked(s[1])'
             PROVE  IsMarked(o)' \/ Unvisited(s)' \/ AboutToMark(o)' \/ IsLinked(o)'
  <2>1. \A s \in Slots : slot'[s] # Null => slot'[s] \in Objects
    BY Basics DEF ObjectOrNull, Steady, IInv, ThreadInv, PlaceOK
  <2> QED BY <2>1 DEF NoHiddenReference, IsMarked, Unvisited, AboutToMark, IsLinked, Cycle
<1>1. CASE slot[s] # o
  BY <1>1, WrittenIsLinked
<1>2. CASE slot[s] = o
  <2>1. s[1] \in Objects /\ o # Null
    BY Basics, CollectorAssumption
  <2>2. CASE n'[s[1]] # n[s[1]]
    BY <2>1, <2>2, <1>2 DEF Walks, IInv, HeapInv
  <2>3. CASE n'[s[1]] = n[s[1]]
    <3>1. IsMarked(s[1])
      BY <2>3 DEF IsMarked, Steady
    <3>2. IsMarked(o) \/ Unvisited(s) \/ AboutToMark(o) \/ IsLinked(o)
      BY <3>1, <2>1, <1>2 DEF IInv, NoHiddenReference
    <3>3. CASE IsMarked(o)
      BY <3>3, MarkedStays
    <3>4. CASE Unvisited(s)
      BY <3>4, <1>2 DEF Walks
    <3>5. CASE AboutToMark(o)
      BY <3>5 DEF Walks
    <3>6. CASE IsLinked(o)
      BY <3>6, LinkedStays
    <3> QED BY <3>2, <3>3, <3>4, <3>5, <3>6
  <2> QED BY <2>2, <2>3
<1> QED BY <1>1, <1>2

LEMMA HeapStays ==
  ASSUME IInv, NEW t \in Threads, Steady(t) PROVE HeapInv'
<1>1. \A o \in Objects : n'[o] <= Cycle'
  BY Basics DEF Steady, IInv, HeapInv
<1>2. ASSUME NEW s \in Slots, slot'[s] # Null PROVE n'[s[1]] # 0
  <2>1. n[s[1]] # 0
    BY <1>2 DEF Steady, IInv, HeapInv, ThreadInv, PlaceOK, Assigns, Overwrites, At
  <2> QED BY <2>1, Basics DEF Steady
<1> QED BY <1>1, <1>2 DEF HeapInv

\* What a thread is about to overwrite stays known to the walk.
LEMMA KeepStays ==
  ASSUME IInv, NEW t \in Threads, Steady(t), NEW u \in Threads,
         Overwrites(u)' => Overwrites(u) /\ reg'[u].dest = reg[u].dest,
         \A o \in Objects : Returns(u, "defer") /\ reg[u].target = o =>
           (Returns(u, "defer")' /\ reg'[u].target = o) \/ IsMarked(o)'
  PROVE  KeepOK(u)'
<1> SUFFICES ASSUME Overwrites(u)', NEW o, slot'[reg[u].dest] = o, o # Null
             PROVE  IsMarked(o)' \/ IsLinked(o)' \/ (Returns(u, "defer")' /\ reg'[u].target = o)
  BY DEF KeepOK, IsMarked, IsLinked, Cycle
<1> DEFINE s == reg[u].dest
<1>1. s \in Slots /\ slot[s] \in ObjectOrNull /\ Overwrites(u)
  BY Basics
<1>2. CASE slot[s] # o
  <2>1. PICK sl \in Slots : sl = s
    BY <1>1
  <2>2. slot'[sl] = o /\ slot[sl] # o
    BY <1>2, <2>1
  <2> QED BY <2>2, WrittenIsLinked
<1>3. CASE slot[s] = o
  <2>1. o \in Objects
    BY <1>1, <1>3 DEF ObjectOrNull
  <2>2. \/ IsMarked(o) \/ IsLinked(o)
        \/ Returns(u, "defer") /\ reg[u].target = o
    BY <1>1, <1>3 DEF IInv, ThreadInv, KeepOK
  <2>3. CASE IsMarked(o)
    BY <2>1, <2>3, MarkedStays
  <2>4. CASE IsLinked(o)
    BY <2>4, LinkedStays
  <2>5. CASE Returns(u, "defer") /\ reg[u].target = o
    BY <2>1, <2>5
  <2> QED BY <2>2, <2>3, <2>4, <2>5
<1> QED BY <1>2, <1>3

\* Other threads than the one that takes a step.
LEMMA OthersStay ==
  ASSUME IInv, NEW t \in Threads, Steady(t), NEW u \in Threads, u # t
  PROVE  PlaceOK(u)' /\ FlushOK(u)' /\ KeepOK(u)'
<1>1. pc'[u] = pc[u] /\ reg'[u] = reg[u]
  BY DEF Steady
<1>2. PlaceOK(u) /\ FlushOK(u) /\ KeepOK(u) /\ GenOK(u)
  BY DEF IInv, ThreadInv
<1>3. At(u, "store") => reg[u].value \in fresh'[u]
  <2>1. CASE u = Et(t) /\ Flushed(t)
    <3>1. t = GcThread /\ Synchronizing(t)
      BY <2>1, Basics DEF IInv, ThreadInv, PlaceOK, Flushed, Synchronizing
    <3>2. pc[u] \in {"run", "fence"}
      BY <2>1, <3>1 DEF IInv, BarrierInv
    <3> QED BY <3>2 DEF At
  <2>2. CASE fresh[u] \subseteq fresh'[u]
    BY <1>2, <2>2 DEF PlaceOK
  <2> QED BY <2>1, <2>2 DEF Steady
<1>4. n[reg[u].dest[1]] # 0 => n'[reg[u].dest[1]] # 0
  BY Basics DEF Steady
<1>5. PlaceOK(u)'
  BY <1>1, <1>2, <1>3, <1>4 DEF PlaceOK, Et, At, Marking, Returns, Flushing, Walking, Assigns, Overwrites
<1>6. FlushOK(u)'
  <2>1. (Flushing(u)' <=> Flushing(u)) /\ (Flushed(u)' <=> Flushed(u)) /\ Et(u)' = Et(u)
    BY <1>1 DEF Flushing, Flushed, Walking, Returns, Marking, At, Et
  <2>2. CASE ~Flushing(u) /\ ~Flushed(u)
    BY <2>1, <2>2 DEF FlushOK
  <2>3. CASE Flushing(u) \/ Flushed(u)
    <3>1. ~(Et(u) = t /\ pc[t] \in {"defer", "full"})
      <4> SUFFICES ASSUME Et(u) = t PROVE pc[t] \notin {"defer", "full"}
        OBVIOUS
      <4>1. u = GcThread /\ Synchronizing(u)
        BY <2>3, Basics DEF IInv, ThreadInv, PlaceOK, Flushed, Synchronizing
      <4>2. pc[t] \in {"run", "fence"}
        BY <4>1 DEF IInv, BarrierInv
      <4> QED BY <4>2
    <3>2. thread'[Et(u)].links = thread[Et(u)].links
      BY <3>1, Basics DEF Steady
    <3>3. PICK links : links = thread[Et(u)].links
      OBVIOUS
    <3>4. ASSUME NEW i \in 1..Len(links)
          PROVE  /\ Flushing(u)' /\ i < reg'[u].pos => IsDone(u, links[i])'
                 /\ Flushed(u)' => links[i] \in Objects /\ IsMarked(links[i])'
      <4>1. /\ Flushing(u) /\ i < reg[u].pos => IsDone(u, links[i])
            /\ Flushed(u) => links[i] \in Objects /\ IsMarked(links[i])
        BY <1>2, <3>3, <3>4 DEF FlushOK
      <4>2. IsDone(u, links[i]) => IsDone(u, links[i])'
        BY <1>1, MarkedStays DEF IsDone, Marking
      <4> QED BY <1>1, <2>1, <4>1, <4>2, MarkedStays
    <3> QED BY <2>1, <3>2, <3>3, <3>4 DEF FlushOK
  <2> QED BY <2>2, <2>3
<1>7. KeepOK(u)'
  <2>1. Overwrites(u)' => Overwrites(u) /\ reg'[u].dest = reg[u].dest
    BY <1>1 DEF Overwrites, Flushing, Returns, Marking, At
  <2>2. \A o \in Objects : Returns(u, "defer") /\ reg[u].target = o =>
           (Returns(u, "defer")' /\ reg'[u].target = o) \/ IsMarked(o)'
    BY <1>1 DEF Returns, Marking
  <2> QED BY <2>1, <2>2, KeepStays
<1> QED BY <1>5, <1>6, <1>7

\* A step that is no part of the barrier.
LEMMA QuietGen ==
  ASSUME IInv, NEW t \in Threads, Steady(t), Quiet(t), NEW u \in Threads PROVE GenOK(u)'
<1>1. GenOK(u) /\ PlaceOK(u) /\ GenOK(t) /\ PlaceOK(t)
  BY DEF IInv, ThreadInv
<1>2. Cycle' = Cycle /\ vm'.gen = vm.gen /\ held' = held /\ \A w \in Threads : thread'[w].gen = thread[w].gen
  BY DEF Steady, Quiet
<1>3. CASE u # t
  <2>1. pc'[u] = pc[u] /\ reg'[u] = reg[u]
    BY <1>3 DEF Steady
  <2> QED BY <1>1, <1>2, <2>1, Basics DEF GenOK, At, Et
<1>4. CASE u = t
  <2>1. Et(t)' = Et(t) /\ Et(t) \in Threads /\ pc[t] \notin {"fence", "barrier"}
    BY Basics DEF Quiet, Et
  <2>2. t \in Mutators => t \notin held
    BY <1>1 DEF Quiet, GenOK, At
  <2>3. thread[t].gen # Cycle => thread[t].gen = vm.gen /\ t \in held
    BY <1>1, <2>1 DEF GenOK, At
  <2>4. thread[Et(t)].gen = Cycle
    BY <1>1, <2>1, <2>2, <2>3, Basics DEF GenOK, PlaceOK
  <2> QED BY <1>2, <1>4, <2>1, <2>2, <2>3, <2>4 DEF GenOK
<1> QED BY <1>3, <1>4

LEMMA QuietBarrier ==
  ASSUME IInv, NEW t \in Threads, Steady(t), Quiet(t) PROVE BarrierInv'
<1>1. /\ vm'.gen = vm.gen /\ vm'.fenced = vm.fenced /\ held' = held
      /\ \A w \in Threads : thread'[w].gen = thread[w].gen
  BY DEF Quiet
<1>2. /\ Synchronizing(GcThread)' <=> Synchronizing(GcThread)
      /\ At(GcThread, "barrier")' <=> At(GcThread, "barrier")
      /\ Et(GcThread)' = Et(GcThread)
  <2>1. CASE t = GcThread
    BY <2>1 DEF Quiet, At, Et
  <2>2. CASE t # GcThread
    BY <2>2, Basics DEF Steady, Synchronizing, Flushing, Returns, Marking, At, Et
  <2> QED BY <2>1, <2>2
<1>3. Synchronizing(GcThread) /\ Et(GcThread) # GcThread => pc'[Et(GcThread)] \in {"run", "fence"}
  <2> SUFFICES ASSUME Synchronizing(GcThread), Et(GcThread) # GcThread
               PROVE  pc'[Et(GcThread)] \in {"run", "fence"}
    OBVIOUS
  <2>1. Et(GcThread) \in held /\ pc[Et(GcThread)] \in {"run", "fence"}
    BY DEF IInv, BarrierInv
  <2>2. Et(GcThread) # t
    BY <2>1 DEF Quiet, At
  <2> QED BY <2>1, <2>2, Basics DEF Steady
<1>4. BarrierInv /\ held \subseteq Threads
  BY DEF IInv, TypeOK
<1> QED BY <1>1, <1>2, <1>3, <1>4 DEF BarrierInv

LEMMA QuietStep ==
  ASSUME IInv, TypeOK', NEW t \in Threads, Steady(t), Quiet(t), Walks, ListsInv', LinkInv',
         PlaceOK(t)', FlushOK(t)', KeepOK(t)'
  PROVE  IInv'
<1>1. ThreadInv'
  BY OthersStay, QuietGen DEF ThreadInv
<1> QED BY <1>1, QuietBarrier, HeapStays, NothingHidden DEF IInv

-----------------------------------------------------------------------------
(***************************************************************************)
(* What the actions do to the parts the invariant reads.                   *)
(***************************************************************************)
LEMMA LocalsSet ==
  ASSUME IInv, NEW t \in Threads, NEW r, SetLocals(t, r)
  PROVE  reg'[t] = r /\ \A u \in Threads : u # t => reg'[u] = reg[u]
BY DEF SetLocals, IInv, TypeOK

LEMMA WentTo ==
  ASSUME IInv, NEW t \in Threads, NEW l, Goto(t, l)
  PROVE  pc'[t] = l /\ \A u \in Threads : u # t => pc'[u] = pc[u]
BY DEF Goto, IInv, TypeOK

LEMMA ThreadSet ==
  ASSUME IInv, NEW t \in Threads, NEW r, SetThread(t, r)
  PROVE  thread'[t] = r /\ \A u \in Threads : u # t => thread'[u] = thread[u]
BY DEF SetThread, IInv, TypeOK

\* A step that writes the locals of t only.
LEMMA Untouched ==
  ASSUME IInv, NEW t \in Threads, UNCHANGED <<n, slot, thread, queue, fresh>>, Cycle' = Cycle,
         \A u \in Threads : u # t => pc'[u] = pc[u] /\ reg'[u] = reg[u]
  PROVE  Steady(t) /\ ListsInv' /\ LinkInv'
BY DEF Steady, IInv, ListsInv, LinkInv

LEMMA WalksOn ==
  ASSUME IInv, NEW t \in Threads,
         \A s \in Slots : (\E i \in DOMAIN queue : s[1] \in queue[i]) \/ (\E u \in Threads : s[1] \in thread[u].marks)
           => Unvisited(s)',
         \A o \in Objects : n'[o] # n[o] => n[o] = 0 \/ (\A s \in Slots : s[1] = o => Unvisited(s)'),
         \A u \in Threads : u # t => pc'[u] = pc[u] /\ reg'[u] = reg[u],
         \A s \in reg[t].unseen :
           s \in reg'[t].unseen \/ (Marking(t)' /\ slot[s] = reg'[t].target) \/ slot[s] = Null,
         \A o \in Objects : Marking(t) /\ reg[t].target = o =>
           (Marking(t)' /\ reg'[t].target = o) \/ IsMarked(o)'
  PROVE  Walks
<1>1. ASSUME NEW s \in Slots, NEW o \in Objects, Unvisited(s), slot[s] = o
      PROVE  Unvisited(s)' \/ AboutToMark(o)'
  <2>1. CASE \E u \in Threads : s \in reg[u].unseen
    <3>1. PICK u \in Threads : s \in reg[u].unseen
      BY <2>1
    <3>2. o # Null
      BY CollectorAssumption
    <3>3. s \in reg'[u].unseen \/ (Marking(t)' /\ reg'[t].target = o)
      BY <1>1, <3>1, <3>2
    <3> QED BY <3>3 DEF Unvisited, AboutToMark, Marking
  <2> QED BY <1>1, <2>1 DEF Unvisited
<1>2. ASSUME NEW o \in Objects, AboutToMark(o) PROVE AboutToMark(o)' \/ IsMarked(o)'
  <2>1. PICK u \in Threads : Marking(u) /\ reg[u].target = o
    BY <1>2 DEF AboutToMark, Marking
  <2>2. (Marking(u)' /\ reg'[u].target = o) \/ IsMarked(o)'
    BY <2>1 DEF Marking
  <2> QED BY <2>2 DEF AboutToMark, Marking
<1> QED BY <1>1, <1>2 DEF Walks

\* The same when no list changes.
LEMMA WalksSame ==
  ASSUME IInv, NEW t \in Threads, queue' = queue, n' = n,
         \A u \in Threads : thread'[u].marks = thread[u].marks,
         \A u \in Threads : u # t => pc'[u] = pc[u] /\ reg'[u] = reg[u],
         \A s \in reg[t].unseen :
           s \in reg'[t].unseen \/ (Marking(t)' /\ slot[s] = reg'[t].target) \/ slot[s] = Null,
         \A o \in Objects : Marking(t) /\ reg[t].target = o =>
           (Marking(t)' /\ reg'[t].target = o) \/ IsMarked(o)'
  PROVE  Walks
<1>1. \A s \in Slots : (\E i \in DOMAIN queue : s[1] \in queue[i]) \/ (\E u \in Threads : s[1] \in thread[u].marks)
           => Unvisited(s)'
  BY DEF Unvisited
<1> QED BY <1>1, WalksOn

LEMMA SameCycle ==
  ASSUME vm' = vm PROVE Cycle' = Cycle
BY DEF Cycle

-----------------------------------------------------------------------------
(***************************************************************************)
(* The invariant is preserved, action by action: first what mutators do.   *)
(***************************************************************************)
LEMMA NewStep ==
  ASSUME IInv, TypeOK', NEW t \in Mutators, New(t) PROVE IInv'
<1>0. t \in Threads /\ t # GcThread /\ PlaceOK(t) /\ GenOK(t)
  BY Basics DEF IInv, ThreadInv
<1>1. PICK x \in Objects : n[x] = 0 /\ n' = [n EXCEPT ![x] = thread[t].gen]
  BY DEF New, Allocated
<1>2. /\ slot' = slot /\ thread' = thread /\ queue' = queue /\ vm' = vm /\ held' = held
      /\ pc' = pc /\ reg' = reg /\ fresh' = fresh /\ pc[t] = "run" /\ t \notin held
  BY DEF New, Free, At
<1>3. thread[t].gen = Cycle /\ thread[t].gen # 0
  <2>1. thread[t].gen \in 1..MaxGen
    BY <1>0, Basics DEF ThreadRecord
  <2> QED BY <1>0, <1>2, <2>1 DEF GenOK, At
<1>4. n \in [Objects -> 0..MaxGen]
  BY DEF IInv, TypeOK
<1>5. Steady(t)
  BY <1>1, <1>2, <1>3, <1>4, SameCycle DEF Steady
<1>6. Quiet(t)
  BY <1>0, <1>2 DEF Quiet, At, Synchronizing, Flushing, Returns, Marking
<1>7. Walks
  <2>1. \A o \in Objects : n'[o] # n[o] => n[o] = 0
    BY <1>1, <1>4
  <2> QED BY <1>0, <1>2, <2>1, WalksOn DEF Unvisited, Marking
<1>8. ListsInv' /\ LinkInv'
  BY <1>2 DEF IInv, ListsInv, LinkInv
<1>9. PlaceOK(t)' /\ FlushOK(t)' /\ KeepOK(t)'
  <2>1. PlaceOK(t)'
    BY <1>0, <1>2 DEF PlaceOK, Et, At, Marking, Returns, Flushing, Walking, Assigns, Overwrites
  <2>2. FlushOK(t)' /\ KeepOK(t)'
    BY <1>2 DEF FlushOK, KeepOK, At, Marking, Returns, Flushing, Flushed, Walking, Overwrites
  <2> QED BY <2>1, <2>2
<1> QED BY <1>0, <1>5, <1>6, <1>7, <1>8, <1>9, QuietStep

LEMMA AssignRefStep ==
  ASSUME IInv, TypeOK', NEW t \in Mutators, AssignRef(t) PROVE IInv'
<1>0. t \in Threads /\ t # GcThread /\ PlaceOK(t) /\ reg[t] \in Registers
  BY Basics DEF IInv, ThreadInv
<1>1. PICK s \in Slots, v \in ObjectOrNull :
        n[s[1]] # 0 /\ SetLocals(t, [reg[t] EXCEPT !.dest = s, !.value = v])
  BY Zenon DEF AssignRef, Allocated, ObjectOrNull
<1>2. /\ n' = n /\ slot' = slot /\ thread' = thread /\ queue' = queue /\ vm' = vm /\ held' = held
      /\ fresh' = fresh /\ pc[t] = "run" /\ t \notin held /\ Goto(t, "prev")
  BY DEF AssignRef, Free, At
<1>3. /\ pc'[t] = "prev" /\ reg'[t] = [reg[t] EXCEPT !.dest = s, !.value = v]
      /\ \A u \in Threads : u # t => pc'[u] = pc[u] /\ reg'[u] = reg[u]
  BY <1>0, <1>1, <1>2, LocalsSet, WentTo
<1>4. /\ reg'[t].et = reg[t].et /\ reg'[t].pos = reg[t].pos /\ reg'[t].unseen = reg[t].unseen
      /\ reg'[t].dest = s
  BY <1>0, <1>3 DEF Registers
<1>5. Steady(t) /\ ListsInv' /\ LinkInv'
  BY <1>0, <1>2, <1>3, Untouched, SameCycle
<1>6. Quiet(t)
  BY <1>0, <1>2, <1>3, <1>4 DEF Quiet, At
<1>7. Walks
  BY <1>0, <1>2, <1>3, <1>4, WalksSame DEF Marking
<1>8. PlaceOK(t)'
  BY <1>0, <1>1, <1>2, <1>3, <1>4 DEF PlaceOK, Et, At, Marking, Returns, Flushing, Walking, Assigns, Overwrites
<1>9. FlushOK(t)' /\ KeepOK(t)'
  BY <1>0, <1>3 DEF FlushOK, KeepOK, At, Marking, Returns, Flushing, Flushed, Walking, Overwrites
<1> QED BY <1>0, <1>5, <1>6, <1>7, <1>8, <1>9, QuietStep

LEMMA ReadPrevStep ==
  ASSUME IInv, TypeOK', NEW t \in Mutators, ReadPrev(t) PROVE IInv'
<1>0. /\ t \in Threads /\ t # GcThread /\ PlaceOK(t) /\ reg[t] \in Registers
      /\ slot[reg[t].dest] \in ObjectOrNull
  BY Basics DEF IInv, ThreadInv
<1>1. /\ n' = n /\ slot' = slot /\ thread' = thread /\ queue' = queue /\ vm' = vm /\ held' = held
      /\ fresh' = fresh /\ pc[t] = "prev"
  BY DEF ReadPrev, At
<1>2. \/ slot[reg[t].dest] = Null /\ Goto(t, "defer") /\ reg' = reg
      \/ /\ slot[reg[t].dest] \in Objects /\ Goto(t, "test")
         /\ SetLocals(t, [reg[t] EXCEPT !.target = slot[reg[t].dest], !.next = "defer"])
  BY <1>0, Zenon DEF ReadPrev, CallMark, ObjectOrNull
<1>3. /\ \A u \in Threads : u # t => pc'[u] = pc[u] /\ reg'[u] = reg[u]
      /\ \/ slot[reg[t].dest] = Null /\ pc'[t] = "defer" /\ reg'[t] = reg[t]
         \/ /\ slot[reg[t].dest] \in Objects /\ pc'[t] = "test"
            /\ reg'[t] = [reg[t] EXCEPT !.target = slot[reg[t].dest], !.next = "defer"]
  BY <1>0, <1>2, LocalsSet, WentTo
<1>4. /\ reg'[t].et = reg[t].et /\ reg'[t].pos = reg[t].pos /\ reg'[t].unseen = reg[t].unseen
      /\ reg'[t].dest = reg[t].dest
      /\ \/ slot[reg[t].dest] = Null /\ pc'[t] = "defer"
         \/ /\ slot[reg[t].dest] \in Objects /\ pc'[t] = "test"
            /\ reg'[t].target = slot[reg[t].dest] /\ reg'[t].next = "defer"
  BY <1>0, <1>3 DEF Registers
<1>5. Steady(t) /\ ListsInv' /\ LinkInv'
  BY <1>0, <1>1, <1>3, Untouched, SameCycle
<1>6. Quiet(t)
  BY <1>0, <1>1, <1>4 DEF Quiet, At
<1>7. Walks
  BY <1>0, <1>1, <1>3, <1>4, WalksSame DEF Marking
<1>8. PlaceOK(t)'
  BY <1>0, <1>1, <1>4 DEF PlaceOK, Et, At, Marking, Returns, Flushing, Walking, Assigns, Overwrites
<1>9. FlushOK(t)'
  BY <1>0, <1>4 DEF FlushOK, At, Marking, Returns, Flushing, Flushed, Walking
<1>10. KeepOK(t)'
  BY <1>1, <1>4 DEF KeepOK, At, Marking, Returns
<1> QED BY <1>0, <1>5, <1>6, <1>7, <1>8, <1>9, <1>10, QuietStep

LEMMA DeferLinkStep ==
  ASSUME IInv, TypeOK', NEW t \in Mutators, DeferLink(t) PROVE IInv'
<1>0. /\ t \in Threads /\ t # GcThread /\ PlaceOK(t) /\ reg[t] \in Registers
      /\ thread[t] \in ThreadRecord /\ pc[t] \in {"defer", "full"}
  BY Basics DEF IInv, ThreadInv, DeferLink, At
<1>1. n' = n /\ slot' = slot /\ queue' = queue /\ vm' = vm /\ held' = held
  BY DEF DeferLink
<1>2. CASE /\ SetThread(t, [thread[t] EXCEPT !.links = Append(@, reg[t].value)])
           /\ fresh' = [fresh EXCEPT ![t] = @ \cup {reg[t].value}]
           /\ Goto(t, "store") /\ reg' = reg
  <2>1. /\ pc'[t] = "store" /\ thread'[t] = [thread[t] EXCEPT !.links = Append(@, reg[t].value)]
        /\ \A u \in Threads : u # t => pc'[u] = pc[u] /\ thread'[u] = thread[u]
    BY <1>0, <1>2, WentTo, ThreadSet
  <2>2. /\ thread'[t].links = Append(thread[t].links, reg[t].value)
        /\ thread'[t].marks = thread[t].marks /\ thread'[t].gen = thread[t].gen
    BY <1>0, <2>1 DEF ThreadRecord
  <2>3. /\ fresh'[t] = fresh[t] \cup {reg[t].value}
        /\ \A u \in Threads : u # t => fresh'[u] = fresh[u]
    BY <1>0, <1>2 DEF IInv, TypeOK
  <2>4. Steady(t)
    BY <1>0, <1>1, <1>2, <2>1, <2>2, <2>3, SameCycle DEF Steady
  <2>5. Quiet(t)
    BY <1>0, <1>1, <1>2, <2>1, <2>2 DEF Quiet, At
  <2>6. Walks
    BY <1>0, <1>1, <1>2, <2>1, <2>2, WalksSame DEF Marking
  <2>7. ListsInv'
    BY <1>1, <2>1, <2>2 DEF IInv, ListsInv
  <2>8. LinkInv'
    <3> SUFFICES ASSUME NEW u \in Threads, NEW o \in fresh'[u]
                 PROVE  \E i \in 1..Len(thread'[u].links) : thread'[u].links[i] = o
      BY DEF LinkInv
    <3>1. CASE u # t
      BY <3>1, <2>1, <2>3 DEF IInv, LinkInv
    <3>2. CASE u = t
      <4>1. PICK links \in Seq(ObjectOrNull) : links = thread[t].links
        BY <1>0 DEF ThreadRecord
      <4>2. PICK v : v = reg[t].value
        OBVIOUS
      <4>3. /\ Len(Append(links, v)) = Len(links) + 1 /\ Append(links, v)[Len(links) + 1] = v
            /\ \A i \in 1..Len(links) : Append(links, v)[i] = links[i]
        BY <4>1
      <4>4. thread'[u].links = Append(links, v)
        BY <2>2, <3>2, <4>1, <4>2
      <4>5. CASE o = v
        <5>1. Len(links) + 1 \in 1..(Len(links) + 1)
          BY <4>1
        <5> QED BY <4>3, <4>4, <4>5, <5>1
      <4>6. CASE o # v
        <5>1. o \in fresh[t]
          BY <2>3, <3>2, <4>2, <4>6
        <5>2. PICK i \in 1..Len(links) : links[i] = o
          BY <1>0, <4>1, <5>1 DEF IInv, LinkInv
        <5>3. i \in 1..(Len(links) + 1)
          BY <4>1
        <5> QED BY <4>3, <4>4, <5>2, <5>3
      <4> QED BY <4>5, <4>6
    <3> QED BY <3>1, <3>2
  <2>9. PlaceOK(t)'
    BY <1>0, <1>1, <1>2, <2>1, <2>3
       DEF PlaceOK, Et, At, Marking, Returns, Flushing, Walking, Assigns, Overwrites
  <2>10. FlushOK(t)'
    BY <2>1 DEF FlushOK, At, Marking, Returns, Flushing, Flushed, Walking
  <2>11. KeepOK(t)'
    <3>1. Overwrites(t) /\ ~Returns(t, "defer") /\ reg'[t].dest = reg[t].dest
      BY <1>0, <1>2 DEF Overwrites, Returns, Marking
    <3> QED BY <1>0, <2>4, <3>1, KeepStays
  <2> QED BY <1>0, <2>4, <2>5, <2>6, <2>7, <2>8, <2>9, <2>10, <2>11, QuietStep
<1>3. CASE /\ At(t, "defer") /\ SetLocals(t, [reg[t] EXCEPT !.after = "full"]) /\ Goto(t, "links")
           /\ thread' = thread /\ fresh' = fresh
  <2>1. /\ pc'[t] = "links" /\ reg'[t] = [reg[t] EXCEPT !.after = "full"]
        /\ \A u \in Threads : u # t => pc'[u] = pc[u] /\ reg'[u] = reg[u]
    BY <1>0, <1>3, WentTo, LocalsSet
  <2>2. /\ reg'[t].et = reg[t].et /\ reg'[t].pos = reg[t].pos /\ reg'[t].unseen = reg[t].unseen
        /\ reg'[t].dest = reg[t].dest /\ reg'[t].after = "full"
    BY <1>0, <2>1 DEF Registers
  <2>3. Steady(t) /\ ListsInv' /\ LinkInv'
    BY <1>0, <1>1, <1>3, <2>1, Untouched, SameCycle
  <2>4. Quiet(t)
    BY <1>0, <1>1, <1>3, <2>1, <2>2 DEF Quiet, At
  <2>5. Walks
    BY <1>0, <1>1, <1>3, <2>1, <2>2, WalksSame DEF Marking
  <2>6. PlaceOK(t)'
    BY <1>0, <1>1, <2>1, <2>2 DEF PlaceOK, Et, At, Marking, Returns, Flushing, Walking, Assigns, Overwrites
  <2>7. FlushOK(t)'
    <3>1. reg'[t].pos = 1 /\ ~Flushed(t)'
      BY <1>0, <2>1, <2>2 DEF PlaceOK, At, Flushing, Flushed, Walking, Returns, Marking
    <3> QED BY <3>1 DEF FlushOK
  <2>8. KeepOK(t)'
    <3>1. Overwrites(t) /\ ~Returns(t, "defer")
      BY <1>0 DEF Overwrites, Returns, Marking
    <3> QED BY <1>0, <2>2, <2>3, <3>1, KeepStays
  <2> QED BY <1>0, <2>3, <2>4, <2>5, <2>6, <2>7, <2>8, QuietStep
<1> QED BY <1>2, <1>3 DEF DeferLink

LEMMA LocalsReset ==
  ASSUME IInv, NEW t \in Threads, SetLocals(t, NoLocals(t))
  PROVE  /\ reg'[t].et = t /\ reg'[t].pos = 1 /\ reg'[t].unseen = {} /\ reg'[t].found = FALSE
         /\ \A u \in Threads : u # t => reg'[u] = reg[u]
<1>1. reg'[t] = NoLocals(t) /\ \A u \in Threads : u # t => reg'[u] = reg[u]
  BY LocalsSet
<1>2. /\ NoLocals(t).et = t /\ NoLocals(t).pos = 1 /\ NoLocals(t).unseen = {}
      /\ NoLocals(t).found = FALSE
  BY DEF NoLocals
<1> QED BY <1>1, <1>2

LEMMA StoreRefStep ==
  ASSUME IInv, TypeOK', NEW t \in Mutators, StoreRef(t) PROVE IInv'
<1>0. /\ t \in Threads /\ t # GcThread /\ PlaceOK(t) /\ Et(t) = t
      /\ reg[t].unseen = {}
  BY Basics DEF IInv, ThreadInv, PlaceOK, StoreRef, At, Walking, Returns, Marking
<1>1. /\ n' = n /\ thread' = thread /\ queue' = queue /\ vm' = vm /\ held' = held
      /\ fresh' = fresh /\ pc[t] = "store" /\ Goto(t, "run") /\ SetLocals(t, NoLocals(t))
      /\ slot' = [slot EXCEPT ![reg[t].dest] = reg[t].value]
  BY DEF StoreRef, At
<1>2. /\ pc'[t] = "run" /\ reg'[t].et = t /\ reg'[t].pos = 1 /\ reg'[t].unseen = {}
      /\ \A u \in Threads : u # t => pc'[u] = pc[u] /\ reg'[u] = reg[u]
  <2>1. pc'[t] = "run" /\ \A u \in Threads : u # t => pc'[u] = pc[u]
    BY <1>0, <1>1, WentTo
  <2>2. /\ reg'[t].et = t /\ reg'[t].pos = 1 /\ reg'[t].unseen = {}
        /\ \A u \in Threads : u # t => reg'[u] = reg[u]
    BY <1>0, <1>1, LocalsReset
  <2> QED BY <2>1, <2>2
<1>3. Steady(t)
  <2>1. \A s \in Slots :
          slot'[s] = slot[s] \/ (At(t, "store") /\ s = reg[t].dest /\ slot'[s] = reg[t].value)
    BY <1>1 DEF IInv, TypeOK, At
  <2> QED BY <1>1, <1>2, <2>1, SameCycle DEF Steady
<1>4. Quiet(t)
  BY <1>0, <1>1, <1>2 DEF Quiet, At, Et
<1>5. Walks
  BY <1>0, <1>1, <1>2, WalksSame DEF Marking
<1>6. ListsInv' /\ LinkInv'
  BY <1>1 DEF IInv, ListsInv, LinkInv
<1>7. PlaceOK(t)'
  BY <1>0, <1>2
     DEF PlaceOK, Et, At, Marking, Returns, Flushing, Walking, Assigns, Overwrites
<1>8. FlushOK(t)' /\ KeepOK(t)'
  BY <1>2 DEF FlushOK, KeepOK, At, Marking, Returns, Flushing, Flushed, Walking, Overwrites
<1> QED BY <1>0, <1>3, <1>4, <1>5, <1>6, <1>7, <1>8, QuietStep

LEMMA BeginSynchronizeSets ==
  ASSUME IInv, NEW t \in Threads, NEW u \in Threads, BeginSynchronize(t, u)
  PROVE  /\ pc'[t] = "links" /\ reg'[t].et = u /\ reg'[t].pos = 1 /\ reg'[t].after = "flush"
         /\ reg'[t].unseen = reg[t].unseen
         /\ \A w \in Threads : w # t => pc'[w] = pc[w] /\ reg'[w] = reg[w]
<1>1. /\ pc'[t] = "links" /\ reg'[t] = [reg[t] EXCEPT !.et = u, !.pos = 1, !.after = "flush"]
      /\ \A w \in Threads : w # t => pc'[w] = pc[w] /\ reg'[w] = reg[w]
  BY LocalsSet, WentTo DEF BeginSynchronize
<1>2. reg[t] \in Registers
  BY Basics
<1> QED BY <1>1, <1>2 DEF Registers

LEMMA CheckpointStep ==
  ASSUME IInv, TypeOK', NEW t \in Mutators, Checkpoint(t) PROVE IInv'
<1>0. /\ t \in Threads /\ t # GcThread /\ PlaceOK(t) /\ Et(t) = t
  BY Basics DEF IInv, ThreadInv, PlaceOK
<1>1. /\ n' = n /\ slot' = slot /\ thread' = thread /\ queue' = queue /\ vm' = vm /\ held' = held
      /\ fresh' = fresh /\ pc[t] = "run" /\ t \notin held /\ BeginSynchronize(t, t)
  BY DEF Checkpoint, Free, At
<1>2. /\ pc'[t] = "links" /\ reg'[t].et = t /\ reg'[t].pos = 1 /\ reg'[t].after = "flush"
      /\ reg'[t].unseen = reg[t].unseen
      /\ \A w \in Threads : w # t => pc'[w] = pc[w] /\ reg'[w] = reg[w]
  BY <1>0, <1>1, BeginSynchronizeSets
<1>3. Steady(t) /\ ListsInv' /\ LinkInv'
  BY <1>0, <1>1, <1>2, Untouched, SameCycle
<1>4. Quiet(t)
  BY <1>0, <1>1, <1>2 DEF Quiet, At, Et
<1>5. Walks
  BY <1>0, <1>1, <1>2, WalksSame DEF Marking
<1>6. PlaceOK(t)'
  BY <1>0, <1>1, <1>2 DEF PlaceOK, Et, At, Marking, Returns, Flushing, Walking, Assigns, Overwrites
<1>7. FlushOK(t)' /\ KeepOK(t)'
  BY <1>0, <1>2 DEF FlushOK, KeepOK, At, Marking, Returns, Flushing, Flushed, Walking, Overwrites
<1> QED BY <1>0, <1>3, <1>4, <1>5, <1>6, <1>7, QuietStep

-----------------------------------------------------------------------------
(***************************************************************************)
(* ebi_mark and ebi_flush_links.                                           *)
(***************************************************************************)
LEMMA MarkReturns ==
  ASSUME IInv, NEW t \in Threads, ReturnFromMark(t)
  PROVE  /\ pc'[t] = reg[t].next
         /\ reg'[t].et = reg[t].et /\ reg'[t].pos = reg[t].pos /\ reg'[t].unseen = reg[t].unseen
         /\ reg'[t].dest = reg[t].dest /\ reg'[t].after = reg[t].after
         /\ \A u \in Threads : u # t => pc'[u] = pc[u] /\ reg'[u] = reg[u]
<1>1. /\ pc'[t] = reg[t].next /\ reg'[t] = [reg[t] EXCEPT !.target = Null, !.next = "run"]
      /\ \A u \in Threads : u # t => pc'[u] = pc[u] /\ reg'[u] = reg[u]
  BY LocalsSet, WentTo DEF ReturnFromMark
<1>2. reg[t] \in Registers
  BY Basics
<1> QED BY <1>1, <1>2 DEF Registers

\* A thread at work marks with the number of the cycle.
LEMMA MarksWithCycle ==
  ASSUME IInv, NEW t \in Threads, pc[t] \notin {"run", "fence", "barrier"}
  PROVE  thread[Et(t)].gen = Cycle /\ Cycle # 0 /\ Et(t) \in Threads
<1>1. thread[Et(t)].gen = Cycle
  BY DEF IInv, ThreadInv, GenOK
<1>2. Et(t) \in Threads /\ thread[Et(t)] \in ThreadRecord
  BY Basics
<1>3. thread[Et(t)].gen # 0
  BY <1>2 DEF ThreadRecord
<1> QED BY <1>1, <1>2, <1>3

\* ebi_mark returns with its object marked: what it was called for goes on.
LEMMA AfterMark ==
  ASSUME IInv, NEW t \in Threads, Marking(t), ReturnFromMark(t), Steady(t),
         NEW o \in Objects, reg[t].target = o, IsMarked(o)',
         \A u \in Threads : thread'[u].links = thread[u].links, fresh' = fresh
  PROVE  PlaceOK(t)' /\ FlushOK(t)' /\ KeepOK(t)'
<1>1. PlaceOK(t) /\ FlushOK(t) /\ Et(t) \in Threads /\ reg[t].dest[1] \in Objects
  BY Basics DEF IInv, ThreadInv
<1>2. /\ pc'[t] = reg[t].next
      /\ reg'[t].et = reg[t].et /\ reg'[t].pos = reg[t].pos /\ reg'[t].unseen = reg[t].unseen
      /\ reg'[t].dest = reg[t].dest /\ reg'[t].after = reg[t].after
  BY MarkReturns
<1>3. reg[t].next \in {"defer", "links", "walk"} /\ pc[t] \notin {"links", "walk", "store", "take", "flush"}
  BY <1>1 DEF PlaceOK, Marking
<1>4. n[reg[t].dest[1]] # 0 => n'[reg[t].dest[1]] # 0
  BY <1>1 DEF Steady
<1>5. /\ Flushing(t)' => Flushing(t)
      /\ Walking(t)' <=> Walking(t)
      /\ Flushing(t) => Flushing(t)'
      /\ Overwrites(t)' => Overwrites(t)
      /\ ~Marking(t)' /\ ~At(t, "store")' /\ pc'[t] \in {"defer", "links", "walk"}
  BY <1>2, <1>3 DEF Flushing, Walking, Overwrites, Returns, Marking, At
<1>6. PlaceOK(t)'
  <2>1. Assigns(t)' => Overwrites(t)
    BY <1>2, <1>3, <1>5 DEF Assigns, At
  <2>2. Overwrites(t) => n[reg[t].dest[1]] # 0
    BY <1>1 DEF PlaceOK, Assigns
  <2>3. reg[t].next = "defer" => t \in Mutators
    BY <1>1 DEF PlaceOK, Returns
  <2> QED BY <1>1, <1>2, <1>3, <1>4, <1>5, <2>1, <2>2, <2>3, Basics DEF PlaceOK, Et, Returns, At
<1>7. FlushOK(t)'
  <2>1. PICK links : links = thread[Et(t)].links
    OBVIOUS
  <2>2. thread'[Et(t)'].links = links /\ Et(t)' = Et(t)
    BY <1>1, <1>2, <2>1 DEF Et
  <2>3. Flushed(t)' => Flushed(t)
    BY <1>5 DEF Flushed, At
  <2>4. ASSUME NEW i \in 1..Len(links)
        PROVE  /\ Flushing(t)' /\ i < reg'[t].pos => IsDone(t, links[i])'
               /\ Flushed(t)' => links[i] \in Objects /\ IsMarked(links[i])'
    <3>1. /\ Flushing(t) /\ i < reg[t].pos => IsDone(t, links[i])
          /\ Flushed(t) => links[i] \in Objects /\ IsMarked(links[i])
      BY <1>1, <2>1, <2>4 DEF FlushOK
    <3>2. IsDone(t, links[i]) => IsDone(t, links[i])'
      BY MarkedStays DEF IsDone
    <3> QED BY <1>2, <1>5, <2>3, <3>1, <3>2, MarkedStays
  <2> QED BY <2>1, <2>2, <2>4 DEF FlushOK
<1>8. KeepOK(t)'
  BY <1>2, <1>5, KeepStays
<1> QED BY <1>6, <1>7, <1>8

LEMMA TestMarkStep ==
  ASSUME IInv, TypeOK', NEW t \in Threads, TestMark(t) PROVE IInv'
<1>0. /\ PlaceOK(t) /\ FlushOK(t) /\ KeepOK(t) /\ Et(t) \in Threads
  BY Basics DEF IInv, ThreadInv
<1>1. /\ n' = n /\ slot' = slot /\ thread' = thread /\ queue' = queue /\ vm' = vm /\ held' = held
      /\ fresh' = fresh /\ pc[t] = "test"
  BY DEF TestMark, At
<1>2. PICK o \in Objects : reg[t].target = o
  BY <1>0, <1>1 DEF PlaceOK, Marking
<1>3. CASE n[o] = thread[Et(t)].gen /\ ReturnFromMark(t)
  <2>1. IsMarked(o)'
    BY <1>1, <1>3, MarksWithCycle, SameCycle DEF IsMarked
  <2>2. /\ pc'[t] = reg[t].next
        /\ reg'[t].et = reg[t].et /\ reg'[t].pos = reg[t].pos /\ reg'[t].unseen = reg[t].unseen
        /\ \A u \in Threads : u # t => pc'[u] = pc[u] /\ reg'[u] = reg[u]
    BY <1>3, MarkReturns
  <2>3. Steady(t) /\ ListsInv' /\ LinkInv'
    BY <1>1, <2>2, Untouched, SameCycle
  <2>4. reg[t].next \in {"defer", "links", "walk"}
    BY <1>0, <1>1 DEF PlaceOK, Marking
  <2>5. Quiet(t)
    BY <1>1, <2>2, <2>4 DEF Quiet, At, Synchronizing, Flushing, Returns, Marking
  <2>6. Walks
    BY <1>1, <1>2, <2>1, <2>2, WalksSame
  <2>7. PlaceOK(t)' /\ FlushOK(t)' /\ KeepOK(t)'
    BY <1>1, <1>2, <1>3, <2>1, <2>3, AfterMark DEF Marking
  <2> QED BY <2>3, <2>5, <2>6, <2>7, QuietStep
<1>4. CASE Goto(t, "set") /\ reg' = reg
  <2>1. pc'[t] = "set" /\ \A u \in Threads : u # t => pc'[u] = pc[u]
    BY <1>4, WentTo
  <2>2. Steady(t) /\ ListsInv' /\ LinkInv'
    BY <1>1, <1>4, <2>1, Untouched, SameCycle
  <2>3. \A l : Returns(t, l)' <=> Returns(t, l)
    BY <1>1, <1>4, <2>1 DEF Returns, Marking
  <2>4. /\ Flushing(t)' <=> Flushing(t)
        /\ Walking(t)' <=> Walking(t)
        /\ Flushed(t)' <=> Flushed(t)
        /\ Overwrites(t)' <=> Overwrites(t)
        /\ Assigns(t)' <=> Assigns(t)
        /\ Marking(t)' /\ Marking(t)
    BY <1>1, <1>4, <2>1 DEF Flushing, Walking, Flushed, Assigns, Overwrites, Returns, Marking, At
  <2>5. Quiet(t)
    BY <1>1, <1>4, <2>1, <2>4 DEF Quiet, At, Synchronizing
  <2>6. Walks
    BY <1>1, <1>4, <2>1, <2>4, WalksSame
  <2>7. PlaceOK(t)'
    BY <1>0, <1>1, <1>4, <2>1, <2>3, <2>4 DEF PlaceOK, Et, At
  <2>8. FlushOK(t)'
    BY <1>0, <1>1, <1>4, <2>4, SameCycle DEF FlushOK, IsDone, IsMarked, Et
  <2>9. KeepOK(t)'
    BY <1>4, <2>2, <2>3, <2>4, KeepStays
  <2> QED BY <2>2, <2>5, <2>6, <2>7, <2>8, <2>9, QuietStep
<1> QED BY <1>2, <1>3, <1>4 DEF TestMark

\* ebi_queue_mark: the object is listed, and nothing else leaves the lists.
LEMMA Queued ==
  ASSUME IInv, NEW t \in Threads, SetMark(t), NEW o \in Objects, reg[t].target = o
  PROVE  /\ \A u \in Threads : thread'[u].links = thread[u].links /\ thread'[u].gen = thread[u].gen
         /\ ListsInv'
         /\ \A x \in Objects \ Leaves :
              (x = o \/ (\E i \in DOMAIN queue : x \in queue[i]) \/ (\E u \in Threads : x \in thread[u].marks))
                => (\E i \in DOMAIN queue' : x \in queue'[i]) \/ (\E u \in Threads : x \in thread'[u].marks)
<1> DEFINE u == Et(t)
           With(m) == [thread[u] EXCEPT !.marks = m]
<1>1. u \in Threads /\ thread[u] \in ThreadRecord /\ queue \in Seq(SUBSET Objects)
  BY Basics DEF IInv, TypeOK
<1>2. ListsInv
  BY DEF IInv
<1>3. ASSUME NEW m \in SUBSET Objects, SetThread(u, With(m))
      PROVE  /\ \A w \in Threads : thread'[w].links = thread[w].links /\ thread'[w].gen = thread[w].gen
             /\ thread'[u].marks = m
             /\ \A w \in Threads : w # u => thread'[w].marks = thread[w].marks
  <2>1. thread'[u] = With(m) /\ \A w \in Threads : w # u => thread'[w] = thread[w]
    BY <1>1, <1>3, ThreadSet
  <2>2. With(m).links = thread[u].links /\ With(m).gen = thread[u].gen /\ With(m).marks = m
    BY <1>1 DEF ThreadRecord
  <2> QED BY <2>1, <2>2
<1>4. CASE o \in Leaves
  <2>1. thread' = thread /\ queue' = queue
    BY <1>4 DEF SetMark
  <2> QED BY <1>2, <1>4, <2>1 DEF ListsInv
<1>5. CASE o \notin Leaves /\ Cardinality(thread[u].marks) = ListSize
  <2>1. SetThread(u, With({o})) /\ queue' = <<thread[u].marks>> \o queue
    BY <1>5 DEF SetMark
  <2>2. PICK marks \in SUBSET Objects : marks = thread[u].marks
    BY <1>1 DEF ThreadRecord
  <2>3. /\ \A w \in Threads : thread'[w].links = thread[w].links /\ thread'[w].gen = thread[w].gen
        /\ thread'[u].marks = {o}
        /\ \A w \in Threads : w # u => thread'[w].marks = thread[w].marks
    <3>1. {o} \in SUBSET Objects
      OBVIOUS
    <3> HIDE DEF With
    <3> QED BY <1>3, <2>1, <3>1
  <2>4. /\ 1 \in DOMAIN queue' /\ queue'[1] = marks
        /\ \A i \in DOMAIN queue : i + 1 \in DOMAIN queue' /\ queue'[i + 1] = queue[i]
        /\ \A i \in DOMAIN queue' : i = 1 \/ (i - 1 \in DOMAIN queue /\ queue'[i] = queue[i - 1])
    BY <1>1, <2>1, <2>2
  <2>5. ListsInv'
    <3>1. \A w \in Threads : thread'[w].marks \subseteq Objects \ Leaves
      BY <1>2, <1>5, <2>3 DEF ListsInv
    <3>2. \A i \in DOMAIN queue' : queue'[i] \subseteq Objects \ Leaves
      BY <1>1, <1>2, <2>2, <2>4 DEF ListsInv
    <3> QED BY <3>1, <3>2 DEF ListsInv
  <2>6. ASSUME NEW x, x = o \/ (\E i \in DOMAIN queue : x \in queue[i]) \/ (\E w \in Threads : x \in thread[w].marks)
        PROVE  (\E i \in DOMAIN queue' : x \in queue'[i]) \/ (\E w \in Threads : x \in thread'[w].marks)
    <3>1. CASE x = o
      BY <1>1, <2>3, <3>1
    <3>2. CASE \E i \in DOMAIN queue : x \in queue[i]
      BY <2>4, <3>2
    <3>3. CASE \E w \in Threads : x \in thread[w].marks
      BY <2>2, <2>3, <2>4, <3>3
    <3> QED BY <2>6, <3>1, <3>2, <3>3
  <2> QED BY <2>3, <2>5, <2>6
<1>6. CASE o \notin Leaves /\ Cardinality(thread[u].marks) # ListSize
  <2>1. SetThread(u, With(thread[u].marks \cup {o})) /\ queue' = queue
    BY <1>6 DEF SetMark
  <2>2. thread[u].marks \cup {o} \in SUBSET Objects
    BY <1>1 DEF ThreadRecord
  <2>3. /\ \A w \in Threads : thread'[w].links = thread[w].links /\ thread'[w].gen = thread[w].gen
        /\ thread'[u].marks = thread[u].marks \cup {o}
        /\ \A w \in Threads : w # u => thread'[w].marks = thread[w].marks
    <3> HIDE DEF With
    <3> QED BY <1>3, <2>1, <2>2
  <2>4. ListsInv'
    BY <1>2, <1>6, <2>1, <2>3 DEF ListsInv
  <2> QED BY <1>1, <2>1, <2>3, <2>4
<1> QED BY <1>4, <1>5, <1>6

LEMMA SetMarkStep ==
  ASSUME IInv, TypeOK', NEW t \in Threads, SetMark(t) PROVE IInv'
<1>0. /\ PlaceOK(t) /\ n \in [Objects -> 0..MaxGen]
  BY DEF IInv, ThreadInv, TypeOK
<1>1. /\ n' = [n EXCEPT ![reg[t].target] = thread[Et(t)].gen]
      /\ slot' = slot /\ vm' = vm /\ held' = held
      /\ fresh' = fresh /\ pc[t] = "set" /\ ReturnFromMark(t)
  BY DEF SetMark, At
<1>2. PICK o \in Objects : reg[t].target = o
  BY <1>0, <1>1 DEF PlaceOK, Marking
<1>3. thread[Et(t)].gen = Cycle /\ Cycle # 0
  BY <1>1, MarksWithCycle
<1>4. /\ pc'[t] = reg[t].next
      /\ reg'[t].et = reg[t].et /\ reg'[t].pos = reg[t].pos /\ reg'[t].unseen = reg[t].unseen
      /\ \A u \in Threads : u # t => pc'[u] = pc[u] /\ reg'[u] = reg[u]
  BY <1>1, MarkReturns
<1>5. reg[t].next \in {"defer", "links", "walk"}
  BY <1>0, <1>1 DEF PlaceOK, Marking
<1>6. /\ \A u \in Threads : thread'[u].links = thread[u].links /\ thread'[u].gen = thread[u].gen
      /\ ListsInv'
      /\ \A x \in Objects \ Leaves :
           (x = o \/ (\E i \in DOMAIN queue : x \in queue[i]) \/ (\E u \in Threads : x \in thread[u].marks))
             => (\E i \in DOMAIN queue' : x \in queue'[i]) \/ (\E u \in Threads : x \in thread'[u].marks)
  BY <1>2, Queued
<1>7. IsMarked(o)' /\ \A x \in Objects : n'[x] # n[x] => x = o
  BY <1>0, <1>1, <1>2, <1>3, SameCycle DEF IsMarked
<1>8. Steady(t)
  BY <1>0, <1>1, <1>2, <1>3, <1>4, <1>6, SameCycle DEF Steady
<1>9. Quiet(t)
  BY <1>1, <1>4, <1>5, <1>6 DEF Quiet, At, Synchronizing, Flushing, Returns, Marking
<1>10. Walks
  <2>1. \A s \in Slots : s[1] \in Objects \ Leaves
    BY Basics
  <2>2. \A s \in Slots :
          (s[1] = o \/ (\E i \in DOMAIN queue : s[1] \in queue[i]) \/ (\E u \in Threads : s[1] \in thread[u].marks))
            => Unvisited(s)'
    BY <1>6, <2>1 DEF Unvisited
  <2>3. \A x \in Objects : n'[x] # n[x] => (\A s \in Slots : s[1] = x => Unvisited(s)')
    BY <1>7, <2>2
  <2>4. \A x \in Objects : Marking(t) /\ reg[t].target = x => IsMarked(x)'
    BY <1>2, <1>7
  <2> QED BY <1>4, <2>2, <2>3, <2>4, WalksOn
<1>11. LinkInv'
  BY <1>1, <1>6 DEF IInv, LinkInv
<1>12. PlaceOK(t)' /\ FlushOK(t)' /\ KeepOK(t)'
  BY <1>1, <1>2, <1>6, <1>7, <1>8, AfterMark DEF Marking
<1> QED BY <1>6, <1>8, <1>9, <1>10, <1>11, <1>12, QuietStep

LEMMA FlushLinkStep ==
  ASSUME IInv, TypeOK', NEW t \in Threads, FlushLink(t) PROVE IInv'
<1> DEFINE pos == reg[t].pos
<1>0. /\ PlaceOK(t) /\ FlushOK(t) /\ Et(t) \in Threads /\ reg[t] \in Registers
      /\ thread[Et(t)] \in ThreadRecord
  BY Basics DEF IInv, ThreadInv
<1>1. /\ n' = n /\ slot' = slot /\ thread' = thread /\ queue' = queue /\ vm' = vm /\ held' = held
      /\ fresh' = fresh /\ pc[t] = "links"
  BY DEF FlushLink, At
<1>2. PICK links \in Seq(ObjectOrNull) : links = thread[Et(t)].links
  BY <1>0 DEF ThreadRecord
<1>3. pos \in Nat \ {0}
  BY <1>0 DEF Registers
<1>4. reg[t].after \in {"full", "flush"} /\ (reg[t].after = "full" => t \in Mutators)
  BY <1>0, <1>1 DEF PlaceOK, Flushing, At
<1>5. \A i \in 1..Len(links) : i < pos => links[i] \in Objects /\ IsMarked(links[i])
  BY <1>0, <1>1, <1>2 DEF FlushOK, IsDone, Flushing, At, Marking
<1>6. CASE pos > Len(links)
  <2>1. Goto(t, reg[t].after) /\ SetLocals(t, [reg[t] EXCEPT !.pos = 1, !.after = "run"])
    BY <1>2, <1>6 DEF FlushLink
  <2>2. /\ pc'[t] = reg[t].after /\ reg'[t] = [reg[t] EXCEPT !.pos = 1, !.after = "run"]
        /\ \A u \in Threads : u # t => pc'[u] = pc[u] /\ reg'[u] = reg[u]
    BY <2>1, LocalsSet, WentTo
  <2>3. /\ reg'[t].et = reg[t].et /\ reg'[t].pos = 1 /\ reg'[t].unseen = reg[t].unseen
        /\ reg'[t].dest = reg[t].dest
    BY <1>0, <2>2 DEF Registers
  <2>4. Steady(t) /\ ListsInv' /\ LinkInv'
    BY <1>1, <2>2, Untouched, SameCycle
  <2>5. Quiet(t)
    BY <1>1, <1>4, <2>2, <2>3, Basics DEF Quiet, At, Synchronizing, Flushing
  <2>6. Walks
    BY <1>1, <2>2, <2>3, WalksSame DEF Marking
  <2>7. PlaceOK(t)'
    BY <1>0, <1>1, <1>4, <2>2, <2>3, Basics
       DEF PlaceOK, Et, At, Marking, Returns, Flushing, Walking, Assigns, Overwrites
  <2>8. FlushOK(t)'
    <3>1. ~Flushing(t)'
      BY <1>4, <2>2 DEF Flushing, At, Returns, Marking
    <3>2. \A i \in 1..Len(links) : links[i] \in Objects /\ IsMarked(links[i])
      BY <1>2, <1>3, <1>5, <1>6
    <3>3. thread'[Et(t)'].links = links
      BY <1>1, <1>2, <2>3 DEF Et
    <3>4. \A i \in 1..Len(links) : links[i] \in Objects /\ IsMarked(links[i])'
      BY <3>2, <2>4, MarkedStays
    <3> QED BY <3>1, <3>3, <3>4 DEF FlushOK
  <2>9. KeepOK(t)'
    <3>1. Overwrites(t)' => Overwrites(t)
      BY <1>1, <1>4, <2>2 DEF Overwrites, Flushing, Returns, Marking, At
    <3>2. ~Returns(t, "defer")
      BY <1>1 DEF Returns, Marking
    <3> QED BY <2>3, <2>4, <3>1, <3>2, KeepStays
  <2> QED BY <2>4, <2>5, <2>6, <2>7, <2>8, <2>9, QuietStep
<1>7. CASE pos <= Len(links)
  <2>0. PICK o \in Objects : links[pos] = o
    BY <1>2, <1>3, <1>7 DEF FlushLink, ObjectOrNull
  <2>1. Goto(t, "test") /\ SetLocals(t, [reg[t] EXCEPT !.pos = pos + 1, !.target = o, !.next = "links"])
    BY <1>2, <1>3, <1>7, <2>0 DEF FlushLink
  <2>2. /\ pc'[t] = "test"
        /\ reg'[t] = [reg[t] EXCEPT !.pos = pos + 1, !.target = o, !.next = "links"]
        /\ \A u \in Threads : u # t => pc'[u] = pc[u] /\ reg'[u] = reg[u]
    BY <2>1, LocalsSet, WentTo
  <2>3. /\ reg'[t].et = reg[t].et /\ reg'[t].pos = pos + 1 /\ reg'[t].unseen = reg[t].unseen
        /\ reg'[t].dest = reg[t].dest /\ reg'[t].target = o /\ reg'[t].next = "links"
        /\ reg'[t].after = reg[t].after
    BY <1>0, <2>2 DEF Registers
  <2>4. Steady(t) /\ ListsInv' /\ LinkInv'
    BY <1>1, <2>2, Untouched, SameCycle
  <2>5. Quiet(t)
    BY <1>1, <2>2, <2>3 DEF Quiet, At, Synchronizing, Flushing, Returns, Marking
  <2>6. Walks
    BY <1>1, <2>2, <2>3, WalksSame DEF Marking
  <2>7. PlaceOK(t)'
    BY <1>0, <1>1, <1>4, <2>2, <2>3
       DEF PlaceOK, Et, At, Marking, Returns, Flushing, Walking, Assigns, Overwrites
  <2>8. FlushOK(t)'
    <3>1. ~Flushed(t)' /\ Marking(t)'
      BY <2>2, <2>3 DEF Flushed, Walking, At, Returns, Marking
    <3>2. ASSUME NEW i \in 1..Len(links), i < pos + 1 PROVE IsDone(t, links[i])'
      <4>1. CASE i = pos
        BY <2>0, <2>3, <3>1, <4>1 DEF IsDone
      <4>2. CASE i < pos
        <5>1. PICK x \in Objects : x = links[i] /\ IsMarked(x)
          BY <1>5, <4>2
        <5>2. IsMarked(x)'
          BY <5>1, <2>4, MarkedStays
        <5> QED BY <5>1, <5>2 DEF IsDone
      <4> QED BY <1>3, <3>2, <4>1, <4>2
    <3>3. thread'[Et(t)'].links = links
      BY <1>1, <1>2, <2>3 DEF Et
    <3> QED BY <2>3, <3>1, <3>2, <3>3 DEF FlushOK
  <2>9. KeepOK(t)'
    <3>1. Overwrites(t)' => Overwrites(t)
      BY <1>1, <2>2, <2>3 DEF Overwrites, Flushing, Returns, Marking, At
    <3>2. ~Returns(t, "defer")
      BY <1>1 DEF Returns, Marking
    <3> QED BY <2>3, <2>4, <3>1, <3>2, KeepStays
  <2> QED BY <2>4, <2>5, <2>6, <2>7, <2>8, <2>9, QuietStep
<1> QED BY <1>2, <1>3, <1>6, <1>7

-----------------------------------------------------------------------------
(***************************************************************************)
(* ebi_flush_marks and ebi_gc_mark.                                        *)
(***************************************************************************)
\* The lists after a thread u has sent its own.
LEMMA Sent ==
  ASSUME IInv, NEW u \in Threads,
         queue' = IF thread[u].marks = {} THEN queue ELSE <<thread[u].marks>> \o queue,
         thread'[u].marks = {}, \A w \in Threads : w # u => thread'[w] = thread[w]
  PROVE  /\ ListsInv'
         /\ \A s \in Slots :
              (\E i \in DOMAIN queue : s[1] \in queue[i]) \/ (\E w \in Threads : s[1] \in thread[w].marks)
                => Unvisited(s)'
<1>1. ListsInv /\ queue \in Seq(SUBSET Objects) /\ thread[u] \in ThreadRecord
  BY Basics DEF IInv, TypeOK
<1>2. PICK marks \in SUBSET Objects : marks = thread[u].marks
  BY <1>1 DEF ThreadRecord
<1>3. CASE marks = {}
  BY <1>1, <1>2, <1>3 DEF ListsInv, Unvisited
<1>4. CASE marks # {}
  <2>1. queue' = <<marks>> \o queue
    BY <1>2, <1>4
  <2>2. /\ 1 \in DOMAIN queue' /\ queue'[1] = marks
        /\ \A i \in DOMAIN queue : i + 1 \in DOMAIN queue' /\ queue'[i + 1] = queue[i]
        /\ \A i \in DOMAIN queue' : i = 1 \/ (i - 1 \in DOMAIN queue /\ queue'[i] = queue[i - 1])
    BY <1>1, <2>1
  <2>3. \A w \in Threads : thread'[w].marks \subseteq Objects \ Leaves
    BY <1>1 DEF ListsInv
  <2>4. \A i \in DOMAIN queue' : queue'[i] \subseteq Objects \ Leaves
    BY <1>1, <1>2, <2>2 DEF ListsInv
  <2>5. ASSUME NEW x, (\E i \in DOMAIN queue : x \in queue[i]) \/ (\E w \in Threads : x \in thread[w].marks)
        PROVE  (\E i \in DOMAIN queue' : x \in queue'[i]) \/ (\E w \in Threads : x \in thread'[w].marks)
    <3>1. CASE \E i \in DOMAIN queue : x \in queue[i]
      BY <2>2, <3>1
    <3>2. CASE \E w \in Threads : x \in thread[w].marks
      BY <1>2, <2>2, <3>2
    <3> QED BY <2>5, <3>1, <3>2
  <2> QED BY <2>3, <2>4, <2>5 DEF ListsInv, Unvisited
<1> QED BY <1>3, <1>4

LEMMA FlushMarksStep ==
  ASSUME IInv, TypeOK', NEW t \in Mutators, FlushMarks(t) PROVE IInv'
<1>0. /\ t \in Threads /\ t # GcThread /\ PlaceOK(t) /\ FlushOK(t) /\ Et(t) = t
      /\ thread[t] \in ThreadRecord
  BY Basics DEF IInv, ThreadInv, PlaceOK
<1>1. /\ n' = n /\ slot' = slot /\ vm' = vm /\ held' = held /\ reg' = reg
      /\ fresh' = fresh /\ pc[t] = "flush" /\ Goto(t, "take")
      /\ queue' = IF thread[t].marks = {} THEN queue ELSE <<thread[t].marks>> \o queue
      /\ SetThread(t, [thread[t] EXCEPT !.marks = {}])
  BY <1>0 DEF FlushMarks, At
<1>2. /\ thread'[t] = [thread[t] EXCEPT !.marks = {}] /\ pc'[t] = "take"
      /\ \A u \in Threads : u # t => thread'[u] = thread[u] /\ pc'[u] = pc[u]
  BY <1>0, <1>1, ThreadSet, WentTo
<1>3. thread'[t].gen = thread[t].gen /\ thread'[t].links = thread[t].links /\ thread'[t].marks = {}
  BY <1>0, <1>2 DEF ThreadRecord
<1>4. Steady(t)
  BY <1>0, <1>1, <1>2, <1>3, SameCycle DEF Steady
<1>5. Quiet(t)
  BY <1>0, <1>1, <1>2, <1>3 DEF Quiet, At
<1>6. /\ ListsInv'
      /\ \A s \in Slots :
           (\E i \in DOMAIN queue : s[1] \in queue[i]) \/ (\E w \in Threads : s[1] \in thread[w].marks)
             => Unvisited(s)'
  BY <1>0, <1>1, <1>2, <1>3, Sent
<1>7. Walks
  BY <1>0, <1>1, <1>2, <1>6, WalksOn DEF Marking
<1>8. LinkInv'
  <2>1. \A w \in Threads : thread'[w].links = thread[w].links
    BY <1>2, <1>3
  <2> QED BY <1>1, <2>1 DEF IInv, LinkInv
<1>9. PlaceOK(t)'
  BY <1>0, <1>1, <1>2 DEF PlaceOK, Et, At, Marking, Returns, Flushing, Walking, Assigns, Overwrites
<1>10. FlushOK(t)'
  <2>1. Flushed(t) /\ ~Flushing(t)' /\ thread'[Et(t)'].links = thread[Et(t)].links
    BY <1>0, <1>1, <1>2, <1>3 DEF Flushed, Flushing, At, Returns, Marking, Et
  <2> QED BY <1>0, <1>1, <2>1, SameCycle DEF FlushOK, IsMarked
<1>11. KeepOK(t)'
  BY <1>1, <1>2 DEF KeepOK, Overwrites, Flushing, Returns, Marking, At
<1> QED BY <1>0, <1>4, <1>5, <1>6, <1>7, <1>8, <1>9, <1>10, <1>11, QuietStep

LEMMA TakeListStep ==
  ASSUME IInv, TypeOK', NEW t \in Threads, TakeList(t) PROVE IInv'
<1>0. /\ PlaceOK(t) /\ FlushOK(t) /\ reg[t] \in Registers
      /\ queue \in Seq(SUBSET Objects) /\ ListsInv
  BY Basics DEF IInv, ThreadInv, TypeOK
<1>1. /\ n' = n /\ slot' = slot /\ thread' = thread /\ vm' = vm /\ held' = held
      /\ fresh' = fresh /\ pc[t] \in {"take", "step", "again"} /\ Goto(t, "walk")
      /\ queue # <<>> /\ queue' = Tail(queue)
      /\ SetLocals(t, [reg[t] EXCEPT !.unseen = Head(queue) \X Fields])
  BY DEF TakeList
<1>2. /\ pc'[t] = "walk" /\ reg'[t] = [reg[t] EXCEPT !.unseen = Head(queue) \X Fields]
      /\ \A u \in Threads : u # t => pc'[u] = pc[u] /\ reg'[u] = reg[u]
  BY <1>1, LocalsSet, WentTo
<1>3. /\ reg'[t].et = reg[t].et /\ reg'[t].pos = reg[t].pos /\ reg'[t].dest = reg[t].dest
      /\ reg'[t].unseen = Head(queue) \X Fields
  BY <1>0, <1>2 DEF Registers
<1>4. /\ Head(queue) = queue[1]
      /\ \A i \in DOMAIN queue : i = 1 \/ (i - 1 \in DOMAIN queue' /\ queue'[i - 1] = queue[i])
      /\ \A i \in DOMAIN queue' : i + 1 \in DOMAIN queue /\ queue'[i] = queue[i + 1]
  BY <1>0, <1>1
<1>5. Steady(t)
  BY <1>1, <1>2, SameCycle DEF Steady
<1>6. Quiet(t)
  BY <1>1, <1>2, <1>3 DEF Quiet, At, Synchronizing, Flushing, Returns, Marking
<1>7. Walks
  <2>1. ASSUME NEW s \in Slots, \E i \in DOMAIN queue : s[1] \in queue[i] PROVE Unvisited(s)'
    <3>1. CASE s[1] \in queue[1]
      <4>1. s \in Head(queue) \X Fields
        BY <1>4, <3>1 DEF Slots
      <4> QED BY <1>3, <4>1 DEF Unvisited
    <3>2. CASE s[1] \notin queue[1]
      BY <1>4, <2>1, <3>2 DEF Unvisited
    <3> QED BY <3>1, <3>2
  <2>2. ASSUME NEW s \in Slots, \E w \in Threads : s[1] \in thread[w].marks PROVE Unvisited(s)'
    BY <1>1, <2>2 DEF Unvisited
  <2>3. reg[t].unseen = {}
    BY <1>0, <1>1 DEF PlaceOK, Walking, At, Returns, Marking
  <2> QED BY <1>1, <1>2, <2>1, <2>2, <2>3, WalksOn DEF Marking
<1>8. ListsInv' /\ LinkInv'
  BY <1>0, <1>1, <1>4 DEF IInv, ListsInv, LinkInv
<1>9. PlaceOK(t)'
  BY <1>0, <1>1, <1>2, <1>3, Basics
     DEF PlaceOK, Et, At, Marking, Returns, Flushing, Walking, Assigns, Overwrites
<1>10. FlushOK(t)'
  <2>1. (t \in Mutators => Flushed(t)) /\ ~Flushing(t)' /\ thread'[Et(t)'].links = thread[Et(t)].links
    BY <1>0, <1>1, <1>2, <1>3, Basics DEF PlaceOK, Flushed, Flushing, At, Returns, Marking, Et
  <2>2. Flushed(t)' => t \in Mutators
    BY <1>2 DEF Flushed, At
  <2> QED BY <1>0, <1>1, <2>1, <2>2, SameCycle DEF FlushOK, IsMarked
<1>11. KeepOK(t)'
  BY <1>1, <1>2 DEF KeepOK, Overwrites, Flushing, Returns, Marking, At
<1> QED BY <1>5, <1>6, <1>7, <1>8, <1>9, <1>10, <1>11, QuietStep

LEMMA WalkFieldStep ==
  ASSUME IInv, TypeOK', NEW t \in Threads, WalkField(t) PROVE IInv'
<1>0. PlaceOK(t) /\ FlushOK(t) /\ reg[t] \in Registers /\ Et(t) \in Threads
  BY Basics DEF IInv, ThreadInv
<1>1. /\ n' = n /\ slot' = slot /\ thread' = thread /\ queue' = queue /\ vm' = vm /\ held' = held
      /\ fresh' = fresh /\ pc[t] = "walk"
  BY DEF WalkField, At
<1>2. PICK s \in reg[t].unseen :
        LET rest == [reg[t] EXCEPT !.unseen = @ \ {s}]
        IN  \/ slot[s] = Null /\ SetLocals(t, rest) /\ pc' = pc
            \/ /\ slot[s] # Null /\ SetLocals(t, [rest EXCEPT !.target = slot[s], !.next = "walk"])
               /\ Goto(t, "test")
  BY DEF WalkField
<1>3. s \in Slots /\ slot[s] \in ObjectOrNull
  <2>1. s \in Slots
    BY <1>0, <1>2 DEF Registers
  <2> QED BY <2>1, Basics
<1>4. /\ \A u \in Threads : u # t => pc'[u] = pc[u] /\ reg'[u] = reg[u]
      /\ reg'[t].et = reg[t].et /\ reg'[t].pos = reg[t].pos /\ reg'[t].dest = reg[t].dest
      /\ reg'[t].unseen = reg[t].unseen \ {s}
      /\ \/ slot[s] = Null /\ pc'[t] = "walk"
         \/ /\ slot[s] \in Objects /\ pc'[t] = "test"
            /\ reg'[t].target = slot[s] /\ reg'[t].next = "walk"
  <2> DEFINE rest == [reg[t] EXCEPT !.unseen = @ \ {s}]
             to == [rest EXCEPT !.target = slot[s], !.next = "walk"]
  <2>1. CASE slot[s] = Null /\ SetLocals(t, rest) /\ pc' = pc
    <3>1. reg'[t] = rest /\ \A u \in Threads : u # t => reg'[u] = reg[u]
      BY <2>1, LocalsSet
    <3>2. /\ rest.et = reg[t].et /\ rest.pos = reg[t].pos /\ rest.dest = reg[t].dest
          /\ rest.unseen = reg[t].unseen \ {s}
      BY <1>0 DEF Registers
    <3> QED BY <1>1, <2>1, <3>1, <3>2
  <2>2. CASE slot[s] # Null /\ SetLocals(t, to) /\ Goto(t, "test")
    <3>1. /\ reg'[t] = to /\ pc'[t] = "test"
          /\ \A u \in Threads : u # t => pc'[u] = pc[u] /\ reg'[u] = reg[u]
      BY <2>2, LocalsSet, WentTo
    <3>2. /\ to.et = reg[t].et /\ to.pos = reg[t].pos /\ to.dest = reg[t].dest
          /\ to.unseen = reg[t].unseen \ {s} /\ to.target = slot[s] /\ to.next = "walk"
      BY <1>0 DEF Registers
    <3> HIDE DEF to
    <3> QED BY <1>3, <2>2, <3>1, <3>2 DEF ObjectOrNull
  <2> QED BY <1>2, <2>1, <2>2
<1>5. Steady(t) /\ ListsInv' /\ LinkInv'
  BY <1>1, <1>4, Untouched, SameCycle
<1>6. Quiet(t)
  BY <1>1, <1>4, CollectorAssumption DEF Quiet, At, Synchronizing, Flushing, Returns, Marking
<1>7. Walks
  BY <1>1, <1>4, WalksSame DEF Marking
<1>8. PlaceOK(t)'
  BY <1>0, <1>1, <1>4, CollectorAssumption
     DEF PlaceOK, Et, At, Marking, Returns, Flushing, Walking, Assigns, Overwrites
<1>9. FlushOK(t)'
  <2>1. (Flushed(t)' => Flushed(t)) /\ ~Flushing(t)' /\ thread'[Et(t)'].links = thread[Et(t)].links
    BY <1>0, <1>1, <1>4, CollectorAssumption
       DEF PlaceOK, Flushed, Flushing, Walking, At, Returns, Marking, Et
  <2> QED BY <1>0, <1>1, <2>1, SameCycle DEF FlushOK, IsMarked
<1>10. KeepOK(t)'
  BY <1>1, <1>4, CollectorAssumption DEF KeepOK, Overwrites, Flushing, Returns, Marking, At
<1> QED BY <1>5, <1>6, <1>7, <1>8, <1>9, <1>10, QuietStep

LEMMA EndWalkStep ==
  ASSUME IInv, TypeOK', NEW t \in Threads, EndWalk(t) PROVE IInv'
<1>0. PlaceOK(t) /\ reg[t] \in Registers
  BY Basics DEF IInv, ThreadInv
<1>1. /\ n' = n /\ slot' = slot /\ thread' = thread /\ queue' = queue /\ vm' = vm /\ held' = held
      /\ fresh' = fresh /\ pc[t] = "walk" /\ reg[t].unseen = {}
  BY DEF EndWalk, At
<1>2. /\ \A u \in Threads : u # t => pc'[u] = pc[u] /\ reg'[u] = reg[u]
      /\ \/ t = GcThread /\ pc'[t] = "stage" /\ reg'[t] = [reg[t] EXCEPT !.found = TRUE]
         \/ t # GcThread /\ pc'[t] = "links" /\ reg'[t] = [reg[t] EXCEPT !.after = "flush"]
  BY LocalsSet, WentTo DEF EndWalk
<1>3. /\ reg'[t].et = reg[t].et /\ reg'[t].pos = reg[t].pos /\ reg'[t].unseen = reg[t].unseen
      /\ reg'[t].dest = reg[t].dest
      /\ t # GcThread => reg'[t].after = "flush"
  BY <1>0, <1>2 DEF Registers
<1>4. Steady(t) /\ ListsInv' /\ LinkInv'
  BY <1>1, <1>2, Untouched, SameCycle
<1>5. Quiet(t)
  BY <1>1, <1>2, <1>3 DEF Quiet, At, Synchronizing, Flushing, Returns, Marking
<1>6. Walks
  BY <1>1, <1>2, <1>3, WalksSame DEF Marking
<1>7. PlaceOK(t)'
  BY <1>0, <1>1, <1>2, <1>3, CollectorAssumption
     DEF PlaceOK, Et, At, Marking, Returns, Flushing, Walking, Assigns, Overwrites
<1>8. FlushOK(t)' /\ KeepOK(t)'
  <2>1. reg'[t].pos = 1 /\ ~Flushed(t)' /\ ~Overwrites(t)'
    BY <1>0, <1>1, <1>2, <1>3
       DEF PlaceOK, Flushed, Flushing, Walking, At, Returns, Marking, Overwrites
  <2> QED BY <2>1 DEF FlushOK, KeepOK
<1> QED BY <1>4, <1>5, <1>6, <1>7, <1>8, QuietStep

-----------------------------------------------------------------------------
(***************************************************************************)
(* The collector thread, the barrier, and what ends a synchronization.     *)
(***************************************************************************)
\* A step that gives out generations, or starts or waits for the barrier.
LEMMA SteadyStep ==
  ASSUME IInv, TypeOK', NEW t \in Threads, Steady(t), Walks, ListsInv', LinkInv',
         PlaceOK(t)', FlushOK(t)', KeepOK(t)', \A u \in Threads : GenOK(u)', BarrierInv'
  PROVE  IInv'
<1>1. ThreadInv'
  BY OthersStay DEF ThreadInv
<1> QED BY <1>1, HeapStays, NothingHidden DEF IInv

LEMMA StepFindsNothingStep ==
  ASSUME IInv, TypeOK', StepFindsNothing(GcThread) PROVE IInv'
<1> DEFINE c == GcThread
<1>0. /\ c \in Threads /\ PlaceOK(c) /\ thread[c] \in ThreadRecord
      /\ queue \in Seq(SUBSET Objects)
  BY Basics DEF IInv, ThreadInv, TypeOK
<1>1. /\ n' = n /\ slot' = slot /\ vm' = vm /\ held' = held /\ reg' = reg
      /\ fresh' = fresh /\ pc[c] \in {"step", "again"} /\ queue = <<>>
  BY DEF StepFindsNothing
<1>2. \/ /\ thread[c].marks # {} /\ queue' = <<thread[c].marks>>
         /\ SetThread(c, [thread[c] EXCEPT !.marks = {}]) /\ Goto(c, "again")
      \/ Goto(c, "stage") /\ queue' = queue /\ thread' = thread
  BY DEF StepFindsNothing
<1>3. /\ pc'[c] \in {"again", "stage"} /\ \A u \in Threads : u # c => pc'[u] = pc[u]
      /\ \A u \in Threads : thread'[u].gen = thread[u].gen /\ thread'[u].links = thread[u].links
  <2>1. CASE /\ SetThread(c, [thread[c] EXCEPT !.marks = {}]) /\ Goto(c, "again")
    <3>1. /\ pc'[c] = "again" /\ thread'[c] = [thread[c] EXCEPT !.marks = {}]
          /\ \A u \in Threads : u # c => pc'[u] = pc[u] /\ thread'[u] = thread[u]
      BY <1>0, <2>1, ThreadSet, WentTo
    <3>2. thread'[c].gen = thread[c].gen /\ thread'[c].links = thread[c].links
      BY <1>0, <3>1 DEF ThreadRecord
    <3> QED BY <3>1, <3>2
  <2>2. CASE Goto(c, "stage") /\ thread' = thread
    BY <1>0, <2>2, WentTo
  <2> QED BY <1>2, <2>1, <2>2
<1>4. Steady(c)
  BY <1>0, <1>1, <1>3, SameCycle DEF Steady
<1>5. Quiet(c)
  BY <1>0, <1>1, <1>3 DEF Quiet, At, Synchronizing, Flushing, Returns, Marking
<1>6. /\ ListsInv'
      /\ \A s \in Slots :
           (\E i \in DOMAIN queue : s[1] \in queue[i]) \/ (\E w \in Threads : s[1] \in thread[w].marks)
             => Unvisited(s)'
  <2>1. CASE /\ thread[c].marks # {} /\ queue' = <<thread[c].marks>>
             /\ SetThread(c, [thread[c] EXCEPT !.marks = {}])
    <3>1. thread'[c].marks = {} /\ \A w \in Threads : w # c => thread'[w] = thread[w]
      <4>1. /\ thread'[c] = [thread[c] EXCEPT !.marks = {}]
            /\ \A u \in Threads : u # c => thread'[u] = thread[u]
        BY <1>0, <2>1, ThreadSet
      <4> QED BY <1>0, <4>1 DEF ThreadRecord
    <3>2. queue' = <<thread[c].marks>> \o queue
      BY <1>0, <1>1, <2>1 DEF ThreadRecord
    <3> QED BY <1>0, <2>1, <3>1, <3>2, Sent
  <2>2. CASE queue' = queue /\ thread' = thread
    BY <2>2 DEF IInv, ListsInv, Unvisited
  <2> QED BY <1>2, <2>1, <2>2
<1>7. Walks
  BY <1>0, <1>1, <1>3, <1>6, WalksOn DEF Marking
<1>8. LinkInv'
  BY <1>1, <1>3 DEF IInv, LinkInv
<1>9. PlaceOK(c)'
  BY <1>0, <1>1, <1>3, CollectorAssumption
     DEF PlaceOK, Et, At, Marking, Returns, Flushing, Walking, Assigns, Overwrites
<1>10. FlushOK(c)' /\ KeepOK(c)'
  <2>1. ~Flushing(c)' /\ ~Flushed(c)' /\ ~Overwrites(c)'
    BY <1>3, CollectorAssumption DEF Flushed, Flushing, Walking, At, Returns, Marking, Overwrites
  <2> QED BY <2>1 DEF FlushOK, KeepOK
<1> QED BY <1>0, <1>4, <1>5, <1>6, <1>7, <1>8, <1>9, <1>10, QuietStep

LEMMA AdvanceStageStep ==
  ASSUME IInv, TypeOK', AdvanceStage(GcThread) PROVE IInv'
<1> DEFINE c == GcThread
<1>0. /\ c \in Threads /\ PlaceOK(c) /\ BarrierInv
      /\ vm \in [gen : 1..MaxGen, stage : {"idle", "mark", "sweep"}, fenced : BOOLEAN]
  BY Basics DEF IInv, ThreadInv, TypeOK
<1>1. /\ n' = n /\ slot' = slot /\ thread' = thread /\ queue' = queue /\ held' = held
      /\ fresh' = fresh /\ pc[c] = "stage" /\ SetLocals(c, NoLocals(c))
  BY DEF AdvanceStage, At
<1>2. \/ Goto(c, "step") /\ vm'.gen = vm.gen /\ vm'.fenced = vm.fenced
      \/ Goto(c, "barrier") /\ vm'.gen = vm.gen + 1 /\ vm'.fenced = TRUE
  <2>1. \/ vm' = [vm EXCEPT !.stage = IF @ = "idle" THEN "mark" ELSE "idle"] /\ Goto(c, "step")
        \/ vm' = vm /\ Goto(c, "step")
        \/ vm' = [vm EXCEPT !.gen = @ + 1, !.fenced = TRUE] /\ Goto(c, "barrier")
    BY DEF AdvanceStage
  <2> QED BY <1>0, <2>1
<1>3. ~Synchronizing(c) /\ ~At(c, "barrier") /\ Et(c) = c /\ ~vm.fenced /\ held = {} /\ reg[c].unseen = {}
  BY <1>0, <1>1
     DEF BarrierInv, PlaceOK, Synchronizing, Flushing, Walking, At, Returns, Marking
<1>4. /\ reg'[c].et = c /\ reg'[c].pos = 1 /\ reg'[c].unseen = {}
      /\ \A u \in Threads : u # c => reg'[u] = reg[u]
  BY <1>0, <1>1, LocalsReset
<1>5. pc'[c] \in {"step", "barrier"} /\ \A u \in Threads : u # c => pc'[u] = pc[u]
  BY <1>0, <1>2, WentTo
<1>6. Cycle' = Cycle
  <2>1. CASE vm'.gen = vm.gen /\ vm'.fenced = vm.fenced
    BY <2>1 DEF Cycle
  <2>2. CASE vm'.gen = vm.gen + 1 /\ vm'.fenced = TRUE
    <3>1. PICK g \in Nat : g = vm.gen
      BY <1>0
    <3>2. Cycle = g
      BY <1>3, <3>1, Zenon DEF Cycle
    <3>3. Cycle' = vm'.gen - 1
      <4>1. vm'.fenced
        BY <2>2
      <4> QED BY <4>1, Zenon DEF Cycle
    <3>4. vm'.gen = g + 1
      BY <2>2, <3>1, Zenon
    <3>5. Cycle' = (g + 1) - 1
      BY <3>3, <3>4, Zenon
    <3> QED BY <3>2, <3>5
  <2> QED BY <1>2, <2>1, <2>2
<1>7. Steady(c) /\ ListsInv' /\ LinkInv'
  BY <1>0, <1>1, <1>4, <1>5, <1>6, Untouched
<1>8. Walks
  BY <1>0, <1>1, <1>3, <1>4, <1>5, WalksSame DEF Marking
<1>9. PlaceOK(c)'
  BY <1>0, <1>1, <1>4, <1>5, CollectorAssumption
     DEF PlaceOK, Et, At, Marking, Returns, Flushing, Walking, Assigns, Overwrites
<1>10. FlushOK(c)' /\ KeepOK(c)'
  <2>1. ~Flushing(c)' /\ ~Flushed(c)' /\ ~Overwrites(c)'
    BY <1>5, CollectorAssumption DEF Flushed, Flushing, Walking, At, Returns, Marking, Overwrites
  <2> QED BY <2>1 DEF FlushOK, KeepOK
<1>11. CASE Goto(c, "step") /\ vm'.gen = vm.gen /\ vm'.fenced = vm.fenced
  <2>1. pc'[c] = "step"
    BY <1>0, <1>11, WentTo
  <2>2. Quiet(c)
    BY <1>1, <1>3, <1>4, <1>11, <2>1 DEF Quiet, At, Et, Synchronizing, Flushing, Returns, Marking
  <2> QED BY <1>0, <1>7, <1>8, <1>9, <1>10, <2>2, QuietStep
<1>12. CASE Goto(c, "barrier") /\ vm'.gen = vm.gen + 1 /\ vm'.fenced = TRUE
  <2>1. pc'[c] = "barrier"
    BY <1>0, <1>12, WentTo
  <2>2. ASSUME NEW u \in Threads PROVE GenOK(u)'
    <3>1. \A w \in Threads : thread[w].gen = Cycle
      BY <1>3 DEF IInv, ThreadInv, GenOK, Cycle
    <3>2. Et(u)' \in Threads
      BY DEF TypeOK, Registers, Et
    <3> QED BY <1>1, <1>3, <1>6, <3>1, <3>2 DEF GenOK
  <2>3. BarrierInv'
    <3>1. At(c, "barrier")' /\ ~Synchronizing(c)' /\ Et(c)' = c
      BY <1>4, <2>1 DEF At, Synchronizing, Flushing, Returns, Marking, Et
    <3> QED BY <1>1, <1>3, <1>12, <3>1 DEF BarrierInv
  <2> QED BY <1>0, <1>7, <1>8, <1>9, <1>10, <2>2, <2>3, SteadyStep
<1> QED BY <1>2, <1>11, <1>12

LEMMA HoldThreadStep ==
  ASSUME IInv, TypeOK', HoldThread(GcThread) PROVE IInv'
<1> DEFINE c == GcThread
<1>0. /\ c \in Threads /\ PlaceOK(c) /\ BarrierInv /\ held \subseteq Threads
  BY Basics DEF IInv, ThreadInv, TypeOK
<1>1. /\ n' = n /\ slot' = slot /\ thread' = thread /\ queue' = queue /\ vm' = vm
      /\ fresh' = fresh /\ pc[c] = "barrier"
  BY DEF HoldThread, At
<1>2. PICK u \in Threads \ held :
        /\ u = c \/ pc[u] \in {"run", "fence"}
        /\ held' = held \cup {u}
        /\ IF thread[u].gen = vm.gen THEN UNCHANGED <<reg, pc>> ELSE BeginSynchronize(c, u)
  BY DEF HoldThread
<1>3. ~Synchronizing(c) /\ At(c, "barrier") /\ Et(c) = c /\ vm.fenced
  BY <1>0, <1>1 DEF BarrierInv, Synchronizing, Flushing, At, Returns, Marking
<1>4. /\ \A w \in Threads : w # c => pc'[w] = pc[w] /\ reg'[w] = reg[w]
      /\ \/ thread[u].gen = vm.gen /\ pc'[c] = "barrier" /\ reg'[c] = reg[c]
         \/ /\ thread[u].gen # vm.gen /\ pc'[c] = "links" /\ reg'[c].et = u /\ reg'[c].pos = 1
            /\ reg'[c].after = "flush" /\ reg'[c].unseen = reg[c].unseen
  BY <1>0, <1>1, <1>2, BeginSynchronizeSets
<1>5. Steady(c) /\ ListsInv' /\ LinkInv'
  BY <1>0, <1>1, <1>4, Untouched, SameCycle
<1>6. Walks
  BY <1>0, <1>1, <1>4, WalksSame DEF Marking
<1>7. PlaceOK(c)'
  BY <1>0, <1>1, <1>4, CollectorAssumption
     DEF PlaceOK, Et, At, Marking, Returns, Flushing, Walking, Assigns, Overwrites
<1>8. FlushOK(c)' /\ KeepOK(c)'
  <2>1. (Flushing(c)' => reg'[c].pos = 1) /\ ~Flushed(c)' /\ ~Overwrites(c)'
    BY <1>4, CollectorAssumption DEF Flushed, Flushing, Walking, At, Returns, Marking, Overwrites
  <2> QED BY <2>1 DEF FlushOK, KeepOK
<1>9. ASSUME NEW w \in Threads PROVE GenOK(w)'
  <2>1. GenOK(w) /\ GenOK(u) /\ PlaceOK(w)
    BY <1>2 DEF IInv, ThreadInv
  <2>2. thread[w].gen # Cycle => thread[w].gen = vm.gen /\ (w \in held' \/ At(w, "fence")')
    BY <1>0, <1>1, <1>2, <1>4, <2>1 DEF GenOK, At
  <2>3. pc'[w] \notin {"run", "fence", "barrier"} => thread[Et(w)'].gen = Cycle
    <3>1. CASE w # c
      BY <1>4, <2>1, <3>1 DEF GenOK, Et
    <3>2. CASE w = c
      BY <1>2, <1>4, <2>1, <3>2 DEF GenOK, Et
    <3> QED BY <3>1, <3>2
  <2>4. w \in held' /\ w \in Mutators => pc'[w] \in {"run", "fence"}
    BY <1>2, <1>4, <2>1, CollectorAssumption DEF GenOK
  <2> QED BY <1>1, <2>2, <2>3, <2>4, SameCycle DEF GenOK
<1>10. BarrierInv'
  <2>1. CASE thread[u].gen = vm.gen /\ pc'[c] = "barrier" /\ reg'[c] = reg[c]
    <3>1. At(c, "barrier")' /\ ~Synchronizing(c)' /\ Et(c)' = c
      BY <1>3, <2>1 DEF At, Synchronizing, Flushing, Returns, Marking, Et
    <3> QED BY <1>0, <1>1, <1>2, <1>3, <2>1, <3>1 DEF BarrierInv
  <2>2. CASE pc'[c] = "links" /\ reg'[c].et = u
    <3>1. ~At(c, "barrier")' /\ Synchronizing(c)' /\ Et(c)' = u
      BY <2>2 DEF At, Synchronizing, Flushing, Et
    <3>2. u # c => pc'[u] \in {"run", "fence"}
      BY <1>2, <1>4
    <3> QED BY <1>0, <1>1, <1>2, <1>3, <2>2, <3>1, <3>2 DEF BarrierInv
  <2> QED BY <1>4, <2>1, <2>2
<1> QED BY <1>0, <1>5, <1>6, <1>7, <1>8, <1>9, <1>10, SteadyStep

LEMMA EndSynchronizeSets ==
  ASSUME IInv, NEW t \in Threads, EndSynchronize(t)
  PROVE  /\ pc'[t] = IF t = GcThread THEN "barrier" ELSE "fence"
         /\ reg'[t].et = t /\ reg'[t].pos = 1 /\ reg'[t].unseen = {}
         /\ \A u \in Threads : u # t => pc'[u] = pc[u] /\ reg'[u] = reg[u]
         /\ fresh'[Et(t)] = {} /\ \A u \in Threads : u # Et(t) => fresh'[u] = fresh[u]
<1>1. pc'[t] = (IF t = GcThread THEN "barrier" ELSE "fence") /\ \A u \in Threads : u # t => pc'[u] = pc[u]
  BY WentTo DEF EndSynchronize
<1>2. /\ reg'[t].et = t /\ reg'[t].pos = 1 /\ reg'[t].unseen = {}
      /\ \A u \in Threads : u # t => reg'[u] = reg[u]
  BY LocalsReset DEF EndSynchronize
<1>3. fresh'[Et(t)] = {} /\ \A u \in Threads : u # Et(t) => fresh'[u] = fresh[u]
  BY Basics DEF EndSynchronize, IInv, TypeOK
<1> QED BY <1>1, <1>2, <1>3

LEMMA EndMarkingStep ==
  ASSUME IInv, TypeOK', NEW t \in Mutators, EndMarking(t) PROVE IInv'
<1>0. /\ t \in Threads /\ t # GcThread /\ PlaceOK(t) /\ Et(t) = t /\ BarrierInv
      /\ thread[t] \in ThreadRecord
  BY Basics DEF IInv, ThreadInv, PlaceOK
<1>1. /\ n' = n /\ slot' = slot /\ queue' = queue /\ vm' = vm /\ held' = held /\ pc[t] = "take"
      /\ SetThread(t, [thread[t] EXCEPT !.gen = vm.gen]) /\ EndSynchronize(t)
  BY DEF EndMarking, At
<1>2. /\ pc'[t] = "fence" /\ reg'[t].et = t /\ reg'[t].pos = 1 /\ reg'[t].unseen = {}
      /\ \A u \in Threads : u # t => pc'[u] = pc[u] /\ reg'[u] = reg[u]
      /\ fresh'[t] = {} /\ \A u \in Threads : u # t => fresh'[u] = fresh[u]
  BY <1>0, <1>1, EndSynchronizeSets
<1>3. /\ thread'[t] = [thread[t] EXCEPT !.gen = vm.gen]
      /\ \A u \in Threads : u # t => thread'[u] = thread[u]
  BY <1>0, <1>1, ThreadSet
<1>4. thread'[t].gen = vm.gen /\ thread'[t].links = thread[t].links /\ thread'[t].marks = thread[t].marks
  BY <1>0, <1>3 DEF ThreadRecord
<1>5. Steady(t)
  <2>1. Flushed(t)
    BY <1>1 DEF Flushed, At
  <2> QED BY <1>0, <1>1, <1>2, <1>3, <1>4, <2>1, SameCycle DEF Steady
<1>6. Walks
  <2>1. reg[t].unseen = {} /\ ~Marking(t)
    BY <1>0, <1>1 DEF PlaceOK, Walking, At, Returns, Marking
  <2> QED BY <1>0, <1>1, <1>2, <1>3, <1>4, <2>1, WalksSame
<1>7. ListsInv'
  BY <1>1, <1>3, <1>4 DEF IInv, ListsInv
<1>8. LinkInv'
  BY <1>2, <1>3 DEF IInv, LinkInv
<1>9. PlaceOK(t)'
  BY <1>0, <1>2 DEF PlaceOK, Et, At, Marking, Returns, Flushing, Walking, Assigns, Overwrites
<1>10. FlushOK(t)' /\ KeepOK(t)'
  <2>1. ~Flushing(t)' /\ ~Flushed(t)' /\ ~Overwrites(t)'
    BY <1>2 DEF Flushed, Flushing, Walking, At, Returns, Marking, Overwrites
  <2> QED BY <2>1 DEF FlushOK, KeepOK
<1>11. ~(Synchronizing(GcThread) /\ Et(GcThread) = t)
  BY <1>0, <1>1 DEF BarrierInv
<1>12. ASSUME NEW u \in Threads PROVE GenOK(u)'
  <2>1. GenOK(u) /\ PlaceOK(u)
    BY DEF IInv, ThreadInv
  <2>2. CASE u = t
    <3>1. t \notin held
      BY <1>1, <2>1, <2>2 DEF GenOK
    <3> QED BY <1>1, <1>2, <1>4, <2>2, <3>1 DEF GenOK, At
  <2>3. CASE u # t
    <3>1. Et(u) # t \/ pc[u] \in {"run", "fence", "barrier"} \/ ~Synchronizing(u)
      BY <1>11, <2>1, <2>3, Basics DEF PlaceOK
    <3>2. Et(u) # t
      BY <1>0, <1>11, <2>1, <2>3, Basics DEF PlaceOK, BarrierInv
    <3> QED BY <1>1, <1>2, <1>3, <2>1, <2>3, <3>2, SameCycle, Basics DEF GenOK, Et, At
  <2> QED BY <2>2, <2>3
<1>13. BarrierInv'
  <2>1. /\ Synchronizing(GcThread)' <=> Synchronizing(GcThread)
        /\ At(GcThread, "barrier")' <=> At(GcThread, "barrier")
        /\ Et(GcThread)' = Et(GcThread)
    BY <1>0, <1>2, Basics DEF Synchronizing, Flushing, Returns, Marking, At, Et
  <2>2. Synchronizing(GcThread) /\ Et(GcThread) # GcThread => pc'[Et(GcThread)] \in {"run", "fence"}
    BY <1>0, <1>2, Basics DEF BarrierInv
  <2>3. \A u \in held : thread'[u].gen = thread[u].gen \/ thread'[u].gen = vm.gen
    BY <1>3, <1>4 DEF IInv, TypeOK
  <2> QED BY <1>0, <1>1, <2>1, <2>2, <2>3 DEF BarrierInv
<1> QED BY <1>0, <1>5, <1>6, <1>7, <1>8, <1>9, <1>10, <1>12, <1>13, SteadyStep

\* The barrier has synchronized a thread that it holds.
LEMMA ReleaseStep ==
  ASSUME IInv, TypeOK', FlushMarks(GcThread) PROVE IInv'
<1> DEFINE c == GcThread
           u == Et(c)
<1>0. /\ c \in Threads /\ PlaceOK(c) /\ FlushOK(c) /\ BarrierInv /\ u \in Threads
      /\ thread[u] \in ThreadRecord
  BY Basics DEF IInv, ThreadInv
<1>1. /\ n' = n /\ slot' = slot /\ vm' = vm /\ held' = held /\ pc[c] = "flush"
      /\ queue' = IF thread[u].marks = {} THEN queue ELSE <<thread[u].marks>> \o queue
      /\ SetThread(u, [thread[u] EXCEPT !.marks = {}, !.gen = vm.gen]) /\ EndSynchronize(c)
  BY DEF FlushMarks, At
<1>2. /\ pc'[c] = "barrier" /\ reg'[c].et = c /\ reg'[c].pos = 1 /\ reg'[c].unseen = {}
      /\ \A w \in Threads : w # c => pc'[w] = pc[w] /\ reg'[w] = reg[w]
      /\ fresh'[u] = {} /\ \A w \in Threads : w # u => fresh'[w] = fresh[w]
  BY <1>0, <1>1, EndSynchronizeSets
<1>3. /\ thread'[u] = [thread[u] EXCEPT !.marks = {}, !.gen = vm.gen]
      /\ \A w \in Threads : w # u => thread'[w] = thread[w]
  BY <1>0, <1>1, ThreadSet
<1>4. thread'[u].gen = vm.gen /\ thread'[u].links = thread[u].links /\ thread'[u].marks = {}
  BY <1>0, <1>3 DEF ThreadRecord
<1>5. Flushed(c) /\ Synchronizing(c) /\ vm.fenced /\ u \in held
  BY <1>0, <1>1 DEF Flushed, Synchronizing, BarrierInv, At
<1>6. Steady(c)
  BY <1>0, <1>1, <1>2, <1>3, <1>4, <1>5, SameCycle DEF Steady
<1>7. /\ ListsInv'
      /\ \A s \in Slots :
           (\E i \in DOMAIN queue : s[1] \in queue[i]) \/ (\E w \in Threads : s[1] \in thread[w].marks)
             => Unvisited(s)'
  BY <1>0, <1>1, <1>3, <1>4, Sent
<1>8. Walks
  <2>1. reg[c].unseen = {} /\ ~Marking(c)
    BY <1>0, <1>1 DEF PlaceOK, Walking, At, Returns, Marking
  <2> QED BY <1>0, <1>1, <1>2, <1>7, <2>1, WalksOn
<1>9. LinkInv'
  BY <1>2, <1>3 DEF IInv, LinkInv
<1>10. PlaceOK(c)'
  BY <1>0, <1>2, CollectorAssumption
     DEF PlaceOK, Et, At, Marking, Returns, Flushing, Walking, Assigns, Overwrites
<1>11. FlushOK(c)' /\ KeepOK(c)'
  <2>1. ~Flushing(c)' /\ ~Flushed(c)' /\ ~Overwrites(c)'
    BY <1>2, CollectorAssumption DEF Flushed, Flushing, Walking, At, Returns, Marking, Overwrites
  <2> QED BY <2>1 DEF FlushOK, KeepOK
<1>12. ASSUME NEW w \in Threads PROVE GenOK(w)'
  <2>1. GenOK(w) /\ PlaceOK(w)
    BY DEF IInv, ThreadInv
  <2>2. CASE w = u
    <3>1. pc'[w] \in {"run", "fence", "barrier"} /\ (w \in Mutators => pc'[w] \in {"run", "fence"})
      BY <1>0, <1>2, <1>5, <2>2, Basics DEF BarrierInv
    <3> QED BY <1>1, <1>4, <1>5, <2>2, <3>1 DEF GenOK
  <2>3. CASE w # u
    <3>1. thread'[w] = thread[w]
      BY <1>3, <2>3
    <3>2. CASE w = c
      BY <1>1, <1>2, <2>1, <3>1, <3>2, SameCycle, CollectorAssumption DEF GenOK, At
    <3>3. CASE w # c
      <4>1. Et(w)' = w /\ Et(w) = w
        BY <1>2, <2>1, <3>3, Basics DEF PlaceOK, Et
      <4> QED BY <1>1, <1>2, <2>1, <3>1, <3>3, <4>1, SameCycle DEF GenOK, At
    <3> QED BY <3>2, <3>3
  <2> QED BY <2>2, <2>3
<1>13. BarrierInv'
  <2>1. ~Synchronizing(c)' /\ At(c, "barrier")' /\ Et(c)' = c
    BY <1>2 DEF Synchronizing, Flushing, Returns, Marking, At, Et
  <2>2. \A w \in held : thread'[w].gen = vm.gen
    BY <1>0, <1>3, <1>4 DEF BarrierInv, IInv, TypeOK
  <2> QED BY <1>1, <1>5, <2>1, <2>2 DEF BarrierInv
<1> QED BY <1>0, <1>6, <1>7, <1>8, <1>9, <1>10, <1>11, <1>12, <1>13, SteadyStep

LEMMA EndBarrierStep ==
  ASSUME IInv, TypeOK', EndBarrier(GcThread) PROVE IInv'
<1> DEFINE c == GcThread
<1>0. /\ c \in Threads /\ BarrierInv
      /\ vm \in [gen : 1..MaxGen, stage : {"idle", "mark", "sweep"}, fenced : BOOLEAN]
  BY Basics DEF IInv, TypeOK
<1>1. /\ n' = n /\ slot' = slot /\ thread' = thread /\ queue' = queue /\ reg' = reg
      /\ fresh' = fresh /\ pc[c] = "barrier" /\ held = Threads /\ held' = {}
      /\ vm' = [vm EXCEPT !.fenced = FALSE, !.stage = "sweep"]
      /\ pc' = [t \in Threads |-> IF t = c THEN "step" ELSE "run"]
  BY DEF EndBarrier, At
<1>2. vm.fenced /\ ~Synchronizing(c) /\ Et(c) = c
  BY <1>0, <1>1 DEF BarrierInv, Synchronizing, Flushing, At, Returns, Marking
<1>3. vm'.gen = vm.gen /\ vm'.fenced = FALSE
  BY <1>0, <1>1
<1>4. Cycle = vm.gen - 1
  BY <1>2, Zenon DEF Cycle
<1>5. Cycle' = vm.gen
  BY <1>3, Zenon DEF Cycle
<1>6. \A o \in Objects : n[o] < vm.gen
  BY <1>4, Basics DEF IInv, HeapInv
<1>7. ASSUME NEW t \in Threads PROVE PlaceOK(t)' /\ GenOK(t)' /\ FlushOK(t)' /\ KeepOK(t)'
  <2>1. PlaceOK(t) /\ GenOK(t)
    BY DEF IInv, ThreadInv
  <2>2. pc[t] \in {"run", "fence", "barrier"}
    BY <1>1, <2>1, Basics DEF GenOK
  <2>3. pc'[t] \in {"run", "step"} /\ (pc'[t] = "step" <=> t = c)
    BY <1>1
  <2>4. /\ ~Marking(t)' /\ ~Flushing(t)' /\ ~Walking(t)' /\ ~Flushed(t)' /\ ~Overwrites(t)' /\ ~Assigns(t)'
        /\ ~Marking(t) /\ ~Flushing(t) /\ ~Walking(t)
    BY <2>2, <2>3 DEF Marking, Flushing, Walking, Flushed, Assigns, Overwrites, Returns, At
  <2>5. PlaceOK(t)'
    BY <1>1, <2>1, <2>3, <2>4, CollectorAssumption DEF PlaceOK, Returns, At, Et
  <2>6. Et(t) = t
    BY <1>2, <2>1, Basics DEF PlaceOK
  <2>7. thread[t].gen = vm.gen
    BY <1>1, <1>2 DEF IInv, BarrierInv
  <2>8. GenOK(t)'
    BY <1>1, <1>5, <2>6, <2>7 DEF GenOK, Et
  <2>9. FlushOK(t)' /\ KeepOK(t)'
    BY <2>4 DEF FlushOK, KeepOK
  <2> QED BY <2>5, <2>8, <2>9
<1>8. ThreadInv'
  BY <1>7 DEF ThreadInv
<1>9. BarrierInv'
  <2>1. ~Synchronizing(c)' /\ ~At(c, "barrier")' /\ Et(c)' = c
    BY <1>0, <1>1, <1>2 DEF Synchronizing, Flushing, Returns, Marking, At, Et
  <2> QED BY <1>1, <1>3, <2>1 DEF BarrierInv
<1>10. HeapInv'
  BY <1>1, <1>5, <1>6, <1>0, Basics DEF IInv, HeapInv
<1>11. ListsInv' /\ LinkInv'
  BY <1>1 DEF IInv, ListsInv, LinkInv
<1>12. NoHiddenReference'
  <2>1. \A o \in Objects : n'[o] # Cycle'
    BY <1>0, <1>1, <1>5, <1>6, Basics
  <2>2. \A s \in Slots : s[1] \in Objects
    BY Basics
  <2> QED BY <2>1, <2>2 DEF NoHiddenReference, IsMarked
<1> QED BY <1>8, <1>9, <1>10, <1>11, <1>12 DEF IInv

-----------------------------------------------------------------------------
(***************************************************************************)
(* The theorems.                                                           *)
(***************************************************************************)
LEMMA InitIInv == Init => IInv
<1> SUFFICES ASSUME Init PROVE IInv
  OBVIOUS
<1> USE DEF Init
<1>0. GcThread \in Threads /\ \A t \in Threads : t \in Mutators <=> t # GcThread
  BY CollectorAssumption DEF Threads
<1>1. TypeOK
  <2>1. \A t \in Threads : NoLocals(t) \in Registers
    BY NoLocalsType
  <2>2. n \in [Objects -> 0..MaxGen] /\ slot \in [Slots -> ObjectOrNull] /\ held \in SUBSET Threads
    BY CollectorAssumption DEF ObjectOrNull
  <2>3. thread \in [Threads -> ThreadRecord]
    BY CollectorAssumption DEF ThreadRecord
  <2>4. \A t \in Threads : Cardinality(thread[t].marks) <= ListSize
    BY EmptyFits
  <2>5. vm \in [gen : 1..MaxGen, stage : {"idle", "mark", "sweep"}, fenced : BOOLEAN]
    BY CollectorAssumption
  <2>6. pc \in [Threads -> Locations] /\ fresh \in [Threads -> SUBSET ObjectOrNull]
    BY DEF Locations
  <2>7. queue \in Seq(SUBSET Objects)
    OBVIOUS
  <2>8. reg \in [Threads -> Registers]
    BY <2>1
  <2> QED BY <2>2, <2>3, <2>4, <2>5, <2>6, <2>7, <2>8 DEF TypeOK
<1>2. Cycle = 1 /\ vm.gen = 1 /\ ~vm.fenced
  BY DEF Cycle
<1>3. ASSUME NEW t \in Threads PROVE PlaceOK(t) /\ GenOK(t) /\ FlushOK(t) /\ KeepOK(t)
  <2>1. /\ pc[t] = IF t = GcThread THEN "step" ELSE "run"
        /\ reg[t].et = t /\ reg[t].pos = 1 /\ reg[t].unseen = {} /\ thread[t].gen = 1
    BY DEF NoLocals
  <2>2. ~Marking(t) /\ ~Flushing(t) /\ ~Walking(t) /\ ~Flushed(t) /\ ~Overwrites(t) /\ ~Assigns(t)
    BY <2>1 DEF Marking, Flushing, Walking, Flushed, Assigns, Overwrites, Returns, At
  <2>3. PlaceOK(t)
    BY <1>0, <2>1, <2>2 DEF PlaceOK, Returns, At, Et
  <2>4. GenOK(t)
    BY <1>2, <2>1 DEF GenOK, Et
  <2>5. FlushOK(t) /\ KeepOK(t)
    BY <2>2 DEF FlushOK, KeepOK
  <2> QED BY <2>3, <2>4, <2>5
<1>4. BarrierInv
  <2>1. ~Synchronizing(GcThread) /\ ~At(GcThread, "barrier") /\ Et(GcThread) = GcThread
    BY <1>0 DEF Synchronizing, Flushing, Returns, Marking, At, Et, NoLocals
  <2> QED BY <1>2, <2>1 DEF BarrierInv
<1>5. HeapInv /\ ListsInv /\ LinkInv /\ NoHiddenReference
  BY <1>2 DEF HeapInv, ListsInv, LinkInv, NoHiddenReference
<1> QED BY <1>1, <1>3, <1>4, <1>5 DEF IInv, ThreadInv

LEMMA StutterIInv == IInv /\ UNCHANGED vars => IInv'
BY DEF vars, IInv, TypeOK, ThreadInv, PlaceOK, GenOK, FlushOK, KeepOK, BarrierInv, HeapInv, ListsInv,
       LinkInv, NoHiddenReference, IsMarked, Unvisited, AboutToMark, IsLinked, Cycle, IsDone,
       Marking, Returns, Flushing, Walking, Flushed, Overwrites, Assigns, Synchronizing, At, Et

LEMMA NextIInv == IInv /\ [Next]_vars => IInv'
<1> SUFFICES ASSUME IInv, [Next]_vars PROVE IInv'
  OBVIOUS
<1>1. CASE UNCHANGED vars
  BY <1>1, StutterIInv
<1>2. CASE Next
  <2>0. TypeOK'
    BY <1>2, TypeStep
  <2>1. \A t \in Threads : t \in Mutators <=> t # GcThread
    BY Basics
  <2>2. ASSUME NEW t \in Threads, Mark(t) PROVE IInv'
    <3>1. CASE FlushMarks(t)
      BY <2>0, <2>1, <3>1, FlushMarksStep, ReleaseStep
    <3> QED BY <2>0, <2>2, <3>1, TestMarkStep, SetMarkStep, FlushLinkStep, TakeListStep,
               WalkFieldStep, EndWalkStep DEF Mark
  <2>3. ASSUME NEW t \in Mutators, Mutate(t) PROVE IInv'
    BY <2>0, <2>3, NewStep, AssignRefStep, ReadPrevStep, DeferLinkStep, StoreRefStep,
       CheckpointStep, EndMarkingStep DEF Mutate
  <2>4. ASSUME GcStep(GcThread) PROVE IInv'
    BY <2>0, <2>4, StepFindsNothingStep, AdvanceStageStep, HoldThreadStep, EndBarrierStep DEF GcStep
  <2> QED BY <1>2, <2>2, <2>3, <2>4 DEF Next
<1> QED BY <1>1, <1>2

\* A thread's locals, its list and its links have their types, and its list
\* never holds more objects than ebi_objlist has room for.
THEOREM TypeCorrect == Spec => []TypeOK
<1>1. IInv => TypeOK
  BY DEF IInv
<1> QED BY <1>1, InitIInv, NextIInv, PTL DEF Spec

\* No store, by any number of threads that assign the same fields at the same
\* time, takes a reference out of the sight of ebi_gc_mark.
THEOREM NoReferenceIsHidden == Spec => []NoHiddenReference
<1>1. IInv => NoHiddenReference
  BY DEF IInv
<1> QED BY <1>1, InitIInv, NextIInv, PTL DEF Spec

\* A reference that a store of ebi_assign_ref overwrites was marked in this
\* cycle, or somebody linked it.
THEOREM OverwrittenReferencesAreKept == Spec => OverwrittenIsKept
<1> DEFINE Kept == \A s \in Slots : slot[s] # Null /\ slot'[s] # slot[s] => IsMarked(slot[s]) \/ IsLinked(slot[s])
<1>1. IInv /\ [Next]_vars => [Kept]_vars
  <2> SUFFICES ASSUME IInv, Next PROVE Kept
    BY DEF vars
  <2>1. ASSUME NEW t \in Mutators, StoreRef(t) PROVE Kept
    <3>1. t \in Threads /\ pc[t] = "store" /\ slot' = [slot EXCEPT ![reg[t].dest] = reg[t].value]
      BY <2>1, Basics DEF StoreRef, At
    <3>2. KeepOK(t) /\ Overwrites(t) /\ ~Returns(t, "defer")
      BY <3>1 DEF IInv, ThreadInv, Overwrites, Returns, Marking
    <3>3. \A s \in Slots : slot'[s] # slot[s] => s = reg[t].dest
      BY <3>1 DEF IInv, TypeOK
    <3> QED BY <3>2, <3>3 DEF KeepOK
  <2>2. slot' = slot \/ \E t \in Mutators : StoreRef(t)
    BY Zenon DEF Next, Mark, Mutate, GcStep, TestMark, SetMark, FlushLink, FlushMarks, TakeList, WalkField,
       EndWalk, New, AssignRef, ReadPrev, DeferLink, Checkpoint, EndMarking, StepFindsNothing,
       AdvanceStage, HoldThread, EndBarrier
  <2> QED BY <2>1, <2>2
<1> QED BY <1>1, InitIInv, NextIInv, PTL DEF Spec, OverwrittenIsKept
=============================================================================
