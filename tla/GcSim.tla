------------------------------- MODULE GcSim -------------------------------
(***************************************************************************)
(* The collection algorithm of ebi as misc/gcsim.py runs it: an            *)
(* incremental, generational mark phase with a deletion and an insertion   *)
(* barrier, interleaved with mutator threads.  An object is in the set G   *)
(* when its g is not 0 and in N otherwise; a minor cycle starts a new n    *)
(* and leaves G alone, a major cycle starts a new g as well.  Every        *)
(* function of the simulator is one atomic step, as it is there: the       *)
(* simulator runs one function at a time and picks the next at random.     *)
(***************************************************************************)
EXTENDS ManagedHeap

CONSTANT NumCycles  \* cycles one call of simulate() runs (100 in the program)

ASSUME CycleAssumption == NumCycles \in Nat \ {0}

VARIABLES
  header,  \* per object: g, n and how many entries queue_n holds for it
  epoch,   \* the g and n that mean "marked in this cycle"
  phase,   \* "mark": stacks are being scanned; "drain": only queue_n is left
  scanned, \* threads whose stack this cycle has marked
  doomed   \* history: what this cycle has to free (see SweepsGarbage)

gcVars == <<header, epoch, phase, scanned, doomed>>
vars == <<live, props, stack, header, epoch, phase, scanned, doomed>>

Epoch == [g : Nat \ {0}, n : Nat \ {0}]
Header == [g : Nat, n : Nat, pending : Nat]
Unmarked == [g |-> 0, n |-> 0, pending |-> 0]

TypeOK ==
  /\ HeapTypeOK
  /\ header \in [Objects -> Header]
  /\ epoch \in Epoch
  /\ phase \in {"mark", "drain"}
  /\ scanned \in SUBSET Threads
  /\ doomed \in SUBSET Objects

Init ==
  /\ HeapInit
  /\ epoch = [g |-> 1, n |-> 1]
  /\ header = [o \in Objects |->
                 IF o = Root THEN [g |-> 1, n |-> 1, pending |-> 0] ELSE Unmarked]
  /\ phase = "mark"
  /\ scanned = {}
  /\ doomed = {}

-----------------------------------------------------------------------------
\* Mutant: the early return is missing.
MarkNGTwice(e, h) == [g |-> e.g, n |-> h.n, pending |-> h.pending + 1]

\* What marking does to the header of one object in epoch e.
MarkNG(e, h) ==
  IF h.g = e.g THEN h ELSE [g |-> e.g, n |-> h.n, pending |-> h.pending + 1]

MarkNN(e, h) ==
  IF h.g # 0 THEN MarkNG(e, h)
  ELSE IF h.n = e.n THEN h
  ELSE [g |-> h.g, n |-> e.n, pending |-> h.pending + 1]

\* Marking is idempotent, so marking a list marks each of its objects once.
MarkAllNG(e, hs, S) == [o \in Objects |-> IF o \in S THEN MarkNG(e, hs[o]) ELSE hs[o]]
MarkAllNN(e, hs, S) == [o \in Objects |-> IF o \in S THEN MarkNN(e, hs[o]) ELSE hs[o]]

\* A header that is marked in epoch e.
IsMarked(e, h) == h.g = e.g \/ (h.g = 0 /\ h.n = e.n)

\* Mutant: G is never collected.
AliveIfG(o) == header[o].g # 0 \/ header[o].n = epoch.n

Alive(o) == IsMarked(epoch, header[o])

QueueEmpty == \A o \in Objects : header[o].pending = 0

\* Mutant: no deletion barrier.
InsertionBarrier(self, k, obj) ==
  header' = IF (header[self].g = 0) # (header[obj].g = 0)
            THEN MarkAllNG(epoch, header, {obj})
            ELSE IF header[obj].g = 0 THEN MarkAllNN(epoch, header, {obj}) ELSE header

\* Mutant: the insertion barrier never promotes.
SetBarrierStaysN(self, k, obj) ==
  header' = MarkAllNN(epoch, header, {props[self][k], obj} \ {Null})

\* Object.set: the deletion barrier on the overwritten value, then the
\* insertion barrier on the new one.
SetBarrier(self, k, obj) ==
  LET prev == props[self][k]
      marked == MarkAllNN(epoch, header, {prev} \ {Null})
  IN header' = IF (marked[self].g = 0) # (marked[obj].g = 0)
               THEN MarkAllNG(epoch, marked, {obj})
               ELSE IF marked[obj].g = 0 THEN MarkAllNN(epoch, marked, {obj})
               ELSE marked

\* simulate() scans the first thread before anything else runs, and leaves
\* its last loop as soon as queue_n is empty.
MayRun ==
  \/ phase = "mark" /\ scanned # {}
  \/ phase = "drain" /\ ~QueueEmpty

-----------------------------------------------------------------------------
\* Objects allocated in the last loop are born in G (alloc_g).
SimNew(t) ==
  /\ MayRun
  /\ \E o \in Objects :
       /\ New(t, o)
       /\ header' = [header EXCEPT ![o] =
            [g |-> IF phase = "drain" THEN epoch.g ELSE 0, n |-> epoch.n, pending |-> 0]]
  /\ UNCHANGED <<epoch, phase, scanned, doomed>>

SimMove(t) ==
  /\ MayRun
  /\ Dup(t) \/ Pop(t) \/ Load(t) \/ LoadRoot(t)
  /\ UNCHANGED gcVars

SimStore(t) ==
  /\ MayRun
  /\ \E k \in Names :
       /\ Store(t, k)
       /\ SetBarrier(StoreTarget(t), k, StoreValue(t))
  /\ UNCHANGED <<epoch, phase, scanned, doomed>>

SimStoreRoot(t) ==
  /\ MayRun
  /\ \E k \in Names :
       /\ StoreRoot(t, k)
       /\ SetBarrier(Root, k, StoreValue(t))
  /\ UNCHANGED <<epoch, phase, scanned, doomed>>

\* Mutant: the entry is walked and stays in queue_n.
SimGcNKeeps(o) ==
  /\ MayRun
  /\ header[o].pending > 0
  /\ header' = IF header[o].g # 0
               THEN MarkAllNG(epoch, header, Children(o))
               ELSE MarkAllNN(epoch, header, Children(o))
  /\ UNCHANGED <<live, props, stack, epoch, phase, scanned, doomed>>

\* Mutant: pops without asking whether there is an entry.
SimGcNUnguarded(o) ==
  /\ MayRun
  /\ header' = [header EXCEPT ![o].pending = @ - 1]
  /\ UNCHANGED <<live, props, stack, epoch, phase, scanned, doomed>>

\* walk_n on an object popped from queue_n, which is kept as a bag: the
\* simulator pops the newest entry, this step any of them.
SimGcN(o) ==
  /\ MayRun
  /\ header[o].pending > 0
  /\ LET popped == [header EXCEPT ![o].pending = @ - 1]
     IN header' = IF header[o].g # 0
                  THEN MarkAllNG(epoch, popped, Children(o))
                  ELSE MarkAllNN(epoch, popped, Children(o))
  /\ UNCHANGED <<live, props, stack, epoch, phase, scanned, doomed>>

MarkStack(t) ==
  /\ phase = "mark"
  /\ t \notin scanned
  /\ header' = MarkAllNN(epoch, header, OnStack(t))
  /\ scanned' = scanned \cup {t}
  /\ UNCHANGED <<live, props, stack, epoch, phase, doomed>>

\* Mutant: the last loop starts before every stack is scanned.
StartDrainEarly ==
  /\ phase = "mark"
  /\ scanned # {}
  /\ phase' = "drain"
  /\ UNCHANGED <<live, props, stack, header, epoch, scanned, doomed>>

StartDrain ==
  /\ phase = "mark"
  /\ scanned = Threads
  /\ phase' = "drain"
  /\ UNCHANGED <<live, props, stack, header, epoch, scanned, doomed>>

\* Mutant: a major cycle starts without marking the roots.
EndCycleUnrooted(major) ==
  /\ phase = "drain"
  /\ QueueEmpty
  /\ epoch.n < NumCycles
  /\ live' = {o \in live : Alive(o)}
  /\ epoch' = [g |-> IF major THEN epoch.g + 1 ELSE epoch.g, n |-> epoch.n + 1]
  /\ phase' = "mark"
  /\ scanned' = {}
  /\ doomed' = {o \in live' \ Reachable : major \/ header[o].g = 0}
  /\ UNCHANGED <<props, stack, header>>

\* The end of a cycle: sweep, and start the next one.  The program makes
\* every tenth cycle a major one; here any cycle may be.
EndCycle(major) ==
  /\ phase = "drain"
  /\ QueueEmpty
  /\ epoch.n < NumCycles
  /\ live' = {o \in live : Alive(o)}
  /\ epoch' = [g |-> IF major THEN epoch.g + 1 ELSE epoch.g, n |-> epoch.n + 1]
  /\ header' = IF major THEN MarkAllNG(epoch', header, RootSet) ELSE header
  /\ phase' = "mark"
  /\ scanned' = {}
  /\ doomed' = {o \in live' \ Reachable : major \/ header[o].g = 0}
  /\ UNCHANGED <<props, stack>>

Next ==
  \/ \E t \in Threads : SimNew(t) \/ SimMove(t) \/ SimStore(t) \/ SimStoreRoot(t)
  \/ \E o \in Objects : SimGcN(o)
  \/ \E t \in Threads : MarkStack(t)
  \/ StartDrain
  \/ \E major \in BOOLEAN : EndCycle(major)

Spec == Init /\ [][Next]_vars

\* The last loop draws its next function at random and most of what it draws
\* from is sim_gc_n, so an object in queue_n is walked sooner or later.
Fairness == WF_vars(\E o \in Objects : SimGcN(o))

FairSpec == Spec /\ Fairness

-----------------------------------------------------------------------------
CycleDone == phase = "drain" /\ QueueEmpty

(***************************************************************************)
(* `check`, first half: when queue_n has run empty, everything the root    *)
(* and the stacks reach is marked, so the sweep frees nothing that is in   *)
(* use.  It rests on both barriers, on the scan of every stack, and on     *)
(* what was allocated while the mark phase ran.                            *)
(***************************************************************************)
SweepKeepsReachable == CycleDone => \A o \in Reachable : o \in live /\ Alive(o)

(***************************************************************************)
(* `check`, second half: no object in G refers to one in N at the end of   *)
(* the mark phase.  A minor cycle does not walk G, so such a reference     *)
(* would be overlooked by the next one.                                    *)
(***************************************************************************)
NoGToNLinks ==
  CycleDone => \A o \in Reachable : header[o].g # 0 =>
                 \A c \in Children(o) : header[c].g # 0

(***************************************************************************)
(* What was garbage when the cycle started is gone at its end: floating    *)
(* garbage survives one cycle at most.  A minor cycle only owes this to    *)
(* objects in N.  (Marking too much is as easy a slip as marking too       *)
(* little, and no run of `check` would notice.)                            *)
(***************************************************************************)
SweepsGarbage == CycleDone => \A o \in doomed : ~Alive(o)

(***************************************************************************)
(* An object is walked at most twice a cycle, once as N and once after it  *)
(* was promoted, so queue_n never holds it more than twice.                *)
(***************************************************************************)
QueuedAtMostTwice == \A o \in Objects : header[o].pending <= 2

(***************************************************************************)
(* The tricolour argument.  An object is white when it is not marked,      *)
(* grey when it is in queue_n and black when it is marked and not queued.  *)
(* Protected white objects can still be reached from a grey one along      *)
(* white ones, so the walk of queue_n will find them.                      *)
(***************************************************************************)
White(o) == o \in live /\ ~Alive(o)
Grey(o) == o \in live /\ header[o].pending > 0
Black(o) == o \in live /\ Alive(o) /\ header[o].pending = 0

\* S has every white child of a grey object, and of its own white members.
CoversGrey(S) ==
  \A o \in live : (Grey(o) \/ (White(o) /\ o \in S)) =>
    \A c \in Children(o) : White(c) => c \in S

Protected(o) == \A S \in SUBSET Objects : CoversGrey(S) => o \in S

\* The stack of t has been marked in this cycle: by mark_stack, or with all
\* the roots at the start of a major cycle, the only one in which objects of
\* G carry an older g.
Snapshotted(t) == t \in scanned \/ \E o \in live : header[o].g \notin {0, epoch.g}

(***************************************************************************)
(* Whatever a mutator may have hidden from the walk - behind an object     *)
(* that was walked, or on a stack that was marked - is protected: the      *)
(* deletion barrier marks the last link to it before it is cut, and the    *)
(* insertion barrier marks what is stored behind the walk.  Object.set     *)
(* marks nothing when it stores an object of G in another one of G; that   *)
(* is right because an object of G is white only in a major cycle, where   *)
(* every stack was marked at the start.                                    *)
(***************************************************************************)
WhitesProtected ==
  /\ \A o \in live : Black(o) => \A c \in Children(o) : White(c) => Protected(c)
  /\ \A t \in Threads : Snapshotted(t) =>
       \A o \in OnStack(t) : White(o) => Protected(o)

(***************************************************************************)
(* The last loop ends however the mutators interleave with it: they cannot *)
(* keep feeding queue_n.                                                   *)
(***************************************************************************)
DrainEnds == (phase = "drain") ~> CycleDone

-----------------------------------------------------------------------------
(***************************************************************************)
(* The inductive invariant behind the four safety properties.              *)
(***************************************************************************)
\* Nothing that is allocated refers to what is not.
HeapClosed ==
  /\ Root \in live
  /\ \A o \in live : Children(o) \subseteq live
  /\ \A t \in Threads : OnStack(t) \subseteq live

\* No mark is from a later cycle, an object is in queue_n as often as it was
\* marked in this one, and the root is never white.
MaxPending(e, h) ==
  IF h.g = 0 THEN (IF h.n = e.n THEN 1 ELSE 0)
  ELSE IF h.g = e.g THEN 2 ELSE 0

SoundHeader(e, h) == h.g <= e.g /\ h.n <= e.n /\ h.pending <= MaxPending(e, h)

HeadersSound ==
  /\ \A o \in live : SoundHeader(epoch, header[o])
  /\ \A o \in Objects \ live : header[o].pending = 0
  /\ header[Root].g = epoch.g

\* A reference from G to N exists only while its source waits in queue_n.
GToNIsQueued ==
  \A o \in live : header[o].g # 0 /\ header[o].pending = 0 =>
    \A c \in Children(o) : header[c].g # 0

\* What the cycle has to free is white, and only such objects refer to it.
DoomedIsolated ==
  \A d \in doomed :
    /\ d # Root
    /\ White(d)
    /\ \A t \in Threads : d \notin OnStack(t)
    /\ \A o \in live : d \in Children(o) => o \in doomed

IInv ==
  /\ TypeOK
  /\ HeapClosed
  /\ HeadersSound
  /\ GToNIsQueued
  /\ WhitesProtected
  /\ DoomedIsolated
  /\ phase = "drain" => scanned = Threads
=============================================================================
