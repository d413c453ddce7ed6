---------------------------- MODULE GcSimProofs ----------------------------
(***************************************************************************)
(* Proofs about GcSim, for every number of objects, threads, names and     *)
(* cycles: types, the four safety properties of the collector, and that it *)
(* implements ManagedHeap.                                                 *)
(***************************************************************************)
EXTENDS GcSim, TLAPS

-----------------------------------------------------------------------------
(***************************************************************************)
(* Stacks.                                                                 *)
(***************************************************************************)
\* The entries of a sequence, OnStack(t) being Entries(stack[t]).
Entries(s) == {s[i] : i \in DOMAIN s}

\* A pop leaves the entries below the top where they were.
LEMMA PopOfEntries ==
  ASSUME NEW S, NEW s \in Seq(S), s # <<>>
  PROVE  /\ Top(s) \in S
         /\ Top(s) \in Entries(s)
         /\ PopOf(s) \in Seq(S)
         /\ Entries(PopOf(s)) \subseteq Entries(s)
<1>1. Len(s) \in Nat /\ Len(s) > 0 /\ DOMAIN s = 1..Len(s)
  OBVIOUS
<1>2. PopOf(s) \in Seq(S) /\ Len(PopOf(s)) = Len(s) - 1
  BY <1>1 DEF PopOf
<1>3. \A i \in 1..(Len(s) - 1) : PopOf(s)[i] = s[i]
  BY <1>1 DEF PopOf
<1>4. Entries(PopOf(s)) \subseteq Entries(s)
  BY <1>1, <1>2, <1>3 DEF Entries
<1>5. Top(s) \in S /\ Top(s) \in Entries(s)
  BY <1>1 DEF Top, Entries
<1> QED
  BY <1>2, <1>4, <1>5

\* A push adds one entry and may drop the oldest.
LEMMA PushOnEntries ==
  ASSUME NEW S, NEW s \in Seq(S), NEW o \in S
  PROVE  /\ PushOn(s, o) \in Seq(S)
         /\ Entries(PushOn(s, o)) \subseteq Entries(s) \cup {o}
<1> DEFINE p == Append(s, o)
<1>1. p \in Seq(S) /\ Len(p) = Len(s) + 1 /\ Len(s) \in Nat /\ StackLimit \in Nat
  BY HeapAssumption
<1>2. \A i \in 1..Len(p) : p[i] \in Entries(s) \cup {o}
  BY <1>1 DEF Entries
<1>3. CASE Len(p) > StackLimit
  <2> DEFINE q == SubSeq(p, Len(p) - StackLimit + 1, Len(p))
  <2>1. q \in Seq(S) /\ Len(q) = StackLimit
    BY <1>1, <1>3
  <2>2. \A i \in 1..Len(q) : q[i] = p[Len(p) - StackLimit + i]
    BY <1>1, <1>3
  <2>3. \A i \in 1..Len(q) : Len(p) - StackLimit + i \in 1..Len(p)
    BY <1>1, <1>3, <2>1
  <2>4. \A i \in 1..Len(q) : q[i] \in Entries(s) \cup {o}
    BY <1>2, <2>2, <2>3
  <2>5. PushOn(s, o) = q
    BY <1>3 DEF PushOn
  <2> HIDE DEF q
  <2> QED
    BY <2>1, <2>4, <2>5 DEF Entries
<1>4. CASE ~(Len(p) > StackLimit)
  <2>1. PushOn(s, o) = p
    BY <1>4 DEF PushOn
  <2> HIDE DEF p
  <2> QED
    BY <1>1, <1>2, <2>1 DEF Entries
<1> QED
  BY <1>3, <1>4

-----------------------------------------------------------------------------
(***************************************************************************)
(* Headers.  h2 is what header h may become by being marked in epoch e.    *)
(***************************************************************************)
Advances(e, h, h2) ==
  /\ h2 \in Header
  /\ h2 = h \/ (IsMarked(e, h2) /\ h2.pending > h.pending)
  /\ IsMarked(e, h) => IsMarked(e, h2)
  /\ h.g # 0 => h2.g # 0
  /\ SoundHeader(e, h) => SoundHeader(e, h2)

\* Marking advances a header, and marks it.
LEMMA MarkNGHeader ==
  ASSUME NEW e \in Epoch, NEW h \in Header
  PROVE  /\ Advances(e, h, MarkNG(e, h))
         /\ IsMarked(e, MarkNG(e, h))
         /\ MarkNG(e, h).g = e.g
BY DEF Epoch, Header, MarkNG, Advances, IsMarked, SoundHeader, MaxPending

LEMMA MarkNNHeader ==
  ASSUME NEW e \in Epoch, NEW h \in Header
  PROVE  /\ Advances(e, h, MarkNN(e, h))
         /\ IsMarked(e, MarkNN(e, h))
         /\ h.g = 0 => MarkNN(e, h).g = 0
<1>1. CASE h.g # 0
  BY <1>1, MarkNGHeader DEF MarkNN
<1>2. CASE h.g = 0
  BY <1>2 DEF Epoch, Header, MarkNN, Advances, IsMarked, SoundHeader, MaxPending
<1> QED
  BY <1>1, <1>2

\* Marking again advances further.
LEMMA AdvancesTransitive ==
  ASSUME NEW e \in Epoch, NEW h1 \in Header, NEW h2, NEW h3,
         Advances(e, h1, h2), Advances(e, h2, h3)
  PROVE  Advances(e, h1, h3)
BY DEF Epoch, Header, Advances

\* The same for a whole table of headers.
AllAdvance(e, hs, hs2) ==
  hs2 \in [Objects -> Header] /\ \A o \in Objects : Advances(e, hs[o], hs2[o])

LEMMA MarkAllNGHeaders ==
  ASSUME NEW e \in Epoch, NEW hs \in [Objects -> Header], NEW S
  PROVE  /\ AllAdvance(e, hs, MarkAllNG(e, hs, S))
         /\ \A o \in Objects :
              IF o \in S THEN /\ IsMarked(e, MarkAllNG(e, hs, S)[o])
                              /\ MarkAllNG(e, hs, S)[o].g # 0
              ELSE MarkAllNG(e, hs, S)[o] = hs[o]
<1>1. \A o \in Objects : Advances(e, hs[o], hs[o])
  BY DEF Advances
<1>2. \A o \in Objects : /\ Advances(e, hs[o], MarkNG(e, hs[o]))
                         /\ IsMarked(e, MarkNG(e, hs[o]))
                         /\ MarkNG(e, hs[o]).g # 0
  BY MarkNGHeader DEF Epoch
<1>3. \A o \in Objects :
        MarkAllNG(e, hs, S)[o] = IF o \in S THEN MarkNG(e, hs[o]) ELSE hs[o]
  BY DEF MarkAllNG
<1>4. \A o \in Objects : Advances(e, hs[o], MarkAllNG(e, hs, S)[o])
  BY <1>1, <1>2, <1>3
<1>5. MarkAllNG(e, hs, S) \in [Objects -> Header]
  BY <1>2 DEF MarkAllNG, Advances
<1> QED
  BY <1>2, <1>3, <1>4, <1>5 DEF AllAdvance

LEMMA MarkAllNNHeaders ==
  ASSUME NEW e \in Epoch, NEW hs \in [Objects -> Header], NEW S
  PROVE  /\ AllAdvance(e, hs, MarkAllNN(e, hs, S))
         /\ \A o \in Objects :
              IF o \in S THEN IsMarked(e, MarkAllNN(e, hs, S)[o])
              ELSE MarkAllNN(e, hs, S)[o] = hs[o]
         /\ \A o \in Objects : hs[o].g = 0 => MarkAllNN(e, hs, S)[o].g = 0
<1>1. \A o \in Objects : Advances(e, hs[o], hs[o])
  BY DEF Advances
<1>2. \A o \in Objects : /\ Advances(e, hs[o], MarkNN(e, hs[o]))
                         /\ IsMarked(e, MarkNN(e, hs[o]))
                         /\ hs[o].g = 0 => MarkNN(e, hs[o]).g = 0
  BY MarkNNHeader
<1>3. \A o \in Objects :
        MarkAllNN(e, hs, S)[o] = IF o \in S THEN MarkNN(e, hs[o]) ELSE hs[o]
  BY DEF MarkAllNN
<1>4. \A o \in Objects : Advances(e, hs[o], MarkAllNN(e, hs, S)[o])
  BY <1>1, <1>2, <1>3
<1>5. MarkAllNN(e, hs, S) \in [Objects -> Header]
  BY <1>2 DEF MarkAllNN, Advances
<1> QED
  BY <1>2, <1>3, <1>4, <1>5 DEF AllAdvance

-----------------------------------------------------------------------------
(***************************************************************************)
(* What every step inside a cycle does, in five parts: all the tricolour   *)
(* argument needs to know of it.                                           *)
(***************************************************************************)
\* No mark is lost.
MarksGrow ==
  \A o \in live : /\ Alive(o) => Alive(o)'
                  /\ header[o].g # 0 => header'[o].g # 0

\* c gets a mark, and one in G if o is in G.
MarkedFrom(o, c) == Alive(c)' /\ (header'[o].g # 0 => header'[c].g # 0)

\* What is not in queue_n after the step was not there before, or was walked.
WalkedOrIdle ==
  \A o \in live : header'[o].pending = 0 =>
    \/ header'[o] = header[o]
    \/ Alive(o)' /\ \A c \in Children(o)' : MarkedFrom(o, c)

\* The target of a reference that is overwritten is marked, and that of one
\* that is stored is marked or else a protected object of G.
EdgesGuarded ==
  \A o \in live :
    /\ \A c \in Children(o)' :
         \/ c \in Children(o)
         \/ MarkedFrom(o, c)
         \/ c \in live /\ header[c].g # 0 /\ (White(c) => Protected(c))
    /\ \A c \in Children(o) : c \in Children(o)' \/ Alive(c)'

\* Objects are born marked and without references.
BornMarked ==
  /\ live \subseteq live'
  /\ \A o \in live' \ live : Alive(o)' /\ Children(o)' = {}

\* A marked stack gets what it had, a property of that or of the root, or
\* something marked.
StacksGuarded ==
  \A t \in Threads : Snapshotted(t)' => \A o \in OnStack(t)' :
    \/ Alive(o)'
    \/ /\ Snapshotted(t)
       /\ o \in OnStack(t) \/ \E p \in OnStack(t) \cup {Root} : o \in Children(p)

CycleStep ==
  epoch' = epoch /\ MarksGrow /\ WalkedOrIdle /\ EdgesGuarded /\ BornMarked /\ StacksGuarded

\* A protected white object that the step does not mark stays protected: a
\* set that covers the grey objects afterwards did so before, once the
\* objects marked by the step are added to it.
LEMMA ProtectionKept ==
  ASSUME TypeOK, TypeOK', HeapClosed, CycleStep,
         NEW o \in live, Protected(o), ~Alive(o)'
  PROVE  Protected(o)'
<1> SUFFICES ASSUME NEW S \in SUBSET Objects, CoversGrey(S)'
             PROVE  o \in S
  BY DEF Protected
<1> DEFINE S2 == S \cup {w \in live : White(w) /\ Alive(w)'}
<1>1. S2 \in SUBSET Objects
  BY DEF TypeOK, HeapTypeOK
<1>2. CoversGrey(S2)
  <2> SUFFICES ASSUME NEW p \in live, Grey(p) \/ (White(p) /\ p \in S2),
                      NEW c \in Children(p), White(c), ~Alive(c)'
               PROVE  c \in S
    BY DEF CoversGrey, White
  <2>1. p \in live' /\ c \in live' /\ c \in Children(p)'
    BY DEF CycleStep, BornMarked, EdgesGuarded, White
  <2>0. header'[p].pending \in Nat
    <3>1. p \in Objects
      BY <2>1 DEF TypeOK, HeapTypeOK
    <3> QED BY <3>1 DEF TypeOK, Header
  <2>2. White(c)'
    BY <2>1 DEF White
  <2>3. CASE Grey(p)'
    BY <2>1, <2>2, <2>3 DEF CoversGrey
  <2>4. CASE ~Alive(p)'
    <3>1. White(p)' /\ ~Alive(p)
      BY <2>1, <2>4 DEF White, CycleStep, MarksGrow
    <3>2. p \in S \/ Grey(p)
      BY <2>4 DEF White
    <3>3. CASE p \in S
      BY <2>1, <2>2, <3>1, <3>3 DEF CoversGrey
    <3>4. CASE Grey(p) /\ header'[p].pending = 0
      BY <3>4, <2>4 DEF Grey, CycleStep, WalkedOrIdle
    <3>5. CASE header'[p].pending # 0
      BY <2>0, <2>1, <2>3, <3>5 DEF Grey
    <3> QED
      BY <3>2, <3>3, <3>4, <3>5
  <2>5. CASE header'[p].pending = 0 /\ Alive(p)'
    <3>1. header'[p] = header[p]
      BY <2>1, <2>5 DEF CycleStep, WalkedOrIdle, MarkedFrom
    <3>2. ~Grey(p) /\ Alive(p)
      BY <3>1, <2>5 DEF Grey, Alive, CycleStep
    <3> QED
      BY <3>2 DEF White
  <2> QED
    BY <2>0, <2>1, <2>3, <2>4, <2>5 DEF Grey
<1>3. o \in S2
  BY <1>1, <1>2 DEF Protected
<1> QED
  BY <1>3

\* The tricolour invariant survives every step inside a cycle.
LEMMA WhitesStayProtected ==
  ASSUME TypeOK, TypeOK', HeapClosed, HeadersSound, WhitesProtected, CycleStep
  PROVE  WhitesProtected'
<1>1. \A c \in live : Alive(c) => Alive(c)'
  BY DEF CycleStep, MarksGrow
<1>2. ASSUME NEW o \in live', Black(o)', NEW c \in Children(o)', White(c)'
      PROVE  Protected(c)'
  <2>1. o \in live /\ c \in live'
    BY <1>2 DEF CycleStep, BornMarked, White
  <2>2. ~Alive(c)' /\ c \in live
    BY <1>2, <2>1 DEF White, CycleStep, BornMarked
  <2>3. c \in Children(o) \/ (White(c) => Protected(c))
    BY <1>2, <2>1, <2>2 DEF CycleStep, EdgesGuarded, MarkedFrom
  <2>4. header'[o] = header[o]
    BY <1>2, <2>1, <2>2 DEF Black, CycleStep, WalkedOrIdle, MarkedFrom
  <2>5. Black(o)
    BY <1>2, <2>1, <2>4 DEF Black, Alive, CycleStep
  <2>6. White(c)
    BY <1>1, <2>2 DEF White
  <2>7. Protected(c)
    BY <2>1, <2>3, <2>5, <2>6 DEF WhitesProtected
  <2> QED
    BY <2>2, <2>7, ProtectionKept
<1>3. ASSUME NEW t \in Threads, Snapshotted(t)', NEW o \in OnStack(t)', White(o)'
      PROVE  Protected(o)'
  <2>1. ~Alive(o)' /\ o \in live
    BY <1>3 DEF White, CycleStep, BornMarked
  <2>2. White(o)
    BY <1>1, <2>1 DEF White
  <2>3. Snapshotted(t)
    BY <1>3, <2>1 DEF CycleStep, StacksGuarded
  <2>4. CASE o \in OnStack(t)
    BY <2>1, <2>2, <2>3, <2>4, ProtectionKept DEF WhitesProtected
  <2>5. ASSUME NEW p \in OnStack(t) \cup {Root}, o \in Children(p)
        PROVE  Protected(o)
    <3>1. p \in live
      BY DEF HeapClosed
    <3>2. CASE Black(p)
      BY <2>2, <2>5, <3>1, <3>2 DEF WhitesProtected
    <3>3. CASE Grey(p)
      BY <2>2, <2>5, <3>1, <3>3 DEF Protected, CoversGrey
    <3>4. CASE White(p)
      <4>1. p # Root
        BY <3>4 DEF HeadersSound, White, Alive, IsMarked
      <4>2. Protected(p)
        BY <2>3, <3>4, <4>1 DEF WhitesProtected
      <4> QED
        BY <2>2, <2>5, <3>1, <3>4, <4>2 DEF Protected, CoversGrey
    <3> QED
      BY <3>1, <3>2, <3>3, <3>4 DEF Black, White, Grey, TypeOK, HeapTypeOK, Header
  <2> QED
    BY <1>3, <2>1, <2>4, <2>5, ProtectionKept DEF CycleStep, StacksGuarded
<1> QED
  BY <1>2, <1>3 DEF WhitesProtected

\* The same for references from G to N.
LEMMA GToNStaysQueued ==
  ASSUME TypeOK, TypeOK', HeapClosed, GToNIsQueued, CycleStep
  PROVE  GToNIsQueued'
<1> SUFFICES ASSUME NEW o \in live', header'[o].g # 0, header'[o].pending = 0,
                    NEW c \in Children(o)'
             PROVE  header'[c].g # 0
  BY DEF GToNIsQueued
<1>1. o \in live
  BY DEF CycleStep, BornMarked
<1>2. CASE \A d \in Children(o)' : MarkedFrom(o, d)
  BY <1>2 DEF MarkedFrom
<1>3. CASE header'[o] = header[o] /\ (c \in Children(o) \/ (c \in live /\ header[c].g # 0))
  <2>1. header[c].g # 0 /\ c \in live
    BY <1>1, <1>3 DEF GToNIsQueued, HeapClosed
  <2> QED
    BY <2>1 DEF CycleStep, MarksGrow
<1> QED
  BY <1>1, <1>2, <1>3 DEF CycleStep, WalkedOrIdle, EdgesGuarded, MarkedFrom

-----------------------------------------------------------------------------
(***************************************************************************)
(* What a step inside a cycle touches: the roots, their properties, and    *)
(* the properties of grey objects.                                         *)
(***************************************************************************)
Touchable ==
  RootSet \cup UNION {Children(o) : o \in {p \in live : p \in RootSet \/ Grey(p)}}

TouchesOnly ==
  /\ \A o \in live : Alive(o)' => Alive(o) \/ o \in Touchable
  /\ \A t \in Threads : OnStack(t)' \subseteq Touchable \cup (live' \ live)
  /\ \A o \in live : Children(o)' \subseteq Children(o) \cup RootSet

LEMMA TouchableIsLive ==
  ASSUME TypeOK, HeapClosed
  PROVE  RootSet \subseteq live /\ Touchable \subseteq live
BY DEF HeapClosed, Touchable, RootSet

\* The objects a cycle has to free are out of reach of every step.
LEMMA DoomedIsUntouched ==
  ASSUME TypeOK, HeapClosed, HeadersSound, DoomedIsolated
  PROVE  doomed \cap Touchable = {}
<1> SUFFICES ASSUME NEW d \in doomed, d \in Touchable
             PROVE  FALSE
  OBVIOUS
<1>1. d \notin RootSet
  BY DEF DoomedIsolated, RootSet
<1>2. PICK p \in live : (p \in RootSet \/ Grey(p)) /\ d \in Children(p)
  BY <1>1 DEF Touchable
<1>3. p \in doomed
  BY <1>2 DEF DoomedIsolated
<1>4. p \notin RootSet /\ ~Alive(p)
  BY <1>3 DEF DoomedIsolated, RootSet, White
<1>5. header[p].pending > 0 /\ header[p].pending <= MaxPending(epoch, header[p])
  BY <1>2, <1>4 DEF Grey, HeadersSound, SoundHeader
<1>6. header[p].pending \in Nat
  BY <1>2 DEF TypeOK, HeapTypeOK, Header
<1> QED
  BY <1>4, <1>5, <1>6 DEF MaxPending, Alive, IsMarked

LEMMA HeapStaysClosed ==
  ASSUME TypeOK, HeapClosed, CycleStep, TouchesOnly
  PROVE  HeapClosed'
<1>1. RootSet \subseteq live /\ Touchable \subseteq live /\ live \subseteq live'
  BY TouchableIsLive DEF CycleStep, BornMarked
<1>2. ASSUME NEW o \in live' PROVE Children(o)' \subseteq live'
  BY <1>1 DEF CycleStep, BornMarked, TouchesOnly, HeapClosed
<1>3. ASSUME NEW t \in Threads PROVE OnStack(t)' \subseteq live'
  BY <1>1 DEF TouchesOnly
<1> QED
  BY <1>1, <1>2, <1>3 DEF HeapClosed

LEMMA DoomedStaysIsolated ==
  ASSUME TypeOK, HeapClosed, HeadersSound, DoomedIsolated,
         CycleStep, TouchesOnly, doomed' = doomed
  PROVE  DoomedIsolated'
<1> SUFFICES ASSUME NEW d \in doomed
             PROVE  /\ d # Root
                    /\ White(d)'
                    /\ \A t \in Threads : d \notin OnStack(t)'
                    /\ \A o \in live' : d \in Children(o)' => o \in doomed
  BY DEF DoomedIsolated
<1>1. d \notin Touchable /\ d \notin RootSet /\ d \in live /\ ~Alive(d) /\ d # Root
  BY DoomedIsUntouched DEF Touchable, DoomedIsolated, White
<1>2. White(d)'
  BY <1>1 DEF White, TouchesOnly, CycleStep, BornMarked
<1>3. \A t \in Threads : d \notin OnStack(t)'
  BY <1>1 DEF TouchesOnly
<1>4. ASSUME NEW o \in live', d \in Children(o)' PROVE o \in doomed
  <2>1. o \in live
    BY <1>4 DEF CycleStep, BornMarked
  <2>2. d \in Children(o)
    BY <1>1, <1>4, <2>1 DEF TouchesOnly
  <2> QED
    BY <2>1, <2>2 DEF DoomedIsolated
<1> QED
  BY <1>1, <1>2, <1>3, <1>4

\* All of it together: what is left to show of an action.
StepsInCycle ==
  /\ CycleStep
  /\ TouchesOnly
  /\ doomed' = doomed
  /\ phase' = phase
  /\ scanned \subseteq scanned'

LEMMA CycleStepKeepsIInv ==
  ASSUME IInv, TypeOK', HeadersSound', StepsInCycle
  PROVE  IInv'
<1>1. HeapClosed' /\ GToNIsQueued' /\ WhitesProtected' /\ DoomedIsolated'
  BY HeapStaysClosed, GToNStaysQueued, WhitesStayProtected, DoomedStaysIsolated
     DEF IInv, StepsInCycle
<1>2. phase' = "drain" => scanned' = Threads
  BY DEF IInv, StepsInCycle, TypeOK
<1> QED
  BY <1>1, <1>2 DEF IInv

-----------------------------------------------------------------------------
(***************************************************************************)
(* Steps that change headers only by marking live objects.  The same facts *)
(* serve the mutators' barrier, the walk and the scan.                     *)
(***************************************************************************)
LEMMA MarkingGrows ==
  ASSUME TypeOK, epoch' = epoch, AllAdvance(epoch, header, header')
  PROVE  /\ MarksGrow
         /\ \A o \in live : header'[o].pending = 0 => header'[o] = header[o]
         /\ \A o \in live : header'[o].g \notin {0, epoch.g} => header'[o] = header[o]
<1>1. \A o \in live : o \in Objects
  BY DEF TypeOK, HeapTypeOK
<1>2. \A o \in Objects : header[o].pending \in Nat /\ Advances(epoch, header[o], header'[o])
  BY DEF TypeOK, Header, AllAdvance
<1>3. \A o \in live : header'[o] = header[o]
                      \/ (header'[o].pending # 0 /\ header'[o].g \in {0, epoch.g})
  BY <1>1, <1>2 DEF Advances, IsMarked
<1>4. MarksGrow
  BY <1>1, <1>2 DEF MarksGrow, Advances, Alive
<1> QED
  BY <1>3, <1>4

LEMMA MarkingKeepsHeadersSound ==
  ASSUME TypeOK, HeapClosed, HeadersSound, epoch' = epoch, live' = live,
         AllAdvance(epoch, header, header'),
         \A o \in Objects \ live : header'[o] = header[o]
  PROVE  HeadersSound'
<1>1. \A o \in live : SoundHeader(epoch, header'[o])
  BY DEF HeadersSound, AllAdvance, Advances, TypeOK, HeapTypeOK
<1>2. IsMarked(epoch, header'[Root]) /\ header'[Root].g # 0
  BY DEF HeadersSound, AllAdvance, Advances, TypeOK, HeapTypeOK, HeapClosed, IsMarked, Epoch
<1> QED
  BY <1>1, <1>2 DEF HeadersSound, IsMarked

\* A stack that counts as marked after marking did so before, or was scanned.
LEMMA MarkingKeepsSnapshots ==
  ASSUME TypeOK, epoch' = epoch, live' = live, AllAdvance(epoch, header, header'),
         NEW t \in Threads, Snapshotted(t)', t \in scanned' => t \in scanned
  PROVE  Snapshotted(t)
BY MarkingGrows DEF Snapshotted

-----------------------------------------------------------------------------
(***************************************************************************)
(* Object.set.                                                             *)
(***************************************************************************)
LEMMA SetBarrierHeaders ==
  ASSUME TypeOK, NEW self \in Objects, NEW k \in Names, NEW obj \in Objects,
         SetBarrier(self, k, obj)
  PROVE  /\ AllAdvance(epoch, header, header')
         /\ \A o \in Objects \ {props[self][k], obj} : header'[o] = header[o]
         /\ props[self][k] # Null => IsMarked(epoch, header'[props[self][k]])
         /\ IsMarked(epoch, header'[obj]) \/ (header[obj].g # 0 /\ header[self].g # 0)
         /\ header'[self].g # 0 => header'[obj].g # 0
<1> DEFINE prev == props[self][k]
           marked == MarkAllNN(epoch, header, {prev} \ {Null})
           inG == MarkAllNG(epoch, marked, {obj})
           inN == MarkAllNN(epoch, marked, {obj})
<1>1. epoch \in Epoch /\ header \in [Objects -> Header] /\ prev \in Objects \cup {Null}
  BY DEF TypeOK, HeapTypeOK
<1>2. /\ AllAdvance(epoch, header, marked)
      /\ \A o \in Objects : IF o \in {prev} \ {Null} THEN IsMarked(epoch, marked[o])
                            ELSE marked[o] = header[o]
      /\ \A o \in Objects : header[o].g = 0 => marked[o].g = 0
  BY <1>1, MarkAllNNHeaders
<1>3. \A o \in Objects : header[o].g = 0 <=> marked[o].g = 0
  BY <1>2 DEF AllAdvance, Advances
<1>4. header' = IF (marked[self].g = 0) # (marked[obj].g = 0) THEN inG
                ELSE IF marked[obj].g = 0 THEN inN ELSE marked
  BY DEF SetBarrier
<1> HIDE DEF marked
<1>5. marked \in [Objects -> Header]
  BY <1>2 DEF AllAdvance
<1>6. /\ AllAdvance(epoch, marked, inG)
      /\ \A o \in Objects : IF o \in {obj} THEN IsMarked(epoch, inG[o]) /\ inG[o].g # 0
                            ELSE inG[o] = marked[o]
  BY <1>1, <1>5, MarkAllNGHeaders
<1>7. /\ AllAdvance(epoch, marked, inN)
      /\ \A o \in Objects : IF o \in {obj} THEN IsMarked(epoch, inN[o])
                            ELSE inN[o] = marked[o]
      /\ \A o \in Objects : marked[o].g = 0 => inN[o].g = 0
  BY <1>1, <1>5, MarkAllNNHeaders
<1> HIDE DEF inG, inN
<1>8. AllAdvance(epoch, header, header')
  <2>1. AllAdvance(epoch, marked, header') \/ header' = marked
    BY <1>4, <1>6, <1>7
  <2>2. ASSUME AllAdvance(epoch, marked, header') PROVE AllAdvance(epoch, header, header')
    <3>1. ASSUME NEW o \in Objects PROVE Advances(epoch, header[o], header'[o])
      <4>1. Advances(epoch, header[o], marked[o]) /\ Advances(epoch, marked[o], header'[o])
        BY <1>2, <2>2 DEF AllAdvance
      <4>2. header[o] \in Header
        BY <1>1
      <4> QED
        BY <1>1, <4>1, <4>2, AdvancesTransitive
    <3> QED
      BY <2>2, <3>1 DEF AllAdvance
  <2> QED
    BY <1>2, <2>1, <2>2
<1>9. \A o \in Objects \ {prev, obj} : header'[o] = header[o]
  BY <1>2, <1>4, <1>6, <1>7
<1>10. \A o \in Objects : IsMarked(epoch, marked[o]) => IsMarked(epoch, header'[o])
  BY <1>4, <1>6, <1>7 DEF AllAdvance, Advances
<1>11. prev # Null => IsMarked(epoch, header'[prev])
  BY <1>1, <1>2, <1>10
<1>12. IsMarked(epoch, header'[obj]) \/ (header[obj].g # 0 /\ header[self].g # 0)
  BY <1>3, <1>4, <1>6, <1>7
<1>13. header'[self].g # 0 => header'[obj].g # 0
  <2>1. CASE header' = inG
    BY <1>6, <2>1
  <2>2. CASE header' = inN /\ marked[self].g = 0
    BY <1>7, <2>2
  <2>3. CASE header' = marked /\ marked[obj].g # 0
    BY <2>3
  <2> QED
    BY <1>4, <2>1, <2>2, <2>3
<1> QED
  BY <1>8, <1>9, <1>11, <1>12, <1>13

\* A store through the barrier, to the root or to an object on the stack.
LEMMA StoreStep ==
  ASSUME IInv, NEW t \in Threads, NEW k \in Names,
         NEW self \in RootSet, NEW obj \in OnStack(t), stack[t] # <<>>,
         props' = [props EXCEPT ![self][k] = obj],
         stack' = [stack EXCEPT ![t] = PopOf(@)],
         SetBarrier(self, k, obj),
         UNCHANGED <<live, epoch, phase, scanned, doomed>>
  PROVE  IInv'
<1> DEFINE prev == props[self][k]
<1>1. TypeOK /\ HeapClosed /\ HeadersSound /\ WhitesProtected
  BY DEF IInv
<1>2. /\ RootSet \subseteq live /\ Touchable \subseteq live /\ live \subseteq Objects
      /\ self \in Objects /\ obj \in Objects /\ obj \in RootSet
  BY <1>1, TouchableIsLive DEF TypeOK, HeapTypeOK, RootSet
<1>3. /\ AllAdvance(epoch, header, header')
      /\ \A o \in Objects \ {prev, obj} : header'[o] = header[o]
      /\ prev # Null => IsMarked(epoch, header'[prev])
      /\ Alive(obj)' \/ (header[obj].g # 0 /\ header[self].g # 0)
      /\ header'[self].g # 0 => header'[obj].g # 0
  BY <1>1, <1>2, SetBarrierHeaders DEF Alive
<1>4. /\ \A o \in Objects \ {self} : Children(o)' = Children(o)
      /\ \A c \in Children(self)' : c \in Children(self) \/ c = obj
      /\ \A c \in Children(self) : c \in Children(self)' \/ (c = prev /\ prev # Null)
      /\ prev # Null => prev \in Children(self)
  BY <1>1, <1>2 DEF Children, TypeOK, HeapTypeOK
<1>5. \A u \in Threads : OnStack(u)' \subseteq OnStack(u)
  <2>1. Entries(PopOf(stack[t])) \subseteq Entries(stack[t])
    BY <1>1, PopOfEntries DEF TypeOK, HeapTypeOK
  <2>2. \A u \in Threads : stack'[u] = IF u = t THEN PopOf(stack[t]) ELSE stack[u]
    BY <1>1 DEF TypeOK, HeapTypeOK
  <2>3. \A u \in Threads : OnStack(u) = Entries(stack[u]) /\ OnStack(u)' = Entries(stack'[u])
    BY DEF OnStack, Entries
  <2> QED
    BY <2>1, <2>2, <2>3
<1>6. TypeOK'
  <2>1. props' \in [Objects -> [Names -> Objects \cup {Null}]]
    BY <1>1, <1>2 DEF TypeOK, HeapTypeOK
  <2>2. stack' \in [Threads -> Seq(Objects)]
    BY <1>1, PopOfEntries DEF TypeOK, HeapTypeOK
  <2> QED
    BY <1>1, <1>3, <2>1, <2>2 DEF TypeOK, HeapTypeOK, AllAdvance
<1>7. /\ MarksGrow
      /\ \A o \in live : header'[o].pending = 0 => header'[o] = header[o]
  BY <1>1, <1>3, MarkingGrows
<1>8. WalkedOrIdle
  BY <1>7 DEF WalkedOrIdle
<1>9. EdgesGuarded
  <2>1. ASSUME ~Alive(obj)' PROVE header[obj].g # 0 /\ (White(obj) => Protected(obj))
    <3>1. header[obj].g # 0 /\ header'[obj].g # epoch.g /\ header'[obj].g # 0
      BY <1>2, <1>3, <2>1 DEF Alive, IsMarked, AllAdvance, Advances
    <3>2. header'[obj] = header[obj]
      BY <1>1, <1>2, <1>3, <3>1, MarkingGrows
    <3>3. Snapshotted(t)
      BY <1>2, <3>1, <3>2 DEF Snapshotted
    <3> QED
      BY <1>1, <3>1, <3>3 DEF WhitesProtected
  <2>2. MarkedFrom(self, obj) \/ (header[obj].g # 0 /\ (White(obj) => Protected(obj)))
    BY <1>3, <2>1 DEF MarkedFrom
  <2>3. prev # Null => IsMarked(epoch', header'[prev])
    BY <1>3
  <2>4. \A c \in Children(self) : c \in Children(self)' \/ Alive(c)'
    BY <1>4, <2>3 DEF Alive
  <2>5. \A c \in Children(self)' :
          \/ c \in Children(self)
          \/ MarkedFrom(self, c)
          \/ c \in live /\ header[c].g # 0 /\ (White(c) => Protected(c))
    BY <1>2, <1>4, <2>2
  <2> QED
    BY <1>2, <1>4, <2>4, <2>5 DEF EdgesGuarded
<1>10. BornMarked
  BY DEF BornMarked
<1>11. StacksGuarded
  <2>1. ASSUME NEW u \in Threads, Snapshotted(u)' PROVE Snapshotted(u)
    BY <1>1, <1>3, <2>1, MarkingKeepsSnapshots
  <2> QED
    BY <1>5, <2>1 DEF StacksGuarded
<1>12. CycleStep
  BY <1>7, <1>8, <1>9, <1>10, <1>11 DEF CycleStep
<1>13. prev # Null => prev \in Touchable
  BY <1>2, <1>4 DEF Touchable
<1>14. TouchesOnly
  <2>1. \A o \in live : Alive(o)' => Alive(o) \/ o \in Touchable
    BY <1>2, <1>3, <1>13, HeapAssumption DEF Alive, Touchable
  <2>2. \A u \in Threads : OnStack(u)' \subseteq Touchable
    BY <1>5 DEF Touchable, RootSet
  <2>3. \A o \in live : Children(o)' \subseteq Children(o) \cup RootSet
    BY <1>2, <1>4
  <2> QED
    BY <2>1, <2>2, <2>3 DEF TouchesOnly
<1>15. HeadersSound'
  <2>1. prev # Null => prev \in live
    BY <1>2, <1>13
  <2>2. \A o \in Objects \ live : header'[o] = header[o]
    BY <1>2, <1>3, <2>1, HeapAssumption
  <2> QED
    BY <1>1, <1>3, <2>2, MarkingKeepsHeadersSound
<1> QED
  BY <1>6, <1>12, <1>14, <1>15, CycleStepKeepsIInv DEF StepsInCycle

-----------------------------------------------------------------------------
(***************************************************************************)
(* The other steps inside a cycle.                                         *)
(***************************************************************************)
\* mark_stack.
LEMMA MarkStackStep ==
  ASSUME IInv, NEW t \in Threads, MarkStack(t)
  PROVE  IInv'
<1>1. TypeOK /\ HeapClosed /\ HeadersSound /\ RootSet \subseteq live /\ live \subseteq Objects
  BY TouchableIsLive DEF IInv, TypeOK, HeapTypeOK
<1>2. /\ AllAdvance(epoch, header, header')
      /\ \A o \in Objects : IF o \in OnStack(t) THEN IsMarked(epoch, header'[o])
                            ELSE header'[o] = header[o]
  BY <1>1, MarkAllNNHeaders DEF MarkStack, TypeOK
<1>3. UNCHANGED <<live, props, stack, epoch, phase, doomed>> /\ scanned' = scanned \cup {t}
  BY DEF MarkStack
<1>4. TypeOK'
  BY <1>1, <1>2, <1>3 DEF TypeOK, HeapTypeOK, AllAdvance
<1>5. \A u \in Threads : OnStack(u)' = OnStack(u)
  BY <1>3 DEF OnStack
<1>6. \A o \in Objects : Children(o)' = Children(o)
  BY <1>3 DEF Children
<1>7. /\ MarksGrow
      /\ WalkedOrIdle
  BY <1>1, <1>2, <1>3, MarkingGrows DEF WalkedOrIdle
<1>8. EdgesGuarded /\ BornMarked
  BY <1>1, <1>3, <1>6 DEF EdgesGuarded, BornMarked
<1>9. StacksGuarded
  <2>1. ASSUME NEW u \in Threads, Snapshotted(u)', u # t PROVE Snapshotted(u)
    BY <1>1, <1>2, <1>3, <2>1, MarkingKeepsSnapshots
  <2>2. \A o \in OnStack(t) : Alive(o)'
    BY <1>1, <1>2, <1>3 DEF Alive, RootSet
  <2> QED
    BY <1>5, <2>1, <2>2 DEF StacksGuarded
<1>10. TouchesOnly
  <2>1. \A o \in live : Alive(o)' => Alive(o) \/ o \in Touchable
    BY <1>1, <1>2, <1>3 DEF Alive, Touchable, RootSet
  <2>2. \A u \in Threads : OnStack(u)' \subseteq Touchable
    BY <1>5 DEF Touchable, RootSet
  <2> QED
    BY <1>1, <1>6, <2>1, <2>2 DEF TouchesOnly
<1>11. HeadersSound'
  <2>1. \A o \in Objects \ live : header'[o] = header[o]
    BY <1>1, <1>2 DEF RootSet
  <2> QED
    BY <1>1, <1>2, <1>3, <2>1, MarkingKeepsHeadersSound
<1> QED
  BY <1>3, <1>4, <1>7, <1>8, <1>9, <1>10, <1>11, CycleStepKeepsIInv
     DEF StepsInCycle, CycleStep

\* walk_n on an object from queue_n.
LEMMA GcNStep ==
  ASSUME IInv, NEW o \in Objects, SimGcN(o)
  PROVE  IInv'
<1> DEFINE popped == [header EXCEPT ![o].pending = @ - 1]
<1>1. TypeOK /\ HeapClosed /\ HeadersSound /\ RootSet \subseteq live /\ live \subseteq Objects
  BY TouchableIsLive DEF IInv, TypeOK, HeapTypeOK
<1>2. UNCHANGED <<live, props, stack, epoch, phase, scanned, doomed>> /\ header[o].pending > 0
  BY DEF SimGcN
<1>3. epoch \in Epoch /\ header \in [Objects -> Header]
  BY <1>1 DEF TypeOK
<1>4. o \in live /\ Alive(o) /\ Grey(o)
  <2>1. o \in live
    BY <1>1, <1>2, <1>3 DEF HeadersSound, Header
  <2>2. header[o].pending <= MaxPending(epoch, header[o]) /\ header[o].pending \in Nat
    BY <1>1, <1>3, <2>1 DEF HeadersSound, SoundHeader, Header
  <2> QED
    BY <1>2, <2>1, <2>2 DEF MaxPending, Alive, IsMarked, Grey
<1>5. /\ popped \in [Objects -> Header]
      /\ \A p \in Objects \ {o} : popped[p] = header[p]
      /\ popped[o].g = header[o].g /\ popped[o].n = header[o].n
      /\ popped[o].pending = header[o].pending - 1
  BY <1>2, <1>3 DEF Header
<1>6. header' = IF header[o].g # 0 THEN MarkAllNG(epoch, popped, Children(o))
                                   ELSE MarkAllNN(epoch, popped, Children(o))
  BY DEF SimGcN
<1> HIDE DEF popped
<1>7. /\ AllAdvance(epoch, popped, header')
      /\ \A p \in Objects : IF p \in Children(o) THEN IsMarked(epoch, header'[p])
                            ELSE header'[p] = popped[p]
      /\ header'[o].g # 0 => \A c \in Children(o) \cap Objects : header'[c].g # 0
  <2>1. CASE header[o].g # 0
    BY <1>3, <1>5, <1>6, <2>1, MarkAllNGHeaders
  <2>2. CASE header[o].g = 0
    <3>1. header'[o].g = 0
      BY <1>3, <1>5, <1>6, <2>2, MarkAllNNHeaders
    <3> QED
      BY <1>3, <1>5, <1>6, <2>2, <3>1, MarkAllNNHeaders
  <2> QED
    BY <2>1, <2>2
<1>8. TypeOK'
  BY <1>1, <1>2, <1>7 DEF TypeOK, HeapTypeOK, AllAdvance
<1>9. /\ \A u \in Threads : OnStack(u)' = OnStack(u)
      /\ \A p \in Objects : Children(p)' = Children(p)
      /\ Children(o) \subseteq live
  BY <1>1, <1>2, <1>4 DEF OnStack, Children, HeapClosed
<1>10. \A p \in live : Advances(epoch, popped[p], header'[p])
  BY <1>1, <1>7 DEF AllAdvance
<1>11. MarksGrow
  <2>1. \A p \in live : Alive(p) => IsMarked(epoch, popped[p])
    BY <1>1, <1>5 DEF Alive, IsMarked
  <2>2. \A p \in live : header[p].g # 0 => popped[p].g # 0
    BY <1>1, <1>5
  <2> QED
    BY <1>2, <1>10, <2>1, <2>2 DEF MarksGrow, Advances, Alive
<1>12. WalkedOrIdle
  <2>1. Alive(o)' /\ \A c \in Children(o)' : MarkedFrom(o, c)
    <3>1. Alive(o)'
      BY <1>4, <1>11 DEF MarksGrow
    <3>2. \A c \in Children(o) : Alive(c)' /\ (header'[o].g # 0 => header'[c].g # 0)
      BY <1>1, <1>2, <1>7, <1>9 DEF Alive
    <3> QED
      BY <1>9, <3>1, <3>2 DEF MarkedFrom
  <2>2. ASSUME NEW p \in live, p # o, header'[p].pending = 0
        PROVE  header'[p] = header[p]
    BY <1>1, <1>3, <1>5, <1>10, <2>2 DEF Advances, Header
  <2> QED
    BY <2>1, <2>2 DEF WalkedOrIdle
<1>13. EdgesGuarded /\ BornMarked
  BY <1>1, <1>2, <1>9 DEF EdgesGuarded, BornMarked
<1>14. StacksGuarded
  <2>1. \A p \in live : header'[p].g \notin {0, epoch.g} => header'[p].g = popped[p].g
    BY <1>10 DEF Advances, IsMarked
  <2>2. \A p \in live : popped[p].g = header[p].g
    BY <1>1, <1>5
  <2>3. \A u \in Threads : Snapshotted(u)' => Snapshotted(u)
    BY <1>2, <2>1, <2>2 DEF Snapshotted
  <2> QED
    BY <1>9, <2>3 DEF StacksGuarded
<1>15. TouchesOnly
  <2>1. ASSUME NEW p \in live, Alive(p)', ~Alive(p) PROVE p \in Children(o)
    BY <1>1, <1>2, <1>5, <1>7, <2>1 DEF Alive, IsMarked
  <2>2. Children(o) \subseteq Touchable
    BY <1>4 DEF Touchable
  <2>3. \A u \in Threads : OnStack(u)' \subseteq Touchable
    BY <1>9 DEF Touchable, RootSet
  <2> QED
    BY <1>1, <1>9, <2>1, <2>2, <2>3 DEF TouchesOnly
<1>16. HeadersSound'
  <2>1. \A p \in live : SoundHeader(epoch, popped[p])
    <3>1. SoundHeader(epoch, popped[o])
      BY <1>1, <1>3, <1>4, <1>5 DEF HeadersSound, SoundHeader, MaxPending, Header, Epoch
    <3> QED
      BY <1>1, <1>5, <3>1 DEF HeadersSound
  <2>2. \A p \in live : SoundHeader(epoch, header'[p])
    BY <1>10, <2>1 DEF Advances
  <2>3. \A p \in Objects \ live : header'[p] = header[p]
    BY <1>4, <1>5, <1>7, <1>9
  <2>4. IsMarked(epoch, header'[Root]) /\ header'[Root].g # 0
    BY <1>1, <1>2, <1>3, <1>11 DEF MarksGrow, HeadersSound, HeapClosed, Alive, IsMarked, Epoch
  <2> QED
    BY <1>1, <1>2, <2>2, <2>3, <2>4 DEF HeadersSound, IsMarked
<1> QED
  BY <1>2, <1>8, <1>11, <1>12, <1>13, <1>14, <1>15, <1>16, CycleStepKeepsIInv
     DEF StepsInCycle, CycleStep

\* Steps that only move references on one thread's stack.
LEMMA MoveStep ==
  ASSUME IInv, NEW t \in Threads, NEW s \in Seq(Objects),
         stack' = [stack EXCEPT ![t] = s],
         \A o \in Entries(s) : \/ o \in OnStack(t)
                               \/ \E p \in OnStack(t) \cup {Root} : o \in Children(p),
         UNCHANGED <<live, props, header, epoch, phase, scanned, doomed>>
  PROVE  IInv'
<1>1. TypeOK /\ HeapClosed /\ HeadersSound /\ RootSet \subseteq live /\ live \subseteq Objects
  BY TouchableIsLive DEF IInv, TypeOK, HeapTypeOK
<1>2. /\ \A u \in Threads \ {t} : OnStack(u)' = OnStack(u)
      /\ OnStack(t)' = Entries(s)
  BY <1>1 DEF OnStack, Entries, TypeOK, HeapTypeOK
<1>3. TypeOK'
  BY <1>1 DEF TypeOK, HeapTypeOK
<1>4. \A o \in Objects : /\ Children(o)' = Children(o)
                         /\ Alive(o)' <=> Alive(o)
  BY DEF Children, Alive
<1>5. MarksGrow /\ WalkedOrIdle /\ EdgesGuarded /\ BornMarked
  BY <1>1, <1>4 DEF MarksGrow, WalkedOrIdle, EdgesGuarded, BornMarked
<1>6. StacksGuarded
  BY <1>2 DEF StacksGuarded, Snapshotted
<1>7. TouchesOnly
  <2>1. \A o \in Entries(s) : o \in Touchable
    BY <1>1 DEF Touchable, RootSet
  <2>2. \A u \in Threads : OnStack(u)' \subseteq Touchable
    BY <1>2, <2>1 DEF Touchable, RootSet
  <2> QED
    BY <1>1, <1>4, <2>2 DEF TouchesOnly
<1>8. HeadersSound'
  BY <1>1 DEF HeadersSound
<1> QED
  BY <1>3, <1>5, <1>6, <1>7, <1>8, CycleStepKeepsIInv DEF StepsInCycle, CycleStep

LEMMA SimMoveStep ==
  ASSUME IInv, NEW t \in Threads, SimMove(t)
  PROVE  IInv'
<1>1. /\ stack[t] \in Seq(Objects) /\ OnStack(t) = Entries(stack[t])
      /\ \A p \in OnStack(t) \cup {Root} : Children(p) \subseteq Objects
  BY DEF IInv, TypeOK, HeapTypeOK, OnStack, Entries, HeapClosed
<1>2. UNCHANGED <<header, epoch, phase, scanned, doomed>>
  BY DEF SimMove, gcVars
<1>3. stack[t] # <<>> =>
        /\ Top(stack[t]) \in Objects /\ Top(stack[t]) \in OnStack(t)
        /\ PopOf(stack[t]) \in Seq(Objects) /\ Entries(PopOf(stack[t])) \subseteq OnStack(t)
  BY <1>1, PopOfEntries
<1>4. CASE Dup(t)
  <2>1. /\ PushOn(stack[t], Top(stack[t])) \in Seq(Objects)
        /\ Entries(PushOn(stack[t], Top(stack[t]))) \subseteq OnStack(t)
    BY <1>1, <1>3, <1>4, PushOnEntries DEF Dup
  <2> QED
    BY <1>2, <1>4, <2>1, MoveStep DEF Dup
<1>5. CASE Pop(t)
  BY <1>2, <1>3, <1>5, MoveStep DEF Pop
<1>6. CASE Load(t)
  <2> DEFINE rest == PopOf(stack[t])
  <2>1. CASE stack' = [stack EXCEPT ![t] = rest]
    BY <1>2, <1>3, <1>6, <2>1, MoveStep DEF Load
  <2>2. ASSUME NEW c \in Children(Top(stack[t])),
               stack' = [stack EXCEPT ![t] = PushOn(rest, c)]
        PROVE  IInv'
    <3>1. PushOn(rest, c) \in Seq(Objects) /\ Entries(PushOn(rest, c)) \subseteq Entries(rest) \cup {c}
      BY <1>1, <1>3, <1>6, PushOnEntries DEF Load
    <3> QED
      BY <1>2, <1>3, <1>6, <2>2, <3>1, MoveStep DEF Load
  <2> QED
    BY <1>6, <2>1, <2>2 DEF Load
<1>7. CASE LoadRoot(t)
  <2>1. PICK c \in Children(Root) : stack' = [stack EXCEPT ![t] = PushOn(stack[t], c)]
    BY <1>7 DEF LoadRoot
  <2>2. /\ PushOn(stack[t], c) \in Seq(Objects)
        /\ Entries(PushOn(stack[t], c)) \subseteq OnStack(t) \cup {c}
    BY <1>1, PushOnEntries
  <2>3. UNCHANGED <<live, props>>
    BY <1>7 DEF LoadRoot
  <2>4. \A o \in Entries(PushOn(stack[t], c)) :
          o \in OnStack(t) \/ \E p \in OnStack(t) \cup {Root} : o \in Children(p)
    BY <2>1, <2>2
  <2> QED
    BY <1>2, <2>1, <2>2, <2>3, <2>4, MoveStep
<1> QED
  BY <1>4, <1>5, <1>6, <1>7 DEF SimMove

\* The objects a store works on are roots.
LEMMA StoreOperands ==
  ASSUME TypeOK, NEW t \in Threads
  PROVE  /\ stack[t] # <<>> => StoreValue(t) \in OnStack(t)
         /\ Len(stack[t]) >= 2 => stack[t] # <<>> /\ StoreTarget(t) \in RootSet
<1>1. stack[t] \in Seq(Objects) /\ OnStack(t) = Entries(stack[t])
  BY DEF TypeOK, HeapTypeOK, OnStack, Entries
<1>2. stack[t] # <<>> => StoreValue(t) \in OnStack(t)
  BY <1>1, PopOfEntries DEF StoreValue
<1>3. ASSUME Len(stack[t]) >= 2
      PROVE  stack[t] # <<>> /\ StoreTarget(t) \in RootSet
  <2>1. stack[t] # <<>>
    BY <1>1, <1>3
  <2>2. PopOf(stack[t]) \in Seq(Objects) /\ Entries(PopOf(stack[t])) \subseteq OnStack(t)
    BY <1>1, <2>1, PopOfEntries
  <2>3. PopOf(stack[t]) # <<>>
    BY <1>1, <1>3 DEF PopOf
  <2>4. Top(PopOf(stack[t])) \in OnStack(t)
    BY <2>2, <2>3, PopOfEntries
  <2> QED
    BY <2>1, <2>4 DEF StoreTarget, RootSet
<1> QED
  BY <1>2, <1>3

LEMMA SimStoreStep ==
  ASSUME IInv, NEW t \in Threads, SimStore(t) \/ SimStoreRoot(t)
  PROVE  IInv'
<1>1. CASE SimStore(t)
  <2>1. PICK k \in Names : Store(t, k) /\ SetBarrier(StoreTarget(t), k, StoreValue(t))
    BY <1>1 DEF SimStore
  <2>2. StoreTarget(t) \in RootSet /\ StoreValue(t) \in OnStack(t) /\ stack[t] # <<>>
    BY <2>1, StoreOperands DEF Store, IInv
  <2> QED
    BY <1>1, <2>1, <2>2, StoreStep DEF SimStore, Store
<1>2. CASE SimStoreRoot(t)
  <2>1. PICK k \in Names : StoreRoot(t, k) /\ SetBarrier(Root, k, StoreValue(t))
    BY <1>2 DEF SimStoreRoot
  <2>2. Root \in RootSet /\ StoreValue(t) \in OnStack(t) /\ stack[t] # <<>>
    BY <2>1, StoreOperands DEF StoreRoot, IInv, RootSet
  <2> QED
    BY <1>2, <2>1, <2>2, StoreStep DEF SimStoreRoot, StoreRoot
<1> QED
  BY <1>1, <1>2

\* The constructor: the object is born marked, in N or, during the last loop,
\* in G.
LEMMA SimNewStep ==
  ASSUME IInv, NEW t \in Threads, SimNew(t)
  PROVE  IInv'
<1> DEFINE born == [g |-> IF phase = "drain" THEN epoch.g ELSE 0, n |-> epoch.n, pending |-> 0]
<1>1. PICK o \in Objects : New(t, o) /\ header' = [header EXCEPT ![o] = born]
  BY DEF SimNew
<1>2. /\ o \notin live /\ live' = live \cup {o} /\ props' = [props EXCEPT ![o] = NoProps]
      /\ stack' = [stack EXCEPT ![t] = PushOn(stack[t], o)]
      /\ UNCHANGED <<epoch, phase, scanned, doomed>>
  BY <1>1 DEF New, SimNew
<1>3. TypeOK /\ HeapClosed /\ HeadersSound /\ RootSet \subseteq live /\ live \subseteq Objects
  BY TouchableIsLive DEF IInv, TypeOK, HeapTypeOK
<1>4. born \in Header /\ IsMarked(epoch, born) /\ SoundHeader(epoch, born) /\ born.g \in {0, epoch.g}
  BY <1>3 DEF TypeOK, Epoch, Header, IsMarked, SoundHeader, MaxPending
<1> HIDE DEF born
<1>5. header'[o] = born /\ \A p \in Objects \ {o} : header'[p] = header[p]
  BY <1>1, <1>3 DEF TypeOK
<1>6. /\ PushOn(stack[t], o) \in Seq(Objects)
      /\ Entries(PushOn(stack[t], o)) \subseteq OnStack(t) \cup {o}
  <2>1. stack[t] \in Seq(Objects) /\ OnStack(t) = Entries(stack[t])
    BY <1>3 DEF TypeOK, HeapTypeOK, OnStack, Entries
  <2> QED
    BY <2>1, PushOnEntries
<1>7. TypeOK'
  BY <1>1, <1>2, <1>3, <1>4, <1>6 DEF TypeOK, HeapTypeOK, NoProps
<1>8. /\ \A u \in Threads \ {t} : OnStack(u)' = OnStack(u)
      /\ OnStack(t)' \subseteq OnStack(t) \cup {o}
  BY <1>2, <1>3, <1>6 DEF OnStack, Entries, TypeOK, HeapTypeOK
<1>9. /\ Children(o)' = {}
      /\ \A p \in live : Children(p)' = Children(p)
  BY <1>2, <1>3 DEF Children, NoProps, TypeOK, HeapTypeOK
<1>10. Alive(o)' /\ \A p \in live : Alive(p)' <=> Alive(p)
  BY <1>2, <1>3, <1>4, <1>5 DEF Alive
<1>11. MarksGrow /\ WalkedOrIdle /\ EdgesGuarded /\ BornMarked
  BY <1>2, <1>3, <1>5, <1>9, <1>10 DEF MarksGrow, WalkedOrIdle, EdgesGuarded, BornMarked
<1>12. StacksGuarded
  <2>1. \A u \in Threads : Snapshotted(u)' => Snapshotted(u)
    BY <1>2, <1>3, <1>4, <1>5 DEF Snapshotted
  <2> QED
    BY <1>8, <1>10, <2>1 DEF StacksGuarded
<1>13. TouchesOnly
  BY <1>2, <1>3, <1>8, <1>9, <1>10 DEF TouchesOnly, Touchable, RootSet
<1>14. HeadersSound'
  BY <1>2, <1>3, <1>4, <1>5 DEF HeadersSound, HeapClosed
<1> QED
  BY <1>2, <1>7, <1>11, <1>12, <1>13, <1>14, CycleStepKeepsIInv DEF StepsInCycle, CycleStep

-----------------------------------------------------------------------------
(***************************************************************************)
(* The end of a cycle.                                                     *)
(***************************************************************************)
\* Reachable is the least closed set that contains the roots.
LEMMA ReachableProps ==
  ASSUME TypeOK
  PROVE  /\ \A o \in RootSet : o \in Reachable
         /\ \A o \in Reachable : \A c \in Children(o) : c \in Reachable
         /\ \A S \in SUBSET Objects : RootSet \subseteq S /\ IsClosed(S) => Reachable \subseteq S
<1>1. RootSet \subseteq Objects
  BY HeapAssumption DEF RootSet, OnStack, TypeOK, HeapTypeOK
<1>2. \A o \in Objects : Children(o) \subseteq Objects
  BY DEF Children, TypeOK, HeapTypeOK
<1> QED
  BY <1>1, <1>2 DEF Reachable, IsClosed

\* Once queue_n is empty no white object is protected: the marked objects
\* contain the roots and are closed, and G is closed as well.
LEMMA DoneIsClosed ==
  ASSUME IInv, CycleDone
  PROVE  /\ \A o \in RootSet : o \in live /\ Alive(o)
         /\ \A o \in live : Alive(o) => \A c \in Children(o) : c \in live /\ Alive(c)
         /\ \A o \in live : header[o].g # 0 => \A c \in Children(o) : header[c].g # 0
<1>1. RootSet \subseteq live /\ live \subseteq Objects
  BY TouchableIsLive DEF IInv, TypeOK, HeapTypeOK
<1>2. \A o \in live : header[o].pending = 0 /\ ~Grey(o)
  <2>1. \A o \in live : header[o].pending = 0
    BY <1>1 DEF CycleDone, QueueEmpty
  <2>2. ~(0 > 0)
    OBVIOUS
  <2> QED
    BY <2>1, <2>2 DEF Grey
<1>3. ~ \E o : Protected(o)
  <2>1. CoversGrey({})
    BY <1>2 DEF CoversGrey
  <2> QED
    BY <2>1 DEF Protected
<1>4. ASSUME NEW o \in RootSet PROVE o \in live /\ Alive(o)
  <2>1. Alive(Root)
    BY DEF IInv, HeadersSound, Alive, IsMarked
  <2>2. ASSUME NEW t \in Threads, o \in OnStack(t) PROVE Alive(o)
    <3>1. t \in scanned
      BY DEF CycleDone, IInv
    <3> QED
      BY <1>1, <1>3, <2>2, <3>1 DEF IInv, WhitesProtected, Snapshotted, White
  <2> QED
    BY <1>1, <2>1, <2>2 DEF RootSet
<1>5. ASSUME NEW o \in live, Alive(o), NEW c \in Children(o)
      PROVE  c \in live /\ Alive(c)
  <2>1. c \in live
    BY DEF IInv, HeapClosed
  <2>2. Black(o)
    BY <1>2, <1>5 DEF Black
  <2> QED
    BY <1>3, <2>1, <2>2 DEF IInv, WhitesProtected, White
<1>6. \A o \in live : header[o].g # 0 => \A c \in Children(o) : header[c].g # 0
  BY <1>2 DEF IInv, GToNIsQueued
<1> QED
  BY <1>4, <1>5, <1>6

LEMMA DoneKeepsReachable ==
  ASSUME IInv, CycleDone
  PROVE  Reachable \subseteq {o \in live : Alive(o)}
<1> DEFINE S == {o \in live : Alive(o)}
<1>1. S \in SUBSET Objects
  BY DEF IInv, TypeOK, HeapTypeOK
<1>2. RootSet \subseteq S /\ IsClosed(S)
  BY DoneIsClosed DEF IsClosed
<1> QED
  BY <1>1, <1>2, ReachableProps DEF IInv

LEMMA EndCycleStep ==
  ASSUME IInv, NEW major \in BOOLEAN, EndCycle(major)
  PROVE  IInv'
<1>1. /\ TypeOK /\ HeapClosed /\ HeadersSound
      /\ RootSet \subseteq live /\ live \subseteq Objects /\ Root \in RootSet
      /\ epoch \in Epoch /\ epoch.g \in Nat \ {0} /\ epoch.n \in Nat \ {0}
      /\ header \in [Objects -> Header]
  BY TouchableIsLive DEF IInv, TypeOK, HeapTypeOK, RootSet, Epoch
<1>2. CycleDone
  BY DEF EndCycle, CycleDone
<1>3. /\ live' = {o \in live : Alive(o)} /\ phase' = "mark" /\ scanned' = {}
      /\ doomed' = {o \in live' \ Reachable : major \/ header[o].g = 0}
      /\ UNCHANGED <<props, stack>>
      /\ header' = IF major THEN MarkAllNG(epoch', header, RootSet) ELSE header
  BY DEF EndCycle
<1>4. /\ epoch' \in Epoch
      /\ epoch'.n = epoch.n + 1
      /\ major => epoch'.g = epoch.g + 1
      /\ ~major => epoch'.g = epoch.g
  BY <1>1 DEF EndCycle, Epoch
<1>5. /\ AllAdvance(epoch', header, header')
      /\ \A o \in Objects \ RootSet : header'[o] = header[o]
      /\ major => \A o \in RootSet : IsMarked(epoch', header'[o]) /\ header'[o].g # 0
  <2>1. CASE major
    BY <1>1, <1>3, <1>4, <2>1, MarkAllNGHeaders
  <2>2. CASE ~major
    BY <1>1, <1>3, <2>2 DEF AllAdvance, Advances
  <2> QED
    BY <2>1, <2>2
<1>6. /\ \A o \in Objects : Children(o)' = Children(o)
      /\ \A t \in Threads : OnStack(t)' = OnStack(t)
  BY <1>3 DEF Children, OnStack
<1>7. RootSet \subseteq live' /\ \A o \in live' : Children(o) \subseteq live'
  BY <1>2, <1>3, DoneIsClosed
\* What the sweep keeps has an old mark, and nothing queued.
<1>8. \A o \in live' :
        /\ o \in live /\ header[o].pending = 0
        /\ header[o].g \in {0, epoch.g} /\ header[o].n <= epoch.n
        /\ header[o].g \in Nat /\ header[o].n \in Nat
  BY <1>1, <1>2, <1>3 DEF CycleDone, QueueEmpty, Alive, IsMarked, HeadersSound, SoundHeader, Header
<1>9. \A o \in live' : header'[o].pending = 0 => header'[o] = header[o]
  BY <1>1, <1>5, <1>8 DEF AllAdvance, Advances, Header
<1>10. TypeOK'
  BY <1>1, <1>3, <1>4, <1>5 DEF TypeOK, HeapTypeOK, AllAdvance
<1>11. HeapClosed'
  BY <1>1, <1>3, <1>6, <1>7 DEF HeapClosed, RootSet
<1>12. HeadersSound'
  <2>1. \A o \in live' : SoundHeader(epoch', header[o])
    BY <1>1, <1>4, <1>8 DEF SoundHeader, MaxPending
  <2>2. \A o \in live' : SoundHeader(epoch', header'[o])
    BY <1>1, <1>5, <1>8, <2>1 DEF AllAdvance, Advances
  <2>3. \A o \in Objects \ live' : header'[o].pending = 0
    BY <1>2, <1>5, <1>7 DEF CycleDone, QueueEmpty
  <2>4. header'[Root].g = epoch'.g
    <3>1. CASE major
      BY <1>1, <1>5, <3>1 DEF IsMarked
    <3>2. CASE ~major
      BY <1>1, <1>3, <1>4, <3>2 DEF HeadersSound
    <3> QED
      BY <3>1, <3>2
  <2> QED
    BY <2>2, <2>3, <2>4 DEF HeadersSound
<1>13. GToNIsQueued'
  <2> SUFFICES ASSUME NEW o \in live', header'[o].g # 0, header'[o].pending = 0,
                      NEW c \in Children(o)
               PROVE  header'[c].g # 0
    BY <1>1, <1>6, <1>8 DEF GToNIsQueued
  <2>1. header[c].g # 0 /\ c \in Objects
    BY <1>1, <1>2, <1>7, <1>8, <1>9, DoneIsClosed
  <2> QED
    BY <1>5, <2>1 DEF AllAdvance, Advances
<1>14. WhitesProtected'
  <2>1. ASSUME NEW o \in live', Alive(o)', header'[o].pending = 0, NEW c \in Children(o)
        PROVE  Alive(c)'
    <3>1. IsMarked(epoch', header[o])
      BY <1>9, <2>1 DEF Alive
    <3>2. ~major /\ header[o].g = epoch.g
      BY <1>1, <1>4, <1>8, <3>1 DEF IsMarked
    <3>3. c \in live' /\ header[c].g # 0
      BY <1>1, <1>2, <1>7, <1>8, <3>2, DoneIsClosed
    <3> QED
      BY <1>3, <1>4, <1>8, <3>2, <3>3 DEF Alive, IsMarked
  <2>2. ASSUME NEW t \in Threads, Snapshotted(t)', NEW o \in OnStack(t)
        PROVE  Alive(o)'
    <3>1. major
      BY <1>3, <1>4, <1>8, <2>2 DEF Snapshotted
    <3> QED
      BY <1>5, <3>1 DEF Alive, RootSet
  <2> QED
    BY <1>1, <1>6, <1>8, <2>1, <2>2 DEF WhitesProtected, Black, White
<1>15. DoomedIsolated'
  <2> SUFFICES ASSUME NEW d \in doomed'
               PROVE  /\ d # Root
                      /\ White(d)'
                      /\ \A t \in Threads : d \notin OnStack(t)
                      /\ \A o \in live' : d \in Children(o) => o \in doomed'
    BY <1>1, <1>6, <1>8 DEF DoomedIsolated
  <2>1. d \in live' /\ d \notin Reachable /\ (major \/ header[d].g = 0)
    BY <1>3
  <2>2. d \notin RootSet
    BY <1>1, <2>1, ReachableProps
  <2>3. White(d)'
    <3>1. header'[d] = header[d]
      BY <1>1, <1>5, <1>8, <2>1, <2>2
    <3>2. ~IsMarked(epoch', header[d])
      BY <1>1, <1>4, <1>8, <2>1 DEF IsMarked
    <3> QED
      BY <2>1, <3>1, <3>2 DEF White, Alive
  <2>4. ASSUME NEW o \in live', d \in Children(o) PROVE o \in doomed'
    <3>1. o \notin Reachable
      BY <1>1, <2>1, <2>4, ReachableProps
    <3>2. major \/ header[o].g = 0
      BY <1>2, <1>8, <2>1, <2>4, DoneIsClosed
    <3> QED
      BY <1>3, <3>1, <3>2
  <2> QED
    BY <2>2, <2>3, <2>4 DEF RootSet
<1> QED
  BY <1>3, <1>10, <1>11, <1>12, <1>13, <1>14, <1>15 DEF IInv

-----------------------------------------------------------------------------
(***************************************************************************)
(* The invariant.                                                          *)
(***************************************************************************)
LEMMA InitIInv == Init => IInv
<1> SUFFICES ASSUME Init PROVE IInv
  OBVIOUS
<1>1. /\ live = {Root} /\ props = [o \in Objects |-> NoProps]
      /\ stack = [t \in Threads |-> <<>>] /\ Root \in Objects
  BY HeapAssumption DEF Init, HeapInit
<1>2. /\ \A o \in Objects : Children(o) = {}
      /\ \A t \in Threads : OnStack(t) = {}
  BY <1>1 DEF Children, NoProps, OnStack
<1>3. /\ epoch = [g |-> 1, n |-> 1] /\ phase = "mark" /\ scanned = {} /\ doomed = {}
      /\ header \in [Objects -> Header]
      /\ \A o \in Objects : header[o].pending = 0
      /\ header[Root] = [g |-> 1, n |-> 1, pending |-> 0]
  BY <1>1 DEF Init, Header, Unmarked
<1>4. TypeOK
  BY <1>1, <1>3 DEF TypeOK, HeapTypeOK, NoProps, Epoch
<1>5. HeadersSound
  BY <1>1, <1>3 DEF HeadersSound, SoundHeader, MaxPending
<1> QED
  BY <1>1, <1>2, <1>3, <1>4, <1>5
     DEF IInv, HeapClosed, GToNIsQueued, WhitesProtected, DoomedIsolated

\* Nothing but the phase changes.
LEMMA PhaseIsFree ==
  ASSUME IInv, UNCHANGED <<live, props, stack, header, epoch, scanned, doomed>>
  PROVE  HeapClosed' /\ HeadersSound' /\ GToNIsQueued' /\ WhitesProtected' /\ DoomedIsolated'
<1>1. /\ \A o : Children(o)' = Children(o)
      /\ \A t : OnStack(t)' = OnStack(t)
      /\ \A o : (White(o)' <=> White(o)) /\ (Black(o)' <=> Black(o)) /\ (Grey(o)' <=> Grey(o))
      /\ \A t : Snapshotted(t)' <=> Snapshotted(t)
  BY DEF Children, OnStack, White, Black, Grey, Alive, Snapshotted
<1>2. \A S : CoversGrey(S)' <=> CoversGrey(S)
  BY <1>1 DEF CoversGrey
<1>3. \A o : Protected(o)' <=> Protected(o)
  BY <1>2 DEF Protected
<1>4. HeapClosed' /\ HeadersSound' /\ GToNIsQueued'
  BY <1>1 DEF IInv, HeapClosed, HeadersSound, GToNIsQueued
<1>5. WhitesProtected'
  BY <1>1, <1>3 DEF IInv, WhitesProtected
<1>6. DoomedIsolated'
  BY <1>1 DEF IInv, DoomedIsolated
<1> QED
  BY <1>4, <1>5, <1>6

LEMMA NextIInv == IInv /\ [Next]_vars => IInv'
<1> SUFFICES ASSUME IInv, [Next]_vars PROVE IInv'
  OBVIOUS
<1>1. ASSUME NEW t \in Threads, SimNew(t) PROVE IInv'
  BY <1>1, SimNewStep
<1>2. ASSUME NEW t \in Threads, SimMove(t) PROVE IInv'
  BY <1>2, SimMoveStep
<1>3. ASSUME NEW t \in Threads, SimStore(t) \/ SimStoreRoot(t) PROVE IInv'
  BY <1>3, SimStoreStep
<1>4. ASSUME NEW o \in Objects, SimGcN(o) PROVE IInv'
  BY <1>4, GcNStep
<1>5. ASSUME NEW t \in Threads, MarkStack(t) PROVE IInv'
  BY <1>5, MarkStackStep
<1>6. ASSUME NEW major \in BOOLEAN, EndCycle(major) PROVE IInv'
  BY <1>6, EndCycleStep
<1>7. CASE StartDrain
  <2>1. scanned' = Threads /\ phase' = "drain"
        /\ UNCHANGED <<live, props, stack, header, epoch, scanned, doomed>>
    BY <1>7 DEF StartDrain
  <2>2. TypeOK'
    BY <2>1 DEF IInv, TypeOK, HeapTypeOK
  <2> QED
    BY <2>1, <2>2, PhaseIsFree DEF IInv
<1>8. CASE UNCHANGED vars
  <2>1. UNCHANGED <<live, props, stack, header, epoch, phase, scanned, doomed>>
    BY <1>8 DEF vars
  <2>2. TypeOK'
    BY <2>1 DEF IInv, TypeOK, HeapTypeOK
  <2> QED
    BY <2>1, <2>2, PhaseIsFree DEF IInv
<1> QED
  BY <1>1, <1>2, <1>3, <1>4, <1>5, <1>6, <1>7, <1>8 DEF Next

(***************************************************************************)
(* The inductive invariant holds in every state of every simulation.       *)
(***************************************************************************)
THEOREM Invariance == Spec => []IInv
BY InitIInv, NextIInv, PTL DEF Spec

(***************************************************************************)
(* The variables have their types.                                         *)
(***************************************************************************)
THEOREM TypeCorrect == Spec => []TypeOK
<1>1. IInv => TypeOK
  BY DEF IInv
<1> QED
  BY <1>1, Invariance, PTL

(***************************************************************************)
(* The barriers keep the tricolour promise: no white object hides behind a *)
(* black one or on a marked stack.                                         *)
(***************************************************************************)
THEOREM WhitesAreProtected == Spec => []WhitesProtected
<1>1. IInv => WhitesProtected
  BY DEF IInv
<1> QED
  BY <1>1, Invariance, PTL

(***************************************************************************)
(* The first half of `check`: the sweep frees nothing that is in use.      *)
(***************************************************************************)
THEOREM NothingInUseIsSwept == Spec => []SweepKeepsReachable
<1>1. IInv => SweepKeepsReachable
  BY DoneKeepsReachable DEF SweepKeepsReachable
<1> QED
  BY <1>1, Invariance, PTL

(***************************************************************************)
(* The second half of `check`: G is closed at the end of a cycle.          *)
(***************************************************************************)
THEOREM GIsClosed == Spec => []NoGToNLinks
<1>1. IInv => NoGToNLinks
  <2>1. ASSUME IInv, CycleDone, NEW o \in Reachable PROVE o \in live
    BY <2>1, DoneKeepsReachable
  <2> QED
    BY <2>1, DoneIsClosed DEF NoGToNLinks
<1> QED
  BY <1>1, Invariance, PTL

(***************************************************************************)
(* Garbage floats for one cycle at most.                                   *)
(***************************************************************************)
THEOREM GarbageIsSwept == Spec => []SweepsGarbage
<1>1. IInv => SweepsGarbage
  BY DEF IInv, DoomedIsolated, White, SweepsGarbage
<1> QED
  BY <1>1, Invariance, PTL

(***************************************************************************)
(* No object is in queue_n more than twice.                                *)
(***************************************************************************)
THEOREM QueueIsBounded == Spec => []QueuedAtMostTwice
<1>1. IInv => QueuedAtMostTwice
  <2> SUFFICES ASSUME IInv, NEW o \in Objects PROVE header[o].pending <= 2
    BY DEF QueuedAtMostTwice
  <2>1. header[o].pending \in Nat
    BY DEF IInv, TypeOK, Header
  <2>2. MaxPending(epoch, header[o]) \in {0, 1, 2}
    BY DEF MaxPending
  <2> QED
    BY <2>1, <2>2 DEF IInv, HeadersSound, SoundHeader
<1> QED
  BY <1>1, Invariance, PTL

(***************************************************************************)
(* The collector is invisible to the program: the simulation implements    *)
(* ManagedHeap, in which only what no root reaches ever disappears.        *)
(***************************************************************************)
THEOREM ImplementsManagedHeap == Spec => HeapSpec
<1>1. Init => HeapInit
  BY DEF Init
<1>2. IInv /\ [Next]_vars => [HeapNext]_heapVars
  <2> SUFFICES ASSUME IInv, [Next]_vars PROVE HeapNext \/ UNCHANGED heapVars
    OBVIOUS
  <2>1. ASSUME NEW t \in Threads, SimNew(t) PROVE HeapNext
    BY <2>1 DEF SimNew, HeapNext
  <2>2. ASSUME NEW t \in Threads, SimMove(t) PROVE HeapNext
    BY <2>2 DEF SimMove, HeapNext
  <2>3. ASSUME NEW t \in Threads, SimStore(t) PROVE HeapNext
    BY <2>3 DEF SimStore, HeapNext
  <2>4. ASSUME NEW t \in Threads, SimStoreRoot(t) PROVE HeapNext
    BY <2>4 DEF SimStoreRoot, HeapNext
  <2>5. ASSUME NEW major \in BOOLEAN, EndCycle(major) PROVE HeapNext
    <3> DEFINE dead == live \ live'
    <3>1. CycleDone /\ live' = {o \in live : Alive(o)} /\ UNCHANGED <<props, stack>>
      BY <2>5 DEF EndCycle, CycleDone
    <3>2. dead \in SUBSET (live \ Reachable) /\ live' = live \ dead
      BY <3>1, DoneKeepsReachable
    <3> QED
      BY <3>1, <3>2 DEF Reclaim, HeapNext
  <2>6. ASSUME NEW o \in Objects, SimGcN(o) PROVE UNCHANGED heapVars
    BY <2>6 DEF SimGcN, heapVars
  <2>7. ASSUME NEW t \in Threads, MarkStack(t) PROVE UNCHANGED heapVars
    BY <2>7 DEF MarkStack, heapVars
  <2>8. CASE StartDrain
    BY <2>8 DEF StartDrain, heapVars
  <2>9. CASE UNCHANGED vars
    BY <2>9 DEF vars, heapVars
  <2> QED
    BY <2>1, <2>2, <2>3, <2>4, <2>5, <2>6, <2>7, <2>8, <2>9 DEF Next
<1> QED
  BY <1>1, <1>2, Invariance, PTL DEF Spec, HeapSpec
=============================================================================
