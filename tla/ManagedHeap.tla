---------------------------- MODULE ManagedHeap ----------------------------
(***************************************************************************)
(* The heap as the program that runs on it sees it: objects with named     *)
(* reference properties, one root object, and a stack of references per    *)
(* thread (misc/gcsim.py).  It is the promise the collector has to keep:   *)
(* memory only ever disappears in Reclaim, and Reclaim takes objects that  *)
(* no root reaches.  GcSim superposes the marking machinery on these       *)
(* actions and is shown to implement this specification.                   *)
(***************************************************************************)
EXTENDS Integers, Sequences

CONSTANTS
  Objects,    \* identities an object can have; one is reused once it is freed
  Root,       \* the global `root`
  Null,       \* "no such property"
  Names,      \* property names
  Threads,    \* mutator threads
  StackLimit  \* a thread keeps this many stack entries (20 in the program)

ASSUME HeapAssumption ==
  /\ Root \in Objects
  /\ Null \notin Objects
  /\ StackLimit \in Nat \ {0, 1}

VARIABLES
  live,   \* all_objs: objects allocated and not swept
  props,  \* obj.props
  stack   \* thread.stack

heapVars == <<live, props, stack>>

NoProps == [k \in Names |-> Null]

HeapTypeOK ==
  /\ live \in SUBSET Objects
  /\ props \in [Objects -> [Names -> Objects \cup {Null}]]
  /\ stack \in [Threads -> Seq(Objects)]

HeapInit ==
  /\ live = {Root}
  /\ props = [o \in Objects |-> NoProps]
  /\ stack = [t \in Threads |-> <<>>]

-----------------------------------------------------------------------------
\* Objects o refers to.
Children(o) == {props[o][k] : k \in Names} \ {Null}

OnStack(t) == {stack[t][i] : i \in DOMAIN stack[t]}

\* What `check` starts from: the root and everything on a stack.
RootSet == {Root} \cup UNION {OnStack(t) : t \in Threads}

IsClosed(S) == \A o \in S : Children(o) \subseteq S

\* The objects in every closed set that contains the root set.
Reachable ==
  {o \in Objects :
     \A S \in SUBSET Objects : (RootSet \subseteq S /\ IsClosed(S)) => o \in S}

-----------------------------------------------------------------------------
Top(s) == s[Len(s)]

PopOf(s) == SubSeq(s, 1, Len(s) - 1)

\* A push followed by the decorator's truncation to the newest entries.
PushOn(s, o) ==
  LET p == Append(s, o)
  IN IF Len(p) > StackLimit THEN SubSeq(p, Len(p) - StackLimit + 1, Len(p)) ELSE p

New(t, o) ==
  /\ o \notin live
  /\ live' = live \cup {o}
  /\ props' = [props EXCEPT ![o] = NoProps]
  /\ stack' = [stack EXCEPT ![t] = PushOn(@, o)]

Dup(t) ==
  /\ stack[t] # <<>>
  /\ stack' = [stack EXCEPT ![t] = PushOn(@, Top(@))]
  /\ UNCHANGED <<live, props>>

Pop(t) ==
  /\ stack[t] # <<>>
  /\ stack' = [stack EXCEPT ![t] = PopOf(@)]
  /\ UNCHANGED <<live, props>>

\* The popped object is replaced by one of its properties, if it has any.
Load(t) ==
  /\ stack[t] # <<>>
  /\ LET obj == Top(stack[t])
         rest == PopOf(stack[t])
     IN \/ /\ Children(obj) = {}
           /\ stack' = [stack EXCEPT ![t] = rest]
        \/ \E c \in Children(obj) : stack' = [stack EXCEPT ![t] = PushOn(rest, c)]
  /\ UNCHANGED <<live, props>>

LoadRoot(t) ==
  /\ \E c \in Children(Root) : stack' = [stack EXCEPT ![t] = PushOn(@, c)]
  /\ UNCHANGED <<live, props>>

\* The object a store writes to, and the one it stores.
StoreTarget(t) == Top(PopOf(stack[t]))
StoreValue(t) == Top(stack[t])

Store(t, k) ==
  /\ Len(stack[t]) >= 2
  /\ props' = [props EXCEPT ![StoreTarget(t)][k] = StoreValue(t)]
  /\ stack' = [stack EXCEPT ![t] = PopOf(@)]
  /\ UNCHANGED live

StoreRoot(t, k) ==
  /\ stack[t] # <<>>
  /\ props' = [props EXCEPT ![Root][k] = StoreValue(t)]
  /\ stack' = [stack EXCEPT ![t] = PopOf(@)]
  /\ UNCHANGED live

Reclaim ==
  /\ \E dead \in SUBSET (live \ Reachable) : live' = live \ dead
  /\ UNCHANGED <<props, stack>>

HeapNext ==
  \/ \E t \in Threads :
       \/ \E o \in Objects : New(t, o)
       \/ Dup(t) \/ Pop(t) \/ Load(t) \/ LoadRoot(t)
       \/ \E k \in Names : Store(t, k) \/ StoreRoot(t, k)
  \/ Reclaim

HeapSpec == HeapInit /\ [][HeapNext]_heapVars
=============================================================================
