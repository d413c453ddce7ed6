------------------------------- MODULE IaStack -------------------------------
(***************************************************************************)
(* The intrusive atomic stacks of ebi (src/ebi_core.c): a head pointer and *)
(* an operation counter, replaced together by one double-width             *)
(* compare-and-swap.  One step here is one access to memory that threads   *)
(* share; the first copy of a stack, `r = *s`, is two of them, in either   *)
(* order.                                                                  *)
(*                                                                         *)
(* ebi_assert breaks into the debugger in every build: a push_all that     *)
(* finds a list in the stack stops the program.                            *)
(***************************************************************************)
EXTENDS Integers, Sequences, SequencesExt, FiniteSets, FiniteSetsExt

CONSTANTS
  Nodes,      \* object lists; they are recycled and never given back to malloc
  Null,
  Threads,
  Stacks,     \* stacks that lists are pushed to one by one (objs_mark, objs_alive)
  SweepStack, \* the one that only gets whole chains (objs_sweep)
  MaxOps      \* bound: no call starts after this many successful ones

AllStacks == Stacks \cup {SweepStack}

ASSUME StackAssumption ==
  /\ IsFiniteSet(Nodes)
  /\ Null \notin Nodes
  /\ SweepStack \notin Stacks
  /\ MaxOps \in Nat

VARIABLES
  mem,     \* per stack v[0] and v[1]: head and count
  next,    \* per node its first word
  owned,   \* nodes a thread has to itself
  chain,   \* the chain a thread got from pop_all and has not pushed again
  pc,      \* where each thread is in its call
  call,    \* the call: operation, stack and the argument ptr
  r,       \* the local copy r of the stack
  link     \* the local value of *head in pop

vars == <<mem, next, owned, chain, pc, call, r, link>>

NodeOrNull == Nodes \cup {Null}
Words == [head : NodeOrNull, count : Nat]
Ops == {"push", "push_all", "pop", "pop_all"}
Locations == {"idle", "popped", "read", "readhead", "readcount", "body", "dcas", "clear", "stopped"}

TypeOK ==
  /\ mem \in [AllStacks -> Words]
  /\ next \in [Nodes -> NodeOrNull]
  /\ owned \in [Threads -> SUBSET Nodes]
  /\ chain \in [Threads -> NodeOrNull]
  /\ pc \in [Threads -> Locations]
  /\ call \in [Threads -> [op : Ops, stack : AllStacks, ptr : NodeOrNull]]
  /\ r \in [Threads -> Words]
  /\ link \in [Threads -> NodeOrNull]

\* The vm starts with empty stacks; lists come from malloc.
Init ==
  /\ mem = [s \in AllStacks |-> [head |-> Null, count |-> 0]]
  /\ next = [n \in Nodes |-> Null]
  /\ \E holder \in [Nodes -> Threads] :
       owned = [t \in Threads |-> {n \in Nodes : holder[n] = t}]
  /\ chain = [t \in Threads |-> Null]
  /\ pc = [t \in Threads |-> "idle"]
  /\ call = [t \in Threads |-> [op |-> "pop", stack |-> SweepStack, ptr |-> Null]]
  /\ r = [t \in Threads |-> [head |-> Null, count |-> 0]]
  /\ link = [t \in Threads |-> Null]

-----------------------------------------------------------------------------
At(t, l) == pc[t] = l
Goto(t, l) == pc' = [pc EXCEPT ![t] = l]

\* An assertion has failed, and no thread runs any more.
Stopped == \E t \in Threads : At(t, "stopped")

\* Double-width compare-and-swaps that succeeded so far.
Done == MapThenSumSet(LAMBDA s : mem[s].count, AllStacks)

Begin(t, op, s, ptr) ==
  /\ ~Stopped
  /\ Done < MaxOps
  /\ call' = [call EXCEPT ![t] = [op |-> op, stack |-> s, ptr |-> ptr]]
  /\ Goto(t, "read")
  /\ UNCHANGED <<mem, next, owned, chain, r, link>>

CallPush(t) ==
  /\ At(t, "idle")
  /\ \E s \in Stacks, n \in owned[t] : Begin(t, "push", s, n)

CallPop(t) ==
  /\ At(t, "idle")
  /\ \E s \in AllStacks : Begin(t, "pop", s, Null)

\* gc_step pushes to one stack all that it pops from another, and holds
\* gc_mutex meanwhile.
IsMoving(t) == pc[t] # "idle" /\ call[t].op \in {"pop_all", "push_all"}

CallPopAll(t) ==
  /\ At(t, "idle")
  /\ \A u \in Threads : ~IsMoving(u)
  /\ \E s \in Stacks : Begin(t, "pop_all", s, Null)

\* What pop_all returned is the argument, NULL included.
CallPushAll(t) ==
  /\ At(t, "popped")
  /\ Begin(t, "push_all", SweepStack, chain[t])

-----------------------------------------------------------------------------
\* The body of the loop of pop_all is head = r.v[0] and nothing else.
LoopStart(op) == IF op = "pop_all" THEN "dcas" ELSE "body"

\* The two halves of r = *s.
ReadHead(t) ==
  /\ pc[t] \in {"read", "readhead"}
  /\ r' = [r EXCEPT ![t].head = mem[call[t].stack].head]
  /\ Goto(t, IF At(t, "read") THEN "readcount" ELSE LoopStart(call[t].op))
  /\ UNCHANGED <<mem, next, owned, chain, call, link>>

ReadCount(t) ==
  /\ pc[t] \in {"read", "readcount"}
  /\ r' = [r EXCEPT ![t].count = mem[call[t].stack].count]
  /\ Goto(t, IF At(t, "read") THEN "readhead" ELSE LoopStart(call[t].op))
  /\ UNCHANGED <<mem, next, owned, chain, call, link>>

SetLink(t) ==
  /\ At(t, "body")
  /\ call[t].op = "push"
  /\ next' = [next EXCEPT ![call[t].ptr] = r[t].head]
  /\ Goto(t, "dcas")
  /\ UNCHANGED <<mem, owned, chain, call, r, link>>

\* Mutant: pop does not look whether there is a node.
GetLinkUnguarded(t) ==
  /\ At(t, "body")
  /\ call[t].op = "pop"
  /\ link' = [link EXCEPT ![t] = IF r[t].head = Null THEN Null ELSE next[r[t].head]]
  /\ Goto(t, "dcas")
  /\ UNCHANGED <<mem, next, owned, chain, call, r>>

\* pop returns NULL when its copy of the stack is empty.  The node it reads
\* may have been popped and reused meanwhile.
GetLink(t) ==
  /\ At(t, "body")
  /\ call[t].op = "pop"
  /\ IF r[t].head = Null
     THEN Goto(t, "idle") /\ UNCHANGED link
     ELSE link' = [link EXCEPT ![t] = next[r[t].head]] /\ Goto(t, "dcas")
  /\ UNCHANGED <<mem, next, owned, chain, call, r>>

\* Mutant: the assertion is compiled out.
AssertNothing(t) ==
  /\ At(t, "body")
  /\ call[t].op = "push_all"
  /\ Goto(t, "dcas")
  /\ UNCHANGED <<mem, next, owned, chain, call, r, link>>

\* assert(r.v[0] == 0) in push_all.
AssertEmpty(t) ==
  /\ At(t, "body")
  /\ call[t].op = "push_all"
  /\ Goto(t, IF r[t].head = Null THEN "dcas" ELSE "stopped")
  /\ UNCHANGED <<mem, next, owned, chain, call, r, link>>

\* The head that a successful compare-and-swap stores.
NewHead(t) ==
  CASE call[t].op \in {"push", "push_all"} -> call[t].ptr
    [] call[t].op = "pop" -> link[t]
    [] call[t].op = "pop_all" -> Null

\* Mutant: the counter is left alone, so the stack can change and change back.
CountUp0(c) == c

CountUp(c) == c + 1

\* Mutant: only the head is compared.
MatchesHead(t) == mem[call[t].stack].head = r[t].head

\* ebi_dcas compares both words.
Matches(t) == mem[call[t].stack] = r[t]

\* ebi_dcas succeeds: the stack takes the new words, and the lists change hands.
DcasSucceeds(t) ==
  LET s == call[t].stack
  IN /\ At(t, "dcas")
     /\ Matches(t)
     /\ mem' = [mem EXCEPT ![s] = [head |-> NewHead(t), count |-> CountUp(r[t].count)]]
     /\ owned' = [owned EXCEPT ![t] =
          CASE call[t].op = "push" -> @ \ {call[t].ptr}
            [] call[t].op = "pop" -> @ \cup {r[t].head}
            [] OTHER -> @]
     /\ chain' = [chain EXCEPT ![t] =
          CASE call[t].op = "push_all" -> Null
            [] call[t].op = "pop_all" -> r[t].head
            [] OTHER -> @]
     /\ Goto(t, CASE call[t].op = "pop" -> "clear"
                  [] call[t].op = "pop_all" -> "popped"
                  [] OTHER -> "idle")
     /\ UNCHANGED <<next, call, r, link>>

\* Mutant: what the 32-bit branch of ebi_dcas does, which writes the
\* comparand back to `cmp` instead of the value it found.
DcasFailsBlind(t) ==
  /\ At(t, "dcas")
  /\ ~Matches(t)
  /\ Goto(t, LoopStart(call[t].op))
  /\ UNCHANGED <<mem, next, owned, chain, call, r, link>>

\* ebi_dcas fails: r becomes what the stack holds now, and the loop repeats.
DcasFails(t) ==
  /\ At(t, "dcas")
  /\ ~Matches(t)
  /\ r' = [r EXCEPT ![t] = mem[call[t].stack]]
  /\ Goto(t, LoopStart(call[t].op))
  /\ UNCHANGED <<mem, next, owned, chain, call, link>>

\* The *head = NULL after the loop of pop.
ClearLink(t) ==
  /\ At(t, "clear")
  /\ next' = [next EXCEPT ![r[t].head] = Null]
  /\ Goto(t, "idle")
  /\ UNCHANGED <<mem, owned, chain, call, r, link>>

Step(t) ==
  /\ ~Stopped
  /\ \/ ReadHead(t) \/ ReadCount(t) \/ SetLink(t) \/ GetLink(t) \/ AssertEmpty(t)
     \/ DcasSucceeds(t) \/ DcasFails(t) \/ ClearLink(t)

Next ==
  \E t \in Threads :
    CallPush(t) \/ CallPop(t) \/ CallPopAll(t) \/ CallPushAll(t) \/ Step(t)

Spec == Init /\ [][Next]_vars

\* A thread that has made a call runs.  Nobody has to make one.
Fairness == \A t \in Threads : WF_vars(Step(t))

FairSpec == Spec /\ Fairness

-----------------------------------------------------------------------------
\* The nodes linked from a node on by their first words, at most k of them.
Walk(words) ==
  LET walk[k \in 0..Cardinality(Nodes)] ==
        [n \in NodeOrNull |->
          IF n = Null \/ k = 0 THEN <<>> ELSE <<n>> \o walk[k - 1][words[n]]]
  IN walk

ChainFrom(n) == Walk(next)[Cardinality(Nodes)][n]

Contents == [s \in AllStacks |-> ChainFrom(mem[s].head)]
Moved == [t \in Threads |-> ChainFrom(chain[t])]

S == INSTANCE ListStacks
       WITH Stacks <- AllStacks, items <- Contents, held <- owned, moving <- Moved

(***************************************************************************)
(* The stacks behave as if every operation were one step, its successful   *)
(* compare-and-swap, although a pop reads the link of a node that another  *)
(* thread may have popped, pushed elsewhere and pushed back meanwhile, and *)
(* although the first copy of the stack may be torn.                       *)
(***************************************************************************)
ImplementsStacks == S!StacksSpec

(***************************************************************************)
(* No list is lost, duplicated or left in two places: the stacks, the      *)
(* chain on its way from one to another and what the threads hold are      *)
(* disjoint, and no chain runs in a circle.                                *)
(***************************************************************************)
ListsInOnePlace ==
  /\ \A s \in AllStacks : IsInjective(Contents[s])
  /\ \A n \in Nodes :
       Quantify(AllStacks, LAMBDA s : Contains(Contents[s], n))
         + Quantify(Threads, LAMBDA t : n \in owned[t])
         + Quantify(Threads, LAMBDA t : Contains(Moved[t], n)) = 1

InCall(t) == pc[t] \notin {"idle", "popped"}

(***************************************************************************)
(* A call returns when the other threads make finitely many, unless an     *)
(* assertion stops the program: the retry loop compares with what it       *)
(* found, not with what it expected.                                       *)
(***************************************************************************)
EveryCallReturns == \A t \in Threads : InCall(t) ~> (~InCall(t) \/ Stopped)
=============================================================================
