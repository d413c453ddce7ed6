----------------------------- MODULE ListStacks -----------------------------
(***************************************************************************)
(* What the intrusive atomic stacks of ebi promise the collector: object   *)
(* lists move between threads and stacks in single steps, and each is in   *)
(* one place at a time.  IaStack implements it.                            *)
(***************************************************************************)
EXTENDS Sequences

CONSTANTS
  Nodes,    \* object lists, linked through their first word
  Threads,
  Stacks    \* the ebi_ia_stack fields of ebi_vm

VARIABLES
  items,   \* what each stack holds, newest first
  held,    \* lists each thread has to itself
  moving   \* the lists a thread has popped all at once, still linked

stackVars == <<items, held, moving>>

StacksInit ==
  /\ items = [s \in Stacks |-> <<>>]
  /\ held \in [Threads -> SUBSET Nodes]
  /\ \A t, u \in Threads : t # u => held[t] \cap held[u] = {}
  /\ moving = [t \in Threads |-> <<>>]

APush(t, s) ==
  /\ \E n \in held[t] :
       /\ items' = [items EXCEPT ![s] = <<n>> \o @]
       /\ held' = [held EXCEPT ![t] = @ \ {n}]
  /\ UNCHANGED moving

APop(t, s) ==
  /\ items[s] # <<>>
  /\ items' = [items EXCEPT ![s] = Tail(@)]
  /\ held' = [held EXCEPT ![t] = @ \cup {Head(items[s])}]
  /\ UNCHANGED moving

APopAll(t, s) ==
  /\ moving[t] = <<>>
  /\ moving' = [moving EXCEPT ![t] = items[s]]
  /\ items' = [items EXCEPT ![s] = <<>>]
  /\ UNCHANGED held

APushAll(t, s) ==
  /\ items[s] = <<>>
  /\ items' = [items EXCEPT ![s] = moving[t]]
  /\ moving' = [moving EXCEPT ![t] = <<>>]
  /\ UNCHANGED held

StacksNext ==
  \E t \in Threads, s \in Stacks :
    APush(t, s) \/ APop(t, s) \/ APopAll(t, s) \/ APushAll(t, s)

StacksSpec == StacksInit /\ [][StacksNext]_stackVars
=============================================================================
