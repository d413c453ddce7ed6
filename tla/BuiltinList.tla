---------------------------- MODULE BuiltinList ----------------------------
(***************************************************************************)
(* The list of ebi_builtin.c: ebi_list_push and ebi_list_pop.              *)
(*                                                                         *)
(* ebi_alloc, ebi_check, ebi_fail and ebi_type_assign have no definition   *)
(* in the repository.  As they are used here, ebi_alloc gives a new block, *)
(* whose contents nobody has written, or NULL; ebi_check tells whether an  *)
(* offset is within a block.  A block is a sequence of elements, NULL the  *)
(* empty one.                                                              *)
(***************************************************************************)
EXTENDS Integers, Sequences

CONSTANTS
    Elements,
    Unwritten,      \* what a new block holds
    MinCapacity,    \* 8
    CapacityModulus,\* 2^32: capacity is a uint32_t
    MaxSize         \* bounds the pushes that are tried

VARIABLES
    size, capacity, data,   \* the ebi_list
    result,                 \* "ok" or which error was returned
    items                   \* history: what was pushed and not popped

vars == <<size, capacity, data, result, items>>

Init ==
    /\ size = 0
    /\ capacity = 0
    /\ data = <<>>
    /\ result = "ok"
    /\ items = <<>>

ebi_check(block, end) == end <= Len(block)

ebi_alloc(count) == [i \in 1..count |-> Unwritten]

\* The first "count" elements of a block are overwritten by those of another.
memcpy(to, from, count) == [i \in DOMAIN to |-> IF i <= count THEN from[i] ELSE to[i]]

NewCapacity ==
    LET doubled == (capacity * 2) % CapacityModulus
    IN  IF doubled < MinCapacity THEN MinCapacity ELSE doubled

\* The list is full: the old block is given the contents of the new one, whose
\* place it loses.  (Nobody can look at the old block after that.)
Grown ==
    LET new_data == ebi_alloc(NewCapacity)
        old_data == memcpy(data, new_data, size)
    IN  [old |-> old_data, data |-> new_data, capacity |-> NewCapacity]

Full == size >= capacity

Fail(error) == result' = error /\ UNCHANGED <<size, items>>

\* Errors on the way to a new block: nothing was changed.
PushFails ==
    /\ Full
    /\ \/ ~ebi_check(data, size) /\ Fail("bounds")
       \/ ebi_check(data, size) /\ Fail("oom")
    /\ UNCHANGED <<capacity, data>>

\* The element is stored, in a new block if the list was full.
Push(elem) ==
    LET block == IF Full THEN Grown.data ELSE data
    IN  /\ size < MaxSize
        /\ Full => ebi_check(data, size)
        /\ capacity' = IF Full THEN Grown.capacity ELSE capacity
        /\ IF ebi_check(block, size + 1)
           THEN /\ data' = [block EXCEPT ![size + 1] = elem]
                /\ size' = size + 1
                /\ items' = Append(items, elem)
                /\ result' = "ok"
           ELSE data' = block /\ Fail("bounds")

PopEmpty == size = 0 /\ Fail("empty") /\ UNCHANGED <<capacity, data>>

\* The size is decremented before the bounds are checked.
Pop ==
    /\ size > 0
    /\ size' = size - 1
    /\ IF ebi_check(data, size)
       THEN result' = "ok" /\ items' = SubSeq(items, 1, Len(items) - 1)
       ELSE result' = "bounds" /\ UNCHANGED items
    /\ UNCHANGED <<capacity, data>>

Next == PushFails \/ (\E elem \in Elements : Push(elem)) \/ PopEmpty \/ Pop

Spec == Init /\ [][Next]_vars

-----------------------------------------------------------------------------
(***************************************************************************)
(* A list holds what was pushed on it and not popped, in order, however    *)
(* often it has grown; the list of sketch/list.ebi copies its elements     *)
(* into the new block.                                                     *)
(***************************************************************************)
HoldsWhatWasPushed ==
    /\ Len(items) = size
    /\ \A i \in 1..size : data[i] = items[i]
=============================================================================
