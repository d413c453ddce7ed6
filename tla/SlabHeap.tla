------------------------------ MODULE SlabHeap ------------------------------
(***************************************************************************)
(* ebi_slab_get_free of ebi_heap.c: a thread takes the free slots of a     *)
(* slab, mask by mask, while slots are set free by others, and lists them  *)
(* in dst.                                                                 *)
(*                                                                         *)
(* A mask is the set of the slots whose bits are 1.  The four packed       *)
(* counts are kept as the numbers they are, a nibble each to base 16.  The *)
(* function has no caller yet, and nothing sets a slot free: both are the  *)
(* environment here.  dst is written where d points, however far that is.  *)
(***************************************************************************)
EXTENDS Integers, FiniteSets, FiniteSetsExt, TLC

CONSTANTS
    NumMasks,       \* slab->num_masks
    Nibbles,        \* nibbles of a mask: 8 in the code
    Threads

VARIABLES
    mask,           \* slab->mask
    pc,             \* per thread: "idle", "take", "list" or "return"
    masks,          \* its copies of the masks; the index below counts them
    list,           \* where it is in the loops, d and dst
    held            \* the slots whose bits a thread took and may allocate

vars == <<mask, pc, masks, list, held>>

Bits == 4 * Nibbles
Masks == 0..NumMasks - 1
Slots == 0..NumMasks * Bits - 1
SlotsOf(i) == {slot \in Slots : slot \div Bits = i}

NoMasks == [i \in Masks |-> {}]
NewList == [i |-> 0, nibble |-> 0, d |-> 0, dst |-> <<>>]

\* All slots of a new slab are free.
Init ==
    /\ mask = [i \in Masks |-> SlotsOf(i)]
    /\ pc = [t \in Threads |-> "idle"]
    /\ masks = [t \in Threads |-> NoMasks]
    /\ list = [t \in Threads |-> NewList]
    /\ held = [t \in Threads |-> {}]

CallGetFree(t) ==
    /\ pc[t] = "idle"
    /\ pc' = [pc EXCEPT ![t] = "take"]
    /\ list' = [list EXCEPT ![t] = NewList]
    /\ UNCHANGED <<mask, masks, held>>

\* One exchange; after the last the second loop begins.
TakeMask(t) ==
    LET i == list[t].i
    IN  /\ pc[t] = "take"
        /\ masks' = [masks EXCEPT ![t][i] = mask[i]]
        /\ mask' = [mask EXCEPT ![i] = {}]
        /\ IF i + 1 = NumMasks
           THEN pc' = [pc EXCEPT ![t] = "list"] /\ list' = [list EXCEPT ![t].i = 0]
           ELSE pc' = pc /\ list' = [list EXCEPT ![t].i = i + 1]
        /\ UNCHANGED held

\* nb_popN: in each nibble, how many of its lowest N bits are 1.
Packed(slots, n) ==
    MapThenSumSet(LAMBDA slot : 16 ^ ((slot % Bits) \div 4), {slot \in slots : slot % 4 < n})

\* nb_popN after it was shifted "nibble" times.
Shifted(slots, n, nibble) == Packed(slots, n) \div 16 ^ nibble

\* One round of the while loop: four stores, of which the later win, then d
\* goes on.
ListNibble(t) ==
    LET l == list[t]
        offset == l.i * Bits + 4 * l.nibble
        Count(n) == Shifted(masks[t][l.i], n, l.nibble)
        last == l.nibble + 1 = Nibbles
    IN  /\ pc[t] = "list"
        /\ list' = [list EXCEPT ![t] =
             [i |-> IF last THEN l.i + 1 ELSE l.i,
              nibble |-> IF last THEN 0 ELSE l.nibble + 1,
              d |-> l.d + Count(4),
              dst |-> (l.d + Count(3) :> offset + 3) @@ (l.d + Count(2) :> offset + 2) @@
                      (l.d + Count(1) :> offset + 1) @@ (l.d :> offset) @@ l.dst]]
        /\ pc' = [pc EXCEPT ![t] = IF last /\ l.i + 1 = NumMasks THEN "return" ELSE "list"]
        /\ UNCHANGED <<mask, masks, held>>

Taken(t) == UNION {masks[t][i] : i \in Masks}

\* The count is d - dst.
Return(t) ==
    /\ pc[t] = "return"
    /\ pc' = [pc EXCEPT ![t] = "idle"]
    /\ held' = [held EXCEPT ![t] = @ \cup Taken(t)]
    /\ masks' = [masks EXCEPT ![t] = NoMasks]
    /\ UNCHANGED <<mask, list>>

\* Somebody frees an object: its bit is set with an atomic or.
Free(t, slot) ==
    /\ slot \in held[t]
    /\ held' = [held EXCEPT ![t] = @ \ {slot}]
    /\ mask' = [mask EXCEPT ![slot \div Bits] = @ \cup {slot}]
    /\ UNCHANGED <<pc, masks, list>>

Next ==
    \E t \in Threads :
      \/ CallGetFree(t) \/ TakeMask(t) \/ ListNibble(t) \/ Return(t)
      \/ \E slot \in Slots : Free(t, slot)

Spec == Init /\ [][Next]_vars

-----------------------------------------------------------------------------
(***************************************************************************)
(* What the function is for: it returns how many slots it took, and dst    *)
(* begins with them.  The comment in it promises counts per nibble and a   *)
(* branchless compaction; the stores and the advance of d use all nibbles  *)
(* of the packed counts.                                                   *)
(***************************************************************************)
ListsWhatItTook ==
    \A t \in Threads : pc[t] = "return" =>
      LET l == list[t]
      IN  /\ l.d = Cardinality(Taken(t))
          /\ \A slot \in Taken(t) : \E at \in 0..l.d - 1 : at \in DOMAIN l.dst /\ l.dst[at] = slot

(***************************************************************************)
(* A slot is in one place: free, taken by one call that has not returned,  *)
(* or with one thread, however calls and frees interleave.  None is lost   *)
(* between the masks of the slab and their copies.                         *)
(***************************************************************************)
SlotsInOnePlace ==
    /\ \A slot \in Slots :
         \/ slot \in mask[slot \div Bits]
         \/ \E t \in Threads : slot \in Taken(t) \cup held[t]
    /\ \A t \in Threads :
         /\ \A i \in Masks : mask[i] \cap (Taken(t) \cup held[t]) = {}
         /\ Taken(t) \cap held[t] = {}
         /\ \A u \in Threads \ {t} : (Taken(t) \cup held[t]) \cap (Taken(u) \cup held[u]) = {}
=============================================================================
