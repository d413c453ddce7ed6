--------------------------- MODULE SlabHeapProofs ---------------------------
(***************************************************************************)
(* Proof that the slots of a slab are neither lost nor taken twice: the    *)
(* exchange of a mask moves all its bits at once, and a call begins with   *)
(* no copies.                                                              *)
(***************************************************************************)
EXTENDS SlabHeap, TLAPS

\* A slab has a mask, and a mask a nibble.
SizesArePositive == NumMasks \in Nat \ {0} /\ Nibbles \in Nat \ {0}

TypeInv ==
    /\ mask \in [Masks -> SUBSET Slots]
    /\ pc \in [Threads -> {"idle", "take", "list", "return"}]
    /\ masks \in [Threads -> [Masks -> SUBSET Slots]]
    /\ list = [t \in Threads |-> [i |-> list[t].i, nibble |-> list[t].nibble,
                                   d |-> list[t].d, dst |-> list[t].dst]]
    /\ held \in [Threads -> SUBSET Slots]

\* The bits of a mask, and of its copies, are those of its own slots.
MasksAreApart ==
    /\ \A i \in Masks : mask[i] \subseteq SlotsOf(i)
    /\ \A t \in Threads, i \in Masks : masks[t][i] \subseteq SlotsOf(i)

\* A call has no copies of the masks it has yet to take, a thread outside of
\* calls none at all.
NothingYetTaken ==
    \A t \in Threads :
      /\ pc[t] = "idle" => Taken(t) = {}
      /\ pc[t] = "take" =>
           /\ list[t].i \in Masks
           /\ \A i \in Masks : i >= list[t].i => masks[t][i] = {}

SlabInv == TypeInv /\ MasksAreApart /\ NothingYetTaken /\ SlotsInOnePlace

-----------------------------------------------------------------------------
LEMMA MaskOfSlot ==
    ASSUME SizesArePositive, NEW slot \in Slots
    PROVE  slot \div Bits \in Masks
<1>1. Bits \in Nat \ {0} /\ NumMasks \in Nat \ {0} /\ slot \in Nat
  BY DEF Bits, SizesArePositive, Slots
<1> DEFINE q == slot \div Bits
<1>2. q \in Int /\ Bits * q <= slot /\ slot < Bits * q + Bits
  BY <1>1
<1>3. slot < NumMasks * Bits
  BY <1>1 DEF Slots
<1> HIDE DEF q
<1>4. q < NumMasks
  BY <1>1, <1>2, <1>3
<1>5. q >= 0
  BY <1>1, <1>2
<1> QED BY <1>1, <1>2, <1>4, <1>5 DEF Masks, q

LEMMA SlabInit == SizesArePositive /\ Init => SlabInv
<1> SUFFICES ASSUME SizesArePositive, Init PROVE SlabInv
  OBVIOUS
<1>1. TypeInv
  BY DEF Init, TypeInv, SlotsOf, NoMasks, NewList
<1>2. MasksAreApart
  BY DEF Init, MasksAreApart, NoMasks
<1>3. \A t \in Threads : Taken(t) = {} /\ held[t] = {} /\ pc[t] = "idle"
  BY DEF Init, Taken, NoMasks
<1>4. NothingYetTaken
  BY <1>3 DEF NothingYetTaken
<1>5. \A slot \in Slots : slot \in mask[slot \div Bits]
  BY MaskOfSlot DEF Init, SlotsOf
<1> QED BY <1>1, <1>2, <1>3, <1>4, <1>5 DEF SlabInv, SlotsInOnePlace

-----------------------------------------------------------------------------
\* Every step keeps the types and the masks apart.
LEMMA TypeStep ==
    ASSUME SizesArePositive, SlabInv, Next
    PROVE  TypeInv' /\ MasksAreApart'
<1> USE DEF SlabInv
<1>1. ASSUME NEW t \in Threads, CallGetFree(t) PROVE TypeInv' /\ MasksAreApart'
  BY <1>1 DEF CallGetFree, TypeInv, MasksAreApart, NewList
<1>2. ASSUME NEW t \in Threads, TakeMask(t) PROVE TypeInv' /\ MasksAreApart'
  <2>1. list[t].i \in Masks
    BY <1>2 DEF TakeMask, NothingYetTaken
  <2>2. mask' \in [Masks -> SUBSET Slots] /\ masks' \in [Threads -> [Masks -> SUBSET Slots]]
    BY <1>2, <2>1 DEF TakeMask, TypeInv
  <2>3. pc' \in [Threads -> {"idle", "take", "list", "return"}] /\ held' = held
    BY <1>2 DEF TakeMask, TypeInv
  <2>4. list' = [u \in Threads |-> [i |-> list'[u].i, nibble |-> list'[u].nibble,
                                    d |-> list'[u].d, dst |-> list'[u].dst]]
    BY <1>2 DEF TakeMask, TypeInv
  <2>5. MasksAreApart'
    BY <1>2, <2>1 DEF TakeMask, TypeInv, MasksAreApart
  <2> QED BY <2>2, <2>3, <2>4, <2>5 DEF TypeInv
<1>3. ASSUME NEW t \in Threads, ListNibble(t) PROVE TypeInv' /\ MasksAreApart'
  <2>1. PICK i, nibble, d, dst : list' = [list EXCEPT ![t] = [i |-> i, nibble |-> nibble, d |-> d, dst |-> dst]]
    BY <1>3, Zenon DEF ListNibble
  <2>2. \E p \in {"list", "return"} : pc' = [pc EXCEPT ![t] = p]
    BY <1>3 DEF ListNibble
  <2>3. mask' = mask /\ masks' = masks /\ held' = held
    BY <1>3, Zenon DEF ListNibble
  <2> QED BY <2>1, <2>2, <2>3 DEF TypeInv, MasksAreApart
<1>4. ASSUME NEW t \in Threads, Return(t) PROVE TypeInv' /\ MasksAreApart'
  BY <1>4 DEF Return, TypeInv, MasksAreApart, NoMasks, Taken
<1>5. ASSUME NEW t \in Threads, NEW slot \in Slots, Free(t, slot)
      PROVE  TypeInv' /\ MasksAreApart'
  <2>1. slot \div Bits \in Masks /\ slot \in SlotsOf(slot \div Bits)
    BY MaskOfSlot DEF SlotsOf
  <2>2. mask' = [mask EXCEPT ![slot \div Bits] = mask[slot \div Bits] \cup {slot}]
    BY <1>5 DEF Free
  <2>3. held' \in [Threads -> SUBSET Slots] /\ pc' = pc /\ masks' = masks /\ list' = list
    BY <1>5 DEF Free, TypeInv
  <2> QED BY <2>1, <2>2, <2>3 DEF TypeInv, MasksAreApart
<1> QED BY <1>1, <1>2, <1>3, <1>4, <1>5 DEF Next

\* What the slots of a thread are after an exchange: those of the mask too.
LEMMA TakenAfterExchange ==
    ASSUME SlabInv, NEW t \in Threads, TakeMask(t)
    PROVE  /\ list[t].i \in Masks
           /\ masks[t][list[t].i] = {}
           /\ Taken(t)' = Taken(t) \cup mask[list[t].i]
           /\ \A u \in Threads \ {t} : Taken(u)' = Taken(u)
<1>1. list[t].i \in Masks /\ masks[t][list[t].i] = {}
  BY DEF SlabInv, NothingYetTaken, TakeMask, Masks
<1>2. masks' = [masks EXCEPT ![t][list[t].i] = mask[list[t].i]]
  BY DEF TakeMask
<1>3. masks \in [Threads -> [Masks -> SUBSET Slots]]
  BY DEF SlabInv, TypeInv
<1>4. /\ masks'[t][list[t].i] = mask[list[t].i]
      /\ \A i \in Masks : i # list[t].i => masks'[t][i] = masks[t][i]
      /\ \A u \in Threads \ {t} : masks'[u] = masks[u]
  BY <1>1, <1>2, <1>3
<1> QED BY <1>1, <1>4 DEF Taken

LEMMA NothingYetTakenStep ==
    ASSUME SizesArePositive, SlabInv, Next
    PROVE  NothingYetTaken'
<1> USE DEF SlabInv
<1>1. ASSUME NEW t \in Threads, CallGetFree(t) PROVE NothingYetTaken'
  <2>1. Taken(t) = {} /\ masks' = masks
    BY <1>1 DEF CallGetFree, NothingYetTaken
  <2>2. pc'[t] = "take" /\ list'[t].i = 0
    BY <1>1 DEF CallGetFree, TypeInv, NewList
  <2>3. \A u \in Threads \ {t} : pc'[u] = pc[u] /\ list'[u] = list[u]
    BY <1>1 DEF CallGetFree, TypeInv
  <2>4. 0 \in Masks
    BY DEF Masks, SizesArePositive
  <2> QED BY <2>1, <2>2, <2>3, <2>4 DEF NothingYetTaken, Taken
<1>2. ASSUME NEW t \in Threads, TakeMask(t) PROVE NothingYetTaken'
  <2> DEFINE i == list[t].i
  <2>1. i \in Masks /\ \A j \in Masks : j >= i => masks[t][j] = {}
    BY <1>2 DEF NothingYetTaken, TakeMask
  <2>2. \A j \in Masks : j > i => masks'[t][j] = {}
    BY <1>2, <2>1 DEF TakeMask, TypeInv, Masks
  <2>3. \A u \in Threads \ {t} : pc'[u] = pc[u] /\ list'[u] = list[u] /\ masks'[u] = masks[u]
    BY <1>2 DEF TakeMask, TypeInv
  <2>4. \/ pc'[t] = "list"
        \/ pc'[t] = "take" /\ list'[t].i = i + 1 /\ i + 1 # NumMasks
    BY <1>2 DEF TakeMask, TypeInv
  <2>5. i + 1 # NumMasks => i + 1 \in Masks
    BY <2>1 DEF Masks, SizesArePositive
  <2>6. \A j \in Masks : j >= i + 1 => masks'[t][j] = {}
    BY <2>1, <2>2 DEF Masks
  <2> QED BY <2>3, <2>4, <2>5, <2>6 DEF NothingYetTaken, Taken
<1>3. ASSUME NEW t \in Threads, ListNibble(t) PROVE NothingYetTaken'
  <2>1. pc'[t] \in {"list", "return"} /\ masks' = masks
    BY <1>3 DEF ListNibble, TypeInv
  <2>2. \A u \in Threads \ {t} : pc'[u] = pc[u] /\ list'[u] = list[u]
    <3>1. PICK l, p : list' = [list EXCEPT ![t] = l] /\ pc' = [pc EXCEPT ![t] = p]
      BY <1>3, Zenon DEF ListNibble
    <3> QED BY <3>1 DEF TypeInv
  <2> QED BY <2>1, <2>2 DEF NothingYetTaken, Taken
<1>4. ASSUME NEW t \in Threads, Return(t) PROVE NothingYetTaken'
  <2>1. pc'[t] = "idle" /\ masks'[t] = NoMasks
    BY <1>4 DEF Return, TypeInv
  <2>2. \A u \in Threads \ {t} : pc'[u] = pc[u] /\ list'[u] = list[u] /\ masks'[u] = masks[u]
    BY <1>4 DEF Return, TypeInv
  <2> QED BY <2>1, <2>2 DEF NothingYetTaken, Taken, NoMasks
<1>5. ASSUME NEW t \in Threads, NEW slot \in Slots, Free(t, slot) PROVE NothingYetTaken'
  BY <1>5 DEF Free, NothingYetTaken, Taken
<1> QED BY <1>1, <1>2, <1>3, <1>4, <1>5 DEF Next

LEMMA OnePlaceStep ==
    ASSUME SizesArePositive, SlabInv, Next
    PROVE  SlotsInOnePlace'
<1> USE DEF SlabInv
<1>1. ASSUME NEW t \in Threads, CallGetFree(t) \/ ListNibble(t) PROVE SlotsInOnePlace'
  <2>1. mask' = mask /\ masks' = masks /\ held' = held
    BY <1>1, Zenon DEF CallGetFree, ListNibble
  <2> QED BY <2>1 DEF SlotsInOnePlace, Taken
<1>2. ASSUME NEW t \in Threads, TakeMask(t) PROVE SlotsInOnePlace'
  <2> DEFINE i == list[t].i
  <2>1. /\ i \in Masks
        /\ Taken(t)' = Taken(t) \cup mask[i]
        /\ \A u \in Threads \ {t} : Taken(u)' = Taken(u)
    BY <1>2, TakenAfterExchange
  <2>2. held' = held /\ mask' = [mask EXCEPT ![i] = {}]
    BY <1>2 DEF TakeMask
  <2> HIDE DEF i
  <2>3. mask'[i] = {} /\ \A j \in Masks : j # i => mask'[j] = mask[j]
    BY <2>1, <2>2 DEF TypeInv
  <2>4. \A j \in Masks : j # i => mask[j] \cap mask[i] = {}
    BY <2>1 DEF MasksAreApart, SlotsOf
  <2>5. \A slot \in Slots : slot \in mask'[slot \div Bits] \/ \E u \in Threads : slot \in Taken(u)' \cup held'[u]
    BY <2>1, <2>2, <2>3, MaskOfSlot DEF SlotsInOnePlace
  <2>6. \A u \in Threads, j \in Masks : mask'[j] \cap (Taken(u)' \cup held'[u]) = {}
    BY <2>1, <2>2, <2>3, <2>4 DEF SlotsInOnePlace
  <2>7. \A u \in Threads : Taken(u)' \cap held'[u] = {}
    BY <2>1, <2>2 DEF SlotsInOnePlace
  <2>8. \A u \in Threads : \A v \in Threads \ {u} : (Taken(u)' \cup held'[u]) \cap (Taken(v)' \cup held'[v]) = {}
    BY <2>1, <2>2 DEF SlotsInOnePlace
  <2> QED BY <2>5, <2>6, <2>7, <2>8 DEF SlotsInOnePlace
<1>3. ASSUME NEW t \in Threads, Return(t) PROVE SlotsInOnePlace'
  <2>1. mask' = mask /\ masks' = [masks EXCEPT ![t] = NoMasks] /\ held' = [held EXCEPT ![t] = held[t] \cup Taken(t)]
    BY <1>3 DEF Return
  <2>2. Taken(t)' = {} /\ \A u \in Threads \ {t} : Taken(u)' = Taken(u)
    BY <2>1 DEF Taken, TypeInv, NoMasks
  <2>3. held'[t] = held[t] \cup Taken(t) /\ \A u \in Threads \ {t} : held'[u] = held[u]
    BY <2>1 DEF TypeInv
  <2>4. \A u \in Threads : Taken(u)' \cup held'[u] = Taken(u) \cup held[u]
    BY <2>2, <2>3
  <2> QED BY <2>1, <2>2, <2>3, <2>4 DEF SlotsInOnePlace
<1>4. ASSUME NEW t \in Threads, NEW slot \in Slots, Free(t, slot) PROVE SlotsInOnePlace'
  <2> DEFINE i == slot \div Bits
  <2>1. i \in Masks
    BY MaskOfSlot
  <2>2. /\ slot \in held[t] /\ masks' = masks
        /\ held' = [held EXCEPT ![t] = held[t] \ {slot}]
        /\ mask' = [mask EXCEPT ![i] = mask[i] \cup {slot}]
    BY <1>4 DEF Free
  <2>3. \A u \in Threads : Taken(u)' = Taken(u)
    BY <2>2 DEF Taken
  <2>4. held'[t] = held[t] \ {slot} /\ \A u \in Threads \ {t} : held'[u] = held[u]
    BY <2>2 DEF TypeInv
  <2>5. mask'[i] = mask[i] \cup {slot} /\ \A j \in Masks \ {i} : mask'[j] = mask[j]
    BY <2>1, <2>2 DEF TypeInv
  <2>6. slot \notin Taken(t) /\ \A u \in Threads \ {t} : slot \notin Taken(u) \cup held[u]
    BY <2>2 DEF SlotsInOnePlace
  <2>7. \A s \in Slots : s \in mask'[s \div Bits] \/ \E u \in Threads : s \in Taken(u)' \cup held'[u]
    <3> TAKE s \in Slots
    <3>1. CASE s = slot
      BY <3>1, <2>5
    <3>2. CASE s # slot /\ s \in mask[s \div Bits]
      BY <3>2, <2>5, MaskOfSlot
    <3>3. CASE s # slot /\ \E u \in Threads : s \in Taken(u) \cup held[u]
      BY <3>3, <2>3, <2>4
    <3> QED BY <3>1, <3>2, <3>3 DEF SlotsInOnePlace
  <2> HIDE DEF i
  <2>8. \A u \in Threads, j \in Masks : mask'[j] \cap (Taken(u)' \cup held'[u]) = {}
    BY <2>3, <2>4, <2>5, <2>6 DEF SlotsInOnePlace
  <2>9. \A u \in Threads : Taken(u)' \cap held'[u] = {}
    BY <2>3, <2>4 DEF SlotsInOnePlace
  <2>10. \A u \in Threads : \A v \in Threads \ {u} : (Taken(u)' \cup held'[u]) \cap (Taken(v)' \cup held'[v]) = {}
    BY <2>3, <2>4 DEF SlotsInOnePlace
  <2> QED BY <2>7, <2>8, <2>9, <2>10 DEF SlotsInOnePlace
<1> QED BY <1>1, <1>2, <1>3, <1>4 DEF Next

(***************************************************************************)
(* For any number of masks, nibbles and threads: ebi_slab_get_free takes   *)
(* no slot that another call has, and loses none, while others are freed.  *)
(***************************************************************************)
THEOREM SlotsAreInOnePlace == SizesArePositive => (Spec => []SlotsInOnePlace)
<1> SUFFICES ASSUME SizesArePositive PROVE Spec => []SlotsInOnePlace
  OBVIOUS
<1>1. Init => SlabInv
  BY SlabInit
<1>2. SlabInv /\ [Next]_vars => SlabInv'
  <2>1. SlabInv /\ Next => SlabInv'
    BY TypeStep, NothingYetTakenStep, OnePlaceStep DEF SlabInv
  <2>2. SlabInv /\ UNCHANGED vars => SlabInv'
    <3> SUFFICES ASSUME SlabInv, UNCHANGED vars PROVE SlabInv'
      OBVIOUS
    <3>1. mask' = mask /\ pc' = pc /\ masks' = masks /\ list' = list /\ held' = held
      BY DEF vars
    <3>2. TypeInv' /\ MasksAreApart'
      BY <3>1 DEF SlabInv, TypeInv, MasksAreApart
    <3>3. NothingYetTaken'
      BY <3>1 DEF SlabInv, NothingYetTaken, Taken
    <3>4. SlotsInOnePlace'
      BY <3>1 DEF SlabInv, SlotsInOnePlace, Taken
    <3> QED BY <3>2, <3>3, <3>4 DEF SlabInv
  <2> QED BY <2>1, <2>2
<1>3. SlabInv => SlotsInOnePlace
  BY DEF SlabInv
<1> QED BY <1>1, <1>2, <1>3, PTL DEF Spec
=============================================================================
