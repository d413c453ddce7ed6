---------------------------- MODULE IaStackProofs ----------------------------
(***************************************************************************)
(* Proofs about the intrusive atomic stacks: they implement stacks whose   *)
(* operations are atomic.                                                  *)
(*                                                                         *)
(* The count beside the head is what makes it true.  A copy of the count   *)
(* is taken before the link of a node is read, and no success leaves the   *)
(* count alone; if the compare-and-swap of a pop succeeds, the stack has   *)
(* been the same since, its head was in it, and nobody writes to the first *)
(* word of a list that is in a stack.                                      *)
(*                                                                         *)
(* push_all links nothing: that it cuts no chain off follows from what it  *)
(* asserts of its copy.                                                    *)
(***************************************************************************)
EXTENDS IaStack, FiniteSetTheorems, SequenceTheorems, WellFoundedInduction, TLAPS

\* The words of the nodes that a chain goes along.
IsChain(q, head, words) ==
  /\ q \in Seq(Nodes)
  /\ IsInjective(q)
  /\ head = IF q = <<>> THEN Null ELSE q[1]
  /\ \A i \in 1..Len(q) : words[q[i]] = IF i = Len(q) THEN Null ELSE q[i + 1]

-----------------------------------------------------------------------------
(***************************************************************************)
(* The invariant.                                                          *)
(***************************************************************************)
\* The stacks and the chain of each mover are chains that end.
ChainsOK ==
  /\ \A s \in AllStacks : IsChain(Contents[s], mem[s].head, next)
  /\ \A t \in Threads : IsChain(Moved[t], chain[t], next)

\* A list is in one stack, or with one thread, or in one chain on its way.
ApartAt(n, items, held, moving) ==
  /\ \A s, o \in AllStacks : Contains(items[s], n) /\ Contains(items[o], n) => s = o
  /\ \A t, u \in Threads : n \in held[t] /\ n \in held[u] => t = u
  /\ \A t, u \in Threads : Contains(moving[t], n) /\ Contains(moving[u], n) => t = u
  /\ \A s \in AllStacks, t \in Threads : ~(Contains(items[s], n) /\ n \in held[t])
  /\ \A s \in AllStacks, t \in Threads : ~(Contains(items[s], n) /\ Contains(moving[t], n))
  /\ \A t, u \in Threads : ~(n \in held[t] /\ Contains(moving[u], n))

Apart(items, held, moving) == \A n \in Nodes : ApartAt(n, items, held, moving)

Somewhere(items, held, moving) ==
  \A n \in Nodes :
    \/ \E s \in AllStacks : Contains(items[s], n)
    \/ \E t \in Threads : n \in held[t] \/ Contains(moving[t], n)

OnePlace == Apart(Contents, owned, Moved) /\ Somewhere(Contents, owned, Moved)

\* A thread whose copy of the count was taken in this call.
HasCount(t) == pc[t] \in {"readhead", "body", "dcas"}

\* What a call may rely on: a pushed list is its own; a popped one was in the
\* stack, and if the stack has not changed since the count was copied, what
\* was read from it is still the next one.
CallOK(t) ==
  /\ pc[t] # "idle" /\ call[t].op = "push" => call[t].stack \in Stacks /\ call[t].ptr \in owned[t]
  /\ pc[t] # "idle" /\ call[t].op = "pop_all" => call[t].stack \in Stacks
  /\ chain[t] # Null => pc[t] = "popped" \/ (pc[t] # "idle" /\ call[t].op = "push_all")
  /\ pc[t] # "idle" /\ call[t].op = "push_all" => call[t].stack = SweepStack /\ call[t].ptr = chain[t]
  /\ HasCount(t) => r[t].count <= mem[call[t].stack].count
  /\ pc[t] = "dcas" /\ call[t].op = "push" => next[call[t].ptr] = r[t].head
  /\ pc[t] = "dcas" /\ call[t].op = "push_all" => r[t].head = Null
  /\ pc[t] = "dcas" /\ call[t].op = "pop" => r[t].head \in Nodes
  /\ pc[t] = "dcas" /\ call[t].op = "pop" /\ Matches(t) => link[t] = next[r[t].head]
  /\ pc[t] = "clear" => call[t].op = "pop" /\ r[t].head \in owned[t]

CallInv == \A t \in Threads : CallOK(t)

IInv == TypeOK /\ ChainsOK /\ OnePlace /\ CallInv

-----------------------------------------------------------------------------
(***************************************************************************)
(* Chains: Walk finds the only one that begins at a node.                  *)
(***************************************************************************)
LEMMA LeastNatural ==
  ASSUME NEW set \in SUBSET Nat, set # {}
  PROVE  \E x \in set : \A y \in set : x <= y
<1> DEFINE Less == OpToRel(<, Nat)
<1>1. \E x \in set : \A y \in set : ~(<<y, x>> \in Less)
  <2>1. IsWellFoundedOn(Less, Nat)
    BY NatLessThanWellFounded
  <2> HIDE DEF Less
  <2> QED BY <2>1, WFMin
<1>2. \A x, y \in Nat : <<y, x>> \in Less <=> y < x
  BY DEF OpToRel
<1> HIDE DEF Less
<1>3. PICK x \in set : \A y \in set : ~(<<y, x>> \in Less)
  BY <1>1
<1>4. ASSUME NEW y \in set PROVE x <= y
  <2>1. x \in Nat /\ y \in Nat
    OBVIOUS
  <2>2. ~(y < x)
    BY <1>2, <1>3, <2>1, Zenon
  <2> QED BY <2>1, <2>2
<1> QED BY <1>3, <1>4

LEMMA NodesAreCounted == Cardinality(Nodes) \in Nat
  BY StackAssumption, FS_CardinalityType

\* The function Walk speaks of exists.
LEMMA WalkUnfolds ==
  ASSUME NEW words \in [Nodes -> NodeOrNull]
  PROVE  Walk(words) =
           [k \in 0..Cardinality(Nodes) |-> [n \in NodeOrNull |->
             IF n = Null \/ k = 0 THEN <<>> ELSE <<n>> \o Walk(words)[k - 1][words[n]]]]
<1> DEFINE Row(f, k) == [n \in NodeOrNull |->
                          IF n = Null \/ k = 0 THEN <<>> ELSE <<n>> \o f[k - 1][words[n]]]
           Walks(f, top) == f = [k \in 0..top |-> Row(f, k)]
           Missing == {top \in Nat : ~\E f : Walks(f, top)}
<1>1. \A f, top : Walks(f, top) <=> f = [k \in 0..top |-> Row(f, k)]
  OBVIOUS
<1>2. \A f, g, k : k # 0 /\ f[k - 1] = g[k - 1] => Row(f, k) = Row(g, k)
  OBVIOUS
<1>3. \A f, g : Row(f, 0) = Row(g, 0)
  OBVIOUS
<1> HIDE DEF Row, Walks
<1>4. \E f : Walks(f, 0)
  <2> DEFINE g == [k \in 0..0 |-> Row(<<>>, 0)]
  <2>1. g = [k \in 0..0 |-> Row(g, k)]
    BY <1>3
  <2> QED BY <1>1, <2>1
<1>5. ASSUME NEW top \in Nat, NEW f, Walks(f, top) PROVE \E g : Walks(g, top + 1)
  <2> DEFINE g == [k \in 0..top + 1 |-> IF k = top + 1 THEN Row(f, k) ELSE f[k]]
  <2>1. \A k \in 0..top : g[k] = f[k]
    OBVIOUS
  <2>2. f = [k \in 0..top |-> Row(f, k)]
    BY <1>1, <1>5
  <2>3. \A k \in 0..top + 1 : g[k] = Row(f, k)
    <3>1. g[top + 1] = Row(f, top + 1)
      OBVIOUS
    <3>2. \A k \in 0..top : f[k] = Row(f, k)
      BY <2>2, Zenon
    <3> QED BY <2>1, <3>1, <3>2
  <2>4. \A k \in 0..top + 1 : Row(f, k) = Row(g, k)
    <3> TAKE k \in 0..top + 1
    <3>1. CASE k = 0
      BY <3>1, <1>3
    <3>2. CASE k # 0
      <4>1. k - 1 \in 0..top
        BY <3>2
      <4> QED BY <4>1, <3>2, <2>1, <1>2
    <3> QED BY <3>1, <3>2
  <2>5. g = [k \in 0..top + 1 |-> Row(g, k)]
    BY <2>3, <2>4
  <2> QED BY <1>1, <2>5
<1>6. Missing = {}
  <2> SUFFICES ASSUME Missing # {} PROVE FALSE
    OBVIOUS
  <2>1. PICK top \in Missing : \A other \in Missing : top <= other
    BY LeastNatural
  <2>2. top # 0
    BY <1>4
  <2>3. top - 1 \in Nat /\ top - 1 \notin Missing
    BY <2>1, <2>2
  <2>4. PICK f : Walks(f, top - 1)
    BY <2>3
  <2>5. \E g : Walks(g, (top - 1) + 1)
    BY <2>3, <2>4, <1>5
  <2> QED BY <2>1, <2>5
<1>7. PICK f : Walks(f, Cardinality(Nodes))
  BY <1>6, NodesAreCounted
<1> DEFINE w == CHOOSE g : g = [k \in 0..Cardinality(Nodes) |-> Row(g, k)]
<1>8. w = [k \in 0..Cardinality(Nodes) |-> Row(w, k)]
  <2>1. \E g : g = [k \in 0..Cardinality(Nodes) |-> Row(g, k)]
    BY <1>1, <1>7
  <2> HIDE DEF Row
  <2> QED BY <2>1
<1>9. Walk(words) = w
  BY DEF Walk, Row
<1> HIDE DEF w
<1> QED BY <1>8, <1>9 DEF Row

\* A chain that ends is found by a walk as long as there are nodes.
LEMMA ChainIsWalked ==
  ASSUME NEW words \in [Nodes -> NodeOrNull], NEW head, NEW q, IsChain(q, head, words)
  PROVE  Walk(words)[Cardinality(Nodes)][head] = q
<1> DEFINE N == Cardinality(Nodes)
           W == Walk(words)
           L == Len(q)
           Elem(j) == IF j = 0 THEN Null ELSE q[L - j + 1]
           Rest(j) == SubSeq(q, L - j + 1, L)
           Bad == {j \in 0..L : \E k \in j..N : W[k][Elem(j)] # Rest(j)}
<1>1. q \in Seq(Nodes) /\ L \in Nat /\ q \in [1..L -> Nodes] /\ DOMAIN q = 1..L
  BY LenProperties DEF IsChain
<1>2. L <= N
  <2>1. q \in Injection(1..L, Nodes)
    BY <1>1 DEF IsChain, Injection
  <2>2. Cardinality(1..L) <= N
    BY <2>1, FS_Injection, StackAssumption
  <2>3. Cardinality(1..L) = IF 1 > L THEN 0 ELSE L - 1 + 1
    BY <1>1, FS_Interval
  <2>4. Cardinality(1..L) = L
    BY <1>1, <2>3
  <2> QED BY <2>2, <2>4
<1>3. \A k \in 0..N, n \in NodeOrNull :
        W[k][n] = IF n = Null \/ k = 0 THEN <<>> ELSE <<n>> \o W[k - 1][words[n]]
  <2>1. W = [k \in 0..N |-> [n \in NodeOrNull |->
              IF n = Null \/ k = 0 THEN <<>> ELSE <<n>> \o W[k - 1][words[n]]]]
    BY WalkUnfolds, Zenon
  <2> HIDE DEF W, N
  <2> DEFINE Row(k) == [n \in NodeOrNull |->
              IF n = Null \/ k = 0 THEN <<>> ELSE <<n>> \o W[k - 1][words[n]]]
  <2>2. \A k \in 0..N : W[k] = Row(k)
    BY <2>1, Zenon
  <2> QED BY <2>2
<1>4. \A j \in 0..L : Elem(j) \in NodeOrNull
  BY <1>1 DEF NodeOrNull
<1> HIDE DEF W
<1>5. Bad = {}
  <2> SUFFICES ASSUME Bad # {} PROVE FALSE
    OBVIOUS
  <2>1. Bad \in SUBSET Nat
    OBVIOUS
  <2>2. PICK j \in Bad : \A other \in Bad : j <= other
    BY <2>1, LeastNatural
  <2>3. PICK k \in j..N : W[k][Elem(j)] # Rest(j)
    OBVIOUS
  <2>4. j \in 0..L /\ k \in 0..N /\ N \in Nat
    BY <1>2, NodesAreCounted
  <2>5. CASE j = 0
    <3>1. W[k][Null] = <<>>
      BY <1>3, <2>4 DEF NodeOrNull
    <3>2. Rest(0) = <<>>
      BY <1>1, SubSeqEmpty
    <3> QED BY <3>1, <3>2, <2>3, <2>5
  <2>6. CASE j # 0
    <3> DEFINE i == L - j + 1
    <3>1. i \in 1..L /\ k # 0 /\ k - 1 \in (j - 1)..N /\ j - 1 \in 0..L
      BY <2>4, <2>6, <1>1
    <3>2. Elem(j) = q[i] /\ q[i] \in Nodes /\ q[i] # Null /\ q[i] \in NodeOrNull
      BY <3>1, <2>6, <1>1, StackAssumption DEF NodeOrNull
    <3>3. words[q[i]] = Elem(j - 1)
      <4>1. words[q[i]] = IF i = L THEN Null ELSE q[i + 1]
        BY <3>1 DEF IsChain
      <4>2. i = L <=> j - 1 = 0
        BY <2>4, <1>1
      <4>3. L - (j - 1) + 1 = i + 1
        BY <2>4, <1>1
      <4> QED BY <4>1, <4>2, <4>3
    <3>4. W[k][q[i]] = <<q[i]>> \o W[k - 1][Elem(j - 1)]
      <4>1. k \in 0..N /\ ~(q[i] = Null \/ k = 0)
        BY <2>4, <3>1, <3>2, <1>1
      <4>2. W[k][q[i]] = IF q[i] = Null \/ k = 0 THEN <<>> ELSE <<q[i]>> \o W[k - 1][words[q[i]]]
        BY <1>3, <4>1, <3>2, Zenon
      <4> QED BY <4>1, <4>2, <3>3, Zenon
    <3>5. W[k - 1][Elem(j - 1)] = Rest(j - 1)
      <4>1. j - 1 \notin Bad
        <5>1. j - 1 < j
          BY <2>4, <1>1
        <5>2. j - 1 \in Bad => j <= j - 1
          BY <2>2
        <5> QED BY <5>1, <5>2, <2>4, <1>1
      <4> QED BY <4>1, <3>1
    <3>6. Rest(j - 1) = SubSeq(q, i + 1, L) /\ Rest(j) = SubSeq(q, i, L)
      <4>1. L - (j - 1) + 1 = i + 1
        BY <2>4, <1>1
      <4> QED BY <4>1
    <3>7. SubSeq(q, i, L) = <<q[i]>> \o SubSeq(q, i + 1, L)
      <4>1. L \in i..L
        BY <3>1, <1>1
      <4> HIDE DEF i, L
      <4> QED BY <4>1, <3>1, <1>1, SubSeqRecursiveFirst
    <3> QED BY <2>3, <3>2, <3>4, <3>5, <3>6, <3>7
  <2> QED BY <2>5, <2>6
<1>6. W[N][Elem(L)] = Rest(L)
  <2>1. L \in 0..L /\ N \in L..N
    BY <1>1, <1>2, NodesAreCounted
  <2> QED BY <2>1, <1>5
<1>7. Rest(L) = q
  <2>1. L - L + 1 = 1
    BY <1>1
  <2> QED BY <2>1, <1>1, SubSeqFull
<1>8. Elem(L) = head
  <2>1. q = <<>> <=> L = 0
    BY <1>1, EmptySeq
  <2>2. L - L + 1 = 1
    BY <1>1
  <2> QED BY <2>1, <2>2 DEF IsChain
<1> QED BY <1>6, <1>7, <1>8 DEF W

\* Only the words of its own nodes matter to a chain.
LEMMA ChainStays ==
  ASSUME NEW q, NEW head, NEW old, NEW new, IsChain(q, head, old),
         \A n \in Nodes : Contains(q, n) => new[n] = old[n]
  PROVE  IsChain(q, head, new)
<1>1. \A i \in 1..Len(q) : q[i] \in Nodes /\ Contains(q, q[i])
  BY ElementOfSeq DEF IsChain, Contains
<1> QED BY <1>1 DEF IsChain

\* A node is put before a chain.
LEMMA ChainGrows ==
  ASSUME NEW q, NEW head, NEW words, IsChain(q, head, words),
         NEW n \in Nodes, ~Contains(q, n), words[n] = head
  PROVE  /\ IsChain(<<n>> \o q, n, words)
         /\ \A m : Contains(<<n>> \o q, m) <=> m = n \/ Contains(q, m)
<1> DEFINE p == <<n>> \o q
<1>1. q \in Seq(Nodes) /\ Len(q) \in Nat /\ q \in [1..Len(q) -> Nodes] /\ DOMAIN q = 1..Len(q)
  BY LenProperties DEF IsChain
<1>2. p \in Seq(Nodes) /\ Len(p) = Len(q) + 1 /\ p[1] = n
      /\ \A i \in 1..Len(q) : p[i + 1] = q[i]
  BY <1>1
<1>3. DOMAIN p = 1..Len(q) + 1 /\ p # <<>>
  BY <1>2, <1>1
<1> HIDE DEF p
<1>4. \A i \in 2..Len(q) + 1 : i - 1 \in 1..Len(q) /\ p[i] = q[i - 1]
  <2> TAKE i \in 2..Len(q) + 1
  <2>1. i - 1 \in 1..Len(q) /\ (i - 1) + 1 = i
    BY <1>1
  <2> QED BY <2>1, <1>2
<1>5. \A m : Contains(p, m) <=> m = n \/ Contains(q, m)
  <2> TAKE m
  <2>1. ASSUME Contains(p, m) PROVE m = n \/ Contains(q, m)
    <3>1. PICK i \in 1..Len(q) + 1 : p[i] = m
      BY <2>1, <1>2 DEF Contains
    <3>2. i = 1 \/ i \in 2..Len(q) + 1
      BY <1>1
    <3> QED BY <3>1, <3>2, <1>2, <1>4 DEF Contains
  <2>2. ASSUME m = n PROVE Contains(p, m)
    <3>1. 1 \in 1..Len(p)
      BY <1>1, <1>2
    <3> QED BY <2>2, <3>1, <1>2 DEF Contains
  <2>3. ASSUME Contains(q, m) PROVE Contains(p, m)
    <3>1. PICK i \in 1..Len(q) : q[i] = m
      BY <2>3 DEF Contains
    <3>2. i + 1 \in 1..Len(p) /\ p[i + 1] = m
      BY <3>1, <1>1, <1>2
    <3> QED BY <3>2 DEF Contains
  <2> QED BY <2>1, <2>2, <2>3
<1>6. IsInjective(p)
  <2> SUFFICES ASSUME NEW i \in 1..Len(q) + 1, NEW j \in 1..Len(q) + 1, p[i] = p[j]
               PROVE  i = j
    BY <1>3 DEF IsInjective
  <2>1. \A k \in 2..Len(q) + 1 : p[k] # n
    BY <1>4 DEF Contains
  <2>2. CASE i = 1 \/ j = 1
    BY <2>1, <2>2, <1>2, <1>1
  <2>3. CASE i # 1 /\ j # 1
    <3>1. i \in 2..Len(q) + 1 /\ j \in 2..Len(q) + 1
      BY <2>3, <1>1
    <3>2. i - 1 \in DOMAIN q /\ j - 1 \in DOMAIN q /\ q[i - 1] = q[j - 1]
      BY <3>1, <1>4, <1>1
    <3>3. i - 1 = j - 1
      BY <3>2 DEF IsChain, IsInjective
    <3> QED BY <3>1, <3>3
  <2> QED BY <2>2, <2>3
<1>7. \A i \in 1..Len(p) : words[p[i]] = IF i = Len(p) THEN Null ELSE p[i + 1]
  <2> TAKE i \in 1..Len(p)
  <2>1. CASE i = 1
    <3>1. q = <<>> <=> Len(q) = 0
      BY <1>1, EmptySeq
    <3>2. CASE Len(q) = 0
      BY <2>1, <3>1, <3>2, <1>2 DEF IsChain
    <3>3. CASE Len(q) # 0
      <4>1. 1 \in 1..Len(q) /\ p[1 + 1] = q[1] /\ 1 # Len(p)
        BY <3>3, <1>1, <1>2
      <4>2. words[n] = q[1]
        BY <3>1, <3>3 DEF IsChain
      <4> QED BY <2>1, <4>1, <4>2, <1>2
    <3> QED BY <3>2, <3>3
  <2>2. CASE i # 1
    <3>1. i \in 2..Len(q) + 1
      BY <2>2, <1>1, <1>2
    <3>2. p[i] = q[i - 1] /\ i - 1 \in 1..Len(q)
      BY <3>1, <1>4
    <3>3. words[q[i - 1]] = IF i - 1 = Len(q) THEN Null ELSE q[(i - 1) + 1]
      BY <3>2 DEF IsChain
    <3>4. CASE i = Len(p)
      BY <3>2, <3>3, <3>4, <1>1, <1>2
    <3>5. CASE i # Len(p)
      <4>1. i \in 1..Len(q) /\ (i - 1) + 1 = i /\ i - 1 # Len(q)
        BY <3>1, <3>5, <1>1, <1>2
      <4> QED BY <4>1, <3>2, <3>3, <3>5, <1>2
    <3> QED BY <3>4, <3>5
  <2> QED BY <2>1, <2>2
<1>8. IsChain(p, n, words)
  BY <1>2, <1>3, <1>6, <1>7 DEF IsChain
<1> QED BY <1>5, <1>8 DEF p

\* The first node of a chain is taken.
LEMMA ChainShrinks ==
  ASSUME NEW q, NEW head \in Nodes, NEW words, IsChain(q, head, words)
  PROVE  /\ q # <<>> /\ Head(q) = head /\ Contains(q, head)
         /\ IsChain(Tail(q), words[head], words)
         /\ \A m : Contains(Tail(q), m) <=> Contains(q, m) /\ m # head
<1> DEFINE p == Tail(q)
<1>1. q \in Seq(Nodes) /\ Len(q) \in Nat /\ q \in [1..Len(q) -> Nodes] /\ DOMAIN q = 1..Len(q)
  BY LenProperties DEF IsChain
<1>2. q # <<>> /\ q[1] = head
  BY StackAssumption DEF IsChain
<1>3. Len(q) # 0 /\ Head(q) = head /\ 1 \in 1..Len(q)
  BY <1>1, <1>2, EmptySeq
<1>4. /\ p \in Seq(Nodes)
      /\ Len(p) = Len(q) - 1
      /\ \A i \in 1..Len(q) - 1 : p[i] = q[i + 1]
  BY <1>1, <1>2, HeadTailProperties
<1>5. DOMAIN p = 1..Len(q) - 1
  BY <1>4, LenProperties
<1> HIDE DEF p
<1>6. \A i \in 1..Len(q) - 1 : i + 1 \in 1..Len(q) /\ i \in 1..Len(q)
  BY <1>1
<1>7. \A i \in 1..Len(q) : q[i] = head => i = 1
  BY <1>1, <1>2, <1>3 DEF IsChain, IsInjective
<1>8. \A m : Contains(p, m) <=> Contains(q, m) /\ m # head
  <2> TAKE m
  <2>1. ASSUME Contains(p, m) PROVE Contains(q, m) /\ m # head
    <3>1. PICK i \in 1..Len(q) - 1 : p[i] = m
      BY <2>1, <1>4 DEF Contains
    <3>2. q[i + 1] = m /\ i + 1 # 1 /\ i + 1 \in 1..Len(q)
      BY <3>1, <1>4, <1>6
    <3> QED BY <3>2, <1>7 DEF Contains
  <2>2. ASSUME Contains(q, m), m # head PROVE Contains(p, m)
    <3>1. PICK i \in 1..Len(q) : q[i] = m
      BY <2>2 DEF Contains
    <3>2. i # 1
      BY <3>1, <2>2, <1>2
    <3>3. i - 1 \in 1..Len(q) - 1 /\ (i - 1) + 1 = i
      BY <3>2, <1>1
    <3>4. p[i - 1] = m
      BY <3>1, <3>3, <1>4
    <3> QED BY <3>3, <3>4, <1>4 DEF Contains
  <2> QED BY <2>1, <2>2
<1>9. IsInjective(p)
  <2> SUFFICES ASSUME NEW i \in 1..Len(q) - 1, NEW j \in 1..Len(q) - 1, p[i] = p[j]
               PROVE  i = j
    BY <1>5 DEF IsInjective
  <2>1. q[i + 1] = q[j + 1] /\ i + 1 \in DOMAIN q /\ j + 1 \in DOMAIN q
    BY <1>1, <1>4, <1>6
  <2>2. i + 1 = j + 1
    BY <2>1 DEF IsChain, IsInjective
  <2> QED BY <2>2
<1>10. words[head] = IF p = <<>> THEN Null ELSE p[1]
  <2>1. words[head] = IF 1 = Len(q) THEN Null ELSE q[1 + 1]
    BY <1>2, <1>3 DEF IsChain
  <2>2. p = <<>> <=> Len(q) = 1
    BY <1>1, <1>4, EmptySeq
  <2>3. Len(q) # 1 => 1 \in 1..Len(q) - 1
    BY <1>1, <1>3
  <2>4. Len(q) # 1 => p[1] = q[1 + 1]
    BY <1>4, <2>3
  <2> QED BY <2>1, <2>2, <2>4
<1>11. \A i \in 1..Len(p) : words[p[i]] = IF i = Len(p) THEN Null ELSE p[i + 1]
  <2> TAKE i \in 1..Len(p)
  <2>1. i \in 1..Len(q) - 1
    BY <1>4
  <2>2. words[q[i + 1]] = IF i + 1 = Len(q) THEN Null ELSE q[(i + 1) + 1]
    BY <2>1, <1>6 DEF IsChain
  <2>3. p[i] = q[i + 1]
    BY <2>1, <1>4
  <2>4. CASE i = Len(p)
    BY <2>2, <2>3, <2>4, <1>1, <1>4
  <2>5. CASE i # Len(p)
    <3>1. i + 1 \in 1..Len(q) - 1 /\ i + 1 # Len(q)
      <4>1. Len(q) \in Int
        BY <1>1
      <4>2. Len(p) = Len(q) - 1
        BY <1>4
      <4>3. i # Len(q) - 1
        BY <2>5, <4>2
      <4> QED BY <4>1, <4>3, <2>1
    <3> QED BY <3>1, <2>2, <2>3, <2>5, <1>4
  <2> QED BY <2>4, <2>5
<1>12. IsChain(p, words[head], words)
  BY <1>4, <1>9, <1>10, <1>11 DEF IsChain
<1> QED BY <1>2, <1>3, <1>8, <1>12 DEF p, Contains

LEMMA EmptyChain ==
  ASSUME NEW words
  PROVE  /\ IsChain(<<>>, Null, words)
         /\ \A n : ~Contains(<<>>, n)
         /\ \A q : IsChain(q, Null, words) => q = <<>>
<1>1. <<>> \in Seq(Nodes) /\ Len(<<>>) = 0 /\ DOMAIN <<>> = {}
  BY EmptySeq
<1>2. IsChain(<<>>, Null, words)
  BY <1>1 DEF IsChain, IsInjective
<1>3. ASSUME NEW q, IsChain(q, Null, words) PROVE q = <<>>
  <2>1. q \in Seq(Nodes) /\ (q # <<>> => q[1] = Null)
    BY <1>3 DEF IsChain
  <2>2. q # <<>> => 1 \in 1..Len(q)
    BY <2>1, EmptySeq
  <2> QED BY <2>1, <2>2, ElementOfSeq, StackAssumption
<1> QED BY <1>1, <1>2, <1>3 DEF Contains

-----------------------------------------------------------------------------
(***************************************************************************)
(* Steps.                                                                  *)
(***************************************************************************)
LEMMA TypeStep ==
  ASSUME TypeOK, CallInv, Next
  PROVE  TypeOK'
<1> USE DEF TypeOK, NodeOrNull, Words, Ops, AllStacks, Locations
<1>1. ASSUME NEW t \in Threads, NEW op \in Ops, NEW s \in AllStacks, NEW ptr \in NodeOrNull,
             Begin(t, op, s, ptr)
      PROVE  TypeOK'
  BY <1>1 DEF Begin, At, Goto
<1>2. ASSUME NEW t \in Threads, CallPush(t) PROVE TypeOK'
  BY <1>1, <1>2 DEF CallPush
<1>3. ASSUME NEW t \in Threads, CallPop(t) PROVE TypeOK'
  BY <1>1, <1>3 DEF CallPop
<1>4. ASSUME NEW t \in Threads, CallPopAll(t) PROVE TypeOK'
  BY <1>1, <1>4 DEF CallPopAll
<1>5. ASSUME NEW t \in Threads, CallPushAll(t) PROVE TypeOK'
  BY <1>1, <1>5 DEF CallPushAll
<1>6. ASSUME NEW t \in Threads, ReadHead(t) \/ ReadCount(t) PROVE TypeOK'
  <2>1. r' \in [Threads -> Words]
    <3>1. mem[call[t].stack] \in Words
      OBVIOUS
    <3>2. CASE ReadHead(t)
      BY <3>1, <3>2 DEF ReadHead
    <3>3. CASE ReadCount(t)
      BY <3>1, <3>3 DEF ReadCount
    <3> QED BY <1>6, <3>2, <3>3
  <2>2. \E l \in {"readhead", "readcount", "body", "dcas"} : pc' = [pc EXCEPT ![t] = l]
    BY <1>6 DEF ReadHead, ReadCount, At, Goto, LoopStart
  <2>3. UNCHANGED <<mem, next, owned, chain, call, link>>
    BY <1>6 DEF ReadHead, ReadCount
  <2> QED BY <2>1, <2>2, <2>3
<1>7. ASSUME NEW t \in Threads, SetLink(t) \/ GetLink(t) \/ AssertEmpty(t) PROVE TypeOK'
  <2>1. CASE SetLink(t)
    BY <2>1 DEF SetLink, At, Goto
  <2>2. CASE GetLink(t) /\ r[t].head = Null
    BY <2>2 DEF GetLink, At, Goto
  <2>3. CASE GetLink(t) /\ r[t].head # Null
    <3>1. next[r[t].head] \in NodeOrNull
      BY <2>3
    <3>2. /\ link' = [link EXCEPT ![t] = next[r[t].head]]
          /\ pc' = [pc EXCEPT ![t] = "dcas"]
          /\ UNCHANGED <<mem, next, owned, chain, call, r>>
      BY <2>3 DEF GetLink, Goto
    <3> QED BY <3>1, <3>2
  <2>4. CASE AssertEmpty(t)
    BY <2>4 DEF AssertEmpty, At, Goto
  <2> QED BY <1>7, <2>1, <2>2, <2>3, <2>4
<1>8. ASSUME NEW t \in Threads, DcasSucceeds(t) PROVE TypeOK'
  <2>1. NewHead(t) \in NodeOrNull
    BY DEF NewHead
  <2>2. call[t].op = "pop" => r[t].head \in Nodes
    BY <1>8 DEF CallInv, CallOK, DcasSucceeds, At
  <2>3. mem' \in [AllStacks -> Words]
    BY <1>8, <2>1 DEF DcasSucceeds, CountUp
  <2>4. owned' \in [Threads -> SUBSET Nodes]
    BY <1>8, <2>2 DEF DcasSucceeds
  <2>5. chain' \in [Threads -> NodeOrNull]
    BY <1>8 DEF DcasSucceeds
  <2>6. /\ pc' \in [Threads -> Locations]
        /\ next' = next /\ call' = call /\ r' = r /\ link' = link
    BY <1>8 DEF DcasSucceeds, Goto
  <2> QED BY <2>3, <2>4, <2>5, <2>6
<1>9. ASSUME NEW t \in Threads, DcasFails(t) \/ ClearLink(t) PROVE TypeOK'
  BY <1>9 DEF DcasFails, ClearLink, At, Goto, LoopStart
<1> QED BY <1>2, <1>3, <1>4, <1>5, <1>6, <1>7, <1>8, <1>9 DEF Next, Step

\* The first words of the lists no thread has to itself belong to chains, and
\* the head of a stack is one of these lists.
LEMMA HeadIsNotOwned ==
  ASSUME IInv, NEW s \in AllStacks, mem[s].head # Null
  PROVE  /\ mem[s].head \in Nodes
         /\ Contains(Contents[s], mem[s].head)
         /\ \A t \in Threads : mem[s].head \notin owned[t]
<1>1. mem[s].head \in Nodes
  BY DEF IInv, TypeOK, Words, NodeOrNull
<1>2. Contains(Contents[s], mem[s].head)
  BY <1>1, ChainShrinks DEF IInv, ChainsOK
<1> QED BY <1>1, <1>2 DEF IInv, OnePlace, Apart, ApartAt

\* The walks find given chains.
LEMMA StacksAreChains ==
  ASSUME NEW words \in [Nodes -> NodeOrNull], NEW heads, NEW C,
         C = [s \in AllStacks |-> C[s]],
         \A s \in AllStacks : IsChain(C[s], heads[s].head, words)
  PROVE  [s \in AllStacks |-> Walk(words)[Cardinality(Nodes)][heads[s].head]] = C
<1>1. \A s \in AllStacks : Walk(words)[Cardinality(Nodes)][heads[s].head] = C[s]
  BY ChainIsWalked
<1> QED BY <1>1

LEMMA MovesAreChains ==
  ASSUME NEW words \in [Nodes -> NodeOrNull], NEW heads, NEW M,
         M = [t \in Threads |-> M[t]],
         \A t \in Threads : IsChain(M[t], heads[t], words)
  PROVE  [t \in Threads |-> Walk(words)[Cardinality(Nodes)][heads[t]]] = M
<1>1. \A t \in Threads : Walk(words)[Cardinality(Nodes)][heads[t]] = M[t]
  BY ChainIsWalked
<1> QED BY <1>1

\* Given what the chains are after a step, that is what the walks find.
LEMMA ChainsAfter ==
  ASSUME TypeOK', NEW C, NEW M,
         C = [s \in AllStacks |-> C[s]], M = [t \in Threads |-> M[t]],
         \A s \in AllStacks : IsChain(C[s], mem'[s].head, next'),
         \A t \in Threads : IsChain(M[t], chain'[t], next')
  PROVE  Contents' = C /\ Moved' = M /\ ChainsOK'
<1>1. next' \in [Nodes -> NodeOrNull]
  BY DEF TypeOK
<1>2. Contents' = C
  BY <1>1, StacksAreChains DEF Contents, ChainFrom
<1>3. Moved' = M
  BY <1>1, MovesAreChains DEF Moved, ChainFrom
<1> QED BY <1>2, <1>3 DEF ChainsOK

\* A step that writes to lists of its thread only moves nothing.
LEMMA QuietStep ==
  ASSUME IInv, TypeOK', NEW t \in Threads, mem' = mem, chain' = chain, owned' = owned,
         \A n \in Nodes : next'[n] # next[n] => n \in owned[t]
  PROVE  ChainsOK' /\ OnePlace' /\ Contents' = Contents /\ Moved' = Moved
<1>1. \A n \in Nodes, s \in AllStacks : Contains(Contents[s], n) => next'[n] = next[n]
  BY DEF IInv, OnePlace, Apart, ApartAt
<1>2. \A n \in Nodes, u \in Threads : Contains(Moved[u], n) => next'[n] = next[n]
  BY DEF IInv, OnePlace, Apart, ApartAt
<1>3. \A s \in AllStacks : IsChain(Contents[s], mem'[s].head, next')
  BY <1>1, ChainStays DEF IInv, ChainsOK
<1>4. \A u \in Threads : IsChain(Moved[u], chain'[u], next')
  BY <1>2, ChainStays DEF IInv, ChainsOK
<1>5. Contents' = Contents /\ Moved' = Moved /\ ChainsOK'
  <2>1. Contents = [s \in AllStacks |-> Contents[s]] /\ Moved = [u \in Threads |-> Moved[u]]
    BY DEF Contents, Moved
  <2> QED BY <1>3, <1>4, <2>1, ChainsAfter
<1> QED BY <1>5 DEF IInv, OnePlace

\* What an action of one thread leaves to the calls of the others.
LEMMA OthersKeep ==
  ASSUME IInv, NEW u \in Threads, NEW t \in Threads, t # u,
         pc'[t] = pc[t], call'[t] = call[t], r'[t] = r[t], link'[t] = link[t],
         owned'[t] = owned[t], chain'[t] = chain[t],
         \A s \in AllStacks : mem'[s] = mem[s] \/ mem'[s].count > mem[s].count,
         mem' \in [AllStacks -> Words],
         \A n \in Nodes : next'[n] # next[n] => n \in owned[u]
  PROVE  CallOK(t)'
<1> DEFINE s == call[t].stack
<1>1. CallOK(t) /\ s \in AllStacks
  BY DEF IInv, CallInv, TypeOK
<1>2. mem[s].count \in Nat /\ mem'[s].count \in Nat /\ r[t].count \in Nat
  BY <1>1 DEF IInv, TypeOK, Words
<1>3. HasCount(t) => r[t].count <= mem'[s].count
  BY <1>1, <1>2 DEF CallOK
<1>4. pc[t] = "dcas" /\ call[t].op = "push" => next'[call[t].ptr] = r[t].head
  <2>1. call[t].op = "push" /\ pc[t] = "dcas" => call[t].ptr \in owned[t]
    BY <1>1 DEF CallOK
  <2>2. \A n \in owned[t] : n \in Nodes /\ n \notin owned[u]
    BY DEF IInv, TypeOK, OnePlace, Apart, ApartAt
  <2> QED BY <1>1, <2>1, <2>2 DEF CallOK
<1>5. ASSUME pc[t] = "dcas", call[t].op = "pop", mem'[s] = r[t]
      PROVE  link[t] = next'[r[t].head]
  <2>1. mem[s] = r[t]
    <3>1. HasCount(t)
      BY <1>5 DEF HasCount
    <3>2. r[t].count <= mem[s].count
      BY <1>1, <3>1 DEF CallOK
    <3> QED BY <1>1, <1>2, <1>5, <3>2
  <2>2. link[t] = next[r[t].head] /\ r[t].head \in Nodes
    BY <1>1, <1>5, <2>1 DEF CallOK, Matches
  <2>3. r[t].head \notin owned[u]
    BY <1>1, <2>1, <2>2, HeadIsNotOwned, StackAssumption
  <2> QED BY <2>2, <2>3
<1> HIDE DEF s
<1>6. Matches(t)' <=> mem'[s] = r[t]
  BY DEF Matches, s
<1>7. HasCount(t)' <=> HasCount(t)
  BY DEF HasCount
<1> QED BY <1>1, <1>3, <1>4, <1>5, <1>6, <1>7 DEF CallOK, s

\* A step that moves nothing, and after which the call of its thread is in
\* order.
LEMMA LocalStep ==
  ASSUME IInv, TypeOK', NEW t \in Threads,
         mem' = mem, chain' = chain, owned' = owned, CallOK(t)',
         \A n \in Nodes : next'[n] # next[n] => n \in owned[t],
         \A u \in Threads \ {t} :
           pc'[u] = pc[u] /\ call'[u] = call[u] /\ r'[u] = r[u] /\ link'[u] = link[u]
  PROVE  IInv' /\ Contents' = Contents /\ Moved' = Moved
<1>1. ChainsOK' /\ OnePlace' /\ Contents' = Contents /\ Moved' = Moved
  BY QuietStep
<1>2. \A u \in Threads : CallOK(u)'
  <2> SUFFICES ASSUME NEW u \in Threads, u # t PROVE CallOK(u)'
    OBVIOUS
  <2>1. mem' \in [AllStacks -> Words]
    BY DEF TypeOK
  <2> QED BY <2>1, OthersKeep
<1> QED BY <1>1, <1>2 DEF IInv, CallInv

LEMMA BeginStep ==
  ASSUME IInv, TypeOK', NEW t \in Threads, NEW op \in Ops, NEW s \in AllStacks,
         NEW ptr \in NodeOrNull, Begin(t, op, s, ptr),
         chain[t] # Null => op = "push_all",
         op = "push" => s \in Stacks /\ ptr \in owned[t],
         op = "pop_all" => s \in Stacks,
         op = "push_all" => s = SweepStack /\ ptr = chain[t]
  PROVE  /\ CallOK(t)'
         /\ \A u \in Threads \ {t} :
              pc'[u] = pc[u] /\ call'[u] = call[u] /\ r'[u] = r[u] /\ link'[u] = link[u]
<1>1. /\ call' = [call EXCEPT ![t] = [op |-> op, stack |-> s, ptr |-> ptr]]
      /\ pc' = [pc EXCEPT ![t] = "read"]
      /\ UNCHANGED <<mem, next, owned, chain, r, link>>
  BY DEF Begin, Goto
<1>2. pc'[t] = "read" /\ call'[t] = [op |-> op, stack |-> s, ptr |-> ptr]
  BY <1>1 DEF IInv, TypeOK
<1>3. CallOK(t)'
  BY <1>1, <1>2 DEF CallOK, HasCount
<1> QED BY <1>1, <1>3 DEF IInv, TypeOK

LEMMA CallStep ==
  ASSUME IInv, TypeOK', NEW t \in Threads,
         CallPush(t) \/ CallPop(t) \/ CallPopAll(t) \/ CallPushAll(t)
  PROVE  IInv' /\ Contents' = Contents /\ Moved' = Moved
<1>1. CallOK(t)
  BY DEF IInv, CallInv
<1>2. PICK op \in Ops, s \in AllStacks, ptr \in NodeOrNull :
        /\ Begin(t, op, s, ptr)
        /\ chain[t] # Null => op = "push_all"
        /\ op = "push" => s \in Stacks /\ ptr \in owned[t]
        /\ op = "pop_all" => s \in Stacks
        /\ op = "push_all" => s = SweepStack /\ ptr = chain[t]
  <2>1. CASE CallPush(t)
    <3>1. PICK s \in Stacks, n \in owned[t] : Begin(t, "push", s, n)
      BY <2>1 DEF CallPush
    <3>2. n \in NodeOrNull /\ s \in AllStacks
      BY DEF IInv, TypeOK, NodeOrNull, AllStacks
    <3>3. chain[t] = Null
      BY <1>1, <2>1 DEF CallPush, CallOK, At
    <3> QED BY <3>1, <3>2, <3>3 DEF Ops
  <2>2. CASE CallPop(t)
    <3>1. chain[t] = Null
      BY <1>1, <2>2 DEF CallPop, CallOK, At
    <3> QED BY <2>2, <3>1 DEF CallPop, Ops, NodeOrNull
  <2>3. CASE CallPopAll(t)
    <3>1. chain[t] = Null
      BY <1>1, <2>3 DEF CallPopAll, CallOK, At
    <3> QED BY <2>3, <3>1 DEF CallPopAll, Ops, NodeOrNull, AllStacks
  <2>4. CASE CallPushAll(t)
    BY <2>4 DEF CallPushAll, Ops, NodeOrNull, AllStacks, IInv, TypeOK
  <2> QED BY <2>1, <2>2, <2>3, <2>4
<1>3. /\ CallOK(t)'
      /\ \A u \in Threads \ {t} :
           pc'[u] = pc[u] /\ call'[u] = call[u] /\ r'[u] = r[u] /\ link'[u] = link[u]
  BY <1>2, BeginStep
<1>4. UNCHANGED <<mem, next, owned, chain>>
  BY <1>2 DEF Begin
<1> QED BY <1>3, <1>4, LocalStep

LEMMA ReadStep ==
  ASSUME IInv, TypeOK', NEW t \in Threads, ReadHead(t) \/ ReadCount(t)
  PROVE  IInv' /\ Contents' = Contents /\ Moved' = Moved
<1> DEFINE s == call[t].stack
<1>1. UNCHANGED <<mem, next, owned, chain, call, link>>
  BY DEF ReadHead, ReadCount
<1>2. pc[t] \in {"read", "readhead", "readcount"}
  BY DEF ReadHead, ReadCount
<1>3. \A u \in Threads \ {t} : pc'[u] = pc[u] /\ r'[u] = r[u]
  BY DEF ReadHead, ReadCount, Goto, IInv, TypeOK
<1>4. CallOK(t)'
  <2>1. CallOK(t) /\ s \in AllStacks
    BY DEF IInv, CallInv, TypeOK
  <2>2. /\ pc'[t] \in {"readhead", "readcount", "body", "dcas"}
        /\ pc'[t] = "dcas" => call[t].op = "pop_all"
    BY DEF ReadHead, ReadCount, Goto, At, LoopStart, IInv, TypeOK
  <2>3. HasCount(t)' => r'[t].count <= mem[s].count
    <3>1. CASE ReadHead(t)
      <4>1. r'[t].count = r[t].count
        BY <3>1 DEF ReadHead, IInv, TypeOK, Words
      <4>2. pc[t] = "read" => pc'[t] = "readcount"
        BY <3>1 DEF ReadHead, Goto, At, IInv, TypeOK
      <4>3. pc[t] # "read" => pc[t] = "readhead"
        BY <3>1 DEF ReadHead
      <4> QED BY <2>1, <4>1, <4>2, <4>3 DEF CallOK, HasCount
    <3>2. CASE ReadCount(t)
      <4>1. r'[t].count = mem[s].count /\ mem[s].count \in Nat
        BY <3>2, <2>1 DEF ReadCount, IInv, TypeOK, Words
      <4> QED BY <4>1
    <3> QED BY <3>1, <3>2
  <2> QED BY <1>1, <1>2, <2>1, <2>2, <2>3 DEF CallOK
<1> QED BY <1>1, <1>3, <1>4, LocalStep

LEMMA LinkStep ==
  ASSUME IInv, TypeOK', NEW t \in Threads, SetLink(t) \/ GetLink(t) \/ AssertEmpty(t)
  PROVE  IInv' /\ Contents' = Contents /\ Moved' = Moved
<1>1. UNCHANGED <<mem, owned, chain, call, r>> /\ pc[t] = "body" /\ pc'[t] \in {"idle", "dcas", "stopped"}
  BY DEF SetLink, GetLink, AssertEmpty, At, Goto, IInv, TypeOK
<1>2. \A u \in Threads \ {t} : pc'[u] = pc[u] /\ link'[u] = link[u]
  BY DEF SetLink, GetLink, AssertEmpty, Goto, IInv, TypeOK
<1>3. CallOK(t) /\ HasCount(t)
  BY <1>1 DEF IInv, CallInv, HasCount
<1>4. /\ CallOK(t)'
      /\ \A n \in Nodes : next'[n] # next[n] => n \in owned[t]
  <2>1. CASE SetLink(t)
    <3>1. call[t].op = "push" /\ call[t].ptr \in owned[t] /\ call[t].ptr \in Nodes
      BY <1>1, <1>3, <2>1 DEF SetLink, CallOK, IInv, TypeOK
    <3>2. /\ next'[call[t].ptr] = r[t].head
          /\ \A n \in Nodes : n # call[t].ptr => next'[n] = next[n]
      BY <2>1, <3>1 DEF SetLink, IInv, TypeOK
    <3>3. pc'[t] = "dcas"
      BY <2>1 DEF SetLink, Goto, IInv, TypeOK
    <3> QED BY <1>1, <1>3, <3>1, <3>2, <3>3 DEF CallOK, HasCount
  <2>2. CASE GetLink(t) /\ r[t].head = Null
    <3>1. pc'[t] = "idle" /\ next' = next /\ call[t].op = "pop"
      BY <2>2 DEF GetLink, Goto, IInv, TypeOK
    <3> QED BY <1>1, <1>3, <3>1 DEF CallOK, HasCount
  <2>3. CASE GetLink(t) /\ r[t].head # Null
    <3>1. pc'[t] = "dcas" /\ next' = next /\ link'[t] = next[r[t].head] /\ call[t].op = "pop"
      BY <2>3 DEF GetLink, Goto, IInv, TypeOK
    <3>2. r[t].head \in Nodes
      BY <2>3 DEF IInv, TypeOK, Words, NodeOrNull
    <3> QED BY <1>1, <1>3, <3>1, <3>2 DEF CallOK, HasCount
  <2>4. CASE AssertEmpty(t)
    <3>1. /\ pc'[t] = IF r[t].head = Null THEN "dcas" ELSE "stopped"
          /\ call[t].op = "push_all" /\ UNCHANGED <<next, link>>
      BY <2>4 DEF AssertEmpty, Goto, IInv, TypeOK
    <3> QED BY <1>1, <1>3, <3>1 DEF CallOK, HasCount
  <2> QED BY <2>1, <2>2, <2>3, <2>4
<1> QED BY <1>1, <1>2, <1>4, LocalStep

LEMMA FailStep ==
  ASSUME IInv, TypeOK', NEW t \in Threads, DcasFails(t)
  PROVE  IInv' /\ Contents' = Contents /\ Moved' = Moved
<1> DEFINE s == call[t].stack
<1>1. /\ UNCHANGED <<mem, next, owned, chain, call, link>>
      /\ pc[t] = "dcas" /\ pc'[t] = LoopStart(call[t].op) /\ r'[t] = mem[s]
  BY DEF DcasFails, At, Goto, IInv, TypeOK
<1>2. \A u \in Threads \ {t} : pc'[u] = pc[u] /\ r'[u] = r[u]
  BY DEF DcasFails, Goto, IInv, TypeOK
<1>3. CallOK(t)'
  <2>1. CallOK(t) /\ s \in AllStacks
    BY DEF IInv, CallInv, TypeOK
  <2>2. mem[s].count <= mem[s].count
    BY <2>1 DEF IInv, TypeOK, Words
  <2> QED BY <1>1, <2>1, <2>2 DEF CallOK, LoopStart
<1> QED BY <1>1, <1>2, <1>3, LocalStep

LEMMA ClearStep ==
  ASSUME IInv, TypeOK', NEW t \in Threads, ClearLink(t)
  PROVE  IInv' /\ Contents' = Contents /\ Moved' = Moved
<1>1. /\ UNCHANGED <<mem, owned, chain, call, r, link>>
      /\ pc[t] = "clear" /\ pc'[t] = "idle" /\ r[t].head \in owned[t]
  BY DEF ClearLink, At, Goto, IInv, TypeOK, CallInv, CallOK
<1>2. \A u \in Threads \ {t} : pc'[u] = pc[u]
  BY DEF ClearLink, Goto, IInv, TypeOK
<1>3. \A n \in Nodes : next'[n] # next[n] => n \in owned[t]
  BY <1>1 DEF ClearLink, IInv, TypeOK
<1>4. CallOK(t)'
  <2>1. CallOK(t)
    BY DEF IInv, CallInv
  <2> QED BY <1>1, <2>1 DEF CallOK, HasCount
<1> QED BY <1>1, <1>2, <1>3, <1>4, LocalStep

\* Where a thread goes on when its compare-and-swap has succeeded.
After(op) ==
  CASE op = "pop" -> "clear" [] op = "pop_all" -> "popped" [] OTHER -> "idle"

\* What is common to all successful compare-and-swaps.
LEMMA Swap ==
  ASSUME IInv, NEW t \in Threads, DcasSucceeds(t)
  PROVE  /\ call[t].stack \in AllStacks /\ pc[t] = "dcas" /\ CallOK(t)
         /\ mem[call[t].stack] = r[t]
         /\ mem'[call[t].stack].head = NewHead(t)
         /\ mem'[call[t].stack].count > mem[call[t].stack].count
         /\ \A s \in AllStacks \ {call[t].stack} : mem'[s] = mem[s]
         /\ UNCHANGED <<next, call, r, link>>
         /\ pc'[t] = After(call[t].op)
         /\ \A u \in Threads \ {t} :
              pc'[u] = pc[u] /\ owned'[u] = owned[u] /\ chain'[u] = chain[u]
<1> DEFINE s == call[t].stack
<1>1. s \in AllStacks /\ CallOK(t) /\ r[t].count \in Nat
  BY DEF IInv, TypeOK, CallInv, Words
<1>2. pc[t] = "dcas" /\ mem[s] = r[t] /\ UNCHANGED <<next, call, r, link>>
  BY DEF DcasSucceeds, At, Matches
<1>3. mem' = [mem EXCEPT ![s] = [head |-> NewHead(t), count |-> r[t].count + 1]]
  BY DEF DcasSucceeds, CountUp
<1>4. /\ mem'[s] = [head |-> NewHead(t), count |-> r[t].count + 1]
      /\ \A o \in AllStacks \ {s} : mem'[o] = mem[o]
  BY <1>1, <1>3 DEF IInv, TypeOK
<1>5. mem'[s].count > mem[s].count
  BY <1>1, <1>2, <1>4
<1>6. \A u \in Threads \ {t} : pc'[u] = pc[u] /\ owned'[u] = owned[u] /\ chain'[u] = chain[u]
  BY DEF DcasSucceeds, Goto, IInv, TypeOK
<1>7. pc'[t] = After(call[t].op)
  BY DEF DcasSucceeds, Goto, IInv, TypeOK, After
<1> QED BY <1>1, <1>2, <1>4, <1>5, <1>6, <1>7

LEMMA PushSwap ==
  ASSUME IInv, TypeOK', NEW t \in Threads, DcasSucceeds(t), call[t].op = "push"
  PROVE  ChainsOK' /\ OnePlace' /\ CallOK(t)' /\ S!APush(t, call[t].stack)
<1> DEFINE s == call[t].stack
           n == call[t].ptr
           C == [Contents EXCEPT ![s] = <<n>> \o Contents[s]]
<1>1. /\ s \in AllStacks /\ pc[t] = "dcas" /\ mem[s] = r[t] /\ mem'[s].head = n
      /\ \A o \in AllStacks \ {s} : mem'[o] = mem[o]
      /\ UNCHANGED <<next, call, r, link>> /\ pc'[t] = "idle"
      /\ \A u \in Threads \ {t} : pc'[u] = pc[u]
  BY Swap DEF NewHead, After
<1>2. s \in Stacks /\ s # SweepStack /\ n \in owned[t] /\ n \in Nodes /\ next[n] = mem[s].head
  BY Swap, StackAssumption DEF CallOK, IInv, TypeOK
<1>3. owned' = [owned EXCEPT ![t] = owned[t] \ {n}] /\ chain' = chain
  BY DEF DcasSucceeds, IInv, TypeOK
<1>4. /\ IsChain(<<n>> \o Contents[s], n, next)
      /\ \A m : Contains(<<n>> \o Contents[s], m) <=> m = n \/ Contains(Contents[s], m)
  <2>1. IsChain(Contents[s], mem[s].head, next)
    BY <1>1 DEF IInv, ChainsOK
  <2>2. ~Contains(Contents[s], n)
    BY <1>1, <1>2 DEF IInv, OnePlace, Apart, ApartAt
  <2> QED BY <1>2, <2>1, <2>2, ChainGrows
<1> HIDE DEF s, n
<1>5. /\ C[s] = <<n>> \o Contents[s]
      /\ \A o \in AllStacks \ {s} : C[o] = Contents[o]
      /\ C = [o \in AllStacks |-> C[o]]
  BY <1>1 DEF Contents
<1> HIDE DEF C
<1>6. Contents' = C /\ Moved' = Moved /\ ChainsOK'
  <2>1. \A o \in AllStacks : IsChain(C[o], mem'[o].head, next')
    BY <1>1, <1>4, <1>5 DEF IInv, ChainsOK
  <2>2. \A u \in Threads : IsChain(Moved[u], chain'[u], next')
    BY <1>1, <1>3 DEF IInv, ChainsOK
  <2>3. Moved = [u \in Threads |-> Moved[u]]
    BY DEF Moved
  <2> QED BY <1>5, <2>1, <2>2, <2>3, ChainsAfter
<1>7. /\ owned'[t] = owned[t] \ {n}
      /\ \A u \in Threads \ {t} : owned'[u] = owned[u]
  BY <1>3 DEF IInv, TypeOK
<1>9. \A u \in Threads : ~Contains(Moved[u], n) /\ (u # t => n \notin owned[u])
  BY <1>2 DEF IInv, OnePlace, Apart, ApartAt
<1>10. \A o \in AllStacks : ~Contains(Contents[o], n)
  BY <1>2 DEF IInv, OnePlace, Apart, ApartAt
<1>11. Apart(C, owned', Moved)
  <2>1. Apart(Contents, owned, Moved)
    BY DEF IInv, OnePlace
  <2>2. \A o \in AllStacks : \A m : Contains(C[o], m) <=> Contains(Contents[o], m) \/ (o = s /\ m = n)
    BY <1>4, <1>5
  <2>3. \A u \in Threads : \A m : m \in owned'[u] <=> m \in owned[u] /\ m # n
    BY <1>7, <1>9
  <2> SUFFICES ASSUME NEW m \in Nodes PROVE ApartAt(m, C, owned', Moved)
    BY Zenon DEF Apart
  <2>4. CASE m = n
    BY <2>1, <2>2, <2>3, <2>4, <1>9, <1>10 DEF Apart, ApartAt
  <2>5. CASE m # n
    BY <2>1, <2>2, <2>3, <2>5 DEF Apart, ApartAt
  <2> QED BY <2>4, <2>5
<1>12. Somewhere(C, owned', Moved)
  <2>1. Somewhere(Contents, owned, Moved)
    BY DEF IInv, OnePlace
  <2>2. \A o \in AllStacks : \A m : Contains(C[o], m) <=> Contains(Contents[o], m) \/ (o = s /\ m = n)
    BY <1>4, <1>5
  <2>3. \A u \in Threads : \A m : m \in owned'[u] <=> m \in owned[u] /\ m # n
    BY <1>7, <1>9
  <2> QED BY <2>1, <2>2, <2>3, <1>1 DEF Somewhere
<1>13. CallOK(t)'
  BY <1>1, <1>3, Swap DEF CallOK, HasCount
<1>15. S!APush(t, s)
  <2>1. Contents' = [Contents EXCEPT ![s] = <<n>> \o Contents[s]]
    BY <1>6 DEF C
  <2> QED BY <1>2, <1>3, <1>6, <2>1 DEF S!APush
<1> QED BY <1>6, <1>11, <1>12, <1>13, <1>15 DEF OnePlace, s

LEMMA PopSwap ==
  ASSUME IInv, TypeOK', NEW t \in Threads, DcasSucceeds(t), call[t].op = "pop"
  PROVE  ChainsOK' /\ OnePlace' /\ CallOK(t)' /\ S!APop(t, call[t].stack)
<1> DEFINE s == call[t].stack
           n == r[t].head
           C == [Contents EXCEPT ![s] = Tail(Contents[s])]
<1>1. /\ s \in AllStacks /\ pc[t] = "dcas" /\ mem[s].head = n /\ mem'[s].head = link[t]
      /\ \A o \in AllStacks \ {s} : mem'[o] = mem[o]
      /\ UNCHANGED <<next, call, r, link>> /\ pc'[t] = "clear"
      /\ \A u \in Threads \ {t} : pc'[u] = pc[u]
  BY Swap DEF NewHead, After
<1>2. n \in Nodes /\ link[t] = next[n]
  BY Swap DEF CallOK, Matches
<1>3. owned' = [owned EXCEPT ![t] = owned[t] \cup {n}] /\ chain' = chain
  BY DEF DcasSucceeds, IInv, TypeOK
<1>4. /\ Contents[s] # <<>> /\ Head(Contents[s]) = n /\ Contains(Contents[s], n)
      /\ IsChain(Tail(Contents[s]), next[n], next)
      /\ \A m : Contains(Tail(Contents[s]), m) <=> Contains(Contents[s], m) /\ m # n
  <2>1. IsChain(Contents[s], n, next)
    BY <1>1 DEF IInv, ChainsOK
  <2> QED BY <1>2, <2>1, ChainShrinks
<1> HIDE DEF s, n
<1>5. /\ C[s] = Tail(Contents[s])
      /\ \A o \in AllStacks \ {s} : C[o] = Contents[o]
      /\ C = [o \in AllStacks |-> C[o]]
  BY <1>1 DEF Contents
<1> HIDE DEF C
<1>6. Contents' = C /\ Moved' = Moved /\ ChainsOK'
  <2>1. \A o \in AllStacks : IsChain(C[o], mem'[o].head, next')
    BY <1>1, <1>2, <1>4, <1>5 DEF IInv, ChainsOK
  <2>2. \A u \in Threads : IsChain(Moved[u], chain'[u], next')
    BY <1>1, <1>3 DEF IInv, ChainsOK
  <2>3. Moved = [u \in Threads |-> Moved[u]]
    BY DEF Moved
  <2> QED BY <1>5, <2>1, <2>2, <2>3, ChainsAfter
<1>7. /\ owned'[t] = owned[t] \cup {n}
      /\ \A u \in Threads \ {t} : owned'[u] = owned[u]
  BY <1>3 DEF IInv, TypeOK
<1>8. \A o \in AllStacks : Contains(Contents[o], n) => o = s
  BY <1>1, <1>2, <1>4 DEF IInv, OnePlace, Apart, ApartAt
<1>9. \A u \in Threads : ~Contains(Moved[u], n) /\ n \notin owned[u]
  BY <1>1, <1>2, <1>4 DEF IInv, OnePlace, Apart, ApartAt
<1>10. \A o \in AllStacks : \A m : Contains(C[o], m) <=> Contains(Contents[o], m) /\ m # n
  BY <1>4, <1>5, <1>8
<1>11. \A u \in Threads : \A m : m \in owned'[u] <=> m \in owned[u] \/ (u = t /\ m = n)
  BY <1>7
<1>12. Apart(C, owned', Moved)
  <2>1. Apart(Contents, owned, Moved)
    BY DEF IInv, OnePlace
  <2> SUFFICES ASSUME NEW m \in Nodes PROVE ApartAt(m, C, owned', Moved)
    BY Zenon DEF Apart
  <2>2. CASE m = n
    BY <2>1, <2>2, <1>9, <1>10, <1>11 DEF Apart, ApartAt
  <2>3. CASE m # n
    BY <2>1, <2>3, <1>10, <1>11 DEF Apart, ApartAt
  <2> QED BY <2>2, <2>3
<1>13. Somewhere(C, owned', Moved)
  <2>1. Somewhere(Contents, owned, Moved)
    BY DEF IInv, OnePlace
  <2> QED BY <2>1, <1>10, <1>11 DEF Somewhere
<1>14. CallOK(t)'
  BY <1>1, <1>3, <1>7, Swap DEF CallOK, HasCount, n
<1>16. S!APop(t, s)
  <2>1. Contents' = [Contents EXCEPT ![s] = Tail(Contents[s])]
    BY <1>6 DEF C
  <2> QED BY <1>3, <1>4, <1>6, <2>1 DEF S!APop
<1> QED BY <1>6, <1>12, <1>13, <1>14, <1>16 DEF OnePlace, s

LEMMA PopAllSwap ==
  ASSUME IInv, TypeOK', NEW t \in Threads, DcasSucceeds(t), call[t].op = "pop_all"
  PROVE  ChainsOK' /\ OnePlace' /\ CallOK(t)' /\ S!APopAll(t, call[t].stack)
<1> DEFINE s == call[t].stack
           C == [Contents EXCEPT ![s] = <<>>]
           M == [Moved EXCEPT ![t] = Contents[s]]
<1>1. /\ s \in AllStacks /\ pc[t] = "dcas" /\ mem[s].head = r[t].head /\ mem'[s].head = Null
      /\ \A o \in AllStacks \ {s} : mem'[o] = mem[o]
      /\ UNCHANGED <<next, call, r, link>> /\ pc'[t] = "popped"
      /\ \A u \in Threads \ {t} : pc'[u] = pc[u] /\ chain'[u] = chain[u]
  BY Swap DEF NewHead, After
<1>2. s \in Stacks /\ s # SweepStack /\ chain[t] = Null
  BY Swap, StackAssumption DEF CallOK
<1>3. owned' = owned /\ chain'[t] = r[t].head
  BY DEF DcasSucceeds, IInv, TypeOK
<1>4. Moved[t] = <<>>
  BY <1>2, EmptyChain DEF IInv, ChainsOK
<1> HIDE DEF s
<1>5. /\ C[s] = <<>> /\ M[t] = Contents[s]
      /\ \A o \in AllStacks \ {s} : C[o] = Contents[o]
      /\ \A u \in Threads \ {t} : M[u] = Moved[u]
      /\ C = [o \in AllStacks |-> C[o]] /\ M = [u \in Threads |-> M[u]]
  BY <1>1 DEF Contents, Moved
<1> HIDE DEF C, M
<1>6. Contents' = C /\ Moved' = M /\ ChainsOK'
  <2>1. \A o \in AllStacks : IsChain(C[o], mem'[o].head, next')
    BY <1>1, <1>5, EmptyChain DEF IInv, ChainsOK
  <2>2. \A u \in Threads : IsChain(M[u], chain'[u], next')
    BY <1>1, <1>3, <1>5 DEF IInv, ChainsOK
  <2> QED BY <1>5, <2>1, <2>2, ChainsAfter
<1>7. \A o \in AllStacks : \A m : Contains(C[o], m) <=> Contains(Contents[o], m) /\ o # s
  BY <1>5, EmptyChain
<1>8. \A u \in Threads : \A m :
        Contains(M[u], m) <=> Contains(Moved[u], m) \/ (u = t /\ Contains(Contents[s], m))
  BY <1>4, <1>5, EmptyChain
<1>9. Apart(C, owned, M)
  <2>1. Apart(Contents, owned, Moved)
    BY DEF IInv, OnePlace
  <2> QED BY <2>1, <1>1, <1>7, <1>8 DEF Apart, ApartAt
<1>10. Somewhere(C, owned, M)
  <2>1. Somewhere(Contents, owned, Moved)
    BY DEF IInv, OnePlace
  <2> QED BY <2>1, <1>7, <1>8 DEF Somewhere
<1>11. CallOK(t)'
  BY <1>1, <1>2, <1>3 DEF CallOK, HasCount, s
<1>13. S!APopAll(t, s)
  BY <1>3, <1>4, <1>6 DEF S!APopAll, C, M
<1> QED BY <1>3, <1>6, <1>9, <1>10, <1>11, <1>13 DEF OnePlace, s

LEMMA PushAllSwap ==
  ASSUME IInv, TypeOK', NEW t \in Threads, DcasSucceeds(t), call[t].op = "push_all"
  PROVE  ChainsOK' /\ OnePlace' /\ CallOK(t)' /\ S!APushAll(t, call[t].stack)
<1> DEFINE s == call[t].stack
           C == [Contents EXCEPT ![s] = Moved[t]]
           M == [Moved EXCEPT ![t] = <<>>]
<1>1. /\ s \in AllStacks /\ pc[t] = "dcas" /\ mem'[s].head = call[t].ptr
      /\ \A o \in AllStacks \ {s} : mem'[o] = mem[o]
      /\ UNCHANGED <<next, call, r, link>> /\ pc'[t] = "idle"
      /\ \A u \in Threads \ {t} : pc'[u] = pc[u] /\ chain'[u] = chain[u]
  BY Swap DEF NewHead, After
<1>2. s = SweepStack /\ call[t].ptr = chain[t] /\ mem[s].head = Null
  BY Swap DEF CallOK
<1>3. owned' = owned /\ chain'[t] = Null
  BY DEF DcasSucceeds, IInv, TypeOK
<1>4. Contents[s] = <<>>
  BY <1>1, <1>2, EmptyChain DEF IInv, ChainsOK
<1> HIDE DEF s
<1>5. /\ C[s] = Moved[t] /\ M[t] = <<>>
      /\ \A o \in AllStacks \ {s} : C[o] = Contents[o]
      /\ \A u \in Threads \ {t} : M[u] = Moved[u]
      /\ C = [o \in AllStacks |-> C[o]] /\ M = [u \in Threads |-> M[u]]
  BY <1>1 DEF Contents, Moved
<1> HIDE DEF C, M
<1>6. Contents' = C /\ Moved' = M /\ ChainsOK'
  <2>1. \A o \in AllStacks : IsChain(C[o], mem'[o].head, next')
    BY <1>1, <1>2, <1>5 DEF IInv, ChainsOK
  <2>2. \A u \in Threads : IsChain(M[u], chain'[u], next')
    BY <1>1, <1>3, <1>5, EmptyChain DEF IInv, ChainsOK
  <2> QED BY <1>5, <2>1, <2>2, ChainsAfter
<1>7. \A o \in AllStacks : \A m :
        Contains(C[o], m) <=> Contains(Contents[o], m) \/ (o = s /\ Contains(Moved[t], m))
  BY <1>4, <1>5, EmptyChain
<1>8. \A u \in Threads : \A m : Contains(M[u], m) <=> Contains(Moved[u], m) /\ u # t
  BY <1>5, EmptyChain
<1>9. Apart(C, owned, M)
  <2>1. Apart(Contents, owned, Moved)
    BY DEF IInv, OnePlace
  <2> QED BY <2>1, <1>1, <1>7, <1>8 DEF Apart, ApartAt
<1>10. Somewhere(C, owned, M)
  <2>1. Somewhere(Contents, owned, Moved)
    BY DEF IInv, OnePlace
  <2> QED BY <2>1, <1>1, <1>7, <1>8 DEF Somewhere
<1>11. CallOK(t)'
  BY <1>1, <1>3 DEF CallOK, HasCount
<1>13. S!APushAll(t, s)
  BY <1>3, <1>4, <1>6 DEF S!APushAll, C, M
<1> QED BY <1>3, <1>6, <1>9, <1>10, <1>11, <1>13 DEF OnePlace, s

\* A compare-and-swap that succeeds is a step of the abstract stacks.
LEMMA SwapStep ==
  ASSUME IInv, TypeOK', NEW t \in Threads, DcasSucceeds(t)
  PROVE  IInv' /\ S!StacksNext
<1>1. call[t].stack \in AllStacks /\ call[t].op \in Ops
  BY DEF IInv, TypeOK
<1>2. ChainsOK' /\ OnePlace' /\ CallOK(t)' /\ S!StacksNext
  <2>1. CASE call[t].op = "push"
    BY <1>1, <2>1, PushSwap DEF S!StacksNext
  <2>2. CASE call[t].op = "pop"
    BY <1>1, <2>2, PopSwap DEF S!StacksNext
  <2>3. CASE call[t].op = "pop_all"
    BY <1>1, <2>3, PopAllSwap DEF S!StacksNext
  <2>4. CASE call[t].op = "push_all"
    BY <1>1, <2>4, PushAllSwap DEF S!StacksNext
  <2> QED BY <1>1, <2>1, <2>2, <2>3, <2>4 DEF Ops
<1>3. \A u \in Threads : CallOK(u)'
  <2> SUFFICES ASSUME NEW u \in Threads, u # t PROVE CallOK(u)'
    BY <1>2
  <2>1. /\ mem' \in [AllStacks -> Words]
        /\ \A s \in AllStacks : mem'[s] = mem[s] \/ mem'[s].count > mem[s].count
        /\ UNCHANGED <<next, call, r, link>>
        /\ pc'[u] = pc[u] /\ owned'[u] = owned[u] /\ chain'[u] = chain[u]
    BY Swap DEF TypeOK
  <2> QED BY <2>1, OthersKeep
<1> QED BY <1>2, <1>3 DEF IInv, CallInv

LEMMA InitInv == Init => IInv /\ S!StacksInit
<1> SUFFICES ASSUME Init PROVE IInv /\ S!StacksInit
  OBVIOUS
<1>1. PICK holder \in [Nodes -> Threads] :
        owned = [t \in Threads |-> {n \in Nodes : holder[n] = t}]
  BY DEF Init
<1>2. TypeOK
  BY <1>1 DEF Init, TypeOK, NodeOrNull, Words, Ops, AllStacks, Locations
<1>3. next \in [Nodes -> NodeOrNull]
  BY <1>2 DEF TypeOK
<1>4. \A words \in [Nodes -> NodeOrNull] : Walk(words)[Cardinality(Nodes)][Null] = <<>>
  BY ChainIsWalked, EmptyChain
<1>5. Contents = [s \in AllStacks |-> <<>>] /\ Moved = [t \in Threads |-> <<>>]
  BY <1>3, <1>4 DEF Init, Contents, Moved, ChainFrom
<1>6. ChainsOK
  BY <1>5, EmptyChain DEF ChainsOK, Init
<1>7. OnePlace
  BY <1>1, <1>5, EmptyChain DEF OnePlace, Apart, ApartAt, Somewhere
<1>8. CallInv
  BY DEF Init, CallInv, CallOK, HasCount
<1>10. S!StacksInit
  <2>1. owned \in [Threads -> SUBSET Nodes]
    BY <1>2 DEF TypeOK
  <2>2. \A t, u \in Threads : t # u => owned[t] \cap owned[u] = {}
    BY <1>1
  <2> QED BY <1>5, <2>1, <2>2 DEF S!StacksInit
<1> QED BY <1>2, <1>6, <1>7, <1>8, <1>10 DEF IInv

LEMMA NextStep ==
  ASSUME IInv, Next
  PROVE  IInv' /\ (S!StacksNext \/ UNCHANGED <<Contents, owned, Moved>>)
<1>1. TypeOK'
  BY TypeStep DEF IInv
<1>2. ASSUME NEW t \in Threads,
             CallPush(t) \/ CallPop(t) \/ CallPopAll(t) \/ CallPushAll(t)
      PROVE  IInv' /\ UNCHANGED <<Contents, owned, Moved>>
  <2>1. owned' = owned
    BY <1>2 DEF CallPush, CallPop, CallPopAll, CallPushAll, Begin
  <2> QED BY <1>1, <1>2, <2>1, CallStep
<1>3. ASSUME NEW t \in Threads, Step(t)
      PROVE  IInv' /\ (S!StacksNext \/ UNCHANGED <<Contents, owned, Moved>>)
  <2>1. CASE ReadHead(t) \/ ReadCount(t)
    BY <1>1, <2>1, ReadStep DEF ReadHead, ReadCount
  <2>2. CASE SetLink(t) \/ GetLink(t) \/ AssertEmpty(t)
    BY <1>1, <2>2, LinkStep DEF SetLink, GetLink, AssertEmpty
  <2>3. CASE DcasSucceeds(t)
    BY <1>1, <2>3, SwapStep
  <2>4. CASE DcasFails(t)
    BY <1>1, <2>4, FailStep DEF DcasFails
  <2>5. CASE ClearLink(t)
    BY <1>1, <2>5, ClearStep DEF ClearLink
  <2> QED BY <1>3, <2>1, <2>2, <2>3, <2>4, <2>5 DEF Step
<1> QED BY <1>2, <1>3 DEF Next

LEMMA StutterStep ==
  ASSUME IInv, UNCHANGED vars
  PROVE  IInv' /\ UNCHANGED <<Contents, owned, Moved>>
<1>1. UNCHANGED <<mem, next, owned, chain, pc, call, r, link>>
  BY DEF vars
<1>2. Contents' = Contents /\ Moved' = Moved
  BY <1>1 DEF Contents, Moved, ChainFrom
<1>3. TypeOK' /\ ChainsOK' /\ OnePlace'
  BY <1>1, <1>2 DEF IInv, TypeOK, ChainsOK, OnePlace
<1>4. CallInv'
  BY <1>1 DEF IInv, CallInv, CallOK, HasCount, Matches
<1> QED BY <1>1, <1>2, <1>3, <1>4 DEF IInv

-----------------------------------------------------------------------------
(***************************************************************************)
(* The invariant is inductive: the stacks are chains that end, a list is   *)
(* in one place, and a pop whose compare-and-swap will succeed has read    *)
(* what follows the head, for any number of threads, stacks and lists.     *)
(***************************************************************************)
THEOREM Invariance == Spec => []IInv
<1>1. Init => IInv
  BY InitInv
<1>2. IInv /\ [Next]_vars => IInv'
  BY NextStep, StutterStep
<1> QED BY <1>1, <1>2, PTL DEF Spec

\* The variables of the stacks have their types.
THEOREM TypeCorrect == Spec => []TypeOK
<1>1. IInv => TypeOK
  BY DEF IInv
<1> QED BY <1>1, Invariance, PTL

LEMMA AtMostOne ==
  ASSUME NEW Q, \A x, y \in Q : x = y
  PROVE  Cardinality(Q) = IF Q = {} THEN 0 ELSE 1
<1>1. ASSUME NEW x \in Q PROVE Cardinality(Q) = 1
  <2>1. Q = {x}
    OBVIOUS
  <2> QED BY <2>1, FS_Singleton
<1> QED BY <1>1, FS_EmptySet

(***************************************************************************)
(* No list is lost, duplicated or left in two places, and no chain runs in *)
(* a circle, although a list may be popped, reused and pushed back while   *)
(* another thread looks at it.                                             *)
(***************************************************************************)
THEOREM ListsAreInOnePlace == Spec => []ListsInOnePlace
<1>1. IInv => ListsInOnePlace
  <2> SUFFICES ASSUME IInv PROVE ListsInOnePlace
    OBVIOUS
  <2>1. \A s \in AllStacks : IsInjective(Contents[s])
    BY DEF IInv, ChainsOK, IsChain
  <2>2. ASSUME NEW n \in Nodes
        PROVE  Quantify(AllStacks, LAMBDA s : Contains(Contents[s], n))
                 + Quantify(Threads, LAMBDA t : n \in owned[t])
                 + Quantify(Threads, LAMBDA t : Contains(Moved[t], n)) = 1
    <3> DEFINE Q1 == {s \in AllStacks : Contains(Contents[s], n)}
               Q2 == {t \in Threads : n \in owned[t]}
               Q3 == {t \in Threads : Contains(Moved[t], n)}
    <3>1. /\ \A s, o \in Q1 : s = o
          /\ \A t, u \in Q2 : t = u
          /\ \A t, u \in Q3 : t = u
          /\ Q1 = {} \/ Q2 = {}
          /\ Q1 = {} \/ Q3 = {}
          /\ Q2 = {} \/ Q3 = {}
      BY DEF IInv, OnePlace, Apart, ApartAt
    <3>2. Q1 # {} \/ Q2 # {} \/ Q3 # {}
      BY DEF IInv, OnePlace, Somewhere
    <3> HIDE DEF Q1, Q2, Q3
    <3>4. /\ Cardinality(Q1) = IF Q1 = {} THEN 0 ELSE 1
          /\ Cardinality(Q2) = IF Q2 = {} THEN 0 ELSE 1
          /\ Cardinality(Q3) = IF Q3 = {} THEN 0 ELSE 1
      BY <3>1, AtMostOne
    <3>5. Cardinality(Q1) + Cardinality(Q2) + Cardinality(Q3) = 1
      BY <3>1, <3>2, <3>4
    <3> QED BY <3>5 DEF Quantify, Q1, Q2, Q3
  <2> QED BY <2>1, <2>2 DEF ListsInOnePlace
<1> QED BY <1>1, Invariance, PTL

(***************************************************************************)
(* The stacks of ebi implement stacks with atomic operations: a successful *)
(* compare-and-swap is the step of its operation, and nothing else is.     *)
(***************************************************************************)
THEOREM ImplementsListStacks == Spec => ImplementsStacks
<1>1. Init => S!StacksInit
  BY InitInv
<1>2. IInv /\ [Next]_vars => [S!StacksNext]_<<Contents, owned, Moved>>
  BY NextStep, StutterStep
<1> QED BY <1>1, <1>2, Invariance, PTL DEF Spec, ImplementsStacks, S!StacksSpec, S!stackVars
=============================================================================
