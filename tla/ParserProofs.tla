---------------------------- MODULE ParserProofs ----------------------------
(***************************************************************************)
(* Proofs about the parser: its brackets match, the lists that share       *)
(* temp_asts are nested lists, and the blocks that are finished hold only  *)
(* nodes that a statement was written to.                                  *)
(***************************************************************************)
EXTENDS Parser, FiniteSetTheorems, SequenceTheorems, TLAPS

\* Rank, for any sequence of locations.
Ranked(cs, i, first, S) == Cardinality({j \in first..i : cs[j] \in S})

\* The activations that are in S, from the first-th on, have an item each, in
\* their order.
Matched(items, cs, first, S, fits) ==
    /\ Len(items) = Ranked(cs, Len(cs), first, S)
    /\ \A i \in first..Len(cs) : cs[i] \in S => <<cs[i], items[Ranked(cs, i, first, S)]>> \in fits

-----------------------------------------------------------------------------
(***************************************************************************)
(* The invariant.                                                          *)
(***************************************************************************)
\* Which activation can be below which.
CalledFrom(c, l) ==
    /\ l \in {"type", "type.close"} => c \in {"type.close", "param.push", "def.body"}
    /\ l \in {"param", "param.colon", "param.push"} => c \in {"fields.push", "params.push"}
    /\ l \in {"generics", "generics.list", "generics.item", "generics.next"} =>
         c \in {"struct.body", "params"}
    /\ l \in {"fields", "fields.next", "fields.push"} => c = "struct.end"
    /\ l \in {"params", "params.list", "params.first", "params.push", "params.next"} =>
         c = "def.return"
    /\ l \in {"struct", "struct.body", "struct.end", "def", "def.return", "def.body", "def.end",
              "statement", "return", "return.end"} => c = "block.push"
    /\ l \in {"block", "block.next", "block.push"} => c \in {"block.push", "def.end"}
    /\ l \in {"expression", "expression.next", "expression.binop"} =>
         c \in {"return.end", "atom.close", "args.push"}
    /\ l \in {"term", "term.next", "term.binop"} => c \in {"expression.next", "expression.binop"}
    /\ l \in {"suffix", "suffix.next", "suffix.field", "suffix.call"} =>
         c \in {"term.next", "term.binop"}
    /\ l \in {"atom", "atom.close"} => c = "suffix.next"
    /\ l \in {"args", "args.next", "args.push"} => c = "suffix.call"

Root == {"block", "block.next", "block.push"}

Nested(cs) ==
    \A i \in DOMAIN cs : IF i = 1 THEN cs[i] \in Root ELSE CalledFrom(cs[i - 1], cs[i])

BracketFits == {x \in Locations \X Openers : x[1] \in Inside[x[2]]}

\* The nodes that are in no list of a block, when those of w are not.
Blocks == {"block.next", "block.push"}
HeldKinds(l, w) == IF l \in Blocks THEN Kinds(l) \ w ELSE Kinds(l)
ListFits(w) == {x \in Locations \X Seq(Asts) : ToSet(x[2]) \subseteq HeldKinds(x[1], w)}

\* The activations, the brackets they are in, and the lists they build.
Activations(cs, bs, ls, w) ==
    /\ cs \in Seq(Locations) /\ bs \in Seq(Openers) /\ ls \in Seq(Seq(Asts))
    /\ Nested(cs)
    /\ Matched(bs, cs, 2, Waiting, BracketFits)
    /\ Matched(ls, cs, 1, Owning, ListFits(w))

\* What the function that is running may find in the node it is given.
Expressions == {"NAME", "FIELD", "CALL", "BINOP", "uninit"}

Results(l) ==
    IF l = "block.push" THEN {"STRUCT", "DEF", "BLOCK", "RETURN", "uninit"}
    ELSE IF l \in {"statement", "return"} THEN {"uninit"}
    ELSE IF l \in {"expression", "expression.next", "expression.binop", "term", "term.next",
                   "term.binop", "suffix", "suffix.next", "suffix.field", "atom", "atom.close",
                   "args.push"} THEN Expressions
    ELSE Asts

InputOK == token \in Tokens /\ scans \in 1..MaxTokens

\* The lists lie on temp_asts one behind the other.
InOrder(temps, bgs) ==
    /\ temps \in Seq(Asts) /\ bgs \in Seq(0..Len(temps))
    /\ \A i, j \in DOMAIN bgs : i <= j => bgs[i] <= bgs[j]

ArrayOK ==
    /\ InOrder(temp_asts, begins) /\ nodes \in Seq(Asts)
    /\ max_temp_asts \in Nat /\ Len(temp_asts) <= max_temp_asts

IInv ==
    /\ InputOK /\ ArrayOK
    /\ Activations(calls, brackets, OpenLists, {})
    /\ result \in Asts /\ (calls # <<>> => result \in Results(Last(calls)))

-----------------------------------------------------------------------------
(***************************************************************************)
(* Activations and what is theirs.                                         *)
(***************************************************************************)
LEMMA LastOfAppend ==
    ASSUME NEW T, NEW s \in Seq(T), NEW e \in T
    PROVE  /\ Append(s, e) \in Seq(T) /\ Append(s, e) # <<>>
           /\ Last(Append(s, e)) = e /\ Front(Append(s, e)) = s
<1>1. Append(s, e) \in Seq(T) /\ Append(s, e) # <<>> /\ Len(Append(s, e)) = Len(s) + 1
      /\ Append(s, e)[Len(s) + 1] = e /\ \A i \in 1..Len(s) : Append(s, e)[i] = s[i]
  BY AppendProperties
<1>2. Len(s) \in Nat
  BY LenProperties
<1>3. Front(Append(s, e)) = SubSeq(Append(s, e), 1, Len(s))
  BY <1>1, <1>2 DEF Front
<1>4. SubSeq(Append(s, e), 1, Len(s)) = s
  <2> DEFINE f == SubSeq(Append(s, e), 1, Len(s))
  <2>1. \A i \in 1..Len(s) : Append(s, e)[i] \in T
    BY <1>1, ElementOfSeq
  <2>2. f \in Seq(T) /\ Len(f) = (IF 1 <= Len(s) THEN Len(s) - 1 + 1 ELSE 0)
        /\ \A i \in 1 .. Len(s) - 1 + 1 : f[i] = Append(s, e)[1 + i - 1]
    BY <1>2, <2>1, SubSeqProperties
  <2>3. Len(f) = Len(s) /\ \A i \in 1..Len(s) : f[i] = s[i]
    BY <1>1, <1>2, <2>2
  <2> QED BY <2>2, <2>3, SeqEqual
<1> QED BY <1>1, <1>2, <1>3, <1>4 DEF Last

LEMMA FrontAndLast ==
    ASSUME NEW T, NEW s \in Seq(T), s # <<>>
    PROVE  Front(s) \in Seq(T) /\ Last(s) \in T /\ s = Append(Front(s), Last(s))
<1>1. PICK f \in Seq(T), e \in T : s = Append(f, e)
  BY SequenceEmptyOrAppend
<1> QED BY <1>1, LastOfAppend

LEMMA RankedIsNat ==
    ASSUME NEW cs, NEW S, NEW first \in Nat, NEW i \in Nat
    PROVE  /\ IsFiniteSet({j \in first..i : cs[j] \in S})
           /\ Ranked(cs, i, first, S) \in Nat
<1>1. IsFiniteSet(first..i)
  BY FS_Interval
<1>2. IsFiniteSet({j \in first..i : cs[j] \in S})
  BY <1>1, FS_Subset
<1> QED BY <1>2, FS_CardinalityType DEF Ranked

LEMMA RankedGrows ==
    ASSUME NEW cs, NEW S, NEW first \in Nat, NEW i \in Nat, NEW k \in Nat, i <= k
    PROVE  Ranked(cs, i, first, S) <= Ranked(cs, k, first, S)
<1> DEFINE Upto(n) == {j \in first..n : cs[j] \in S}
<1>1. Upto(i) \subseteq Upto(k)
  OBVIOUS
<1>2. IsFiniteSet(Upto(k))
  BY RankedIsNat
<1> QED BY <1>1, <1>2, FS_Subset DEF Ranked

LEMMA RankedStep ==
    ASSUME NEW cs, NEW S, NEW first \in Nat, NEW i \in Nat
    PROVE  Ranked(cs, i + 1, first, S) =
             IF first <= i + 1 /\ cs[i + 1] \in S THEN Ranked(cs, i, first, S) + 1
                                                ELSE Ranked(cs, i, first, S)
<1> DEFINE Upto(n) == {j \in first..n : cs[j] \in S}
<1>1. IsFiniteSet(Upto(i)) /\ i + 1 \notin Upto(i)
  <2>1. IsFiniteSet(Upto(i))
    BY RankedIsNat
  <2> QED BY <2>1
<1>2. CASE first <= i + 1 /\ cs[i + 1] \in S
  <2>1. Upto(i + 1) = Upto(i) \cup {i + 1}
    BY <1>2
  <2>2. Cardinality(Upto(i) \cup {i + 1}) = Cardinality(Upto(i)) + 1
    BY <1>1, FS_AddElement
  <2> QED BY <1>2, <2>1, <2>2 DEF Ranked
<1>3. CASE ~(first <= i + 1 /\ cs[i + 1] \in S)
  <2>1. Upto(i + 1) = Upto(i)
    BY <1>3
  <2> QED BY <1>3, <2>1 DEF Ranked
<1> QED BY <1>2, <1>3

\* Only the calls up to the i-th count.
LEMMA RankedBelow ==
    ASSUME NEW T, NEW cs \in Seq(T), NEW l \in T, NEW S, NEW first \in Nat \ {0}, NEW i \in 0..Len(cs)
    PROVE  Ranked(Append(cs, l), i, first, S) = Ranked(cs, i, first, S)
<1>1. \A j \in 1..Len(cs) : Append(cs, l)[j] = cs[j]
  BY AppendProperties
<1>2. Len(cs) \in Nat
  BY LenProperties
<1>3. \A j \in first..i : Append(cs, l)[j] = cs[j]
  BY <1>1, <1>2
<1>4. {j \in first..i : Append(cs, l)[j] \in S} = {j \in first..i : cs[j] \in S}
  BY <1>3
<1> QED BY <1>4 DEF Ranked

LEMMA RankedAppend ==
    ASSUME NEW T, NEW cs \in Seq(T), NEW l \in T, NEW S, NEW first \in Nat \ {0}
    PROVE  Ranked(Append(cs, l), Len(cs) + 1, first, S) =
             IF first <= Len(cs) + 1 /\ l \in S THEN Ranked(cs, Len(cs), first, S) + 1
                                                ELSE Ranked(cs, Len(cs), first, S)
<1> DEFINE ds == Append(cs, l)
<1>1. Len(cs) \in Nat /\ ds[Len(cs) + 1] = l
  BY AppendProperties, LenProperties
<1>2. Ranked(ds, Len(cs), first, S) = Ranked(cs, Len(cs), first, S)
  BY <1>1, RankedBelow
<1> HIDE DEF ds
<1>3. Ranked(ds, Len(cs) + 1, first, S) =
        IF first <= Len(cs) + 1 /\ ds[Len(cs) + 1] \in S THEN Ranked(ds, Len(cs), first, S) + 1
                                                         ELSE Ranked(ds, Len(cs), first, S)
  BY <1>1, RankedStep
<1> QED BY <1>1, <1>2, <1>3 DEF ds

\* A call that has no item of its own.
LEMMA MatchedOther ==
    ASSUME NEW T, NEW cs \in Seq(T), NEW l \in T, NEW S, NEW first \in Nat \ {0},
           NEW items, NEW fits, l \notin S \/ Len(cs) + 1 < first
    PROVE  Matched(items, Append(cs, l), first, S, fits) <=> Matched(items, cs, first, S, fits)
<1> DEFINE ds == Append(cs, l)
<1>1. Len(cs) \in Nat /\ Len(ds) = Len(cs) + 1 /\ ds[Len(cs) + 1] = l
      /\ \A j \in 1..Len(cs) : ds[j] = cs[j]
  BY AppendProperties, LenProperties
<1>2. Ranked(ds, Len(ds), first, S) = Ranked(cs, Len(cs), first, S)
  BY <1>1, RankedAppend, RankedBelow
<1>3. \A i \in first..Len(cs) : Ranked(ds, i, first, S) = Ranked(cs, i, first, S)
  <2> TAKE i \in first..Len(cs)
  <2>1. i \in 0..Len(cs)
    BY <1>1
  <2> QED BY <2>1, RankedBelow
<1>4. \A i \in first..Len(ds) : ds[i] \in S => i \in first..Len(cs)
  BY <1>1
<1>5. \A i \in first..Len(cs) : i \in first..Len(ds) /\ ds[i] = cs[i]
  BY <1>1
<1> HIDE DEF ds
<1> QED
  <2>1. Matched(items, ds, first, S, fits) <=> Matched(items, cs, first, S, fits)
    BY <1>2, <1>3, <1>4, <1>5 DEF Matched
  <2> QED BY <2>1 DEF ds

\* A call with an item: it is the last.
LEMMA MatchedHolder ==
    ASSUME NEW T, NEW cs \in Seq(T), NEW l \in T, NEW S, NEW first \in Nat \ {0},
           NEW I, NEW items \in Seq(I), NEW item \in I, NEW fits,
           l \in S, first <= Len(cs) + 1
    PROVE  Matched(Append(items, item), Append(cs, l), first, S, fits)
             <=> Matched(items, cs, first, S, fits) /\ <<l, item>> \in fits
<1> DEFINE ds == Append(cs, l)
           more == Append(items, item)
           n == Len(cs) + 1
<1>1. Len(cs) \in Nat /\ Len(ds) = n /\ ds[n] = l /\ n \in Nat
      /\ \A j \in 1..Len(cs) : ds[j] = cs[j]
  BY AppendProperties, LenProperties
<1>2. Len(items) \in Nat /\ Len(more) = Len(items) + 1 /\ more[Len(items) + 1] = item
      /\ \A j \in 1..Len(items) : more[j] = items[j]
  BY AppendProperties, LenProperties
<1>3. Ranked(ds, n, first, S) = Ranked(cs, Len(cs), first, S) + 1
  BY <1>1, RankedAppend
<1>4. \A i \in first..Len(cs) : Ranked(ds, i, first, S) = Ranked(cs, i, first, S)
  <2> TAKE i \in first..Len(cs)
  <2>1. i \in 0..Len(cs)
    BY <1>1
  <2> QED BY <2>1, RankedBelow
<1>5. Ranked(cs, Len(cs), first, S) \in Nat
  BY <1>1, RankedIsNat
<1>6. Len(more) = Ranked(ds, Len(ds), first, S) <=> Len(items) = Ranked(cs, Len(cs), first, S)
  BY <1>1, <1>2, <1>3, <1>5
<1>7. SUFFICES ASSUME Len(items) = Ranked(cs, Len(cs), first, S)
               PROVE Matched(more, ds, first, S, fits) <=> Matched(items, cs, first, S, fits) /\ <<l, item>> \in fits
  BY <1>6 DEF Matched
<1>8. ASSUME NEW i \in first..Len(cs), cs[i] \in S
      PROVE  more[Ranked(ds, i, first, S)] = items[Ranked(cs, i, first, S)] /\ ds[i] = cs[i]
  <2>1. i - 1 \in Nat /\ i \in Nat /\ i <= Len(cs) /\ i \in 1..Len(cs) /\ (i - 1) + 1 = i /\ first <= i
    BY <1>1
  <2>2. Ranked(cs, i, first, S) <= Len(items)
    BY <1>1, <1>7, <2>1, RankedGrows
  <2>3. Ranked(cs, (i - 1) + 1, first, S) = Ranked(cs, i - 1, first, S) + 1
    BY <1>8, <2>1, RankedStep
  <2>4. Ranked(cs, i - 1, first, S) \in Nat
    BY <2>1, RankedIsNat
  <2>5. Ranked(cs, i, first, S) \in 1..Len(items)
    BY <1>2, <2>1, <2>2, <2>3, <2>4
  <2> QED BY <1>1, <1>2, <1>4, <2>1, <2>5
<1>9. more[Ranked(ds, n, first, S)] = item
  BY <1>2, <1>3, <1>7
<1>10. \A i \in first..Len(ds) : i = n \/ i \in first..Len(cs)
  BY <1>1
<1>11. \A i \in first..Len(cs) : i \in first..Len(ds) /\ ds[i] = cs[i]
  BY <1>1
<1>12. n \in first..Len(ds)
  BY <1>1
<1> HIDE DEF ds, more, n
<1>13. Matched(items, cs, first, S, fits) <=>
        \A i \in first..Len(cs) : cs[i] \in S => <<cs[i], items[Ranked(cs, i, first, S)]>> \in fits
  BY <1>7 DEF Matched
<1>14. Matched(more, ds, first, S, fits) <=>
        \A i \in first..Len(ds) : ds[i] \in S => <<ds[i], more[Ranked(ds, i, first, S)]>> \in fits
  BY <1>6, <1>7 DEF Matched
<1> QED BY <1>1, <1>8, <1>9, <1>10, <1>11, <1>12, <1>13, <1>14

\* So there is one.
LEMMA HolderHasItem ==
    ASSUME NEW T, NEW cs \in Seq(T), NEW l \in T, NEW S, NEW first \in Nat \ {0},
           NEW I, NEW items \in Seq(I), NEW fits, l \in S, first <= Len(cs) + 1,
           Matched(items, Append(cs, l), first, S, fits)
    PROVE  items # <<>>
<1>1. Len(cs) \in Nat /\ Len(Append(cs, l)) = Len(cs) + 1
  BY AppendProperties, LenProperties
<1>2. Len(items) = Ranked(cs, Len(cs), first, S) + 1
  BY <1>1, RankedAppend DEF Matched
<1>3. Ranked(cs, Len(cs), first, S) \in Nat
  BY <1>1, RankedIsNat
<1> QED BY <1>2, <1>3, EmptySeq

-----------------------------------------------------------------------------
(***************************************************************************)
(* Calls and returns.                                                      *)
(***************************************************************************)
LEMMA NestedAppend ==
    ASSUME NEW s \in Seq(Locations), NEW l \in Locations
    PROVE  Nested(Append(s, l)) <=>
             Nested(s) /\ IF s = <<>> THEN l \in Root ELSE CalledFrom(Last(s), l)
<1> DEFINE cs == Append(s, l)
           n == Len(s) + 1
<1>1. Len(s) \in Nat /\ DOMAIN s = 1..Len(s) /\ cs \in Seq(Locations)
      /\ Len(cs) = n /\ cs[n] = l /\ \A i \in 1..Len(s) : cs[i] = s[i]
  BY AppendProperties, LenProperties
<1>2. DOMAIN cs = 1..n
  BY <1>1, LenProperties
<1>3. s = <<>> <=> Len(s) = 0
  BY EmptySeq
<1> HIDE DEF cs
<1>4. \A i \in DOMAIN s : i \in DOMAIN cs /\ cs[i] = s[i] /\ (i # 1 => cs[i - 1] = s[i - 1])
  BY <1>1, <1>2
<1>5. n \in DOMAIN cs /\ \A i \in DOMAIN cs : i = n \/ i \in DOMAIN s
  BY <1>1, <1>2
<1>6. n = 1 <=> s = <<>>
  BY <1>1, <1>3
<1>7. n # 1 => cs[n - 1] = Last(s)
  BY <1>1 DEF Last
<1> HIDE DEF n
<1>8. Nested(cs) <=> Nested(s) /\ IF n = 1 THEN cs[n] \in Root ELSE CalledFrom(cs[n - 1], cs[n])
  BY <1>4, <1>5 DEF Nested
<1> QED BY <1>1, <1>6, <1>7, <1>8 DEF cs

LEMMA LocationSets ==
    /\ Waiting \subseteq Locations /\ Owning \subseteq Locations /\ Root \subseteq Locations
    /\ \A l, b : <<l, b>> \in BracketFits <=> l \in Locations /\ b \in Openers /\ l \in Inside[b]
    /\ \A l, ls, w : <<l, ls>> \in ListFits(w) <=>
         l \in Locations /\ ls \in Seq(Asts) /\ ToSet(ls) \subseteq HeldKinds(l, w)
<1>1. Waiting \subseteq Locations
  BY DEF Waiting, Inside, Openers, Locations
<1>2. Owning \subseteq Locations
  BY DEF Owning
<1>3. Root \subseteq Locations
  BY DEF Root, Locations
<1>4. \A l, b : <<l, b>> \in BracketFits <=> l \in Locations /\ b \in Openers /\ l \in Inside[b]
  BY DEF BracketFits
<1>5. \A l, ls, w : <<l, ls>> \in ListFits(w) <=>
         l \in Locations /\ ls \in Seq(Asts) /\ ToSet(ls) \subseteq HeldKinds(l, w)
  BY DEF ListFits
<1> QED BY <1>1, <1>2, <1>3, <1>4, <1>5

\* The location at which an activation is in a bracket tells which.
LEMMA BracketOfLocation ==
    /\ \A l \in Waiting : \E b \in Openers : l \in Inside[b]
    /\ \A b \in Openers : \A l \in Inside[b] : l \in Waiting
    /\ \A b, d \in Openers : \A l : l \in Inside[b] /\ l \in Inside[d] => b = d
    /\ \A b \in Openers : \A l \in Inside[b] : Awaited(l) = b
<1>1. \A b, d \in Openers : \A l : l \in Inside[b] /\ l \in Inside[d] => b = d
  BY DEF Inside, Openers
<1>2. \A b \in Openers : \A l \in Inside[b] : Awaited(l) = b
  BY <1>1 DEF Awaited
<1> QED BY <1>1, <1>2 DEF Waiting

\* Without the newest activation.
LEMMA Drop ==
    ASSUME NEW s \in Seq(Locations), NEW l \in Locations, NEW bs, NEW ls, NEW w,
           Activations(Append(s, l), bs, ls, w)
    PROVE  /\ Activations(s, IF l \in Waiting /\ s # <<>> THEN Front(bs) ELSE bs,
                             IF l \in Owning THEN Front(ls) ELSE ls, w)
           /\ IF s = <<>> THEN l \in Root ELSE CalledFrom(Last(s), l)
           /\ l \in Waiting /\ s # <<>> =>
                /\ Front(bs) \in Seq(Openers) /\ Last(bs) \in Openers
                /\ bs = Append(Front(bs), Last(bs)) /\ l \in Inside[Last(bs)]
           /\ l \in Owning =>
                /\ ls # <<>> /\ Front(ls) \in Seq(Seq(Asts)) /\ Last(ls) \in Seq(Asts)
                /\ ls = Append(Front(ls), Last(ls)) /\ ToSet(Last(ls)) \subseteq HeldKinds(l, w)
<1>1. bs \in Seq(Openers) /\ ls \in Seq(Seq(Asts)) /\ Nested(Append(s, l))
  BY DEF Activations
<1>2. Len(s) \in Nat /\ (s = <<>> <=> Len(s) = 0)
  BY LenProperties, EmptySeq
<1>3. Nested(s) /\ IF s = <<>> THEN l \in Root ELSE CalledFrom(Last(s), l)
  BY <1>1, NestedAppend
<1>4. ASSUME l \in Waiting, s # <<>>
      PROVE  /\ Front(bs) \in Seq(Openers) /\ Last(bs) \in Openers
             /\ bs = Append(Front(bs), Last(bs)) /\ l \in Inside[Last(bs)]
             /\ Matched(Front(bs), s, 2, Waiting, BracketFits)
  <2>1. 2 <= Len(s) + 1 /\ 2 \in Nat \ {0}
    BY <1>2, <1>4
  <2>2. Matched(bs, Append(s, l), 2, Waiting, BracketFits)
    BY DEF Activations
  <2>3. bs # <<>>
    BY <1>1, <1>4, <2>1, <2>2, HolderHasItem, Zenon
  <2>4. PICK rest \in Seq(Openers), b \in Openers : bs = Append(rest, b)
    BY <1>1, <2>3, SequenceEmptyOrAppend
  <2>5. Matched(Append(rest, b), Append(s, l), 2, Waiting, BracketFits)
    BY <2>2, <2>4
  <2>6. <<l, b>> \in BracketFits /\ Matched(rest, s, 2, Waiting, BracketFits)
    BY <1>4, <2>1, <2>5, MatchedHolder, Zenon
  <2>7. Front(bs) = rest /\ Last(bs) = b
    BY <2>4, LastOfAppend
  <2> QED BY <2>4, <2>6, <2>7, LocationSets
<1>5. ASSUME ~(l \in Waiting /\ s # <<>>) PROVE Matched(bs, s, 2, Waiting, BracketFits)
  <2>1. l \notin Waiting \/ Len(s) + 1 < 2
    BY <1>2, <1>5
  <2>2. Matched(bs, Append(s, l), 2, Waiting, BracketFits) /\ 2 \in Nat \ {0}
    BY DEF Activations
  <2> QED BY <2>1, <2>2, MatchedOther, Zenon
<1>6. ASSUME l \in Owning
      PROVE  /\ ls # <<>> /\ Front(ls) \in Seq(Seq(Asts)) /\ Last(ls) \in Seq(Asts)
             /\ ls = Append(Front(ls), Last(ls)) /\ ToSet(Last(ls)) \subseteq HeldKinds(l, w)
             /\ Matched(Front(ls), s, 1, Owning, ListFits(w))
  <2>1. 1 <= Len(s) + 1 /\ 1 \in Nat \ {0}
    BY <1>2
  <2>2. Matched(ls, Append(s, l), 1, Owning, ListFits(w))
    BY DEF Activations
  <2>3. ls # <<>>
    BY <1>1, <1>6, <2>1, <2>2, HolderHasItem, Zenon
  <2>4. PICK rest \in Seq(Seq(Asts)), list \in Seq(Asts) : ls = Append(rest, list)
    BY <1>1, <2>3, SequenceEmptyOrAppend
  <2>5. Matched(Append(rest, list), Append(s, l), 1, Owning, ListFits(w))
    BY <2>2, <2>4
  <2>6. <<l, list>> \in ListFits(w) /\ Matched(rest, s, 1, Owning, ListFits(w))
    BY <1>6, <2>1, <2>5, MatchedHolder, Zenon
  <2>7. Front(ls) = rest /\ Last(ls) = list
    BY <2>4, LastOfAppend
  <2> QED BY <2>3, <2>4, <2>6, <2>7, LocationSets
<1>7. ASSUME l \notin Owning PROVE Matched(ls, s, 1, Owning, ListFits(w))
  <2>1. Matched(ls, Append(s, l), 1, Owning, ListFits(w)) /\ 1 \in Nat \ {0}
    BY DEF Activations
  <2> QED BY <1>7, <2>1, MatchedOther, Zenon
<1>8. Activations(s, IF l \in Waiting /\ s # <<>> THEN Front(bs) ELSE bs,
                     IF l \in Owning THEN Front(ls) ELSE ls, w)
  BY <1>1, <1>3, <1>4, <1>5, <1>6, <1>7 DEF Activations
<1> QED BY <1>3, <1>4, <1>6, <1>8

\* With one more activation; it brings its bracket and its list with it.
LEMMA Push1 ==
    ASSUME NEW s \in Seq(Locations), NEW l \in Locations, NEW bs, NEW ls, NEW w,
           Activations(s, bs, ls, w), IF s = <<>> THEN l \in Root ELSE CalledFrom(Last(s), l)
    PROVE  /\ l \notin Waiting \/ s = <<>> => Matched(bs, Append(s, l), 2, Waiting, BracketFits)
           /\ \A b \in Openers : l \in Inside[b] /\ s # <<>> =>
                Matched(Append(bs, b), Append(s, l), 2, Waiting, BracketFits)
           /\ l \notin Owning => Matched(ls, Append(s, l), 1, Owning, ListFits(w))
           /\ \A list \in Seq(Asts) : l \in Owning /\ ToSet(list) \subseteq HeldKinds(l, w) =>
                Matched(Append(ls, list), Append(s, l), 1, Owning, ListFits(w))
           /\ Nested(Append(s, l)) /\ Append(s, l) \in Seq(Locations)
           /\ bs \in Seq(Openers) /\ ls \in Seq(Seq(Asts))
           /\ \A b \in Openers : Append(bs, b) \in Seq(Openers)
           /\ \A list \in Seq(Asts) : Append(ls, list) \in Seq(Seq(Asts))
<1>1. bs \in Seq(Openers) /\ ls \in Seq(Seq(Asts)) /\ Nested(s)
      /\ Matched(bs, s, 2, Waiting, BracketFits) /\ Matched(ls, s, 1, Owning, ListFits(w))
  BY DEF Activations
<1>2. Len(s) \in Nat /\ (s = <<>> <=> Len(s) = 0) /\ 1 \in Nat \ {0} /\ 2 \in Nat \ {0}
  BY LenProperties, EmptySeq
<1>3. Nested(Append(s, l)) /\ Append(s, l) \in Seq(Locations)
  BY <1>1, NestedAppend, AppendProperties
<1>4. /\ \A b \in Openers : Append(bs, b) \in Seq(Openers)
      /\ \A list \in Seq(Asts) : Append(ls, list) \in Seq(Seq(Asts))
  BY <1>1, AppendProperties
<1>5. ASSUME l \notin Waiting \/ s = <<>> PROVE Matched(bs, Append(s, l), 2, Waiting, BracketFits)
  <2>1. l \notin Waiting \/ Len(s) + 1 < 2
    BY <1>2, <1>5
  <2> QED BY <1>1, <1>2, <2>1, MatchedOther, Zenon
<1>6. ASSUME NEW b \in Openers, l \in Inside[b], s # <<>>
      PROVE  Matched(Append(bs, b), Append(s, l), 2, Waiting, BracketFits)
  <2>1. 2 <= Len(s) + 1
    BY <1>2, <1>6
  <2>2. l \in Waiting /\ <<l, b>> \in BracketFits
    BY <1>6, LocationSets, BracketOfLocation
  <2> QED BY <1>1, <1>2, <2>1, <2>2, MatchedHolder, Zenon
<1>7. ASSUME l \notin Owning PROVE Matched(ls, Append(s, l), 1, Owning, ListFits(w))
  BY <1>1, <1>2, <1>7, MatchedOther, Zenon
<1>8. ASSUME NEW list \in Seq(Asts), l \in Owning, ToSet(list) \subseteq HeldKinds(l, w)
      PROVE  Matched(Append(ls, list), Append(s, l), 1, Owning, ListFits(w))
  <2>1. 1 <= Len(s) + 1
    BY <1>2
  <2>2. <<l, list>> \in ListFits(w)
    BY <1>8, LocationSets
  <2> QED BY <1>1, <1>2, <1>8, <2>1, <2>2, MatchedHolder, Zenon
<1> QED BY <1>1, <1>3, <1>4, <1>5, <1>6, <1>7, <1>8

\* The function goes on: it is called from the same places, in the same
\* bracket, and builds the same list.
SameCaller(l, a) ==
    (l \in Root => a \in Root) /\ \A c \in Locations : CalledFrom(c, l) => CalledFrom(c, a)
SameBracket(l, a) == \A b \in Openers : l \in Inside[b] <=> a \in Inside[b]

LEMMA SameBracketWaits ==
    ASSUME NEW l, NEW a, SameBracket(l, a)
    PROVE  l \in Waiting <=> a \in Waiting
  BY BracketOfLocation DEF SameBracket

LEMMA CallerOf ==
    ASSUME NEW s \in Seq(Locations), NEW l, NEW a, SameCaller(l, a),
           IF s = <<>> THEN l \in Root ELSE CalledFrom(Last(s), l)
    PROVE  IF s = <<>> THEN a \in Root ELSE CalledFrom(Last(s), a)
<1>1. CASE s = <<>>
  BY <1>1 DEF SameCaller
<1>2. CASE s # <<>>
  <2>1. Last(s) \in Locations
    BY <1>2, FrontAndLast
  <2> QED BY <1>2, <2>1 DEF SameCaller
<1> QED BY <1>1, <1>2

LEMMA KindsOf ==
    /\ \A l \in {"block.next", "block.push"} :
         Kinds(l) = {"STRUCT", "DEF", "BLOCK", "RETURN", "uninit"}
    /\ \A l \in {"fields.next", "fields.push", "params.first", "params.push", "params.next"} :
         Kinds(l) = {"PARAM"}
    /\ \A l \in {"generics.item", "generics.next"} : Kinds(l) = {"NAME"}
    /\ \A l \in {"args.next", "args.push"} : Kinds(l) = {"NAME", "FIELD", "CALL", "BINOP", "uninit"}
    /\ \A l \in Locations \ {"block.next", "block.push", "fields.next", "fields.push",
                             "params.first", "params.push", "params.next", "generics.item",
                             "generics.next", "args.next", "args.push"} : Kinds(l) = {}
  BY DEF Kinds

\* What a function holds depends on what it makes.
LEMMA SameKinds ==
    ASSUME NEW l \in Locations, NEW a \in Locations, Kinds(l) = Kinds(a), NEW w
    PROVE  HeldKinds(l, w) = HeldKinds(a, w)
<1>1. \A x \in Locations : x \in Blocks <=> Kinds(x) = {"STRUCT", "DEF", "BLOCK", "RETURN", "uninit"}
  <2>1. \A x \in Blocks : Kinds(x) = {"STRUCT", "DEF", "BLOCK", "RETURN", "uninit"}
    BY KindsOf DEF Blocks
  <2>2. \A x \in Locations \ Blocks : "STRUCT" \notin Kinds(x)
    BY KindsOf DEF Blocks
  <2> QED BY <2>1, <2>2
<1> QED BY <1>1 DEF HeldKinds

LEMMA Continues ==
    ASSUME NEW s \in Seq(Locations), NEW l \in Locations, NEW a \in Locations, NEW bs, NEW ls, NEW w,
           Activations(Append(s, l), bs, ls, w),
           SameCaller(l, a), SameBracket(l, a), Kinds(l) = Kinds(a)
    PROVE  Activations(Append(s, a), bs, ls, w)
<1> DEFINE b0 == IF l \in Waiting /\ s # <<>> THEN Front(bs) ELSE bs
           l0 == IF l \in Owning THEN Front(ls) ELSE ls
<1>1. Activations(s, b0, l0, w) /\ IF s = <<>> THEN l \in Root ELSE CalledFrom(Last(s), l)
  BY Drop
<1>2. l \in Waiting /\ s # <<>> => Last(bs) \in Openers /\ bs = Append(b0, Last(bs)) /\ l \in Inside[Last(bs)]
  BY Drop
<1>3. l \in Owning => Last(ls) \in Seq(Asts) /\ ls = Append(l0, Last(ls)) /\ ToSet(Last(ls)) \subseteq HeldKinds(a, w)
  BY Drop, SameKinds
<1>4. l \notin Waiting \/ s = <<>> => b0 = bs
  OBVIOUS
<1>5. l \notin Owning => l0 = ls
  OBVIOUS
<1> HIDE DEF b0, l0
<1>6. IF s = <<>> THEN a \in Root ELSE CalledFrom(Last(s), a)
  BY <1>1, CallerOf
<1>7. (l \in Waiting <=> a \in Waiting) /\ (l \in Owning <=> a \in Owning)
  BY SameBracketWaits DEF Owning
<1>8. Nested(Append(s, a)) /\ Append(s, a) \in Seq(Locations)
      /\ b0 \in Seq(Openers) /\ l0 \in Seq(Seq(Asts))
  BY <1>1, <1>6, Push1
<1>9. bs \in Seq(Openers) /\ ls \in Seq(Seq(Asts))
  BY DEF Activations
<1>10. Matched(bs, Append(s, a), 2, Waiting, BracketFits)
  <2>1. CASE l \in Waiting /\ s # <<>>
    <3>1. a \in Inside[Last(bs)]
      BY <1>2, <2>1 DEF SameBracket
    <3>2. Matched(Append(b0, Last(bs)), Append(s, a), 2, Waiting, BracketFits)
      BY <1>1, <1>2, <1>6, <2>1, <3>1, Push1
    <3> QED BY <1>2, <2>1, <3>2
  <2>2. CASE ~(l \in Waiting /\ s # <<>>)
    <3>1. Matched(b0, Append(s, a), 2, Waiting, BracketFits)
      BY <1>1, <1>6, <1>7, <2>2, Push1
    <3> QED BY <1>4, <2>2, <3>1
  <2> QED BY <2>1, <2>2
<1>11. Matched(ls, Append(s, a), 1, Owning, ListFits(w))
  <2>1. CASE l \in Owning
    <3>1. Matched(Append(l0, Last(ls)), Append(s, a), 1, Owning, ListFits(w))
      BY <1>1, <1>3, <1>6, <1>7, <2>1, Push1
    <3> QED BY <1>3, <2>1, <3>1
  <2>2. CASE l \notin Owning
    <3>1. Matched(l0, Append(s, a), 1, Owning, ListFits(w))
      BY <1>1, <1>6, <1>7, <2>2, Push1
    <3> QED BY <1>5, <2>2, <3>1
  <2> QED BY <2>1, <2>2
<1> QED BY <1>8, <1>9, <1>10, <1>11 DEF Activations

\* It has accepted an opening bracket.
LEMMA Opens ==
    ASSUME NEW s \in Seq(Locations), s # <<>>, NEW l \in Locations, NEW a \in Locations,
           NEW bs, NEW ls, NEW w, NEW b \in Openers, Activations(Append(s, l), bs, ls, w),
           SameCaller(l, a), l \notin Waiting, a \in Inside[b], l \notin Owning, a \notin Owning
    PROVE  Activations(Append(s, a), Append(bs, b), ls, w)
<1>1. Activations(s, bs, ls, w) /\ IF s = <<>> THEN l \in Root ELSE CalledFrom(Last(s), l)
  <2>1. Activations(s, IF l \in Waiting /\ s # <<>> THEN Front(bs) ELSE bs,
                             IF l \in Owning THEN Front(ls) ELSE ls, w)
        /\ IF s = <<>> THEN l \in Root ELSE CalledFrom(Last(s), l)
    BY Drop
  <2> QED BY <2>1
<1>2. IF s = <<>> THEN a \in Root ELSE CalledFrom(Last(s), a)
  BY <1>1, CallerOf
<1>3. Nested(Append(s, a)) /\ Append(s, a) \in Seq(Locations)
      /\ Append(bs, b) \in Seq(Openers) /\ ls \in Seq(Seq(Asts))
  BY <1>1, <1>2, Push1
<1>4. Matched(Append(bs, b), Append(s, a), 2, Waiting, BracketFits)
  BY <1>1, <1>2, Push1
<1>5. Matched(ls, Append(s, a), 1, Owning, ListFits(w))
  BY <1>1, <1>2, Push1
<1> QED BY <1>3, <1>4, <1>5 DEF Activations

\* It begins its list.
LEMMA BeginsList ==
    ASSUME NEW s \in Seq(Locations), NEW l \in Locations, NEW a \in Locations, NEW bs, NEW ls, NEW w,
           Activations(Append(s, l), bs, ls, w),
           SameCaller(l, a), SameBracket(l, a), l \notin Owning, a \in Owning
    PROVE  Activations(Append(s, a), bs, Append(ls, <<>>), w)
<1> DEFINE b0 == IF l \in Waiting /\ s # <<>> THEN Front(bs) ELSE bs
<1>1. Activations(s, b0, ls, w) /\ IF s = <<>> THEN l \in Root ELSE CalledFrom(Last(s), l)
  <2>1. Activations(s, b0, IF l \in Owning THEN Front(ls) ELSE ls, w)
        /\ IF s = <<>> THEN l \in Root ELSE CalledFrom(Last(s), l)
    BY Drop
  <2> QED BY <2>1
<1>2. l \in Waiting /\ s # <<>> => Last(bs) \in Openers /\ bs = Append(b0, Last(bs)) /\ l \in Inside[Last(bs)]
  BY Drop
<1>3. l \notin Waiting \/ s = <<>> => b0 = bs
  OBVIOUS
<1> HIDE DEF b0
<1>4. IF s = <<>> THEN a \in Root ELSE CalledFrom(Last(s), a)
  BY <1>1, CallerOf
<1>5. l \in Waiting <=> a \in Waiting
  BY SameBracketWaits
<1>6. <<>> \in Seq(Asts) /\ ToSet(<<>>) \subseteq HeldKinds(a, w)
  BY DEF ToSet
<1>7. Nested(Append(s, a)) /\ Append(s, a) \in Seq(Locations) /\ Append(ls, <<>>) \in Seq(Seq(Asts))
  BY <1>1, <1>4, <1>6, Push1
<1>8. bs \in Seq(Openers)
  BY DEF Activations
<1>9. Matched(bs, Append(s, a), 2, Waiting, BracketFits)
  <2>1. CASE l \in Waiting /\ s # <<>>
    <3>1. a \in Inside[Last(bs)]
      BY <1>2, <2>1 DEF SameBracket
    <3>2. Matched(Append(b0, Last(bs)), Append(s, a), 2, Waiting, BracketFits)
      BY <1>1, <1>2, <1>4, <2>1, <3>1, Push1
    <3> QED BY <1>2, <2>1, <3>2
  <2>2. CASE ~(l \in Waiting /\ s # <<>>)
    <3>1. Matched(b0, Append(s, a), 2, Waiting, BracketFits)
      BY <1>1, <1>4, <1>5, <2>2, Push1
    <3> QED BY <1>3, <2>2, <3>1
  <2> QED BY <2>1, <2>2
<1>10. Matched(Append(ls, <<>>), Append(s, a), 1, Owning, ListFits(w))
  BY <1>1, <1>4, <1>6, Push1
<1> QED BY <1>7, <1>8, <1>9, <1>10 DEF Activations

\* One more node in the newest list.
Added(ls, ast) == Append(Front(ls), Append(Last(ls), ast))

LEMMA Adds ==
    ASSUME NEW s \in Seq(Locations), NEW l \in Locations, NEW bs, NEW ls, NEW w,
           Activations(Append(s, l), bs, ls, w), l \in Owning, NEW ast \in Asts, ast \in HeldKinds(l, w)
    PROVE  ls # <<>> /\ Activations(Append(s, l), bs, Added(ls, ast), w)
<1> DEFINE l0 == Front(ls)
           list == Append(Last(ls), ast)
           b0 == IF l \in Waiting /\ s # <<>> THEN Front(bs) ELSE bs
<1>1. /\ ls # <<>> /\ l0 \in Seq(Seq(Asts)) /\ Last(ls) \in Seq(Asts)
      /\ ls = Append(l0, Last(ls)) /\ ToSet(Last(ls)) \subseteq HeldKinds(l, w)
  BY Drop
<1>2. Activations(s, b0, l0, w) /\ IF s = <<>> THEN l \in Root ELSE CalledFrom(Last(s), l)
  <2>1. Activations(s, b0, IF l \in Owning THEN Front(ls) ELSE ls, w)
        /\ IF s = <<>> THEN l \in Root ELSE CalledFrom(Last(s), l)
    BY Drop
  <2> QED BY <2>1
<1>3. list \in Seq(Asts) /\ Len(list) = Len(Last(ls)) + 1 /\ list[Len(Last(ls)) + 1] = ast
      /\ Len(Last(ls)) \in Nat /\ \A i \in 1..Len(Last(ls)) : list[i] = Last(ls)[i]
  BY <1>1, AppendProperties, LenProperties
<1>4. ToSet(list) \subseteq HeldKinds(l, w)
  <2>1. DOMAIN list = 1..Len(list) /\ DOMAIN Last(ls) = 1..Len(Last(ls))
    BY <1>1, <1>3, LenProperties
  <2> HIDE DEF list
  <2>2. ASSUME NEW i \in DOMAIN list PROVE list[i] \in HeldKinds(l, w)
    <3>1. CASE i = Len(Last(ls)) + 1
      BY <1>3, <3>1
    <3>2. CASE i # Len(Last(ls)) + 1
      <4>1. i \in 1..Len(Last(ls)) /\ i \in DOMAIN Last(ls)
        BY <1>3, <2>1, <3>2
      <4>2. Last(ls)[i] \in ToSet(Last(ls))
        BY <4>1 DEF ToSet
      <4> QED BY <1>1, <1>3, <4>1, <4>2
    <3> QED BY <3>1, <3>2
  <2> QED BY <2>2 DEF ToSet
<1> HIDE DEF l0, list, b0
<1>5. Append(l0, list) \in Seq(Seq(Asts)) /\ Matched(Append(l0, list), Append(s, l), 1, Owning, ListFits(w))
  BY <1>2, <1>3, <1>4, Push1
<1>6. Added(ls, ast) = Append(l0, list)
  BY DEF Added, l0, list
<1> QED BY <1>1, <1>5, <1>6 DEF Activations

\* A function is called.
LEMMA Calls ==
    ASSUME NEW s \in Seq(Locations), s # <<>>, NEW a \in Locations, NEW bs, NEW ls, NEW w,
           Activations(s, bs, ls, w), CalledFrom(Last(s), a), a \notin Waiting, a \notin Owning
    PROVE  Activations(Append(s, a), bs, ls, w)
<1>1. Nested(Append(s, a)) /\ Append(s, a) \in Seq(Locations)
      /\ bs \in Seq(Openers) /\ ls \in Seq(Seq(Asts))
  BY Push1
<1>2. Matched(bs, Append(s, a), 2, Waiting, BracketFits)
  BY Push1
<1>3. Matched(ls, Append(s, a), 1, Owning, ListFits(w))
  BY Push1
<1> QED BY <1>1, <1>2, <1>3 DEF Activations

LEMMA CallsOpening ==
    ASSUME NEW s \in Seq(Locations), s # <<>>, NEW a \in Locations, NEW bs, NEW ls, NEW w,
           NEW b \in Openers, Activations(s, bs, ls, w), CalledFrom(Last(s), a),
           a \in Inside[b], a \notin Owning
    PROVE  Activations(Append(s, a), Append(bs, b), ls, w)
<1>1. Nested(Append(s, a)) /\ Append(s, a) \in Seq(Locations)
      /\ Append(bs, b) \in Seq(Openers) /\ ls \in Seq(Seq(Asts))
  BY Push1
<1>2. Matched(Append(bs, b), Append(s, a), 2, Waiting, BracketFits)
  BY Push1
<1>3. Matched(ls, Append(s, a), 1, Owning, ListFits(w))
  BY Push1
<1> QED BY <1>1, <1>2, <1>3 DEF Activations

-----------------------------------------------------------------------------
(***************************************************************************)
(* The places in the functions.                                            *)
(***************************************************************************)
Goes(l, a) == l \in Locations /\ a \in Locations /\ SameCaller(l, a) /\ SameBracket(l, a) /\ Kinds(l) = Kinds(a)

LEMMA Owners ==
    Owning = {"block.next", "block.push", "fields.next", "fields.push",
              "params.first", "params.push", "params.next", "generics.item",
              "generics.next", "args.next", "args.push"}
  BY KindsOf DEF Owning, Locations

LEMMA Waiters ==
    Waiting = {"block", "block.next", "block.push", "fields", "fields.next", "fields.push",
               "generics.list", "generics.item", "generics.next",
               "params.list", "params.first", "params.push", "params.next",
               "type.close", "atom.close", "args", "args.next", "args.push"}
  BY DEF Waiting, Inside, Openers

LEMMA GoesOn ==
    /\ Goes("param", "param.colon") /\ Goes("param.colon", "param.push")
    /\ Goes("generics.item", "generics.next") /\ Goes("generics.next", "generics.item")
    /\ Goes("fields.next", "fields.next") /\ Goes("fields.next", "fields.push")
    /\ Goes("fields.push", "fields.next")
    /\ Goes("struct", "struct.body") /\ Goes("struct.body", "struct.end")
    /\ Goes("params.first", "params.push") /\ Goes("params.next", "params.push")
    /\ Goes("params.push", "params.next")
    /\ Goes("def", "def.return") /\ Goes("def.return", "def.body") /\ Goes("def.body", "def.end")
<1>1. Goes("param", "param.colon") /\ Goes("param.colon", "param.push")
  BY KindsOf DEF Goes, SameCaller, SameBracket, CalledFrom, Inside, Openers, Locations, Root
<1>2. Goes("generics.item", "generics.next") /\ Goes("generics.next", "generics.item")
  BY KindsOf DEF Goes, SameCaller, SameBracket, CalledFrom, Inside, Openers, Locations, Root
<1>3. Goes("fields.next", "fields.next") /\ Goes("fields.next", "fields.push")
    /\ Goes("fields.push", "fields.next")
  BY KindsOf DEF Goes, SameCaller, SameBracket, CalledFrom, Inside, Openers, Locations, Root
<1>4. Goes("struct", "struct.body") /\ Goes("struct.body", "struct.end")
  BY KindsOf DEF Goes, SameCaller, SameBracket, CalledFrom, Inside, Openers, Locations, Root
<1>5. Goes("params.first", "params.push") /\ Goes("params.next", "params.push")
    /\ Goes("params.push", "params.next")
  BY KindsOf DEF Goes, SameCaller, SameBracket, CalledFrom, Inside, Openers, Locations, Root
<1>6. Goes("def", "def.return")
  BY KindsOf DEF Goes, SameCaller, SameBracket, CalledFrom, Inside, Openers, Locations, Root
<1>7. Goes("def.return", "def.body") /\ Goes("def.body", "def.end")
  BY KindsOf DEF Goes, SameCaller, SameBracket, CalledFrom, Inside, Openers, Locations, Root
<1> QED BY <1>1, <1>2, <1>3, <1>4, <1>5, <1>6, <1>7

LEMMA GoesOnInCode ==
    /\ Goes("args.next", "args.push") /\ Goes("args.push", "args.next")
    /\ Goes("suffix", "suffix.next") /\ Goes("suffix.next", "suffix.field")
    /\ Goes("suffix.field", "suffix.next") /\ Goes("suffix.next", "suffix.call")
    /\ Goes("suffix.call", "suffix.next")
    /\ Goes("term", "term.next") /\ Goes("term.next", "term.binop") /\ Goes("term.binop", "term.next")
    /\ Goes("expression", "expression.next") /\ Goes("expression.next", "expression.binop")
    /\ Goes("expression.binop", "expression.next")
    /\ Goes("statement", "return") /\ Goes("return", "return.end")
    /\ Goes("block.next", "block.next") /\ Goes("block.next", "block.push")
    /\ Goes("block.push", "block.next")
<1>1. Goes("args.next", "args.push") /\ Goes("args.push", "args.next")
  BY KindsOf DEF Goes, SameCaller, SameBracket, CalledFrom, Inside, Openers, Locations, Root
<1>2. Goes("suffix", "suffix.next") /\ Goes("suffix.next", "suffix.field")
    /\ Goes("suffix.field", "suffix.next") /\ Goes("suffix.next", "suffix.call")
    /\ Goes("suffix.call", "suffix.next")
  BY KindsOf DEF Goes, SameCaller, SameBracket, CalledFrom, Inside, Openers, Locations, Root
<1>3. Goes("term", "term.next") /\ Goes("term.next", "term.binop") /\ Goes("term.binop", "term.next")
  BY KindsOf DEF Goes, SameCaller, SameBracket, CalledFrom, Inside, Openers, Locations, Root
<1>4. Goes("expression", "expression.next") /\ Goes("expression.next", "expression.binop")
    /\ Goes("expression.binop", "expression.next")
  BY KindsOf DEF Goes, SameCaller, SameBracket, CalledFrom, Inside, Openers, Locations, Root
<1>5. Goes("statement", "return") /\ Goes("return", "return.end")
  BY KindsOf DEF Goes, SameCaller, SameBracket, CalledFrom, Inside, Openers, Locations, Root
<1>6. Goes("block.next", "block.next") /\ Goes("block.next", "block.push")
    /\ Goes("block.push", "block.next")
  BY KindsOf DEF Goes, SameCaller, SameBracket, CalledFrom, Inside, Openers, Locations, Root
<1> QED BY <1>1, <1>2, <1>3, <1>4, <1>5, <1>6

\* The function goes on in the bracket it has accepted.
Enters(l, a, b) ==
    /\ l \in Locations /\ a \in Locations /\ b \in Openers /\ SameCaller(l, a)
    /\ l \notin Waiting /\ a \in Inside[b] /\ l \notin Owning /\ a \notin Owning
    /\ l \notin Root

LEMMA GoesIn ==
    /\ Enters("type", "type.close", "LPAREN") /\ Enters("atom", "atom.close", "LPAREN")
    /\ Enters("generics", "generics.list", "LSQUARE") /\ Enters("params", "params.list", "LPAREN")
    /\ Enters("statement", "block", "LCURLY")
  BY Waiters, Owners DEF Enters, SameCaller, CalledFrom, Inside, Openers, Locations, Root

\* The function begins its list.
Collects(l, a) ==
    /\ l \in Locations /\ a \in Locations /\ SameCaller(l, a) /\ SameBracket(l, a)
    /\ l \notin Owning /\ a \in Owning

LEMMA GoesCollecting ==
    /\ Collects("generics.list", "generics.item") /\ Collects("fields", "fields.next")
    /\ Collects("params.list", "params.first") /\ Collects("args", "args.next")
    /\ Collects("block", "block.next")
  BY Owners DEF Collects, SameCaller, SameBracket, CalledFrom, Inside, Openers, Locations, Root

\* One calls the other; when the caller has accepted a bracket, it is the
\* callee that is in it.
MayCall(c, l) ==
    c \in Locations /\ l \in Locations /\ CalledFrom(c, l) /\ l \notin Waiting /\ l \notin Owning
MayCallIn(c, l, b) ==
    /\ c \in Locations /\ l \in Locations /\ b \in Openers
    /\ CalledFrom(c, l) /\ l \in Inside[b] /\ l \notin Owning

LEMMA CallsDown ==
    /\ MayCall("type.close", "type") /\ MayCall("param.push", "type") /\ MayCall("def.body", "type")
    /\ MayCall("struct.body", "generics") /\ MayCall("params", "generics")
    /\ MayCall("fields.push", "param") /\ MayCall("params.push", "param")
    /\ MayCall("def.return", "params")
    /\ MayCall("atom.close", "expression") /\ MayCall("args.push", "expression")
    /\ MayCall("return.end", "expression") /\ MayCall("suffix.next", "atom")
    /\ MayCall("term.next", "suffix") /\ MayCall("term.binop", "suffix")
    /\ MayCall("expression.next", "term") /\ MayCall("expression.binop", "term")
    /\ MayCall("block.push", "struct") /\ MayCall("block.push", "def")
    /\ MayCall("block.push", "statement")
    /\ \A c \in Locations : MayCall(c, "perror")
  BY Waiters, Owners DEF MayCall, CalledFrom, Locations

LEMMA CallsDownIn ==
    /\ MayCallIn("struct.end", "fields", "LCURLY") /\ MayCallIn("def.end", "block", "LCURLY")
    /\ MayCallIn("suffix.call", "args", "LPAREN")
  BY Owners DEF MayCallIn, CalledFrom, Inside, Openers, Locations

-----------------------------------------------------------------------------
(***************************************************************************)
(* The lists on temp_asts.                                                 *)
(***************************************************************************)
LEMMA FunctionIsSequence ==
    ASSUME NEW T, NEW k \in Nat, NEW f \in [1..k -> T]
    PROVE  f \in Seq(T)
  OBVIOUS

LEMMA PartOf ==
    ASSUME NEW T, NEW s \in Seq(T), NEW m \in Nat \ {0}, NEW k \in Nat, k <= Len(s)
    PROVE  /\ SubSeq(s, m, k) \in Seq(T)
           /\ Len(SubSeq(s, m, k)) = IF m <= k THEN k - m + 1 ELSE 0
           /\ \A i \in 1..k - m + 1 : SubSeq(s, m, k)[i] = s[m + i - 1]
<1>1. Len(s) \in Nat
  BY LenProperties
<1>2. \A i \in m..k : s[i] \in T
  BY <1>1, ElementOfSeq
<1> QED BY <1>2, SubSeqProperties

LEMMA SamePart ==
    ASSUME NEW T, NEW s \in Seq(T), NEW t \in Seq(T), NEW m \in Nat \ {0}, NEW k \in Nat,
           k <= Len(s), k <= Len(t), \A i \in 1..k : s[i] = t[i]
    PROVE  SubSeq(s, m, k) = SubSeq(t, m, k)
<1> DEFINE a == SubSeq(s, m, k)
           b == SubSeq(t, m, k)
<1>1. a \in Seq(T) /\ Len(a) = (IF m <= k THEN k - m + 1 ELSE 0)
      /\ \A i \in 1..k - m + 1 : a[i] = s[m + i - 1]
  BY PartOf
<1>2. b \in Seq(T) /\ Len(b) = (IF m <= k THEN k - m + 1 ELSE 0)
      /\ \A i \in 1..k - m + 1 : b[i] = t[m + i - 1]
  BY PartOf
<1> HIDE DEF a, b
<1>3. \A i \in 1..Len(a) : a[i] = b[i]
  <2> TAKE i \in 1..Len(a)
  <2>1. i \in 1..k - m + 1 /\ m + i - 1 \in 1..k
    BY <1>1
  <2> QED BY <1>1, <1>2, <2>1
<1> QED BY <1>1, <1>2, <1>3, SeqEqual DEF a, b

\* Where the i-th list ends, and the lists, as OpenLists has them.
EndIn(temps, bgs, i) == IF i < Len(bgs) THEN bgs[i + 1] ELSE Len(temps)
ListsIn(temps, bgs) == [i \in DOMAIN bgs |-> SubSeq(temps, bgs[i] + 1, EndIn(temps, bgs, i))]

LEMMA BeginsAndEnds ==
    ASSUME NEW temps, NEW bgs, InOrder(temps, bgs)
    PROVE  /\ Len(bgs) \in Nat /\ Len(temps) \in Nat /\ DOMAIN bgs = 1..Len(bgs)
           /\ \A i \in 1..Len(bgs) :
                /\ bgs[i] \in Nat /\ bgs[i] + 1 \in Nat \ {0} /\ bgs[i] <= Len(temps)
                /\ EndIn(temps, bgs, i) \in Nat /\ bgs[i] <= EndIn(temps, bgs, i)
                /\ EndIn(temps, bgs, i) <= Len(temps)
                /\ bgs[i] <= bgs[Len(bgs)]
                /\ i < Len(bgs) => EndIn(temps, bgs, i) <= bgs[Len(bgs)]
<1>1. Len(bgs) \in Nat /\ Len(temps) \in Nat /\ DOMAIN bgs = 1..Len(bgs)
  BY LenProperties DEF InOrder
<1>2. \A i \in 1..Len(bgs) : bgs[i] \in 0..Len(temps)
  BY ElementOfSeq DEF InOrder
<1>3. \A i, j \in 1..Len(bgs) : i <= j => bgs[i] <= bgs[j]
  BY <1>1 DEF InOrder
<1> QED BY <1>1, <1>2, <1>3 DEF EndIn

LEMMA ListsAreLists ==
    ASSUME NEW temps, NEW bgs, InOrder(temps, bgs)
    PROVE  /\ ListsIn(temps, bgs) \in Seq(Seq(Asts)) /\ Len(ListsIn(temps, bgs)) = Len(bgs)
           /\ \A i \in 1..Len(bgs) :
                ListsIn(temps, bgs)[i] = SubSeq(temps, bgs[i] + 1, EndIn(temps, bgs, i))
<1> DEFINE ls == ListsIn(temps, bgs)
<1>1. \A i \in 1..Len(bgs) : ls[i] = SubSeq(temps, bgs[i] + 1, EndIn(temps, bgs, i))
  BY BeginsAndEnds DEF ListsIn
<1>2. \A i \in 1..Len(bgs) : SubSeq(temps, bgs[i] + 1, EndIn(temps, bgs, i)) \in Seq(Asts)
  <2> TAKE i \in 1..Len(bgs)
  <2> DEFINE m == bgs[i] + 1
             k == EndIn(temps, bgs, i)
  <2>1. temps \in Seq(Asts) /\ m \in Nat \ {0} /\ k \in Nat /\ k <= Len(temps)
    BY BeginsAndEnds DEF InOrder
  <2> HIDE DEF m, k
  <2>2. SubSeq(temps, m, k) \in Seq(Asts)
    BY <2>1, PartOf
  <2> QED BY <2>2 DEF m, k
<1>3. DOMAIN ls = 1..Len(bgs) /\ Len(bgs) \in Nat
  BY BeginsAndEnds DEF ListsIn
<1>4. ls = [i \in 1..Len(bgs) |-> ls[i]]
  BY <1>3 DEF ListsIn
<1> HIDE DEF ls
<1>5. ls \in [1..Len(bgs) -> Seq(Asts)]
  BY <1>1, <1>2, <1>4
<1>6. ls \in Seq(Seq(Asts))
  BY <1>3, <1>5
<1>7. Len(ls) \in Nat /\ DOMAIN ls = 1..Len(ls)
  BY <1>6, LenProperties
<1>8. Len(ls) = Len(bgs)
  BY <1>3, <1>7
<1> QED BY <1>1, <1>6, <1>8 DEF ls

\* ebi_begin_ast_list
LEMMA ListBegins ==
    ASSUME NEW temps, NEW bgs, InOrder(temps, bgs)
    PROVE  /\ InOrder(temps, Append(bgs, Len(temps)))
           /\ ListsIn(temps, Append(bgs, Len(temps))) = Append(ListsIn(temps, bgs), <<>>)
<1> DEFINE n == Len(bgs)
           more == Append(bgs, Len(temps))
           new == ListsIn(temps, more)
           old == ListsIn(temps, bgs)
<1>1. n \in Nat /\ Len(temps) \in Nat /\ temps \in Seq(Asts) /\ bgs \in Seq(0..Len(temps))
      /\ Len(temps) \in 0..Len(temps)
  BY BeginsAndEnds DEF InOrder
<1>2. more \in Seq(0..Len(temps)) /\ Len(more) = n + 1 /\ more[n + 1] = Len(temps)
      /\ (\A i \in 1..n : more[i] = bgs[i])
  BY <1>1, AppendProperties
<1>3. DOMAIN more = 1..n + 1
  BY <1>2, LenProperties
<1>4. \A i \in 1..n : bgs[i] \in Nat /\ bgs[i] <= Len(temps) /\ EndIn(temps, bgs, i) \in Nat
  BY BeginsAndEnds
<1>5. \A i, j \in 1..n : i <= j => bgs[i] <= bgs[j]
  BY BeginsAndEnds DEF InOrder
<1> HIDE DEF n, more
<1>6. InOrder(temps, more)
  <2>1. \A i, j \in 1..n + 1 : i <= j => more[i] <= more[j]
    <3> TAKE i, j \in 1..n + 1
    <3>1. CASE j = n + 1 /\ i = n + 1
      BY <1>1, <1>2, <3>1
    <3>2. CASE j = n + 1 /\ i # n + 1
      BY <1>1, <1>2, <1>4, <3>2
    <3>3. CASE j # n + 1
      <4>1. i <= j => i \in 1..n /\ j \in 1..n
        BY <1>1, <3>3
      <4> QED BY <1>2, <1>5, <4>1
    <3> QED BY <3>1, <3>2, <3>3
  <2> QED BY <1>1, <1>2, <1>3, <2>1 DEF InOrder
<1>7. new \in Seq(Seq(Asts)) /\ Len(new) = n + 1
      /\ \A i \in 1..n + 1 : new[i] = SubSeq(temps, more[i] + 1, EndIn(temps, more, i))
  BY <1>2, <1>6, ListsAreLists
<1>8. old \in Seq(Seq(Asts)) /\ Len(old) = n /\ <<>> \in Seq(Asts)
      /\ \A i \in 1..n : old[i] = SubSeq(temps, bgs[i] + 1, EndIn(temps, bgs, i))
  BY ListsAreLists, EmptySeq DEF n
<1> HIDE DEF new, old
<1>9. Append(old, <<>>) \in Seq(Seq(Asts)) /\ Len(Append(old, <<>>)) = n + 1
      /\ (\A i \in 1..n : Append(old, <<>>)[i] = old[i])
      /\ Append(old, <<>>)[n + 1] = <<>>
  BY <1>8, AppendProperties
<1>10. ASSUME NEW i \in 1..n PROVE EndIn(temps, more, i) = EndIn(temps, bgs, i)
  <2>1. CASE i < n
    <3>1. i + 1 \in 1..n /\ i < n + 1
      BY <1>1, <2>1
    <3> QED BY <1>2, <2>1, <3>1 DEF EndIn, n
  <2>2. CASE i = n
    BY <1>1, <1>2, <2>2 DEF EndIn, n
  <2> QED BY <1>1, <2>1, <2>2
<1>11. new[n + 1] = <<>>
  <2>1. EndIn(temps, more, n + 1) = Len(temps)
    BY <1>1, <1>2 DEF EndIn
  <2>2. SubSeq(temps, Len(temps) + 1, Len(temps)) = <<>>
    BY <1>1, SubSeqEmpty
  <2>3. n + 1 \in 1..n + 1
    BY <1>1
  <2>4. new[n + 1] = SubSeq(temps, more[n + 1] + 1, EndIn(temps, more, n + 1))
    BY <1>7, <2>3
  <2> QED BY <1>2, <2>1, <2>2, <2>4
<1>12. \A i \in 1..n + 1 : new[i] = Append(old, <<>>)[i]
  <2> TAKE i \in 1..n + 1
  <2>1. CASE i \in 1..n
    BY <1>2, <1>7, <1>8, <1>9, <1>10, <2>1
  <2>2. CASE i = n + 1
    BY <1>9, <1>11, <2>2
  <2>3. i \in 1..n \/ i = n + 1
    BY <1>1
  <2> QED BY <2>1, <2>2, <2>3
<1>13. new = Append(old, <<>>)
  BY <1>7, <1>9, <1>12, SeqEqual
<1> QED BY <1>6, <1>13 DEF new, old, more

LEMMA FrontIs ==
    ASSUME NEW T, NEW s \in Seq(T), s # <<>>
    PROVE  /\ Front(s) \in Seq(T) /\ Len(s) \in Nat \ {0} /\ Len(Front(s)) = Len(s) - 1
           /\ \A i \in 1..Len(s) - 1 : Front(s)[i] = s[i]
           /\ Last(s) = s[Len(s)] /\ Last(s) \in T
<1> DEFINE f == Front(s)
           e == Last(s)
<1>1. f \in Seq(T) /\ e \in T /\ s = Append(f, e)
  BY FrontAndLast
<1>2. e = s[Len(s)]
  BY DEF Last
<1> HIDE DEF f, e
<1>3. Len(Append(f, e)) = Len(f) + 1 /\ Len(f) \in Nat
      /\ \A i \in 1..Len(f) : Append(f, e)[i] = f[i]
  BY <1>1, AppendProperties, LenProperties
<1>4. Len(s) = Len(f) + 1 /\ \A i \in 1..Len(f) : s[i] = f[i]
  BY <1>1, <1>3
<1>5. Len(s) - 1 = Len(f) /\ Len(s) \in Nat \ {0}
  BY <1>3, <1>4
<1> QED BY <1>1, <1>2, <1>4, <1>5 DEF f, e

\* ebi_push_ast_list
LEMMA ListAdds ==
    ASSUME NEW temps, NEW bgs, InOrder(temps, bgs), bgs # <<>>, NEW ast \in Asts
    PROVE  /\ InOrder(Append(temps, ast), bgs)
           /\ ListsIn(Append(temps, ast), bgs) = Added(ListsIn(temps, bgs), ast)
<1> DEFINE n == Len(bgs)
           L == Len(temps)
           more == Append(temps, ast)
           new == ListsIn(more, bgs)
           old == ListsIn(temps, bgs)
<1>1. n \in Nat \ {0} /\ L \in Nat /\ temps \in Seq(Asts) /\ bgs \in Seq(0..L) /\ DOMAIN bgs = 1..n
  BY BeginsAndEnds, EmptySeq DEF InOrder
<1>2. more \in Seq(Asts) /\ Len(more) = L + 1 /\ more[L + 1] = ast
      /\ \A i \in 1..L : more[i] = temps[i]
  BY <1>1, AppendProperties
<1>3. \A i \in 1..n : bgs[i] \in Nat /\ bgs[i] + 1 \in Nat \ {0} /\ bgs[i] <= L
                      /\ EndIn(temps, bgs, i) \in Nat /\ EndIn(temps, bgs, i) <= L
  BY BeginsAndEnds
<1> HIDE DEF more, n, L
<1>4. InOrder(more, bgs)
  <2>1. 0..L \subseteq 0..L + 1
    BY <1>1
  <2>2. bgs \in Seq(0..L + 1)
    BY <1>1, <2>1, SeqMonotonic
  <2> QED BY <1>2, <2>2 DEF InOrder
<1>5. new \in Seq(Seq(Asts)) /\ Len(new) = n
      /\ \A i \in 1..n : new[i] = SubSeq(more, bgs[i] + 1, EndIn(more, bgs, i))
  BY <1>4, ListsAreLists DEF n
<1>6. old \in Seq(Seq(Asts)) /\ Len(old) = n
      /\ \A i \in 1..n : old[i] = SubSeq(temps, bgs[i] + 1, EndIn(temps, bgs, i))
  BY ListsAreLists DEF n
<1>7. old # <<>>
  BY <1>1, <1>6, EmptySeq
<1> HIDE DEF new, old
<1>8. Front(old) \in Seq(Seq(Asts)) /\ Len(Front(old)) = n - 1 /\ Last(old) = old[n]
      /\ Last(old) \in Seq(Asts) /\ \A i \in 1..n - 1 : Front(old)[i] = old[i]
  BY <1>6, <1>7, FrontIs
<1>9. Append(Last(old), ast) \in Seq(Asts)
  BY <1>8, AppendProperties
<1>10. Added(old, ast) \in Seq(Seq(Asts)) /\ Len(Added(old, ast)) = (n - 1) + 1
       /\ (\A i \in 1..n - 1 : Added(old, ast)[i] = old[i])
       /\ Added(old, ast)[(n - 1) + 1] = Append(old[n], ast)
  BY <1>8, <1>9, AppendProperties DEF Added
<1>11. ASSUME NEW i \in 1..n - 1 PROVE new[i] = old[i]
  <2> DEFINE m == bgs[i] + 1
             k == EndIn(temps, bgs, i)
  <2>1. i \in 1..n /\ i < n
    BY <1>1
  <2>2. k = EndIn(more, bgs, i)
    BY <2>1 DEF EndIn, n
  <2>3. m \in Nat \ {0} /\ k \in Nat /\ k <= L
    BY <1>3, <2>1
  <2>4. new[i] = SubSeq(more, m, k) /\ old[i] = SubSeq(temps, m, k)
    BY <1>5, <1>6, <2>1, <2>2
  <2> HIDE DEF m, k
  <2>5. k <= Len(more) /\ k <= Len(temps) /\ \A j \in 1..k : more[j] = temps[j]
    BY <1>1, <1>2, <2>3 DEF L
  <2> QED BY <1>1, <1>2, <2>3, <2>4, <2>5, SamePart
<1>12. new[n] = Append(old[n], ast)
  <2> DEFINE m == bgs[n] + 1
  <2>1. n \in 1..n /\ EndIn(temps, bgs, n) = L /\ EndIn(more, bgs, n) = L + 1
    BY <1>1, <1>2 DEF EndIn, n, L
  <2>2. m \in Nat \ {0} /\ m <= L + 1 /\ L + 1 \in m..Len(more) /\ m \in 1..Len(more) /\ (L + 1) - 1 = L
    BY <1>1, <1>2, <1>3, <2>1
  <2>3. new[n] = SubSeq(more, m, L + 1) /\ old[n] = SubSeq(temps, m, L)
    BY <1>5, <1>6, <2>1
  <2> HIDE DEF m
  <2>4. SubSeq(more, m, L + 1) = SubSeq(more, m, (L + 1) - 1) \o <<more[L + 1]>>
    BY <1>2, <2>2, SubSeqRecursiveSecond
  <2>5. SubSeq(more, m, L) = SubSeq(temps, m, L)
    <3>1. L <= Len(more) /\ L <= Len(temps)
      BY <1>1, <1>2 DEF L
    <3> QED BY <1>1, <1>2, <2>2, <3>1, SamePart
  <2>6. SubSeq(temps, m, L) \in Seq(Asts)
    <3>1. L <= Len(temps)
      BY <1>1 DEF L
    <3> QED BY <1>1, <2>2, <3>1, PartOf
  <2>7. Append(SubSeq(temps, m, L), ast) = SubSeq(temps, m, L) \o <<ast>>
    BY <2>6, AppendIsConcat
  <2> QED BY <1>2, <2>2, <2>3, <2>4, <2>5, <2>7
<1>13. \A i \in 1..n : new[i] = Added(old, ast)[i]
  <2> TAKE i \in 1..n
  <2>1. i \in 1..n - 1 \/ i = n
    BY <1>1
  <2>2. (n - 1) + 1 = n
    BY <1>1
  <2> QED BY <1>10, <1>11, <1>12, <2>1, <2>2
<1>14. new = Added(old, ast)
  <2>1. Len(new) = Len(Added(old, ast))
    BY <1>1, <1>5, <1>10
  <2> QED BY <1>5, <1>10, <1>13, <2>1, SeqEqual
<1> QED BY <1>4, <1>14 DEF new, old, more

\* ebi_end_ast_list
LEMMA ListEnds ==
    ASSUME NEW temps, NEW bgs, InOrder(temps, bgs), bgs # <<>>
    PROVE  /\ ListsIn(temps, bgs) # <<>> /\ Last(bgs) \in 0..Len(temps)
           /\ InOrder(SubSeq(temps, 1, Last(bgs)), Front(bgs))
           /\ Len(SubSeq(temps, 1, Last(bgs))) <= Len(temps)
           /\ ListsIn(SubSeq(temps, 1, Last(bgs)), Front(bgs)) = Front(ListsIn(temps, bgs))
           /\ SubSeq(temps, Last(bgs) + 1, Len(temps)) = Last(ListsIn(temps, bgs))
<1> DEFINE n == Len(bgs)
           b == Last(bgs)
           L == Len(temps)
           rest == SubSeq(temps, 1, b)
           fewer == Front(bgs)
           new == ListsIn(rest, fewer)
           old == ListsIn(temps, bgs)
<1>1. n \in Nat \ {0} /\ L \in Nat /\ temps \in Seq(Asts) /\ bgs \in Seq(0..L) /\ DOMAIN bgs = 1..n
  BY BeginsAndEnds, EmptySeq DEF InOrder
<1>2. fewer \in Seq(0..L) /\ Len(fewer) = n - 1 /\ b = bgs[n] /\ b \in 0..L
      /\ \A i \in 1..n - 1 : fewer[i] = bgs[i]
  BY <1>1, FrontIs
<1>3. rest \in Seq(Asts) /\ Len(rest) = b /\ \A i \in 1..b : rest[i] = temps[i]
  <2>1. b \in Nat /\ b <= Len(temps) /\ 1 \in Nat \ {0}
    BY <1>2
  <2> HIDE DEF b
  <2>2. rest \in Seq(Asts) /\ Len(rest) = (IF 1 <= b THEN b - 1 + 1 ELSE 0)
        /\ \A i \in 1..b - 1 + 1 : rest[i] = temps[1 + i - 1]
    BY <1>1, <2>1, PartOf
  <2> HIDE DEF rest
  <2> QED BY <2>1, <2>2
<1>4. \A i \in 1..n : bgs[i] \in Nat /\ bgs[i] + 1 \in Nat \ {0} /\ bgs[i] <= bgs[n]
                      /\ EndIn(temps, bgs, i) \in Nat
                      /\ (i < n => EndIn(temps, bgs, i) <= bgs[n])
  BY BeginsAndEnds
<1>5. \A i, j \in 1..n : i <= j => bgs[i] <= bgs[j]
  BY <1>1 DEF InOrder
<1> HIDE DEF n, L, b, rest, fewer
<1>6. InOrder(rest, fewer)
  <2>1. DOMAIN fewer = 1..n - 1
    BY <1>2, LenProperties
  <2>2. ASSUME NEW i \in 1..n - 1 PROVE fewer[i] \in 0..b /\ i \in 1..n
    <3>1. i \in 1..n
      BY <1>1
    <3>2. bgs[i] \in Nat /\ bgs[i] <= bgs[n]
      BY <1>4, <3>1
    <3>3. fewer[i] = bgs[i] /\ b = bgs[n] /\ b \in Nat
      BY <1>2
    <3> QED BY <3>1, <3>2, <3>3
  <2>3. fewer \in [1..n - 1 -> 0..b]
    <3>1. fewer \in [1..Len(fewer) -> 0..L]
      BY <1>2, LenProperties
    <3> QED BY <1>2, <2>2, <3>1
  <2>4. fewer \in Seq(0..Len(rest))
    <3>1. Len(fewer) \in Nat /\ fewer \in [1..Len(fewer) -> 0..b]
      BY <1>1, <1>2, <2>3
    <3>2. fewer \in Seq(0..b)
      BY <3>1, FunctionIsSequence
    <3> QED BY <1>3, <3>2
  <2>5. \A i, j \in DOMAIN fewer : i <= j => fewer[i] <= fewer[j]
    BY <1>2, <1>5, <2>1, <2>2
  <2> QED BY <1>3, <2>4, <2>5 DEF InOrder
<1>7. new \in Seq(Seq(Asts)) /\ Len(new) = n - 1
      /\ \A i \in 1..n - 1 : new[i] = SubSeq(rest, fewer[i] + 1, EndIn(rest, fewer, i))
  BY <1>2, <1>6, ListsAreLists
<1>8. old \in Seq(Seq(Asts)) /\ Len(old) = n
      /\ \A i \in 1..n : old[i] = SubSeq(temps, bgs[i] + 1, EndIn(temps, bgs, i))
  BY ListsAreLists DEF n
<1>9. old # <<>>
  BY <1>1, <1>8, EmptySeq
<1> HIDE DEF new, old
<1>10. Front(old) \in Seq(Seq(Asts)) /\ Len(Front(old)) = n - 1 /\ Last(old) = old[n]
      /\ \A i \in 1..n - 1 : Front(old)[i] = old[i]
  BY <1>8, <1>9, FrontIs
<1>11. ASSUME NEW i \in 1..n - 1 PROVE new[i] = old[i]
  <2> DEFINE m == bgs[i] + 1
             k == EndIn(temps, bgs, i)
  <2>1. i \in 1..n /\ i < n
    BY <1>1
  <2>2. k = bgs[i + 1]
    BY <2>1 DEF EndIn, n
  <2>3. EndIn(rest, fewer, i) = bgs[i + 1]
    <3>1. CASE i < n - 1
      <4>1. i + 1 \in 1..n - 1
        BY <1>1, <3>1
      <4> QED BY <1>2, <3>1, <4>1 DEF EndIn
    <3>2. CASE i = n - 1
      <4>1. i + 1 = n
        BY <1>1, <3>2
      <4> QED BY <1>1, <1>2, <1>3, <3>2, <4>1 DEF EndIn
    <3> QED BY <1>1, <3>1, <3>2
  <2>4. m \in Nat \ {0} /\ k \in Nat /\ k <= b
    BY <1>2, <1>4, <2>1
  <2>5. new[i] = SubSeq(rest, m, k) /\ old[i] = SubSeq(temps, m, k)
    BY <1>2, <1>7, <1>8, <2>1, <2>2, <2>3
  <2> HIDE DEF m, k
  <2>6. k <= Len(rest) /\ k <= Len(temps) /\ \A j \in 1..k : rest[j] = temps[j]
    BY <1>1, <1>2, <1>3, <2>4 DEF L
  <2> QED BY <1>1, <1>3, <2>4, <2>5, <2>6, SamePart
<1>12. new = Front(old)
  BY <1>7, <1>10, <1>11, SeqEqual
<1>13. SubSeq(temps, b + 1, L) = Last(old)
  <2>1. n \in 1..n /\ EndIn(temps, bgs, n) = L
    BY <1>1 DEF EndIn, n, L
  <2> QED BY <1>2, <1>8, <1>10, <2>1
<1>14. Len(rest) <= L
  BY <1>1, <1>2, <1>3
<1> QED BY <1>2, <1>6, <1>9, <1>12, <1>13, <1>14 DEF new, old, rest, fewer, b, L

-----------------------------------------------------------------------------
(***************************************************************************)
(* The ways in which a function takes a step.                              *)
(***************************************************************************)
LEMMA OpenListsOnArray ==
    /\ OpenLists = ListsIn(temp_asts, begins)
    /\ OpenLists' = ListsIn(temp_asts', begins')
  BY DEF OpenLists, ListsIn, EndIn

LEMMA ResultsAreAsts == \A l : Results(l) \subseteq Asts
  BY DEF Results, Asts, Expressions

LEMMA Running ==
    ASSUME IInv, NEW l, At(l)
    PROVE  /\ Front(calls) \in Seq(Locations) /\ l \in Locations /\ calls \in Seq(Locations)
           /\ calls # <<>> /\ calls = Append(Front(calls), l) /\ Last(calls) = l
           /\ Activations(Append(Front(calls), l), brackets, OpenLists, {})
           /\ result \in Results(l) /\ brackets \in Seq(Openers)
<1>1. calls \in Seq(Locations) /\ calls # <<>> /\ Last(calls) = l
      /\ Activations(calls, brackets, OpenLists, {}) /\ result \in Results(l)
  BY DEF IInv, At, Activations
<1>2. brackets \in Seq(Openers)
  BY DEF IInv, Activations
<1>3. Front(calls) \in Seq(Locations) /\ l \in Locations /\ calls = Append(Front(calls), l)
  BY <1>1, FrontAndLast
<1>4. Activations(Append(Front(calls), l), brackets, OpenLists, {})
  BY <1>1, <1>3
<1> QED BY <1>1, <1>2, <1>3, <1>4

LEMMA Becomes ==
    ASSUME calls \in Seq(Locations), calls # <<>>,
           NEW a \in Locations, NEW b \in Locations, NEW c \in Locations
    PROVE  /\ Become(<<>>) => calls' = Front(calls)
           /\ Become(<<a>>) => calls' = Append(Front(calls), a)
           /\ Become(<<a, b>>) => calls' = Append(Append(Front(calls), a), b)
           /\ Become(<<a, b, c>>) => calls' = Append(Append(Append(Front(calls), a), b), c)
<1> DEFINE f == Front(calls)
<1>1. f \in Seq(Locations)
  BY FrontAndLast
<1>2. Become(<<>>) => calls' = f
  BY <1>1, ConcatEmptySeq DEF Become
<1> HIDE DEF f
<1> DEFINE n == Len(f)
           one == Append(f, a)
           two == Append(one, b)
           three == Append(two, c)
<1>3. n \in Nat /\ one \in Seq(Locations) /\ Len(one) = n + 1 /\ one[n + 1] = a
      /\ (\A i \in 1..n : one[i] = f[i]) /\ one = f \o <<a>>
  BY <1>1, AppendProperties, AppendIsConcat, LenProperties
<1> HIDE DEF one, n
<1>4. two \in Seq(Locations) /\ Len(two) = n + 2 /\ two[n + 2] = b /\ two[n + 1] = a
      /\ (\A i \in 1..n : two[i] = f[i])
  <2>1. two \in Seq(Locations) /\ Len(two) = (n + 1) + 1 /\ two[(n + 1) + 1] = b
        /\ \A i \in 1..n + 1 : two[i] = one[i]
    BY <1>3, AppendProperties
  <2> HIDE DEF two
  <2> QED BY <1>3, <2>1
<1> HIDE DEF two
<1>5. three \in Seq(Locations) /\ Len(three) = n + 3 /\ three[n + 3] = c /\ three[n + 2] = b
      /\ three[n + 1] = a /\ (\A i \in 1..n : three[i] = f[i])
  <2>1. three \in Seq(Locations) /\ Len(three) = (n + 2) + 1 /\ three[(n + 2) + 1] = c
        /\ \A i \in 1..n + 2 : three[i] = two[i]
    BY <1>4, AppendProperties
  <2> HIDE DEF three
  <2> QED BY <1>3, <1>4, <2>1
<1> HIDE DEF three
<1>6. f \o <<a, b>> = two
  <2> DEFINE t == <<a, b>>
  <2>1. t \in Seq(Locations) /\ Len(t) = 2 /\ t[1] = a /\ t[2] = b
    OBVIOUS
  <2> HIDE DEF t
  <2>2. f \o t \in Seq(Locations) /\ Len(f \o t) = n + 2
        /\ \A i \in 1..n + 2 : (f \o t)[i] = IF i <= n THEN f[i] ELSE t[i - n]
    <3>1. f \o t \in Seq(Locations) /\ Len(f \o t) = Len(f) + Len(t)
          /\ \A i \in 1..Len(f) + Len(t) : (f \o t)[i] = IF i <= Len(f) THEN f[i] ELSE t[i - Len(f)]
      BY <1>1, <2>1, ConcatProperties
    <3> QED BY <2>1, <3>1 DEF n
  <2>3. \A i \in 1..n + 2 : (f \o t)[i] = two[i]
    <3> TAKE i \in 1..n + 2
    <3>1. i \in 1..n \/ i = n + 1 \/ i = n + 2
      BY <1>3
    <3>2. CASE i \in 1..n
      BY <1>3, <1>4, <2>2, <3>2
    <3>3. CASE i = n + 1
      BY <1>3, <1>4, <2>1, <2>2, <3>3
    <3>4. CASE i = n + 2
      BY <1>3, <1>4, <2>1, <2>2, <3>4
    <3> QED BY <3>1, <3>2, <3>3, <3>4
  <2>4. f \o t = two
    BY <1>4, <2>2, <2>3, SeqEqual
  <2> QED BY <2>4 DEF t
<1>7. f \o <<a, b, c>> = three
  <2> DEFINE t == <<a, b, c>>
  <2>1. t \in Seq(Locations) /\ Len(t) = 3 /\ t[1] = a /\ t[2] = b /\ t[3] = c
    OBVIOUS
  <2> HIDE DEF t
  <2>2. f \o t \in Seq(Locations) /\ Len(f \o t) = n + 3
        /\ \A i \in 1..n + 3 : (f \o t)[i] = IF i <= n THEN f[i] ELSE t[i - n]
    <3>1. f \o t \in Seq(Locations) /\ Len(f \o t) = Len(f) + Len(t)
          /\ \A i \in 1..Len(f) + Len(t) : (f \o t)[i] = IF i <= Len(f) THEN f[i] ELSE t[i - Len(f)]
      BY <1>1, <2>1, ConcatProperties
    <3> QED BY <2>1, <3>1 DEF n
  <2>3. \A i \in 1..n + 3 : (f \o t)[i] = three[i]
    <3> TAKE i \in 1..n + 3
    <3>1. i \in 1..n \/ i = n + 1 \/ i = n + 2 \/ i = n + 3
      BY <1>3
    <3>2. CASE i \in 1..n
      BY <1>3, <1>5, <2>2, <3>2
    <3>3. CASE i = n + 1
      BY <1>3, <1>5, <2>1, <2>2, <3>3
    <3>4. CASE i = n + 2
      BY <1>3, <1>5, <2>1, <2>2, <3>4
    <3>5. CASE i = n + 3
      BY <1>3, <1>5, <2>1, <2>2, <3>5
    <3> QED BY <3>1, <3>2, <3>3, <3>4, <3>5
  <2>4. f \o t = three
    BY <1>5, <2>2, <2>3, SeqEqual
  <2> QED BY <2>4 DEF t
<1> QED BY <1>2, <1>3, <1>6, <1>7 DEF Become, f, n, one, two, three

\* Tokens that are taken from the source.
LEMMA Scans ==
    ASSUME IInv, Scan
    PROVE  /\ InputOK'
           /\ token \notin Openers \cup Closers => brackets' = brackets
           /\ token \in Openers => brackets' = Append(brackets, token)
           /\ \A rest \in Seq(Openers), b \in Openers :
                brackets = Append(rest, b) /\ token = Closing[b] => brackets' = rest
<1>1. InputOK'
  BY ParserAssumption DEF IInv, InputOK, Scan, Tokens
<1>2. Openers \cap Closers = {}
  BY DEF Openers, Closers, Closing
<1>3. token \notin Openers \cup Closers => brackets' = brackets
  BY DEF Scan
<1>4. token \in Openers => brackets' = Append(brackets, token)
  BY <1>2 DEF Scan
<1>5. ASSUME NEW rest \in Seq(Openers), NEW b \in Openers, brackets = Append(rest, b), token = Closing[b]
      PROVE  brackets' = rest
  <2>1. brackets # <<>> /\ Last(brackets) = b /\ Front(brackets) = rest
    BY <1>5, LastOfAppend
  <2>2. token \in Closers
    BY <1>5 DEF Closers
  <2> QED BY <1>5, <2>1, <2>2 DEF Scan
<1> QED BY <1>1, <1>3, <1>4, <1>5

LEMMA Waits ==
    IInv /\ UNCHANGED inputVars => InputOK' /\ brackets' = brackets
  BY DEF IInv, InputOK, inputVars

LEMMA ArrayWaits ==
    IInv /\ UNCHANGED astVars => ArrayOK' /\ OpenLists' = OpenLists /\ nodes' = nodes
  BY DEF IInv, ArrayOK, InOrder, astVars, OpenLists

\* The step keeps the invariant, and is one of a stack of lists.
ListsMove ==
    \/ OpenLists' = OpenLists /\ nodes' = nodes
    \/ OpenLists' = Append(OpenLists, <<>>) /\ nodes' = nodes
    \/ OpenLists # <<>> /\ nodes' = nodes /\ \E ast \in Asts : OpenLists' = Added(OpenLists, ast)
    \/ OpenLists # <<>> /\ nodes' = Last(OpenLists) /\ OpenLists' = Front(OpenLists)

\* It leaves a list of a block without a node that was never written to, too,
\* except where a block puts one into it.
KeptFor(w) ==
    Activations(calls, brackets, OpenLists, w) => Activations(calls', brackets', OpenLists', w)
Kept == KeptFor({}) /\ KeptFor({"uninit"})
PushesUninit == At("block.push") /\ result = "uninit"

Moves == IInv' /\ ListsMove /\ (KeptFor({"uninit"}) \/ PushesUninit)

LEMMA KeptMoves ==
    ASSUME IInv, Kept, InputOK', ArrayOK', ListsMove, result' \in Asts,
           calls' # <<>> => result' \in Results(Last(calls'))
    PROVE  Moves
<1>1. Activations(calls', brackets', OpenLists', {})
  BY DEF IInv, Kept, KeptFor
<1> QED BY <1>1 DEF IInv, Moves, Kept

LEMMA StepGoes ==
    ASSUME IInv, NEW l, NEW a, At(l), Become(<<a>>), Goes(l, a),
           InputOK', brackets' = brackets, UNCHANGED astVars, result' \in Results(a)
    PROVE  Moves
<1> DEFINE f == Front(calls)
<1>1. f \in Seq(Locations) /\ l \in Locations /\ a \in Locations /\ calls = Append(f, l)
      /\ calls \in Seq(Locations) /\ calls # <<>>
  BY Running DEF Goes
<1>2. calls' = Append(f, a)
  BY <1>1, Becomes
<1> HIDE DEF f
<1>3. ASSUME NEW w, Activations(Append(f, l), brackets, OpenLists, w)
      PROVE  Activations(Append(f, a), brackets, OpenLists, w)
  BY <1>1, <1>3, Continues DEF Goes
<1>4. ArrayOK' /\ OpenLists' = OpenLists /\ nodes' = nodes
  BY ArrayWaits
<1>5. Kept
  BY <1>1, <1>2, <1>3, <1>4 DEF Kept, KeptFor
<1>6. Last(calls') = a
  BY <1>1, <1>2, LastOfAppend
<1> QED BY <1>4, <1>5, <1>6, KeptMoves, ResultsAreAsts DEF ListsMove

LEMMA StepGoesAndCalls ==
    ASSUME IInv, NEW l, NEW a, NEW b, At(l), Become(<<a, b>>), Goes(l, a), MayCall(a, b),
           InputOK', brackets' = brackets, UNCHANGED astVars, result' \in Results(b)
    PROVE  Moves
<1> DEFINE f == Front(calls)
<1>1. f \in Seq(Locations) /\ l \in Locations /\ a \in Locations /\ b \in Locations
      /\ calls = Append(f, l) /\ calls \in Seq(Locations) /\ calls # <<>>
  BY Running DEF Goes, MayCall
<1>2. calls' = Append(Append(f, a), b)
  BY <1>1, Becomes
<1> HIDE DEF f
<1>3. Append(f, a) \in Seq(Locations) /\ Append(f, a) # <<>> /\ Last(Append(f, a)) = a
  BY <1>1, LastOfAppend
<1>4. ASSUME NEW w, Activations(Append(f, l), brackets, OpenLists, w)
      PROVE  Activations(Append(Append(f, a), b), brackets, OpenLists, w)
  <2>1. Activations(Append(f, a), brackets, OpenLists, w)
    BY <1>1, <1>4, Continues DEF Goes
  <2> QED BY <1>1, <1>3, <2>1, Calls DEF MayCall
<1>5. ArrayOK' /\ OpenLists' = OpenLists /\ nodes' = nodes
  BY ArrayWaits
<1>6. Kept
  BY <1>1, <1>2, <1>4, <1>5 DEF Kept, KeptFor
<1>7. Last(calls') = b
  BY <1>1, <1>2, <1>3, LastOfAppend
<1> QED BY <1>5, <1>6, <1>7, KeptMoves, ResultsAreAsts DEF ListsMove

\* The callee is in the bracket that has been accepted.
LEMMA StepGoesAndCallsIn ==
    ASSUME IInv, NEW l, NEW a, NEW b, NEW x, At(l), Become(<<a, b>>), Goes(l, a), MayCallIn(a, b, x),
           InputOK', brackets' = Append(brackets, x), UNCHANGED astVars, result' \in Results(b)
    PROVE  Moves
<1> DEFINE f == Front(calls)
<1>1. f \in Seq(Locations) /\ l \in Locations /\ a \in Locations /\ b \in Locations /\ x \in Openers
      /\ calls = Append(f, l) /\ calls \in Seq(Locations) /\ calls # <<>>
  BY Running DEF Goes, MayCallIn
<1>2. calls' = Append(Append(f, a), b)
  BY <1>1, Becomes
<1> HIDE DEF f
<1>3. Append(f, a) \in Seq(Locations) /\ Append(f, a) # <<>> /\ Last(Append(f, a)) = a
  BY <1>1, LastOfAppend
<1>4. ASSUME NEW w, Activations(Append(f, l), brackets, OpenLists, w)
      PROVE  Activations(Append(Append(f, a), b), Append(brackets, x), OpenLists, w)
  <2>1. Activations(Append(f, a), brackets, OpenLists, w)
    BY <1>1, <1>4, Continues DEF Goes
  <2> QED BY <1>1, <1>3, <2>1, CallsOpening DEF MayCallIn
<1>5. ArrayOK' /\ OpenLists' = OpenLists /\ nodes' = nodes
  BY ArrayWaits
<1>6. Kept
  BY <1>1, <1>2, <1>4, <1>5 DEF Kept, KeptFor
<1>7. Last(calls') = b
  BY <1>1, <1>2, <1>3, LastOfAppend
<1> QED BY <1>5, <1>6, <1>7, KeptMoves, ResultsAreAsts DEF ListsMove

LEMMA StepEnters ==
    ASSUME IInv, NEW l, NEW a, NEW x, At(l), Become(<<a>>), Enters(l, a, x),
           InputOK', brackets' = Append(brackets, x), UNCHANGED astVars, result' \in Results(a)
    PROVE  Moves
<1> DEFINE f == Front(calls)
<1>1. f \in Seq(Locations) /\ l \in Locations /\ a \in Locations /\ calls = Append(f, l)
      /\ calls \in Seq(Locations) /\ calls # <<>>
      /\ Activations(Append(f, l), brackets, OpenLists, {})
  BY Running DEF Enters
<1>2. calls' = Append(f, a)
  BY <1>1, Becomes
<1> HIDE DEF f
<1>3. f # <<>>
  BY <1>1, Drop DEF Enters
<1>4. ASSUME NEW w, Activations(Append(f, l), brackets, OpenLists, w)
      PROVE  Activations(Append(f, a), Append(brackets, x), OpenLists, w)
  BY <1>1, <1>3, <1>4, Opens DEF Enters
<1>5. ArrayOK' /\ OpenLists' = OpenLists /\ nodes' = nodes
  BY ArrayWaits
<1>6. Kept
  BY <1>1, <1>2, <1>4, <1>5 DEF Kept, KeptFor
<1>7. Last(calls') = a
  BY <1>1, <1>2, LastOfAppend
<1> QED BY <1>5, <1>6, <1>7, KeptMoves, ResultsAreAsts DEF ListsMove

LEMMA StepEntersAndCalls ==
    ASSUME IInv, NEW l, NEW a, NEW b, NEW x, At(l), Become(<<a, b>>), Enters(l, a, x), MayCall(a, b),
           InputOK', brackets' = Append(brackets, x), UNCHANGED astVars, result' \in Results(b)
    PROVE  Moves
<1> DEFINE f == Front(calls)
<1>1. f \in Seq(Locations) /\ l \in Locations /\ a \in Locations /\ b \in Locations
      /\ calls = Append(f, l) /\ calls \in Seq(Locations) /\ calls # <<>>
      /\ Activations(Append(f, l), brackets, OpenLists, {})
  BY Running DEF Enters, MayCall
<1>2. calls' = Append(Append(f, a), b)
  BY <1>1, Becomes
<1> HIDE DEF f
<1>3. f # <<>>
  BY <1>1, Drop DEF Enters
<1>4. Append(f, a) \in Seq(Locations) /\ Append(f, a) # <<>> /\ Last(Append(f, a)) = a
  BY <1>1, LastOfAppend
<1>5. ASSUME NEW w, Activations(Append(f, l), brackets, OpenLists, w)
      PROVE  Activations(Append(Append(f, a), b), Append(brackets, x), OpenLists, w)
  <2>1. Activations(Append(f, a), Append(brackets, x), OpenLists, w)
    BY <1>1, <1>3, <1>5, Opens DEF Enters
  <2> QED BY <1>1, <1>4, <2>1, Calls DEF MayCall
<1>6. ArrayOK' /\ OpenLists' = OpenLists /\ nodes' = nodes
  BY ArrayWaits
<1>7. Kept
  BY <1>1, <1>2, <1>5, <1>6 DEF Kept, KeptFor
<1>8. Last(calls') = b
  BY <1>1, <1>2, <1>4, LastOfAppend
<1> QED BY <1>6, <1>7, <1>8, KeptMoves, ResultsAreAsts DEF ListsMove

\* What a function returns with is what its callers may find.
Gives(l, ast) == ast \in Asts /\ \A c \in Locations : CalledFrom(c, l) => ast \in Results(c)

LEMMA StepReturns ==
    ASSUME IInv, NEW l, At(l), Become(<<>>), l \notin Waiting, l \notin Owning,
           InputOK', brackets' = brackets, UNCHANGED astVars, Gives(l, result')
    PROVE  Moves
<1> DEFINE f == Front(calls)
<1>1. f \in Seq(Locations) /\ l \in Locations /\ calls = Append(f, l)
      /\ calls \in Seq(Locations) /\ calls # <<>>
      /\ Activations(Append(f, l), brackets, OpenLists, {})
  BY Running
<1>2. calls' = f
  BY <1>1, Becomes
<1> HIDE DEF f
<1>3. f # <<>> => CalledFrom(Last(f), l)
  BY <1>1, Drop
<1>4. ASSUME NEW w, Activations(Append(f, l), brackets, OpenLists, w)
      PROVE  Activations(f, brackets, OpenLists, w)
  <2>1. Activations(f, IF l \in Waiting /\ f # <<>> THEN Front(brackets) ELSE brackets,
                       IF l \in Owning THEN Front(OpenLists) ELSE OpenLists, w)
    BY <1>1, <1>4, Drop
  <2> QED BY <2>1
<1>5. ArrayOK' /\ OpenLists' = OpenLists /\ nodes' = nodes
  BY ArrayWaits
<1>6. f # <<>> => result' \in Results(Last(f))
  BY <1>1, <1>3, FrontAndLast DEF Gives
<1>7. Kept
  BY <1>1, <1>2, <1>4, <1>5 DEF Kept, KeptFor
<1> QED BY <1>2, <1>5, <1>6, <1>7, KeptMoves DEF Gives, ListsMove

\* A function that has accepted its closing bracket.
LEMMA StepCloses ==
    ASSUME IInv, NEW l, NEW x \in Openers, At(l), Become(<<>>), l \in Inside[x], l \notin Owning,
           l \notin Root, Accept(Closing[x]), UNCHANGED astVars, Gives(l, result')
    PROVE  Moves
<1> DEFINE f == Front(calls)
<1>1. f \in Seq(Locations) /\ l \in Locations /\ calls = Append(f, l)
      /\ calls \in Seq(Locations) /\ calls # <<>>
      /\ Activations(Append(f, l), brackets, OpenLists, {})
  BY Running
<1>2. calls' = f
  BY <1>1, Becomes
<1> HIDE DEF f
<1>3. (IF f = <<>> THEN l \in Root ELSE CalledFrom(Last(f), l))
      /\ (l \in Waiting /\ f # <<>> => /\ Front(brackets) \in Seq(Openers) /\ Last(brackets) \in Openers
                                       /\ brackets = Append(Front(brackets), Last(brackets))
                                       /\ l \in Inside[Last(brackets)])
  BY <1>1, Drop
<1>4. l \in Waiting /\ f # <<>>
  BY <1>3, BracketOfLocation
<1>5. Last(brackets) = x
  BY <1>3, <1>4, BracketOfLocation
<1>6. InputOK' /\ brackets' = Front(brackets)
  BY <1>3, <1>4, <1>5, Scans DEF Accept
<1>7. ArrayOK' /\ OpenLists' = OpenLists /\ nodes' = nodes
  BY ArrayWaits
<1>8. result' \in Results(Last(f))
  BY <1>1, <1>3, <1>4, FrontAndLast DEF Gives
<1>9. ASSUME NEW w, Activations(Append(f, l), brackets, OpenLists, w)
      PROVE  Activations(f, Front(brackets), OpenLists, w)
  <2>1. Activations(f, IF l \in Waiting /\ f # <<>> THEN Front(brackets) ELSE brackets,
                       IF l \in Owning THEN Front(OpenLists) ELSE OpenLists, w)
    BY <1>1, <1>9, Drop
  <2> QED BY <1>4, <2>1
<1>10. Kept
  BY <1>1, <1>2, <1>6, <1>7, <1>9 DEF Kept, KeptFor
<1> QED BY <1>2, <1>6, <1>7, <1>8, <1>10, KeptMoves DEF Gives, ListsMove

\* A list is begun.
LEMMA StepBegins ==
    ASSUME IInv, NEW l, NEW a, Begin(l, a), Collects(l, a), result \in Results(a)
    PROVE  Moves
<1> DEFINE f == Front(calls)
<1>1. At(l) /\ Become(<<a>>) /\ ebi_begin_ast_list /\ UNCHANGED <<inputVars, result>>
  BY DEF Begin
<1>2. f \in Seq(Locations) /\ l \in Locations /\ a \in Locations /\ calls = Append(f, l)
      /\ calls \in Seq(Locations) /\ calls # <<>>
  BY <1>1, Running DEF Collects
<1>3. calls' = Append(f, a)
  BY <1>1, <1>2, Becomes
<1> HIDE DEF f
<1>4. ASSUME NEW w, Activations(Append(f, l), brackets, OpenLists, w)
      PROVE  Activations(Append(f, a), brackets, Append(OpenLists, <<>>), w)
  BY <1>2, <1>4, BeginsList DEF Collects
<1>5. InOrder(temp_asts, begins)
  BY DEF IInv, ArrayOK
<1>6. InOrder(temp_asts, Append(begins, Len(temp_asts)))
      /\ ListsIn(temp_asts, Append(begins, Len(temp_asts))) = Append(ListsIn(temp_asts, begins), <<>>)
  BY <1>5, ListBegins
<1>7. ArrayOK' /\ OpenLists' = Append(OpenLists, <<>>) /\ nodes' = nodes
  BY <1>1, <1>6, OpenListsOnArray DEF ebi_begin_ast_list, IInv, ArrayOK
<1>8. InputOK' /\ brackets' = brackets
  BY <1>1, Waits
<1>9. Last(calls') = a
  BY <1>2, <1>3, LastOfAppend
<1>10. Kept
  BY <1>2, <1>3, <1>4, <1>7, <1>8 DEF Kept, KeptFor
<1>11. result' \in Results(a)
  BY <1>1
<1> QED BY <1>7, <1>8, <1>9, <1>10, <1>11, KeptMoves, ResultsAreAsts DEF ListsMove

LEMMA ArrayGrows ==
    ASSUME IInv, NEW ast \in Asts, OpenLists # <<>>, ebi_push_ast_list(ast)
    PROVE  ArrayOK' /\ OpenLists' = Added(OpenLists, ast) /\ nodes' = nodes
<1>1. InOrder(temp_asts, begins) /\ nodes \in Seq(Asts)
      /\ max_temp_asts \in Nat /\ Len(temp_asts) <= max_temp_asts /\ temp_asts \in Seq(Asts)
  BY DEF IInv, ArrayOK, InOrder
<1>2. begins # <<>>
  <2>1. Len(OpenLists) = Len(begins) /\ OpenLists \in Seq(Seq(Asts))
    BY <1>1, ListsAreLists, OpenListsOnArray
  <2> QED BY <2>1, EmptySeq
<1>3. InOrder(Append(temp_asts, ast), begins)
      /\ ListsIn(Append(temp_asts, ast), begins) = Added(ListsIn(temp_asts, begins), ast)
  BY <1>1, <1>2, ListAdds
<1>4. temp_asts' = Append(temp_asts, ast) /\ begins' = begins /\ nodes' = nodes
      /\ max_temp_asts' = IF Len(temp_asts) = max_temp_asts THEN Grown ELSE max_temp_asts
  BY DEF ebi_push_ast_list
<1>5. OpenLists' = Added(OpenLists, ast)
  BY <1>3, <1>4, OpenListsOnArray
<1>6. Len(temp_asts') = Len(temp_asts) + 1 /\ Len(temp_asts) \in Nat
  BY <1>1, <1>4, AppendProperties, LenProperties
<1>7. Grown \in Nat /\ max_temp_asts + 1 <= Grown
  BY <1>1, ParserAssumption DEF Grown
<1>8. max_temp_asts' \in Nat /\ Len(temp_asts') <= max_temp_asts'
  BY <1>1, <1>4, <1>6, <1>7
<1> QED BY <1>1, <1>3, <1>4, <1>5, <1>8 DEF ArrayOK

\* A node that a list of a block may have, or the one that block.push has when
\* no statement was found.
Fit(l, ast) == ast \in HeldKinds(l, {"uninit"}) \/ PushesUninit

LEMMA HeldKindsOf == \A l : HeldKinds(l, {}) = Kinds(l)
  BY DEF HeldKinds

\* The running function adds a node to its list, and goes on.
LEMMA StepAdds ==
    ASSUME IInv, NEW l, NEW a, NEW ast \in Asts, At(l), l \in Owning, ast \in Kinds(l), Fit(l, ast),
           ebi_push_ast_list(ast), Become(<<a>>), Goes(l, a), InputOK', brackets' = brackets,
           result' \in Results(a)
    PROVE  Moves
<1> DEFINE f == Front(calls)
<1>1. f \in Seq(Locations) /\ l \in Locations /\ a \in Locations /\ calls = Append(f, l)
      /\ calls \in Seq(Locations) /\ calls # <<>>
      /\ Activations(Append(f, l), brackets, OpenLists, {})
  BY Running DEF Goes
<1>2. calls' = Append(f, a)
  BY <1>1, Becomes
<1> HIDE DEF f
<1>3. ASSUME NEW w, Activations(Append(f, l), brackets, OpenLists, w), ast \in HeldKinds(l, w)
      PROVE  OpenLists # <<>> /\ Activations(Append(f, a), brackets, Added(OpenLists, ast), w)
  <2>1. OpenLists # <<>> /\ Activations(Append(f, l), brackets, Added(OpenLists, ast), w)
    BY <1>1, <1>3, Adds
  <2> QED BY <1>1, <2>1, Continues DEF Goes
<1>4. ast \in HeldKinds(l, {})
  BY HeldKindsOf
<1>5. OpenLists # <<>> /\ Activations(Append(f, a), brackets, Added(OpenLists, ast), {})
  BY <1>1, <1>3, <1>4
<1>6. ArrayOK' /\ OpenLists' = Added(OpenLists, ast) /\ nodes' = nodes
  BY <1>5, ArrayGrows
<1>7. Last(calls') = a
  BY <1>1, <1>2, LastOfAppend
<1>8. ListsMove
  BY <1>5, <1>6 DEF ListsMove
<1>9. KeptFor({"uninit"}) \/ PushesUninit
  BY <1>1, <1>2, <1>3, <1>6 DEF Fit, KeptFor
<1> QED BY <1>2, <1>5, <1>6, <1>7, <1>8, <1>9, ResultsAreAsts DEF IInv, Moves

\* It adds one to the list of its caller, and returns.
LEMMA StepAddsAndReturns ==
    ASSUME IInv, NEW l, NEW ast \in Asts, At(l), l \notin Waiting, l \notin Owning,
           \A c \in Locations : CalledFrom(c, l) => c \in Owning /\ ast \in Kinds(c) /\ Fit(c, ast),
           ebi_push_ast_list(ast), Become(<<>>), InputOK', brackets' = brackets, Gives(l, result')
    PROVE  Moves
<1> DEFINE f == Front(calls)
<1>1. f \in Seq(Locations) /\ l \in Locations /\ calls = Append(f, l)
      /\ calls \in Seq(Locations) /\ calls # <<>>
      /\ Activations(Append(f, l), brackets, OpenLists, {})
  BY Running
<1>2. calls' = f
  BY <1>1, Becomes
<1> HIDE DEF f
<1>3. IF f = <<>> THEN l \in Root ELSE CalledFrom(Last(f), l)
  BY <1>1, Drop
<1>4. ASSUME NEW w, Activations(Append(f, l), brackets, OpenLists, w)
      PROVE  Activations(f, brackets, OpenLists, w)
  <2>1. Activations(f, IF l \in Waiting /\ f # <<>> THEN Front(brackets) ELSE brackets,
                       IF l \in Owning THEN Front(OpenLists) ELSE OpenLists, w)
    BY <1>1, <1>4, Drop
  <2> QED BY <2>1
<1>5. f # <<>>
  BY <1>3, Waiters DEF Root
<1> DEFINE g == Front(f)
           c == Last(f)
<1>6. g \in Seq(Locations) /\ c \in Locations /\ f = Append(g, c)
  BY <1>1, <1>5, FrontAndLast
<1>7. CalledFrom(c, l)
  BY <1>3, <1>5
<1> HIDE DEF g, c
<1>8. c \in Owning /\ ast \in Kinds(c) /\ Fit(c, ast)
  BY <1>6, <1>7
<1>9. ASSUME NEW w, Activations(Append(f, l), brackets, OpenLists, w), ast \in HeldKinds(c, w)
      PROVE  OpenLists # <<>> /\ Activations(f, brackets, Added(OpenLists, ast), w)
  <2>1. Activations(Append(g, c), brackets, OpenLists, w)
    BY <1>4, <1>6, <1>9
  <2>2. OpenLists # <<>> /\ Activations(Append(g, c), brackets, Added(OpenLists, ast), w)
    BY <1>6, <1>8, <1>9, <2>1, Adds
  <2> QED BY <1>6, <2>2
<1>10. ast \in HeldKinds(c, {})
  BY <1>8, HeldKindsOf
<1>11. OpenLists # <<>> /\ Activations(f, brackets, Added(OpenLists, ast), {})
  BY <1>1, <1>9, <1>10
<1>12. ArrayOK' /\ OpenLists' = Added(OpenLists, ast) /\ nodes' = nodes
  BY <1>11, ArrayGrows
<1>13. result' \in Results(Last(f))
  BY <1>6, <1>7 DEF Gives, c
<1>14. KeptFor({"uninit"}) \/ PushesUninit
  BY <1>1, <1>2, <1>8, <1>9, <1>12 DEF Fit, KeptFor
<1>15. ListsMove
  BY <1>11, <1>12 DEF ListsMove
<1> QED BY <1>2, <1>11, <1>12, <1>13, <1>14, <1>15 DEF IInv, Gives, Moves

LEMMA ArrayShrinks ==
    ASSUME IInv, OpenLists # <<>>, ebi_end_ast_list
    PROVE  ArrayOK' /\ OpenLists' = Front(OpenLists) /\ nodes' = Last(OpenLists)
<1>1. InOrder(temp_asts, begins) /\ max_temp_asts \in Nat /\ Len(temp_asts) <= max_temp_asts
      /\ OpenLists \in Seq(Seq(Asts)) /\ Len(OpenLists) = Len(begins) /\ Len(temp_asts) \in Nat
  <2>1. InOrder(temp_asts, begins) /\ max_temp_asts \in Nat /\ Len(temp_asts) <= max_temp_asts
    BY DEF IInv, ArrayOK
  <2>2. OpenLists \in Seq(Seq(Asts)) /\ Len(OpenLists) = Len(begins) /\ Len(temp_asts) \in Nat
    BY <2>1, ListsAreLists, BeginsAndEnds, OpenListsOnArray
  <2> QED BY <2>1, <2>2
<1>2. begins # <<>>
  BY <1>1, EmptySeq
<1> DEFINE rest == SubSeq(temp_asts, 1, Last(begins))
<1>3. /\ InOrder(rest, Front(begins)) /\ Len(rest) <= Len(temp_asts)
      /\ ListsIn(rest, Front(begins)) = Front(ListsIn(temp_asts, begins))
      /\ SubSeq(temp_asts, Last(begins) + 1, Len(temp_asts)) = Last(ListsIn(temp_asts, begins))
  BY <1>1, <1>2, ListEnds
<1>4. temp_asts' = rest /\ begins' = Front(begins) /\ max_temp_asts' = max_temp_asts
      /\ nodes' = SubSeq(temp_asts, Last(begins) + 1, Len(temp_asts))
  BY DEF ebi_end_ast_list
<1> HIDE DEF rest
<1>5. OpenLists' = Front(OpenLists) /\ nodes' = Last(OpenLists)
  BY <1>3, <1>4, OpenListsOnArray
<1>6. nodes' \in Seq(Asts)
  BY <1>1, <1>5, FrontIs
<1>7. Len(rest) \in Nat
  BY <1>3, BeginsAndEnds
<1>8. Len(temp_asts') <= max_temp_asts'
  BY <1>1, <1>3, <1>4, <1>7
<1> QED BY <1>1, <1>3, <1>4, <1>5, <1>6, <1>8 DEF ArrayOK

\* A function that has accepted the bracket that closes its list.
LEMMA StepEnds ==
    ASSUME IInv, NEW l, NEW x \in Openers, NEW ast, At(l), l \in Inside[x], l \in Owning,
           l \notin Root \/ Len(calls) # 1, End(Closing[x], ast), Gives(l, ast)
    PROVE  Moves
<1> DEFINE f == Front(calls)
<1>1. f \in Seq(Locations) /\ l \in Locations /\ Activations(Append(f, l), brackets, OpenLists, {})
      /\ calls \in Seq(Locations) /\ calls # <<>> /\ calls = Append(f, l)
  BY Running
<1>2. Become(<<>>) /\ Accept(Closing[x]) /\ ebi_end_ast_list /\ result' = ast
  BY DEF End, Return
<1>3. calls' = f
  BY <1>1, <1>2, Becomes
<1>4. f = <<>> => Len(calls) = 1
  BY <1>1, AppendProperties, EmptySeq
<1> HIDE DEF f
<1>5. (IF f = <<>> THEN l \in Root ELSE CalledFrom(Last(f), l))
      /\ (l \in Waiting /\ f # <<>> => /\ Front(brackets) \in Seq(Openers) /\ Last(brackets) \in Openers
                                       /\ brackets = Append(Front(brackets), Last(brackets))
                                       /\ l \in Inside[Last(brackets)])
      /\ OpenLists # <<>>
  BY <1>1, Drop
<1>6. l \in Waiting /\ f # <<>>
  BY <1>4, <1>5, BracketOfLocation
<1>7. Last(brackets) = x
  BY <1>5, <1>6, BracketOfLocation
<1>8. InputOK' /\ brackets' = Front(brackets)
  BY <1>2, <1>5, <1>6, <1>7, Scans DEF Accept
<1>9. ArrayOK' /\ OpenLists' = Front(OpenLists) /\ nodes' = Last(OpenLists)
  BY <1>2, <1>5, ArrayShrinks
<1>10. result' \in Results(Last(f))
  BY <1>1, <1>2, <1>5, <1>6, FrontAndLast DEF Gives
<1>11. ASSUME NEW w, Activations(Append(f, l), brackets, OpenLists, w)
       PROVE  Activations(f, Front(brackets), Front(OpenLists), w)
  <2>1. Activations(f, IF l \in Waiting /\ f # <<>> THEN Front(brackets) ELSE brackets,
                       IF l \in Owning THEN Front(OpenLists) ELSE OpenLists, w)
    BY <1>1, <1>11, Drop
  <2> QED BY <1>6, <2>1
<1>12. ListsMove
  BY <1>5, <1>9 DEF ListsMove
<1>13. Kept
  BY <1>1, <1>3, <1>8, <1>9, <1>11 DEF Kept, KeptFor
<1> QED BY <1>2, <1>3, <1>8, <1>9, <1>10, <1>12, <1>13, KeptMoves DEF Gives

\* The root block has come to the end of the source.
LEMMA StepEndsRoot ==
    ASSUME IInv, At("block.next"), Len(calls) = 1, End("FILE_END", "BLOCK")
    PROVE  Moves
<1> DEFINE f == Front(calls)
<1>1. f \in Seq(Locations) /\ "block.next" \in Locations
      /\ Activations(Append(f, "block.next"), brackets, OpenLists, {})
      /\ calls \in Seq(Locations) /\ calls # <<>> /\ calls = Append(f, "block.next")
  BY Running
<1>2. Become(<<>>) /\ Accept("FILE_END") /\ ebi_end_ast_list /\ result' = "BLOCK"
  BY DEF End, Return
<1>3. calls' = f
  BY <1>1, <1>2, Becomes
<1>4. f = <<>>
  <2>1. Len(calls) = Len(f) + 1 /\ Len(f) \in Nat
    BY <1>1, AppendProperties, LenProperties
  <2> QED BY <1>1, <2>1, EmptySeq
<1> HIDE DEF f
<1>5. ASSUME NEW w, Activations(Append(f, "block.next"), brackets, OpenLists, w)
      PROVE  Activations(f, brackets, Front(OpenLists), w) /\ OpenLists # <<>>
  <2>1. "block.next" \in Owning
    BY Owners
  <2>2. Activations(f, IF "block.next" \in Waiting /\ f # <<>> THEN Front(brackets) ELSE brackets,
                       IF "block.next" \in Owning THEN Front(OpenLists) ELSE OpenLists, w)
        /\ OpenLists # <<>>
    BY <1>1, <1>5, <2>1, Drop
  <2> QED BY <1>4, <2>1, <2>2
<1>6. InputOK' /\ brackets' = brackets
  <2>1. "FILE_END" \notin Openers \cup Closers
    BY DEF Openers, Closers, Closing
  <2> QED BY <1>2, <2>1, Scans DEF Accept
<1>7. OpenLists # <<>>
  BY <1>1, <1>5
<1>8. ArrayOK' /\ OpenLists' = Front(OpenLists) /\ nodes' = Last(OpenLists)
  BY <1>2, <1>7, ArrayShrinks
<1>9. ListsMove
  BY <1>7, <1>8 DEF ListsMove
<1>10. result' \in Asts
  BY <1>2 DEF Asts
<1>11. Kept
  BY <1>1, <1>3, <1>5, <1>6, <1>8 DEF Kept, KeptFor
<1> QED BY <1>3, <1>4, <1>6, <1>8, <1>9, <1>10, <1>11, KeptMoves

LEMMA StepPerror ==
    ASSUME IInv, NEW l, At(l), Perror
    PROVE  Moves
<1>1. l \in Locations /\ calls \in Seq(Locations) /\ calls # <<>> /\ Last(calls) = l
  BY Running DEF IInv
<1>2. MayCall(l, "perror") /\ "perror" \in Locations
  BY <1>1, CallsDown DEF Locations
<1>3. ASSUME NEW w, Activations(calls, brackets, OpenLists, w)
      PROVE  Activations(Append(calls, "perror"), brackets, OpenLists, w)
  BY <1>1, <1>2, <1>3, Calls DEF MayCall
<1>4. calls' = Append(calls, "perror") /\ UNCHANGED inputVars /\ UNCHANGED astVars /\ result' = result
  BY DEF Perror
<1>5. InputOK' /\ brackets' = brackets
  BY <1>4, Waits
<1>6. ArrayOK' /\ OpenLists' = OpenLists /\ nodes' = nodes
  BY <1>4, ArrayWaits
<1>7. result' \in Results("perror") /\ result' \in Asts
  BY <1>4 DEF Results, IInv
<1>8. Last(calls') = "perror"
  BY <1>1, <1>2, <1>4, LastOfAppend
<1>9. Kept
  BY <1>3, <1>4, <1>5, <1>6 DEF Kept, KeptFor
<1> QED BY <1>5, <1>6, <1>7, <1>8, <1>9, KeptMoves DEF ListsMove

LEMMA StepGoesAndCallsTwice ==
    ASSUME IInv, NEW l, NEW a, NEW b, NEW c, At(l), Become(<<a, b, c>>), Goes(l, a),
           MayCall(a, b), MayCall(b, c),
           InputOK', brackets' = brackets, UNCHANGED astVars, result' \in Results(c)
    PROVE  Moves
<1> DEFINE f == Front(calls)
<1>1. f \in Seq(Locations) /\ l \in Locations /\ a \in Locations /\ b \in Locations /\ c \in Locations
      /\ calls = Append(f, l) /\ calls \in Seq(Locations) /\ calls # <<>>
  BY Running DEF Goes, MayCall
<1>2. calls' = Append(Append(Append(f, a), b), c)
  BY <1>1, Becomes
<1> HIDE DEF f
<1> DEFINE g == Append(Append(f, a), b)
<1>3. Append(f, a) \in Seq(Locations) /\ Append(f, a) # <<>> /\ Last(Append(f, a)) = a
  BY <1>1, LastOfAppend
<1>4. g \in Seq(Locations) /\ g # <<>> /\ Last(g) = b
  BY <1>1, <1>3, LastOfAppend
<1>5. ASSUME NEW w, Activations(Append(f, l), brackets, OpenLists, w)
      PROVE  Activations(Append(g, c), brackets, OpenLists, w)
  <2>1. Activations(Append(f, a), brackets, OpenLists, w)
    BY <1>1, <1>5, Continues DEF Goes
  <2>2. Activations(g, brackets, OpenLists, w)
    BY <1>1, <1>3, <2>1, Calls DEF MayCall
  <2> HIDE DEF g
  <2> QED BY <1>1, <1>4, <2>2, Calls DEF MayCall
<1>6. calls' = Append(g, c)
  BY <1>2
<1> HIDE DEF g
<1>7. ArrayOK' /\ OpenLists' = OpenLists /\ nodes' = nodes
  BY ArrayWaits
<1>8. Last(calls') = c
  BY <1>1, <1>4, <1>6, LastOfAppend
<1>9. Kept
  BY <1>1, <1>5, <1>6, <1>7 DEF Kept, KeptFor
<1> QED BY <1>7, <1>8, <1>9, KeptMoves, ResultsAreAsts DEF ListsMove

-----------------------------------------------------------------------------
(***************************************************************************)
(* The same by what the function looks for in the source.                  *)
(***************************************************************************)
Plain == {"IDENT", "LINE_END", "FILE_END", "DOT", "COLON", "COMMA", "ADD", "MUL",
          "DEF", "STRUCT", "RETURN"}

LEMMA Accepts ==
    ASSUME IInv, NEW tt, Accept(tt)
    PROVE  /\ InputOK'
           /\ tt \in Plain => brackets' = brackets
           /\ tt \in Openers => brackets' = Append(brackets, tt)
<1>1. Plain \cap (Openers \cup Closers) = {}
  BY DEF Plain, Openers, Closers, Closing
<1> QED BY <1>1, Scans DEF Accept

LEMMA ExpectsOr ==
    ASSUME IInv, NEW l, At(l), NEW tt, NEW ls, Expect(tt, ls)
    PROVE  Moves \/ (Accept(tt) /\ Become(ls) /\ UNCHANGED astVars /\ result' = result)
  BY StepPerror DEF Expect

LEMMA TriesOr ==
    ASSUME NEW tt, NEW ls, NEW other, Try(tt, ls, other)
    PROVE  Expect(tt, ls) \/ Built(result, other)
  BY DEF Try, Expect, Built

LEMMA ExpectsGo ==
    ASSUME IInv, NEW l, NEW a, At(l), NEW tt \in Plain, Expect(tt, <<a>>),
           Goes(l, a), Results(l) \subseteq Results(a)
    PROVE  Moves
<1>1. result \in Results(a)
  BY Running
<1>2. CASE Accept(tt) /\ Become(<<a>>) /\ UNCHANGED astVars /\ result' = result
  <2>1. InputOK' /\ brackets' = brackets
    BY <1>2, Accepts
  <2> QED BY <1>1, <1>2, <2>1, StepGoes
<1> QED BY <1>2, ExpectsOr

LEMMA ExpectsGoAndCall ==
    ASSUME IInv, NEW l, NEW a, NEW b, At(l), NEW tt \in Plain, Expect(tt, <<a, b>>),
           Goes(l, a), MayCall(a, b), Results(l) \subseteq Results(b)
    PROVE  Moves
<1>1. result \in Results(b)
  BY Running
<1>2. CASE Accept(tt) /\ Become(<<a, b>>) /\ UNCHANGED astVars /\ result' = result
  <2>1. InputOK' /\ brackets' = brackets
    BY <1>2, Accepts
  <2> QED BY <1>1, <1>2, <2>1, StepGoesAndCalls
<1> QED BY <1>2, ExpectsOr

LEMMA ExpectsGoAndCallIn ==
    ASSUME IInv, NEW l, NEW a, NEW b, At(l), NEW tt \in Openers, Expect(tt, <<a, b>>),
           Goes(l, a), MayCallIn(a, b, tt), Results(l) \subseteq Results(b)
    PROVE  Moves
<1>1. result \in Results(b)
  BY Running
<1>2. CASE Accept(tt) /\ Become(<<a, b>>) /\ UNCHANGED astVars /\ result' = result
  <2>1. InputOK' /\ brackets' = Append(brackets, tt)
    BY <1>2, Accepts
  <2> QED BY <1>1, <1>2, <2>1, StepGoesAndCallsIn
<1> QED BY <1>2, ExpectsOr

LEMMA ExpectsEnter ==
    ASSUME IInv, NEW l, NEW a, At(l), NEW tt \in Openers, Expect(tt, <<a>>),
           Enters(l, a, tt), Results(l) \subseteq Results(a)
    PROVE  Moves
<1>1. result \in Results(a)
  BY Running
<1>2. CASE Accept(tt) /\ Become(<<a>>) /\ UNCHANGED astVars /\ result' = result
  <2>1. InputOK' /\ brackets' = Append(brackets, tt)
    BY <1>2, Accepts
  <2> QED BY <1>1, <1>2, <2>1, StepEnters
<1> QED BY <1>2, ExpectsOr

LEMMA ExpectsEnterAndCall ==
    ASSUME IInv, NEW l, NEW a, NEW b, At(l), NEW tt \in Openers, Expect(tt, <<a, b>>),
           Enters(l, a, tt), MayCall(a, b), Results(l) \subseteq Results(b)
    PROVE  Moves
<1>1. result \in Results(b)
  BY Running
<1>2. CASE Accept(tt) /\ Become(<<a, b>>) /\ UNCHANGED astVars /\ result' = result
  <2>1. InputOK' /\ brackets' = Append(brackets, tt)
    BY <1>2, Accepts
  <2> QED BY <1>1, <1>2, <2>1, StepEntersAndCalls
<1> QED BY <1>2, ExpectsOr

LEMMA ExpectsClose ==
    ASSUME IInv, NEW l, At(l), NEW x \in Openers, Expect(Closing[x], <<>>),
           l \in Inside[x], l \notin Owning, l \notin Root, \A ast \in Results(l) : Gives(l, ast)
    PROVE  Moves
<1>1. Gives(l, result)
  BY Running
<1>2. CASE Accept(Closing[x]) /\ Become(<<>>) /\ UNCHANGED astVars /\ result' = result
  BY <1>1, <1>2, StepCloses
<1> QED BY <1>2, ExpectsOr

LEMMA BuiltGoes ==
    ASSUME IInv, NEW l, NEW a, NEW ast, At(l), Built(ast, <<a>>), Goes(l, a), ast \in Results(a)
    PROVE  Moves
<1>1. InputOK' /\ brackets' = brackets
  BY Waits DEF Built
<1> QED BY <1>1, StepGoes DEF Built

LEMMA BuiltGoesAndCalls ==
    ASSUME IInv, NEW l, NEW a, NEW b, NEW ast, At(l), Built(ast, <<a, b>>),
           Goes(l, a), MayCall(a, b), ast \in Results(b)
    PROVE  Moves
<1>1. InputOK' /\ brackets' = brackets
  BY Waits DEF Built
<1> QED BY <1>1, StepGoesAndCalls DEF Built

LEMMA BuiltReturns ==
    ASSUME IInv, NEW l, NEW ast, At(l), Built(ast, <<>>), l \notin Waiting, l \notin Owning,
           Gives(l, ast)
    PROVE  Moves
<1>1. InputOK' /\ brackets' = brackets
  BY Waits DEF Built
<1> QED BY <1>1, StepReturns DEF Built

LEMMA Pushes ==
    ASSUME IInv, NEW l, NEW a, NEW ast, Push(l, ast, <<a>>), Goes(l, a), l \in Owning,
           ast \in Kinds(l), Fit(l, ast), ast \in Asts, Results(l) \subseteq Results(a)
    PROVE  Moves
<1>1. InputOK' /\ brackets' = brackets
  BY Waits DEF Push
<1>2. At(l) /\ ebi_push_ast_list(ast) /\ Become(<<a>>) /\ result' = result
  BY DEF Push
<1>3. result' \in Results(a)
  BY <1>2, Running
<1> QED BY <1>1, <1>2, <1>3, StepAdds

\* What a function may return with.
LEMMA GivesBack ==
    /\ \A l \in {"type", "type.close", "param.push", "generics", "generics.next", "fields.next",
                 "params.first", "params.next", "args.next"} : \A ast \in Asts : Gives(l, ast)
    /\ Gives("struct.end", "STRUCT") /\ Gives("def.end", "DEF") /\ Gives("statement", "uninit")
    /\ Gives("return.end", "RETURN") /\ Gives("block.next", "BLOCK")
    /\ \A l \in {"expression.next", "term.next", "suffix.next", "atom", "atom.close"} :
         \A ast \in Expressions : Gives(l, ast)
<1>1. \A l \in {"type", "type.close", "param.push", "generics", "generics.next", "fields.next",
                "params.first", "params.next", "args.next"} : \A ast \in Asts : Gives(l, ast)
  BY DEF Gives, CalledFrom, Results
<1>2. /\ Gives("struct.end", "STRUCT") /\ Gives("def.end", "DEF") /\ Gives("statement", "uninit")
      /\ Gives("return.end", "RETURN") /\ Gives("block.next", "BLOCK")
  BY DEF Gives, CalledFrom, Results, Asts
<1>3. \A l \in {"expression.next", "term.next", "suffix.next", "atom", "atom.close"} :
        \A ast \in Expressions : Gives(l, ast)
  BY DEF Gives, CalledFrom, Results, Asts, Expressions
<1> QED BY <1>1, <1>2, <1>3

LEMMA TokenKinds ==
    /\ {"LPAREN", "LSQUARE", "LCURLY"} \subseteq Openers
    /\ Closing["LPAREN"] = "RPAREN" /\ Closing["LSQUARE"] = "RSQUARE" /\ Closing["LCURLY"] = "RCURLY"
    /\ {"IDENT", "LINE_END", "FILE_END", "DOT", "COLON", "COMMA", "ADD", "MUL",
        "DEF", "STRUCT", "RETURN"} \subseteq Plain
  BY DEF Openers, Closing, Plain

-----------------------------------------------------------------------------
(***************************************************************************)
(* The functions.                                                          *)
(***************************************************************************)
LEMMA TypeMoves ==
    ASSUME IInv, ebi_parse_type
    PROVE  Moves
<1>1. CASE At("type") /\ Expect("LPAREN", <<"type.close", "type">>)
  <2>1. Results("type") = Asts
    BY DEF Results
  <2> QED BY <1>1, <2>1, GoesIn, CallsDown, TokenKinds, ExpectsEnterAndCall
<1>2. CASE At("type") /\ Expect("IDENT", <<>>)
  <2>1. Gives("type", result) /\ "type" \notin Waiting /\ "type" \notin Owning
    BY GivesBack, Waiters, Owners DEF IInv
  <2>2. CASE Accept("IDENT") /\ Become(<<>>) /\ UNCHANGED astVars /\ result' = result
    <3>1. InputOK' /\ brackets' = brackets
      BY <2>2, Accepts, TokenKinds
    <3> QED BY <1>2, <2>1, <2>2, <3>1, StepReturns
  <2> QED BY <1>2, <2>2, ExpectsOr
<1>3. CASE At("type.close") /\ Expect("RPAREN", <<>>)
  <2>1. "type.close" \in Inside["LPAREN"] /\ "type.close" \notin Owning /\ "type.close" \notin Root
    BY Owners DEF Inside, Root
  <2>2. \A ast \in Results("type.close") : Gives("type.close", ast)
    BY GivesBack, ResultsAreAsts
  <2>3. Expect(Closing["LPAREN"], <<>>)
    BY <1>3, TokenKinds
  <2> QED BY <1>3, <2>1, <2>2, <2>3, TokenKinds, ExpectsClose
<1> QED BY <1>1, <1>2, <1>3 DEF ebi_parse_type

LEMMA ParamMoves ==
    ASSUME IInv, ebi_parse_param
    PROVE  Moves
<1>1. Results("param") = Asts /\ Results("param.colon") = Asts /\ Results("type") = Asts
  BY DEF Results
<1>2. CASE At("param") /\ Expect("IDENT", <<"param.colon">>)
  BY <1>1, <1>2, GoesOn, TokenKinds, ExpectsGo
<1>3. CASE At("param.colon") /\ Expect("COLON", <<"param.push", "type">>)
  BY <1>1, <1>3, GoesOn, CallsDown, TokenKinds, ExpectsGoAndCall
<1>4. CASE Push("param.push", "PARAM", <<>>)
  <2>1. At("param.push") /\ ebi_push_ast_list("PARAM") /\ Become(<<>>) /\ result' = result
        /\ UNCHANGED inputVars
    BY <1>4 DEF Push
  <2>2. InputOK' /\ brackets' = brackets
    BY <2>1, Waits
  <2>3. Gives("param.push", result') /\ "param.push" \notin Waiting /\ "param.push" \notin Owning
    BY <2>1, GivesBack, Waiters, Owners DEF IInv
  <2>4. \A c \in Locations : CalledFrom(c, "param.push") =>
         c \in Owning /\ "PARAM" \in Kinds(c) /\ Fit(c, "PARAM")
    BY Owners, KindsOf DEF CalledFrom, Fit, HeldKinds, Blocks
  <2>5. "PARAM" \in Asts
    BY DEF Asts
  <2> QED BY <2>1, <2>2, <2>3, <2>4, <2>5, StepAddsAndReturns
<1> QED BY <1>2, <1>3, <1>4 DEF ebi_parse_param

LEMMA GenericsMoves ==
    ASSUME IInv, ebi_parse_generics
    PROVE  Moves
<1>1. /\ Results("generics") = Asts /\ Results("generics.list") = Asts
      /\ Results("generics.item") = Asts /\ Results("generics.next") = Asts
  BY DEF Results
<1>2. CASE At("generics") /\ Try("LSQUARE", <<"generics.list">>, <<>>)
  <2>1. CASE Expect("LSQUARE", <<"generics.list">>)
    BY <1>1, <1>2, <2>1, GoesIn, TokenKinds, ExpectsEnter
  <2>2. CASE Built(result, <<>>)
    <3>1. Gives("generics", result) /\ "generics" \notin Waiting /\ "generics" \notin Owning
      BY GivesBack, Waiters, Owners DEF IInv
    <3> QED BY <1>2, <2>2, <3>1, BuiltReturns
  <2> QED BY <1>2, <2>1, <2>2, TriesOr
<1>3. CASE Begin("generics.list", "generics.item")
  BY <1>1, <1>3, GoesCollecting, StepBegins DEF IInv
<1>4. CASE At("generics.list") /\ Perror
  BY <1>4, StepPerror
<1>5. CASE /\ At("generics.item") /\ Accept("IDENT")
           /\ ebi_push_ast_list("NAME") /\ Become(<<"generics.next">>) /\ UNCHANGED result
  <2>1. InputOK' /\ brackets' = brackets
    BY <1>5, Accepts, TokenKinds
  <2>2. "generics.item" \in Owning /\ "NAME" \in Kinds("generics.item") /\ "NAME" \in Asts
      /\ Fit("generics.item", "NAME")
    BY Owners, KindsOf DEF Asts, Fit, HeldKinds, Blocks
  <2>3. result' \in Results("generics.next")
    BY <1>1, <1>5 DEF IInv
  <2> QED BY <1>5, <2>1, <2>2, <2>3, GoesOn, StepAdds
<1>6. CASE At("generics.item") /\ Perror
  BY <1>6, StepPerror
<1>7. CASE At("generics.next") /\ Expect("COMMA", <<"generics.item">>)
  BY <1>1, <1>7, GoesOn, TokenKinds, ExpectsGo
<1>8. CASE At("generics.next") /\ End("RSQUARE", "LIST")
  <2>1. "generics.next" \in Inside["LSQUARE"] /\ "generics.next" \in Owning /\ "generics.next" \notin Root
    BY Owners DEF Inside, Root
  <2>2. Gives("generics.next", "LIST")
    BY GivesBack DEF Asts
  <2>3. End(Closing["LSQUARE"], "LIST")
    BY <1>8, TokenKinds
  <2> QED BY <1>8, <2>1, <2>2, <2>3, TokenKinds, StepEnds
<1>9. CASE At("generics.next") /\ Perror
  BY <1>9, StepPerror
<1> QED BY <1>2, <1>3, <1>4, <1>5, <1>6, <1>7, <1>8, <1>9 DEF ebi_parse_generics

LEMMA FieldsMoves ==
    ASSUME IInv, ebi_parse_fields
    PROVE  Moves
<1>1. /\ Results("fields") = Asts /\ Results("fields.next") = Asts
      /\ Results("fields.push") = Asts /\ Results("param") = Asts
  BY DEF Results
<1>2. CASE Begin("fields", "fields.next")
  BY <1>1, <1>2, GoesCollecting, StepBegins DEF IInv
<1>3. CASE At("fields.next") /\ End("RCURLY", "LIST")
  <2>1. "fields.next" \in Inside["LCURLY"] /\ "fields.next" \in Owning /\ "fields.next" \notin Root
    BY Owners DEF Inside, Root
  <2>2. Gives("fields.next", "LIST")
    BY GivesBack DEF Asts
  <2>3. End(Closing["LCURLY"], "LIST")
    BY <1>3, TokenKinds
  <2> QED BY <1>3, <2>1, <2>2, <2>3, TokenKinds, StepEnds
<1>4. CASE At("fields.next") /\ Try("LINE_END", <<"fields.next">>, <<"fields.push", "param">>)
  <2>1. CASE Expect("LINE_END", <<"fields.next">>)
    BY <1>1, <1>4, <2>1, GoesOn, TokenKinds, ExpectsGo
  <2>2. CASE Built(result, <<"fields.push", "param">>)
    BY <1>1, <1>4, <2>2, GoesOn, CallsDown, BuiltGoesAndCalls DEF IInv
  <2> QED BY <1>4, <2>1, <2>2, TriesOr
<1>5. CASE Push("fields.push", "PARAM", <<"fields.next">>)
  <2>1. "fields.push" \in Owning /\ "PARAM" \in Kinds("fields.push") /\ "PARAM" \in Asts
      /\ Fit("fields.push", "PARAM")
    BY Owners, KindsOf DEF Asts, Fit, HeldKinds, Blocks
  <2> QED BY <1>1, <1>5, <2>1, GoesOn, Pushes
<1> QED BY <1>2, <1>3, <1>4, <1>5 DEF ebi_parse_fields

LEMMA StructMoves ==
    ASSUME IInv, ebi_parse_struct
    PROVE  Moves
<1>1. /\ Results("struct") = Asts /\ Results("struct.body") = Asts /\ Results("struct.end") = Asts
      /\ Results("generics") = Asts /\ Results("fields") = Asts
  BY DEF Results
<1>2. CASE At("struct") /\ Expect("IDENT", <<"struct.body", "generics">>)
  BY <1>1, <1>2, GoesOn, CallsDown, TokenKinds, ExpectsGoAndCall
<1>3. CASE At("struct.body") /\ Try("LCURLY", <<"struct.end", "fields">>, <<"struct.end">>)
  <2>1. CASE Expect("LCURLY", <<"struct.end", "fields">>)
    BY <1>1, <1>3, <2>1, GoesOn, CallsDownIn, TokenKinds, ExpectsGoAndCallIn
  <2>2. CASE Built(result, <<"struct.end">>)
    BY <1>1, <1>3, <2>2, GoesOn, BuiltGoes DEF IInv
  <2> QED BY <1>3, <2>1, <2>2, TriesOr
<1>4. CASE At("struct.end") /\ Built("STRUCT", <<>>)
  <2>1. "struct.end" \notin Waiting /\ "struct.end" \notin Owning
    BY Waiters, Owners
  <2> QED BY <1>4, <2>1, GivesBack, BuiltReturns
<1> QED BY <1>2, <1>3, <1>4 DEF ebi_parse_struct

LEMMA ParamsMoves ==
    ASSUME IInv, ebi_parse_params
    PROVE  Moves
<1>1. /\ Results("params") = Asts /\ Results("params.list") = Asts /\ Results("params.first") = Asts
      /\ Results("params.push") = Asts /\ Results("params.next") = Asts /\ Results("param") = Asts
  BY DEF Results
<1>2. CASE At("params") /\ Expect("LPAREN", <<"params.list">>)
  BY <1>1, <1>2, GoesIn, TokenKinds, ExpectsEnter
<1>3. CASE Begin("params.list", "params.first")
  BY <1>1, <1>3, GoesCollecting, StepBegins DEF IInv
<1>4. ASSUME NEW l \in {"params.first", "params.next"}, At(l), End("RPAREN", "LIST") PROVE Moves
  <2>1. l \in Inside["LPAREN"] /\ l \in Owning /\ l \notin Root
    BY Owners DEF Inside, Root
  <2>2. Gives(l, "LIST")
    BY GivesBack DEF Asts
  <2>3. End(Closing["LPAREN"], "LIST")
    BY <1>4, TokenKinds
  <2> QED BY <1>4, <2>1, <2>2, <2>3, TokenKinds, StepEnds
<1>5. CASE At("params.first") /\ Built("uninit", <<"params.push", "param">>)
  <2>1. "uninit" \in Asts
    BY DEF Asts
  <2> QED BY <1>1, <1>5, <2>1, GoesOn, CallsDown, BuiltGoesAndCalls
<1>6. CASE Push("params.push", "PARAM", <<"params.next">>)
  <2>1. "params.push" \in Owning /\ "PARAM" \in Kinds("params.push") /\ "PARAM" \in Asts
      /\ Fit("params.push", "PARAM")
    BY Owners, KindsOf DEF Asts, Fit, HeldKinds, Blocks
  <2> QED BY <1>1, <1>6, <2>1, GoesOn, Pushes
<1>7. CASE At("params.next") /\ Expect("COMMA", <<"params.push", "param">>)
  BY <1>1, <1>7, GoesOn, CallsDown, TokenKinds, ExpectsGoAndCall
<1>8. CASE At("params.next") /\ Perror
  BY <1>8, StepPerror
<1> QED BY <1>2, <1>3, <1>4, <1>5, <1>6, <1>7, <1>8 DEF ebi_parse_params

LEMMA DefMoves ==
    ASSUME IInv, ebi_parse_def
    PROVE  Moves
<1>1. /\ Results("def") = Asts /\ Results("def.return") = Asts /\ Results("def.body") = Asts
      /\ Results("def.end") = Asts /\ Results("generics") = Asts /\ Results("type") = Asts
      /\ Results("block") = Asts
  BY DEF Results
<1>2. CASE At("def") /\ Expect("IDENT", <<"def.return", "params", "generics">>)
  <2>1. CASE Accept("IDENT") /\ Become(<<"def.return", "params", "generics">>)
             /\ UNCHANGED astVars /\ result' = result
    <3>1. InputOK' /\ brackets' = brackets
      BY <2>1, Accepts, TokenKinds
    <3>2. result' \in Results("generics")
      BY <1>1, <2>1 DEF IInv
    <3> QED BY <1>2, <2>1, <3>1, <3>2, GoesOn, CallsDown, StepGoesAndCallsTwice
  <2> QED BY <1>2, <2>1, ExpectsOr
<1>3. CASE At("def.return") /\ Try("COLON", <<"def.body", "type">>, <<"def.body">>)
  <2>1. CASE Expect("COLON", <<"def.body", "type">>)
    BY <1>1, <1>3, <2>1, GoesOn, CallsDown, TokenKinds, ExpectsGoAndCall
  <2>2. CASE Built(result, <<"def.body">>)
    BY <1>1, <1>3, <2>2, GoesOn, BuiltGoes DEF IInv
  <2> QED BY <1>3, <2>1, <2>2, TriesOr
<1>4. CASE At("def.body") /\ Try("LCURLY", <<"def.end", "block">>, <<"def.end">>)
  <2>1. CASE Expect("LCURLY", <<"def.end", "block">>)
    BY <1>1, <1>4, <2>1, GoesOn, CallsDownIn, TokenKinds, ExpectsGoAndCallIn
  <2>2. CASE Built(result, <<"def.end">>)
    BY <1>1, <1>4, <2>2, GoesOn, BuiltGoes DEF IInv
  <2> QED BY <1>4, <2>1, <2>2, TriesOr
<1>5. CASE At("def.end") /\ Built("DEF", <<>>)
  <2>1. "def.end" \notin Waiting /\ "def.end" \notin Owning
    BY Waiters, Owners
  <2> QED BY <1>5, <2>1, GivesBack, BuiltReturns
<1> QED BY <1>2, <1>3, <1>4, <1>5 DEF ebi_parse_def

LEMMA AtomMoves ==
    ASSUME IInv, ebi_parse_atom
    PROVE  Moves
<1>1. /\ Results("atom") = Expressions /\ Results("expression") = Expressions
      /\ Results("atom.close") = Expressions
  BY DEF Results
<1>2. "atom" \notin Waiting /\ "atom" \notin Owning
  BY Waiters, Owners
<1>3. CASE At("atom") /\ Expect("LPAREN", <<"atom.close", "expression">>)
  BY <1>1, <1>3, GoesIn, CallsDown, TokenKinds, ExpectsEnterAndCall
<1>4. CASE At("atom.close") /\ Expect("RPAREN", <<>>)
  <2>1. "atom.close" \in Inside["LPAREN"] /\ "atom.close" \notin Owning /\ "atom.close" \notin Root
    BY Owners DEF Inside, Root
  <2>2. \A ast \in Results("atom.close") : Gives("atom.close", ast)
    BY <1>1, GivesBack
  <2>3. Expect(Closing["LPAREN"], <<>>)
    BY <1>4, TokenKinds
  <2> QED BY <1>4, <2>1, <2>2, <2>3, TokenKinds, ExpectsClose
<1>5. CASE At("atom") /\ Accept("IDENT") /\ result' = "NAME" /\ Return /\ UNCHANGED astVars
  <2>1. InputOK' /\ brackets' = brackets
    BY <1>5, Accepts, TokenKinds
  <2>2. Gives("atom", "NAME")
    BY GivesBack DEF Expressions
  <2> QED BY <1>2, <1>5, <2>1, <2>2, StepReturns DEF Return
<1>6. CASE At("atom") /\ Built(result, <<>>)
  <2>1. Gives("atom", result)
    BY <1>1, <1>6, Running, GivesBack
  <2> QED BY <1>2, <1>6, <2>1, BuiltReturns
<1> QED BY <1>3, <1>4, <1>5, <1>6 DEF ebi_parse_atom

LEMMA ArgsMoves ==
    ASSUME IInv, ebi_parse_args
    PROVE  Moves
<1>1. /\ Results("args") = Asts /\ Results("args.next") = Asts
      /\ Results("args.push") = Expressions /\ Results("expression") = Expressions
      /\ "uninit" \in Expressions /\ Expressions \subseteq Asts
  BY DEF Results, Expressions, Asts
<1>2. CASE Begin("args", "args.next")
  BY <1>1, <1>2, GoesCollecting, StepBegins DEF IInv
<1>3. CASE At("args.next") /\ End("RPAREN", "LIST")
  <2>1. "args.next" \in Inside["LPAREN"] /\ "args.next" \in Owning /\ "args.next" \notin Root
    BY Owners DEF Inside, Root
  <2>2. Gives("args.next", "LIST")
    BY GivesBack DEF Asts
  <2>3. End(Closing["LPAREN"], "LIST")
    BY <1>3, TokenKinds
  <2> QED BY <1>3, <2>1, <2>2, <2>3, TokenKinds, StepEnds
<1>4. CASE At("args.next") /\ Built("uninit", <<"args.push", "expression">>)
  BY <1>1, <1>4, GoesOnInCode, CallsDown, BuiltGoesAndCalls
<1>5. CASE Push("args.push", result, <<"args.next">>)
  <2>1. result \in Expressions
    BY <1>1, <1>5, Running DEF Push
  <2>2. "args.push" \in Owning /\ result \in Kinds("args.push") /\ result \in Asts
      /\ Fit("args.push", result)
    BY <1>1, <2>1, Owners, KindsOf DEF Expressions, Fit, HeldKinds, Blocks
  <2> QED BY <1>1, <1>5, <2>2, GoesOnInCode, Pushes
<1> QED BY <1>2, <1>3, <1>4, <1>5 DEF ebi_parse_args

LEMMA SuffixMoves ==
    ASSUME IInv, ebi_parse_suffix
    PROVE  Moves
<1>1. /\ Results("suffix") = Expressions /\ Results("suffix.next") = Expressions
      /\ Results("suffix.field") = Expressions /\ Results("suffix.call") = Asts
      /\ Results("atom") = Expressions /\ Results("args") = Asts
      /\ "FIELD" \in Expressions /\ "CALL" \in Expressions /\ Expressions \subseteq Asts
  BY DEF Results, Expressions, Asts
<1>2. CASE At("suffix") /\ Built(result, <<"suffix.next", "atom">>)
  <2>1. result \in Results("atom")
    BY <1>1, <1>2, Running
  <2> QED BY <1>2, <2>1, GoesOnInCode, CallsDown, BuiltGoesAndCalls
<1>3. CASE At("suffix.next") /\ Expect("DOT", <<"suffix.field">>)
  BY <1>1, <1>3, GoesOnInCode, TokenKinds, ExpectsGo
<1>4. CASE /\ At("suffix.field") /\ Accept("IDENT")
           /\ result' = "FIELD" /\ Become(<<"suffix.next">>) /\ UNCHANGED astVars
  <2>1. InputOK' /\ brackets' = brackets
    BY <1>4, Accepts, TokenKinds
  <2> QED BY <1>1, <1>4, <2>1, GoesOnInCode, StepGoes
<1>5. CASE At("suffix.field") /\ Perror
  BY <1>5, StepPerror
<1>6. CASE At("suffix.next") /\ Try("LPAREN", <<"suffix.call", "args">>, <<>>)
  <2>1. CASE Expect("LPAREN", <<"suffix.call", "args">>)
    BY <1>1, <1>6, <2>1, GoesOnInCode, CallsDownIn, TokenKinds, ExpectsGoAndCallIn
  <2>2. CASE Built(result, <<>>)
    <3>1. Gives("suffix.next", result) /\ "suffix.next" \notin Waiting /\ "suffix.next" \notin Owning
      BY <1>1, <1>6, Running, GivesBack, Waiters, Owners
    <3> QED BY <1>6, <2>2, <3>1, BuiltReturns
  <2> QED BY <1>6, <2>1, <2>2, TriesOr
<1>7. CASE At("suffix.call") /\ Built("CALL", <<"suffix.next">>)
  BY <1>1, <1>7, GoesOnInCode, BuiltGoes
<1> QED BY <1>2, <1>3, <1>4, <1>5, <1>6, <1>7 DEF ebi_parse_suffix

LEMMA TermMoves ==
    ASSUME IInv, ebi_parse_term
    PROVE  Moves
<1>1. /\ Results("term") = Expressions /\ Results("term.next") = Expressions
      /\ Results("term.binop") = Expressions /\ Results("suffix") = Expressions
      /\ "BINOP" \in Expressions
  BY DEF Results, Expressions
<1>2. CASE At("term") /\ Built(result, <<"term.next", "suffix">>)
  <2>1. result \in Results("suffix")
    BY <1>1, <1>2, Running
  <2> QED BY <1>2, <2>1, GoesOnInCode, CallsDown, BuiltGoesAndCalls
<1>3. CASE At("term.next") /\ Try("MUL", <<"term.binop", "suffix">>, <<>>)
  <2>1. CASE Expect("MUL", <<"term.binop", "suffix">>)
    BY <1>1, <1>3, <2>1, GoesOnInCode, CallsDown, TokenKinds, ExpectsGoAndCall
  <2>2. CASE Built(result, <<>>)
    <3>1. Gives("term.next", result) /\ "term.next" \notin Waiting /\ "term.next" \notin Owning
      BY <1>1, <1>3, Running, GivesBack, Waiters, Owners
    <3> QED BY <1>3, <2>2, <3>1, BuiltReturns
  <2> QED BY <1>3, <2>1, <2>2, TriesOr
<1>4. CASE At("term.binop") /\ Built("BINOP", <<"term.next">>)
  BY <1>1, <1>4, GoesOnInCode, BuiltGoes
<1> QED BY <1>2, <1>3, <1>4 DEF ebi_parse_term

LEMMA ExpressionMoves ==
    ASSUME IInv, ebi_parse_expression
    PROVE  Moves
<1>1. /\ Results("expression") = Expressions /\ Results("expression.next") = Expressions
      /\ Results("expression.binop") = Expressions /\ Results("term") = Expressions
      /\ "BINOP" \in Expressions
  BY DEF Results, Expressions
<1>2. CASE At("expression") /\ Built(result, <<"expression.next", "term">>)
  <2>1. result \in Results("term")
    BY <1>1, <1>2, Running
  <2> QED BY <1>2, <2>1, GoesOnInCode, CallsDown, BuiltGoesAndCalls
<1>3. CASE At("expression.next") /\ Try("ADD", <<"expression.binop", "term">>, <<>>)
  <2>1. CASE Expect("ADD", <<"expression.binop", "term">>)
    BY <1>1, <1>3, <2>1, GoesOnInCode, CallsDown, TokenKinds, ExpectsGoAndCall
  <2>2. CASE Built(result, <<>>)
    <3>1. Gives("expression.next", result) /\ "expression.next" \notin Waiting
          /\ "expression.next" \notin Owning
      BY <1>1, <1>3, Running, GivesBack, Waiters, Owners
    <3> QED BY <1>3, <2>2, <3>1, BuiltReturns
  <2> QED BY <1>3, <2>1, <2>2, TriesOr
<1>4. CASE At("expression.binop") /\ Built("BINOP", <<"expression.next">>)
  BY <1>1, <1>4, GoesOnInCode, BuiltGoes
<1> QED BY <1>2, <1>3, <1>4 DEF ebi_parse_expression

LEMMA StatementMoves ==
    ASSUME IInv, ebi_parse_statement
    PROVE  Moves
<1>1. /\ Results("statement") = {"uninit"} /\ Results("return") = {"uninit"}
      /\ Results("return.end") = Asts /\ Results("block") = Asts
      /\ Results("expression") = Expressions /\ "uninit" \in Asts /\ "uninit" \in Expressions
  BY DEF Results, Asts, Expressions
<1>2. CASE At("statement") /\ Expect("LCURLY", <<"block">>)
  BY <1>1, <1>2, GoesIn, TokenKinds, ExpectsEnter
<1>3. CASE At("statement") /\ Try("RETURN", <<"return">>, <<>>)
  <2>1. CASE Expect("RETURN", <<"return">>)
    BY <1>1, <1>3, <2>1, GoesOnInCode, TokenKinds, ExpectsGo
  <2>2. CASE Built(result, <<>>)
    <3>1. Gives("statement", result) /\ "statement" \notin Waiting /\ "statement" \notin Owning
      BY <1>1, <1>3, Running, GivesBack, Waiters, Owners
    <3> QED BY <1>3, <2>2, <3>1, BuiltReturns
  <2> QED BY <1>3, <2>1, <2>2, TriesOr
<1>4. CASE At("return") /\ Try("LINE_END", <<"return.end">>, <<"return.end", "expression">>)
  <2>1. CASE Expect("LINE_END", <<"return.end">>)
    BY <1>1, <1>4, <2>1, GoesOnInCode, TokenKinds, ExpectsGo
  <2>2. CASE Built(result, <<"return.end", "expression">>)
    <3>1. result \in Results("expression")
      BY <1>1, <1>4, Running
    <3> QED BY <1>4, <2>2, <3>1, GoesOnInCode, CallsDown, BuiltGoesAndCalls
  <2> QED BY <1>4, <2>1, <2>2, TriesOr
<1>5. CASE At("return.end") /\ Built("RETURN", <<>>)
  <2>1. "return.end" \notin Waiting /\ "return.end" \notin Owning
    BY Waiters, Owners
  <2> QED BY <1>5, <2>1, GivesBack, BuiltReturns
<1> QED BY <1>2, <1>3, <1>4, <1>5 DEF ebi_parse_statement

LEMMA BlockMoves ==
    ASSUME IInv, ebi_parse_block
    PROVE  Moves
<1>1. /\ Results("block") = Asts /\ Results("block.next") = Asts
      /\ Results("struct") = Asts /\ Results("def") = Asts /\ Results("statement") = {"uninit"}
      /\ Results("block.push") = {"STRUCT", "DEF", "BLOCK", "RETURN", "uninit"}
  BY DEF Results
<1>2. CASE Begin("block", "block.next")
  BY <1>1, <1>2, GoesCollecting, StepBegins DEF IInv
<1>3. CASE At("block.next") /\ End(BlockEnd, "BLOCK")
  <2>1. CASE Len(calls) = 1
    BY <1>3, <2>1, StepEndsRoot DEF BlockEnd
  <2>2. CASE Len(calls) # 1
    <3>1. "block.next" \in Inside["LCURLY"] /\ "block.next" \in Owning
      BY Owners DEF Inside
    <3>2. End(Closing["LCURLY"], "BLOCK")
      BY <1>3, <2>2, TokenKinds DEF BlockEnd
    <3> QED BY <1>3, <2>2, <3>1, <3>2, TokenKinds, GivesBack, StepEnds
  <2> QED BY <2>1, <2>2
<1>4. CASE At("block.next") /\ Expect("LINE_END", <<"block.next">>)
  BY <1>1, <1>4, GoesOnInCode, TokenKinds, ExpectsGo
<1>5. CASE At("block.next") /\ Expect("STRUCT", <<"block.push", "struct">>)
  BY <1>1, <1>5, GoesOnInCode, CallsDown, TokenKinds, ExpectsGoAndCall
<1>6. CASE At("block.next") /\ Expect("DEF", <<"block.push", "def">>)
  BY <1>1, <1>6, GoesOnInCode, CallsDown, TokenKinds, ExpectsGoAndCall
<1>7. CASE At("block.next") /\ Built("uninit", <<"block.push", "statement">>)
  BY <1>1, <1>7, GoesOnInCode, CallsDown, BuiltGoesAndCalls
<1>8. CASE Push("block.push", result, <<"block.next">>)
  <2>1. result \in Results("block.push")
    BY <1>8, Running DEF Push
  <2>2. "block.push" \in Owning /\ result \in Kinds("block.push") /\ result \in Asts
    BY <1>1, <2>1, Owners, KindsOf, ResultsAreAsts
  <2>3. Results("block.push") \subseteq Results("block.next")
    BY <1>1, ResultsAreAsts
  <2>4. Fit("block.push", result)
    BY <1>8, <2>2 DEF Fit, HeldKinds, PushesUninit, Push
  <2> QED BY <1>8, <2>2, <2>3, <2>4, GoesOnInCode, Pushes
<1> QED BY <1>2, <1>3, <1>4, <1>5, <1>6, <1>7, <1>8 DEF ebi_parse_block, BlockItem

-----------------------------------------------------------------------------
(***************************************************************************)
(* The invariant holds, and every step is one of a stack of lists.         *)
(***************************************************************************)
LEMMA NoActivations == \A w : Activations(<<>>, <<>>, <<>>, w)
<1>1. \A i \in Nat : Ranked(<<>>, 0, i + 1, Waiting) = 0 /\ Ranked(<<>>, 0, i + 1, Owning) = 0
  <2> TAKE i \in Nat
  <2>1. \A S : {j \in (i + 1)..0 : <<>>[j] \in S} = {}
    OBVIOUS
  <2> QED BY <2>1, FS_EmptySet DEF Ranked
<1>2. Ranked(<<>>, 0, 2, Waiting) = 0 /\ Ranked(<<>>, 0, 1, Owning) = 0
  <2>1. 0 \in Nat /\ 1 \in Nat /\ 0 + 1 = 1 /\ 1 + 1 = 2
    OBVIOUS
  <2>2. Ranked(<<>>, 0, 1 + 1, Waiting) = 0 /\ Ranked(<<>>, 0, 0 + 1, Owning) = 0
    BY <1>1, <2>1
  <2> QED BY <2>1, <2>2
<1>3. Len(<<>>) = 0 /\ DOMAIN <<>> = {} /\ 2..0 = {} /\ 1..0 = {}
  OBVIOUS
<1>4. Matched(<<>>, <<>>, 2, Waiting, BracketFits)
      /\ \A w : Matched(<<>>, <<>>, 1, Owning, ListFits(w))
  BY <1>2, <1>3 DEF Matched
<1>5. Nested(<<>>)
  BY <1>3 DEF Nested
<1> QED BY <1>4, <1>5 DEF Activations

LEMMA InitInv ==
    ASSUME Init
    PROVE  /\ IInv /\ OpenLists = <<>> /\ nodes = <<>>
           /\ \A w : Activations(calls, brackets, OpenLists, w)
<1>1. InputOK
  BY ParserAssumption DEF Init, InputOK
<1>2. InOrder(<<>>, <<>>)
  BY DEF InOrder
<1>3. ArrayOK
  BY <1>2 DEF Init, ArrayOK
<1>4. OpenLists = <<>>
  <2>1. ListsIn(<<>>, <<>>) \in Seq(Seq(Asts)) /\ Len(ListsIn(<<>>, <<>>)) = Len(<<>>)
    BY <1>2, ListsAreLists
  <2>2. ListsIn(<<>>, <<>>) = <<>>
    BY <2>1, EmptySeq
  <2> QED BY <2>2, OpenListsOnArray DEF Init
<1>5. ASSUME NEW w PROVE Activations(calls, brackets, OpenLists, w)
  <2>1. <<>> \in Seq(Locations) /\ "block" \in Locations /\ "block" \in Root /\ "block" \notin Owning
    BY Owners DEF Locations, Root
  <2>2. /\ Matched(<<>>, Append(<<>>, "block"), 2, Waiting, BracketFits)
        /\ Matched(<<>>, Append(<<>>, "block"), 1, Owning, ListFits(w))
        /\ Nested(Append(<<>>, "block")) /\ Append(<<>>, "block") \in Seq(Locations)
        /\ <<>> \in Seq(Openers) /\ <<>> \in Seq(Seq(Asts))
    BY <2>1, NoActivations, Push1
  <2>3. Append(<<>>, "block") = <<"block">>
    OBVIOUS
  <2> HIDE <2>3
  <2>4. Activations(Append(<<>>, "block"), <<>>, <<>>, w)
    BY <2>2 DEF Activations
  <2> QED BY <1>4, <2>3, <2>4 DEF Init
<1>6. result \in Asts /\ result \in Results("block") /\ Last(calls) = "block"
  BY DEF Init, Asts, Results, Last
<1> QED BY <1>1, <1>3, <1>4, <1>5, <1>6 DEF IInv, Init

LEMMA NextMoves ==
    ASSUME IInv, Next
    PROVE  Moves
  BY TypeMoves, ParamMoves, GenericsMoves, FieldsMoves, StructMoves, ParamsMoves, DefMoves,
     AtomMoves, ArgsMoves, SuffixMoves, TermMoves, ExpressionMoves, StatementMoves, BlockMoves
     DEF Next

LEMMA StutterMoves ==
    ASSUME IInv, UNCHANGED vars
    PROVE  Moves
<1>1. calls' = calls /\ result' = result /\ UNCHANGED inputVars /\ UNCHANGED astVars
  BY DEF vars, inputVars, astVars
<1>2. InputOK' /\ brackets' = brackets
  BY <1>1, Waits
<1>3. ArrayOK' /\ OpenLists' = OpenLists /\ nodes' = nodes
  BY <1>1, ArrayWaits
<1> QED BY <1>1, <1>2, <1>3 DEF IInv, Moves, ListsMove, KeptFor

(***************************************************************************)
(* Which function may be called by which, and that each activation which   *)
(* waits for a bracket or builds a list has one, in the order of the       *)
(* calls, for a source of any length.                                      *)
(***************************************************************************)
THEOREM Invariance == Spec => []IInv
<1>1. Init => IInv
  BY InitInv
<1>2. IInv /\ [Next]_vars => IInv'
  BY NextMoves, StutterMoves DEF Moves
<1> QED BY <1>1, <1>2, PTL DEF Spec

\* The state of the parser has its type; the nodes always have room in
\* temp_asts, however far it has grown.
THEOREM TypeCorrect == Spec => []TypeOK
<1>1. IInv => TypeOK
  <2> SUFFICES ASSUME IInv PROVE TypeOK
    OBVIOUS
  <2>1. brackets \in Seq(Openers) /\ calls \in Seq(Locations)
    BY DEF IInv, Activations
  <2>2. brackets \in Seq(Openers \cup Closers)
    BY <2>1, SeqMonotonic
  <2> QED BY <2>1, <2>2 DEF IInv, InputOK, ArrayOK, InOrder, TypeOK
<1> QED BY <1>1, Invariance, PTL

(***************************************************************************)
(* The brackets of the source are closed in the order they were opened,    *)
(* each by the function that accepted it and with one of its kind.         *)
(***************************************************************************)
THEOREM BracketsAlwaysMatch == Spec => []BracketsMatch
<1>1. IInv => BracketsMatch
  <2> SUFFICES ASSUME IInv PROVE BracketsMatch
    OBVIOUS
  <2>1. \A i : Rank(i, 2, Waiting) = Ranked(calls, i, 2, Waiting)
    BY DEF Rank, Ranked
  <2>2. Matched(brackets, calls, 2, Waiting, BracketFits)
    BY DEF IInv, Activations
  <2>3. ASSUME NEW i \in 2..Len(calls), calls[i] \in Waiting
        PROVE  brackets[Rank(i, 2, Waiting)] = Awaited(calls[i])
    <3>1. <<calls[i], brackets[Ranked(calls, i, 2, Waiting)]>> \in BracketFits
      BY <2>2, <2>3 DEF Matched
    <3> QED BY <2>1, <3>1, LocationSets, BracketOfLocation
  <2> QED BY <2>1, <2>2, <2>3 DEF Matched, BracketsMatch
<1> QED BY <1>1, Invariance, PTL

(***************************************************************************)
(* The lists that share temp_asts never mix, however deep the recursion:   *)
(* each holds only what its own function makes.                            *)
(***************************************************************************)
THEOREM ListsKeepTheirKind == Spec => []ListsHoldTheirKind
<1>1. IInv => ListsHoldTheirKind
  <2> SUFFICES ASSUME IInv PROVE ListsHoldTheirKind
    OBVIOUS
  <2>1. \A i : Rank(i, 1, Owning) = Ranked(calls, i, 1, Owning)
    BY DEF Rank, Ranked
  <2>2. Matched(OpenLists, calls, 1, Owning, ListFits({})) /\ calls \in Seq(Locations)
    BY DEF IInv, Activations
  <2>3. Len(OpenLists) = Len(begins)
    <3>1. InOrder(temp_asts, begins)
      BY DEF IInv, ArrayOK
    <3> QED BY <3>1, ListsAreLists, OpenListsOnArray
  <2>4. DOMAIN calls = 1..Len(calls)
    BY <2>2, LenProperties
  <2>5. ASSUME NEW i \in DOMAIN calls, calls[i] \in Owning
        PROVE  ToSet(OpenLists[Rank(i, 1, Owning)]) \subseteq Kinds(calls[i])
    <3>1. <<calls[i], OpenLists[Ranked(calls, i, 1, Owning)]>> \in ListFits({})
      BY <2>2, <2>4, <2>5 DEF Matched
    <3> QED BY <2>1, <3>1, LocationSets, HeldKindsOf
  <2> QED BY <2>1, <2>2, <2>3, <2>5 DEF Matched, ListsHoldTheirKind
<1> QED BY <1>1, Invariance, PTL

-----------------------------------------------------------------------------
\* A node put into the last list, the way the abstract lists say it.
LEMMA AddedIsExcept ==
    ASSUME NEW ls \in Seq(Seq(Asts)), ls # <<>>, NEW ast \in Asts
    PROVE  Added(ls, ast) = [ls EXCEPT ![Len(ls)] = Append(@, ast)]
<1> DEFINE n == Len(ls)
           list == Append(ls[n], ast)
           f == Front(ls)
<1>1. f \in Seq(Seq(Asts)) /\ n \in Nat \ {0} /\ Len(f) = n - 1 /\ Last(ls) = ls[n]
      /\ Last(ls) \in Seq(Asts) /\ \A i \in 1..n - 1 : f[i] = ls[i]
  BY FrontIs
<1>2. list \in Seq(Asts)
  BY <1>1, AppendProperties
<1>3. n \in 1..Len(ls)
  BY <1>1
<1> HIDE DEF f, list
<1> DEFINE new == [ls EXCEPT ![n] = list]
<1>4. new \in Seq(Seq(Asts)) /\ Len(new) = n /\ \A j \in 1..n : new[j] = IF j = n THEN list ELSE ls[j]
  BY <1>2, <1>3, ExceptSeq
<1>5. Append(f, list) \in Seq(Seq(Asts)) /\ Len(Append(f, list)) = (n - 1) + 1
      /\ Append(f, list)[(n - 1) + 1] = list
      /\ \A i \in 1..n - 1 : Append(f, list)[i] = f[i]
  BY <1>1, <1>2, AppendProperties
<1> HIDE DEF new, n
<1>6. \A j \in 1..n : Append(f, list)[j] = new[j]
  <2> TAKE j \in 1..n
  <2>1. (j = n \/ j \in 1..n - 1) /\ (n - 1) + 1 = n
    BY <1>1
  <2>2. CASE j = n
    BY <1>1, <1>4, <1>5, <2>1, <2>2
  <2>3. CASE j # n
    BY <1>1, <1>4, <1>5, <2>1, <2>3
  <2> QED BY <2>2, <2>3
<1>7. Len(Append(f, list)) = Len(new)
  BY <1>1, <1>4, <1>5
<1>8. Append(f, list) = new
  BY <1>4, <1>5, <1>6, <1>7, SeqEqual
<1>9. Added(ls, ast) = Append(f, list)
  BY <1>1 DEF Added, f, list
<1>10. new = [ls EXCEPT ![Len(ls)] = Append(@, ast)]
  BY DEF new, n, list
<1> QED BY <1>8, <1>9, <1>10

LEMMA ListsMoveIsStep ==
    ASSUME IInv, ListsMove
    PROVE  [Lists!Next]_Lists!listVars
<1>1. CASE OpenLists' = OpenLists /\ nodes' = nodes
  BY <1>1 DEF Lists!listVars
<1>2. CASE OpenLists' = Append(OpenLists, <<>>) /\ nodes' = nodes
  BY <1>2 DEF Lists!Next, Lists!Open
<1>3. CASE OpenLists # <<>> /\ nodes' = nodes /\ \E ast \in Asts : OpenLists' = Added(OpenLists, ast)
  <2>1. PICK ast \in Asts : OpenLists' = Added(OpenLists, ast)
    BY <1>3
  <2>2. OpenLists \in Seq(Seq(Asts))
    BY DEF IInv, Activations
  <2>3. OpenLists' = [OpenLists EXCEPT ![Len(OpenLists)] = Append(@, ast)]
    BY <1>3, <2>1, <2>2, AddedIsExcept
  <2>4. Lists!Add(ast)
    BY <1>3, <2>3 DEF Lists!Add
  <2> QED BY <2>4 DEF Lists!Next
<1>4. CASE OpenLists # <<>> /\ nodes' = Last(OpenLists) /\ OpenLists' = Front(OpenLists)
  BY <1>4 DEF Lists!Next, Lists!Close, Last, Front, Lists!Last, Lists!Front
<1> QED BY <1>1, <1>2, <1>3, <1>4 DEF ListsMove

(***************************************************************************)
(* temp_asts implements a stack of lists, for a source of any length, any  *)
(* first size of the array and any depth of the recursion: each list gets  *)
(* back exactly what was put into it.                                      *)
(***************************************************************************)
THEOREM ImplementsLists == Spec => ImplementsAstLists
<1>1. Init => Lists!Init
  BY InitInv DEF Lists!Init
<1>2. IInv /\ [Next]_vars => [Lists!Next]_Lists!listVars
  BY NextMoves, StutterMoves, ListsMoveIsStep DEF Moves
<1> QED BY <1>1, <1>2, Invariance, PTL DEF Spec, ImplementsAstLists, Lists!Spec

-----------------------------------------------------------------------------
(***************************************************************************)
(* Where a step leads: to a statement only from the loop of its block, and *)
(* back to the block with an unwritten node only from a statement.         *)
(***************************************************************************)
Elsewhere ==
    calls' # <<>> => /\ Last(calls') # "statement"
                     /\ Last(calls') = "block.push" => result' # "uninit"

Far == Locations \ {"statement", "block.push"}

LEMMA Returns ==
    ASSUME IInv, NEW l, At(l), Become(<<>>)
    PROVE  calls' = Front(calls) /\ (calls' # <<>> => CalledFrom(Last(calls'), l))
<1> DEFINE f == Front(calls)
<1>1. f \in Seq(Locations) /\ l \in Locations /\ Activations(Append(f, l), brackets, OpenLists, {})
      /\ calls \in Seq(Locations) /\ calls # <<>>
  BY Running
<1>2. calls' = f
  BY <1>1, Becomes
<1> HIDE DEF f
<1>3. f # <<>> => CalledFrom(Last(f), l)
  BY <1>1, Drop
<1> QED BY <1>2, <1>3 DEF f

LEMMA GoesOnAs ==
    ASSUME IInv, NEW l, At(l), NEW a \in Locations, NEW b \in Locations, NEW c \in Locations
    PROVE  /\ Become(<<a>>) => calls' = Append(Front(calls), a) /\ Last(calls') = a
           /\ Become(<<a, b>>) => /\ calls' = Append(Append(Front(calls), a), b)
                                  /\ Last(calls') = b
           /\ Become(<<a, b, c>>) => Last(calls') = c
<1> DEFINE f == Front(calls)
<1>1. f \in Seq(Locations) /\ calls \in Seq(Locations) /\ calls # <<>>
  BY Running
<1>2. Append(f, a) \in Seq(Locations) /\ Last(Append(f, a)) = a
  BY <1>1, LastOfAppend
<1>3. Append(Append(f, a), b) \in Seq(Locations) /\ Last(Append(Append(f, a), b)) = b
  BY <1>2, LastOfAppend
<1>4. Last(Append(Append(Append(f, a), b), c)) = c
  BY <1>3, LastOfAppend
<1> QED BY <1>1, <1>2, <1>3, <1>4, Becomes

LEMMA GoesElsewhere ==
    ASSUME IInv, NEW l, At(l)
    PROVE  /\ Perror => Elsewhere
           /\ \A a \in Far : Become(<<a>>) => Elsewhere
           /\ \A a \in Locations, b \in Far : Become(<<a, b>>) => Elsewhere
           /\ \A a, b \in Locations, c \in Far : Become(<<a, b, c>>) => Elsewhere
           /\ /\ ~CalledFrom("statement", l)
              /\ CalledFrom("block.push", l) => result' # "uninit"
              /\ Become(<<>>)
              => Elsewhere
<1>1. "perror" \in Locations /\ Far \subseteq Locations
  BY DEF Locations, Far
<1>2. Perror => Elsewhere
  <2>1. calls \in Seq(Locations) /\ calls # <<>>
    BY Running
  <2>2. Last(Append(calls, "perror")) = "perror"
    BY <1>1, <2>1, LastOfAppend
  <2> QED BY <2>2 DEF Perror, Elsewhere
<1>3. \A a \in Far : Become(<<a>>) => Elsewhere
  BY <1>1, GoesOnAs DEF Elsewhere, Far
<1>4. \A a \in Locations, b \in Far : Become(<<a, b>>) => Elsewhere
  BY <1>1, GoesOnAs DEF Elsewhere, Far
<1>5. \A a, b \in Locations, c \in Far : Become(<<a, b, c>>) => Elsewhere
  BY <1>1, GoesOnAs DEF Elsewhere, Far
<1>6. /\ ~CalledFrom("statement", l)
      /\ CalledFrom("block.push", l) => result' # "uninit"
      /\ Become(<<>>)
      => Elsewhere
  BY Returns DEF Elsewhere
<1> QED BY <1>2, <1>3, <1>4, <1>5, <1>6

\* The locations from which a function may return with any node.
LEMMA CalledElsewhere ==
    /\ \A l \in {"type", "type.close", "param.push", "generics", "generics.next", "fields.next",
                 "params.first", "params.next", "args.next", "expression.next", "term.next",
                 "suffix.next", "atom", "atom.close"} :
         ~CalledFrom("statement", l) /\ ~CalledFrom("block.push", l)
    /\ \A l \in {"struct.end", "def.end", "statement", "return.end", "block.next"} :
         ~CalledFrom("statement", l)
  BY DEF CalledFrom

LEMMA FarLocations ==
    /\ {"type.close", "type", "param.colon", "param.push", "generics", "generics.list",
        "generics.item", "generics.next", "fields", "fields.next", "fields.push", "param",
        "struct.body", "struct.end", "params", "params.list", "params.first", "params.push",
        "params.next", "def.return", "def.body", "def.end", "block", "block.next", "struct",
        "def", "return", "return.end", "expression", "expression.next", "expression.binop", "term",
        "term.next", "term.binop", "suffix", "suffix.next", "suffix.field", "suffix.call", "atom",
        "atom.close", "args", "args.next", "args.push"} \subseteq Far
    /\ Far \subseteq Locations /\ "block.push" \in Locations /\ "statement" \in Locations
  BY DEF Far, Locations

LEMMA TypeElsewhere ==
    ASSUME IInv, ebi_parse_type
    PROVE  Elsewhere
<1>1. CASE At("type") /\ Expect("LPAREN", <<"type.close", "type">>)
  BY <1>1, GoesElsewhere, FarLocations DEF Expect
<1>2. CASE At("type") /\ Expect("IDENT", <<>>)
  BY <1>2, GoesElsewhere, CalledElsewhere DEF Expect
<1>3. CASE At("type.close") /\ Expect("RPAREN", <<>>)
  BY <1>3, GoesElsewhere, CalledElsewhere DEF Expect
<1> QED BY <1>1, <1>2, <1>3 DEF ebi_parse_type

LEMMA ParamElsewhere ==
    ASSUME IInv, ebi_parse_param
    PROVE  Elsewhere
<1>1. CASE At("param") /\ Expect("IDENT", <<"param.colon">>)
  BY <1>1, GoesElsewhere, FarLocations DEF Expect
<1>2. CASE At("param.colon") /\ Expect("COLON", <<"param.push", "type">>)
  BY <1>2, GoesElsewhere, FarLocations DEF Expect
<1>3. CASE Push("param.push", "PARAM", <<>>)
  BY <1>3, GoesElsewhere, CalledElsewhere DEF Push
<1> QED BY <1>1, <1>2, <1>3 DEF ebi_parse_param

LEMMA GenericsElsewhere ==
    ASSUME IInv, ebi_parse_generics
    PROVE  Elsewhere
<1>1. CASE At("generics") /\ Try("LSQUARE", <<"generics.list">>, <<>>)
  BY <1>1, GoesElsewhere, FarLocations, CalledElsewhere DEF Try
<1>2. CASE token # "RSQUARE" /\ Begin("generics.list", "generics.item")
  BY <1>2, GoesElsewhere, FarLocations DEF Begin
<1>3. CASE At("generics.list") /\ token = "RSQUARE" /\ Perror
  BY <1>3, GoesElsewhere
<1>4. CASE /\ At("generics.item") /\ Accept("IDENT")
          /\ ebi_push_ast_list("NAME") /\ Become(<<"generics.next">>) /\ UNCHANGED result
  BY <1>4, GoesElsewhere, FarLocations
<1>5. CASE At("generics.item") /\ token # "IDENT" /\ Perror
  BY <1>5, GoesElsewhere
<1>6. CASE At("generics.next") /\ token = "COMMA" /\ Expect("COMMA", <<"generics.item">>)
  BY <1>6, GoesElsewhere, FarLocations DEF Expect
<1>7. CASE At("generics.next") /\ End("RSQUARE", "LIST")
  BY <1>7, GoesElsewhere, CalledElsewhere DEF End, Return
<1>8. CASE At("generics.next") /\ token \notin {"COMMA", "RSQUARE"} /\ Perror
  BY <1>8, GoesElsewhere
<1> QED BY <1>1, <1>2, <1>3, <1>4, <1>5, <1>6, <1>7, <1>8 DEF ebi_parse_generics

LEMMA FieldsElsewhere ==
    ASSUME IInv, ebi_parse_fields
    PROVE  Elsewhere
<1>1. CASE Begin("fields", "fields.next")
  BY <1>1, GoesElsewhere, FarLocations DEF Begin
<1>2. CASE At("fields.next") /\ End("RCURLY", "LIST")
  BY <1>2, GoesElsewhere, CalledElsewhere DEF End, Return
<1>3. CASE /\ At("fields.next") /\ token # "RCURLY"
          /\ Try("LINE_END", <<"fields.next">>, <<"fields.push", "param">>)
  BY <1>3, GoesElsewhere, FarLocations DEF Try
<1>4. CASE Push("fields.push", "PARAM", <<"fields.next">>)
  BY <1>4, GoesElsewhere, FarLocations DEF Push
<1> QED BY <1>1, <1>2, <1>3, <1>4 DEF ebi_parse_fields

LEMMA StructElsewhere ==
    ASSUME IInv, ebi_parse_struct
    PROVE  Elsewhere
<1>1. CASE At("struct") /\ Expect("IDENT", <<"struct.body", "generics">>)
  BY <1>1, GoesElsewhere, FarLocations DEF Expect
<1>2. CASE At("struct.body") /\ Try("LCURLY", <<"struct.end", "fields">>, <<"struct.end">>)
  BY <1>2, GoesElsewhere, FarLocations DEF Try
<1>3. CASE At("struct.end") /\ Built("STRUCT", <<>>)
  BY <1>3, GoesElsewhere, CalledElsewhere DEF Built
<1> QED BY <1>1, <1>2, <1>3 DEF ebi_parse_struct

LEMMA ParamsElsewhere ==
    ASSUME IInv, ebi_parse_params
    PROVE  Elsewhere
<1>1. CASE At("params") /\ Expect("LPAREN", <<"params.list">>)
  BY <1>1, GoesElsewhere, FarLocations DEF Expect
<1>2. CASE Begin("params.list", "params.first")
  BY <1>2, GoesElsewhere, FarLocations DEF Begin
<1>3. CASE At("params.first") /\ End("RPAREN", "LIST")
  BY <1>3, GoesElsewhere, CalledElsewhere DEF End, Return
<1>4. CASE At("params.first") /\ token # "RPAREN" /\ Built("uninit", <<"params.push", "param">>)
  BY <1>4, GoesElsewhere, FarLocations DEF Built
<1>5. CASE Push("params.push", "PARAM", <<"params.next">>)
  BY <1>5, GoesElsewhere, FarLocations DEF Push
<1>6. CASE At("params.next") /\ token = "COMMA" /\ Expect("COMMA", <<"params.push", "param">>)
  BY <1>6, GoesElsewhere, FarLocations DEF Expect
<1>7. CASE At("params.next") /\ End("RPAREN", "LIST")
  BY <1>7, GoesElsewhere, CalledElsewhere DEF End, Return
<1>8. CASE At("params.next") /\ token \notin {"COMMA", "RPAREN"} /\ Perror
  BY <1>8, GoesElsewhere
<1> QED BY <1>1, <1>2, <1>3, <1>4, <1>5, <1>6, <1>7, <1>8 DEF ebi_parse_params

LEMMA DefElsewhere ==
    ASSUME IInv, ebi_parse_def
    PROVE  Elsewhere
<1>1. CASE At("def") /\ Expect("IDENT", <<"def.return", "params", "generics">>)
  BY <1>1, GoesElsewhere, FarLocations DEF Expect
<1>2. CASE At("def.return") /\ Try("COLON", <<"def.body", "type">>, <<"def.body">>)
  BY <1>2, GoesElsewhere, FarLocations DEF Try
<1>3. CASE At("def.body") /\ Try("LCURLY", <<"def.end", "block">>, <<"def.end">>)
  BY <1>3, GoesElsewhere, FarLocations DEF Try
<1>4. CASE At("def.end") /\ Built("DEF", <<>>)
  BY <1>4, GoesElsewhere, CalledElsewhere DEF Built
<1> QED BY <1>1, <1>2, <1>3, <1>4 DEF ebi_parse_def

LEMMA AtomElsewhere ==
    ASSUME IInv, ebi_parse_atom
    PROVE  Elsewhere
<1>1. CASE At("atom") /\ token = "LPAREN" /\ Expect("LPAREN", <<"atom.close", "expression">>)
  BY <1>1, GoesElsewhere, FarLocations DEF Expect
<1>2. CASE At("atom.close") /\ Expect("RPAREN", <<>>)
  BY <1>2, GoesElsewhere, CalledElsewhere DEF Expect
<1>3. CASE At("atom") /\ Accept("IDENT") /\ result' = "NAME" /\ Return /\ UNCHANGED astVars
  BY <1>3, GoesElsewhere, CalledElsewhere DEF Return
<1>4. CASE At("atom") /\ token \notin {"LPAREN", "IDENT"} /\ Built(result, <<>>)
  BY <1>4, GoesElsewhere, CalledElsewhere DEF Built
<1> QED BY <1>1, <1>2, <1>3, <1>4 DEF ebi_parse_atom

LEMMA ArgsElsewhere ==
    ASSUME IInv, ebi_parse_args
    PROVE  Elsewhere
<1>1. CASE Begin("args", "args.next")
  BY <1>1, GoesElsewhere, FarLocations DEF Begin
<1>2. CASE At("args.next") /\ End("RPAREN", "LIST")
  BY <1>2, GoesElsewhere, CalledElsewhere DEF End, Return
<1>3. CASE /\ At("args.next") /\ token # "RPAREN" /\ NotTooStuck
          /\ Built("uninit", <<"args.push", "expression">>)
  BY <1>3, GoesElsewhere, FarLocations DEF Built
<1>4. CASE Push("args.push", result, <<"args.next">>)
  BY <1>4, GoesElsewhere, FarLocations DEF Push
<1> QED BY <1>1, <1>2, <1>3, <1>4 DEF ebi_parse_args

LEMMA SuffixElsewhere ==
    ASSUME IInv, ebi_parse_suffix
    PROVE  Elsewhere
<1>1. CASE At("suffix") /\ Built(result, <<"suffix.next", "atom">>)
  BY <1>1, GoesElsewhere, FarLocations DEF Built
<1>2. CASE At("suffix.next") /\ token = "DOT" /\ Expect("DOT", <<"suffix.field">>)
  BY <1>2, GoesElsewhere, FarLocations DEF Expect
<1>3. CASE /\ At("suffix.field") /\ Accept("IDENT")
          /\ result' = "FIELD" /\ Become(<<"suffix.next">>) /\ UNCHANGED astVars
  BY <1>3, GoesElsewhere, FarLocations
<1>4. CASE At("suffix.field") /\ token # "IDENT" /\ Perror
  BY <1>4, GoesElsewhere
<1>5. CASE At("suffix.next") /\ token # "DOT" /\ Try("LPAREN", <<"suffix.call", "args">>, <<>>)
  BY <1>5, GoesElsewhere, FarLocations, CalledElsewhere DEF Try
<1>6. CASE At("suffix.call") /\ Built("CALL", <<"suffix.next">>)
  BY <1>6, GoesElsewhere, FarLocations DEF Built
<1> QED BY <1>1, <1>2, <1>3, <1>4, <1>5, <1>6 DEF ebi_parse_suffix

LEMMA TermElsewhere ==
    ASSUME IInv, ebi_parse_term
    PROVE  Elsewhere
<1>1. CASE At("term") /\ Built(result, <<"term.next", "suffix">>)
  BY <1>1, GoesElsewhere, FarLocations DEF Built
<1>2. CASE At("term.next") /\ Try("MUL", <<"term.binop", "suffix">>, <<>>)
  BY <1>2, GoesElsewhere, FarLocations, CalledElsewhere DEF Try
<1>3. CASE At("term.binop") /\ Built("BINOP", <<"term.next">>)
  BY <1>3, GoesElsewhere, FarLocations DEF Built
<1> QED BY <1>1, <1>2, <1>3 DEF ebi_parse_term

LEMMA ExpressionElsewhere ==
    ASSUME IInv, ebi_parse_expression
    PROVE  Elsewhere
<1>1. CASE At("expression") /\ Built(result, <<"expression.next", "term">>)
  BY <1>1, GoesElsewhere, FarLocations DEF Built
<1>2. CASE At("expression.next") /\ Try("ADD", <<"expression.binop", "term">>, <<>>)
  BY <1>2, GoesElsewhere, FarLocations, CalledElsewhere DEF Try
<1>3. CASE At("expression.binop") /\ Built("BINOP", <<"expression.next">>)
  BY <1>3, GoesElsewhere, FarLocations DEF Built
<1> QED BY <1>1, <1>2, <1>3 DEF ebi_parse_expression

LEMMA StatementElsewhere ==
    ASSUME IInv, ebi_parse_statement
    PROVE  \/ Elsewhere
           \/ At("statement") /\ token \notin {"LCURLY", "RETURN"} /\ Built(result, <<>>)
<1>1. CASE At("statement") /\ Expect("LCURLY", <<"block">>)
  BY <1>1, GoesElsewhere, FarLocations DEF Expect
<1>2. CASE At("statement") /\ token # "LCURLY" /\ Try("RETURN", <<"return">>, <<>>)
  BY <1>2, GoesElsewhere, FarLocations DEF Try, Built
<1>3. CASE At("return") /\ Try("LINE_END", <<"return.end">>, <<"return.end", "expression">>)
  BY <1>3, GoesElsewhere, FarLocations DEF Try
<1>4. CASE At("return.end") /\ Built("RETURN", <<>>)
  BY <1>4, GoesElsewhere, CalledElsewhere DEF Built
<1> QED BY <1>1, <1>2, <1>3, <1>4 DEF ebi_parse_statement

LEMMA BlockElsewhere ==
    ASSUME IInv, ebi_parse_block
    PROVE  \/ Elsewhere
           \/ /\ At("block.next") /\ token \notin {BlockEnd, "LINE_END", "STRUCT", "DEF"}
              /\ Built("uninit", <<"block.push", "statement">>)
<1>1. CASE Begin("block", "block.next")
  BY <1>1, GoesElsewhere, FarLocations DEF Begin
<1>2. CASE At("block.next") /\ End(BlockEnd, "BLOCK")
  BY <1>2, GoesElsewhere, CalledElsewhere DEF End, Return
<1>3. CASE At("block.next") /\ Expect("LINE_END", <<"block.next">>)
  BY <1>3, GoesElsewhere, FarLocations DEF Expect
<1>4. CASE At("block.next") /\ Expect("STRUCT", <<"block.push", "struct">>)
  BY <1>4, GoesElsewhere, FarLocations DEF Expect
<1>5. CASE At("block.next") /\ Expect("DEF", <<"block.push", "def">>)
  BY <1>5, GoesElsewhere, FarLocations DEF Expect
<1>6. CASE Push("block.push", result, <<"block.next">>)
  BY <1>6, GoesElsewhere, FarLocations DEF Push
<1> QED BY <1>1, <1>2, <1>3, <1>4, <1>5, <1>6 DEF ebi_parse_block, BlockItem

LEMMA NextElsewhere ==
    ASSUME IInv, Next
    PROVE  \/ Elsewhere
           \/ At("statement") /\ token \notin {"LCURLY", "RETURN"} /\ Built(result, <<>>)
           \/ /\ At("block.next") /\ token \notin {BlockEnd, "LINE_END", "STRUCT", "DEF"}
              /\ Built("uninit", <<"block.push", "statement">>)
  BY TypeElsewhere, ParamElsewhere, GenericsElsewhere, FieldsElsewhere, StructElsewhere,
     ParamsElsewhere, DefElsewhere, AtomElsewhere, ArgsElsewhere, SuffixElsewhere, TermElsewhere,
     ExpressionElsewhere, StatementElsewhere, BlockElsewhere DEF Next

-----------------------------------------------------------------------------
(***************************************************************************)
(* No list of a block has an unwritten node, until the parser meets a      *)
(* token that neither begins a statement nor ends the block; then the loop *)
(* of that block takes nothing from the source any more.                   *)
(***************************************************************************)
EndOf(n) == IF n = 1 THEN "FILE_END" ELSE "RCURLY"
DeadEnd(n) == token \notin {EndOf(n), "LINE_END", "STRUCT", "DEF", "LCURLY", "RETURN"}

Frozen ==
    \/ At("block.next") /\ DeadEnd(Len(calls))
    \/ PushesUninit /\ DeadEnd(Len(calls))
    \/ At("statement") /\ DeadEnd(Len(calls) - 1)

Clean == Activations(calls, brackets, OpenLists, {"uninit"})

BlocksInv ==
    /\ Clean \/ Frozen
    /\ At("statement") => token \notin {EndOf(Len(calls) - 1), "LINE_END", "STRUCT", "DEF"}
    /\ PushesUninit => Frozen

\* What runs at the places of a block and a statement.
LEMMA OthersRun ==
    ASSUME ebi_parse_type \/ ebi_parse_param \/ ebi_parse_generics \/ ebi_parse_fields
           \/ ebi_parse_struct \/ ebi_parse_params \/ ebi_parse_def \/ ebi_parse_atom
           \/ ebi_parse_args \/ ebi_parse_suffix \/ ebi_parse_term \/ ebi_parse_expression
    PROVE  ~At("block.next") /\ ~At("block.push") /\ ~At("statement")
<1>1. CASE ebi_parse_type
  BY <1>1 DEF ebi_parse_type, At
<1>2. CASE ebi_parse_param
  BY <1>2 DEF ebi_parse_param, At, Push
<1>3. CASE ebi_parse_generics
  BY <1>3 DEF ebi_parse_generics, At, Begin
<1>4. CASE ebi_parse_fields
  BY <1>4 DEF ebi_parse_fields, At, Begin, Push
<1>5. CASE ebi_parse_struct
  BY <1>5 DEF ebi_parse_struct, At
<1>6. CASE ebi_parse_params
  BY <1>6 DEF ebi_parse_params, At, Begin, Push
<1>7. CASE ebi_parse_def
  BY <1>7 DEF ebi_parse_def, At
<1>8. CASE ebi_parse_atom
  BY <1>8 DEF ebi_parse_atom, At
<1>9. CASE ebi_parse_args
  BY <1>9 DEF ebi_parse_args, At, Begin, Push
<1>10. CASE ebi_parse_suffix
  BY <1>10 DEF ebi_parse_suffix, At
<1>11. CASE ebi_parse_term
  BY <1>11 DEF ebi_parse_term, At
<1>12. CASE ebi_parse_expression
  BY <1>12 DEF ebi_parse_expression, At
<1> QED BY <1>1, <1>2, <1>3, <1>4, <1>5, <1>6, <1>7, <1>8, <1>9, <1>10, <1>11, <1>12

LEMMA BlockRuns ==
    ASSUME Next
    PROVE  /\ At("block.next") => End(BlockEnd, "BLOCK") \/ (token # BlockEnd /\ BlockItem)
           /\ At("block.push") => Push("block.push", result, <<"block.next">>)
           /\ At("statement") => token = "LCURLY" \/ Try("RETURN", <<"return">>, <<>>)
<1>1. CASE ebi_parse_block
  <2>1. CASE Begin("block", "block.next")
    BY <2>1 DEF At, Begin
  <2>2. CASE At("block.next") /\ (End(BlockEnd, "BLOCK") \/ (token # BlockEnd /\ BlockItem))
    BY <2>2 DEF At
  <2>3. CASE Push("block.push", result, <<"block.next">>)
    <3>1. At("block.push")
      BY <2>3 DEF Push
    <3> QED BY <2>3, <3>1 DEF At
  <2> QED BY <1>1, <2>1, <2>2, <2>3 DEF ebi_parse_block
<1>2. CASE ebi_parse_statement
  BY <1>2 DEF ebi_parse_statement, At
<1>3. CASE ~ebi_parse_block /\ ~ebi_parse_statement
  BY <1>3, OthersRun DEF Next
<1> QED BY <1>1, <1>2, <1>3

\* From a statement one returns to the loop of its block.
LEMMA StatementReturns ==
    ASSUME IInv, At("statement"), Become(<<>>), UNCHANGED inputVars, result' = result
    PROVE  /\ At("block.push")' /\ result' = "uninit" /\ token' = token
           /\ Len(calls') = Len(calls) - 1
<1>1. calls \in Seq(Locations) /\ calls # <<>> /\ Front(calls) \in Seq(Locations)
      /\ calls = Append(Front(calls), "statement")
      /\ Activations(Append(Front(calls), "statement"), brackets, OpenLists, {})
      /\ result \in Results("statement") /\ "statement" \in Locations
  BY Running
<1>2. calls' = Front(calls)
  BY Returns
<1> DEFINE f == Front(calls)
<1>3. IF f = <<>> THEN "statement" \in Root ELSE CalledFrom(Last(f), "statement")
  BY <1>1, Drop
<1>4. f # <<>> /\ Last(f) = "block.push"
  BY <1>3 DEF Root, CalledFrom
<1>5. Len(f) = Len(calls) - 1
  BY <1>1, FrontIs
<1>6. At("block.push")'
  BY <1>2, <1>4 DEF At
<1> QED BY <1>1, <1>2, <1>5, <1>6 DEF Results, inputVars

\* A round of the loop of a block begins with a statement.
LEMMA StatementBegins ==
    ASSUME IInv, At("block.next"), Built("uninit", <<"block.push", "statement">>)
    PROVE  At("statement")' /\ token' = token /\ Len(calls') - 1 = Len(calls)
<1>1. calls \in Seq(Locations) /\ calls # <<>> /\ Front(calls) \in Seq(Locations)
      /\ Len(calls) \in Nat
  BY Running, LenProperties
<1>2. calls' = Append(Append(Front(calls), "block.push"), "statement") /\ Last(calls') = "statement"
  BY GoesOnAs, FarLocations DEF Built
<1>3. Append(Front(calls), "block.push") \in Seq(Locations)
      /\ Len(Append(Front(calls), "block.push")) = Len(Front(calls)) + 1
  BY <1>1, AppendProperties, FarLocations
<1>4. calls' \in Seq(Locations) /\ Len(calls') = (Len(Front(calls)) + 1) + 1
  BY <1>2, <1>3, AppendProperties, FarLocations
<1>5. Len(Front(calls)) = Len(calls) - 1
  BY <1>1, FrontIs
<1>6. calls' # <<>>
  BY <1>1, <1>4, <1>5, EmptySeq
<1>7. At("statement")'
  BY <1>2, <1>6 DEF At
<1> QED BY <1>1, <1>4, <1>5, <1>7 DEF Built, inputVars

LEMMA FrozenStays ==
    ASSUME IInv, Next, Frozen
    PROVE  Frozen'
<1>1. calls \in Seq(Locations) /\ calls # <<>> /\ Len(calls) \in Nat
  BY LenProperties DEF IInv, Activations, Frozen, PushesUninit, At
<1>2. CASE At("block.next") /\ DeadEnd(Len(calls))
  <2>1. token \notin {BlockEnd, "LINE_END", "STRUCT", "DEF", "LCURLY", "RETURN"}
    BY <1>2 DEF DeadEnd, EndOf, BlockEnd
  <2>2. Built("uninit", <<"block.push", "statement">>)
    BY <1>2, <2>1, BlockRuns DEF End, Accept, BlockItem, Expect
  <2>3. At("statement")' /\ token' = token /\ Len(calls') - 1 = Len(calls)
    BY <1>2, <2>2, StatementBegins
  <2> QED BY <1>2, <2>3 DEF Frozen, DeadEnd
<1>3. CASE PushesUninit /\ DeadEnd(Len(calls))
  <2>1. At("block.push") /\ Become(<<"block.next">>) /\ UNCHANGED inputVars
    BY <1>3, BlockRuns DEF PushesUninit, Push
  <2>2. calls' = Append(Front(calls), "block.next") /\ Last(calls') = "block.next"
    BY <2>1, GoesOnAs, FarLocations
  <2>3. Front(calls) \in Seq(Locations) /\ Len(Front(calls)) = Len(calls) - 1
    BY <1>1, FrontIs
  <2>4. calls' \in Seq(Locations) /\ Len(calls') = Len(Front(calls)) + 1
    BY <2>2, <2>3, AppendProperties, FarLocations
  <2>5. Len(calls') = Len(calls) /\ calls' # <<>>
    BY <1>1, <2>3, <2>4, EmptySeq
  <2>6. At("block.next")' /\ token' = token
    BY <2>1, <2>2, <2>5 DEF At, inputVars
  <2> QED BY <1>3, <2>5, <2>6 DEF Frozen, DeadEnd
<1>4. CASE At("statement") /\ DeadEnd(Len(calls) - 1)
  <2>1. token # "LCURLY" /\ token # "RETURN"
    BY <1>4 DEF DeadEnd
  <2>2. Become(<<>>) /\ UNCHANGED inputVars /\ result' = result
    BY <1>4, <2>1, BlockRuns DEF Try, Accept
  <2>3. At("block.push")' /\ result' = "uninit" /\ token' = token /\ Len(calls') = Len(calls) - 1
    BY <1>4, <2>2, StatementReturns
  <2> QED BY <1>4, <2>3 DEF Frozen, PushesUninit, DeadEnd
<1> QED BY <1>2, <1>3, <1>4 DEF Frozen

LEMMA BlocksInvStays ==
    ASSUME IInv, BlocksInv, Next
    PROVE  BlocksInv'
<1>1. CASE Frozen
  <2>1. Frozen'
    BY <1>1, FrozenStays
  <2>2. At("statement")' => (token \notin {EndOf(Len(calls) - 1), "LINE_END", "STRUCT", "DEF"})'
    BY <2>1 DEF Frozen, DeadEnd, PushesUninit, At
  <2> QED BY <2>1, <2>2 DEF BlocksInv
<1>2. CASE ~Frozen
  <2>1. Clean /\ ~PushesUninit
    BY <1>2 DEF BlocksInv
  <2>2. Clean'
    <3>1. Activations(calls', brackets', OpenLists', {"uninit"})
      BY <2>1, NextMoves DEF Moves, KeptFor, Clean
    <3> QED BY <3>1 DEF Clean
  <2>3. CASE Elsewhere
    <3>1. ~At("statement")' /\ ~PushesUninit'
      BY <2>3 DEF Elsewhere, At, PushesUninit
    <3> QED BY <2>2, <3>1 DEF BlocksInv
  <2>4. CASE At("statement") /\ token \notin {"LCURLY", "RETURN"} /\ Built(result, <<>>)
    <3>1. At("block.push")' /\ result' = "uninit" /\ token' = token /\ Len(calls') = Len(calls) - 1
      BY <2>4, StatementReturns DEF Built
    <3>2. DeadEnd(Len(calls) - 1)
      BY <2>4 DEF BlocksInv, DeadEnd
    <3> QED BY <1>2, <2>4, <3>2 DEF Frozen
  <2>5. CASE At("block.next") /\ token \notin {BlockEnd, "LINE_END", "STRUCT", "DEF"}
             /\ Built("uninit", <<"block.push", "statement">>)
    <3>1. At("statement")' /\ token' = token /\ Len(calls') - 1 = Len(calls)
      BY <2>5, StatementBegins
    <3>2. (token \notin {EndOf(Len(calls) - 1), "LINE_END", "STRUCT", "DEF"})'
      BY <2>5, <3>1 DEF EndOf, BlockEnd
    <3>3. ~PushesUninit'
      BY <3>1 DEF PushesUninit, At
    <3> QED BY <2>2, <3>2, <3>3 DEF BlocksInv
  <2> QED BY <2>3, <2>4, <2>5, NextElsewhere
<1> QED BY <1>1, <1>2

LEMMA BlocksInvBegins == Init => BlocksInv
<1> SUFFICES ASSUME Init PROVE BlocksInv
  OBVIOUS
<1>1. Clean
  BY InitInv DEF Clean
<1>2. Last(calls) = "block"
  BY DEF Init, Last
<1>3. ~At("statement") /\ ~PushesUninit
  BY <1>2 DEF At, PushesUninit
<1> QED BY <1>1, <1>3 DEF BlocksInv

THEOREM BlocksInvariance == Spec => []BlocksInv
<1>1. IInv /\ BlocksInv /\ [Next]_vars => BlocksInv'
  <2> SUFFICES ASSUME IInv, BlocksInv, [Next]_vars PROVE BlocksInv'
    OBVIOUS
  <2>1. CASE UNCHANGED vars
    <3>1. Clean' = Clean /\ Frozen' = Frozen /\ PushesUninit' = PushesUninit
          /\ At("statement")' = At("statement") /\ calls' = calls /\ token' = token
      BY <2>1 DEF vars, inputVars, astVars, Clean, Frozen, PushesUninit, At, DeadEnd, OpenLists
    <3> QED BY <3>1 DEF BlocksInv
  <2> QED BY <2>1, BlocksInvStays
<1> QED BY <1>1, BlocksInvBegins, Invariance, PTL DEF Spec

\* Only the end of a list sets the nodes, and only that of a block is one of
\* its type.
LEMMA OnlyEndsSetNodes ==
    ASSUME Next, nodes' # nodes, result' = "BLOCK"
    PROVE  At("block.next") /\ End(BlockEnd, "BLOCK")
<1> DEFINE Goal == At("block.next") /\ End(BlockEnd, "BLOCK")
<1>1. /\ UNCHANGED astVars => FALSE
      /\ \A ast : ebi_push_ast_list(ast) => FALSE
      /\ ebi_begin_ast_list => FALSE
  BY DEF astVars, ebi_push_ast_list, ebi_begin_ast_list
<1>2. /\ ~Perror /\ \A tt, ls : ~Expect(tt, ls)
      /\ \A tt, ls, other : ~Try(tt, ls, other)
      /\ \A ast, ls : ~Built(ast, ls)
      /\ \A l, next : ~Begin(l, next)
      /\ \A l, ast, ls : ~Push(l, ast, ls)
      /\ \A tt, ast : End(tt, ast) => ast = "BLOCK"
  BY <1>1 DEF Perror, Expect, Try, Built, Begin, Push, End
<1>3. ~ebi_parse_type /\ ~ebi_parse_param /\ ~ebi_parse_struct /\ ~ebi_parse_def
  BY <1>2 DEF ebi_parse_type, ebi_parse_param, ebi_parse_struct, ebi_parse_def
<1>4. ~ebi_parse_generics /\ ~ebi_parse_fields /\ ~ebi_parse_params /\ ~ebi_parse_args
  BY <1>1, <1>2 DEF ebi_parse_generics, ebi_parse_fields, ebi_parse_params, ebi_parse_args
<1>5. ~ebi_parse_atom /\ ~ebi_parse_suffix
  BY <1>1, <1>2 DEF ebi_parse_atom, ebi_parse_suffix
<1>6. ~ebi_parse_term /\ ~ebi_parse_expression /\ ~ebi_parse_statement
  BY <1>2 DEF ebi_parse_term, ebi_parse_expression, ebi_parse_statement
<1>7. ebi_parse_block => At("block.next") /\ End(BlockEnd, "BLOCK")
  BY <1>2 DEF ebi_parse_block, BlockItem
<1> QED BY <1>3, <1>4, <1>5, <1>6, <1>7 DEF Next

(***************************************************************************)
(* A block that has been closed has no node in it that was never written   *)
(* to, for a source of any length: a block that got one is never closed.   *)
(***************************************************************************)
THEOREM BlocksAreInitialised == Spec => FinishedBlocksAreInitialised
<1>1. ASSUME IInv, BlocksInv, Next, nodes' # nodes, result' = "BLOCK"
      PROVE  "uninit" \notin ToSet(nodes')
  <2>1. At("block.next") /\ End(BlockEnd, "BLOCK")
    BY <1>1, OnlyEndsSetNodes
  <2>2. ~Frozen
    <3>1. token = BlockEnd
      BY <2>1 DEF End, Accept
    <3>2. ~DeadEnd(Len(calls))
      BY <3>1 DEF DeadEnd, BlockEnd, EndOf
    <3> QED BY <2>1, <3>2 DEF Frozen, PushesUninit, At
  <2>3. Activations(calls, brackets, OpenLists, {"uninit"})
    BY <1>1, <2>2 DEF BlocksInv, Clean
  <2> DEFINE f == Front(calls)
             l == "block.next"
  <2>4. f \in Seq(Locations) /\ l \in Locations /\ calls = Append(f, l)
    BY <1>1, <2>1, Running
  <2>5. l \in Owning
    BY Owners
  <2> HIDE DEF f
  <2>6. OpenLists # <<>> /\ ToSet(Last(OpenLists)) \subseteq HeldKinds(l, {"uninit"})
    BY <2>3, <2>4, <2>5, Drop
  <2>7. nodes' = Last(OpenLists)
    BY <1>1, <2>1, <2>6, ArrayShrinks DEF End
  <2>8. "uninit" \notin HeldKinds(l, {"uninit"})
    BY DEF HeldKinds, Blocks
  <2> QED BY <2>6, <2>7, <2>8
<1>2. IInv /\ BlocksInv /\ [Next]_vars =>
        [nodes' # nodes /\ result' = "BLOCK" => "uninit" \notin ToSet(nodes')]_vars
  BY <1>1
<1> QED BY <1>2, Invariance, BlocksInvariance, PTL DEF Spec, FinishedBlocksAreInitialised
=============================================================================
