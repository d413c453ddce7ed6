---------------------------- MODULE ScannerProofs ----------------------------
(***************************************************************************)
(* Proofs about the scanner, for sources of any length.                    *)
(*                                                                         *)
(*  - Whatever names come, the cache has no two entries of one name, and   *)
(*    each token gets the symbol of its own text.                          *)
(*  - The scanner advances, unless it has found an error.                  *)
(*  - With an unsigned char it refuses as bad UTF-8 what is not            *)
(*    well-formed, and nothing else: the automaton, with its table, is     *)
(*    compared with the definition of each length of UTF-8, and the loop   *)
(*    over it with the longest text that is all characters of names.       *)
(*  - With a signed char it refuses nothing, and what it does is undefined *)
(*    exactly where a byte that is not ASCII belongs to a name or follows. *)
(*  - It takes the longest token, and what it takes of operators behind    *)
(*    blanks and behind names is what the reference says.                  *)
(***************************************************************************)
EXTENDS Scanner, FiniteSetTheorems, SequenceTheorems, WellFoundedInduction, TLAPS

\* All that is asked of the hash; the code's is an unsigned number.
HashIsNat == \A text : Hash(text) \in Nat

\* The invariant: the parts that InItsWindow and OneEntryPerName need.
CacheInv ==
    /\ ident_lru \in Nat
    /\ ident_cache = [ix \in Slots |-> ident_cache[ix]]
    /\ \A ix \in Slots : ident_cache[ix].lru \in 0..ident_lru
    /\ InItsWindow
    /\ OneEntryPerName

-----------------------------------------------------------------------------
\* A set of naturals has a least member, and Min is it.
LEMMA LeastNatural ==
    ASSUME NEW S \in SUBSET Nat, S # {}
    PROVE  Min(S) \in S /\ \A x \in S : Min(S) <= x
<1> DEFINE Less == OpToRel(<, Nat)
<1>1. \E x \in S : \A y \in S : ~(<<y, x>> \in Less)
  <2>1. IsWellFoundedOn(Less, Nat)
    BY NatLessThanWellFounded
  <2> HIDE DEF Less
  <2> QED BY <2>1, WFMin
<1>2. \A x, y \in Nat : <<y, x>> \in Less <=> y < x
  BY DEF OpToRel
<1> HIDE DEF Less
<1>3. PICK x \in S : \A y \in S : ~(<<y, x>> \in Less)
  BY <1>1
<1>4. ASSUME NEW y \in S PROVE x <= y
  <2>1. x \in Nat /\ y \in Nat
    OBVIOUS
  <2>2. ~(y < x)
    BY <1>2, <1>3, <2>1, Zenon
  <2> QED BY <2>1, <2>2
<1> QED BY <1>3, <1>4 DEF Min

LEMMA SlotIsSlot ==
    ASSUME HashIsNat, NEW text, NEW scan \in Window
    PROVE  Slot(text, scan) \in Slots
<1>1. Hash(text) \in Nat /\ scan \in Nat /\ CacheSize \in Nat \ {0}
  BY CacheAssumption DEF HashIsNat, Window
<1>2. Hash(text) + scan \in Nat
  BY <1>1
<1>3. \A n \in Nat : n % CacheSize \in 0..CacheSize - 1
  BY <1>1
<1> QED BY <1>2, <1>3, Zenon DEF Slot, Slots

LEMMA BestInWindow ==
    ASSUME HashIsNat, CacheInv, NEW text
    PROVE  Best(text) \in Window
<1> DEFINE deltas == {Delta(text, scan) : scan \in Window}
<1>1. \A scan \in Window : Delta(text, scan) \in Nat
  <2> TAKE scan \in Window
  <2>1. Entry(text, scan).lru \in 0..ident_lru /\ ident_lru \in Nat
    BY SlotIsSlot DEF CacheInv, Entry
  <2> QED BY <2>1 DEF Delta
<1>2. deltas \in SUBSET Nat
  BY <1>1
<1>3. 0 \in Window
  BY CacheAssumption DEF Window
<1>4. deltas # {}
  BY <1>3
<1>5. Min(deltas) \in deltas /\ \A x \in deltas : Min(deltas) <= x
  <2> HIDE DEF deltas
  <2> QED BY <1>2, <1>4, LeastNatural
<1>6. \E scan \in Window : \A other \in Window : Delta(text, scan) <= Delta(text, other)
  <2>1. PICK scan \in Window : Delta(text, scan) = Min(deltas)
    BY <1>5
  <2> QED BY <1>5, <2>1
<1> QED BY <1>6 DEF Best

\* The loop ends at the first slot where it can.
LEMMA ChosenIsFirst ==
    ASSUME HashIsNat, CacheInv, NEW text
    PROVE  /\ Chosen(text) \in Window
           /\ Stops(text) # {} => Chosen(text) \in Stops(text)
           /\ \A before \in 0..Chosen(text) - 1 : before \notin Stops(text)
<1>1. CASE Stops(text) = {}
  BY <1>1, BestInWindow DEF Chosen
<1>2. CASE Stops(text) # {}
  <2>1. Stops(text) \in SUBSET Nat /\ Stops(text) \subseteq Window
    BY CacheAssumption DEF Stops, Window
  <2>2. Min(Stops(text)) \in Stops(text) /\ \A x \in Stops(text) : Min(Stops(text)) <= x
    BY <1>2, <2>1, LeastNatural
  <2>3. Chosen(text) = Min(Stops(text))
    BY <1>2 DEF Chosen
  <2>4. \A before \in 0..Chosen(text) - 1 : before \notin Stops(text)
    BY <2>1, <2>2, <2>3
  <2> QED BY <2>1, <2>2, <2>3, <2>4
<1> QED BY <1>1, <1>2

\* Everything in the window before it is used.
LEMMA PassedAreUsed ==
    ASSUME HashIsNat, CacheInv, NEW text, NEW before \in 0..Chosen(text) - 1
    PROVE  before \in Window /\ Entry(text, before).used
<1>1. Chosen(text) \in Window /\ before \notin Stops(text)
  BY ChosenIsFirst
<1>2. before \in Window
  BY <1>1, CacheAssumption DEF Window
<1> QED BY <1>1, <1>2 DEF Stops

\* A hit is an entry of the text, so the symbol is the text's either way.
LEMMA SymbolIsText ==
    ASSUME HashIsNat, CacheInv, NEW text
    PROVE  Symbol(text) = text
<1>1. CASE Hit(text)
  <2>1. Chosen(text) \in Stops(text) /\ Entry(text, Chosen(text)).used
    BY <1>1, ChosenIsFirst DEF Hit
  <2> QED BY <1>1, <2>1 DEF Stops, Same, Symbol
<1>2. CASE ~Hit(text)
  BY <1>2 DEF Symbol, ebi_intern
<1> QED BY <1>1, <1>2

\* If the text has an entry, the loop ends there: on the way are no unused ones.
LEMMA OnlyThere ==
    ASSUME HashIsNat, CacheInv, NEW text, NEW ix \in Slots,
           ident_cache[ix].used, ident_cache[ix].symbol = text
    PROVE  ix = Slot(text, Chosen(text))
<1>1. PICK scan \in Window :
        /\ ident_cache[ix].hash = Hash(text)
        /\ ix = Slot(text, scan)
        /\ \A before \in 0..scan - 1 : Entry(text, before).used
  BY DEF CacheInv, InItsWindow
<1>2. scan \in Stops(text)
  BY <1>1 DEF Stops, Same, Entry
<1>3. Chosen(text) \in Stops(text) /\ Chosen(text) \in Window
  BY <1>2, ChosenIsFirst
<1>4. Chosen(text) \in Nat /\ scan \in Nat
  BY <1>3, CacheAssumption DEF Window
<1>5. CASE Chosen(text) > scan
  BY <1>2, <1>4, <1>5, ChosenIsFirst
<1>6. CASE Chosen(text) < scan
  <2>1. Entry(text, Chosen(text)).used
    BY <1>1, <1>4, <1>6
  <2>2. Entry(text, Chosen(text)).symbol = text
    BY <1>3, <2>1 DEF Stops, Same
  <2>3. Slot(text, Chosen(text)) \in Slots
    BY <1>3, SlotIsSlot
  <2> QED BY <2>1, <2>2, <2>3 DEF Entry, CacheInv, OneEntryPerName
<1>7. CASE Chosen(text) = scan
  BY <1>1, <1>7
<1> QED BY <1>4, <1>5, <1>6, <1>7

-----------------------------------------------------------------------------
LEMMA InternStep ==
    ASSUME HashIsNat, CacheInv, NEW text, ebi_compiler_intern(text)
    PROVE  CacheInv'
<1> DEFINE chosen == Slot(text, Chosen(text))
           entry == [used |-> TRUE, hash |-> Hash(text), lru |-> ident_lru + 1, symbol |-> text]
<1>1. Chosen(text) \in Window /\ chosen \in Slots
  BY ChosenIsFirst, SlotIsSlot
<1>2. ident_lru' = ident_lru + 1 /\ ident_lru \in Nat
  BY DEF ebi_compiler_intern, CacheInv
<1>3. ident_cache' = [ident_cache EXCEPT ![chosen] = entry]
  BY SymbolIsText DEF ebi_compiler_intern
<1>4. ident_cache' = [ix \in Slots |-> IF ix = chosen THEN entry ELSE ident_cache[ix]]
  BY <1>3 DEF CacheInv
<1> HIDE DEF chosen
<1>5. ident_cache' = [ix \in Slots |-> ident_cache'[ix]]
  BY <1>4
<1>6. ident_cache'[chosen] = entry /\ \A ix \in Slots \ {chosen} : ident_cache'[ix] = ident_cache[ix]
  BY <1>1, <1>4
<1>7. ASSUME NEW ix \in Slots
      PROVE  ident_cache'[ix].lru \in 0..ident_lru'
  <2>1. ident_cache[ix].lru \in 0..ident_lru
    BY DEF CacheInv
  <2>2. CASE ix = chosen
    BY <1>2, <1>6, <2>2
  <2>3. CASE ix # chosen
    <3>1. ident_cache'[ix] = ident_cache[ix]
      BY <1>6, <2>3
    <3> QED BY <1>2, <2>1, <3>1
  <2> QED BY <2>2, <2>3
<1>8. \A ix \in Slots : ident_cache[ix].used => ident_cache'[ix].used
  BY <1>6
<1>9. InItsWindow'
  <2> SUFFICES ASSUME NEW ix \in Slots, ident_cache'[ix].used
               PROVE  /\ ident_cache'[ix].hash = Hash(ident_cache'[ix].symbol)
                      /\ \E scan \in Window :
                           /\ ix = Slot(ident_cache'[ix].symbol, scan)
                           /\ \A before \in 0..scan - 1 :
                                ident_cache'[Slot(ident_cache'[ix].symbol, before)].used
    BY DEF InItsWindow, Entry
  <2>1. CASE ix = chosen
    <3>1. \A before \in 0..Chosen(text) - 1 : ident_cache'[Slot(text, before)].used
      BY <1>8, PassedAreUsed, SlotIsSlot DEF Entry
    <3>2. ident_cache'[ix].symbol = text /\ ident_cache'[ix].hash = Hash(text)
      BY <1>6, <2>1
    <3>3. ix = Slot(text, Chosen(text))
      BY <2>1 DEF chosen
    <3> QED BY <1>1, <3>1, <3>2, <3>3
  <2>2. CASE ix # chosen
    <3>1. ident_cache'[ix] = ident_cache[ix]
      BY <1>6, <2>2
    <3>2. PICK symbol : symbol = ident_cache[ix].symbol
      OBVIOUS
    <3>3. ident_cache[ix].hash = Hash(symbol)
      BY <3>1, <3>2 DEF CacheInv, InItsWindow
    <3>4. PICK scan \in Window :
            /\ ix = Slot(symbol, scan)
            /\ \A before \in 0..scan - 1 : ident_cache[Slot(symbol, before)].used
      BY <3>1, <3>2 DEF CacheInv, InItsWindow, Entry
    <3>5. \A before \in 0..scan - 1 : Slot(symbol, before) \in Slots
      BY SlotIsSlot, CacheAssumption DEF Window
    <3>6. \A before \in 0..scan - 1 : ident_cache'[Slot(symbol, before)].used
      BY <1>8, <3>4, <3>5
    <3> QED BY <3>1, <3>2, <3>3, <3>4, <3>6
  <2> QED BY <2>1, <2>2
<1>10. OneEntryPerName'
  <2> SUFFICES ASSUME NEW i \in Slots, NEW j \in Slots,
                      ident_cache'[i].used, ident_cache'[j].used,
                      ident_cache'[i].symbol = ident_cache'[j].symbol
               PROVE  i = j
    BY DEF OneEntryPerName
  <2>1. \A ix \in Slots \ {chosen} : ident_cache'[ix].used => ident_cache'[ix].symbol # text
    BY <1>6, OnlyThere DEF chosen
  <2>2. CASE i # chosen /\ j # chosen
    BY <1>6, <2>2 DEF CacheInv, OneEntryPerName
  <2>3. CASE i = chosen \/ j = chosen
    BY <1>6, <2>1, <2>3
  <2> QED BY <2>2, <2>3
<1> QED BY <1>2, <1>5, <1>7, <1>9, <1>10 DEF CacheInv

LEMMA InitInv == HashIsNat /\ Init => CacheInv
<1> SUFFICES ASSUME Init PROVE CacheInv
  OBVIOUS
<1>1. ident_cache = [ix \in Slots |-> [used |-> FALSE, hash |-> 0, lru |-> 0, symbol |-> <<>>]]
  BY DEF Init, CacheInit
<1>2. \A ix \in Slots : ident_cache[ix].lru = 0 /\ ident_cache[ix].used = FALSE
  BY <1>1
<1>3. ident_lru = 0
  BY DEF Init, CacheInit
<1>4. ident_cache = [ix \in Slots |-> ident_cache[ix]]
  BY <1>1
<1>5. \A ix \in Slots : ident_cache[ix].lru \in 0..ident_lru
  BY <1>2, <1>3
<1>6. InItsWindow /\ OneEntryPerName
  BY <1>2 DEF InItsWindow, OneEntryPerName
<1> QED BY <1>2, <1>3, <1>4, <1>5, <1>6 DEF CacheInv

LEMMA NextInv == HashIsNat /\ CacheInv /\ [ebi_scan]_vars => CacheInv'
<1> SUFFICES ASSUME HashIsNat, CacheInv, [ebi_scan]_vars PROVE CacheInv'
  OBVIOUS
<1>1. CASE ebi_scan /\ Scanned.type = "IDENT"
  <2>1. ebi_compiler_intern(Text(Scanned))
    BY <1>1 DEF ebi_scan
  <2> QED BY <2>1, InternStep
<1>2. CASE UNCHANGED cacheVars
  BY <1>2 DEF cacheVars, CacheInv, InItsWindow, OneEntryPerName, Entry
<1> QED BY <1>1, <1>2 DEF ebi_scan, vars

(***************************************************************************)
(* For a cache of any size, any hash and any source: a name has one entry  *)
(* at most, so the cache never forgets one of two copies and keeps the     *)
(* other.                                                                  *)
(***************************************************************************)
THEOREM NamesHaveOneEntry == HashIsNat => (Spec => []OneEntryPerName)
<1> SUFFICES ASSUME HashIsNat PROVE Spec => []OneEntryPerName
  OBVIOUS
<1>1. Init => CacheInv
  BY InitInv
<1>2. CacheInv /\ [ebi_scan]_vars => CacheInv'
  BY NextInv
<1>3. CacheInv => OneEntryPerName
  BY DEF CacheInv
<1> QED BY <1>1, <1>2, <1>3, PTL DEF Spec

(***************************************************************************)
(* For any source: the symbol of a name is that of its text, although the  *)
(* entry it is taken from is found by a hash that others share.            *)
(***************************************************************************)
THEOREM SymbolsAreOfTheirTexts == HashIsNat => (Spec => []SymbolIsOfItsText)
<1> SUFFICES ASSUME HashIsNat PROVE Spec => []SymbolIsOfItsText
  OBVIOUS
<1> DEFINE Inv == CacheInv /\ SymbolIsOfItsText
<1>1. Init => Inv
  BY InitInv DEF Init, NullToken, SymbolIsOfItsText
<1>2. Inv /\ [ebi_scan]_vars => Inv'
  <2> SUFFICES ASSUME Inv, [ebi_scan]_vars PROVE Inv'
    OBVIOUS
  <2>1. CacheInv'
    BY NextInv
  <2>2. CASE ebi_scan
    <3>1. src' = src /\ prev_token' = token
      BY <2>2 DEF ebi_scan
    <3>2. token'.symbol = IF token'.type = "IDENT" THEN Text(token') ELSE Null
      <4> DEFINE tok == Scanned
      <4> HIDE DEF tok
      <4>1. token' = [from |-> tok.from, to |-> tok.to, type |-> tok.type,
                      symbol |-> IF tok.type = "IDENT" THEN Symbol(Text(tok)) ELSE Null]
        BY <2>2 DEF ebi_scan, tok
      <4>2. Text(token') = Text(tok)
        BY <4>1 DEF Text
      <4> QED BY <4>1, <4>2, SymbolIsText
    <3>3. \A tok : tok.symbol = (IF tok.type = "IDENT" THEN Text(tok) ELSE Null)
                   => tok.symbol = (IF tok.type = "IDENT" THEN SubSeq(src', tok.from, tok.to - 1) ELSE Null)
      BY <3>1 DEF Text
    <3> QED BY <2>1, <3>1, <3>2, <3>3 DEF SymbolIsOfItsText, Text
  <2>3. CASE UNCHANGED vars
    BY <2>1, <2>3 DEF vars, SymbolIsOfItsText, Text
  <2> QED BY <2>2, <2>3
<1> QED BY <1>1, <1>2, PTL DEF Spec

-----------------------------------------------------------------------------
(***************************************************************************)
(* The UTF-8 automaton, byte by byte.                                      *)
(***************************************************************************)
Bytes == 0..255
Follows == 128..191

\* A byte has one of these types.
LEMMA TypeIsType ==
    ASSUME NEW x \in Bytes
    PROVE  ByteType(x) \in 0..11
BY DEF ByteType

LEMMA DecodesOn ==
    ASSUME NEW u \in Decoders, NEW x \in Bytes
    PROVE  ebi_utf8_decode(u, x) \in Decoders
<1> DEFINE type == ByteType(x)
           v == ebi_utf8_decode(u, x)
<1>1. type \in 0..11
  BY TypeIsType
<1>2. StartRow[type + 1] \in 0..8 /\ Row(u.state).to \in 0..8
  BY <1>1 DEF StartRow, Row, Reject
<1>3. x % 64 \in Nat /\ u.codep \in Nat /\ u.state \in 0..8
  BY DEF Bytes, Decoders
<1>4. type < 8 => x % Span[type + 1] \in Nat
  <2>1. type < 8 => Span[type + 1] \in Nat \ {0}
    BY <1>1 DEF Span
  <2>2. \A n \in Nat \ {0} : x % n \in Nat
    BY DEF Bytes
  <2> QED BY <2>1, <2>2
<1> QED BY <1>1, <1>2, <1>3, <1>4 DEF ebi_utf8_decode, Decoders, Reject

\* The state to which a first byte leads.
Lead(x) ==
    IF x < 128 THEN 0
    ELSE IF x < 194 THEN 1
    ELSE IF x < 224 THEN 2
    ELSE IF x = 224 THEN 4
    ELSE IF x = 237 THEN 5
    ELSE IF x < 240 THEN 3
    ELSE IF x = 240 THEN 6
    ELSE IF x < 244 THEN 7
    ELSE IF x = 244 THEN 8
    ELSE 1

\* The first byte of a character says how many there are (that is the state)
\* and gives its highest bits.
LEMMA FirstByte ==
    ASSUME NEW u \in Decoders, u.state = Accept, NEW x \in Bytes
    PROVE  LET v == ebi_utf8_decode(u, x)
           IN  /\ v.state = Lead(x)
               /\ x < 128 => v.codep = x
               /\ x \in 194..223 => v.codep = x - 192
               /\ x \in 224..239 => v.codep = x - 224
               /\ x \in 240..244 => v.codep = x - 240
<1> DEFINE type == ByteType(x)
           v == ebi_utf8_decode(u, x)
<1>0. v.state = StartRow[type + 1] /\ v.codep = IF type < 8 THEN x % Span[type + 1] ELSE 0
  BY DEF ebi_utf8_decode
<1>1. CASE x < 128
  <2>1. type = 0
    BY <1>1 DEF ByteType
  <2> QED BY <2>1, <1>0, <1>1 DEF StartRow, Lead, Span, Bytes
<1>2. CASE x \in 128..193
  <2>1. type \in {1, 7, 8, 9}
    BY <1>2 DEF ByteType
  <2> QED BY <2>1, <1>0, <1>2 DEF StartRow, Lead
<1>3. CASE x \in 194..223
  <2>1. type = 2
    BY <1>3 DEF ByteType
  <2> QED BY <2>1, <1>0, <1>3 DEF StartRow, Lead, Span
<1>4. CASE x = 224
  <2>1. type = 10
    BY <1>4 DEF ByteType
  <2> QED BY <2>1, <1>0, <1>4 DEF StartRow, Lead, Span
<1>5. CASE x \in 225..239 \ {237}
  <2>1. type = 3
    BY <1>5 DEF ByteType
  <2> QED BY <2>1, <1>0, <1>5 DEF StartRow, Lead, Span
<1>6. CASE x = 237
  <2>1. type = 4
    BY <1>6 DEF ByteType
  <2> QED BY <2>1, <1>0, <1>6 DEF StartRow, Lead, Span
<1>7. CASE x = 240
  <2>1. type = 11
    BY <1>7 DEF ByteType
  <2> QED BY <2>1, <1>0, <1>7 DEF StartRow, Lead, Span
<1>8. CASE x \in 241..243
  <2>1. type = 6
    BY <1>8 DEF ByteType
  <2> QED BY <2>1, <1>0, <1>8 DEF StartRow, Lead, Span
<1>9. CASE x = 244
  <2>1. type = 5
    BY <1>9 DEF ByteType
  <2> QED BY <2>1, <1>0, <1>9 DEF StartRow, Lead, Span
<1>10. CASE x \in 245..255
  <2>1. type = 8
    BY <1>10 DEF ByteType
  <2> QED BY <2>1, <1>0, <1>10 DEF StartRow, Lead
<1> QED BY <1>1, <1>2, <1>3, <1>4, <1>5, <1>6, <1>7, <1>8, <1>9, <1>10 DEF Bytes

\* The bytes that a state lets follow, and the state they lead to.
Following(state) ==
    CASE state \in {2, 3, 7} -> Follows
      [] state = 4 -> 160..191
      [] state = 5 -> 128..159
      [] state = 6 -> 144..191
      [] state = 8 -> 128..143
      [] OTHER     -> {}

After(state) ==
    CASE state = 2            -> 0
      [] state \in {3, 4, 5}  -> 2
      [] OTHER                -> 3

LEMMA FollowingByte ==
    ASSUME NEW u \in Decoders, u.state \notin {Accept}, NEW x \in Bytes
    PROVE  LET v == ebi_utf8_decode(u, x)
           IN  /\ v.state = IF x \in Following(u.state) THEN After(u.state) ELSE Reject
               /\ x \in Follows => v.codep = (x - 128) + 64 * u.codep
<1> DEFINE type == ByteType(x)
           v == ebi_utf8_decode(u, x)
<1>0. /\ v.state = IF type \in Row(u.state).types THEN Row(u.state).to ELSE Reject
      /\ v.codep = (x % 64) + 64 * u.codep
  BY DEF ebi_utf8_decode
<1>1. /\ type = 1 <=> x \in 128..143
      /\ type = 9 <=> x \in 144..159
      /\ type = 7 <=> x \in 160..191
  BY DEF ByteType, Bytes
<1>2. u.state \in 1..8
  BY DEF Decoders, Accept
<1> HIDE DEF v, type
<1>3. v.state = IF x \in Following(u.state) THEN After(u.state) ELSE Reject
  <2>1. CASE u.state = 1
    BY <1>0, <2>1 DEF Row, Following, After, Reject
  <2>2. CASE u.state \in {2, 3, 7}
    <3>1. type \in Row(u.state).types <=> x \in Follows
      BY <1>1, <2>2 DEF Row, Follows
    <3> QED BY <1>0, <3>1, <2>2 DEF Row, Following, After
  <2>3. CASE u.state = 4
    BY <1>0, <1>1, <2>3 DEF Row, Following, After
  <2>4. CASE u.state = 5
    BY <1>0, <1>1, <2>4 DEF Row, Following, After
  <2>5. CASE u.state = 6
    BY <1>0, <1>1, <2>5 DEF Row, Following, After
  <2>6. CASE u.state = 8
    BY <1>0, <1>1, <2>6 DEF Row, Following, After
  <2> QED BY <1>2, <2>1, <2>2, <2>3, <2>4, <2>5, <2>6
<1>4. x \in Follows => x % 64 = x - 128
  BY DEF Follows
<1> QED BY <1>0, <1>3, <1>4 DEF v

-----------------------------------------------------------------------------
(***************************************************************************)
(* The loop over the bytes of an identifier is a recursive function; here  *)
(* it is shown to have a value, whatever the source is.                    *)
(***************************************************************************)
SrcOK == src \in Seq(Bytes \ {\h22})

\* What the automaton is after byte i, and whether the loop goes no further.
Decoded(i, before) == Decode(before, Byte(i))
Ends(u8) == \/ u8.state \in {Reject, NoState}
            \/ u8.state = Accept /\ ~ebi_is_identifier(u8.codep)

LEMMA ByteIsByte ==
    ASSUME SrcOK, NEW i
    PROVE  /\ Byte(i) \in Bytes
           /\ i \in DOMAIN src <=> i \in 1..Len(src)
           /\ i \notin DOMAIN src => Byte(i) = 0
           /\ Len(src) \in Nat
<1>1. src \in Seq(Bytes) /\ Len(src) \in Nat /\ DOMAIN src = 1..Len(src)
  BY DEF SrcOK, Bytes
<1>2. i \in 1..Len(src) => src[i] \in Bytes
  BY <1>1
<1> QED BY <1>1, <1>2 DEF Byte, Bytes

LEMMA DecodedIsDecoder ==
    ASSUME SrcOK, NEW i, NEW before \in Decoders
    PROVE  /\ OutsideTable(Byte(i)) => Ends(Decoded(i, before)) /\ Decoded(i, before).state = NoState
           /\ ~OutsideTable(Byte(i)) => /\ Decoded(i, before) = ebi_utf8_decode(before, Byte(i))
                                       /\ Decoded(i, before) \in Decoders
<1>1. CASE OutsideTable(Byte(i))
  <2>1. Decoded(i, before) = [state |-> NoState, codep |-> 0]
    BY <1>1 DEF Decoded, Decode
  <2> QED BY <1>1, <2>1 DEF Ends
<1>2. CASE ~OutsideTable(Byte(i))
  <2>1. Decoded(i, before) = ebi_utf8_decode(before, Byte(i))
    BY <1>2 DEF Decoded, Decode
  <2> QED BY <1>2, <2>1, ByteIsByte, DecodesOn
<1> QED BY <1>1, <1>2

LEMMA LatinIdentifiers ==
    ASSUME NEW c \in Nat, c < 256
    PROVE  ebi_is_identifier(c) <=> c \in DenseChars
<1>1. c \in DenseChars => ebi_is_identifier(c)
  BY DEF ebi_is_identifier
<1>2. c \notin DenseChars => ~ebi_is_identifier(c)
  BY DEF ebi_is_identifier
<1> QED BY <1>1, <1>2

LEMMA OtherIdentifiers ==
    ASSUME NEW c \in Nat, c > 255
    PROVE  /\ c < 65536 /\ SearchStops(c) \in Nat => (ebi_is_identifier(c) <=> SearchStops(c) % 2 = 0)
           /\ c > 65535 => (ebi_is_identifier(c) <=> c < 983040 /\ c % 65536 <= 65533)
<1>1. CASE c < 65536 /\ SearchStops(c) \in Nat
  BY <1>1 DEF ebi_is_identifier
<1>2. CASE c > 65535
  <2>1. ebi_is_identifier(c) => c < 983040 /\ c % 65536 <= 65533
    BY <1>2 DEF ebi_is_identifier
  <2>2. c < 983040 /\ c % 65536 <= 65533 => ebi_is_identifier(c)
    BY <1>2 DEF ebi_is_identifier
  <2> QED BY <2>1, <2>2, <1>2
<1> QED BY <1>1, <1>2

\* The 0 behind the source ends every identifier.
LEMMA EndsBehind ==
    ASSUME SrcOK, NEW i \in Nat, i > Len(src), NEW before \in Decoders
    PROVE  Ends(Decoded(i, before))
<1>1. Byte(i) = 0
  BY ByteIsByte
<1>0. Decoded(i, before) = ebi_utf8_decode(before, Byte(i))
  <2>1. ~OutsideTable(Byte(i))
    BY <1>1 DEF OutsideTable
  <2> QED BY <2>1, DecodedIsDecoder
<1>2. CASE before.state = Accept
  <2>1. Decoded(i, before).state = 0 /\ Decoded(i, before).codep = 0
    <3>1. 0 \in Bytes /\ 0 < 128
      BY DEF Bytes
    <3>2. Lead(0) = 0
      BY DEF Lead
    <3> QED BY <1>0, <1>1, <1>2, <3>1, <3>2, FirstByte
  <2>2. 0 \notin DenseChars
    BY DEF DenseChars
  <2>3. ~ebi_is_identifier(0)
    BY <2>2, LatinIdentifiers
  <2> QED BY <2>1, <2>3 DEF Ends, Accept
<1>3. CASE before.state # Accept
  <2>1. 0 \notin Following(before.state)
    BY DEF Following, Follows
  <2>2. Decoded(i, before).state = IF 0 \in Following(before.state) THEN After(before.state) ELSE Reject
    <3>1. 0 \in Bytes
      BY DEF Bytes
    <3> QED BY <1>0, <1>1, <1>3, <3>1, FollowingByte
  <2>3. Decoded(i, before).state = Reject
    BY <2>1, <2>2
  <2> QED BY <2>3 DEF Ends
<1> QED BY <1>2, <1>3

LEMMA IdentLoopUnfolds ==
    ASSUME SrcOK, NEW i \in Nat, NEW before \in Decoders
    PROVE  IdentLoop[i][before] =
             IF Ends(Decoded(i, before)) THEN [stop |-> i, state |-> Decoded(i, before).state]
                                         ELSE IdentLoop[i + 1][Decoded(i, before)]
<1> DEFINE Stop(j, b) == [stop |-> j, state |-> Decoded(j, b).state]
           Step(f, j, b) == IF Ends(Decoded(j, b)) THEN Stop(j, b) ELSE f[j + 1][Decoded(j, b)]
           Line(f, j) == [b \in Decoders |-> Step(f, j, b)]
           Loops(f, n) == \A j \in Nat : j + n > Len(src) => f[j] = Line(f, j)
           Missing == {n \in Nat : ~\E f : Loops(f, n) /\ f = [j \in Nat |-> f[j]]}
<1>0. Len(src) \in Nat
  BY ByteIsByte
<1>1. ASSUME NEW f, NEW g, NEW j,
             \A b \in Decoders : Ends(Decoded(j, b)) \/ f[j + 1][Decoded(j, b)] = g[j + 1][Decoded(j, b)]
      PROVE  Line(f, j) = Line(g, j)
  BY <1>1
<1>2. ASSUME NEW f, NEW g, NEW j, f[j + 1] = g[j + 1] PROVE Line(f, j) = Line(g, j)
  BY <1>2
<1>3. ASSUME NEW f, NEW j, NEW b \in Decoders
      PROVE  Line(f, j)[b] = Step(f, j, b)
  OBVIOUS
<1>4. ASSUME NEW j \in Nat, j > Len(src), NEW f, NEW g PROVE Line(f, j) = Line(g, j)
  <2>1. \A b \in Decoders : Ends(Decoded(j, b))
    BY <1>4, EndsBehind
  <2> QED BY <2>1, <1>1
<1> HIDE DEF Line
<1>5. \E f : Loops(f, 0) /\ f = [j \in Nat |-> f[j]]
  <2> DEFINE g == [j \in Nat |-> Line(<<>>, j)]
  <2>1. \A j \in Nat : g[j] = Line(<<>>, j)
    OBVIOUS
  <2>2. g = [j \in Nat |-> g[j]]
    OBVIOUS
  <2> HIDE DEF g
  <2>3. ASSUME NEW j \in Nat, j + 0 > Len(src) PROVE g[j] = Line(g, j)
    <3>1. j > Len(src)
      BY <2>3, <1>0
    <3> QED BY <2>1, <3>1, <1>4
  <2> QED BY <2>2, <2>3
<1>6. ASSUME NEW n \in Nat, NEW f, Loops(f, n), f = [j \in Nat |-> f[j]]
      PROVE  \E g : Loops(g, n + 1) /\ g = [j \in Nat |-> g[j]]
  <2> DEFINE g == [j \in Nat |-> Line(f, j)]
  <2>1. \A j \in Nat : g[j] = Line(f, j)
    OBVIOUS
  <2>2. g = [j \in Nat |-> g[j]]
    OBVIOUS
  <2> HIDE DEF g
  <2>3. ASSUME NEW j \in Nat, j + (n + 1) > Len(src) PROVE g[j] = Line(g, j)
    <3>1. j + 1 \in Nat /\ (j + 1) + n > Len(src)
      BY <2>3, <1>0
    <3>2. f[j + 1] = Line(f, j + 1) /\ g[j + 1] = Line(f, j + 1)
      BY <3>1, <1>6, <2>1
    <3>3. Line(f, j) = Line(g, j)
      BY <3>2, <1>2
    <3> QED BY <2>1, <3>3
  <2> QED BY <2>2, <2>3
<1> HIDE DEF Loops
<1>7. Missing = {}
  <2> SUFFICES ASSUME Missing # {} PROVE FALSE
    OBVIOUS
  <2>1. PICK n \in Missing : \A other \in Missing : n <= other
    BY LeastNatural
  <2>2. n # 0
    BY <1>5
  <2>3. n - 1 \in Nat /\ n - 1 \notin Missing
    BY <2>1, <2>2
  <2>4. PICK f : Loops(f, n - 1) /\ f = [j \in Nat |-> f[j]]
    BY <2>3
  <2>5. \E g : Loops(g, (n - 1) + 1) /\ g = [j \in Nat |-> g[j]]
    BY <2>3, <2>4, <1>6
  <2> QED BY <2>1, <2>5
<1>8. PICK f : Loops(f, Len(src) + 1) /\ f = [j \in Nat |-> f[j]]
  <2>1. Len(src) + 1 \notin Missing /\ Len(src) + 1 \in Nat
    BY <1>7, <1>0
  <2> QED BY <2>1
<1>9. f = [j \in Nat |-> Line(f, j)]
  <2>1. \A j \in Nat : j + (Len(src) + 1) > Len(src)
    BY <1>0
  <2>2. \A j \in Nat : f[j] = Line(f, j)
    BY <1>8, <2>1 DEF Loops
  <2> QED BY <1>8, <2>2, Zenon
<1> DEFINE w == CHOOSE g : g = [j \in Nat |-> Line(g, j)]
<1>10. w = [j \in Nat |-> Line(w, j)]
  <2>1. \E g : g = [j \in Nat |-> Line(g, j)]
    BY <1>9
  <2> QED BY <2>1
<1>11. IdentLoop = w
  BY DEF IdentLoop, Ends, Decoded, Line
<1> HIDE DEF w
<1>12. w[i] = Line(w, i)
  BY <1>10
<1> QED BY <1>3, <1>11, <1>12

\* Where the loop stops and in which states.
LEMMA IdentLoopStops ==
    ASSUME SrcOK, NEW i \in Nat, NEW before \in Decoders
    PROVE  /\ IdentLoop[i][before].stop \in Nat
           /\ i <= IdentLoop[i][before].stop
           /\ IdentLoop[i][before].state \in {Accept, Reject, NoState}
<1> DEFINE Good(j, b) == /\ IdentLoop[j][b].stop \in Nat
                         /\ j <= IdentLoop[j][b].stop
                         /\ IdentLoop[j][b].state \in {Accept, Reject, NoState}
           Bad == {n \in Nat : \E j \in Nat, b \in Decoders : j + n > Len(src) /\ ~Good(j, b)}
<1>0. Len(src) \in Nat
  BY ByteIsByte
<1>1. ASSUME NEW j \in Nat, NEW b \in Decoders, Ends(Decoded(j, b)) PROVE Good(j, b)
  <2>1. IdentLoop[j][b] = [stop |-> j, state |-> Decoded(j, b).state]
    BY <1>1, IdentLoopUnfolds
  <2> QED BY <2>1, <1>1 DEF Ends
<1>2. ASSUME NEW j \in Nat, NEW b \in Decoders, ~Ends(Decoded(j, b)), Good(j + 1, Decoded(j, b))
      PROVE  Good(j, b)
  <2>1. IdentLoop[j][b] = IdentLoop[j + 1][Decoded(j, b)]
    BY <1>2, IdentLoopUnfolds
  <2> QED BY <2>1, <1>2
<1> HIDE DEF Good
<1>3. Bad = {}
  <2> SUFFICES ASSUME Bad # {} PROVE FALSE
    OBVIOUS
  <2>1. PICK n \in Bad : \A other \in Bad : n <= other
    BY LeastNatural
  <2>2. PICK j \in Nat, b \in Decoders : j + n > Len(src) /\ ~Good(j, b)
    BY <2>1
  <2>3. ~Ends(Decoded(j, b))
    BY <2>2, <1>1
  <2>4. n # 0
    BY <2>2, <2>3, <1>0, EndsBehind
  <2>5. n - 1 \in Nat /\ n - 1 \notin Bad
    <3>1. n \in Nat /\ n - 1 \in Nat /\ ~(n <= n - 1)
      BY <2>1, <2>4
    <3> HIDE DEF Bad
    <3> QED BY <2>1, <3>1
  <2>6. Decoded(j, b) \in Decoders
    BY <2>3, DecodedIsDecoder
  <2>7. j + 1 \in Nat /\ (j + 1) + (n - 1) > Len(src)
    BY <2>1, <2>2, <1>0
  <2>8. Good(j + 1, Decoded(j, b))
    BY <2>5, <2>6, <2>7
  <2> QED BY <2>2, <2>3, <2>8, <1>2
<1>4. i + (Len(src) + 1) > Len(src)
  BY <1>0
<1>5. Good(i, before)
  BY <1>0, <1>3, <1>4
<1> QED BY <1>5 DEF Good

-----------------------------------------------------------------------------
(***************************************************************************)
(* The position in the source.                                             *)
(***************************************************************************)
PtrInv == SrcOK /\ src_ptr \in Nat \ {0}

LEMMA BlanksEnd ==
    ASSUME PtrInv
    PROVE  /\ SkipBlanks(src_ptr) \in Nat \ {0}
           /\ src_ptr <= SkipBlanks(src_ptr)
           /\ Byte(SkipBlanks(src_ptr)) \notin Blanks
           /\ \A i \in src_ptr..SkipBlanks(src_ptr) - 1 : Byte(i) \in Blanks /\ i \in DOMAIN src
<1> DEFINE S == {j \in src_ptr..src_ptr + Len(src) : Byte(j) \notin Blanks}
           from == SkipBlanks(src_ptr)
<1>0. Len(src) \in Nat /\ src_ptr \in Nat \ {0}
  BY ByteIsByte DEF PtrInv
<1>1. 0 \notin Blanks
  BY DEF Blanks
<1>2. src_ptr + Len(src) \in S
  <2>1. src_ptr + Len(src) \notin 1..Len(src)
    BY <1>0
  <2>2. Byte(src_ptr + Len(src)) = 0
    BY <2>1, ByteIsByte DEF PtrInv
  <2> QED BY <2>2, <1>0, <1>1
<1>3. from \in S /\ \A j \in S : from <= j
  <2>1. S \in SUBSET Nat /\ S # {}
    BY <1>0, <1>2
  <2>2. from = Min(S)
    BY DEF SkipBlanks
  <2> HIDE DEF S
  <2> QED BY <2>1, <2>2, LeastNatural
<1>4. ASSUME NEW i \in src_ptr..from - 1 PROVE Byte(i) \in Blanks
  BY <1>3, <1>4, <1>0
<1>5. \A i \in src_ptr..from - 1 : i \in DOMAIN src
  BY <1>1, <1>4, ByteIsByte DEF PtrInv
<1> QED BY <1>0, <1>3, <1>4, <1>5

\* The position behind a token and where it begins.
LEMMA TokenEnds ==
    ASSUME PtrInv
    PROVE  /\ Scanned.from = SkipBlanks(src_ptr)
           /\ Scanned.to \in Nat \ {0}
           /\ Scanned.from <= Scanned.to
           /\ Scanned.type \in Errors \cup {Undefined} \/ Scanned.from < Scanned.to
<1> DEFINE from == SkipBlanks(src_ptr)
           c == Byte(from)
           nc == Byte(from + 1)
           nc_eq == Byte(src_ptr + 1) = \h3d
           Good(tok) == /\ tok.from = from /\ tok.to \in Nat \ {0} /\ tok.from <= tok.to
                        /\ tok.type \in Errors \cup {Undefined} \/ tok.from < tok.to
<1>1. from \in Nat \ {0}
  BY BlanksEnd
<1>2. Scanned = ScanToken(from, nc, nc_eq)
  BY DEF Scanned
<1>3. Good(ScanIdent(from))
  <2> DEFINE fresh == [state |-> Accept, codep |-> 0]
             end == IdentEnd(from)
  <2>1. fresh \in Decoders
    BY DEF Decoders, Accept
  <2>2. end = IdentLoop[from][fresh]
    BY DEF IdentEnd
  <2>3. end.stop \in Nat /\ from <= end.stop /\ end.state \in {Accept, Reject, NoState}
    <3> HIDE DEF from, fresh
    <3> QED BY <1>1, <2>1, <2>2, IdentLoopStops DEF PtrInv
  <2>4. /\ ScanIdent(from).from = from /\ ScanIdent(from).to = end.stop
        /\ end.state = NoState => ScanIdent(from).type = Undefined
        /\ end.state = Reject => ScanIdent(from).type = "ERROR_BAD_UTF8"
        /\ end.state \notin {Reject, NoState} /\ end.stop = from =>
             ScanIdent(from).type = "ERROR_BAD_TOKEN"
    BY DEF ScanIdent, Reject, NoState
  <2> HIDE DEF from, end
  <2> QED BY <1>1, <2>3, <2>4 DEF Errors
<1> HIDE DEF from, c, nc, nc_eq
<1>4. \A type, n : n \in {1, 2} => Good([from |-> from, to |-> from + n, type |-> type])
  BY <1>1
<1>5. \E type : \E n \in {1, 2} : \/ Scanned = [from |-> from, to |-> from + n, type |-> type]
                                  \/ Scanned = ScanIdent(from)
  <2>1. CASE Byte(from) \in DOMAIN SingleTypes
    <3>1. Scanned = [from |-> from, to |-> from + 1, type |-> SingleTypes[Byte(from)]]
      BY <1>2, <2>1 DEF ScanToken
    <3> QED BY <3>1
  <2>2. CASE Byte(from) \notin DOMAIN SingleTypes /\ Byte(from) = 61 /\ nc = 62
    <3>1. Scanned = [from |-> from, to |-> from + 2, type |-> "RD_ARROW"]
      BY <1>2, <2>2 DEF ScanToken
    <3> QED BY <3>1
  <2>3. CASE Byte(from) \notin DOMAIN SingleTypes /\ ~(Byte(from) = 61 /\ nc = 62)
    <3>1. CASE Byte(from) \in DOMAIN OperatorTypes
      <4>1. Scanned = IF nc_eq THEN [from |-> from, to |-> from + 2, type |-> OperatorTypes[Byte(from)][2]]
                               ELSE [from |-> from, to |-> from + 1, type |-> OperatorTypes[Byte(from)][1]]
        BY <1>2, <2>3, <3>1 DEF ScanToken
      <4> QED BY <4>1
    <3>2. CASE Byte(from) \notin DOMAIN OperatorTypes
      <4>1. Scanned = ScanIdent(from)
        BY <1>2, <2>3, <3>2 DEF ScanToken
      <4> QED BY <4>1
    <3> QED BY <3>1, <3>2
  <2> QED BY <2>1, <2>2, <2>3
<1>6. Good(Scanned)
  <2> HIDE DEF Good
  <2> QED BY <1>3, <1>4, <1>5
<1> QED BY <1>6, BlanksEnd DEF from

LEMMA PtrInitInv == Init => PtrInv
<1>1. \A s \in Sources : s \in Seq(Bytes \ {\h22})
  BY SourcesAssumption DEF Bytes
<1> QED BY <1>1 DEF Init, PtrInv, SrcOK

LEMMA PtrNextInv == PtrInv /\ [ebi_scan]_vars => PtrInv'
<1> SUFFICES ASSUME PtrInv, [ebi_scan]_vars PROVE PtrInv'
  OBVIOUS
<1>1. CASE ebi_scan
  <2>1. src' = src /\ src_ptr' = Scanned.to
    BY <1>1 DEF ebi_scan
  <2> QED BY <2>1, TokenEnds DEF PtrInv, SrcOK
<1>2. CASE UNCHANGED vars
  BY <1>2 DEF vars, PtrInv, SrcOK
<1> QED BY <1>1, <1>2

\* What a step takes is the token the scanner has found.
LEMMA StepTakes ==
    ASSUME ebi_scan
    PROVE  /\ token'.from = Scanned.from
           /\ token'.to = Scanned.to
           /\ token'.type = Scanned.type
<1> DEFINE tok == Scanned
<1> HIDE DEF tok
<1>1. token' = [from |-> tok.from, to |-> tok.to, type |-> tok.type,
                symbol |-> IF tok.type = "IDENT" THEN Symbol(Text(tok)) ELSE Null]
  BY DEF ebi_scan, tok
<1> QED BY <1>1 DEF tok

(***************************************************************************)
(* For any source: each token ends behind src_ptr unless it is an error,   *)
(* and only blanks lie between src_ptr and its beginning.                  *)
(***************************************************************************)
THEOREM ScannerAdvances == Spec => ScanAdvances
<1> DEFINE Advances == /\ token'.to > src_ptr \/ token'.type \in Errors \cup {Undefined}
                       /\ token'.from \in src_ptr..token'.to
                       /\ \A i \in src_ptr..token'.from - 1 : src[i] \in Blanks
<1>1. PtrInv /\ [ebi_scan]_vars => [Advances]_vars
  <2> SUFFICES ASSUME PtrInv, ebi_scan PROVE Advances
    OBVIOUS
  <2>1. /\ token'.from = SkipBlanks(src_ptr)
        /\ token'.to \in Nat
        /\ token'.from <= token'.to
        /\ token'.type \in Errors \cup {Undefined} \/ token'.from < token'.to
    BY StepTakes, TokenEnds
  <2>2. /\ SkipBlanks(src_ptr) \in Nat /\ src_ptr \in Nat
        /\ src_ptr <= SkipBlanks(src_ptr)
        /\ \A i \in src_ptr..SkipBlanks(src_ptr) - 1 : Byte(i) \in Blanks /\ i \in DOMAIN src
    BY BlanksEnd DEF PtrInv
  <2>3. \A i \in src_ptr..SkipBlanks(src_ptr) - 1 : src[i] \in Blanks
    BY <2>2 DEF Byte
  <2> QED BY <2>1, <2>2, <2>3
<1>2. Spec => [][Advances]_vars
  BY <1>1, PtrInitInv, PtrNextInv, PTL DEF Spec
<1> QED BY <1>2 DEF ScanAdvances

-----------------------------------------------------------------------------
(***************************************************************************)
(* The binary search finds how many stops are below a character.           *)
(***************************************************************************)
StopTable == ebi_ident_binary_stops
StopsBelow(c) == {i \in DOMAIN StopTable : StopTable[i] < c}

LEMMA StopsAreSorted ==
    /\ Len(StopTable) = 40
    /\ DOMAIN StopTable = 1..40
    /\ \A k \in 1..40 : StopTable[k] \in Nat
    /\ \A j, k \in 1..40 : j <= k => StopTable[j] <= StopTable[k]
<1>1. Len(StopTable) = 40 /\ DOMAIN StopTable = 1..40
  BY DEF StopTable, ebi_ident_binary_stops
<1>2. \A k \in 1..40 : StopTable[k] \in Nat
  BY DEF StopTable, ebi_ident_binary_stops
<1>3. \A k \in 1..39 : StopTable[k] <= StopTable[k + 1]
  BY DEF StopTable, ebi_ident_binary_stops
<1>4. ASSUME NEW j \in 1..40 PROVE \A k \in 1..40 : j <= k => StopTable[j] <= StopTable[k]
  <2> DEFINE Bad == {k \in Nat : k \in 1..40 /\ j <= k /\ ~(StopTable[j] <= StopTable[k])}
  <2>1. Bad = {}
    <3> SUFFICES ASSUME Bad # {} PROVE FALSE
      OBVIOUS
    <3>1. PICK k \in Bad : \A other \in Bad : k <= other
      BY LeastNatural
    <3>2. k \in 1..40 /\ j < k /\ ~(StopTable[j] <= StopTable[k])
      BY <1>2, <3>1
    <3>3. k - 1 \in 1..39 /\ j <= k - 1 /\ (k - 1) + 1 = k
      BY <3>2
    <3>4. k - 1 \notin Bad
      <4>1. ~(k <= k - 1)
        BY <3>2
      <4> HIDE DEF Bad
      <4> QED BY <3>1, <4>1
    <3>5. StopTable[j] <= StopTable[k - 1]
      BY <3>3, <3>4
    <3>6. StopTable[k - 1] <= StopTable[k]
      BY <1>3, <3>3
    <3>7. StopTable[j] \in Nat /\ StopTable[k - 1] \in Nat /\ StopTable[k] \in Nat
      BY <1>2, <3>2, <3>3
    <3> QED BY <3>2, <3>5, <3>6, <3>7
  <2> QED BY <2>1
<1> QED BY <1>1, <1>2, <1>4

\* The function SearchStops speaks of, for each two bounds.
IsSearch(s, c) ==
    /\ SearchStops(c) = s[0][40]
    /\ \A lo, hi \in 0..40 :
         s[lo][hi] = IF lo >= hi THEN lo
                     ELSE IF StopTable[((lo + hi) \div 2) + 1] < c
                            THEN s[((lo + hi) \div 2) + 1][hi]
                            ELSE s[lo][(lo + hi) \div 2]

LEMMA SearchUnfolds ==
    ASSUME NEW c
    PROVE  \E s : IsSearch(s, c)
<1> DEFINE Mid(lo, hi) == (lo + hi) \div 2
           Step(f, lo, hi) == IF lo >= hi THEN lo
                              ELSE IF StopTable[Mid(lo, hi) + 1] < c THEN f[Mid(lo, hi) + 1][hi]
                              ELSE f[lo][Mid(lo, hi)]
           Line(f, lo) == [hi \in 0..40 |-> Step(f, lo, hi)]
           Searches(f, n) == \A lo, hi \in 0..40 : hi <= lo + n => f[lo][hi] = Step(f, lo, hi)
           Missing == {n \in Nat : ~\E f : Searches(f, n) /\ f = [lo \in 0..40 |-> [hi \in 0..40 |-> f[lo][hi]]]}
<1>1. ASSUME NEW lo \in 0..40, NEW hi \in 0..40, lo < hi
      PROVE  /\ Mid(lo, hi) + 1 \in 0..40 /\ Mid(lo, hi) \in 0..40
             /\ hi - (Mid(lo, hi) + 1) < hi - lo
             /\ Mid(lo, hi) - lo < hi - lo
  BY <1>1
<1>2. ASSUME NEW f, NEW lo \in 0..40, NEW hi \in 0..40, lo >= hi PROVE Step(f, lo, hi) = lo
  BY <1>2
<1>3. ASSUME NEW f, NEW g, NEW lo, NEW hi,
             f[Mid(lo, hi) + 1][hi] = g[Mid(lo, hi) + 1][hi], f[lo][Mid(lo, hi)] = g[lo][Mid(lo, hi)]
      PROVE  Step(f, lo, hi) = Step(g, lo, hi)
  BY <1>3
<1> HIDE DEF Mid, Step
<1>4. \A f, lo : \A hi \in 0..40 : Line(f, lo)[hi] = Step(f, lo, hi)
  OBVIOUS
<1>5. \E f : Searches(f, 0) /\ f = [lo \in 0..40 |-> [hi \in 0..40 |-> f[lo][hi]]]
  <2> DEFINE g == [lo \in 0..40 |-> [hi \in 0..40 |-> lo]]
  <2>1. \A lo, hi \in 0..40 : g[lo][hi] = lo
    OBVIOUS
  <2>2. g = [lo \in 0..40 |-> [hi \in 0..40 |-> g[lo][hi]]]
    OBVIOUS
  <2> HIDE DEF g
  <2>3. ASSUME NEW lo \in 0..40, NEW hi \in 0..40, hi <= lo + 0 PROVE g[lo][hi] = Step(g, lo, hi)
    <3>1. lo >= hi
      BY <2>3
    <3> QED BY <2>1, <3>1, <1>2
  <2> QED BY <2>2, <2>3
<1>6. ASSUME NEW n \in Nat, NEW f, Searches(f, n)
      PROVE  \E g : Searches(g, n + 1) /\ g = [lo \in 0..40 |-> [hi \in 0..40 |-> g[lo][hi]]]
  <2> DEFINE g == [lo \in 0..40 |-> Line(f, lo)]
  <2>1. \A lo, hi \in 0..40 : g[lo][hi] = Step(f, lo, hi)
    BY <1>4
  <2>2. g = [lo \in 0..40 |-> [hi \in 0..40 |-> g[lo][hi]]]
    OBVIOUS
  <2> HIDE DEF g
  <2>3. ASSUME NEW lo \in 0..40, NEW hi \in 0..40, hi <= lo + (n + 1) PROVE g[lo][hi] = Step(g, lo, hi)
    <3>1. CASE lo >= hi
      BY <2>1, <3>1, <1>2
    <3>2. CASE lo < hi
      <4>1. /\ Mid(lo, hi) + 1 \in 0..40 /\ Mid(lo, hi) \in 0..40
            /\ hi <= (Mid(lo, hi) + 1) + n /\ Mid(lo, hi) <= lo + n
        <5>1. /\ Mid(lo, hi) + 1 \in 0..40 /\ Mid(lo, hi) \in 0..40
              /\ hi - (Mid(lo, hi) + 1) < hi - lo
              /\ Mid(lo, hi) - lo < hi - lo
          BY <1>1, <3>2
        <5> QED BY <5>1, <2>3
      <4>2. /\ f[Mid(lo, hi) + 1][hi] = g[Mid(lo, hi) + 1][hi]
            /\ f[lo][Mid(lo, hi)] = g[lo][Mid(lo, hi)]
        BY <4>1, <2>1, <1>6
      <4>3. Step(f, lo, hi) = Step(g, lo, hi)
        BY <4>2, <1>3
      <4> QED BY <2>1, <4>3
    <3> QED BY <3>1, <3>2
  <2> QED BY <2>2, <2>3
<1> HIDE DEF Searches
<1>7. Missing = {}
  <2> SUFFICES ASSUME Missing # {} PROVE FALSE
    OBVIOUS
  <2>1. PICK n \in Missing : \A other \in Missing : n <= other
    BY LeastNatural
  <2>2. n # 0
    BY <1>5
  <2>3. n - 1 \in Nat /\ n - 1 \notin Missing
    <3>0. n \in Nat
      OBVIOUS
    <3>1. n \in Nat /\ n - 1 \in Nat /\ ~(n <= n - 1)
      <4> HIDE DEF Missing
      <4> QED BY <3>0, <2>2
    <3> HIDE DEF Missing
    <3> QED BY <2>1, <3>1
  <2>4. PICK f : Searches(f, n - 1)
    BY <2>3
  <2>5. \E g : Searches(g, (n - 1) + 1) /\ g = [lo \in 0..40 |-> [hi \in 0..40 |-> g[lo][hi]]]
    BY <2>3, <2>4, <1>6, Zenon
  <2>6. (n - 1) + 1 = n
    <3>0. n \in Nat
      OBVIOUS
    <3> HIDE DEF Missing
    <3> QED BY <3>0
  <2> QED BY <2>1, <2>5, <2>6, Zenon
<1>8. PICK f : Searches(f, 40) /\ f = [lo \in 0..40 |-> [hi \in 0..40 |-> f[lo][hi]]]
  BY <1>7
<1>9. f = [lo \in 0..40 |-> Line(f, lo)]
  <2>1. \A lo, hi \in 0..40 : f[lo][hi] = Step(f, lo, hi)
    <3>1. \A lo, hi \in 0..40 : hi <= lo + 40
      OBVIOUS
    <3> QED BY <1>8, <3>1, Zenon DEF Searches
  <2> QED BY <1>8, <2>1
<1> DEFINE w == CHOOSE g : g = [lo \in 0..40 |-> Line(g, lo)]
<1>10. w = [lo \in 0..40 |-> Line(w, lo)]
  <2>1. \E g : g = [lo \in 0..40 |-> Line(g, lo)]
    BY <1>9
  <2> HIDE DEF Line
  <2> QED BY <2>1
<1>11. SearchStops(c) = w[0][40]
  <2>1. Len(ebi_ident_binary_stops) = 40
    BY StopsAreSorted DEF StopTable
  <2> QED BY <2>1, Zenon DEF SearchStops, StopTable, Step, Mid
<1> HIDE DEF w
<1>12. \A lo, hi \in 0..40 : w[lo][hi] = Step(w, lo, hi)
  BY <1>10, <1>4
<1> QED BY <1>11, <1>12 DEF Step, Mid, IsSearch

LEMMA SearchCounts ==
    ASSUME NEW c \in Nat
    PROVE  /\ SearchStops(c) \in Nat
           /\ SearchStops(c) = Cardinality(StopsBelow(c))
<1> DEFINE Mid(lo, hi) == (lo + hi) \div 2
           Found(r, lo, hi) == /\ r \in Nat /\ lo <= r /\ r <= hi
                               /\ \A k \in 1..40 : k > lo /\ k <= r => StopTable[k] < c
                               /\ \A k \in 1..40 : k > r /\ k <= hi => ~(StopTable[k] < c)
<1>1. PICK s : IsSearch(s, c)
  BY SearchUnfolds
<1>2. ASSUME NEW lo \in Nat, NEW hi \in Nat, lo < hi, hi <= 40
      PROVE  /\ Mid(lo, hi) \in Nat
             /\ lo <= Mid(lo, hi)
             /\ Mid(lo, hi) < hi
  BY <1>2
<1>3. ASSUME NEW lo \in Nat, NEW hi \in Nat, lo <= hi, hi <= 40
      PROVE  s[lo][hi] = IF lo >= hi THEN lo
                         ELSE IF StopTable[Mid(lo, hi) + 1] < c THEN s[Mid(lo, hi) + 1][hi]
                         ELSE s[lo][Mid(lo, hi)]
  <2>1. lo \in 0..40 /\ hi \in 0..40
    BY <1>3
  <2> QED BY <1>1, <2>1, Zenon DEF IsSearch
<1> HIDE DEF Mid
<1> DEFINE Bad == {n \in Nat : \E lo, hi \in Nat : lo <= hi /\ hi <= 40 /\ hi <= lo + n /\ ~Found(s[lo][hi], lo, hi)}
<1>4. Bad = {}
  <2> SUFFICES ASSUME Bad # {} PROVE FALSE
    OBVIOUS
  <2>1. PICK n \in Bad : \A other \in Bad : n <= other
    BY LeastNatural
  <2>2. PICK lo \in Nat, hi \in Nat : lo <= hi /\ hi <= 40 /\ hi <= lo + n /\ ~Found(s[lo][hi], lo, hi)
    BY <2>1
  <2>3. n \in Nat
    OBVIOUS
  <2>4. CASE lo = hi
    <3>1. s[lo][hi] = lo
      BY <1>3, <2>2, <2>4
    <3>2. Found(lo, lo, hi)
      BY <2>4
    <3> HIDE DEF Found
    <3> QED BY <2>2, <3>1, <3>2
  <2>5. CASE lo < hi
    <3> DEFINE mid == Mid(lo, hi)
    <3>1. mid \in Nat /\ lo <= mid /\ mid < hi
      BY <1>2, <2>2, <2>5
    <3>2. s[lo][hi] = IF StopTable[mid + 1] < c THEN s[mid + 1][hi] ELSE s[lo][mid]
      <4>1. ~(lo >= hi)
        BY <2>5
      <4> QED BY <1>3, <2>2, <4>1
    <3> HIDE DEF mid
    <3>3. /\ n - 1 \in Nat /\ ~(n <= n - 1) /\ hi <= (mid + 1) + (n - 1) /\ mid <= lo + (n - 1)
          /\ mid + 1 \in Nat /\ mid + 1 <= hi /\ mid <= 40
      <4> HIDE DEF Bad, Found
      <4> QED BY <2>2, <2>3, <2>5, <3>1
    <3>4. n - 1 \notin Bad
      <4> HIDE DEF Bad
      <4> QED BY <2>1, <3>3
    <3>5. Found(s[mid + 1][hi], mid + 1, hi) /\ Found(s[lo][mid], lo, mid)
      <4> HIDE DEF Found
      <4> QED BY <2>2, <3>1, <3>3, <3>4
    <3>6. \A k \in 1..40 : StopTable[k] \in Nat /\ \A j \in 1..40 : j <= k => StopTable[j] <= StopTable[k]
      BY StopsAreSorted
    <3>61. mid + 1 \in 1..40
      BY <2>2, <3>1
    <3> HIDE DEF Bad
    <3>7. CASE StopTable[mid + 1] < c
      <4> DEFINE r == s[mid + 1][hi]
      <4>1. s[lo][hi] = r
        BY <3>2, <3>7
      <4> HIDE DEF r
      <4>2. Found(r, mid + 1, hi)
        BY <3>5 DEF r
      <4>3. r \in Nat /\ lo <= r /\ r <= hi
        BY <3>1, <4>2
      <4>4. ASSUME NEW k \in 1..40, k > lo, k <= r PROVE StopTable[k] < c
        <5>1. CASE k > mid + 1
          BY <4>2, <4>4, <5>1
        <5>2. CASE k <= mid + 1
          <6>1. StopTable[k] <= StopTable[mid + 1] /\ StopTable[k] \in Nat /\ StopTable[mid + 1] \in Nat
            BY <3>61, <3>6, <5>2
          <6> QED BY <6>1, <3>7
        <5> QED BY <3>1, <5>1, <5>2
      <4>5. \A k \in 1..40 : k > r /\ k <= hi => ~(StopTable[k] < c)
        BY <4>2
      <4>6. Found(r, lo, hi)
        BY <4>3, <4>4, <4>5
      <4> HIDE DEF Found
      <4> QED BY <2>2, <4>1, <4>6
    <3>8. CASE ~(StopTable[mid + 1] < c)
      <4> DEFINE r == s[lo][mid]
      <4>1. s[lo][hi] = r
        BY <3>2, <3>8
      <4> HIDE DEF r
      <4>2. Found(r, lo, mid)
        BY <3>5 DEF r
      <4>3. r \in Nat /\ lo <= r /\ r <= hi
        BY <2>2, <3>1, <4>2
      <4>4. \A k \in 1..40 : k > lo /\ k <= r => StopTable[k] < c
        BY <4>2
      <4>5. ASSUME NEW k \in 1..40, k > r, k <= hi PROVE ~(StopTable[k] < c)
        <5>1. CASE k <= mid
          BY <4>2, <4>5, <5>1
        <5>2. CASE k > mid
          <6>1. mid + 1 <= k
            BY <3>1, <5>2
          <6>2. StopTable[mid + 1] <= StopTable[k] /\ StopTable[k] \in Nat /\ StopTable[mid + 1] \in Nat
            BY <3>61, <3>6, <6>1
          <6> QED BY <6>2, <3>8
        <5> QED BY <3>1, <5>1, <5>2
      <4>6. Found(r, lo, hi)
        BY <4>3, <4>4, <4>5
      <4> HIDE DEF Found
      <4> QED BY <2>2, <4>1, <4>6
    <3> QED BY <3>7, <3>8
  <2> HIDE DEF Bad, Found
  <2> QED BY <2>2, <2>4, <2>5
<1> DEFINE r == SearchStops(c)
<1> HIDE DEF r
<1>5. Found(r, 0, 40)
  <2>1. 40 \notin Bad
    BY <1>4
  <2>2. Found(s[0][40], 0, 40)
    <3> HIDE DEF Found
    <3> QED BY <2>1
  <2> HIDE DEF Found
  <2> QED BY <1>1, <2>2 DEF r, IsSearch
<1>6. r \in Nat /\ r <= 40 /\ \A k \in 1..40 : StopTable[k] < c <=> k <= r
  BY <1>5
<1>7. StopsBelow(c) = 1..r
  <2>1. DOMAIN StopTable = 1..40
    BY StopsAreSorted
  <2>2. \A k : k \in 1..r <=> k \in 1..40 /\ k <= r
    BY <1>6
  <2>3. StopsBelow(c) = {i \in DOMAIN StopTable : StopTable[i] < c}
    BY DEF StopsBelow
  <2> QED BY <2>1, <2>2, <2>3, <1>6
<1>8. Cardinality(1..r) = r
  <2>1. r \in Int /\ 1 \in Int
    BY <1>6
  <2>2. Cardinality(1..r) = IF 1 > r THEN 0 ELSE r - 1 + 1
    BY <2>1, FS_Interval, Zenon
  <2> DEFINE n == Cardinality(1..r)
  <2>3. n = IF 1 > r THEN 0 ELSE r - 1 + 1
    BY <2>2
  <2> HIDE DEF n
  <2>4. n = r
    BY <2>3, <1>6
  <2> QED BY <2>4 DEF n
<1> QED BY <1>6, <1>7, <1>8 DEF r

\* The stops up to a character are those below it and those at it.
LEMMA StopsAdd ==
    ASSUME NEW c \in Nat
    PROVE  /\ Cardinality(StopsBelow(c)) \in Nat
           /\ Cardinality(StopsIn({c})) \in Nat
           /\ Cardinality(StopsIn(0..c)) = Cardinality(StopsBelow(c)) + Cardinality(StopsIn({c}))
<1> DEFINE B == StopsBelow(c)
           E == StopsIn({c})
<1>1. DOMAIN StopTable = 1..40 /\ \A k \in 1..40 : StopTable[k] \in Nat
  BY StopsAreSorted
<1>2. /\ B = {i \in 1..40 : StopTable[i] < c}
      /\ E = {i \in 1..40 : StopTable[i] \in {c}}
      /\ StopsIn(0..c) = {i \in 1..40 : StopTable[i] \in 0..c}
  BY <1>1 DEF StopsBelow, StopsIn, StopTable
<1>3. StopsIn(0..c) = B \cup E /\ B \cap E = {}
  <2>1. \A k \in 1..40 : StopTable[k] \in 0..c <=> StopTable[k] < c \/ StopTable[k] \in {c}
    BY <1>1
  <2>2. \A k \in 1..40 : ~(StopTable[k] < c /\ StopTable[k] \in {c})
    BY <1>1
  <2> QED BY <1>2, <2>1, <2>2
<1>4. IsFiniteSet(B) /\ IsFiniteSet(E)
  <2>1. IsFiniteSet(1..40)
    <3>1. 1 \in Int /\ 40 \in Int
      OBVIOUS
    <3> QED BY <3>1, FS_Interval
  <2>2. B \subseteq 1..40 /\ E \subseteq 1..40
    BY <1>2
  <2> HIDE DEF B, E
  <2> QED BY <2>1, <2>2, FS_Subset
<1> HIDE DEF B, E
<1>5. Cardinality(B) \in Nat /\ Cardinality(E) \in Nat
  BY <1>4, FS_CardinalityType
<1>6. Cardinality(B \cup E) = Cardinality(B) + Cardinality(E) - Cardinality({})
  BY <1>3, <1>4, FS_Union
<1>7. Cardinality({}) = 0
  BY FS_EmptySet
<1>8. Cardinality(StopsIn(0..c)) = Cardinality(B) + Cardinality(E)
  <2>1. Cardinality(StopsIn(0..c)) = Cardinality(B \cup E)
    BY <1>3, Zenon
  <2> DEFINE sum == Cardinality(B \cup E)
             none == Cardinality({})
  <2>2. sum = Cardinality(B) + Cardinality(E) - none /\ none = 0
    BY <1>6, <1>7
  <2> HIDE DEF sum, none
  <2>3. sum = Cardinality(B) + Cardinality(E)
    BY <1>5, <2>2
  <2> QED BY <2>1, <2>3 DEF sum
<1> QED BY <1>5, <1>8 DEF B, E

\* What the code takes by the parity of the stops below is what the comment's
\* ranges do not have, save at the stops.
LEMMA BelongsIsIdentifier ==
    ASSUME NEW bytes, Value(bytes) \in Nat
    PROVE  BelongsToIdentifier(bytes) <=> WellFormed(bytes) /\ ebi_is_identifier(Value(bytes))
<1> DEFINE c == Value(bytes)
           below == Cardinality(StopsBelow(c))
           at == Cardinality(StopsIn({c}))
           upto == Cardinality(StopsIn(0..c))
<1>1. BelongsToIdentifier(bytes) <=>
        WellFormed(bytes) /\ IF c \in Searched THEN upto % 2 = 1 <=> at % 2 = 1
                                              ELSE ebi_is_identifier(c)
  BY Zenon DEF BelongsToIdentifier, InValidRange, IsSwitch
<1>2. below \in Nat /\ at \in Nat /\ upto = below + at
  BY StopsAdd
<1> HIDE DEF c, below, at, upto
<1>3. (upto % 2 = 1 <=> at % 2 = 1) <=> below % 2 = 0
  BY <1>2
<1>4. ASSUME c \in Searched PROVE ebi_is_identifier(c) <=> below % 2 = 0
  <2>1. c \in Nat /\ c > 255 /\ c < 65536
    BY <1>4 DEF Searched
  <2>2. SearchStops(c) \in Nat /\ SearchStops(c) = below
    BY <2>1, SearchCounts DEF below
  <2>3. ebi_is_identifier(c) <=> SearchStops(c) % 2 = 0
    BY <2>1, <2>2, OtherIdentifiers
  <2> QED BY <2>2, <2>3, Zenon
<1>5. CASE c \in Searched
  BY <1>1, <1>3, <1>4, <1>5, Zenon DEF c
<1>6. CASE c \notin Searched
  BY <1>1, <1>6, Zenon DEF c
<1> QED BY <1>5, <1>6

-----------------------------------------------------------------------------
(***************************************************************************)
(* The sequences that are the encoding of a value, byte by byte.           *)
(***************************************************************************)
LEMMA Split64 ==
    ASSUME NEW q \in Nat, NEW r \in Nat, r < 64
    PROVE  (64 * q + r) \div 64 = q /\ (64 * q + r) % 64 = r
OBVIOUS

LEMMA Split4096 ==
    ASSUME NEW q \in Nat, NEW r \in Nat, r < 4096
    PROVE  (4096 * q + r) \div 4096 = q
OBVIOUS

LEMMA Split262144 ==
    ASSUME NEW q \in Nat, NEW r \in Nat, r < 262144
    PROVE  (262144 * q + r) \div 262144 = q
OBVIOUS

LEMMA WellFormed1 ==
    ASSUME NEW x \in Bytes
    PROVE  /\ Value(<<x>>) \in Nat
           /\ WellFormed(<<x>>) <=> Lead(x) = 0
           /\ WellFormed(<<x>>) => Value(<<x>>) = x
<1> DEFINE c == x % 128
<1>1. c \in Nat /\ c < 128 /\ (x = c <=> x < 128)
  BY DEF Bytes
<1>2. Value(<<x>>) = c
  BY DEF Value
<1> HIDE DEF c
<1>3. Encoding(c) = <<c>>
  BY <1>1 DEF Encoding
<1>4. WellFormed(<<x>>) <=> x = c
  <2>1. c \in ScalarValues
    BY <1>1 DEF ScalarValues
  <2>2. WellFormed(<<x>>) <=> <<x>> = Encoding(c)
    BY <1>2, <2>1, Zenon DEF WellFormed
  <2>3. <<x>> = <<c>> <=> x = c
    OBVIOUS
  <2> QED BY <2>2, <2>3, <1>3
<1>5. Lead(x) = 0 <=> x < 128
  BY DEF Lead
<1> QED BY <1>1, <1>2, <1>4, <1>5

LEMMA WellFormed2 ==
    ASSUME NEW x \in Bytes, NEW y \in Bytes
    PROVE  /\ Value(<<x, y>>) \in Nat
           /\ WellFormed(<<x, y>>) <=> Lead(x) = 2 /\ y \in Follows
           /\ WellFormed(<<x, y>>) => Value(<<x, y>>) = 64 * (x - 192) + (y - 128)
<1> DEFINE a == x % 32
           d == y % 64
           c == 64 * a + d
<1>1. a \in Nat /\ a < 32 /\ (x = 192 + a <=> x >= 192 /\ x < 224)
  BY DEF Bytes
<1>2. d \in Nat /\ d < 64 /\ (y = 128 + d <=> y \in Follows)
  BY DEF Bytes, Follows
<1>3. Value(<<x, y>>) = c
  BY DEF Value
<1> HIDE DEF a, d
<1>4. c \div 64 = a /\ c % 64 = d
  BY <1>1, <1>2, Split64
<1>5. c \in Nat /\ c < 2048
  BY <1>1, <1>2
<1> HIDE DEF c
<1>6. Encoding(c) = IF c < 128 THEN <<c>> ELSE <<192 + a, 128 + d>>
  BY <1>4, <1>5 DEF Encoding
<1>7. WellFormed(<<x, y>>) <=> c >= 128 /\ x = 192 + a /\ y = 128 + d
  <2>1. WellFormed(<<x, y>>) <=> <<x, y>> = Encoding(c)
    <3>1. c \in ScalarValues
      BY <1>5 DEF ScalarValues
    <3> QED BY <1>3, <3>1, Zenon DEF WellFormed
  <2>2. CASE c < 128
    <3>1. Len(<<x, y>>) = 2 /\ Len(<<c>>) = 1
      OBVIOUS
    <3>2. <<x, y>> # <<c>>
      BY <3>1, Zenon
    <3> QED BY <2>1, <2>2, <3>2, <1>5, <1>6
  <2>3. CASE c >= 128
    <3>1. <<x, y>> = Encoding(c) <=> x = 192 + a /\ y = 128 + d
      BY <1>6, <1>5, <2>3
    <3> QED BY <2>1, <2>3, <3>1
  <2> QED BY <1>5, <2>2, <2>3
<1>8. Lead(x) = 2 <=> x >= 194 /\ x < 224
  BY DEF Lead, Bytes
<1>9. c >= 128 <=> a >= 2
  BY <1>1, <1>2 DEF c
<1>10. x \in Nat /\ y \in Nat
  BY DEF Bytes
<1> QED BY <1>1, <1>2, <1>3, <1>5, <1>7, <1>8, <1>9, <1>10 DEF c

LEMMA WellFormed3 ==
    ASSUME NEW x \in Bytes, NEW y \in Bytes, NEW z \in Bytes
    PROVE  /\ Value(<<x, y, z>>) \in Nat
           /\ WellFormed(<<x, y, z>>) <=>
                Lead(x) \in {3, 4, 5} /\ y \in Following(Lead(x)) /\ z \in Follows
           /\ WellFormed(<<x, y, z>>) =>
                Value(<<x, y, z>>) = 4096 * (x - 224) + 64 * (y - 128) + (z - 128)
<1> DEFINE a == x % 16
           d == y % 64
           e == z % 64
           h == 64 * a + d
           c == 4096 * a + 64 * d + e
<1>1. a \in Nat /\ a < 16 /\ (x = 224 + a <=> x >= 224 /\ x < 240)
  BY DEF Bytes
<1>2. d \in Nat /\ d < 64 /\ (y = 128 + d <=> y \in Follows)
  BY DEF Bytes, Follows
<1>3. e \in Nat /\ e < 64 /\ (z = 128 + e <=> z \in Follows)
  BY DEF Bytes, Follows
<1>4. Value(<<x, y, z>>) = c
  BY DEF Value
<1> HIDE DEF a, d, e
<1>5. h \in Nat /\ h % 64 = d
  BY <1>1, <1>2, Split64
<1>6. c = 64 * h + e
  BY <1>1, <1>2, <1>3
<1>7. c \div 64 = h /\ c % 64 = e
  <2> HIDE DEF h, c
  <2> QED BY <1>3, <1>5, <1>6, Split64
<1>8. c \div 4096 = a
  <2> DEFINE r == 64 * d + e
  <2>1. r \in Nat /\ r < 4096
    BY <1>2, <1>3
  <2>2. c = 4096 * a + r
    BY <1>1, <1>2, <1>3
  <2> HIDE DEF r, c
  <2> QED BY <2>1, <2>2, <1>1, Split4096
<1>9. c \in Nat /\ c < 65536
  BY <1>1, <1>2, <1>3
<1> HIDE DEF c, h
<1>10. Encoding(c) = IF c < 128 THEN <<c>>
                     ELSE IF c < 2048 THEN <<192 + (c \div 64), 128 + (c % 64)>>
                     ELSE <<224 + a, 128 + d, 128 + e>>
  BY <1>5, <1>7, <1>8, <1>9 DEF Encoding
<1>11. WellFormed(<<x, y, z>>) <=> /\ c >= 2048 /\ (c < 55296 \/ c > 57343)
                                   /\ x = 224 + a /\ y = 128 + d /\ z = 128 + e
  <2>1. WellFormed(<<x, y, z>>) <=> (c < 55296 \/ c > 57343) /\ <<x, y, z>> = Encoding(c)
    <3>1. c \in ScalarValues <=> (c < 55296 \/ c > 57343)
      BY <1>9 DEF ScalarValues
    <3>2. WellFormed(<<x, y, z>>) <=> c \in ScalarValues /\ <<x, y, z>> = Encoding(c)
      BY <1>4, Zenon DEF WellFormed
    <3> QED BY <3>1, <3>2
  <2>2. CASE c < 2048
    <3> DEFINE b == <<x, y, z>>
    <3>0. Len(b) = 3
      OBVIOUS
    <3> HIDE DEF b
    <3>1. <<x, y, z>> # Encoding(c)
      <4>1. Len(<<c>>) = 1 /\ Len(<<192 + (c \div 64), 128 + (c % 64)>>) = 2
        OBVIOUS
      <4>2. Encoding(c) = <<c>> \/ Encoding(c) = <<192 + (c \div 64), 128 + (c % 64)>>
        BY <1>10, <2>2
      <4>3. b # Encoding(c)
        BY <3>0, <4>1, <4>2
      <4> QED BY <4>3 DEF b
    <3> QED BY <2>1, <2>2, <3>1, <1>9
  <2>3. CASE c >= 2048
    <3>1. <<x, y, z>> = Encoding(c) <=> x = 224 + a /\ y = 128 + d /\ z = 128 + e
      BY <1>10, <1>9, <2>3
    <3> QED BY <2>1, <2>3, <3>1
  <2> QED BY <1>9, <2>2, <2>3
<1>12. Lead(x) \in {3, 4, 5} /\ y \in Following(Lead(x)) <=>
         /\ x >= 224 /\ x < 240 /\ y \in Follows
         /\ x = 224 => y >= 160
         /\ x = 237 => y < 160
  <2>1. CASE x = 224
    BY <2>1 DEF Lead, Following, Follows, Bytes
  <2>2. CASE x = 237
    BY <2>2 DEF Lead, Following, Follows, Bytes
  <2>3. CASE x \in 225..239 \ {237}
    BY <2>3 DEF Lead, Following, Follows, Bytes
  <2>4. CASE x \notin 224..239
    BY <2>4 DEF Lead, Bytes
  <2> QED BY <2>1, <2>2, <2>3, <2>4 DEF Bytes
<1>13. ASSUME x = 224 + a, y = 128 + d
       PROVE  /\ c >= 2048 <=> (x = 224 => y >= 160)
              /\ (c < 55296 \/ c > 57343) <=> (x = 237 => y < 160)
  BY <1>1, <1>2, <1>3, <1>13 DEF c
<1>14. x \in Nat /\ y \in Nat /\ z \in Nat
  BY DEF Bytes
<1>15. WellFormed(<<x, y, z>>) <=>
         Lead(x) \in {3, 4, 5} /\ y \in Following(Lead(x)) /\ z \in Follows
  BY <1>1, <1>2, <1>3, <1>11, <1>12, <1>13
<1>16. WellFormed(<<x, y, z>>) => c = 4096 * (x - 224) + 64 * (y - 128) + (z - 128)
  BY <1>1, <1>2, <1>3, <1>11, <1>14 DEF c
<1> QED BY <1>4, <1>9, <1>15, <1>16

LEMMA WellFormed4 ==
    ASSUME NEW x \in Bytes, NEW y \in Bytes, NEW z \in Bytes, NEW w \in Bytes
    PROVE  /\ Value(<<x, y, z, w>>) \in Nat
           /\ WellFormed(<<x, y, z, w>>) <=>
                /\ Lead(x) \in {6, 7, 8} /\ y \in Following(Lead(x))
                /\ z \in Follows /\ w \in Follows
           /\ WellFormed(<<x, y, z, w>>) =>
                Value(<<x, y, z, w>>) =
                  262144 * (x - 240) + 4096 * (y - 128) + 64 * (z - 128) + (w - 128)
<1> DEFINE a == x % 8
           d == y % 64
           e == z % 64
           g == w % 64
           h == 64 * a + d
           k == 64 * h + e
           c == 262144 * a + 4096 * d + 64 * e + g
<1>1. a \in Nat /\ a < 8 /\ (x = 240 + a <=> x >= 240 /\ x < 248)
  BY DEF Bytes
<1>2. d \in Nat /\ d < 64 /\ (y = 128 + d <=> y \in Follows)
  BY DEF Bytes, Follows
<1>3. e \in Nat /\ e < 64 /\ (z = 128 + e <=> z \in Follows)
  BY DEF Bytes, Follows
<1>4. g \in Nat /\ g < 64 /\ (w = 128 + g <=> w \in Follows)
  BY DEF Bytes, Follows
<1>5. Value(<<x, y, z, w>>) = c
  BY DEF Value
<1> HIDE DEF a, d, e, g
<1>6. h \in Nat /\ h % 64 = d
  BY <1>1, <1>2, Split64
<1>7. k \in Nat /\ k % 64 = e
  <2> HIDE DEF h
  <2> QED BY <1>6, <1>3, Split64
<1>8. c = 64 * k + g
  BY <1>1, <1>2, <1>3, <1>4
<1>9. c \div 64 = k /\ c % 64 = g
  <2> HIDE DEF h, k, c
  <2> QED BY <1>4, <1>7, <1>8, Split64
<1>10. c \div 4096 = h
  <2> DEFINE r == 64 * e + g
  <2>1. r \in Nat /\ r < 4096
    BY <1>3, <1>4
  <2>2. c = 4096 * h + r
    BY <1>1, <1>2, <1>3, <1>4
  <2> HIDE DEF r, c, h, k
  <2> QED BY <2>1, <2>2, <1>6, Split4096
<1>11. c \div 262144 = a
  <2> DEFINE r == 4096 * d + 64 * e + g
  <2>1. r \in Nat /\ r < 262144
    BY <1>2, <1>3, <1>4
  <2>2. c = 262144 * a + r
    BY <1>1, <1>2, <1>3, <1>4
  <2> HIDE DEF r, c, h, k
  <2> QED BY <2>1, <2>2, <1>1, Split262144
<1>12. c \in Nat /\ c < 2097152
  BY <1>1, <1>2, <1>3, <1>4
<1> HIDE DEF c, h, k
<1> DEFINE two == <<192 + (c \div 64), 128 + (c % 64)>>
           three == <<224 + h, 128 + e, 128 + g>>
           four == <<240 + a, 128 + d, 128 + e, 128 + g>>
<1>13. /\ c < 128 => Encoding(c) = <<c>>
       /\ c >= 128 /\ c < 2048 => Encoding(c) = two
       /\ c >= 2048 /\ c < 65536 => Encoding(c) = three
       /\ c >= 65536 => Encoding(c) = four
  BY <1>6, <1>7, <1>9, <1>10, <1>11, <1>12 DEF Encoding
<1>14. WellFormed(<<x, y, z, w>>) <=> /\ c >= 65536 /\ c <= 1114111
                                      /\ x = 240 + a /\ y = 128 + d /\ z = 128 + e /\ w = 128 + g
  <2> DEFINE b == <<x, y, z, w>>
  <2>0. WellFormed(b) <=> c \in ScalarValues /\ b = Encoding(c)
    BY <1>5, Zenon DEF WellFormed
  <2>1. CASE c < 65536
    <3>1. Len(b) = 4 /\ Len(<<c>>) = 1 /\ Len(two) = 2 /\ Len(three) = 3
      OBVIOUS
    <3> HIDE DEF b, two, three, four
    <3>2. Encoding(c) = <<c>> \/ Encoding(c) = two \/ Encoding(c) = three
      BY <1>12, <1>13, <2>1
    <3>3. b # Encoding(c)
      BY <3>1, <3>2
    <3>4. ~WellFormed(b)
      BY <2>0, <3>3
    <3>5. ~(c >= 65536)
      BY <1>12, <2>1
    <3> QED BY <3>4, <3>5 DEF b
  <2>2. CASE c >= 65536
    <3>1. b = four <=> x = 240 + a /\ y = 128 + d /\ z = 128 + e /\ w = 128 + g
      OBVIOUS
    <3>2. Encoding(c) = four
      <4> HIDE DEF four, b
      <4> QED BY <1>13, <2>2
    <3>3. c \in ScalarValues <=> c <= 1114111
      BY <1>12, <2>2 DEF ScalarValues
    <3>4. WellFormed(b) <=> c <= 1114111 /\ b = four
      <4> HIDE DEF four, b
      <4> QED BY <2>0, <3>2, <3>3
    <3> HIDE DEF four
    <3>5. WellFormed(b) <=> c <= 1114111 /\ x = 240 + a /\ y = 128 + d /\ z = 128 + e /\ w = 128 + g
      BY <3>1, <3>4
    <3> HIDE DEF b
    <3>6. WellFormed(b) <=> /\ c >= 65536 /\ c <= 1114111
                            /\ x = 240 + a /\ y = 128 + d /\ z = 128 + e /\ w = 128 + g
      BY <2>2, <3>5
    <3> QED BY <3>6 DEF b
  <2> QED BY <1>12, <2>1, <2>2
<1> HIDE DEF two, three, four
<1>15. Lead(x) \in {6, 7, 8} /\ y \in Following(Lead(x)) <=>
         /\ x >= 240 /\ x <= 244 /\ y \in Follows
         /\ x = 240 => y >= 144
         /\ x = 244 => y < 144
  <2>1. CASE x = 240
    BY <2>1 DEF Lead, Following, Follows, Bytes
  <2>2. CASE x = 244
    BY <2>2 DEF Lead, Following, Follows, Bytes
  <2>3. CASE x > 240 /\ x < 244
    BY <2>3 DEF Lead, Following, Follows, Bytes
  <2>4. CASE x < 240 \/ x > 244
    BY <2>4 DEF Lead, Bytes
  <2> QED BY <2>1, <2>2, <2>3, <2>4 DEF Bytes
<1>16. ASSUME x = 240 + a, y = 128 + d
       PROVE  /\ c >= 65536 <=> (x = 240 => y >= 144)
              /\ c <= 1114111 <=> x <= 244 /\ (x = 244 => y < 144)
  BY <1>1, <1>2, <1>3, <1>4, <1>16 DEF c
<1>17. x \in Nat /\ y \in Nat /\ z \in Nat /\ w \in Nat
  BY DEF Bytes
<1>18. WellFormed(<<x, y, z, w>>) <=>
         /\ Lead(x) \in {6, 7, 8} /\ y \in Following(Lead(x))
         /\ z \in Follows /\ w \in Follows
  <2> DEFINE b == WellFormed(<<x, y, z, w>>)
             l == Lead(x) \in {6, 7, 8} /\ y \in Following(Lead(x))
  <2>1. b <=> /\ c >= 65536 /\ c <= 1114111
              /\ x = 240 + a /\ y = 128 + d /\ z \in Follows /\ w \in Follows
    BY <1>3, <1>4, <1>14
  <2>2. l <=> /\ x >= 240 /\ x <= 244 /\ y \in Follows
              /\ x = 240 => y >= 144
              /\ x = 244 => y < 144
    BY <1>15
  <2> HIDE DEF b, l
  <2>3. l <=> /\ c >= 65536 /\ c <= 1114111
              /\ x = 240 + a /\ y = 128 + d
    BY <2>2, <1>1, <1>2, <1>16, <1>17
  <2>4. b <=> l /\ z \in Follows /\ w \in Follows
    BY <2>1, <2>3
  <2> QED BY <2>4 DEF b, l
<1>19. WellFormed(<<x, y, z, w>>) =>
         c = 262144 * (x - 240) + 4096 * (y - 128) + 64 * (z - 128) + (w - 128)
  BY <1>1, <1>2, <1>3, <1>4, <1>14, <1>17 DEF c
<1> QED BY <1>5, <1>12, <1>18, <1>19

-----------------------------------------------------------------------------
(***************************************************************************)
(* What the loop does with one character, from its first byte on.          *)
(***************************************************************************)
Char(i, n) == [k \in 1..n |-> Byte(i + k - 1)]

LEMMA CharIs ==
    ASSUME SrcOK, NEW i \in Nat
    PROVE  /\ Char(i, 1) = <<Byte(i)>>
           /\ Char(i, 2) = <<Byte(i), Byte(i + 1)>>
           /\ Char(i, 3) = <<Byte(i), Byte(i + 1), Byte(i + 2)>>
           /\ Char(i, 4) = <<Byte(i), Byte(i + 1), Byte(i + 2), Byte(i + 3)>>
<1>1. i + 1 - 1 = i /\ i + 2 - 1 = i + 1 /\ i + 3 - 1 = i + 2 /\ i + 4 - 1 = i + 3
  OBVIOUS
<1>2. Char(i, 1) = <<Byte(i)>>
  BY <1>1 DEF Char
<1>3. Char(i, 2) = <<Byte(i), Byte(i + 1)>>
  BY <1>1 DEF Char
<1>4. Char(i, 3) = <<Byte(i), Byte(i + 1), Byte(i + 2)>>
  BY <1>1 DEF Char
<1>5. Char(i, 4) = <<Byte(i), Byte(i + 1), Byte(i + 2), Byte(i + 3)>>
  BY <1>1 DEF Char
<1> QED BY <1>2, <1>3, <1>4, <1>5

\* The first byte of a well-formed character says of how many it is.
LEMMA CharLead ==
    ASSUME SrcOK, NEW i \in Nat, NEW n \in 1..4, WellFormed(Char(i, n))
    PROVE  /\ n = 1 <=> Lead(Byte(i)) = 0
           /\ n = 2 <=> Lead(Byte(i)) = 2
           /\ n = 3 <=> Lead(Byte(i)) \in {3, 4, 5}
           /\ n = 4 <=> Lead(Byte(i)) \in {6, 7, 8}
<1> DEFINE x == Byte(i)
           y == Byte(i + 1)
           z == Byte(i + 2)
           w == Byte(i + 3)
<1>1. x \in Bytes /\ y \in Bytes /\ z \in Bytes /\ w \in Bytes
  BY ByteIsByte
<1>2. /\ Char(i, 1) = <<x>>
      /\ Char(i, 2) = <<x, y>>
      /\ Char(i, 3) = <<x, y, z>>
      /\ Char(i, 4) = <<x, y, z, w>>
  BY CharIs
<1> HIDE DEF x, y, z, w
<1>3. CASE n = 1
  <2>1. Lead(x) = 0
    BY <1>1, <1>2, <1>3, WellFormed1
  <2> QED BY <1>3, <2>1 DEF x
<1>4. CASE n = 2
  <2>1. Lead(x) = 2
    BY <1>1, <1>2, <1>4, WellFormed2
  <2> QED BY <1>4, <2>1 DEF x
<1>5. CASE n = 3
  <2>1. Lead(x) \in {3, 4, 5}
    BY <1>1, <1>2, <1>5, WellFormed3
  <2> QED BY <1>5, <2>1 DEF x
<1>6. CASE n = 4
  <2>1. Lead(x) \in {6, 7, 8}
    BY <1>1, <1>2, <1>6, WellFormed4
  <2> QED BY <1>6, <2>1 DEF x
<1> QED BY <1>3, <1>4, <1>5, <1>6

\* A byte of ASCII is a character of its own, and begins no longer one.
LEMMA AsciiChar ==
    ASSUME SrcOK, NEW i \in Nat, Byte(i) < 128
    PROVE  /\ WellFormed(Char(i, 1)) /\ Value(Char(i, 1)) = Byte(i)
           /\ \A n \in 1..4 : WellFormed(Char(i, n)) => n = 1
<1>1. Byte(i) \in Bytes /\ Char(i, 1) = <<Byte(i)>>
  BY ByteIsByte, CharIs
<1>2. Lead(Byte(i)) = 0
  BY DEF Lead
<1>3. WellFormed(Char(i, 1)) /\ Value(Char(i, 1)) = Byte(i)
  BY <1>1, <1>2, WellFormed1
<1>4. \A n \in 1..4 : WellFormed(Char(i, n)) => n = 1
  BY <1>2, CharLead
<1> QED BY <1>3, <1>4

\* Two characters that begin at one byte are one.
LEMMA OneLength ==
    ASSUME SrcOK, NEW i \in Nat, NEW n \in 1..4, NEW m \in 1..4,
           WellFormed(Char(i, n)), WellFormed(Char(i, m))
    PROVE  n = m
<1> DEFINE lead == Lead(Byte(i))
<1>1. /\ n = 1 <=> lead = 0
      /\ n = 2 <=> lead = 2
      /\ n = 3 <=> lead \in {3, 4, 5}
  BY CharLead
<1>2. /\ m = 1 <=> lead = 0
      /\ m = 2 <=> lead = 2
      /\ m = 3 <=> lead \in {3, 4, 5}
  BY CharLead
<1> HIDE DEF lead
<1> QED BY <1>1, <1>2

\* The first byte of a character.
LEMMA Begins ==
    ASSUME SrcOK, NEW i \in Nat, NEW b \in Decoders, b.state = Accept, ~OutsideTable(Byte(i))
    PROVE  LET x == Byte(i)
               v == Decoded(i, b)
           IN  /\ v \in Decoders
               /\ v.state = Lead(x)
               /\ x < 128 => v.codep = x
               /\ x \in 194..223 => v.codep = x - 192
               /\ x \in 224..239 => v.codep = x - 224
               /\ x \in 240..244 => v.codep = x - 240
               /\ Lead(x) \notin {0, 1} => IdentLoop[i][b] = IdentLoop[i + 1][v]
               /\ Lead(x) = 1 => IdentLoop[i][b].state = Reject
<1> DEFINE x == Byte(i)
           v == Decoded(i, b)
<1>1. x \in Bytes
  BY ByteIsByte
<1>2. /\ v.state = Lead(x)
      /\ x < 128 => v.codep = x
      /\ x \in 194..223 => v.codep = x - 192
      /\ x \in 224..239 => v.codep = x - 224
      /\ x \in 240..244 => v.codep = x - 240
  BY <1>1, FirstByte, DecodedIsDecoder
<1>3. v \in Decoders
  BY DecodedIsDecoder
<1>4. IdentLoop[i][b] = IF Ends(v) THEN [stop |-> i, state |-> v.state] ELSE IdentLoop[i + 1][v]
  BY IdentLoopUnfolds
<1> HIDE DEF x, v
<1>5. Lead(x) \notin {0, 1} => ~Ends(v)
  BY <1>2 DEF Ends, Accept, Reject, NoState, Lead
<1>6. Lead(x) = 1 => Ends(v) /\ v.state = Reject
  BY <1>2 DEF Ends, Reject
<1>7. Lead(x) \notin {0, 1} => IdentLoop[i][b] = IdentLoop[i + 1][v]
  BY <1>4, <1>5
<1>8. Lead(x) = 1 => IdentLoop[i][b].state = Reject
  BY <1>4, <1>6
<1> QED BY <1>2, <1>3, <1>7, <1>8 DEF x, v

\* A byte that follows, or does not.
LEMMA Continues ==
    ASSUME SrcOK, NEW j \in Nat, NEW u \in Decoders, u.state # Accept, ~OutsideTable(Byte(j))
    PROVE  LET y == Byte(j)
               v == Decoded(j, u)
           IN  /\ v \in Decoders
               /\ y \in Following(u.state) =>
                    /\ v.state = After(u.state)
                    /\ v.codep = (y - 128) + 64 * u.codep
                    /\ After(u.state) # 0 => IdentLoop[j][u] = IdentLoop[j + 1][v]
               /\ y \notin Following(u.state) => IdentLoop[j][u].state = Reject
<1> DEFINE y == Byte(j)
           v == Decoded(j, u)
<1>1. y \in Bytes
  BY ByteIsByte
<1>2. /\ v.state = IF y \in Following(u.state) THEN After(u.state) ELSE Reject
      /\ y \in Follows => v.codep = (y - 128) + 64 * u.codep
  BY <1>1, FollowingByte, DecodedIsDecoder
<1>3. v \in Decoders
  BY DecodedIsDecoder
<1>4. IdentLoop[j][u] = IF Ends(v) THEN [stop |-> j, state |-> v.state] ELSE IdentLoop[j + 1][v]
  BY IdentLoopUnfolds
<1>5. y \in Following(u.state) => y \in Follows
  <2> HIDE DEF y
  <2> QED BY <1>1 DEF Following, Follows
<1>6. After(u.state) \in {0, 2, 3}
  BY DEF After
<1> HIDE DEF y, v
<1>7. y \in Following(u.state) /\ After(u.state) # 0 => ~Ends(v)
  BY <1>2, <1>6 DEF Ends, Accept, Reject, NoState
<1>8. y \notin Following(u.state) => Ends(v) /\ v.state = Reject
  BY <1>2 DEF Ends
<1>9. y \in Following(u.state) /\ After(u.state) # 0 => IdentLoop[j][u] = IdentLoop[j + 1][v]
  BY <1>4, <1>7
<1>10. y \notin Following(u.state) => IdentLoop[j][u].state = Reject
  BY <1>4, <1>8
<1> QED BY <1>2, <1>3, <1>5, <1>9, <1>10 DEF y, v

\* The last byte of a character.
LEMMA Finishes ==
    ASSUME SrcOK, NEW j \in Nat, NEW u \in Decoders, Decoded(j, u).state = Accept
    PROVE  IdentLoop[j][u] = IF ebi_is_identifier(Decoded(j, u).codep)
                               THEN IdentLoop[j + 1][Decoded(j, u)]
                               ELSE [stop |-> j, state |-> Accept]
<1> DEFINE v == Decoded(j, u)
<1>1. IdentLoop[j][u] = IF Ends(v) THEN [stop |-> j, state |-> v.state] ELSE IdentLoop[j + 1][v]
  BY IdentLoopUnfolds
<1>2. Ends(v) <=> ~ebi_is_identifier(v.codep)
  BY DEF Ends, Accept, Reject, NoState
<1> HIDE DEF v
<1> QED BY <1>1, <1>2 DEF v

\* What a character of n bytes does to the loop.
Taken(i, n, b, c) ==
    IF ebi_is_identifier(c)
      THEN \E v \in Decoders : v.state = Accept /\ IdentLoop[i][b] = IdentLoop[i + n][v]
      ELSE IdentLoop[i][b] = [stop |-> i + n - 1, state |-> Accept]

LEMMA TakesChar ==
    ASSUME SrcOK, NEW i \in Nat, NEW b \in Decoders, b.state = Accept, NEW n \in 1..4,
           WellFormed(Char(i, n)), ~OutsideTable(Byte(i))
    PROVE  Taken(i, n, b, Value(Char(i, n)))
<1> DEFINE x == Byte(i)
           y == Byte(i + 1)
           z == Byte(i + 2)
           w == Byte(i + 3)
           u1 == Decoded(i, b)
           u2 == Decoded(i + 1, u1)
           u3 == Decoded(i + 2, u2)
           u4 == Decoded(i + 3, u3)
<1>1. /\ x \in Bytes /\ y \in Bytes /\ z \in Bytes /\ w \in Bytes
      /\ i + 1 \in Nat /\ i + 2 \in Nat /\ i + 3 \in Nat
      /\ (i + 1) + 1 = i + 2 /\ (i + 2) + 1 = i + 3 /\ (i + 3) + 1 = i + 4
      /\ i + 1 - 1 = i /\ i + 2 - 1 = i + 1 /\ i + 3 - 1 = i + 2 /\ i + 4 - 1 = i + 3
  BY ByteIsByte
<1>2. /\ u1 \in Decoders
      /\ u1.state = Lead(x)
      /\ x < 128 => u1.codep = x
      /\ x \in 194..223 => u1.codep = x - 192
      /\ x \in 224..239 => u1.codep = x - 224
      /\ x \in 240..244 => u1.codep = x - 240
      /\ Lead(x) \notin {0, 1} => IdentLoop[i][b] = IdentLoop[i + 1][u1]
  BY Begins
<1> HIDE DEF u1
<1>3. /\ Lead(x) = 0 => x < 128
      /\ Lead(x) = 2 => x \in 194..223
      /\ Lead(x) \in {3, 4, 5} => x \in 224..239
      /\ Lead(x) \in {6, 7, 8} => x \in 240..244
  <2> HIDE DEF x
  <2> QED BY <1>1 DEF Lead, Bytes
<1>0. Lead(x) # 0 =>
        ~OutsideTable(y) /\ ~OutsideTable(z) /\ ~OutsideTable(w)
  <2>1. Lead(x) # 0 => x >= 128
    <3> HIDE DEF x
    <3> QED BY <1>1 DEF Lead, Bytes
  <2>2. ~OutsideTable(x)
    OBVIOUS
  <2> HIDE DEF x, y, z, w
  <2> QED BY <2>1, <2>2 DEF OutsideTable
<1> HIDE DEF x, y, z, w
<1>4. CASE n = 1
  <2>1. Char(i, 1) = <<x>>
    BY CharIs DEF x
  <2>2. Lead(x) = 0 /\ Value(<<x>>) = x
    BY <1>1, <1>4, <2>1, WellFormed1
  <2>3. u1.state = Accept /\ u1.codep = x
    BY <1>2, <1>3, <2>2 DEF Accept
  <2>4. IdentLoop[i][b] = IF ebi_is_identifier(x) THEN IdentLoop[i + 1][u1]
                                                  ELSE [stop |-> i, state |-> Accept]
    <3>1. Decoded(i, b).state = Accept /\ Decoded(i, b).codep = x
      BY <2>3 DEF u1
    <3>2. IdentLoop[i][b] = IF ebi_is_identifier(Decoded(i, b).codep)
                              THEN IdentLoop[i + 1][Decoded(i, b)]
                              ELSE [stop |-> i, state |-> Accept]
      BY <3>1, Finishes, Zenon
    <3> QED BY <3>1, <3>2, Zenon DEF u1
  <2> QED BY <1>1, <1>2, <1>4, <2>1, <2>2, <2>3, <2>4 DEF Taken
<1>5. CASE n = 2
  <2>1. Char(i, 2) = <<x, y>>
    BY CharIs DEF x, y
  <2>2. /\ Lead(x) = 2 /\ y \in Follows
        /\ Value(<<x, y>>) = 64 * (x - 192) + (y - 128)
    BY <1>1, <1>5, <2>1, WellFormed2
  <2>3. u1.state = 2 /\ u1.codep = x - 192 /\ IdentLoop[i][b] = IdentLoop[i + 1][u1]
    BY <1>2, <1>3, <2>2
  <2>4. Following(2) = Follows /\ After(2) = 0
    BY DEF Following, After
  <2>5. u2 \in Decoders /\ u2.state = 0 /\ u2.codep = (y - 128) + 64 * u1.codep
    BY <1>1, <1>2, <2>2, <2>3, <2>4, <1>0, Continues DEF y, Accept
  <2> DEFINE c == Value(<<x, y>>)
  <2>6. u2.codep = c
    <3>1. x \in Nat /\ y \in Nat
      BY <1>1 DEF Bytes
    <3>2. c = 64 * (x - 192) + (y - 128)
      BY <2>2
    <3> HIDE DEF u2, c
    <3> QED BY <2>3, <2>5, <3>1, <3>2
  <2> HIDE DEF c
  <2>7. IdentLoop[i + 1][u1] = IF ebi_is_identifier(u2.codep)
                                 THEN IdentLoop[(i + 1) + 1][u2]
                                 ELSE [stop |-> i + 1, state |-> Accept]
    BY <1>1, <1>2, <2>5, Finishes DEF Accept
  <2> HIDE DEF u2
  <2>8. Taken(i, 2, b, c)
    BY <1>1, <2>3, <2>5, <2>6, <2>7 DEF Taken, Accept
  <2> QED BY <1>5, <2>1, <2>8 DEF c
<1>6. CASE n = 3
  <2>1. Char(i, 3) = <<x, y, z>>
    BY CharIs DEF x, y, z
  <2>2. /\ Lead(x) \in {3, 4, 5} /\ y \in Following(Lead(x)) /\ z \in Follows
        /\ Value(<<x, y, z>>) = 4096 * (x - 224) + 64 * (y - 128) + (z - 128)
    BY <1>1, <1>6, <2>1, WellFormed3
  <2>3. u1.state = Lead(x) /\ u1.codep = x - 224 /\ IdentLoop[i][b] = IdentLoop[i + 1][u1]
    BY <1>2, <1>3, <2>2
  <2>4. Following(2) = Follows /\ After(2) = 0 /\ After(Lead(x)) = 2
    BY <2>2 DEF Following, After
  <2>5. /\ u2 \in Decoders /\ u2.state = 2 /\ u2.codep = (y - 128) + 64 * u1.codep
        /\ IdentLoop[i + 1][u1] = IdentLoop[(i + 1) + 1][u2]
    BY <1>1, <1>2, <2>2, <2>3, <2>4, <1>0, Continues DEF y, Accept
  <2> HIDE DEF u2
  <2>6. u3 \in Decoders /\ u3.state = 0 /\ u3.codep = (z - 128) + 64 * u2.codep
    BY <1>1, <2>2, <2>4, <2>5, <1>0, Continues DEF z, Accept
  <2> DEFINE c == Value(<<x, y, z>>)
  <2>7. u3.codep = c
    BY <1>1, <2>2, <2>3, <2>5, <2>6 DEF Bytes
  <2> HIDE DEF c
  <2>8. IdentLoop[i + 2][u2] = IF ebi_is_identifier(u3.codep)
                                 THEN IdentLoop[(i + 2) + 1][u3]
                                 ELSE [stop |-> i + 2, state |-> Accept]
    BY <1>1, <2>5, <2>6, Finishes DEF Accept
  <2> HIDE DEF u3
  <2>9. Taken(i, 3, b, c)
    BY <1>1, <2>3, <2>5, <2>6, <2>7, <2>8 DEF Taken, Accept
  <2> QED BY <1>6, <2>1, <2>9 DEF c
<1>7. CASE n = 4
  <2>1. Char(i, 4) = <<x, y, z, w>>
    BY CharIs DEF x, y, z, w
  <2>2. /\ Lead(x) \in {6, 7, 8} /\ y \in Following(Lead(x)) /\ z \in Follows /\ w \in Follows
        /\ Value(<<x, y, z, w>>) =
             262144 * (x - 240) + 4096 * (y - 128) + 64 * (z - 128) + (w - 128)
    BY <1>1, <1>7, <2>1, WellFormed4
  <2>3. u1.state = Lead(x) /\ u1.codep = x - 240 /\ IdentLoop[i][b] = IdentLoop[i + 1][u1]
    BY <1>2, <1>3, <2>2
  <2>4. /\ Following(2) = Follows /\ After(2) = 0 /\ After(Lead(x)) = 3
        /\ Following(3) = Follows /\ After(3) = 2
    BY <2>2 DEF Following, After
  <2>5. /\ u2 \in Decoders /\ u2.state = 3 /\ u2.codep = (y - 128) + 64 * u1.codep
        /\ IdentLoop[i + 1][u1] = IdentLoop[(i + 1) + 1][u2]
    BY <1>1, <1>2, <2>2, <2>3, <2>4, <1>0, Continues DEF y, Accept
  <2> HIDE DEF u2
  <2>6. /\ u3 \in Decoders /\ u3.state = 2 /\ u3.codep = (z - 128) + 64 * u2.codep
        /\ IdentLoop[i + 2][u2] = IdentLoop[(i + 2) + 1][u3]
    BY <1>1, <2>2, <2>4, <2>5, <1>0, Continues DEF z, Accept
  <2> HIDE DEF u3
  <2>7. u4 \in Decoders /\ u4.state = 0 /\ u4.codep = (w - 128) + 64 * u3.codep
    BY <1>1, <2>2, <2>4, <2>6, <1>0, Continues DEF w, Accept
  <2> DEFINE c == Value(<<x, y, z, w>>)
  <2>8. u4.codep = c
    <3>1. x \in Nat /\ y \in Nat /\ z \in Nat /\ w \in Nat
      BY <1>1 DEF Bytes
    <3>2. c = 262144 * (x - 240) + 4096 * (y - 128) + 64 * (z - 128) + (w - 128)
      BY <2>2
    <3> HIDE DEF u4, c
    <3>3. u3.codep = (z - 128) + 64 * ((y - 128) + 64 * (x - 240))
      BY <2>3, <2>5, <2>6
    <3>4. u4.codep = (w - 128) + 64 * u3.codep
      BY <2>7
    <3> QED BY <3>1, <3>2, <3>3, <3>4
  <2> HIDE DEF c
  <2>9. IdentLoop[i + 3][u3] = IF ebi_is_identifier(u4.codep)
                                 THEN IdentLoop[(i + 3) + 1][u4]
                                 ELSE [stop |-> i + 3, state |-> Accept]
    BY <1>1, <2>6, <2>7, Finishes DEF Accept
  <2> HIDE DEF u4
  <2>10. Taken(i, 4, b, c)
    BY <1>1, <2>3, <2>5, <2>6, <2>7, <2>8, <2>9 DEF Taken, Accept
  <2> QED BY <1>7, <2>1, <2>10 DEF c
<1> QED BY <1>4, <1>5, <1>6, <1>7

\* Where no character is well-formed the loop rejects.
LEMMA RejectsBytes ==
    ASSUME SrcOK, NEW i \in Nat, NEW b \in Decoders, b.state = Accept, ~signed_char,
           \A n \in 1..4 : ~WellFormed(Char(i, n))
    PROVE  IdentLoop[i][b].state = Reject
<1> DEFINE x == Byte(i)
           y == Byte(i + 1)
           z == Byte(i + 2)
           w == Byte(i + 3)
           u1 == Decoded(i, b)
           u2 == Decoded(i + 1, u1)
           u3 == Decoded(i + 2, u2)
<1>1. /\ x \in Bytes /\ y \in Bytes /\ z \in Bytes /\ w \in Bytes
      /\ i + 1 \in Nat /\ i + 2 \in Nat /\ i + 3 \in Nat
      /\ (i + 1) + 1 = i + 2 /\ (i + 2) + 1 = i + 3
  BY ByteIsByte
<1>0. \A j : ~OutsideTable(Byte(j))
  BY DEF OutsideTable
<1>2. /\ u1 \in Decoders
      /\ u1.state = Lead(x)
      /\ Lead(x) \notin {0, 1} => IdentLoop[i][b] = IdentLoop[i + 1][u1]
      /\ Lead(x) = 1 => IdentLoop[i][b].state = Reject
  BY <1>0, Begins
<1> HIDE DEF u1
<1>3. Lead(x) \in 0..8
  BY DEF Lead
<1> HIDE DEF x, y, z, w
<1>4. /\ Lead(x) # 0
      /\ ~(Lead(x) = 2 /\ y \in Follows)
      /\ ~(Lead(x) \in {3, 4, 5} /\ y \in Following(Lead(x)) /\ z \in Follows)
      /\ ~(Lead(x) \in {6, 7, 8} /\ y \in Following(Lead(x)) /\ z \in Follows /\ w \in Follows)
  <2>1. ~WellFormed(<<x>>) /\ ~WellFormed(<<x, y>>) /\ ~WellFormed(<<x, y, z>>) /\ ~WellFormed(<<x, y, z, w>>)
    <3>1. ~WellFormed(Char(i, 1)) /\ ~WellFormed(Char(i, 2)) /\ ~WellFormed(Char(i, 3)) /\ ~WellFormed(Char(i, 4))
      OBVIOUS
    <3> QED BY <3>1, CharIs DEF x, y, z, w
  <2> QED BY <2>1, <1>1, WellFormed1, WellFormed2, WellFormed3, WellFormed4
<1>5. CASE Lead(x) = 1
  BY <1>2, <1>5
<1>6. CASE Lead(x) # 1
  <2>0. IdentLoop[i][b] = IdentLoop[i + 1][u1] /\ u1.state # Accept
    BY <1>2, <1>4, <1>6 DEF Accept
  <2>1. /\ u2 \in Decoders
        /\ y \in Following(Lead(x)) =>
             /\ u2.state = After(Lead(x))
             /\ After(Lead(x)) # 0 => IdentLoop[i + 1][u1] = IdentLoop[(i + 1) + 1][u2]
        /\ y \notin Following(Lead(x)) => IdentLoop[i + 1][u1].state = Reject
    BY <1>1, <1>2, <2>0, <1>0, Continues DEF y
  <2>2. CASE y \notin Following(Lead(x))
    BY <2>0, <2>1, <2>2
  <2>3. CASE y \in Following(Lead(x))
    <3> HIDE DEF u2
    <3>0. Following(2) = Follows /\ Following(3) = Follows /\ After(3) = 2
      BY DEF Following, After
    <3>1. Lead(x) # 2
      BY <1>4, <2>3, <3>0
    <3>2. /\ Lead(x) \in {3, 4, 5} => After(Lead(x)) = 2
          /\ Lead(x) \in {6, 7, 8} => After(Lead(x)) = 3
          /\ Lead(x) \in {3, 4, 5} \/ Lead(x) \in {6, 7, 8}
      BY <1>3, <1>4, <1>6, <3>1 DEF After
    <3>3. IdentLoop[i][b] = IdentLoop[i + 2][u2] /\ u2.state = After(Lead(x)) /\ u2.state \in {2, 3}
      BY <1>1, <2>0, <2>1, <2>3, <3>2
    <3>4. /\ u3 \in Decoders
          /\ z \in Follows =>
               /\ u3.state = After(u2.state)
               /\ After(u2.state) # 0 => IdentLoop[i + 2][u2] = IdentLoop[(i + 2) + 1][u3]
          /\ z \notin Follows => IdentLoop[i + 2][u2].state = Reject
      <4>1. Following(u2.state) = Follows /\ u2.state # Accept
        BY <3>0, <3>3 DEF Accept
      <4> QED BY <1>1, <2>1, <4>1, <1>0, Continues DEF z
    <3> HIDE DEF u3
    <3>5. CASE z \notin Follows
      BY <3>3, <3>4, <3>5
    <3>6. CASE z \in Follows
      <4>1. Lead(x) \in {6, 7, 8} /\ w \notin Follows
        BY <1>4, <2>3, <3>2, <3>6
      <4>2. IdentLoop[i][b] = IdentLoop[i + 3][u3] /\ u3.state = 2
        BY <1>1, <3>0, <3>2, <3>3, <3>4, <3>6, <4>1
      <4>3. IdentLoop[i + 3][u3].state = Reject
        <5>1. w \notin Following(u3.state) /\ u3.state # Accept
          BY <3>0, <4>1, <4>2 DEF Accept
        <5> QED BY <1>1, <3>4, <5>1, <1>0, Continues DEF w
      <4> QED BY <4>2, <4>3
    <3> QED BY <3>5, <3>6
  <2> QED BY <2>2, <2>3
<1> QED BY <1>5, <1>6

-----------------------------------------------------------------------------
(***************************************************************************)
(* The texts that are sequences of such characters.                        *)
(***************************************************************************)
LEMMA GreatestNatural ==
    ASSUME NEW m \in Nat, NEW S \in SUBSET (0..m), S # {}
    PROVE  Max(S) \in S /\ \A x \in S : x <= Max(S)
<1> DEFINE D == {m - x : x \in S}
<1>1. D \in SUBSET Nat /\ D # {}
  <2>1. \A x \in S : x \in 0..m
    OBVIOUS
  <2>2. \A x \in S : m - x \in Nat
    BY <2>1
  <2>3. D # {}
    OBVIOUS
  <2> QED BY <2>2, <2>3
<1>2. Min(D) \in D /\ \A d \in D : Min(D) <= d
  <2> HIDE DEF D
  <2> QED BY <1>1, LeastNatural
<1>3. PICK x \in S : \A y \in S : m - x <= m - y
  BY <1>2
<1>4. \A y \in S : x >= y
  BY <1>3
<1>5. Max(S) \in S /\ \A y \in S : Max(S) >= y
  BY <1>4 DEF Max
<1> QED BY <1>5

\* Which lengths there are, from the shorter ones.
LEMMA LengthsUnfold ==
    ASSUME NEW text, Len(text) \in Nat
    PROVE  LET lengths == IdentifierLengths(text)
           IN  /\ lengths \in SUBSET (0..Len(text))
               /\ 0 \in lengths
               /\ \A i \in 1..Len(text) :
                    i \in lengths <=>
                      \E n \in 1..4 : /\ n <= i
                                      /\ BelongsToIdentifier(SubSeq(text, i - n + 1, i))
                                      /\ i - n \in lengths
<1> DEFINE L == Len(text)
           B(i, n) == BelongsToIdentifier(SubSeq(text, i - n + 1, i))
           Step(f, i) == i = 0 \/ \E n \in 1..4 : n <= i /\ B(i, n) /\ f[i - n]
           Fits(f, m) == \A i \in 0..L : i <= m => f[i] = Step(f, i)
           Missing == {m \in Nat : ~\E f : Fits(f, m) /\ f = [i \in 0..L |-> f[i]]}
<1>1. ASSUME NEW f, NEW g, NEW i \in Nat, \A j \in 0..i - 1 : f[j] = g[j]
      PROVE  Step(f, i) = Step(g, i)
  <2>1. \A n \in 1..4 : n <= i => i - n \in 0..i - 1
    OBVIOUS
  <2>2. \A n \in 1..4 : n <= i => f[i - n] = g[i - n]
    BY <1>1, <2>1
  <2> HIDE DEF B
  <2> QED BY <2>2, Zenon
<1> HIDE DEF B, Step
<1>2. \E f : Fits(f, 0) /\ f = [i \in 0..L |-> f[i]]
  <2> DEFINE g == [i \in 0..L |-> Step(<<>>, i)]
  <2>1. \A i \in 0..L : g[i] = Step(<<>>, i)
    OBVIOUS
  <2>2. g = [i \in 0..L |-> g[i]]
    OBVIOUS
  <2> HIDE DEF g
  <2>3. ASSUME NEW i \in 0..L, i <= 0 PROVE g[i] = Step(g, i)
    <3>1. i \in Nat /\ \A j \in 0..i - 1 : <<>>[j] = g[j]
      BY <2>3
    <3> QED BY <2>1, <3>1, <1>1
  <2> QED BY <2>2, <2>3
<1>3. ASSUME NEW m \in Nat, NEW f, Fits(f, m)
      PROVE  \E g : Fits(g, m + 1) /\ g = [i \in 0..L |-> g[i]]
  <2> DEFINE g == [i \in 0..L |-> Step(f, i)]
  <2>1. \A i \in 0..L : g[i] = Step(f, i)
    OBVIOUS
  <2>2. g = [i \in 0..L |-> g[i]]
    OBVIOUS
  <2> HIDE DEF g
  <2>3. ASSUME NEW i \in 0..L, i <= m + 1 PROVE g[i] = Step(g, i)
    <3>1. i \in Nat
      OBVIOUS
    <3>2. \A j \in 0..i - 1 : j \in 0..L /\ j <= m
      BY <2>3
    <3>3. \A j \in 0..i - 1 : f[j] = g[j]
      BY <3>2, <2>1, <1>3
    <3>4. Step(f, i) = Step(g, i)
      BY <3>1, <3>3, <1>1
    <3> QED BY <2>1, <3>4
  <2> QED BY <2>2, <2>3
<1> HIDE DEF Fits
<1>4. Missing = {}
  <2> SUFFICES ASSUME Missing # {} PROVE FALSE
    OBVIOUS
  <2>1. PICK m \in Missing : \A other \in Missing : m <= other
    BY LeastNatural
  <2>2. m # 0
    BY <1>2
  <2>3. m - 1 \in Nat /\ m - 1 \notin Missing
    BY <2>1, <2>2
  <2>4. PICK f : Fits(f, m - 1)
    BY <2>3
  <2>5. \E g : Fits(g, (m - 1) + 1) /\ g = [i \in 0..L |-> g[i]]
    BY <2>3, <2>4, <1>3, Zenon
  <2>6. (m - 1) + 1 = m
    BY <2>3
  <2> QED BY <2>1, <2>5, <2>6
<1>5. PICK f : Fits(f, L) /\ f = [i \in 0..L |-> f[i]]
  BY <1>4
<1>6. f = [i \in 0..L |-> Step(f, i)]
  <2>1. \A i \in 0..L : f[i] = Step(f, i)
    BY <1>5 DEF Fits
  <2> QED BY <1>5, <2>1, Zenon
<1> DEFINE w == CHOOSE g : g = [i \in 0..L |-> Step(g, i)]
           lengths == IdentifierLengths(text)
<1>7. w = [i \in 0..L |-> Step(w, i)]
  <2>1. \E g : g = [i \in 0..L |-> Step(g, i)]
    BY <1>6
  <2> QED BY <2>1
<1>8. lengths = {i \in 0..L : w[i]}
  BY DEF IdentifierLengths, Step, B
<1> HIDE DEF w, lengths
<1>9. \A i \in 0..L : i \in lengths <=> Step(w, i)
  <2>1. \A i \in 0..L : w[i] = Step(w, i)
    BY <1>7
  <2> QED BY <1>8, <2>1, Zenon
<1>10. \A i \in 0..L : i \in lengths <=> w[i]
  BY <1>8
<1>11. lengths \in SUBSET (0..L)
  BY <1>8
<1>12. 0 \in lengths
  <2>1. 0 \in 0..L
    OBVIOUS
  <2>2. Step(w, 0)
    BY DEF Step
  <2> QED BY <2>1, <2>2, <1>9
<1>13. ASSUME NEW i \in 1..L
       PROVE  i \in lengths <=> \E n \in 1..4 : n <= i /\ B(i, n) /\ i - n \in lengths
  <2>1. i \in 0..L /\ i # 0 /\ \A n \in 1..4 : n <= i => i - n \in 0..L
    OBVIOUS
  <2>2. i \in lengths <=> Step(w, i)
    BY <1>9, <2>1
  <2>3. Step(w, i) <=> \E n \in 1..4 : n <= i /\ B(i, n) /\ w[i - n]
    BY <2>1, Zenon DEF Step
  <2>4. \A n \in 1..4 : n <= i => (w[i - n] <=> i - n \in lengths)
    BY <1>10, <2>1
  <2> QED BY <2>2, <2>3, <2>4, Zenon
<1> QED BY <1>11, <1>12, <1>13 DEF lengths, B

\* What is left of the source from p on.
LEMMA SubSeqIs ==
    ASSUME NEW s, NEW m \in Int, NEW n \in Int, m <= n + 1
    PROVE  SubSeq(s, m, n) = [k \in 1..n - m + 1 |-> s[k + m - 1]]
<1> DEFINE q == SubSeq(s, m, n)
           S == {s[i] : i \in m..n}
<1>1. \A i \in m..n : s[i] \in S
  OBVIOUS
<1>2. /\ q \in Seq(S)
      /\ Len(q) = IF m <= n THEN n - m + 1 ELSE 0
      /\ \A i \in 1..n - m + 1 : q[i] = s[m + i - 1]
  <2> HIDE DEF S
  <2> QED BY <1>1, SubSeqProperties
<1> HIDE DEF q, S
<1>3. q = [k \in 1..Len(q) |-> q[k]]
  BY <1>2
<1>4. Len(q) = n - m + 1 /\ \A k \in 1..n - m + 1 : k + m - 1 = m + k - 1
  BY <1>2
<1>5. \A k \in 1..Len(q) : q[k] = s[k + m - 1]
  BY <1>2, <1>4
<1>6. q = [k \in 1..n - m + 1 |-> s[k + m - 1]]
  BY <1>3, <1>4, <1>5, Zenon
<1> QED BY <1>6 DEF q

LEMMA RestChars ==
    ASSUME SrcOK, NEW p \in Nat \ {0}, p <= Len(src) + 1
    PROVE  LET rest == SubSeq(src, p, Len(src))
           IN  /\ Len(rest) = Len(src) - p + 1
               /\ Len(rest) \in Nat
               /\ \A k \in 1..Len(rest) : rest[k] = Byte(p + k - 1)
               /\ \A i \in 1..Len(rest), n \in 1..4 :
                    n <= i => SubSeq(rest, i - n + 1, i) = Char(p + i - n, n)
<1> DEFINE L == Len(src)
           rest == SubSeq(src, p, L)
<1>1. L \in Nat /\ src \in Seq(Bytes) /\ DOMAIN src = 1..L
  BY ByteIsByte DEF SrcOK
<1>2. rest = [k \in 1..L - p + 1 |-> src[k + p - 1]]
  BY <1>1
<1>3. Len(rest) = L - p + 1 /\ Len(rest) \in Nat
  BY <1>1
<1>4. ASSUME NEW k \in 1..Len(rest) PROVE rest[k] = Byte(p + k - 1)
  <2>1. k \in 1..L - p + 1 /\ k + p - 1 = p + k - 1 /\ p + k - 1 \in DOMAIN src
    BY <1>1, <1>3
  <2>2. rest[k] = src[p + k - 1]
    BY <1>2, <2>1
  <2> QED BY <2>1, <2>2 DEF Byte
<1> HIDE DEF L, rest
<1>5. ASSUME NEW i \in 1..Len(rest), NEW n \in 1..4, n <= i
      PROVE  SubSeq(rest, i - n + 1, i) = Char(p + i - n, n)
  <2>1. /\ i - (i - n + 1) + 1 = n
        /\ \A k \in 1..n : /\ k + (i - n + 1) - 1 \in 1..Len(rest)
                           /\ p + (k + (i - n + 1) - 1) - 1 = p + i - n + k - 1
    BY <1>3, <1>5
  <2>2. SubSeq(rest, i - n + 1, i) = [k \in 1..n |-> rest[k + (i - n + 1) - 1]]
    <3>1. i \in Int /\ i - n + 1 \in Int /\ i - n + 1 <= i + 1
      BY <1>3
    <3> QED BY <2>1, <3>1, SubSeqIs
  <2>3. \A k \in 1..n : rest[k + (i - n + 1) - 1] = Byte(p + i - n + k - 1)
    BY <1>4, <2>1
  <2> QED BY <2>2, <2>3, Zenon DEF Char
<1> QED BY <1>1, <1>3, <1>4, <1>5 DEF L, rest

\* A character is as many of the bytes of the source, none of them behind it.
LEMMA CharInSource ==
    ASSUME SrcOK, NEW i \in Nat \ {0}, NEW n \in 1..4
    PROVE  /\ i + n - 1 <= Len(src) => SubSeq(src, i, i + n - 1) = Char(i, n)
           /\ i <= Len(src) /\ WellFormed(Char(i, n)) => i + n - 1 <= Len(src)
<1>1. Len(src) \in Nat /\ DOMAIN src = 1..Len(src) /\ src \in Seq(Bytes)
  BY ByteIsByte DEF SrcOK
<1>2. ASSUME i + n - 1 <= Len(src) PROVE SubSeq(src, i, i + n - 1) = Char(i, n)
  <2>1. /\ (i + n - 1) - i + 1 = n
        /\ \A k \in 1..n : k + i - 1 = i + k - 1 /\ i + k - 1 \in DOMAIN src
    BY <1>1, <1>2
  <2>2. SubSeq(src, i, i + n - 1) = [k \in 1..n |-> src[k + i - 1]]
    <3>1. i \in Int /\ i + n - 1 \in Int /\ i <= i + n - 1 + 1
      OBVIOUS
    <3> QED BY <2>1, <3>1, SubSeqIs
  <2>3. \A k \in 1..n : src[k + i - 1] = Byte(i + k - 1)
    BY <2>1 DEF Byte
  <2> QED BY <2>2, <2>3, Zenon DEF Char
<1>3. ASSUME i <= Len(src), WellFormed(Char(i, n)) PROVE i + n - 1 <= Len(src)
  <2>1. CASE n = 1
    BY <1>1, <1>3, <2>1
  <2>2. CASE n # 1
    <3>1. Byte(i + n - 1) \in Follows
      <4>0. /\ Byte(i) \in Bytes /\ Byte(i + 1) \in Bytes /\ Byte(i + 2) \in Bytes /\ Byte(i + 3) \in Bytes
            /\ i + 2 - 1 = i + 1 /\ i + 3 - 1 = i + 2 /\ i + 4 - 1 = i + 3 /\ i \in Nat
        BY ByteIsByte
      <4>1. CASE n = 2
        BY <1>3, <4>0, <4>1, CharIs, WellFormed2
      <4>2. CASE n = 3
        <5>1. Char(i, 3) = <<Byte(i), Byte(i + 1), Byte(i + 2)>>
          BY <4>0, CharIs
        <5>2. WellFormed(<<Byte(i), Byte(i + 1), Byte(i + 2)>>)
          BY <1>3, <4>2, <5>1
        <5>3. Byte(i + 2) \in Follows
          BY <4>0, <5>2, WellFormed3
        <5> QED BY <4>0, <4>2, <5>3
      <4>3. CASE n = 4
        <5>1. Char(i, 4) = <<Byte(i), Byte(i + 1), Byte(i + 2), Byte(i + 3)>>
          BY <4>0, CharIs
        <5>2. WellFormed(<<Byte(i), Byte(i + 1), Byte(i + 2), Byte(i + 3)>>)
          BY <1>3, <4>3, <5>1
        <5>3. Byte(i + 3) \in Follows
          <6> DEFINE x == Byte(i)
                     y == Byte(i + 1)
                     z == Byte(i + 2)
                     w == Byte(i + 3)
          <6> HIDE DEF x, y, z, w
          <6>1. x \in Bytes /\ y \in Bytes /\ z \in Bytes /\ w \in Bytes /\ WellFormed(<<x, y, z, w>>)
            BY <4>0, <5>2 DEF x, y, z, w
          <6>2. w \in Follows
            BY <6>1, WellFormed4
          <6> QED BY <6>2 DEF w
        <5> QED BY <4>0, <4>3, <5>3
      <4> QED BY <2>2, <4>1, <4>2, <4>3
    <3>2. Byte(i + n - 1) # 0
      BY <3>1 DEF Follows
    <3>3. i + n - 1 \in DOMAIN src
      BY <3>2, ByteIsByte
    <3> QED BY <1>1, <3>3
  <2> QED BY <2>1, <2>2
<1> QED BY <1>2, <1>3

\* The loop gets past each text of characters that names may have, if none of
\* its bytes is outside the table.
LEMMA LengthsAreTaken ==
    ASSUME SrcOK, NEW p \in Nat \ {0}, p <= Len(src) + 1, NEW b \in Decoders, b.state = Accept,
           NEW q \in Nat, \A k \in Nat : p <= k /\ k < q => ~OutsideTable(Byte(k))
    PROVE  \A i \in IdentifierLengths(SubSeq(src, p, Len(src))) :
             p + i <= q =>
               \E v \in Decoders : v.state = Accept /\ IdentLoop[p][b] = IdentLoop[p + i][v]
<1> DEFINE rest == SubSeq(src, p, Len(src))
           lengths == IdentifierLengths(rest)
           Good(i) == \E v \in Decoders : v.state = Accept /\ IdentLoop[p][b] = IdentLoop[p + i][v]
           Bad == {i \in Nat : i \in lengths /\ p + i <= q /\ ~Good(i)}
<1>1. /\ Len(rest) \in Nat
      /\ \A i \in 1..Len(rest), n \in 1..4 :
           n <= i => SubSeq(rest, i - n + 1, i) = Char(p + i - n, n)
  BY RestChars
<1>2. /\ lengths \in SUBSET (0..Len(rest))
      /\ \A i \in 1..Len(rest) :
           i \in lengths <=>
             \E n \in 1..4 : /\ n <= i
                             /\ BelongsToIdentifier(SubSeq(rest, i - n + 1, i))
                             /\ i - n \in lengths
  BY <1>1, LengthsUnfold
<1> HIDE DEF rest, lengths, Good
<1>3. Bad = {}
  <2> SUFFICES ASSUME Bad # {} PROVE FALSE
    OBVIOUS
  <2>1. PICK i \in Bad : \A other \in Bad : i <= other
    BY LeastNatural
  <2>2. i \in Nat /\ i \in lengths /\ p + i <= q /\ ~Good(i)
    BY <2>1
  <2>3. CASE i = 0
    <3>1. p + i = p
      BY <2>3
    <3>2. Good(i)
      BY <3>1 DEF Good
    <3> QED BY <2>2, <3>2
  <2>4. CASE i # 0
    <3>1. i \in 1..Len(rest)
      BY <1>1, <1>2, <2>2, <2>4
    <3>2. PICK n \in 1..4 : /\ n <= i
                            /\ BelongsToIdentifier(SubSeq(rest, i - n + 1, i))
                            /\ i - n \in lengths
      BY <1>2, <2>2, <3>1
    <3>3. /\ i - n \in Nat /\ ~(i <= i - n) /\ p + (i - n) \in Nat
          /\ p + i - n = p + (i - n) /\ p + (i - n) + n = p + i
          /\ p <= p + (i - n) /\ p + (i - n) < q /\ p + (i - n) <= q
      BY <2>2, <3>2
    <3>4. Good(i - n)
      <4>1. i - n \notin Bad
        <5> HIDE DEF Bad
        <5> QED BY <2>1, <3>3
      <4> QED BY <3>2, <3>3, <4>1
    <3>5. PICK v \in Decoders : v.state = Accept /\ IdentLoop[p][b] = IdentLoop[p + (i - n)][v]
      BY <3>4 DEF Good
    <3> DEFINE c == Char(p + (i - n), n)
    <3>6. BelongsToIdentifier(c)
      BY <1>1, <3>1, <3>2, <3>3
    <3>7. WellFormed(c)
      BY <3>6 DEF BelongsToIdentifier
    <3>8. Taken(p + (i - n), n, v, Value(c))
      <4>1. ~OutsideTable(Byte(p + (i - n)))
        BY <3>3
      <4> QED BY <3>3, <3>5, <3>7, <4>1, TakesChar
    <3>9. ebi_is_identifier(Value(c))
      <4> HIDE DEF c
      <4>1. Value(c) \in Nat
        BY <3>7 DEF WellFormed, ScalarValues
      <4> QED BY <3>6, <4>1, BelongsIsIdentifier
    <3>10. \E u \in Decoders : /\ u.state = Accept
                               /\ IdentLoop[p + (i - n)][v] = IdentLoop[p + (i - n) + n][u]
      BY <3>8, <3>9 DEF Taken
    <3>11. Good(i)
      BY <3>3, <3>5, <3>10 DEF Good
    <3> QED BY <2>2, <3>11
  <2> QED BY <2>3, <2>4
<1>4. \A i \in lengths : p + i <= q => Good(i)
  <2>1. \A i \in lengths : i \in Nat
    BY <1>1, <1>2
  <2> QED BY <1>3, <2>1
<1> QED BY <1>4 DEF Good, lengths, rest

-----------------------------------------------------------------------------
\* The tables of tokens.
LEMMA SingleDomain ==
    DOMAIN SingleTypes = {0, 10, 59, 46, 58, 44, 40, 41, 123, 125, 91, 93} \cup Digits
BY DEF SingleTypes

LEMMA OperatorDomain ==
    DOMAIN OperatorTypes = {43, 45, 42, 47, 37, 60, 62, 33, 61}
BY DEF OperatorTypes

LEMMA KeywordTypes ==
    \A text \in DOMAIN ebi_kw_map :
      ebi_kw_map[text] \in {"KW_CLASS", "KW_DEF", "KW_RETURN", "KW_LET", "KW_STRUCT"}
BY DEF ebi_kw_map

\* Where the longest text of such characters ends that begins at p.
NameEnd(p) == p + Max(IdentifierLengths(SubSeq(src, p, Len(src))))

\* No character is well-formed there, and it is not the end of the source.
BadAt(end) ==
    /\ end <= Len(src)
    /\ \A n \in 1..4 : end + n - 1 <= Len(src) => ~WellFormed(SubSeq(src, end, end + n - 1))

LEMMA NameEndIs ==
    ASSUME SrcOK, NEW p \in Nat \ {0}, p <= Len(src) + 1
    PROVE  /\ NameEnd(p) \in Nat
           /\ p <= NameEnd(p)
           /\ NameEnd(p) <= Len(src) + 1
           /\ NameEnd(p) - p \in IdentifierLengths(SubSeq(src, p, Len(src)))
           /\ \A n \in 1..4 :
                NameEnd(p) <= Len(src) /\ WellFormed(Char(NameEnd(p), n)) =>
                  ~ebi_is_identifier(Value(Char(NameEnd(p), n)))
<1> DEFINE rest == SubSeq(src, p, Len(src))
           lengths == IdentifierLengths(rest)
           M == Max(lengths)
<1>1. /\ Len(rest) = Len(src) - p + 1 /\ Len(rest) \in Nat /\ Len(src) \in Nat
      /\ \A i \in 1..Len(rest), n \in 1..4 :
           n <= i => SubSeq(rest, i - n + 1, i) = Char(p + i - n, n)
  BY RestChars, ByteIsByte
<1>2. /\ lengths \in SUBSET (0..Len(rest))
      /\ 0 \in lengths
      /\ \A i \in 1..Len(rest) :
           i \in lengths <=>
             \E n \in 1..4 : /\ n <= i
                             /\ BelongsToIdentifier(SubSeq(rest, i - n + 1, i))
                             /\ i - n \in lengths
  BY <1>1, LengthsUnfold
<1>3. NameEnd(p) = p + M
  BY DEF NameEnd
<1> HIDE DEF rest, lengths
<1>4. M \in lengths /\ \A i \in lengths : i <= M
  BY <1>1, <1>2, GreatestNatural
<1> HIDE DEF M
<1>5. M \in Nat /\ M <= Len(rest)
  BY <1>1, <1>2, <1>4
<1>6. ASSUME NEW n \in 1..4, p + M <= Len(src), WellFormed(Char(p + M, n)),
             ebi_is_identifier(Value(Char(p + M, n)))
      PROVE  FALSE
  <2> DEFINE i == M + n
             c == Char(p + M, n)
  <2>1. p + M \in Nat \ {0}
    BY <1>5
  <2>2. p + M + n - 1 <= Len(src)
    BY <1>6, <2>1, CharInSource
  <2>3. i \in 1..Len(rest) /\ n <= i /\ p + i - n = p + M /\ i - n = M /\ ~(i <= M)
    BY <1>1, <1>5, <2>2
  <2> HIDE DEF i
  <2>4. SubSeq(rest, i - n + 1, i) = c
    BY <1>1, <2>3
  <2> HIDE DEF c
  <2>5. Value(c) \in Nat
    BY <1>6 DEF WellFormed, ScalarValues, c
  <2>6. BelongsToIdentifier(c)
    BY <1>6, <2>5, BelongsIsIdentifier DEF c
  <2>7. i \in lengths
    BY <1>2, <1>4, <2>3, <2>4, <2>6
  <2> QED BY <1>4, <2>3, <2>7
<1>7. NameEnd(p) \in Nat /\ p <= NameEnd(p) /\ NameEnd(p) <= Len(src) + 1 /\ NameEnd(p) - p = M
  BY <1>1, <1>3, <1>5
<1>8. \A n \in 1..4 :
        NameEnd(p) <= Len(src) /\ WellFormed(Char(NameEnd(p), n)) =>
          ~ebi_is_identifier(Value(Char(NameEnd(p), n)))
  BY <1>3, <1>6
<1> QED BY <1>4, <1>7, <1>8 DEF lengths, rest

\* The first bytes of such a text are one too, if they are ASCII.
LEMMA AsciiPrefix ==
    ASSUME SrcOK, NEW p \in Nat \ {0}, p <= Len(src) + 1,
           NEW k \in Nat, \A i \in Nat : p <= i /\ i < p + k => Byte(i) < 128,
           NEW m \in IdentifierLengths(SubSeq(src, p, Len(src))), k <= m
    PROVE  k \in IdentifierLengths(SubSeq(src, p, Len(src)))
<1> DEFINE rest == SubSeq(src, p, Len(src))
           lengths == IdentifierLengths(rest)
           Above == {i \in Nat : i \in lengths /\ k <= i}
<1>1. /\ Len(rest) \in Nat
      /\ \A i \in 1..Len(rest), n \in 1..4 :
           n <= i => SubSeq(rest, i - n + 1, i) = Char(p + i - n, n)
  BY RestChars
<1>2. /\ lengths \in SUBSET (0..Len(rest))
      /\ 0 \in lengths
      /\ \A i \in 1..Len(rest) :
           i \in lengths <=>
             \E n \in 1..4 : /\ n <= i
                             /\ BelongsToIdentifier(SubSeq(rest, i - n + 1, i))
                             /\ i - n \in lengths
  BY <1>1, LengthsUnfold
<1> HIDE DEF rest, lengths
<1>3. m \in Above
  BY <1>1, <1>2 DEF lengths, rest
<1>4. PICK i \in Above : \A other \in Above : i <= other
  BY <1>3, LeastNatural
<1>5. i \in Nat /\ i \in lengths /\ k <= i
  BY <1>4
<1>6. SUFFICES ASSUME k < i PROVE FALSE
  BY <1>5 DEF lengths, rest
<1>7. i \in 1..Len(rest)
  BY <1>1, <1>2, <1>5, <1>6
<1>8. PICK n \in 1..4 : /\ n <= i
                        /\ BelongsToIdentifier(SubSeq(rest, i - n + 1, i))
                        /\ i - n \in lengths
  BY <1>2, <1>5, <1>7
<1>9. i - n \in Nat /\ ~(i <= i - n) /\ p + i - n \in Nat /\ p <= p + i - n
  BY <1>5, <1>8
<1>10. i - n \notin Above
  <2> HIDE DEF Above
  <2> QED BY <1>4, <1>9
<1>11. i - n < k
  BY <1>8, <1>9, <1>10
<1>12. n # 1 /\ p + i - n < p + k
  BY <1>5, <1>6, <1>9, <1>11
<1>13. Byte(p + i - n) < 128
  BY <1>9, <1>12
<1>14. WellFormed(Char(p + i - n, n))
  <2>1. SubSeq(rest, i - n + 1, i) = Char(p + i - n, n)
    BY <1>1, <1>7, <1>8
  <2> QED BY <1>8, <2>1 DEF BelongsToIdentifier
<1> QED BY <1>9, <1>12, <1>13, <1>14, AsciiChar

\* A byte that is not ASCII follows the ASCII characters of a name.
MeetsForeign(p) ==
    \E n \in IdentifierLengths(SubSeq(src, p, Len(src))) :
      /\ Byte(p + n) >= \h80
      /\ \A i \in p..p + n - 1 : src[i] < \h80

\* If there is none, all of the name and what follows it is ASCII.
LEMMA AllAscii ==
    ASSUME SrcOK, NEW p \in Nat \ {0}, p <= Len(src) + 1, ~MeetsForeign(p)
    PROVE  \A i \in Nat : p <= i /\ i <= NameEnd(p) => Byte(i) < 128
<1> DEFINE rest == SubSeq(src, p, Len(src))
           lengths == IdentifierLengths(rest)
           end == NameEnd(p)
           Foreign == {i \in Nat : p <= i /\ i <= end /\ ~(Byte(i) < 128)}
<1>1. end \in Nat /\ p <= end /\ end - p \in lengths
  BY NameEndIs
<1> HIDE DEF end, lengths, rest
<1>2. SUFFICES ASSUME Foreign # {} PROVE FALSE
  BY DEF end
<1>3. PICK q \in Foreign : \A other \in Foreign : q <= other
  BY <1>2, LeastNatural
<1>4. q \in Nat /\ p <= q /\ q <= end /\ ~(Byte(q) < 128)
  BY <1>3
<1>5. \A i \in Nat : p <= i /\ i < q => Byte(i) < 128
  <2> TAKE i \in Nat
  <2> HAVE p <= i /\ i < q
  <2>1. ~(q <= i) /\ i <= end
    BY <1>1, <1>4
  <2> HIDE DEF Foreign
  <2>2. i \notin Foreign
    BY <1>3, <2>1
  <2> QED BY <2>1, <2>2 DEF Foreign
<1>6. q - p \in Nat /\ p + (q - p) = q /\ q - p <= end - p
  BY <1>1, <1>4
<1>7. q - p \in lengths
  <2>1. \A i \in Nat : p <= i /\ i < p + (q - p) => Byte(i) < 128
    BY <1>5, <1>6
  <2> QED BY <1>1, <1>6, <2>1, AsciiPrefix DEF lengths, rest
<1>8. Byte(q) \in Bytes /\ DOMAIN src = 1..Len(src) /\ Len(src) \in Nat
  BY ByteIsByte DEF SrcOK
<1>9. Byte(p + (q - p)) >= 128
  <2>1. \A x \in Bytes : ~(x < 128) => x >= 128
    BY DEF Bytes
  <2>2. Byte(q) >= 128
    BY <1>4, <1>8, <2>1
  <2> QED BY <1>6, <2>2
<1>10. q \in 1..Len(src)
  <2>1. Byte(q) # 0
    BY <1>4
  <2> QED BY <2>1, ByteIsByte
<1>11. \A i \in p..p + (q - p) - 1 : src[i] < 128
  <2> TAKE i \in p..p + (q - p) - 1
  <2>1. i \in Nat /\ p <= i /\ i < q /\ i \in 1..Len(src)
    BY <1>6, <1>8, <1>10
  <2> QED BY <1>5, <1>8, <2>1 DEF Byte
<1> QED BY <1>7, <1>9, <1>11 DEF MeetsForeign, lengths, rest

\* The loop gets to the end of the name, and rejects or stops at the character
\* that follows, unless it has met a byte that is outside the table.
LEMMA IdentEnds ==
    ASSUME SrcOK, NEW p \in Nat \ {0}, p <= Len(src) + 1
    PROVE  /\ IdentEnd(p).state = NoState <=> signed_char /\ MeetsForeign(p)
           /\ IdentEnd(p).state = Reject <=> ~signed_char /\ BadAt(NameEnd(p))
           /\ IdentEnd(p).state = Accept =>
                \E n \in 1..4 : /\ WellFormed(Char(NameEnd(p), n))
                                /\ n = 1 \/ NameEnd(p) <= Len(src)
                                /\ IdentEnd(p).stop = NameEnd(p) + n - 1
<1> DEFINE fresh == [state |-> Accept, codep |-> 0]
           end == NameEnd(p)
<1>1. fresh \in Decoders /\ fresh.state = Accept
  BY DEF Decoders, Accept
<1>2. IdentEnd(p) = IdentLoop[p][fresh]
  BY DEF IdentEnd
<1> HIDE DEF fresh
<1>3. /\ end \in Nat \ {0} /\ p <= end /\ end <= Len(src) + 1 /\ p + (end - p) = end
      /\ end - p \in IdentifierLengths(SubSeq(src, p, Len(src)))
      /\ \A n \in 1..4 :
           end <= Len(src) /\ WellFormed(Char(end, n)) => ~ebi_is_identifier(Value(Char(end, n)))
  <2>1. /\ end \in Nat /\ p <= end /\ end <= Len(src) + 1
        /\ end - p \in IdentifierLengths(SubSeq(src, p, Len(src)))
        /\ \A n \in 1..4 :
             end <= Len(src) /\ WellFormed(Char(end, n)) => ~ebi_is_identifier(Value(Char(end, n)))
    BY NameEndIs
  <2> HIDE DEF end
  <2>2. end \in Nat \ {0} /\ p + (end - p) = end
    BY <2>1
  <2> QED BY <2>1, <2>2
<1> HIDE DEF end
<1>4. Len(src) \in Nat /\ Byte(end) \in Bytes
  BY ByteIsByte
<1>5. ASSUME NEW n \in 1..4, WellFormed(Char(end, n)), n = 1 \/ end <= Len(src)
      PROVE  ~ebi_is_identifier(Value(Char(end, n)))
  <2>1. CASE end <= Len(src)
    BY <1>3, <1>5, <2>1
  <2>2. CASE ~(end <= Len(src))
    <3>1. n = 1 /\ Byte(end) = 0
      <4>1. end \notin 1..Len(src)
        BY <1>3, <1>4, <2>2
      <4> QED BY <4>1, <1>5, <2>2, ByteIsByte
    <3>2. Value(Char(end, n)) = 0
      BY <1>3, <3>1, AsciiChar
    <3>3. 0 \notin DenseChars
      BY DEF DenseChars
    <3>4. ~ebi_is_identifier(0)
      BY <3>3, LatinIdentifiers
    <3> QED BY <3>2, <3>4
  <2> QED BY <2>1, <2>2
<1>6. CASE signed_char /\ MeetsForeign(p)
  <2>1. PICK n \in IdentifierLengths(SubSeq(src, p, Len(src))) :
          /\ Byte(p + n) >= 128
          /\ \A i \in p..p + n - 1 : src[i] < 128
    BY <1>6 DEF MeetsForeign
  <2>2. n \in Nat /\ p + n \in Nat
    <3>1. Len(SubSeq(src, p, Len(src))) \in Nat
      BY RestChars
    <3>2. n \in 0..Len(SubSeq(src, p, Len(src)))
      BY <3>1, LengthsUnfold
    <3> QED BY <3>1, <3>2
  <2>3. p + n \in DOMAIN src
    <3>1. Byte(p + n) # 0
      BY <2>1
    <3> QED BY <3>1, ByteIsByte
  <2>4. \A k \in Nat : p <= k /\ k < p + n => ~OutsideTable(Byte(k))
    <3> TAKE k \in Nat
    <3> HAVE p <= k /\ k < p + n
    <3>1. k \in p..p + n - 1 /\ p + n \in 1..Len(src)
      BY <2>2, <2>3, ByteIsByte
    <3>2. k \in 1..Len(src)
      BY <1>4, <3>1
    <3>3. k \in DOMAIN src /\ Byte(k) \in Bytes
      BY <3>2, ByteIsByte
    <3>4. Byte(k) = src[k] /\ src[k] < 128
      BY <2>1, <3>1, <3>3 DEF Byte
    <3>5. \A x \in Bytes : x < 128 => ~(x >= 128)
      BY DEF Bytes
    <3> QED BY <3>3, <3>4, <3>5 DEF OutsideTable
  <2>5. PICK b \in Decoders : b.state = Accept /\ IdentLoop[p][fresh] = IdentLoop[p + n][b]
    <3> DEFINE q == p + n
    <3>1. q \in Nat /\ q <= q /\ \A k \in Nat : p <= k /\ k < q => ~OutsideTable(Byte(k))
      BY <2>2, <2>4
    <3> HIDE DEF q
    <3>2. \A i \in IdentifierLengths(SubSeq(src, p, Len(src))) :
            p + i <= q =>
              \E b \in Decoders : b.state = Accept /\ IdentLoop[p][fresh] = IdentLoop[p + i][b]
      BY <1>1, <3>1, LengthsAreTaken
    <3>3. p + n <= q
      BY <3>1 DEF q
    <3> QED BY <3>2, <3>3
  <2>6. OutsideTable(Byte(p + n))
    BY <1>6, <2>1 DEF OutsideTable
  <2>7. Ends(Decoded(p + n, b)) /\ Decoded(p + n, b).state = NoState
    BY <2>6, DecodedIsDecoder
  <2>8. IdentLoop[p + n][b].state = NoState
    <3>1. IdentLoop[p + n][b] = [stop |-> p + n, state |-> Decoded(p + n, b).state]
      BY <2>2, <2>7, IdentLoopUnfolds
    <3> QED BY <2>7, <3>1
  <2>9. NoState # Accept /\ NoState # Reject
    BY DEF NoState, Accept, Reject
  <2> QED BY <1>2, <1>6, <2>5, <2>8, <2>9
<1>7. CASE ~(signed_char /\ MeetsForeign(p))
  <2>1. \A k \in Nat : p <= k /\ k <= end => ~OutsideTable(Byte(k))
    <3>1. CASE ~signed_char
      BY <3>1 DEF OutsideTable
    <3>2. CASE ~MeetsForeign(p)
      <4>1. \A k \in Nat : p <= k /\ k <= end => Byte(k) < 128
        BY <3>2, AllAscii DEF end
      <4>2. \A k : Byte(k) \in Bytes
        BY ByteIsByte
      <4>3. \A x \in Bytes : x < 128 => ~(x >= 128)
        BY DEF Bytes
      <4> QED BY <4>1, <4>2, <4>3 DEF OutsideTable
    <3> QED BY <1>7, <3>1, <3>2
  <2>2. PICK b \in Decoders : b.state = Accept /\ IdentLoop[p][fresh] = IdentLoop[end][b]
    <3>1. \A k \in Nat : p <= k /\ k < end => ~OutsideTable(Byte(k))
      BY <1>3, <2>1
    <3>2. end \in Nat /\ p + (end - p) <= end
      BY <1>3
    <3>3. \A i \in IdentifierLengths(SubSeq(src, p, Len(src))) :
            p + i <= end =>
              \E b \in Decoders : b.state = Accept /\ IdentLoop[p][fresh] = IdentLoop[p + i][b]
      BY <1>1, <3>1, <3>2, LengthsAreTaken
    <3> QED BY <1>3, <3>2, <3>3
  <2>3. ~OutsideTable(Byte(end))
    BY <1>3, <2>1
  <2>4. ASSUME NEW n \in 1..4, WellFormed(Char(end, n)), n = 1 \/ end <= Len(src)
        PROVE  IdentLoop[end][b] = [stop |-> end + n - 1, state |-> Accept]
    <3>1. Taken(end, n, b, Value(Char(end, n)))
      BY <1>3, <2>2, <2>3, <2>4, TakesChar
    <3> QED BY <1>5, <2>4, <3>1 DEF Taken
  <2>5. ASSUME NEW n \in 1..4, WellFormed(Char(end, n)), n = 1 \/ end <= Len(src)
        PROVE  /\ IdentLoop[end][b].state = Accept
               /\ \E m \in 1..4 : /\ WellFormed(Char(end, m))
                                  /\ m = 1 \/ end <= Len(src)
                                  /\ IdentLoop[end][b].stop = end + m - 1
    BY <2>4, <2>5
  <2>6. CASE Byte(end) < 128
    <3>1. WellFormed(Char(end, 1)) /\ \A n \in 1..4 : WellFormed(Char(end, n)) => n = 1
      BY <1>3, <2>6, AsciiChar
    <3>2. ~BadAt(end)
      <4> SUFFICES ASSUME BadAt(end) PROVE FALSE
        OBVIOUS
      <4>1. end <= Len(src) /\ end + 1 - 1 <= Len(src)
        BY <1>3 DEF BadAt
      <4>2. SubSeq(src, end, end + 1 - 1) = Char(end, 1)
        BY <1>3, <4>1, CharInSource
      <4>3. ~WellFormed(SubSeq(src, end, end + 1 - 1))
        <5>1. 1 \in 1..4
          OBVIOUS
        <5> QED BY <4>1, <5>1 DEF BadAt
      <4> QED BY <3>1, <4>2, <4>3
    <3>3. IdentLoop[end][b].state = Accept
      BY <2>5, <3>1
    <3>4. IdentLoop[end][b].state # Reject /\ IdentLoop[end][b].state # NoState
      BY <3>3 DEF Accept, Reject, NoState
    <3>5. \E m \in 1..4 : /\ WellFormed(Char(end, m))
                          /\ m = 1 \/ end <= Len(src)
                          /\ IdentLoop[end][b].stop = end + m - 1
      BY <2>5, <3>1
    <3> QED BY <1>2, <1>7, <2>2, <3>2, <3>4, <3>5 DEF end
  <2>7. CASE ~(Byte(end) < 128)
    <3>1. ~signed_char
      <4>1. \A x \in Bytes : ~(x < 128) => x >= 128
        BY DEF Bytes
      <4> QED BY <1>4, <2>3, <2>7, <4>1 DEF OutsideTable
    <3>2. end <= Len(src)
      <4>1. Byte(end) # 0
        BY <2>7
      <4>2. end \in 1..Len(src)
        BY <4>1, ByteIsByte
      <4> QED BY <4>2
    <3>3. CASE BadAt(end)
      <4>1. \A n \in 1..4 : ~WellFormed(Char(end, n))
        <5> TAKE n \in 1..4
        <5>1. SUFFICES ASSUME WellFormed(Char(end, n)) PROVE FALSE
          OBVIOUS
        <5>2. end + n - 1 <= Len(src) /\ SubSeq(src, end, end + n - 1) = Char(end, n)
          BY <1>3, <3>2, <5>1, CharInSource
        <5> QED BY <3>3, <5>1, <5>2 DEF BadAt
      <4>2. IdentLoop[end][b].state = Reject
        BY <1>3, <2>2, <3>1, <4>1, RejectsBytes
      <4>3. Reject # Accept /\ Reject # NoState
        BY DEF Reject, Accept, NoState
      <4> QED BY <1>2, <2>2, <3>1, <3>3, <4>2, <4>3 DEF end
    <3>4. CASE ~BadAt(end)
      <4>1. PICK n \in 1..4 : end + n - 1 <= Len(src) /\ WellFormed(SubSeq(src, end, end + n - 1))
        BY <3>2, <3>4 DEF BadAt
      <4>2. WellFormed(Char(end, n))
        BY <1>3, <4>1, CharInSource
      <4>3. IdentLoop[end][b].state = Accept
        BY <2>5, <3>2, <4>2
      <4>4. \E m \in 1..4 : /\ WellFormed(Char(end, m))
                            /\ m = 1 \/ end <= Len(src)
                            /\ IdentLoop[end][b].stop = end + m - 1
        BY <2>5, <3>2, <4>2
      <4>5. IdentLoop[end][b].state # Reject /\ IdentLoop[end][b].state # NoState
        BY <4>3 DEF Accept, Reject, NoState
      <4> QED BY <1>2, <2>2, <3>1, <3>4, <4>4, <4>5 DEF end
    <3> QED BY <3>3, <3>4
  <2> QED BY <2>6, <2>7
<1> QED BY <1>6, <1>7

LEMMA ScansIdent ==
    ASSUME PtrInv, Byte(SkipBlanks(src_ptr)) \notin DOMAIN SingleTypes \cup DOMAIN OperatorTypes
    PROVE  Scanned = ScanIdent(SkipBlanks(src_ptr))
<1> DEFINE from == SkipBlanks(src_ptr)
<1>1. Scanned = ScanToken(from, Byte(from + 1), Byte(src_ptr + 1) = \h3d)
  BY DEF Scanned
<1> HIDE DEF from
<1>2. 61 \in DOMAIN OperatorTypes
  BY OperatorDomain
<1>3. Byte(from) \notin DOMAIN SingleTypes /\ Byte(from) \notin DOMAIN OperatorTypes /\ Byte(from) # 61
  BY <1>2 DEF from
<1>4. \A nc, e : ScanToken(from, nc, e) = ScanIdent(from)
  BY <1>3 DEF ScanToken
<1> QED BY <1>1, <1>4 DEF from

\* The types that a name can have, by the state in which the loop ends.
LEMMA IdentTypes ==
    ASSUME NEW p
    PROVE  /\ ScanIdent(p).type = "ERROR_BAD_UTF8" <=> IdentEnd(p).state = Reject
           /\ ScanIdent(p).type = Undefined <=> IdentEnd(p).state = NoState
           /\ IdentEnd(p).state \notin {Reject, NoState} =>
                ScanIdent(p).type =
                  LET text == SubSeq(src, p, IdentEnd(p).stop - 1)
                  IN  IF IdentEnd(p).stop = p THEN "ERROR_BAD_TOKEN"
                      ELSE IF text \in DOMAIN ebi_kw_map THEN ebi_kw_map[text]
                      ELSE "IDENT"
<1> DEFINE end == IdentEnd(p)
           text == SubSeq(src, p, end.stop - 1)
<1>1. ScanIdent(p).type = IF end.state = NoState THEN Undefined
                          ELSE IF end.state = Reject THEN "ERROR_BAD_UTF8"
                          ELSE IF end.stop = p THEN "ERROR_BAD_TOKEN"
                          ELSE IF text \in DOMAIN ebi_kw_map THEN ebi_kw_map[text]
                          ELSE "IDENT"
  BY DEF ScanIdent
<1>2. text \in DOMAIN ebi_kw_map => ebi_kw_map[text] \notin {"ERROR_BAD_UTF8", Undefined}
  BY KeywordTypes DEF Undefined
<1>3. Undefined \notin {"ERROR_BAD_UTF8", "ERROR_BAD_TOKEN", "IDENT"} /\ NoState # Reject
  BY DEF Undefined, NoState, Reject
<1> HIDE DEF end, text
<1> QED BY <1>1, <1>2, <1>3 DEF end, text

(***************************************************************************)
(* For any source: the scanner refuses it as bad UTF-8 exactly where char  *)
(* is unsigned and no well-formed character follows those of an            *)
(* identifier; and what it does is undefined exactly where char is signed  *)
(* and a byte that is not ASCII follows the ASCII ones of an identifier.   *)
(***************************************************************************)
THEOREM BadUtf8IsRefused == Spec => RefusesOnlyBadUtf8
<1> DEFINE Refuses ==
             \A p \in DOMAIN src :
               LET rest == SubSeq(src, p, Len(src))
                   end == p + Max(IdentifierLengths(rest))
               IN  p = token'.from /\ NameBegins(p) =>
                     /\ token'.type = "ERROR_BAD_UTF8" <=>
                          /\ ~signed_char
                          /\ end <= Len(src)
                          /\ \A n \in 1..4 : end + n - 1 <= Len(src) =>
                               ~WellFormed(SubSeq(src, end, end + n - 1))
                     /\ token'.type = Undefined <=>
                          /\ signed_char
                          /\ \E n \in IdentifierLengths(rest) :
                               /\ Byte(p + n) >= \h80
                               /\ \A i \in p..p + n - 1 : src[i] < \h80
           Short(p) ==
             /\ token'.type = "ERROR_BAD_UTF8" <=> ~signed_char /\ BadAt(NameEnd(p))
             /\ token'.type = Undefined <=> signed_char /\ MeetsForeign(p)
<1>0. (\A p \in DOMAIN src : p = token'.from /\ NameBegins(p) => Short(p)) => Refuses
  BY Zenon DEF NameEnd, BadAt, MeetsForeign
<1>1. PtrInv /\ [ebi_scan]_vars => [Refuses]_vars
  <2> SUFFICES ASSUME PtrInv, ebi_scan, token'.from \in DOMAIN src, NameBegins(token'.from)
               PROVE  Short(token'.from)
    <3> HIDE DEF Refuses, Short
    <3> QED BY <1>0
  <2> DEFINE p == SkipBlanks(src_ptr)
             end == IdentEnd(p)
  <2>1. token'.from = p /\ token'.type = Scanned.type
    BY StepTakes, TokenEnds
  <2>2. p \in Nat \ {0}
    BY BlanksEnd
  <2>3. p \in DOMAIN src /\ Byte(p) \notin DOMAIN SingleTypes \cup DOMAIN OperatorTypes
    <3> HIDE DEF p
    <3> QED BY <2>1 DEF Byte, NameBegins
  <2>4. Scanned = ScanIdent(p)
    BY <2>3, ScansIdent
  <2> HIDE DEF p
  <2>5. p <= Len(src) + 1
    <3>1. p \in 1..Len(src) /\ Len(src) \in Nat
      BY <2>3, ByteIsByte DEF PtrInv
    <3> QED BY <3>1
  <2>6. /\ end.state = NoState <=> signed_char /\ MeetsForeign(p)
        /\ end.state = Reject <=> ~signed_char /\ BadAt(NameEnd(p))
    BY <2>2, <2>5, IdentEnds DEF PtrInv
  <2>7. /\ ScanIdent(p).type = "ERROR_BAD_UTF8" <=> end.state = Reject
        /\ ScanIdent(p).type = Undefined <=> end.state = NoState
    BY IdentTypes
  <2> QED BY <2>1, <2>4, <2>6, <2>7
<1>2. Spec => [][Refuses]_vars
  BY <1>1, PtrInitInv, PtrNextInv, PTL DEF Spec
<1> QED BY <1>2 DEF RefusesOnlyBadUtf8

-----------------------------------------------------------------------------
(***************************************************************************)
(* The longest text that is a token.                                       *)
(***************************************************************************)
LEMMA TypesAreNotIdent ==
    /\ \A c \in DOMAIN SingleTypes : SingleTypes[c] # "IDENT"
    /\ \A c \in DOMAIN OperatorTypes : OperatorTypes[c][1] # "IDENT" /\ OperatorTypes[c][2] # "IDENT"
<1>1. \A c \in DOMAIN SingleTypes : SingleTypes[c] # "IDENT"
  BY DEF SingleTypes
<1>2. \A c \in DOMAIN OperatorTypes : OperatorTypes[c][1] # "IDENT" /\ OperatorTypes[c][2] # "IDENT"
  BY DEF OperatorTypes
<1> QED BY <1>1, <1>2

Letters == 97..122

LEMMA KeywordDomain ==
    DOMAIN ebi_kw_map = {KwClass, KwDef, KwReturn, KwLet, KwStruct}
BY DEF ebi_kw_map

LEMMA KeywordLetters ==
    ASSUME NEW text \in DOMAIN ebi_kw_map
    PROVE  /\ Len(text) \in 3..6
           /\ \A k \in 1..Len(text) : text[k] \in Letters
<1>1. text \in {KwClass, KwDef, KwReturn, KwLet, KwStruct}
  BY KeywordDomain
<1>2. CASE text = KwClass
  BY <1>2 DEF KwClass, Letters
<1>3. CASE text = KwDef
  BY <1>3 DEF KwDef, Letters
<1>4. CASE text = KwReturn
  BY <1>4 DEF KwReturn, Letters
<1>5. CASE text = KwLet
  BY <1>5 DEF KwLet, Letters
<1>6. CASE text = KwStruct
  BY <1>6 DEF KwStruct, Letters
<1> QED BY <1>1, <1>2, <1>3, <1>4, <1>5, <1>6

\* A byte that is no character of several and no part of names begins none.
LEMMA NoName ==
    ASSUME SrcOK, NEW p \in Nat \ {0}, p <= Len(src) + 1, Byte(p) < 128, Byte(p) \notin DenseChars
    PROVE  \A n \in IdentifierLengths(SubSeq(src, p, Len(src))) : n = 0
<1> DEFINE rest == SubSeq(src, p, Len(src))
           lengths == IdentifierLengths(rest)
           Some == {n \in Nat : n \in lengths /\ n > 0}
<1>1. /\ Len(rest) \in Nat
      /\ \A i \in 1..Len(rest), n \in 1..4 :
           n <= i => SubSeq(rest, i - n + 1, i) = Char(p + i - n, n)
  BY RestChars
<1>2. /\ lengths \in SUBSET (0..Len(rest))
      /\ \A i \in 1..Len(rest) :
           i \in lengths <=>
             \E n \in 1..4 : /\ n <= i
                             /\ BelongsToIdentifier(SubSeq(rest, i - n + 1, i))
                             /\ i - n \in lengths
  BY <1>1, LengthsUnfold
<1> HIDE DEF rest, lengths
<1>3. Some = {}
  <2> SUFFICES ASSUME Some # {} PROVE FALSE
    OBVIOUS
  <2>1. PICK n \in Some : \A other \in Some : n <= other
    BY LeastNatural
  <2>2. n \in lengths /\ n \in 1..Len(rest)
    BY <1>1, <1>2, <2>1
  <2>3. PICK m \in 1..4 : /\ m <= n
                          /\ BelongsToIdentifier(SubSeq(rest, n - m + 1, n))
                          /\ n - m \in lengths
    BY <1>2, <2>2
  <2>4. n - m \in Nat /\ ~(n <= n - m)
    BY <2>1, <2>3
  <2>5. n - m \notin Some
    <3> HIDE DEF Some
    <3> QED BY <2>1, <2>4
  <2>6. p + n - m = p
    BY <2>3, <2>4, <2>5
  <2>7. BelongsToIdentifier(Char(p, m))
    BY <1>1, <2>2, <2>3, <2>6
  <2> DEFINE c == Char(p, m)
  <2>8. WellFormed(c) /\ Value(c) \in Nat
    <3> HIDE DEF c
    <3> QED BY <2>7 DEF BelongsToIdentifier, WellFormed, ScalarValues, c
  <2>9. m = 1 /\ Value(c) = Byte(p)
    BY <2>8, AsciiChar
  <2>10. Byte(p) \in Bytes
    BY ByteIsByte
  <2>11. ~ebi_is_identifier(Byte(p))
    <3>1. \A x \in Bytes : x \in Nat /\ x < 256
      BY DEF Bytes
    <3>2. Byte(p) \in Nat /\ Byte(p) < 256
      BY <2>10, <3>1
    <3> QED BY <3>2, LatinIdentifiers
  <2> HIDE DEF c
  <2> QED BY <2>7, <2>8, <2>9, <2>11, BelongsIsIdentifier DEF c
<1>4. \A n \in lengths : n \in Nat
  BY <1>1, <1>2
<1>5. \A n \in lengths : n = 0
  BY <1>3, <1>4
<1> QED BY <1>5 DEF lengths, rest

\* The letters of a keyword are those of a name.
LEMMA KeywordIsName ==
    ASSUME SrcOK, NEW p \in Nat \ {0}, p <= Len(src) + 1,
           NEW n \in 1..Len(SubSeq(src, p, Len(src))),
           SubSeq(SubSeq(src, p, Len(src)), 1, n) \in DOMAIN ebi_kw_map
    PROVE  n \in IdentifierLengths(SubSeq(src, p, Len(src)))
<1> DEFINE rest == SubSeq(src, p, Len(src))
           lengths == IdentifierLengths(rest)
           text == SubSeq(rest, 1, n)
           Bad == {i \in Nat : i <= n /\ i \notin lengths}
<1>1. /\ Len(rest) \in Nat
      /\ \A k \in 1..Len(rest) : rest[k] = Byte(p + k - 1)
      /\ \A i \in 1..Len(rest), m \in 1..4 :
           m <= i => SubSeq(rest, i - m + 1, i) = Char(p + i - m, m)
  BY RestChars
<1>2. /\ 0 \in lengths
      /\ \A i \in 1..Len(rest) :
           i \in lengths <=>
             \E m \in 1..4 : /\ m <= i
                             /\ BelongsToIdentifier(SubSeq(rest, i - m + 1, i))
                             /\ i - m \in lengths
  BY <1>1, LengthsUnfold
<1>0. n \in Nat /\ n <= Len(rest)
  <2>1. n \in 1..Len(rest)
    OBVIOUS
  <2> HIDE DEF rest
  <2> QED BY <1>1, <2>1
<1> HIDE DEF rest, lengths
<1>3. text = [k \in 1..n |-> rest[k]]
  <2>1. 1 \in Int /\ n \in Int /\ 1 <= n + 1 /\ n - 1 + 1 = n
    BY <1>1
  <2>2. text = [k \in 1..n - 1 + 1 |-> rest[k + 1 - 1]]
    BY <2>1, SubSeqIs
  <2>3. \A k \in 1..n : k + 1 - 1 = k
    BY <2>1
  <2> HIDE DEF text
  <2> QED BY <2>1, <2>2, <2>3
<1>4. Len(text) = n /\ \A k \in 1..n : text[k] = rest[k]
  <2>1. n \in Nat
    BY <1>1
  <2> HIDE DEF text
  <2> QED BY <1>3, <2>1
<1>5. \A k \in 1..n : rest[k] \in Letters
  <2>1. text \in DOMAIN ebi_kw_map
    BY DEF rest
  <2> HIDE DEF text
  <2> QED BY <1>4, <2>1, KeywordLetters
<1>6. Bad = {}
  <2> SUFFICES ASSUME Bad # {} PROVE FALSE
    OBVIOUS
  <2>1. PICK i \in Bad : \A other \in Bad : i <= other
    BY LeastNatural
  <2>2. i \in Nat /\ i <= n /\ i \notin lengths /\ i # 0
    BY <1>2, <2>1
  <2>3. i - 1 \in Nat /\ i - 1 \in lengths
    <3>1. i - 1 \in Nat /\ i - 1 <= n /\ ~(i <= i - 1)
      BY <1>1, <2>2
    <3>2. i - 1 \notin Bad
      <4> HIDE DEF Bad
      <4> QED BY <2>1, <3>1
    <3> QED BY <3>1, <3>2
  <2> HIDE DEF Bad
  <2>4. i \in 1..Len(rest) /\ i \in 1..n /\ 1 <= i /\ p + i - 1 \in Nat /\ i - 1 + 1 = i
    BY <1>0, <1>1, <2>2
  <2> DEFINE x == Byte(p + i - 1)
  <2>5. SubSeq(rest, i - 1 + 1, i) = <<x>>
    <3>1. SubSeq(rest, i - 1 + 1, i) = Char(p + i - 1, 1)
      BY <1>1, <2>4
    <3> QED BY <2>4, <3>1, CharIs
  <2>6. x \in Letters
    BY <1>1, <1>5, <2>4
  <2> HIDE DEF x
  <2>7. BelongsToIdentifier(<<x>>)
    <3>1. x \in Bytes /\ Lead(x) = 0 /\ x \in DenseChars /\ x \in Nat /\ x < 256
      BY <2>6 DEF Letters, Bytes, Lead, DenseChars
    <3>2. WellFormed(<<x>>) /\ Value(<<x>>) = x
      BY <3>1, WellFormed1
    <3>3. ebi_is_identifier(x)
      BY <3>1, LatinIdentifiers
    <3> QED BY <3>1, <3>2, <3>3, BelongsIsIdentifier
  <2>8. i \in lengths
    <3> DEFINE part == SubSeq(rest, i - 1 + 1, i)
    <3>1. part = <<x>>
      BY <2>5
    <3> HIDE DEF part
    <3>2. BelongsToIdentifier(part)
      BY <2>7, <3>1
    <3> QED BY <1>2, <2>3, <2>4, <3>2 DEF part
  <2> QED BY <2>2, <2>8
<1>7. n \in lengths
  BY <1>0, <1>6
<1> QED BY <1>7 DEF lengths, rest

\* The first n bytes from p on.
LEMMA FirstBytes ==
    ASSUME SrcOK, NEW p \in Nat \ {0}, p <= Len(src), NEW n \in Nat \ {0}, n <= Len(src) - p + 1
    PROVE  LET text == SubSeq(SubSeq(src, p, Len(src)), 1, n)
           IN  /\ text = [k \in 1..n |-> Byte(p + k - 1)]
               /\ Len(text) = n
               /\ text[1] = Byte(p)
               /\ n = 2 => text[2] = Byte(p + 1)
               /\ text = SubSeq(src, p, p + n - 1)
<1> DEFINE rest == SubSeq(src, p, Len(src))
           text == SubSeq(rest, 1, n)
           long == SubSeq(src, p, p + n - 1)
<1>1. /\ Len(src) \in Nat /\ DOMAIN src = 1..Len(src) /\ src \in Seq(Bytes)
      /\ Len(rest) = Len(src) - p + 1
      /\ \A k \in 1..Len(rest) : rest[k] = Byte(p + k - 1)
  BY ByteIsByte, RestChars DEF SrcOK
<1> HIDE DEF rest
<1>2. text = [k \in 1..n |-> rest[k + 1 - 1]]
  <2>1. 1 \in Int /\ n \in Int /\ 1 <= n + 1 /\ n - 1 + 1 = n
    OBVIOUS
  <2>2. text = [k \in 1..n - 1 + 1 |-> rest[k + 1 - 1]]
    BY <2>1, SubSeqIs
  <2> HIDE DEF text
  <2> QED BY <2>1, <2>2
<1>3. \A k \in 1..n : rest[k + 1 - 1] = Byte(p + k - 1)
  BY <1>1
<1> HIDE DEF text
<1>4. text = [k \in 1..n |-> Byte(p + k - 1)]
  BY <1>2, <1>3
<1>5. long = [k \in 1..n |-> src[k + p - 1]]
  <2>1. p \in Int /\ p + n - 1 \in Int /\ p <= p + n - 1 + 1 /\ p + n - 1 - p + 1 = n
    OBVIOUS
  <2>2. long = [k \in 1..p + n - 1 - p + 1 |-> src[k + p - 1]]
    BY <2>1, SubSeqIs
  <2> HIDE DEF long
  <2> QED BY <2>1, <2>2
<1>6. \A k \in 1..n : src[k + p - 1] = Byte(p + k - 1)
  <2>1. \A k \in 1..n : k + p - 1 = p + k - 1 /\ p + k - 1 \in DOMAIN src
    BY <1>1
  <2> QED BY <2>1 DEF Byte
<1> HIDE DEF long
<1>7. long = text
  BY <1>4, <1>5, <1>6
<1>8. Len(text) = n
  BY <1>4
<1>9. text[1] = Byte(p) /\ (n = 2 => text[2] = Byte(p + 1))
  <2>1. 1 \in 1..n /\ p + 1 - 1 = p /\ (n = 2 => 2 \in 1..n) /\ p + 2 - 1 = p + 1
    OBVIOUS
  <2> QED BY <1>4, <2>1
<1> QED BY <1>4, <1>7, <1>8, <1>9 DEF text, rest, long

\* Its type from its length and its first two bytes.
LEMMA TypeOfFirst ==
    ASSUME SrcOK, NEW p \in Nat \ {0}, p <= Len(src), NEW n \in Nat \ {0}, n <= Len(src) - p + 1
    PROVE  LET text == SubSeq(SubSeq(src, p, Len(src)), 1, n)
               c == Byte(p)
           IN  /\ text \in DOMAIN ebi_kw_map => c \in Letters
               /\ TextType(text) =
                    IF text \in DOMAIN ebi_kw_map THEN ebi_kw_map[text]
                    ELSE IF n = 2 /\ c = 61 /\ Byte(p + 1) = 62 THEN "RD_ARROW"
                    ELSE IF c \in DOMAIN SingleTypes /\ n = 1 THEN SingleTypes[c]
                    ELSE IF c \in DOMAIN OperatorTypes /\ n = 1 THEN OperatorTypes[c][1]
                    ELSE IF c \in DOMAIN OperatorTypes /\ n = 2 /\ Byte(p + 1) = 61
                      THEN OperatorTypes[c][2]
                    ELSE "IDENT"
<1> DEFINE text == SubSeq(SubSeq(src, p, Len(src)), 1, n)
           c == Byte(p)
<1>1. /\ text = [k \in 1..n |-> Byte(p + k - 1)]
      /\ Len(text) = n
      /\ text[1] = c
      /\ n = 2 => text[2] = Byte(p + 1)
  BY FirstBytes
<1> HIDE DEF text, c
<1>2. text \in DOMAIN ebi_kw_map => c \in Letters
  <2> SUFFICES ASSUME text \in DOMAIN ebi_kw_map PROVE c \in Letters
    OBVIOUS
  <2>1. Len(text) \in 3..6 /\ \A k \in 1..Len(text) : text[k] \in Letters
    BY KeywordLetters
  <2>2. 1 \in 1..Len(text)
    BY <1>1
  <2> QED BY <1>1, <2>1, <2>2
<1>3. \A a : text = <<a>> <=> n = 1 /\ a = c
  <2> TAKE a
  <2>1. ASSUME text = <<a>> PROVE n = 1 /\ a = c
    <3>1. Len(<<a>>) = 1 /\ <<a>>[1] = a
      OBVIOUS
    <3>2. Len(text) = 1 /\ text[1] = a
      BY <2>1, <3>1
    <3> QED BY <1>1, <3>2
  <2>2. ASSUME n = 1, a = c PROVE text = <<a>>
    <3>1. text = [k \in 1..1 |-> text[k]]
      BY <1>1, <2>2
    <3>2. \A k \in 1..1 : k = 1
      OBVIOUS
    <3>3. text = [k \in 1..1 |-> c]
      BY <1>1, <3>1, <3>2
    <3> QED BY <2>2, <3>3
  <2> QED BY <2>1, <2>2
<1>4. \A a, b : text = <<a, b>> <=> n = 2 /\ a = c /\ b = Byte(p + 1)
  <2> TAKE a, b
  <2>1. ASSUME text = <<a, b>> PROVE n = 2 /\ a = c /\ b = Byte(p + 1)
    <3>1. Len(<<a, b>>) = 2 /\ <<a, b>>[1] = a /\ <<a, b>>[2] = b
      OBVIOUS
    <3>2. Len(text) = 2 /\ text[1] = a /\ text[2] = b
      BY <2>1, <3>1
    <3> QED BY <1>1, <3>2
  <2>2. ASSUME n = 2, a = c, b = Byte(p + 1) PROVE text = <<a, b>>
    <3>1. text = [k \in 1..2 |-> text[k]]
      BY <1>1, <2>2
    <3>2. text[1] = a /\ text[2] = b
      BY <1>1, <2>2
    <3> HIDE DEF text
    <3> QED BY <3>1, <3>2
  <2> QED BY <2>1, <2>2
<1>5. TextType(text) =
        IF text \in DOMAIN ebi_kw_map THEN ebi_kw_map[text]
        ELSE IF text = <<61, 62>> THEN "RD_ARROW"
        ELSE IF text[1] \in DOMAIN SingleTypes /\ text = <<text[1]>> THEN SingleTypes[text[1]]
        ELSE IF text[1] \in DOMAIN OperatorTypes /\ text = <<text[1]>> THEN OperatorTypes[text[1]][1]
        ELSE IF text[1] \in DOMAIN OperatorTypes /\ text = <<text[1], 61>>
          THEN OperatorTypes[text[1]][2]
        ELSE "IDENT"
  BY DEF TextType
<1>6. /\ text = <<61, 62>> <=> n = 2 /\ c = 61 /\ Byte(p + 1) = 62
      /\ text = <<text[1]>> <=> n = 1
      /\ text = <<text[1], 61>> <=> n = 2 /\ Byte(p + 1) = 61
  <2>1. text[1] = c
    BY <1>1
  <2>2. text = <<61, 62>> <=> n = 2 /\ c = 61 /\ Byte(p + 1) = 62
    <3>1. ASSUME text = <<61, 62>> PROVE n = 2 /\ c = 61 /\ Byte(p + 1) = 62
      <4>1. n = 2 /\ 61 = c /\ 62 = Byte(p + 1)
        BY <1>4, <3>1, Zenon
      <4> QED BY <4>1
    <3>2. ASSUME n = 2, c = 61, Byte(p + 1) = 62 PROVE text = <<61, 62>>
      BY <1>4, <3>2, Zenon
    <3> QED BY <3>1, <3>2
  <2>3. text = <<c>> <=> n = 1
    BY <1>3
  <2>4. text = <<c, 61>> <=> n = 2 /\ Byte(p + 1) = 61
    BY <1>4
  <2> QED BY <2>1, <2>2, <2>3, <2>4
<1>7. TextType(text) =
        IF text \in DOMAIN ebi_kw_map THEN ebi_kw_map[text]
        ELSE IF n = 2 /\ c = 61 /\ Byte(p + 1) = 62 THEN "RD_ARROW"
        ELSE IF c \in DOMAIN SingleTypes /\ n = 1 THEN SingleTypes[c]
        ELSE IF c \in DOMAIN OperatorTypes /\ n = 1 THEN OperatorTypes[c][1]
        ELSE IF c \in DOMAIN OperatorTypes /\ n = 2 /\ Byte(p + 1) = 61
          THEN OperatorTypes[c][2]
        ELSE "IDENT"
  <2>1. text[1] = c
    BY <1>1
  <2> QED BY <1>5, <1>6, <2>1
<1> QED BY <1>2, <1>7 DEF text, c

\* The lengths of the texts that are tokens, one by one.
LEMMA LengthOfToken ==
    ASSUME SrcOK, NEW p \in Nat \ {0}, p <= Len(src)
    PROVE  LET rest == SubSeq(src, p, Len(src))
               lengths == TokenLengths(rest)
           IN  /\ lengths \in SUBSET (0..Len(rest))
               /\ \A n \in lengths : n \in Nat \ {0} /\ n <= Len(src) - p + 1
               /\ \A n \in Nat \ {0} : n <= Len(src) - p + 1 =>
                    (n \in lengths <=> \/ TextType(SubSeq(rest, 1, n)) # "IDENT"
                                       \/ n \in IdentifierLengths(rest) /\ Byte(p) \notin Digits)
<1> DEFINE rest == SubSeq(src, p, Len(src))
           lengths == TokenLengths(rest)
           names == IdentifierLengths(rest)
           Type(n) == TextType(SubSeq(rest, 1, n))
<1>1. /\ Len(src) \in Nat
      /\ Len(rest) = Len(src) - p + 1
      /\ Len(rest) \in Nat
      /\ rest[1] = Byte(p)
  <2>1. /\ Len(src) \in Nat /\ p <= Len(src) + 1
    BY ByteIsByte
  <2>2. /\ Len(rest) = Len(src) - p + 1
        /\ Len(rest) \in Nat
        /\ \A k \in 1..Len(rest) : rest[k] = Byte(p + k - 1)
    BY <2>1, RestChars
  <2> HIDE DEF rest
  <2>3. 1 \in 1..Len(rest) /\ p + 1 - 1 = p
    BY <2>1, <2>2
  <2> QED BY <2>1, <2>2, <2>3
<1>2. names \in SUBSET (0..Len(rest))
  BY <1>1, LengthsUnfold
<1>3. lengths = {n \in 1..Len(rest) : Type(n) # "IDENT"} \cup
                {n \in names : n > 0 /\ rest[1] \notin Digits}
  BY DEF TokenLengths
<1> HIDE DEF rest, names, lengths, Type
<1>4. \A n \in names : n \in Nat /\ n <= Len(rest)
  BY <1>1, <1>2
<1>5. \A n : n \in lengths <=>
        /\ n \in Nat \ {0} /\ n <= Len(rest)
        /\ Type(n) # "IDENT" \/ (n \in names /\ Byte(p) \notin Digits)
  <2> TAKE n
  <2>1. n \in lengths <=> \/ n \in 1..Len(rest) /\ Type(n) # "IDENT"
                          \/ n \in names /\ n > 0 /\ Byte(p) \notin Digits
    BY <1>1, <1>3
  <2>2. n \in 1..Len(rest) <=> n \in Nat \ {0} /\ n <= Len(rest)
    BY <1>1
  <2>3. n \in names => (n > 0 <=> n \in Nat \ {0}) /\ n <= Len(rest)
    BY <1>4
  <2> QED BY <2>1, <2>2, <2>3
<1>6. lengths \in SUBSET (0..Len(rest))
  BY <1>1, <1>5
<1> QED BY <1>1, <1>5, <1>6 DEF rest, names, lengths, Type

\* A byte that is a token of its own begins no longer one.
LEMMA SingleLengths ==
    ASSUME SrcOK, NEW p \in Nat \ {0}, p <= Len(src), Byte(p) \in DOMAIN SingleTypes
    PROVE  LET rest == SubSeq(src, p, Len(src))
           IN  /\ \A n \in TokenLengths(rest) : n = 1
               /\ TextType(SubSeq(rest, 1, 1)) = SingleTypes[Byte(p)]
<1> DEFINE rest == SubSeq(src, p, Len(src))
           c == Byte(p)
           Type(n) == TextType(SubSeq(rest, 1, n))
<1>1. Len(src) \in Nat /\ p <= Len(src) + 1
  BY ByteIsByte
<1>2. /\ c \in Nat /\ c < 128 /\ c \notin Letters /\ c \notin DOMAIN OperatorTypes /\ c # 61
      /\ c \in Digits \/ c \notin DenseChars
  <2>1. c \in {0, 10, 59, 46, 58, 44, 40, 41, 123, 125, 91, 93} \cup Digits
    BY SingleDomain
  <2> HIDE DEF c
  <2> QED BY <2>1, OperatorDomain DEF Digits, Letters, DenseChars
<1> DEFINE text(n) == SubSeq(rest, 1, n)
<1>3. \A n \in Nat \ {0} : n <= Len(src) - p + 1 =>
        Type(n) = IF n = 1 THEN SingleTypes[c] ELSE "IDENT"
  <2> TAKE n \in Nat \ {0}
  <2> HAVE n <= Len(src) - p + 1
  <2>1. /\ text(n) \in DOMAIN ebi_kw_map => c \in Letters
        /\ Type(n) =
             IF text(n) \in DOMAIN ebi_kw_map THEN ebi_kw_map[text(n)]
             ELSE IF n = 2 /\ c = 61 /\ Byte(p + 1) = 62 THEN "RD_ARROW"
             ELSE IF c \in DOMAIN SingleTypes /\ n = 1 THEN SingleTypes[c]
             ELSE IF c \in DOMAIN OperatorTypes /\ n = 1 THEN OperatorTypes[c][1]
             ELSE IF c \in DOMAIN OperatorTypes /\ n = 2 /\ Byte(p + 1) = 61
               THEN OperatorTypes[c][2]
             ELSE "IDENT"
    BY TypeOfFirst
  <2>2. c \in DOMAIN SingleTypes
    OBVIOUS
  <2> HIDE DEF text, Type, c
  <2> QED BY <1>2, <2>1, <2>2
<1>4. \A n \in TokenLengths(rest) : n = 1
  <2> TAKE n \in TokenLengths(rest)
  <2>1. /\ n \in Nat \ {0} /\ n <= Len(src) - p + 1
        /\ Type(n) # "IDENT" \/ (n \in IdentifierLengths(rest) /\ c \notin Digits)
    BY LengthOfToken
  <2>2. n \in IdentifierLengths(rest) /\ c \notin Digits => n = 0
    BY <1>1, <1>2, NoName
  <2> HIDE DEF Type, c, rest
  <2> QED BY <1>3, <2>1, <2>2
<1>5. Type(1) = SingleTypes[c]
  <2>1. 1 \in Nat \ {0} /\ 1 <= Len(src) - p + 1
    BY <1>1
  <2> HIDE DEF Type, c
  <2> QED BY <1>3, <2>1
<1> QED BY <1>4, <1>5

\* An operator is longer where an "=" follows it, or a ">" the "=".
LEMMA OperatorLengths ==
    ASSUME SrcOK, NEW p \in Nat \ {0}, p <= Len(src), Byte(p) \in DOMAIN OperatorTypes
    PROVE  LET rest == SubSeq(src, p, Len(src))
               c == Byte(p)
               nc == Byte(p + 1)
               long == nc = 61 \/ (c = 61 /\ nc = 62)
           IN  /\ \A n \in TokenLengths(rest) : n = 1 \/ (n = 2 /\ long)
               /\ long => 2 \in TokenLengths(rest)
               /\ TextType(SubSeq(rest, 1, 1)) = OperatorTypes[c][1]
               /\ long => TextType(SubSeq(rest, 1, 2)) =
                            IF c = 61 /\ nc = 62 THEN "RD_ARROW" ELSE OperatorTypes[c][2]
<1> DEFINE rest == SubSeq(src, p, Len(src))
           c == Byte(p)
           nc == Byte(p + 1)
           long == nc = 61 \/ (c = 61 /\ nc = 62)
           Type(n) == TextType(SubSeq(rest, 1, n))
           text(n) == SubSeq(rest, 1, n)
<1>1. Len(src) \in Nat /\ p <= Len(src) + 1
  BY ByteIsByte
<1>2. /\ c \in Nat /\ c < 128 /\ c \notin Letters /\ c \notin DOMAIN SingleTypes
      /\ c \notin DenseChars
  <2>1. c \in {43, 45, 42, 47, 37, 60, 62, 33, 61}
    BY OperatorDomain
  <2> HIDE DEF c
  <2> QED BY <2>1, SingleDomain DEF Digits, Letters, DenseChars
<1>3. c \in DOMAIN OperatorTypes /\ OperatorTypes[c][2] # "IDENT"
  BY TypesAreNotIdent
<1>4. \A n \in Nat \ {0} : n <= Len(src) - p + 1 =>
        Type(n) = IF n = 2 /\ c = 61 /\ nc = 62 THEN "RD_ARROW"
                  ELSE IF n = 1 THEN OperatorTypes[c][1]
                  ELSE IF n = 2 /\ nc = 61 THEN OperatorTypes[c][2]
                  ELSE "IDENT"
  <2> TAKE n \in Nat \ {0}
  <2> HAVE n <= Len(src) - p + 1
  <2>1. /\ text(n) \in DOMAIN ebi_kw_map => c \in Letters
        /\ Type(n) =
             IF text(n) \in DOMAIN ebi_kw_map THEN ebi_kw_map[text(n)]
             ELSE IF n = 2 /\ c = 61 /\ nc = 62 THEN "RD_ARROW"
             ELSE IF c \in DOMAIN SingleTypes /\ n = 1 THEN SingleTypes[c]
             ELSE IF c \in DOMAIN OperatorTypes /\ n = 1 THEN OperatorTypes[c][1]
             ELSE IF c \in DOMAIN OperatorTypes /\ n = 2 /\ nc = 61 THEN OperatorTypes[c][2]
             ELSE "IDENT"
    BY TypeOfFirst
  <2> HIDE DEF text, Type, c, nc
  <2> QED BY <1>2, <1>3, <2>1
<1>5. \A n \in TokenLengths(rest) : n = 1 \/ (n = 2 /\ long)
  <2> TAKE n \in TokenLengths(rest)
  <2>1. /\ n \in Nat \ {0} /\ n <= Len(src) - p + 1
        /\ Type(n) # "IDENT" \/ (n \in IdentifierLengths(rest) /\ c \notin Digits)
    BY LengthOfToken
  <2>2. n \notin IdentifierLengths(rest)
    BY <1>1, <1>2, <2>1, NoName
  <2> HIDE DEF Type, c, nc, rest
  <2> QED BY <1>4, <2>1, <2>2
<1>6. Type(1) = OperatorTypes[c][1]
  <2>1. 1 \in Nat \ {0} /\ 1 <= Len(src) - p + 1
    BY <1>1
  <2> HIDE DEF Type, c, nc
  <2> QED BY <1>4, <2>1
<1>7. ASSUME long
      PROVE  /\ 2 \in TokenLengths(rest)
             /\ Type(2) = IF c = 61 /\ nc = 62 THEN "RD_ARROW" ELSE OperatorTypes[c][2]
  <2>1. p + 1 <= Len(src)
    <3>1. nc # 0
      BY <1>7
    <3>2. p + 1 \in 1..Len(src)
      <4> HIDE DEF nc
      <4> QED BY <3>1, ByteIsByte DEF nc
    <3> QED BY <1>1, <3>2
  <2>2. 2 \in Nat \ {0} /\ 2 <= Len(src) - p + 1
    BY <1>1, <2>1
  <2>3. Type(2) = IF c = 61 /\ nc = 62 THEN "RD_ARROW" ELSE OperatorTypes[c][2]
    <3> HIDE DEF Type, c, nc
    <3> QED BY <1>4, <1>7, <2>2
  <2>4. Type(2) # "IDENT"
    <3> HIDE DEF Type, c, nc
    <3> QED BY <1>3, <2>3
  <2>5. 2 \in TokenLengths(rest)
    BY <2>2, <2>4, LengthOfToken
  <2> QED BY <2>3, <2>5
<1> QED BY <1>5, <1>6, <1>7

\* Any other byte begins no token but names and keywords, and a keyword is as
\* long as a name.
LEMMA NameLengths ==
    ASSUME SrcOK, NEW p \in Nat \ {0}, p <= Len(src),
           Byte(p) \notin DOMAIN SingleTypes \cup DOMAIN OperatorTypes
    PROVE  LET rest == SubSeq(src, p, Len(src))
           IN  /\ TokenLengths(rest) = {n \in IdentifierLengths(rest) : n > 0}
               /\ \A n \in Nat \ {0} : n <= Len(src) - p + 1 =>
                    TextType(SubSeq(rest, 1, n)) =
                      IF SubSeq(rest, 1, n) \in DOMAIN ebi_kw_map
                        THEN ebi_kw_map[SubSeq(rest, 1, n)]
                        ELSE "IDENT"
<1> DEFINE rest == SubSeq(src, p, Len(src))
           c == Byte(p)
           names == IdentifierLengths(rest)
           Type(n) == TextType(SubSeq(rest, 1, n))
           text(n) == SubSeq(rest, 1, n)
<1>1. /\ Len(src) \in Nat /\ p <= Len(src) + 1
      /\ Len(rest) = Len(src) - p + 1
      /\ Len(rest) \in Nat
  BY ByteIsByte, RestChars
<1>2. c \notin DOMAIN SingleTypes /\ c \notin DOMAIN OperatorTypes /\ c # 61 /\ c \notin Digits
  <2>1. 61 \in DOMAIN OperatorTypes /\ \A x \in Digits : x \in DOMAIN SingleTypes
    BY SingleDomain, OperatorDomain
  <2> QED BY <2>1
<1>3. \A n \in Nat \ {0} : n <= Len(src) - p + 1 =>
        Type(n) = IF text(n) \in DOMAIN ebi_kw_map THEN ebi_kw_map[text(n)] ELSE "IDENT"
  <2> TAKE n \in Nat \ {0}
  <2> HAVE n <= Len(src) - p + 1
  <2>1. Type(n) =
          IF text(n) \in DOMAIN ebi_kw_map THEN ebi_kw_map[text(n)]
          ELSE IF n = 2 /\ c = 61 /\ Byte(p + 1) = 62 THEN "RD_ARROW"
          ELSE IF c \in DOMAIN SingleTypes /\ n = 1 THEN SingleTypes[c]
          ELSE IF c \in DOMAIN OperatorTypes /\ n = 1 THEN OperatorTypes[c][1]
          ELSE IF c \in DOMAIN OperatorTypes /\ n = 2 /\ Byte(p + 1) = 61
            THEN OperatorTypes[c][2]
          ELSE "IDENT"
    BY TypeOfFirst
  <2> HIDE DEF text, Type, c
  <2> QED BY <1>2, <2>1
<1>4. \A n \in Nat \ {0} : n <= Len(src) - p + 1 /\ Type(n) # "IDENT" => n \in names
  <2> TAKE n \in Nat \ {0}
  <2> HAVE n <= Len(src) - p + 1 /\ Type(n) # "IDENT"
  <2>1. text(n) \in DOMAIN ebi_kw_map
    <3> HIDE DEF text, Type
    <3> QED BY <1>3
  <2>2. n \in 1..Len(rest)
    <3> HIDE DEF rest
    <3> QED BY <1>1
  <2> QED BY <1>1, <2>1, <2>2, KeywordIsName
<1>5. \A n \in names : n \in Nat /\ n <= Len(src) - p + 1
  <2>1. names \in SUBSET (0..Len(rest))
    BY <1>1, LengthsUnfold
  <2> HIDE DEF names, rest
  <2> QED BY <1>1, <2>1
<1>6. /\ \A n \in TokenLengths(rest) : n \in Nat \ {0} /\ n <= Len(src) - p + 1
      /\ \A n \in Nat \ {0} : n <= Len(src) - p + 1 =>
           (n \in TokenLengths(rest) <=> Type(n) # "IDENT" \/ (n \in names /\ c \notin Digits))
  BY LengthOfToken
<1>7. TokenLengths(rest) = {n \in names : n > 0}
  <2> DEFINE lengths == TokenLengths(rest)
  <2> HIDE DEF names, rest, Type, c, lengths
  <2>1. \A n \in lengths : n \in names /\ n > 0
    BY <1>2, <1>4, <1>6 DEF lengths
  <2>2. \A n \in names : n > 0 => n \in lengths
    BY <1>2, <1>5, <1>6 DEF lengths
  <2>3. lengths = {n \in names : n > 0}
    BY <2>1, <2>2
  <2> QED BY <2>3 DEF lengths
<1> QED BY <1>3, <1>7

\* What the switch over the first byte gives.
LEMMA SwitchIs ==
    LET p == SkipBlanks(src_ptr)
        c == Byte(p)
    IN  Scanned =
          IF c \in DOMAIN SingleTypes
            THEN [from |-> p, to |-> p + 1, type |-> SingleTypes[c]]
          ELSE IF c = 61 /\ Byte(p + 1) = 62
            THEN [from |-> p, to |-> p + 2, type |-> "RD_ARROW"]
          ELSE IF c \in DOMAIN OperatorTypes
            THEN IF Byte(src_ptr + 1) = 61
                   THEN [from |-> p, to |-> p + 2, type |-> OperatorTypes[c][2]]
                   ELSE [from |-> p, to |-> p + 1, type |-> OperatorTypes[c][1]]
          ELSE ScanIdent(p)
BY DEF Scanned, ScanToken

\* The bytes of a character behind a name that are taken with it, as
\* LongestToken has them.
TailLengths(p, length) ==
    LET rest == SubSeq(src, p, Len(src))
    IN  {n \in 1..3 : /\ NameBegins(p)
                      /\ length + n < Len(rest)
                      /\ WellFormed(SubSeq(rest, length + 1, length + n + 1))}

LongestLength(p) == Max({0} \cup TokenLengths(SubSeq(src, p, Len(src))))

LEMMA TailIs ==
    ASSUME SrcOK, NEW p \in Nat \ {0}, p <= Len(src) + 1,
           NEW L \in Nat, L <= Len(src) - p + 1
    PROVE  /\ ~NameBegins(p) => Max({0} \cup TailLengths(p, L)) = 0
           /\ \A n \in 1..4 :
                NameBegins(p) /\ WellFormed(Char(p + L, n)) /\ (n = 1 \/ p + L <= Len(src)) =>
                  /\ Max({0} \cup TailLengths(p, L)) = n - 1
                  /\ L + n - 1 <= Len(src) - p + 1
<1> DEFINE rest == SubSeq(src, p, Len(src))
           tail == TailLengths(p, L)
           S == {0} \cup tail
<1>1. /\ Len(rest) = Len(src) - p + 1 /\ Len(rest) \in Nat /\ Len(src) \in Nat
      /\ \A i \in 1..Len(rest), n \in 1..4 :
           n <= i => SubSeq(rest, i - n + 1, i) = Char(p + i - n, n)
  BY RestChars, ByteIsByte
<1>2. tail = {n \in 1..3 : /\ NameBegins(p)
                           /\ L + n < Len(rest)
                           /\ WellFormed(SubSeq(rest, L + 1, L + n + 1))}
  BY DEF TailLengths
<1> HIDE DEF rest, tail
<1>3. ASSUME NEW n \in 1..3, L + n < Len(rest)
      PROVE  SubSeq(rest, L + 1, L + n + 1) = Char(p + L, n + 1)
  <2>1. /\ L + n + 1 \in 1..Len(rest) /\ n + 1 \in 1..4 /\ n + 1 <= L + n + 1
        /\ (L + n + 1) - (n + 1) + 1 = L + 1 /\ p + (L + n + 1) - (n + 1) = p + L
    BY <1>1, <1>3
  <2> QED BY <1>1, <2>1
<1>4. Max(S) \in S /\ \A x \in S : x <= Max(S)
  <2>1. S \in SUBSET (0..3) /\ S # {}
    BY <1>2
  <2> HIDE DEF S
  <2> QED BY <2>1, GreatestNatural
<1> DEFINE most == Max(S)
<1>5. ASSUME ~NameBegins(p) PROVE most = 0
  <2>1. S = {0}
    BY <1>2, <1>5
  <2> QED BY <1>4, <2>1
<1>6. ASSUME NEW n \in 1..4, NameBegins(p), WellFormed(Char(p + L, n)), n = 1 \/ p + L <= Len(src)
      PROVE  most = n - 1 /\ L + n - 1 <= Len(src) - p + 1
  <2>1. \A m \in tail : m + 1 = n
    <3> TAKE m \in tail
    <3>1. m \in 1..3 /\ L + m < Len(rest) /\ WellFormed(SubSeq(rest, L + 1, L + m + 1))
      BY <1>2
    <3>2. WellFormed(Char(p + L, m + 1))
      BY <1>3, <3>1
    <3>3. m + 1 \in 1..4 /\ p + L \in Nat
      BY <3>1
    <3> QED BY <1>6, <3>2, <3>3, OneLength
  <2>2. CASE n = 1
    <3>1. tail = {}
      <4>1. \A m \in tail : m \in 1..3
        BY <1>2
      <4> QED BY <2>1, <2>2, <4>1
    <3>2. S = {0}
      BY <3>1
    <3>3. most = 0
      BY <1>4, <3>2
    <3> QED BY <2>2, <3>3, <1>1
  <2>3. CASE n # 1
    <3>1. p + L + n - 1 <= Len(src)
      <4>1. p + L \in Nat \ {0} /\ p + L <= Len(src)
        BY <1>6, <2>3
      <4> QED BY <1>6, <4>1, CharInSource
    <3>2. n - 1 \in 1..3 /\ L + (n - 1) < Len(rest) /\ (n - 1) + 1 = n
      BY <1>1, <2>3, <3>1
    <3>3. WellFormed(SubSeq(rest, L + 1, L + (n - 1) + 1))
      BY <1>3, <1>6, <3>2
    <3>4. n - 1 \in tail
      BY <1>2, <1>6, <3>2, <3>3
    <3>5. \A x \in S : x = 0 \/ x = n - 1
      <4>1. \A m \in tail : m \in 1..3
        BY <1>2
      <4> QED BY <2>1, <4>1
    <3> HIDE DEF most
    <3>6. most = 0 \/ most = n - 1
      BY <1>4, <3>5 DEF most
    <3>7. n - 1 <= most
      BY <1>4, <3>4 DEF most
    <3> QED BY <1>1, <3>1, <3>2, <3>6, <3>7
  <2> QED BY <2>2, <2>3
<1> QED BY <1>5, <1>6 DEF tail

LEMMA LongestIsMax ==
    ASSUME SrcOK, NEW p \in Nat \ {0}, p <= Len(src)
    PROVE  LET lengths == TokenLengths(SubSeq(src, p, Len(src)))
           IN  /\ LongestLength(p) \in {0} \cup lengths
               /\ \A n \in lengths : n <= LongestLength(p)
               /\ LongestLength(p) \in Nat
               /\ LongestLength(p) <= Len(src) - p + 1
<1> DEFINE rest == SubSeq(src, p, Len(src))
           lengths == TokenLengths(rest)
           S == {0} \cup lengths
<1>1. /\ lengths \in SUBSET (0..Len(rest))
      /\ \A n \in lengths : n \in Nat \ {0} /\ n <= Len(src) - p + 1
  BY LengthOfToken
<1>2. Len(rest) \in Nat /\ Len(src) \in Nat
  BY RestChars, ByteIsByte
<1>3. LongestLength(p) = Max(S)
  BY DEF LongestLength
<1> HIDE DEF lengths, rest
<1>4. Max(S) \in S /\ \A n \in S : n <= Max(S)
  <2>1. S \in SUBSET (0..Len(rest)) /\ S # {}
    BY <1>1, <1>2
  <2> HIDE DEF S
  <2> QED BY <1>2, <2>1, GreatestNatural
<1> DEFINE most == Max(S)
<1>5. most \in S /\ \A n \in lengths : n <= most
  BY <1>4
<1> HIDE DEF most
<1>6. most \in Nat /\ most <= Len(src) - p + 1
  <2>1. CASE most = 0
    BY <2>1, <1>2
  <2>2. CASE most \in lengths
    BY <2>2, <1>1
  <2> QED BY <1>5, <2>1, <2>2
<1> QED BY <1>3, <1>5, <1>6 DEF most, lengths, rest

\* The longest token by the number of its bytes.
LEMMA LongestIs ==
    ASSUME SrcOK, NEW p \in Nat \ {0}, p <= Len(src), NEW n \in Nat, n <= Len(src) - p + 1,
           n = LongestLength(p) + Max({0} \cup TailLengths(p, LongestLength(p)))
    PROVE  /\ LongestToken(p) = SubSeq(SubSeq(src, p, Len(src)), 1, n)
           /\ LongestToken(p) = SubSeq(src, p, p + n - 1)
           /\ Len(LongestToken(p)) = n
           /\ LongestToken(p) = <<>> <=> n = 0
<1> DEFINE rest == SubSeq(src, p, Len(src))
           text == SubSeq(rest, 1, n)
<1>1. LongestToken(p) = text
  BY DEF LongestToken, LongestLength, TailLengths
<1>2. CASE n = 0
  <2>1. SubSeq(rest, 1, 0) = <<>>
    <3>1. 1 \in Int /\ 0 \in Int /\ 0 < 1
      OBVIOUS
    <3> HIDE DEF rest
    <3> QED BY <3>1, SubSeqEmpty
  <2>2. SubSeq(src, p, p + n - 1) = <<>>
    <3>1. p \in Int /\ p + n - 1 \in Int /\ p + n - 1 < p
      BY <1>2
    <3> QED BY <3>1, SubSeqEmpty
  <2>3. text = <<>>
    BY <1>2, <2>1
  <2>4. Len(<<>>) = 0
    OBVIOUS
  <2> HIDE DEF text, rest
  <2> QED BY <1>1, <1>2, <2>2, <2>3, <2>4 DEF text, rest
<1>3. CASE n # 0
  <2>1. text = SubSeq(src, p, p + n - 1) /\ Len(text) = n
    BY <1>3, FirstBytes
  <2> HIDE DEF text
  <2>2. text # <<>>
    <3>1. Len(<<>>) = 0
      OBVIOUS
    <3> QED BY <1>3, <2>1, <3>1
  <2> QED BY <1>1, <1>3, <2>1, <2>2 DEF text, rest
<1> QED BY <1>2, <1>3

LEMMA SingleToken ==
    ASSUME SrcOK, NEW p \in Nat \ {0}, p <= Len(src), Byte(p) \in DOMAIN SingleTypes
    PROVE  /\ Len(LongestToken(p)) = 1 /\ LongestToken(p) # <<>>
           /\ TextType(LongestToken(p)) = SingleTypes[Byte(p)]
<1> DEFINE rest == SubSeq(src, p, Len(src))
           lengths == TokenLengths(rest)
           Type(n) == TextType(SubSeq(rest, 1, n))
<1>1. (\A n \in lengths : n = 1) /\ Type(1) = SingleTypes[Byte(p)]
  BY SingleLengths
<1>2. Len(src) \in Nat /\ p \in DOMAIN src /\ Byte(p) = src[p]
  <2>1. Len(src) \in Nat
    BY ByteIsByte
  <2>2. p \in 1..Len(src)
    BY <2>1
  <2> QED BY <2>1, <2>2, ByteIsByte DEF Byte
<1>3. ~NameBegins(p)
  BY <1>2 DEF NameBegins
<1>4. 1 \in lengths
  <2>1. 1 \in Nat \ {0} /\ 1 <= Len(src) - p + 1
    BY <1>2
  <2>2. Type(1) # "IDENT"
    BY <1>1, TypesAreNotIdent
  <2> QED BY <2>1, <2>2, LengthOfToken
<1>5. /\ LongestLength(p) \in {0} \cup lengths
      /\ \A n \in lengths : n <= LongestLength(p)
  BY LongestIsMax
<1> HIDE DEF lengths, rest, Type
<1>6. LongestLength(p) = 1
  BY <1>1, <1>4, <1>5
<1>7. 1 <= Len(src) - p + 1 /\ p <= Len(src) + 1
  BY <1>2
<1>8. Max({0} \cup TailLengths(p, 1)) = 0
  BY <1>3, <1>7, TailIs
<1>9. 1 = LongestLength(p) + Max({0} \cup TailLengths(p, LongestLength(p)))
  BY <1>6, <1>8
<1>10. /\ LongestToken(p) = SubSeq(SubSeq(src, p, Len(src)), 1, 1)
       /\ Len(LongestToken(p)) = 1
       /\ LongestToken(p) # <<>>
  <2>1. 1 \in Nat /\ 1 # 0
    OBVIOUS
  <2> QED BY <1>7, <1>9, <2>1, LongestIs
<1> QED BY <1>1, <1>10 DEF Type, rest

LEMMA OperatorToken ==
    ASSUME SrcOK, NEW p \in Nat \ {0}, p <= Len(src), Byte(p) \in DOMAIN OperatorTypes
    PROVE  LET c == Byte(p)
               nc == Byte(p + 1)
           IN  /\ LongestToken(p) # <<>>
               /\ c = 61 /\ nc = 62 => /\ Len(LongestToken(p)) = 2
                                       /\ TextType(LongestToken(p)) = "RD_ARROW"
               /\ ~(c = 61 /\ nc = 62) /\ nc = 61 =>
                    /\ Len(LongestToken(p)) = 2
                    /\ TextType(LongestToken(p)) = OperatorTypes[c][2]
               /\ ~(c = 61 /\ nc = 62) /\ nc # 61 =>
                    /\ Len(LongestToken(p)) = 1
                    /\ TextType(LongestToken(p)) = OperatorTypes[c][1]
<1> DEFINE rest == SubSeq(src, p, Len(src))
           lengths == TokenLengths(rest)
           Type(n) == TextType(SubSeq(rest, 1, n))
           c == Byte(p)
           nc == Byte(p + 1)
           long == nc = 61 \/ (c = 61 /\ nc = 62)
           size == IF long THEN 2 ELSE 1
<1>1. /\ \A n \in lengths : n = 1 \/ (n = 2 /\ long)
      /\ long => 2 \in lengths
      /\ Type(1) = OperatorTypes[c][1]
      /\ long => Type(2) = IF c = 61 /\ nc = 62 THEN "RD_ARROW" ELSE OperatorTypes[c][2]
  BY OperatorLengths
<1>2. Len(src) \in Nat /\ p \in DOMAIN src /\ c = src[p]
  <2>1. Len(src) \in Nat
    BY ByteIsByte
  <2>2. p \in 1..Len(src)
    BY <2>1
  <2> QED BY <2>1, <2>2, ByteIsByte DEF Byte
<1>3. ~NameBegins(p)
  BY <1>2 DEF NameBegins
<1>4. 1 \in lengths
  <2>1. 1 \in Nat \ {0} /\ 1 <= Len(src) - p + 1
    BY <1>2
  <2>2. Type(1) # "IDENT"
    BY <1>1, TypesAreNotIdent
  <2> QED BY <2>1, <2>2, LengthOfToken
<1>5. /\ LongestLength(p) \in {0} \cup lengths
      /\ \A n \in lengths : n <= LongestLength(p)
      /\ LongestLength(p) <= Len(src) - p + 1
  BY LongestIsMax
<1> HIDE DEF lengths, rest, Type, c, nc, long
<1>6. LongestLength(p) = size
  BY <1>1, <1>4, <1>5
<1>7. size \in Nat /\ size <= Len(src) - p + 1 /\ p <= Len(src) + 1 /\ size # 0 /\ size + 0 = size
  BY <1>2, <1>5, <1>6
<1>8. Max({0} \cup TailLengths(p, size)) = 0
  <2> HIDE DEF size
  <2> QED BY <1>3, <1>7, TailIs
<1>9. size = LongestLength(p) + Max({0} \cup TailLengths(p, LongestLength(p)))
  <2> HIDE DEF size
  <2> QED BY <1>6, <1>7, <1>8
<1>10. /\ LongestToken(p) = SubSeq(SubSeq(src, p, Len(src)), 1, size)
       /\ Len(LongestToken(p)) = size
       /\ LongestToken(p) # <<>>
  <2> HIDE DEF size
  <2> QED BY <1>7, <1>9, LongestIs
<1>11. TextType(LongestToken(p)) = Type(size)
  <2> HIDE DEF size
  <2> QED BY <1>10 DEF Type, rest
<1>12. CASE c = 61 /\ nc = 62
  <2>1. size = 2 /\ Type(2) = "RD_ARROW"
    BY <1>1, <1>12 DEF long
  <2> QED BY <1>10, <1>11, <1>12, <2>1 DEF c, nc
<1>13. CASE ~(c = 61 /\ nc = 62) /\ nc = 61
  <2>1. size = 2 /\ Type(2) = OperatorTypes[c][2]
    BY <1>1, <1>13 DEF long
  <2> QED BY <1>10, <1>11, <1>13, <2>1 DEF c, nc
<1>14. CASE ~(c = 61 /\ nc = 62) /\ nc # 61
  <2>1. size = 1
    BY <1>14 DEF long
  <2> QED BY <1>1, <1>10, <1>11, <1>14, <2>1 DEF c, nc
<1> QED BY <1>12, <1>13, <1>14 DEF c, nc

\* Where the loop over a name ends as it should, it has passed the longest
\* token.
LEMMA NameToken ==
    ASSUME SrcOK, NEW p \in Nat \ {0}, p <= Len(src), NameBegins(p), IdentEnd(p).state = Accept
    PROVE  /\ IdentEnd(p).stop = p + Len(LongestToken(p))
           /\ LongestToken(p) = <<>> <=> IdentEnd(p).stop = p
           /\ LongestToken(p) = SubSeq(src, p, IdentEnd(p).stop - 1)
           /\ LongestToken(p) # <<>> =>
                TextType(LongestToken(p)) =
                  IF LongestToken(p) \in DOMAIN ebi_kw_map THEN ebi_kw_map[LongestToken(p)] ELSE "IDENT"
<1> DEFINE rest == SubSeq(src, p, Len(src))
           names == IdentifierLengths(rest)
           lengths == TokenLengths(rest)
           L == LongestLength(p)
           stop == IdentEnd(p).stop
           Part(n) == SubSeq(rest, 1, n)
<1>1. Len(src) \in Nat /\ p <= Len(src) + 1 /\ p \in DOMAIN src /\ Byte(p) = src[p]
  <2>1. Len(src) \in Nat
    BY ByteIsByte
  <2>2. p \in 1..Len(src)
    BY <2>1
  <2> QED BY <2>1, <2>2, ByteIsByte DEF Byte
<1>2. Byte(p) \notin DOMAIN SingleTypes \cup DOMAIN OperatorTypes
  BY <1>1 DEF NameBegins
<1>3. /\ lengths = {n \in names : n > 0}
      /\ \A n \in Nat \ {0} : n <= Len(src) - p + 1 =>
           TextType(Part(n)) = IF Part(n) \in DOMAIN ebi_kw_map THEN ebi_kw_map[Part(n)] ELSE "IDENT"
  BY <1>2, NameLengths
<1>4. L = Max(names)
  <2>1. names \in SUBSET (0..Len(rest)) /\ 0 \in names
    <3>1. Len(rest) \in Nat
      BY <1>1, RestChars
    <3> QED BY <3>1, LengthsUnfold
  <2>2. {0} \cup lengths = names
    <3>1. \A n \in names : n \in 0..Len(rest)
      BY <2>1
    <3>2. \A n \in names : n = 0 \/ n > 0
      BY <3>1
    <3> HIDE DEF names, lengths, rest
    <3> QED BY <1>3, <2>1, <3>2
  <2> QED BY <2>2, Zenon DEF LongestLength
<1>5. NameEnd(p) = p + L
  BY <1>4, Zenon DEF NameEnd
<1>6. L \in Nat /\ L <= Len(src) - p + 1
  BY LongestIsMax
<1>7. PICK n \in 1..4 : /\ WellFormed(Char(p + L, n))
                        /\ n = 1 \/ p + L <= Len(src)
                        /\ stop = p + L + n - 1
  <2>1. \E n \in 1..4 : /\ WellFormed(Char(NameEnd(p), n))
                        /\ n = 1 \/ NameEnd(p) <= Len(src)
                        /\ stop = NameEnd(p) + n - 1
    BY <1>1, IdentEnds
  <2> HIDE DEF L, stop
  <2> QED BY <1>5, <2>1
<1> HIDE DEF L, stop
<1> DEFINE size == L + n - 1
<1>8. Max({0} \cup TailLengths(p, L)) = n - 1 /\ size <= Len(src) - p + 1
  BY <1>1, <1>6, <1>7, TailIs
<1>9. size \in Nat /\ size = L + (n - 1) /\ stop = p + size
  BY <1>6, <1>7
<1> HIDE DEF size
<1>10. size = LongestLength(p) + Max({0} \cup TailLengths(p, LongestLength(p)))
  BY <1>8, <1>9 DEF L
<1>11. /\ LongestToken(p) = Part(size)
       /\ LongestToken(p) = SubSeq(src, p, p + size - 1)
       /\ Len(LongestToken(p)) = size
       /\ LongestToken(p) = <<>> <=> size = 0
  BY <1>8, <1>9, <1>10, LongestIs
<1> DEFINE text == LongestToken(p)
<1> HIDE DEF text
<1>12. stop = p + Len(text) /\ (text = <<>> <=> stop = p)
  <2>1. Len(text) = size /\ (text = <<>> <=> size = 0)
    BY <1>11 DEF text
  <2>2. size = 0 <=> stop = p
    BY <1>9
  <2> QED BY <1>9, <2>1, <2>2
<1>13. text = SubSeq(src, p, stop - 1)
  <2>1. stop - 1 = p + size - 1
    BY <1>9
  <2> QED BY <1>11, <2>1 DEF text
<1>14. ASSUME LongestToken(p) # <<>>
       PROVE  TextType(LongestToken(p)) =
                IF LongestToken(p) \in DOMAIN ebi_kw_map THEN ebi_kw_map[LongestToken(p)] ELSE "IDENT"
  <2>1. size \in Nat \ {0}
    BY <1>9, <1>11, <1>14
  <2> HIDE DEF Part
  <2> QED BY <1>3, <1>8, <1>11, <2>1
<1> QED BY <1>12, <1>13, <1>14 DEF stop, text

(***************************************************************************)
(* For any source, in each build: the scanner takes the longest text that  *)
(* is a token, and gives it its type; an operator behind blanks is taken   *)
(* by its first byte only, save "=>" and what begins with "=" behind one   *)
(* blank.                                                                  *)
(***************************************************************************)
THEOREM TakesLongest == Spec => TakesLongestToken
<1> DEFINE Takes(p) ==
             LET text == LongestToken(p)
                 Is(n, type) == token'.to = p + n /\ token'.type = type
             IN  p = token'.from /\ token'.type \notin {"ERROR_BAD_UTF8", Undefined} =>
                   IF BehindBlanks(p)
                     THEN IF src[p] = \h3d /\ p = src_ptr + 1
                            THEN Is(2, "EQUAL")
                            ELSE Is(1, OperatorTypes[src[p]][1])
                     ELSE Is(Len(text), IF text = <<>> THEN "ERROR_BAD_TOKEN" ELSE TextType(text))
<1>1. PtrInv /\ [ebi_scan]_vars => [\A p \in DOMAIN src : Takes(p)]_vars
  <2> SUFFICES ASSUME PtrInv, ebi_scan, NEW p \in DOMAIN src, p = token'.from,
                      token'.type \notin {"ERROR_BAD_UTF8", Undefined}
               PROVE  Takes(p)
    OBVIOUS
  <2> DEFINE c == Byte(p)
             nc == Byte(p + 1)
             tok == Scanned
             text == LongestToken(p)
  <2>1. p = SkipBlanks(src_ptr)
    BY StepTakes, TokenEnds
  <2>2. /\ src_ptr \in Nat \ {0} /\ p \in Nat \ {0} /\ src_ptr <= p
        /\ \A i \in src_ptr..p - 1 : Byte(i) \in Blanks
    BY <2>1, BlanksEnd DEF PtrInv
  <2>3. SrcOK /\ p <= Len(src) /\ c = src[p]
    <3>1. SrcOK /\ p \in 1..Len(src) /\ Len(src) \in Nat
      BY ByteIsByte DEF PtrInv
    <3> QED BY <3>1 DEF Byte
  <2>4. token'.to = tok.to /\ token'.type = tok.type
    BY StepTakes
  <2>5. tok =
          IF c \in DOMAIN SingleTypes
            THEN [from |-> p, to |-> p + 1, type |-> SingleTypes[c]]
          ELSE IF c = 61 /\ nc = 62
            THEN [from |-> p, to |-> p + 2, type |-> "RD_ARROW"]
          ELSE IF c \in DOMAIN OperatorTypes
            THEN IF Byte(src_ptr + 1) = 61
                   THEN [from |-> p, to |-> p + 2, type |-> OperatorTypes[c][2]]
                   ELSE [from |-> p, to |-> p + 1, type |-> OperatorTypes[c][1]]
          ELSE ScanIdent(p)
    BY <2>1, SwitchIs
  <2>6. BehindBlanks(p) <=> /\ p # src_ptr /\ c \in DOMAIN OperatorTypes
                            /\ ~(c = 61 /\ nc = 62)
    BY <2>3 DEF BehindBlanks
  <2> DEFINE To(n, type) == tok.to = p + n /\ tok.type = type
  <2>7. SUFFICES IF BehindBlanks(p)
                   THEN IF c = 61 /\ p = src_ptr + 1
                          THEN To(2, "EQUAL")
                          ELSE To(1, OperatorTypes[c][1])
                   ELSE To(Len(text), IF text = <<>> THEN "ERROR_BAD_TOKEN" ELSE TextType(text))
    <3> HIDE DEF tok, text, c
    <3> QED BY <2>3, <2>4 DEF text
  <2>8. CASE c \in DOMAIN SingleTypes
    <3>1. Len(text) = 1 /\ text # <<>> /\ TextType(text) = SingleTypes[c]
      BY <2>2, <2>3, <2>8, SingleToken
    <3>2. c \notin DOMAIN OperatorTypes
      <4>1. c \in {0, 10, 59, 46, 58, 44, 40, 41, 123, 125, 91, 93} \cup Digits
        BY <2>8, SingleDomain
      <4> HIDE DEF c
      <4> QED BY <4>1, OperatorDomain DEF Digits
    <3>3. ~BehindBlanks(p)
      BY <2>6, <3>2
    <3> HIDE DEF text, c, nc, tok
    <3> QED BY <2>5, <2>8, <3>1, <3>3
  <2>9. CASE c \in DOMAIN OperatorTypes
    <3>1. c \notin DOMAIN SingleTypes
      <4>1. c \in {43, 45, 42, 47, 37, 60, 62, 33, 61}
        BY <2>9, OperatorDomain
      <4> HIDE DEF c
      <4> QED BY <4>1, SingleDomain DEF Digits
    <3>2. /\ text # <<>>
          /\ c = 61 /\ nc = 62 => Len(text) = 2 /\ TextType(text) = "RD_ARROW"
          /\ ~(c = 61 /\ nc = 62) /\ nc = 61 =>
               Len(text) = 2 /\ TextType(text) = OperatorTypes[c][2]
          /\ ~(c = 61 /\ nc = 62) /\ nc # 61 =>
               Len(text) = 1 /\ TextType(text) = OperatorTypes[c][1]
      BY <2>2, <2>3, <2>9, OperatorToken
    <3>3. p # src_ptr => (Byte(src_ptr + 1) = 61 <=> c = 61 /\ p = src_ptr + 1)
      <4> SUFFICES ASSUME p # src_ptr PROVE Byte(src_ptr + 1) = 61 <=> c = 61 /\ p = src_ptr + 1
        OBVIOUS
      <4>1. CASE p = src_ptr + 1
        BY <4>1
      <4>2. CASE p # src_ptr + 1
        <5>1. src_ptr + 1 \in src_ptr..p - 1
          BY <2>2, <4>2
        <5>2. Byte(src_ptr + 1) \in Blanks /\ 61 \notin Blanks
          BY <2>2, <5>1 DEF Blanks
        <5> QED BY <4>2, <5>2
      <4> QED BY <4>1, <4>2
    <3>4. p = src_ptr => Byte(src_ptr + 1) = nc
      OBVIOUS
    <3>5. OperatorTypes[61][2] = "EQUAL"
      BY DEF OperatorTypes
    <3> HIDE DEF text, c, nc, tok
    <3>6. CASE c = 61 /\ nc = 62
      <4>1. To(2, "RD_ARROW") /\ ~BehindBlanks(p)
        BY <2>5, <2>6, <3>1, <3>6
      <4> QED BY <3>2, <3>6, <4>1
    <3>7. CASE ~(c = 61 /\ nc = 62) /\ p = src_ptr
      <4>1. ~BehindBlanks(p)
        BY <2>6, <3>7
      <4>2. IF nc = 61 THEN To(2, OperatorTypes[c][2]) ELSE To(1, OperatorTypes[c][1])
        BY <2>5, <2>9, <3>1, <3>4, <3>7
      <4> QED BY <3>2, <3>7, <4>1, <4>2
    <3>8. CASE ~(c = 61 /\ nc = 62) /\ p # src_ptr
      <4>1. BehindBlanks(p)
        BY <2>6, <2>9, <3>8
      <4>2. IF c = 61 /\ p = src_ptr + 1 THEN To(2, OperatorTypes[c][2])
                                         ELSE To(1, OperatorTypes[c][1])
        BY <2>5, <2>9, <3>1, <3>3, <3>8
      <4> QED BY <3>5, <4>1, <4>2
    <3> QED BY <3>6, <3>7, <3>8
  <2>10. CASE c \notin DOMAIN SingleTypes \cup DOMAIN OperatorTypes
    <3>1. tok = ScanIdent(p)
      <4>1. c \notin DOMAIN SingleTypes /\ c \notin DOMAIN OperatorTypes /\ c # 61
        BY <2>10, OperatorDomain
      <4> HIDE DEF tok, c, nc
      <4> QED BY <2>5, <4>1
    <3>2. NameBegins(p) /\ ~BehindBlanks(p)
      BY <2>3, <2>6, <2>10 DEF NameBegins
    <3> DEFINE end == IdentEnd(p)
               name == SubSeq(src, p, end.stop - 1)
    <3>3. end.state \in {Accept, Reject, NoState}
      <4> DEFINE fresh == [state |-> Accept, codep |-> 0]
      <4>1. fresh \in Decoders
        BY DEF Decoders, Accept
      <4>2. end = IdentLoop[p][fresh]
        BY DEF IdentEnd
      <4> HIDE DEF fresh
      <4> QED BY <2>2, <2>3, <4>1, <4>2, IdentLoopStops
    <3>4. end.state = Accept
      <4>1. ScanIdent(p).type \notin {"ERROR_BAD_UTF8", Undefined}
        BY <2>4, <3>1
      <4> QED BY <3>3, <4>1, IdentTypes
    <3>5. tok.to = end.stop
      BY <3>1 DEF ScanIdent
    <3>6. tok.type = IF end.stop = p THEN "ERROR_BAD_TOKEN"
                     ELSE IF name \in DOMAIN ebi_kw_map THEN ebi_kw_map[name]
                     ELSE "IDENT"
      <4>1. end.state \notin {Reject, NoState}
        BY <3>4 DEF Accept, Reject, NoState
      <4> QED BY <3>1, <4>1, IdentTypes
    <3>7. /\ end.stop = p + Len(text)
          /\ text = <<>> <=> end.stop = p
          /\ text = name
          /\ text # <<>> => TextType(text) = IF text \in DOMAIN ebi_kw_map THEN ebi_kw_map[text]
                                                                         ELSE "IDENT"
      BY <2>2, <2>3, <3>2, <3>4, NameToken
    <3> HIDE DEF text, name, end, tok, c, nc
    <3>8. To(Len(text), IF text = <<>> THEN "ERROR_BAD_TOKEN" ELSE TextType(text))
      BY <3>5, <3>6, <3>7
    <3> QED BY <3>2, <3>8
  <2> QED BY <2>8, <2>9, <2>10
<1>2. Spec => [][\A p \in DOMAIN src : Takes(p)]_vars
  BY <1>1, PtrInitInv, PtrNextInv, PTL DEF Spec
<1> QED BY <1>2 DEF TakesLongestToken
=============================================================================
