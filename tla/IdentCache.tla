----------------------------- MODULE IdentCache -----------------------------
(***************************************************************************)
(* The cache of identifiers the scanner keeps in front of the intern       *)
(* table: ebi_compiler_intern of ebi_compiler.c.                           *)
(*                                                                         *)
(* ident_lru does not wrap here: a source is taken to have fewer than 2^32 *)
(* identifiers.  (Where it wraps, an entry as old as UINT32_MAX is passed  *)
(* over and the new one goes to slot 0, wherever its hash points.)         *)
(***************************************************************************)
EXTENDS Integers, FiniteSetsExt

CONSTANTS
    CacheSize,      \* EBI_IDENT_CAHCE_SIZE
    CacheScan,      \* EBI_IDENT_CAHCE_SCAN
    Hash(_)         \* the hash the scanner computes of a text

ASSUME CacheAssumption == CacheSize \in Nat \ {0} /\ CacheScan \in 1..CacheSize

VARIABLES
    ident_lru,      \* how many names were looked up
    ident_cache     \* an entry per slot; "used" says that symbol.data is set

cacheVars == <<ident_lru, ident_cache>>

Slots == 0..CacheSize - 1

\* An ebi_parser begins with zeros everywhere.
CacheInit ==
    /\ ident_lru = 0
    /\ ident_cache = [ix \in Slots |-> [used |-> FALSE, hash |-> 0, lru |-> 0, symbol |-> <<>>]]

\* ebi_intern, which only the retired half of ebi_core.c defines, gives equal
\* texts one symbol and others another: the symbol is the text itself.
ebi_intern(text) == text

Window == 0..CacheScan - 1

\* The entry that is looked at in step "scan" of the loop.
Slot(text, scan) == (Hash(text) + scan) % CacheSize
Entry(text, scan) == ident_cache[Slot(text, scan)]

\* Mutant: the texts are not compared.
SameHash(entry, text) == entry.hash = Hash(text)

Same(entry, text) == entry.hash = Hash(text) /\ entry.symbol = text

\* Mutant: the loop ends before it has looked at the last slot of the window.
StopsBeforeLast(text) ==
    {scan \in Window : /\ scan < CacheScan - 1
                       /\ ~Entry(text, scan).used \/ Same(Entry(text, scan), text)}

\* The steps in which the loop would stop; it stops in the first.
Stops(text) ==
    {scan \in Window : ~Entry(text, scan).used \/ Same(Entry(text, scan), text)}

\* If it does not stop, the entry that is replaced: the one with the smallest
\* difference of the counters, which is the one that was used last.
Delta(text, scan) == ident_lru + 1 - Entry(text, scan).lru

Best(text) ==
    CHOOSE scan \in Window : \A other \in Window : Delta(text, scan) <= Delta(text, other)

\* Where the loop ends, and whether with a hit.
Chosen(text) == IF Stops(text) = {} THEN Best(text) ELSE Min(Stops(text))

Hit(text) == Stops(text) # {} /\ Entry(text, Chosen(text)).used

\* What is returned.
Symbol(text) == IF Hit(text) THEN Entry(text, Chosen(text)).symbol ELSE ebi_intern(text)

\* After a hit, only lru is assigned; the rest is what it was.
ebi_compiler_intern(text) ==
    /\ ident_lru' = ident_lru + 1
    /\ ident_cache' = [ident_cache EXCEPT ![Slot(text, Chosen(text))] =
                        [used |-> TRUE, hash |-> Hash(text), lru |-> ident_lru + 1,
                         symbol |-> Symbol(text)]]

-----------------------------------------------------------------------------
(***************************************************************************)
(* No name has two entries, although an entry may be put behind others     *)
(* that are replaced later: a second entry would be found or not as the    *)
(* names before it come and go, and would take the place of other names.   *)
(***************************************************************************)
OneEntryPerName ==
    \A i, j \in Slots :
      (/\ ident_cache[i].used
       /\ ident_cache[j].used
       /\ ident_cache[i].symbol = ident_cache[j].symbol) => i = j

\* Its inductive form: an entry lies in the window of its name, and behind it
\* in the window are no unused slots, at which a search would stop.
InItsWindow ==
    \A ix \in Slots :
      LET entry == ident_cache[ix]
      IN  entry.used =>
            /\ entry.hash = Hash(entry.symbol)
            /\ \E scan \in Window :
                 /\ ix = Slot(entry.symbol, scan)
                 /\ \A before \in 0..scan - 1 : Entry(entry.symbol, before).used
=============================================================================
