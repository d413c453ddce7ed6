# A verification of ebi in TLA+

ebi is a small embeddable language runtime in C: a concurrent, generational,
incremental garbage collector (`src/src/ebi_core.c`), a slab heap, a compiler
front end, and a Python program that simulates the collection algorithm
(`src/misc/gcsim.py`). This directory models the parts in which several
threads, or a thread and a collector, work on the same state, the front end of
the compiler down to the bytes of a source, and the list of the language. TLC
checks the models on small instances; TLAPS proves the main invariants for
every value of the constants. Paths are those of the repository, below `src/`;
a bare line number is one of `src/src/ebi_core.c`.

Only lines 1-695 of `ebi_core.c` are compiled. Lines 697-1640 are an older core
inside `#if 0`; `sketch/builtin_main.c` and `ebi_compiler.c` are still written
against its interface. The models follow the live half, and take from the
retired one only what the live half lacks and its callers use
(`ebi_lock_thread`, `ebi_unlock_thread`).

## Inventory

| Component | State | Operations | Interacts with |
|---|---|---|---|
| collector algorithm, `misc/gcsim.py` | `all_objs`, each object's `g`, `n`, `props`; `queue_n`; thread stacks; the epoch | `sim_new/dup/pop/load/store/load_root/store_root`, `Object.set`, `mark_ng`, `mark_nn`, `walk_n`, `mark_stack`, the cycle in `simulate` | a random scheduler interleaves mutators and the walk |
| mutex, 86-121 | `lock`, `waiters` | lock, try_lock, unlock | `WaitOnAddress`, `WakeByAddressSingle` of the system |
| fence, 123-152 | `lock` | close, open, wait | `WaitOnAddress`, `WakeByAddressAll` |
| thread barrier and checkpoints, 582-651 | `vm->checkpoint`, `checkpoint_fence`, `gen`; their copies in each thread; each thread's mutex | `ebi_checkpoint`, `ebi_synchronize_thread(_fence)`, `ebi_gc_thread_barrier` | mutex, fence; flushes lists and links |
| intrusive atomic stack, 15-84 | two words per stack: head and count; the first word of each list | push, pop, push_all, pop_all over `ebi_dcas` | carries the object lists of the collector |
| marking and write barriers, 314-361, 372-493 | object generations, the thread's mark list and deferred links, `vm->objs_mark` | `ebi_assign_ref`, `ebi_mark`, `ebi_defer_link`, `ebi_flush_links`, `ebi_flush_marks`, `ebi_gc_mark`, `ebi_mark_fields` | stacks; called by mutators, by the collector, by the barrier |
| cycle, 660-695 | `vm->gc_stage` | `ebi_gc_step` | all of the above |
| alive lists and sweep, 222-228, 325-333, 363-370, 495-554 | alive lists per group, `objs_sweep`, `objs_sweep_next` | `ebi_add_alive`, `ebi_flush_alive`, `ebi_gc_sweep`, `ebi_alive` | stacks, marks |
| heap, `ebi_heap.c/.h` | slabs, masks, caches per size class | `ebi_slab_get_free`, `ebi_heap_alloc` | no caller yet; threads that free objects |
| scanner, `ebi_compiler.c` 1-367 | position in the source, token, state of the UTF-8 automaton | `ebi_scan`, `ebi_utf8_decode`, `ebi_is_identifier` | identifier cache; called by the parser |
| identifier cache, 152-188 there | entries with hash, symbol and the time of their last use; `ident_lru` | `ebi_compiler_intern` | intern table of the retired core |
| parser, 369-749 there | stack of temporary AST nodes, calls | `ebi_parse_*`, `ebi_accept` | scanner |
| builtin list, `ebi_builtin.c` | data, size, capacity | `ebi_list_push`, `ebi_list_pop` | an allocator |
| weak references, intern table, 999-1157, 1545-1637 (retired) | slots with generations, a Robin Hood hash table of weak references | make, resolve, intern, rehash | collector stage, `weak_mutex` |
| types, stacks, strings (retired), UTF-8, platform, generators, sketches | - | - | - |

What is hard here, and what makes each part correct:

* *Interleaving of mutators and the walk.* A mutator moves the only reference
  to an object behind the walk. Nothing reachable may be freed, nothing that was
  garbage for a whole cycle may stay, and no old object may end up with a
  reference to a new one that a minor cycle would not follow.
* *A lock-free stack whose nodes are recycled.* A list can be popped, changed
  and pushed again between two reads of another thread (ABA), and the first
  copy of the two words can be torn.
* *Wake-ups.* Mutex and fence sleep on a word and are woken through it; between
  the test and the sleep everything may change.
* *A handshake.* The barrier must stop every thread, not itself, must bring each
  to the same generation exactly once, and must end.
* *Deferred work.* References are stored at once, and told to the collector at
  the next flush.
* *Lists within lists on one array.* The parser keeps the nodes of all lists it
  is building on `temp_asts`, which moves when it grows; a dozen functions that
  call each other push to it. No list may get the nodes of another, and every
  loop must take a token or end.
* *A scanner by hand.* It looks one byte ahead and counts bytes back; a byte too
  few and it does not advance. Behind it a table-driven UTF-8 automaton and a
  cache decide which spellings are one name.
* *Bits taken while others set them.* The slots of a slab are taken mask by mask
  with an exchange, and listed without a branch from packed counts.
* *A block that moves.* A list that is full gets a new block; what it held must
  be there.

`PROJECT.json` lists these as hazards line by line, with the properties that
cover them.

## Modules

| Module | What it is |
|---|---|
| `ManagedHeap` | The heap as a program sees it: allocate, copy, load, store, and `Reclaim`, which takes only what no root reaches. What any collector promises. |
| `GcSim` | `gcsim.py`: one action per function (`SimNew`, `SimStore`, `SimGcN`, `MarkStack`, ...), each superposed on an action of `ManagedHeap`. `Object.set` is `SetBarrier`, `mark_ng`/`mark_nn` are `MarkNG`/`MarkNN`. Also holds the invariants, the tricolour one among them. |
| `GcSimProofs` | TLAPS proofs about `GcSim`. |
| `Lock` | An atomic lock. |
| `Mutex` | `ebi_mutex`: one atomic access per action. The wait set is the set of threads at `asleep`; `WaitOnAddress` compares and sleeps in one step, and may return for no reason. |
| `MutexProofs` | TLAPS proofs about `Mutex`, its refinement of `Lock` among them. |
| `ThreadBarrier` | `ebi_checkpoint` and what it calls, `ebi_gc_thread_barrier`, the fence access by access. Mutexes are atomic here, as `Mutex` shows they are. |
| `ThreadBarrierProofs` | TLAPS proofs about `ThreadBarrier`. |
| `ListStacks` | Stacks of lists with atomic operations. |
| `IaStack` | `ebi_ia_*` over `ebi_dcas`: the two-word read may be torn, a failing `ebi_dcas` reloads, links are read and cleared by steps of their own. |
| `IaStackProofs` | TLAPS proofs about `IaStack`, its refinement of `ListStacks` among them. |
| `ParserProofs` | TLAPS proofs about `Parser`, its refinement of `AstLists` among them. |
| `Collector` | Marking in `ebi_core.c`: every access to an object, a field or a shared list is a step. Uses the stacks as `ListStacks` promises them and a coarse barrier. |
| `CollectorProofs` | TLAPS proofs about `Collector`. |
| `AstLists` | Nested lists: open, add to the innermost, close. |
| `Parser` | `ebi_parse_*`: one action per function, over a stack of locations (`calls`), the array `temp_asts` and the `begin` of each open list; the source is chosen token by token. |
| `Utf8` | `ebi_utf8_decode` and its tables, `ebi_is_identifier` and its binary search. |
| `IdentCache` | `ebi_compiler_intern`: the window of a name, the first entry at which the search stops, the one that is replaced. |
| `Scanner` | `ebi_scan` over a sequence of bytes, one token per step, with both of the above. |
| `ScannerProofs` | TLAPS proofs about `Scanner`, `Utf8` and `IdentCache`. |
| `SlabHeap` | `ebi_slab_get_free`: one exchange per step, one round of the listing loop per step; other threads free slots meanwhile. |
| `SlabHeapProofs` | TLAPS proofs about `SlabHeap`. |
| `BuiltinList` | `ebi_list_push` and `ebi_list_pop` with their errors and the growth of the block. |
| `MCGcSim`, `MCMutex`, `MCIaStack`, `MCCollector`, `MCScanner` | The instances for TLC: model values, symmetry, the sources and the hash of the scanner. |

Locations in `pc` are named after the statement a thread is about to execute;
`reg` in `Collector` and `IaStack` holds a function's locals and arguments. In
`ThreadBarrier`, `mutex[t]` is the owner of `et->mutex`, and `index` is the loop
variable of the barrier. A definition whose comment begins with *Mutant:* is a
wrong variant of the one below it; it is used nowhere, and `PROJECT.json` tells
which property fails when it takes the other's place.

Some choices a reader should know:

* `gcsim.py` runs one function at a time, so each is one step. Its fixed counts
  of steps per phase become "any number"; the every-tenth-cycle rule for major
  cycles becomes a choice at each cycle, which includes the program's. The
  epochs are unbounded there, and so they are here, up to `NumCycles`.
* Freed identities of `ManagedHeap` can be allocated again.
* In `IaStack` a thread at a time moves with `pop_all` and `push_all` what it
  finds, NULL included, to a stack that gets nothing else, as in `ebi_gc_step`
  (684, under `gc_mutex`). `push_all` asserts that this stack is empty (50), and
  nothing in the code makes it so: the stage goes from SWEEP to IDLE (690)
  whatever is left to be swept. The assertion holds today because the live code
  adds to N2 only (569), so that all that is ever moved from N1 is NULL. The model
  lets lists be there: a `push_all` that finds one stops the program, as
  `ebi_assert` does in every build (`AssertEmpty`, `Stopped`).
* In `Collector` objects have the number `n` only. An object gets a `g` only if
  it, or the object it is linked to, already has one (353, 442, 488), and no
  object is born with one (564): in the live code G is empty for ever.
  `GcSim` covers the two-generation algorithm. A thread that has run into
  undefined behaviour (a write past `defer_links`, a link to NULL) stops.
* Likewise the alive lists: `ebi_gc_sweep` takes its lists from N1 and G, and
  the live code adds to N2 only. Nothing is ever swept, so a model of the sweep
  would only show that it has nothing to do.
* In `Parser` a location such as `params.next` is the place in the function
  where it looks at the next token or where a call returns to. An action that
  calls puts the callee's first location on top. The history `brackets` holds
  the brackets accepted and not yet closed. `ebi_perror` fails an assertion and
  stops the program; what would come after it is not modelled.
* In `Scanner` a build (`Builds`) has a signed or an unsigned `char`. The
  repository has no build file and includes headers of Windows, where MSVC makes
  `char` signed unless it is told `/J`. A signed `char` from 0x80 on up reaches
  `ebi_utf8_decode` as an index of 0xffffff80 or more (299): the type of such a
  token is `Undefined`, and nothing is followed behind it. The unsigned build is
  the one the tables are written for.
* The reference for `TakesLongestToken` is the set of texts a token may have
  (`TextType`), of which the longest must be taken. It is about every token, so
  it also says what is taken where the code does not take the longest: for an
  operator behind blanks (`BehindBlanks`), and with a character of several bytes
  right behind a name (the tail in `LongestToken`). The characters of names are
  stated in the ranges the comment of the stops describes (`InValidRange`, the
  comment at `ebi_compiler.c` 72-75), and `BelongsToIdentifier` says that the
  code has them the other way round.
* `RefusesOnlyBadUtf8` compares the automaton with the encoding of every value
  (`Encoding`), not with a second automaton. The perfect hash by which the code
  finds keywords is a function on the texts of its five keywords here.
* In `IdentCache` the symbol of a text is the text itself: `ebi_intern` has no
  definition in the live code, and its callers ask no more of it than that equal
  texts get one symbol.
* In `SlabHeap` a mask is the set of its free slots; the packed counts are the
  numbers they are, so that the carry from nibble to nibble is what the code does.
* `BuiltinList` keeps a block as a sequence; `ebi_alloc` may fail, and gives
  elements nobody has written.

## Runs

| Run | Instance | Shows |
|---|---|---|
| `gcsim` | 3 objects (the root one of them), 1 name, 2 threads, stacks of 2, 3 cycles; 1,348,169 states | safety of the algorithm, `HeapSpec`: it implements `ManagedHeap`; the last loop of a cycle ends (`DrainEnds`) |
| `mutex` | 3 threads, 1 spin, 2 calls each; 40,757 states | exclusion, exact waiter count, no lost wake-up, `ImplementsLock`, every `lock()` returns |
| `barrier` | 3 threads (the collector the second), generations 1-2, 3 barriers; 34,981 states | one generation among markers, exclusive barrier, nobody left behind, nobody waits in a circle; the barrier ends, late threads synchronize |
| `ia_stack` | 2 lists, 2 threads, 2 stacks, 6 operations; 527,782 states | lists are in one place, `ImplementsStacks`, every call returns or an assertion has stopped the program |
| `collector` | 2 objects with a field, 2 mutators and the collector, list size 1, 2 stores, 2 barriers; 1,784,052 states | no reference is hidden from the walk, none is overwritten unnoticed |
| `parser` | sources of at most 8 tokens, room for 2 nodes at first; 1,411,387 states | lists keep their own nodes (`ListsHoldTheirKind`, `ImplementsAstLists`), closing brackets match, blocks hold only written nodes, the array is large enough (`TypeOK`); every loop takes a token, but for two (`ParseEnds`) |
| `scanner` | six families of sources (below), a cache of 4 entries of which 2 are searched, both kinds of `char`; 643,198 states | the position advances, the longest token is taken (exceptions stated), exactly bad UTF-8 is refused by one build and read from outside the table by the other, a name has one entry and its own symbol |
| `fence_wakeup` | as `barrier`, one mutator | **violated**: a checkpoint need not return |
| `self_lock` | as `barrier`, the collector owns its mutex | **violated**: the barrier waits for itself |
| `defer_overflow` | as `collector` | **violated**: `defer_links` is written past its end |
| `slab_lists` | 2 masks of 2 nibbles, 2 threads | **violated**: the free slots are not listed |
| `list_growth` | capacity 2, then 4 | **violated**: a list that grows loses its elements |

Why the bounds are enough to be interesting. *gcsim*: three cycles are the
least for an object that is promoted in one, survives a minor one and is taken
by a major one; two threads let one store behind the walk what the other is
about to drop. Larger instances were run once: two names with one thread
(198 thousand states), four objects with one thread (2.0 million); the proofs
need no bound. *mutex*: three threads give an owner, a sleeper and a newcomer;
`SpinLimit` 1 makes both the spin and the sleep happen. *barrier*: the collector
is neither the first nor the last of `vm->threads`; two generations make the
byte wrap. *ia_stack*: ABA needs one list to be popped and pushed back while
another thread is between its read and its `ebi_dcas`, which takes four
operations; six let a second chain follow the first to the stack that is swept,
so that the assertion fails in some behaviours. The count is bounded by the
operations and does not wrap.
*collector*: a list of one object makes every mark after the first send the list
away; one deferred link fits, the second flushes. Three objects, one of them a
leaf, gave 10.8 million states once, without a violation. *parser*: eight tokens
are enough for `def f(a:T)` with its end, for `struct S{a:T}` and for calls
within calls under `return`; `MinTemps` 2 (16 in the code) lets the array grow in the middle of
nested lists. `MaxStuck` bounds how often the two loops that take no token may
push another node before the run leaves them. *gcsim* is run without symmetry
because `DrainEnds` is a liveness property. *scanner*: all
sources of at most 4 bytes over eleven (blanks, ends of lines, operators, a
digit, a letter, characters of two bytes that may and may not be in a name), of
5 over seven of them; all of at most 4 bytes over the first and last bytes of
each UTF-8 length and of its second bytes, which contain every overlong form,
surrogate and value too large at its edge, and a letter before four of those,
for what may follow in a name; all of at most 5 bytes over the
letters of a keyword and a blank; lists of up to 5 names of one letter, of which
three have the same hash and one the window that wraps. *slab_lists*,
*list_growth*: the smallest in which a second nibble, and a growth with elements,
occur.

Deadlock is not checked where a bound, or an environment that need not call
again, makes a behaviour stop; what must not stop is stated as a liveness
property instead.

### Fairness

* `Mutex`: weak fairness of each thread's own steps, and an owner unlocks. No
  fairness between sleepers, none for spurious wake-ups. With a bounded number
  of calls that is enough; without the bound the mutex starves, as any lock
  that newcomers may take does.
* `ThreadBarrier`: weak fairness of each step of `ebi_checkpoint` and of the
  barrier, and a running mutator keeps calling `ebi_checkpoint`, as the comment
  at 239-241 requires of it. No thread is obliged to come back.
* `IaStack`: weak fairness of each step of a call. A retry is caused by the
  success of another call, so with finitely many calls every one returns, if no
  assertion stops all of them.
* `GcSim`: weak fairness of `SimGcN`, the walk of one queue entry. In the drain
  loop `choice(sims_gc)` picks it again and again (5 of its 12 entries per
  thread), and it can run as long as the queue is not empty; the mutators are
  not obliged to do anything, nor are they held back.
* `Parser`: there is one thread, and it goes on (weak fairness of `Next`). The
  locations at which `ParseEnds` lets it stay are the ends of the tree, the
  failed assertion and `Stuck`.

### What the code does wrong

1. `ebi_fence_wait` (144) tells `WaitOnAddress` to sleep while the word is 0,
   which is the *open* fence. A thread that saw it closed and calls after it was
   opened sleeps until the next barrier (`fence_wakeup`). While the fence is
   closed the call returns at once, so until then the wait spins.
2. `ebi_gc_thread_barrier` (638) locks the caller's own mutex too. The collector
   of `sketch/builtin_main.c` holds it (`self_lock`).
3. `ebi_flush_links` (430) does not reset `num_defer_links` (`defer_overflow`).
4. `ebi_slab_get_free` (`ebi_heap.c` 53-56) uses the packed counts without a
   mask. They hold one count per nibble, and the lowest is meant: as soon as a
   higher nibble has a free slot too, `d` runs ahead by multiples of 16 and the
   stores land there (`slab_lists`). With `& 15` on each of them the property
   holds for the instance (85,476 states).
5. `ebi_list_push` (`ebi_builtin.c` 29) copies the new block over the old one.
   A list that grows holds what nobody has written (`list_growth`). With the
   arguments of `memcpy` the other way round the property holds (405 states).

The models had to be told of the following, which no run counts as a violation
because no comment or test of the repository says otherwise, or because it is
data the models abstract. In `ebi_core.c`:

* `ebi_assign_ref` (470) defers a link to NULL when a field is cleared, and the
  flush (438) fails the assertion at 292. In `Collector` the thread stops there.

In `src/src/ebi_compiler.c`:

* `ebi_parse_param` pushes its node (446), and so do two of its callers (488,
  526): each field and each parameter is in its list twice. `ListsHoldTheirKind`
  is about the kind of the nodes, and holds.
* `ebi_parse_block` (682) and `ebi_parse_args` (584) take nothing where no
  statement or expression can begin, and go round for ever, allocating: at an
  expression statement, a block that is not closed, a comma between arguments.
* `f(())` leaves a node nobody has written to in the list of arguments (587).
* `nc_eq` is computed before blanks are skipped (222): ` = ` is scanned as `==`
  and swallows the byte behind, ` -=` as `-` and `=`. `sketch/list.ebi:51-52`
  has both. `TakesLongestToken` states it (`BehindBlanks`).
* After a character of several bytes that may not be in an identifier, the end of
  the text is counted back by one byte (315), into that character.
* `c` is a `char` (220, 294, 299). Where that is signed, as MSVC has it, a byte
  from 0x80 on up indexes the table of the automaton far outside: no name with a
  foreign letter can be scanned (`RefusesOnlyBadUtf8` says exactly which sources
  meet it).
* `ebi_is_identifier` (101) takes an even number of stops below the character
  for *inside*, the comment at 72-75 for *outside*, so U+0101 to U+167F, which the
  comment calls valid, are not in names, and U+2001, a space, is. They agree at the
  stops only, where the search counts one stop less. `TakesLongestToken` holds because
  its reference says this of the comment's ranges; against the ranges themselves
  it is violated in the same instance, by an `a` before E0 A0 80 (U+0800): the token
  is `a` and the first two of these bytes.
  `_` is in neither table, so no name may have it.
* The identifier cache replaces the entry used last (171). When `ident_lru` wraps,
  an entry can be so old that none is chosen, and slot 0 is replaced.

On a 32-bit build a failing `ebi_dcas` (24-25) gives the expected value back to
its caller instead of the current one, so the loops around it never end once
they have lost a race; the mutant `DcasFailsBlind` shows it.

## Proofs

The theorems hold for any constants that the `ASSUME`s admit. Most only say of
which kind the constants are (`HeapAssumption`, `CycleAssumption`,
`MutexAssumption`, `BarrierAssumption`, `StackAssumption`,
`CollectorAssumption`, `CacheAssumption`, `ParserAssumption`) and which sets are
finite: the threads of `Mutex`, because its waiters are counted, and the lists of
`IaStack`, because a walk over links must end. `SourcesAssumption` says that a
source is a sequence of bytes without a quotation mark, as the loop over a string
is unfinished. Three theorems state a hypothesis of their own: a hash is a
number (`HashIsNat`), a slab has positive sizes (`SizesArePositive`), and the
collector has not locked itself (`~LocksItself`), without which the barrier does
wait for itself (`self_lock`). `BuildsAssumption` only says that a build has a
signed `char` or has not: what is proved of the scanner holds for both.

**`GcSimProofs`.** `IInv` (at the end of `GcSim`) is the type invariant and six
parts: the heap is closed under references; headers are sound (no mark from the
future, an object is queued as often as this cycle marked it); a reference from G
to N exists only while its source is queued; `WhitesProtected`; and the objects
that were garbage at the start of the cycle are isolated. `WhitesProtected` is
the tricolour argument: whatever a black object or a scanned stack refers to is
marked, or reachable from a grey object through white ones. "Reachable" is
stated as "in every closed set", so no recursion is needed. The hard point of
the proof is a store between two objects of G, which has no barrier: there the
stored object can be white only in a major cycle, where all roots were marked
at the start. At the end of a cycle there are no grey objects, hence no white
one is reachable (`NothingInUseIsSwept`), nor is one of N referred to by G
(`GIsClosed`); what was doomed is still white (`GarbageIsSwept`). The step lemmas
give `ImplementsManagedHeap`: `Spec => HeapSpec`.

**`MutexProofs`.** `IInv` adds to the properties that `lock` is 1 exactly while
somebody holds it. `MutexExcludes`, `WaitersAreCounted` (cardinalities, so the
set of threads is assumed finite), `NoWakeupIsLost`, and `MutexImplementsLock`.

**`ThreadBarrierProofs`.** While the barrier goes round, threads are up to date
or late. Late ones may run, all with the old generation (`OldGensAgree`); one
that is up to date is at the closed fence, or the barrier holds its mutex
(`UpToDateStopped`); a thread that is in the middle of synchronizing owns its
mutex and is late, so the barrier cannot pass it (`Synchronizing`,
`MutexesOwned`). From that: `ThreadsAgree`, `OthersAreStopped`,
`NobodyIsLeftBehind`, `TypeCorrect` - for any number of threads, whether or not
the collector locks itself. If it does not, a second invariant says who may have
a mutex (`OwnersInv`: nobody, its own thread where it is running or synchronizing,
or the barrier between taking and releasing it). With both, nobody waits in a
circle (`NobodyWaitsInACircle`): a thread whose mutex the barrier waits for is
late, or has its unlock before it, and nothing it does until then waits for
anybody. That is the part of "the barrier ends" that needs no fairness.

**`IaStackProofs`.** `IaStack` implements `ListStacks`: a push or a pop takes
effect at the compare-and-swap that succeeds, although a list may be popped,
changed and pushed back between the reads that lead to it. The invariant says
why. The copy of the count is taken before the link of the head is read, and no
success leaves the count alone; so if a pop succeeds, the stack has not been
touched since, its head was in it all the time, and nobody writes to the first
word of a list that is in a stack: the link that was read is still right
(`CallOK`). A `push_all` that gets past its assertion has a copy with no head, so
if it succeeds the stack was empty, and no list is lost under the chain
(`PushAllSwap`). That a list is in one place (`OnePlace`) keeps the chains apart
when a link is written. The count is unbounded there: the theorem
says nothing of a count that wraps between two reads. What a stack contains is
defined by a walk over the links (`Walk`, a recursive function); that a walk finds
the only chain from its head is proved by the least counterexample.

**`CollectorProofs`.** `NoHiddenReference` and `OverwrittenIsKept`, for any
numbers of objects, fields and threads. A thread at work marks with the number of
the cycle; one that has the next number already is stopped. A reference is
deferred before it is stored; a thread that flushes has marked everything it
deferred before its set is forgotten; and what a store overwrites is marked,
deferred, or being marked by the thread that stores. No mark is from the
future, which is why the end of a barrier, where the number changes, leaves
nothing to prove.

**`ParserProofs`.** `BracketsMatch`, `ListsHoldTheirKind`, `TypeOK` and
`ImplementsAstLists`, for a source of any length, any depth of the recursion and
any first size of `temp_asts`. The invariant is about the stack of calls: which
function can be below which (`CalledFrom`), that the activations which have
accepted a bracket have one each in `brackets` and those which build a list one
each in `begins`, in the order of the calls (`Activations`), and what a function
finds in the node it is given (`Results`). A step changes the newest activations
only, so `Activations` is taken apart and put together by one activation at a time
(`Drop`, `Push1`) and the older ones need no argument. Two tables carry the rest: where
a function may go on from a place without changing its caller, its bracket or
its list (`Goes`), and which call it may make there (`MayCall`). The lists
lie one behind the other on the array (`InOrder`), so a push and the end of a
list touch only the last (`ListAdds`, `ListEnds`). Each function then has a lemma with
one case per disjunct; its conclusion (`Moves`) says both that the invariant is
kept and that the step is one of `AstLists`. `BlocksAreInitialised` rests on an
invariant on top of it: no list has a node nobody has written to (`Clean`), or the
innermost block is in the loop that takes nothing any more, because its token
neither begins a statement nor ends the block (`Frozen`). The second never
ends, so the block with such a node is never finished.

**`ScannerProofs`.** Of the cache: a name is in the window of its hash, and an
entry holds the symbol of its own text, whatever the hash function and however
many names. Of the scanner, for sources of any length: `ScannerAdvances`,
`BadUtf8IsRefused` and `TakesLongest`. These compare a loop over bytes with
definitions that know nothing of it, in four steps. (1) One step of the automaton is
computed from its table for every state and every byte (`FirstByte`,
`FollowingByte`), so one to four steps accept exactly the bytes that some value is
encoded as, with that value (`TakesChar`), and reject within them otherwise
(`RejectsBytes`). (2) The binary search finds the number of stops below a
character (`SearchCounts`), by the least counterexample in the distance of its
bounds. (3) The loop gets past every length at which a text of characters of
names ends (`LengthsAreTaken`), so it gets to the longest and there stops or
rejects (`IdentEnds`), or before that to the first byte that is outside the table
(`AsciiPrefix`, `MeetsForeign`). (4) The token that the switch over the first byte gives is
compared with the lengths of the texts that are tokens, byte by byte
(`SingleLengths`, `OperatorLengths`, `NameLengths`).

**`SlabHeapProofs`.** While the masks are taken no two calls get one slot
(`MasksAreApart`) and nothing is listed that was not taken. It is
about the part of the function before the listing, which goes wrong
(`slab_lists`).

**Only model-checked:** the liveness properties (`DrainEnds`, `EveryLockReturns`,
`BarrierEnds`, `LateThreadsSynchronize`, `EveryCallReturns`, `ParseEnds`): fairness and
leads-to are out of the proof system's reach. Every invariant and every action
property of a passing run is proved. The runs that find a violation have no theorem.

## Not modelled

* Alive lists, sweep and promotion to G of the C code: dead code today (above).
* `ebi_mark_globals` is empty; the live core has no roots, so what is reachable
  is not defined there. `NoHiddenReference` says instead that what marked objects
  refer to is marked or pending.
* Memory ordering: atomics are sequentially consistent, other accesses to shared
  words happen in program order. The code marks two missing fences (433, 633).
* Failure of `malloc` (560, 574 return NULL without a change of state).
* Several collector threads: nothing in the live code starts a second one, and
  two that do not own their own mutex would wait for each other in the barrier.
* `ebi_heap_alloc`: its fast path falls back on `ebi_heap_alloc_slow` and
  `ebi_heap_alloc_big`, which have no definition, and the tables of size classes
  are constants nobody reads. What is left is `ebi_slab_get_free`.
* String literals of the scanner, whose loop is unfinished (an escape is never
  passed); the numbers, of which `ebi_scan` reads one digit; `ebi_dump_ast`; where
  a node is stored in its parent.
* The retired core: weak references, intern table, types, strings, stacks. It is
  inside `#if 0`, half rewritten (it names fields and functions that do not exist
  any more) and does not compile, so there is no program to be faithful to.
* Generators; platform macros; the sketch programs, which serve as the
  environment.

## Plan

In order of importance; 1 to 9 are done.

1. `ManagedHeap`, `GcSim`: the algorithm and its promise. Proved.
2. `Mutex` over `Lock`. Proved.
3. `ThreadBarrier`: the handshake, its findings, nobody waits in a circle. Invariants proved.
4. `IaStack` over `ListStacks`. Proved.
5. `Collector`: marking and write barriers over the parts above. Invariants proved.
6. `AstLists`, `Parser`: the front end's lists and calls. Invariants and refinement proved.
7. `Utf8`, `Scanner`: tokens over bytes. Proved.
8. `IdentCache`: names, their window and their symbol. Proved.
9. `SlabHeap`, `BuiltinList`: slots taken while others free them, growth.
10. *When the code has them:* the sweep and `ebi_alive` (against its definition for
    all pairs of bytes), weak references resolved against the stage of the cycle, the
    intern table, the slow path of the heap.

Runs stay one per question; components that are used together share one (the
scanner, its UTF-8 automaton and its cache).
