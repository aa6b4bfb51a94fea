# A formal model of the cuckoo filters

This directory specifies the three cuckoo filters of the library in TLA+, model-checks them with
TLC on small instances, and proves with TLAPS, for every number of threads, buckets, slots and keys,
the invariants of the lock-free filter (no entry is lost, doubled or followed after its deletion, no
item that stays where it is is missed), that it is a bag with atomic operations until a helper
brings back a removed entry, and that the locked filters are such bags, too, but for their inserts that
fail: the coarse-grained one always, the fine-grained one until one of its unlocked swaps overtakes
another thread.

    tlc -config relocation.cfg MCHistory.tla       # a run: its module is named in PROJECT.json
    tlapm SequentialProofs.tla                     # a module of proofs

`PROJECT.json` lists the runs, the source lines of every definition, the hazards of the code with
the properties that cover them, the findings, and for every property a mutation of the model that
it detects.

## 1. The system

A cuckoo filter stores the MD5 fingerprint of a key in one of two buckets.  The first comes from
the Jenkins hash of the key; the other from the bucket an item is in and the hash of its
fingerprint (*partial-key hashing*), so that an item can be moved without knowing its key.
`insert` moves items away when both buckets are full.

| component (`src/cuckoo_filter/`) | state | operations | used by |
|---|---|---|---|
| Partial-key hashing (`hash_utils.cpp`, the `get_next_hash_index` of each filter) | none | `md5_fingerprint`, `jenkins_hash`, `get_next_hash_index` | all filters |
| Table words (`pointer_utils.cpp`) | none | pack and unpack a 16-bit counter, a 47-bit address and a mark bit in 64 bits; abort on a counter that does not fit | lock-free filter |
| Lock-free filter (`lock_free_filter.cpp`) | the table of words, the `HashEntry` objects, per thread two hazard pointers and a list of retired pointers | `insert`, `find` (public and internal), `remove`, `reset`, destructor; internal `relocate`, `help_relocate`, `check_counter`, `mark_hazard`, `clear_hazard`, `retire_key` | clients |
| Memory reclamation (same file) | hazard and retired pointers | `free_hazard_pointers`, which nothing calls | nobody |
| Coarse-grained filter (`seq_filter.cpp`) | the table of strings, one mutex | `insert`, `find`, `remove` | clients |
| Fine-grained filter (`fine_grained_locked_filter.cpp`) | the table of strings, 8 shared mutexes | `insert`, `find`, `remove` | clients |
| Utilities, tests, benchmark | | | |

**How they interact.**  The threads of the lock-free filter meet only in the table: every change is
a compare-and-swap on one word, every read a plain load.  `insert` calls `relocate` when its buckets
are full; `relocate` follows the chain of items to an empty slot and then calls `help_relocate` to
move items, which marks the source, copies the word to the destination and clears the source.  Any
thread that meets a mark (`find`, also on behalf of `remove`, and `relocate`) calls `help_relocate`,
too.  `remove` swaps a word out and retires its entry.  The threads of the other two filters meet
under their mutexes, except for the replacement loop of the fine-grained filter.

**What is hard, and what makes each component correct.**

* Hashing: an item must come back to the bucket it left (`Involutive`), or `find` does not see it
  (`Placement`).
* Table words: three fields share 64 bits and are compared as one (`WordsFaithful`); the counter is
  16 bits wide and only grows, so that a late mover or helper meets a word that has changed
  (`CounterMonotonic`, `MoveInv`, `TypeOK`, `AbortsAtTheLimit`); an insert and a remove in between may
  leave the same empty word.
* `help_relocate`: a move is two swaps, done by several threads at once, each with old information
  (`DuplicateHasMover`, `NoLostEntry`, `MarkedIsFrozen`, `LateExitsHarmless`, `RetiredIsGone`).
* `relocate`: discovers a path, traverses it later, starts again in the middle
  (`InsertFailsWhenFull`, `CallsReturn`).
* `find`: reads two slots one after the other while items move (`NoFalseMiss`, `StayingIsFound`).
* `remove`: swaps against a word found earlier (`RetiredIsGone`, `CallsReturn`).
* Reclamation, `reset`: nobody may follow a pointer to a deleted entry (`NoDangling`), which with
  `free_hazard_pointers` depends on announcing what one follows (`HazardCovers`).
* The locked filters: no item is doubled or lost (`ImplementsAbstract`, `BagButForFailures`,
  `BagUntilOvertaken`), or overlooked although it does not move (`StayingIsFound`); the mutex is given
  back on every path of every operation (`Exclusive`), and nobody waits for ever (`CallsReturn`).

## 2. The modules

| module | models |
|---|---|
| `PartialKey` | buckets, slots, the index arithmetic; the digests are constant functions, `^` is the constant operator `BitXor` |
| `TablePointer` | the table word as a record `[real, marked, counter]`, `create_pointer`, `get_new_mark` |
| `PointerWord` | the functions of `pointer_utils.cpp` on the 64-bit word, a mask as a remainder, a shift as a product |
| `TableWords` | the words behind the records of the filter, and that both agree (`WordsFaithful`) |
| `FilterState` | the state of `LockFreeCuckooFilter` and of its threads; compare-and-swap; hazard pointers; call and return |
| `Insert`, `Relocate`, `HelpRelocate`, `FindRemove` | one procedure each, one action per access to the table |
| `LockFreeFilter` | the whole: the initial state, the calls of the threads, `reset`, the destructor; `Spec` and `FairSpec` |
| `Reclamation` | the whole with `free_hazard_pointers`, called between two operations; each read of a hazard pointer and each deletion is a step |
| `FilterProperties` | its properties |
| `FilterHistory`, `FineGrainedHistory` | a filter with a history variable: the slots that have held an item of a call's key all the time; `FilterHistory` with the inductive invariant of a search, `SearchInv` |
| `FilterInvariant`, `MoveInvariant`, `BagInvariant` | the inductive invariants of the lock-free filter: `IInv`, `MoveInv` about the moves under way, `BagInv` about the entries outside the table |
| `OperationProofs`, `LockFreeFilterProofs` | lemmas about `IInv` and its preservation action by action; the theorems about types, deletion, counters, places, hazard pointers, aborts and table words |
| `MoveProofs`, `HistoryProofs`, `BagProofs` | the theorems about moves; about searches; about the bag |
| `AbstractFilter` | what a filter promises: a bag of fingerprints with atomic operations |
| `FilterRefinement` | the bag the lock-free filter implements, always or until a retired entry comes back |
| `LockedTable` | the table of strings and the steps the two locked filters share |
| `SequentialFilter`, `FineGrainedFilter` | the two locked filters: which steps run under which mutex; the bags they implement |
| `LockedTableInvariant` | what the steps of both locked filters keep, whatever the locks exclude |
| `SequentialInvariant`, `FineGrainedInvariant` | the inductive invariants of the two, with who holds which mutex |
| `LockedTableProofs` | the lemmas both share: what a step changes in the table, the frames and the bag |
| `SequentialProofs`, `FineGrainedProofs` | for each filter: mutual exclusion, its invariant, the refinement of the bag; the searches of the fine-grained one |
| `MCFilter`, `MCHistory`, `MCReclamation`, `MCSequential`, `MCFineGrained` | instances for TLC |

**From code to actions (lock-free filter).**  One action is one access to the shared table with the
local computation after it up to the next access.  `pc[t]` names the access that comes next
(`"hlp_move"`: the first swap of a move); the frames `ins`, `fnd`, `rem`, `rel`, `hlp` hold the
local variables of the procedures a thread is in.  A frame out of use has a fixed empty value, which
keeps the states few.  `insert`'s loops over slots and buckets are one position `pos`; in `relocate`,
`left` is the loop variable `i` plus one.  The random order in which `insert` tries slots is a choice
of any untried slot.

Where the code loads a slot and then announces the pointer as a hazard, these are two actions
(`FndFirst` and `FndHold1`, `FndSecond` and `FndHold2`, `HlpLoad` and `HlpHold1`, `HlpDst` and `HlpHold2`,
`RelProbe` and `RelHold1`, `RelDst` and `RelHold2`): the second belongs to the thread alone, but what it
announces may have left the slot since, and nobody looks again.  The load of the fingerprint behind
the pointer is part of the second action.  `relocate` does not announce what it reads after it has
helped (`RelReload`) nor the items it moves (`RelSrc`, which keeps the pointer in `source` until `RelDst`
follows it).  In `RelReload` the load of the slot and that of the fingerprint are one action: the
operations delete no entry, so nothing can come between them but `free_hazard_pointers`.

The model is sequentially consistent.  It may be: the table is changed by lock-prefixed instructions
only, and on x86-64, which the README of the library requires, loads are not reordered with each
other.  The one thing x86 reorders is the store of a hazard pointer with a load after it.  Only
`free_hazard_pointers` reads hazard pointers, which the operations never call; in `Reclamation`, where a
thread does, a delayed store would be one more way to the failure it shows.

**From code to actions (locked filters).**  A scan of a bucket is one action (its slots change under
the same mutex only); the store into the slot it found another; a replacement picks any slot, then
swaps.  In the fine-grained filter the mutex of the bucket is taken before a scan and released after
it, and the swap has no mutex (`fine_grained_locked_filter.cpp:72`).  Two threads that access a string
at the same time have undefined behaviour there: when a swap conflicts with another access, it may
either take place as usual or end in status `"undefined"`, after which the model says nothing.

**Assumptions on the constants** (`PartialKeyAssumption`, `TablePointerAssumption`,
`FilterAssumption`, `AddressAssumption`, `LockedTableAssumption`, `NoOwnerAssumption`,
`NumMutexesAssumption`): positive sizes; digests are functions into the right sets; `HashEntry`
objects have different, even addresses below 2^48 (`pointer_utils.h` says so of x64); the value for
"nobody holds the mutex" is no thread; the threads start with a table at rest, in which every item is in a
bucket of its key, no entry is in two slots and nothing is marked.  Any table that a sequence of
finished calls leaves is of that kind as long as the findings below do not strike, and a new filter
is the empty one.  A `reset` with another capacity or number of threads leaves an empty filter with
other constants, which is an initial state of the same specification.

Three properties of the hashes are *not* assumptions of the specifications, because the code does not
ensure them; theorems that need them say so.  `Involutive`: moving an item twice brings it back; it
fails when the number of buckets is no power of two (finding 4).  `Unambiguous`: keys whose fingerprints
collide have the same two buckets; when they do not, an operation on one key overlooks what a call
on the other has stored.  `TwoBuckets`: the two buckets of an item differ; they do not when the hash of
its fingerprint is a multiple of the number of buckets, and then a move loses the item (finding 5).
The instance of the coarse-grained filter has a collision, and `HashesAssumption` in `MCHistory`,
`MCSequential` and `MCFineGrained` makes TLC check the hypotheses of the theorems there, so that states
satisfy them.

**Bounds.**  `MaxCalls` (calls per thread), `MaxResets`, `Address` (`HashEntry` objects that can be
allocated), `Calls` (what a thread may call), all constants; `UINT16_MAX`, `NUM_ITEMS_PER_ENTRY`,
`NUM_MAX_KICKS` and the number of mutexes are constants of the code, small in the instances.

## 3. The runs

All instances finish within two minutes.

| run | instance | shows |
|---|---|---|
| `contention` | 3 threads, 1 call each, 4 buckets of 2 slots; both buckets of the key to insert are full, so an item has to move; the others find the two, and find, insert and remove a third that stays; one reset; 142,303 states, depth 74 | with a move that two others may help: the filter is a bag and the relocation invisible (`ImplementsAbstract`), no item that stays in its slot is missed (`StayingIsFound`), removed entries stay away (`RetiredIsGone`), no pointer survives a reset (`NoDangling`), every call returns (`CallsReturn`) |
| `relocation` | 2 threads, 2 calls each, 4 buckets of 1 slot; inserts that must move an item, among them two at once, against its removal; 163,645 states, depth 300 | the properties of words, entries, hazard pointers, counters and answers, with the inductive invariants `IInv`, `MoveInv`, `SearchInv` and `BagInv`; the filter is a bag until a retired entry comes back (`BagUntilRevived`) |
| `one_thread` | 1 thread, 4 calls of any kind, a reset, buckets of 2 slots, paths of several items; 47,249 states, depth 143 | the filter is an exact bag; `insert` fails only when every path is full; every call returns |
| `sequential` | 2 threads, 2 calls each, a crowded table, two keys with one fingerprint; 19,070 states | one thread at a time is at the table (`Exclusive`); the coarse-grained filter is an exact bag, except for the inserts that fail after replacing items (`BagButForFailures`); calls return; `IInv` |
| `fine_grained` | 3 threads, 1 call each, 2 mutexes for 4 buckets; 24,207 states | until a swap overtakes another thread, the fine-grained filter is a bag that may miss items, except for inserts that fail; an item that stays in its slot is not missed; no deadlock; the mutexes exclude (`MutexesExclude`); `IInv`, `SearchInv` |
| `false_miss`, `livelock`, `resurrection`, `self_loop`, `odd_table`, `reclamation`, `failed_insert` | | the findings of section 5 |

**Why the bounds are enough.**  The hazards need two swaps of one thread and a third party in
between; slots interact only along the path of one item.  Two threads with two calls reach every
overlap of a move with a second move, a removal and a re-insertion in either slot; a third thread
adds a second helper.  One slot per bucket is the worst case for relocation, which never changes the
slot index; `contention` has two for the scan loops.  Counters reach the limit of 9 in `relocation`
(two inserts that move an item back and forth), so the abort is reached, too.  Two
larger instances passed the same safety properties: `relocation` with three threads that insert, remove and
find the item that moves, two calls each (369,090 states, counters up to 5), and `fine_grained` with two
calls per thread (5,713,233 states).

**Properties worth a word.**

* `ImplementsAbstract` (lock-free): the bag counts the entries in the table that are not retired, a
  moving one once.  `insert` and `remove` take effect at their swap, which is their last step; a `find`
  that succeeds when it loads the word (`Seen`), and it says so one step later (`Confirm`).  With several
  threads the abstract `find` and `remove` may say no to an item that is there (`Misses`); with one they may
  not.  The property does not hold when removals overlap relocations: see `resurrection`.
* `BagUntilRevived` (lock-free): the same bag, in every behaviour, for as long as it is not `Revived`:
  no retired entry is in a slot without a mark, where `find` accepts it.  Moves may be overlapped by
  removals and insertions in any way.  `Misses` is allowed, which is finding 1.  `Revived` states are
  reachable in `relocation` (finding 3), and up to them the property says something of every step.
* `BagButForFailures` (coarse-grained): an insert that replaces takes effect when it stores its
  item; the replaced item in its hands stays in the bag.  All steps are those of a bag that misses
  nothing, except `Drop`, which is no part of the specification of a bag: an insert that has stored its
  item answers false, and some item is gone.  The strict property, `ImplementsAbstract`, is what the
  header promises; `failed_insert` shows the violation (finding 7).
* `BagUntilOvertaken` (fine-grained): `status` becomes `"overtaken"` when a swap hits a slot that
  another thread has scanned and is about to change, or that was cleared since it was seen full.
  Until then every step is one of the bag, or `Drop`.  Both conditions are needed: without either, TLC
  finds a lost item or one that is stored by an insert that fails.  `Misses` is allowed from the start:
  `find` overlooks an item that an insert has in its hands, against the promise of its header
  (`fine_grained_locked_filter.h:61`); and even without a replacement, an item may be inserted in the first
  bucket after its scan while an equal one is removed from the second before its.
* `StayingIsFound`: what is left of the promise of `find` when items move (finding 1).  A `find` or
  `remove` that answers no has not overlooked an item that was in one slot for the whole of the call,
  be it marked, or passed by others that move.  It holds of the fine-grained filter, too, even after
  its swaps have overtaken another thread.  The history variable `stayed` records those slots.
* `NoDangling` speaks of all the pointers a thread will follow, from the load on, announced or not.  The
  operations delete nothing, so in `contention` and `relocation` it is `reset` and the destructor that
  could break it; in `Reclamation` it is `free_hazard_pointers`, and it does (finding 6).
* `WordsFaithful`: what the filter does with records it would do with 64-bit words: the getters give
  back what was packed, setting one field leaves the others alone, and two words in use are equal
  exactly when all three fields are, which is what a compare-and-swap decides by.
* `HazardCovers` says that the entry a thread is about to compare or store is announced by it, at
  those labels of `help_relocate` and `remove` where the code has announced it.  It says nothing of the time
  between a load and the announcement, which is what finding 6 is about.

**Liveness and fairness.**  `FairSpec` and the specifications of the locked filters assume weak
fairness of `Step(t)`: a thread that is in a call gets to run.  That is what a preemptive scheduler
gives; nothing is assumed of the order or the number of steps, or of the outcome of a
compare-and-swap.  Starting a call is not fair.  For mutexes weak fairness suffices because calls are
bounded: nobody can take a mutex again and again (the report itself notes that readers may starve
writers in the fine-grained filter under an endless load).  `CallsReturn` is lock-freedom's
consequence on finite work: if every thread only makes finitely many calls, all return.

`CHECK_DEADLOCK FALSE` is in `fine_grained` only: there the program stops when the calls are used up
or the behaviour is undefined.

## 4. The proofs

Assuming only the constants' assumptions and the hypotheses named, TLAPS proves for any finite or
infinite set of threads and any sizes:

| theorem | says |
|---|---|
| `Invariance` | `Spec => []IInv` |
| `TypeCorrect` | `Spec => []TypeOK`: no bucket, slot or level out of its array, no counter above `UINT16_MAX` |
| `NeverDangling` | `Spec => []NoDangling`: the table and the threads never hold a pointer to a deleted entry, as long as nobody calls `free_hazard_pointers` |
| `CountersNeverGoBack` | `Spec => CounterMonotonic`: no step takes the counter of a slot back, except when the whole table is dropped |
| `EntriesInPlace` | if `Involutive`: `Spec => []Placement`: no interleaving takes an item out of its two buckets |
| `HazardsAlwaysCover` | `Spec => []HazardCovers` |
| `OnlyAbortsAtTheLimit` | `Spec => []AbortsAtTheLimit`: the process aborts only when a slot has used up its counter |
| `WordsAlwaysFaithful` | `Spec => []WordsFaithful` |
| `MovesKeepTrack` | if `Involutive` and `TwoBuckets`, here and in the next four: `Spec => []MoveInv` |
| `EntriesAreNeverLost` | `Spec => []NoLostEntry`: whatever moves, helpers and late swaps overlap, an entry stays in the table until it is removed |
| `CopiesAreMoving` | `Spec => []DuplicateHasMover`: an entry is in two slots only between the two swaps of its move |
| `LateExitsNeverSwap` | `Spec => []LateExitsHarmless` |
| `MarkedStaysFrozen` | `Spec => MarkedIsFrozen` |
| `HandsKeepTrack` | if `Involutive` and `TwoBuckets`, here and in the next: `Spec => []BagInv` |
| `LockFreeRefines` | `Spec => BagUntilRevived`: until a retired entry comes back, the filter is a bag with atomic operations that may miss an item |
| `SearchKeepsTrack` | if `Involutive` and `Unambiguous`: `HistorySpec => []SearchInv` |
| `StayingItemIsFound` | if `Involutive` and `Unambiguous`: `HistorySpec => StayingIsFound` |
| `MutualExclusion` | coarse-grained filter: `Spec => []Exclusive` |
| `SequentialInvariance` | coarse-grained filter, if `Involutive`: `Spec => []IInv` |
| `SequentialRefines` | coarse-grained filter, if `Involutive` and `Unambiguous`: `Spec => BagButForFailures`: an exact bag, except when an insert fails after replacing items |
| `FineGrainedExclusion` | fine-grained filter: `Spec => []MutexesExclude` |
| `FineGrainedInvariance` | fine-grained filter: `Spec => []IInv` |
| `FineGrainedRefines` | fine-grained filter, for any hashes: `Spec => BagUntilOvertaken` |
| `FineGrainedSearch` | fine-grained filter, if `Involutive` and `Unambiguous`: `HistorySpec => []SearchInv` |
| `FineGrainedFindsStaying` | fine-grained filter, if `Involutive` and `Unambiguous`: `HistorySpec => StayingIsFound` |

**The inductive invariant of the lock-free filter.**  `TypeOK` is not inductive: a step uses what an
earlier step has checked.  `IInv` adds the table (`TableOK`: pointers point to allocated entries, a
mark is never without a pointer) and, per thread, what its frames hold at each label:

* `InsOK`: an entry is owned by an insert exactly as long as it runs, helping included;
* `RelOK`: `left <= depth`, and it is positive while a round is under way, so `route[depth - 1]` is
  inside the array and `left - 1` is a number;
* `HlpOK`: a source pointer is held from its load on, and when `help_relocate` clears the source the
  counter check of the first swap covers the second;
* `FndOK`: what a search has loaded and not yet looked at is allocated;
* `RemOK`, `CallOK`: `remove` holds an allocated entry exactly before its swap; a running call has
  its arguments.

**The argument.**  `OperationProofs` starts with what the invariant gives an action (types of what it
reads, of frames), and that a step of thread *t* leaves the frames of the others correct (their
pointers stay allocated, since only `DeleteAll`, with all threads idle, frees entries).  Then it has
one lemma per action, which `LockFreeFilterProofs` combines.  `CountersNeverGoBack` follows from `IInv`
with the counters each swap writes: `help_relocate` stores a counter above both slots', `insert` and
`remove` keep it.

The theorems about places, hazard pointers and aborts add to `IInv` what they need: the item a
helper holds is in a bucket that is one of its own (`HoldsPlaced`, for `Placement`); each label from an
announcement to the swap has its hazard pointer (`HelpFrameOf`, `RemoveAnnounced`, for `HazardCovers`); and the
counters a helper has read are not ahead of those in the table (`ReadCounters`, for
`AbortsAtTheLimit`: when their maximum plus one does not fit, the slot of that counter is at its limit
now).  The steps of the other threads are dealt with once, by `StepActsFor`, `StepStores` and
`StepHelpFrame`, which say what a step leaves alone.  `WordsAlwaysFaithful` needs of `IInv` only that
the words in use are well typed; the rest is arithmetic: a number is determined by its quotient and
remainder, and an even address by its halves.

**The moves.**  None of `NoLostEntry`, `DuplicateHasMover`, `LateExitsHarmless` and `MarkedIsFrozen` is
inductive: each depends on what threads that are late in `help_relocate` still hold.  `MoveInv` says it:

* all that the table and the threads know of an entry is in two locations, one the destination of the
  other (`InTwoPlaces`); here a move must lead to another bucket and back;
* a source that has lost the word a thread has read never has it again, and the counter of the
  destination has passed it (`SourceOK`), so that the second swap and the late exits of that thread fail;
* a thread that has found the destination empty does not bring the item there after it has been there,
  or in the source again, without the counter it compares with having passed (`TargetOK`), and of two
  threads that would move an item in opposite directions one is too late (`OppositeOK`);
* between the two swaps the item is in the destination, or was removed from there (`MovedOK`), and two
  copies have different counters and a thread about to clear one (`CopiesOK`).

`SourceOK` and `TargetOK` speak of a thread from its load on, whether it has announced the pointer or not:
`MeetsMark` is one that has loaded a marked source, `FoundEmpty` one that has loaded an empty destination.

A helper can still bring a *retired* entry back (finding 3), which `MoveInv` allows.  `StepEffect`
in `MoveProofs` sums up what a step can do to the table: nothing, or one swap, of one of five kinds.
Then each conjunct has a lemma (`StepTwoPlaces`, `StepSource`, `StepTarget`, `StepMoved`, `StepCopies`,
...), which go through these kinds instead of the actions; that counters only grow comes from `CounterInv`.

**The bag.**  `Items` counts the entries that are `Live`: in the table and not retired.  `StepOutcome`
in `BagProofs` says what each action does to the answer, the table and the retired list: it goes on,
spots what a find looks for, says so, overlooks an item, puts one, drops one, or takes one out.  The
rest is that the bag changes accordingly:

* a step that puts or takes out nothing keeps the set of live entries (`SameEntries`): the only slots
  that lose an entry then are the source of a move that is cleared, whose entry is in the destination
  or already retired (`MovedOK` of `MoveInv`), and the only ones that gain one are destinations,
  whose entry was in the source and is in the bag already, unless it is retired;
* `insert` adds one entry that was not in the table, of its own key's fingerprint, and `remove` takes
  out one that was live: these are `HandsOK`, which also says that what a thread holds has not been
  given up by a failed insert (`leaked`).  If the word `remove` swaps out were of a retired entry it
  would be `Revived` before, since that word is not marked;
* one more or one less live entry is one more or less in the count of its fingerprint only (`OneMore`,
  `OneLess`, which need the theorems about cardinalities).

**The searches.**  The history variable records for each running `find` and `remove` the slots that
have held an item of its key since it was called.  `SearchInv` says that none of them is a slot the
search has passed: a slot that is recorded has never changed its pointer, so that the scan would have
found it, marked or not; what it has loaded and not yet looked at is what the slot still holds
(`HasRead`).  `Placement` and `Unambiguous` put all of them in the two buckets that are scanned.
`check_counter` plays no part: it can only make a search go over a slot again.

**The locked filters.**  A step of either is one of `LockedTable` under a lock, so that
`LockedTableProofs` states once what each step does to the table, the frames and the bag, whatever the
locks exclude.  `TableInv` (types, and how far each call is) and `PlacedInv` (items are where they are
looked for, under `Involutive`) are preserved by every such step.  The bag counts the items in the
table and those in the hands of inserts that replace; `StoreCounts` and `OneHand` count what a store
and a step of one thread change.

* Coarse-grained: what a call has learned from its scans stays true, since nobody else can change the
  table while it holds the mutex (`ScanOK`): the first bucket has no slot it wants when it scans the
  second, and the slot it has selected is as it was.  `Involutive` makes a replaced item findable, and
  `Unambiguous` lets a scan of a key's buckets speak for its fingerprint, as an exact bag requires.
* Fine-grained: `MutexesExclude` is inductive with `TableInv`.  It gives `OneApplies`: two threads
  never have selected the same slot.  So only a swap can change a selected slot, and as long as
  `status` is `"running"` none has (`SlotOK`): every selected slot is as the scan has seen it, and
  every hand holds an item.  That makes each answer one of the bag, that of a failing insert (`Drop`)
  aside.  The bag may miss items, so nothing is needed of the hashes.  `SearchInv` does not need
  `status`: an item that stays in its slot is not hit by a swap.  It is in one of the two buckets of
  the key (`PlacedInv`), and not in the first when that has been scanned in vain.

The proofs found one flaw of the model: `Recorded` had two overlapping arms in a `CASE`, so that the
history of a call that begins was not determined; it is an `IF` now.

**Only model-checked:**

* That the lock-free filter is a bag, without the condition (`ImplementsAbstract`), and that retired
  entries are gone (`RetiredIsGone`): neither holds in general, because a helper can bring a retired entry
  back (finding 3).  `LockFreeRefines` has that as its condition; in `contention` and `one_thread` nothing is
  removed while it moves.
* That one thread alone misses nothing (`ImplementsAbstract` of `one_thread`): the theorem about
  searches (`StayingItemIsFound`) covers items that do not move.
* `InsertFailsWhenFull`: the `path` it speaks of is recursive over the table, and induction over data is
  out of the provers' reach.
* `CallsReturn`, and everything else that depends on fairness.  For the lock-free filter it is false in
  general, too (finding 2).

## 5. Findings

Each has a run that reproduces it.

1. `false_miss`: one relocation between `find`'s two reads makes it miss a key that is there all the
   time; `check_counter` (`lock_free_filter.cpp:308`) asks for both counters to have advanced by two,
   but a move raises that of the source by one only.  The report promises that the key does not exist
   then.
2. `livelock`: an insert has marked the item it wants to move, and another stores its key in the
   destination before the swap.  When the destination is occupied, `help_relocate` (`:422`) swaps the
   *destination* against the word of the source.  The swap never succeeds (`LateExitsHarmless`), the
   source stays marked, and `relocate` waits for it for ever.
3. `resurrection`: a helper that has checked the source and then sleeps stores the item in the
   destination after another thread has finished the move and `remove` has retired the entry.  It is
   found again; a second `remove` succeeds and retires it twice.  The helper need not be late: one that
  meets the mark of the source after the removal, before the mover clears it, moves the item again.
4. `odd_table`: `(i ^ h) % table_size` is an involution only for powers of two; the constructors accept
   any capacity and the benchmark uses 256000.  A relocated item ends in a third bucket.
5. `self_loop`: an item whose fingerprint hash is a multiple of the table size has one bucket.
   `help_relocate` takes it for its own copy in the destination and clears the slot: the key is lost.
6. `reclamation`: `find` loads a slot (`:172`, `:193`), announces the pointer (`:173`, `:195`) and follows it
   without loading the slot again.  In between another thread can remove the entry and delete it with
   `free_hazard_pointers`, which finds no announcement.  `help_relocate` (`:365` and `:367`, `:386` and
   `:388`) does the same, and `relocate` follows what it has read at `:516` without any announcement.  The
   function has no caller, so this is a disagreement with what its comment and the report say of hazard
   pointers, not a failure of the operations.
7. `failed_insert`: an insert of the coarse-grained filter that gives up after `NUM_MAX_KICKS` replacements
   (`seq_filter.cpp:87`) answers false with its own item stored and that of another key gone; the header says
   that true means inserted and false means failed.  The fine-grained filter does the same
   (`fine_grained_locked_filter.h:55`).

Seen while modelling, not properties of a run: `relocate` reads `route[depth]` in every round of the
traversal (`:515`) instead of the loop's level, so that only the last item of a longer path is moved, and
it answers true while the slot it was called for is occupied (`lock_free_filter.h:233` says that the slot is
empty then; `insert` scans and relocates again); the retired lists only grow, and `reset` and the destructor
drop them without deleting; a failing insert leaks its new entry (`:144`); a retired entry that is still in
the source of a move, or that has come back (finding 3), is in the table when `free_hazard_pointers` deletes
it, unless some thread happens to announce it; the fine-grained filter's swap runs without a mutex, which
loses items, besides being a data race, and its `find` misses an item that is in the hands of an insert
(`fine_grained_locked_filter.h:61`); the constructors do not initialise `thread_count`, only `reset` does;
`gen_random_string` (`utils.cpp:13`) may index its alphabet with -1.

## 6. Not modelled

* The digests: MD5 and the Jenkins hash are arbitrary functions; collisions are instances of them.
  What they compute for which string decides nothing the properties speak of.
* A call of `free_hazard_pointers` in the runs and proofs about the operations: no code makes one.  It is
  in `Reclamation`, whose run shows that it is not safe; nothing is proved of it.
* A `reset` to other parameters within one behaviour: see the assumptions in section 2.  One whose
  parameters are not positive leaves a filter that no call can use.
* The member `thread_count`, which only `free_hazard_pointers` reads; `Reclamation` takes it to be the number
  of threads.
* `verbose` output, `print_pointer`, the utilities, the tests and the benchmark.
* Memory exhaustion and exceptions.

## 7. Plan

Done so far, in this order: the table words and hashing; the procedures of the lock-free filter and
their composition; its properties and inductive invariant; the proofs; the abstract bag, its three
implementations and the two locked filters; the packed words; the histories of `find`; places, hazard
pointers and aborts proved; the coarse-grained filter proved to be a bag but for its failing inserts; the
moves of the lock-free filter, the searches of both concurrent filters, and the mutexes and the
refinement of the fine-grained filter proved; the lock-free filter proved to be a bag until a retired entry
comes back; loads and announcements of hazard pointers taken apart, and `free_hazard_pointers`.

What is left is to prove that with one thread nothing is `Revived` and nothing is missed: the lock-free
filter is an exact bag then (`Misses` is false), if `Unambiguous`.
