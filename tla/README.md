# TLA+ models of the HeapStats snapshot container

This directory holds TLA+ models of the snapshot counting core of the
HeapStats agent:
- `TSnapShotContainer` and its stock queue, in
  `src/agent/src/heapstats-engines/snapShotContainer.cpp`.
- The `snapShotContainer.hpp` header, which sits in `src/unnamed/part_000` at
  lines 75–500.
- `classContainer.hpp`.

It also holds the TLC configurations that check the models and a TLAPS proof
of the container pool and of the class registry.

## The system

| Part | Code | State | Operations |
|---|---|---|---|
| Child class list | `findChildClass` (part_000:311–350), `pushNewChildClass` (cpp:232–270) | `clsCounter->child`, each node's `next`, `objData` and `callCount`, `clsCounter->spinlock` | scan; hit with `callCount++` and a one-step LFU promotion, which runs **without** the spin lock; allocate; append at the tail under the spin lock |
| Counter map | `findClass` (part_000:299–302), `pushNewClass` (cpp:186–224), `Inc`, `addInc` (part_000:463–467) | `counterMap`, which maps a class to its `TClassCounter`, and each `TObjectCounter` | lookup; calloc, then posix_memalign, then store with `counterMap[objData] = cur` (each step can fail); increment |
| Container pool | `globalInitialize` / `globalFinalize` (cpp:36–65), `getInstance` (73–88), `releaseInstance` (95–129), `clear` (317–339), `setIsCleared` (part_000:381), `clearChildClassCounters` (482–496) | `stockQueue` (capacity `MAX_STOCK_COUNT` = 2); each container's `isCleared`, counters and offsets caches | pop or construct; check the size, then `clear(false)`, then push or delete |
| Header | `TSnapShotFileHeader` (part_000:177–193), constructor (cpp:134–145), setters (part_000:248–262), `setJvmInfo` (cpp:276–312) | the packed 174-byte header | `strcpy` of the GC cause into `gcCause[80]`, then the count and size fields |
| Class registry | `TClassContainer` (classContainer.hpp) | `classMap` (host pointer ↦ `TObjectData`), `unloadedList`, each record's `klassOop` | `findClass`, `updateClass` (inline, translated); `pushNewClass`, `popClass`, `removeClass`, `commitClassChange` (declared only, modelled from spec 4.1) |

How the parts interact:
1. A snapshot thread takes a container from the pool.
2. It calls `setIsCleared(false)` on the container.
3. The object-graph walker threads count into the container. That walker is
   outside this repository; its calls are modelled from `spec.md`.
   - The walker first looks up the object's class in the counter map.
   - It then looks up the child class in that class's child list.
   - It then increments the counters it found.
4. The container's header is filled in.
5. `releaseInstance` clears the container and puts it back in the stock.

The hard behaviours are all concurrency or memory layout:
- Walker threads share a container. The promotion in the child list is not
  locked.
- `pushNewClass` stores into the map by overwriting whatever is there.
- `addInc`, in its portable build, is a plain `+=`.
- `releaseInstance` checks the stock's size and pushes later.
- `clear(false)` trusts the `isCleared` flag.
- `strcpy` into the header is unbounded.

## Modules

| Module | Models | State ↔ code |
|---|---|---|
| `ChildClassList` | one class's child list under concurrent walkers | see below |
| `CounterMap` | one container's class map and counting | see below |
| `SnapShotPool` | the stock and the containers' life cycle | see below |
| `SnapShotHeader` | the header and the calls that write it | see below |
| `ChildOrder` | the abstract child list: what `ChildClassList` promises | `order` is the list read from the head |
| `ClassRegistry` | the class registry under walkers and safepoints | see below |
| `SnapShotPoolProofs` | TLAPS proofs about `SnapShotPool` | |
| `ClassRegistryProofs` | TLAPS proofs about `ClassRegistry` | |
| `CounterMapProofs` | TLAPS proof that `Inc` counts exactly on a recycled container | |
| `CounterMapBoundProofs` | TLAPS proofs about `CounterMap` without `Exclusive` | |
| `SnapShotHeaderProofs` | TLAPS proofs about `SnapShotHeader` | |
| `ChildClassListProofs` | TLAPS proofs about `ChildClassList` | |
| `MC*` | model values and sets for TLC | |

**ChildClassList**
- **Memory.** Nodes are the allocations `1..MaxNodes`, and 0 is `NULL`.
- **Thread state.** Each walker thread has a `pc`. Its locals are `counter`,
  `prevCounter`, `morePrevCounter` and `newCounter`.
- **Granularity.** One action is one shared-memory statement of the C++ code.
  The three link writes of a promotion are the separate actions `FindUnlink`,
  `FindRelink` and `FindSwap`.
- **Ghost state.** `linked` holds the nodes that `pushNewChildClass` has
  chained in.
- **Failures.** `PushAllocFail` is a failure of calloc or posix_memalign, after
  which NULL is returned.
- **`Partitioned`.** This constant decides whether walkers may work on the
  list at the same time. The code assumes they do not (spec 4.3 and 9).

**CounterMap**
- **Memory.** A `TClassCounter` is a cell, and its `TObjectCounter` is reduced
  to `count`.
- **`pushNewClass`.** This is `PushCalloc`, then `PushMemalign`, then
  `PushInsert`, each with its failure exit `Drop`. `PushInsert` overwrites the
  map entry.
- **Counting.** `IncCounter` is the atomic `Inc`. `AddRead` and `AddWrite` are
  the two halves of the portable `addInc`.
- **Ghost state.** `added` counts the contributions that went through.
- **`Recycled`.** Starts from a container taken from the stock. `clear` keeps
  the map's entries.
- **`Exclusive`.** No two threads count the same class at the same time.
  The code does not enforce this: `Inc` is atomic and `pushNewClass` is
  written to tolerate a race, because walkers share classes. It is a
  constant so that the `countermap_exclusive` run can separate the counting
  logic from the two races, which the violation runs show.

**ClassRegistry**
- **Records.** A `TObjectData` is a record number in `1..MaxRecords`; 0 is
  `NULL`. `classMap` is a function from the addresses `Ptrs` to records, with
  `Absent` (-1) for an address that has no entry, so that the NULL that
  `operator[]` inserts is told apart from no entry.
- **Record state.** `status[r]` is `none`, `prov` (built by a walker, not yet
  pushed), `live`, `unloaded` (popped, waiting in `unloadedList`) or `freed`.
  `klassOop[r]` is the record's host pointer. `loaded` is the set of
  addresses that hold a loaded class.
- **Walkers.** A walker meets a loaded class (`BeginLookup`), calls
  `findClass` (`Find`), on a miss builds a record (`Alloc`, or `AllocFail`),
  pushes it (`PushNewClass`: insert if absent, otherwise free its own and take
  the registered one), and counts into the record it got (`Counted`).
- **Safepoints.** `LoadClass`, `PopClass`, `Relocate` (the record's host
  pointer is updated, then `updateClass`) and `CommitClassChange` (each queued
  record is erased by address and freed) run only when every walker is idle.
- **`Reuse`.** Whether an address held by an unloaded, not yet committed
  record may take a class again (by a load or a move) before the commit.
  Nothing in the repository rules it out.
- **Bound.** `MaxEvents` caps the loads, unloads, moves and lookups.

**SnapShotPool**
- **Variables.**
  - `stock` is the queue.
  - `mine[t]` is the container that thread `t` holds.
  - `count` and `offsets` abstract a container's counters: their sum, and
    whether any offsets cache is set.
- **`releaseInstance`.** This is split into its size check (`ReleaseCheck`)
  and the clear-and-push (`ReleaseStore`). A failed push is
  `ReleasePushFail`.
- **`getInstance`.** This is `GetFromStock` or `GetNew`.
- **Shutdown.** `GlobalFinalize` runs once every thread is idle, as its
  warning requires.

**SnapShotHeader**
- **Fields.** Each field is a byte range, given by `Layout`, which is the
  packed struct.
- **The copy.** `CopyCause` is `strcpy`. It overwrites every field that
  overlaps bytes 30 .. 30+len.
- **`setJvmInfo`.** Its two branches are `JvmInfoGC` and `JvmInfoNoGC`. After
  either branch it assigns the counts and sizes (`SetInfoFields`).
- **Uninitialised fields.** The constructor does not set some fields; they
  hold `Garbage`. An uninitialised `cause` may read as GC.

## Runs

| Run | cfg | Checks | Result |
|---|---|---|---|
| childlist_partitioned | `MCChildClassList.cfg` | TypeOK, ListIntact, NoDuplicateChild, LookupTerminates, RefinesChildOrder | pass (about 150k states) |
| childlist_lost_node | `MCChildClassList_ListIntact.cfg` | ListIntact | violated |
| childlist_duplicate | `MCChildClassList_NoDuplicateChild.cfg` | NoDuplicateChild | violated |
| pool | `MCSnapShotPool.cfg` | TypeOK, ClearedMeansEmpty, LiveBound, AcquireGetsCleared | pass (425k states) |
| countermap_exclusive | `MCCounterMap.cfg` | TypeOK, CountsAdd, StableClassCounter, CountsNotInvented | pass (23k states) |
| countermap_push_race | `MCCounterMap_StableClassCounter.cfg` | StableClassCounter | violated |
| countermap_add_race | `MCCounterMap_CountsAdd.cfg` | CountsAdd | violated |
| header | `MCSnapShotHeader.cfg` | HeaderRoundTrip | pass |
| header_overrun | `MCSnapShotHeader_HeaderRoundTrip.cfg` | HeaderRoundTrip | violated |
| registry | `MCClassRegistry.cfg` | TypeOK, IndexExact | pass (about 3k states) |
| registry_address_reuse | `MCClassRegistry_IndexExact.cfg` | IndexExact | violated |
| header_empty_cause | `MCSnapShotHeader_GcCauseWellFormed.cfg` | GcCauseWellFormed | violated |

**Properties of the new runs.**
- `CountsNotInvented`: the counter the map holds for a class never exceeds
  the objects of that class whose `Inc` / `addInc` went through. It holds
  mid-count, and, unlike `CountsAdd`, without `Exclusive`: the races lose
  counts but never invent one (proved as `NotInventedInvariant`).
- `RefinesChildOrder` is `ChildOrder!Spec` under a refinement mapping. The
  list is read from the head (`ListSeq`). While a walker is between the two
  writes that relink a promoted node (`relink`, `swap`), the node that is
  off the list is put back at its old place (`BeforePromotion`), so that the
  promotion becomes one abstract `Promote` step at `FindSwap`. Each node is
  mapped to its class. A hit without promotion, a lookup and a failed
  allocation are stutters; `PushHead`/`PushTail` is `AddChild`.
- `IndexExact`: `findClass` on a loaded address gives a live record whose
  host pointer is that address; every live record is in the index at its host
  pointer; a walker about to count holds the live record of the class it met.

**Bounds.**
- **Child list.** 2 walkers, 3 classes, 4 nodes and 3 lookups each. This is
  enough for a list of three nodes, a promotion to the head and one to the
  middle, and a miss followed by an append. Each violation needs only two
  walkers and two nodes.
- **Pool.** 3 threads, capacity 2, 5 containers, counts up to 1, with
  symmetry over the threads. Three threads are the fewest that can overfill a
  stock of two. With two threads the stock cannot overfill, because
  `getInstance` constructs only when the stock is empty. `LiveBound` holds
  with three threads as well.
- **Registry.** 2 walkers, 3 addresses, 3 records and 7 events, with
  symmetry over walkers and over addresses. Both walkers can miss one class
  and race `pushNewClass`, and a class can be unloaded and another loaded or
  moved before the commit. The reuse violation needs 6 events.
- **Counter map.** 2 walkers, 1 or 2 classes, 3 cells and 2 objects per
  thread. Two walkers can then race on one class and also count a second
  object into an existing counter.
- **Header.** The cause lengths were chosen at the layout's boundaries:
  - 79 and 80 fit the 80-byte buffer, or only the NUL byte spills.
  - The overrun run offers 100, 119 and 120. Only 120 reaches a field that
    is not assigned again, `totalHeapSize`. Shorter spills land in fields
    that `setJvmInfo` assigns afterwards.

**Fairness.** `ChildClassList` assumes weak fairness for each walker's
running lookup (`Busy(t)`). A walker thread that is inside `findChildClass` or
`pushNewChildClass` is not descheduled forever. The spin lock is released by
the step that follows the append, so waiting for it is bounded. The other
modules check only safety properties, and they assume no fairness.

**Deadlock.** Each module has an explicit terminal stutter: `WalkDone` or
`Done` once the bounded work is done, and `Stopped` after `globalFinalize` or
a failed `globalInitialize`. Deadlock checking therefore stays on.

## Findings

1. **Concurrent promotions corrupt the child list.**
   - Spec 8.5 says promotion never loses a node, but the promotion writes
     three links without the spin lock.
   - With two walkers on one list, a node is lost or linked to itself
     (`childlist_lost_node`).
   - A node linked to itself makes the scan spin forever. TLC shows this when
     the `childlist_lost_node` cfg is given `LookupTerminates` instead of
     `ListIntact` (about 4 million states, 4 minutes): a walker scans for a
     class that is not on the list and meets `next[1] = 1`. No kept run
     checks it, so the project's runs only show `LookupTerminates` under
     partitioning.
   - The code is correct only under the partitioning that spec 9 leaves as an
     open question (`childlist_partitioned`).
2. **Find-then-push is not atomic.** Two walkers that miss the same child class
   both append a node for it (`childlist_duplicate`).
3. **The stock can overfill.**
   - `releaseInstance` checks the size and pushes later.
   - With three releasing threads the stock can hold three containers,
     against spec 8.6. TLC finds this state when the `pool` cfg is given
     `Len(stock) <= MAX_STOCK_COUNT` as an invariant. No kept run checks it.
   - Spec 9 allows an overfill "by one". The overfill grows with the number of
     releasing threads.
   - The live containers never outnumber the threads (`LiveBound`).
4. **`pushNewClass` overwrites.**
   - `counterMap[objData] = cur` replaces the counter that another thread has
     just stored, and that counter's counts are lost.
   - Spec 4.3 says the loser is freed and the winner returned.
5. **The portable `addInc` is not atomic.** Two concurrent adds lose one (spec
   4.2 and 8.1).
6. **`strcpy` into `gcCause[80]` is unbounded.**
   - The spec says the cause is truncated. The code does not truncate it.
   - Up to 119 characters, the spill is repaired by the assignments that
     follow the copy. That is an accident of field order, and the mutant
     `JvmInfoGCCountsFirst` breaks it already at 80 characters.
   - From 120 characters the spill corrupts `totalHeapSize`.
7. **An empty GC cause gives `gcCauseLen` 0.** Spec 6 requires at least 1.
8. **The class index is keyed by a reusable address.**
   - `popClass` leaves an unloaded record in `classMap` until
     `commitClassChange`.
   - If a class is loaded or moved to that address first, `findClass`
     returns the unloaded record and the walker counts into it
     (`registry_address_reuse`). A `removeClass` that erases by address then
     drops the new class's entry.
   - Spec 7 says that a find which observes a stale host pointer returns
     "not found". This find returns the stale record. Without reuse, the
     index is exact
     (`registry`, and proved below).

## Proofs

`SnapShotPoolProofs` proves the following for every set of threads, every
capacity and every bound, assuming only `ConstAssumption`:

| Theorem | Statement |
|---|---|
| `IInvariant` | `Spec => []IInv` |
| `TypeCorrect` | `Spec => []TypeOK` |
| `ClearedEmptyInvariant` | `Spec => []ClearedMeansEmpty` |
| `AcquireCleared` | `Spec => AcquireGetsCleared` |

`AcquireCleared` is an action property. `LiveBoundInvariant`
(`Spec => []LiveBound`) is proved as well.

`ClearedMeansEmpty` is not inductive on its own. Its proof needs the
following facts about held and stocked containers:

| Conjunct | Meaning |
|---|---|
| `HeldIsIdleFree` | a thread holds a container iff it is not idle |
| `HeldAllocated` | a held container has been allocated |
| `FillingNotCleared` | a filling thread's container has `isCleared` false, so `Inc` never writes into a cleared container |
| `HeldExclusive` | no two threads hold the same container |
| `StockCleared` | stocked containers are allocated and cleared |
| `StockDistinct` | stocked containers are distinct |
| `StockNotHeld` | no thread holds a stocked container |
| `AllClearedEmpty` | `ClearedMeansEmpty` over all containers |

`IInv` is the conjunction of these facts and `TypeOK`. TLC checked it as an
invariant of the `pool` run before it was proved.

The proof has one lemma per action, and each lemma has one step per conjunct.
`ReleaseStore`'s lemma relies on `ClearFalse`, a lemma that `clear(false)` on
a container leaves it cleared and empty in both of its branches.

`AcquireCleared` follows from `IInv` and the lemma `AcquireStepHolds`. That
lemma says every idle→fresh step is `GetFromStock` or `GetNew`. It uses
`StockCleared` and `AllClearedEmpty` for the head of the stock.

`LiveBound` is inductive together with `IInv`. A step that adds to the stock
(`ReleaseStore`) takes the container from a holder, so the sum stays the same.
A step that adds a holder (`GetNew`) runs only when the stock is empty. Then
`Len(stock) = 0`, and the holders are a subset of `Threads` that does not yet
contain the new holder, so the bound still holds after it joins. The lemmas
`HoldersCard`, `HoldersAdd` and `HoldersRemove` give the cardinality facts,
using `FiniteSetTheorems`.

`ClassRegistryProofs` proves, for every set of walkers and addresses and
every bound, under `ConstAssumption` and `~Reuse`:

| Theorem | Statement |
|---|---|
| `RegistryIInv` | `~Reuse => (Spec => []IInv)` |
| `IndexExactInvariant` | `~Reuse => (Spec => []IndexExact)` |
| `RegistryTypeCorrect` | `~Reuse => (Spec => []TypeOK)` |

`IndexExact` is not inductive: a step that pushes or commits has to know that
the record it stores is fresh and that the entries it erases belong to
unloaded records. `IInv` adds:

| Conjunct | Meaning |
|---|---|
| `Fresh` | records above `nalloc` have not been allocated |
| `EntriesOwned` | every entry is a live or unloaded record whose host pointer is its key |
| `LiveIndexed` | a live record's host pointer is loaded and indexes it |
| `UnloadedIndexed` | an unloaded record's host pointer is not loaded and still indexes it |
| `QueueUnloaded` | `unloadedList` holds only unloaded records |
| `WalkersHold` | a busy walker's class is loaded; an installer owns a provisional record for it; a counter holds its live record |
| `ProvDistinct` | a provisional record belongs to one walker |

TLC checked `IInv` as an invariant before it was proved. There is one lemma
per action. `LoadClass` and `Relocate` need `~Reuse`: their target is not the
host pointer of an unloaded record, so `UnloadedIndexed` survives them.
`SafepointWalkers` says a safepoint step leaves the walkers' variables alone.

`CounterMapProofs` proves `CountsAdd` without `Exclusive`, for every set of
threads and classes and every bound, on a container from the stock with the
atomic `Inc`:

| Theorem | Statement |
|---|---|
| `RecycledIncExact` | `Recycled /\ CountOps = {"inc"} => (Spec => []CountsAdd)` |

A recycled container keeps a counter for every class, so `findClass` always
hits and the push race cannot happen. Any number of walkers may still count
objects of one class at the same moment. The inductive invariant `RInv` says:
- every class has its own calloc'ed counter (`MapFull`);
- walkers only find and count, and count into their class's counter
  (`WalkersHit`);
- each class's count equals its objects counted at every moment (`Exact`).

`Inc` adds to its class's counter and, by `MapFull`'s injectivity, to no
other class's. The hypotheses are tight. `countermap_add_race` shows the
portable `addInc` losing a count on a recycled container. `countermap_push_race`
shows a fresh container losing counts to the push race. TLC checked `RInv`
before the proof with three walkers on two classes.

`CounterMapBoundProofs` proves, with or without `Exclusive`, fresh or
recycled, for every set of threads and classes and every bound (it uses
`IsFiniteSet(Threads)`, added to `ConstAssumption` for it):

| Theorem | Statement |
|---|---|
| `BoundInvariant` | `Spec => []BInv` |
| `CounterTypeCorrect` | `Spec => []TypeOK` |
| `NotInventedInvariant` | `Spec => []CountsNotInvented` |

`TypeOK` bounds every count by `MaxTotal`, which is not inductive: a count
grows by one per finished `Inc` / `addInc`. The argument counts those calls.
`Written` is the set of pairs `<<t, i>>` whose `i`-th operation of thread `t`
has finished, a subset of `Threads \X 1..MaxOps`, so its size `W` is at most
`MaxTotal` (`FS_Product`, `FS_Subset`). `BInv` says every `cnt`, `tmp` and
`added` entry is at most `W`; a write adds one to a count and adds its own
pair to `Written`, and nothing else changes a count.

`CountsNotInvented` needs to know which class a counter belongs to while
walkers race. `Assoc(c, k)` holds when the map stores `c` for `k` or a
counting walker of class `k` holds `c`. `OInv` is the conjunction of:

| Conjunct | Meaning |
|---|---|
| `MapInAlloc`, `HeldInAlloc` | stored and held counters have been calloc'ed |
| `BuildFresh` | a counter being built is held by no other walker and stored by no class |
| `OwnerUnique` | a counter is associated with one class only |
| `CountBound` | `Assoc(c, k)` implies `cnt[c] <= added[k]` |
| `ReadBound` | between `addInc`'s read and write, `tmp[t] <= added[cls[t]]` |

A racing `pushNewClass` overwrites the map, but the loser keeps counting
into its own fresh cell, which by `BuildFresh` no other class owns, so
`OwnerUnique` survives. One lemma, `CountWrite`, covers both writes. TLC
checked `BInv` and `OInv` with both values of `Exclusive` and `Recycled`
before the proofs.

`SnapShotHeaderProofs` proves the round trip:

| Theorem | Statement |
|---|---|
| `RoundTripUpTo119` | `CauseLens \subseteq 0..119 => (Spec => []HeaderRoundTrip)` |

The hypothesis is what the code needs, and it is tight: `header_overrun`
shows that a cause of 120 characters breaks the round trip. Its `strcpy`
reaches `totalHeapSize` at byte 150, which nothing writes again.

The argument has two lemmas:
- `CopyKeeps`: a copy of at most 119 bytes misses the fields `setJvmInfo` does
  not assign.
- `JvmInfoRoundTrip`: `setJvmInfo` rewrites every field the copy may have
  spilled into after the copy.

`GcCauseWellFormed` is neither proved nor checked by a passing run. For
causes of 1 to 80 characters it would only restate `gcCauseLen = strlen` and
the else branch's `gcCauseLen = 1`. Its failing case, the empty cause, is the
`header_empty_cause` violation run.

`ChildClassListProofs` proves, for every set of walkers, every `MaxNodes` and
`MaxLookups`, and both values of `Partitioned`:

| Theorem | Statement |
|---|---|
| `ChildTypeCorrect` | `Spec => []TypeOK` |
| `SpinLockExclusive` | `Spec => []LockExclusive` |

`LockExclusive` says two things:
- at most one walker is between `spinLockWait` and `spinLockRelease` of
  `pushNewChildClass`;
- `spinlock` is 1 exactly when one walker is there.

`TypeOK` is not inductive. `findChildClass` writes `next[counter]`, and the
push walks `counter->next`. Neither would be typed if `counter` could be NULL
there. `IInv` adds `LocalsNonNull`, which records where the code's NULL tests
make each local pointer a node:
- `counter` when scanning, hitting and promoting;
- `prevCounter` during the promotion;
- `counter` while walking to the tail;
- `newCounter` from the lock onwards.

It also records that a busy walker has `lookups < MaxLookups`. The proof has
one lemma per action. `FindHit`'s lemma splits on the promotion test, and
`PushTail`'s lemma splits on `counter->next`. TLC checked `IInv` before the
proof, with both values of `Partitioned`.

**What stays with TLC:**
- **Liveness** (`LookupTerminates`). The prover does not handle fairness or
  ENABLED.
- **Reachability over the child list.** `ListIntact` and `NoDuplicateChild`
  are about the nodes reached by following `next` from the head. That set is
  the recursive function `Walk`. Proving how a link update changes it is
  induction over data, which the installed provers cannot do.
- **The refinement of `ChildOrder`.** Its mapping reads the list through
  `Walk` too.

## Not modelled

- **The rest of `TClassContainer`.** `allClear` runs at shutdown, and
  `afterTakeSnapShot` writes rankings and SNMP traps (I/O). `Relocate` moves
  a class only from an address it holds to one no class holds. It does not
  enumerate `updateClass(old, old)`, which erases the entry, or an unknown
  old pointer, for which `operator[]` inserts NULL. The caller is not in the
  repository.
- **The destructor and `printGCInfo`.** These only free memory or log.
- **The architecture-specific `Inc` and SIMD `addInc`.** They are not in the
  repository's src. The `Inc` that the models use is the atomic increment its
  declaration promises.
- **The analyzer's FXML view and `Makefile.am`.** These appear in the source
  listing but hold no runtime state.

## Plan for later work

1. Compose `CounterMap` with `ChildClassList` and `ClassRegistry`, so that one
   container carries the class map, the child lists and the registry's
   records. Then check spec invariant 2 (children reachable from a counter are
   registered classes) across `commitClassChange`.
2. Model `allClear` and check that a shutdown with walkers idle leaves no
   record indexed.
