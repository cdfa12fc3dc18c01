---------------------------- MODULE SnapShotPool ----------------------------
(***************************************************************************)
(* TSnapShotContainer instances and their stock queue (snapShotContainer.  *)
(* cpp): globalInitialize / globalFinalize, getInstance, releaseInstance,  *)
(* clear and setIsCleared, as used by the threads that take snapshots.     *)
(*                                                                         *)
(* A container's counters are abstracted to their sum `count' (zero iff    *)
(* every TObjectCounter in it reads zero) and `offsets' (some              *)
(* TClassCounter still holds a field-offset cache).  Container ids are the *)
(* allocations 1..MaxContainers; 0 is NULL.                                *)
(***************************************************************************)
EXTENDS Naturals, Sequences, FiniteSets

CONSTANTS
  Threads,          \* threads that take snapshots and hand them back
  MAX_STOCK_COUNT,  \* TSnapShotContainer::MAX_STOCK_COUNT (2 in the code)
  MaxContainers,    \* bound on `new TSnapShotContainer()'
  MaxCount          \* bound on the increments into one container

ASSUME ConstAssumption ==
  /\ Threads # {}
  /\ IsFiniteSet(Threads)
  /\ MAX_STOCK_COUNT \in Nat \ {0}
  /\ MaxContainers \in Nat
  /\ MaxCount \in Nat

NULL       == 0
Containers == 1..MaxContainers

VARIABLES
  phase,      \* stockQueue: "uninit", "running", "failed" or "finalized"
  stock,      \* the stock queue, head first
  nalloc,     \* containers 1..nalloc have been constructed
  isCleared,  \* TSnapShotContainer::isCleared
  count,      \* sum of the container's counters
  offsets,    \* some clsCounter->offsets is not NULL
  pc,         \* where each snapshot thread is
  mine        \* the container a thread holds, or NULL

vars == <<phase, stock, nalloc, isCleared, count, offsets, pc, mine>>

Phases == {"uninit", "running", "failed", "finalized"}
PCs    == {"idle", "fresh", "filling", "store"}

TypeOK ==
  /\ phase \in Phases
  /\ stock \in Seq(Containers)
  /\ nalloc \in 0..MaxContainers
  /\ isCleared \in [Containers -> BOOLEAN]
  /\ count \in [Containers -> 0..MaxCount]
  /\ offsets \in [Containers -> BOOLEAN]
  /\ pc \in [Threads -> PCs]
  /\ mine \in [Threads -> Containers \cup {NULL}]

Stocked == {stock[i] : i \in 1..Len(stock)}

\* Mutant: clear frees the offsets caches but leaves the pointers set.
ClearKeepOffsets(c, isForce) ==
  IF ~isForce /\ isCleared[c]
    THEN UNCHANGED <<isCleared, count, offsets>>
    ELSE /\ count' = [count EXCEPT ![c] = 0]
         /\ isCleared' = [isCleared EXCEPT ![c] = TRUE]
         /\ UNCHANGED offsets

\* Mutant: `!isForce || isCleared' for the early return.
ClearOr(c, isForce) ==
  IF ~isForce \/ isCleared[c]
    THEN UNCHANGED <<isCleared, count, offsets>>
    ELSE /\ count' = [count EXCEPT ![c] = 0]
         /\ offsets' = [offsets EXCEPT ![c] = FALSE]
         /\ isCleared' = [isCleared EXCEPT ![c] = TRUE]

\* clearChildClassCounters: zero each child counter, then the class counter.
ClearChildClassCounters(c) == count' = [count EXCEPT ![c] = 0]

(***************************************************************************)
(* clear(isForce): unless the container is already cleared and the clear   *)
(* is not forced, free every offsets cache, zero every root and child      *)
(* counter (clearChildClassCounters) and set isCleared.                    *)
(***************************************************************************)
Clear(c, isForce) ==
  IF ~isForce /\ isCleared[c]
    THEN UNCHANGED <<isCleared, count, offsets>>
    ELSE /\ ClearChildClassCounters(c)
         /\ offsets' = [offsets EXCEPT ![c] = FALSE]
         /\ isCleared' = [isCleared EXCEPT ![c] = TRUE]

Init ==
  /\ phase = "uninit"
  /\ stock = <<>>
  /\ nalloc = 0
  /\ isCleared = [c \in Containers |-> TRUE]
  /\ count = [c \in Containers |-> 0]
  /\ offsets = [c \in Containers |-> FALSE]
  /\ pc = [t \in Threads |-> "idle"]
  /\ mine = [t \in Threads |-> NULL]

\* globalInitialize: `new TSnapShotQueue()' succeeds or throws.
GlobalInitialize ==
  /\ phase = "uninit"
  /\ phase' \in {"running", "failed"}
  /\ UNCHANGED <<stock, nalloc, isCleared, count, offsets, pc, mine>>

\* getInstance: try_pop from the stock.
GetFromStock(t) ==
  /\ phase = "running"
  /\ pc[t] = "idle"
  /\ stock # <<>>
  /\ mine' = [mine EXCEPT ![t] = Head(stock)]
  /\ stock' = Tail(stock)
  /\ pc' = [pc EXCEPT ![t] = "fresh"]
  /\ UNCHANGED <<phase, nalloc, isCleared, count, offsets>>

\* Mutant: a new container is constructed even when the stock has one.
GetNewAlways(t) ==
  /\ phase = "running"
  /\ pc[t] = "idle"
  /\ nalloc < MaxContainers
  /\ nalloc' = nalloc + 1
  /\ isCleared' = [isCleared EXCEPT ![nalloc + 1] = TRUE]
  /\ count' = [count EXCEPT ![nalloc + 1] = 0]
  /\ offsets' = [offsets EXCEPT ![nalloc + 1] = FALSE]
  /\ mine' = [mine EXCEPT ![t] = nalloc + 1]
  /\ pc' = [pc EXCEPT ![t] = "fresh"]
  /\ UNCHANGED <<phase, stock>>

(***************************************************************************)
(* getInstance on an empty stock: `new TSnapShotContainer()', whose        *)
(* constructor sets isCleared and leaves the counter map empty.  When new  *)
(* throws, NULL is returned and the caller takes no snapshot: no state     *)
(* changes.                                                                *)
(***************************************************************************)
GetNew(t) ==
  /\ phase = "running"
  /\ pc[t] = "idle"
  /\ stock = <<>>
  /\ nalloc < MaxContainers
  /\ nalloc' = nalloc + 1
  /\ isCleared' = [isCleared EXCEPT ![nalloc + 1] = TRUE]
  /\ count' = [count EXCEPT ![nalloc + 1] = 0]
  /\ offsets' = [offsets EXCEPT ![nalloc + 1] = FALSE]
  /\ mine' = [mine EXCEPT ![t] = nalloc + 1]
  /\ pc' = [pc EXCEPT ![t] = "fresh"]
  /\ UNCHANGED <<phase, stock>>

\* The snapshot thread starts filling: setIsCleared(false).
SetIsCleared(t) ==
  /\ pc[t] = "fresh"
  /\ isCleared' = [isCleared EXCEPT ![mine[t]] = FALSE]
  /\ pc' = [pc EXCEPT ![t] = "filling"]
  /\ UNCHANGED <<phase, stock, nalloc, count, offsets, mine>>

\* Inc / addInc into one of the container's counters.
Inc(t) ==
  /\ pc[t] = "filling"
  /\ count[mine[t]] < MaxCount
  /\ count' = [count EXCEPT ![mine[t]] = @ + 1]
  /\ UNCHANGED <<phase, stock, nalloc, isCleared, offsets, pc, mine>>

\* The reference-tree walker caches a class's oop-map in clsCounter->offsets.
CacheOffsets(t) ==
  /\ pc[t] = "filling"
  /\ offsets' = [offsets EXCEPT ![mine[t]] = TRUE]
  /\ UNCHANGED <<phase, stock, nalloc, isCleared, count, pc, mine>>

\* The snapshot is abandoned and the container reset with clear(true).
ForceClear(t) ==
  /\ pc[t] = "filling"
  /\ Clear(mine[t], TRUE)
  /\ pc' = [pc EXCEPT ![t] = "fresh"]
  /\ UNCHANGED <<phase, stock, nalloc, mine>>

(***************************************************************************)
(* releaseInstance, first statement: existStockSpace = (stockQueue->size() *)
(* < MAX_STOCK_COUNT).  With no space the instance is deleted.             *)
(***************************************************************************)
ReleaseCheck(t) ==
  /\ pc[t] \in {"fresh", "filling"}
  /\ IF Len(stock) < MAX_STOCK_COUNT
       THEN pc' = [pc EXCEPT ![t] = "store"] /\ UNCHANGED mine
       ELSE pc' = [pc EXCEPT ![t] = "idle"] /\ mine' = [mine EXCEPT ![t] = NULL]
  /\ UNCHANGED <<phase, stock, nalloc, isCleared, count, offsets>>

\* Mutant: the pointer is pushed after the caller's copy was reset to NULL.
ReleaseStoreNullPush(t) ==
  /\ pc[t] = "store"
  /\ Clear(mine[t], FALSE)
  /\ stock' = Append(stock, NULL)
  /\ pc' = [pc EXCEPT ![t] = "idle"]
  /\ mine' = [mine EXCEPT ![t] = NULL]
  /\ UNCHANGED <<phase, nalloc>>

\* instance->clear(false); stockQueue->push(instance);
ReleaseStore(t) ==
  /\ pc[t] = "store"
  /\ Clear(mine[t], FALSE)
  /\ stock' = Append(stock, mine[t])
  /\ pc' = [pc EXCEPT ![t] = "idle"]
  /\ mine' = [mine EXCEPT ![t] = NULL]
  /\ UNCHANGED <<phase, nalloc>>

\* clear(false), then push throws (bad_alloc) and the instance is deleted.
ReleasePushFail(t) ==
  /\ pc[t] = "store"
  /\ Clear(mine[t], FALSE)
  /\ pc' = [pc EXCEPT ![t] = "idle"]
  /\ mine' = [mine EXCEPT ![t] = NULL]
  /\ UNCHANGED <<phase, stock, nalloc>>

\* globalFinalize, from the main thread once the snapshot threads are idle.
GlobalFinalize ==
  /\ phase = "running"
  /\ \A t \in Threads : pc[t] = "idle"
  /\ phase' = "finalized"
  /\ stock' = <<>>
  /\ UNCHANGED <<nalloc, isCleared, count, offsets, pc, mine>>

\* The agent never started, or has shut down.
Stopped ==
  /\ phase \in {"failed", "finalized"}
  /\ UNCHANGED vars

Next ==
  \/ GlobalInitialize
  \/ GlobalFinalize
  \/ \E t \in Threads :
       \/ GetFromStock(t) \/ GetNew(t) \/ SetIsCleared(t) \/ Inc(t)
       \/ CacheOffsets(t) \/ ForceClear(t)
       \/ ReleaseCheck(t) \/ ReleaseStore(t) \/ ReleasePushFail(t)
  \/ Stopped

Spec == Init /\ [][Next]_vars

-----------------------------------------------------------------------------
(***************************************************************************)
(* ClearedMeansEmpty (spec invariant 4): a container whose isCleared flag  *)
(* is set has every counter at zero and no offsets cache, so the early     *)
(* return of clear(false) never leaves stale counts behind.                *)
(***************************************************************************)
ClearedMeansEmpty ==
  \A c \in 1..nalloc : isCleared[c] => count[c] = 0 /\ ~offsets[c]

(***************************************************************************)
(* AcquireGetsCleared (spec 8.4): whatever getInstance returns, from the   *)
(* stock or new, is cleared and every counter in it reads zero.            *)
(***************************************************************************)
AcquireGetsCleared ==
  [][\A t \in Threads :
       pc[t] = "idle" /\ pc'[t] = "fresh" =>
         isCleared'[mine'[t]] /\ count'[mine'[t]] = 0 /\ ~offsets'[mine'[t]]]_vars

(***************************************************************************)
(* LiveBound: the containers alive at once, stocked or held, never         *)
(* outnumber the snapshot threads.  getInstance only constructs a          *)
(* container when the stock is empty, so however releaseInstance races    *)
(* its size check, the stock cannot grow the live set.                     *)
(***************************************************************************)
Holders == {t \in Threads : mine[t] # NULL}

LiveBound == Len(stock) + Cardinality(Holders) <= Cardinality(Threads)

=============================================================================
