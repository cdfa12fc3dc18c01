------------------------ MODULE CounterMapBoundProofs ------------------------
(***************************************************************************)
(* CounterMap's TypeOK for every set of threads and classes and every      *)
(* bound, with or without Exclusive.  The bound MaxTotal on the counts is  *)
(* not inductive: a count is bounded by the objects whose Inc or addInc    *)
(* has gone through, and so is every value addInc read.  Those objects are *)
(* a set of (thread, object number) pairs, a subset of                     *)
(* Threads \X 1..MaxOps, whose cardinality is MaxTotal.  The racing addInc *)
(* of two walkers can only lose counts, never add one, so the argument     *)
(* needs no exclusion.                                                     *)
(***************************************************************************)
EXTENDS CounterMap, FiniteSetTheorems, TLAPS

\* TypeOK with the counts and addInc's read value in Nat.
TypeShape ==
  /\ counterMap \in [Classes -> Cells \cup {NULL}]
  /\ cnt \in [Cells -> Nat]
  /\ nalloc \in 0..MaxCells
  /\ pc \in [Threads -> PCs]
  /\ cls \in [Threads -> Classes]
  /\ op \in [Threads -> CountOps]
  /\ cur \in [Threads -> Cells \cup {NULL}]
  /\ tmp \in [Threads -> Nat]
  /\ ops \in [Threads -> 0..MaxOps]
  /\ added \in [Classes -> Nat]

\* Object number i of thread t is finished: counted, or dropped on a failed
\* allocation.  The object a busy walker handles is its ops[t]-th.
Finished(p) ==
  \/ p[2] < ops[p[1]]
  \/ p[2] = ops[p[1]] /\ pc[p[1]] = "idle"

Written == {p \in Threads \X (1..MaxOps) : Finished(p)}

W == Cardinality(Written)

\* The pc values at which the walker holds a counter in cur.
Holding == {"memalign", "insert", "count", "addwrite"}

BInv ==
  /\ TypeShape
  /\ \A t \in Threads : pc[t] # "idle" => ops[t] \in 1..MaxOps
  /\ \A t \in Threads : pc[t] \in Holding => cur[t] \in Cells
  /\ \A c \in Cells : cnt[c] <= W
  /\ \A t \in Threads : tmp[t] <= W
  /\ \A k \in Classes : added[k] <= W


(***************************************************************************)
(* Why a count is never invented.  A cell belongs to the class whose map   *)
(* entry it is, or whose object a walker counts into it; it belongs to at  *)
(* most one class, because pushNewClass inserts only a cell it has just    *)
(* calloc'ed, which nothing else holds.  Every count a cell holds, and    *)
(* every count addInc has read from it, is then at most the objects of    *)
(* its class that have gone through: a stale addInc writes back at most   *)
(* one more than what had gone through when it read.                      *)
(***************************************************************************)
Counting == {"insert", "count", "addwrite"}

Building == {"memalign", "insert"}

Assoc(c, k) ==
  \/ counterMap[k] = c
  \/ \E u \in Threads : pc[u] \in Counting /\ cur[u] = c /\ cls[u] = k

\* Nothing but walker t has the cell t is building.
Fresh(t) ==
  /\ \A k \in Classes : counterMap[k] # cur[t]
  /\ \A u \in Threads \ {t} : pc[u] \in Holding => cur[u] # cur[t]

MapInAlloc == \A k \in Classes : counterMap[k] # NULL => counterMap[k] \in 1..nalloc

HeldInAlloc == \A t \in Threads : pc[t] \in Holding => cur[t] \in 1..nalloc

OwnerUnique == \A c \in Cells, j, k \in Classes : Assoc(c, j) /\ Assoc(c, k) => j = k

BuildFresh == \A t \in Threads : pc[t] \in Building => Fresh(t)

CountBound == \A c \in Cells, k \in Classes : Assoc(c, k) => cnt[c] <= added[k]

ReadBound == \A t \in Threads : pc[t] = "addwrite" => tmp[t] <= added[cls[t]]

OInv ==
  /\ MapInAlloc /\ HeldInAlloc /\ OwnerUnique /\ BuildFresh
  /\ CountBound /\ ReadBound

-----------------------------------------------------------------------------
USE ConstAssumption DEF NULL, Cells

\* Any set of (thread, object number) pairs is finite and has at most
\* MaxTotal elements.
LEMMA PairsBound ==
  ASSUME NEW S \in SUBSET (Threads \X (1..MaxOps))
  PROVE  /\ IsFiniteSet(S)
         /\ Cardinality(S) \in Nat
         /\ Cardinality(S) <= MaxTotal
<1>1. IsFiniteSet(1..MaxOps) /\ Cardinality(1..MaxOps) = MaxOps
  BY FS_Interval
<1>2. /\ IsFiniteSet(Threads \X (1..MaxOps))
      /\ Cardinality(Threads \X (1..MaxOps)) = Cardinality(Threads) * MaxOps
  BY <1>1, FS_Product
<1>3. Cardinality(Threads) \in Nat
  BY FS_CardinalityType
<1>4. /\ IsFiniteSet(S)
      /\ Cardinality(S) <= Cardinality(Threads \X (1..MaxOps))
  BY <1>2, FS_Subset
<1>5. QED
  BY <1>2, <1>3, <1>4, FS_CardinalityType DEF MaxTotal

LEMMA WrittenBound ==
  /\ IsFiniteSet(Written) /\ W \in Nat /\ W <= MaxTotal
  /\ IsFiniteSet(Written') /\ W' \in Nat /\ W' <= MaxTotal
<1>1. Written \in SUBSET (Threads \X (1..MaxOps))
  BY DEF Written
<1>2. Written' \in SUBSET (Threads \X (1..MaxOps))
  BY DEF Written
<1>3. QED
  BY <1>1, <1>2, PairsBound DEF W

\* A step that moves no walker to or from idle and handles no new object
\* finishes none.
LEMMA WrittenSame ==
  ASSUME ops' = ops,
         \A u \in Threads : (pc'[u] = "idle") <=> (pc[u] = "idle")
  PROVE  W' = W
<1>1. Written' = Written
  BY DEF Written, Finished
<1>2. QED
  BY <1>1 DEF W

\* BeginCount takes object ops[t] + 1, which is not finished yet.
LEMMA WrittenBegin ==
  ASSUME TypeShape, NEW t \in Threads, pc[t] = "idle",
         ops' = [ops EXCEPT ![t] = @ + 1],
         pc' = [pc EXCEPT ![t] = "find"]
  PROVE  W' = W
<1>1. ASSUME NEW p \in Threads \X (1..MaxOps) PROVE Finished(p)' <=> Finished(p)
  <2>1. CASE p[1] = t
    BY <2>1 DEF TypeShape, Finished
  <2>2. CASE p[1] # t
    BY <2>2 DEF TypeShape, Finished
  <2>3. QED
    BY <2>1, <2>2
<1>2. Written' = Written
  BY <1>1 DEF Written
<1>3. QED
  BY <1>2 DEF W

\* A walker that goes back to idle finishes its ops[t]-th object.
LEMMA WrittenFinish ==
  ASSUME TypeShape, NEW t \in Threads, pc[t] # "idle", ops[t] \in 1..MaxOps,
         ops' = ops, pc' = [pc EXCEPT ![t] = "idle"]
  PROVE  W' = W + 1
<1> DEFINE x == <<t, ops[t]>>
<1>1. ASSUME NEW p \in Threads \X (1..MaxOps) PROVE Finished(p)' <=> (Finished(p) \/ p = x)
  <2>1. CASE p[1] = t
    BY <2>1 DEF TypeShape, Finished
  <2>2. CASE p[1] # t
    BY <2>2 DEF TypeShape, Finished
  <2>3. QED
    BY <2>1, <2>2
<1>2. x \in Threads \X (1..MaxOps) /\ x \notin Written
  BY DEF Written, Finished
<1>3. Written' = Written \cup {x}
  BY <1>1, <1>2 DEF Written
<1>4. QED
  BY <1>2, <1>3, WrittenBound, FS_AddElement DEF W

LEMMA InitBInv == Init => BInv
<1> SUFFICES ASSUME Init PROVE BInv
  OBVIOUS
<1>1. Cardinality(Classes) \in Nat
  BY FS_CardinalityType
<1>2. counterMap \in [Classes -> Cells \cup {NULL}] /\ nalloc \in 0..MaxCells
  <2>1. CASE Recycled
    BY <1>1, <2>1 DEF Init, Shells
  <2>2. CASE ~Recycled
    BY <2>2 DEF Init
  <2>3. QED
    BY <2>1, <2>2
<1>3. W \in Nat
  BY WrittenBound
<1>4. QED
  BY <1>2, <1>3 DEF Init, BInv, TypeShape, PCs, Holding

\* A failed allocation returns NULL: the walker drops the object.
LEMMA DropBInv ==
  ASSUME BInv, NEW t \in Threads, pc[t] # "idle", Drop(t), UNCHANGED nalloc
  PROVE  BInv'
<1>0. TypeShape /\ ops[t] \in 1..MaxOps /\ W \in Nat
  BY WrittenBound DEF BInv
<1>1. pc' = [pc EXCEPT ![t] = "idle"]
      /\ UNCHANGED <<counterMap, cnt, cls, op, cur, tmp, ops, added>>
  BY DEF Drop, Goto
<1>2. TypeShape'
  BY <1>0, <1>1 DEF TypeShape, PCs
<1>3. W' = W + 1
  BY <1>0, <1>1, WrittenFinish
<1>4. /\ \A c \in Cells : cnt'[c] <= W'
      /\ \A k \in Classes : added'[k] <= W'
      /\ \A u \in Threads : tmp'[u] <= W'
  BY <1>0, <1>1, <1>3 DEF BInv, TypeShape
<1>5. \A u \in Threads : pc'[u] # "idle" => ops'[u] \in 1..MaxOps
  BY <1>0, <1>1 DEF BInv, TypeShape
<1>6. \A u \in Threads : pc'[u] \in Holding => cur'[u] \in Cells
  BY <1>0, <1>1 DEF BInv, TypeShape, Holding
<1>7. QED
  BY <1>2, <1>4, <1>5, <1>6 DEF BInv

LEMMA BeginCountBInv ==
  ASSUME BInv, NEW t \in Threads, NEW k \in Classes, NEW o \in CountOps,
         BeginCount(t, k, o)
  PROVE  BInv'
<1>0. TypeShape /\ pc[t] = "idle" /\ ops[t] < MaxOps
  BY DEF BInv, BeginCount
<1>1. pc' = [pc EXCEPT ![t] = "find"] /\ ops' = [ops EXCEPT ![t] = @ + 1]
      /\ cls' = [cls EXCEPT ![t] = k] /\ op' = [op EXCEPT ![t] = o]
      /\ UNCHANGED <<counterMap, cnt, nalloc, cur, tmp, added>>
  BY DEF BeginCount, Goto
<1>2. TypeShape'
  <2>1. pc' \in [Threads -> PCs]
    BY <1>0, <1>1 DEF TypeShape, PCs
  <2>2. ops' \in [Threads -> 0..MaxOps]
    BY <1>0, <1>1 DEF TypeShape
  <2>3. cls' \in [Threads -> Classes] /\ op' \in [Threads -> CountOps]
    BY <1>0, <1>1 DEF TypeShape
  <2>4. QED
    BY <1>0, <1>1, <2>1, <2>2, <2>3 DEF TypeShape
<1>3. W' = W
  BY <1>0, <1>1, WrittenBegin
<1>4. \A u \in Threads : pc'[u] # "idle" => ops'[u] \in 1..MaxOps
  BY <1>0, <1>1 DEF BInv, TypeShape
<1>5. \A u \in Threads : pc'[u] \in Holding => cur'[u] \in Cells
  BY <1>0, <1>1 DEF BInv, TypeShape, Holding
<1>6. QED
  BY <1>1, <1>2, <1>3, <1>4, <1>5 DEF BInv


LEMMA FindClassBInv ==
  ASSUME BInv, NEW t \in Threads, FindClass(t)
  PROVE  BInv'
<1>0. TypeShape /\ pc[t] = "find"
  BY DEF BInv, FindClass
<1>1. /\ pc' = [pc EXCEPT ![t] = IF counterMap[cls[t]] = NULL THEN "calloc" ELSE "count"]
      /\ cur' = [cur EXCEPT ![t] = counterMap[cls[t]]]
      /\ UNCHANGED <<counterMap, cnt, nalloc, cls, op, tmp, ops, added>>
  BY DEF FindClass, Goto
<1>2. TypeShape'
  BY <1>0, <1>1 DEF TypeShape, PCs
<1>3. W' = W
  BY <1>0, <1>1, WrittenSame DEF TypeShape
<1>4. \A u \in Threads : pc'[u] # "idle" => ops'[u] \in 1..MaxOps
  BY <1>0, <1>1 DEF BInv, TypeShape
<1>5. \A u \in Threads : pc'[u] \in Holding => cur'[u] \in Cells
  <2>1. pc'[t] \in Holding => cur'[t] \in Cells
    BY <1>0, <1>1 DEF TypeShape, Holding
  <2>2. \A u \in Threads \ {t} : pc'[u] = pc[u] /\ cur'[u] = cur[u]
    BY <1>0, <1>1 DEF TypeShape
  <2>3. QED
    BY <2>1, <2>2 DEF BInv
<1>6. QED
  BY <1>1, <1>2, <1>3, <1>4, <1>5 DEF BInv


LEMMA PushCallocBInv ==
  ASSUME BInv, NEW t \in Threads, PushCalloc(t)
  PROVE  BInv'
<1>1. TypeShape'
  BY DEF BInv, TypeShape, PushCalloc, Goto, PCs
<1>2. W' = W
  BY WrittenSame DEF BInv, TypeShape, PushCalloc, Goto
<1>3. QED
  BY <1>1, <1>2 DEF BInv, TypeShape, PushCalloc, Goto, Holding

LEMMA PushMemalignBInv ==
  ASSUME BInv, NEW t \in Threads, PushMemalign(t)
  PROVE  BInv'
<1>1. CASE Drop(t)
  BY <1>1, DropBInv DEF PushMemalign
<1>2. CASE cnt' = [cnt EXCEPT ![cur[t]] = 0] /\ Goto(t, "insert")
           /\ UNCHANGED <<counterMap, cls, op, cur, tmp, ops, added>>
  <2>0. TypeShape /\ pc[t] = "memalign" /\ UNCHANGED nalloc
    BY DEF BInv, PushMemalign
  <2>1. cur[t] \in Cells
    BY <2>0 DEF BInv, Holding
  <2>2. TypeShape'
    BY <1>2, <2>0, <2>1 DEF TypeShape, Goto, PCs
  <2>3. W' = W
    BY <1>2, <2>0, WrittenSame DEF TypeShape, Goto
  <2>4. W \in Nat
    BY WrittenBound
  <2>5. \A c \in Cells : cnt'[c] <= W'
    BY <1>2, <2>0, <2>1, <2>3, <2>4 DEF BInv, TypeShape
  <2>6. \A u \in Threads : pc'[u] # "idle" => ops'[u] \in 1..MaxOps
    BY <1>2, <2>0 DEF BInv, TypeShape, Goto
  <2>7. \A u \in Threads : pc'[u] \in Holding => cur'[u] \in Cells
    BY <1>2, <2>0, <2>1 DEF BInv, TypeShape, Goto, Holding
  <2>8. QED
    BY <1>2, <2>2, <2>3, <2>5, <2>6, <2>7 DEF BInv
<1>3. QED
  BY <1>1, <1>2 DEF PushMemalign


LEMMA PushInsertBInv ==
  ASSUME BInv, NEW t \in Threads, PushInsert(t)
  PROVE  BInv'
<1>1. CASE Drop(t) /\ UNCHANGED nalloc
  BY <1>1, DropBInv DEF PushInsert
<1>2. CASE counterMap' = [counterMap EXCEPT ![cls[t]] = cur[t]] /\ Goto(t, "count")
           /\ UNCHANGED <<cnt, nalloc, cls, op, cur, tmp, ops, added>>
  <2>1. cur[t] \in Cells
    BY DEF PushInsert, BInv, Holding
  <2>2. TypeShape'
    BY <1>2, <2>1 DEF BInv, TypeShape, PushInsert, Goto, PCs
  <2>3. W' = W
    BY <1>2, WrittenSame DEF BInv, TypeShape, PushInsert, Goto
  <2>4. QED
    BY <1>2, <2>1, <2>2, <2>3 DEF BInv, TypeShape, PushInsert, Goto, Holding
<1>3. QED
  BY <1>1, <1>2 DEF PushInsert

\* Inc(counter, size): the count grows by one, and so does W.
LEMMA IncCounterBInv ==
  ASSUME BInv, NEW t \in Threads, IncCounter(t)
  PROVE  BInv'
<1>0. /\ TypeShape /\ pc[t] # "idle" /\ ops[t] \in 1..MaxOps
      /\ cur[t] \in Cells /\ cls[t] \in Classes /\ W \in Nat
      /\ tmp[t] <= W /\ cnt[cur[t]] <= W /\ added[cls[t]] <= W
  BY WrittenBound DEF IncCounter, BInv, TypeShape, Holding
<1>1. /\ pc' = [pc EXCEPT ![t] = "idle"]
      /\ cnt' = [cnt EXCEPT ![cur[t]] = cnt[cur[t]] + 1]
      /\ added' = [added EXCEPT ![cls[t]] = added[cls[t]] + 1]
      /\ UNCHANGED <<counterMap, nalloc, cls, op, cur, tmp, ops>>
  BY DEF IncCounter, Goto
<1>2. TypeShape'
  <2>1. pc' \in [Threads -> PCs]
    BY <1>0, <1>1 DEF TypeShape, PCs
  <2>2. cnt' \in [Cells -> Nat]
    BY <1>0, <1>1 DEF TypeShape
  <2>3. added' \in [Classes -> Nat]
    BY <1>0, <1>1 DEF TypeShape
  <2>4. QED
    BY <1>0, <1>1, <2>1, <2>2, <2>3 DEF TypeShape
<1>3. W' = W + 1
  BY <1>0, <1>1, WrittenFinish
<1>4. \A c \in Cells : cnt'[c] <= W'
  BY <1>0, <1>1, <1>3 DEF BInv, TypeShape
<1>5. \A k \in Classes : added'[k] <= W'
  BY <1>0, <1>1, <1>3 DEF BInv, TypeShape
<1>6. \A u \in Threads : tmp'[u] <= W'
  BY <1>0, <1>1, <1>3 DEF BInv, TypeShape
<1>7. \A u \in Threads : pc'[u] # "idle" => ops'[u] \in 1..MaxOps
  BY <1>0, <1>1 DEF BInv, TypeShape
<1>8. \A u \in Threads : pc'[u] \in Holding => cur'[u] \in Cells
  BY <1>0, <1>1 DEF BInv, TypeShape, Holding
<1>9. QED
  BY <1>2, <1>4, <1>5, <1>6, <1>7, <1>8 DEF BInv


\* addInc reads the count: what it read is at most W.
LEMMA AddReadBInv ==
  ASSUME BInv, NEW t \in Threads, AddRead(t)
  PROVE  BInv'
<1>1. cur[t] \in Cells
  BY DEF AddRead, BInv, Holding
<1>2. TypeShape'
  BY <1>1 DEF BInv, TypeShape, AddRead, Goto, PCs
<1>3. W' = W
  BY WrittenSame DEF BInv, TypeShape, AddRead, Goto
<1>4. QED
  BY <1>1, <1>2, <1>3 DEF BInv, TypeShape, AddRead, Goto, Holding

\* addInc writes back what it read plus one, however stale the read: at
\* most W + 1, which is W after the step.
LEMMA AddWriteBInv ==
  ASSUME BInv, NEW t \in Threads, AddWrite(t)
  PROVE  BInv'
<1>0. /\ TypeShape /\ pc[t] # "idle" /\ ops[t] \in 1..MaxOps
      /\ cur[t] \in Cells /\ cls[t] \in Classes /\ W \in Nat
      /\ tmp[t] <= W /\ cnt[cur[t]] <= W /\ added[cls[t]] <= W
  BY WrittenBound DEF AddWrite, BInv, TypeShape, Holding
<1>1. /\ pc' = [pc EXCEPT ![t] = "idle"]
      /\ cnt' = [cnt EXCEPT ![cur[t]] = tmp[t] + 1]
      /\ added' = [added EXCEPT ![cls[t]] = added[cls[t]] + 1]
      /\ UNCHANGED <<counterMap, nalloc, cls, op, cur, tmp, ops>>
  BY DEF AddWrite, Goto
<1>2. TypeShape'
  <2>1. pc' \in [Threads -> PCs]
    BY <1>0, <1>1 DEF TypeShape, PCs
  <2>2. cnt' \in [Cells -> Nat]
    BY <1>0, <1>1 DEF TypeShape
  <2>3. added' \in [Classes -> Nat]
    BY <1>0, <1>1 DEF TypeShape
  <2>4. QED
    BY <1>0, <1>1, <2>1, <2>2, <2>3 DEF TypeShape
<1>3. W' = W + 1
  BY <1>0, <1>1, WrittenFinish
<1>4. \A c \in Cells : cnt'[c] <= W'
  BY <1>0, <1>1, <1>3 DEF BInv, TypeShape
<1>5. \A k \in Classes : added'[k] <= W'
  BY <1>0, <1>1, <1>3 DEF BInv, TypeShape
<1>6. \A u \in Threads : tmp'[u] <= W'
  BY <1>0, <1>1, <1>3 DEF BInv, TypeShape
<1>7. \A u \in Threads : pc'[u] # "idle" => ops'[u] \in 1..MaxOps
  BY <1>0, <1>1 DEF BInv, TypeShape
<1>8. \A u \in Threads : pc'[u] \in Holding => cur'[u] \in Cells
  BY <1>0, <1>1 DEF BInv, TypeShape, Holding
<1>9. QED
  BY <1>2, <1>4, <1>5, <1>6, <1>7, <1>8 DEF BInv


-----------------------------------------------------------------------------
LEMMA InitOInv == Init => OInv
<1> SUFFICES ASSUME Init PROVE OInv
  OBVIOUS
<1>1. Cardinality(Classes) \in Nat
  BY FS_CardinalityType
<1>2. MapInAlloc /\ \A j, k \in Classes : j # k /\ counterMap[j] # NULL => counterMap[j] # counterMap[k]
  <2>1. CASE Recycled
    BY <1>1, <2>1 DEF Init, Shells, MapInAlloc
  <2>2. CASE ~Recycled
    BY <2>2 DEF Init, MapInAlloc
  <2>3. QED
    BY <2>1, <2>2
<1>3. \A c \in Cells, k \in Classes : Assoc(c, k) <=> counterMap[k] = c
  BY DEF Init, Assoc, Counting
<1>4. OwnerUnique
  BY <1>2, <1>3 DEF OwnerUnique
<1>5. QED
  BY <1>2, <1>3, <1>4 DEF Init, OInv, HeldInAlloc, BuildFresh, CountBound,
                          ReadBound, Holding, Building

\* A step that changes neither the map nor any count, and starts no
\* walker building, counting or reading, keeps OInv.
LEMMA QuietStep ==
  ASSUME OInv, UNCHANGED <<counterMap, cnt, nalloc, added>>,
         \A u \in Threads : pc'[u] \in Holding =>
            pc[u] \in Holding /\ cur'[u] = cur[u],
         \A u \in Threads : pc'[u] \in Counting =>
            pc[u] \in Counting /\ cur'[u] = cur[u] /\ cls'[u] = cls[u],
         \A u \in Threads : pc'[u] \in Building => pc[u] \in Building,
         \A u \in Threads : pc'[u] = "addwrite" =>
            pc[u] = "addwrite" /\ tmp'[u] = tmp[u] /\ cls'[u] = cls[u]
  PROVE  OInv'
<1>1. \A c \in Cells, k \in Classes : Assoc(c, k)' => Assoc(c, k)
  BY DEF Assoc
<1>2. MapInAlloc' /\ HeldInAlloc'
  BY DEF OInv, MapInAlloc, HeldInAlloc
<1>3. OwnerUnique'
  BY <1>1 DEF OInv, OwnerUnique
<1>4. BuildFresh'
  <2> SUFFICES ASSUME NEW t \in Threads, pc'[t] \in Building PROVE Fresh(t)'
    BY DEF BuildFresh
  <2>1. pc[t] \in Building /\ cur'[t] = cur[t] /\ Fresh(t)
    BY DEF OInv, BuildFresh, Building, Holding
  <2>2. QED
    BY <2>1 DEF Fresh
<1>5. CountBound'
  BY <1>1 DEF OInv, CountBound
<1>6. ReadBound'
  BY DEF OInv, ReadBound
<1>7. QED
  BY <1>2, <1>3, <1>4, <1>5, <1>6 DEF OInv

LEMMA DropOInv ==
  ASSUME TypeShape, OInv, NEW t \in Threads, Drop(t), UNCHANGED nalloc
  PROVE  OInv'
<1>1. pc' = [pc EXCEPT ![t] = "idle"]
      /\ UNCHANGED <<counterMap, cnt, cls, op, cur, tmp, ops, added>>
  BY DEF Drop, Goto
<1>2. QED
  BY <1>1, QuietStep DEF TypeShape, Holding, Counting, Building

LEMMA BeginCountOInv ==
  ASSUME TypeShape, OInv, NEW t \in Threads, NEW k \in Classes, NEW o \in CountOps,
         BeginCount(t, k, o)
  PROVE  OInv'
<1>1. pc' = [pc EXCEPT ![t] = "find"] /\ cls' = [cls EXCEPT ![t] = k]
      /\ UNCHANGED <<counterMap, cnt, nalloc, cur, tmp, added>>
  BY DEF BeginCount, Goto
<1>2. QED
  BY <1>1, QuietStep DEF TypeShape, Holding, Counting, Building

LEMMA FindClassOInv ==
  ASSUME TypeShape, OInv, NEW t \in Threads, FindClass(t)
  PROVE  OInv'
<1>0. pc[t] = "find"
  BY DEF FindClass
<1>1. /\ pc' = [pc EXCEPT ![t] = IF counterMap[cls[t]] = NULL THEN "calloc" ELSE "count"]
      /\ cur' = [cur EXCEPT ![t] = counterMap[cls[t]]]
      /\ UNCHANGED <<counterMap, cnt, nalloc, cls, op, tmp, ops, added>>
  BY DEF FindClass, Goto
<1>2. pc'[t] \in Holding => cur'[t] = counterMap[cls[t]] /\ counterMap[cls[t]] # NULL
  BY <1>1 DEF TypeShape, Holding
<1>3. \A u \in Threads \ {t} : pc'[u] = pc[u] /\ cur'[u] = cur[u]
  BY <1>1 DEF TypeShape
<1>4. \A c \in Cells, k \in Classes : Assoc(c, k)' => Assoc(c, k)
  BY <1>0, <1>1, <1>2, <1>3 DEF Assoc, Counting, Holding, TypeShape
<1>5. MapInAlloc' /\ HeldInAlloc'
  BY <1>0, <1>1, <1>2, <1>3 DEF OInv, MapInAlloc, HeldInAlloc, TypeShape, Holding
<1>6. BuildFresh'
  <2> SUFFICES ASSUME NEW u \in Threads, pc'[u] \in Building PROVE Fresh(u)'
    BY DEF BuildFresh
  <2>1. u # t /\ pc[u] \in Building /\ Fresh(u)
    BY <1>1, <1>3 DEF OInv, BuildFresh, Building, TypeShape
  <2>2. pc'[t] \in Holding => cur'[t] # cur[u]
    BY <1>2, <2>1 DEF Fresh, TypeShape
  <2>3. QED
    BY <1>1, <1>3, <2>1, <2>2 DEF Fresh
<1>7. QED
  BY <1>1, <1>4, <1>5, <1>6 DEF OInv, OwnerUnique, CountBound, ReadBound, TypeShape

LEMMA PushCallocOInv ==
  ASSUME TypeShape, OInv, NEW t \in Threads, PushCalloc(t)
  PROVE  OInv'
<1>0. pc[t] = "calloc" /\ nalloc < MaxCells
  BY DEF PushCalloc
<1>1. /\ pc' = [pc EXCEPT ![t] = "memalign"] /\ nalloc' = nalloc + 1
      /\ cur' = [cur EXCEPT ![t] = nalloc + 1]
      /\ UNCHANGED <<counterMap, cnt, cls, op, tmp, ops, added>>
  BY DEF PushCalloc, Goto
<1>2. \A u \in Threads \ {t} : pc'[u] = pc[u] /\ cur'[u] = cur[u]
  BY <1>1 DEF TypeShape
<1>7. nalloc \in Nat /\ cur'[t] = nalloc + 1 /\ pc'[t] = "memalign"
  BY <1>1 DEF TypeShape
<1>3. \A c \in Cells, k \in Classes : Assoc(c, k)' => Assoc(c, k)
  BY <1>0, <1>1, <1>2 DEF Assoc, Counting, TypeShape
<1>4. MapInAlloc' /\ HeldInAlloc'
  <2>1. MapInAlloc'
    BY <1>1, <1>7 DEF OInv, MapInAlloc
  <2>2. HeldInAlloc'
    BY <1>1, <1>2, <1>7 DEF OInv, HeldInAlloc
  <2>3. QED
    BY <2>1, <2>2
<1>5. BuildFresh'
  <2> SUFFICES ASSUME NEW u \in Threads, pc'[u] \in Building PROVE Fresh(u)'
    BY DEF BuildFresh
  <2>1. CASE u = t
    <3>1. \A k \in Classes : counterMap[k] = NULL \/ counterMap[k] \in 1..nalloc
      BY DEF OInv, MapInAlloc
    <3>4. \A k \in Classes : counterMap[k] # nalloc + 1
      BY <1>7, <3>1
    <3>2. \A w \in Threads \ {t} : pc[w] \in Holding => cur[w] # nalloc + 1
      BY <1>7 DEF OInv, HeldInAlloc
    <3>3. QED
      BY <1>1, <1>2, <1>7, <2>1, <3>4, <3>2 DEF Fresh
  <2>2. CASE u # t
    <3>1. pc[u] \in Building /\ Fresh(u) /\ cur[u] \in 1..nalloc
      BY <1>2, <2>2 DEF OInv, BuildFresh, HeldInAlloc, Building, Holding
    <3>3. cur'[t] # cur[u]
      BY <1>7, <3>1
    <3>2. QED
      BY <1>1, <1>2, <2>2, <3>1, <3>3 DEF Fresh
  <2>3. QED
    BY <2>1, <2>2
<1>6. QED
  BY <1>1, <1>3, <1>4, <1>5 DEF OInv, OwnerUnique, CountBound, ReadBound, TypeShape

\* Fresh: the cell walker t builds belongs to no class yet.
LEMMA FreshNoOwner ==
  ASSUME NEW t \in Threads, pc[t] \in Building, Fresh(t), pc[t] \notin Counting
  PROVE  \A k \in Classes : ~Assoc(cur[t], k)
<1> SUFFICES ASSUME NEW k \in Classes, NEW u \in Threads,
                    pc[u] \in Counting, cur[u] = cur[t]
             PROVE  FALSE
  BY DEF Fresh, Assoc
<1>1. u # t
  OBVIOUS
<1>2. QED
  BY <1>1 DEF Fresh, Holding, Counting

\* posix_memalign and clearObjectCounter: the fresh cell, zeroed, now
\* belongs to the class of the object the walker counts.
LEMMA PushMemalignOInv ==
  ASSUME TypeShape, OInv, NEW t \in Threads, pc[t] = "memalign",
         cnt' = [cnt EXCEPT ![cur[t]] = 0], Goto(t, "insert"),
         UNCHANGED <<counterMap, nalloc, cls, op, cur, tmp, ops, added>>
  PROVE  OInv'
<1>1. pc' = [pc EXCEPT ![t] = "insert"] /\ pc'[t] = "insert"
      /\ \A u \in Threads \ {t} : pc'[u] = pc[u]
  BY DEF Goto, TypeShape
<1>2. Fresh(t) /\ cur[t] \in 1..nalloc
  BY DEF OInv, BuildFresh, HeldInAlloc, Building, Holding
<1>3. \A k \in Classes : ~Assoc(cur[t], k)
  BY <1>2, FreshNoOwner DEF Building, Counting
<1>4. \A c \in Cells, k \in Classes :
        Assoc(c, k)' => Assoc(c, k) \/ (c = cur[t] /\ k = cls[t])
  BY <1>1 DEF Assoc, Counting
<1>5. MapInAlloc' /\ HeldInAlloc'
  BY <1>1 DEF OInv, MapInAlloc, HeldInAlloc, Holding
<1>6. OwnerUnique'
  <2> SUFFICES ASSUME NEW c \in Cells, NEW j \in Classes, NEW k \in Classes,
                      Assoc(c, j)', Assoc(c, k)'
               PROVE  j = k
    BY DEF OwnerUnique
  <2>1. CASE c = cur[t]
    BY <1>3, <1>4, <2>1
  <2>2. CASE c # cur[t]
    BY <1>4, <2>2 DEF OInv, OwnerUnique
  <2>3. QED
    BY <2>1, <2>2
<1>7. BuildFresh'
  BY <1>1 DEF OInv, BuildFresh, Fresh, Building, Holding
<1>8. CountBound'
  <2> SUFFICES ASSUME NEW c \in Cells, NEW k \in Classes, Assoc(c, k)'
               PROVE  cnt'[c] <= added'[k]
    BY DEF CountBound
  <2>1. CASE c = cur[t]
    BY <1>2, <2>1 DEF TypeShape
  <2>2. CASE c # cur[t]
    BY <1>3, <1>4, <2>2 DEF OInv, CountBound, TypeShape
  <2>3. QED
    BY <2>1, <2>2
<1>9. ReadBound'
  BY <1>1 DEF OInv, ReadBound
<1>10. QED
  BY <1>5, <1>6, <1>7, <1>8, <1>9 DEF OInv

\* counterMap[objData] = cur: the map takes the cell its class already owns
\* through walker t.
LEMMA PushInsertOInv ==
  ASSUME TypeShape, OInv, NEW t \in Threads, pc[t] = "insert",
         counterMap' = [counterMap EXCEPT ![cls[t]] = cur[t]], Goto(t, "count"),
         UNCHANGED <<cnt, nalloc, cls, op, cur, tmp, ops, added>>
  PROVE  OInv'
<1>1. pc' = [pc EXCEPT ![t] = "count"] /\ pc'[t] = "count"
      /\ \A u \in Threads \ {t} : pc'[u] = pc[u]
  BY DEF Goto, TypeShape
<1>2. cur[t] \in 1..nalloc /\ Fresh(t)
  BY DEF OInv, HeldInAlloc, BuildFresh, Holding, Building
<1>3. \A c \in Cells, k \in Classes : Assoc(c, k)' => Assoc(c, k)
  <2> SUFFICES ASSUME NEW c \in Cells, NEW k \in Classes, Assoc(c, k)'
               PROVE  Assoc(c, k)
    OBVIOUS
  <2>1. CASE k = cls[t] /\ counterMap'[k] = c
    <3>1. c = cur[t]
      BY <2>1 DEF TypeShape
    <3>2. QED
      BY <3>1, <2>1 DEF Assoc, Counting
  <2>2. CASE ~(k = cls[t] /\ counterMap'[k] = c)
    BY <1>1, <2>2 DEF Assoc, Counting, TypeShape
  <2>3. QED
    BY <2>1, <2>2
<1>4. MapInAlloc' /\ HeldInAlloc'
  BY <1>1, <1>2 DEF OInv, MapInAlloc, HeldInAlloc, Holding, TypeShape
<1>5. BuildFresh'
  <2> SUFFICES ASSUME NEW u \in Threads, pc'[u] \in Building PROVE Fresh(u)'
    BY DEF BuildFresh
  <2>1. u # t /\ pc[u] \in Building /\ Fresh(u)
    BY <1>1 DEF OInv, BuildFresh, Building
  <2>2. cur[t] # cur[u]
    BY <2>1 DEF Fresh, Holding
  <2>3. QED
    BY <1>1, <2>1, <2>2 DEF Fresh, TypeShape
<1>6. OwnerUnique'
  BY <1>3 DEF OInv, OwnerUnique
<1>7. CountBound'
  BY <1>3 DEF OInv, CountBound
<1>8. ReadBound'
  BY <1>1 DEF OInv, ReadBound
<1>9. QED
  BY <1>4, <1>5, <1>6, <1>7, <1>8 DEF OInv

\* addInc reads the count of a cell its class owns through walker t.
LEMMA AddReadOInv ==
  ASSUME TypeShape, OInv, NEW t \in Threads, AddRead(t)
  PROVE  OInv'
<1>0. pc[t] = "count" /\ cur[t] \in Cells /\ cls[t] \in Classes
  BY DEF AddRead, OInv, HeldInAlloc, Holding, TypeShape
<1>1. /\ pc' = [pc EXCEPT ![t] = "addwrite"] /\ pc'[t] = "addwrite"
      /\ \A u \in Threads \ {t} : pc'[u] = pc[u]
      /\ tmp' = [tmp EXCEPT ![t] = cnt[cur[t]]]
      /\ UNCHANGED <<counterMap, cnt, nalloc, cls, op, cur, ops, added>>
  BY DEF AddRead, Goto, TypeShape
<1>2. \A c \in Cells, k \in Classes : Assoc(c, k)' <=> Assoc(c, k)
  BY <1>0, <1>1 DEF Assoc, Counting
<1>3. Assoc(cur[t], cls[t])
  BY <1>0 DEF Assoc, Counting
<1>4. tmp'[t] <= added[cls[t]]
  BY <1>0, <1>1, <1>3 DEF OInv, CountBound, TypeShape
<1>5. ReadBound'
  BY <1>1, <1>4 DEF OInv, ReadBound, TypeShape
<1>6. BuildFresh'
  BY <1>0, <1>1 DEF OInv, BuildFresh, Fresh, Building, Holding
<1>7. MapInAlloc' /\ HeldInAlloc'
  BY <1>0, <1>1 DEF OInv, MapInAlloc, HeldInAlloc, Holding
<1>8. OwnerUnique'
  BY <1>2 DEF OInv, OwnerUnique
<1>9. CountBound'
  BY <1>1, <1>2 DEF OInv, CountBound
<1>10. QED
  BY <1>5, <1>6, <1>7, <1>8, <1>9 DEF OInv

\* Inc or addInc writes v + 1 into the cell walker t counts into, where v
\* is at most the objects of t's class that had gone through: the class
\* gains the object, and no other class owns the cell.
LEMMA CountWrite ==
  ASSUME TypeShape, OInv, NEW t \in Threads, pc[t] \in {"count", "addwrite"},
         NEW v \in Nat, v <= added[cls[t]],
         cnt' = [cnt EXCEPT ![cur[t]] = v + 1],
         added' = [added EXCEPT ![cls[t]] = added[cls[t]] + 1],
         pc' = [pc EXCEPT ![t] = "idle"],
         UNCHANGED <<counterMap, nalloc, cls, op, cur, tmp, ops>>
  PROVE  OInv'
<1>0. cur[t] \in Cells /\ cls[t] \in Classes /\ Assoc(cur[t], cls[t])
  BY DEF OInv, HeldInAlloc, Holding, TypeShape, Assoc, Counting
<1>1. \A u \in Threads \ {t} : pc'[u] = pc[u]
  BY DEF TypeShape
<1>2. \A c \in Cells, k \in Classes : Assoc(c, k)' => Assoc(c, k)
  BY <1>1 DEF Assoc, Counting, TypeShape
<1>3. \A k \in Classes : added'[k] >= added[k]
  BY <1>0 DEF TypeShape
<1>4. CountBound'
  <2> SUFFICES ASSUME NEW c \in Cells, NEW k \in Classes, Assoc(c, k)'
               PROVE  cnt'[c] <= added'[k]
    BY DEF CountBound
  <2>1. CASE c = cur[t]
    <3>1. k = cls[t]
      BY <1>0, <1>2, <2>1 DEF OInv, OwnerUnique
    <3>2. QED
      BY <1>0, <2>1, <3>1 DEF TypeShape
  <2>2. CASE c # cur[t]
    <3>1. cnt'[c] = cnt[c] /\ cnt[c] <= added[k]
      BY <1>2, <2>2 DEF OInv, CountBound, TypeShape
    <3>2. QED
      BY <1>3, <3>1 DEF TypeShape
  <2>3. QED
    BY <2>1, <2>2
<1>5. ReadBound'
  BY <1>1, <1>3 DEF OInv, ReadBound, TypeShape
<1>6. BuildFresh'
  BY <1>1 DEF OInv, BuildFresh, Fresh, Building, Holding, TypeShape
<1>7. MapInAlloc' /\ HeldInAlloc'
  BY <1>1 DEF OInv, MapInAlloc, HeldInAlloc, Holding, TypeShape
<1>8. OwnerUnique'
  BY <1>2 DEF OInv, OwnerUnique
<1>9. QED
  BY <1>4, <1>5, <1>6, <1>7, <1>8 DEF OInv

LEMMA IncCounterOInv ==
  ASSUME TypeShape, OInv, NEW t \in Threads, IncCounter(t)
  PROVE  OInv'
<1>1. pc[t] = "count" /\ cur[t] \in Cells /\ cls[t] \in Classes
  BY DEF IncCounter, OInv, HeldInAlloc, Holding, TypeShape
<1>2. cnt[cur[t]] \in Nat /\ cnt[cur[t]] <= added[cls[t]]
  BY <1>1 DEF OInv, CountBound, Assoc, Counting, TypeShape
<1>3. cnt' = [cnt EXCEPT ![cur[t]] = cnt[cur[t]] + 1]
      /\ added' = [added EXCEPT ![cls[t]] = added[cls[t]] + 1]
      /\ pc' = [pc EXCEPT ![t] = "idle"]
      /\ UNCHANGED <<counterMap, nalloc, cls, op, cur, tmp, ops>>
  BY DEF IncCounter, Goto
<1>4. QED
  BY <1>1, <1>2, <1>3, CountWrite

LEMMA AddWriteOInv ==
  ASSUME TypeShape, OInv, NEW t \in Threads, AddWrite(t)
  PROVE  OInv'
<1>1. pc[t] = "addwrite" /\ tmp[t] \in Nat /\ tmp[t] <= added[cls[t]]
  BY DEF AddWrite, OInv, ReadBound, TypeShape
<1>2. cnt' = [cnt EXCEPT ![cur[t]] = tmp[t] + 1]
      /\ added' = [added EXCEPT ![cls[t]] = added[cls[t]] + 1]
      /\ pc' = [pc EXCEPT ![t] = "idle"]
      /\ UNCHANGED <<counterMap, nalloc, cls, op, cur, tmp, ops>>
  BY DEF AddWrite, Goto
<1>3. QED
  BY <1>1, <1>2, CountWrite

LEMMA NextOInv ==
  ASSUME BInv, OInv, [Next]_vars
  PROVE  OInv'
<1>0. TypeShape
  BY DEF BInv
<1>1. CASE \E t \in Threads, k \in Classes, o \in CountOps : BeginCount(t, k, o)
  BY <1>0, <1>1, BeginCountOInv
<1>2. ASSUME NEW t \in Threads, PushCallocFail(t) PROVE OInv'
  BY <1>0, <1>2, DropOInv DEF PushCallocFail
<1>3. ASSUME NEW t \in Threads, PushMemalign(t) PROVE OInv'
  BY <1>0, <1>3, DropOInv, PushMemalignOInv DEF PushMemalign
<1>4. ASSUME NEW t \in Threads, PushInsert(t) PROVE OInv'
  BY <1>0, <1>4, DropOInv, PushInsertOInv DEF PushInsert
<1>5. CASE \E t \in Threads :
             \/ FindClass(t) \/ PushCalloc(t) \/ PushCallocFail(t) \/ PushMemalign(t)
             \/ PushInsert(t) \/ IncCounter(t) \/ AddRead(t) \/ AddWrite(t)
  BY <1>0, <1>2, <1>3, <1>4, <1>5, FindClassOInv, PushCallocOInv, IncCounterOInv,
     AddReadOInv, AddWriteOInv
<1>6. CASE WalkDone \/ UNCHANGED vars
  <2>1. UNCHANGED vars
    BY <1>6 DEF WalkDone
  <2>2. QED
    BY <2>1 DEF vars, OInv, MapInAlloc, HeldInAlloc, OwnerUnique, BuildFresh,
                CountBound, ReadBound, Assoc, Fresh
<1>7. QED
  BY <1>1, <1>5, <1>6 DEF Next

\* The property is OInv's CountBound for the cells the map holds.
LEMMA OInvNotInvented ==
  ASSUME TypeShape, OInv
  PROVE  CountsNotInvented
BY DEF OInv, CountBound, Assoc, CountsNotInvented, TypeShape

LEMMA NextBInv ==
  ASSUME BInv, [Next]_vars
  PROVE  BInv'
<1>1. CASE \E t \in Threads, k \in Classes, o \in CountOps : BeginCount(t, k, o)
  BY <1>1, BeginCountBInv
<1>2. ASSUME NEW t \in Threads, PushCallocFail(t) PROVE BInv'
  BY <1>2, DropBInv DEF PushCallocFail
<1>3. CASE \E t \in Threads :
             \/ FindClass(t) \/ PushCalloc(t) \/ PushCallocFail(t) \/ PushMemalign(t)
             \/ PushInsert(t) \/ IncCounter(t) \/ AddRead(t) \/ AddWrite(t)
  BY <1>2, <1>3, FindClassBInv, PushCallocBInv, PushMemalignBInv, PushInsertBInv,
     IncCounterBInv, AddReadBInv, AddWriteBInv
<1>4. CASE WalkDone \/ UNCHANGED vars
  <2>1. UNCHANGED vars
    BY <1>4 DEF WalkDone
  <2>2. W' = W
    BY <2>1 DEF vars, W, Written, Finished
  <2>3. QED
    BY <2>1, <2>2 DEF vars, BInv, TypeShape, Holding
<1>5. QED
  BY <1>1, <1>3, <1>4 DEF Next

\* The counts are bounded by the finished objects, hence by MaxTotal.
LEMMA BInvTypeOK ==
  ASSUME BInv
  PROVE  TypeOK
<1>1. W \in Nat /\ W <= MaxTotal /\ MaxTotal \in Nat
  BY WrittenBound, FS_CardinalityType DEF MaxTotal
<1>2. cnt \in [Cells -> 0..MaxTotal]
  BY <1>1 DEF BInv, TypeShape
<1>3. tmp \in [Threads -> 0..MaxTotal]
  BY <1>1 DEF BInv, TypeShape
<1>4. added \in [Classes -> 0..MaxTotal]
  BY <1>1 DEF BInv, TypeShape
<1>5. QED
  BY <1>2, <1>3, <1>4 DEF BInv, TypeShape, TypeOK

-----------------------------------------------------------------------------
(***************************************************************************)
(* BInv holds in every reachable state, fresh or recycled container, with  *)
(* or without Exclusive: no count, addInc read or ghost total exceeds the  *)
(* objects whose Inc or addInc has finished.                               *)
(***************************************************************************)
THEOREM BoundInvariant == Spec => []BInv
BY InitBInv, NextBInv, PTL DEF Spec

(***************************************************************************)
(* TypeOK (the counts stay within MaxOps objects per thread): for every    *)
(* set of threads and classes and every bound, and even when two walkers   *)
(* race addInc's read and write on one class (lost updates only lose       *)
(* counts), every count of the container is at most MaxTotal.              *)
(***************************************************************************)
THEOREM CounterTypeCorrect == Spec => []TypeOK
BY BoundInvariant, BInvTypeOK, PTL

(***************************************************************************)
(* CountsNotInvented, with or without Exclusive, fresh or recycled         *)
(* container: racing addInc may lose updates and racing pushNewClass may   *)
(* leak a counter with its counts, but the counter counterMap holds for a  *)
(* class never counts more objects than the walkers counted for it.        *)
(***************************************************************************)
THEOREM NotInventedInvariant == Spec => []CountsNotInvented
<1>1. Init => BInv /\ OInv
  BY InitBInv, InitOInv
<1>2. BInv /\ OInv /\ [Next]_vars => (BInv /\ OInv)'
  BY NextBInv, NextOInv
<1>3. BInv /\ OInv => CountsNotInvented
  BY OInvNotInvented DEF BInv
<1>4. QED
  BY <1>1, <1>2, <1>3, PTL DEF Spec

=============================================================================
