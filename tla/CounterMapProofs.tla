-------------------------- MODULE CounterMapProofs --------------------------
(***************************************************************************)
(* Exact counts on a container from the stock, without Exclusive.          *)
(*                                                                         *)
(* A recycled container keeps a TClassCounter for every class it met       *)
(* (clear zeroes the counts and keeps the map), so findClass always hits   *)
(* and pushNewClass never runs: the push race of countermap_push_race      *)
(* cannot happen.  Any number of walkers may then count objects of one     *)
(* class at the same time.  With the architecture's atomic Inc every      *)
(* count lands, and each class's counter equals the number of its objects  *)
(* counted at every moment (CountsAdd, without its idle premise).  The     *)
(* portable addInc breaks exactly this (countermap_add_race), which is why *)
(* the theorem is stated for Inc alone.                                    *)
(***************************************************************************)
EXTENDS CounterMap, FiniteSetTheorems, TLAPS

\* TypeOK with the counts and addInc's read value in Nat.
TypeN ==
  /\ counterMap \in [Classes -> Cells \cup {NULL}]
  /\ cnt \in [Cells -> Nat]
  /\ nalloc \in 0..MaxCells
  /\ pc \in [Threads -> PCs]
  /\ cls \in [Threads -> Classes]
  /\ op \in [Threads -> CountOps]
  /\ cur \in [Threads -> Cells \cup {NULL}]
  /\ tmp \in [Threads -> Nat]
  /\ ops \in [Threads -> 0..MaxOps]
  /\ added \in [Classes -> Nat]

\* Every class has its own calloc'ed counter (the shells clear kept).
MapFull ==
  /\ \A k \in Classes : counterMap[k] \in 1..nalloc
  /\ \A j, k \in Classes : j # k => counterMap[j] # counterMap[k]

\* A walker only finds and counts, and counts into its class's counter.
WalkersHit ==
  \A t \in Threads :
    /\ pc[t] \in {"idle", "find", "count"}
    /\ pc[t] = "count" => cur[t] = counterMap[cls[t]]

\* Every class's count is exact at every moment.
Exact == \A k \in Classes : added[k] = cnt[counterMap[k]]

RInv == TypeN /\ MapFull /\ WalkersHit /\ Exact

\* The container came from the stock and the walkers count with Inc.
RecycledInc == Recycled /\ CountOps = {"inc"}

-----------------------------------------------------------------------------
USE ConstAssumption DEF NULL, Cells

LEMMA InitRInv ==
  ASSUME RecycledInc, Init
  PROVE  RInv
<1>1. Cardinality(Classes) \in Nat /\ Cardinality(Classes) <= MaxCells
  BY FS_CardinalityType DEF RecycledInc
<1>2. counterMap \in Shells /\ nalloc = Cardinality(Classes)
  BY DEF RecycledInc, Init
<1>3. \A k \in Classes : counterMap[k] \in 1..MaxCells
  BY <1>1, <1>2 DEF Shells
<1>4. TypeN
  <2>1. counterMap \in [Classes -> Cells \cup {NULL}] /\ nalloc \in 0..MaxCells
    BY <1>1, <1>2, <1>3 DEF Shells
  <2>2. cnt \in [Cells -> Nat] /\ added \in [Classes -> Nat]
    BY DEF Init
  <2>3. pc \in [Threads -> PCs] /\ cur \in [Threads -> Cells \cup {NULL}]
    BY DEF Init, PCs
  <2>4. tmp \in [Threads -> Nat] /\ ops \in [Threads -> 0..MaxOps]
    BY DEF Init
  <2>5. cls \in [Threads -> Classes] /\ op \in [Threads -> CountOps]
    BY DEF Init
  <2>6. QED
    BY <2>1, <2>2, <2>3, <2>4, <2>5 DEF TypeN
<1>5. MapFull
  BY <1>2 DEF Shells, MapFull
<1>6. WalkersHit
  BY DEF Init, WalkersHit
<1>7. Exact
  BY <1>3 DEF Init, Exact
<1>8. QED
  BY <1>4, <1>5, <1>6, <1>7 DEF RInv

\* A step that changes neither the map nor the counts keeps them exact.
LEMMA CountsKept ==
  ASSUME RInv, UNCHANGED <<counterMap, cnt, nalloc, added>>
  PROVE  MapFull' /\ Exact'
BY DEF RInv, MapFull, Exact

LEMMA BeginCountRInv ==
  ASSUME RecycledInc, RInv, NEW t \in Threads, NEW k \in Classes,
         NEW o \in CountOps, BeginCount(t, k, o)
  PROVE  RInv'
<1>1. TypeN'
  <2>1. ops' \in [Threads -> 0..MaxOps]
    BY DEF RInv, TypeN, BeginCount
  <2>2. pc' \in [Threads -> PCs]
    BY DEF RInv, TypeN, BeginCount, Goto, PCs
  <2>3. cls' \in [Threads -> Classes] /\ op' \in [Threads -> CountOps]
    BY DEF RInv, TypeN, BeginCount
  <2>4. QED
    BY <2>1, <2>2, <2>3 DEF RInv, TypeN, BeginCount
<1>2. WalkersHit'
  BY DEF RInv, TypeN, WalkersHit, BeginCount, Goto
<1>3. QED
  BY <1>1, <1>2, CountsKept DEF RInv, BeginCount

LEMMA FindClassRInv ==
  ASSUME RInv, NEW t \in Threads, FindClass(t)
  PROVE  RInv'
<1>1. counterMap[cls[t]] # NULL
  BY DEF RInv, TypeN, MapFull
<1>2. pc' = [pc EXCEPT ![t] = "count"]
  BY <1>1 DEF FindClass, Goto
<1>3. TypeN'
  BY <1>2 DEF RInv, TypeN, FindClass, PCs
<1>4. WalkersHit'
  BY <1>2 DEF RInv, TypeN, WalkersHit, FindClass
<1>5. QED
  BY <1>3, <1>4, CountsKept DEF RInv, FindClass

\* Inc adds the object to its class's counter and to no other class's.
LEMMA IncCounterRInv ==
  ASSUME RInv, NEW t \in Threads, IncCounter(t)
  PROVE  RInv'
<1>1. pc[t] = "count" /\ cls[t] \in Classes /\ cur[t] = counterMap[cls[t]]
  BY DEF IncCounter, RInv, TypeN, WalkersHit
<1>2. cur[t] \in Cells
  BY <1>1 DEF RInv, MapFull, TypeN
<1>3. TypeN'
  <2>1. cnt' \in [Cells -> Nat]
    BY <1>2 DEF RInv, TypeN, IncCounter
  <2>2. added' \in [Classes -> Nat]
    BY <1>1 DEF RInv, TypeN, IncCounter
  <2>3. pc' \in [Threads -> PCs]
    BY DEF RInv, TypeN, IncCounter, Goto, PCs
  <2>4. QED
    BY <2>1, <2>2, <2>3 DEF RInv, TypeN, IncCounter
<1>4. WalkersHit'
  BY DEF RInv, TypeN, WalkersHit, IncCounter, Goto
<1>5. MapFull'
  BY DEF RInv, MapFull, IncCounter
<1>6. Exact'
  <2>0. counterMap' = counterMap
    BY DEF IncCounter
  <2> SUFFICES ASSUME NEW k \in Classes PROVE added'[k] = cnt'[counterMap[k]]
    BY <2>0 DEF Exact
  <2>1. counterMap[k] \in Cells
    BY DEF RInv, MapFull, TypeN
  <2>2. CASE k = cls[t]
    BY <1>1, <1>2, <2>2 DEF RInv, Exact, TypeN, IncCounter
  <2>3. CASE k # cls[t]
    <3>1. counterMap[k] # cur[t]
      BY <1>1, <2>3 DEF RInv, MapFull
    <3>2. QED
      BY <1>1, <2>1, <2>3, <3>1 DEF RInv, Exact, TypeN, IncCounter
  <2>4. QED
    BY <2>2, <2>3
<1>7. QED
  BY <1>3, <1>4, <1>5, <1>6 DEF RInv

\* With the map full and Inc alone, no other step is enabled.
LEMMA NextRInv ==
  ASSUME RecycledInc, RInv, [Next]_vars
  PROVE  RInv'
<1>1. CASE \E t \in Threads, k \in Classes, o \in CountOps : BeginCount(t, k, o)
  BY <1>1, BeginCountRInv
<1>2. ASSUME NEW t \in Threads,
             PushCalloc(t) \/ PushCallocFail(t) \/ PushMemalign(t)
             \/ PushInsert(t) \/ AddWrite(t)
      PROVE  FALSE
  BY <1>2 DEF RInv, WalkersHit, PushCalloc, PushCallocFail, PushMemalign,
             PushInsert, AddWrite
<1>3. ASSUME NEW t \in Threads, AddRead(t) PROVE FALSE
  BY <1>3 DEF RecycledInc, RInv, TypeN, AddRead
<1>4. CASE \E t \in Threads :
             \/ FindClass(t) \/ PushCalloc(t) \/ PushCallocFail(t) \/ PushMemalign(t)
             \/ PushInsert(t) \/ IncCounter(t) \/ AddRead(t) \/ AddWrite(t)
  BY <1>2, <1>3, <1>4, FindClassRInv, IncCounterRInv
<1>5. CASE WalkDone \/ UNCHANGED vars
  <2>1. UNCHANGED vars
    BY <1>5 DEF WalkDone
  <2>2. QED
    BY <2>1 DEF vars, RInv, TypeN, MapFull, WalkersHit, Exact
<1>6. QED
  BY <1>1, <1>4, <1>5 DEF Next

LEMMA RInvCountsAdd == RInv => CountsAdd
BY DEF RInv, MapFull, Exact, CountsAdd

(***************************************************************************)
(* CountsAdd without Exclusive, on a container from the stock: however     *)
(* many walkers count objects of one class at once, with the atomic Inc    *)
(* each class's counter holds exactly the number of its objects counted,   *)
(* at every moment of the walk.                                            *)
(***************************************************************************)
THEOREM RecycledIncExact == RecycledInc => (Spec => []CountsAdd)
<1> SUFFICES ASSUME RecycledInc PROVE Spec => []CountsAdd
  OBVIOUS
<1>1. Init => RInv
  BY InitRInv
<1>2. RInv /\ [Next]_vars => RInv'
  BY NextRInv
<1>3. QED
  BY <1>1, <1>2, RInvCountsAdd, PTL DEF Spec

=============================================================================
