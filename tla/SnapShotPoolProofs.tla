------------------------- MODULE SnapShotPoolProofs -------------------------
(***************************************************************************)
(* Proofs about SnapShotPool for every number of threads, every stock      *)
(* capacity and every bound on containers and counts.                      *)
(***************************************************************************)
EXTENDS SnapShotPool, FiniteSetTheorems, TLAPS

(***************************************************************************)
(* The inductive invariant behind ClearedMeansEmpty and AcquireGetsCleared.*)
(* isCleared implies empty only because nobody counts into a container    *)
(* whose flag is still set: a thread that fills has cleared the flag of   *)
(* the container it holds, and no other thread, and no stock slot, holds  *)
(* that container at the same time.                                        *)
(***************************************************************************)
HeldIsIdleFree ==
  \A t \in Threads : (mine[t] = NULL) <=> (pc[t] = "idle")

HeldAllocated ==
  \A t \in Threads : mine[t] <= nalloc

FillingNotCleared ==
  \A t \in Threads : pc[t] = "filling" => ~isCleared[mine[t]]

HeldExclusive ==
  \A t, u \in Threads : t # u /\ mine[t] # NULL => mine[t] # mine[u]

StockCleared ==
  \A i \in 1..Len(stock) : stock[i] <= nalloc /\ isCleared[stock[i]]

StockDistinct ==
  \A i, j \in 1..Len(stock) : i # j => stock[i] # stock[j]

StockNotHeld ==
  \A i \in 1..Len(stock), t \in Threads : stock[i] # mine[t]

AllClearedEmpty ==
  \A c \in Containers : isCleared[c] => count[c] = 0 /\ ~offsets[c]

IInv ==
  /\ TypeOK
  /\ AllClearedEmpty
  /\ HeldIsIdleFree
  /\ HeldAllocated
  /\ FillingNotCleared
  /\ HeldExclusive
  /\ StockCleared
  /\ StockDistinct
  /\ StockNotHeld

-----------------------------------------------------------------------------
USE ConstAssumption DEF NULL, Containers

LEMMA InitIInv == Init => IInv
BY DEF Init, IInv, TypeOK, AllClearedEmpty, HeldIsIdleFree, HeldAllocated,
       FillingNotCleared, HeldExclusive, StockCleared, StockDistinct,
       StockNotHeld, Containers, NULL, Phases, PCs

(***************************************************************************)
(* A thread that is not idle holds an allocated container.                 *)
(***************************************************************************)
LEMMA HeldIsContainer ==
  ASSUME IInv, NEW t \in Threads, pc[t] # "idle"
  PROVE  mine[t] \in 1..nalloc /\ mine[t] \in Containers
BY DEF IInv, TypeOK, HeldIsIdleFree, HeldAllocated, Containers, NULL

LEMMA ForceClearIInv ==
  ASSUME IInv, NEW t \in Threads, ForceClear(t)
  PROVE  IInv'
<1> DEFINE c == mine[t]
<1>1. c \in Containers /\ pc[t] = "filling"
  BY HeldIsContainer DEF ForceClear
<1>2. /\ isCleared' = [isCleared EXCEPT ![c] = TRUE]
      /\ count' = [count EXCEPT ![c] = 0]
      /\ offsets' = [offsets EXCEPT ![c] = FALSE]
      /\ pc' = [pc EXCEPT ![t] = "fresh"]
      /\ UNCHANGED <<phase, stock, nalloc, mine>>
  BY DEF ForceClear, Clear, ClearChildClassCounters
<1>3. TypeOK'
  BY <1>1, <1>2 DEF IInv, TypeOK, PCs
<1>4. AllClearedEmpty'
  BY <1>1, <1>2 DEF IInv, TypeOK, AllClearedEmpty
<1>5. FillingNotCleared'
  BY <1>1, <1>2 DEF IInv, TypeOK, FillingNotCleared, HeldExclusive, HeldIsIdleFree, NULL
<1>6. (HeldIsIdleFree /\ HeldAllocated /\ HeldExclusive /\ StockDistinct /\ StockNotHeld)'
  BY <1>1, <1>2 DEF IInv, TypeOK, HeldIsIdleFree, HeldAllocated, HeldExclusive,
                    StockDistinct, StockNotHeld
<1>7. StockCleared'
  BY <1>1, <1>2 DEF IInv, TypeOK, StockCleared
<1>. QED
  BY <1>3, <1>4, <1>5, <1>6, <1>7 DEF IInv

LEMMA GlobalIInv ==
  ASSUME IInv, GlobalInitialize \/ GlobalFinalize \/ Stopped \/ UNCHANGED vars
  PROVE  IInv'
<1>1. CASE GlobalInitialize
  <2>1. UNCHANGED <<stock, nalloc, isCleared, count, offsets, pc, mine>>
        /\ phase' \in Phases
    BY <1>1 DEF GlobalInitialize, Phases
  <2>. QED
    BY <2>1 DEF IInv, TypeOK, AllClearedEmpty, HeldIsIdleFree, HeldAllocated,
                FillingNotCleared, HeldExclusive, StockCleared, StockDistinct,
                StockNotHeld
<1>2. CASE GlobalFinalize
  <2>1. UNCHANGED <<nalloc, isCleared, count, offsets, pc, mine>>
        /\ phase' \in Phases /\ stock' = <<>>
    BY <1>2 DEF GlobalFinalize, Phases
  <2>. QED
    BY <2>1 DEF IInv, TypeOK, AllClearedEmpty, HeldIsIdleFree, HeldAllocated,
                FillingNotCleared, HeldExclusive, StockCleared, StockDistinct,
                StockNotHeld
<1>3. CASE Stopped \/ UNCHANGED vars
  <2>1. UNCHANGED vars
    BY <1>3 DEF Stopped
  <2>. QED
    BY <2>1 DEF vars, IInv, TypeOK, AllClearedEmpty, HeldIsIdleFree, HeldAllocated,
                FillingNotCleared, HeldExclusive, StockCleared, StockDistinct,
                StockNotHeld
<1>. QED
  BY <1>1, <1>2, <1>3

LEMMA GetFromStockIInv ==
  ASSUME IInv, NEW t \in Threads, GetFromStock(t)
  PROVE  IInv'
<1> DEFINE c == Head(stock)
<1>1. /\ stock # <<>> /\ pc[t] = "idle" /\ mine[t] = NULL
      /\ c = stock[1] /\ c \in 1..nalloc /\ isCleared[c]
  BY DEF GetFromStock, IInv, TypeOK, StockCleared, HeldIsIdleFree, Containers
<1>2. /\ mine' = [mine EXCEPT ![t] = c]
      /\ stock' = Tail(stock)
      /\ pc' = [pc EXCEPT ![t] = "fresh"]
      /\ UNCHANGED <<phase, nalloc, isCleared, count, offsets>>
  BY DEF GetFromStock
<1>3. /\ Len(stock') = Len(stock) - 1
      /\ \A i \in 1..Len(stock') : stock'[i] = stock[i + 1]
  BY <1>1, <1>2 DEF IInv, TypeOK
<1>4. TypeOK'
  BY <1>1, <1>2 DEF IInv, TypeOK, PCs, Containers
<1>5. (AllClearedEmpty /\ FillingNotCleared /\ HeldIsIdleFree /\ HeldAllocated)'
  BY <1>1, <1>2 DEF IInv, TypeOK, AllClearedEmpty, FillingNotCleared,
                    HeldIsIdleFree, HeldAllocated, NULL
<1>6. \A u \in Threads : mine[u] # c
  <2>1. 1 \in 1..Len(stock)
    BY <1>1 DEF IInv, TypeOK
  <2>. QED
    BY <2>1, <1>1 DEF IInv, StockNotHeld
<1>7. HeldExclusive'
  BY <1>1, <1>2, <1>6 DEF IInv, TypeOK, HeldExclusive
<1>10. \A i \in 1..Len(stock') : i + 1 \in 1..Len(stock)
  BY <1>1, <1>3 DEF IInv, TypeOK
<1>11. StockCleared'
  BY <1>2, <1>3, <1>10 DEF IInv, StockCleared
<1>12. StockDistinct'
  BY <1>3, <1>10 DEF IInv, StockDistinct
<1>8. (StockCleared /\ StockDistinct)'
  BY <1>11, <1>12
<1>9. StockNotHeld'
  BY <1>1, <1>2, <1>3 DEF IInv, TypeOK, StockNotHeld, StockDistinct
<1>. QED
  BY <1>4, <1>5, <1>7, <1>8, <1>9 DEF IInv

LEMMA GetNewIInv ==
  ASSUME IInv, NEW t \in Threads, GetNew(t)
  PROVE  IInv'
<1> DEFINE n == nalloc + 1
<1>1. /\ pc[t] = "idle" /\ stock = <<>> /\ n \in Containers
      /\ \A u \in Threads : mine[u] < n
  BY DEF GetNew, IInv, TypeOK, HeldAllocated, Containers
<1>2. /\ nalloc' = n
      /\ isCleared' = [isCleared EXCEPT ![n] = TRUE]
      /\ count' = [count EXCEPT ![n] = 0]
      /\ offsets' = [offsets EXCEPT ![n] = FALSE]
      /\ mine' = [mine EXCEPT ![t] = n]
      /\ pc' = [pc EXCEPT ![t] = "fresh"]
      /\ UNCHANGED <<phase, stock>>
  BY DEF GetNew
<1>3. TypeOK'
  BY <1>1, <1>2 DEF IInv, TypeOK, PCs, Containers
<1>4. (AllClearedEmpty /\ HeldIsIdleFree /\ HeldAllocated)'
  BY <1>1, <1>2 DEF IInv, TypeOK, AllClearedEmpty, HeldIsIdleFree, HeldAllocated, NULL
<1>5. FillingNotCleared'
  BY <1>1, <1>2 DEF IInv, TypeOK, FillingNotCleared
<1>6. HeldExclusive'
  BY <1>1, <1>2 DEF IInv, TypeOK, HeldExclusive
<1>7. (StockCleared /\ StockDistinct /\ StockNotHeld)'
  BY <1>1, <1>2 DEF StockCleared, StockDistinct, StockNotHeld
<1>. QED
  BY <1>3, <1>4, <1>5, <1>6, <1>7 DEF IInv

LEMMA SetIsClearedIInv ==
  ASSUME IInv, NEW t \in Threads, SetIsCleared(t)
  PROVE  IInv'
<1> DEFINE c == mine[t]
<1>1. c \in Containers /\ pc[t] = "fresh"
  BY HeldIsContainer DEF SetIsCleared
<1>2. /\ isCleared' = [isCleared EXCEPT ![c] = FALSE]
      /\ pc' = [pc EXCEPT ![t] = "filling"]
      /\ UNCHANGED <<phase, stock, nalloc, count, offsets, mine>>
  BY DEF SetIsCleared
<1>3. TypeOK'
  BY <1>1, <1>2 DEF IInv, TypeOK, PCs
<1>4. (AllClearedEmpty /\ HeldIsIdleFree /\ HeldAllocated /\ HeldExclusive)'
  BY <1>1, <1>2 DEF IInv, TypeOK, AllClearedEmpty, HeldIsIdleFree, HeldAllocated,
                    HeldExclusive
<1>5. FillingNotCleared'
  BY <1>1, <1>2 DEF IInv, TypeOK, FillingNotCleared
<1>6. StockCleared'
  BY <1>1, <1>2 DEF IInv, TypeOK, StockCleared, StockNotHeld
<1>7. (StockDistinct /\ StockNotHeld)'
  BY <1>2 DEF IInv, StockDistinct, StockNotHeld
<1>. QED
  BY <1>3, <1>4, <1>5, <1>6, <1>7 DEF IInv

LEMMA FillIIinv ==
  ASSUME IInv, NEW t \in Threads, Inc(t) \/ CacheOffsets(t)
  PROVE  IInv'
<1> DEFINE c == mine[t]
<1>1. c \in Containers /\ pc[t] = "filling" /\ ~isCleared[c]
  BY HeldIsContainer DEF Inc, CacheOffsets, IInv, FillingNotCleared
<1>2. /\ \/ count' = [count EXCEPT ![c] = @ + 1] /\ count[c] < MaxCount
           /\ UNCHANGED offsets
         \/ offsets' = [offsets EXCEPT ![c] = TRUE] /\ UNCHANGED count
      /\ UNCHANGED <<phase, stock, nalloc, isCleared, pc, mine>>
  BY DEF Inc, CacheOffsets
<1>3. (TypeOK /\ AllClearedEmpty)'
  <2>1. CASE count' = [count EXCEPT ![c] = @ + 1] /\ count[c] < MaxCount
             /\ UNCHANGED offsets
    <3>1. count' \in [Containers -> 0..MaxCount]
      BY <1>1, <2>1 DEF IInv, TypeOK
    <3>. QED
      BY <1>1, <1>2, <2>1, <3>1 DEF IInv, TypeOK, AllClearedEmpty
  <2>2. CASE offsets' = [offsets EXCEPT ![c] = TRUE] /\ UNCHANGED count
    BY <1>1, <1>2, <2>2 DEF IInv, TypeOK, AllClearedEmpty
  <2>. QED
    BY <1>2, <2>1, <2>2
<1>4. (HeldIsIdleFree /\ HeldAllocated /\ FillingNotCleared /\ HeldExclusive
       /\ StockCleared /\ StockDistinct /\ StockNotHeld)'
  BY <1>2 DEF IInv, HeldIsIdleFree, HeldAllocated, FillingNotCleared, HeldExclusive,
              StockCleared, StockDistinct, StockNotHeld
<1>. QED
  BY <1>3, <1>4 DEF IInv

LEMMA ReleaseCheckIInv ==
  ASSUME IInv, NEW t \in Threads, ReleaseCheck(t)
  PROVE  IInv'
<1>1. /\ pc[t] \in {"fresh", "filling"}
      /\ \/ pc' = [pc EXCEPT ![t] = "store"] /\ UNCHANGED mine
         \/ pc' = [pc EXCEPT ![t] = "idle"] /\ mine' = [mine EXCEPT ![t] = NULL]
      /\ UNCHANGED <<phase, stock, nalloc, isCleared, count, offsets>>
  BY DEF ReleaseCheck
<1>2. CASE pc' = [pc EXCEPT ![t] = "store"] /\ UNCHANGED mine
  <2>1. TypeOK'
    BY <1>1, <1>2 DEF IInv, TypeOK, PCs
  <2>2. (AllClearedEmpty /\ HeldIsIdleFree /\ HeldAllocated /\ FillingNotCleared)'
    BY <1>1, <1>2 DEF IInv, TypeOK, AllClearedEmpty, HeldIsIdleFree, HeldAllocated,
                      FillingNotCleared
  <2>3. (HeldExclusive /\ StockCleared /\ StockDistinct /\ StockNotHeld)'
    BY <1>1, <1>2 DEF IInv, HeldExclusive, StockCleared, StockDistinct, StockNotHeld
  <2>. QED
    BY <2>1, <2>2, <2>3 DEF IInv
<1>3. CASE pc' = [pc EXCEPT ![t] = "idle"] /\ mine' = [mine EXCEPT ![t] = NULL]
  <2>1. TypeOK'
    BY <1>1, <1>3 DEF IInv, TypeOK, PCs
  <2>2. (AllClearedEmpty /\ HeldIsIdleFree /\ HeldAllocated)'
    BY <1>1, <1>3 DEF IInv, TypeOK, AllClearedEmpty, HeldIsIdleFree, HeldAllocated
  <2>3. FillingNotCleared'
    BY <1>1, <1>3 DEF IInv, TypeOK, FillingNotCleared
  <2>4. HeldExclusive'
    BY <1>1, <1>3 DEF IInv, TypeOK, HeldExclusive
  <2>5. (StockCleared /\ StockDistinct)'
    BY <1>1 DEF IInv, StockCleared, StockDistinct
  <2>6. StockNotHeld'
    BY <1>1, <1>3 DEF IInv, TypeOK, StockNotHeld
  <2>. QED
    BY <2>1, <2>2, <2>3, <2>4, <2>5, <2>6 DEF IInv
<1>. QED
  BY <1>1, <1>2, <1>3

(***************************************************************************)
(* clear(false) on a held container leaves it cleared and empty, whether   *)
(* or not it was already cleared.                                          *)
(***************************************************************************)
LEMMA ClearFalse ==
  ASSUME IInv, NEW c \in Containers, Clear(c, FALSE)
  PROVE  /\ isCleared' = [isCleared EXCEPT ![c] = TRUE]
         /\ \A d \in Containers :
              d # c => count'[d] = count[d] /\ offsets'[d] = offsets[d]
         /\ count'[c] = 0 /\ ~offsets'[c]
         /\ count' \in [Containers -> 0..MaxCount]
         /\ offsets' \in [Containers -> BOOLEAN]
<1>1. CASE isCleared[c]
  BY <1>1 DEF Clear, ClearChildClassCounters, IInv, TypeOK, AllClearedEmpty
<1>2. CASE ~isCleared[c]
  <2>1. /\ count' = [count EXCEPT ![c] = 0]
        /\ offsets' = [offsets EXCEPT ![c] = FALSE]
        /\ isCleared' = [isCleared EXCEPT ![c] = TRUE]
    BY <1>2 DEF Clear, ClearChildClassCounters
  <2>. QED
    BY <2>1 DEF IInv, TypeOK
<1>. QED
  BY <1>1, <1>2

LEMMA ReleaseStoreIInv ==
  ASSUME IInv, NEW t \in Threads, ReleaseStore(t) \/ ReleasePushFail(t)
  PROVE  IInv'
<1> DEFINE c == mine[t]
<1>1. c \in Containers /\ pc[t] = "store" /\ c \in 1..nalloc
  BY HeldIsContainer DEF ReleaseStore, ReleasePushFail
<1>2. Clear(c, FALSE)
  BY DEF ReleaseStore, ReleasePushFail
<1>3. /\ isCleared' = [isCleared EXCEPT ![c] = TRUE]
      /\ \A d \in Containers :
           d # c => count'[d] = count[d] /\ offsets'[d] = offsets[d]
      /\ count'[c] = 0 /\ ~offsets'[c]
      /\ count' \in [Containers -> 0..MaxCount]
      /\ offsets' \in [Containers -> BOOLEAN]
  BY <1>1, <1>2, ClearFalse
<1>4. /\ \/ stock' = Append(stock, c)
         \/ stock' = stock
      /\ pc' = [pc EXCEPT ![t] = "idle"]
      /\ mine' = [mine EXCEPT ![t] = NULL]
      /\ UNCHANGED <<phase, nalloc>>
  BY DEF ReleaseStore, ReleasePushFail
<1>5. \A i \in 1..Len(stock) : stock[i] # c
  BY DEF IInv, StockNotHeld
<1>6. (pc \in [Threads -> PCs] /\ mine \in [Threads -> Containers \cup {NULL}])'
  BY <1>4 DEF IInv, TypeOK, PCs
<1>7. AllClearedEmpty'
  BY <1>1, <1>3 DEF IInv, TypeOK, AllClearedEmpty
<1>8. (HeldIsIdleFree /\ HeldAllocated /\ FillingNotCleared /\ HeldExclusive)'
  BY <1>1, <1>3, <1>4 DEF IInv, TypeOK, HeldIsIdleFree, HeldAllocated,
                          FillingNotCleared, HeldExclusive
<1>9. CASE stock' = stock
  <2>1. TypeOK'
    BY <1>3, <1>4, <1>6, <1>9 DEF IInv, TypeOK
  <2>2. StockCleared'
    <3> SUFFICES ASSUME NEW i \in 1..Len(stock)
                 PROVE  stock[i] <= nalloc' /\ isCleared'[stock[i]]
      BY <1>9 DEF StockCleared
    <3>1. stock[i] \in Containers /\ stock[i] # c
      BY <1>5 DEF IInv, TypeOK
    <3>2. stock[i] <= nalloc /\ isCleared[stock[i]]
      BY DEF IInv, StockCleared
    <3>. QED
      BY <1>3, <1>4, <3>1, <3>2 DEF IInv, TypeOK
  <2>3. StockDistinct'
    BY <1>9 DEF IInv, StockDistinct
  <2>4. StockNotHeld'
    BY <1>4, <1>5, <1>9 DEF IInv, TypeOK, StockNotHeld
  <2>. QED
    BY <1>7, <1>8, <2>1, <2>2, <2>3, <2>4 DEF IInv
<1>10. CASE stock' = Append(stock, c)
  <2>1. /\ stock' \in Seq(Containers)
        /\ Len(stock') = Len(stock) + 1
        /\ \A i \in 1..Len(stock) : stock'[i] = stock[i]
        /\ stock'[Len(stock) + 1] = c
    BY <1>1, <1>10 DEF IInv, TypeOK
  <2>2. TypeOK'
    BY <1>3, <1>4, <1>6, <2>1 DEF IInv, TypeOK
  <2>3. \A i \in 1..Len(stock') : i = Len(stock) + 1 \/ i \in 1..Len(stock)
    BY <2>1 DEF IInv, TypeOK
  <2>4. StockCleared'
    <3> SUFFICES ASSUME NEW i \in 1..Len(stock')
                 PROVE  stock'[i] <= nalloc' /\ isCleared'[stock'[i]]
      BY DEF StockCleared
    <3>1. CASE i = Len(stock) + 1
      BY <1>1, <1>3, <1>4, <2>1, <3>1 DEF IInv, TypeOK
    <3>2. CASE i \in 1..Len(stock)
      <4>1. stock[i] \in Containers /\ stock[i] # c
        BY <1>5, <3>2 DEF IInv, TypeOK
      <4>2. stock[i] <= nalloc /\ isCleared[stock[i]]
        BY <3>2 DEF IInv, StockCleared
      <4>. QED
        BY <1>3, <1>4, <2>1, <3>2, <4>1, <4>2 DEF IInv, TypeOK
    <3>. QED
      BY <2>3, <3>1, <3>2
  <2>5. StockDistinct'
    <3> SUFFICES ASSUME NEW i \in 1..Len(stock'), NEW j \in 1..Len(stock'), i # j
                 PROVE  stock'[i] # stock'[j]
      BY DEF StockDistinct
    <3>1. CASE i \in 1..Len(stock) /\ j \in 1..Len(stock)
      BY <2>1, <3>1 DEF IInv, StockDistinct
    <3>2. CASE i \in 1..Len(stock) /\ j = Len(stock) + 1
      BY <1>5, <2>1, <3>2
    <3>3. CASE i = Len(stock) + 1 /\ j \in 1..Len(stock)
      BY <1>5, <2>1, <3>3
    <3>. QED
      BY <2>3, <3>1, <3>2, <3>3 DEF IInv, TypeOK
  <2>6. StockNotHeld'
    <3> SUFFICES ASSUME NEW i \in 1..Len(stock'), NEW u \in Threads
                 PROVE  stock'[i] # mine'[u]
      BY DEF StockNotHeld
    <3>1. CASE u = t
      <4>1. mine'[u] = NULL
        BY <1>4, <3>1 DEF IInv, TypeOK
      <4>2. stock'[i] \in Containers
        BY <2>1
      <4>. QED
        BY <4>1, <4>2
    <3>2. CASE u # t
      <4>1. mine'[u] = mine[u] /\ mine[u] # c
        BY <1>1, <1>4, <3>2 DEF IInv, TypeOK, HeldExclusive
      <4>2. CASE i = Len(stock) + 1
        BY <2>1, <4>1, <4>2
      <4>3. CASE i \in 1..Len(stock)
        BY <2>1, <4>1, <4>3 DEF IInv, StockNotHeld
      <4>. QED
        BY <2>3, <4>2, <4>3
    <3>. QED
      BY <3>1, <3>2
  <2>. QED
    BY <1>7, <1>8, <2>2, <2>4, <2>5, <2>6 DEF IInv
<1>. QED
  BY <1>4, <1>9, <1>10

LEMMA NextIInv == IInv /\ [Next]_vars => IInv'
<1> SUFFICES ASSUME IInv, [Next]_vars PROVE IInv'
  OBVIOUS
<1>1. CASE GlobalInitialize \/ GlobalFinalize \/ Stopped \/ UNCHANGED vars
  BY <1>1, GlobalIInv
<1>2. CASE \E t \in Threads :
             \/ GetFromStock(t) \/ GetNew(t) \/ SetIsCleared(t) \/ Inc(t)
             \/ CacheOffsets(t) \/ ForceClear(t)
             \/ ReleaseCheck(t) \/ ReleaseStore(t) \/ ReleasePushFail(t)
  <2> PICK t \in Threads :
             \/ GetFromStock(t) \/ GetNew(t) \/ SetIsCleared(t) \/ Inc(t)
             \/ CacheOffsets(t) \/ ForceClear(t)
             \/ ReleaseCheck(t) \/ ReleaseStore(t) \/ ReleasePushFail(t)
    BY <1>2
  <2>. QED
    BY GetFromStockIInv, GetNewIInv, SetIsClearedIInv, FillIIinv, ForceClearIInv,
       ReleaseCheckIInv, ReleaseStoreIInv
<1>. QED
  BY <1>1, <1>2 DEF Next

(***************************************************************************)
(* The inductive invariant holds in every reachable state of the pool.     *)
(***************************************************************************)
THEOREM IInvariant == Spec => []IInv
BY InitIInv, NextIInv, PTL DEF Spec

(***************************************************************************)
(* Type correctness of the container pool: getInstance, releaseInstance,   *)
(* clear and the counters keep every variable in its type, whatever the    *)
(* number of threads and the stock capacity.                               *)
(***************************************************************************)
THEOREM TypeCorrect == Spec => []TypeOK
<1>1. IInv => TypeOK
  BY DEF IInv
<1>. QED
  BY <1>1, IInvariant, PTL

(***************************************************************************)
(* ClearedMeansEmpty for every instance: the isCleared flag that lets      *)
(* clear(false) return early is never set on a container that still holds *)
(* counts or an offsets cache.                                             *)
(***************************************************************************)
THEOREM ClearedEmptyInvariant == Spec => []ClearedMeansEmpty
<1>1. IInv => ClearedMeansEmpty
  BY DEF IInv, TypeOK, AllClearedEmpty, ClearedMeansEmpty
<1>. QED
  BY <1>1, IInvariant, PTL

(***************************************************************************)
(* The step half of AcquireGetsCleared: a thread that goes from idle to    *)
(* holding a container did so through getInstance, and what it got is     *)
(* cleared and empty.                                                      *)
(***************************************************************************)
AcquireStep ==
  \A t \in Threads :
    pc[t] = "idle" /\ pc'[t] = "fresh" =>
      isCleared'[mine'[t]] /\ count'[mine'[t]] = 0 /\ ~offsets'[mine'[t]]

LEMMA AcquireStepHolds == IInv /\ [Next]_vars => [AcquireStep]_vars
<1> SUFFICES ASSUME IInv, [Next]_vars, NEW t \in Threads,
                    pc[t] = "idle", pc'[t] = "fresh"
             PROVE  isCleared'[mine'[t]] /\ count'[mine'[t]] = 0 /\ ~offsets'[mine'[t]]
  BY DEF AcquireStep
<1>1. CASE GlobalInitialize \/ GlobalFinalize \/ Stopped \/ UNCHANGED vars
  BY <1>1 DEF GlobalInitialize, GlobalFinalize, Stopped, vars
<1>2. CASE \E u \in Threads :
             \/ GetFromStock(u) \/ GetNew(u) \/ SetIsCleared(u) \/ Inc(u)
             \/ CacheOffsets(u) \/ ForceClear(u)
             \/ ReleaseCheck(u) \/ ReleaseStore(u) \/ ReleasePushFail(u)
  <2> PICK u \in Threads :
             \/ GetFromStock(u) \/ GetNew(u) \/ SetIsCleared(u) \/ Inc(u)
             \/ CacheOffsets(u) \/ ForceClear(u)
             \/ ReleaseCheck(u) \/ ReleaseStore(u) \/ ReleasePushFail(u)
    BY <1>2
  <2>1. CASE GetFromStock(u)
    <3>1. u = t
      BY <2>1 DEF GetFromStock, IInv, TypeOK
    <3>2. 1 \in 1..Len(stock)
      BY <2>1 DEF GetFromStock, IInv, TypeOK
    <3>3. mine'[t] = stock[1] /\ stock[1] \in Containers /\ isCleared[stock[1]]
      BY <2>1, <3>1, <3>2 DEF GetFromStock, IInv, TypeOK, StockCleared
    <3>. QED
      BY <2>1, <3>3 DEF GetFromStock, IInv, AllClearedEmpty
  <2>2. CASE GetNew(u)
    <3>1. u = t
      BY <2>2 DEF GetNew, IInv, TypeOK
    <3>. QED
      BY <2>2, <3>1 DEF GetNew, IInv, TypeOK
  <2>3. CASE SetIsCleared(u) \/ Inc(u) \/ CacheOffsets(u) \/ ForceClear(u)
    <3>1. pc'[t] = pc[t]
      BY <2>3 DEF SetIsCleared, Inc, CacheOffsets, ForceClear, IInv, TypeOK
    <3>. QED
      BY <3>1
  <2>4. CASE ReleaseCheck(u) \/ ReleaseStore(u) \/ ReleasePushFail(u)
    <3>1. pc'[t] # "fresh"
      BY <2>4 DEF ReleaseCheck, ReleaseStore, ReleasePushFail, IInv, TypeOK
    <3>. QED
      BY <3>1
  <2>. QED
    BY <2>1, <2>2, <2>3, <2>4
<1>. QED
  BY <1>1, <1>2 DEF Next

(***************************************************************************)
(* AcquireGetsCleared for every instance: getInstance, from the stock or   *)
(* by constructing a container, never hands out one with counts left from *)
(* an earlier snapshot.                                                    *)
(***************************************************************************)
THEOREM AcquireCleared == Spec => AcquireGetsCleared
BY IInvariant, AcquireStepHolds, PTL DEF Spec, AcquireGetsCleared, AcquireStep

-----------------------------------------------------------------------------
(***************************************************************************)
(* LiveBound.  It is inductive together with IInv: the stock only grows by *)
(* a container a thread gives up (ReleaseStore moves it from Holders to    *)
(* the stock), and getInstance constructs a container only when the stock  *)
(* is empty and for an idle thread, which is not yet in Holders.           *)
(***************************************************************************)
LEMMA HoldersCard ==
  ASSUME NEW H \in SUBSET Threads
  PROVE  IsFiniteSet(H) /\ Cardinality(H) \in Nat /\ Cardinality(H) <= Cardinality(Threads)
BY FS_Subset, FS_CardinalityType

\* A thread joins Holders: the set grows by one.
LEMMA HoldersAdd ==
  ASSUME NEW H \in SUBSET Threads, NEW t \in Threads, t \notin H
  PROVE  Cardinality(H \cup {t}) = Cardinality(H) + 1
BY HoldersCard, FS_AddElement

\* A thread leaves Holders, or was not in it.
LEMMA HoldersRemove ==
  ASSUME NEW H \in SUBSET Threads, NEW t \in Threads
  PROVE  Cardinality(H \ {t}) <= Cardinality(H)
BY HoldersCard, FS_RemoveElement

LEMMA InitLiveBound == Init => LiveBound
<1> SUFFICES ASSUME Init PROVE LiveBound
  OBVIOUS
<1>1. Holders = {}
  BY DEF Init, Holders
<1>2. QED
  BY <1>1, HoldersCard, FS_EmptySet DEF Init, LiveBound

LEMMA LiveStep ==
  ASSUME IInv, LiveBound, [Next]_vars
  PROVE  LiveBound'
<1> DEFINE H == Holders
<1>0. H \in SUBSET Threads /\ Len(stock) \in Nat
  BY DEF Holders, IInv, TypeOK
<1>1. CASE UNCHANGED <<stock, mine>>
  <2>1. Holders' = H
    BY <1>1 DEF Holders
  <2>2. QED
    BY <1>1, <2>1 DEF LiveBound
<1>2. CASE GlobalFinalize
  <2>1. Holders' = H /\ stock' = <<>>
    BY <1>2 DEF GlobalFinalize, Holders
  <2>2. QED
    BY <1>0, <2>1, HoldersCard DEF LiveBound
<1>3. ASSUME NEW t \in Threads, GetFromStock(t) PROVE LiveBound'
  <2>1. t \notin H
    BY <1>3 DEF GetFromStock, IInv, HeldIsIdleFree, Holders
  <2>2. Head(stock) # NULL /\ Len(stock') = Len(stock) - 1 /\ Len(stock) > 0
    BY <1>3 DEF GetFromStock, IInv, TypeOK
  <2>3. Holders' = H \cup {t}
    BY <1>3, <2>2 DEF GetFromStock, Holders, IInv, TypeOK
  <2>4. Cardinality(Holders') = Cardinality(H) + 1
    BY <1>0, <2>1, <2>3, HoldersAdd
  <2>5. Cardinality(H) \in Nat /\ Cardinality(Threads) \in Nat
    BY <1>0, HoldersCard, FS_CardinalityType
  <2>6. QED
    BY <2>2, <2>4, <2>5 DEF LiveBound
<1>4. ASSUME NEW t \in Threads, GetNew(t) PROVE LiveBound'
  <2>1. t \notin H
    BY <1>4 DEF GetNew, IInv, HeldIsIdleFree, Holders
  <2>2. H \in SUBSET (Threads \ {t})
    BY <1>0, <2>1
  <2>3. Cardinality(H) <= Cardinality(Threads) - 1
    <3>1. IsFiniteSet(Threads \ {t}) /\ Cardinality(Threads \ {t}) = Cardinality(Threads) - 1
      BY FS_RemoveElement
    <3>2. QED
      BY <2>2, <3>1, FS_Subset
  <2>4. Holders' = H \cup {t} /\ stock' = <<>>
    BY <1>4 DEF GetNew, Holders, IInv, TypeOK
  <2>5. Cardinality(Holders') = Cardinality(H) + 1
    BY <1>0, <2>1, <2>4, HoldersAdd
  <2>6. Cardinality(H) \in Nat /\ Cardinality(Threads) \in Nat
    BY <1>0, HoldersCard, FS_CardinalityType
  <2>7. QED
    BY <2>3, <2>4, <2>5, <2>6 DEF LiveBound
<1>5. ASSUME NEW t \in Threads, mine' = [mine EXCEPT ![t] = NULL],
             UNCHANGED stock
      PROVE  LiveBound'
  <2>1. Holders' = H \ {t}
    BY <1>5 DEF Holders, IInv, TypeOK
  <2>2. QED
    BY <1>0, <1>5, <2>1, HoldersRemove, HoldersCard DEF LiveBound
<1>6. ASSUME NEW t \in Threads, ReleaseStore(t) PROVE LiveBound'
  <2>1. t \in H
    BY <1>6 DEF ReleaseStore, IInv, HeldIsIdleFree, Holders
  <2>2. Holders' = H \ {t} /\ Len(stock') = Len(stock) + 1
    BY <1>6 DEF ReleaseStore, Holders, IInv, TypeOK
  <2>3. Cardinality(H \ {t}) = Cardinality(H) - 1
    BY <1>0, <2>1, HoldersCard, FS_RemoveElement
  <2>4. QED
    BY <1>0, <2>2, <2>3, HoldersCard DEF LiveBound
<1>7. ASSUME NEW t \in Threads, ReleaseCheck(t) PROVE LiveBound'
  <2>1. CASE Len(stock) < MAX_STOCK_COUNT
    BY <1>1, <1>7, <2>1 DEF ReleaseCheck
  <2>2. CASE ~(Len(stock) < MAX_STOCK_COUNT)
    BY <1>5, <1>7, <2>2 DEF ReleaseCheck
  <2>3. QED
    BY <2>1, <2>2
<1>8. QED
  <2>1. ASSUME NEW t \in Threads,
               SetIsCleared(t) \/ Inc(t) \/ CacheOffsets(t) \/ ForceClear(t)
        PROVE  LiveBound'
    BY <1>1, <2>1 DEF SetIsCleared, Inc, CacheOffsets, ForceClear
  <2>2. ASSUME NEW t \in Threads, ReleasePushFail(t) PROVE LiveBound'
    BY <1>5, <2>2 DEF ReleasePushFail
  <2>3. CASE GlobalInitialize \/ Stopped \/ UNCHANGED vars
    BY <1>1, <2>3 DEF GlobalInitialize, Stopped, vars
  <2>4. QED
    BY <1>2, <1>3, <1>4, <1>6, <1>7, <2>1, <2>2, <2>3 DEF Next

(***************************************************************************)
(* LiveBound for every number of threads and every stock capacity: however *)
(* many threads race releaseInstance's size check past a full stock, the   *)
(* containers in the stock and in the threads' hands together never        *)
(* outnumber the threads.                                                  *)
(***************************************************************************)
THEOREM LiveBoundInvariant == Spec => []LiveBound
<1>1. Init => IInv /\ LiveBound
  BY InitIInv, InitLiveBound
<1>2. IInv /\ LiveBound /\ [Next]_vars => (IInv /\ LiveBound)'
  BY NextIInv, LiveStep
<1>3. QED
  BY <1>1, <1>2, PTL DEF Spec

=============================================================================
