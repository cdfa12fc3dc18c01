------------------------- MODULE ChildClassListProofs -------------------------
(***************************************************************************)
(* Proofs about the child-class list that hold whether or not walkers are *)
(* partitioned: the spin lock of pushNewChildClass admits one thread at a  *)
(* time, and every variable keeps its type.  A walker's local pointers are *)
(* read from `child' and `next', so they are only known to be nodes where  *)
(* the code has tested them against NULL; the invariant records where.     *)
(***************************************************************************)
EXTENDS ChildClassList, TLAPS

\* The statements of pushNewChildClass between spinLockWait and
\* spinLockRelease.
Critical == {"head", "sethead", "tail", "settail", "unlock"}

(***************************************************************************)
(* LockExclusive: at most one walker is inside pushNewChildClass's         *)
(* critical section, and the spin lock is taken exactly when one is.       *)
(***************************************************************************)
LockExclusive ==
  /\ \A t, u \in Threads : pc[t] \in Critical /\ pc[u] \in Critical => t = u
  /\ spinlock = 1 <=> \E t \in Threads : pc[t] \in Critical

\* Where the code has tested a local pointer against NULL.
LocalOK(t) ==
    /\ pc[t] \in {"scan", "hit", "unlink", "relink", "swap"} => counter[t] \in Nodes
    /\ pc[t] \in {"unlink", "relink", "swap"} => prevCounter[t] \in Nodes
    /\ pc[t] \in {"tail", "settail"} => counter[t] \in Nodes
    /\ pc[t] \in {"lock"} \cup Critical => newCounter[t] \in Nodes
    /\ pc[t] # "idle" => lookups[t] < MaxLookups

LocalsNonNull == \A t \in Threads : LocalOK(t)

IInv == TypeOK /\ LocalsNonNull /\ LockExclusive

-----------------------------------------------------------------------------
USE ConstAssumption DEF NULL, Nodes, Ptr

LEMMA InitIInv == Init => IInv
BY DEF Init, IInv, TypeOK, LocalsNonNull, LocalOK, LockExclusive, Goto, Finish, listVars, Critical, PCs

LEMMA GotoType ==
  ASSUME TypeOK, NEW t \in Threads, NEW l \in PCs, Goto(t, l)
  PROVE  pc' \in [Threads -> PCs]
BY DEF TypeOK, Goto

LEMMA FinishType ==
  ASSUME TypeOK, NEW t \in Threads, lookups[t] < MaxLookups, Finish(t)
  PROVE  /\ pc' \in [Threads -> PCs]
         /\ lookups' \in [Threads -> 0..MaxLookups]
BY DEF TypeOK, Finish, PCs

LEMMA BeginLookupIInv ==
  ASSUME IInv, NEW t \in Threads, NEW c \in Classes, BeginLookup(t, c)
  PROVE  IInv'
<1>0. /\ TypeOK /\ LocalOK(t) /\ LockExclusive
  BY DEF IInv, LocalsNonNull
<1>1. UNCHANGED <<child, next, objData, callCount, spinlock, nalloc, linked, counter, prevCounter, morePrevCounter, newCounter, lookups>>
  BY DEF BeginLookup, listVars
<1>2. TypeOK'
  <2>1. pc' \in [Threads -> PCs]
    BY <1>0, GotoType DEF BeginLookup, LocalOK, PCs
  <2>2. want' \in [Threads -> Classes]
    BY <1>0 DEF BeginLookup, TypeOK, LocalOK
  <2>3. QED
    BY <1>0, <1>1, <2>1, <2>2 DEF TypeOK
<1>3. LocalsNonNull'
  <2> SUFFICES ASSUME NEW u \in Threads PROVE LocalOK(u)'
    BY DEF LocalsNonNull
  <2>1. CASE u = t
    BY <1>0, <1>1, <2>1 DEF BeginLookup, TypeOK, LocalOK, Goto, Finish, Critical
  <2>2. CASE u # t
    BY <1>1, <2>2 DEF BeginLookup, IInv, TypeOK, LocalsNonNull, LocalOK, Goto, Finish, Critical
  <2>3. QED
    BY <2>1, <2>2
<1>4. LockExclusive'
  BY <1>0, <1>1 DEF BeginLookup, TypeOK, LockExclusive, Goto, Finish, Critical
<1>5. QED
  BY <1>2, <1>3, <1>4 DEF IInv

LEMMA FindStartIInv ==
  ASSUME IInv, NEW t \in Threads, FindStart(t)
  PROVE  IInv'
<1>0. /\ TypeOK /\ LocalOK(t) /\ LockExclusive
  BY DEF IInv, LocalsNonNull
<1>1. UNCHANGED <<child, next, objData, callCount, spinlock, nalloc, linked, want, newCounter, lookups>>
  BY DEF FindStart, listVars
<1>2. TypeOK'
  <2>1. pc' \in [Threads -> PCs]
    BY <1>0, GotoType DEF FindStart, LocalOK, PCs
  <2>2. counter' \in [Threads -> Ptr]
    BY <1>0 DEF FindStart, TypeOK, LocalOK
  <2>3. prevCounter' \in [Threads -> Ptr]
    BY <1>0 DEF FindStart, TypeOK, LocalOK
  <2>4. morePrevCounter' \in [Threads -> Ptr]
    BY <1>0 DEF FindStart, TypeOK, LocalOK
  <2>5. QED
    BY <1>0, <1>1, <2>1, <2>2, <2>3, <2>4 DEF TypeOK
<1>3. LocalsNonNull'
  <2> SUFFICES ASSUME NEW u \in Threads PROVE LocalOK(u)'
    BY DEF LocalsNonNull
  <2>1. CASE u = t
    BY <1>0, <1>1, <2>1 DEF FindStart, TypeOK, LocalOK, Goto, Finish, Critical
  <2>2. CASE u # t
    BY <1>1, <2>2 DEF FindStart, IInv, TypeOK, LocalsNonNull, LocalOK, Goto, Finish, Critical
  <2>3. QED
    BY <2>1, <2>2
<1>4. LockExclusive'
  BY <1>0, <1>1 DEF FindStart, TypeOK, LockExclusive, Goto, Finish, Critical
<1>5. QED
  BY <1>2, <1>3, <1>4 DEF IInv

LEMMA FindMatchIInv ==
  ASSUME IInv, NEW t \in Threads, FindMatch(t)
  PROVE  IInv'
<1>0. /\ TypeOK /\ LocalOK(t) /\ LockExclusive
  BY DEF IInv, LocalsNonNull
<1>1. UNCHANGED <<child, next, objData, callCount, spinlock, nalloc, linked, want, counter, prevCounter, morePrevCounter, newCounter, lookups>>
  BY DEF FindMatch, listVars
<1>2. TypeOK'
  <2>1. pc' \in [Threads -> PCs]
    BY <1>0, GotoType DEF FindMatch, LocalOK, PCs
  <2>2. QED
    BY <1>0, <1>1, <2>1 DEF TypeOK
<1>3. LocalsNonNull'
  <2> SUFFICES ASSUME NEW u \in Threads PROVE LocalOK(u)'
    BY DEF LocalsNonNull
  <2>1. CASE u = t
    BY <1>0, <1>1, <2>1 DEF FindMatch, TypeOK, LocalOK, Goto, Finish, Critical
  <2>2. CASE u # t
    BY <1>1, <2>2 DEF FindMatch, IInv, TypeOK, LocalsNonNull, LocalOK, Goto, Finish, Critical
  <2>3. QED
    BY <2>1, <2>2
<1>4. LockExclusive'
  BY <1>0, <1>1 DEF FindMatch, TypeOK, LockExclusive, Goto, Finish, Critical
<1>5. QED
  BY <1>2, <1>3, <1>4 DEF IInv

LEMMA FindAdvanceIInv ==
  ASSUME IInv, NEW t \in Threads, FindAdvance(t)
  PROVE  IInv'
<1>0. /\ TypeOK /\ LocalOK(t) /\ LockExclusive
  BY DEF IInv, LocalsNonNull
<1>1. UNCHANGED <<child, next, objData, callCount, spinlock, nalloc, linked, want, newCounter, lookups>>
  BY DEF FindAdvance, listVars
<1>2. TypeOK'
  <2>1. pc' \in [Threads -> PCs]
    BY <1>0, GotoType DEF FindAdvance, LocalOK, PCs
  <2>2. counter' \in [Threads -> Ptr]
    BY <1>0 DEF FindAdvance, TypeOK, LocalOK
  <2>3. prevCounter' \in [Threads -> Ptr]
    BY <1>0 DEF FindAdvance, TypeOK, LocalOK
  <2>4. morePrevCounter' \in [Threads -> Ptr]
    BY <1>0 DEF FindAdvance, TypeOK, LocalOK
  <2>5. QED
    BY <1>0, <1>1, <2>1, <2>2, <2>3, <2>4 DEF TypeOK
<1>3. LocalsNonNull'
  <2> SUFFICES ASSUME NEW u \in Threads PROVE LocalOK(u)'
    BY DEF LocalsNonNull
  <2>1. CASE u = t
    BY <1>0, <1>1, <2>1 DEF FindAdvance, TypeOK, LocalOK, Goto, Finish, Critical
  <2>2. CASE u # t
    BY <1>1, <2>2 DEF FindAdvance, IInv, TypeOK, LocalsNonNull, LocalOK, Goto, Finish, Critical
  <2>3. QED
    BY <2>1, <2>2
<1>4. LockExclusive'
  BY <1>0, <1>1 DEF FindAdvance, TypeOK, LockExclusive, Goto, Finish, Critical
<1>5. QED
  BY <1>2, <1>3, <1>4 DEF IInv

LEMMA FindHitIInv ==
  ASSUME IInv, NEW t \in Threads, FindHit(t)
  PROVE  IInv'
<1>0. /\ TypeOK /\ LocalOK(t) /\ LockExclusive
  BY DEF IInv, LocalsNonNull
<1>1. UNCHANGED <<child, next, objData, spinlock, nalloc, linked, want, counter, prevCounter, morePrevCounter, newCounter>>
  BY DEF FindHit
<1>2. /\ pc[t] = "hit"
      /\ counter[t] \in Nodes
      /\ callCount' = [callCount EXCEPT ![counter[t]] = callCount[counter[t]] + 1]
  BY <1>0 DEF FindHit, LocalOK
<1>6. callCount' \in [Nodes -> Nat]
  <2>1. callCount \in [Nodes -> Nat]
    BY <1>0 DEF TypeOK
  <2>2. callCount[counter[t]] + 1 \in Nat
    BY <1>2, <2>1
  <2>3. QED
    BY <1>2, <2>1, <2>2
<1>3. CASE prevCounter[t] # NULL /\ callCount[prevCounter[t]] <= callCount[counter[t]] + 1
  <2>1. Goto(t, "unlink") /\ UNCHANGED lookups
    BY <1>3 DEF FindHit
  <2>2. TypeOK'
    BY <1>0, <1>1, <1>6, <2>1, GotoType DEF TypeOK, PCs
  <2>3. LocalsNonNull'
    <3> SUFFICES ASSUME NEW u \in Threads PROVE LocalOK(u)'
      BY DEF LocalsNonNull
    <3>1. CASE u = t
      <4>1. pc'[t] = "unlink"
        BY <1>0, <2>1 DEF TypeOK, Goto
      <4>2. prevCounter' = prevCounter /\ counter' = counter
        BY <1>1
      <4>6. prevCounter[t] \in Ptr
        BY <1>0 DEF TypeOK
      <4>7. prevCounter[t] \in Nodes
        BY <1>3, <4>6
      <4>5. prevCounter'[t] \in Nodes /\ counter'[t] \in Nodes
        BY <1>2, <4>2, <4>7
      <4>3. lookups'[t] < MaxLookups
        BY <1>0, <1>2, <2>1 DEF LocalOK
      <4>4. QED
        BY <3>1, <4>1, <4>5, <4>3 DEF LocalOK, Critical
    <3>2. CASE u # t
      BY <1>1, <2>1, <3>2 DEF IInv, TypeOK, LocalsNonNull, LocalOK, Goto
    <3>3. QED
      BY <3>1, <3>2
  <2>4. LockExclusive'
    BY <1>0, <1>1, <1>2, <2>1 DEF LockExclusive, Goto, Critical
  <2>5. QED
    BY <2>2, <2>3, <2>4 DEF IInv
<1>4. CASE ~(prevCounter[t] # NULL /\ callCount[prevCounter[t]] <= callCount[counter[t]] + 1)
  <2>1. Finish(t)
    BY <1>4 DEF FindHit
  <2>2. pc' \in [Threads -> PCs] /\ lookups' \in [Threads -> 0..MaxLookups]
    BY <1>0, <1>2, <2>1, FinishType DEF LocalOK
  <2>3. TypeOK'
    BY <1>0, <1>1, <1>6, <2>2 DEF TypeOK
  <2>4. LocalsNonNull'
    <3> SUFFICES ASSUME NEW u \in Threads PROVE LocalOK(u)'
      BY DEF LocalsNonNull
    <3>1. CASE u = t
      <4>1. pc'[t] = "idle"
        BY <1>0, <2>1 DEF TypeOK, Finish
      <4>2. QED
        BY <3>1, <4>1 DEF LocalOK, Critical
    <3>2. CASE u # t
      BY <1>1, <2>1, <3>2 DEF IInv, TypeOK, LocalsNonNull, LocalOK, Finish
    <3>3. QED
      BY <3>1, <3>2
  <2>5. LockExclusive'
    BY <1>0, <1>1, <1>2, <2>1 DEF LockExclusive, Finish, Critical
  <2>6. QED
    BY <2>3, <2>4, <2>5 DEF IInv
<1>5. QED
  BY <1>3, <1>4

LEMMA FindUnlinkIInv ==
  ASSUME IInv, NEW t \in Threads, FindUnlink(t)
  PROVE  IInv'
<1>0. /\ TypeOK /\ LocalOK(t) /\ LockExclusive
  BY DEF IInv, LocalsNonNull
<1>1. UNCHANGED <<child, objData, callCount, spinlock, nalloc, linked, want, counter, prevCounter, morePrevCounter, newCounter, lookups>>
  BY DEF FindUnlink, listVars
<1>2. TypeOK'
  <2>1. pc' \in [Threads -> PCs]
    BY <1>0, GotoType DEF FindUnlink, LocalOK, PCs
  <2>2. next' \in [Nodes -> Ptr]
    BY <1>0 DEF FindUnlink, TypeOK, LocalOK
  <2>3. QED
    BY <1>0, <1>1, <2>1, <2>2 DEF TypeOK
<1>3. LocalsNonNull'
  <2> SUFFICES ASSUME NEW u \in Threads PROVE LocalOK(u)'
    BY DEF LocalsNonNull
  <2>1. CASE u = t
    BY <1>0, <1>1, <2>1 DEF FindUnlink, TypeOK, LocalOK, Goto, Finish, Critical
  <2>2. CASE u # t
    BY <1>1, <2>2 DEF FindUnlink, IInv, TypeOK, LocalsNonNull, LocalOK, Goto, Finish, Critical
  <2>3. QED
    BY <2>1, <2>2
<1>4. LockExclusive'
  BY <1>0, <1>1 DEF FindUnlink, TypeOK, LockExclusive, Goto, Finish, Critical
<1>5. QED
  BY <1>2, <1>3, <1>4 DEF IInv

LEMMA FindRelinkIInv ==
  ASSUME IInv, NEW t \in Threads, FindRelink(t)
  PROVE  IInv'
<1>0. /\ TypeOK /\ LocalOK(t) /\ LockExclusive
  BY DEF IInv, LocalsNonNull
<1>1. UNCHANGED <<objData, callCount, spinlock, nalloc, linked, want, counter, prevCounter, morePrevCounter, newCounter, lookups>>
  BY DEF FindRelink, listVars
<1>2. TypeOK'
  <2>1. pc' \in [Threads -> PCs]
    BY <1>0, GotoType DEF FindRelink, LocalOK, PCs
  <2>2. next' \in [Nodes -> Ptr]
    BY <1>0 DEF FindRelink, TypeOK, LocalOK
  <2>3. child' \in Ptr
    <3>1. counter[t] \in Nodes
      BY <1>0 DEF FindRelink, LocalOK
    <3>2. child' = child \/ child' = counter[t]
      BY DEF FindRelink
    <3>3. QED
      BY <1>0, <3>1, <3>2 DEF TypeOK
  <2>4. QED
    BY <1>0, <1>1, <2>1, <2>2, <2>3 DEF TypeOK
<1>3. LocalsNonNull'
  <2> SUFFICES ASSUME NEW u \in Threads PROVE LocalOK(u)'
    BY DEF LocalsNonNull
  <2>1. CASE u = t
    BY <1>0, <1>1, <2>1 DEF FindRelink, TypeOK, LocalOK, Goto, Finish, Critical
  <2>2. CASE u # t
    BY <1>1, <2>2 DEF FindRelink, IInv, TypeOK, LocalsNonNull, LocalOK, Goto, Finish, Critical
  <2>3. QED
    BY <2>1, <2>2
<1>4. LockExclusive'
  BY <1>0, <1>1 DEF FindRelink, TypeOK, LockExclusive, Goto, Finish, Critical
<1>5. QED
  BY <1>2, <1>3, <1>4 DEF IInv

LEMMA FindSwapIInv ==
  ASSUME IInv, NEW t \in Threads, FindSwap(t)
  PROVE  IInv'
<1>0. /\ TypeOK /\ LocalOK(t) /\ LockExclusive
  BY DEF IInv, LocalsNonNull
<1>1. UNCHANGED <<child, objData, callCount, spinlock, nalloc, linked, want, counter, prevCounter, morePrevCounter, newCounter>>
  BY DEF FindSwap, listVars
<1>2. TypeOK'
  <2>1. pc' \in [Threads -> PCs] /\ lookups' \in [Threads -> 0..MaxLookups]
    BY <1>0, FinishType DEF FindSwap, LocalOK, PCs
  <2>2. next' \in [Nodes -> Ptr]
    BY <1>0 DEF FindSwap, TypeOK, LocalOK
  <2>3. QED
    BY <1>0, <1>1, <2>1, <2>2 DEF TypeOK
<1>3. LocalsNonNull'
  <2> SUFFICES ASSUME NEW u \in Threads PROVE LocalOK(u)'
    BY DEF LocalsNonNull
  <2>1. CASE u = t
    BY <1>0, <1>1, <2>1 DEF FindSwap, TypeOK, LocalOK, Goto, Finish, Critical
  <2>2. CASE u # t
    BY <1>1, <2>2 DEF FindSwap, IInv, TypeOK, LocalsNonNull, LocalOK, Goto, Finish, Critical
  <2>3. QED
    BY <2>1, <2>2
<1>4. LockExclusive'
  BY <1>0, <1>1 DEF FindSwap, TypeOK, LockExclusive, Goto, Finish, Critical
<1>5. QED
  BY <1>2, <1>3, <1>4 DEF IInv

LEMMA PushAllocIInv ==
  ASSUME IInv, NEW t \in Threads, PushAlloc(t)
  PROVE  IInv'
<1>0. /\ TypeOK /\ LocalOK(t) /\ LockExclusive
  BY DEF IInv, LocalsNonNull
<1>1. UNCHANGED <<child, next, callCount, spinlock, linked, want, counter, prevCounter, morePrevCounter, lookups>>
  BY DEF PushAlloc, listVars
<1>2. TypeOK'
  <2>1. pc' \in [Threads -> PCs]
    BY <1>0, GotoType DEF PushAlloc, LocalOK, PCs
  <2>2. nalloc' \in 0..MaxNodes
    BY <1>0 DEF PushAlloc, TypeOK, LocalOK
  <2>3. objData' \in [Nodes -> Classes \cup {NoClass}]
    BY <1>0 DEF PushAlloc, TypeOK, LocalOK
  <2>4. newCounter' \in [Threads -> Ptr]
    BY <1>0 DEF PushAlloc, TypeOK, LocalOK
  <2>5. QED
    BY <1>0, <1>1, <2>1, <2>2, <2>3, <2>4 DEF TypeOK
<1>3. LocalsNonNull'
  <2> SUFFICES ASSUME NEW u \in Threads PROVE LocalOK(u)'
    BY DEF LocalsNonNull
  <2>1. CASE u = t
    BY <1>0, <1>1, <2>1 DEF PushAlloc, TypeOK, LocalOK, Goto, Finish, Critical
  <2>2. CASE u # t
    BY <1>1, <2>2 DEF PushAlloc, IInv, TypeOK, LocalsNonNull, LocalOK, Goto, Finish, Critical
  <2>3. QED
    BY <2>1, <2>2
<1>4. LockExclusive'
  BY <1>0, <1>1 DEF PushAlloc, TypeOK, LockExclusive, Goto, Finish, Critical
<1>5. QED
  BY <1>2, <1>3, <1>4 DEF IInv

LEMMA PushAllocFailIInv ==
  ASSUME IInv, NEW t \in Threads, PushAllocFail(t)
  PROVE  IInv'
<1>0. /\ TypeOK /\ LocalOK(t) /\ LockExclusive
  BY DEF IInv, LocalsNonNull
<1>1. UNCHANGED <<child, next, objData, callCount, spinlock, nalloc, linked, want, counter, prevCounter, morePrevCounter, newCounter>>
  BY DEF PushAllocFail, listVars
<1>2. TypeOK'
  <2>1. pc' \in [Threads -> PCs] /\ lookups' \in [Threads -> 0..MaxLookups]
    BY <1>0, FinishType DEF PushAllocFail, LocalOK, PCs
  <2>2. QED
    BY <1>0, <1>1, <2>1 DEF TypeOK
<1>3. LocalsNonNull'
  <2> SUFFICES ASSUME NEW u \in Threads PROVE LocalOK(u)'
    BY DEF LocalsNonNull
  <2>1. CASE u = t
    BY <1>0, <1>1, <2>1 DEF PushAllocFail, TypeOK, LocalOK, Goto, Finish, Critical
  <2>2. CASE u # t
    BY <1>1, <2>2 DEF PushAllocFail, IInv, TypeOK, LocalsNonNull, LocalOK, Goto, Finish, Critical
  <2>3. QED
    BY <2>1, <2>2
<1>4. LockExclusive'
  BY <1>0, <1>1 DEF PushAllocFail, TypeOK, LockExclusive, Goto, Finish, Critical
<1>5. QED
  BY <1>2, <1>3, <1>4 DEF IInv

LEMMA PushLockIInv ==
  ASSUME IInv, NEW t \in Threads, PushLock(t)
  PROVE  IInv'
<1>0. /\ TypeOK /\ LocalOK(t) /\ LockExclusive
  BY DEF IInv, LocalsNonNull
<1>1. UNCHANGED <<child, next, objData, callCount, nalloc, linked, want, counter, prevCounter, morePrevCounter, newCounter, lookups>>
  BY DEF PushLock, listVars
<1>2. TypeOK'
  <2>1. pc' \in [Threads -> PCs]
    BY <1>0, GotoType DEF PushLock, LocalOK, PCs
  <2>2. spinlock' \in {0, 1}
    BY <1>0 DEF PushLock, TypeOK, LocalOK
  <2>3. QED
    BY <1>0, <1>1, <2>1, <2>2 DEF TypeOK
<1>3. LocalsNonNull'
  <2> SUFFICES ASSUME NEW u \in Threads PROVE LocalOK(u)'
    BY DEF LocalsNonNull
  <2>1. CASE u = t
    BY <1>0, <1>1, <2>1 DEF PushLock, TypeOK, LocalOK, Goto, Finish, Critical
  <2>2. CASE u # t
    BY <1>1, <2>2 DEF PushLock, IInv, TypeOK, LocalsNonNull, LocalOK, Goto, Finish, Critical
  <2>3. QED
    BY <2>1, <2>2
<1>4. LockExclusive'
  BY <1>0, <1>1 DEF PushLock, TypeOK, LockExclusive, Goto, Finish, Critical
<1>5. QED
  BY <1>2, <1>3, <1>4 DEF IInv

LEMMA PushHeadIInv ==
  ASSUME IInv, NEW t \in Threads, PushHead(t)
  PROVE  IInv'
<1>0. /\ TypeOK /\ LocalOK(t) /\ LockExclusive
  BY DEF IInv, LocalsNonNull
<1>1. UNCHANGED <<child, next, objData, callCount, spinlock, nalloc, linked, want, prevCounter, morePrevCounter, newCounter, lookups>>
  BY DEF PushHead, listVars
<1>2. TypeOK'
  <2>1. pc' \in [Threads -> PCs]
    BY <1>0, GotoType DEF PushHead, LocalOK, PCs
  <2>2. counter' \in [Threads -> Ptr]
    BY <1>0 DEF PushHead, TypeOK, LocalOK
  <2>3. QED
    BY <1>0, <1>1, <2>1, <2>2 DEF TypeOK
<1>3. LocalsNonNull'
  <2> SUFFICES ASSUME NEW u \in Threads PROVE LocalOK(u)'
    BY DEF LocalsNonNull
  <2>1. CASE u = t
    BY <1>0, <1>1, <2>1 DEF PushHead, TypeOK, LocalOK, Goto, Finish, Critical
  <2>2. CASE u # t
    BY <1>1, <2>2 DEF PushHead, IInv, TypeOK, LocalsNonNull, LocalOK, Goto, Finish, Critical
  <2>3. QED
    BY <2>1, <2>2
<1>4. LockExclusive'
  BY <1>0, <1>1 DEF PushHead, TypeOK, LockExclusive, Goto, Finish, Critical
<1>5. QED
  BY <1>2, <1>3, <1>4 DEF IInv

LEMMA PushSetHeadIInv ==
  ASSUME IInv, NEW t \in Threads, PushSetHead(t)
  PROVE  IInv'
<1>0. /\ TypeOK /\ LocalOK(t) /\ LockExclusive
  BY DEF IInv, LocalsNonNull
<1>1. UNCHANGED <<next, objData, callCount, spinlock, nalloc, want, counter, prevCounter, morePrevCounter, newCounter, lookups>>
  BY DEF PushSetHead, listVars
<1>2. TypeOK'
  <2>1. pc' \in [Threads -> PCs]
    BY <1>0, GotoType DEF PushSetHead, LocalOK, PCs
  <2>2. child' \in Ptr
    BY <1>0 DEF PushSetHead, TypeOK, LocalOK, Critical
  <2>3. linked' \subseteq Nodes
    BY <1>0 DEF PushSetHead, TypeOK, LocalOK, Critical
  <2>4. QED
    BY <1>0, <1>1, <2>1, <2>2, <2>3 DEF TypeOK
<1>3. LocalsNonNull'
  <2> SUFFICES ASSUME NEW u \in Threads PROVE LocalOK(u)'
    BY DEF LocalsNonNull
  <2>1. CASE u = t
    BY <1>0, <1>1, <2>1 DEF PushSetHead, TypeOK, LocalOK, Goto, Finish, Critical
  <2>2. CASE u # t
    BY <1>1, <2>2 DEF PushSetHead, IInv, TypeOK, LocalsNonNull, LocalOK, Goto, Finish, Critical
  <2>3. QED
    BY <2>1, <2>2
<1>4. LockExclusive'
  BY <1>0, <1>1 DEF PushSetHead, TypeOK, LockExclusive, Goto, Finish, Critical
<1>5. QED
  BY <1>2, <1>3, <1>4 DEF IInv

LEMMA PushTailIInv ==
  ASSUME IInv, NEW t \in Threads, PushTail(t)
  PROVE  IInv'
<1>0. /\ TypeOK /\ LocalOK(t) /\ LockExclusive
  BY DEF IInv, LocalsNonNull
<1>1. UNCHANGED <<child, next, objData, callCount, spinlock, nalloc, linked, want, prevCounter, morePrevCounter, newCounter, lookups>>
  BY DEF PushTail, listVars
<1>2. TypeOK'
  <2>1. pc' \in [Threads -> PCs]
    BY <1>0, GotoType DEF PushTail, LocalOK, PCs
  <2>2. counter' \in [Threads -> Ptr]
    BY <1>0 DEF PushTail, TypeOK, LocalOK
  <2>3. QED
    BY <1>0, <1>1, <2>1, <2>2 DEF TypeOK
<1>3. LocalsNonNull'
  <2> SUFFICES ASSUME NEW u \in Threads PROVE LocalOK(u)'
    BY DEF LocalsNonNull
  <2>1. CASE u = t
    <3>1. pc[t] = "tail" /\ counter[t] \in Nodes /\ newCounter[t] \in Nodes
          /\ lookups[t] < MaxLookups
      BY <1>0 DEF PushTail, LocalOK, Critical
    <3>2. next[counter[t]] \in Ptr
      BY <1>0, <3>1 DEF TypeOK
    <3>3. CASE next[counter[t]] # NULL
      <4>1. pc'[t] = "tail" /\ counter'[t] = next[counter[t]]
        BY <1>0, <3>1, <3>3 DEF PushTail, TypeOK, Goto
      <4>2. QED
        BY <1>1, <2>1, <3>1, <3>2, <3>3, <4>1 DEF LocalOK, Critical
    <3>4. CASE next[counter[t]] = NULL
      <4>1. pc'[t] = "settail" /\ counter' = counter
        BY <1>0, <3>1, <3>4 DEF PushTail, TypeOK, Goto
      <4>2. QED
        BY <1>1, <2>1, <3>1, <4>1 DEF LocalOK, Critical
    <3>5. QED
      BY <3>3, <3>4
  <2>2. CASE u # t
    BY <1>1, <2>2 DEF PushTail, IInv, TypeOK, LocalsNonNull, LocalOK, Goto, Finish, Critical
  <2>3. QED
    BY <2>1, <2>2
<1>4. LockExclusive'
  BY <1>0, <1>1 DEF PushTail, TypeOK, LockExclusive, Goto, Finish, Critical
<1>5. QED
  BY <1>2, <1>3, <1>4 DEF IInv

LEMMA PushSetTailIInv ==
  ASSUME IInv, NEW t \in Threads, PushSetTail(t)
  PROVE  IInv'
<1>0. /\ TypeOK /\ LocalOK(t) /\ LockExclusive
  BY DEF IInv, LocalsNonNull
<1>1. UNCHANGED <<child, objData, callCount, spinlock, nalloc, want, counter, prevCounter, morePrevCounter, newCounter, lookups>>
  BY DEF PushSetTail, listVars
<1>2. TypeOK'
  <2>1. pc' \in [Threads -> PCs]
    BY <1>0, GotoType DEF PushSetTail, LocalOK, PCs
  <2>2. next' \in [Nodes -> Ptr]
    BY <1>0 DEF PushSetTail, TypeOK, LocalOK, Critical
  <2>3. linked' \subseteq Nodes
    BY <1>0 DEF PushSetTail, TypeOK, LocalOK, Critical
  <2>4. QED
    BY <1>0, <1>1, <2>1, <2>2, <2>3 DEF TypeOK
<1>3. LocalsNonNull'
  <2> SUFFICES ASSUME NEW u \in Threads PROVE LocalOK(u)'
    BY DEF LocalsNonNull
  <2>1. CASE u = t
    BY <1>0, <1>1, <2>1 DEF PushSetTail, TypeOK, LocalOK, Goto, Finish, Critical
  <2>2. CASE u # t
    BY <1>1, <2>2 DEF PushSetTail, IInv, TypeOK, LocalsNonNull, LocalOK, Goto, Finish, Critical
  <2>3. QED
    BY <2>1, <2>2
<1>4. LockExclusive'
  BY <1>0, <1>1 DEF PushSetTail, TypeOK, LockExclusive, Goto, Finish, Critical
<1>5. QED
  BY <1>2, <1>3, <1>4 DEF IInv

LEMMA PushUnlockIInv ==
  ASSUME IInv, NEW t \in Threads, PushUnlock(t)
  PROVE  IInv'
<1>0. /\ TypeOK /\ LocalOK(t) /\ LockExclusive
  BY DEF IInv, LocalsNonNull
<1>1. UNCHANGED <<child, next, objData, callCount, nalloc, linked, want, counter, prevCounter, morePrevCounter, newCounter>>
  BY DEF PushUnlock, listVars
<1>2. TypeOK'
  <2>1. pc' \in [Threads -> PCs] /\ lookups' \in [Threads -> 0..MaxLookups]
    BY <1>0, FinishType DEF PushUnlock, LocalOK, PCs
  <2>2. spinlock' \in {0, 1}
    BY <1>0 DEF PushUnlock, TypeOK, LocalOK
  <2>3. QED
    BY <1>0, <1>1, <2>1, <2>2 DEF TypeOK
<1>3. LocalsNonNull'
  <2> SUFFICES ASSUME NEW u \in Threads PROVE LocalOK(u)'
    BY DEF LocalsNonNull
  <2>1. CASE u = t
    BY <1>0, <1>1, <2>1 DEF PushUnlock, TypeOK, LocalOK, Goto, Finish, Critical
  <2>2. CASE u # t
    BY <1>1, <2>2 DEF PushUnlock, IInv, TypeOK, LocalsNonNull, LocalOK, Goto, Finish, Critical
  <2>3. QED
    BY <2>1, <2>2
<1>4. LockExclusive'
  <2>1. pc[t] \in Critical /\ pc'[t] = "idle" /\ spinlock' = 0
    BY <1>0 DEF PushUnlock, TypeOK, Finish, Critical
  <2>2. \A u \in Threads : u # t => pc[u] \notin Critical /\ pc'[u] = pc[u]
    BY <1>0, <2>1 DEF PushUnlock, TypeOK, LockExclusive, Finish
  <2>3. QED
    BY <2>1, <2>2 DEF LockExclusive, Critical
<1>5. QED
  BY <1>2, <1>3, <1>4 DEF IInv

LEMMA NextIInv ==
  ASSUME IInv, [Next]_vars
  PROVE  IInv'
<1>1. CASE \E t \in Threads, c \in Classes : BeginLookup(t, c)
  BY <1>1, BeginLookupIInv
<1>2. CASE \E t \in Threads : Busy(t)
  BY <1>2, FindStartIInv, FindMatchIInv, FindAdvanceIInv, FindHitIInv, FindUnlinkIInv, FindRelinkIInv, FindSwapIInv, PushAllocIInv, PushAllocFailIInv, PushLockIInv, PushHeadIInv, PushSetHeadIInv, PushTailIInv, PushSetTailIInv, PushUnlockIInv DEF Busy
<1>3. CASE WalkDone \/ UNCHANGED vars
  BY <1>3 DEF WalkDone, vars, listVars, threadVars, IInv, TypeOK, LocalsNonNull, LocalOK, LockExclusive, Critical
<1>4. QED
  BY <1>1, <1>2, <1>3 DEF Next

(***************************************************************************)
(* Every variable of the child-class list and of the walkers keeps its     *)
(* type in every reachable state, whether or not walkers are partitioned:  *)
(* findChildClass and pushNewChildClass only dereference a pointer after   *)
(* the NULL test the code makes, and only store nodes or NULL in links.    *)
(***************************************************************************)
THEOREM ChildTypeCorrect == Spec => []TypeOK
<1>1. Init => IInv
  BY InitIInv
<1>2. IInv /\ [Next]_vars => IInv'
  BY NextIInv
<1>3. IInv => TypeOK
  BY DEF IInv
<1>4. QED
  BY <1>1, <1>2, <1>3, PTL DEF Spec

(***************************************************************************)
(* The spin lock clsCounter->spinlock that pushNewChildClass takes admits  *)
(* one walker at a time to the append, and is held exactly while one is   *)
(* between spinLockWait and spinLockRelease.                               *)
(***************************************************************************)
THEOREM SpinLockExclusive == Spec => []LockExclusive
<1>1. IInv => LockExclusive
  BY DEF IInv
<1>2. QED
  BY <1>1, InitIInv, NextIInv, PTL DEF Spec

=============================================================================
