----------------------------- MODULE CounterMap -----------------------------
(***************************************************************************)
(* The class map of one TSnapShotContainer (counterMap, a tbb              *)
(* concurrent_unordered_map from TObjectData pointers to TClassCounter     *)
(* pointers) and the counting that goes through it: a walker thread        *)
(* counting an object of                                                   *)
(* class k calls findClass(k); on NULL it calls pushNewClass(k), which     *)
(* allocates and zeroes a TClassCounter and stores it with                 *)
(* `counterMap[objData] = cur'; then it adds the object to the counter it  *)
(* got, with Inc or with the portable addInc.                              *)
(*                                                                         *)
(* A TClassCounter is a cell 1..MaxCells (0 is NULL) and its               *)
(* TObjectCounter is reduced to `count'; total_size is updated by the same *)
(* statements in the same way.  The map's own operations are atomic (tbb   *)
(* makes insert and find safe to run concurrently).                        *)
(***************************************************************************)
EXTENDS Naturals, FiniteSets

CONSTANTS
  Threads,    \* walker threads
  Classes,    \* class records (TObjectData*) the walker meets
  CountOps,   \* which of "inc" (Inc) and "add" (addInc) the walker uses
  MaxCells,   \* bound on calloc'ed TClassCounters
  MaxOps,     \* bound on objects counted per thread
  Recycled,   \* TRUE: the container came from the stock, its map is filled
  Exclusive   \* TRUE: no two threads count objects of one class at once

ASSUME ConstAssumption ==
  /\ Threads # {} /\ IsFiniteSet(Threads)
  /\ Classes # {} /\ IsFiniteSet(Classes)
  /\ CountOps \subseteq {"inc", "add"} /\ CountOps # {}
  /\ MaxCells \in Nat /\ MaxOps \in Nat
  /\ Recycled \in BOOLEAN /\ Exclusive \in BOOLEAN
  /\ Recycled => Cardinality(Classes) <= MaxCells

NULL  == 0
Cells == 1..MaxCells

VARIABLES
  counterMap,  \* counterMap: class -> TClassCounter, NULL when absent
  cnt,         \* clsCounter->counter->count
  nalloc,      \* cells 1..nalloc have been calloc'ed
  pc,          \* where each walker thread is
  cls,         \* the class of the object a thread is counting
  op,          \* "inc" or "add"
  cur,         \* local `cur' / the counter findClass returned
  tmp,         \* the count addInc read, before it writes the sum back
  ops,         \* objects each thread has handled
  added        \* ghost: contributions that reached a counter, per class

vars == <<counterMap, cnt, nalloc, pc, cls, op, cur, tmp, ops, added>>

MaxTotal == MaxOps * Cardinality(Threads)

PCs == {"idle", "find", "calloc", "memalign", "insert", "count", "addwrite"}

TypeOK ==
  /\ counterMap \in [Classes -> Cells \cup {NULL}]
  /\ cnt \in [Cells -> 0..MaxTotal]
  /\ nalloc \in 0..MaxCells
  /\ pc \in [Threads -> PCs]
  /\ cls \in [Threads -> Classes]
  /\ op \in [Threads -> CountOps]
  /\ cur \in [Threads -> Cells \cup {NULL}]
  /\ tmp \in [Threads -> 0..MaxTotal]
  /\ ops \in [Threads -> 0..MaxOps]
  /\ added \in [Classes -> 0..MaxTotal]

\* The container's map as the stock hands it back: every class keeps its
\* TClassCounter shell, each counter zero (clear keeps the keys).
Shells == {f \in [Classes -> 1..Cardinality(Classes)] :
             \A j, k \in Classes : j # k => f[j] # f[k]}

Init ==
  /\ IF Recycled
       THEN counterMap \in Shells /\ nalloc = Cardinality(Classes)
       ELSE counterMap = [k \in Classes |-> NULL] /\ nalloc = 0
  /\ cnt = [c \in Cells |-> 0]
  /\ pc = [t \in Threads |-> "idle"]
  /\ cls \in [Threads -> Classes]
  /\ op \in [Threads -> CountOps]
  /\ cur = [t \in Threads |-> NULL]
  /\ tmp = [t \in Threads |-> 0]
  /\ ops = [t \in Threads |-> 0]
  /\ added = [k \in Classes |-> 0]

Goto(t, l) == pc' = [pc EXCEPT ![t] = l]

\* The object is dropped: an allocation failed and NULL came back.
Drop(t) ==
  /\ Goto(t, "idle")
  /\ UNCHANGED <<counterMap, cnt, cls, op, cur, tmp, ops, added>>

(***************************************************************************)
(* The walker meets an object of class k and will count it with o.         *)
(***************************************************************************)
BeginCount(t, k, o) ==
  /\ pc[t] = "idle"
  /\ ops[t] < MaxOps
  /\ Exclusive => \A u \in Threads \ {t} : pc[u] = "idle" \/ cls[u] # k
  /\ cls' = [cls EXCEPT ![t] = k]
  /\ op' = [op EXCEPT ![t] = o]
  /\ ops' = [ops EXCEPT ![t] = @ + 1]
  /\ Goto(t, "find")
  /\ UNCHANGED <<counterMap, cnt, nalloc, cur, tmp, added>>

\* Mutant: findClass misses every time, so each object pushes a new class.
FindClassAlwaysMiss(t) ==
  /\ pc[t] = "find"
  /\ cur' = [cur EXCEPT ![t] = NULL]
  /\ Goto(t, "calloc")
  /\ UNCHANGED <<counterMap, cnt, nalloc, cls, op, tmp, ops, added>>

\* findClass: counterMap.find(objData), NULL when absent.
FindClass(t) ==
  /\ pc[t] = "find"
  /\ cur' = [cur EXCEPT ![t] = counterMap[cls[t]]]
  /\ Goto(t, IF counterMap[cls[t]] = NULL THEN "calloc" ELSE "count")
  /\ UNCHANGED <<counterMap, cnt, nalloc, cls, op, tmp, ops, added>>

\* pushNewClass: cur = calloc(1, sizeof(TClassCounter)); NULL on failure.
PushCalloc(t) ==
  /\ pc[t] = "calloc"
  /\ nalloc < MaxCells
  /\ nalloc' = nalloc + 1
  /\ cur' = [cur EXCEPT ![t] = nalloc + 1]
  /\ Goto(t, "memalign")
  /\ UNCHANGED <<counterMap, cnt, cls, op, tmp, ops, added>>

PushCallocFail(t) ==
  /\ pc[t] = "calloc"
  /\ Drop(t)
  /\ UNCHANGED nalloc

\* posix_memalign for cur->counter, then clearObjectCounter(cur->counter);
\* on failure free(cur) and return NULL.
PushMemalign(t) ==
  /\ pc[t] = "memalign"
  /\ \/ cnt' = [cnt EXCEPT ![cur[t]] = 0] /\ Goto(t, "insert")
        /\ UNCHANGED <<counterMap, cls, op, cur, tmp, ops, added>>
     \/ Drop(t)
  /\ UNCHANGED nalloc

(***************************************************************************)
(* counterMap[objData] = cur: operator[] inserts or finds the slot and the *)
(* assignment overwrites whatever another thread stored there meanwhile.   *)
(* When operator[] throws, cur is freed and NULL returned.                 *)
(***************************************************************************)
PushInsert(t) ==
  /\ pc[t] = "insert"
  /\ \/ counterMap' = [counterMap EXCEPT ![cls[t]] = cur[t]] /\ Goto(t, "count")
        /\ UNCHANGED <<cnt, nalloc, cls, op, cur, tmp, ops, added>>
     \/ Drop(t) /\ UNCHANGED nalloc

\* Inc(counter, size): the architecture's atomic increment.
IncCounter(t) ==
  /\ pc[t] = "count"
  /\ op[t] = "inc"
  /\ cnt' = [cnt EXCEPT ![cur[t]] = @ + 1]
  /\ added' = [added EXCEPT ![cls[t]] = @ + 1]
  /\ Goto(t, "idle")
  /\ UNCHANGED <<counterMap, nalloc, cls, op, cur, tmp, ops>>

\* addInc, portable build: `counter->count += operand->count' reads ...
AddRead(t) ==
  /\ pc[t] = "count"
  /\ op[t] = "add"
  /\ tmp' = [tmp EXCEPT ![t] = cnt[cur[t]]]
  /\ Goto(t, "addwrite")
  /\ UNCHANGED <<counterMap, cnt, nalloc, cls, op, cur, ops, added>>

\* Mutant: the add writes back the value it read, without the operand.
AddWriteNoSum(t) ==
  /\ pc[t] = "addwrite"
  /\ cnt' = [cnt EXCEPT ![cur[t]] = tmp[t]]
  /\ added' = [added EXCEPT ![cls[t]] = @ + 1]
  /\ Goto(t, "idle")
  /\ UNCHANGED <<counterMap, nalloc, cls, op, cur, tmp, ops>>

\* Mutant: count += operand->total_size (an operand of two bytes).
AddWriteSwapped(t) ==
  /\ pc[t] = "addwrite"
  /\ cnt' = [cnt EXCEPT ![cur[t]] = tmp[t] + 2]
  /\ added' = [added EXCEPT ![cls[t]] = @ + 1]
  /\ Goto(t, "idle")
  /\ UNCHANGED <<counterMap, nalloc, cls, op, cur, tmp, ops>>

\* ... and writes back the sum (an operand of one object).
AddWrite(t) ==
  /\ pc[t] = "addwrite"
  /\ cnt' = [cnt EXCEPT ![cur[t]] = tmp[t] + 1]
  /\ added' = [added EXCEPT ![cls[t]] = @ + 1]
  /\ Goto(t, "idle")
  /\ UNCHANGED <<counterMap, nalloc, cls, op, cur, tmp, ops>>

\* The walk is over: every thread has counted its objects.
WalkDone ==
  /\ \A t \in Threads : pc[t] = "idle" /\ ops[t] = MaxOps
  /\ UNCHANGED vars

Next ==
  \/ \E t \in Threads, k \in Classes, o \in CountOps : BeginCount(t, k, o)
  \/ \E t \in Threads :
       \/ FindClass(t) \/ PushCalloc(t) \/ PushCallocFail(t) \/ PushMemalign(t)
       \/ PushInsert(t) \/ IncCounter(t) \/ AddRead(t) \/ AddWrite(t)
  \/ WalkDone

Spec == Init /\ [][Next]_vars

-----------------------------------------------------------------------------
(***************************************************************************)
(* StableClassCounter (spec 8.2): once findClass can return a counter for  *)
(* a class, it returns that same counter for the rest of the snapshot;     *)
(* pushNewClass racing with another pushNewClass of the same class must    *)
(* not replace it (spec 4.3: the loser is freed, the winner returned).     *)
(***************************************************************************)
StableClassCounter ==
  [][\A k \in Classes :
       counterMap[k] # NULL => counterMap'[k] = counterMap[k]]_vars

(***************************************************************************)
(* CountsAdd (spec 5 and 8.1): when no walker is inside a count, the       *)
(* counter the map holds for each class equals the number of objects of   *)
(* that class whose Inc / addInc went through, whatever the interleaving. *)
(***************************************************************************)
CountsAdd ==
  (\A t \in Threads : pc[t] = "idle") =>
    \A k \in Classes :
      added[k] = IF counterMap[k] = NULL THEN 0 ELSE cnt[counterMap[k]]

(***************************************************************************)
(* CountsNotInvented: whatever the interleaving, Exclusive or not, the     *)
(* counter counterMap holds for a class never exceeds the objects of that *)
(* class whose Inc / addInc went through.  The racing addInc of the        *)
(* portable build and the racing pushNewClass may lose counts (CountsAdd  *)
(* fails without Exclusive), but neither may invent one.                   *)
(***************************************************************************)
CountsNotInvented ==
  \A k \in Classes : counterMap[k] # NULL => cnt[counterMap[k]] <= added[k]

=============================================================================
