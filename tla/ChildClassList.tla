--------------------------- MODULE ChildClassList ---------------------------
(***************************************************************************)
(* The list of TChildClassCounter entries hanging off one TClassCounter    *)
(* (snapShotContainer.hpp), as the object-graph walker threads use it:     *)
(* each lookup of a child class is findChildClass, which scans the list,   *)
(* bumps callCount and swaps the hit one step toward the head (without     *)
(* taking the spin lock), and on a miss pushNewChildClass, which allocates *)
(* a node and appends it at the tail under clsCounter->spinlock.           *)
(*                                                                         *)
(* Every step is one shared-memory statement of the C++ code.  Nodes are   *)
(* the allocations 1..MaxNodes and 0 is NULL.  The counters the node       *)
(* carries are left to the container module; this one is about the links. *)
(***************************************************************************)
EXTENDS Naturals, FiniteSets
LOCAL INSTANCE SequencesExt

CONSTANTS
  Threads,      \* walker threads
  Classes,      \* child classes (klassOop of a TObjectData)
  NoClass,      \* objData of a node that is not allocated yet
  MaxNodes,     \* bound on TChildClassCounter allocations
  MaxLookups,   \* bound on find-or-create lookups per thread
  Partitioned   \* TRUE: at most one thread works on the list at a time

ASSUME ConstAssumption ==
  /\ Threads # {} /\ Classes # {}
  /\ NoClass \notin Classes
  /\ MaxNodes \in Nat \ {0}
  /\ MaxLookups \in Nat
  /\ Partitioned \in BOOLEAN

NULL  == 0
Nodes == 1..MaxNodes
Ptr   == 0..MaxNodes

VARIABLES
  child,            \* clsCounter->child: the head of the list
  next,             \* TChildClassCounter.next
  objData,          \* TChildClassCounter.objData (its klassOop)
  callCount,        \* TChildClassCounter.callCount
  spinlock,         \* clsCounter->spinlock
  nalloc,           \* nodes 1..nalloc have been allocated
  linked,           \* ghost: nodes pushNewChildClass has chained in
  pc,               \* where each walker thread is
  want,             \* the klassOop a thread is looking up
  counter,          \* local `counter' of findChildClass / pushNewChildClass
  prevCounter,      \* local `prevCounter' of findChildClass
  morePrevCounter,  \* local `morePrevCounter' of findChildClass
  newCounter,       \* local `newCounter' of pushNewChildClass
  lookups           \* lookups each thread has finished

listVars   == <<child, next, objData, callCount, spinlock, nalloc, linked>>
threadVars == <<pc, want, counter, prevCounter, morePrevCounter, newCounter, lookups>>
vars       == <<listVars, threadVars>>

PCs == {"idle", "find", "scan", "hit", "unlink", "relink", "swap",
        "alloc", "lock", "head", "sethead", "tail", "settail", "unlock"}

TypeOK ==
  /\ child \in Ptr
  /\ next \in [Nodes -> Ptr]
  /\ objData \in [Nodes -> Classes \cup {NoClass}]
  /\ callCount \in [Nodes -> Nat]
  /\ spinlock \in {0, 1}
  /\ nalloc \in 0..MaxNodes
  /\ linked \subseteq Nodes
  /\ pc \in [Threads -> PCs]
  /\ want \in [Threads -> Classes]
  /\ counter \in [Threads -> Ptr]
  /\ prevCounter \in [Threads -> Ptr]
  /\ morePrevCounter \in [Threads -> Ptr]
  /\ newCounter \in [Threads -> Ptr]
  /\ lookups \in [Threads -> 0..MaxLookups]

(***************************************************************************)
(* The node reached after k steps from the head; NULL once the walk ends.  *)
(***************************************************************************)
Walk == LET w[k \in Nat] == IF k = 0 THEN child
                            ELSE IF w[k-1] = NULL THEN NULL ELSE next[w[k-1]]
        IN  w

Reachable == {Walk[k] : k \in 0..MaxNodes} \ {NULL}

Goto(t, l) == pc' = [pc EXCEPT ![t] = l]

\* The walker has its counter (or gave up on it) and counts the object.
Finish(t) ==
  /\ pc' = [pc EXCEPT ![t] = "idle"]
  /\ lookups' = [lookups EXCEPT ![t] = @ + 1]

Init ==
  /\ child = NULL
  /\ next = [n \in Nodes |-> NULL]
  /\ objData = [n \in Nodes |-> NoClass]
  /\ callCount = [n \in Nodes |-> 0]
  /\ spinlock = 0
  /\ nalloc = 0
  /\ linked = {}
  /\ pc = [t \in Threads |-> "idle"]
  /\ want \in [Threads -> Classes]
  /\ counter = [t \in Threads |-> NULL]
  /\ prevCounter = [t \in Threads |-> NULL]
  /\ morePrevCounter = [t \in Threads |-> NULL]
  /\ newCounter = [t \in Threads |-> NULL]
  /\ lookups = [t \in Threads |-> 0]

(***************************************************************************)
(* The walker meets a reference to an object of class c and looks up the   *)
(* (parent, c) edge.  Under Partitioned no other thread is on the list.    *)
(***************************************************************************)
BeginLookup(t, c) ==
  /\ pc[t] = "idle"
  /\ lookups[t] < MaxLookups
  /\ Partitioned => \A u \in Threads : pc[u] = "idle"
  /\ want' = [want EXCEPT ![t] = c]
  /\ Goto(t, "find")
  /\ UNCHANGED <<listVars, counter, prevCounter, morePrevCounter, newCounter, lookups>>

\* Mutant: the scan starts at the head's successor, missing the head.
FindStartSkipHead(t) ==
  LET first == IF child = NULL THEN NULL ELSE next[child]
  IN  /\ pc[t] = "find"
      /\ counter' = [counter EXCEPT ![t] = first]
      /\ prevCounter' = [prevCounter EXCEPT ![t] = NULL]
      /\ morePrevCounter' = [morePrevCounter EXCEPT ![t] = NULL]
      /\ Goto(t, IF first = NULL THEN "alloc" ELSE "scan")
      /\ UNCHANGED <<listVars, want, newCounter, lookups>>

\* findChildClass: counter = clsCounter->child; if NULL return NULL.
FindStart(t) ==
  /\ pc[t] = "find"
  /\ counter' = [counter EXCEPT ![t] = child]
  /\ prevCounter' = [prevCounter EXCEPT ![t] = NULL]
  /\ morePrevCounter' = [morePrevCounter EXCEPT ![t] = NULL]
  /\ Goto(t, IF child = NULL THEN "alloc" ELSE "scan")
  /\ UNCHANGED <<listVars, want, newCounter, lookups>>

\* while (counter->objData->klassOop != klassOop) exits on a match.
FindMatch(t) ==
  /\ pc[t] = "scan"
  /\ objData[counter[t]] = want[t]
  /\ Goto(t, "hit")
  /\ UNCHANGED <<listVars, want, counter, prevCounter, morePrevCounter, newCounter, lookups>>

\* One loop iteration; a NULL next ends the scan with "not found".
FindAdvance(t) ==
  /\ pc[t] = "scan"
  /\ objData[counter[t]] # want[t]
  /\ morePrevCounter' = [morePrevCounter EXCEPT ![t] = prevCounter[t]]
  /\ prevCounter' = [prevCounter EXCEPT ![t] = counter[t]]
  /\ counter' = [counter EXCEPT ![t] = next[counter[t]]]
  /\ Goto(t, IF next[counter[t]] = NULL THEN "alloc" ELSE "scan")
  /\ UNCHANGED <<listVars, want, newCounter, lookups>>

(***************************************************************************)
(* callCount++, then promote when the predecessor's count is not higher.   *)
(***************************************************************************)
FindHit(t) ==
  LET cur == counter[t]
      prv == prevCounter[t]
      cc  == callCount[cur] + 1
  IN  /\ pc[t] = "hit"
      /\ callCount' = [callCount EXCEPT ![cur] = cc]
      /\ IF prv # NULL /\ callCount[prv] <= cc
           THEN Goto(t, "unlink") /\ UNCHANGED lookups
           ELSE Finish(t)
      /\ UNCHANGED <<child, next, objData, spinlock, nalloc, linked,
                     want, counter, prevCounter, morePrevCounter, newCounter>>

\* Mutant: the predecessor is not unlinked before the swap.
FindUnlinkSkipped(t) ==
  /\ pc[t] = "unlink"
  /\ Goto(t, "relink")
  /\ UNCHANGED <<listVars, want, counter, prevCounter, morePrevCounter, newCounter, lookups>>

\* prevCounter->next = counter->next;
FindUnlink(t) ==
  /\ pc[t] = "unlink"
  /\ next' = [next EXCEPT ![prevCounter[t]] = next[counter[t]]]
  /\ Goto(t, "relink")
  /\ UNCHANGED <<child, objData, callCount, spinlock, nalloc, linked,
                 want, counter, prevCounter, morePrevCounter, newCounter, lookups>>

\* Mutant: a promotion to the head forgets clsCounter->child.
FindRelinkNoHead(t) ==
  /\ pc[t] = "relink"
  /\ IF morePrevCounter[t] # NULL
       THEN next' = [next EXCEPT ![morePrevCounter[t]] = counter[t]]
       ELSE UNCHANGED next
  /\ Goto(t, "swap")
  /\ UNCHANGED <<child, objData, callCount, spinlock, nalloc, linked,
                 want, counter, prevCounter, morePrevCounter, newCounter, lookups>>

\* morePrevCounter->next = counter;  or  clsCounter->child = counter;
FindRelink(t) ==
  /\ pc[t] = "relink"
  /\ IF morePrevCounter[t] # NULL
       THEN next' = [next EXCEPT ![morePrevCounter[t]] = counter[t]] /\ UNCHANGED child
       ELSE child' = counter[t] /\ UNCHANGED next
  /\ Goto(t, "swap")
  /\ UNCHANGED <<objData, callCount, spinlock, nalloc, linked,
                 want, counter, prevCounter, morePrevCounter, newCounter, lookups>>

\* counter->next = prevCounter;  return counter;
FindSwap(t) ==
  /\ pc[t] = "swap"
  /\ next' = [next EXCEPT ![counter[t]] = prevCounter[t]]
  /\ Finish(t)
  /\ UNCHANGED <<child, objData, callCount, spinlock, nalloc, linked,
                 want, counter, prevCounter, morePrevCounter, newCounter>>

\* Mutant: the new node is numbered from the old count, off by one.
PushAllocOffByOne(t) ==
  /\ pc[t] = "alloc"
  /\ nalloc < MaxNodes
  /\ nalloc' = nalloc + 1
  /\ objData' = [objData EXCEPT ![nalloc] = want[t]]
  /\ newCounter' = [newCounter EXCEPT ![t] = nalloc]
  /\ Goto(t, "lock")
  /\ UNCHANGED <<child, next, callCount, spinlock, linked,
                 want, counter, prevCounter, morePrevCounter, lookups>>

(***************************************************************************)
(* pushNewChildClass: calloc + posix_memalign; either may fail, and then   *)
(* NULL is returned and the walker drops this contribution.                *)
(***************************************************************************)
PushAlloc(t) ==
  /\ pc[t] = "alloc"
  /\ nalloc < MaxNodes
  /\ nalloc' = nalloc + 1
  /\ objData' = [objData EXCEPT ![nalloc + 1] = want[t]]
  /\ newCounter' = [newCounter EXCEPT ![t] = nalloc + 1]
  /\ Goto(t, "lock")
  /\ UNCHANGED <<child, next, callCount, spinlock, linked,
                 want, counter, prevCounter, morePrevCounter, lookups>>

PushAllocFail(t) ==
  /\ pc[t] = "alloc"
  /\ Finish(t)
  /\ UNCHANGED <<listVars, want, counter, prevCounter, morePrevCounter, newCounter>>

\* spinLockWait(&clsCounter->spinlock);
PushLock(t) ==
  /\ pc[t] = "lock"
  /\ spinlock = 0
  /\ spinlock' = 1
  /\ Goto(t, "head")
  /\ UNCHANGED <<child, next, objData, callCount, nalloc, linked,
                 want, counter, prevCounter, morePrevCounter, newCounter, lookups>>

\* Mutant: the new node is put at the head instead of the tail.
PushHeadPrepend(t) ==
  /\ pc[t] = "head"
  /\ next' = [next EXCEPT ![newCounter[t]] = child]
  /\ child' = newCounter[t]
  /\ linked' = linked \cup {newCounter[t]}
  /\ Goto(t, "unlock")
  /\ UNCHANGED <<objData, callCount, spinlock, nalloc,
                 want, counter, prevCounter, morePrevCounter, newCounter, lookups>>

\* counter = clsCounter->child;  if (counter == NULL) ...
PushHead(t) ==
  /\ pc[t] = "head"
  /\ counter' = [counter EXCEPT ![t] = child]
  /\ Goto(t, IF child = NULL THEN "sethead" ELSE "tail")
  /\ UNCHANGED <<listVars, want, prevCounter, morePrevCounter, newCounter, lookups>>

\* clsCounter->child = newCounter;
PushSetHead(t) ==
  /\ pc[t] = "sethead"
  /\ child' = newCounter[t]
  /\ linked' = linked \cup {newCounter[t]}
  /\ Goto(t, "unlock")
  /\ UNCHANGED <<next, objData, callCount, spinlock, nalloc,
                 want, counter, prevCounter, morePrevCounter, newCounter, lookups>>

\* while (counter->next != NULL) counter = counter->next;
PushTail(t) ==
  /\ pc[t] = "tail"
  /\ IF next[counter[t]] # NULL
       THEN counter' = [counter EXCEPT ![t] = next[counter[t]]] /\ Goto(t, "tail")
       ELSE UNCHANGED counter /\ Goto(t, "settail")
  /\ UNCHANGED <<listVars, want, prevCounter, morePrevCounter, newCounter, lookups>>

\* counter->next = newCounter;
PushSetTail(t) ==
  /\ pc[t] = "settail"
  /\ next' = [next EXCEPT ![counter[t]] = newCounter[t]]
  /\ linked' = linked \cup {newCounter[t]}
  /\ Goto(t, "unlock")
  /\ UNCHANGED <<child, objData, callCount, spinlock, nalloc,
                 want, counter, prevCounter, morePrevCounter, newCounter, lookups>>

\* spinLockRelease(&clsCounter->spinlock);  return newCounter;
PushUnlock(t) ==
  /\ pc[t] = "unlock"
  /\ spinlock' = 0
  /\ Finish(t)
  /\ UNCHANGED <<child, next, objData, callCount, nalloc, linked,
                 want, counter, prevCounter, morePrevCounter, newCounter>>

\* Every step of a lookup already under way.
Busy(t) ==
  \/ FindStart(t) \/ FindMatch(t) \/ FindAdvance(t) \/ FindHit(t)
  \/ FindUnlink(t) \/ FindRelink(t) \/ FindSwap(t)
  \/ PushAlloc(t) \/ PushAllocFail(t) \/ PushLock(t) \/ PushHead(t)
  \/ PushSetHead(t) \/ PushTail(t) \/ PushSetTail(t) \/ PushUnlock(t)

\* The walk is over: every thread has done its lookups.
WalkDone ==
  /\ \A t \in Threads : pc[t] = "idle" /\ lookups[t] = MaxLookups
  /\ UNCHANGED vars

Next ==
  \/ \E t \in Threads, c \in Classes : BeginLookup(t, c)
  \/ \E t \in Threads : Busy(t)
  \/ WalkDone

\* A walker thread runs to the end of the lookup it started.
Fairness == \A t \in Threads : WF_vars(Busy(t))

Spec == Init /\ [][Next]_vars /\ Fairness

-----------------------------------------------------------------------------
(***************************************************************************)
(* Nodes a promotion has taken out and not yet put back: after            *)
(* `prevCounter->next = counter->next' the hit node is off the list, and   *)
(* after it is relinked its old predecessor is off until the swap.         *)
(***************************************************************************)
InFlight == {counter[t] : t \in {u \in Threads : pc[u] = "relink"}}
            \cup {prevCounter[t] : t \in {u \in Threads : pc[u] = "swap"}}

(***************************************************************************)
(* ListIntact: following `next' from clsCounter->child ends in NULL, and   *)
(* the nodes on the way are exactly the ones pushNewChildClass chained in, *)
(* but for those an LFU promotion is moving.  This is what findChildClass  *)
(* promises (spec 8.5: promotion never loses or duplicates a node).       *)
(***************************************************************************)
ListIntact ==
  /\ Walk[MaxNodes] = NULL
  /\ Reachable \cup InFlight = linked

(***************************************************************************)
(* NoDuplicateChild: no two chained nodes count the same child class, i.e. *)
(* the walker's findChildClass-then-pushNewChildClass is a find-or-create. *)
(***************************************************************************)
NoDuplicateChild ==
  \A m, n \in linked : m # n => objData[m] # objData[n]

(***************************************************************************)
(* LookupTerminates: every lookup a walker thread starts returns: the scan *)
(* of findChildClass and the tail walk of pushNewChildClass end, and the   *)
(* spin lock is released.                                                  *)
(***************************************************************************)
LookupTerminates == \A t \in Threads : pc[t] # "idle" ~> pc[t] = "idle"

-----------------------------------------------------------------------------
(***************************************************************************)
(* The refinement mapping onto ChildOrder.  The list is read from the head *)
(* to NULL; while a promotion is half done the node it has taken out is    *)
(* put back where it was, so that the promotion becomes one abstract step, *)
(* taken by `counter->next = prevCounter'.                                 *)
(***************************************************************************)
ListSeq == [i \in 1..Cardinality({k \in 0..MaxNodes : Walk[k] # NULL}) |-> Walk[i - 1]]

Position(s, n) == CHOOSE i \in DOMAIN s : s[i] = n

Promoting == {t \in Threads : pc[t] \in {"relink", "swap"}}

\* relink: the hit node is out after its predecessor; swap: the
\* predecessor is out before the hit node.
BeforePromotion ==
  IF Promoting = {} THEN ListSeq
  ELSE LET t == CHOOSE u \in Promoting : TRUE
       IN  IF pc[t] = "relink"
             THEN InsertAt(ListSeq, Position(ListSeq, prevCounter[t]) + 1, counter[t])
             ELSE InsertAt(ListSeq, Position(ListSeq, counter[t]), prevCounter[t])

AbsOrder == [i \in DOMAIN BeforePromotion |-> objData[BeforePromotion[i]]]

Order == INSTANCE ChildOrder WITH order <- AbsOrder

(***************************************************************************)
(* RefinesChildOrder (spec 4.3, 8.5, S3): with the walkers partitioned,    *)
(* findChildClass and pushNewChildClass implement ChildOrder: the classes  *)
(* on the list stay distinct, a new edge is appended at the tail, and a    *)
(* promotion only swaps the hit class with the one before it.              *)
(***************************************************************************)
RefinesChildOrder == Order!Spec

=============================================================================
