---------------------------- MODULE ClassRegistry ----------------------------
(***************************************************************************)
(* TClassContainer (classContainer.hpp): the index classMap from the JVM's *)
(* klassOop to the agent's TObjectData record of the class, and the        *)
(* queue unloadedList of records whose class was unloaded.                 *)
(*                                                                         *)
(* Walker threads look a class up with findClass and, on a miss, build a   *)
(* record and install it with pushNewClass.  At a safepoint, with the      *)
(* walkers stopped, the JVM loads, unloads and moves classes: an unload    *)
(* marks the record with popClass and queues it; a move updates the        *)
(* record's host pointer and calls updateClass(old, new); and after the     *)
(* snapshot commitClassChange removes the queued records with removeClass. *)
(* The JVM side is the environment: `loaded' holds the addresses of the    *)
(* classes it has loaded.                                                  *)
(*                                                                         *)
(* Only findClass and updateClass have their bodies in this file; the      *)
(* other operations follow their declarations and spec 4.1.                *)
(***************************************************************************)
EXTENDS Integers, Sequences

CONSTANTS
  Threads,     \* walker threads
  Ptrs,        \* klassOop addresses the JVM may put a class at
  MaxRecords,  \* bound on TObjectData allocations
  MaxEvents,   \* bound on lookups and JVM events together
  Reuse        \* TRUE: an address whose class was unloaded may take a
               \* class again before commitClassChange has run

ASSUME ConstAssumption ==
  /\ Threads # {} /\ Ptrs # {}
  /\ MaxRecords \in Nat /\ MaxEvents \in Nat
  /\ Reuse \in BOOLEAN

NULL    == 0
Absent  == -1          \* classMap has no entry for the key
Records == 1..MaxRecords

\* A record is "none" before it is allocated, "prov" while a walker holds
\* it unpublished, then "live", "unloaded" (popClass) and "freed".
States == {"none", "prov", "live", "unloaded", "freed"}

VARIABLES
  loaded,        \* JVM: addresses that hold a loaded class
  classMap,      \* classMap: klassOop -> TObjectData*, or no entry
  status,        \* the life of each record
  klassOop,      \* TObjectData.klassOop, the record's host pointer
  unloadedList,  \* unloadedList, the queue popClass fills
  nalloc,        \* records 1..nalloc have been allocated
  pc,            \* where each walker thread is
  want,          \* the klassOop a walker looks up
  prov,          \* the record a walker built for pushNewClass
  got,           \* the record findClass / pushNewClass gave the walker
  events         \* lookups and JVM events so far

vars == <<loaded, classMap, status, klassOop, unloadedList, nalloc,
          pc, want, prov, got, events>>

TypeOK ==
  /\ loaded \subseteq Ptrs
  /\ classMap \in [Ptrs -> Records \cup {NULL, Absent}]
  /\ status \in [Records -> States]
  /\ klassOop \in [Records -> Ptrs \cup {NULL}]
  /\ unloadedList \in Seq(Records)
  /\ nalloc \in 0..MaxRecords
  /\ pc \in [Threads -> {"idle", "find", "alloc", "insert", "count"}]
  /\ want \in [Threads -> Ptrs]
  /\ prov \in [Threads -> Records \cup {NULL}]
  /\ got \in [Threads -> Records \cup {NULL}]
  /\ events \in 0..MaxEvents

Init ==
  /\ loaded = {}
  /\ classMap = [p \in Ptrs |-> Absent]
  /\ status = [r \in Records |-> "none"]
  /\ klassOop = [r \in Records |-> NULL]
  /\ unloadedList = <<>>
  /\ nalloc = 0
  /\ pc = [t \in Threads |-> "idle"]
  /\ want \in [Threads -> Ptrs]
  /\ prov = [t \in Threads |-> NULL]
  /\ got = [t \in Threads |-> NULL]
  /\ events = 0

Goto(t, l) == pc' = [pc EXCEPT ![t] = l]

Event == events < MaxEvents /\ events' = events + 1

\* The JVM is at a safepoint and no walker is inside a lookup.
Safepoint == \A t \in Threads : pc[t] = "idle"

\* Host pointers of records that popClass marked and commitClassChange
\* has not removed yet.
StalePtrs == {klassOop[r] : r \in {q \in Records : status[q] = "unloaded"}}

\* An address the JVM may put a class at.
Free(p) == p \notin loaded /\ (Reuse \/ p \notin StalePtrs)

\* Mutant: itr->second is read without the comparison with end().
FindClassNoEnd(m, p) == m[p]

(***************************************************************************)
(* findClass: classMap->find(klassOop); itr->second, or NULL at end().     *)
(***************************************************************************)
FindClass(m, p) == IF m[p] = Absent THEN NULL ELSE m[p]

\* Mutant: unsafe_erase(old) runs before old is read, so new gets NULL.
UpdateClassEraseFirst(m, old, new) ==
  [p \in DOMAIN m |-> IF p = old THEN Absent ELSE IF p = new THEN NULL ELSE m[p]]

(***************************************************************************)
(* updateClass: classMap[newKlassOop] = classMap[oldKlassOop] through     *)
(* operator[]; on a missing old key operator[] inserts NULL first; then   *)
(* unsafe_erase(oldKlassOop).                                              *)
(***************************************************************************)
UpdateClass(m, old, new) ==
  [p \in DOMAIN m |-> IF p = old THEN Absent
                      ELSE IF p = new THEN FindClass(m, old) ELSE m[p]]

-----------------------------------------------------------------------------
(***************************************************************************)
(* A walker meets an object whose class is at p.                           *)
(***************************************************************************)
BeginLookup(t, p) ==
  /\ pc[t] = "idle"
  /\ p \in loaded
  /\ Event
  /\ want' = [want EXCEPT ![t] = p]
  /\ Goto(t, "find")
  /\ UNCHANGED <<loaded, classMap, status, klassOop, unloadedList, nalloc, prov, got>>

\* objData = findClass(klassOop); a hit is counted, a miss builds a record.
Find(t) ==
  LET r == FindClass(classMap, want[t])
  IN  /\ pc[t] = "find"
      /\ got' = [got EXCEPT ![t] = r]
      /\ Goto(t, IF r = NULL THEN "alloc" ELSE "count")
      /\ UNCHANGED <<loaded, classMap, status, klassOop, unloadedList, nalloc,
                     want, prov, events>>

\* The provisional record (spec 4.1 intern, provisional fields).
Alloc(t) ==
  /\ pc[t] = "alloc"
  /\ nalloc < MaxRecords
  /\ nalloc' = nalloc + 1
  /\ status' = [status EXCEPT ![nalloc + 1] = "prov"]
  /\ klassOop' = [klassOop EXCEPT ![nalloc + 1] = want[t]]
  /\ prov' = [prov EXCEPT ![t] = nalloc + 1]
  /\ Goto(t, "insert")
  /\ UNCHANGED <<loaded, classMap, unloadedList, want, got, events>>

\* Allocation failure: the object is not counted (spec 4.1 Failure).
AllocFail(t) ==
  /\ pc[t] = "alloc"
  /\ Goto(t, "idle")
  /\ UNCHANGED <<loaded, classMap, status, klassOop, unloadedList, nalloc,
                 want, prov, got, events>>

(***************************************************************************)
(* pushNewClass(klassOop, objData): classMap->insert; when the key has an  *)
(* entry already the racing installer that lost frees its record and      *)
(* returns the one installed (spec 4.1 intern).                            *)
(***************************************************************************)
PushNewClass(t) ==
  LET p == want[t]
      r == prov[t]
  IN  /\ pc[t] = "insert"
      /\ IF classMap[p] = Absent
           THEN /\ classMap' = [classMap EXCEPT ![p] = r]
                /\ status' = [status EXCEPT ![r] = "live"]
                /\ got' = [got EXCEPT ![t] = r]
           ELSE /\ status' = [status EXCEPT ![r] = "freed"]
                /\ got' = [got EXCEPT ![t] = classMap[p]]
                /\ UNCHANGED classMap
      /\ prov' = [prov EXCEPT ![t] = NULL]
      /\ Goto(t, IF got'[t] = NULL THEN "idle" ELSE "count")
      /\ UNCHANGED <<loaded, klassOop, unloadedList, nalloc, want, events>>

\* The walker has counted the object into the record it got.
Counted(t) ==
  /\ pc[t] = "count"
  /\ got' = [got EXCEPT ![t] = NULL]
  /\ Goto(t, "idle")
  /\ UNCHANGED <<loaded, classMap, status, klassOop, unloadedList, nalloc,
                 want, prov, events>>

-----------------------------------------------------------------------------
(***************************************************************************)
(* The JVM loads a class at a free address.                                *)
(***************************************************************************)
LoadClass(p) ==
  /\ Safepoint /\ Event
  /\ Free(p)
  /\ loaded' = loaded \cup {p}
  /\ UNCHANGED <<classMap, status, klassOop, unloadedList, nalloc, pc, want, prov, got>>

(***************************************************************************)
(* The class at p is unloaded: popClass(findClass(p)) marks its record     *)
(* and queues it on unloadedList; the record stays in the index.           *)
(***************************************************************************)
PopClass(p) ==
  LET r == FindClass(classMap, p)
  IN  /\ Safepoint /\ Event
      /\ p \in loaded
      /\ loaded' = loaded \ {p}
      /\ IF r # NULL
           THEN /\ status' = [status EXCEPT ![r] = "unloaded"]
                /\ unloadedList' = Append(unloadedList, r)
           ELSE UNCHANGED <<status, unloadedList>>
      /\ UNCHANGED <<classMap, klassOop, nalloc, pc, want, prov, got>>

(***************************************************************************)
(* GC moves the class at old to new.  For a class it knows the agent sets  *)
(* the record's host pointer (spec 3, ClassRecord) and calls               *)
(* updateClass(old, new); a class never met keeps no entry to move.        *)
(***************************************************************************)
Relocate(old, new) ==
  LET r == FindClass(classMap, old)
  IN  /\ Safepoint /\ Event
      /\ old \in loaded /\ Free(new)
      /\ loaded' = (loaded \ {old}) \cup {new}
      /\ IF r # NULL
           THEN /\ klassOop' = [klassOop EXCEPT ![r] = new]
                /\ classMap' = UpdateClass(classMap, old, new)
           ELSE UNCHANGED <<klassOop, classMap>>
      /\ UNCHANGED <<status, unloadedList, nalloc, pc, want, prov, got>>

(***************************************************************************)
(* commitClassChange: pop every queued record and removeClass it, which    *)
(* erases the index entry at the record's host pointer and frees it.       *)
(***************************************************************************)
CommitClassChange ==
  LET gone == {unloadedList[i] : i \in 1..Len(unloadedList)}
      keys == {klassOop[r] : r \in gone}
  IN  /\ Safepoint /\ Event
      /\ unloadedList # <<>>
      /\ classMap' = [p \in Ptrs |-> IF p \in keys THEN Absent ELSE classMap[p]]
      /\ status' = [r \in Records |-> IF r \in gone THEN "freed" ELSE status[r]]
      /\ unloadedList' = <<>>
      /\ UNCHANGED <<loaded, klassOop, nalloc, pc, want, prov, got>>

\* Nothing is left to do.
Done ==
  /\ Safepoint /\ events = MaxEvents
  /\ UNCHANGED vars

Next ==
  \/ \E t \in Threads :
       \/ \E p \in Ptrs : BeginLookup(t, p)
       \/ Find(t) \/ Alloc(t) \/ AllocFail(t) \/ PushNewClass(t) \/ Counted(t)
  \/ \E p \in Ptrs : LoadClass(p) \/ PopClass(p)
  \/ \E old, new \in Ptrs : Relocate(old, new)
  \/ CommitClassChange
  \/ Done

Spec == Init /\ [][Next]_vars

-----------------------------------------------------------------------------
(***************************************************************************)
(* IndexExact (spec 3 invariant 6, 4.1, S5): the index and the records     *)
(* agree both ways across loads, unloads, moves and commits.  findClass of *)
(* a loaded class gives a live record of that class; every live record is  *)
(* what findClass gives at its host pointer; and the record a walker       *)
(* counts into (from findClass or pushNewClass) is the live record of the  *)
(* class it met.                                                           *)
(***************************************************************************)
IndexExact ==
  /\ \A p \in loaded :
       LET r == FindClass(classMap, p)
       IN  r # NULL => status[r] = "live" /\ klassOop[r] = p
  /\ \A r \in Records :
       status[r] = "live" => klassOop[r] \in loaded /\ classMap[klassOop[r]] = r
  /\ \A t \in Threads :
       pc[t] = "count" => status[got[t]] = "live" /\ klassOop[got[t]] = want[t]

=============================================================================
