------------------------- MODULE ClassRegistryProofs -------------------------
(***************************************************************************)
(* Proofs about ClassRegistry: when no address of an unloaded class takes  *)
(* a class again before commitClassChange (Reuse = FALSE), the index and   *)
(* the records agree (IndexExact) in every reachable state, for any number *)
(* of walkers, addresses and records.                                      *)
(***************************************************************************)
EXTENDS ClassRegistry, TLAPS

(***************************************************************************)
(* The inductive invariant.  IndexExact alone is not inductive: a move or  *)
(* a load needs to know that no unloaded record still owns the target     *)
(* address, a commit that the queued records are the unloaded ones, and   *)
(* an install that the walker's provisional record is fresh and its own.   *)
(***************************************************************************)
\* Records past nalloc have not been allocated.
Fresh == \A r \in Records : r > nalloc => status[r] = "none"

\* Every index entry is a published record whose host pointer is its key.
EntriesOwned ==
  \A p \in Ptrs : classMap[p] # Absent =>
    /\ classMap[p] \in Records
    /\ status[classMap[p]] \in {"live", "unloaded"}
    /\ klassOop[classMap[p]] = p

\* A live record is indexed at a loaded address.
LiveIndexed ==
  \A r \in Records : status[r] = "live" =>
    klassOop[r] \in loaded /\ classMap[klassOop[r]] = r

\* An unloaded record keeps its entry, at an address no class holds.
UnloadedIndexed ==
  \A r \in Records : status[r] = "unloaded" =>
    klassOop[r] \in Ptrs \ loaded /\ classMap[klassOop[r]] = r

\* unloadedList holds only unloaded records.
QueueUnloaded ==
  \A i \in 1..Len(unloadedList) : status[unloadedList[i]] = "unloaded"

\* What each walker holds.
WalkersHold ==
  \A t \in Threads :
    /\ pc[t] # "idle" => want[t] \in loaded
    /\ pc[t] = "insert" =>
         /\ prov[t] \in 1..nalloc
         /\ status[prov[t]] = "prov"
         /\ klassOop[prov[t]] = want[t]
    /\ pc[t] = "count" =>
         /\ got[t] \in Records
         /\ status[got[t]] = "live"
         /\ klassOop[got[t]] = want[t]

\* Two installers never share a provisional record.
ProvDistinct ==
  \A t, u \in Threads :
    t # u /\ pc[t] = "insert" /\ pc[u] = "insert" => prov[t] # prov[u]

IInv ==
  /\ TypeOK
  /\ Fresh
  /\ EntriesOwned
  /\ LiveIndexed
  /\ UnloadedIndexed
  /\ QueueUnloaded
  /\ WalkersHold
  /\ ProvDistinct

-----------------------------------------------------------------------------
USE ConstAssumption DEF NULL, Absent, Records

LEMMA InitIInv == Init => IInv
BY DEF Init, IInv, TypeOK, States, Fresh, EntriesOwned, LiveIndexed,
       UnloadedIndexed, QueueUnloaded, WalkersHold, ProvDistinct

(***************************************************************************)
(* A walker starts a lookup of a loaded class.                             *)
(***************************************************************************)
LEMMA BeginLookupIInv ==
  ASSUME IInv, NEW t \in Threads, NEW p \in Ptrs, BeginLookup(t, p)
  PROVE  IInv'
BY DEF BeginLookup, Goto, Event, IInv, TypeOK, Fresh, EntriesOwned, LiveIndexed,
       UnloadedIndexed, QueueUnloaded, WalkersHold, ProvDistinct

(***************************************************************************)
(* findClass of a loaded class gives a live record of that class.          *)
(***************************************************************************)
LEMMA FindIInv ==
  ASSUME IInv, NEW t \in Threads, Find(t)
  PROVE  IInv'
BY DEF Find, FindClass, Goto, IInv, TypeOK, Fresh, EntriesOwned, LiveIndexed,
       UnloadedIndexed, QueueUnloaded, WalkersHold, ProvDistinct

LEMMA AllocFailIInv ==
  ASSUME IInv, NEW t \in Threads, AllocFail(t)
  PROVE  IInv'
BY DEF AllocFail, Goto, IInv, TypeOK, Fresh, EntriesOwned, LiveIndexed,
       UnloadedIndexed, QueueUnloaded, WalkersHold, ProvDistinct

(***************************************************************************)
(* The provisional record is the first one never allocated, so no entry,   *)
(* no walker and no queue slot refers to it yet.                           *)
(***************************************************************************)
LEMMA AllocIInv ==
  ASSUME IInv, NEW t \in Threads, Alloc(t)
  PROVE  IInv'
<1> DEFINE n == nalloc + 1
<1>1. n \in Records /\ status[n] = "none" /\ nalloc' = n
  BY DEF Alloc, IInv, TypeOK, Fresh
<1>2. status' = [status EXCEPT ![n] = "prov"] /\ klassOop' = [klassOop EXCEPT ![n] = want[t]]
      /\ prov' = [prov EXCEPT ![t] = n] /\ pc' = [pc EXCEPT ![t] = "insert"]
      /\ UNCHANGED <<loaded, classMap, unloadedList, want, got, events>>
  BY DEF Alloc, Goto
<1>3. \A r \in Records : status[r] # "none" => r # n
  BY <1>1
<1>4. TypeOK'
  BY <1>1, <1>2 DEF IInv, TypeOK, States
<1>5. Fresh'
  BY <1>1, <1>2 DEF IInv, TypeOK, Fresh
<1>6. EntriesOwned'
  BY <1>2, <1>3 DEF IInv, TypeOK, EntriesOwned
<1>7. LiveIndexed' /\ UnloadedIndexed' /\ QueueUnloaded'
  BY <1>2, <1>3 DEF IInv, TypeOK, LiveIndexed, UnloadedIndexed, QueueUnloaded
<1>8. WalkersHold'
  BY <1>1, <1>2, <1>3 DEF Alloc, IInv, TypeOK, WalkersHold
<1>9. ProvDistinct'
  <2> SUFFICES ASSUME NEW u \in Threads, NEW v \in Threads, u # v,
                      pc'[u] = "insert", pc'[v] = "insert"
               PROVE  prov'[u] # prov'[v]
    BY DEF ProvDistinct
  <2>1. CASE u = t
    BY <1>1, <1>2, <2>1 DEF IInv, TypeOK, WalkersHold
  <2>2. CASE v = t
    BY <1>1, <1>2, <2>2 DEF IInv, TypeOK, WalkersHold
  <2>. QED
    BY <1>2, <2>1, <2>2 DEF IInv, TypeOK, ProvDistinct
<1>. QED
  BY <1>4, <1>5, <1>6, <1>7, <1>8, <1>9 DEF IInv

(***************************************************************************)
(* pushNewClass installs the provisional record at a free key, or frees it *)
(* and takes the record installed there, which is the live record of the  *)
(* class because the class is loaded.                                      *)
(***************************************************************************)
LEMMA PushNewClassIInv ==
  ASSUME IInv, NEW t \in Threads, PushNewClass(t)
  PROVE  IInv'
<1> DEFINE p == want[t]
           r == prov[t]
<1>1. pc[t] = "insert" /\ p \in loaded /\ r \in Records /\ status[r] = "prov"
      /\ klassOop[r] = p
  BY DEF PushNewClass, IInv, TypeOK, WalkersHold
<1>2. \A q \in Ptrs : classMap[q] # r
  <2> SUFFICES ASSUME NEW q \in Ptrs, classMap[q] = r PROVE FALSE
    OBVIOUS
  <2>1. status[classMap[q]] \in {"live", "unloaded"}
    BY <1>1 DEF IInv, EntriesOwned
  <2>. QED
    BY <1>1, <2>1
<1>3. \A u \in Threads : u # t /\ pc[u] \in {"insert", "count"} =>
        (pc[u] = "insert" => prov[u] # r) /\ (pc[u] = "count" => got[u] # r)
  BY <1>1 DEF IInv, ProvDistinct, WalkersHold
<1>4. CASE classMap[p] = Absent
  <2>a. classMap' = [classMap EXCEPT ![p] = r] /\ status' = [status EXCEPT ![r] = "live"]
        /\ got' = [got EXCEPT ![t] = r] /\ prov' = [prov EXCEPT ![t] = NULL]
        /\ UNCHANGED <<loaded, klassOop, unloadedList, nalloc, want, events>>
    BY <1>4 DEF PushNewClass
  <2>b. got'[t] = r /\ r # NULL
    BY <1>1, <2>a DEF IInv, TypeOK
  <2>1. classMap' = [classMap EXCEPT ![p] = r] /\ status' = [status EXCEPT ![r] = "live"]
        /\ got' = [got EXCEPT ![t] = r] /\ pc' = [pc EXCEPT ![t] = "count"]
        /\ prov' = [prov EXCEPT ![t] = NULL]
        /\ UNCHANGED <<loaded, klassOop, unloadedList, nalloc, want, events>>
    BY <2>a, <2>b DEF PushNewClass, Goto
  <2>2. TypeOK'
    <3>1. status' \in [Records -> States] /\ classMap' \in [Ptrs -> Records \cup {NULL, Absent}]
      BY <1>1, <2>1 DEF IInv, TypeOK, States
    <3>2. got' \in [Threads -> Records \cup {NULL}] /\ prov' \in [Threads -> Records \cup {NULL}]
      BY <1>1, <2>1 DEF IInv, TypeOK
    <3>3. pc' \in [Threads -> {"idle", "find", "alloc", "insert", "count"}]
      BY <2>1 DEF IInv, TypeOK
    <3>. QED
      BY <2>1, <3>1, <3>2, <3>3 DEF IInv, TypeOK
  <2>3. Fresh'
    BY <1>1, <2>1 DEF IInv, TypeOK, Fresh
  <2>4. EntriesOwned'
    BY <1>1, <2>1 DEF IInv, TypeOK, EntriesOwned
  <2>5. LiveIndexed'
    BY <1>1, <1>2, <1>4, <2>1 DEF IInv, TypeOK, LiveIndexed, EntriesOwned
  <2>6. UnloadedIndexed' /\ QueueUnloaded'
    BY <1>1, <1>4, <2>1 DEF IInv, TypeOK, UnloadedIndexed, QueueUnloaded
  <2>7. WalkersHold'
    BY <1>1, <1>3, <2>1 DEF IInv, TypeOK, WalkersHold
  <2>8. ProvDistinct'
    BY <2>1 DEF IInv, TypeOK, ProvDistinct
  <2>. QED
    BY <2>2, <2>3, <2>4, <2>5, <2>6, <2>7, <2>8 DEF IInv
<1>5. CASE classMap[p] # Absent
  <2>0. classMap[p] \in Records /\ status[classMap[p]] = "live" /\ klassOop[classMap[p]] = p
    BY <1>1, <1>5 DEF IInv, TypeOK, EntriesOwned, UnloadedIndexed
  <2>a. status' = [status EXCEPT ![r] = "freed"]
        /\ got' = [got EXCEPT ![t] = classMap[p]] /\ prov' = [prov EXCEPT ![t] = NULL]
        /\ UNCHANGED <<loaded, classMap, klassOop, unloadedList, nalloc, want, events>>
    BY <1>5 DEF PushNewClass
  <2>b. got'[t] = classMap[p] /\ classMap[p] # NULL
    BY <2>0, <2>a DEF IInv, TypeOK
  <2>1. status' = [status EXCEPT ![r] = "freed"]
        /\ got' = [got EXCEPT ![t] = classMap[p]] /\ pc' = [pc EXCEPT ![t] = "count"]
        /\ prov' = [prov EXCEPT ![t] = NULL]
        /\ UNCHANGED <<loaded, classMap, klassOop, unloadedList, nalloc, want, events>>
    BY <2>a, <2>b DEF PushNewClass, Goto
  <2>2. TypeOK'
    <3>1. status' \in [Records -> States]
      BY <1>1, <2>1 DEF IInv, TypeOK, States
    <3>2. got' \in [Threads -> Records \cup {NULL}] /\ prov' \in [Threads -> Records \cup {NULL}]
      BY <2>0, <2>1 DEF IInv, TypeOK
    <3>3. pc' \in [Threads -> {"idle", "find", "alloc", "insert", "count"}]
      BY <2>1 DEF IInv, TypeOK
    <3>. QED
      BY <2>1, <3>1, <3>2, <3>3 DEF IInv, TypeOK
  <2>3. Fresh'
    BY <1>1, <2>1 DEF IInv, TypeOK, Fresh
  <2>4. EntriesOwned' /\ LiveIndexed' /\ UnloadedIndexed' /\ QueueUnloaded'
    BY <1>1, <1>2, <2>1 DEF IInv, TypeOK, EntriesOwned, LiveIndexed, UnloadedIndexed,
                            QueueUnloaded
  <2>5. WalkersHold'
    BY <1>1, <1>3, <2>0, <2>1 DEF IInv, TypeOK, WalkersHold
  <2>6. ProvDistinct'
    BY <2>1 DEF IInv, TypeOK, ProvDistinct
  <2>. QED
    BY <2>2, <2>3, <2>4, <2>5, <2>6 DEF IInv
<1>. QED
  BY <1>4, <1>5

LEMMA CountedIInv ==
  ASSUME IInv, NEW t \in Threads, Counted(t)
  PROVE  IInv'
BY DEF Counted, Goto, IInv, TypeOK, Fresh, EntriesOwned, LiveIndexed,
       UnloadedIndexed, QueueUnloaded, WalkersHold, ProvDistinct

(***************************************************************************)
(* At a safepoint every walker is idle, so WalkersHold and ProvDistinct    *)
(* hold whatever the JVM event does to the index.                          *)
(***************************************************************************)
LEMMA SafepointWalkers ==
  ASSUME TypeOK, Safepoint, UNCHANGED <<pc, want, prov, got>>
  PROVE  WalkersHold' /\ ProvDistinct'
BY DEF Safepoint, WalkersHold, ProvDistinct, TypeOK

(***************************************************************************)
(* A load at an address that no live or unloaded record owns.              *)
(***************************************************************************)
LEMMA LoadClassIInv ==
  ASSUME ~Reuse, IInv, NEW p \in Ptrs, LoadClass(p)
  PROVE  IInv'
<1>1. p \notin loaded /\ \A r \in Records : status[r] = "unloaded" => klassOop[r] # p
  BY DEF LoadClass, Free, StalePtrs
<1>2. loaded' = loaded \cup {p}
      /\ UNCHANGED <<classMap, status, klassOop, unloadedList, nalloc, pc, want, prov, got>>
  BY DEF LoadClass
<1>3. TypeOK'
  BY <1>2 DEF LoadClass, Event, IInv, TypeOK
<1>4. Fresh' /\ EntriesOwned' /\ LiveIndexed' /\ QueueUnloaded'
  BY <1>2 DEF IInv, Fresh, EntriesOwned, LiveIndexed, QueueUnloaded
<1>5. UnloadedIndexed'
  BY <1>1, <1>2 DEF IInv, UnloadedIndexed
<1>6. WalkersHold' /\ ProvDistinct'
  BY <1>2, SafepointWalkers DEF LoadClass, IInv
<1>. QED
  BY <1>3, <1>4, <1>5, <1>6 DEF IInv

(***************************************************************************)
(* popClass(findClass(p)): the record found at a loaded address is live;   *)
(* it becomes unloaded, keeps its entry and joins the queue.               *)
(***************************************************************************)
LEMMA PopClassIInv ==
  ASSUME IInv, NEW p \in Ptrs, PopClass(p)
  PROVE  IInv'
<1> DEFINE r == FindClass(classMap, p)
<1>1. p \in loaded /\ loaded' = loaded \ {p}
      /\ UNCHANGED <<classMap, klassOop, nalloc, pc, want, prov, got>>
  BY DEF PopClass
<1>2. WalkersHold' /\ ProvDistinct'
  BY <1>1, SafepointWalkers DEF PopClass, IInv
<1>3. TypeOK'
  <2>1. CASE r = NULL
    BY <1>1, <2>1 DEF PopClass, Event, IInv, TypeOK
  <2>2. CASE r # NULL
    <3>1. r \in Records
      BY <2>2 DEF FindClass, IInv, TypeOK, EntriesOwned
    <3>2. status' = [status EXCEPT ![r] = "unloaded"] /\ unloadedList' = Append(unloadedList, r)
      BY <2>2 DEF PopClass
    <3>. QED
      BY <1>1, <3>1, <3>2 DEF PopClass, Event, IInv, TypeOK, States
  <2>. QED
    BY <2>1, <2>2
<1>4. CASE r = NULL
  <2>1. UNCHANGED <<status, unloadedList>>
    BY <1>4 DEF PopClass
  <2>2. \A q \in Records : status[q] = "live" => klassOop[q] # p
    BY <1>4 DEF FindClass, IInv, TypeOK, LiveIndexed
  <2>. QED
    BY <1>1, <1>2, <1>3, <2>1, <2>2 DEF IInv, Fresh, EntriesOwned, LiveIndexed,
                                     UnloadedIndexed, QueueUnloaded
<1>5. CASE r # NULL
  <2>1. r = classMap[p] /\ r \in Records /\ klassOop[r] = p
    BY <1>5 DEF FindClass, IInv, TypeOK, EntriesOwned
  <2>2. status[r] = "live"
    BY <1>1, <2>1 DEF IInv, TypeOK, EntriesOwned, UnloadedIndexed
  <2>3. status' = [status EXCEPT ![r] = "unloaded"] /\ unloadedList' = Append(unloadedList, r)
    BY <1>5 DEF PopClass
  <2>4. \A q \in Records : q # r /\ status[q] = "live" => klassOop[q] # p
    BY <2>1 DEF IInv, TypeOK, LiveIndexed
  <2>5. Fresh' /\ EntriesOwned'
    BY <1>1, <2>1, <2>2, <2>3 DEF IInv, TypeOK, Fresh, EntriesOwned
  <2>6. LiveIndexed'
    BY <1>1, <2>1, <2>3, <2>4 DEF IInv, TypeOK, LiveIndexed
  <2>7. UnloadedIndexed'
    BY <1>1, <2>1, <2>3 DEF IInv, TypeOK, UnloadedIndexed
  <2>8. QueueUnloaded'
    <3> SUFFICES ASSUME NEW i \in 1..Len(unloadedList')
                 PROVE  status'[unloadedList'[i]] = "unloaded"
      BY DEF QueueUnloaded
    <3>1. Len(unloadedList') = Len(unloadedList) + 1
      BY <2>1, <2>3 DEF IInv, TypeOK
    <3>2. CASE i = Len(unloadedList) + 1
      BY <2>1, <2>3, <3>2 DEF IInv, TypeOK
    <3>3. CASE i \in 1..Len(unloadedList)
      <4>1. unloadedList'[i] = unloadedList[i] /\ unloadedList[i] \in Records
        BY <2>1, <2>3, <3>3 DEF IInv, TypeOK
      <4>2. status[unloadedList[i]] = "unloaded"
        BY <3>3 DEF IInv, QueueUnloaded
      <4>. QED
        BY <2>1, <2>3, <4>1, <4>2 DEF IInv, TypeOK
    <3>. QED
      BY <3>1, <3>2, <3>3
  <2>. QED
    BY <1>2, <1>3, <2>5, <2>6, <2>7, <2>8 DEF IInv
<1>. QED
  BY <1>4, <1>5

(***************************************************************************)
(* A move of a loaded class to an address that no record owns: the class's *)
(* record, if it has one, is the only one whose key changes.               *)
(***************************************************************************)
LEMMA RelocateIInv ==
  ASSUME ~Reuse, IInv, NEW old \in Ptrs, NEW new \in Ptrs, Relocate(old, new)
  PROVE  IInv'
<1> DEFINE r == FindClass(classMap, old)
<1>1. old \in loaded /\ new \notin loaded /\ new # old
      /\ (\A q \in Records : status[q] = "unloaded" => klassOop[q] # new)
      /\ loaded' = (loaded \ {old}) \cup {new}
      /\ UNCHANGED <<status, unloadedList, nalloc, pc, want, prov, got>>
  BY DEF Relocate, Free, StalePtrs
<1>2. WalkersHold' /\ ProvDistinct'
  BY <1>1, SafepointWalkers DEF Relocate, IInv
<1>3. \A q \in Records : status[q] = "live" => klassOop[q] # new
  BY <1>1 DEF IInv, LiveIndexed
<1>4. CASE r = NULL
  <2>1. UNCHANGED <<klassOop, classMap>>
    BY <1>4 DEF Relocate
  <2>2. \A q \in Records : status[q] = "live" => klassOop[q] # old
    BY <1>4 DEF FindClass, IInv, TypeOK, LiveIndexed
  <2>3. TypeOK'
    BY <1>1, <2>1 DEF Relocate, Event, IInv, TypeOK
  <2>4. Fresh' /\ EntriesOwned' /\ QueueUnloaded'
    BY <1>1, <2>1 DEF IInv, Fresh, EntriesOwned, QueueUnloaded
  <2>5. LiveIndexed'
    BY <1>1, <2>1, <2>2 DEF IInv, LiveIndexed
  <2>6. UnloadedIndexed'
    BY <1>1, <2>1 DEF IInv, UnloadedIndexed
  <2>. QED
    BY <1>2, <2>3, <2>4, <2>5, <2>6 DEF IInv
<1>5. CASE r # NULL
  <2>1. r = classMap[old] /\ r \in Records /\ klassOop[r] = old /\ status[r] = "live"
    BY <1>1, <1>5 DEF FindClass, IInv, TypeOK, EntriesOwned, UnloadedIndexed
  <2>2. klassOop' = [klassOop EXCEPT ![r] = new]
        /\ classMap' = [q \in Ptrs |-> IF q = old THEN Absent
                                       ELSE IF q = new THEN r ELSE classMap[q]]
    BY <1>5, <2>1 DEF Relocate, UpdateClass, FindClass, IInv, TypeOK
  <2>3. \A q \in Records : q # r /\ status[q] \in {"live", "unloaded"} =>
          klassOop[q] \notin {old, new}
    BY <1>1, <1>3, <2>1 DEF IInv, TypeOK, LiveIndexed, UnloadedIndexed
  <2>4. TypeOK'
    BY <1>1, <2>1, <2>2 DEF Relocate, Event, IInv, TypeOK
  <2>5. Fresh' /\ QueueUnloaded'
    BY <1>1 DEF IInv, Fresh, QueueUnloaded
  <2>6. EntriesOwned'
    <3> SUFFICES ASSUME NEW q \in Ptrs, classMap'[q] # Absent
                 PROVE  /\ classMap'[q] \in Records
                        /\ status'[classMap'[q]] \in {"live", "unloaded"}
                        /\ klassOop'[classMap'[q]] = q
      BY DEF EntriesOwned
    <3>1. CASE q = new
      BY <1>1, <2>1, <2>2, <3>1 DEF IInv, TypeOK
    <3>2. CASE q # new
      <4>1. q # old /\ classMap'[q] = classMap[q] /\ classMap[q] # Absent
        BY <2>2, <3>2
      <4>2. classMap[q] \in Records /\ status[classMap[q]] \in {"live", "unloaded"}
            /\ klassOop[classMap[q]] = q
        BY <4>1 DEF IInv, EntriesOwned
      <4>3. classMap[q] # r
        BY <2>1, <4>1, <4>2
      <4>. QED
        BY <1>1, <2>2, <4>1, <4>2, <4>3 DEF IInv, TypeOK
    <3>. QED
      BY <3>1, <3>2
  <2>7. LiveIndexed'
    <3> SUFFICES ASSUME NEW q \in Records, status'[q] = "live"
                 PROVE  klassOop'[q] \in loaded' /\ classMap'[klassOop'[q]] = q
      BY DEF LiveIndexed
    <3>1. CASE q = r
      BY <1>1, <2>1, <2>2, <3>1 DEF IInv, TypeOK
    <3>2. CASE q # r
      <4>1. status[q] = "live" /\ klassOop'[q] = klassOop[q]
            /\ klassOop[q] \notin {old, new}
        BY <1>1, <2>2, <2>3, <3>2 DEF IInv, TypeOK
      <4>. QED
        BY <1>1, <2>2, <4>1 DEF IInv, TypeOK, LiveIndexed
    <3>. QED
      BY <3>1, <3>2
  <2>8. UnloadedIndexed'
    <3> SUFFICES ASSUME NEW q \in Records, status'[q] = "unloaded"
                 PROVE  klassOop'[q] \in Ptrs \ loaded' /\ classMap'[klassOop'[q]] = q
      BY DEF UnloadedIndexed
    <3>1. q # r /\ status[q] = "unloaded"
      BY <1>1, <2>1
    <3>2. klassOop'[q] = klassOop[q] /\ klassOop[q] \notin {old, new}
      BY <2>2, <2>3, <3>1 DEF IInv, TypeOK
    <3>. QED
      BY <1>1, <2>2, <3>1, <3>2 DEF IInv, TypeOK, UnloadedIndexed
  <2>. QED
    BY <1>2, <2>4, <2>5, <2>6, <2>7, <2>8 DEF IInv
<1>. QED
  BY <1>4, <1>5

(***************************************************************************)
(* commitClassChange frees the queued records and erases their keys; the   *)
(* keys are addresses no class holds, so no live record loses its entry.   *)
(***************************************************************************)
LEMMA CommitIInv ==
  ASSUME IInv, CommitClassChange
  PROVE  IInv'
<1> DEFINE gone == {unloadedList[i] : i \in 1..Len(unloadedList)}
           keys == {klassOop[q] : q \in gone}
<1>1. classMap' = [p \in Ptrs |-> IF p \in keys THEN Absent ELSE classMap[p]]
      /\ status' = [q \in Records |-> IF q \in gone THEN "freed" ELSE status[q]]
      /\ unloadedList' = <<>>
      /\ UNCHANGED <<loaded, klassOop, nalloc, pc, want, prov, got>>
  BY DEF CommitClassChange
<1>2. gone \subseteq Records /\ \A g \in gone : status[g] = "unloaded"
  BY DEF IInv, TypeOK, QueueUnloaded
<1>3. \A g \in gone : klassOop[g] \notin loaded /\ classMap[klassOop[g]] = g
  BY <1>2 DEF IInv, UnloadedIndexed
<1>4. WalkersHold' /\ ProvDistinct'
  BY <1>1, SafepointWalkers DEF CommitClassChange, IInv
<1>5. TypeOK'
  BY <1>1, <1>2 DEF CommitClassChange, Event, IInv, TypeOK, States
<1>6. Fresh'
  BY <1>1, <1>2 DEF IInv, TypeOK, Fresh
<1>7. EntriesOwned'
  <2> SUFFICES ASSUME NEW p \in Ptrs, classMap'[p] # Absent
               PROVE  /\ classMap'[p] \in Records
                      /\ status'[classMap'[p]] \in {"live", "unloaded"}
                      /\ klassOop'[classMap'[p]] = p
    BY DEF EntriesOwned
  <2>1. p \notin keys /\ classMap'[p] = classMap[p] /\ classMap[p] # Absent
    BY <1>1
  <2>2. classMap[p] \in Records /\ status[classMap[p]] \in {"live", "unloaded"}
        /\ klassOop[classMap[p]] = p
    BY <2>1 DEF IInv, EntriesOwned
  <2>3. classMap[p] \notin gone
    BY <2>1, <2>2
  <2>. QED
    BY <1>1, <2>1, <2>2, <2>3
<1>8. LiveIndexed'
  <2> SUFFICES ASSUME NEW q \in Records, status'[q] = "live"
               PROVE  klassOop'[q] \in loaded' /\ classMap'[klassOop'[q]] = q
    BY DEF LiveIndexed
  <2>1. q \notin gone /\ status[q] = "live"
    BY <1>1
  <2>2. klassOop[q] \in loaded /\ classMap[klassOop[q]] = q
    BY <2>1 DEF IInv, LiveIndexed
  <2>3. klassOop[q] \notin keys
    BY <1>3, <2>2
  <2>. QED
    BY <1>1, <2>2, <2>3 DEF IInv, TypeOK
<1>9. UnloadedIndexed'
  <2> SUFFICES ASSUME NEW q \in Records, status'[q] = "unloaded"
               PROVE  klassOop'[q] \in Ptrs \ loaded' /\ classMap'[klassOop'[q]] = q
    BY DEF UnloadedIndexed
  <2>1. q \notin gone /\ status[q] = "unloaded"
    BY <1>1
  <2>2. klassOop[q] \in Ptrs \ loaded /\ classMap[klassOop[q]] = q
    BY <2>1 DEF IInv, UnloadedIndexed
  <2>3. klassOop[q] \notin keys
    BY <1>3, <2>1, <2>2
  <2>. QED
    BY <1>1, <2>2, <2>3 DEF IInv, TypeOK
<1>10. QueueUnloaded'
  BY <1>1 DEF QueueUnloaded
<1>. QED
  BY <1>4, <1>5, <1>6, <1>7, <1>8, <1>9, <1>10 DEF IInv

LEMMA NextIInv ==
  ASSUME ~Reuse, IInv, [Next]_vars
  PROVE  IInv'
<1>1. CASE \E t \in Threads :
             \/ \E p \in Ptrs : BeginLookup(t, p)
             \/ Find(t) \/ Alloc(t) \/ AllocFail(t) \/ PushNewClass(t) \/ Counted(t)
  BY <1>1, BeginLookupIInv, FindIInv, AllocIInv, AllocFailIInv, PushNewClassIInv,
     CountedIInv
<1>2. CASE \E p \in Ptrs : LoadClass(p) \/ PopClass(p)
  BY <1>2, LoadClassIInv, PopClassIInv
<1>3. CASE \E old, new \in Ptrs : Relocate(old, new)
  BY <1>3, RelocateIInv
<1>4. CASE CommitClassChange
  BY <1>4, CommitIInv
<1>5. CASE Done \/ UNCHANGED vars
  BY <1>5 DEF Done, vars, IInv, TypeOK, Fresh, EntriesOwned, LiveIndexed,
              UnloadedIndexed, QueueUnloaded, WalkersHold, ProvDistinct
<1>. QED
  BY <1>1, <1>2, <1>3, <1>4, <1>5 DEF Next

(***************************************************************************)
(* IInv holds in every reachable state when addresses of unloaded classes  *)
(* are not reused before commitClassChange.                                *)
(***************************************************************************)
THEOREM RegistryIInv == ~Reuse => (Spec => []IInv)
<1> SUFFICES ASSUME ~Reuse PROVE Spec => []IInv
  OBVIOUS
<1>1. Init => IInv
  BY InitIInv
<1>2. IInv /\ [Next]_vars => IInv'
  BY NextIInv
<1>. QED
  BY <1>1, <1>2, PTL DEF Spec

LEMMA IInvExact == IInv => IndexExact
BY DEF IInv, IndexExact, FindClass, EntriesOwned, LiveIndexed, UnloadedIndexed,
       WalkersHold, TypeOK

(***************************************************************************)
(* IndexExact for every number of walkers, addresses and records: with no  *)
(* address reuse before commitClassChange, findClass, pushNewClass,        *)
(* popClass, updateClass and removeClass keep the index and the records   *)
(* in agreement, so a walker always counts into the live record of the    *)
(* class it met and a moved class keeps its record.                        *)
(***************************************************************************)
THEOREM IndexExactInvariant == ~Reuse => (Spec => []IndexExact)
BY RegistryIInv, IInvExact, PTL

(***************************************************************************)
(* Type correctness of the registry under the same condition.              *)
(***************************************************************************)
THEOREM RegistryTypeCorrect == ~Reuse => (Spec => []TypeOK)
BY RegistryIInv, PTL DEF IInv

=============================================================================
