--------------------------- MODULE SnapShotHeader ---------------------------
(***************************************************************************)
(* The TSnapShotFileHeader of one TSnapShotContainer (packed, 174 bytes)   *)
(* and the calls that write it: the constructor, setSnapShotTime,          *)
(* setSnapShotCause, setTotalSize and setJvmInfo.                          *)
(*                                                                         *)
(* A field is a byte range of the packed struct.  strcpy into gcCause[80]  *)
(* writes L + 1 bytes from offset 30 whatever L is, so a cause of L >= 80  *)
(* characters runs into the fields after the buffer; a field whose bytes   *)
(* it touches holds Garbage until something assigns it again.  The values  *)
(* the setters write are drawn from Vals; which value does not matter,     *)
(* only whether the field still holds what its setter wrote.               *)
(***************************************************************************)
EXTENDS Naturals

CONSTANTS
  CauseLens,   \* strlen(info->getGCCause()) the JVM may report
  Vals,        \* values the setters write
  Garbage,     \* the contents of a byte range nobody assigned as a field
  Unset,       \* ghost: the field has not been written by a setter
  MaxCalls     \* bound on setter calls

ASSUME ConstAssumption ==
  /\ CauseLens \subseteq Nat /\ CauseLens # {}
  /\ Vals # {} /\ Garbage \notin Vals /\ Unset \notin Vals \cup {Garbage}
  /\ MaxCalls \in Nat

\* TInvokeCause values; only GC matters to setJvmInfo.
Causes == {"GC", "Interval"}

\* Offset and width of every scalar field of the packed header.
Layout ==
  [snapShotTime |-> <<2, 8>>,   size |-> <<10, 8>>,       cause |-> <<18, 4>>,
   gcCauseLen |-> <<22, 8>>,    FGCCount |-> <<110, 8>>,  YGCCount |-> <<118, 8>>,
   gcWorktime |-> <<126, 8>>,   newAreaSize |-> <<134, 8>>,
   oldAreaSize |-> <<142, 8>>,  totalHeapSize |-> <<150, 8>>,
   metaspaceUsage |-> <<158, 8>>, metaspaceCapacity |-> <<166, 8>>]

Fields == DOMAIN Layout

GcCauseOffset == 30
GcCauseSize   == 80

\* The bytes of field f.
Bytes(f) == Layout[f][1] .. (Layout[f][1] + Layout[f][2] - 1)

VARIABLES
  hdr,       \* the header's scalar fields
  gcCause,   \* strlen of the string strcpy left at gcCause
  written,   \* ghost: the value each field's setter wrote last
  calls      \* setter calls made

vars == <<hdr, gcCause, written, calls>>

Contents == Vals \cup Causes \cup Nat \cup {Garbage}

TypeOK ==
  /\ hdr \in [Fields -> Contents]
  /\ gcCause \in Nat
  /\ written \in [Fields -> Contents \cup {Unset}]
  /\ calls \in 0..MaxCalls

(***************************************************************************)
(* The constructor: new leaves the members it does not assign              *)
(* uninitialised; it sets the time and size to 0 and memsets gcCause.      *)
(***************************************************************************)
Init ==
  /\ hdr = [f \in Fields |-> IF f \in {"snapShotTime", "size"} THEN 0 ELSE Garbage]
  /\ gcCause = 0
  /\ written = [f \in Fields |-> IF f \in {"snapShotTime", "size"} THEN 0 ELSE Unset]
  /\ calls = 0

\* Assign field f the value v, as a setter.
Assign(h, f, v) == [h EXCEPT ![f] = v]

Call == calls < MaxCalls /\ calls' = calls + 1

\* setSnapShotTime(t)
SetSnapShotTime(v) ==
  /\ Call
  /\ hdr' = Assign(hdr, "snapShotTime", v)
  /\ written' = Assign(written, "snapShotTime", v)
  /\ UNCHANGED gcCause

\* setSnapShotCause(cause)
SetSnapShotCause(c) ==
  /\ Call
  /\ hdr' = Assign(hdr, "cause", c)
  /\ written' = Assign(written, "cause", c)
  /\ UNCHANGED gcCause

\* setTotalSize(size), called from TakeSnapShot outside the GC entry.
SetTotalSize(v) ==
  /\ Call
  /\ hdr' = Assign(hdr, "totalHeapSize", v)
  /\ written' = Assign(written, "totalHeapSize", v)
  /\ UNCHANGED gcCause

\* The fields setJvmInfo assigns after the GC branch (lines 306-311).
InfoFields == {"FGCCount", "YGCCount", "newAreaSize", "oldAreaSize",
               "metaspaceUsage", "metaspaceCapacity"}

(***************************************************************************)
(* strcpy(gcCause, cause): the len characters and the NUL land on bytes    *)
(* 30 .. 30 + len; every field sharing one of them is overwritten.         *)
(***************************************************************************)
CopyCause(h, len) ==
  [f \in Fields |->
     IF Bytes(f) \cap (GcCauseOffset .. (GcCauseOffset + len)) # {}
       THEN Garbage ELSE h[f]]

\* Lines 306-311: the GC counts and area sizes from TJvmInfo.
SetInfoFields(h, v) == [f \in Fields |-> IF f \in InfoFields THEN v ELSE h[f]]

\* The ghost record of what setJvmInfo assigned.
Wrote(v, wt, cl) ==
  [f \in Fields |->
     IF f \in InfoFields THEN v
     ELSE IF f = "gcWorktime" THEN wt
     ELSE IF f = "gcCauseLen" THEN cl ELSE written[f]]

\* Mutant: the counts are assigned before the cause is copied.
JvmInfoGCCountsFirst(len, v) ==
  /\ hdr.cause \in {"GC", Garbage}
  /\ hdr' = Assign(Assign(CopyCause(SetInfoFields(hdr, v), len),
                          "gcCauseLen", len), "gcWorktime", v)
  /\ gcCause' = len
  /\ written' = Wrote(v, v, len)

(***************************************************************************)
(* setJvmInfo, cause == GC: strcpy the cause, gcCauseLen = strlen of the   *)
(* buffer, gcWorktime from info, then the counts and sizes.  An            *)
(* uninitialised cause may read as GC.                                     *)
(***************************************************************************)
JvmInfoGC(len, v) ==
  /\ hdr.cause \in {"GC", Garbage}
  /\ hdr' = SetInfoFields(Assign(Assign(CopyCause(hdr, len),
                                        "gcCauseLen", len), "gcWorktime", v), v)
  /\ gcCause' = len
  /\ written' = Wrote(v, v, len)

\* setJvmInfo, any other cause: gcCauseLen = 1, gcCause[0] = '\0',
\* gcWorktime = 0, then the counts and sizes.
JvmInfoNoGC(v) ==
  /\ hdr.cause # "GC"
  /\ hdr' = SetInfoFields(Assign(Assign(hdr, "gcCauseLen", 1), "gcWorktime", 0), v)
  /\ gcCause' = 0
  /\ written' = Wrote(v, 0, 1)

\* setJvmInfo(info), info not NULL (a NULL info only logs and returns).
SetJvmInfo(len, v) ==
  /\ Call
  /\ JvmInfoGC(len, v) \/ JvmInfoNoGC(v)

\* The snapshot is written and the caller makes no more calls.
Done ==
  /\ calls = MaxCalls
  /\ UNCHANGED vars

Next ==
  \/ \E v \in Vals : SetSnapShotTime(v) \/ SetTotalSize(v)
  \/ \E c \in Causes : SetSnapShotCause(c)
  \/ \E len \in CauseLens, v \in Vals : SetJvmInfo(len, v)
  \/ Done

Spec == Init /\ [][Next]_vars

-----------------------------------------------------------------------------
(***************************************************************************)
(* HeaderRoundTrip (spec 8, round-trip): every header field a setter has   *)
(* written still holds what it wrote, so reading the header back through  *)
(* the layout of spec 6 yields the values set -- strcpy of the GC cause    *)
(* included.                                                               *)
(***************************************************************************)
HeaderRoundTrip ==
  \A f \in Fields : written[f] # Unset => hdr[f] = written[f]

(***************************************************************************)
(* GcCauseWellFormed (spec 6): once setJvmInfo has run, gcCauseLen is at   *)
(* least 1 (1 encodes the empty cause) and the cause fits the 80-byte      *)
(* buffer; the string the buffer holds has that length, or is empty when   *)
(* the length is the 1 that encodes it.                                    *)
(***************************************************************************)
GcCauseWellFormed ==
  written.gcCauseLen # Unset =>
    /\ hdr.gcCauseLen \in 1..GcCauseSize
    /\ gcCause = hdr.gcCauseLen \/ (gcCause = 0 /\ hdr.gcCauseLen = 1)

=============================================================================
