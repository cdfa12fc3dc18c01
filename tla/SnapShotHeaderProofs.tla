------------------------- MODULE SnapShotHeaderProofs -------------------------
(***************************************************************************)
(* Proofs about the snapshot header.  strcpy into gcCause[80] is unbounded *)
(* (the header_overrun run), yet a cause of up to 119 characters leaves    *)
(* every field as its setter wrote it: the bytes it spills into belong to *)
(* fields that setJvmInfo assigns after the copy.  The first length that   *)
(* reaches a field nobody assigns again, totalHeapSize at byte 150, is     *)
(* 120.                                                                    *)
(***************************************************************************)
EXTENDS SnapShotHeader, TLAPS

\* The longest cause whose spill setJvmInfo repairs.
MaxRepairedLen == 119

\* The fields setJvmInfo does not assign: what the copy must leave alone.
KeptFields == {"snapShotTime", "size", "cause", "totalHeapSize"}

-----------------------------------------------------------------------------
USE ConstAssumption

LEMMA FieldsSplit ==
  Fields = InfoFields \cup {"gcWorktime", "gcCauseLen"} \cup KeptFields
BY DEF Fields, Layout, InfoFields, KeptFields

\* The copy of a cause of at most 119 characters misses the kept fields.
LEMMA CopyKeeps ==
  ASSUME NEW h, NEW len \in 0..MaxRepairedLen, NEW f \in KeptFields
  PROVE  CopyCause(h, len)[f] = h[f]
<1>1. Bytes(f) \cap (GcCauseOffset .. (GcCauseOffset + len)) = {}
  BY DEF KeptFields, Bytes, Layout, GcCauseOffset, MaxRepairedLen
<1>2. f \in Fields
  BY FieldsSplit
<1>3. QED
  BY <1>1, <1>2 DEF CopyCause

\* setJvmInfo's writes: the assigned fields hold what Wrote records, and
\* the kept fields are untouched.
LEMMA JvmInfoRoundTrip ==
  ASSUME TypeOK, HeaderRoundTrip, NEW len \in 0..MaxRepairedLen, NEW v \in Vals,
         JvmInfoGC(len, v) \/ JvmInfoNoGC(v)
  PROVE  HeaderRoundTrip'
<1> SUFFICES ASSUME NEW f \in Fields, written'[f] # Unset
             PROVE  hdr'[f] = written'[f]
  BY DEF HeaderRoundTrip
<1>0. hdr \in [Fields -> Contents] /\ written \in [Fields -> Contents \cup {Unset}]
  BY DEF TypeOK
<1>1. CASE f \in InfoFields \cup {"gcWorktime", "gcCauseLen"}
  <2>1. CASE f \in InfoFields
    BY <1>0, <2>1 DEF JvmInfoGC, JvmInfoNoGC, SetInfoFields, Assign, Wrote
  <2>2. CASE f = "gcWorktime"
    BY <1>0, <2>2 DEF JvmInfoGC, JvmInfoNoGC, SetInfoFields, Assign, Wrote,
                      CopyCause, InfoFields
  <2>3. CASE f = "gcCauseLen"
    BY <1>0, <2>3 DEF JvmInfoGC, JvmInfoNoGC, SetInfoFields, Assign, Wrote,
                      CopyCause, InfoFields
  <2>4. QED
    BY <1>1, <2>1, <2>2, <2>3
<1>2. CASE f \in KeptFields
  <2>1. f \notin InfoFields /\ f # "gcWorktime" /\ f # "gcCauseLen"
    BY <1>2 DEF KeptFields, InfoFields
  <2>2. written'[f] = written[f]
    BY <2>1 DEF JvmInfoGC, JvmInfoNoGC, Wrote
  <2>3. hdr'[f] = hdr[f]
    <3>1. CASE JvmInfoGC(len, v)
      <4>1. hdr'[f] = CopyCause(hdr, len)[f]
        BY <3>1, <2>1 DEF JvmInfoGC, SetInfoFields, Assign, CopyCause
      <4>2. QED
        BY <4>1, <1>2, CopyKeeps
    <3>2. CASE JvmInfoNoGC(v)
      BY <1>0, <1>2, <3>2, <2>1, FieldsSplit DEF JvmInfoNoGC, SetInfoFields, Assign
    <3>3. QED
      BY <3>1, <3>2
  <2>4. QED
    BY <2>2, <2>3 DEF HeaderRoundTrip
<1>3. QED
  BY <1>1, <1>2, FieldsSplit

LEMMA InitRoundTrip == Init => HeaderRoundTrip
BY DEF Init, HeaderRoundTrip

\* The setters assign the field and its record together.
LEMMA SetterRoundTrip ==
  ASSUME TypeOK, HeaderRoundTrip, NEW f, NEW v,
         hdr' = Assign(hdr, f, v), written' = Assign(written, f, v)
  PROVE  HeaderRoundTrip'
BY DEF TypeOK, HeaderRoundTrip, Assign

LEMMA InitType == Init => TypeOK
BY DEF Init, TypeOK, Contents

\* Every setter and setJvmInfo write values of the header's types.
LEMMA NextType ==
  ASSUME TypeOK, [Next]_vars
  PROVE  TypeOK'
<1>1. ASSUME NEW f \in Fields, NEW x \in Contents, hdr' = Assign(hdr, f, x),
             written' = Assign(written, f, x), UNCHANGED gcCause, Call
      PROVE  TypeOK'
  BY <1>1 DEF TypeOK, Assign, Call
<1>2. ASSUME NEW len \in CauseLens, NEW v \in Vals, SetJvmInfo(len, v)
      PROVE  TypeOK'
  <2>1. len \in Nat /\ v \in Contents /\ {0, 1, len, Garbage} \subseteq Contents
    BY DEF Contents
  <2>2. CopyCause(hdr, len) \in [Fields -> Contents]
    BY <2>1 DEF CopyCause, TypeOK
  <2>3. \A h \in [Fields -> Contents], x \in Contents, f \in Fields :
          Assign(h, f, x) \in [Fields -> Contents] /\ SetInfoFields(h, x) \in [Fields -> Contents]
    BY DEF Assign, SetInfoFields
  <2>4. hdr' \in [Fields -> Contents]
    <3>1. "gcCauseLen" \in Fields /\ "gcWorktime" \in Fields
      BY DEF Fields, Layout
    <3>2. CASE JvmInfoGC(len, v)
      <4>1. Assign(CopyCause(hdr, len), "gcCauseLen", len) \in [Fields -> Contents]
        BY <2>1, <2>2, <2>3, <3>1
      <4>2. Assign(Assign(CopyCause(hdr, len), "gcCauseLen", len), "gcWorktime", v)
              \in [Fields -> Contents]
        BY <2>1, <2>3, <3>1, <4>1
      <4>3. QED
        BY <2>1, <3>2, <4>2 DEF JvmInfoGC, SetInfoFields
    <3>3. CASE JvmInfoNoGC(v)
      <4>1. Assign(hdr, "gcCauseLen", 1) \in [Fields -> Contents]
        BY <2>1, <2>3, <3>1 DEF TypeOK
      <4>2. Assign(Assign(hdr, "gcCauseLen", 1), "gcWorktime", 0) \in [Fields -> Contents]
        BY <2>1, <2>3, <3>1, <4>1
      <4>3. QED
        BY <2>1, <3>3, <4>2 DEF JvmInfoNoGC, SetInfoFields
    <3>4. QED
      BY <1>2, <3>2, <3>3 DEF SetJvmInfo
  <2>5. written' \in [Fields -> Contents \cup {Unset}]
    BY <1>2, <2>1 DEF SetJvmInfo, JvmInfoGC, JvmInfoNoGC, Wrote, TypeOK
  <2>6. gcCause' \in Nat /\ calls' \in 0..MaxCalls
    BY <1>2, <2>1 DEF SetJvmInfo, JvmInfoGC, JvmInfoNoGC, Call, TypeOK
  <2>7. QED
    BY <2>4, <2>5, <2>6 DEF TypeOK
<1>3. \A v \in Vals \cup Causes : v \in Contents
  BY DEF Contents
<1>4. {"snapShotTime", "totalHeapSize", "cause"} \subseteq Fields
  BY DEF Fields, Layout
<1>5. CASE \E v \in Vals : SetSnapShotTime(v) \/ SetTotalSize(v)
  BY <1>1, <1>3, <1>4, <1>5 DEF SetSnapShotTime, SetTotalSize
<1>6. CASE \E c \in Causes : SetSnapShotCause(c)
  BY <1>1, <1>3, <1>4, <1>6 DEF SetSnapShotCause
<1>7. CASE Done \/ UNCHANGED vars
  BY <1>7 DEF Done, vars, TypeOK
<1>8. QED
  BY <1>2, <1>5, <1>6, <1>7 DEF Next

LEMMA NextRoundTrip ==
  ASSUME CauseLens \subseteq 0..MaxRepairedLen, TypeOK, HeaderRoundTrip,
         [Next]_vars
  PROVE  HeaderRoundTrip'
<1>1. ASSUME NEW v \in Vals, SetSnapShotTime(v) \/ SetTotalSize(v)
      PROVE  HeaderRoundTrip'
  BY <1>1, SetterRoundTrip DEF SetSnapShotTime, SetTotalSize
<1>2. ASSUME NEW c \in Causes, SetSnapShotCause(c)
      PROVE  HeaderRoundTrip'
  BY <1>2, SetterRoundTrip DEF SetSnapShotCause
<1>3. ASSUME NEW len \in CauseLens, NEW v \in Vals, SetJvmInfo(len, v)
      PROVE  HeaderRoundTrip'
  BY <1>3, JvmInfoRoundTrip DEF SetJvmInfo
<1>4. CASE Done \/ UNCHANGED vars
  BY <1>4 DEF Done, vars, HeaderRoundTrip
<1>5. QED
  BY <1>1, <1>2, <1>3, <1>4 DEF Next

(***************************************************************************)
(* HeaderRoundTrip for every cause of at most 119 characters: whatever the *)
(* order of the setter calls, every header field a setter wrote reads back *)
(* as written, although strcpy runs past gcCause[80].  The header_overrun  *)
(* run shows that 120 breaks it.                                           *)
(***************************************************************************)
THEOREM RoundTripUpTo119 ==
  CauseLens \subseteq 0..MaxRepairedLen => (Spec => []HeaderRoundTrip)
<1> SUFFICES ASSUME CauseLens \subseteq 0..MaxRepairedLen
             PROVE  Spec => []HeaderRoundTrip
  OBVIOUS
<1>1. TypeOK /\ HeaderRoundTrip /\ [Next]_vars => (TypeOK /\ HeaderRoundTrip)'
  BY NextRoundTrip, NextType
<1>2. QED
  BY InitType, InitRoundTrip, <1>1, PTL DEF Spec

=============================================================================
