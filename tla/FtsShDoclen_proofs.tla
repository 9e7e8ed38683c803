-------------------------- MODULE FtsShDoclen_proofs --------------------------
(* Theorems about the shared length cache, for any backends, segments, slots *)
(* and DSM handles.                                                          *)
EXTENDS FtsShDoclen, FiniteSetTheorems, TLAPS

\* What the local variables of a backend hold at each program point.
Known(r) ==
    /\ Len(r.refs) <= MaxRefs
    /\ r.pc \in {"map", "build", "publish"} =>
          r.key \in Keys /\ r.view[r.key] # 0 /\ r.slot \in Slots /\ Len(r.refs) < MaxRefs
    /\ r.pc = "map" => r.handle \in Handles
    /\ r.pc \in {"retire", "free"} => r.key \in Keys
    /\ r.todo # {} => r.pc \in {"build", "free"}
LocalsKnown == \A b \in Backends : Known(be[b])

\* Only a finished copy has a payload.
UnreadyEmpty == \A s \in Slots : slots[s].state # "ready" => slots[s].handle = None

\* A finished copy has one.
ReadyPinned == \A s \in ReadySlots : slots[s].handle \in Handles

\* At most one slot answers a lookup.
OneMatch == \A k \in Keys : \A s, t \in Matches(k) : s = t

\* A reference is to the copy that its slot has now.
RefsFit ==
    \A b \in Backends : \A r \in RefsOf(b) :
        /\ slots[r.slot].state = "ready"
        /\ slots[r.slot].handle = r.handle /\ slots[r.slot].key = r.key

\* Reference i of backend b is to slot s; 0 is the one it is about to record.
Holds(b, i, s) == \/ i = 0 /\ be[b].pc = "map" /\ be[b].slot = s
                  \/ i \in DOMAIN be[b].refs /\ be[b].refs[i].slot = s
HolderSet(s) == {x \in Backends \X (0..MaxRefs) : Holds(x[1], x[2], s)}

\* A slot counts at least the references to it: an ERROR may leave a count
\* behind, and none is ever missing.
CountCovers == \A s \in ReadySlots : slots[s].refcnt >= Cardinality(HolderSet(s))

\* PinnedOnce, handle by handle.
PinnedAt ==
    /\ ReadyPinned
    /\ \A b \in Backends : InFlight(b) \subseteq Handles
    /\ \A h \in Handles : payload[h] # None <=>
          \/ \E s \in ReadySlots : slots[s].handle = h
          \/ \E b \in Backends : h \in InFlight(b)
    /\ \A s, t \in ReadySlots : slots[s].handle = slots[t].handle => s = t
    /\ \A s \in ReadySlots, b \in Backends : slots[s].handle \notin InFlight(b)
    /\ \A b, c \in Backends : b # c => InFlight(b) \cap InFlight(c) = {}

CacheInv == /\ TypeOK /\ LocalsKnown /\ UnreadyEmpty /\ BuilderOwns /\ OneMatch
            /\ RefsFit /\ CountCovers /\ PinnedAt

-----------------------------------------------------------------------------
(* Types *)

LEMMA SetBackend ==
    ASSUME TypeOK, LocalsKnown, NEW b \in Backends,
           NEW x \in Backend, Known(x), be' = [be EXCEPT ![b] = x]
    PROVE  be' \in [Backends -> Backend] /\ LocalsKnown'
  <1>1. be \in [Backends -> Backend] BY DEF TypeOK
  <1> QED BY <1>1 DEF LocalsKnown

LEMMA IdleType == Idle \in Backend /\ Known(Idle)
  BY BoundsAssumption DEF Idle, Backend, Known

LEMMA SetSlot ==
    ASSUME TypeOK, NEW s \in Slots, NEW x \in Slot, slots' = [slots EXCEPT ![s] = x]
    PROVE  slots' \in [Slots -> Slot]
  BY DEF TypeOK

LEMMA FreeSlotType == FreeSlot \in Slot
  BY DEF FreeSlot, Slot

LEMMA SlotFields ==
    ASSUME NEW x \in Slot
    PROVE  /\ [x EXCEPT !.retired = TRUE] \in Slot
           /\ [x EXCEPT !.builder = None] \in Slot
           /\ \A n \in Nat : [x EXCEPT !.refcnt = n] \in Slot
           /\ \A h \in Handles : [x EXCEPT !.state = "ready", !.handle = h, !.refcnt = 1] \in Slot
  BY DEF Slot

LEMMA RefType ==
    ASSUME TypeOK, LocalsKnown, NEW b \in Backends,
           be[b].pc \in {"map", "publish"}, be[b].handle \in Handles
    PROVE  Ref(b) \in Reference
  BY BoundsAssumption DEF TypeOK, LocalsKnown, Known, Ref, Reference, Backend

LEMMA UnrefType ==
    ASSUME TypeOK, NEW ref \in Reference, Unref(ref)
    PROVE  slots' \in [Slots -> Slot]
  <1> DEFINE s == ref.slot
             n == IF slots[s].state = "ready" /\ slots[s].handle = ref.handle /\ slots[s].refcnt > 0
                  THEN slots[s].refcnt - 1 ELSE slots[s].refcnt
  <1>1. s \in Slots /\ slots[s] \in Slot BY DEF TypeOK, Reference
  <1>2. n \in Nat BY <1>1 DEF Slot
  <1>3. slots' = [slots EXCEPT ![s] = [slots[s] EXCEPT !.refcnt = n]] BY DEF Unref
  <1> HIDE DEF n, s
  <1>4. [slots[s] EXCEPT !.refcnt = n] \in Slot BY <1>1, <1>2 DEF Slot
  <1> QED BY <1>1, <1>3, <1>4, SetSlot

\* Dropping a reference changes nothing but the count of its slot.
LEMMA UnrefKeeps ==
    ASSUME TypeOK, NEW ref, Unref(ref), NEW s \in Slots
    PROVE  /\ slots'[s].state = slots[s].state /\ slots'[s].key = slots[s].key
           /\ slots'[s].builder = slots[s].builder /\ slots'[s].handle = slots[s].handle
           /\ slots'[s].retired = slots[s].retired
           /\ s # ref.slot => slots'[s] = slots[s]
  <1>1. slots \in [Slots -> Slot] BY DEF TypeOK
  <1> QED BY <1>1 DEF Unref, Slot

LEMMA StepType == TypeOK /\ LocalsKnown /\ ReadyPinned /\ Next => TypeOK' /\ LocalsKnown'
  <1> SUFFICES ASSUME TypeOK, LocalsKnown, ReadyPinned, Next PROVE TypeOK' /\ LocalsKnown'
    OBVIOUS
  <1>b. ASSUME NEW b \in Backends PROVE be[b] \in Backend /\ Known(be[b])
    BY DEF TypeOK, LocalsKnown
  <1>1. ASSUME NEW k \in Keys, Publish(k) PROVE TypeOK' /\ LocalsKnown'
    <2>1. segment' \in [Keys -> [gen : 0..MaxGen, state : {"listed", "dropped", "freed"}]]
      BY <1>1, BoundsAssumption DEF Publish, TypeOK
    <2> QED BY <1>1, <2>1 DEF Publish, TypeOK, LocalsKnown
  <1>2. ASSUME NEW b \in Backends, Begin(b) PROVE TypeOK' /\ LocalsKnown'
    <2> DEFINE v == [k \in Keys |-> IF segment[k].state = "listed" THEN segment[k].gen ELSE 0]
               x == [be[b] EXCEPT !.pc = "scan", !.view = v]
    <2>1. v \in [Keys -> 0..MaxGen] BY BoundsAssumption DEF TypeOK
    <2>2. be' = [be EXCEPT ![b] = x] BY <1>2 DEF Begin
    <2> HIDE DEF v
    <2>3. x \in Backend /\ Known(x) BY <1>2, <1>b, <2>1 DEF Begin, Backend, Known
    <2>4. be' \in [Backends -> Backend] /\ LocalsKnown' BY <2>2, <2>3, SetBackend
    <2> QED BY <1>2, <2>4 DEF Begin, TypeOK
  <1>3. ASSUME NEW b \in Backends, End(b) PROVE TypeOK' /\ LocalsKnown'
    <2> DEFINE x == [be[b] EXCEPT !.pc = "release"]
    <2>1. be' = [be EXCEPT ![b] = x] BY <1>3 DEF End
    <2>2. x \in Backend /\ Known(x) BY <1>3, <1>b DEF End, Backend, Known
    <2>3. be' \in [Backends -> Backend] /\ LocalsKnown' BY <2>1, <2>2, SetBackend
    <2> QED BY <1>3, <2>3 DEF End, TypeOK
  <1>4. ASSUME NEW b \in Backends, NEW k \in Keys, Drop(b, k) PROVE TypeOK' /\ LocalsKnown'
    <2> DEFINE x == [be[b] EXCEPT !.pc = "retire", !.key = k]
    <2>1. be' = [be EXCEPT ![b] = x] BY <1>4 DEF Drop
    <2>2. x \in Backend /\ Known(x) BY <1>4, <1>b DEF Drop, Backend, Known
    <2>3. be' \in [Backends -> Backend] /\ LocalsKnown' BY <2>1, <2>2, SetBackend
    <2> QED BY <1>4, <2>3 DEF Drop, TypeOK
  <1>5. ASSUME NEW b \in Backends, Attach(b) PROVE TypeOK' /\ LocalsKnown'
    BY <1>5 DEF Attach, TypeOK, LocalsKnown
  <1>6. ASSUME NEW b \in Backends, NEW k \in Keys, Hit(b, k) PROVE TypeOK' /\ LocalsKnown'
    <2>1. PICK s \in Matches(k) :
             /\ slots' = [slots EXCEPT ![s].refcnt = @ + 1]
             /\ slots[s].state = "ready"
             /\ be' = [be EXCEPT ![b].pc = "map", ![b].key = k, ![b].slot = s,
                                 ![b].handle = slots[s].handle]
      BY <1>6 DEF Hit
    <2>2. s \in Slots /\ slots[s] \in Slot /\ slots[s].refcnt \in Nat
      BY DEF Matches, TypeOK, Slot
    <2>3. slots' \in [Slots -> Slot] BY <2>1, <2>2 DEF TypeOK, Slot
    <2> DEFINE h == slots[s].handle
               x == [be[b] EXCEPT !.pc = "map", !.key = k, !.slot = s, !.handle = h]
    <2>4. h \in Handles BY <2>1, <2>2 DEF ReadyPinned, ReadySlots
    <2>5. be' = [be EXCEPT ![b] = x] BY <2>1
    <2> HIDE DEF h
    <2>6. x \in Backend /\ Known(x) BY <1>6, <1>b, <2>2, <2>4 DEF Hit, Asks, Backend, Known
    <2>7. be' \in [Backends -> Backend] /\ LocalsKnown' BY <2>5, <2>6, SetBackend
    <2> QED BY <1>6, <2>3, <2>7 DEF Hit, TypeOK
  <1>7. ASSUME NEW b \in Backends, NEW k \in Keys, FreeAbandoned(b, k)
        PROVE TypeOK' /\ LocalsKnown'
    BY <1>7, FreeSlotType DEF FreeAbandoned, TypeOK, LocalsKnown, Abandoned
  <1>8. ASSUME NEW b \in Backends, NEW k \in Keys, Miss(b, k) PROVE TypeOK' /\ LocalsKnown'
    <2>1. PICK s \in Claimable :
             /\ slots' = [slots EXCEPT ![s] =
                   [FreeSlot EXCEPT !.state = "building", !.key = k, !.builder = b]]
             /\ be' = [be EXCEPT ![b].pc = "build", ![b].key = k, ![b].slot = s,
                                 ![b].todo = Evicted(s)]
      BY <1>8 DEF Miss
    <2>2. s \in Slots /\ slots[s] \in Slot BY DEF Claimable, Unheld, TypeOK
    <2>3. slots' \in [Slots -> Slot] BY <2>1, <2>2 DEF TypeOK, Slot, FreeSlot
    <2> DEFINE h == Evicted(s)
               x == [be[b] EXCEPT !.pc = "build", !.key = k, !.slot = s, !.todo = h]
    <2>4. h \in SUBSET Handles BY <2>2 DEF Evicted, Slot
    <2>5. be' = [be EXCEPT ![b] = x] BY <2>1
    <2> HIDE DEF h
    <2>6. x \in Backend /\ Known(x) BY <1>8, <1>b, <2>2, <2>4 DEF Miss, Asks, Backend, Known
    <2>7. be' \in [Backends -> Backend] /\ LocalsKnown' BY <2>5, <2>6, SetBackend
    <2> QED BY <1>8, <2>3, <2>7 DEF Miss, TypeOK
  <1>9. ASSUME NEW b \in Backends, Unpin(b) PROVE TypeOK' /\ LocalsKnown'
    <2>1. PICK h \in be[b].todo : /\ payload' = [payload EXCEPT ![h] = None]
                                  /\ be' = [be EXCEPT ![b].todo = @ \ {h}]
      BY <1>9 DEF Unpin
    <2> DEFINE d == be[b].todo \ {h}
               x == [be[b] EXCEPT !.todo = d]
    <2>2. be' = [be EXCEPT ![b] = x] BY <2>1
    <2>3. d \in SUBSET Handles /\ be[b].todo # {} BY <1>b DEF Backend
    <2> HIDE DEF d
    <2>4. x \in Backend /\ Known(x) BY <1>b, <2>3 DEF Backend, Known
    <2>5. be' \in [Backends -> Backend] /\ LocalsKnown' BY <2>2, <2>4, SetBackend
    <2> QED BY <1>9, <2>1, <2>5 DEF Unpin, TypeOK
  <1>10. ASSUME NEW b \in Backends, Map(b) PROVE TypeOK' /\ LocalsKnown'
    <2>1. be[b].pc = "map" /\ Ref(b) \in Reference
      BY <1>10, <1>b, RefType DEF Map, Known
    <2>2. CASE /\ be' = [be EXCEPT ![b].pc = "scan", ![b].refs = Append(@, Ref(b))]
               /\ UNCHANGED slots
      <3> DEFINE r == Append(be[b].refs, Ref(b))
                 x == [be[b] EXCEPT !.pc = "scan", !.refs = r]
      <3>1. r \in Seq(Reference) /\ Len(r) = Len(be[b].refs) + 1 BY <2>1, <1>b DEF Backend
      <3>2. be' = [be EXCEPT ![b] = x] BY <2>2
      <3>3. Len(r) <= MaxRefs
        <4>1. Len(be[b].refs) \in Nat /\ Len(be[b].refs) < MaxRefs
          BY <2>1, <1>b DEF Backend, Known
        <4> QED BY <3>1, <4>1, BoundsAssumption
      <3> HIDE DEF r
      <3>4. x \in Backend /\ Known(x) BY <2>1, <3>1, <3>3, <1>b DEF Backend, Known
      <3>5. be' \in [Backends -> Backend] /\ LocalsKnown' BY <3>2, <3>4, SetBackend
      <3> QED BY <1>10, <2>2, <3>5 DEF Map, TypeOK
    <2>3. CASE be' = [be EXCEPT ![b].pc = "scan"] /\ Unref(Ref(b))
      <3> DEFINE x == [be[b] EXCEPT !.pc = "scan"]
      <3>1. slots' \in [Slots -> Slot] BY <2>1, <2>3, UnrefType
      <3>2. be' = [be EXCEPT ![b] = x] BY <2>3
      <3>3. x \in Backend /\ Known(x) BY <2>1, <1>b DEF Backend, Known
      <3>4. be' \in [Backends -> Backend] /\ LocalsKnown' BY <3>2, <3>3, SetBackend
      <3> QED BY <1>10, <3>1, <3>4 DEF Map, TypeOK
    <2> QED BY <1>10, <2>2, <2>3 DEF Map
  <1>11. ASSUME NEW b \in Backends, MapFails(b) PROVE TypeOK' /\ LocalsKnown'
    <2> DEFINE x == [be[b] EXCEPT !.pc = "release"]
    <2>1. be' = [be EXCEPT ![b] = x] BY <1>11 DEF MapFails
    <2>2. x \in Backend /\ Known(x) BY <1>11, <1>b DEF MapFails, Backend, Known
    <2>3. be' \in [Backends -> Backend] /\ LocalsKnown' BY <2>1, <2>2, SetBackend
    <2> QED BY <1>11, <2>3 DEF MapFails, TypeOK
  <1>12. ASSUME NEW b \in Backends, Build(b) PROVE TypeOK' /\ LocalsKnown'
    <2>1. be[b].pc = "build" /\ be[b].key \in Keys /\ be[b].view[be[b].key] \in 1..MaxGen
      BY <1>12, <1>b, BoundsAssumption DEF Build, Known, Backend
    <2>2. ASSUME NEW h \in Handles \cup {None},
                 payload' \in [Handles -> Content \cup {None}],
                 be' = [be EXCEPT ![b].pc = "publish", ![b].handle = h]
          PROVE  TypeOK' /\ LocalsKnown'
      <3> DEFINE x == [be[b] EXCEPT !.pc = "publish", !.handle = h]
      <3>1. be' = [be EXCEPT ![b] = x] BY <2>2
      <3>2. x \in Backend /\ Known(x) BY <1>12, <2>1, <1>b DEF Build, Backend, Known
      <3>3. be' \in [Backends -> Backend] /\ LocalsKnown' BY <3>1, <3>2, SetBackend
      <3> QED BY <1>12, <2>2, <3>3 DEF Build, TypeOK
    <2>3. CASE \E h \in Handles :
                 /\ payload' = [payload EXCEPT ![h] =
                               [key |-> be[b].key, gen |-> be[b].view[be[b].key]]]
                 /\ be' = [be EXCEPT ![b].pc = "publish", ![b].handle = h]
      <3>1. PICK h \in Handles :
                 /\ payload' = [payload EXCEPT ![h] =
                               [key |-> be[b].key, gen |-> be[b].view[be[b].key]]]
                 /\ be' = [be EXCEPT ![b].pc = "publish", ![b].handle = h]
        BY <2>3
      <3>2. payload' \in [Handles -> Content \cup {None}] BY <2>1, <3>1 DEF TypeOK, Content
      <3> QED BY <2>2, <3>1, <3>2
    <2>4. CASE be' = [be EXCEPT ![b].pc = "publish", ![b].handle = None] /\ UNCHANGED payload
      BY <2>2, <2>4 DEF TypeOK
    <2> QED BY <1>12, <2>3, <2>4 DEF Build
  <1>13. ASSUME NEW b \in Backends, BuildFails(b) PROVE TypeOK' /\ LocalsKnown'
    <2> DEFINE x == [be[b] EXCEPT !.pc = "release"]
    <2>1. slots' \in [Slots -> Slot] BY <1>13, FreeSlotType DEF BuildFails, TypeOK
    <2>2. be' = [be EXCEPT ![b] = x] BY <1>13 DEF BuildFails
    <2>3. x \in Backend /\ Known(x) BY <1>13, <1>b DEF BuildFails, Backend, Known
    <2>4. be' \in [Backends -> Backend] /\ LocalsKnown' BY <2>2, <2>3, SetBackend
    <2> QED BY <1>13, <2>1, <2>4 DEF BuildFails, TypeOK
  <1>14. ASSUME NEW b \in Backends, Killed(b) PROVE TypeOK' /\ LocalsKnown'
    <2> DEFINE x == [be[b] EXCEPT !.pc = "release"]
    <2>1. be' = [be EXCEPT ![b] = x] BY <1>14 DEF Killed
    <2>2. x \in Backend /\ Known(x) BY <1>14, <1>b DEF Killed, Backend, Known
    <2>3. be' \in [Backends -> Backend] /\ LocalsKnown' BY <2>1, <2>2, SetBackend
    <2> QED BY <1>14, <2>3 DEF Killed, TypeOK
  <1>15. ASSUME NEW b \in Backends, Finish(b) PROVE TypeOK' /\ LocalsKnown'
    <2>1. be[b].pc = "publish" /\ be[b].slot \in Slots /\ be[b].handle \in Handles \cup {None}
      BY <1>15, <1>b DEF Finish, Known, Backend
    <2>2. CASE Built(b)
      <3>1. be[b].handle \in Handles /\ Ref(b) \in Reference
        BY <2>1, <2>2, RefType DEF Built
      <3>2. slots' = [slots EXCEPT ![be[b].slot] = Ready(b)] /\ Ready(b) \in Slot
        BY <1>15, <2>1, <2>2, <3>1, SlotFields DEF Finish, Ready, TypeOK
      <3>3. slots' \in [Slots -> Slot] BY <2>1, <3>2, SetSlot
      <3> DEFINE r == Append(be[b].refs, Ref(b))
                 x == [be[b] EXCEPT !.pc = "scan", !.refs = r]
      <3>4. r \in Seq(Reference) /\ Len(r) = Len(be[b].refs) + 1 BY <3>1, <1>b DEF Backend
      <3>5. be' = [be EXCEPT ![b] = x] BY <1>15, <2>2 DEF Finish
      <3>6. Len(r) <= MaxRefs
        <4>1. Len(be[b].refs) \in Nat /\ Len(be[b].refs) < MaxRefs
          BY <2>1, <1>b DEF Backend, Known
        <4> QED BY <3>4, <4>1, BoundsAssumption
      <3> HIDE DEF r
      <3>7. x \in Backend /\ Known(x) BY <2>1, <3>4, <3>6, <1>b DEF Backend, Known
      <3>8. be' \in [Backends -> Backend] /\ LocalsKnown' BY <3>5, <3>7, SetBackend
      <3> QED BY <1>15, <3>3, <3>8 DEF Finish, TypeOK
    <2>3. CASE ~Built(b)
      <3> DEFINE x == [be[b] EXCEPT !.pc = "scan"]
      <3>1. slots' = [slots EXCEPT ![be[b].slot] = FreeSlot] BY <1>15, <2>3 DEF Finish
      <3>2. slots' \in [Slots -> Slot] BY <2>1, <3>1, FreeSlotType, SetSlot
      <3>3. be' = [be EXCEPT ![b] = x] BY <1>15, <2>3 DEF Finish
      <3>4. x \in Backend /\ Known(x) BY <2>1, <1>b DEF Backend, Known
      <3>5. be' \in [Backends -> Backend] /\ LocalsKnown' BY <3>3, <3>4, SetBackend
      <3> QED BY <1>15, <3>2, <3>5 DEF Finish, TypeOK
    <2> QED BY <2>2, <2>3
  <1>16. ASSUME NEW b \in Backends, Release(b) PROVE TypeOK' /\ LocalsKnown'
    <2>1. /\ be[b].pc = "release" /\ be[b].refs # <<>> /\ Unref(Head(be[b].refs))
          /\ be' = [be EXCEPT ![b].refs = Tail(@)]
      BY <1>16 DEF Release
    <2>2. be[b].refs \in Seq(Reference) /\ Len(be[b].refs) \in Nat BY <1>b DEF Backend
    <2> DEFINE r == Tail(be[b].refs)
               x == [be[b] EXCEPT !.refs = r]
    <2>3. Head(be[b].refs) \in Reference /\ r \in Seq(Reference) /\ Len(r) = Len(be[b].refs) - 1
      BY <2>1, <2>2
    <2>4. slots' \in [Slots -> Slot] BY <2>1, <2>3, UnrefType
    <2>5. be' = [be EXCEPT ![b] = x] BY <2>1
    <2> HIDE DEF r
    <2>6. x \in Backend /\ Known(x)
      BY <2>1, <2>2, <2>3, <1>b, BoundsAssumption DEF Backend, Known
    <2>7. be' \in [Backends -> Backend] /\ LocalsKnown' BY <2>5, <2>6, SetBackend
    <2> QED BY <1>16, <2>4, <2>7 DEF Release, TypeOK
  <1>17. ASSUME NEW b \in Backends, Released(b) PROVE TypeOK' /\ LocalsKnown'
    <2>1. slots' \in [Slots -> Slot] BY <1>17, SlotFields DEF Released, TypeOK
    <2>2. be' \in [Backends -> Backend] /\ LocalsKnown'
      BY <1>17, IdleType, SetBackend DEF Released
    <2> QED BY <1>17, <2>1, <2>2 DEF Released, TypeOK
  <1>18. ASSUME NEW b \in Backends, Retire(b) PROVE TypeOK' /\ LocalsKnown'
    <2> DEFINE D == {slots[s].handle : s \in Dead(be[b].key)}
               x == [be[b] EXCEPT !.pc = "free", !.todo = D]
    <2>1. slots' \in [Slots -> Slot] BY <1>18, FreeSlotType, SlotFields DEF Retire, TypeOK
    <2>2. D \in SUBSET Handles
      BY DEF Dead, Unheld, ReadyPinned, ReadySlots
    <2>3. be' = [be EXCEPT ![b] = x] BY <1>18 DEF Retire
    <2> HIDE DEF D
    <2>4. x \in Backend /\ Known(x) BY <1>18, <2>2, <1>b DEF Retire, Backend, Known
    <2>5. be' \in [Backends -> Backend] /\ LocalsKnown' BY <2>3, <2>4, SetBackend
    <2> QED BY <1>18, <2>1, <2>5 DEF Retire, TypeOK
  <1>19. ASSUME NEW b \in Backends, RetireSkipped(b) PROVE TypeOK' /\ LocalsKnown'
    <2> DEFINE x == [be[b] EXCEPT !.pc = "free"]
    <2>1. be' = [be EXCEPT ![b] = x] BY <1>19 DEF RetireSkipped
    <2>2. x \in Backend /\ Known(x) BY <1>19, <1>b DEF RetireSkipped, Backend, Known
    <2>3. be' \in [Backends -> Backend] /\ LocalsKnown' BY <2>1, <2>2, SetBackend
    <2> QED BY <1>19, <2>3 DEF RetireSkipped, TypeOK
  <1>20. ASSUME NEW b \in Backends, Free(b) PROVE TypeOK' /\ LocalsKnown'
    <2>1. be[b].key \in Keys BY <1>20, <1>b DEF Free, Known
    <2>2. segment' \in [Keys -> [gen : 0..MaxGen, state : {"listed", "dropped", "freed"}]]
      BY <1>20, <2>1 DEF Free, TypeOK
    <2>3. be' \in [Backends -> Backend] /\ LocalsKnown' BY <1>20, IdleType, SetBackend DEF Free
    <2> QED BY <1>20, <2>2, <2>3 DEF Free, TypeOK
  <1> QED BY <1>1, <1>2, <1>3, <1>4, <1>5, <1>6, <1>7, <1>8, <1>9, <1>10, <1>11, <1>12, <1>13,
             <1>14, <1>15, <1>16, <1>17, <1>18, <1>19, <1>20 DEF Next, Get

-----------------------------------------------------------------------------
(* The slots *)

LEMMA StepBuilder == CacheInv /\ Next => BuilderOwns' /\ UnreadyEmpty'
  <1> SUFFICES ASSUME CacheInv, Next PROVE BuilderOwns' /\ UnreadyEmpty'
    OBVIOUS
  <1> DEFINE Goal == BuilderOwns' /\ UnreadyEmpty'
  <1>i. BuilderOwns /\ UnreadyEmpty /\ LocalsKnown BY DEF CacheInv
  <1>t. be \in [Backends -> Backend] /\ slots \in [Slots -> Slot]
    BY DEF CacheInv, TypeOK
  <1>1. ASSUME NEW k \in Keys, Publish(k) PROVE Goal
    BY <1>1, <1>i, <1>t, NoneAssumption DEF Publish, BuilderOwns, UnreadyEmpty, LocalsKnown,
       Known, Backend, Slot
  <1>2. ASSUME NEW b \in Backends, Begin(b) PROVE Goal
    BY <1>2, <1>i, <1>t, NoneAssumption DEF Begin, BuilderOwns, UnreadyEmpty, LocalsKnown,
       Known, Backend, Slot
  <1>3. ASSUME NEW b \in Backends, End(b) PROVE Goal
    BY <1>3, <1>i, <1>t, NoneAssumption DEF End, BuilderOwns, UnreadyEmpty, LocalsKnown, Known,
       Backend, Slot
  <1>4. ASSUME NEW b \in Backends, NEW k \in Keys, Drop(b, k) PROVE Goal
    BY <1>4, <1>i, <1>t, NoneAssumption DEF Drop, BuilderOwns, UnreadyEmpty, LocalsKnown, Known,
       Backend, Slot
  <1>5. ASSUME NEW b \in Backends, Attach(b) PROVE Goal
    BY <1>5, <1>i, <1>t, NoneAssumption DEF Attach, BuilderOwns, UnreadyEmpty, LocalsKnown,
       Known, Backend, Slot
  <1>6. ASSUME NEW b \in Backends, NEW k \in Keys, Hit(b, k) PROVE Goal
    BY <1>6, <1>i, <1>t, NoneAssumption DEF Hit, Asks, Matches, BuilderOwns, UnreadyEmpty,
       LocalsKnown, Known, Backend, Slot
  <1>7. ASSUME NEW b \in Backends, NEW k \in Keys, FreeAbandoned(b, k) PROVE Goal
    BY <1>7, <1>i, <1>t, NoneAssumption DEF FreeAbandoned, Asks, Matches, Abandoned, FreeSlot,
       BuilderOwns, UnreadyEmpty, LocalsKnown, Known, Backend, Slot
  <1>8. ASSUME NEW b \in Backends, NEW k \in Keys, Miss(b, k) PROVE Goal
    BY <1>8, <1>i, <1>t, NoneAssumption DEF Miss, Asks, Absent, Matches, Claimable, Abandoned,
       Unheld, FreeSlot, BuilderOwns, UnreadyEmpty, LocalsKnown, Known, Backend, Slot
  <1>9. ASSUME NEW b \in Backends, Unpin(b) PROVE Goal
    BY <1>9, <1>i, <1>t, NoneAssumption DEF Unpin, BuilderOwns, UnreadyEmpty, LocalsKnown,
       Known, Backend, Slot
  <1>10. ASSUME NEW b \in Backends, Map(b) PROVE Goal
    <2>1. b \in Backends /\ be[b].pc = "map" BY <1>10 DEF Map
    <2>2. /\ \A c \in Backends \ {b} : be'[c] = be[c]
          /\ be'[b].pc = "scan"
      BY <1>10, <1>t DEF Map, Backend
    <2>3. CASE UNCHANGED slots BY <2>2, <2>3, <1>i DEF BuilderOwns, UnreadyEmpty
    <2>4. CASE Unref(Ref(b))
      BY <2>2, <2>4, <1>i, UnrefKeeps DEF CacheInv, BuilderOwns, UnreadyEmpty, LocalsKnown,
         Known
    <2> QED BY <1>10, <2>3, <2>4 DEF Map
  <1>11. ASSUME NEW b \in Backends, MapFails(b) PROVE Goal
    BY <1>11, <1>i, <1>t, NoneAssumption DEF MapFails, BuilderOwns, UnreadyEmpty, LocalsKnown,
       Known, Backend, Slot
  <1>12. ASSUME NEW b \in Backends, Build(b) PROVE Goal
    <2>1. be[b].pc = "build" /\ UNCHANGED slots BY <1>12 DEF Build
    <2>2. /\ \A c \in Backends \ {b} : be'[c] = be[c]
          /\ be'[b].slot = be[b].slot /\ be'[b].key = be[b].key
      BY <1>12, <1>t DEF Build, Backend
    <2> QED BY <2>1, <2>2, <1>i DEF BuilderOwns, UnreadyEmpty
  <1>13. ASSUME NEW b \in Backends, BuildFails(b) PROVE Goal
    BY <1>13, <1>i, <1>t, NoneAssumption DEF BuildFails, FreeSlot, BuilderOwns, UnreadyEmpty,
       LocalsKnown, Known, Backend, Slot
  <1>14. ASSUME NEW b \in Backends, Killed(b) PROVE Goal
    BY <1>14, <1>i, <1>t, NoneAssumption DEF Killed, BuilderOwns, UnreadyEmpty, LocalsKnown,
       Known, Backend, Slot
  <1>15. ASSUME NEW b \in Backends, Finish(b) PROVE Goal
    <2>1. be[b].pc = "publish" /\ be[b].slot \in Slots
      BY <1>15, <1>i DEF Finish, LocalsKnown, Known
    <2>2. /\ \A c \in Backends \ {b} : be'[c] = be[c]
          /\ be'[b].pc = "scan"
      BY <1>15, <1>t DEF Finish, Backend
    <2>3. \A s \in Slots \ {be[b].slot} : slots'[s] = slots[s]
      BY <1>15, <1>t DEF Finish
    <2>4. slots'[be[b].slot].state # "ready" => slots'[be[b].slot].handle = None
      <3>1. CASE Built(b)
        <4>1. slots'[be[b].slot] = Ready(b) BY <1>15, <1>t, <2>1, <3>1 DEF Finish
        <4> QED BY <4>1, <1>t, <2>1 DEF Ready, Slot
      <3>2. CASE ~Built(b)
        <4>1. slots'[be[b].slot] = FreeSlot BY <1>15, <1>t, <2>1, <3>2 DEF Finish
        <4> QED BY <4>1 DEF FreeSlot
      <3> QED BY <3>1, <3>2
    <2>5. \A c \in Backends \ {b} : be[c].pc \in {"build", "publish"} =>
              be[c].slot \in Slots /\ be[c].slot # be[b].slot
      BY <1>i, <2>1 DEF BuilderOwns, LocalsKnown, Known
    <2>6. BuilderOwns' BY <2>2, <2>3, <2>5, <1>i DEF BuilderOwns
    <2>7. UnreadyEmpty' BY <2>3, <2>4, <1>i DEF UnreadyEmpty
    <2> QED BY <2>6, <2>7
  <1>16. ASSUME NEW b \in Backends, Release(b) PROVE Goal
    <2>1. /\ \A s \in Slots : /\ slots'[s].state = slots[s].state /\ slots'[s].key = slots[s].key
                             /\ slots'[s].builder = slots[s].builder
                             /\ slots'[s].handle = slots[s].handle
      BY <1>16, UnrefKeeps DEF Release, CacheInv
    <2>2. \A c \in Backends : be'[c].pc = be[c].pc /\ be'[c].slot = be[c].slot
                              /\ be'[c].key = be[c].key
      BY <1>16, <1>t DEF Release, Backend
    <2>3. \A c \in Backends : be[c].pc \in {"build", "publish"} => be[c].slot \in Slots
      BY <1>i DEF LocalsKnown, Known
    <2> QED BY <1>i, <2>1, <2>2, <2>3 DEF BuilderOwns, UnreadyEmpty
  <1>17. ASSUME NEW b \in Backends, Released(b) PROVE Goal
    BY <1>17, <1>i, <1>t, NoneAssumption DEF Released, Idle, BuilderOwns, UnreadyEmpty,
       LocalsKnown, Known, Backend, Slot
  <1>18. ASSUME NEW b \in Backends, Retire(b) PROVE Goal
    <2>1. \A s \in Slots :
              \/ slots[s].state = "ready" /\ slots'[s] = FreeSlot
              \/ slots'[s] = slots[s]
              \/ slots'[s] = [slots[s] EXCEPT !.retired = TRUE]
      BY <1>18 DEF Retire, Dead, Unheld
    <2>2. \A s \in Slots :
              \/ slots[s].state = "ready" /\ slots'[s] = FreeSlot
              \/ /\ slots'[s].state = slots[s].state /\ slots'[s].key = slots[s].key
                 /\ slots'[s].builder = slots[s].builder /\ slots'[s].handle = slots[s].handle
      <3> TAKE s \in Slots
      <3>1. slots[s] \in Slot BY <1>t
      <3>2. CASE slots'[s] = [slots[s] EXCEPT !.retired = TRUE] BY <3>1, <3>2 DEF Slot
      <3> QED BY <2>1, <3>2
    <2>3. /\ be[b].pc = "retire" /\ be'[b].pc = "free"
          /\ \A c \in Backends \ {b} : be'[c] = be[c]
      BY <1>18, <1>t DEF Retire, Backend
    <2>4. \A c \in Backends : be[c].pc \in {"build", "publish"} => be[c].slot \in Slots
      BY <1>i DEF LocalsKnown, Known
    <2>5. BuilderOwns' BY <1>i, <2>2, <2>3, <2>4 DEF BuilderOwns
    <2>6. UnreadyEmpty' BY <1>i, <2>2 DEF UnreadyEmpty, FreeSlot
    <2> QED BY <2>5, <2>6
  <1>19. ASSUME NEW b \in Backends, RetireSkipped(b) PROVE Goal
    BY <1>19, <1>i, <1>t, NoneAssumption DEF RetireSkipped, BuilderOwns, UnreadyEmpty,
       LocalsKnown, Known, Backend, Slot
  <1>20. ASSUME NEW b \in Backends, Free(b) PROVE Goal
    BY <1>20, <1>i, <1>t, NoneAssumption DEF Free, Idle, BuilderOwns, UnreadyEmpty, LocalsKnown,
       Known, Backend, Slot
  <1> QED BY <1>1, <1>2, <1>3, <1>4, <1>5, <1>6, <1>7, <1>8, <1>9, <1>10, <1>11, <1>12, <1>13,
     <1>14, <1>15, <1>16, <1>17, <1>18, <1>19, <1>20 DEF Next, Get

\* Only a claimed slot, a released one or a retired one answers other lookups
\* than before.
LEMMA StepMatch == CacheInv /\ Next => OneMatch'
  <1> SUFFICES ASSUME CacheInv, Next PROVE OneMatch'
    OBVIOUS
  <1>i. OneMatch /\ BuilderOwns /\ LocalsKnown BY DEF CacheInv
  <1>t. be \in [Backends -> Backend] /\ slots \in [Slots -> Slot]
    BY DEF CacheInv, TypeOK
  <1>1. ASSUME NEW k \in Keys, Publish(k) PROVE OneMatch'
    BY <1>1, <1>i DEF Publish, OneMatch, Matches
  <1>2. ASSUME NEW b \in Backends, Begin(b) PROVE OneMatch'
    BY <1>2, <1>i DEF Begin, OneMatch, Matches
  <1>3. ASSUME NEW b \in Backends, End(b) PROVE OneMatch'
    BY <1>3, <1>i DEF End, OneMatch, Matches
  <1>4. ASSUME NEW b \in Backends, NEW k \in Keys, Drop(b, k) PROVE OneMatch'
    BY <1>4, <1>i DEF Drop, OneMatch, Matches
  <1>5. ASSUME NEW b \in Backends, Attach(b) PROVE OneMatch'
    BY <1>5, <1>i DEF Attach, OneMatch, Matches
  <1>6. ASSUME NEW b \in Backends, NEW k \in Keys, Hit(b, k) PROVE OneMatch'
    BY <1>6, <1>i, <1>t, NoneAssumption DEF Hit, OneMatch, Matches, BuilderOwns, LocalsKnown,
       Known, Slot
  <1>7. ASSUME NEW b \in Backends, NEW k \in Keys, FreeAbandoned(b, k) PROVE OneMatch'
    BY <1>7, <1>i, <1>t, NoneAssumption DEF FreeAbandoned, FreeSlot, OneMatch, Matches,
       BuilderOwns, LocalsKnown, Known, Slot
  <1>8. ASSUME NEW b \in Backends, NEW k \in Keys, Miss(b, k) PROVE OneMatch'
    BY <1>8, <1>i, <1>t, NoneAssumption DEF Miss, Absent, Claimable, Abandoned, Unheld,
       FreeSlot, OneMatch, Matches, BuilderOwns, LocalsKnown, Known, Slot
  <1>9. ASSUME NEW b \in Backends, Unpin(b) PROVE OneMatch'
    BY <1>9, <1>i DEF Unpin, OneMatch, Matches
  <1>10. ASSUME NEW b \in Backends, Map(b) PROVE OneMatch'
    <2>1. CASE UNCHANGED slots BY <2>1, <1>i DEF OneMatch, Matches
    <2>2. CASE Unref(Ref(b))
      <3>1. \A k \in Keys : Matches(k)' = Matches(k) BY <2>2, UnrefKeeps DEF CacheInv, Matches
      <3> QED BY <3>1, <1>i DEF OneMatch
    <2> QED BY <1>10, <2>1, <2>2 DEF Map
  <1>11. ASSUME NEW b \in Backends, MapFails(b) PROVE OneMatch'
    BY <1>11, <1>i DEF MapFails, OneMatch, Matches
  <1>12. ASSUME NEW b \in Backends, Build(b) PROVE OneMatch'
    BY <1>12, <1>i DEF Build, OneMatch, Matches
  <1>13. ASSUME NEW b \in Backends, BuildFails(b) PROVE OneMatch'
    BY <1>13, <1>i, <1>t, NoneAssumption DEF BuildFails, FreeSlot, OneMatch, Matches,
       BuilderOwns, LocalsKnown, Known, Slot
  <1>14. ASSUME NEW b \in Backends, Killed(b) PROVE OneMatch'
    BY <1>14, <1>i DEF Killed, OneMatch, Matches
  <1>15. ASSUME NEW b \in Backends, Finish(b) PROVE OneMatch'
    <2> DEFINE s == be[b].slot
    <2>1. s \in Slots /\ slots[s].state = "building"
      BY <1>15, <1>i DEF Finish, LocalsKnown, Known, BuilderOwns
    <2>2. \A u \in Slots \ {s} : slots'[u] = slots[u] BY <1>15, <1>t DEF Finish
    <2>3. \/ slots'[s] = FreeSlot
          \/ slots'[s].key = slots[s].key /\ slots'[s].retired = slots[s].retired
      <3>1. CASE Built(b)
        <4>1. slots'[s] = Ready(b) BY <1>15, <1>t, <2>1, <3>1 DEF Finish
        <4> QED BY <4>1, <1>t, <2>1 DEF Ready, Slot
      <3>2. CASE ~Built(b) BY <1>15, <1>t, <2>1, <3>2 DEF Finish
      <3> QED BY <3>1, <3>2
    <2> HIDE DEF s
    <2>4. \A k \in Keys : Matches(k)' \subseteq Matches(k)
      BY <2>1, <2>2, <2>3 DEF Matches, FreeSlot
    <2> QED BY <2>4, <1>i DEF OneMatch
  <1>16. ASSUME NEW b \in Backends, Release(b) PROVE OneMatch'
    <2>1. Unref(Head(be[b].refs)) BY <1>16 DEF Release
    <2>2. \A k \in Keys : Matches(k)' = Matches(k) BY <2>1, UnrefKeeps DEF CacheInv, Matches
    <2> QED BY <2>2, <1>i DEF OneMatch
  <1>17. ASSUME NEW b \in Backends, Released(b) PROVE OneMatch'
    BY <1>17, <1>i, <1>t, NoneAssumption DEF Released, OneMatch, Matches, BuilderOwns,
       LocalsKnown, Known, Slot
  <1>18. ASSUME NEW b \in Backends, Retire(b) PROVE OneMatch'
    BY <1>18, <1>i, <1>t, NoneAssumption DEF Retire, Dead, Unheld, FreeSlot, OneMatch, Matches,
       BuilderOwns, LocalsKnown, Known, Slot
  <1>19. ASSUME NEW b \in Backends, RetireSkipped(b) PROVE OneMatch'
    BY <1>19, <1>i DEF RetireSkipped, OneMatch, Matches
  <1>20. ASSUME NEW b \in Backends, Free(b) PROVE OneMatch'
    BY <1>20, <1>i DEF Free, OneMatch, Matches
  <1> QED BY <1>1, <1>2, <1>3, <1>4, <1>5, <1>6, <1>7, <1>8, <1>9, <1>10, <1>11, <1>12, <1>13,
     <1>14, <1>15, <1>16, <1>17, <1>18, <1>19, <1>20 DEF Next, Get

-----------------------------------------------------------------------------
(* The references *)

LEMMA AppendElement ==
    ASSUME NEW q \in Seq(Reference), NEW x \in Reference
    PROVE  \A i \in DOMAIN Append(q, x) :
               Append(q, x)[i] = x \/ (i \in DOMAIN q /\ Append(q, x)[i] = q[i])
  OBVIOUS

LEMMA TailElement ==
    ASSUME NEW q \in Seq(Reference), q # <<>>
    PROVE  \A i \in DOMAIN Tail(q) : i \in Nat \ {0} /\ i + 1 \in DOMAIN q /\ Tail(q)[i] = q[i + 1]
  OBVIOUS

LEMMA RefsType ==
    ASSUME TypeOK, LocalsKnown, NEW b \in Backends, NEW r \in RefsOf(b)
    PROVE  r.slot \in Slots /\ r.handle \in Handles
  <1>1. be[b] \in Backend /\ Known(be[b]) BY DEF TypeOK, LocalsKnown
  <1>2. CASE be[b].pc = "map" /\ r = Ref(b) BY <1>1, <1>2 DEF Known, Ref
  <1>3. CASE r \in {be[b].refs[i] : i \in DOMAIN be[b].refs}
    <2>1. r \in Reference BY <1>1, <1>3 DEF Backend
    <2> QED BY <2>1 DEF Reference
  <1> QED BY <1>2, <1>3 DEF RefsOf

LEMMA HoldersFinite == ASSUME NEW s PROVE IsFiniteSet(HolderSet(s))
  <1>1. IsFiniteSet(0..MaxRefs) BY BoundsAssumption, FS_Interval
  <1>2. IsFiniteSet(Backends \X (0..MaxRefs)) BY <1>1, FiniteAssumption, FS_Product
  <1> QED BY <1>2, FS_Subset DEF HolderSet

\* Whoever refers to a slot is one of its holders.
LEMMA RefHolds ==
    ASSUME TypeOK, LocalsKnown, NEW b \in Backends, NEW r \in RefsOf(b)
    PROVE  HolderSet(r.slot) # {}
  <1>1. be[b] \in Backend /\ Known(be[b]) BY DEF TypeOK, LocalsKnown
  <1>2. CASE be[b].pc = "map" /\ r = Ref(b)
    <2>1. Holds(b, 0, r.slot) BY <1>2 DEF Holds, Ref
    <2>2. <<b, 0>> \in HolderSet(r.slot) BY <2>1, BoundsAssumption DEF HolderSet
    <2> QED BY <2>2
  <1>3. CASE r \in {be[b].refs[i] : i \in DOMAIN be[b].refs}
    <2>1. PICK i \in DOMAIN be[b].refs : r = be[b].refs[i] BY <1>3
    <2>2. i \in 0..MaxRefs BY <1>1, BoundsAssumption DEF Known, Backend
    <2>3. Holds(b, i, r.slot) BY <2>1 DEF Holds
    <2>4. <<b, i>> \in HolderSet(r.slot) BY <2>2, <2>3 DEF HolderSet
    <2> QED BY <2>4
  <1> QED BY <1>2, <1>3 DEF RefsOf

LEMMA Held == CacheInv => HeldPinned
  <1> SUFFICES ASSUME CacheInv, NEW b \in Backends, NEW r \in RefsOf(b)
               PROVE  /\ slots[r.slot].state = "ready" /\ slots[r.slot].handle = r.handle
                      /\ slots[r.slot].key = r.key /\ slots[r.slot].refcnt > 0
                      /\ payload[r.handle] # None
    BY DEF HeldPinned
  <1>1. r.slot \in Slots /\ r.handle \in Handles BY RefsType DEF CacheInv
  <1>2. /\ slots[r.slot].state = "ready" /\ slots[r.slot].handle = r.handle
        /\ slots[r.slot].key = r.key
    BY DEF CacheInv, RefsFit
  <1>3. r.slot \in ReadySlots BY <1>1, <1>2 DEF ReadySlots
  <1>4. payload[r.handle] # None BY <1>1, <1>2, <1>3 DEF CacheInv, PinnedAt
  <1>5. Cardinality(HolderSet(r.slot)) \in Nat /\ Cardinality(HolderSet(r.slot)) # 0
    <2>1. HolderSet(r.slot) # {} BY RefHolds DEF CacheInv
    <2> QED BY <2>1, HoldersFinite, FS_EmptySet, FS_CardinalityType
  <1>6. slots[r.slot].refcnt \in Nat /\ slots[r.slot].refcnt >= Cardinality(HolderSet(r.slot))
    BY <1>1, <1>3 DEF CacheInv, CountCovers, TypeOK, Slot
  <1> QED BY <1>2, <1>4, <1>5, <1>6

\* The references stay good if nobody gets a new one and the slots that
\* somebody refers to keep their copy.
LEMMA KeepRefs ==
    ASSUME CacheInv,
           \A b \in Backends : RefsOf(b)' \subseteq RefsOf(b),
           \A s \in Slots : slots[s].state = "ready" /\ slots[s].refcnt > 0 =>
               /\ slots'[s].state = "ready"
               /\ slots'[s].handle = slots[s].handle /\ slots'[s].key = slots[s].key
    PROVE  RefsFit'
  <1> SUFFICES ASSUME NEW b \in Backends, NEW r \in RefsOf(b)
               PROVE  /\ slots'[r.slot].state = "ready"
                      /\ slots'[r.slot].handle = r.handle /\ slots'[r.slot].key = r.key
    BY DEF RefsFit
  <1>1. r.slot \in Slots BY RefsType DEF CacheInv
  <1>2. /\ slots[r.slot].state = "ready" /\ slots[r.slot].refcnt > 0
        /\ slots[r.slot].handle = r.handle /\ slots[r.slot].key = r.key
    BY Held DEF HeldPinned
  <1> QED BY <1>1, <1>2

LEMMA StepRefs == CacheInv /\ Next => RefsFit'
  <1> SUFFICES ASSUME CacheInv, Next PROVE RefsFit'
    OBVIOUS
  <1>i. BuilderOwns /\ LocalsKnown /\ RefsFit BY DEF CacheInv
  <1>t. be \in [Backends -> Backend] /\ slots \in [Slots -> Slot]
    BY DEF CacheInv, TypeOK
  <1>1. ASSUME NEW k \in Keys, Publish(k) PROVE RefsFit'
    <2>1. \A c \in Backends : RefsOf(c)' \subseteq RefsOf(c)
      BY <1>1, <1>t DEF Publish, RefsOf, Ref, Backend
    <2>2. \A s \in Slots : slots[s].state = "ready" /\ slots[s].refcnt > 0 =>
               /\ slots'[s].state = "ready"
               /\ slots'[s].handle = slots[s].handle /\ slots'[s].key = slots[s].key
      BY <1>1, <1>t, <1>i DEF Publish, Slot, BuilderOwns
    <2> QED BY <2>1, <2>2, KeepRefs
  <1>2. ASSUME NEW b \in Backends, Begin(b) PROVE RefsFit'
    <2>1. \A c \in Backends : RefsOf(c)' \subseteq RefsOf(c)
      BY <1>2, <1>t DEF Begin, RefsOf, Ref, Backend
    <2>2. \A s \in Slots : slots[s].state = "ready" /\ slots[s].refcnt > 0 =>
               /\ slots'[s].state = "ready"
               /\ slots'[s].handle = slots[s].handle /\ slots'[s].key = slots[s].key
      BY <1>2, <1>t, <1>i DEF Begin, Slot, BuilderOwns
    <2> QED BY <2>1, <2>2, KeepRefs
  <1>3. ASSUME NEW b \in Backends, End(b) PROVE RefsFit'
    <2>1. \A c \in Backends : RefsOf(c)' \subseteq RefsOf(c)
      BY <1>3, <1>t DEF End, RefsOf, Ref, Backend
    <2>2. \A s \in Slots : slots[s].state = "ready" /\ slots[s].refcnt > 0 =>
               /\ slots'[s].state = "ready"
               /\ slots'[s].handle = slots[s].handle /\ slots'[s].key = slots[s].key
      BY <1>3, <1>t, <1>i DEF End, Slot, BuilderOwns
    <2> QED BY <2>1, <2>2, KeepRefs
  <1>4. ASSUME NEW b \in Backends, NEW k \in Keys, Drop(b, k) PROVE RefsFit'
    <2>1. \A c \in Backends : RefsOf(c)' \subseteq RefsOf(c)
      BY <1>4, <1>t DEF Drop, RefsOf, Ref, Backend
    <2>2. \A s \in Slots : slots[s].state = "ready" /\ slots[s].refcnt > 0 =>
               /\ slots'[s].state = "ready"
               /\ slots'[s].handle = slots[s].handle /\ slots'[s].key = slots[s].key
      BY <1>4, <1>t, <1>i DEF Drop, Slot, BuilderOwns
    <2> QED BY <2>1, <2>2, KeepRefs
  <1>5. ASSUME NEW b \in Backends, Attach(b) PROVE RefsFit'
    <2>1. \A c \in Backends : RefsOf(c)' \subseteq RefsOf(c)
      BY <1>5, <1>t DEF Attach, RefsOf, Ref, Backend
    <2>2. \A s \in Slots : slots[s].state = "ready" /\ slots[s].refcnt > 0 =>
               /\ slots'[s].state = "ready"
               /\ slots'[s].handle = slots[s].handle /\ slots'[s].key = slots[s].key
      BY <1>5, <1>t, <1>i DEF Attach, Slot, BuilderOwns
    <2> QED BY <2>1, <2>2, KeepRefs
  <1>6. ASSUME NEW b \in Backends, NEW k \in Keys, Hit(b, k) PROVE RefsFit'
    <2>1. PICK s \in Matches(k) :
             /\ slots' = [slots EXCEPT ![s].refcnt = @ + 1]
             /\ slots[s].state = "ready"
             /\ be' = [be EXCEPT ![b].pc = "map", ![b].key = k, ![b].slot = s,
                                 ![b].handle = slots[s].handle]
      BY <1>6 DEF Hit
    <2>2. s \in Slots /\ slots[s].key = k BY DEF Matches
    <2>3. \A u \in Slots : /\ slots'[u].state = slots[u].state
                            /\ slots'[u].handle = slots[u].handle /\ slots'[u].key = slots[u].key
      BY <2>1, <1>t DEF Slot
    <2>4. \A c \in Backends \ {b} : RefsOf(c)' = RefsOf(c)
      BY <2>1, <1>t DEF RefsOf, Ref
    <2>5. /\ be'[b].pc = "map" /\ be'[b].key = k /\ be'[b].slot = s
          /\ be'[b].handle = slots[s].handle /\ be'[b].refs = be[b].refs
      BY <2>1, <1>t DEF Backend
    <2>6. \A r \in RefsOf(b)' : r \in RefsOf(b) \/ r = Ref(b)' BY <2>5 DEF RefsOf
    <2>7. Ref(b)'.slot = s /\ Ref(b)'.handle = slots[s].handle /\ Ref(b)'.key = k
      BY <2>5 DEF Ref
    <2>8. \A c \in Backends : \A r \in RefsOf(c) : r.slot \in Slots
      BY RefsType DEF CacheInv
    <2>9. ASSUME NEW c \in Backends, NEW r \in RefsOf(c)'
          PROVE  /\ slots'[r.slot].state = "ready"
                 /\ slots'[r.slot].handle = r.handle /\ slots'[r.slot].key = r.key
      <3>1. CASE r \in RefsOf(c) BY <3>1, <2>3, <2>8, <1>i DEF RefsFit
      <3>2. CASE c = b /\ r = Ref(b)' BY <3>2, <2>1, <2>2, <2>3, <2>7
      <3> QED BY <2>4, <2>6, <3>1, <3>2
    <2> QED BY <2>9 DEF RefsFit
  <1>7. ASSUME NEW b \in Backends, NEW k \in Keys, FreeAbandoned(b, k) PROVE RefsFit'
    <2>1. \A c \in Backends : RefsOf(c)' \subseteq RefsOf(c)
      BY <1>7, <1>t DEF FreeAbandoned, RefsOf, Ref, Backend
    <2>2. \A s \in Slots : slots[s].state = "ready" /\ slots[s].refcnt > 0 =>
               /\ slots'[s].state = "ready"
               /\ slots'[s].handle = slots[s].handle /\ slots'[s].key = slots[s].key
      BY <1>7, <1>t, <1>i DEF FreeAbandoned, Abandoned, Matches, Slot, BuilderOwns
    <2> QED BY <2>1, <2>2, KeepRefs
  <1>8. ASSUME NEW b \in Backends, NEW k \in Keys, Miss(b, k) PROVE RefsFit'
    <2>1. \A c \in Backends : RefsOf(c)' \subseteq RefsOf(c)
      BY <1>8, <1>t DEF Miss, RefsOf, Ref, Backend
    <2>2. \A s \in Slots : slots[s].state = "ready" /\ slots[s].refcnt > 0 =>
               /\ slots'[s].state = "ready"
               /\ slots'[s].handle = slots[s].handle /\ slots'[s].key = slots[s].key
      BY <1>8, <1>t, <1>i DEF Miss, Claimable, Unheld, Abandoned, Slot, BuilderOwns
    <2> QED BY <2>1, <2>2, KeepRefs
  <1>9. ASSUME NEW b \in Backends, Unpin(b) PROVE RefsFit'
    <2>1. \A c \in Backends : RefsOf(c)' \subseteq RefsOf(c)
      BY <1>9, <1>t DEF Unpin, RefsOf, Ref, Backend
    <2>2. \A s \in Slots : slots[s].state = "ready" /\ slots[s].refcnt > 0 =>
               /\ slots'[s].state = "ready"
               /\ slots'[s].handle = slots[s].handle /\ slots'[s].key = slots[s].key
      BY <1>9, <1>t, <1>i DEF Unpin, Slot, BuilderOwns
    <2> QED BY <2>1, <2>2, KeepRefs
  <1>10. ASSUME NEW b \in Backends, Map(b) PROVE RefsFit'
    <2>1. \A c \in Backends \ {b} : be'[c] = be[c] BY <1>10, <1>t DEF Map
    <2>2. be[b].pc = "map" /\ be'[b].pc = "scan" BY <1>10, <1>t DEF Map, Backend
    <2>3. \A r \in RefsOf(b)' : r \in RefsOf(b)
      <3>1. be[b].refs \in Seq(Reference) BY <1>t DEF Backend
      <3>2. CASE be'[b].refs = be[b].refs BY <2>2, <3>2 DEF RefsOf
      <3>3. CASE be'[b].refs = Append(be[b].refs, Ref(b))
        <4>1. \A i \in DOMAIN be'[b].refs :
                  \/ be'[b].refs[i] = Ref(b)
                  \/ i \in DOMAIN be[b].refs /\ be'[b].refs[i] = be[b].refs[i]
          <5>1. Ref(b) \in Reference
            BY <2>2, <3>1, <1>i, RefType DEF CacheInv, LocalsKnown, Known
          <5>2. \A i \in DOMAIN Append(be[b].refs, Ref(b)) :
                    \/ Append(be[b].refs, Ref(b))[i] = Ref(b)
                    \/ i \in DOMAIN be[b].refs /\ Append(be[b].refs, Ref(b))[i] = be[b].refs[i]
            BY <3>1, <5>1, AppendElement
          <5> QED BY <3>3, <5>2
        <4> QED BY <2>2, <4>1 DEF RefsOf
      <3> QED BY <1>10, <1>t, <3>2, <3>3 DEF Map, Backend
    <2>4. \A c \in Backends : RefsOf(c)' \subseteq RefsOf(c) BY <2>1, <2>3 DEF RefsOf, Ref
    <2>5. \A s \in Slots : /\ slots'[s].state = slots[s].state
                            /\ slots'[s].handle = slots[s].handle /\ slots'[s].key = slots[s].key
      <3>1. UNCHANGED slots \/ Unref(Ref(b)) BY <1>10 DEF Map
      <3> QED BY <3>1, UnrefKeeps DEF CacheInv
    <2> QED BY <2>4, <2>5, KeepRefs
  <1>11. ASSUME NEW b \in Backends, MapFails(b) PROVE RefsFit'
    <2>1. \A c \in Backends : RefsOf(c)' \subseteq RefsOf(c)
      BY <1>11, <1>t DEF MapFails, RefsOf, Ref, Backend
    <2>2. \A s \in Slots : slots[s].state = "ready" /\ slots[s].refcnt > 0 =>
               /\ slots'[s].state = "ready"
               /\ slots'[s].handle = slots[s].handle /\ slots'[s].key = slots[s].key
      BY <1>11, <1>t, <1>i DEF MapFails, Slot, BuilderOwns
    <2> QED BY <2>1, <2>2, KeepRefs
  <1>12. ASSUME NEW b \in Backends, Build(b) PROVE RefsFit'
    <2>1. \A c \in Backends : RefsOf(c)' \subseteq RefsOf(c)
      <3>1. \A c \in Backends \ {b} : be'[c] = be[c] BY <1>12, <1>t DEF Build
      <3>2. be'[b].refs = be[b].refs /\ be'[b].pc = "publish" BY <1>12, <1>t DEF Build, Backend
      <3> QED BY <3>1, <3>2 DEF RefsOf, Ref
    <2>2. UNCHANGED slots BY <1>12 DEF Build
    <2> QED BY <2>1, <2>2, KeepRefs
  <1>13. ASSUME NEW b \in Backends, BuildFails(b) PROVE RefsFit'
    <2>1. \A c \in Backends : RefsOf(c)' \subseteq RefsOf(c)
      BY <1>13, <1>t DEF BuildFails, RefsOf, Ref, Backend
    <2>2. \A s \in Slots : slots[s].state = "ready" /\ slots[s].refcnt > 0 =>
               /\ slots'[s].state = "ready"
               /\ slots'[s].handle = slots[s].handle /\ slots'[s].key = slots[s].key
      BY <1>13, <1>t, <1>i DEF BuildFails, Slot, BuilderOwns
    <2> QED BY <2>1, <2>2, KeepRefs
  <1>14. ASSUME NEW b \in Backends, Killed(b) PROVE RefsFit'
    <2>1. \A c \in Backends : RefsOf(c)' \subseteq RefsOf(c)
      BY <1>14, <1>t DEF Killed, RefsOf, Ref, Backend
    <2>2. \A s \in Slots : slots[s].state = "ready" /\ slots[s].refcnt > 0 =>
               /\ slots'[s].state = "ready"
               /\ slots'[s].handle = slots[s].handle /\ slots'[s].key = slots[s].key
      BY <1>14, <1>t, <1>i DEF Killed, Slot, BuilderOwns
    <2> QED BY <2>1, <2>2, KeepRefs
  <1>15. ASSUME NEW b \in Backends, Finish(b) PROVE RefsFit'
    <2> DEFINE s == be[b].slot
    <2>1. /\ s \in Slots /\ slots[s].state = "building" /\ slots[s].key = be[b].key
          /\ be[b].pc = "publish"
      BY <1>15, <1>i DEF Finish, LocalsKnown, Known, BuilderOwns
    <2>2. \A u \in Slots \ {s} : slots'[u] = slots[u] BY <1>15, <1>t DEF Finish
    <2>3. \A c \in Backends \ {b} : be'[c] = be[c] BY <1>15, <1>t DEF Finish
    <2>4. \A c \in Backends : \A r \in RefsOf(c) : r.slot \in Slots \ {s}
      BY <2>1, <1>i, RefsType DEF CacheInv, RefsFit
    <2>5. CASE ~Built(b)
      <3>1. \A c \in Backends : RefsOf(c)' \subseteq RefsOf(c)
        <4>1. be'[b].refs = be[b].refs /\ be'[b].pc = "scan"
          BY <1>15, <1>t, <2>5 DEF Finish, Backend
        <4> QED BY <2>3, <4>1 DEF RefsOf, Ref
      <3>2. \A u \in Slots : slots[u].state = "ready" => slots'[u] = slots[u]
        BY <2>1, <2>2
      <3> QED BY <3>1, <3>2, KeepRefs
    <2>6. CASE Built(b)
      <3>1. be'[b].refs = Append(be[b].refs, Ref(b)) /\ be'[b].pc = "scan"
        BY <1>15, <1>t, <2>6 DEF Finish, Backend
      <3>2. be[b].refs \in Seq(Reference) BY <1>t DEF Backend
      <3>3. \A r \in RefsOf(b)' : r \in RefsOf(b) \/ r = Ref(b)
        <4>1. \A i \in DOMAIN be'[b].refs :
                  \/ be'[b].refs[i] = Ref(b)
                  \/ i \in DOMAIN be[b].refs /\ be'[b].refs[i] = be[b].refs[i]
          <5>1. be[b].handle \in Handles BY <2>6, <1>t DEF Built, Backend
          <5>2. Ref(b) \in Reference BY <2>1, <5>1, RefType DEF CacheInv
          <5>3. \A i \in DOMAIN Append(be[b].refs, Ref(b)) :
                    \/ Append(be[b].refs, Ref(b))[i] = Ref(b)
                    \/ i \in DOMAIN be[b].refs /\ Append(be[b].refs, Ref(b))[i] = be[b].refs[i]
            BY <3>2, <5>2, AppendElement
          <5> QED BY <3>1, <5>3
        <4> QED BY <3>1, <4>1 DEF RefsOf
      <3>4. /\ slots'[s].state = "ready" /\ slots'[s].handle = be[b].handle
            /\ slots'[s].key = be[b].key
        <4>1. slots'[s] = Ready(b) BY <1>15, <1>t, <2>1, <2>6 DEF Finish
        <4> QED BY <4>1, <2>1, <1>t DEF Ready, Slot
      <3>5. ASSUME NEW c \in Backends, NEW r \in RefsOf(c)'
            PROVE  /\ slots'[r.slot].state = "ready"
                   /\ slots'[r.slot].handle = r.handle /\ slots'[r.slot].key = r.key
        <4>1. CASE r \in RefsOf(c) BY <4>1, <2>2, <2>4, <1>i DEF RefsFit
        <4>2. CASE c = b /\ r = Ref(b) BY <4>2, <3>4 DEF Ref
        <4>3. c # b => RefsOf(c)' = RefsOf(c) BY <2>3 DEF RefsOf, Ref
        <4> QED BY <3>3, <4>1, <4>2, <4>3
      <3> QED BY <3>5 DEF RefsFit
    <2> QED BY <2>5, <2>6
  <1>16. ASSUME NEW b \in Backends, Release(b) PROVE RefsFit'
    <2>1. /\ be[b].refs # <<>> /\ Unref(Head(be[b].refs)) /\ be[b].pc = "release"
          /\ be' = [be EXCEPT ![b].refs = Tail(@)]
      BY <1>16 DEF Release
    <2>2. be[b].refs \in Seq(Reference) BY <1>t DEF Backend
    <2>3. /\ \A c \in Backends \ {b} : be'[c] = be[c]
          /\ be'[b].refs = Tail(be[b].refs) /\ be'[b].pc = "release"
      BY <2>1, <1>t DEF Backend
    <2>4. \A i \in DOMAIN be'[b].refs : i \in Nat /\ i + 1 \in DOMAIN be[b].refs
                                          /\ be'[b].refs[i] = be[b].refs[i + 1]
      <3>1. \A i \in DOMAIN Tail(be[b].refs) : i \in Nat /\ i + 1 \in DOMAIN be[b].refs
                                          /\ Tail(be[b].refs)[i] = be[b].refs[i + 1]
        BY <2>1, <2>2, TailElement
      <3> QED BY <2>3, <3>1
    <2>5. \A c \in Backends : RefsOf(c)' \subseteq RefsOf(c)
      <3>1. \A r \in RefsOf(b)' : \E i \in DOMAIN be'[b].refs : r = be'[b].refs[i]
        BY <2>3 DEF RefsOf
      <3>2. ASSUME NEW i \in DOMAIN be'[b].refs PROVE be'[b].refs[i] \in RefsOf(b)
        <4>1. i + 1 \in DOMAIN be[b].refs /\ be'[b].refs[i] = be[b].refs[i + 1] BY <2>4
        <4> QED BY <4>1 DEF RefsOf
      <3>3. ASSUME NEW r \in RefsOf(b)' PROVE r \in RefsOf(b)
        <4>1. PICK i \in DOMAIN be'[b].refs : r = be'[b].refs[i] BY <3>1
        <4> QED BY <4>1, <3>2
      <3>4. ASSUME NEW c \in Backends \ {b} PROVE RefsOf(c)' = RefsOf(c)
        BY <2>3 DEF RefsOf, Ref
      <3> QED BY <3>3, <3>4
    <2>6. \A s \in Slots : /\ slots'[s].state = slots[s].state
                            /\ slots'[s].handle = slots[s].handle /\ slots'[s].key = slots[s].key
      BY <2>1, UnrefKeeps DEF CacheInv
    <2> QED BY <2>5, <2>6, KeepRefs
  <1>17. ASSUME NEW b \in Backends, Released(b) PROVE RefsFit'
    <2>1. \A c \in Backends : RefsOf(c)' \subseteq RefsOf(c)
      BY <1>17, <1>t DEF Released, RefsOf, Ref, Backend, Idle
    <2>2. \A s \in Slots : slots[s].state = "ready" /\ slots[s].refcnt > 0 =>
               /\ slots'[s].state = "ready"
               /\ slots'[s].handle = slots[s].handle /\ slots'[s].key = slots[s].key
      BY <1>17, <1>t, <1>i DEF Released, Idle, Slot, BuilderOwns
    <2> QED BY <2>1, <2>2, KeepRefs
  <1>18. ASSUME NEW b \in Backends, Retire(b) PROVE RefsFit'
    <2>1. \A c \in Backends : RefsOf(c)' \subseteq RefsOf(c)
      BY <1>18, <1>t DEF Retire, RefsOf, Ref, Backend
    <2>2. \A s \in Slots : slots[s].state = "ready" /\ slots[s].refcnt > 0 =>
               /\ slots'[s].state = "ready"
               /\ slots'[s].handle = slots[s].handle /\ slots'[s].key = slots[s].key
      BY <1>18, <1>t, <1>i DEF Retire, Dead, Unheld, Slot, BuilderOwns
    <2> QED BY <2>1, <2>2, KeepRefs
  <1>19. ASSUME NEW b \in Backends, RetireSkipped(b) PROVE RefsFit'
    <2>1. \A c \in Backends : RefsOf(c)' \subseteq RefsOf(c)
      BY <1>19, <1>t DEF RetireSkipped, RefsOf, Ref, Backend
    <2>2. \A s \in Slots : slots[s].state = "ready" /\ slots[s].refcnt > 0 =>
               /\ slots'[s].state = "ready"
               /\ slots'[s].handle = slots[s].handle /\ slots'[s].key = slots[s].key
      BY <1>19, <1>t, <1>i DEF RetireSkipped, Slot, BuilderOwns
    <2> QED BY <2>1, <2>2, KeepRefs
  <1>20. ASSUME NEW b \in Backends, Free(b) PROVE RefsFit'
    <2>1. \A c \in Backends : RefsOf(c)' \subseteq RefsOf(c)
      BY <1>20, <1>t DEF Free, RefsOf, Ref, Backend, Idle
    <2>2. \A s \in Slots : slots[s].state = "ready" /\ slots[s].refcnt > 0 =>
               /\ slots'[s].state = "ready"
               /\ slots'[s].handle = slots[s].handle /\ slots'[s].key = slots[s].key
      BY <1>20, <1>t, <1>i DEF Free, Idle, Slot, BuilderOwns
    <2> QED BY <2>1, <2>2, KeepRefs
  <1> QED BY <1>1, <1>2, <1>3, <1>4, <1>5, <1>6, <1>7, <1>8, <1>9, <1>10, <1>11, <1>12, <1>13,
     <1>14, <1>15, <1>16, <1>17, <1>18, <1>19, <1>20 DEF Next, Get

-----------------------------------------------------------------------------
(* The pinned payloads *)

\* Steps that leave the copies of the table and those in flight alone.
LEMMA KeepPinned ==
    ASSUME PinnedAt, UNCHANGED payload,
           \A b \in Backends : InFlight(b)' = InFlight(b),
           \A s \in Slots : /\ slots'[s].state = "ready" <=> slots[s].state = "ready"
                            /\ slots[s].state = "ready" => slots'[s].handle = slots[s].handle
    PROVE  PinnedAt'
  <1>1. ReadySlots' = ReadySlots BY DEF ReadySlots
  <1>2. \A s \in ReadySlots : slots'[s].handle = slots[s].handle BY DEF ReadySlots
  <1> QED BY <1>1, <1>2 DEF PinnedAt, ReadyPinned

LEMMA StepPinned == CacheInv /\ Next => PinnedAt'
  <1> SUFFICES ASSUME CacheInv, Next PROVE PinnedAt'
    OBVIOUS
  <1>i. PinnedAt /\ BuilderOwns /\ LocalsKnown /\ UnreadyEmpty BY DEF CacheInv
  <1>t. be \in [Backends -> Backend] /\ slots \in [Slots -> Slot]
    BY DEF CacheInv, TypeOK
  <1>k. \A b \in Backends : Known(be[b]) BY <1>i DEF LocalsKnown
  <1>1. ASSUME NEW k \in Keys, Publish(k) PROVE PinnedAt'
    <2>1. \A c \in Backends : InFlight(c)' = InFlight(c)
      BY <1>1, <1>t, <1>k DEF Publish, InFlight, Known, Backend
    <2>2. \A s \in Slots :
              /\ slots'[s].state = "ready" <=> slots[s].state = "ready"
              /\ slots[s].state = "ready" => slots'[s].handle = slots[s].handle
      BY <1>1, <1>t, <1>i DEF Publish, Slot, BuilderOwns
    <2>3. UNCHANGED payload BY <1>1 DEF Publish
    <2> QED BY <2>1, <2>2, <2>3, <1>i, KeepPinned
  <1>2. ASSUME NEW b \in Backends, Begin(b) PROVE PinnedAt'
    <2>1. \A c \in Backends : InFlight(c)' = InFlight(c)
      BY <1>2, <1>t, <1>k DEF Begin, InFlight, Known, Backend
    <2>2. \A s \in Slots :
              /\ slots'[s].state = "ready" <=> slots[s].state = "ready"
              /\ slots[s].state = "ready" => slots'[s].handle = slots[s].handle
      BY <1>2, <1>t, <1>i DEF Begin, Slot, BuilderOwns
    <2>3. UNCHANGED payload BY <1>2 DEF Begin
    <2> QED BY <2>1, <2>2, <2>3, <1>i, KeepPinned
  <1>3. ASSUME NEW b \in Backends, End(b) PROVE PinnedAt'
    <2>1. \A c \in Backends : InFlight(c)' = InFlight(c)
      BY <1>3, <1>t, <1>k DEF End, InFlight, Known, Backend
    <2>2. \A s \in Slots :
              /\ slots'[s].state = "ready" <=> slots[s].state = "ready"
              /\ slots[s].state = "ready" => slots'[s].handle = slots[s].handle
      BY <1>3, <1>t, <1>i DEF End, Slot, BuilderOwns
    <2>3. UNCHANGED payload BY <1>3 DEF End
    <2> QED BY <2>1, <2>2, <2>3, <1>i, KeepPinned
  <1>4. ASSUME NEW b \in Backends, NEW k \in Keys, Drop(b, k) PROVE PinnedAt'
    <2>1. \A c \in Backends : InFlight(c)' = InFlight(c)
      BY <1>4, <1>t, <1>k DEF Drop, InFlight, Known, Backend
    <2>2. \A s \in Slots :
              /\ slots'[s].state = "ready" <=> slots[s].state = "ready"
              /\ slots[s].state = "ready" => slots'[s].handle = slots[s].handle
      BY <1>4, <1>t, <1>i DEF Drop, Slot, BuilderOwns
    <2>3. UNCHANGED payload BY <1>4 DEF Drop
    <2> QED BY <2>1, <2>2, <2>3, <1>i, KeepPinned
  <1>5. ASSUME NEW b \in Backends, Attach(b) PROVE PinnedAt'
    <2>1. \A c \in Backends : InFlight(c)' = InFlight(c)
      BY <1>5, <1>t, <1>k DEF Attach, InFlight, Known, Backend
    <2>2. \A s \in Slots :
              /\ slots'[s].state = "ready" <=> slots[s].state = "ready"
              /\ slots[s].state = "ready" => slots'[s].handle = slots[s].handle
      BY <1>5, <1>t, <1>i DEF Attach, Slot, BuilderOwns
    <2>3. UNCHANGED payload BY <1>5 DEF Attach
    <2> QED BY <2>1, <2>2, <2>3, <1>i, KeepPinned
  <1>6. ASSUME NEW b \in Backends, NEW k \in Keys, Hit(b, k) PROVE PinnedAt'
    <2>1. \A c \in Backends : InFlight(c)' = InFlight(c)
      <3>1. \A c \in Backends \ {b} : be'[c] = be[c] BY <1>6, <1>t DEF Hit
      <3>2. be[b].pc # "publish" /\ be'[b].pc = "map" /\ be'[b].todo = be[b].todo
        BY <1>6, <1>t DEF Hit, Asks, Backend
      <3> QED BY <3>1, <3>2 DEF InFlight
    <2>2. \A s \in Slots :
              /\ slots'[s].state = "ready" <=> slots[s].state = "ready"
              /\ slots[s].state = "ready" => slots'[s].handle = slots[s].handle
      BY <1>6, <1>t, <1>i DEF Hit, Matches, Slot, BuilderOwns
    <2>3. UNCHANGED payload BY <1>6 DEF Hit
    <2> QED BY <2>1, <2>2, <2>3, <1>i, KeepPinned
  <1>7. ASSUME NEW b \in Backends, NEW k \in Keys, FreeAbandoned(b, k) PROVE PinnedAt'
    <2>1. \A c \in Backends : InFlight(c)' = InFlight(c)
      BY <1>7, <1>t, <1>k DEF FreeAbandoned, InFlight, Known, Backend
    <2>2. \A s \in Slots :
              /\ slots'[s].state = "ready" <=> slots[s].state = "ready"
              /\ slots[s].state = "ready" => slots'[s].handle = slots[s].handle
      BY <1>7, <1>t, <1>i DEF FreeAbandoned, Abandoned, Matches, FreeSlot, Slot, BuilderOwns
    <2>3. UNCHANGED payload BY <1>7 DEF FreeAbandoned
    <2> QED BY <2>1, <2>2, <2>3, <1>i, KeepPinned
  <1>8. ASSUME NEW b \in Backends, NEW k \in Keys, Miss(b, k) PROVE PinnedAt'
    <2>1. PICK s \in Claimable :
             /\ slots' = [slots EXCEPT ![s] =
                   [FreeSlot EXCEPT !.state = "building", !.key = k, !.builder = b]]
             /\ be' = [be EXCEPT ![b].pc = "build", ![b].key = k, ![b].slot = s,
                                 ![b].todo = Evicted(s)]
      BY <1>8 DEF Miss
    <2>2. s \in Slots BY DEF Claimable, Unheld
    <2>3. /\ \A c \in Backends \ {b} : be'[c] = be[c]
          /\ be[b].pc = "scan" /\ be'[b].pc = "build" /\ be'[b].todo = Evicted(s)
      BY <1>8, <2>1, <1>t DEF Miss, Asks, Backend
    <2>4. InFlight(b) = {} /\ InFlight(b)' = Evicted(s)
      BY <1>k, <2>3 DEF InFlight, Known
    <2>5. \A c \in Backends \ {b} : InFlight(c)' = InFlight(c) BY <2>3 DEF InFlight
    <2>6. ReadySlots' = ReadySlots \ {s} /\ \A u \in Slots \ {s} : slots'[u] = slots[u]
      BY <2>1, <2>2, <1>t DEF ReadySlots, FreeSlot
    <2>7. Evicted(s) = IF s \in ReadySlots THEN {slots[s].handle} ELSE {}
      BY <2>2, <1>i, NoneAssumption DEF Evicted, UnreadyEmpty, ReadySlots, PinnedAt, ReadyPinned
    <2>8. UNCHANGED payload BY <1>8 DEF Miss
    <2>9. \A u \in ReadySlots' : u \in ReadySlots \ {s} /\ slots'[u].handle = slots[u].handle
      BY <2>6 DEF ReadySlots
    <2> QED BY <2>2, <2>4, <2>5, <2>6, <2>7, <2>8, <2>9, <1>i DEF PinnedAt, ReadyPinned
  <1>9. ASSUME NEW b \in Backends, Unpin(b) PROVE PinnedAt'
    <2>1. PICK h \in be[b].todo : /\ payload' = [payload EXCEPT ![h] = None]
                                  /\ be' = [be EXCEPT ![b].todo = @ \ {h}]
      BY <1>9 DEF Unpin
    <2>2. /\ \A c \in Backends \ {b} : be'[c] = be[c]
          /\ be'[b].pc = be[b].pc /\ be'[b].todo = be[b].todo \ {h}
      BY <2>1, <1>t DEF Backend
    <2>3. be[b].pc \in {"build", "free"} BY <2>1, <1>k DEF Known
    <2>4. InFlight(b) = be[b].todo /\ InFlight(b)' = be[b].todo \ {h} BY <2>2, <2>3 DEF InFlight
    <2>5. \A c \in Backends \ {b} : InFlight(c)' = InFlight(c) BY <2>2 DEF InFlight
    <2>6. UNCHANGED slots BY <1>9 DEF Unpin
    <2>7. \A g \in Handles \ {h} : payload'[g] = payload[g] BY <2>1 DEF CacheInv, TypeOK
    <2>8. h \in Handles /\ payload'[h] = None
      BY <2>1, <2>4, <1>i DEF PinnedAt, CacheInv, TypeOK
    <2> QED BY <2>1, <2>4, <2>5, <2>6, <2>7, <2>8, <1>i DEF PinnedAt, ReadyPinned, ReadySlots
  <1>10. ASSUME NEW b \in Backends, Map(b) PROVE PinnedAt'
    <2>1. \A c \in Backends : InFlight(c)' = InFlight(c)
      <3>1. \A c \in Backends \ {b} : be'[c] = be[c] BY <1>10, <1>t DEF Map
      <3>2. be[b].pc # "publish" /\ be'[b].pc = "scan" /\ be'[b].todo = be[b].todo
        BY <1>10, <1>t DEF Map, Asks, Backend
      <3> QED BY <3>1, <3>2 DEF InFlight
    <2>2. \A s \in Slots :
              /\ slots'[s].state = "ready" <=> slots[s].state = "ready"
              /\ slots[s].state = "ready" => slots'[s].handle = slots[s].handle
      <3>1. UNCHANGED slots \/ \E r : Unref(r) BY <1>10 DEF Map
      <3> QED BY <3>1, UnrefKeeps DEF CacheInv
    <2>3. UNCHANGED payload BY <1>10 DEF Map
    <2> QED BY <2>1, <2>2, <2>3, <1>i, KeepPinned
  <1>11. ASSUME NEW b \in Backends, MapFails(b) PROVE PinnedAt'
    <2>1. \A c \in Backends : InFlight(c)' = InFlight(c)
      BY <1>11, <1>t, <1>k DEF MapFails, InFlight, Known, Backend
    <2>2. \A s \in Slots :
              /\ slots'[s].state = "ready" <=> slots[s].state = "ready"
              /\ slots[s].state = "ready" => slots'[s].handle = slots[s].handle
      BY <1>11, <1>t, <1>i DEF MapFails, Slot, BuilderOwns
    <2>3. UNCHANGED payload BY <1>11 DEF MapFails
    <2> QED BY <2>1, <2>2, <2>3, <1>i, KeepPinned
  <1>12. ASSUME NEW b \in Backends, Build(b) PROVE PinnedAt'
    <2>1. UNCHANGED slots /\ be[b].pc = "build" /\ be[b].todo = {} BY <1>12 DEF Build
    <2>2. \A c \in Backends \ {b} : be'[c] = be[c] BY <1>12, <1>t DEF Build
    <2>3. be'[b].pc = "publish" /\ be'[b].todo = be[b].todo
      <3>1. \E h : be' = [be EXCEPT ![b].pc = "publish", ![b].handle = h] BY <1>12 DEF Build
      <3> QED BY <3>1, <1>t DEF Backend
    <2>4. InFlight(b) = {} /\ InFlight(b)' = {be'[b].handle} \ {None} BY <2>1, <2>3 DEF InFlight
    <2>5. \A c \in Backends \ {b} : InFlight(c)' = InFlight(c) BY <2>2 DEF InFlight
    <2>6. CASE UNCHANGED payload /\ be'[b].handle = None
      BY <2>1, <2>4, <2>5, <2>6, <1>i DEF PinnedAt, ReadyPinned, ReadySlots
    <2>7. ASSUME NEW h \in Handles, payload[h] = None, be'[b].handle = h,
                 payload' = [payload EXCEPT ![h] =
                               [key |-> be[b].key, gen |-> be[b].view[be[b].key]]]
          PROVE  PinnedAt'
      <3>1. /\ \A g \in Handles \ {h} : payload'[g] = payload[g]
            /\ payload'[h] = [key |-> be[b].key, gen |-> be[b].view[be[b].key]]
        BY <2>7 DEF CacheInv, TypeOK
      <3>2. be[b].key \in Keys /\ be[b].view[be[b].key] \in 1..MaxGen
        BY <2>1, <1>k, <1>t, BoundsAssumption DEF Known, Backend
      <3>3. payload'[h] # None BY <3>1, <3>2, NoneAssumption
      <3>4. InFlight(b)' = {h} BY <2>4, <2>7, NoneAssumption
      <3> QED BY <2>1, <2>4, <2>5, <2>7, <3>1, <3>3, <3>4, <1>i
             DEF PinnedAt, ReadyPinned, ReadySlots
    <2> QED BY <1>12, <1>t, <2>6, <2>7 DEF Build, Backend
  <1>13. ASSUME NEW b \in Backends, BuildFails(b) PROVE PinnedAt'
    <2>1. \A c \in Backends : InFlight(c)' = InFlight(c)
      BY <1>13, <1>t, <1>k DEF BuildFails, InFlight, Known, Backend
    <2>2. \A s \in Slots :
              /\ slots'[s].state = "ready" <=> slots[s].state = "ready"
              /\ slots[s].state = "ready" => slots'[s].handle = slots[s].handle
      BY <1>13, <1>t, <1>i DEF BuildFails, FreeSlot, Slot, BuilderOwns
    <2>3. UNCHANGED payload BY <1>13 DEF BuildFails
    <2> QED BY <2>1, <2>2, <2>3, <1>i, KeepPinned
  <1>14. ASSUME NEW b \in Backends, Killed(b) PROVE PinnedAt'
    <2>1. \A c \in Backends : InFlight(c)' = InFlight(c)
      BY <1>14, <1>t, <1>k DEF Killed, InFlight, Known, Backend
    <2>2. \A s \in Slots :
              /\ slots'[s].state = "ready" <=> slots[s].state = "ready"
              /\ slots[s].state = "ready" => slots'[s].handle = slots[s].handle
      BY <1>14, <1>t, <1>i DEF Killed, Slot, BuilderOwns
    <2>3. UNCHANGED payload BY <1>14 DEF Killed
    <2> QED BY <2>1, <2>2, <2>3, <1>i, KeepPinned
  <1>15. ASSUME NEW b \in Backends, Finish(b) PROVE PinnedAt'
    <2> DEFINE s == be[b].slot
    <2>1. s \in Slots /\ slots[s].state = "building" /\ be[b].pc = "publish" /\ be[b].todo = {}
      BY <1>15, <1>i, <1>k DEF Finish, Known, BuilderOwns
    <2>2. \A u \in Slots \ {s} : slots'[u] = slots[u] BY <1>15, <1>t DEF Finish
    <2>3. \A c \in Backends \ {b} : be'[c] = be[c] BY <1>15, <1>t DEF Finish
    <2>4. be'[b].pc = "scan" /\ be'[b].todo = be[b].todo BY <1>15, <1>t DEF Finish, Backend
    <2>5. InFlight(b) = {be[b].handle} \ {None} /\ InFlight(b)' = {} BY <2>1, <2>4 DEF InFlight
    <2>6. \A c \in Backends \ {b} : InFlight(c)' = InFlight(c) BY <2>3 DEF InFlight
    <2>7. UNCHANGED payload BY <1>15 DEF Finish
    <2>8. CASE Built(b)
      <3>1. slots'[s] = Ready(b) BY <1>15, <1>t, <2>1, <2>8 DEF Finish
      <3>2. slots'[s].state = "ready" /\ slots'[s].handle = be[b].handle
        BY <3>1, <2>1, <1>t DEF Ready, Slot
      <3>3. InFlight(b) = {be[b].handle} BY <2>5, <2>8 DEF Built
      <3>4. ReadySlots' = ReadySlots \cup {s} /\ s \notin ReadySlots
        BY <2>1, <2>2, <3>2 DEF ReadySlots
      <3>5. \A u \in ReadySlots : slots'[u] = slots[u] BY <2>2, <3>4 DEF ReadySlots
      <3> QED BY <2>5, <2>6, <2>7, <3>2, <3>3, <3>4, <3>5, <1>i DEF PinnedAt, ReadyPinned
    <2>9. CASE ~Built(b)
      <3>1. slots'[s] = FreeSlot BY <1>15, <1>t, <2>1, <2>9 DEF Finish
      <3>2. InFlight(b) = {} BY <2>5, <2>9 DEF Built
      <3>3. \A u \in Slots : slots[u].state = "ready" => slots'[u] = slots[u] BY <2>1, <2>2
      <3>4. \A u \in Slots : slots'[u].state = "ready" => slots[u].state = "ready"
        BY <2>2, <3>1 DEF FreeSlot
      <3> QED BY <2>5, <2>6, <2>7, <3>2, <3>3, <3>4, <1>i, KeepPinned
    <2> QED BY <2>8, <2>9
  <1>16. ASSUME NEW b \in Backends, Release(b) PROVE PinnedAt'
    <2>1. \A c \in Backends : InFlight(c)' = InFlight(c)
      BY <1>16, <1>t, <1>k DEF Release, InFlight, Known, Backend
    <2>2. \A s \in Slots :
              /\ slots'[s].state = "ready" <=> slots[s].state = "ready"
              /\ slots[s].state = "ready" => slots'[s].handle = slots[s].handle
      <3>1. UNCHANGED slots \/ \E r : Unref(r) BY <1>16 DEF Release
      <3> QED BY <3>1, UnrefKeeps DEF CacheInv
    <2>3. UNCHANGED payload BY <1>16 DEF Release
    <2> QED BY <2>1, <2>2, <2>3, <1>i, KeepPinned
  <1>17. ASSUME NEW b \in Backends, Released(b) PROVE PinnedAt'
    <2>1. \A c \in Backends : InFlight(c)' = InFlight(c)
      BY <1>17, <1>t, <1>k DEF Released, InFlight, Known, Backend, Idle
    <2>2. \A s \in Slots :
              /\ slots'[s].state = "ready" <=> slots[s].state = "ready"
              /\ slots[s].state = "ready" => slots'[s].handle = slots[s].handle
      BY <1>17, <1>t, <1>i DEF Released, Idle, Slot, BuilderOwns
    <2>3. UNCHANGED payload BY <1>17 DEF Released
    <2> QED BY <2>1, <2>2, <2>3, <1>i, KeepPinned
  <1>18. ASSUME NEW b \in Backends, Retire(b) PROVE PinnedAt'
    <2> DEFINE D == {slots[s].handle : s \in Dead(be[b].key)}
    <2>1. be[b].pc = "retire" /\ be'[b].pc = "free" /\ be'[b].todo = D
      BY <1>18, <1>t DEF Retire, Backend
    <2>2. \A c \in Backends \ {b} : be'[c] = be[c] BY <1>18, <1>t DEF Retire
    <2>3. InFlight(b) = {} /\ InFlight(b)' = D BY <1>k, <2>1 DEF InFlight, Known
    <2>4. \A c \in Backends \ {b} : InFlight(c)' = InFlight(c) BY <2>2 DEF InFlight
    <2>5. Dead(be[b].key) \subseteq ReadySlots BY DEF Dead, Unheld, ReadySlots
    <2>6. /\ ReadySlots' = ReadySlots \ Dead(be[b].key)
          /\ \A u \in ReadySlots' : slots'[u].handle = slots[u].handle
      BY <1>18, <1>t DEF Retire, ReadySlots, FreeSlot, Slot
    <2>7. UNCHANGED payload BY <1>18 DEF Retire
    <2> QED BY <2>3, <2>4, <2>5, <2>6, <2>7, <1>i DEF PinnedAt, ReadyPinned
  <1>19. ASSUME NEW b \in Backends, RetireSkipped(b) PROVE PinnedAt'
    <2>1. \A c \in Backends : InFlight(c)' = InFlight(c)
      BY <1>19, <1>t, <1>k DEF RetireSkipped, InFlight, Known, Backend
    <2>2. \A s \in Slots :
              /\ slots'[s].state = "ready" <=> slots[s].state = "ready"
              /\ slots[s].state = "ready" => slots'[s].handle = slots[s].handle
      BY <1>19, <1>t, <1>i DEF RetireSkipped, Slot, BuilderOwns
    <2>3. UNCHANGED payload BY <1>19 DEF RetireSkipped
    <2> QED BY <2>1, <2>2, <2>3, <1>i, KeepPinned
  <1>20. ASSUME NEW b \in Backends, Free(b) PROVE PinnedAt'
    <2>1. \A c \in Backends : InFlight(c)' = InFlight(c)
      BY <1>20, <1>t, <1>k DEF Free, InFlight, Known, Backend, Idle
    <2>2. \A s \in Slots :
              /\ slots'[s].state = "ready" <=> slots[s].state = "ready"
              /\ slots[s].state = "ready" => slots'[s].handle = slots[s].handle
      BY <1>20, <1>t, <1>i DEF Free, Idle, Slot, BuilderOwns
    <2>3. UNCHANGED payload BY <1>20 DEF Free
    <2> QED BY <2>1, <2>2, <2>3, <1>i, KeepPinned
  <1> QED BY <1>1, <1>2, <1>3, <1>4, <1>5, <1>6, <1>7, <1>8, <1>9, <1>10, <1>11, <1>12, <1>13,
     <1>14, <1>15, <1>16, <1>17, <1>18, <1>19, <1>20 DEF Next, Get

-----------------------------------------------------------------------------
(* The counts *)

\* Cardinalities of a set that lost elements, gained one, or had one replaced.
LEMMA CountLess ==
    ASSUME NEW S, IsFiniteSet(S), NEW T \in SUBSET S
    PROVE  IsFiniteSet(T) /\ Cardinality(T) \in Nat /\ Cardinality(T) <= Cardinality(S)
  BY FS_Subset, FS_CardinalityType

LEMMA CountAdd ==
    ASSUME NEW S, IsFiniteSet(S), NEW x, NEW T \in SUBSET (S \cup {x})
    PROVE  /\ IsFiniteSet(T) /\ Cardinality(T) \in Nat
           /\ Cardinality(T) <= Cardinality(S) + 1
  <1> DEFINE U == S \cup {x}
  <1>1. IsFiniteSet(U) /\ Cardinality(U) = IF x \in S THEN Cardinality(S) ELSE Cardinality(S) + 1
    BY FS_AddElement
  <1>2. Cardinality(S) \in Nat BY FS_CardinalityType
  <1>3. IsFiniteSet(T) /\ Cardinality(T) \in Nat /\ Cardinality(T) <= Cardinality(U)
    BY <1>1, CountLess
  <1> HIDE DEF U
  <1> QED BY <1>1, <1>2, <1>3

LEMMA CountDrop ==
    ASSUME NEW S, IsFiniteSet(S), NEW x \in S, NEW T \in SUBSET (S \ {x})
    PROVE  /\ IsFiniteSet(T) /\ Cardinality(T) \in Nat
           /\ Cardinality(T) <= Cardinality(S) - 1
  <1> DEFINE U == S \ {x}
  <1>1. IsFiniteSet(U) /\ Cardinality(U) = Cardinality(S) - 1 BY FS_RemoveElement
  <1>2. IsFiniteSet(T) /\ Cardinality(T) \in Nat /\ Cardinality(T) <= Cardinality(U)
    BY <1>1, CountLess
  <1> HIDE DEF U
  <1> QED BY <1>1, <1>2

LEMMA CountMove ==
    ASSUME NEW S, IsFiniteSet(S), NEW x \in S, NEW y, NEW T \in SUBSET ((S \ {x}) \cup {y})
    PROVE  Cardinality(T) \in Nat /\ Cardinality(T) <= Cardinality(S)
  <1> DEFINE U == S \ {x}
  <1>1. IsFiniteSet(U) /\ Cardinality(U) \in Nat /\ Cardinality(U) <= Cardinality(S) - 1
    BY CountDrop
  <1>2. Cardinality(T) \in Nat /\ Cardinality(T) <= Cardinality(U) + 1 BY <1>1, CountAdd
  <1>3. Cardinality(S) \in Nat BY FS_CardinalityType
  <1> HIDE DEF U
  <1> QED BY <1>1, <1>2, <1>3

LEMMA HoldersCount == ASSUME NEW s PROVE Cardinality(HolderSet(s)) \in Nat
  BY HoldersFinite, FS_CardinalityType

\* A slot without a finished copy has no holders.
LEMMA NoHolders ==
    ASSUME CacheInv, NEW s \in Slots, slots[s].state # "ready" PROVE HolderSet(s) = {}
  <1> SUFFICES ASSUME NEW b \in Backends, NEW i \in 0..MaxRefs, Holds(b, i, s) PROVE FALSE
    BY DEF HolderSet
  <1>1. \E r \in RefsOf(b) : r.slot = s
    <2>1. CASE i = 0 /\ be[b].pc = "map" /\ be[b].slot = s
      <3>1. Ref(b) \in RefsOf(b) /\ Ref(b).slot = s BY <2>1 DEF RefsOf, Ref
      <3> QED BY <3>1
    <2>2. CASE i \in DOMAIN be[b].refs /\ be[b].refs[i].slot = s BY <2>2 DEF RefsOf
    <2> QED BY <2>1, <2>2 DEF Holds
  <1> QED BY <1>1 DEF CacheInv, RefsFit

\* Steps that add no holder and lower no count.
LEMMA KeepCount ==
    ASSUME CacheInv,
           \A b \in Backends, i \in 0..MaxRefs, s \in Slots : Holds(b, i, s)' => Holds(b, i, s),
           \A s \in Slots : slots'[s].state = "ready" =>
               slots[s].state = "ready" /\ slots'[s].refcnt = slots[s].refcnt
    PROVE  CountCovers'
  <1> SUFFICES ASSUME NEW s \in Slots, slots'[s].state = "ready"
               PROVE  slots'[s].refcnt >= Cardinality(HolderSet(s)')
    BY DEF CountCovers, ReadySlots
  <1>1. HolderSet(s)' \subseteq HolderSet(s) BY DEF HolderSet
  <1>2. Cardinality(HolderSet(s)') <= Cardinality(HolderSet(s)) /\ IsFiniteSet(HolderSet(s)')
    BY <1>1, HoldersFinite, FS_Subset
  <1>3. Cardinality(HolderSet(s)') \in Nat BY <1>2, FS_CardinalityType
  <1>4. slots[s].refcnt \in Nat /\ slots[s].refcnt >= Cardinality(HolderSet(s))
    BY DEF CacheInv, CountCovers, ReadySlots, TypeOK, Slot
  <1> QED BY <1>2, <1>3, <1>4, HoldersCount

LEMMA StepCount == CacheInv /\ Next => CountCovers'
  <1> SUFFICES ASSUME CacheInv, Next PROVE CountCovers'
    OBVIOUS
  <1>i. BuilderOwns /\ LocalsKnown /\ CountCovers BY DEF CacheInv
  <1>t. be \in [Backends -> Backend] /\ slots \in [Slots -> Slot]
    BY DEF CacheInv, TypeOK
  <1>k. \A b \in Backends : Known(be[b]) BY <1>i DEF LocalsKnown
  <1>1. ASSUME NEW k \in Keys, Publish(k) PROVE CountCovers'
    <2>1. \A c \in Backends, i \in 0..MaxRefs, s \in Slots : Holds(c, i, s)' => Holds(c, i, s)
      BY <1>1, <1>t DEF Publish, Holds, Backend
    <2>2. \A s \in Slots : slots'[s].state = "ready" =>
               slots[s].state = "ready" /\ slots'[s].refcnt = slots[s].refcnt
      BY <1>1, <1>t, <1>i DEF Publish, Slot, BuilderOwns
    <2> QED BY <2>1, <2>2, KeepCount
  <1>2. ASSUME NEW b \in Backends, Begin(b) PROVE CountCovers'
    <2>1. \A c \in Backends, i \in 0..MaxRefs, s \in Slots : Holds(c, i, s)' => Holds(c, i, s)
      BY <1>2, <1>t DEF Begin, Holds, Backend
    <2>2. \A s \in Slots : slots'[s].state = "ready" =>
               slots[s].state = "ready" /\ slots'[s].refcnt = slots[s].refcnt
      BY <1>2, <1>t, <1>i DEF Begin, Slot, BuilderOwns
    <2> QED BY <2>1, <2>2, KeepCount
  <1>3. ASSUME NEW b \in Backends, End(b) PROVE CountCovers'
    <2>1. \A c \in Backends, i \in 0..MaxRefs, s \in Slots : Holds(c, i, s)' => Holds(c, i, s)
      BY <1>3, <1>t DEF End, Holds, Backend
    <2>2. \A s \in Slots : slots'[s].state = "ready" =>
               slots[s].state = "ready" /\ slots'[s].refcnt = slots[s].refcnt
      BY <1>3, <1>t, <1>i DEF End, Slot, BuilderOwns
    <2> QED BY <2>1, <2>2, KeepCount
  <1>4. ASSUME NEW b \in Backends, NEW k \in Keys, Drop(b, k) PROVE CountCovers'
    <2>1. \A c \in Backends, i \in 0..MaxRefs, s \in Slots : Holds(c, i, s)' => Holds(c, i, s)
      BY <1>4, <1>t DEF Drop, Holds, Backend
    <2>2. \A s \in Slots : slots'[s].state = "ready" =>
               slots[s].state = "ready" /\ slots'[s].refcnt = slots[s].refcnt
      BY <1>4, <1>t, <1>i DEF Drop, Slot, BuilderOwns
    <2> QED BY <2>1, <2>2, KeepCount
  <1>5. ASSUME NEW b \in Backends, Attach(b) PROVE CountCovers'
    <2>1. \A c \in Backends, i \in 0..MaxRefs, s \in Slots : Holds(c, i, s)' => Holds(c, i, s)
      BY <1>5, <1>t DEF Attach, Holds, Backend
    <2>2. \A s \in Slots : slots'[s].state = "ready" =>
               slots[s].state = "ready" /\ slots'[s].refcnt = slots[s].refcnt
      BY <1>5, <1>t, <1>i DEF Attach, Slot, BuilderOwns
    <2> QED BY <2>1, <2>2, KeepCount
  <1>6. ASSUME NEW b \in Backends, NEW k \in Keys, Hit(b, k) PROVE CountCovers'
    <2>1. PICK s \in Matches(k) :
             /\ slots' = [slots EXCEPT ![s].refcnt = @ + 1]
             /\ slots[s].state = "ready"
             /\ be' = [be EXCEPT ![b].pc = "map", ![b].key = k, ![b].slot = s,
                                 ![b].handle = slots[s].handle]
      BY <1>6 DEF Hit
    <2>2. s \in Slots BY DEF Matches
    <2>3. /\ \A c \in Backends \ {b} : be'[c] = be[c]
          /\ be[b].pc = "scan" /\ be'[b].pc = "map" /\ be'[b].slot = s
          /\ be'[b].refs = be[b].refs
      BY <1>6, <2>1, <1>t DEF Hit, Asks, Backend
    <2>4. ASSUME NEW u \in Slots, slots'[u].state = "ready"
          PROVE  slots'[u].refcnt >= Cardinality(HolderSet(u)')
      <3>1. slots[u].state = "ready" /\ slots[u].refcnt \in Nat
            /\ slots'[u].refcnt = slots[u].refcnt + (IF u = s THEN 1 ELSE 0)
        BY <2>1, <2>2, <2>4, <1>t DEF Slot
      <3>2. slots[u].refcnt >= Cardinality(HolderSet(u))
        BY <3>1, <1>i DEF CountCovers, ReadySlots
      <3>3. HolderSet(u)' \subseteq HolderSet(u) \cup (IF u = s THEN {<<b, 0>>} ELSE {})
        <4>1. \A c \in Backends, i \in 0..MaxRefs :
                  Holds(c, i, u)' => Holds(c, i, u) \/ (c = b /\ i = 0 /\ u = s)
          BY <2>3 DEF Holds
        <4> QED BY <4>1 DEF HolderSet
      <3>4. CASE u = s
        <4>1. HolderSet(u)' \subseteq HolderSet(u) \cup {<<b, 0>>} BY <3>3, <3>4
        <4>2. /\ Cardinality(HolderSet(u)') \in Nat
              /\ Cardinality(HolderSet(u)') <= Cardinality(HolderSet(u)) + 1
          BY <4>1, HoldersFinite, CountAdd
        <4> QED BY <3>1, <3>2, <3>4, <4>2, HoldersCount
      <3>5. CASE u # s
        <4>1. HolderSet(u)' \subseteq HolderSet(u) BY <3>3, <3>5
        <4>2. /\ Cardinality(HolderSet(u)') \in Nat
              /\ Cardinality(HolderSet(u)') <= Cardinality(HolderSet(u))
          BY <4>1, HoldersFinite, CountLess
        <4> QED BY <3>1, <3>2, <3>5, <4>2, HoldersCount
      <3> QED BY <3>4, <3>5
    <2> QED BY <2>4 DEF CountCovers, ReadySlots
  <1>7. ASSUME NEW b \in Backends, NEW k \in Keys, FreeAbandoned(b, k) PROVE CountCovers'
    <2>1. \A c \in Backends, i \in 0..MaxRefs, s \in Slots : Holds(c, i, s)' => Holds(c, i, s)
      BY <1>7, <1>t DEF FreeAbandoned, Holds, Backend
    <2>2. \A s \in Slots : slots'[s].state = "ready" =>
               slots[s].state = "ready" /\ slots'[s].refcnt = slots[s].refcnt
      BY <1>7, <1>t, <1>i DEF FreeAbandoned, Abandoned, Matches, FreeSlot, Slot, BuilderOwns
    <2> QED BY <2>1, <2>2, KeepCount
  <1>8. ASSUME NEW b \in Backends, NEW k \in Keys, Miss(b, k) PROVE CountCovers'
    <2>1. \A c \in Backends, i \in 0..MaxRefs, s \in Slots : Holds(c, i, s)' => Holds(c, i, s)
      BY <1>8, <1>t DEF Miss, Holds, Backend
    <2>2. \A s \in Slots : slots'[s].state = "ready" =>
               slots[s].state = "ready" /\ slots'[s].refcnt = slots[s].refcnt
      BY <1>8, <1>t, <1>i DEF Miss, Claimable, Unheld, Abandoned, FreeSlot, Slot, BuilderOwns
    <2> QED BY <2>1, <2>2, KeepCount
  <1>9. ASSUME NEW b \in Backends, Unpin(b) PROVE CountCovers'
    <2>1. \A c \in Backends, i \in 0..MaxRefs, s \in Slots : Holds(c, i, s)' => Holds(c, i, s)
      BY <1>9, <1>t DEF Unpin, Holds, Backend
    <2>2. \A s \in Slots : slots'[s].state = "ready" =>
               slots[s].state = "ready" /\ slots'[s].refcnt = slots[s].refcnt
      BY <1>9, <1>t, <1>i DEF Unpin, Slot, BuilderOwns
    <2> QED BY <2>1, <2>2, KeepCount
  <1>10. ASSUME NEW b \in Backends, Map(b) PROVE CountCovers'
    <2> DEFINE s == be[b].slot
               n == Len(be[b].refs) + 1
    <2>1. \A c \in Backends \ {b} : be'[c] = be[c] BY <1>10, <1>t DEF Map
    <2>2. be[b].pc = "map" /\ be'[b].pc = "scan" /\ s \in Slots
      BY <1>10, <1>t, <1>k DEF Map, Backend, Known
    <2>3. be[b].refs \in Seq(Reference) /\ Ref(b).slot = s BY <1>t DEF Backend, Ref
    <2>4. <<b, 0>> \in HolderSet(s) BY <2>2, BoundsAssumption DEF HolderSet, Holds
    <2>5. CASE be'[b].refs = Append(be[b].refs, Ref(b)) /\ UNCHANGED slots
      <3>1. Ref(b) \in Reference BY <2>2, <1>k, RefType DEF CacheInv, Known
      <3>2. /\ n \in Nat \ {0} /\ DOMAIN be'[b].refs = 1..n
            /\ \A i \in 1..n : i # n => i \in DOMAIN be[b].refs /\ be'[b].refs[i] = be[b].refs[i]
            /\ be'[b].refs[n] = Ref(b)
        BY <2>3, <2>5, <3>1
      <3> HIDE DEF n
      <3>3. ASSUME NEW u \in Slots, slots[u].state = "ready"
            PROVE  slots[u].refcnt >= Cardinality(HolderSet(u)')
        <4>1. slots[u].refcnt \in Nat /\ slots[u].refcnt >= Cardinality(HolderSet(u))
          BY <3>3, <1>t, <1>i DEF Slot, CountCovers, ReadySlots
        <4>2. \A c \in Backends, i \in 0..MaxRefs :
                  Holds(c, i, u)' => (Holds(c, i, u) /\ <<c, i>> # <<b, 0>>) \/ (c = b /\ i = n /\ u = s)
          BY <2>1, <2>2, <2>3, <3>2 DEF Holds
        <4>3. CASE u = s
          <5>1. HolderSet(u)' \subseteq (HolderSet(u) \ {<<b, 0>>}) \cup {<<b, n>>}
            BY <4>2 DEF HolderSet
          <5>2. /\ Cardinality(HolderSet(u)') \in Nat
                /\ Cardinality(HolderSet(u)') <= Cardinality(HolderSet(u))
            BY <2>4, <4>3, <5>1, HoldersFinite, CountMove
          <5> QED BY <4>1, <5>2, HoldersCount
        <4>4. CASE u # s
          <5>1. HolderSet(u)' \subseteq HolderSet(u) BY <4>2, <4>4 DEF HolderSet
          <5>2. /\ Cardinality(HolderSet(u)') \in Nat
                /\ Cardinality(HolderSet(u)') <= Cardinality(HolderSet(u))
            BY <5>1, HoldersFinite, CountLess
          <5> QED BY <4>1, <5>2, HoldersCount
        <4> QED BY <4>3, <4>4
      <3> QED BY <2>5, <3>3 DEF CountCovers, ReadySlots
    <2>6. CASE be'[b].refs = be[b].refs /\ Unref(Ref(b))
      <3>1. ASSUME NEW u \in Slots, slots'[u].state = "ready"
            PROVE  slots'[u].refcnt >= Cardinality(HolderSet(u)')
        <4>1. /\ slots[u].state = "ready"
              /\ slots'[u].refcnt \in Nat
              /\ slots'[u].refcnt >= slots[u].refcnt - (IF u = s THEN 1 ELSE 0)
          BY <2>3, <2>6, <3>1, <1>t DEF Unref, Slot
        <4>2. slots[u].refcnt \in Nat /\ slots[u].refcnt >= Cardinality(HolderSet(u))
          BY <4>1, <1>t, <1>i DEF Slot, CountCovers, ReadySlots
        <4>3. \A c \in Backends, i \in 0..MaxRefs :
                  Holds(c, i, u)' => Holds(c, i, u) /\ ~(c = b /\ i = 0)
          BY <2>1, <2>2, <2>3, <2>6 DEF Holds
        <4>4. HolderSet(u)' \subseteq HolderSet(u) \ {<<b, 0>>} BY <4>3 DEF HolderSet
        <4>5. CASE u = s
          <5>1. /\ Cardinality(HolderSet(u)') \in Nat
                /\ Cardinality(HolderSet(u)') <= Cardinality(HolderSet(u)) - 1
            BY <2>4, <4>4, <4>5, HoldersFinite, CountDrop
          <5> QED BY <4>1, <4>2, <4>5, <5>1, HoldersCount
        <4>6. CASE u # s
          <5>1. /\ Cardinality(HolderSet(u)') \in Nat
                /\ Cardinality(HolderSet(u)') <= Cardinality(HolderSet(u))
            BY <4>4, HoldersFinite, CountLess
          <5> QED BY <4>1, <4>2, <4>6, <5>1, HoldersCount
        <4> QED BY <4>5, <4>6
      <3> QED BY <3>1 DEF CountCovers, ReadySlots
    <2> QED BY <1>10, <1>t, <2>5, <2>6 DEF Map, Backend
  <1>11. ASSUME NEW b \in Backends, MapFails(b) PROVE CountCovers'
    <2>1. \A c \in Backends, i \in 0..MaxRefs, s \in Slots : Holds(c, i, s)' => Holds(c, i, s)
      BY <1>11, <1>t DEF MapFails, Holds, Backend
    <2>2. \A s \in Slots : slots'[s].state = "ready" =>
               slots[s].state = "ready" /\ slots'[s].refcnt = slots[s].refcnt
      BY <1>11, <1>t, <1>i DEF MapFails, Slot, BuilderOwns
    <2> QED BY <2>1, <2>2, KeepCount
  <1>12. ASSUME NEW b \in Backends, Build(b) PROVE CountCovers'
    <2>1. \A c \in Backends, i \in 0..MaxRefs, s \in Slots : Holds(c, i, s)' => Holds(c, i, s)
      <3>1. \E h : be' = [be EXCEPT ![b].pc = "publish", ![b].handle = h] BY <1>12 DEF Build
      <3> QED BY <3>1, <1>t DEF Holds, Backend
    <2>2. UNCHANGED slots BY <1>12 DEF Build
    <2> QED BY <2>1, <2>2, KeepCount
  <1>13. ASSUME NEW b \in Backends, BuildFails(b) PROVE CountCovers'
    <2>1. \A c \in Backends, i \in 0..MaxRefs, s \in Slots : Holds(c, i, s)' => Holds(c, i, s)
      BY <1>13, <1>t DEF BuildFails, Holds, Backend
    <2>2. \A s \in Slots : slots'[s].state = "ready" =>
               slots[s].state = "ready" /\ slots'[s].refcnt = slots[s].refcnt
      BY <1>13, <1>t, <1>i DEF BuildFails, FreeSlot, Slot, BuilderOwns
    <2> QED BY <2>1, <2>2, KeepCount
  <1>14. ASSUME NEW b \in Backends, Killed(b) PROVE CountCovers'
    <2>1. \A c \in Backends, i \in 0..MaxRefs, s \in Slots : Holds(c, i, s)' => Holds(c, i, s)
      BY <1>14, <1>t DEF Killed, Holds, Backend
    <2>2. \A s \in Slots : slots'[s].state = "ready" =>
               slots[s].state = "ready" /\ slots'[s].refcnt = slots[s].refcnt
      BY <1>14, <1>t, <1>i DEF Killed, Slot, BuilderOwns
    <2> QED BY <2>1, <2>2, KeepCount
  <1>15. ASSUME NEW b \in Backends, Finish(b) PROVE CountCovers'
    <2> DEFINE s == be[b].slot
               n == Len(be[b].refs) + 1
    <2>1. s \in Slots /\ slots[s].state = "building" /\ be[b].pc = "publish"
      BY <1>15, <1>i, <1>k DEF Finish, Known, BuilderOwns
    <2>2. \A u \in Slots \ {s} : slots'[u] = slots[u] BY <1>15, <1>t DEF Finish
    <2>3. \A c \in Backends \ {b} : be'[c] = be[c] BY <1>15, <1>t DEF Finish
    <2>4. be'[b].pc = "scan" BY <1>15, <1>t DEF Finish, Backend
    <2>5. HolderSet(s) = {} BY <2>1, NoHolders
    <2>6. CASE Built(b)
      <3>1. slots'[s].refcnt = 1
        <4>1. slots'[s] = Ready(b) BY <1>15, <1>t, <2>1, <2>6 DEF Finish
        <4> QED BY <4>1, <1>t, <2>1 DEF Ready, Slot
      <3>2. be'[b].refs = Append(be[b].refs, Ref(b)) BY <1>15, <1>t, <2>6 DEF Finish, Backend
      <3>3. be[b].refs \in Seq(Reference) /\ Ref(b) \in Reference /\ Ref(b).slot = s
        <4>1. be[b].handle \in Handles BY <2>6, <1>t DEF Built, Backend
        <4> QED BY <4>1, <2>1, <1>t, RefType DEF CacheInv, Backend, Ref
      <3>4. /\ n \in Nat \ {0} /\ DOMAIN be'[b].refs = 1..n
            /\ \A i \in 1..n : i # n => i \in DOMAIN be[b].refs /\ be'[b].refs[i] = be[b].refs[i]
            /\ be'[b].refs[n] = Ref(b)
        BY <3>2, <3>3
      <3> HIDE DEF n, s
      <3>5. ASSUME NEW u \in Slots, slots'[u].state = "ready"
            PROVE  slots'[u].refcnt >= Cardinality(HolderSet(u)')
        <4>1. \A c \in Backends, i \in 0..MaxRefs :
                  Holds(c, i, u)' => Holds(c, i, u) \/ (c = b /\ i = n /\ u = s)
          BY <2>3, <2>4, <3>3, <3>4 DEF Holds
        <4>2. CASE u = s
          <5>1. HolderSet(u)' \subseteq {} \cup {<<b, n>>} BY <2>5, <4>1, <4>2 DEF HolderSet
          <5>2. IsFiniteSet({}) /\ Cardinality({}) = 0 BY FS_EmptySet
          <5>3. Cardinality(HolderSet(u)') \in Nat /\ Cardinality(HolderSet(u)') <= 0 + 1
            BY <5>1, <5>2, CountAdd
          <5> QED BY <3>1, <4>2, <5>3
        <4>3. CASE u # s
          <5>1. slots'[u] = slots[u] /\ slots[u].refcnt \in Nat
                /\ slots[u].refcnt >= Cardinality(HolderSet(u))
            BY <2>2, <3>5, <4>3, <1>t, <1>i DEF Slot, CountCovers, ReadySlots
          <5>2. HolderSet(u)' \subseteq HolderSet(u) BY <4>1, <4>3 DEF HolderSet
          <5>3. /\ Cardinality(HolderSet(u)') \in Nat
                /\ Cardinality(HolderSet(u)') <= Cardinality(HolderSet(u))
            BY <5>2, HoldersFinite, CountLess
          <5> QED BY <5>1, <5>3, HoldersCount
        <4> QED BY <4>2, <4>3
      <3> QED BY <3>5 DEF CountCovers, ReadySlots
    <2>7. CASE ~Built(b)
      <3>1. slots'[s] = FreeSlot BY <1>15, <1>t, <2>1, <2>7 DEF Finish
      <3>2. be'[b].refs = be[b].refs BY <1>15, <1>t, <2>7 DEF Finish, Backend
      <3>3. \A c \in Backends, i \in 0..MaxRefs, u \in Slots : Holds(c, i, u)' => Holds(c, i, u)
        BY <2>3, <2>4, <3>2 DEF Holds
      <3>4. \A u \in Slots : slots'[u].state = "ready" =>
               slots[u].state = "ready" /\ slots'[u].refcnt = slots[u].refcnt
        BY <2>1, <2>2, <3>1 DEF FreeSlot
      <3> QED BY <3>3, <3>4, KeepCount
    <2> QED BY <2>6, <2>7
  <1>16. ASSUME NEW b \in Backends, Release(b) PROVE CountCovers'
    <2> DEFINE s == Head(be[b].refs).slot
    <2>1. /\ be[b].refs # <<>> /\ Unref(Head(be[b].refs)) /\ be[b].pc = "release"
          /\ be' = [be EXCEPT ![b].refs = Tail(@)]
      BY <1>16 DEF Release
    <2>2. be[b].refs \in Seq(Reference) /\ Len(be[b].refs) <= MaxRefs
      BY <1>t, <1>k DEF Backend, Known
    <2>3. /\ \A c \in Backends \ {b} : be'[c] = be[c]
          /\ be'[b].refs = Tail(be[b].refs) /\ be'[b].pc = "release"
      BY <2>1, <1>t DEF Backend
    <2>4. \A i \in DOMAIN be'[b].refs : i \in Nat \ {0} /\ i + 1 \in DOMAIN be[b].refs
                                          /\ be'[b].refs[i] = be[b].refs[i + 1]
      <3>1. \A i \in DOMAIN Tail(be[b].refs) : i \in Nat \ {0} /\ i + 1 \in DOMAIN be[b].refs
                                          /\ Tail(be[b].refs)[i] = be[b].refs[i + 1]
        BY <2>1, <2>2, TailElement
      <3> QED BY <2>3, <3>1
    <2>5. DOMAIN be[b].refs \subseteq 1..MaxRefs BY <2>2, BoundsAssumption
    <2>6. 1 \in DOMAIN be[b].refs /\ be[b].refs[1] = Head(be[b].refs) BY <2>1, <2>2
    <2>7. ASSUME NEW u \in Slots, slots'[u].state = "ready"
          PROVE  slots'[u].refcnt >= Cardinality(HolderSet(u)')
      <3>1. /\ slots[u].state = "ready"
            /\ slots'[u].refcnt \in Nat /\ slots'[u].refcnt >= slots[u].refcnt - (IF u = s THEN 1 ELSE 0)
        BY <2>1, <2>7, <1>t DEF Unref, Slot
      <3>2. slots[u].refcnt \in Nat /\ slots[u].refcnt >= Cardinality(HolderSet(u))
        BY <3>1, <1>t, <1>i DEF Slot, CountCovers, ReadySlots
      <3> DEFINE f == [x \in HolderSet(u)' |-> IF x[1] = b THEN <<b, x[2] + 1>> ELSE x]
      <3>3. ASSUME NEW x \in HolderSet(u)'
            PROVE  f[x] \in HolderSet(u) \ {<<b, 1>>}
        <4>1. PICK c \in Backends, i \in 0..MaxRefs : x = <<c, i>> /\ Holds(c, i, u)'
          BY DEF HolderSet
        <4>2. CASE c = b
          <5>1. i \in DOMAIN be'[b].refs /\ be'[b].refs[i].slot = u /\ i # 0
            BY <2>3, <2>4, <2>5, <4>1, <4>2 DEF Holds
          <5>2. i + 1 \in 0..MaxRefs /\ Holds(b, i + 1, u) BY <2>4, <2>5, <5>1 DEF Holds
          <5>3. <<b, i + 1>> \in HolderSet(u) /\ i + 1 # 1 BY <4>1, <5>1, <5>2 DEF HolderSet
          <5> QED BY <4>1, <4>2, <5>3
        <4>3. CASE c # b
          <5>1. Holds(c, i, u) BY <2>3, <4>1, <4>3 DEF Holds
          <5> QED BY <4>1, <4>3, <5>1 DEF HolderSet
        <4> QED BY <4>2, <4>3
      <3>4. f \in Injection(HolderSet(u)', HolderSet(u) \ {<<b, 1>>})
        <4>1. ASSUME NEW x \in HolderSet(u)', NEW y \in HolderSet(u)', f[x] = f[y] PROVE x = y
          BY <4>1 DEF HolderSet
        <4> QED BY <3>3, <4>1 DEF Injection, IsInjective
      <3> HIDE DEF f
      <3>5. IsFiniteSet(HolderSet(u) \ {<<b, 1>>}) BY HoldersFinite, FS_Difference
      <3>6. /\ IsFiniteSet(HolderSet(u)')
            /\ Cardinality(HolderSet(u)') <= Cardinality(HolderSet(u) \ {<<b, 1>>})
        BY <3>4, <3>5, FS_Injection
      <3>7. Cardinality(HolderSet(u)') \in Nat BY <3>6, FS_CardinalityType
      <3>8. CASE u = s
        <4>1. <<b, 1>> \in HolderSet(u)
          <5>1. Holds(b, 1, u) BY <2>6, <3>8 DEF Holds
          <5> QED BY <2>5, <2>6, <5>1 DEF HolderSet
        <4>2. /\ Cardinality(HolderSet(u) \ {<<b, 1>>}) \in Nat
              /\ Cardinality(HolderSet(u) \ {<<b, 1>>}) <= Cardinality(HolderSet(u)) - 1
          BY <4>1, HoldersFinite, CountDrop
        <4> QED BY <3>1, <3>2, <3>6, <3>7, <3>8, <4>2, HoldersCount
      <3>9. CASE u # s
        <4>1. /\ Cardinality(HolderSet(u) \ {<<b, 1>>}) \in Nat
              /\ Cardinality(HolderSet(u) \ {<<b, 1>>}) <= Cardinality(HolderSet(u))
          BY HoldersFinite, CountLess
        <4> QED BY <3>1, <3>2, <3>6, <3>7, <3>9, <4>1, HoldersCount
      <3> QED BY <3>8, <3>9
    <2> QED BY <2>7 DEF CountCovers, ReadySlots
  <1>17. ASSUME NEW b \in Backends, Released(b) PROVE CountCovers'
    <2>1. \A c \in Backends, i \in 0..MaxRefs, s \in Slots : Holds(c, i, s)' => Holds(c, i, s)
      BY <1>17, <1>t DEF Released, Holds, Backend, Idle
    <2>2. \A s \in Slots : slots'[s].state = "ready" =>
               slots[s].state = "ready" /\ slots'[s].refcnt = slots[s].refcnt
      BY <1>17, <1>t, <1>i DEF Released, Idle, Slot, BuilderOwns
    <2> QED BY <2>1, <2>2, KeepCount
  <1>18. ASSUME NEW b \in Backends, Retire(b) PROVE CountCovers'
    <2>1. \A c \in Backends, i \in 0..MaxRefs, s \in Slots : Holds(c, i, s)' => Holds(c, i, s)
      BY <1>18, <1>t DEF Retire, Holds, Backend
    <2>2. \A s \in Slots : slots'[s].state = "ready" =>
               slots[s].state = "ready" /\ slots'[s].refcnt = slots[s].refcnt
      BY <1>18, <1>t, <1>i DEF Retire, Dead, Unheld, FreeSlot, Slot, BuilderOwns
    <2> QED BY <2>1, <2>2, KeepCount
  <1>19. ASSUME NEW b \in Backends, RetireSkipped(b) PROVE CountCovers'
    <2>1. \A c \in Backends, i \in 0..MaxRefs, s \in Slots : Holds(c, i, s)' => Holds(c, i, s)
      BY <1>19, <1>t DEF RetireSkipped, Holds, Backend
    <2>2. \A s \in Slots : slots'[s].state = "ready" =>
               slots[s].state = "ready" /\ slots'[s].refcnt = slots[s].refcnt
      BY <1>19, <1>t, <1>i DEF RetireSkipped, Slot, BuilderOwns
    <2> QED BY <2>1, <2>2, KeepCount
  <1>20. ASSUME NEW b \in Backends, Free(b) PROVE CountCovers'
    <2>1. \A c \in Backends, i \in 0..MaxRefs, s \in Slots : Holds(c, i, s)' => Holds(c, i, s)
      BY <1>20, <1>t DEF Free, Holds, Backend, Idle
    <2>2. \A s \in Slots : slots'[s].state = "ready" =>
               slots[s].state = "ready" /\ slots'[s].refcnt = slots[s].refcnt
      BY <1>20, <1>t, <1>i DEF Free, Idle, Slot, BuilderOwns
    <2> QED BY <2>1, <2>2, KeepCount
  <1> QED BY <1>1, <1>2, <1>3, <1>4, <1>5, <1>6, <1>7, <1>8, <1>9, <1>10, <1>11, <1>12, <1>13,
     <1>14, <1>15, <1>16, <1>17, <1>18, <1>19, <1>20 DEF Next, Get

-----------------------------------------------------------------------------
(* The theorems *)

LEMMA InitCacheInv == Init => CacheInv
  <1> SUFFICES ASSUME Init PROVE CacheInv OBVIOUS
  <1> USE DEF Init
  <1>1. TypeOK
    <2>1. segment \in [Keys -> [gen : 0..MaxGen, state : {"listed", "dropped", "freed"}]]
      BY BoundsAssumption
    <2> QED BY <2>1, FreeSlotType, IdleType DEF TypeOK
  <1>2. LocalsKnown BY IdleType DEF LocalsKnown
  <1>3. UnreadyEmpty BY DEF UnreadyEmpty, FreeSlot
  <1>4. BuilderOwns BY DEF BuilderOwns, Idle
  <1>5. OneMatch BY DEF OneMatch, Matches, FreeSlot
  <1>6. RefsFit BY DEF RefsFit, RefsOf, Idle
  <1>7. ReadySlots = {} BY DEF ReadySlots, FreeSlot
  <1>8. CountCovers BY <1>7 DEF CountCovers
  <1>9. \A b \in Backends : InFlight(b) = {} BY DEF InFlight, Idle
  <1>10. PinnedAt BY <1>7, <1>9 DEF PinnedAt, ReadyPinned
  <1> QED BY <1>1, <1>2, <1>3, <1>4, <1>5, <1>6, <1>8, <1>10 DEF CacheInv

LEMMA StepCacheInv == CacheInv /\ [Next]_vars => CacheInv'
  <1>1. ASSUME CacheInv, Next PROVE CacheInv'
    <2>1. TypeOK' /\ LocalsKnown' BY <1>1, StepType DEF CacheInv, PinnedAt
    <2> QED BY <1>1, <2>1, StepBuilder, StepMatch, StepRefs, StepCount, StepPinned DEF CacheInv
  <1>2. ASSUME CacheInv, UNCHANGED vars PROVE CacheInv'
    <2>1. /\ TypeOK' /\ LocalsKnown' /\ UnreadyEmpty' /\ BuilderOwns' /\ OneMatch'
      BY <1>2 DEF CacheInv, vars, TypeOK, LocalsKnown, UnreadyEmpty, BuilderOwns, OneMatch,
         Matches
    <2>2. RefsFit' BY <1>2 DEF CacheInv, vars, RefsFit, RefsOf, Ref
    <2>3. CountCovers'
      BY <1>2 DEF CacheInv, vars, CountCovers, ReadySlots, HolderSet, Holds
    <2>4. PinnedAt' BY <1>2 DEF CacheInv, vars, PinnedAt, ReadyPinned, ReadySlots, InFlight
    <2> QED BY <2>1, <2>2, <2>3, <2>4 DEF CacheInv
  <1> QED BY <1>1, <1>2

\* Every variable of the cache keeps its type, in every instance.
THEOREM CacheTypes == Spec => []TypeOK
  <1>1. CacheInv => TypeOK BY DEF CacheInv
  <1> QED BY InitCacheInv, StepCacheInv, <1>1, PTL DEF Spec

\* A copy that a scan refers to stays pinned and stays that segment's, for any
\* number of backends, slots and segments, through evictions, merges, ERRORs
\* of dsm_attach and of a decode, and killed builders.
THEOREM ReferencesPinned == Spec => []HeldPinned
  <1> QED BY InitCacheInv, StepCacheInv, Held, PTL DEF Spec

\* No payload leaks, and none is unpinned twice.
THEOREM PayloadsPinnedOnce == Spec => []PinnedOnce
  <1>1. CacheInv => PinnedOnce
    <2> SUFFICES ASSUME PinnedAt PROVE PinnedOnce BY DEF CacheInv
    <2>1. \A b \in Backends : InFlight(b) \subseteq Handles BY DEF PinnedAt
    <2>2. \A s \in ReadySlots : slots[s].handle \in Handles BY DEF PinnedAt, ReadyPinned
    <2>3. {h \in Handles : payload[h] # None}
            = {slots[s].handle : s \in ReadySlots} \cup UNION {InFlight(b) : b \in Backends}
      BY <2>1, <2>2 DEF PinnedAt
    <2> QED BY <2>3 DEF PinnedAt, PinnedOnce
  <1> QED BY InitCacheInv, StepCacheInv, <1>1, PTL DEF Spec

\* A builder finds its slot as it left it.
THEOREM BuildersOwn == Spec => []BuilderOwns
  <1>1. CacheInv => BuilderOwns BY DEF CacheInv
  <1> QED BY InitCacheInv, StepCacheInv, <1>1, PTL DEF Spec

\* At most one slot holds, or is about to hold, a copy that lookups find.
THEOREM SharedOnce == Spec => []OneCopy
  <1>1. CacheInv => OneCopy
    <2> SUFFICES ASSUME CacheInv, NEW k \in Keys PROVE Cardinality(Matches(k)) <= 1
      BY DEF OneCopy
    <2>1. CASE Matches(k) = {} BY <2>1, FS_EmptySet
    <2>2. CASE Matches(k) # {}
      <3>1. PICK s \in Matches(k) : TRUE BY <2>2
      <3>2. Matches(k) = {s} BY <3>1 DEF CacheInv, OneMatch
      <3>3. Cardinality(Matches(k)) = 1 BY <3>2, FS_Singleton
      <3> QED BY <3>3
    <2> QED BY <2>1, <2>2
  <1> QED BY InitCacheInv, StepCacheInv, <1>1, PTL DEF Spec
=============================================================================
