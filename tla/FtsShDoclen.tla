----------------------------- MODULE FtsShDoclen -----------------------------
(***************************************************************************)
(* The shared document-length cache (pg_fts_shdoclen.c): one copy per      *)
(* server of each segment's length array, in dynamic shared memory, behind *)
(* a table of slots that one LWLock protects.  Scans take references;      *)
(* merges retire the copies of the segments they drop; a slot nobody       *)
(* refers to is given to another segment.                                  *)
(*                                                                         *)
(* Each hold of the LWLock is one step.  A key stands for everything the   *)
(* code compares (database, relation, doclenstart, ndocs, sumdoclen); a    *)
(* segment is a key and a generation, so that a later segment may have the *)
(* key of a dropped one.  Least-recently-used is abstracted to any unheld  *)
(* copy, retired ones first.  A backend runs one scan at a time.           *)
(***************************************************************************)
EXTENDS Naturals, Sequences, FiniteSets

\* An operator named X_Y is a broken variant of X, which no action uses.

CONSTANTS Backends, Keys, None,
          Slots,     \* BM25_SHDOCLEN_SLOTS entries
          Handles,   \* DSM handles
          MaxRefs,   \* bound: references a scan takes, and what a count may leak to
          MaxGen     \* bound: segments that have one key in turn

ASSUME NoneAssumption ==
    None \notin Backends \cup Keys \cup Slots \cup Handles \cup [key : Keys, gen : 1..MaxGen]
ASSUME BoundsAssumption == MaxRefs \in Nat /\ MaxGen \in Nat
ASSUME FiniteAssumption == IsFiniteSet(Backends)

VARIABLES slots,     \* the control table
          payload,   \* what each pinned DSM segment contains
          attached,  \* backends that mapped the control table (shdl_ctl)
          segment,   \* external: the newest segment of each key
          be         \* the backends: program point and local variables

vars == <<slots, payload, attached, segment, be>>

FreeSlot == [state |-> "free", key |-> None, builder |-> None,
             handle |-> None, refcnt |-> 0, retired |-> FALSE]

Idle == [pc |-> "idle", view |-> [k \in Keys |-> 0], key |-> None,
         slot |-> None, handle |-> None, refs |-> <<>>, todo |-> {}]

Init == /\ slots = [s \in Slots |-> FreeSlot]
        /\ payload = [h \in Handles |-> None]
        /\ attached = {}
        /\ segment = [k \in Keys |-> [gen |-> 0, state |-> "freed"]]
        /\ be = [b \in Backends |-> Idle]

-----------------------------------------------------------------------------
(* Segments and scans around the cache *)

\* A new segment is published; it may start at a block that a dropped one
\* started at once no scan can still read that one (bm25_page_recyclable).
Publish(k) ==
    /\ segment[k].state = "freed" /\ segment[k].gen < MaxGen
    /\ \A b \in Backends : be[b].view[k] = 0
    /\ segment' = [segment EXCEPT ![k] = [gen |-> @.gen + 1, state |-> "listed"]]
    /\ UNCHANGED <<slots, payload, attached, be>>

\* A scan copies the metapage: the segments listed then.
Begin(b) ==
    /\ be[b].pc = "idle"
    /\ be' = [be EXCEPT ![b].pc = "scan", ![b].view =
                [k \in Keys |-> IF segment[k].state = "listed" THEN segment[k].gen ELSE 0]]
    /\ UNCHANGED <<slots, payload, attached, segment>>

\* The scan ends or is cancelled: its resource owner is released.
End(b) ==
    /\ be[b].pc = "scan"
    /\ be' = [be EXCEPT ![b].pc = "release"]
    /\ UNCHANGED <<slots, payload, attached, segment>>

\* A merge swaps a segment out of the directory and then frees it.
Drop(b, k) ==
    /\ be[b].pc = "idle" /\ segment[k].state = "listed"
    /\ segment' = [segment EXCEPT ![k].state = "dropped"]
    /\ be' = [be EXCEPT ![b].pc = "retire", ![b].key = k]
    /\ UNCHANGED <<slots, payload, attached>>

-----------------------------------------------------------------------------
(* shdl_get *)

\* Copies, finished or not, that a lookup of k finds.
Matches(k) == {s \in Slots : slots[s].state # "free" /\ ~slots[s].retired /\ slots[s].key = k}

\* shdl_builder_gone: the process that was building no longer exists.
Abandoned_Any(s) == slots[s].state = "building"
Abandoned(s) == slots[s].state = "building" /\ slots[s].builder = None

\* A scan asks for the copy of a segment of its view.
Asks(b, k) == /\ be[b].pc = "scan" /\ b \in attached
              /\ be[b].view[k] # 0 /\ Len(be[b].refs) < MaxRefs

\* shdl_control, the first time a backend needs the table.
Attach(b) ==
    /\ be[b].pc \in {"scan", "retire"} /\ b \notin attached
    /\ attached' = attached \cup {b}
    /\ UNCHANGED <<slots, payload, segment, be>>

\* The copy is there: count the reference before mapping it.
Hit(b, k) ==
    /\ Asks(b, k)
    /\ \E s \in Matches(k) :
          /\ slots[s].state = "ready"
          /\ slots' = [slots EXCEPT ![s].refcnt = @ + 1]
          /\ be' = [be EXCEPT ![b].pc = "map", ![b].key = k, ![b].slot = s,
                              ![b].handle = slots[s].handle]
    /\ UNCHANGED <<payload, attached, segment>>

\* Someone else is building it: use a private copy; free the slot if that
\* process is gone.
FreeAbandoned(b, k) ==
    /\ Asks(b, k)
    /\ \E s \in Matches(k) : Abandoned(s) /\ slots' = [slots EXCEPT ![s] = FreeSlot]
    /\ UNCHANGED <<payload, attached, segment, be>>

\* shdl_claim_slot: a free or abandoned slot, else one holding a copy that no
\* scan refers to, a retired one if there is any.
Unheld_Any == {s \in Slots : slots[s].state = "ready"}
Unheld == {s \in Slots : slots[s].state = "ready" /\ slots[s].refcnt = 0}
Claimable ==
    LET open == {s \in Slots : slots[s].state = "free" \/ Abandoned(s)}
        retired == {s \in Unheld : slots[s].retired}
    IN  IF open # {} THEN open ELSE IF retired # {} THEN retired ELSE Unheld

\* No copy of k is there or on its way.
Absent_Unready(k) == ~\E s \in Matches(k) : slots[s].state = "ready"
Absent(k) == Matches(k) = {}

\* What claiming slot s leaves to unpin.
Evicted_Forgotten(s) == {}
Evicted(s) == {slots[s].handle} \ {None}

\* No copy: claim a slot and build one.  (Without a slot: a private copy.)
Miss(b, k) ==
    /\ Asks(b, k) /\ Absent(k)
    /\ \E s \in Claimable :
          /\ slots' = [slots EXCEPT ![s] =
                [FreeSlot EXCEPT !.state = "building", !.key = k, !.builder = b]]
          /\ be' = [be EXCEPT ![b].pc = "build", ![b].key = k, ![b].slot = s,
                              ![b].todo = Evicted(s)]
    /\ UNCHANGED <<payload, attached, segment>>

\* shdl_unpin, after the lock: destroy a payload taken out of the table.
Unpin(b) ==
    /\ \E h \in be[b].todo :
          /\ payload' = [payload EXCEPT ![h] = None]
          /\ be' = [be EXCEPT ![b].todo = @ \ {h}]
    /\ UNCHANGED <<slots, attached, segment>>

\* shdl_unref_slot: a slot that was given away meanwhile is left alone.
Unref(ref) ==
    slots' = [slots EXCEPT ![ref.slot].refcnt =
                IF slots[ref.slot].state = "ready" /\ slots[ref.slot].handle = ref.handle /\ @ > 0
                THEN @ - 1 ELSE @]

\* The reference b is taking, for the segment of its view.
Ref(b) == [slot |-> be[b].slot, handle |-> be[b].handle,
           key |-> be[b].key, gen |-> be[b].view[be[b].key]]

Map(b) ==
    LET p == payload[be[b].handle]
    IN  /\ be[b].pc = "map"
        /\ IF p # None /\ p.key = be[b].key
           THEN /\ be' = [be EXCEPT ![b].pc = "scan", ![b].refs = Append(@, Ref(b))]
                /\ UNCHANGED slots
           ELSE /\ be' = [be EXCEPT ![b].pc = "scan"]
                /\ Unref(Ref(b))
        /\ UNCHANGED <<payload, attached, segment>>

\* dsm_attach raises an ERROR: the reference is counted but not recorded.
MapFails(b) ==
    /\ be[b].pc = "map" /\ slots[be[b].slot].refcnt <= MaxRefs
    /\ be' = [be EXCEPT ![b].pc = "release"]
    /\ UNCHANGED <<slots, payload, attached, segment>>

\* Decode the segment's lengths and copy them to a new pinned DSM segment;
\* over budget, or no DSM to be had: there is nothing to publish.
Build(b) ==
    /\ be[b].pc = "build" /\ be[b].todo = {}
    /\ \/ \E h \in {h \in Handles : payload[h] = None} :
             /\ \A c \in Backends : \A i \in DOMAIN be[c].refs : be[c].refs[i].handle # h
             /\ payload' = [payload EXCEPT ![h] =
                               [key |-> be[b].key, gen |-> be[b].view[be[b].key]]]
             /\ be' = [be EXCEPT ![b].pc = "publish", ![b].handle = h]
       \/ /\ be' = [be EXCEPT ![b].pc = "publish", ![b].handle = None]
          /\ UNCHANGED payload
    /\ UNCHANGED <<slots, attached, segment>>

\* The decode raises an ERROR (or is cancelled): shdl_abandon_slot.
BuildFails(b) ==
    LET s == be[b].slot
        own == slots[s].state = "building" /\ slots[s].builder = b
    IN  /\ be[b].pc = "build" /\ be[b].todo = {}
        /\ slots' = IF own THEN [slots EXCEPT ![s] = FreeSlot] ELSE slots
        /\ be' = [be EXCEPT ![b].pc = "release"]
        /\ UNCHANGED <<payload, attached, segment>>

\* The process is terminated while it builds: no handler runs.
Killed(b) ==
    /\ be[b].pc = "build" /\ be[b].todo = {}
    /\ be' = [be EXCEPT ![b].pc = "release"]
    /\ UNCHANGED <<slots, payload, attached, segment>>

\* Under the lock again: the slot is READY, with this scan's reference, even
\* if the segment was retired meanwhile.
Ready_Uncounted(b) == [slots[be[b].slot] EXCEPT !.state = "ready", !.handle = be[b].handle]
Ready(b) == [slots[be[b].slot] EXCEPT !.state = "ready", !.handle = be[b].handle, !.refcnt = 1]
Built_Always(b) == TRUE
Built(b) == be[b].handle # None
Finish(b) ==
    /\ be[b].pc = "publish"
    /\ \/ /\ Built(b)
          /\ slots' = [slots EXCEPT ![be[b].slot] = Ready(b)]
          /\ be' = [be EXCEPT ![b].pc = "scan", ![b].refs = Append(@, Ref(b))]
       \/ /\ ~Built(b)
          /\ slots' = [slots EXCEPT ![be[b].slot] = FreeSlot]
          /\ be' = [be EXCEPT ![b].pc = "scan"]
    /\ UNCHANGED <<payload, attached, segment>>

-----------------------------------------------------------------------------
(* Releasing and retiring *)

\* shdl_release_callback, one reference at a time.
Release(b) ==
    /\ be[b].pc = "release" /\ be[b].refs # <<>>
    /\ Unref(Head(be[b].refs))
    /\ be' = [be EXCEPT ![b].refs = Tail(@)]
    /\ UNCHANGED <<payload, attached, segment>>

\* The backend goes on to its next statement, or is gone and another one
\* takes its place: what a killed one was building has no builder any more.
Released(b) ==
    /\ be[b].pc = "release" /\ be[b].refs = <<>>
    /\ attached' \in {attached, attached \ {b}}
    /\ slots' = [s \in Slots |-> IF slots[s].state = "building" /\ slots[s].builder = b
                                 THEN [slots[s] EXCEPT !.builder = None] ELSE slots[s]]
    /\ be' = [be EXCEPT ![b] = Idle]
    /\ UNCHANGED <<payload, segment>>

\* Copies shdl_retire_segment(k) frees at once: nobody refers to them, and
\* they are of that segment or were retired before.
Dead(k) == {s \in Unheld : slots[s].retired \/ slots[s].key = k}

\* shdl_retire_segment: the other copies of that segment are marked.
Retire(b) ==
    LET k == be[b].key
    IN  /\ be[b].pc = "retire" /\ b \in attached
        /\ slots' = [s \in Slots |->
              IF s \in Dead(k) THEN FreeSlot
              ELSE IF slots[s].state # "free" /\ slots[s].key = k
                   THEN [slots[s] EXCEPT !.retired = TRUE]
                   ELSE slots[s]]
        /\ be' = [be EXCEPT ![b].pc = "free", ![b].todo = {slots[s].handle : s \in Dead(k)}]
        /\ UNCHANGED <<payload, attached, segment>>

\* In parallel mode a backend that has not attached the table skips all that.
RetireSkipped(b) ==
    /\ be[b].pc = "retire" /\ b \notin attached
    /\ be' = [be EXCEPT ![b].pc = "free"]
    /\ UNCHANGED <<slots, payload, attached, segment>>

\* bm25_free_segment goes on to free the segment's pages.
Free(b) ==
    /\ be[b].pc = "free" /\ be[b].todo = {}
    /\ segment' = [segment EXCEPT ![be[b].key].state = "freed"]
    /\ be' = [be EXCEPT ![b] = Idle]
    /\ UNCHANGED <<slots, payload, attached>>

Get(b, k) == Hit(b, k) \/ FreeAbandoned(b, k) \/ Miss(b, k)

Next ==
    \/ \E k \in Keys : Publish(k)
    \/ \E b \in Backends :
          \/ Begin(b) \/ End(b) \/ Attach(b)
          \/ \E k \in Keys : Get(b, k) \/ Drop(b, k)
          \/ Unpin(b) \/ Map(b) \/ MapFails(b)
          \/ Build(b) \/ BuildFails(b) \/ Killed(b) \/ Finish(b)
          \/ Release(b) \/ Released(b)
          \/ Retire(b) \/ RetireSkipped(b) \/ Free(b)

Spec == Init /\ [][Next]_vars

-----------------------------------------------------------------------------
(* Properties *)

Slot == [state : {"free", "building", "ready"}, key : Keys \cup {None},
         builder : Backends \cup {None}, handle : Handles \cup {None},
         refcnt : Nat, retired : BOOLEAN]
Content == [key : Keys, gen : 1..MaxGen]
Reference == [slot : Slots, handle : Handles, key : Keys, gen : 1..MaxGen]
Backend == [pc : {"idle", "scan", "map", "build", "publish", "release", "retire", "free"},
            view : [Keys -> 0..MaxGen], key : Keys \cup {None}, slot : Slots \cup {None},
            handle : Handles \cup {None}, refs : Seq(Reference), todo : SUBSET Handles]

\* Every variable keeps its type (the structs of pg_fts_shdoclen.c).
TypeOK == /\ slots \in [Slots -> Slot]
          /\ payload \in [Handles -> Content \cup {None}]
          /\ attached \subseteq Backends
          /\ segment \in [Keys -> [gen : 0..MaxGen, state : {"listed", "dropped", "freed"}]]
          /\ be \in [Backends -> Backend]

\* The references b has: recorded ones, and the one counted but not mapped yet.
RefsOf(b) == {be[b].refs[i] : i \in DOMAIN be[b].refs}
             \cup (IF be[b].pc = "map" THEN {Ref(b)} ELSE {})

\* A copy that a scan refers to is never destroyed or handed to another
\* segment under it, whoever evicts, retires, builds or dies meanwhile ("A
\* copy is freed only when no scan holds it").
HeldPinned ==
    \A b \in Backends : \A r \in RefsOf(b) :
        LET s == slots[r.slot]
        IN  /\ s.state = "ready" /\ s.handle = r.handle /\ s.key = r.key /\ s.refcnt > 0
            /\ payload[r.handle] # None

\* Payloads taken out of the table but not unpinned yet, and those built but
\* not entered yet.
InFlight(b) == be[b].todo \cup (IF be[b].pc = "publish" THEN {be[b].handle} \ {None} ELSE {})
ReadySlots == {s \in Slots : slots[s].state = "ready"}

\* Every pinned payload is in exactly one place - a slot, or one backend about
\* to enter or to unpin it: none leaks, and none is unpinned twice ("Each
\* handle reaches here exactly once").
PinnedOnce ==
    /\ {h \in Handles : payload[h] # None}
          = {slots[s].handle : s \in ReadySlots} \cup UNION {InFlight(b) : b \in Backends}
    /\ \A s, t \in ReadySlots : slots[s].handle = slots[t].handle => s = t
    /\ \A s \in ReadySlots, b \in Backends : slots[s].handle \notin InFlight(b)
    /\ \A b, c \in Backends : b # c => InFlight(b) \cap InFlight(c) = {}

\* A builder finds its slot as it left it when it comes back with the copy:
\* nobody took it for abandoned.
BuilderOwns ==
    \A b \in Backends : be[b].pc \in {"build", "publish"} =>
        LET s == slots[be[b].slot]
        IN  s.state = "building" /\ s.builder = b /\ s.key = be[b].key

\* One shared copy per server of each segment, unless it was dropped.
OneCopy == \A k \in Keys : Cardinality(Matches(k)) <= 1

-----------------------------------------------------------------------------
(* What does not hold *)

\* Every reference a scan holds is to the lengths of the segment it scans
\* ("the recycle gate keeps the colliding case from occurring").  Not if
\* MaxGen >= 2: a scan with an old directory copy publishes a copy of a
\* segment that was retired before; it outlives the scan, and a later segment
\* with the same key gets it.
HeldCopyFits ==
    \A b \in Backends : \A i \in DOMAIN be[b].refs :
        LET r == be[b].refs[i] IN payload[r.handle] = [key |-> r.key, gen |-> r.gen]

\* The references to a slot that are recorded or about to be.
Holders(s) ==
    {<<b, i>> : b \in {b \in Backends : be[b].pc = "map" /\ be[b].slot = s}, i \in {0}}
    \cup UNION {{<<b, i>> : i \in {i \in DOMAIN be[b].refs : be[b].refs[i].slot = s}} : b \in Backends}

\* refcnt is the number of references ("nothing between taking the refcnt and
\* recording it may fail, or the count would leak").  Not after MapFails.
RefsCounted == \A s \in ReadySlots : slots[s].refcnt = Cardinality(Holders(s))
=============================================================================
