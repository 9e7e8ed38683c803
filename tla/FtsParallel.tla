---------------------------- MODULE FtsParallel ----------------------------
(***************************************************************************)
(* The parallel pass of fts_merge (bm25_merge_all_parallel, pg_fts_am.c)   *)
(* beside everything FtsDirectory does.  The leader, holding the           *)
(* maintenance lock, cuts the segments with a dictionary into contiguous   *)
(* groups; it merges group 0 and each worker one of the others, all at the *)
(* same time and without a lock, and reports the merged segment in shared  *)
(* memory.  One metapage update then drops the sources of the groups that  *)
(* were merged and appends what they were merged into; the serial passes   *)
(* of FtsDirectory follow.                                                 *)
(*                                                                         *)
(* The leader's job holds the source descriptors of all groups (ms->src);  *)
(* `team' is the rest of the shared memory segment, BM25MergeShared.       *)
(***************************************************************************)
EXTENDS FtsDirectory

CONSTANT MaxWorkers   \* the greatest number of workers a merge asks for

ASSUME WorkersAssumption == MaxWorkers \in Nat \ {0}

VARIABLE team

parVars == <<vars, team>>

Groups == 0..MaxWorkers

\* leader: the backend whose fts_merge has been through here (it tries the
\* parallel pass once); group: the group of each source; todo: groups whose
\* participant started and has not finished; out: the segment a group was
\* merged into, None until outvalid[g] is set.
NoTeam == [leader |-> None, group |-> [i \in Segs |-> 0], todo |-> {},
           out |-> [g \in Groups |-> None]]
After(p) == [NoTeam EXCEPT !.leader = p]

ParInit == Init /\ team = NoTeam

\* bm25_merge_all, called by fts_merge after its flush, has not yet tried.
ToTry(p) == /\ pc[p] = "select" /\ job[p].op = "fts_merge" /\ job[p].back = "done"
            /\ team.leader # p

Outputs == {team.out[g] : g \in Groups} \ {None}
GroupOf(p, g) == {i \in Inputs(p) : team.group[i] = g}
Merged == {g \in Groups : team.out[g] # None}

-----------------------------------------------------------------------------
\* No parallel pass: at most two segments, no worker to ask for, no shared
\* memory, or none of the workers started.
Fallback(p) ==
    /\ ToTry(p)
    /\ team' = After(p)
    /\ UNCHANGED vars

\* The group of the r-th of n sources, counted from 0, when they are cut
\* into m groups of (almost) even size: groupoff[g] = g * n / m.
Cut(r, n, m) == CHOOSE g \in 0..m - 1 : (g * n) \div m <= r /\ r < ((g + 1) * n) \div m

\* `asked' workers are asked for and the first `started' of them start: group 0
\* is the leader's, group g worker g's.  A group of one keeps its source as it
\* is, with outvalid[g] never set: only the larger ones are work to do.
Launch(p) ==
    /\ ToTry(p) /\ NSegs > 2 /\ Candidates # {}
    /\ pc' = [pc EXCEPT ![p] = "team"]
    /\ job' = [job EXCEPT ![p].inp = [i \in Segs |-> IF i \in Candidates THEN disk[i] ELSE None]]
    /\ \E asked \in 1..MaxWorkers : \E started \in 1..asked :
          LET n == Cardinality(Candidates)
              m == IF asked + 1 <= n THEN asked + 1 ELSE n
              group == [i \in Segs |-> IF i \in Candidates
                                       THEN Cut(Rank(Candidates, i) - 1, n, m) ELSE 0]
              large == {g \in 0..m - 1 : Cardinality({i \in Candidates : group[i] = g}) > 1}
          IN  team' = [After(p) EXCEPT !.group = group, !.todo = large \cap 0..started]
    /\ UNCHANGED <<heap, meta, mutex>>

\* bm25_merge_one_group: merge the sources of group g into a new segment, as
\* MergeStream does, and only then set outvalid[g].
MergeGroup(g) ==
    /\ g \in team.todo
    /\ \E o \in FreeSegs \ Outputs :
          /\ disk' = [disk EXCEPT ![o] =
                [docs |-> UNION {Carried(team.leader, i) : i \in GroupOf(team.leader, g)},
                 dead |-> {}]]
          /\ team' = [team EXCEPT !.todo = @ \ {g}, !.out[g] = o]
    /\ UNCHANGED <<heap, pos, page, head, tail, npending, top, mutex, pc, job>>

\* With no source at all there are no groups, and groupoff[0] = 0 * 0 / 0.
Undivided(p) == ToTry(p) /\ NSegs > 2 /\ Candidates = {}

\* An ERROR: that division, or one of a participant - the leader rethrows a
\* worker's when it waits for them.  No group is published; what was written leaks.
TeamFails == \E p \in Procs : /\ pc[p] = "team" \/ Undivided(p)
                             /\ Abort(p) /\ team' = NoTeam

\* The sources that leave the directory: those of the groups that were merged,
\* found by content.
Consumed_All(p) == {i \in Dir \cap Inputs(p) : disk[i] = job[p].inp[i]}
Consumed_First(p) ==
    {i \in Dir \cap Inputs(p) : /\ team.group[i] \in Merged /\ disk[i] = job[p].inp[i]
                              /\ \A k \in GroupOf(p, team.group[i]) : pos[i] <= pos[k]}
Consumed(p) == {i \in Dir \cap Inputs(p) : team.group[i] \in Merged /\ disk[i] = job[p].inp[i]}

\* When every participant is done: one metapage update for all groups.
\* FreeInputs then frees the sources of the merged groups.
InstallGroups(p) ==
    LET kept == Dir \ Consumed(p)
    IN  /\ pc[p] = "team" /\ team.todo = {}
        /\ pc' = [pc EXCEPT ![p] = "freeinputs"]
        /\ pos' = [i \in Segs |->
              IF i \in Outputs
              THEN Cardinality(kept) + Cardinality({g \in Merged :
                                          \E h \in Merged : g <= h /\ team.out[h] = i})
              ELSE IF i \in kept THEN Rank(kept, i) ELSE 0]
        /\ job' = [job EXCEPT ![p].inp = [i \in Segs |->
              IF team.group[i] \in Merged THEN job[p].inp[i] ELSE None]]
        /\ team' = After(p)
        /\ UNCHANGED <<heap, disk, page, head, tail, npending, top, mutex>>

-----------------------------------------------------------------------------
\* A step of FtsDirectory: no merge starts serially before the parallel pass
\* was tried, nobody takes the blocks a participant has written, and fts_merge
\* waits for another one (each holds ShareUpdateExclusiveLock on the index).
Other(A) ==
    /\ A
    /\ \A p \in Procs : /\ ToTry(p) => pc'[p] = pc[p]
                        /\ {job'[p].out, job'[p].mout} \cap Outputs = {}
    /\ \A p, q \in Procs : job'[p].op = "fts_merge" /\ job'[q].op = "fts_merge" => p = q
    /\ team' = IF team.leader # None /\ pc'[team.leader] = "idle" THEN NoTeam ELSE team

Parallel == \/ \E p \in Procs : Fallback(p) \/ Launch(p) \/ InstallGroups(p)
            \/ \E g \in Groups : MergeGroup(g)

ParWork == Other(Work) \/ Parallel \/ TeamFails
ParSpec == ParInit /\ [][ParWork]_parVars

-----------------------------------------------------------------------------
(* Properties: those of FtsDirectory, of which the parallel pass is a part.
   Besides them: *)

\* fts_merge never divides by zero when it sizes the groups: it fails if the
\* directory holds only segments without a dictionary (bm25_merge_all_parallel).
NeverDivides == \A p \in Procs : ~Undivided(p)
=============================================================================
