------------------------------ MODULE SyncLoop ------------------------------
(***************************************************************************)
(* `tasqx sync`: the loop of pull, merge every snapshot, export and push   *)
(* (crates/tasqx-cli/src/sync.rs), by runs of several stores over one      *)
(* remote that keeps CasRemote's contract.                                 *)
(*                                                                         *)
(* A store is the set of changes it holds, and a merge their union: which  *)
(* value of a field wins is another component's matter (D185, D189), that  *)
(* a merge is idempotent and forgets nothing is what the loop relies on. A *)
(* version is the hash of a sealed export. Sealing the same export twice   *)
(* gives two versions, so a version is an id beside what the snapshot      *)
(* holds; an id that nothing names any more is as good as a new one.       *)
(***************************************************************************)
EXTENDS CasRemote, Naturals, FiniteSets

CONSTANTS
    Changes,        \* the edits users make, each in one store first
    Ids,            \* ids of snapshots, enough that one is always free
    MAX_ATTEMPTS,
    MaxFaults       \* bound: failures, lost answers, late copies, removals, parted pushes

ASSUME SnapshotsAssumption == Versions = [id : Ids, holds : SUBSET Changes]

VARIABLES
    store,      \* per store (named by its state directory), what it holds
    loop,       \* per run, where its loop is
    promised,   \* what successful syncs had exported
    faults      \* the faults so far

svars == <<cvars, store, loop, promised, faults>>

Off == [at |-> "off", attempt |-> 0, todo |-> {}, pulled |-> {}]

SInit ==
    /\ Init
    /\ store = [d \in Dirs |-> {}]
    /\ loop = [r \in Runs |-> Off]
    /\ promised = {} /\ faults = 0

Holds(v) == IF v = NoVersion THEN {} ELSE v.holds
Snapshots(S) == S \ {NoVersion}

\* The ids something still names.
HandedOver == UNION {handed[d] : d \in Dirs}
Held(r) == {call[r].base, call[r].blob} \cup call[r].got \cup loop[r].todo \cup loop[r].pulled
InRuns == UNION {Held(r) : r \in Runs}
Named == {v.id : v \in Snapshots({head} \cup copies \cup HandedOver \cup InRuns)}
Sealed(export) == [id |-> CHOOSE i \in Ids \ Named : TRUE, holds |-> export]

Local == <<store, promised, faults>>

-----------------------------------------------------------------------------
(* One attempt *)

Edit(s, x) ==
    /\ \A d \in Dirs : x \notin store[d]
    /\ store' = [store EXCEPT ![s] = store[s] \cup {x}]
    /\ UNCHANGED <<cvars, loop, promised, faults>>

Begin(r) ==
    /\ loop[r].at = "off"
    /\ PullHead(r)
    /\ loop' = [loop EXCEPT ![r] = [Off EXCEPT !.at = "pull", !.attempt = 1]]
    /\ UNCHANGED Local

PullNext(r, h) ==
    /\ loop[r].at = "pull" /\ h \notin call[r].got
    /\ PullCopy(r, h)
    /\ UNCHANGED <<loop, Local>>

\* A copy whose blob has not arrived is skipped: one of the faults.
PullDone(r) ==
    /\ loop[r].at = "pull"
    /\ PullEnd(r)
    /\ IF copies \subseteq call[r].got THEN UNCHANGED faults
       ELSE faults < MaxFaults /\ faults' = faults + 1
    /\ loop' = [loop EXCEPT ![r].at = "merge", ![r].todo = call[r].got,
                            ![r].pulled = call[r].got]
    /\ UNCHANGED <<store, promised>>

\* store.import of one snapshot, one transaction.
Merge(r, v) ==
    /\ loop[r].at = "merge" /\ v \in loop[r].todo
    /\ store' = [store EXCEPT ![DirOf[r]] = store[DirOf[r]] \cup Holds(v)]
    /\ loop' = [loop EXCEPT ![r].todo = loop[r].todo \ {v}]
    /\ UNCHANGED <<cvars, promised, faults>>

\* (mutant) what is pulled need not all be merged
MergedEnough(r) == Cardinality(loop[r].todo) <= 1
MergedAll(r) == loop[r].todo = {}

\* (mutant) a single snapshot is taken for this store's own
OneIsEnough(r, export) == \E v \in loop[r].pulled : loop[r].pulled = {v}
\* same_store: nothing to push when the one snapshot pulled is this export.
RemoteHolds(r, export) == \E v \in loop[r].pulled : loop[r].pulled = {v} /\ Holds(v) = export

Succeed(r, export) ==
    /\ loop' = [loop EXCEPT ![r] = Off]
    /\ promised' = promised \cup export

Skip(r) ==
    /\ loop[r].at = "merge" /\ MergedAll(r)
    /\ RemoteHolds(r, store[DirOf[r]])
    /\ Return(r)
    /\ Succeed(r, store[DirOf[r]])
    /\ UNCHANGED <<store, faults>>

\* (Ids bounds the snapshots that are named at once.)
Push(r) ==
    /\ loop[r].at = "merge" /\ MergedAll(r)
    /\ Ids \ Named # {}
    /\ ~RemoteHolds(r, store[DirOf[r]])
    /\ Ask(r, Sealed(store[DirOf[r]]))
    /\ loop' = [loop EXCEPT ![r].at = "push", ![r].pulled = {Sealed(store[DirOf[r]])}]
    /\ UNCHANGED Local

Pushed(r) ==
    /\ loop[r].at = "push" /\ call[r].phase = "pushed"
    /\ Return(r)
    /\ \E v \in loop[r].pulled : Succeed(r, Holds(v))
    /\ UNCHANGED <<store, faults>>

Again(r) ==
    /\ loop[r].at = "push" /\ call[r].phase = "conflict"
    /\ Return(r)
    /\ loop' = [loop EXCEPT ![r] =
            IF loop[r].attempt < MAX_ATTEMPTS
            THEN [Off EXCEPT !.at = "retry", !.attempt = loop[r].attempt + 1] ELSE Off]
    /\ UNCHANGED Local

Retry(r) ==
    /\ loop[r].at = "retry"
    /\ PullHead(r)
    /\ loop' = [loop EXCEPT ![r].at = "pull"]
    /\ UNCHANGED Local

\* The record of the pull is gone when a push is answered.
Tidy(r) == handed'[DirOf[r]] = {}

\* What the connector does under a push.
Remote(r) ==
    /\ loop[r].at = "push"
    /\ Land(r) \/ Conflict(r) \/ Merged(r) \/ (\E h \in copies : Drop(r, h))
       \/ (copies \cap call[r].got = {} /\ Consume(r) /\ Tidy(r))
    /\ UNCHANGED <<loop, Local>>

-----------------------------------------------------------------------------
(* Faults *)

Fault == faults < MaxFaults /\ faults' = faults + 1

\* A connector error, a kill of it or of the sync itself, between any two
\* steps: the run is over, what it merged stays.
Stopped(r) ==
    /\ loop[r].at # "off"
    /\ Fault
    /\ call' = [call EXCEPT ![r] = Idle]
    /\ loop' = [loop EXCEPT ![r] = Off]
    /\ UNCHANGED <<head, copies, handed, store, promised>>

AnswerLost(r) ==
    /\ loop[r].at = "push"
    /\ Fault
    /\ Unsure(r)
    /\ UNCHANGED <<store, loop, promised>>

\* A push that landed cannot remove the copies it superseded, or the record of
\* the pull that named them: it is answered all the same.
Untidy(r) ==
    /\ loop[r].at = "push"
    /\ Fault
    /\ Consume(r)
    /\ UNCHANGED <<store, loop, promised>>

\* Two machines push while apart: both succeed, and the sync client keeps one
\* HEAD and renames the other.
PushApart(r) ==
    /\ loop[r].at = "push" /\ call[r].phase = "pushing" /\ head # NoVersion
    /\ Fault
    /\ \/ copies' = copies \cup {call[r].blob} /\ UNCHANGED head
       \/ copies' = copies \cup {head} /\ head' = call[r].blob
    /\ call' = [call EXCEPT ![r] = [Idle EXCEPT !.phase = "landed"]]
    /\ UNCHANGED <<handed, store, loop, promised>>

RunStep(r) ==
    \/ Begin(r) \/ (\E h \in copies : PullNext(r, h)) \/ PullDone(r)
    \/ (\E v \in loop[r].todo : Merge(r, v)) \/ Skip(r) \/ Push(r) \/ Pushed(r)
    \/ Again(r) \/ Retry(r) \/ Remote(r)

SNext ==
    \/ \E s \in Dirs, x \in Changes : Edit(s, x)
    \/ \E r \in Runs : RunStep(r) \/ Stopped(r) \/ AnswerLost(r) \/ Untidy(r) \/ PushApart(r)

SSpec == SInit /\ [][SNext]_svars

\* A connector runs to its answer or is killed at TRANSFER_TIMEOUT, and a
\* person or a scheduler of theirs runs sync again.
Fairness == \A r \in Runs : WF_svars(RunStep(r))
FairSpec == SSpec /\ Fairness

-----------------------------------------------------------------------------
(* Properties *)

OnRemote == UNION {Holds(v) : v \in {head} \cup copies}

\* Nothing a successful sync pushed, or found already pushed, ever leaves the
\* remote again, whoever pushes, merges, supersedes or fails afterwards
\* (sync.rs 25-42).
Delivered == promised \subseteq OnRemote

\* A conflict copy is taken away only by a push whose snapshot holds all that
\* the copy holds: "the caller has merged them" (remote-dir main.rs 38-40).
CopiesAreMerged ==
    [][\A v \in copies \ copies' : \E r \in Runs :
          /\ call[r].phase = "dropping" /\ v \in call[r].got
          /\ \E pushed \in loop[r].pulled : Holds(v) \subseteq Holds(pushed)]_svars

\* When users stop editing and faults stop, the stores become equal and stay so.
Converges ==
    <>[](\A s, t \in Dirs : store[s] = store[t])

=============================================================================
