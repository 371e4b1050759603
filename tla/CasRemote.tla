----------------------------- MODULE CasRemote -----------------------------
(***************************************************************************)
(* A remote as `tasqx sync` sees one through a connector (core/remote.rs): *)
(* a current version, beside it the conflict copies a sync client left,    *)
(* and two verbs. pull hands back the current snapshot and the copies;     *)
(* push is compare-and-swap on the version its caller pulled, and takes    *)
(* away the copies that its state directory's last pull handed back.       *)
(*                                                                         *)
(* This is the contract: what each call may do to the remote, step by      *)
(* step, and when. DirRemote implements it; SyncLoop is its client.        *)
(***************************************************************************)
CONSTANTS
    Runs,       \* the sync processes; each runs one connector call at a time
    Dirs,       \* the connectors' state directories, one per store
    DirOf,      \* per run, the state directory its connector is given
    Versions,   \* what names a snapshot
    NoVersion   \* null: the remote is empty

ASSUME RunsAssumption == DirOf \in [Runs -> Dirs] /\ NoVersion \notin Versions

VARIABLES
    head,       \* the remote's current version
    copies,     \* the versions the conflict copies name
    handed,     \* per state directory, what its last pull handed back
    call        \* per run, the call it makes and what that has read

cvars == <<head, copies, handed, call>>

Phases == {"idle", "pulling", "pulled", "pushing", "landed", "dropping",
           "pushed", "conflict", "failed"}
Idle == [phase |-> "idle", base |-> NoVersion, got |-> {}, blob |-> NoVersion]

Init ==
    /\ head = NoVersion /\ copies = {}
    /\ handed = [d \in Dirs |-> {}]
    /\ call = [r \in Runs |-> Idle]

PullHead(r) ==
    /\ call[r].phase = "idle"
    /\ call' = [call EXCEPT ![r] = [Idle EXCEPT !.phase = "pulling", !.base = head,
                                                !.got = {head} \ {NoVersion}]]
    /\ UNCHANGED <<head, copies, handed>>

PullCopy(r, h) ==
    /\ call[r].phase = "pulling" /\ h \in copies
    /\ call' = [call EXCEPT ![r].got = call[r].got \cup {h}]
    /\ UNCHANGED <<head, copies, handed>>

PullEnd(r) ==
    /\ call[r].phase = "pulling"
    /\ call' = [call EXCEPT ![r].phase = "pulled"]
    /\ handed' = [handed EXCEPT ![DirOf[r]] = call[r].got]
    /\ UNCHANGED <<head, copies>>

\* The caller pushes a snapshot against the version its pull handed back first.
Ask(r, blob) ==
    /\ call[r].phase = "pulled"
    /\ call' = [call EXCEPT ![r] = [Idle EXCEPT
            !.phase = "pushing", !.base = call[r].base, !.blob = blob]]
    /\ UNCHANGED <<head, copies, handed>>

\* (mutant) a push that lands whatever the remote is at
LandsOnAny(r) == TRUE
MayLand(r) == head = call[r].base

Land(r) ==
    /\ call[r].phase = "pushing" /\ MayLand(r)
    /\ head' = call[r].blob
    /\ call' = [call EXCEPT ![r] = [Idle EXCEPT !.phase = "landed"]]
    /\ UNCHANGED <<copies, handed>>

Conflict(r) ==
    /\ call[r].phase = "pushing" /\ head # call[r].base
    /\ call' = [call EXCEPT ![r] = [Idle EXCEPT !.phase = "conflict"]]
    /\ UNCHANGED <<head, copies, handed>>

\* What the copies a landed push removes are chosen by: from here, got holds it.
Merged(r) ==
    /\ call[r].phase = "landed"
    /\ call' = [call EXCEPT ![r].phase = "dropping", ![r].got = handed[DirOf[r]]]
    /\ UNCHANGED <<head, copies, handed>>

Drop(r, h) ==
    /\ call[r].phase = "dropping" /\ h \in call[r].got
    /\ copies' = copies \ {h}
    /\ UNCHANGED <<head, handed, call>>

\* The record of a pull serves one push, unless it cannot be removed.
Consume(r) ==
    /\ call[r].phase = "dropping"
    /\ handed' \in {handed, [handed EXCEPT ![DirOf[r]] = {}]}
    /\ call' = [call EXCEPT ![r] = [Idle EXCEPT !.phase = "pushed"]]
    /\ UNCHANGED <<head, copies>>

\* An error, a kill at the deadline, or an answer that got lost: a push may
\* have landed and its caller not know.
Fail(r) ==
    /\ call[r].phase \notin {"idle", "failed"}
    /\ call' = [call EXCEPT ![r] = [Idle EXCEPT !.phase = "failed"]]
    /\ UNCHANGED <<head, copies, handed>>

\* R2: the answer to a PUT that landed was lost, and a look at the object says
\* only that it has moved (after_lost_put).
Unsure(r) ==
    /\ call[r].phase = "landed"
    /\ call' = [call EXCEPT ![r] = [Idle EXCEPT !.phase = "conflict"]]
    /\ UNCHANGED <<head, copies, handed>>

\* The caller takes the answer; of a pull, without pushing.
Return(r) ==
    /\ call[r].phase \in {"pulled", "pushed", "conflict", "failed"}
    /\ call' = [call EXCEPT ![r] = Idle]
    /\ UNCHANGED <<head, copies, handed>>

\* The sync client delivers another machine's push as a conflict copy.
CopyArrives(h) ==
    /\ copies' = copies \cup {h}
    /\ UNCHANGED <<head, handed, call>>

Next ==
    \/ \E r \in Runs :
          \/ PullHead(r) \/ PullEnd(r) \/ Land(r) \/ Conflict(r) \/ Merged(r)
          \/ Consume(r) \/ Fail(r) \/ Unsure(r) \/ Return(r)
          \/ \E v \in Versions : PullCopy(r, v) \/ Ask(r, v) \/ Drop(r, v)
    \/ \E v \in Versions : CopyArrives(v)

Spec == Init /\ [][Next]_cvars

=============================================================================
