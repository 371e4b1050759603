-------------------------- MODULE TaskStoreHistory --------------------------
(***************************************************************************)
(* TaskStore with two history variables, which no action reads: the tables *)
(* as they were before the newest event, and the tasks that are accepted   *)
(* work (added as pending, spawned, or taken out of triage).               *)
(***************************************************************************)
EXTENDS TaskStore

VARIABLES prior, accepted

hvars == <<vars, prior, accepted>>

HInit ==
    /\ Init
    /\ prior = [row |-> row, deps |-> deps]
    /\ accepted = {}

\* A task is accepted when it is born as work or by an accept, and no longer
\* when that accept is undone.
Accepting ==
    {t \in TaskIds : \/ ~Exists(t) /\ Exists(t)' /\ row'[t].status # "triage"
                     \/ newest'.op = "accept" /\ newest'.t = t}
Unaccepting == IF newest'.op = "undo" /\ newest.op = "accept" THEN {newest.t} ELSE {}

HNext ==
    /\ Next
    /\ prior' = IF row' = row THEN prior ELSE [row |-> row, deps |-> deps]
    /\ accepted' = (accepted \cup Accepting) \ Unaccepting

HSpec == HInit /\ [][HNext]_hvars

-----------------------------------------------------------------------------

\* An undo leaves every row as it was before the event it takes back, but for
\* the rev: status, dates, clock, banked time, corrections, check and edges,
\* with the claim back while its lease is live and no live claim otherwise; an
\* occurrence the event spawned is gone again (undo.rs 398-597).
Restored(after, before) ==
    \/ before.status = "unborn" /\ after.status = "removed"
    \/ /\ \A f \in DOMAIN before \ {"rev", "by", "until"} : after[f] = before[f]
       /\ IF before.until > now THEN after.by = before.by /\ after.until = before.until
                                ELSE after.until <= now
UndoRestores ==
    [][row' # row /\ newest'.op = "undo" =>
         /\ \A t \in TaskIds : Restored(row'[t], prior.row[t])
         /\ deps' = prior.deps]_hvars

\* D238: a proposal becomes work only by being accepted, and accepted work is
\* never a proposal again, whatever is cancelled, reopened, undone and
\* cancelled again in between (cancelled_from_triage, task.rs 4703-4728).
ProposalsWait ==
    \A t \in TaskIds : Open(t) => (row[t].status = "triage" <=> t \notin accepted)

=============================================================================
