----------------------------- MODULE TaskStore -----------------------------
(***************************************************************************)
(* The task store of tasqx-core: task rows, dependency edges, claims,      *)
(* running clocks, recurrence, and the undo of the newest event.           *)
(*                                                                         *)
(* Every mutation of engine.rs opens with BEGIN IMMEDIATE                  *)
(* (begin_mutation) and reads the row it guards on inside that             *)
(* transaction, so one call is one atomic step and any number of           *)
(* processes (CLI, daemon, MCP servers) interleave call by call.           *)
(*                                                                         *)
(* Two parameters only ever add a refusal, so they are no steps of their   *)
(* own: expected_rev (guard_rev) and the ref that guards an undo. What     *)
(* expected_rev is for is HeldIsCurrent below.                             *)
(*                                                                         *)
(* Instants and durations are whole seconds on one clock that never runs   *)
(* backwards; 0 is SQL's NULL. wait stands for wait and scheduled, due for *)
(* the date a recurring task is anchored on. Titles, notes, tags, projects *)
(* and links are left out; a task has at most one acceptance check.        *)
(***************************************************************************)
EXTENDS Integers, FiniteSets

CONSTANTS
    TaskIds,        \* ids a task can ever get; a deleted task's is not reused
    Added,          \* the ids task.add takes; the others wait for occurrences
    Holders,        \* identities a call can resolve to
    User,           \* SHELL_HOLDER, the identity of a call that names nobody
    NoOne, NoTask,  \* SQL NULL for an identity and for a task id
    Clients,        \* readers that keep a row and its _rev between calls
    StartCalls,     \* the [holder, actor] parameters task.start is called with
    Keeps,          \* the values of task.start's keep
    Git,            \* whether git events (engine/git.rs) reach this store
    Forces,         \* the values of force and force_claim
    Reports,        \* whether a completion carries a token self-report
    Leases,         \* lease lengths callers ask for
    DefaultLease,   \* DEFAULT_LEASE_SECS
    Births,         \* the statuses tasks are added with
    Columns,        \* what task.modify is called for: wait, tracked, status
    Waits, Dues,    \* dates callers give, as instants, 0 for none
    Periods,        \* recurrence rules, as the period of the occurrences
    Deltas,         \* corrections task.adjust_tracked is called with
    Totals,         \* absolute corrections task.modify tracked is called with
    Checks,         \* whether tasks are added with an acceptance check
    Edges,          \* dependency edges callers ask for
    MaxTracked,     \* bound: corrections keep banked time below this
    MaxTime         \* bound: the clock stops here

ASSUME IdsAssumption ==
    /\ User \in Holders /\ NoOne \notin Holders /\ NoTask \notin TaskIds
    /\ Added \subseteq TaskIds /\ IsFiniteSet(TaskIds)
ASSUME CallsAssumption ==
    /\ StartCalls \subseteq [holder : Holders \cup {NoOne}, actor : Holders \cup {NoOne}]
    /\ Keeps \subseteq BOOLEAN /\ Git \in BOOLEAN /\ Checks \subseteq BOOLEAN
    /\ Forces \subseteq BOOLEAN /\ Reports \subseteq BOOLEAN
    /\ Births \subseteq {"pending", "triage"} /\ Columns \subseteq {"wait", "tracked", "status"}
    /\ Edges \subseteq TaskIds \X TaskIds
ASSUME NumbersAssumption ==
    /\ Leases \subseteq Nat \ {0} /\ DefaultLease \in Nat \ {0}
    /\ Waits \subseteq Nat /\ Dues \subseteq Nat /\ Periods \subseteq Nat \ {0}
    /\ Deltas \subseteq Int /\ Totals \subseteq Nat /\ MaxTime \in Nat
    /\ MaxTracked \in Nat

VARIABLES
    now,         \* the clock every call reads (clock.rs)
    row,         \* the tasks table
    start,       \* per task, the payload of its latest start event
    leftTriage,  \* per task, whether its newest cancellation left triage
    deps,        \* the dependencies table: <<task, depends on>>
    newest,      \* what undo reads of the newest event
    held         \* per client, the row it read last

vars == <<now, row, start, leftTriage, deps, newest, held>>

-----------------------------------------------------------------------------
(* Rows *)

\* Stored statuses. A stored backlog reads as pending (effective_status), so
\* both are "pending" here; "unborn" ids are free, "removed" ones were deleted.
Stored == {"unborn", "removed", "triage", "pending", "active", "done", "cancelled"}
CheckStates == {"none", "open", "passed", "failed"}

Row == [status : Stored, wait : Int, due : Int, rule : Nat,
        since : Nat, tracked : Nat, adj : Int, check : CheckStates,
        by : Holders \cup {NoOne}, until : Nat,
        from : TaskIds \cup {NoTask}, rev : Nat]

\* A row with no clock, no banked time and no claim.
Fresh(status, wait, due, rule, check, from, rev) ==
    [status |-> status, wait |-> wait, due |-> due, rule |-> rule,
     since |-> 0, tracked |-> 0, adj |-> 0, check |-> check,
     by |-> NoOne, until |-> 0, from |-> from, rev |-> rev]
NoRow == Fresh("unborn", 0, 0, 0, "none", NoTask, 0)

Exists(t)   == row[t].status \notin {"unborn", "removed"}
Terminal(t) == row[t].status \in {"done", "cancelled"}
Open(t)     == Exists(t) /\ ~Terminal(t)
Running(t)  == row[t].status = "active"

\* effective_status: a pending task is backlog while its wait is ahead.
Status(t) == IF row[t].status = "pending" /\ row[t].wait > now THEN "backlog"
             ELSE row[t].status

Elapsed(t) == IF Running(t) THEN now - row[t].since ELSE 0

\* check_dates_not_inverted, on the values after the merge.
DatesInOrder(wait, due) == due = 0 \/ wait <= due

-----------------------------------------------------------------------------
(* Identities, clocks and claims (D236) *)

Identity(call) == IF call.holder # NoOne THEN call.holder
                  ELSE IF call.actor # NoOne THEN call.actor ELSE User
Named(call) == call.holder # NoOne \/ call.actor # NoOne

NoStart == [holder |-> NoOne, actor |-> NoOne]
ClockNamed(t) == IF start[t].holder # NoOne THEN start[t].holder ELSE start[t].actor
ClockOwner(t) == IF ClockNamed(t) # NoOne THEN ClockNamed(t) ELSE User

LiveClaim(t) == row[t].until > now
LiveElsewhere(t, who) == LiveClaim(t) /\ row[t].by # who

\* claim_close_guard
MayClose(t, who, forceClaim) == LiveElsewhere(t, who) => forceClaim

\* require_no_other_active
NoOtherActive(t) ==
    \A u \in TaskIds \ {t} : Running(u) => ClockOwner(u) # ClockOwner(t)

-----------------------------------------------------------------------------
(* Dependencies *)

DependsOn(t)  == {d \in TaskIds : <<t, d>> \in deps}
Dependents(t) == {x \in TaskIds : <<x, t>> \in deps}

\* reaches: b is in every set that holds a and is closed under the edges.
Closed(S) == \A e \in deps : e[1] \in S => e[2] \in S
Reaches(a, b) == \A S \in SUBSET TaskIds : a \in S /\ Closed(S) => b \in S

OpenBlockers(t) == IF Terminal(t) THEN {} ELSE {d \in DependsOn(t) : Open(d)}
Blocked(t) == OpenBlockers(t) # {}

\* (mutant) those blocked all along are named too
ReblockedOrBlocked(t) == {x \in Dependents(t) : Open(x)}
\* What a closing call answers as "unblocked", read after its writes.
Unblocked(t) == {x \in Dependents(t) : Open(x) /\ \A d \in DependsOn(x) : ~Open(d)}
\* What a reopen answers as "blocked", read after its writes.
Reblocked(t) == {x \in Dependents(t) : Open(x) /\ {d \in DependsOn(x) : Open(d)} = {t}}

-----------------------------------------------------------------------------
(* Events: the fields of the newest event that undo reads. *)

Ops == {"none", "add", "start", "stop", "claim", "release", "adjust_tracked", "done",
        "cancel", "modify", "reopen", "accept", "duplicate", "dependency.add",
        "dependency.remove", "check", "undo"}

Event(op, t) ==
    [op |-> op, t |-> t, at |-> 0, secs |-> 0, from |-> "unborn", started |-> 0,
     by |-> NoOne, until |-> 0, check |-> "none", cols |-> {}, wait |-> 0,
     tracked |-> 0, adj |-> 0, delta |-> 0, dep |-> NoTask, spawn |-> NoTask,
     measured |-> FALSE]

\* What done and cancel record of the row they close.
ClosingEvent(op, t) ==
    [Event(op, t) EXCEPT !.secs = Elapsed(t), !.from = row[t].status,
     !.started = row[t].since, !.by = row[t].by, !.until = row[t].until]

\* The row a stop or an auto-stop leaves.
StoppedRow(t) ==
    [row[t] EXCEPT !.status = "pending", !.since = 0,
                   !.tracked = row[t].tracked + Elapsed(t), !.rev = row[t].rev + 1]

\* (mutant) a close that drops the open interval
ClosedWithoutInterval(t, status) ==
    [row[t] EXCEPT !.status = status, !.since = 0, !.by = NoOne, !.until = 0,
                   !.rev = row[t].rev + 1]
\* The row a close leaves; the claim goes by trigger (tasks_claim_ends_on_close).
ClosedRow(t, status) ==
    [StoppedRow(t) EXCEPT !.status = status, !.by = NoOne, !.until = 0]

Bumped(t) == [row[t] EXCEPT !.rev = row[t].rev + 1]

-----------------------------------------------------------------------------
Init ==
    /\ now = 1
    /\ row = [t \in TaskIds |-> NoRow]
    /\ start = [t \in TaskIds |-> NoStart]
    /\ leftTriage = [t \in TaskIds |-> FALSE]
    /\ deps = {}
    /\ newest = Event("none", NoTask)
    /\ held = [c \in Clients |-> [t |-> NoTask, row |-> NoRow, deps |-> {}]]

Tick ==
    /\ now < MaxTime
    /\ now' = now + 1
    /\ UNCHANGED <<row, start, leftTriage, deps, newest, held>>

\* task.get, by a client that keeps what it read.
Read(c, t) ==
    /\ Exists(t)
    /\ held' = [held EXCEPT ![c] = [t |-> t, row |-> row[t], deps |-> DependsOn(t)]]
    /\ UNCHANGED <<now, row, start, leftTriage, deps, newest>>

\* task.add: one rev per event, so one for each edge and check on top of the first.
Add(t, status, wait, due, rule, checked, needs) ==
    /\ row[t].status = "unborn"
    /\ DatesInOrder(wait, due)
    /\ \A d \in needs : Exists(d)
    /\ row' = [row EXCEPT ![t] =
            Fresh(status, wait, due, rule, IF checked THEN "open" ELSE "none", NoTask,
                  1 + Cardinality(needs) + (IF checked THEN 1 ELSE 0))]
    /\ deps' = deps \cup ({t} \X needs)
    /\ newest' = Event("add", t)
    /\ UNCHANGED <<now, start, leftTriage, held>>

-----------------------------------------------------------------------------
(* Clocks *)

\* (mutants) every claimed clock is spared; no claimed clock is
SparesOwnClaims(starter) == {a \in TaskIds : Running(a) /\ ~LiveClaim(a)}
SparesNoClaims(starter) == {a \in TaskIds : Running(a)}
\* The running clocks a start without keep stops: all but those under their
\* own owner's live claim.
AutoStopped(starter) ==
    {a \in TaskIds : Running(a) /\ (ClockOwner(a) # starter =>
                                      ~(LiveClaim(a) /\ row[a].by = ClockOwner(a)))}

\* D140: a named start does not stop a clock somebody else named.
NamedClocksAgree(call) ==
    \A a \in AutoStopped(Identity(call)) :
        ClockOwner(a) # Identity(call) => ~(Named(call) /\ ClockNamed(a) # NoOne)

\* A start of a running task writes nothing and is no step.
Start(t, call, keep) ==
    LET starter == Identity(call)
        renewed == IF LiveClaim(t) /\ now + DefaultLease > row[t].until
                   THEN now + DefaultLease ELSE row[t].until
        stopped == IF keep THEN {} ELSE AutoStopped(starter)
    IN  /\ Status(t) = "pending"
        /\ ~LiveElsewhere(t, starter)
        /\ keep \/ NamedClocksAgree(call)
        /\ row' = [a \in TaskIds |->
                IF a = t THEN [row[t] EXCEPT !.status = "active", !.since = now,
                                             !.until = renewed, !.rev = row[t].rev + 1]
                ELSE IF a \in stopped THEN StoppedRow(a) ELSE row[a]]
        /\ start' = [start EXCEPT ![t] =
                [holder |-> IF starter # User THEN starter ELSE NoOne,
                 actor |-> call.actor]]
        /\ newest' = Event("start", t)
        /\ UNCHANGED <<now, leftTriage, deps, held>>

\* git.event opened: a start that keeps other clocks, as the live claim's holder.
\* live_claim_holder reads that before the start's own transaction, so it may be
\* somebody whose claim has ended by now.
GitStart(t, claimant) ==
    /\ Git
    /\ Start(t, [NoStart EXCEPT !.holder = claimant], TRUE)

Stop(t, who, forceClaim) ==
    /\ Running(t)
    /\ MayClose(t, who, forceClaim)
    /\ row' = [row EXCEPT ![t] = StoppedRow(t)]
    /\ newest' = [Event("stop", t) EXCEPT !.at = now, !.secs = Elapsed(t)]
    /\ UNCHANGED <<now, start, leftTriage, deps, held>>

\* (mutant) a claim that does not look at the running clock
ClaimsAnyClock(t, who) == TRUE
\* A running task is its clock owner's work, claimed or not.
ClaimFitsClock(t, who) == Running(t) => ClockOwner(t) = who

\* claim, renew and takeover write the same columns.
Claim(t, who, lease) ==
    /\ Open(t)
    /\ ClaimFitsClock(t, who)
    /\ ~LiveElsewhere(t, who)
    /\ row' = [row EXCEPT ![t] = [Bumped(t) EXCEPT !.by = who, !.until = now + lease]]
    /\ newest' = Event("claim", t)
    /\ UNCHANGED <<now, start, leftTriage, deps, held>>

\* An expired claim is anyone's to release.
Release(t, who, forceClaim) ==
    /\ Exists(t) /\ row[t].by # NoOne
    /\ MayClose(t, who, forceClaim)
    /\ row' = [row EXCEPT ![t] = [Bumped(t) EXCEPT !.by = NoOne, !.until = 0]]
    /\ newest' = Event("release", t)
    /\ UNCHANGED <<now, start, leftTriage, deps, held>>

\* (mutant) no floor under the total
AdjustsFreely(t, delta) == TRUE
MayAdjust(t, delta) == row[t].tracked + delta >= 0

\* task.adjust_tracked, on a task of any status.
Adjust(t, delta) ==
    /\ Exists(t)
    /\ MayAdjust(t, delta)
    /\ row' = [row EXCEPT ![t] =
            [Bumped(t) EXCEPT !.tracked = row[t].tracked + delta, !.adj = row[t].adj + delta]]
    /\ newest' = [Event("adjust_tracked", t) EXCEPT !.delta = delta]
    /\ UNCHANGED <<now, start, leftTriage, deps, held>>

-----------------------------------------------------------------------------
(* Closing and reopening *)

\* next_after: the first occurrence after both the anchor and now.
NextDue(t) ==
    row[t].due + row[t].rule *
        (IF now < row[t].due THEN 1 ELSE (now - row[t].due) \div row[t].rule + 1)

\* (mutant) every completion spawns
SlotNeverTaken(t) == FALSE
\* D191: whether some completion has already spawned this occurrence.
SlotTaken(t) == \E x \in TaskIds : Exists(x) /\ row[x].from = t /\ row[x].due = NextDue(t)
Spawns(t) == row[t].rule # 0 /\ ~SlotTaken(t)

\* spawn_next: the next occurrence, its dates shifted together.
SpawnedRow(t) ==
    Fresh("pending",
          IF row[t].wait = 0 THEN 0 ELSE row[t].wait + (NextDue(t) - row[t].due),
          NextDue(t), row[t].rule,
          IF row[t].check = "none" THEN "none" ELSE "open", t, 1)

\* The completion all callers share. s is the id the next occurrence gets, or
\* NoTask when none is spawned; pass marks the check as proved.
Complete(t, who, forceClaim, pass, measured, s) ==
    /\ MayClose(t, who, forceClaim)
    /\ pass => row[t].check # "none"
    /\ IF Spawns(t) THEN s \in TaskIds /\ row[s].status = "unborn" ELSE s = NoTask
    /\ row' = [x \in TaskIds |->
            IF x = t THEN [ClosedRow(t, "done") EXCEPT
                             !.check = IF pass THEN "passed" ELSE row[t].check]
            ELSE IF x = s THEN SpawnedRow(t) ELSE row[x]]
    /\ newest' = [ClosingEvent("done", t) EXCEPT
            !.check = row[t].check, !.spawn = s, !.measured = measured]
    /\ UNCHANGED <<now, start, leftTriage, deps, held>>

Done(t, who, force, forceClaim, pass, measured, s) ==
    /\ Status(t) \in {"pending", "active"}
    /\ force \/ ~Blocked(t)
    /\ Complete(t, who, forceClaim, pass, measured, s)

\* git.event merged: held back by an unproved check or an open blocker, never
\* by a date. It acts as the live claim's holder, read as for GitStart.
DoneMerged(t, who, s) ==
    /\ Git
    /\ Status(t) \in {"pending", "active", "backlog"}
    /\ row[t].check \in {"none", "passed"} /\ ~Blocked(t)
    /\ Complete(t, who, FALSE, FALSE, FALSE, s)

Cancel(t, who, forceClaim) ==
    /\ Open(t)
    /\ MayClose(t, who, forceClaim)
    /\ row' = [row EXCEPT ![t] = ClosedRow(t, "cancelled")]
    /\ leftTriage' = [leftTriage EXCEPT ![t] = row[t].status = "triage"]
    /\ newest' = ClosingEvent("cancel", t)
    /\ UNCHANGED <<now, start, deps, held>>

\* (mutant) the correction that a new total resets is not recorded
WrittenWithoutAdj(t, set) ==
    set \cup (IF "status" \in set /\ Running(t) THEN {"since", "tracked"} ELSE {})
\* The columns a modify writes, whose old values its event records (before).
Written(t, set) ==
    set \cup (IF "tracked" \in set THEN {"adj"} ELSE {})
        \cup (IF "status" \in set /\ Running(t) THEN {"since", "tracked"} ELSE {})

\* The row with the columns a modify sets; a new total forgets the corrections.
Changed(t, set, wait, total) ==
    [row[t] EXCEPT
        !.wait = IF "wait" \in set THEN wait ELSE row[t].wait,
        !.tracked = IF "tracked" \in set THEN total ELSE row[t].tracked,
        !.adj = IF "tracked" \in set THEN 0 ELSE row[t].adj,
        !.rev = row[t].rev + 1]

\* status:cancelled closes the row as task.cancel does, on top of the new total.
ModifiedRow(t, set, wait, total) ==
    LET base == Changed(t, set, wait, total)
    IN  IF "status" \in set
        THEN [base EXCEPT !.status = "cancelled", !.since = 0, !.by = NoOne, !.until = 0,
                          !.tracked = base.tracked + Elapsed(t)]
        ELSE base

\* What a modify records: the columns it writes and what they held (before).
ModifyEvent(t, set) ==
    LET written == Written(t, set)
    IN  [Event("modify", t) EXCEPT
            !.cols = written,
            !.wait = IF "wait" \in written THEN row[t].wait ELSE 0,
            !.tracked = IF "tracked" \in written THEN row[t].tracked ELSE 0,
            !.adj = IF "adj" \in written THEN row[t].adj ELSE 0,
            !.started = IF "since" \in written THEN row[t].since ELSE 0,
            !.from = IF "status" \in set THEN row[t].status ELSE "unborn",
            !.by = IF "status" \in set THEN row[t].by ELSE NoOne,
            !.until = IF "status" \in set THEN row[t].until ELSE 0]

\* task.modify of wait, tracked and status:cancelled, together or apart.
Modify(t, set, wait, total, who, forceClaim) ==
    /\ Exists(t)
    /\ DatesInOrder(Changed(t, set, wait, total).wait, row[t].due)
    /\ "status" \in set => Open(t) /\ MayClose(t, who, forceClaim)
    /\ row' = [row EXCEPT ![t] = ModifiedRow(t, set, wait, total)]
    /\ leftTriage' = IF "status" \in set
                     THEN [leftTriage EXCEPT ![t] = row[t].status = "triage"] ELSE leftTriage
    /\ newest' = ModifyEvent(t, set)
    /\ UNCHANGED <<now, start, deps, held>>

\* (mutant) every reopened task is work
ReopensAsWork(t) == "pending"
\* A cancelled proposal comes back as a proposal (cancelled_from_triage).
ReopensAs(t) == IF row[t].status = "cancelled" /\ leftTriage[t] THEN "triage" ELSE "pending"

Reopen(t) ==
    /\ Terminal(t)
    /\ row' = [row EXCEPT ![t] = [Bumped(t) EXCEPT !.status = ReopensAs(t)]]
    /\ newest' = Event("reopen", t)
    /\ UNCHANGED <<now, start, leftTriage, deps, held>>

-----------------------------------------------------------------------------
(* Triage *)

Accept(t) ==
    /\ row[t].status = "triage"
    /\ row' = [row EXCEPT ![t] = [Bumped(t) EXCEPT !.status = "pending"]]
    /\ newest' = Event("accept", t)
    /\ UNCHANGED <<now, start, leftTriage, deps, held>>

\* A reason is a note of its own, one rev more.
Decline(t, who, forceClaim, reason) ==
    /\ row[t].status = "triage"
    /\ MayClose(t, who, forceClaim)
    /\ row' = [row EXCEPT ![t] = [ClosedRow(t, "cancelled") EXCEPT
            !.rev = row[t].rev + (IF reason THEN 2 ELSE 1)]]
    /\ leftTriage' = [leftTriage EXCEPT ![t] = TRUE]
    /\ newest' = ClosingEvent("cancel", t)
    /\ UNCHANGED <<now, start, deps, held>>

\* (mutant) no look at what the original depends on
RepointedBlindly(t, original) == {x \in Dependents(t) : x # original}
\* The dependents that can wait on the original instead. The code moves one
\* edge at a time; the edges of t's dependents into t lie on no path from the
\* original to another of them, so the order does not matter.
Repointed(t, original) ==
    {x \in Dependents(t) : x # original /\ ~Reaches(original, x)}

\* (mutant) a dependent whose edge is only dropped keeps its rev
DependentOnlyIfRepointed(x, repointed) ==
    [row[x] EXCEPT !.rev = row[x].rev + (IF repointed THEN 2 ELSE 0)]
\* A dependent's row: one rev for the edge that goes, one for the new one.
DependentRow(x, repointed) ==
    [row[x] EXCEPT !.rev = row[x].rev + (IF repointed THEN 2 ELSE 1)]

Duplicate(t, original, who, forceClaim) ==
    /\ row[t].status = "triage"
    /\ Exists(original) /\ original # t
    /\ MayClose(t, who, forceClaim)
    /\ row' = [x \in TaskIds |->
            IF x = t THEN ClosedRow(t, "cancelled")
            ELSE IF x \in Dependents(t)
            THEN DependentRow(x, x \in Repointed(t, original)) ELSE row[x]]
    /\ deps' = (deps \ (TaskIds \X {t})) \cup (Repointed(t, original) \X {original})
    /\ leftTriage' = [leftTriage EXCEPT ![t] = TRUE]
    /\ newest' = Event("duplicate", t)
    /\ UNCHANGED <<now, start, held>>

-----------------------------------------------------------------------------
(* Dependencies and checks *)

\* Adding an edge that is already there still bumps the rev and logs an event.
DepAdd(t, d) ==
    /\ Exists(t) /\ Exists(d) /\ t # d
    /\ ~Reaches(d, t)
    /\ deps' = deps \cup {<<t, d>>}
    /\ row' = [row EXCEPT ![t] = Bumped(t)]
    /\ newest' = Event("dependency.add", t)
    /\ UNCHANGED <<now, start, leftTriage, held>>

\* Removing an edge that is not there writes nothing and is no step.
DepRemove(t, d) ==
    /\ <<t, d>> \in deps
    /\ deps' = deps \ {<<t, d>>}
    /\ row' = [row EXCEPT ![t] = Bumped(t)]
    /\ newest' = [Event("dependency.remove", t) EXCEPT !.dep = d]
    /\ UNCHANGED <<now, start, leftTriage, held>>

\* check.add, check.set and check.remove, on a task of any status.
SetCheck(t, check) ==
    /\ Exists(t)
    /\ IF row[t].check = "none" THEN check = "open" ELSE check \in CheckStates
    /\ row' = [row EXCEPT ![t] = [Bumped(t) EXCEPT !.check = check]]
    /\ newest' = Event("check", t)
    /\ UNCHANGED <<now, start, leftTriage, deps, held>>

-----------------------------------------------------------------------------
(* Undo (event.revert): the newest event only, when its op has an inverse. *)

\* A revert is a new event with a rev of its own.
Reverted(t, r) ==
    /\ row' = [row EXCEPT ![t] = [r EXCEPT !.rev = r.rev + 1]]
    /\ newest' = Event("undo", t)
    /\ UNCHANGED <<now, start, leftTriage, held>>

\* restore_claim: the claim the event ended, while its lease is still live.
Reclaimed(r) == IF newest.until > now
                THEN [r EXCEPT !.by = newest.by, !.until = newest.until] ELSE r

RevertStop(t) ==
    /\ newest.op = "stop" /\ newest.t = t
    /\ Status(t) = "pending"
    /\ row[t].tracked >= newest.secs
    /\ Reverted(t, [row[t] EXCEPT !.status = "active", !.since = newest.at - newest.secs,
                                  !.tracked = row[t].tracked - newest.secs])
    /\ UNCHANGED deps

\* put_back_status
PutBack(t) ==
    IF newest.from = "active"
    THEN [row[t] EXCEPT !.status = "active", !.since = newest.started,
                        !.tracked = row[t].tracked - newest.secs]
    ELSE [row[t] EXCEPT !.status = newest.from]
MayPutBack(t) ==
    newest.from = "active" => row[t].tracked >= newest.secs /\ NoOtherActive(t)

RevertCancel(t) ==
    /\ newest.op = "cancel" /\ newest.t = t
    /\ row[t].status = "cancelled"
    /\ MayPutBack(t)
    /\ Reverted(t, Reclaimed(PutBack(t)))
    /\ UNCHANGED deps

\* remove_untouched_spawn: the row is deleted, its id is not given out again.
RemovedSpawn(s) == Fresh("removed", 0, 0, 0, "none", NoTask, 0)

\* A completion and the occurrence it spawned are taken back as one.
RevertDone(t) ==
    LET s == newest.spawn
        back == [Reclaimed(PutBack(t)) EXCEPT !.check = newest.check,
                                              !.rev = row[t].rev + 1]
    IN  /\ newest.op = "done" /\ newest.t = t
        /\ row[t].status = "done" /\ ~newest.measured
        /\ s # NoTask => row[s].rev = 1 /\ \A e \in deps : s \notin {e[1], e[2]}
        /\ MayPutBack(t)
        /\ row' = [x \in TaskIds |-> IF x = t THEN back
                    ELSE IF x = s THEN RemovedSpawn(s) ELSE row[x]]
        /\ newest' = Event("undo", t)
        /\ UNCHANGED <<now, start, leftTriage, deps, held>>

\* Every column the modify wrote goes back to what it held before.
RowBefore(t) ==
    LET cols == newest.cols
    IN  [row[t] EXCEPT
            !.wait = IF "wait" \in cols THEN newest.wait ELSE row[t].wait,
            !.tracked = IF "tracked" \in cols THEN newest.tracked ELSE row[t].tracked,
            !.adj = IF "adj" \in cols THEN newest.adj ELSE row[t].adj,
            !.since = IF "since" \in cols THEN newest.started ELSE row[t].since,
            !.status = IF "status" \in cols THEN newest.from ELSE row[t].status]

RevertModify(t) ==
    /\ newest.op = "modify" /\ newest.t = t
    /\ "status" \in newest.cols => row[t].status = "cancelled"
    /\ newest.from = "active" => NoOtherActive(t)
    /\ Reverted(t, Reclaimed(RowBefore(t)))
    /\ UNCHANGED deps

RevertAdjust(t) ==
    /\ newest.op = "adjust_tracked" /\ newest.t = t
    /\ row[t].tracked - newest.delta >= 0
    /\ Reverted(t, [row[t] EXCEPT !.tracked = row[t].tracked - newest.delta,
                                  !.adj = row[t].adj - newest.delta])
    /\ UNCHANGED deps

RevertAccept(t) ==
    /\ newest.op = "accept" /\ newest.t = t
    /\ row[t].status = "pending"
    /\ Reverted(t, [row[t] EXCEPT !.status = "triage"])
    /\ UNCHANGED deps

RevertDepRemove(t) ==
    /\ newest.op = "dependency.remove" /\ newest.t = t
    /\ newest.dep # NoTask /\ Exists(newest.dep) /\ ~Reaches(newest.dep, t)
    /\ <<t, newest.dep>> \notin deps
    /\ deps' = deps \cup {<<t, newest.dep>>}
    /\ Reverted(t, row[t])

Undo == \E t \in TaskIds :
    \/ RevertStop(t) \/ RevertCancel(t) \/ RevertDone(t) \/ RevertModify(t)
    \/ RevertAdjust(t) \/ RevertAccept(t) \/ RevertDepRemove(t)

-----------------------------------------------------------------------------
(* Every call names a task; who it resolves to and what it overrides are its *)
(* caller's choice.                                                          *)

Adds == \E t \in Added, status \in Births, wait \in Waits,
           due \in Dues, rule \in Periods \cup {0}, checked \in Checks,
           needs \in SUBSET {d \in TaskIds : \E e \in Edges : d = e[2]} :
    /\ rule # 0 => due # 0
    /\ \A d \in needs : <<t, d>> \in Edges
    /\ Add(t, status, wait, due, rule, checked, needs)

Clocks == \E t \in TaskIds :
    \/ \E call \in StartCalls, keep \in Keeps : Start(t, call, keep)
    \/ \E claimant \in Holders \cup {NoOne} : GitStart(t, claimant)
    \/ \E who \in Holders, force \in Forces : Stop(t, who, force) \/ Release(t, who, force)
    \/ \E who \in Holders, lease \in Leases : Claim(t, who, lease)
    \/ \E delta \in Deltas : row[t].tracked + delta <= MaxTracked /\ Adjust(t, delta)

Closes == \E t \in TaskIds :
    \/ \E who \in Holders, force \in Forces, forceClaim \in Forces, pass \in Checks,
          measured \in Reports, s \in TaskIds \cup {NoTask} :
          Done(t, who, force, forceClaim, pass, measured, s)
    \/ \E who \in Holders, s \in TaskIds \cup {NoTask} : DoneMerged(t, who, s)
    \/ \E who \in Holders, forceClaim \in Forces : Cancel(t, who, forceClaim)
    \/ \E set \in (SUBSET Columns) \ {{}}, wait \in Waits,
          total \in Totals, who \in Holders, forceClaim \in Forces :
          Modify(t, set, wait, total, who, forceClaim)
    \/ Reopen(t)

Triages == \E t \in TaskIds :
    \/ Accept(t)
    \/ \E who \in Holders, forceClaim \in Forces, reason \in BOOLEAN :
          Decline(t, who, forceClaim, reason)
    \/ \E original \in TaskIds, who \in Holders, forceClaim \in Forces :
          Duplicate(t, original, who, forceClaim)

Relations == \E t \in TaskIds :
    \/ \E d \in TaskIds : (<<t, d>> \in Edges /\ DepAdd(t, d)) \/ DepRemove(t, d)
    \/ \E check \in CheckStates : TRUE \in Checks /\ SetCheck(t, check)

Next ==
    \/ Tick
    \/ \E c \in Clients, t \in TaskIds : Read(c, t)
    \/ Adds \/ Clocks \/ Closes \/ Triages \/ Relations \/ Undo

Spec == Init /\ [][Next]_vars
-----------------------------------------------------------------------------
(* Properties *)

Events == [op : Ops, t : TaskIds \cup {NoTask}, at : Nat, secs : Nat,
           from : Stored, started : Nat, by : Holders \cup {NoOne}, until : Nat,
           check : CheckStates, cols : SUBSET {"wait", "tracked", "adj", "since", "status"},
           wait : Int, tracked : Nat, adj : Int, delta : Int,
           dep : TaskIds \cup {NoTask}, spawn : TaskIds \cup {NoTask}, measured : BOOLEAN]

\* Every table holds rows of its columns' types.
TypeOK ==
    /\ now \in Nat /\ row \in [TaskIds -> Row]
    /\ start \in [TaskIds -> [holder : Holders \cup {NoOne}, actor : Holders \cup {NoOne}]]
    /\ leftTriage \in [TaskIds -> BOOLEAN]
    /\ deps \subseteq TaskIds \X TaskIds
    /\ newest \in Events
    /\ held \in [Clients -> [t : TaskIds \cup {NoTask}, row : Row, deps : SUBSET TaskIds]]

\* A live claim on a running task is its clock owner's: no order of claims,
\* takeovers, starts, closes and undos leaves one holder's work allocated to
\* another. claim_close_guard and the auto-stop each read only one of the two
\* (task.rs 1060-1066, 1264-1272) and rely on it.
LiveClaimIsTheClocks ==
    \A t \in TaskIds : Running(t) /\ LiveClaim(t) => row[t].by = ClockOwner(t)

\* D6, per holder since D236: without keep, nobody runs two clocks, undo of a
\* stop or a close included (undo.rs 707-731).
OneClockPerHolder ==
    \A t, u \in TaskIds : Running(t) /\ Running(u) /\ t # u => ClockOwner(t) # ClockOwner(u)

\* A start never stops a clock that runs under somebody else's live claim
\* (task.rs 1060-1066): that work is allocated, whoever starts next.
StartSparesClaims ==
    [][newest'.op = "start" =>
         \A t, u \in TaskIds :
            newest'.t = u /\ Running(t) /\ ~Running(t)' /\ LiveClaim(t)
                => row[t].by = ClockOwner(u)']_vars

\* The rev protects all of a row: a client whose expected_rev still matches
\* holds the row and the edges as they are, whichever call, cascade or undo
\* wrote last (guard_rev, task.rs 4814-4819), so no guarded write is lost.
HeldIsCurrent ==
    \A c \in Clients : LET h == held[c] IN
        h.t # NoTask /\ Exists(h.t) /\ h.row.rev = row[h.t].rev
            => h.row = row[h.t] /\ h.deps = DependsOn(h.t)

\* No task is blocked by itself, through whatever chain of edges: not after an
\* add, the re-pointing of a duplicate's edges or an undo put one back.
Acyclic == \A t \in TaskIds : \A d \in DependsOn(t) : ~Reaches(d, t)

\* Banked and running time together grow exactly with the clock: no stop,
\* auto-stop, completion, cancellation, triage or reopen loses or counts twice
\* a second. Corrections and undo are what may move it.
Worked(t) == row[t].tracked + Elapsed(t)
TimeIsKept ==
    [][newest'.op \notin {"adjust_tracked", "modify", "undo"} =>
         \A t \in TaskIds : Exists(t) =>
             Worked(t)' = Worked(t) + (IF Running(t) THEN now' - now ELSE 0)]_vars

\* D191: one row per occurrence, however often the task it was spawned from is
\* completed, reopened, undone and completed again (task.rs 1947-1962).
SlotFilledOnce ==
    \A x, y \in TaskIds : Exists(x) /\ Exists(y) /\ row[x].from # NoTask
        /\ row[x].from = row[y].from /\ row[x].due = row[y].due => x = y

\* The tasks a step releases: blocked before, not after. A task that closes is
\* not released by its own close.
Released(t) == {x \in TaskIds \ {t} : Blocked(x) /\ ~Blocked(x)'}

\* The tasks a step makes wait: not blocked before, blocked after.
Withheld(t) == {x \in TaskIds \ {t} : ~Blocked(x) /\ Blocked(x)'}

\* What a call answers is what it did to the work that depends on its task:
\* "unblocked" names exactly what a close makes actionable, "blocked" exactly what
\* a reopen takes out of the actionable set (compute_unblocked, task.rs 2077-2150,
\* compute_reblocked, 4662-4695).
CallsAnswer ==
    [][row' # row => \A t \in TaskIds : newest'.t = t =>
         /\ newest'.op \in {"done", "cancel"} => Unblocked(t)' = Released(t)
         /\ newest'.op = "reopen" => Reblocked(t)' = Withheld(t)]_vars

=============================================================================
