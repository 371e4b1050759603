------------------------------ MODULE TaskLog -------------------------------
(***************************************************************************)
(* What a merge reads off the event logs of one task: which event wrote a  *)
(* group of fields last, which removal stands, and how much tracked time   *)
(* the log counts (engine/field_merge.rs, engine/merge_removals.rs).       *)
(*                                                                         *)
(* A log is the set of a task's events. The code walks it in order once;   *)
(* here each answer says which events it rests on. Events as this version  *)
(* writes them: a stop, a done and a cancel of a running clock name the    *)
(* interval they close, a modify that cancels it names none.               *)
(***************************************************************************)
EXTENDS Integers, FiniteSets, FiniteSetsExt

CONSTANTS
    SECOND,     \* instants to a second
    MaxId       \* ids of events are below this

ASSUME LogAssumption == SECOND \in Nat \ {0} /\ MaxId \in Nat

\* The columns that move as one. The other groups of GROUPS (schedule,
\* priority, project, ...) are written by modify alone, as the title is.
GROUPS == {"status", "title", "claim"}
\* The closes that name their interval. The modify to cancelled (closes) is one
\* that names none: no order moves it and no count closes an interval with it.
Closing == {"stop", "done", "cancel"}

\* The fields of an event's payload a merge reads: since is interval_started
\* (0 for none), secs what a stop recorded or an undo took back, cols the
\* columns a modify wrote, undone and of the event an undo reverted and its op.
Event(op, id, at) ==
    [op |-> op, id |-> id, at |-> at, since |-> 0, secs |-> 0, cols |-> {},
     total |-> 0, delta |-> 0, tag |-> 0, undone |-> 0, of |-> "none"]

-----------------------------------------------------------------------------
(* The order of events *)

\* (mutant) by the stamp alone
ByStamp(e) == FALSE
\* A close stamped no later than its own start: the closing machine is slow.
Slow(e) == e.op \in Closing /\ e.since # 0 /\ e.since >= e.at

When(e) == IF Slow(e) THEN e.since ELSE e.at
\* order: by instant, then closes moved behind their start, then by id, the
\* triple as one number.
Place(e) == (IF Slow(e) THEN 2 * e.since + 1 ELSE 2 * e.at) * MaxId + e.id

Before(L, e) == {x \in L : Place(x) < Place(e)}
After(L, e)  == {x \in L : Place(x) > Place(e)}
First(S) == CHOOSE e \in S : \A x \in S : Place(e) <= Place(x)
Last(S)  == CHOOSE e \in S : \A x \in S : Place(x) <= Place(e)

-----------------------------------------------------------------------------
(* Who wrote a group last *)

\* (mutant) an undo is no edit of the fields it puts back
TouchesButUndo(e, g) ==
    \/ e.op = "add"
    \/ e.op \in {"start", "stop", "reopen"} /\ g = "status"
    \/ e.op \in {"done", "cancel"} /\ g \in {"status", "claim"}
    \/ e.op \in {"claim", "renew", "release"} /\ g = "claim"
    \/ e.op = "modify" /\ g \in e.cols
Touches(e, g) ==
    \/ e.op = "add"
    \/ e.op \in {"start", "stop", "reopen"} /\ g = "status"
    \/ e.op \in {"done", "cancel"} /\ g \in {"status", "claim"}
    \/ e.op \in {"claim", "renew", "release"} /\ g = "claim"
    \/ e.op = "undo" /\ e.of \in Closing /\ g = "status"
    \/ e.op = "undo" /\ e.of = "modify" /\ g \in e.cols
    \/ e.op = "modify" /\ g \in e.cols

Edits(L, g) == {e \in L : Touches(e, g)}

\* group_winner, for the payload: its latest edit is later, or the logs cannot
\* tell and the tie is the payload's.
PayloadWins(mine, theirs, g, tie) ==
    LET m == Edits(mine, g)  t == Edits(theirs, g)
    IN  IF m # {} /\ t # {} /\ Place(Last(m)) # Place(Last(t))
        THEN Place(Last(t)) > Place(Last(m)) ELSE tie

-----------------------------------------------------------------------------
(* Removals *)

\* task_effects: what an event does to a tag. An undone removal is a write,
\* an undone tag.add a removal; the add writes the tags the task came with.
Removes(e, tag) ==
    e.tag = tag /\ (e.op = "tag.remove" \/ (e.op = "undo" /\ e.of = "tag.add"))
Writes(e, tag) ==
    \/ e.op = "add"
    \/ e.tag = tag /\ (e.op = "tag.add" \/ (e.op = "undo" /\ e.of = "tag.remove"))

\* Ledger::removal: the latest removal, when no write is as late.
Removed(L, tag) ==
    \E r \in L : Removes(r, tag) /\ \A w \in L : Writes(w, tag) => Place(w) < Place(r)

-----------------------------------------------------------------------------
(* Tracked time *)

\* Whole seconds from one instant to another, as as_second() counts them.
Secs(from, to) == IF to \div SECOND > from \div SECOND
                  THEN to \div SECOND - from \div SECOND ELSE 0

Resets(L) == {e \in L : e.op = "modify" /\ "tracked" \in e.cols}
Since(L) == IF Resets(L) = {} THEN L ELSE After(L, Last(Resets(L)))

Closes(L) == {e \in L : e.op \in Closing /\ e.since # 0}
Length(e) == IF e.op = "stop" THEN e.secs ELSE Secs(e.since, e.at)
Reopens(L) == {e \in L : e.op = "undo" /\ e.of \in Closing}
\* closed_by: the close an undo takes back, if the walk has met it by then.
Reopened(L, u) == {c \in Closes(L) : c.id = u.undone /\ Place(c) < Place(u)}

\* (mutant) undo takes no close back
StandingAll(L) == Closes(L)
\* The closes whose interval no later undo opened again.
Standing(L) ==
    {c \in Closes(L) : \A u \in Reopens(L) : Place(c) < Place(u) =>
                          \A d \in Reopened(L, u) : d.since # c.since}

\* (mutant) an interval closed on two machines counts at each of its closes
EachClose(S) == SumFunction([c \in S |-> Length(c)])
\* An interval counts once, at the longest of its closes.
Intervals(S) ==
    LET Longest(i) == Max({Length(c) : c \in {c \in S : c.since = i}})
    IN  SumFunction([i \in {c.since : c \in S} |-> Longest(i)])

\* adjust_tracked, and the undo of one.
Adjusted(L) ==
    LET Back(e) == {d \in L : d.op = "adjust_tracked" /\ d.id = e.undone}
        Delta(e) == IF e.op = "adjust_tracked" THEN e.delta
                    ELSE -SumFunction([d \in Back(e) |-> d.delta])
    IN  SumFunction([e \in {e \in Since(L) : "adjust_tracked" \in {e.op, e.of}} |-> Delta(e)])

\* An undo that meets no close takes off what it says it restored.
TakenBack(L) ==
    SumFunction([u \in {u \in Reopens(L) \cap Since(L) : Reopened(L, u) = {}} |-> u.secs])

\* The modifies that cancelled a running task: an interval is closed in the row
\* and left open in the log.
Blind(L) == {e \in L : e.op = "modify" /\ "active_since" \in e.cols}

Openings(L) == {e \in L : e.since # 0 /\ (e.op = "start" \/ e \in Reopens(L))}

\* What an interval that no close ended is worth: up to the first event after
\* it, unless another start or an undo comes first.
Banked(L, i) ==
    LET after == After(L, First({e \in Openings(L) : e.since = i}))
        next == Edits(after, "status")
        from == IF Resets(L) # {} /\ When(Last(Resets(L))) > i
                THEN When(Last(Resets(L))) ELSE i
    IN  IF next = {} \/ First(next).op \in {"start", "undo"} THEN 0
        ELSE Secs(from, First(after).at)
LeftOpen(L, running) ==
    {e.since : e \in Openings(L)} \ ({c.since : c \in Standing(L)} \cup {running})

\* count: running is the interval the row has open, 0 for none.
Tracked(L, running) ==
    (IF Resets(L) = {} THEN 0 ELSE Last(Resets(L)).total)
        + Intervals(Standing(L) \cap Since(L))
        + Adjusted(L) - TakenBack(L)
        + SumFunction([i \in LeftOpen(L, running) |-> Banked(L, i)])

-----------------------------------------------------------------------------
(* The total of a merged task: c, mine and theirs are copies, a row and a log. *)

Running(row) == IF row.status = "active" THEN row.since ELSE 0
Higher(a, b) == a[1] > b[1] \/ (a[1] = b[1] /\ a[2] > b[2])
Larger(a, b) == IF a > b THEN a ELSE b

\* What a copy's total holds beyond what its own log counts (residual).
Beyond(c) == [tracked |-> c.row.tracked - Tracked(c.log, Running(c.row)),
              adj     |-> c.row.adj - Adjusted(c.log)]
\* A residual from before the latest reset is dropped.
Holds(log, union) == Resets(union) = {} \/ Last(Resets(union)) \in log
Kept(mine, theirs) ==
    {Beyond(c) : c \in {c \in {mine, theirs} : Holds(c.log, mine.log \cup theirs.log)}}

\* (mutant) both residuals
SumOfRests(S) == IF S = {} THEN 0 ELSE Max({0} \cup S) + Max({0} \cup S)
\* The larger of the two, never their sum.
Rest(S) == IF S = {} THEN 0 ELSE Max(S)

\* (mutant) the store's total, and what the payload's unseen events add to it
UnseenAdded(mine, theirs, running) ==
    LET unseen == theirs.log \ mine.log
    IN  [tracked |-> mine.row.tracked + Tracked(unseen, running),
         adj |-> mine.row.adj + Adjusted(unseen)]
\* A total that comes out below zero is zero, and the correction that much more.
AtLeastZero(tracked, adj) ==
    IF tracked < 0 THEN [tracked |-> 0, adj |-> adj - tracked]
                   ELSE [tracked |-> tracked, adj |-> adj]
TotalOf(union, kept, running) ==
    AtLeastZero(Tracked(union, running) + Larger(0, Rest({k.tracked : k \in kept})),
                Adjusted(union) + Rest({k.adj : k \in kept}))
\* merged_tracked, with running the interval the merged row has open.
MergedTotal(mine, theirs, running) ==
    TotalOf(mine.log \cup theirs.log, Kept(mine, theirs), running)

=============================================================================
