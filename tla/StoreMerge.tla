----------------------------- MODULE StoreMerge -----------------------------
(***************************************************************************)
(* One task in the stores of several machines, edited in each of them and  *)
(* merged with store.import --merge (engine/transfer.rs, field_merge.rs,   *)
(* merge_removals.rs).                                                     *)
(*                                                                         *)
(* An export is a document: a copy of the row and its log as they were. An *)
(* import is one transaction over a document of any age. The copies start  *)
(* with one task.add; a machine has it once it has merged a document.      *)
(*                                                                         *)
(* Every machine reads its own clock, the true time plus its skew. Calls   *)
(* whose guards concern other tasks, projects or claims (a forced close)   *)
(* are left to TaskStore; a claim is its holder, its lease outlives the    *)
(* model. Notes, checks and edges take the way tags take.                  *)
(***************************************************************************)
EXTENDS TaskLog

CONSTANTS
    Machines,   \* how many there are; their numbers tell apart ids of one instant
    Steps,      \* by how much time passes between edits
    Scenes,     \* what a behaviour is made of (bounds): how far each clock is off,
                \* the calls users make, those they undo, how many in all
    Titles,     \* titles to rename it to, its own is 1
    Tags,
    Deltas,     \* corrections adjust_tracked is called with
    Totals,     \* corrections modify tracked: is called with
    Earlier     \* seconds the task holds from before its log began

ASSUME StoresAssumption ==
    /\ Machines \in Nat \ {0}
    /\ Steps \subseteq Nat
    /\ \A scene \in Scenes : scene.skew \in [1 .. Machines -> Nat] /\ scene.most \in Nat
    /\ Titles \subseteq Nat /\ Tags \subseteq Nat \ {0}
    /\ Deltas \subseteq Int /\ Totals \subseteq Nat /\ Earlier \in Nat

VARIABLES
    now,        \* the true time
    scene,      \* the scene, one throughout
    copy,       \* per machine, the task's row and its events
    doc,        \* per machine, the document it exported last
    last,       \* per machine, what undo reads: the newest event, the row before it
    edits       \* the edits so far

Stores == 1 .. Machines
vars == <<now, scene, copy, doc, last, edits>>

-----------------------------------------------------------------------------
(* Rows *)

Row == [status : {"pending", "active", "done", "cancelled"}, since : Nat, title : Nat,
        claim : Nat, tracked : Int, adj : Int, modified : Nat, tags : SUBSET Tags, rev : Nat]

NewRow == [status |-> "pending", since |-> 0, title |-> 1, claim |-> 0, tracked |-> Earlier,
           adj |-> 0, modified |-> SECOND, tags |-> Tags, rev |-> 1]
Absent == [row |-> NewRow, log |-> {}]

Has(s) == copy[s].log # {}
Open(row) == row.status \in {"pending", "active"}
Value(row, g) == IF g = "status" THEN <<row.status, row.since>>
                 ELSE IF g = "title" THEN row.title ELSE row.claim
\* Everything but the counter each store keeps for itself.
Visible(row) == [row EXCEPT !.rev = 0]

Clock(s) == now + scene.skew[s]

Nothing == [ev |-> Event("import", 0, 0), before |-> NewRow]

Init ==
    /\ now = SECOND + 1
    /\ scene \in Scenes
    /\ copy = [s \in Stores |->
            IF s = 1 THEN [row |-> NewRow, log |-> {Event("add", 0, SECOND)}] ELSE Absent]
    /\ doc = [s \in Stores |-> Absent]
    /\ last = [s \in Stores |-> Nothing]
    /\ edits = 0

-----------------------------------------------------------------------------
(* Edits: each one writes the row and an event, in one transaction. *)

\* Ids sort by the clock they were minted on.
Id(s, n) == 2 * (Clock(s) * (Machines + 1) + s) + n

\* An instant is a nanosecond: no store edits twice in one. (MaxId bounds time.)
Edit(s, row, events) ==
    /\ Id(s, 1) < MaxId
    /\ \A e \in copy[s].log : e.at # Clock(s)
    /\ copy' = [copy EXCEPT
            ![s] = [row |-> [row EXCEPT !.modified = Clock(s), !.rev = copy[s].row.rev + 1],
                    log |-> copy[s].log \cup events]]
    /\ last' = [last EXCEPT ![s] = [ev |-> Last(events), before |-> copy[s].row]]
    /\ \E step \in Steps : now' = now + step
    /\ UNCHANGED <<scene, doc>>

Logged(s, op) == Event(op, Id(s, 0), Clock(s))

Start(s, row) ==
    /\ "start" \in scene.calls
    /\ row.status = "pending"
    /\ Edit(s, [row EXCEPT !.status = "active", !.since = Clock(s)],
               {[Logged(s, "start") EXCEPT !.since = Clock(s)]})

\* What a close folds in.
Elapsed(s, row) == IF row.status = "active" THEN Secs(row.since, Clock(s)) ELSE 0

Stop(s, row) ==
    /\ "stop" \in scene.calls
    /\ row.status = "active"
    /\ Edit(s, [row EXCEPT !.status = "pending", !.since = 0,
                           !.tracked = row.tracked + Elapsed(s, row)],
               {[Logged(s, "stop") EXCEPT !.since = row.since, !.secs = Elapsed(s, row)]})

Close(s, row, op, status) ==
    /\ op \in scene.calls
    /\ Open(row)
    /\ Edit(s, [row EXCEPT !.status = status, !.since = 0, !.claim = 0,
                           !.tracked = row.tracked + Elapsed(s, row)],
               {[Logged(s, op) EXCEPT !.since = Running(row)]})

Reopen(s, row) ==
    /\ "reopen" \in scene.calls
    /\ ~Open(row)
    /\ Edit(s, [row EXCEPT !.status = "pending"], {Logged(s, "reopen")})

Claim(s, row) ==
    /\ "claim" \in scene.calls
    /\ Open(row) /\ row.claim \in {0, s}
    /\ Edit(s, [row EXCEPT !.claim = s],
               {Logged(s, IF row.claim = s THEN "renew" ELSE "claim")})

Release(s, row) ==
    /\ "release" \in scene.calls
    /\ row.claim # 0
    /\ Edit(s, [row EXCEPT !.claim = 0], {Logged(s, "release")})

Rename(s, row, title) ==
    /\ "modify" \in scene.calls
    /\ Edit(s, [row EXCEPT !.title = title], {[Logged(s, "modify") EXCEPT !.cols = {"title"}]})

\* modify status:cancelled, the one status a modify sets. It ends the claim by
\* the trigger and says nothing of it or of the interval. (One field a call.)
CancelByModify(s, row) ==
    /\ "modify status" \in scene.calls
    /\ Open(row)
    /\ Edit(s, [row EXCEPT !.status = "cancelled", !.since = 0, !.claim = 0,
                           !.tracked = row.tracked + Elapsed(s, row)],
               {[Logged(s, "modify") EXCEPT
                    !.cols = {"status"} \cup IF row.status = "active" THEN {"active_since"} ELSE {}]})

SetTotal(s, row, total) ==
    /\ "modify tracked" \in scene.calls
    /\ Edit(s, [row EXCEPT !.tracked = total, !.adj = 0],
               {[Logged(s, "modify") EXCEPT !.cols = {"tracked"}, !.total = total]})

Adjust(s, row, delta) ==
    /\ "adjust_tracked" \in scene.calls
    /\ row.tracked + delta >= 0
    /\ Edit(s, [row EXCEPT !.tracked = row.tracked + delta, !.adj = row.adj + delta],
               {[Logged(s, "adjust_tracked") EXCEPT !.delta = delta]})

\* An add of a tag that is there is logged all the same, a removal of one that
\* is not is no edit.
AddTag(s, row, tag) ==
    /\ "tag.add" \in scene.calls
    /\ Edit(s, [row EXCEPT !.tags = row.tags \cup {tag}], {[Logged(s, "tag.add") EXCEPT !.tag = tag]})
RemoveTag(s, row, tag) ==
    /\ "tag.remove" \in scene.calls
    /\ tag \in row.tags
    /\ Edit(s, [row EXCEPT !.tags = row.tags \ {tag}], {[Logged(s, "tag.remove") EXCEPT !.tag = tag]})

-----------------------------------------------------------------------------
(* Undo of the newest event; an import is one, and is not undone. *)

UndoEvent(s) == [Logged(s, "undo") EXCEPT !.undone = last[s].ev.id, !.of = last[s].ev.op]

\* revert_stop rebuilds the start from the stop's instant and whole seconds.
Rebuilt(ev) == SECOND * (ev.at \div SECOND - ev.secs)

UndoStop(s, row) ==
    LET ev == last[s].ev  since == Rebuilt(ev)
    IN  /\ ev.op = "stop" /\ row.tracked >= ev.secs
        /\ Edit(s, [row EXCEPT !.status = "active", !.since = since,
                               !.tracked = row.tracked - ev.secs],
                   {[UndoEvent(s) EXCEPT !.since = since, !.secs = ev.secs]})

\* With the claim the close ended, as a renew of its own (restore_claim).
UndoClose(s, row) ==
    LET ev == last[s].ev  before == last[s].before
        folded == row.tracked - before.tracked
    IN  /\ ev.op \in {"done", "cancel"}
        /\ Edit(s, [row EXCEPT !.status = before.status, !.since = before.since,
                               !.claim = before.claim, !.tracked = before.tracked],
                   {[UndoEvent(s) EXCEPT !.id = Id(s, 1), !.since = ev.since, !.secs = folded]}
                   \cup IF before.claim = 0 THEN {} ELSE {Logged(s, "renew")})

\* Every column the modify wrote, and the claim if it ended one.
UndoModify(s, row) ==
    LET ev == last[s].ev  before == last[s].before
    IN  /\ ev.op = "modify"
        /\ Edit(s, [row EXCEPT !.status = before.status, !.since = before.since,
                               !.title = before.title, !.claim = before.claim,
                               !.tracked = before.tracked, !.adj = before.adj],
                   {[UndoEvent(s) EXCEPT !.id = Id(s, 1), !.cols = ev.cols]}
                   \cup IF before.claim = row.claim THEN {} ELSE {Logged(s, "renew")})

UndoAdjust(s, row) ==
    LET ev == last[s].ev
    IN  /\ ev.op = "adjust_tracked" /\ row.tracked - ev.delta >= 0
        /\ Edit(s, [row EXCEPT !.tracked = row.tracked - ev.delta, !.adj = row.adj - ev.delta],
                   {UndoEvent(s)})

\* An undone tag.add takes off only what it attached.
UndoTag(s, row) ==
    LET ev == last[s].ev  before == last[s].before
    IN  /\ ev.op \in {"tag.add", "tag.remove"}
        /\ Edit(s, [row EXCEPT !.tags = before.tags],
                   {[UndoEvent(s) EXCEPT !.tag = IF before.tags = row.tags THEN 0 ELSE ev.tag]})

Undo(s, row) ==
    /\ last[s].ev.op \in scene.undone
    /\ \/ UndoStop(s, row) \/ UndoClose(s, row) \/ UndoModify(s, row)
       \/ UndoAdjust(s, row) \/ UndoTag(s, row)

UserEdit(s, row) ==
    \/ Start(s, row) \/ Stop(s, row) \/ Close(s, row, "done", "done")
    \/ Close(s, row, "cancel", "cancelled") \/ Reopen(s, row)
    \/ Claim(s, row) \/ Release(s, row)
    \/ CancelByModify(s, row)
    \/ \E title \in Titles : Rename(s, row, title)
    \/ \E total \in Totals : SetTotal(s, row, total)
    \/ \E delta \in Deltas : Adjust(s, row, delta)
    \/ \E tag \in Tags : AddTag(s, row, tag) \/ RemoveTag(s, row, tag)

-----------------------------------------------------------------------------
(* store.import --merge *)

\* tie_side: the later row stamp, then the higher JSON text, null above any
\* string.
Text(g, v) ==
    IF g = "status"
    THEN <<CASE v[1] = "active" -> 1 [] v[1] = "cancelled" -> 2 [] v[1] = "done" -> 3
             [] OTHER -> 4, v[2]>>
    ELSE <<IF g = "claim" /\ v = 0 THEN 1 ELSE 0, v>>
TieIsTheirs(mine, theirs, g) ==
    \/ theirs.modified > mine.modified
    \/ /\ theirs.modified = mine.modified
       /\ Higher(Text(g, Value(theirs, g)), Text(g, Value(mine, g)))

\* The group's values as the merge chooses them (chosen).
Chosen(mine, theirs, g) ==
    IF PayloadWins(mine.log, theirs.log, g, TieIsTheirs(mine.row, theirs.row, g))
    THEN Value(theirs.row, g) ELSE Value(mine.row, g)

\* The trigger tasks_claim_ends_on_close.
EndClaim(row) == IF Open(row) THEN row ELSE [row EXCEPT !.claim = 0]

MergedStamp(mine, theirs) == Larger(mine.row.modified, theirs.row.modified)

WithStatus(row, status) == [row EXCEPT !.status = status[1], !.since = status[2]]
WithTotal(row, total) == [row EXCEPT !.tracked = total.tracked, !.adj = total.adj]
ChosenRow(mine, theirs) ==
    [WithStatus(mine.row, Chosen(mine, theirs, "status"))
        EXCEPT !.title = Chosen(mine, theirs, "title"),
               !.claim = Chosen(mine, theirs, "claim"),
               !.modified = MergedStamp(mine, theirs)]
Retotalled(mine, theirs, row) == WithTotal(row, MergedTotal(mine, theirs, Running(row)))
MergedScalars(mine, theirs) == Retotalled(mine, theirs, ChosenRow(mine, theirs))

\* (mutant) a removal is only the removing store's
KeptTags(mine, theirs) == mine.row.tags \cup theirs.row.tags
\* The union of the two, without what the ledger of both logs removed.
MergedTags(mine, theirs) ==
    {tag \in mine.row.tags \cup theirs.row.tags : ~Removed(mine.log \cup theirs.log, tag)}

\* (mutant) a merge bumps the rev whether it changed the row or not
AlwaysBump(mine, theirs, scalars, tags) == Larger(mine.row.rev, theirs.row.rev) + 1
\* (mutant) a merge of notes and tags leaves the rev alone
BumpForScalars(mine, theirs, scalars, tags) ==
    IF scalars # mine.row THEN Larger(mine.row.rev, theirs.row.rev) + 1 ELSE mine.row.rev
\* Past both, when the scalars are written or a tag comes or goes.
MergedRev(mine, theirs, scalars, tags) ==
    IF scalars # mine.row \/ tags # mine.row.tags
    THEN Larger(mine.row.rev, theirs.row.rev) + 1 ELSE mine.row.rev

\* The upsert, and with it the trigger, runs only when the scalars move.
Upserted(mine, scalars) == IF scalars # mine.row THEN EndClaim(scalars) ELSE mine.row
Rewritten(mine, theirs, scalars, tags) ==
    [row |-> [Upserted(mine, scalars)
                EXCEPT !.tags = tags, !.rev = MergedRev(mine, theirs, scalars, tags)],
     log |-> mine.log \cup theirs.log]
\* What becomes of mine when theirs is merged into it; a task the store does not
\* hold is inserted as it is.
Merged(mine, theirs) ==
    IF mine.log = {} THEN theirs
    ELSE Rewritten(mine, theirs, MergedScalars(mine, theirs), MergedTags(mine, theirs))

Export(s) ==
    /\ Has(s) /\ doc[s] # copy[s]
    /\ doc' = [doc EXCEPT ![s] = copy[s]]
    /\ UNCHANGED <<now, scene, copy, last, edits>>

\* Of any document at any age; the import event ends what undo can reach.
Merge(r, s) ==
    /\ doc[s].log # {}
    /\ copy' = [copy EXCEPT ![r] = Merged(copy[r], doc[s])]
    /\ last' = [last EXCEPT ![r] = Nothing]
    /\ UNCHANGED <<now, scene, doc, edits>>

Sync == \E s \in Stores : Export(s) \/ \E r \in Stores : Merge(r, s)

Next ==
    \/ Sync
    \/ \E s \in Stores :
        /\ Has(s) /\ edits < scene.most /\ edits' = edits + 1
        /\ UserEdit(s, copy[s].row) \/ Undo(s, copy[s].row)

Spec == Init /\ [][Next]_vars

-----------------------------------------------------------------------------
(* Properties *)

\* Every machine's clock tells one time.
Agree == \A r, s \in Stores : scene.skew[r] = scene.skew[s]
Rows == {copy[s] : s \in {s \in Stores : Has(s)}}
Documents == {doc[s] : s \in {s \in Stores : doc[s].log # {}}}
Copies == Rows \cup Documents

\* Two machines that merge each other's document end on one row, however far
\* their clocks are apart.
MergeCommutes ==
    \A a \in Rows : \A b \in Rows \ {a} : Visible(Merged(a, b).row) = Visible(Merged(b, a).row)

\* Merging a document a second time writes nothing, the rev included.
MergeIsIdempotent ==
    \A b \in Documents : \A m \in {Merged(a, b) : a \in Rows} : Merged(m, b) = m

\* However its edits reached a store, by whatever merges of however old
\* documents, the row is the one its log makes it. The claim is left out: a
\* merge that closes the task ends a claim the log still tells of, and only a
\* store that met the close before the reopening has merged it so; the tie rule
\* settles the claim between two such stores. The totals are claimed where no
\* modify cancelled the task while it ran: its interval is in the row and in no
\* log (Blind), so a copy merged from there keeps it after the modify is undone.
ButClaim(row) == [Visible(row) EXCEPT !.claim = 0]
ButTotal(row) == [row EXCEPT !.tracked = 0, !.adj = 0]
SameHistorySameRow ==
    Agree => \A a, b \in Copies : a.log = b.log =>
        /\ ButTotal(ButClaim(a.row)) = ButTotal(ButClaim(b.row))
        /\ Blind(a.log) = {} => a.row.tracked = b.row.tracked /\ a.row.adj = b.row.adj

\* Copies that agree on who wrote a group last agree on the group.
SameEditSameValue ==
    Agree => \A a, b \in Copies, g \in {"status", "title"} :
        Last(Edits(a.log, g)) = Last(Edits(b.log, g)) => Value(a.row, g) = Value(b.row, g)

\* A tag is on a copy exactly while its log's latest word on it is a write.
TagsFollowLog ==
    Agree => \A c \in Copies :
        c.row.tags = {tag \in Tags : ~Removed(c.log, tag) /\ \E w \in c.log : Writes(w, tag)}

\* Where totals add up. A merge raises a total that comes out below zero to zero,
\* so no correction is negative, and none is undone where a total may have been
\* set since. An undone modify of the total still resets the count, so none is.
\* An undone stop rebuilds the start in whole seconds, so instants are seconds.
SetsTotals(sc) == "modify tracked" \in sc.calls
Repayable ==
    /\ Deltas \subseteq Nat
    /\ \A sc \in Scenes :
        /\ "stop" \in sc.undone => SECOND = 1
        /\ sc.undone \cap {"modify", "adjust_tracked"} # {} => ~SetsTotals(sc)

\* A total is what its log counts and what was there before the log began:
\* no second is lost by a merge, and none is counted twice. Of a log with a
\* modify that cancelled the task while it ran nothing is claimed: the row banks
\* the whole interval, the log at most what came before its next event.
LogExplainsTotal ==
    Agree => \A c \in Copies : Blind(c.log) = {} =>
        Beyond(c) = [tracked |-> IF Resets(c.log) = {} THEN Earlier ELSE 0, adj |-> 0]

\* Where time comes from intervals alone, no copy holds more of it than passed
\* between each start its log tells of and the last event the log tells of.
TimeIsLived ==
    Agree => \A c \in Copies :
        LET timed == {e \in c.log : e.op \in {"adjust_tracked", "modify"}} = {}
            Passed(e) == Secs(e.at, Max({x.at : x \in c.log}))
        IN  timed => c.row.tracked <= Earlier
                        + SumFunction([e \in {e \in c.log : e.op = "start"} |-> Passed(e)])

\* The starts were made on clocks no other is ahead of.
Fastest(s) == \A r \in Stores : scene.skew[r] <= scene.skew[s]
StartsLead(log) ==
    \A e \in log : e.op = "start" =>
        \E s \in Stores : Fastest(s) /\ e.id = 2 * (e.at * (Machines + 1) + s)

\* The undos that may put a clock back on.
Resumed(log) == {e \in log : e.op = "undo" /\ Touches(e, "status")}

\* No merge runs a clock again that some machine closed by name: not even one
\* whose own clock is so slow that it stopped it before it was started. A modify
\* that cancels the task names no interval: it holds against the starts stamped
\* up to its own stamp, and a start it came after but is stamped before runs on
\* (D189). (A start stamped before what its machine had received may lose to it
\* as well; an undo has no place in that order, and is left out.)
StoppedStaysStopped ==
    \A c \in Copies : Resumed(c.log) = {} /\ StartsLead(c.log) =>
        /\ Running(c.row) \notin {x.since : x \in Closes(c.log)}
        /\ Running(c.row) # 0 => \A e \in Blind(c.log) : e.at <= Running(c.row)

\* A log never counts more than the row holds (merged_tracked: a history can
\* only over-explain a total when it was misread).
NeverOverExplains == Agree => \A c \in Rows : Beyond(c).tracked >= 0

\* A caller who guards a write with the rev it has read is told of a merge that
\* changed the row in between.
RevTellsOfMerge ==
    [][\A s \in Stores : Has(s) /\ Visible(copy'[s].row) # Visible(copy[s].row)
                            => copy'[s].row.rev > copy[s].row.rev]_vars

\* When every store has exported what it holds and no document would bring any
\* of them anything, all hold one row, however far their clocks are apart.
Quiet ==
    \A s \in Stores : Has(s) /\ doc[s] = copy[s] /\ \A r \in Stores : Merged(copy[r], doc[s]) = copy[r]
QuietIsOneRow ==
    Quiet => \A r, s \in Stores : Visible(copy[r].row) = Visible(copy[s].row)

=============================================================================
