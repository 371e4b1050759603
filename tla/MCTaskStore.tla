---------------------------- MODULE MCTaskStore ----------------------------
(***************************************************************************)
(* Instances of TaskStore for TLC.                                         *)
(***************************************************************************)
EXTENDS TaskStoreHistory, TLC

CONSTANTS t1, t2, t3, c1, user, a, b

\* How calls name themselves: MCP fills actor, the CLI's --holder is holder.
ActorOrHolder == {[holder |-> NoOne, actor |-> NoOne], [holder |-> NoOne, actor |-> a],
                  [holder |-> b, actor |-> NoOne]}
ShellOnly == {[holder |-> NoOne, actor |-> NoOne]}

UpAndDown == {-1, 1}

AllEdges == TaskIds \X TaskIds

Symmetric == Permutations(TaskIds)

\* What TLC takes two states to be the same by: everything the next steps read.
\*  - rev only grows, and is compared only with the rev a client read and, for
\*    an untouched occurrence, with 1;
\*  - an expired lease is as good as any other expired one;
\*  - a start is read while its clock runs or an undo may reopen it;
\*  - leftTriage is read while the task is cancelled;
\*  - of an event that undo refuses, nothing is read.
Undoable == {"stop", "done", "cancel", "modify", "adjust_tracked", "accept",
             "dependency.remove"}
SeenLease(until) == IF until > now THEN until ELSE IF until = 0 THEN 0 ELSE 1
Seen(r) == [r EXCEPT !.rev = 0, !.until = SeenLease(@)]
SeenEvent == IF newest.op \in Undoable THEN [newest EXCEPT !.until = SeenLease(@)]
             ELSE Event("none", NoTask)
SeenStart(t) == IF Running(t) \/ SeenEvent.t = t THEN start[t] ELSE NoStart
Current(c) == held[c].t # NoTask /\ held[c].row.rev = row[held[c].t].rev
StoreView ==
    <<now, [t \in TaskIds |-> Seen(row[t])], [t \in TaskIds |-> SeenStart(t)],
      {t \in TaskIds : leftTriage[t] /\ row[t].status = "cancelled"}, deps, SeenEvent,
      [c \in Clients |-> IF Current(c) THEN <<held[c].t, Seen(held[c].row), held[c].deps>>
                         ELSE <<>>],
      accepted>>
HistoryView ==
    <<StoreView, IF SeenEvent.op = "none" THEN <<>>
                 ELSE <<[t \in TaskIds |-> Seen(prior.row[t])], prior.deps>> >>

=============================================================================
