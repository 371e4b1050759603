----------------------------- MODULE Reminders -----------------------------
(***************************************************************************)
(* The reminder threads of tasqx daemons over one store (daemon.rs,        *)
(* scheduler.rs): each keeps a heap of reminders, rebuilds it when the     *)
(* event log has moved, and fires what is ripe. A tick is several engine   *)
(* calls, and every other process writes between them.                     *)
(*                                                                         *)
(* A reminder is a task and the instant its remind resolves to. Of a task  *)
(* only that instant is kept, and whether it is still to be reminded of    *)
(* (open and no proposal); of the log its length and the reminded pairs.   *)
(***************************************************************************)
EXTENDS Integers

CONSTANTS
    Tasks,       \* short ids, the order in which equal instants fire
    Instants,    \* instants a remind can resolve to
    Daemons,     \* daemon processes that serve this store
    MaxTime,     \* bound: the clock stops here
    MaxEdits,    \* bound: mutations by other callers
    MaxFaults    \* bound: failed writes and stopped daemons

ASSUME RemindersAssumption ==
    /\ Tasks \subseteq Nat /\ Instants \subseteq Nat \ {0}
    /\ MaxTime \in Nat /\ MaxEdits \in Nat /\ MaxFaults \in Nat

VARIABLES
    now,        \* the clock
    task,       \* per task, whether it is reminded of, and when (0: never)
    events,     \* the highest rowid of the event log
    reminded,   \* the pairs with a reminded event
    daemon,     \* the reminder thread of each daemon; a local it no longer
                \* reads is reset
    shown,      \* history: how often each reminder was handed to the notifier
    edits, faults

vars == <<now, task, events, reminded, daemon, shown, edits, faults>>

Reminder == Tasks \X Instants
NoReminder == <<0, 0>>

\* What rebuild would schedule, were it one read.
Wanted == {p \in Reminder : task[p[1]] = [live |-> TRUE, at |-> p[2]]}
Schedule == Wanted \ reminded

\* The heap's order: by instant, then by short id.
First(S) == CHOOSE p \in S : \A q \in S : p[2] < q[2] \/ (p[2] = q[2] /\ p[1] <= q[1])

Stopped == [pc |-> "down", clock |-> 0, cur |-> 0, seen |-> -1, fired |-> {},
            heap |-> {}, ripe |-> {}, showing |-> NoReminder]

\* A store with its tasks, before any daemon; events counts from here.
Init ==
    /\ now = 0
    /\ task \in [Tasks -> [live : BOOLEAN, at : Instants \cup {0}]]
    /\ events = 0 /\ reminded = {}
    /\ daemon = [d \in Daemons |-> Stopped]
    /\ shown = [p \in Reminder |-> 0]
    /\ edits = 0 /\ faults = 0

-----------------------------------------------------------------------------
(* Everybody else *)

Tick ==
    /\ now < MaxTime
    /\ now' = now + 1
    /\ UNCHANGED <<task, events, reminded, daemon, shown, edits, faults>>

\* A mutation that changes whether or when a task is reminded of: it logs an
\* event in the same transaction, whichever process makes it.
Edit(t, live, at) ==
    /\ edits < MaxEdits /\ edits' = edits + 1
    /\ task[t] # [live |-> live, at |-> at]
    /\ task' = [task EXCEPT ![t] = [live |-> live, at |-> at]]
    /\ events' = events + 1
    /\ UNCHANGED <<now, reminded, daemon, shown, faults>>

\* reminder.fire called by hand, for any instant: a record and no notification.
FireByHand(p) ==
    /\ edits < MaxEdits /\ edits' = edits + 1
    /\ p \notin reminded
    /\ reminded' = reminded \cup {p} /\ events' = events + 1
    /\ UNCHANGED <<now, task, daemon, shown, faults>>

-----------------------------------------------------------------------------
(* A daemon's reminder thread *)

\* The first tick always rebuilds: no rowid is -1.
Boot(d) ==
    /\ daemon[d].pc = "down"
    /\ daemon' = [daemon EXCEPT ![d] = [Stopped EXCEPT !.pc = "asleep"]]
    /\ UNCHANGED <<now, task, events, reminded, shown, edits, faults>>

\* A crash, a shutdown or the idle timeout.
Stop(d) ==
    /\ daemon[d].pc # "down"
    /\ faults < MaxFaults /\ faults' = faults + 1
    /\ daemon' = [daemon EXCEPT ![d] = Stopped]
    /\ UNCHANGED <<now, task, events, reminded, shown, edits>>

\* A tick reads the clock and the log's high-water mark.
Begin(d) ==
    /\ daemon[d].pc = "asleep"
    /\ daemon' = [daemon EXCEPT ![d].pc = "begun", ![d].clock = now, ![d].cur = events]
    /\ UNCHANGED <<now, task, events, reminded, shown, edits, faults>>

\* rebuild's first query, when the log has moved.
ReadFired(d) ==
    /\ daemon[d].pc = "begun" /\ daemon[d].cur # daemon[d].seen
    /\ daemon' = [daemon EXCEPT ![d].pc = "read", ![d].fired = reminded]
    /\ UNCHANGED <<now, task, events, reminded, shown, edits, faults>>

\* rebuild's second query, and pop_ripe.
ReadTasks(d) ==
    LET heap == Wanted \ daemon[d].fired
        ripe == {p \in heap : p[2] <= daemon[d].clock}
    IN  /\ daemon[d].pc = "read"
        /\ daemon' = [daemon EXCEPT ![d] = [daemon[d] EXCEPT
                !.pc = "firing", !.seen = daemon[d].cur, !.fired = {},
                !.clock = 0, !.cur = 0, !.heap = heap \ ripe, !.ripe = ripe]]
        /\ UNCHANGED <<now, task, events, reminded, shown, edits, faults>>

\* The log has not moved: pop_ripe on the heap as it is.
PopRipe(d) ==
    LET ripe == {p \in daemon[d].heap : p[2] <= daemon[d].clock}
    IN  /\ daemon[d].pc = "begun" /\ daemon[d].cur = daemon[d].seen
        /\ daemon' = [daemon EXCEPT ![d] = [daemon[d] EXCEPT
                !.pc = "firing", !.clock = 0, !.cur = 0,
                !.heap = daemon[d].heap \ ripe, !.ripe = ripe]]
        /\ UNCHANGED <<now, task, events, reminded, shown, edits, faults>>

\* (mutant) the heap has no fired reminder, so no second look
NeverFired(p) == TRUE
\* already_reminded, inside the transaction that writes the event.
NotYetFired(p) == p \notin reminded

\* reminder.fire writes the event; the notifier is called after its transaction.
Fire(d) ==
    LET p == First(daemon[d].ripe)
    IN  /\ daemon[d].pc = "firing" /\ daemon[d].ripe # {}
        /\ NotYetFired(p)
        /\ reminded' = reminded \cup {p} /\ events' = events + 1
        /\ daemon' = [daemon EXCEPT ![d] = [daemon[d] EXCEPT
                !.pc = "showing", !.ripe = daemon[d].ripe \ {p}, !.showing = p]]
        /\ UNCHANGED <<now, task, shown, edits, faults>>

\* Somebody else recorded it: no notification.
Deduped(d) ==
    LET p == First(daemon[d].ripe)
    IN  /\ daemon[d].pc = "firing" /\ daemon[d].ripe # {}
        /\ ~NotYetFired(p)
        /\ daemon' = [daemon EXCEPT ![d].ripe = daemon[d].ripe \ {p}]
        /\ UNCHANGED <<now, task, events, reminded, shown, edits, faults>>

\* (mutant) a failed write leaves the watermark
KeptWatermark(d) == daemon[d].seen
\* After a failed write the next tick rebuilds, whatever the log says.
FailedWatermark(d) == -1

FireFails(d) ==
    /\ daemon[d].pc = "firing" /\ daemon[d].ripe # {}
    /\ faults < MaxFaults /\ faults' = faults + 1
    /\ daemon' = [daemon EXCEPT ![d] = [daemon[d] EXCEPT
            !.ripe = daemon[d].ripe \ {First(daemon[d].ripe)}, !.seen = FailedWatermark(d)]]
    /\ UNCHANGED <<now, task, events, reminded, shown, edits>>

\* The notifier may block for as long as it likes; the engine is not locked.
Show(d) ==
    /\ daemon[d].pc = "showing"
    /\ shown' = [shown EXCEPT ![daemon[d].showing] = shown[daemon[d].showing] + 1]
    /\ daemon' = [daemon EXCEPT ![d].pc = "firing", ![d].showing = NoReminder]
    /\ UNCHANGED <<now, task, events, reminded, edits, faults>>

\* (mutant) the daemon's own reminded rows are taken as seen
LatestRowid(d) == events
\* The watermark a tick returns: a rowid the heap was built from.
Watermark(d) == daemon[d].seen

EndTick(d) ==
    /\ daemon[d].pc = "firing" /\ daemon[d].ripe = {}
    /\ daemon' = [daemon EXCEPT ![d].pc = "asleep", ![d].seen = Watermark(d)]
    /\ UNCHANGED <<now, task, events, reminded, shown, edits, faults>>

Step(d) == \/ Begin(d) \/ ReadFired(d) \/ ReadTasks(d) \/ PopRipe(d)
           \/ Fire(d) \/ Deduped(d) \/ Show(d) \/ EndTick(d)

Next ==
    \/ Tick
    \/ \E t \in Tasks, live \in BOOLEAN, at \in Instants \cup {0} : Edit(t, live, at)
    \/ \E p \in Reminder : FireByHand(p)
    \/ \E d \in Daemons : Boot(d) \/ Stop(d) \/ FireFails(d) \/ Step(d)

Spec == Init /\ [][Next]_vars

\* The thread runs until its daemon stops, and the clock goes on. Nobody is
\* bound to start a daemon.
FairSpec == Spec /\ WF_vars(Tick) /\ \A d \in Daemons : WF_vars(Step(d))

-----------------------------------------------------------------------------
(* Properties *)

Daemon == [pc : {"down", "asleep", "begun", "read", "firing", "showing"},
           clock : Nat, cur : Nat, seen : Nat \cup {-1}, fired : SUBSET Reminder,
           heap : SUBSET Reminder, ripe : SUBSET Reminder,
           showing : Reminder \cup {NoReminder}]

TypeOK ==
    /\ now \in Nat /\ events \in Nat /\ edits \in Nat /\ faults \in Nat
    /\ task \in [Tasks -> [live : BOOLEAN, at : Instants \cup {0}]]
    /\ reminded \subseteq Reminder
    /\ daemon \in [Daemons -> Daemon]
    /\ shown \in [Reminder -> Nat]

\* "It fires exactly once": no reminder is handed to the notifier twice, by
\* however many daemons, across restarts, failed writes and reminders fired by
\* hand in between (scheduler.rs 19-27).
ShownOnce == \A p \in Reminder : shown[p] <= 1

\* A sleeping thread that believes its heap is current is right: no edit,
\* failed write or event of its own is marked seen without being scheduled
\* (reminder_tick, daemon.rs 1362-1370).
HeapIsCurrent ==
    \A d \in Daemons : daemon[d].pc = "asleep" /\ daemon[d].seen = events
        => daemon[d].heap = Schedule

\* While a daemon runs, a reminder that has ripened fires, unless somebody
\* withdraws it first.
RipeFires ==
    \A p \in Reminder :
        (p \in Wanted /\ p[2] <= now /\ \E d \in Daemons : daemon[d].pc # "down")
            ~> (p \in reminded \/ p \notin Wanted \/ \A d \in Daemons : daemon[d].pc = "down")

=============================================================================
