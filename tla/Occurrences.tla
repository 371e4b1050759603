---------------------------- MODULE Occurrences -----------------------------
(***************************************************************************)
(* A recurring series and the edges between its tasks in the stores of two *)
(* machines that complete the same occurrence, each spawning the next one  *)
(* under an id of its own, and merge each other's exports                  *)
(* (engine/transfer.rs, recur_dedupe.rs).                                  *)
(*                                                                         *)
(* An import is one transaction: the document's events, its rows, its      *)
(* edges, and then the fold of every slot that holds two rows. A cycle     *)
(* among the edges refuses all of it.                                      *)
(*                                                                         *)
(* The clocks agree, and no two edits happen in one instant: a spawned     *)
(* task's id, a UUIDv7, is its instant here. The series is due later than  *)
(* every edit, so the next occurrence is one period on. What one task's    *)
(* row goes through beyond that is StoreMerge's, what one store's calls    *)
(* refuse beyond that is TaskStore's.                                      *)
(***************************************************************************)
EXTENDS TaskLog, TLC

CONSTANTS
    Stores,     \* the machines
    Scenes,     \* what a behaviour is made of (bounds): the calls, how many, the
                \* tasks that may wait for one another
    MaxTask     \* ids of tasks are up to this

ASSUME OccurrencesAssumption ==
    /\ IsFiniteSet(Stores) /\ Cardinality(Stores) = 2 /\ MaxTask \in Nat
    /\ \A scene \in Scenes : scene.most \in Nat /\ scene.most + 2 <= MaxTask

VARIABLES
    now,        \* the instant of the next edit
    scene,      \* the scene, one throughout
    store,      \* per machine, its rows, its events by the task they are filed
                \* under, and its edges
    doc,        \* the document exported last (a bound: one at a time)
    last        \* per machine, the completion undo would take back

vars == <<now, scene, store, doc, last>>

Ids == 1 .. MaxTask
None == 0
\* The series began as task 1; task 2 does not recur.
Series == 1
Errand == 2

-----------------------------------------------------------------------------
(* Rows *)

NewRow(parent, due, at) ==
    [parent |-> parent, due |-> due, status |-> "pending", since |-> 0, completed |-> 0,
     tracked |-> 0, adj |-> 0, modified |-> at]
NoRow == NewRow(None, 0, 0)

Tasks(st) == {t \in Ids : st.row[t] # NoRow}
Open(row) == row.status \in {"pending", "active"}
Slot(st, parent, due) ==
    {t \in Tasks(st) : st.row[t].parent = parent /\ st.row[t].due = due}

\* The instant's calls have even ids, what they do besides odd ones.
Logged(op) == Event(op, 2 * now, now)
AddAt(at) == Event("add", 2 * at + 1, at)

NoDone == [t |-> None, spawn |-> None, before |-> NoRow]
Empty == [row |-> [t \in Ids |-> NoRow], log |-> [t \in Ids |-> {}], deps |-> {}]

\* Both machines hold the two tasks.
Init ==
    /\ now = 3
    /\ scene \in Scenes
    /\ store = [s \in Stores |->
            [row |-> [t \in Ids |-> IF t \in {Series, Errand} THEN NewRow(None, 1, t) ELSE NoRow],
             log |-> [t \in Ids |-> IF t \in {Series, Errand} THEN {AddAt(t)} ELSE {}],
             deps |-> {}]]
    /\ doc = Empty
    /\ last = [s \in Stores |-> NoDone]

-----------------------------------------------------------------------------
(* Edits *)

Edited(st, t, row, e) ==
    [st EXCEPT !.row[t] = [row EXCEPT !.modified = now], !.log[t] = st.log[t] \cup {e}]

Edit(s, after, done) ==
    /\ now < 3 + scene.most
    /\ store' = [store EXCEPT ![s] = after]
    /\ last' = [last EXCEPT ![s] = done]
    /\ now' = now + 1
    /\ UNCHANGED <<scene, doc>>

\* With another clock running it would stop that: TaskStore's.
Start(s, st, t) ==
    /\ "start" \in scene.calls
    /\ st.row[t].status = "pending" /\ \A u \in Tasks(st) : st.row[u].status # "active"
    /\ Edit(s, Edited(st, t, [st.row[t] EXCEPT !.status = "active", !.since = now],
                      [Logged("start") EXCEPT !.since = now]), NoDone)

Elapsed(row) == IF row.status = "active" THEN Secs(row.since, now) ELSE 0

Stop(s, st, t) ==
    LET row == st.row[t]
    IN  /\ "stop" \in scene.calls
        /\ row.status = "active"
        /\ Edit(s, Edited(st, t, [row EXCEPT !.status = "pending", !.since = 0,
                                             !.tracked = @ + Elapsed(row)],
                          [Logged("stop") EXCEPT !.since = row.since, !.secs = Elapsed(row)]),
                NoDone)

\* (mutant) every completion spawns
NeverTaken(st, t) == FALSE
\* The slot of the next occurrence is filled (spawn_next).
SlotTaken(st, t) == Slot(st, t, st.row[t].due + 1) # {}
Spawns(st, t) == t # Errand /\ ~SlotTaken(st, t)

Waits(st, t) == \E d \in Tasks(st) : <<t, d>> \in st.deps /\ Open(st.row[d])

Done(s, st, t) ==
    LET row == st.row[t]
        closed == Edited(st, t, [row EXCEPT !.status = "done", !.since = 0, !.completed = now,
                                            !.tracked = @ + Elapsed(row)],
                         [Logged("done") EXCEPT !.since = Running(row)])
    IN  /\ "done" \in scene.calls
        /\ Open(row) /\ ~Waits(st, t)
        /\ IF Spawns(st, t)
           THEN Edit(s, [closed EXCEPT !.row[now] = NewRow(t, row.due + 1, now),
                                       !.log[now] = {AddAt(now)}],
                     [t |-> t, spawn |-> now, before |-> row])
           ELSE Edit(s, closed, [t |-> t, spawn |-> None, before |-> row])

\* revert_done, of the newest event; the spawn it takes back is untouched then.
\* The event of its add stays.
UndoDone(s, st) ==
    LET t == last[s].t  before == last[s].before
        undone == {e \in st.log[t] : e.op = "done" /\ e.at = st.row[t].completed}
        opened == Edited(st, t,
                [st.row[t] EXCEPT !.status = before.status, !.since = before.since,
                                  !.completed = 0, !.tracked = before.tracked],
                [Logged("undo") EXCEPT !.undone = Last(undone).id, !.of = "done",
                    !.since = Last(undone).since, !.secs = st.row[t].tracked - before.tracked])
    IN  /\ "undo" \in scene.calls
        /\ t # None
        /\ Edit(s, IF last[s].spawn = None THEN opened
                   ELSE [opened EXCEPT !.row[last[s].spawn] = NoRow], NoDone)

Reopen(s, st, t) ==
    /\ "reopen" \in scene.calls
    /\ ~Open(st.row[t])
    /\ Edit(s, Edited(st, t, [st.row[t] EXCEPT !.status = "pending", !.completed = 0],
                      Logged("reopen")), NoDone)

\* task.modify due, by one period.
Move(s, st, t) ==
    /\ "modify" \in scene.calls
    /\ Edit(s, Edited(st, t, [st.row[t] EXCEPT !.due = @ + 1],
                      [Logged("modify") EXCEPT !.cols = {"schedule"}]), NoDone)

Adjust(s, st, t) ==
    /\ "adjust_tracked" \in scene.calls
    /\ Edit(s, Edited(st, t, [st.row[t] EXCEPT !.tracked = @ + 1, !.adj = @ + 1],
                      [Logged("adjust_tracked") EXCEPT !.delta = 1]), NoDone)

\* reaches: b is in every set that holds a and is closed under the edges.
Reaches(deps, a, b) ==
    \A S \in SUBSET ({a} \cup {e[2] : e \in deps}) :
        a \in S /\ (\A e \in deps : e[1] \in S => e[2] \in S) => b \in S

\* A bound: between the errand and an occurrence that was spawned.
AddEdge(s, st, t, d) ==
    /\ "dependency.add" \in scene.calls
    /\ Errand \in {t, d} /\ Series \notin {t, d}
    /\ t # d /\ <<t, d>> \notin st.deps /\ ~Reaches(st.deps, d, t)
    /\ Edit(s, [Edited(st, t, st.row[t], Logged("dependency.add"))
                    EXCEPT !.deps = @ \cup {<<t, d>>}], NoDone)

UserEdit(s, st) ==
    \/ UndoDone(s, st)
    \/ \E t \in Tasks(st) :
        \/ Start(s, st, t) \/ Stop(s, st, t) \/ Done(s, st, t) \/ Reopen(s, st, t)
        \/ Move(s, st, t) \/ Adjust(s, st, t) \/ \E d \in Tasks(st) : AddEdge(s, st, t, d)

-----------------------------------------------------------------------------
(* store.import --merge, task by task *)

Known(st) == UNION {st.log[t] : t \in Ids}
\* An event the store holds already stays with the task it is filed under.
Events(mine, theirs) ==
    [t \in Ids |-> mine.log[t] \cup (theirs.log[t] \ Known(mine))]

Value(row, g) ==
    CASE g = "status" -> <<row.status, row.since, row.completed>>
      [] g = "schedule" -> row.due
      [] OTHER -> row.parent
Text(row, g) ==
    IF g = "status"
    THEN <<CASE row.status = "active" -> 1 [] row.status = "done" -> 2 [] OTHER -> 3,
           row.since + row.completed>>
    ELSE <<0, Value(row, g)>>
TieIsTheirs(mine, theirs, g) ==
    \/ theirs.modified > mine.modified
    \/ theirs.modified = mine.modified /\ Higher(Text(theirs, g), Text(mine, g))

\* Whose value a group of fields takes: a and b are copies, a row and a log.
Winner(a, b, g) ==
    IF PayloadWins(a.log, b.log, g, TieIsTheirs(a.row, b.row, g)) THEN b.row ELSE a.row

\* What is left of the row a when it takes its status from the row w.
WithStatus(a, w) == [a EXCEPT !.status = w.status, !.since = w.since, !.completed = w.completed]
WithTotal(a, total) == [a EXCEPT !.tracked = total.tracked, !.adj = total.adj]
Counted(a, b, row) == WithTotal(row, MergedTotal(a, b, Running(row)))

HoldAdds(a, b) == \A c \in {a, b} : \E e \in c.log : e.op = "add"

\* A row both hold, by its fields' last writers; the later row, if a log is not
\* its history.
MergedRow(a, b) ==
    IF ~HoldAdds(a, b) THEN (IF b.row.modified > a.row.modified THEN b.row ELSE a.row)
    ELSE Counted(a, b, [WithStatus(a.row, Winner(a, b, "status"))
            EXCEPT !.due = Winner(a, b, "schedule").due,
                   !.parent = Winner(a, b, "spawned_from").parent,
                   !.modified = Larger(a.row.modified, b.row.modified)])

Copy(st, t) == [row |-> st.row[t], log |-> st.log[t]]
RowFor(mine, theirs) ==
    IF mine.row = NoRow THEN theirs.row ELSE MergedRow(mine, theirs)
\* The rows, but where new has one.
Written(rows, new) == FoldSet(LAMBDA t, f : [f EXCEPT ![t] = new[t]], rows, DOMAIN new)
\* The document's tasks, one after the other.
Rows(mine, theirs) ==
    Written(mine.row, [t \in Tasks(theirs) |-> RowFor(Copy(mine, t), Copy(theirs, t))])

-----------------------------------------------------------------------------
(* The fold of two rows on one slot *)

\* Two rows on one slot, the lower id first.
Twins(st) ==
    {p \in Tasks(st) \X Tasks(st) :
        /\ p[1] < p[2] /\ st.row[p[1]].parent # None
        /\ p[2] \in Slot(st, st.row[p[1]].parent, st.row[p[1]].due)}
\* The first such pair of the first such slot.
Rank(st, p) ==
    ((st.row[p[1]].parent * MaxTask + st.row[p[1]].due) * MaxTask + p[1]) * MaxTask + p[2]
NextPair(st) == CHOOSE p \in Twins(st) : \A q \in Twins(st) : Rank(st, p) <= Rank(st, q)

\* (mutant) a log is what this store has filed under the task
FiledLog(st, t, seen) == st.log[t]
\* copy_log: that, and what the document has filed under it.
CopyLog(st, t, seen) == st.log[t] \cup seen[t]

\* (mutant) the survivor keeps its own status
SurvivorsStatus(a, b) == a.row
FoldedStatus(a, b) == Winner(a, b, "status")
FoldedRow(a, b) == Counted(a, b, WithStatus(a.row, FoldedStatus(a, b)))

Onto(k, d, t) == IF t = d THEN k ELSE t
\* (mutant) edges move to the survivor, whatever they close
MovedEdges(deps, k, d) ==
    {e \in {<<Onto(k, d, e[1]), Onto(k, d, e[2])>> : e \in deps} : e[1] # e[2]}
\* The survivor's own edges that now close a cycle are dropped (break_cycles).
FoldedEdges(deps, k, d) ==
    LET moved == MovedEdges(deps, k, d)
    IN  {e \in moved : e[1] = k => ~Reaches(moved, e[2], k)}

\* They are the survivor's from now on.
Adopted(k, d, rows) ==
    Written(rows, [t \in {t \in Ids : rows[t].parent = d} |-> [rows[t] EXCEPT !.parent = k]])

\* d is folded into k; seen is what the document has filed under each.
Fold(st, k, d, seen) ==
    LET a == [row |-> st.row[k], log |-> CopyLog(st, k, seen)]
        b == [row |-> st.row[d], log |-> CopyLog(st, d, seen)]
    IN  [row |-> Adopted(k, d, [st.row EXCEPT ![k] = FoldedRow(a, b), ![d] = NoRow]),
         log |-> [st.log EXCEPT ![k] = st.log[k] \cup st.log[d], ![d] = {}],
         deps |-> FoldedEdges(st.deps, k, d)]

FoldOnce(st, seen) ==
    IF Twins(st) = {} THEN st
    ELSE LET p == NextPair(st) IN Fold(st, p[1], p[2], seen)
\* A fold may put two successors on one slot: until there is no pair left. Each
\* takes a row away, so there are no more than ids.
Folded(st, seen) ==
    LET folds[n \in 0 .. MaxTask] == IF n = 0 THEN st ELSE FoldOnce(folds[n - 1], seen)
    IN  folds[MaxTask]

Cyclic(deps) == \E e \in deps : Reaches(deps, e[2], e[1])
Refused(mine, theirs) == Cyclic(mine.deps \cup theirs.deps)
\* What becomes of mine when theirs is imported and not refused.
Imported(mine, theirs) ==
    Folded([row |-> Rows(mine, theirs), log |-> Events(mine, theirs),
            deps |-> mine.deps \cup theirs.deps], theirs.log)

Export(s) ==
    /\ doc # store[s]
    /\ doc' = store[s]
    /\ UNCHANGED <<now, scene, store, last>>

Merge(s) ==
    /\ doc # Empty /\ ~Refused(store[s], doc)
    /\ store' = [store EXCEPT ![s] = Imported(store[s], doc)]
    /\ last' = [last EXCEPT ![s] = NoDone]
    /\ UNCHANGED <<now, scene, doc>>

Next ==
    \E s \in Stores :
        \/ UserEdit(s, store[s]) \/ Export(s) \/ Merge(s)

Spec == Init /\ [][Next]_vars

-----------------------------------------------------------------------------
(* Properties *)

Has(st, op) == \E e \in Known(st) : e.op = op

\* What reads tell of a store, and the history it has seen.
Seen(st) == [row |-> st.row, deps |-> st.deps, events |-> Known(st)]
\* Each machine as the importer of the other. Where a due is moved the fold of one
\* slot can hide from another store's what was logged on a copy: not there.
Apart ==
    {p \in Stores \X Stores :
        /\ p[1] # p[2] /\ ~Refused(store[p[1]], store[p[2]])
        /\ \A s \in Stores : ~Has(store[s], "modify")}
\* Whichever of two stores imports the other, and however often they have done
\* so before, both end with the same rows, edges and history (D191).
EitherWayOneStore ==
    \A x, y \in {Seen(Imported(store[p[1]], store[p[2]])) : p \in Apart} : x = y

\* Where no due is moved, a slot holds one row, and the occurrence after a
\* completed one is there: never two copies of one piece of work, and the series
\* never ends by a merge (D191).
OneNextOccurrence ==
    \A s \in Stores : LET st == store[s] IN ~Has(st, "modify") =>
        \A t \in Tasks(st) : LET next == Slot(st, t, st.row[t].due + 1)
            IN  /\ \A x, y \in next : x = y
                /\ st.row[t].status = "done" /\ t # Errand => next # {}

\* No task waits for itself, by an import or by a fold.
EdgesStayAcyclic == \A s \in Stores : ~Cyclic(store[s].deps)

\* A store whose events are filed where its rows are: no due has been moved, and
\* no occurrence taken back.
Plain(st) == \A e \in Known(st) : e.op \notin {"modify", "undo"}

\* The row tells what the last of these words in its log says.
Heeds(st, t, words) ==
    LET said == {e \in st.log[t] : e.op \in words}
    IN  said # {} => st.row[t].status =
            CASE Last(said).op = "start" -> "active" [] Last(said).op = "done" -> "done"
              [] OTHER -> "pending"
Calls == {"start", "stop", "done", "reopen"}

\* A row's status is the one its last status event leaves, whichever copy that
\* event was logged on; the add of a copy is one.
LastWordStands ==
    \A s \in Stores : Plain(store[s]) =>
        \A t \in Tasks(store[s]) : Heeds(store[s], t, Calls \cup {"add"})

\* A stop or a completion of either copy is the last word wherever it lands.
LastCallStands ==
    \A s \in Stores : ~Has(store[s], "undo") =>
        \A t \in Tasks(store[s]) : Heeds(store[s], t, Calls)

\* A row holds the time its events count: work on a copy that another store has
\* folded arrives, and none is counted twice.
LogsExplainTotals ==
    \A s \in Stores : Plain(store[s]) =>
        \A t \in Tasks(store[s]) : Beyond(Copy(store[s], t)) = [tracked |-> 0, adj |-> 0]

\* A round trip does not count work twice: a document that is imported again
\* brings no time.
NoTimeTwice ==
    \A s \in Stores : doc # Empty /\ ~Refused(store[s], doc) =>
        LET once == Imported(store[s], doc)  twice == Imported(once, doc)
        IN  \A t \in Ids : twice.row[t].tracked = once.row[t].tracked

=============================================================================
