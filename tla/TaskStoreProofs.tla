-------------------------- MODULE TaskStoreProofs --------------------------
(***************************************************************************)
(* Theorems about TaskStore for every value of its constants: the types of *)
(* its tables; the rev protects all of a row and its edges; an occurrence  *)
(* is spawned once; no task waits for itself; whose clocks run under which *)
(* claims, how many run for one holder, which ones a start stops; that no  *)
(* second of work is lost; and, of TaskStoreHistory, what the calls answer *)
(* and take back: "unblocked" and "blocked" name what the call changed, a  *)
(* proposal waits for its approval whatever is closed, reopened and undone *)
(* and an undo brings back the tables as they were.                        *)
(***************************************************************************)
EXTENDS TaskStoreHistory, FiniteSetTheorems, TLAPS

\* A clock reading kept anywhere lies in the past, so no interval is negative.
PastReadings ==
    /\ \A t \in TaskIds : row[t].since <= now
    /\ newest.started <= now
    /\ newest.op = "stop" => newest.secs <= newest.at /\ newest.at <= now

TypeInv == TypeOK /\ PastReadings

-----------------------------------------------------------------------------
(* Writing one column of a row or one field of an event keeps its type. *)

LEMMA RowWrites ==
    ASSUME NEW r \in Row
    PROVE  /\ \A v \in Stored : [r EXCEPT !.status = v] \in Row
           /\ \A v \in Int : [r EXCEPT !.wait = v] \in Row
           /\ \A v \in Int : [r EXCEPT !.due = v] \in Row
           /\ \A v \in Nat : [r EXCEPT !.rule = v] \in Row
           /\ \A v \in Nat : [r EXCEPT !.since = v] \in Row
           /\ \A v \in Nat : [r EXCEPT !.tracked = v] \in Row
           /\ \A v \in Int : [r EXCEPT !.adj = v] \in Row
           /\ \A v \in CheckStates : [r EXCEPT !.check = v] \in Row
           /\ \A v \in Holders \cup {NoOne} : [r EXCEPT !.by = v] \in Row
           /\ \A v \in Nat : [r EXCEPT !.until = v] \in Row
           /\ \A v \in TaskIds \cup {NoTask} : [r EXCEPT !.from = v] \in Row
           /\ \A v \in Nat : [r EXCEPT !.rev = v] \in Row
BY DEF Row

LEMMA EventWrites ==
    ASSUME NEW e \in Events
    PROVE  /\ \A v \in Nat : [e EXCEPT !.at = v] \in Events
           /\ \A v \in Nat : [e EXCEPT !.secs = v] \in Events
           /\ \A v \in Stored : [e EXCEPT !.from = v] \in Events
           /\ \A v \in Nat : [e EXCEPT !.started = v] \in Events
           /\ \A v \in Holders \cup {NoOne} : [e EXCEPT !.by = v] \in Events
           /\ \A v \in Nat : [e EXCEPT !.until = v] \in Events
           /\ \A v \in CheckStates : [e EXCEPT !.check = v] \in Events
           /\ \A v \in SUBSET {"wait", "tracked", "adj", "since", "status"} :
                [e EXCEPT !.cols = v] \in Events
           /\ \A v \in Int : [e EXCEPT !.wait = v] \in Events
           /\ \A v \in Nat : [e EXCEPT !.tracked = v] \in Events
           /\ \A v \in Int : [e EXCEPT !.adj = v] \in Events
           /\ \A v \in Int : [e EXCEPT !.delta = v] \in Events
           /\ \A v \in TaskIds \cup {NoTask} : [e EXCEPT !.dep = v] \in Events
           /\ \A v \in TaskIds \cup {NoTask} : [e EXCEPT !.spawn = v] \in Events
           /\ \A v \in BOOLEAN : [e EXCEPT !.measured = v] \in Events
BY DEF Events

LEMMA ColumnTypes ==
    ASSUME TypeInv, NEW t \in TaskIds
    PROVE  /\ row[t] \in Row
           /\ row[t].status \in Stored /\ row[t].check \in CheckStates
           /\ row[t].wait \in Int /\ row[t].due \in Int /\ row[t].rule \in Nat
           /\ row[t].since \in Nat /\ row[t].tracked \in Nat /\ row[t].adj \in Int
           /\ row[t].by \in Holders \cup {NoOne} /\ row[t].until \in Nat
           /\ row[t].from \in TaskIds \cup {NoTask} /\ row[t].rev \in Nat
BY DEF TypeInv, TypeOK, Row

LEMMA NewestFields ==
    ASSUME TypeInv
    PROVE  /\ newest.at \in Nat /\ newest.secs \in Nat /\ newest.from \in Stored
           /\ newest.started \in Nat /\ newest.by \in Holders \cup {NoOne}
           /\ newest.until \in Nat /\ newest.check \in CheckStates
           /\ newest.cols \in SUBSET {"wait", "tracked", "adj", "since", "status"}
           /\ newest.wait \in Int /\ newest.tracked \in Nat /\ newest.adj \in Int
           /\ newest.delta \in Int
           /\ newest.dep \in TaskIds \cup {NoTask} /\ newest.spawn \in TaskIds \cup {NoTask}
BY DEF TypeInv, TypeOK, Events

LEMMA Literals ==
    /\ "unborn" \in Stored /\ "removed" \in Stored /\ "triage" \in Stored
    /\ "pending" \in Stored /\ "active" \in Stored /\ "done" \in Stored
    /\ "cancelled" \in Stored
    /\ "none" \in CheckStates /\ "open" \in CheckStates /\ "passed" \in CheckStates
    /\ NoOne \in Holders \cup {NoOne} /\ NoTask \in TaskIds \cup {NoTask}
    /\ 0 \in Nat /\ 0 \in Int /\ 1 \in Nat
BY DEF Stored, CheckStates

LEMMA EventType ==
    ASSUME NEW op \in Ops, NEW t \in TaskIds \cup {NoTask}
    PROVE  Event(op, t) \in Events
BY DEF Event, Events, Stored, CheckStates

LEMMA ElapsedType ==
    ASSUME TypeInv, NEW t \in TaskIds
    PROVE  Elapsed(t) \in Nat /\ Elapsed(t) <= now
BY DEF TypeInv, TypeOK, PastReadings, Elapsed, Row

-----------------------------------------------------------------------------
(* The rows and events the operations write. *)

LEMMA BumpedType ==
    ASSUME TypeInv, NEW t \in TaskIds
    PROVE  Bumped(t) \in Row /\ Bumped(t).since <= now
<1>1. row[t].rev + 1 \in Nat
  BY ColumnTypes
<1>2. Bumped(t) \in Row
  BY <1>1, ColumnTypes, RowWrites, Zenon DEF Bumped
<1>3. Bumped(t).since = row[t].since
  BY ColumnTypes DEF Bumped, Row
<1>4. QED
  BY <1>2, <1>3 DEF TypeInv, PastReadings

LEMMA StoppedRowType ==
    ASSUME TypeInv, NEW t \in TaskIds
    PROVE  StoppedRow(t) \in Row /\ StoppedRow(t).since = 0
<1>1. row[t].rev + 1 \in Nat /\ row[t].tracked + Elapsed(t) \in Nat
  BY ColumnTypes, ElapsedType
<1>2. "pending" \in Stored /\ 0 \in Nat
  BY Literals
<1>3. StoppedRow(t) \in Row
  BY <1>1, <1>2, ColumnTypes, RowWrites, Zenon DEF StoppedRow
<1>4. StoppedRow(t).since = 0
  BY ColumnTypes DEF StoppedRow, Row
<1>5. QED
  BY <1>3, <1>4

LEMMA ClosedRowType ==
    ASSUME TypeInv, NEW t \in TaskIds, NEW status \in Stored
    PROVE  ClosedRow(t, status) \in Row /\ ClosedRow(t, status).since = 0
<1>1. ClosedRow(t, status) \in Row
  BY StoppedRowType, Literals, RowWrites, Zenon DEF ClosedRow
<1>2. ClosedRow(t, status).since = 0
  BY StoppedRowType DEF ClosedRow, Row
<1>3. QED
  BY <1>1, <1>2

LEMMA ClosingEventType ==
    ASSUME TypeInv, NEW op \in Ops, NEW t \in TaskIds
    PROVE  ClosingEvent(op, t) \in Events
           /\ ClosingEvent(op, t).started <= now /\ ClosingEvent(op, t).op = op
<1>1. Event(op, t) \in Events
  BY EventType
<1>2. ClosingEvent(op, t) \in Events
  BY <1>1, ElapsedType, ColumnTypes, EventWrites, Zenon DEF ClosingEvent
<1>3. ClosingEvent(op, t).started = row[t].since /\ ClosingEvent(op, t).op = op
  BY ColumnTypes DEF ClosingEvent, Event
<1>4. QED
  BY <1>2, <1>3 DEF TypeInv, PastReadings

LEMMA ChangedType ==
    ASSUME TypeInv, NEW t \in TaskIds, NEW set \in SUBSET Columns,
           NEW wait \in Waits, NEW total \in Totals
    PROVE  Changed(t, set, wait, total) \in Row
           /\ Changed(t, set, wait, total).since = row[t].since
<1>1. (IF "wait" \in set THEN wait ELSE row[t].wait) \in Int
      /\ (IF "tracked" \in set THEN total ELSE row[t].tracked) \in Nat
      /\ (IF "tracked" \in set THEN 0 ELSE row[t].adj) \in Int
      /\ row[t].rev + 1 \in Nat
  BY ColumnTypes, NumbersAssumption
<1>2. Changed(t, set, wait, total) \in Row
  BY <1>1, ColumnTypes, RowWrites, Zenon DEF Changed
<1>3. Changed(t, set, wait, total).since = row[t].since
  BY ColumnTypes DEF Changed, Row
<1>4. QED
  BY <1>2, <1>3

LEMMA ModifiedRowType ==
    ASSUME TypeInv, NEW t \in TaskIds, NEW set \in SUBSET Columns,
           NEW wait \in Waits, NEW total \in Totals
    PROVE  ModifiedRow(t, set, wait, total) \in Row
           /\ ModifiedRow(t, set, wait, total).since <= now
<1> DEFINE base == Changed(t, set, wait, total)
           row1 == [base EXCEPT !.status = "cancelled", !.since = 0, !.by = NoOne, !.until = 0,
                                !.tracked = base.tracked + Elapsed(t)]
<1>1. base \in Row /\ base.since <= now
  BY ChangedType DEF TypeInv, PastReadings
<1> HIDE DEF base
<1>2. base.tracked + Elapsed(t) \in Nat
  BY <1>1, ElapsedType DEF Row
<1>3. row1 \in Row
  BY <1>1, <1>2, Literals, RowWrites, Zenon
<1>4. row1.since = 0
  BY <1>1 DEF Row
<1>5. CASE "status" \in set
  <2>1. ModifiedRow(t, set, wait, total) = row1
    BY <1>5 DEF ModifiedRow, base
  <2>2. QED
    BY <2>1, <1>3, <1>4 DEF TypeInv, TypeOK
<1>6. CASE "status" \notin set
  <2>1. ModifiedRow(t, set, wait, total) = base
    BY <1>6 DEF ModifiedRow, base
  <2>2. QED
    BY <2>1, <1>1
<1>7. QED
  BY <1>5, <1>6

LEMMA ModifyEventType ==
    ASSUME TypeInv, NEW t \in TaskIds, NEW set \in SUBSET Columns
    PROVE  ModifyEvent(t, set) \in Events
           /\ ModifyEvent(t, set).started <= now /\ ModifyEvent(t, set).op = "modify"
<1> DEFINE w == Written(t, set)
           wait == IF "wait" \in w THEN row[t].wait ELSE 0
           tracked == IF "tracked" \in w THEN row[t].tracked ELSE 0
           adj == IF "adj" \in w THEN row[t].adj ELSE 0
           since == IF "since" \in w THEN row[t].since ELSE 0
           from == IF "status" \in set THEN row[t].status ELSE "unborn"
           by == IF "status" \in set THEN row[t].by ELSE NoOne
           until == IF "status" \in set THEN row[t].until ELSE 0
           e1 == [Event("modify", t) EXCEPT !.cols = w, !.wait = wait, !.tracked = tracked,
                                            !.adj = adj]
           e2 == [e1 EXCEPT !.started = since, !.from = from, !.by = by, !.until = until]
<1>1. w \in SUBSET {"wait", "tracked", "adj", "since", "status"}
  BY CallsAssumption DEF Written
<1>2. /\ wait \in Int /\ tracked \in Nat /\ adj \in Int /\ since \in Nat
      /\ from \in Stored /\ by \in Holders \cup {NoOne} /\ until \in Nat
  BY ColumnTypes, Literals
<1>3. since <= now
  BY DEF TypeInv, TypeOK, PastReadings
<1>4. ModifyEvent(t, set) = e2
  BY DEF ModifyEvent
<1> HIDE DEF w, wait, tracked, adj, since, from, by, until
<1>5. Event("modify", t) \in Events /\ Event("modify", t).op = "modify"
  <2>1. "modify" \in Ops
    BY DEF Ops
  <2>2. QED
    BY <2>1, EventType DEF Event
<1>6. e1 \in Events
  BY <1>1, <1>2, <1>5, EventWrites, Zenon
<1>7. e1.op = "modify"
  BY <1>5 DEF Events
<1> HIDE DEF e1
<1>8. e2 \in Events
  BY <1>2, <1>6, EventWrites, Zenon
<1>9. e2.op = "modify" /\ e2.started = since
  BY <1>6, <1>7 DEF Events
<1>10. QED
  BY <1>3, <1>4, <1>8, <1>9

LEMMA PutBackType ==
    ASSUME TypeInv, NEW t \in TaskIds, MayPutBack(t)
    PROVE  PutBack(t) \in Row /\ PutBack(t).since <= now
<1>1. CASE newest.from = "active"
  <2>1. row[t].tracked - newest.secs \in Nat
    BY <1>1, ColumnTypes, NewestFields DEF MayPutBack
  <2> DEFINE tracked == row[t].tracked - newest.secs
             back == [row[t] EXCEPT !.status = "active", !.since = newest.started,
                                    !.tracked = tracked]
  <2>2. PutBack(t) = back
    BY <1>1 DEF PutBack
  <2>3. PutBack(t) \in Row
    <3>1. row[t] \in Row /\ newest.started \in Nat /\ "active" \in Stored /\ tracked \in Nat
      BY <2>1, ColumnTypes, NewestFields, Literals
    <3> HIDE DEF tracked
    <3>2. back \in Row
      BY <3>1, RowWrites, Zenon
    <3>3. QED
      BY <2>2, <3>2
  <2>4. PutBack(t).since = newest.started
    BY <2>2, ColumnTypes DEF Row
  <2>5. QED
    BY <2>3, <2>4 DEF TypeInv, PastReadings
<1>2. CASE newest.from # "active"
  <2>1. PutBack(t) = [row[t] EXCEPT !.status = newest.from]
    BY <1>2 DEF PutBack
  <2>2. PutBack(t) \in Row
    <3>1. row[t] \in Row /\ newest.from \in Stored
      BY ColumnTypes, NewestFields
    <3>2. QED
      BY <2>1, <3>1, RowWrites, Zenon
  <2>3. PutBack(t).since = row[t].since
    BY <2>1, ColumnTypes DEF Row
  <2>4. QED
    BY <2>2, <2>3 DEF TypeInv, PastReadings
<1>3. QED
  BY <1>1, <1>2

LEMMA ReclaimedType ==
    ASSUME TypeInv, NEW r \in Row
    PROVE  Reclaimed(r) \in Row /\ Reclaimed(r).since = r.since
<1>1. [r EXCEPT !.by = newest.by, !.until = newest.until] \in Row
  BY NewestFields, RowWrites, Zenon
<1>2. [r EXCEPT !.by = newest.by, !.until = newest.until].since = r.since
  BY DEF Row
<1>3. QED
  BY <1>1, <1>2 DEF Reclaimed

LEMMA RowBeforeType ==
    ASSUME TypeInv, NEW t \in TaskIds
    PROVE  RowBefore(t) \in Row /\ RowBefore(t).since <= now
<1> DEFINE c == newest.cols
           wait == IF "wait" \in c THEN newest.wait ELSE row[t].wait
           tracked == IF "tracked" \in c THEN newest.tracked ELSE row[t].tracked
           adj == IF "adj" \in c THEN newest.adj ELSE row[t].adj
           since == IF "since" \in c THEN newest.started ELSE row[t].since
           status == IF "status" \in c THEN newest.from ELSE row[t].status
           back == [row[t] EXCEPT !.wait = wait, !.tracked = tracked, !.adj = adj,
                                  !.since = since, !.status = status]
<1>1. /\ wait \in Int /\ tracked \in Nat /\ adj \in Int /\ since \in Nat
      /\ status \in Stored
  BY ColumnTypes, NewestFields
<1>2. since <= now
  BY DEF TypeInv, PastReadings
<1>3. RowBefore(t) = back
  BY DEF RowBefore
<1>4. row[t] \in Row
  BY ColumnTypes
<1> HIDE DEF wait, tracked, adj, since, status
<1>5. back \in Row
  BY <1>1, <1>4, RowWrites, Zenon
<1>6. back.since = since
  BY <1>4 DEF Row
<1>7. QED
  BY <1>2, <1>3, <1>5, <1>6

LEMMA FreshType ==
    ASSUME NEW status \in Stored, NEW wait \in Int, NEW due \in Int, NEW rule \in Nat,
           NEW check \in CheckStates, NEW from \in TaskIds \cup {NoTask}, NEW rev \in Nat
    PROVE  Fresh(status, wait, due, rule, check, from, rev) \in Row
           /\ Fresh(status, wait, due, rule, check, from, rev).since = 0
BY DEF Fresh, Row

LEMMA RemovedSpawnType ==
    ASSUME NEW s
    PROVE  RemovedSpawn(s) \in Row /\ RemovedSpawn(s).since = 0
BY FreshType, Literals DEF RemovedSpawn

LEMMA NextDueType ==
    ASSUME TypeInv, NEW t \in TaskIds, row[t].rule # 0
    PROVE  NextDue(t) \in Int
<1>1. now - row[t].due \in Int /\ row[t].rule \in Nat \ {0}
  BY ColumnTypes DEF TypeInv, TypeOK
<1>2. \A i \in Int, j \in Nat \ {0} : i \div j \in Int
  OBVIOUS
<1>3. (now - row[t].due) \div row[t].rule \in Int
  BY <1>1, <1>2
<1>4. \A i \in Int, j \in Nat : j * i \in Int
  OBVIOUS
<1>5. (IF now < row[t].due THEN 1 ELSE (now - row[t].due) \div row[t].rule + 1) \in Int
  BY <1>3
<1>6. row[t].rule *
        (IF now < row[t].due THEN 1 ELSE (now - row[t].due) \div row[t].rule + 1) \in Int
  BY <1>1, <1>4, <1>5
<1>7. QED
  BY <1>6, ColumnTypes DEF NextDue

LEMMA SpawnedRowType ==
    ASSUME TypeInv, NEW t \in TaskIds, Spawns(t)
    PROVE  SpawnedRow(t) \in Row /\ SpawnedRow(t).since = 0
<1> DEFINE wait == IF row[t].wait = 0 THEN 0 ELSE row[t].wait + (NextDue(t) - row[t].due)
           check == IF row[t].check = "none" THEN "none" ELSE "open"
           due == NextDue(t)
           rule == row[t].rule
<1>1. due \in Int
  BY NextDueType DEF Spawns
<1>2. wait \in Int /\ check \in CheckStates /\ rule \in Nat
  BY <1>1, ColumnTypes, Literals
<1>3. SpawnedRow(t) = Fresh("pending", wait, due, rule, check, t, 1)
  BY DEF SpawnedRow
<1> HIDE DEF wait, check, due, rule
<1>4. "pending" \in Stored /\ t \in TaskIds \cup {NoTask} /\ 1 \in Nat
  BY Literals
<1>5. QED
  BY <1>1, <1>2, <1>3, <1>4, FreshType
-----------------------------------------------------------------------------
(* Every operation keeps the types. *)

LEMMA InitType == Init => TypeInv
<1> SUFFICES ASSUME Init PROVE TypeInv
  OBVIOUS
<1>1. NoRow \in Row /\ NoRow.since = 0
  BY FreshType, Literals DEF NoRow
<1>2. newest \in Events /\ newest.started = 0 /\ newest.op = "none"
  BY EventType DEF Init, Event, Ops
<1>3. held \in [Clients -> [t : TaskIds \cup {NoTask}, row : Row, deps : SUBSET TaskIds]]
  BY <1>1 DEF Init
<1>4. QED
  BY <1>1, <1>2, <1>3 DEF Init, TypeInv, TypeOK, PastReadings, NoStart

\* One row changes to r, and an event that records no interval is written.
LEMMA WriteType ==
    ASSUME TypeInv, NEW t \in TaskIds, NEW r \in Row, r.since <= now,
           row' = [row EXCEPT ![t] = r],
           newest' \in Events, newest'.started <= now, newest'.op # "stop",
           UNCHANGED <<now, held, start>>, deps' \subseteq TaskIds \X TaskIds,
           leftTriage' \in [TaskIds -> BOOLEAN]
    PROVE  TypeInv'
BY DEF TypeInv, TypeOK, PastReadings

\* The events that record nothing undo reads.
LEMMA PlainEvent ==
    ASSUME TypeInv, NEW op \in Ops, NEW t \in TaskIds, op # "stop"
    PROVE  Event(op, t) \in Events /\ Event(op, t).started <= now /\ Event(op, t).op # "stop"
BY EventType DEF Event, TypeInv, TypeOK

LEMMA AddType ==
    ASSUME TypeInv, NEW t \in TaskIds, NEW status \in Births, NEW wait \in Waits,
           NEW due \in Dues, NEW rule \in Periods \cup {0}, NEW checked \in BOOLEAN,
           NEW needs \in SUBSET TaskIds, Cardinality(needs) \in Nat,
           Add(t, status, wait, due, rule, checked, needs)
    PROVE  TypeInv'
<1> DEFINE check == IF checked THEN "open" ELSE "none"
           rev == 1 + Cardinality(needs) + (IF checked THEN 1 ELSE 0)
           r == Fresh(status, wait, due, rule, check, NoTask, rev)
<1>1. /\ status \in Stored /\ wait \in Int /\ due \in Int /\ rule \in Nat
      /\ check \in CheckStates /\ rev \in Nat /\ NoTask \in TaskIds \cup {NoTask}
  BY CallsAssumption, NumbersAssumption, Literals
<1>2. row' = [row EXCEPT ![t] = r]
  BY DEF Add
<1> HIDE DEF check, rev
<1>3. r \in Row /\ r.since = 0
  BY <1>1, FreshType
<1>4. newest' \in Events /\ newest'.started <= now /\ newest'.op # "stop"
  BY PlainEvent DEF Add, Ops
<1>5. deps' \subseteq TaskIds \X TaskIds
  BY DEF Add, TypeInv, TypeOK
<1>6. UNCHANGED <<now, held, start>> /\ leftTriage' \in [TaskIds -> BOOLEAN] /\ 0 <= now
  BY DEF Add, TypeInv, TypeOK
<1> HIDE DEF r
<1>7. QED
  BY <1>2, <1>3, <1>4, <1>5, <1>6, WriteType

LEMMA StartType ==
    ASSUME TypeInv, NEW t \in TaskIds, NEW keep,
           NEW call \in [holder : Holders \cup {NoOne}, actor : Holders \cup {NoOne}],
           Start(t, call, keep)
    PROVE  TypeInv'
<1> DEFINE starter == Identity(call)
           until == IF LiveClaim(t) /\ now + DefaultLease > row[t].until
                    THEN now + DefaultLease ELSE row[t].until
           stopped == IF keep THEN {} ELSE AutoStopped(starter)
           r == [row[t] EXCEPT !.status = "active", !.since = now,
                               !.until = until, !.rev = row[t].rev + 1]
<1>1. /\ now \in Nat /\ until \in Nat /\ row[t].rev + 1 \in Nat
      /\ row[t] \in Row /\ "active" \in Stored
  BY ColumnTypes, NumbersAssumption, Literals DEF TypeInv, TypeOK
<1>2. row' = [a \in TaskIds |-> IF a = t THEN r
                                ELSE IF a \in stopped THEN StoppedRow(a) ELSE row[a]]
  BY DEF Start
<1> HIDE DEF until
<1>3. r \in Row
  BY <1>1, RowWrites, Zenon
<1>4. r.since = now
  BY <1>1 DEF Row
<1> HIDE DEF r, stopped
<1>5. row' \in [TaskIds -> Row] /\ \A a \in TaskIds : row'[a].since <= now
  BY <1>1, <1>2, <1>3, <1>4, StoppedRowType, ColumnTypes DEF TypeInv, PastReadings
<1>6. starter \in Holders
  BY IdsAssumption DEF Identity
<1>7. start' \in [TaskIds -> [holder : Holders \cup {NoOne}, actor : Holders \cup {NoOne}]]
  <2> HIDE DEF starter
  <2>1. start' = [start EXCEPT ![t] = [holder |-> IF starter # User THEN starter ELSE NoOne,
                                       actor |-> call.actor]]
    BY DEF Start, starter
  <2>2. QED
    BY <2>1, <1>6 DEF TypeInv, TypeOK
<1>8. newest' \in Events /\ newest'.started <= now /\ newest'.op # "stop"
  BY PlainEvent DEF Start, Ops
<1>9. QED
  BY <1>5, <1>7, <1>8 DEF Start, TypeInv, TypeOK, PastReadings

LEMMA StopType ==
    ASSUME TypeInv, NEW t \in TaskIds, NEW who, NEW force, Stop(t, who, force)
    PROVE  TypeInv'
<1>1. row' \in [TaskIds -> Row] /\ \A x \in TaskIds : row'[x].since <= now
  BY StoppedRowType DEF Stop, TypeInv, TypeOK, PastReadings
<1>2. Event("stop", t) \in Events
  BY EventType DEF Ops
<1>3. newest' \in Events
  <2>1. now \in Nat /\ Elapsed(t) \in Nat
    BY ElapsedType DEF TypeInv, TypeOK
  <2>2. QED
    BY <1>2, <2>1, EventWrites, Zenon DEF Stop
<1>4. newest'.started = 0 /\ newest'.secs = Elapsed(t) /\ newest'.at = now
  BY <1>2 DEF Stop, Event
<1>5. QED
  BY <1>1, <1>3, <1>4, ElapsedType DEF Stop, TypeInv, TypeOK, PastReadings

LEMMA ClaimType ==
    ASSUME TypeInv, NEW t \in TaskIds, NEW who \in Holders, NEW lease \in Leases,
           Claim(t, who, lease)
    PROVE  TypeInv'
<1> DEFINE r == [Bumped(t) EXCEPT !.by = who, !.until = now + lease]
<1>1. now + lease \in Nat /\ who \in Holders \cup {NoOne}
  BY NumbersAssumption DEF TypeInv, TypeOK
<1>2. Bumped(t) \in Row /\ Bumped(t).since <= now
  BY BumpedType
<1>3. r \in Row
  BY <1>1, <1>2, RowWrites, Zenon
<1>4. r.since = Bumped(t).since
  BY <1>2 DEF Row
<1>5. newest' \in Events /\ newest'.started <= now /\ newest'.op # "stop"
  BY PlainEvent DEF Claim, Ops
<1>6. row' = [row EXCEPT ![t] = r]
  BY DEF Claim
<1> HIDE DEF r
<1>7. QED
  BY <1>2, <1>3, <1>4, <1>5, <1>6, WriteType DEF Claim, TypeInv, TypeOK

LEMMA ReleaseType ==
    ASSUME TypeInv, NEW t \in TaskIds, NEW who, NEW force, Release(t, who, force)
    PROVE  TypeInv'
<1> DEFINE r == [Bumped(t) EXCEPT !.by = NoOne, !.until = 0]
<1>1. Bumped(t) \in Row /\ Bumped(t).since <= now
  BY BumpedType
<1>2. r \in Row
  BY <1>1, Literals, RowWrites, Zenon
<1>3. r.since = Bumped(t).since
  BY <1>1 DEF Row
<1>4. newest' \in Events /\ newest'.started <= now /\ newest'.op # "stop"
  BY PlainEvent DEF Release, Ops
<1>5. row' = [row EXCEPT ![t] = r]
  BY DEF Release
<1> HIDE DEF r
<1>6. QED
  BY <1>1, <1>2, <1>3, <1>4, <1>5, WriteType DEF Release, TypeInv, TypeOK

LEMMA AdjustType ==
    ASSUME TypeInv, NEW t \in TaskIds, NEW delta \in Deltas, Adjust(t, delta)
    PROVE  TypeInv'
<1> DEFINE tracked == row[t].tracked + delta
           adj == row[t].adj + delta
           r == [Bumped(t) EXCEPT !.tracked = tracked, !.adj = adj]
<1>1. tracked \in Nat /\ adj \in Int /\ delta \in Int
  BY ColumnTypes, NumbersAssumption DEF Adjust, MayAdjust
<1>2. row' = [row EXCEPT ![t] = r]
  BY DEF Adjust
<1>3. Bumped(t) \in Row /\ Bumped(t).since <= now
  BY BumpedType
<1> HIDE DEF tracked, adj
<1>4. r \in Row
  BY <1>1, <1>3, RowWrites, Zenon
<1>5. r.since = Bumped(t).since
  BY <1>3 DEF Row
<1>6. Event("adjust_tracked", t) \in Events
  BY EventType DEF Ops
<1>7. newest' \in Events
  BY <1>1, <1>6, EventWrites, Zenon DEF Adjust
<1>8. newest'.started = 0 /\ newest'.op = "adjust_tracked"
  BY <1>6 DEF Adjust, Event
<1>9. /\ UNCHANGED <<now, held, start>> /\ leftTriage' \in [TaskIds -> BOOLEAN] /\ 0 <= now
      /\ deps' \subseteq TaskIds \X TaskIds
  BY DEF Adjust, TypeInv, TypeOK
<1> HIDE DEF r
<1>10. QED
  BY <1>2, <1>3, <1>4, <1>5, <1>7, <1>8, <1>9, WriteType

LEMMA CompleteType ==
    ASSUME TypeInv, NEW t \in TaskIds, NEW who, NEW forceClaim, NEW pass \in BOOLEAN,
           NEW measured \in BOOLEAN, NEW s \in TaskIds \cup {NoTask},
           Complete(t, who, forceClaim, pass, measured, s)
    PROVE  TypeInv'
<1> DEFINE check == IF pass THEN "passed" ELSE row[t].check
           r == [ClosedRow(t, "done") EXCEPT !.check = check]
<1>1. check \in CheckStates /\ "done" \in Stored /\ row[t].check \in CheckStates
  BY ColumnTypes, Literals
<1>2. row' = [x \in TaskIds |-> IF x = t THEN r ELSE IF x = s THEN SpawnedRow(t) ELSE row[x]]
  BY DEF Complete
<1>3. ClosedRow(t, "done") \in Row /\ ClosedRow(t, "done").since = 0
  BY <1>1, ClosedRowType
<1> HIDE DEF check
<1>4. r \in Row
  BY <1>1, <1>3, RowWrites, Zenon
<1>5. r.since = 0
  BY <1>3 DEF Row
<1> HIDE DEF r
<1>6. s \in TaskIds => Spawns(t)
  BY IdsAssumption DEF Complete
<1>7. row' \in [TaskIds -> Row] /\ \A x \in TaskIds : row'[x].since <= now
  BY <1>2, <1>4, <1>5, <1>6, SpawnedRowType, ColumnTypes DEF TypeInv, TypeOK, PastReadings
<1>8. "done" \in Ops
  BY DEF Ops
<1>9. newest' \in Events
  <2>1. ClosingEvent("done", t) \in Events
    BY <1>8, ClosingEventType
  <2>2. QED
    BY <1>1, <2>1, EventWrites, Zenon DEF Complete
<1>10. newest'.started <= now /\ newest'.op # "stop"
  BY <1>8, ClosingEventType DEF Complete, Events
<1>11. UNCHANGED <<now, start, leftTriage, deps, held>>
  BY DEF Complete
<1>12. QED
  BY <1>7, <1>9, <1>10, <1>11 DEF TypeInv, TypeOK, PastReadings

LEMMA CancelType ==
    ASSUME TypeInv, NEW t \in TaskIds, NEW who, NEW forceClaim, Cancel(t, who, forceClaim)
    PROVE  TypeInv'
<1>1. "cancelled" \in Stored /\ "cancel" \in Ops
  BY Literals DEF Ops
<1>2. ClosedRow(t, "cancelled") \in Row /\ ClosedRow(t, "cancelled").since = 0
  BY <1>1, ClosedRowType
<1>3. newest' \in Events /\ newest'.started <= now /\ newest'.op # "stop"
  BY <1>1, ClosingEventType DEF Cancel
<1>4. /\ UNCHANGED <<now, held, start>> /\ leftTriage' \in [TaskIds -> BOOLEAN] /\ 0 <= now
      /\ deps' \subseteq TaskIds \X TaskIds
  BY DEF Cancel, TypeInv, TypeOK
<1>5. row' = [row EXCEPT ![t] = ClosedRow(t, "cancelled")]
  BY DEF Cancel
<1>6. QED
  BY <1>2, <1>3, <1>4, <1>5, WriteType

LEMMA ModifyType ==
    ASSUME TypeInv, NEW t \in TaskIds, NEW set \in SUBSET Columns, NEW wait \in Waits,
           NEW total \in Totals, NEW who, NEW forceClaim,
           Modify(t, set, wait, total, who, forceClaim)
    PROVE  TypeInv'
<1>1. newest' \in Events /\ newest'.started <= now /\ newest'.op # "stop"
  BY ModifyEventType DEF Modify
<1>2. /\ UNCHANGED <<now, held, start>> /\ leftTriage' \in [TaskIds -> BOOLEAN]
      /\ deps' \subseteq TaskIds \X TaskIds
  BY DEF Modify, TypeInv, TypeOK
<1>3. row' = [row EXCEPT ![t] = ModifiedRow(t, set, wait, total)]
  BY DEF Modify
<1>4. QED
  BY <1>1, <1>2, <1>3, ModifiedRowType, WriteType

LEMMA ReopenType ==
    ASSUME TypeInv, NEW t \in TaskIds, Reopen(t)
    PROVE  TypeInv'
<1> DEFINE r == [Bumped(t) EXCEPT !.status = ReopensAs(t)]
<1>1. ReopensAs(t) \in Stored
  BY Literals DEF ReopensAs
<1>2. Bumped(t) \in Row /\ Bumped(t).since <= now
  BY BumpedType
<1>3. r \in Row
  BY <1>1, <1>2, RowWrites, Zenon
<1>4. r.since = Bumped(t).since
  BY <1>2 DEF Row
<1>5. newest' \in Events /\ newest'.started <= now /\ newest'.op # "stop"
  BY PlainEvent DEF Reopen, Ops
<1>6. /\ UNCHANGED <<now, held, start>> /\ leftTriage' \in [TaskIds -> BOOLEAN]
      /\ deps' \subseteq TaskIds \X TaskIds
  BY DEF Reopen, TypeInv, TypeOK
<1>7. row' = [row EXCEPT ![t] = r]
  BY DEF Reopen
<1> HIDE DEF r
<1>8. QED
  BY <1>2, <1>3, <1>4, <1>5, <1>6, <1>7, WriteType

LEMMA AcceptType ==
    ASSUME TypeInv, NEW t \in TaskIds, Accept(t)
    PROVE  TypeInv'
<1> DEFINE r == [Bumped(t) EXCEPT !.status = "pending"]
<1>1. Bumped(t) \in Row /\ Bumped(t).since <= now
  BY BumpedType
<1>2. r \in Row
  BY <1>1, Literals, RowWrites, Zenon
<1>3. r.since = Bumped(t).since
  BY <1>1 DEF Row
<1>4. newest' \in Events /\ newest'.started <= now /\ newest'.op # "stop"
  BY PlainEvent DEF Accept, Ops
<1>5. /\ UNCHANGED <<now, held, start>> /\ leftTriage' \in [TaskIds -> BOOLEAN]
      /\ deps' \subseteq TaskIds \X TaskIds
  BY DEF Accept, TypeInv, TypeOK
<1>6. row' = [row EXCEPT ![t] = r]
  BY DEF Accept
<1> HIDE DEF r
<1>7. QED
  BY <1>1, <1>2, <1>3, <1>4, <1>5, <1>6, WriteType

LEMMA DeclineType ==
    ASSUME TypeInv, NEW t \in TaskIds, NEW who, NEW forceClaim, NEW reason \in BOOLEAN,
           Decline(t, who, forceClaim, reason)
    PROVE  TypeInv'
<1> DEFINE closed == ClosedRow(t, "cancelled")
           rev == row[t].rev + (IF reason THEN 2 ELSE 1)
           r == [closed EXCEPT !.rev = rev]
<1>1. row' = [row EXCEPT ![t] = r]
  BY DEF Decline
<1>2. closed \in Row /\ closed.since = 0 /\ rev \in Nat
  BY ClosedRowType, ColumnTypes, Literals
<1> HIDE DEF closed, rev
<1>3. r \in Row
  BY <1>2, RowWrites, Zenon
<1>4. r.since = 0
  BY <1>2 DEF Row
<1>5. newest' \in Events /\ newest'.started <= now /\ newest'.op # "stop"
  BY ClosingEventType DEF Decline, Ops
<1>6. /\ UNCHANGED <<now, held, start>> /\ leftTriage' \in [TaskIds -> BOOLEAN]
      /\ deps' \subseteq TaskIds \X TaskIds /\ 0 <= now
  BY DEF Decline, TypeInv, TypeOK
<1> HIDE DEF r
<1>7. QED
  BY <1>1, <1>3, <1>4, <1>5, <1>6, WriteType

LEMMA DuplicateType ==
    ASSUME TypeInv, NEW t \in TaskIds, NEW original \in TaskIds, NEW who, NEW forceClaim,
           Duplicate(t, original, who, forceClaim)
    PROVE  TypeInv'
<1>1. ClosedRow(t, "cancelled") \in Row /\ ClosedRow(t, "cancelled").since = 0
  BY ClosedRowType, Literals
<1> DEFINE new(x) == DependentRow(x, x \in Repointed(t, original))
<1>2. ASSUME NEW x \in TaskIds
      PROVE  new(x) \in Row /\ new(x).since <= now
  <2> DEFINE rev == row[x].rev + (IF x \in Repointed(t, original) THEN 2 ELSE 1)
             r == [row[x] EXCEPT !.rev = rev]
  <2>1. rev \in Nat /\ row[x] \in Row
    BY ColumnTypes
  <2>2. new(x) = r
    BY DEF DependentRow
  <2> HIDE DEF rev
  <2>3. r \in Row
    BY <2>1, RowWrites, Zenon
  <2>4. r.since = row[x].since
    BY <2>1 DEF Row
  <2>5. QED
    BY <2>2, <2>3, <2>4 DEF TypeInv, PastReadings
<1>3. row' = [x \in TaskIds |->
                 IF x = t THEN ClosedRow(t, "cancelled")
                 ELSE IF x \in Dependents(t)
                 THEN new(x) ELSE row[x]]
  BY DEF Duplicate
<1> HIDE DEF new
<1>5. row' \in [TaskIds -> Row] /\ \A x \in TaskIds : row'[x].since <= now
  BY <1>1, <1>2, <1>3, ColumnTypes DEF TypeInv, TypeOK, PastReadings
<1>6. newest' \in Events /\ newest'.started <= now /\ newest'.op # "stop"
  BY PlainEvent DEF Duplicate, Ops
<1>7. deps' \subseteq TaskIds \X TaskIds
  BY DEF Duplicate, Repointed, Dependents, TypeInv, TypeOK
<1>8. UNCHANGED <<now, start, held>> /\ leftTriage' \in [TaskIds -> BOOLEAN]
  BY DEF Duplicate, TypeInv, TypeOK
<1>9. QED
  BY <1>5, <1>6, <1>7, <1>8 DEF TypeInv, TypeOK, PastReadings

LEMMA DepAddType ==
    ASSUME TypeInv, NEW t \in TaskIds, NEW d \in TaskIds, DepAdd(t, d)
    PROVE  TypeInv'
<1>1. newest' \in Events /\ newest'.started <= now /\ newest'.op # "stop"
  BY PlainEvent DEF DepAdd, Ops
<1>2. /\ UNCHANGED <<now, held, start>> /\ leftTriage' \in [TaskIds -> BOOLEAN]
      /\ deps' \subseteq TaskIds \X TaskIds /\ row' = [row EXCEPT ![t] = Bumped(t)]
  BY DEF DepAdd, TypeInv, TypeOK
<1>3. QED
  BY <1>1, <1>2, BumpedType, WriteType

LEMMA DepRemoveType ==
    ASSUME TypeInv, NEW t \in TaskIds, NEW d \in TaskIds, DepRemove(t, d)
    PROVE  TypeInv'
<1>1. Event("dependency.remove", t) \in Events
  BY EventType DEF Ops
<1>2. newest' \in Events
  BY <1>1, EventWrites, Zenon DEF DepRemove
<1>3. newest'.started = 0 /\ newest'.op = "dependency.remove"
  BY <1>1 DEF DepRemove, Event
<1>4. /\ UNCHANGED <<now, held, start>> /\ leftTriage' \in [TaskIds -> BOOLEAN]
      /\ deps' \subseteq TaskIds \X TaskIds /\ row' = [row EXCEPT ![t] = Bumped(t)] /\ 0 <= now
  BY DEF DepRemove, TypeInv, TypeOK
<1>5. QED
  BY <1>2, <1>3, <1>4, BumpedType, WriteType

LEMMA SetCheckType ==
    ASSUME TypeInv, NEW t \in TaskIds, NEW check \in CheckStates, SetCheck(t, check)
    PROVE  TypeInv'
<1> DEFINE r == [Bumped(t) EXCEPT !.check = check]
<1>1. Bumped(t) \in Row /\ Bumped(t).since <= now
  BY BumpedType
<1>2. r \in Row
  BY <1>1, RowWrites, Zenon
<1>3. r.since = Bumped(t).since
  BY <1>1 DEF Row
<1>4. newest' \in Events /\ newest'.started <= now /\ newest'.op # "stop"
  BY PlainEvent DEF SetCheck, Ops
<1>5. /\ UNCHANGED <<now, held, start>> /\ leftTriage' \in [TaskIds -> BOOLEAN]
      /\ deps' \subseteq TaskIds \X TaskIds /\ row' = [row EXCEPT ![t] = r]
  BY DEF SetCheck, TypeInv, TypeOK
<1> HIDE DEF r
<1>6. QED
  BY <1>1, <1>2, <1>3, <1>4, <1>5, WriteType

LEMMA RevertedType ==
    ASSUME TypeInv, NEW t \in TaskIds, NEW r \in Row, r.since <= now, Reverted(t, r),
           deps' \subseteq TaskIds \X TaskIds
    PROVE  TypeInv'
<1> DEFINE q == [r EXCEPT !.rev = r.rev + 1]
<1>1. r.rev + 1 \in Nat
  BY DEF Row
<1>2. q \in Row
  BY <1>1, RowWrites, Zenon
<1>3. q.since = r.since
  BY DEF Row
<1>4. newest' \in Events /\ newest'.started <= now /\ newest'.op # "stop"
  BY PlainEvent DEF Reverted, Ops
<1>5. /\ UNCHANGED <<now, held, start>> /\ leftTriage' \in [TaskIds -> BOOLEAN]
      /\ row' = [row EXCEPT ![t] = q]
  BY DEF Reverted, TypeInv, TypeOK
<1> HIDE DEF q
<1>6. QED
  BY <1>2, <1>3, <1>4, <1>5, WriteType

LEMMA RevertStopType ==
    ASSUME TypeInv, NEW t \in TaskIds, RevertStop(t)
    PROVE  TypeInv'
<1> DEFINE since == newest.at - newest.secs
           tracked == row[t].tracked - newest.secs
           r == [row[t] EXCEPT !.status = "active", !.since = since, !.tracked = tracked]
<1>1. since \in Nat /\ since <= now /\ tracked \in Nat /\ row[t] \in Row /\ "active" \in Stored
  BY ColumnTypes, NewestFields, Literals DEF RevertStop, TypeInv, TypeOK, PastReadings
<1>2. Reverted(t, r) /\ deps' \subseteq TaskIds \X TaskIds
  BY DEF RevertStop, TypeInv, TypeOK
<1> HIDE DEF since, tracked
<1>3. r \in Row
  BY <1>1, RowWrites, Zenon
<1>4. r.since = since
  BY <1>1 DEF Row
<1> HIDE DEF r
<1>5. QED
  BY <1>1, <1>2, <1>3, <1>4, RevertedType

LEMMA RevertCancelType ==
    ASSUME TypeInv, NEW t \in TaskIds, RevertCancel(t)
    PROVE  TypeInv'
<1>1. Reverted(t, Reclaimed(PutBack(t))) /\ deps' \subseteq TaskIds \X TaskIds /\ MayPutBack(t)
  BY DEF RevertCancel, TypeInv, TypeOK
<1>2. Reclaimed(PutBack(t)) \in Row /\ Reclaimed(PutBack(t)).since <= now
  BY <1>1, PutBackType, ReclaimedType
<1>3. QED
  BY <1>1, <1>2, RevertedType

LEMMA RevertDoneType ==
    ASSUME TypeInv, NEW t \in TaskIds, RevertDone(t)
    PROVE  TypeInv'
<1> DEFINE base == Reclaimed(PutBack(t))
           back == [base EXCEPT !.check = newest.check, !.rev = row[t].rev + 1]
<1>1. base \in Row /\ base.since <= now
  BY PutBackType, ReclaimedType DEF RevertDone
<1>2. row' = [x \in TaskIds |-> IF x = t THEN back
                 ELSE IF x = newest.spawn THEN RemovedSpawn(newest.spawn) ELSE row[x]]
  BY DEF RevertDone
<1> HIDE DEF base
<1>3. row[t].rev + 1 \in Nat /\ newest.check \in CheckStates
  BY ColumnTypes, NewestFields
<1>4. back \in Row
  BY <1>1, <1>3, RowWrites, Zenon
<1>5. back.since = base.since
  BY <1>1 DEF Row
<1>6. RemovedSpawn(newest.spawn) \in Row /\ RemovedSpawn(newest.spawn).since = 0
  BY RemovedSpawnType
<1> HIDE DEF back
<1>7. row' \in [TaskIds -> Row] /\ \A x \in TaskIds : row'[x].since <= now
  BY <1>1, <1>2, <1>4, <1>5, <1>6, ColumnTypes DEF TypeInv, TypeOK, PastReadings
<1>8. newest' \in Events /\ newest'.started <= now /\ newest'.op # "stop"
  BY PlainEvent DEF RevertDone, Ops
<1>9. UNCHANGED <<now, start, leftTriage, deps, held>>
  BY DEF RevertDone
<1>10. QED
  BY <1>7, <1>8, <1>9 DEF TypeInv, TypeOK, PastReadings

LEMMA RevertModifyType ==
    ASSUME TypeInv, NEW t \in TaskIds, RevertModify(t)
    PROVE  TypeInv'
<1>1. Reverted(t, Reclaimed(RowBefore(t))) /\ deps' \subseteq TaskIds \X TaskIds
  BY DEF RevertModify, TypeInv, TypeOK
<1>2. Reclaimed(RowBefore(t)) \in Row /\ Reclaimed(RowBefore(t)).since <= now
  BY RowBeforeType, ReclaimedType
<1>3. QED
  BY <1>1, <1>2, RevertedType

LEMMA RevertAdjustType ==
    ASSUME TypeInv, NEW t \in TaskIds, RevertAdjust(t)
    PROVE  TypeInv'
<1> DEFINE tracked == row[t].tracked - newest.delta
           adj == row[t].adj - newest.delta
           r == [row[t] EXCEPT !.tracked = tracked, !.adj = adj]
<1>1. tracked \in Nat /\ adj \in Int /\ row[t] \in Row
  BY ColumnTypes, NewestFields DEF RevertAdjust
<1>2. Reverted(t, r) /\ deps' \subseteq TaskIds \X TaskIds
  BY DEF RevertAdjust, TypeInv, TypeOK
<1> HIDE DEF tracked, adj
<1>3. r \in Row
  BY <1>1, RowWrites, Zenon
<1>4. r.since = row[t].since
  BY <1>1 DEF Row
<1> HIDE DEF r
<1>5. QED
  BY <1>2, <1>3, <1>4, RevertedType DEF TypeInv, PastReadings

LEMMA RevertAcceptType ==
    ASSUME TypeInv, NEW t \in TaskIds, RevertAccept(t)
    PROVE  TypeInv'
<1> DEFINE r == [row[t] EXCEPT !.status = "triage"]
<1>1. r \in Row
  BY ColumnTypes, Literals, RowWrites, Zenon
<1>2. r.since = row[t].since
  BY ColumnTypes DEF Row
<1>3. Reverted(t, r) /\ deps' \subseteq TaskIds \X TaskIds
  BY DEF RevertAccept, TypeInv, TypeOK
<1> HIDE DEF r
<1>4. QED
  BY <1>1, <1>2, <1>3, RevertedType DEF TypeInv, PastReadings

LEMMA RevertDepRemoveType ==
    ASSUME TypeInv, NEW t \in TaskIds, RevertDepRemove(t)
    PROVE  TypeInv'
<1>1. newest.dep \in TaskIds
  <2>1. newest.dep \in TaskIds \cup {NoTask}
    BY NewestFields
  <2>2. QED
    BY <2>1 DEF RevertDepRemove
<1>2. Reverted(t, row[t]) /\ deps' \subseteq TaskIds \X TaskIds
  BY <1>1 DEF RevertDepRemove, TypeInv, TypeOK
<1>3. row[t] \in Row /\ row[t].since <= now
  BY ColumnTypes DEF TypeInv, PastReadings
<1>4. QED
  BY <1>2, <1>3, RevertedType

-----------------------------------------------------------------------------
LEMMA EdgesType ==
    ASSUME NEW needs \in SUBSET {d \in TaskIds : \E e \in Edges : d = e[2]}
    PROVE  needs \in SUBSET TaskIds /\ Cardinality(needs) \in Nat
<1>1. needs \in SUBSET TaskIds
  OBVIOUS
<1>2. QED
  BY <1>1, IdsAssumption, FS_Subset, FS_CardinalityType

LEMMA AddsType == ASSUME TypeInv, Adds PROVE TypeInv'
<1>1. PICK t \in Added, status \in Births, wait \in Waits, due \in Dues,
           rule \in Periods \cup {0}, checked \in Checks,
           needs \in SUBSET {d \in TaskIds : \E e \in Edges : d = e[2]} :
           Add(t, status, wait, due, rule, checked, needs)
  BY DEF Adds
<1>2. t \in TaskIds /\ checked \in BOOLEAN
  BY IdsAssumption, CallsAssumption
<1>3. QED
  BY <1>1, <1>2, EdgesType, AddType

LEMMA ClocksType == ASSUME TypeInv, Clocks PROVE TypeInv'
<1> PICK t \in TaskIds :
      \/ \E call \in StartCalls, keep \in Keeps : Start(t, call, keep)
      \/ \E claimant \in Holders \cup {NoOne} : GitStart(t, claimant)
      \/ \E who \in Holders, force \in Forces : Stop(t, who, force) \/ Release(t, who, force)
      \/ \E who \in Holders, lease \in Leases : Claim(t, who, lease)
      \/ \E delta \in Deltas : Adjust(t, delta)
  BY DEF Clocks
<1>1. CASE \E call \in StartCalls, keep \in Keeps : Start(t, call, keep)
  BY <1>1, StartType, CallsAssumption
<1>2. CASE \E claimant \in Holders \cup {NoOne} : GitStart(t, claimant)
  <2>1. PICK claimant \in Holders \cup {NoOne} :
            Start(t, [NoStart EXCEPT !.holder = claimant], TRUE)
    BY <1>2 DEF GitStart
  <2>2. [NoStart EXCEPT !.holder = claimant]
            \in [holder : Holders \cup {NoOne}, actor : Holders \cup {NoOne}]
    BY DEF NoStart
  <2>3. QED
    BY <2>1, <2>2, StartType
<1>3. CASE \E who \in Holders, force \in Forces : Stop(t, who, force) \/ Release(t, who, force)
  BY <1>3, StopType, ReleaseType
<1>4. CASE \E who \in Holders, lease \in Leases : Claim(t, who, lease)
  BY <1>4, ClaimType
<1>5. CASE \E delta \in Deltas : Adjust(t, delta)
  BY <1>5, AdjustType
<1>6. QED
  BY <1>1, <1>2, <1>3, <1>4, <1>5

LEMMA ClosesType == ASSUME TypeInv, Closes PROVE TypeInv'
<1> PICK t \in TaskIds :
      \/ \E who \in Holders, force \in Forces, forceClaim \in Forces, pass \in Checks,
            measured \in Reports, s \in TaskIds \cup {NoTask} :
            Done(t, who, force, forceClaim, pass, measured, s)
      \/ \E who \in Holders, s \in TaskIds \cup {NoTask} : DoneMerged(t, who, s)
      \/ \E who \in Holders, forceClaim \in Forces : Cancel(t, who, forceClaim)
      \/ \E set \in (SUBSET Columns) \ {{}}, wait \in Waits,
            total \in Totals, who \in Holders, forceClaim \in Forces :
            Modify(t, set, wait, total, who, forceClaim)
      \/ Reopen(t)
  BY DEF Closes
<1>1. CASE \E who \in Holders, force \in Forces, forceClaim \in Forces, pass \in Checks,
              measured \in Reports, s \in TaskIds \cup {NoTask} :
              Done(t, who, force, forceClaim, pass, measured, s)
  <2>1. PICK who \in Holders, forceClaim \in Forces, pass \in Checks, measured \in Reports,
             s \in TaskIds \cup {NoTask} : Complete(t, who, forceClaim, pass, measured, s)
    BY <1>1 DEF Done
  <2>2. pass \in BOOLEAN /\ measured \in BOOLEAN
    BY CallsAssumption
  <2>3. QED
    BY <2>1, <2>2, CompleteType
<1>2. CASE \E who \in Holders, s \in TaskIds \cup {NoTask} : DoneMerged(t, who, s)
  <2>1. PICK who \in Holders, s \in TaskIds \cup {NoTask} :
             Complete(t, who, FALSE, FALSE, FALSE, s)
    BY <1>2 DEF DoneMerged
  <2>2. QED
    BY <2>1, CompleteType
<1>3. CASE \E who \in Holders, forceClaim \in Forces : Cancel(t, who, forceClaim)
  BY <1>3, CancelType
<1>4. CASE \E set \in (SUBSET Columns) \ {{}}, wait \in Waits,
              total \in Totals, who \in Holders, forceClaim \in Forces :
              Modify(t, set, wait, total, who, forceClaim)
  BY <1>4, ModifyType
<1>5. CASE Reopen(t)
  BY <1>5, ReopenType
<1>6. QED
  BY <1>1, <1>2, <1>3, <1>4, <1>5

LEMMA TriagesType == ASSUME TypeInv, Triages PROVE TypeInv'
BY AcceptType, DeclineType, DuplicateType DEF Triages

LEMMA RelationsType == ASSUME TypeInv, Relations PROVE TypeInv'
BY DepAddType, DepRemoveType, SetCheckType DEF Relations

LEMMA UndoType == ASSUME TypeInv, Undo PROVE TypeInv'
BY RevertStopType, RevertCancelType, RevertDoneType, RevertModifyType, RevertAdjustType,
   RevertAcceptType, RevertDepRemoveType DEF Undo

LEMMA TickType == ASSUME TypeInv, Tick PROVE TypeInv'
BY ColumnTypes, NewestFields DEF Tick, TypeInv, TypeOK, PastReadings

LEMMA ReadType ==
    ASSUME TypeInv, NEW c \in Clients, NEW t \in TaskIds, Read(c, t)
    PROVE  TypeInv'
<1>1. [t |-> t, row |-> row[t], deps |-> DependsOn(t)]
        \in [t : TaskIds \cup {NoTask}, row : Row, deps : SUBSET TaskIds]
  BY ColumnTypes DEF DependsOn
<1>2. QED
  BY <1>1 DEF Read, TypeInv, TypeOK, PastReadings

LEMMA TypeInduction == TypeInv /\ [Next]_vars => TypeInv'
<1> SUFFICES ASSUME TypeInv, [Next]_vars PROVE TypeInv'
  OBVIOUS
<1>1. CASE UNCHANGED vars
  BY <1>1 DEF vars, TypeInv, TypeOK, PastReadings
<1>2. CASE Next
  BY <1>2, TickType, ReadType, AddsType, ClocksType, ClosesType, TriagesType, RelationsType,
     UndoType DEF Next
<1>3. QED
  BY <1>1, <1>2

\* Every table holds rows of its columns' types, whatever is called in whatever
\* order: banked time is never negative (task_adjust_tracked's floor, the
\* tracked_seconds < elapsed refusals of undo.rs 676-684 and 763-769) and no
\* event names a column or a status that is not one.
THEOREM TypeCorrect == Spec => []TypeOK
<1>1. Init => TypeInv
  BY InitType
<1>2. TypeInv /\ [Next]_vars => TypeInv'
  BY TypeInduction
<1>3. TypeInv => TypeOK
  BY DEF TypeInv
<1>4. QED
  BY <1>1, <1>2, <1>3, PTL DEF Spec

-----------------------------------------------------------------------------
(* The columns of the rows the operations write *)

LEMMA BumpedFields ==
    ASSUME TypeInv, NEW t \in TaskIds
    PROVE  LET r == Bumped(t)
               o == row[t]
           IN  /\ r.status = o.status /\ r.since = o.since /\ r.tracked = o.tracked
               /\ r.by = o.by /\ r.until = o.until /\ r.from = o.from /\ r.due = o.due
               /\ r.rev = o.rev + 1
BY ColumnTypes DEF Bumped, Row

LEMMA StoppedFields ==
    ASSUME TypeInv, NEW t \in TaskIds
    PROVE  LET r == StoppedRow(t)
               o == row[t]
           IN  /\ r.status = "pending" /\ r.since = 0 /\ r.tracked = o.tracked + Elapsed(t)
               /\ r.by = o.by /\ r.until = o.until /\ r.from = o.from /\ r.due = o.due
               /\ r.rev = o.rev + 1
BY ColumnTypes DEF StoppedRow, Row

LEMMA ClosedFields ==
    ASSUME TypeInv, NEW t \in TaskIds, NEW status \in Stored
    PROVE  LET r == ClosedRow(t, status)
               o == row[t]
           IN  /\ r.status = status /\ r.since = 0 /\ r.tracked = o.tracked + Elapsed(t)
               /\ r.by = NoOne /\ r.until = 0 /\ r.from = o.from /\ r.due = o.due
               /\ r.rev = o.rev + 1
BY ColumnTypes, StoppedFields, StoppedRowType DEF ClosedRow, Row

LEMMA ChangedFields ==
    ASSUME TypeInv, NEW t \in TaskIds, NEW set, NEW wait, NEW total
    PROVE  LET r == Changed(t, set, wait, total)
               o == row[t]
           IN  /\ r.status = o.status /\ r.since = o.since
               /\ r.tracked = (IF "tracked" \in set THEN total ELSE o.tracked) /\ r.by = o.by
               /\ r.until = o.until /\ r.from = o.from /\ r.due = o.due /\ r.rev = o.rev + 1
BY ColumnTypes DEF Changed, Row

LEMMA ModifiedFields ==
    ASSUME TypeInv, NEW t \in TaskIds, NEW set \in SUBSET Columns, NEW wait \in Waits,
           NEW total \in Totals
    PROVE  LET r == ModifiedRow(t, set, wait, total)
               o == row[t]
           IN  /\ "status" \in set => /\ r.status = "cancelled" /\ r.since = 0
                                      /\ r.by = NoOne /\ r.until = 0
               /\ "status" \notin set => /\ r.status = o.status /\ r.since = o.since
                                         /\ r.by = o.by /\ r.until = o.until
               /\ r.from = o.from /\ r.due = o.due /\ r.rev = o.rev + 1
<1> DEFINE base == Changed(t, set, wait, total)
<1>1. /\ base.status = row[t].status /\ base.since = row[t].since /\ base.by = row[t].by
      /\ base.until = row[t].until /\ base.from = row[t].from /\ base.due = row[t].due
      /\ base.rev = row[t].rev + 1 /\ base \in Row
  BY ChangedFields, ChangedType
<1>2. ModifiedRow(t, set, wait, total) =
        IF "status" \in set
        THEN [base EXCEPT !.status = "cancelled", !.since = 0, !.by = NoOne, !.until = 0,
                          !.tracked = base.tracked + Elapsed(t)]
        ELSE base
  BY DEF ModifiedRow
<1> HIDE DEF base
<1> QED
  BY <1>1, <1>2 DEF Row

LEMMA PutBackFields ==
    ASSUME TypeInv, NEW t \in TaskIds
    PROVE  LET r == PutBack(t)
               o == row[t]
           IN  /\ newest.from = "active" => /\ r.status = "active" /\ r.since = newest.started
                                            /\ r.tracked = o.tracked - newest.secs
               /\ newest.from # "active" => /\ r.status = newest.from /\ r.since = o.since
                                            /\ r.tracked = o.tracked
               /\ r.by = o.by /\ r.until = o.until /\ r.from = o.from /\ r.due = o.due
               /\ r.rev = o.rev
<1>1. CASE newest.from = "active"
  <2>1. PutBack(t) = [row[t] EXCEPT !.status = "active", !.since = newest.started,
                                    !.tracked = row[t].tracked - newest.secs]
    BY <1>1 DEF PutBack
  <2> QED
    BY <1>1, <2>1, ColumnTypes DEF Row
<1>2. CASE newest.from # "active"
  <2>1. PutBack(t) = [row[t] EXCEPT !.status = newest.from]
    BY <1>2 DEF PutBack
  <2> QED
    BY <1>2, <2>1, ColumnTypes DEF Row
<1> QED
  BY <1>1, <1>2

LEMMA ReclaimedFields ==
    ASSUME NEW o \in Row
    PROVE  LET r == Reclaimed(o)
           IN  /\ r.status = o.status /\ r.since = o.since /\ r.tracked = o.tracked
               /\ newest.until > now => r.by = newest.by /\ r.until = newest.until
               /\ ~(newest.until > now) => r.by = o.by /\ r.until = o.until
               /\ r.from = o.from /\ r.due = o.due /\ r.rev = o.rev
<1>1. CASE newest.until > now
  BY <1>1 DEF Reclaimed, Row
<1>2. CASE ~(newest.until > now)
  BY <1>2 DEF Reclaimed
<1> QED
  BY <1>1, <1>2

LEMMA RowBeforeFields ==
    ASSUME TypeInv, NEW t \in TaskIds
    PROVE  LET r == RowBefore(t)
               o == row[t]
           IN  /\ "status" \in newest.cols => r.status = newest.from
               /\ "status" \notin newest.cols => r.status = o.status
               /\ "since" \in newest.cols => r.since = newest.started
               /\ "since" \notin newest.cols => r.since = o.since
               /\ r.by = o.by /\ r.until = o.until /\ r.from = o.from /\ r.due = o.due
               /\ r.rev = o.rev
BY ColumnTypes DEF RowBefore, Row

LEMMA DependentFields ==
    ASSUME TypeInv, NEW t \in TaskIds, NEW repointed
    PROVE  LET r == DependentRow(t, repointed)
               o == row[t]
           IN  /\ r.status = o.status /\ r.since = o.since /\ r.tracked = o.tracked
               /\ r.by = o.by /\ r.until = o.until /\ r.from = o.from /\ r.due = o.due
               /\ r.rev \in Nat /\ o.rev < r.rev
BY ColumnTypes DEF DependentRow, Row

-----------------------------------------------------------------------------
(* What a step does to one row *)

\* The task and the row that the newest event leaves for an undo exist, and so
\* do the tasks an edge joins: an undo never brings a row into being.
NewestInv ==
    /\ newest.op # "none" => newest.t \in TaskIds /\ Exists(newest.t)
    /\ newest.op \in {"done", "cancel"} => newest.from \notin {"unborn", "removed"}
    /\ newest.op = "modify" /\ "status" \in newest.cols
            => newest.from \notin {"unborn", "removed"}
    /\ newest.op = "done" /\ newest.spawn # NoTask => Exists(newest.spawn)
EdgesInv == \A e \in deps : Exists(e[1]) /\ Exists(e[2])
BaseInv == TypeInv /\ NewestInv /\ EdgesInv

\* The slot of x's occurrence is x's alone.
FillsFreeSlot(x) ==
    row[x].from # NoTask =>
        \A y \in TaskIds \ {x} : Exists(y) /\ row[y].from = row[x].from => row[y].due # row[x].due

Stays(x)    == row'[x] = row[x] /\ DependsOn(x)' = DependsOn(x)
Advances(x) == /\ Exists(x) /\ Exists(x)' /\ row[x].rev < row'[x].rev
               /\ row'[x].from = row[x].from /\ row'[x].due = row[x].due
IsBorn(x)   == row[x].status = "unborn" /\ Exists(x)' /\ FillsFreeSlot(x)'
Goes(x)     == Exists(x) /\ row'[x].status = "removed"

\* A row stays as it is, edges included, or it is written under a higher rev, or
\* it is new, or it is deleted.
Moves == \A x \in TaskIds : Stays(x) \/ Advances(x) \/ IsBorn(x) \/ Goes(x)

\* One existing row is written under a higher rev, and only its own edges change.
LEMMA WriteMoves ==
    ASSUME BaseInv, TypeInv', NEW t \in TaskIds, NEW r \in Row, row' = [row EXCEPT ![t] = r],
           Exists(t), r.status \notin {"unborn", "removed"}, row[t].rev < r.rev,
           r.from = row[t].from, r.due = row[t].due,
           \A e \in deps' : e \in deps \/ (e[1] = t /\ Exists(e[2])),
           \A e \in deps : e \in deps' \/ e[1] = t
    PROVE  Moves /\ EdgesInv' /\ Exists(t)'
<1>1. row'[t] = r /\ \A x \in TaskIds \ {t} : row'[x] = row[x]
  BY DEF BaseInv, TypeInv, TypeOK
<1>2. Exists(t)' /\ \A x \in TaskIds : Exists(x) => Exists(x)'
  BY <1>1 DEF Exists
<1>3. EdgesInv'
  <2> SUFFICES ASSUME NEW e \in deps' PROVE Exists(e[1])' /\ Exists(e[2])'
    BY DEF EdgesInv
  <2>1. e[1] \in TaskIds /\ e[2] \in TaskIds
    BY DEF TypeInv, TypeOK
  <2>2. Exists(e[1]) /\ Exists(e[2])
    BY DEF BaseInv, EdgesInv
  <2> QED
    BY <2>1, <2>2, <1>2
<1>4. Advances(t)
  BY <1>1, <1>2 DEF Advances
<1>5. ASSUME NEW x \in TaskIds \ {t} PROVE Stays(x)
  BY <1>1 DEF Stays, DependsOn
<1> QED
  BY <1>2, <1>3, <1>4, <1>5 DEF Moves

\* An event that no undo but its own op's reads.
LEMMA QuietNewest ==
    ASSUME NEW t \in TaskIds, newest'.t = t, Exists(t)',
           newest'.op \notin {"done", "cancel", "modify"}
    PROVE  NewestInv'
BY DEF NewestInv

-----------------------------------------------------------------------------
LEMMA AddMoves ==
    ASSUME BaseInv, TypeInv', NEW t \in TaskIds, NEW status \in Births, NEW wait, NEW due,
           NEW rule, NEW checked, NEW needs \in SUBSET TaskIds,
           Add(t, status, wait, due, rule, checked, needs)
    PROVE  Moves /\ EdgesInv' /\ NewestInv'
<1>1. /\ row[t].status = "unborn" /\ row'[t].from = NoTask
      /\ row'[t].status \notin {"unborn", "removed"}
      /\ \A x \in TaskIds \ {t} : row'[x] = row[x]
  BY CallsAssumption DEF Add, Fresh, BaseInv, TypeInv, TypeOK
<1>2. deps' = deps \cup ({t} \X needs) /\ (\A d \in needs : Exists(d)) /\ newest' = Event("add", t)
  BY DEF Add
<1>3. Exists(t)' /\ \A x \in TaskIds : Exists(x) => Exists(x)'
  BY <1>1 DEF Exists
<1>4. EdgesInv'
  <2> SUFFICES ASSUME NEW e \in deps' PROVE Exists(e[1])' /\ Exists(e[2])'
    BY DEF EdgesInv
  <2>1. e[1] \in TaskIds /\ e[2] \in TaskIds
    BY DEF TypeInv, TypeOK
  <2>2. CASE e \in deps
    BY <1>3, <2>1, <2>2 DEF BaseInv, EdgesInv
  <2>3. CASE e \in {t} \X needs
    BY <1>2, <1>3, <2>3
  <2> QED
    BY <1>2, <2>2, <2>3
<1>5. IsBorn(t)
  BY <1>1, <1>3 DEF IsBorn, FillsFreeSlot
<1>6. ASSUME NEW x \in TaskIds \ {t} PROVE Stays(x)
  BY <1>1, <1>2 DEF Stays, DependsOn
<1>7. NewestInv'
  BY <1>2, <1>3, QuietNewest DEF Event
<1> QED
  BY <1>4, <1>5, <1>6, <1>7 DEF Moves

LEMMA StartMoves ==
    ASSUME BaseInv, TypeInv', NEW t \in TaskIds, NEW call, NEW keep, Start(t, call, keep)
    PROVE  Moves /\ EdgesInv' /\ NewestInv'
<1> DEFINE starter == Identity(call)
           until == IF LiveClaim(t) /\ now + DefaultLease > row[t].until
                    THEN now + DefaultLease ELSE row[t].until
           stopped == IF keep THEN {} ELSE AutoStopped(starter)
           r == [row[t] EXCEPT !.status = "active", !.since = now,
                               !.until = until, !.rev = row[t].rev + 1]
<1>1. /\ row' = [a \in TaskIds |-> IF a = t THEN r
                                   ELSE IF a \in stopped THEN StoppedRow(a) ELSE row[a]]
      /\ deps' = deps /\ newest' = Event("start", t) /\ Status(t) = "pending"
  BY DEF Start
<1> HIDE DEF until
<1>2. /\ r.status = "active" /\ r.rev = row[t].rev + 1 /\ r.from = row[t].from
      /\ r.due = row[t].due
  BY ColumnTypes DEF BaseInv, Row
<1> HIDE DEF r
<1>3. \A a \in stopped : Exists(a)
  BY DEF AutoStopped, Running, Exists
<1> HIDE DEF stopped
<1>4. Exists(t)
  BY <1>1 DEF Status, Exists
<1>5. ASSUME NEW x \in TaskIds PROVE Stays(x) \/ Advances(x)
  <2>1. row[x].rev \in Nat /\ row[x].rev < row[x].rev + 1
    BY ColumnTypes DEF BaseInv
  <2>2. CASE x = t
    BY <1>1, <1>2, <1>4, <2>1, <2>2 DEF Advances, Exists
  <2>3. CASE x # t /\ x \in stopped
    <3>1. row'[x] = StoppedRow(x)
      BY <1>1, <2>3
    <3> QED
      BY <3>1, <1>3, <2>1, <2>3, StoppedFields DEF Advances, Exists, BaseInv
  <2>4. CASE x # t /\ x \notin stopped
    BY <1>1, <2>4 DEF Stays, DependsOn
  <2> QED
    BY <2>2, <2>3, <2>4
<1>6. \A x \in TaskIds : Exists(x) => Exists(x)'
  BY <1>5 DEF Advances, Stays, Exists
<1>7. EdgesInv'
  BY <1>1, <1>6 DEF EdgesInv, BaseInv, TypeInv, TypeOK
<1>8. NewestInv'
  BY <1>1, <1>4, <1>6, QuietNewest DEF Event
<1> QED
  BY <1>5, <1>7, <1>8 DEF Moves

LEMMA StopMoves ==
    ASSUME BaseInv, TypeInv', NEW t \in TaskIds, NEW who, NEW force, Stop(t, who, force)
    PROVE  Moves /\ EdgesInv' /\ NewestInv'
<1> DEFINE r == StoppedRow(t)
<1>1. row' = [row EXCEPT ![t] = r] /\ deps' = deps /\ Exists(t)
  BY DEF Stop, Running, Exists
<1>2. r \in Row /\ r.status = "pending" /\ r.from = row[t].from /\ r.due = row[t].due
      /\ row[t].rev < r.rev
  BY StoppedFields, StoppedRowType, ColumnTypes DEF BaseInv
<1>3. newest'.op = "stop" /\ newest'.t = t
  BY DEF Stop, Event
<1> HIDE DEF r
<1>4. Moves /\ EdgesInv' /\ Exists(t)'
  BY <1>1, <1>2, WriteMoves
<1> QED
  BY <1>3, <1>4, QuietNewest

LEMMA ClaimMoves ==
    ASSUME BaseInv, TypeInv', NEW t \in TaskIds, NEW who, NEW lease,
           Claim(t, who, lease)
    PROVE  Moves /\ EdgesInv' /\ NewestInv'
<1> DEFINE r == [Bumped(t) EXCEPT !.by = who, !.until = now + lease]
<1>1. row' = [row EXCEPT ![t] = r] /\ deps' = deps /\ Exists(t)
  BY DEF Claim, Open, Exists
<1>2. r.status \notin {"unborn", "removed"} /\ r.from = row[t].from /\ r.due = row[t].due
      /\ row[t].rev < r.rev
  BY <1>1, BumpedFields, BumpedType, ColumnTypes DEF BaseInv, Row, Exists
<1>3. newest'.op = "claim" /\ newest'.t = t
  BY DEF Claim, Event
<1>4. row'[t] = r /\ r \in Row
  BY <1>1 DEF BaseInv, TypeInv, TypeOK
<1> HIDE DEF r
<1>5. Moves /\ EdgesInv' /\ Exists(t)'
  BY <1>1, <1>2, <1>4, WriteMoves
<1> QED
  BY <1>3, <1>5, QuietNewest

LEMMA ReleaseMoves ==
    ASSUME BaseInv, TypeInv', NEW t \in TaskIds, NEW who, NEW force,
           Release(t, who, force)
    PROVE  Moves /\ EdgesInv' /\ NewestInv'
<1> DEFINE r == [Bumped(t) EXCEPT !.by = NoOne, !.until = 0]
<1>1. row' = [row EXCEPT ![t] = r] /\ deps' = deps /\ Exists(t)
  BY DEF Release, Exists
<1>2. r.status \notin {"unborn", "removed"} /\ r.from = row[t].from /\ r.due = row[t].due
      /\ row[t].rev < r.rev
  BY <1>1, BumpedFields, BumpedType, ColumnTypes DEF BaseInv, Row, Exists
<1>3. newest'.op = "release" /\ newest'.t = t
  BY DEF Release, Event
<1>4. row'[t] = r /\ r \in Row
  BY <1>1 DEF BaseInv, TypeInv, TypeOK
<1> HIDE DEF r
<1>5. Moves /\ EdgesInv' /\ Exists(t)'
  BY <1>1, <1>2, <1>4, WriteMoves
<1> QED
  BY <1>3, <1>5, QuietNewest

LEMMA AdjustMoves ==
    ASSUME BaseInv, TypeInv', NEW t \in TaskIds, NEW delta,
           Adjust(t, delta)
    PROVE  Moves /\ EdgesInv' /\ NewestInv'
<1> DEFINE r == [Bumped(t) EXCEPT !.tracked = row[t].tracked + delta,
                               !.adj = row[t].adj + delta]
<1>1. row' = [row EXCEPT ![t] = r] /\ deps' = deps /\ Exists(t)
  BY DEF Adjust, Exists
<1>2. r.status \notin {"unborn", "removed"} /\ r.from = row[t].from /\ r.due = row[t].due
      /\ row[t].rev < r.rev
  BY <1>1, BumpedFields, BumpedType, ColumnTypes DEF BaseInv, Row, Exists
<1>3. newest'.op = "adjust_tracked" /\ newest'.t = t
  BY DEF Adjust, Event
<1>4. row'[t] = r /\ r \in Row
  BY <1>1 DEF BaseInv, TypeInv, TypeOK
<1> HIDE DEF r
<1>5. Moves /\ EdgesInv' /\ Exists(t)'
  BY <1>1, <1>2, <1>4, WriteMoves
<1> QED
  BY <1>3, <1>5, QuietNewest

LEMMA ReopenMoves ==
    ASSUME BaseInv, TypeInv', NEW t \in TaskIds, Reopen(t)
    PROVE  Moves /\ EdgesInv' /\ NewestInv'
<1> DEFINE r == [Bumped(t) EXCEPT !.status = ReopensAs(t)]
<1>1. row' = [row EXCEPT ![t] = r] /\ deps' = deps /\ Exists(t)
  BY DEF Reopen, Terminal, Exists
<1>2. r.status \notin {"unborn", "removed"} /\ r.from = row[t].from /\ r.due = row[t].due
      /\ row[t].rev < r.rev
  BY <1>1, BumpedFields, BumpedType, ColumnTypes DEF BaseInv, Row, Exists, ReopensAs
<1>3. newest'.op = "reopen" /\ newest'.t = t
  BY DEF Reopen, Event
<1>4. row'[t] = r /\ r \in Row
  BY <1>1 DEF BaseInv, TypeInv, TypeOK
<1> HIDE DEF r
<1>5. Moves /\ EdgesInv' /\ Exists(t)'
  BY <1>1, <1>2, <1>4, WriteMoves
<1> QED
  BY <1>3, <1>5, QuietNewest

LEMMA AcceptMoves ==
    ASSUME BaseInv, TypeInv', NEW t \in TaskIds, Accept(t)
    PROVE  Moves /\ EdgesInv' /\ NewestInv'
<1> DEFINE r == [Bumped(t) EXCEPT !.status = "pending"]
<1>1. row' = [row EXCEPT ![t] = r] /\ deps' = deps /\ Exists(t)
  BY DEF Accept, Exists
<1>2. r.status \notin {"unborn", "removed"} /\ r.from = row[t].from /\ r.due = row[t].due
      /\ row[t].rev < r.rev
  BY <1>1, BumpedFields, BumpedType, ColumnTypes DEF BaseInv, Row, Exists
<1>3. newest'.op = "accept" /\ newest'.t = t
  BY DEF Accept, Event
<1>4. row'[t] = r /\ r \in Row
  BY <1>1 DEF BaseInv, TypeInv, TypeOK
<1> HIDE DEF r
<1>5. Moves /\ EdgesInv' /\ Exists(t)'
  BY <1>1, <1>2, <1>4, WriteMoves
<1> QED
  BY <1>3, <1>5, QuietNewest

LEMMA SetCheckMoves ==
    ASSUME BaseInv, TypeInv', NEW t \in TaskIds, NEW check,
           SetCheck(t, check)
    PROVE  Moves /\ EdgesInv' /\ NewestInv'
<1> DEFINE r == [Bumped(t) EXCEPT !.check = check]
<1>1. row' = [row EXCEPT ![t] = r] /\ deps' = deps /\ Exists(t)
  BY DEF SetCheck, Exists
<1>2. r.status \notin {"unborn", "removed"} /\ r.from = row[t].from /\ r.due = row[t].due
      /\ row[t].rev < r.rev
  BY <1>1, BumpedFields, BumpedType, ColumnTypes DEF BaseInv, Row, Exists
<1>3. newest'.op = "check" /\ newest'.t = t
  BY DEF SetCheck, Event
<1>4. row'[t] = r /\ r \in Row
  BY <1>1 DEF BaseInv, TypeInv, TypeOK
<1> HIDE DEF r
<1>5. Moves /\ EdgesInv' /\ Exists(t)'
  BY <1>1, <1>2, <1>4, WriteMoves
<1> QED
  BY <1>3, <1>5, QuietNewest

LEMMA ClosingFields ==
    ASSUME NEW op \in Ops, NEW t \in TaskIds, BaseInv
    PROVE  LET e == ClosingEvent(op, t)
           IN  e.op = op /\ e.t = t /\ e.from = row[t].status /\ e.spawn = NoTask
BY EventType DEF ClosingEvent, Event

LEMMA CancelMoves ==
    ASSUME BaseInv, TypeInv', NEW t \in TaskIds, NEW who, NEW forceClaim,
           Cancel(t, who, forceClaim)
    PROVE  Moves /\ EdgesInv' /\ NewestInv'
<1> DEFINE r == ClosedRow(t, "cancelled")
<1>1. row' = [row EXCEPT ![t] = r] /\ deps' = deps /\ Exists(t)
  BY DEF Cancel, Open
<1>2. r \in Row /\ r.status = "cancelled" /\ r.from = row[t].from /\ r.due = row[t].due
      /\ row[t].rev < r.rev
  BY ClosedFields, ClosedRowType, ColumnTypes, Literals DEF BaseInv
<1> HIDE DEF r
<1>3. Moves /\ EdgesInv' /\ Exists(t)'
  BY <1>1, <1>2, WriteMoves
<1>4. newest'.op = "cancel" /\ newest'.t = t /\ newest'.from = row[t].status
  BY ClosingFields DEF Cancel, Ops
<1> QED
  BY <1>1, <1>3, <1>4 DEF NewestInv, Exists

LEMMA DeclineMoves ==
    ASSUME BaseInv, TypeInv', NEW t \in TaskIds, NEW who, NEW forceClaim, NEW reason,
           Decline(t, who, forceClaim, reason)
    PROVE  Moves /\ EdgesInv' /\ NewestInv'
<1> DEFINE closed == ClosedRow(t, "cancelled")
           rev == row[t].rev + (IF reason THEN 2 ELSE 1)
           r == [closed EXCEPT !.rev = rev]
<1>1. row' = [row EXCEPT ![t] = r] /\ deps' = deps /\ row[t].status = "triage"
  BY DEF Decline
<1>2. closed \in Row /\ closed.status = "cancelled" /\ closed.from = row[t].from
      /\ closed.due = row[t].due
  BY ClosedFields, ClosedRowType, Literals DEF BaseInv
<1>3. row[t].rev < rev
  BY ColumnTypes DEF BaseInv
<1> HIDE DEF closed, rev
<1>4. r.status = "cancelled" /\ r.from = row[t].from /\ r.due = row[t].due /\ row[t].rev < r.rev
  BY <1>2, <1>3 DEF Row
<1>5. row'[t] = r /\ r \in Row /\ Exists(t)
  BY <1>1 DEF BaseInv, TypeInv, TypeOK, Exists
<1> HIDE DEF r
<1>6. Moves /\ EdgesInv' /\ Exists(t)'
  BY <1>1, <1>4, <1>5, WriteMoves
<1>7. newest'.op = "cancel" /\ newest'.t = t /\ newest'.from = row[t].status
  BY ClosingFields DEF Decline, Ops
<1> QED
  BY <1>1, <1>6, <1>7 DEF NewestInv

LEMMA ModifyMoves ==
    ASSUME BaseInv, TypeInv', NEW t \in TaskIds, NEW set \in SUBSET Columns, NEW wait \in Waits,
           NEW total \in Totals, NEW who, NEW forceClaim,
           Modify(t, set, wait, total, who, forceClaim)
    PROVE  Moves /\ EdgesInv' /\ NewestInv'
<1> DEFINE r == ModifiedRow(t, set, wait, total)
<1>1. row' = [row EXCEPT ![t] = r] /\ deps' = deps /\ Exists(t)
  BY DEF Modify
<1>2. r.status \notin {"unborn", "removed"} /\ r.from = row[t].from /\ r.due = row[t].due
      /\ row[t].rev < r.rev
  <2>1. /\ r.status = "cancelled" \/ r.status = row[t].status
        /\ r.from = row[t].from /\ r.due = row[t].due /\ r.rev = row[t].rev + 1
    <3> HIDE DEF r
    <3>1. /\ "status" \in set => r.status = "cancelled"
          /\ "status" \notin set => r.status = row[t].status
          /\ r.from = row[t].from /\ r.due = row[t].due /\ r.rev = row[t].rev + 1
      BY ModifiedFields DEF BaseInv, r
    <3> QED
      BY <3>1
  <2> HIDE DEF r
  <2> QED
    BY <1>1, <2>1, ColumnTypes DEF BaseInv, Exists
<1>3. row'[t] = r /\ r \in Row
  BY <1>1 DEF BaseInv, TypeInv, TypeOK
<1> HIDE DEF r
<1>4. Moves /\ EdgesInv' /\ Exists(t)'
  BY <1>1, <1>2, <1>3, WriteMoves
<1>5. /\ newest'.op = "modify" /\ newest'.t = t /\ newest'.cols = Written(t, set)
      /\ newest'.from = (IF "status" \in set THEN row[t].status ELSE "unborn")
  BY DEF Modify, ModifyEvent, Event
<1>6. "status" \in Written(t, set) => "status" \in set
  BY DEF Written
<1> QED
  BY <1>1, <1>4, <1>5, <1>6 DEF NewestInv, Exists

LEMMA CompleteMoves ==
    ASSUME BaseInv, TypeInv', NEW t \in TaskIds, NEW who, NEW forceClaim, NEW pass,
           NEW measured, NEW s \in TaskIds \cup {NoTask}, Exists(t),
           Complete(t, who, forceClaim, pass, measured, s)
    PROVE  Moves /\ EdgesInv' /\ NewestInv'
<1> DEFINE check == IF pass THEN "passed" ELSE row[t].check
           closed == ClosedRow(t, "done")
           r == [closed EXCEPT !.check = check]
<1>1. /\ row' = [x \in TaskIds |-> IF x = t THEN r ELSE IF x = s THEN SpawnedRow(t) ELSE row[x]]
      /\ deps' = deps
  BY DEF Complete
<1>2. closed \in Row /\ closed.status = "done" /\ closed.from = row[t].from
      /\ closed.due = row[t].due /\ closed.rev = row[t].rev + 1
  BY ClosedFields, ClosedRowType, Literals DEF BaseInv
<1> HIDE DEF closed, check
<1>3. r.status = "done" /\ r.from = row[t].from /\ r.due = row[t].due /\ r.rev = row[t].rev + 1
  BY <1>2 DEF Row
<1> HIDE DEF r
<1>4. s \in TaskIds => ~SlotTaken(t) /\ row[s].status = "unborn"
  BY IdsAssumption DEF Complete, Spawns
<1>5. SpawnedRow(t).status = "pending" /\ SpawnedRow(t).from = t /\ SpawnedRow(t).due = NextDue(t)
  BY DEF SpawnedRow, Fresh
<1>6. Advances(t)
  BY <1>1, <1>3, ColumnTypes DEF Advances, Exists, BaseInv
<1>7. ASSUME s \in TaskIds PROVE IsBorn(s) /\ Exists(s)'
  <2>1. s # t /\ row'[s] = SpawnedRow(t)
    BY <1>1, <1>4, <1>7 DEF Exists
  <2>2. \A y \in TaskIds \ {s} : Exists(y)'
            => Exists(y) /\ row'[y].from = row[y].from /\ row'[y].due = row[y].due
    BY <1>1, <1>3 DEF Exists
  <2>3. \A y \in TaskIds \ {s} : Exists(y)' /\ row'[y].from = t => row'[y].due # NextDue(t)
    BY <2>2, <1>4, <1>7 DEF SlotTaken
  <2> QED
    BY <2>1, <2>3, <1>4, <1>5, <1>7 DEF IsBorn, FillsFreeSlot, Exists
<1>8. ASSUME NEW x \in TaskIds \ {t, s} PROVE Stays(x)
  BY <1>1 DEF Stays, DependsOn
<1>9. \A x \in TaskIds : Exists(x) => Exists(x)'
  BY <1>1, <1>4, <1>6 DEF Advances, Exists
<1>10. EdgesInv'
  BY <1>1, <1>9 DEF EdgesInv, BaseInv, TypeInv, TypeOK
<1>11. newest'.op = "done" /\ newest'.t = t /\ newest'.from = row[t].status /\ newest'.spawn = s
  <2>1. ClosingEvent("done", t) \in Events /\ "done" \in Ops
    BY ClosingEventType DEF Ops, BaseInv
  <2>2. /\ ClosingEvent("done", t).op = "done" /\ ClosingEvent("done", t).t = t
        /\ ClosingEvent("done", t).from = row[t].status
    BY <2>1, ClosingFields
  <2> HIDE DEF ClosingEvent
  <2> QED
    BY <2>1, <2>2 DEF Complete, Events
<1>12. NewestInv'
  BY <1>6, <1>7, <1>11 DEF NewestInv, Advances, Exists
<1> QED
  BY <1>6, <1>7, <1>8, <1>10, <1>12 DEF Moves

LEMMA DuplicateMoves ==
    ASSUME BaseInv, TypeInv', NEW t \in TaskIds, NEW original \in TaskIds, NEW who,
           NEW forceClaim, Duplicate(t, original, who, forceClaim)
    PROVE  Moves /\ EdgesInv' /\ NewestInv'
<1> DEFINE new(x) == DependentRow(x, x \in Repointed(t, original))
<1>1. /\ row' = [x \in TaskIds |-> IF x = t THEN ClosedRow(t, "cancelled")
                                   ELSE IF x \in Dependents(t) THEN new(x) ELSE row[x]]
      /\ deps' = (deps \ (TaskIds \X {t})) \cup (Repointed(t, original) \X {original})
      /\ Exists(original) /\ Exists(t) /\ newest' = Event("duplicate", t)
  BY DEF Duplicate, Exists
<1>2. Repointed(t, original) \subseteq Dependents(t) /\ \A x \in Dependents(t) : Exists(x)
  BY DEF Repointed, Dependents, BaseInv, EdgesInv
<1>3. ASSUME NEW x \in TaskIds
      PROVE  new(x).status = row[x].status /\ new(x).from = row[x].from
             /\ new(x).due = row[x].due /\ row[x].rev < new(x).rev
  BY DependentFields DEF BaseInv
<1> HIDE DEF new
<1>4. Advances(t)
  BY <1>1, ClosedFields, ColumnTypes, Literals DEF Advances, Exists, BaseInv
<1>5. ASSUME NEW x \in TaskIds, x # t, x \in Dependents(t) PROVE Advances(x)
  BY <1>1, <1>2, <1>3, <1>5 DEF Advances, Exists
<1>6. ASSUME NEW x \in TaskIds, x # t, x \notin Dependents(t) PROVE Stays(x)
  <2>1. row'[x] = row[x]
    BY <1>1, <1>6
  <2>2. \A d \in TaskIds : <<x, d>> \in deps' <=> <<x, d>> \in deps
    BY <1>1, <1>2, <1>6 DEF Dependents
  <2> QED
    BY <2>1, <2>2 DEF Stays, DependsOn
<1>7. \A x \in TaskIds : Exists(x) => Exists(x)'
  BY <1>4, <1>5, <1>6 DEF Advances, Stays, Exists
<1>8. EdgesInv'
  <2> SUFFICES ASSUME NEW e \in deps' PROVE Exists(e[1])' /\ Exists(e[2])'
    BY DEF EdgesInv
  <2>1. e[1] \in TaskIds /\ e[2] \in TaskIds
    BY DEF TypeInv, TypeOK
  <2>2. CASE e \in deps
    BY <1>7, <2>1, <2>2 DEF BaseInv, EdgesInv
  <2>3. CASE e \in Repointed(t, original) \X {original}
    BY <1>1, <1>2, <1>7, <2>1, <2>3
  <2> QED
    BY <1>1, <2>2, <2>3
<1>9. NewestInv'
  BY <1>1, <1>7, QuietNewest DEF Event
<1> QED
  BY <1>4, <1>5, <1>6, <1>8, <1>9 DEF Moves

LEMMA DepAddMoves ==
    ASSUME BaseInv, TypeInv', NEW t \in TaskIds, NEW d \in TaskIds, DepAdd(t, d)
    PROVE  Moves /\ EdgesInv' /\ NewestInv'
<1>1. row' = [row EXCEPT ![t] = Bumped(t)] /\ deps' = deps \cup {<<t, d>>} /\ Exists(t)
      /\ Exists(d) /\ newest' = Event("dependency.add", t)
  BY DEF DepAdd
<1>2. Bumped(t) \in Row /\ Bumped(t).status \notin {"unborn", "removed"}
      /\ Bumped(t).from = row[t].from /\ Bumped(t).due = row[t].due /\ row[t].rev < Bumped(t).rev
  BY <1>1, BumpedFields, BumpedType, ColumnTypes DEF BaseInv, Exists
<1>3. /\ \A e \in deps' : e \in deps \/ (e[1] = t /\ Exists(e[2]))
      /\ \A e \in deps : e \in deps' \/ e[1] = t
  BY <1>1
<1>4. Moves /\ EdgesInv' /\ Exists(t)'
  BY <1>1, <1>2, <1>3, WriteMoves
<1> QED
  BY <1>1, <1>4, QuietNewest DEF Event

LEMMA DepRemoveMoves ==
    ASSUME BaseInv, TypeInv', NEW t \in TaskIds, NEW d \in TaskIds, DepRemove(t, d)
    PROVE  Moves /\ EdgesInv' /\ NewestInv'
<1>1. row' = [row EXCEPT ![t] = Bumped(t)] /\ deps' = deps \ {<<t, d>>}
      /\ newest'.op = "dependency.remove" /\ newest'.t = t
  BY DEF DepRemove, Event
<1>2. Exists(t)
  BY DEF DepRemove, BaseInv, EdgesInv
<1>3. Bumped(t) \in Row /\ Bumped(t).status \notin {"unborn", "removed"}
      /\ Bumped(t).from = row[t].from /\ Bumped(t).due = row[t].due /\ row[t].rev < Bumped(t).rev
  BY <1>2, BumpedFields, BumpedType, ColumnTypes DEF BaseInv, Exists
<1>4. /\ \A e \in deps' : e \in deps \/ (e[1] = t /\ Exists(e[2]))
      /\ \A e \in deps : e \in deps' \/ e[1] = t
  BY <1>1
<1>5. Moves /\ EdgesInv' /\ Exists(t)'
  BY <1>1, <1>2, <1>3, <1>4, WriteMoves
<1> QED
  BY <1>1, <1>5, QuietNewest

-----------------------------------------------------------------------------
(* Undo *)

LEMMA RevertedMoves ==
    ASSUME BaseInv, TypeInv', NEW t \in TaskIds, NEW r, Reverted(t, r), Exists(t),
           r \in Row, r.status \notin {"unborn", "removed"}, r.from = row[t].from,
           r.due = row[t].due, r.rev = row[t].rev,
           \A e \in deps' : e \in deps \/ (e[1] = t /\ Exists(e[2])), deps \subseteq deps'
    PROVE  Moves /\ EdgesInv' /\ NewestInv'
<1> DEFINE q == [r EXCEPT !.rev = r.rev + 1]
<1>1. row' = [row EXCEPT ![t] = q] /\ newest' = Event("undo", t)
  BY DEF Reverted
<1>2. q.status = r.status /\ q.from = r.from /\ q.due = r.due /\ q.rev = r.rev + 1
  BY DEF Row
<1>3. row'[t] = q /\ q \in Row
  BY <1>1 DEF BaseInv, TypeInv, TypeOK
<1> HIDE DEF q
<1>4. row[t].rev < q.rev
  BY <1>2, ColumnTypes DEF BaseInv
<1>5. Moves /\ EdgesInv' /\ Exists(t)'
  BY <1>1, <1>2, <1>3, <1>4, WriteMoves
<1> QED
  BY <1>1, <1>5, QuietNewest DEF Event

LEMMA RevertStopMoves ==
    ASSUME BaseInv, TypeInv', NEW t \in TaskIds, RevertStop(t)
    PROVE  Moves /\ EdgesInv' /\ NewestInv'
<1> DEFINE since == newest.at - newest.secs
           tracked == row[t].tracked - newest.secs
           r == [row[t] EXCEPT !.status = "active", !.since = since, !.tracked = tracked]
<1>1. since \in Nat /\ tracked \in Nat /\ row[t] \in Row /\ "active" \in Stored
  BY ColumnTypes, NewestFields, Literals DEF RevertStop, BaseInv, TypeInv, TypeOK, PastReadings
<1>2. Reverted(t, r) /\ deps' = deps /\ Exists(t)
  BY DEF RevertStop, Status, Exists
<1> HIDE DEF since, tracked
<1>3. r \in Row
  BY <1>1, RowWrites, Zenon
<1>4. r.status = "active" /\ r.from = row[t].from /\ r.due = row[t].due /\ r.rev = row[t].rev
  BY <1>1 DEF Row
<1> HIDE DEF r
<1> QED
  BY <1>2, <1>3, <1>4, RevertedMoves

LEMMA RevertCancelMoves ==
    ASSUME BaseInv, TypeInv', NEW t \in TaskIds, RevertCancel(t)
    PROVE  Moves /\ EdgesInv' /\ NewestInv'
<1> DEFINE base == PutBack(t)
           r == Reclaimed(base)
<1>1. /\ Reverted(t, r) /\ deps' = deps /\ Exists(t) /\ MayPutBack(t)
      /\ newest.from \notin {"unborn", "removed"}
  BY DEF RevertCancel, Exists, BaseInv, NewestInv
<1>2. base \in Row /\ r \in Row
  BY <1>1, PutBackType, ReclaimedType DEF BaseInv
<1>3. base.status = newest.from /\ base.from = row[t].from /\ base.due = row[t].due
      /\ base.rev = row[t].rev
  BY PutBackFields DEF BaseInv
<1> HIDE DEF base
<1>4. r.status = base.status /\ r.from = base.from /\ r.due = base.due /\ r.rev = base.rev
  BY <1>2, ReclaimedFields
<1> HIDE DEF r
<1> QED
  BY <1>1, <1>2, <1>3, <1>4, RevertedMoves

LEMMA RevertModifyMoves ==
    ASSUME BaseInv, TypeInv', NEW t \in TaskIds, RevertModify(t)
    PROVE  Moves /\ EdgesInv' /\ NewestInv'
<1> DEFINE base == RowBefore(t)
           r == Reclaimed(base)
<1>1. /\ Reverted(t, r) /\ deps' = deps /\ Exists(t)
      /\ "status" \in newest.cols => newest.from \notin {"unborn", "removed"}
  BY DEF RevertModify, BaseInv, NewestInv
<1>2. base \in Row /\ r \in Row
  BY <1>1, RowBeforeType, ReclaimedType DEF BaseInv, RevertModify
<1>3. /\ "status" \in newest.cols => base.status = newest.from
      /\ "status" \notin newest.cols => base.status = row[t].status
      /\ base.from = row[t].from /\ base.due = row[t].due /\ base.rev = row[t].rev
  BY RowBeforeFields DEF BaseInv
<1> HIDE DEF base
<1>4. r.status = base.status /\ r.from = base.from /\ r.due = base.due /\ r.rev = base.rev
  BY <1>2, ReclaimedFields
<1> HIDE DEF r
<1>5. r.status \notin {"unborn", "removed"}
  BY <1>1, <1>3, <1>4 DEF Exists
<1> QED
  BY <1>1, <1>2, <1>3, <1>4, <1>5, RevertedMoves

LEMMA RevertDoneMoves ==
    ASSUME BaseInv, TypeInv', NEW t \in TaskIds, RevertDone(t)
    PROVE  Moves /\ EdgesInv' /\ NewestInv'
<1> DEFINE s == newest.spawn
           base == PutBack(t)
           claimed == Reclaimed(base)
           r == [claimed EXCEPT !.check = newest.check, !.rev = row[t].rev + 1]
<1>1. /\ row' = [x \in TaskIds |-> IF x = t THEN r ELSE IF x = s THEN RemovedSpawn(s) ELSE row[x]]
      /\ deps' = deps /\ newest' = Event("undo", t) /\ MayPutBack(t) /\ Exists(t)
      /\ newest.op = "done"
  BY DEF RevertDone, Exists
<1>2. newest.from \notin {"unborn", "removed"} /\ (s # NoTask => Exists(s))
  BY <1>1 DEF BaseInv, NewestInv
<1>3. s # NoTask => \A e \in deps : s \notin {e[1], e[2]}
  BY DEF RevertDone
<1>4. base \in Row /\ claimed \in Row
  BY <1>1, PutBackType, ReclaimedType DEF BaseInv
<1>5. base.status = newest.from /\ base.from = row[t].from /\ base.due = row[t].due
  BY PutBackFields DEF BaseInv
<1> HIDE DEF base, s
<1>6. claimed.status = base.status /\ claimed.from = base.from /\ claimed.due = base.due
  BY <1>4, ReclaimedFields
<1> HIDE DEF claimed
<1>7. /\ r.status = claimed.status /\ r.from = claimed.from /\ r.due = claimed.due
      /\ r.rev = row[t].rev + 1
  BY <1>4 DEF Row
<1> HIDE DEF r
<1>8. Advances(t)
  BY <1>1, <1>2, <1>5, <1>6, <1>7, ColumnTypes DEF Advances, Exists, BaseInv
<1>9. ASSUME NEW x \in TaskIds, x # t, x = s PROVE Goes(x)
  BY <1>1, <1>2, <1>9, IdsAssumption DEF Goes, RemovedSpawn, Fresh
<1>10. ASSUME NEW x \in TaskIds, x # t, x # s PROVE Stays(x)
  BY <1>1, <1>10 DEF Stays, DependsOn
<1>11. EdgesInv'
  <2> SUFFICES ASSUME NEW e \in deps PROVE Exists(e[1])' /\ Exists(e[2])'
    BY <1>1 DEF EdgesInv
  <2>1. e[1] \in TaskIds /\ e[2] \in TaskIds /\ e[1] # s /\ e[2] # s
    BY <1>3, IdsAssumption DEF BaseInv, TypeInv, TypeOK
  <2>2. Exists(e[1]) /\ Exists(e[2])
    BY DEF BaseInv, EdgesInv
  <2>3. \A x \in TaskIds : x # s /\ Exists(x) => Exists(x)'
    BY <1>8, <1>10 DEF Advances, Stays, Exists
  <2> QED
    BY <2>1, <2>2, <2>3
<1>12. NewestInv'
  <2>1. Exists(t)'
    BY <1>8 DEF Advances
  <2> QED
    BY <1>1, <2>1, QuietNewest DEF Event
<1> QED
  BY <1>8, <1>9, <1>10, <1>11, <1>12 DEF Moves

LEMMA RevertAdjustMoves ==
    ASSUME BaseInv, TypeInv', NEW t \in TaskIds, RevertAdjust(t)
    PROVE  Moves /\ EdgesInv' /\ NewestInv'
<1> DEFINE tracked == row[t].tracked - newest.delta
           adj == row[t].adj - newest.delta
           r == [row[t] EXCEPT !.tracked = tracked, !.adj = adj]
<1>1. tracked \in Nat /\ adj \in Int /\ row[t] \in Row
  BY ColumnTypes, NewestFields DEF RevertAdjust, BaseInv
<1>2. Reverted(t, r) /\ deps' = deps /\ Exists(t)
  BY DEF RevertAdjust, BaseInv, NewestInv
<1> HIDE DEF tracked, adj
<1>3. r \in Row
  BY <1>1, RowWrites, Zenon
<1>4. r.status = row[t].status /\ r.from = row[t].from /\ r.due = row[t].due
      /\ r.rev = row[t].rev
  BY <1>1 DEF Row
<1> HIDE DEF r
<1> QED
  BY <1>2, <1>3, <1>4, RevertedMoves DEF Exists

LEMMA RevertAcceptMoves ==
    ASSUME BaseInv, TypeInv', NEW t \in TaskIds, RevertAccept(t)
    PROVE  Moves /\ EdgesInv' /\ NewestInv'
<1> DEFINE r == [row[t] EXCEPT !.status = "triage"]
<1>1. Reverted(t, r) /\ deps' = deps /\ Exists(t) /\ row[t] \in Row
  BY ColumnTypes DEF RevertAccept, Exists, BaseInv
<1>2. r \in Row
  BY <1>1, Literals, RowWrites, Zenon
<1>3. r.status = "triage" /\ r.from = row[t].from /\ r.due = row[t].due /\ r.rev = row[t].rev
  BY <1>1 DEF Row
<1> HIDE DEF r
<1> QED
  BY <1>1, <1>2, <1>3, RevertedMoves

LEMMA RevertDepRemoveMoves ==
    ASSUME BaseInv, TypeInv', NEW t \in TaskIds, RevertDepRemove(t)
    PROVE  Moves /\ EdgesInv' /\ NewestInv'
<1>1. /\ Reverted(t, row[t]) /\ deps' = deps \cup {<<t, newest.dep>>} /\ Exists(newest.dep)
      /\ row[t] \in Row /\ Exists(t)
  BY ColumnTypes DEF RevertDepRemove, BaseInv, NewestInv
<1>2. /\ \A e \in deps' : e \in deps \/ (e[1] = t /\ Exists(e[2]))
      /\ deps \subseteq deps'
  BY <1>1
<1>3. row[t].status \notin {"unborn", "removed"}
  BY <1>1 DEF Exists
<1> QED
  BY <1>1, <1>2, <1>3, RevertedMoves

-----------------------------------------------------------------------------
LEMMA AddsMoves == ASSUME BaseInv, TypeInv', Adds PROVE Moves /\ EdgesInv' /\ NewestInv'
<1>1. PICK t \in Added, status \in Births, wait \in Waits, due \in Dues,
           rule \in Periods \cup {0}, checked \in Checks,
           needs \in SUBSET {d \in TaskIds : \E e \in Edges : d = e[2]} :
           Add(t, status, wait, due, rule, checked, needs)
  BY DEF Adds
<1>2. t \in TaskIds /\ needs \in SUBSET TaskIds
  BY IdsAssumption
<1> QED
  BY <1>1, <1>2, AddMoves

LEMMA ClocksMoves == ASSUME BaseInv, TypeInv', Clocks PROVE Moves /\ EdgesInv' /\ NewestInv'
BY StartMoves, StopMoves, ReleaseMoves, ClaimMoves, AdjustMoves DEF Clocks, GitStart

LEMMA ClosesMoves == ASSUME BaseInv, TypeInv', Closes PROVE Moves /\ EdgesInv' /\ NewestInv'
<1>1. ASSUME NEW t \in TaskIds, NEW who, NEW force, NEW forceClaim, NEW pass, NEW measured,
             NEW s \in TaskIds \cup {NoTask}, Done(t, who, force, forceClaim, pass, measured, s)
      PROVE  Moves /\ EdgesInv' /\ NewestInv'
  <2>1. Exists(t) /\ Complete(t, who, forceClaim, pass, measured, s)
    BY <1>1 DEF Done, Status, Exists
  <2> QED
    BY <2>1, CompleteMoves
<1>2. ASSUME NEW t \in TaskIds, NEW who, NEW s \in TaskIds \cup {NoTask}, DoneMerged(t, who, s)
      PROVE  Moves /\ EdgesInv' /\ NewestInv'
  <2>1. Exists(t) /\ Complete(t, who, FALSE, FALSE, FALSE, s)
    BY <1>2 DEF DoneMerged, Status, Exists
  <2> QED
    BY <2>1, CompleteMoves
<1> QED
  BY <1>1, <1>2, CancelMoves, ModifyMoves, ReopenMoves DEF Closes

LEMMA TriagesMoves == ASSUME BaseInv, TypeInv', Triages PROVE Moves /\ EdgesInv' /\ NewestInv'
BY AcceptMoves, DeclineMoves, DuplicateMoves DEF Triages

LEMMA RelationsMoves ==
    ASSUME BaseInv, TypeInv', Relations
    PROVE  Moves /\ EdgesInv' /\ NewestInv'
BY DepAddMoves, DepRemoveMoves, SetCheckMoves DEF Relations

LEMMA UndoMoves == ASSUME BaseInv, TypeInv', Undo PROVE Moves /\ EdgesInv' /\ NewestInv'
BY RevertStopMoves, RevertCancelMoves, RevertDoneMoves, RevertModifyMoves, RevertAdjustMoves,
   RevertAcceptMoves, RevertDepRemoveMoves DEF Undo

LEMMA QuietMoves ==
    ASSUME BaseInv, UNCHANGED <<row, deps, newest>>
    PROVE  Moves /\ EdgesInv' /\ NewestInv'
BY DEF BaseInv, EdgesInv, NewestInv, Moves, Stays, DependsOn, Exists

LEMMA StepMoves == ASSUME BaseInv, [Next]_vars PROVE Moves /\ BaseInv'
<1>1. TypeInv'
  BY TypeInduction DEF BaseInv
<1>2. CASE UNCHANGED vars
  <2>1. UNCHANGED <<row, deps, newest>>
    BY <1>2 DEF vars
  <2> QED
    BY <2>1, <1>1, QuietMoves DEF BaseInv
<1>3. CASE Tick \/ \E c \in Clients, t \in TaskIds : Read(c, t)
  <2>1. UNCHANGED <<row, deps, newest>>
    BY <1>3 DEF Tick, Read
  <2> QED
    BY <2>1, <1>1, QuietMoves DEF BaseInv
<1>4. CASE Adds \/ Clocks \/ Closes \/ Triages \/ Relations \/ Undo
  BY <1>1, <1>4, AddsMoves, ClocksMoves, ClosesMoves, TriagesMoves, RelationsMoves,
     UndoMoves DEF BaseInv
<1> QED
  BY <1>2, <1>3, <1>4 DEF Next

LEMMA BaseInit == Init => BaseInv
<1> SUFFICES ASSUME Init PROVE BaseInv
  OBVIOUS
<1>1. deps = {} /\ newest.op = "none" /\ TypeInv
  BY InitType DEF Init, Event
<1> QED
  BY <1>1 DEF BaseInv, EdgesInv, NewestInv

LEMMA BaseInvariant == Spec => []BaseInv
<1>1. BaseInv /\ [Next]_vars => BaseInv'
  BY StepMoves
<1> QED
  BY <1>1, BaseInit, PTL DEF Spec

-----------------------------------------------------------------------------
(* What a client holds *)

\* A held row is never ahead of the table, and equal revs mean equal rows. The
\* id of a held row was given out, so a row that exists under it later is the
\* same task: ids are not reused (tasks.id, remove_untouched_spawn).
HeldBehind(c, x) ==
    /\ row[x].status # "unborn"
    /\ Exists(x) =>
         /\ held[c].row.rev <= row[x].rev
         /\ held[c].row.rev = row[x].rev => held[c].row = row[x] /\ held[c].deps = DependsOn(x)
HeldInv == \A c \in Clients, x \in TaskIds : held[c].t = x => HeldBehind(c, x)

\* Closing a task touches neither the edges nor what clients hold.
LEMMA ClosesTouch == ASSUME Closes PROVE deps' = deps /\ held' = held
<1>1. ASSUME NEW t, NEW who, NEW forceClaim, NEW pass, NEW measured, NEW s,
             Complete(t, who, forceClaim, pass, measured, s)
      PROVE  deps' = deps /\ held' = held
  BY <1>1 DEF Complete
<1>2. ASSUME NEW t, NEW who, NEW force, NEW forceClaim, NEW pass, NEW measured, NEW s,
             Done(t, who, force, forceClaim, pass, measured, s)
      PROVE  deps' = deps /\ held' = held
  BY <1>1, <1>2 DEF Done
<1>3. ASSUME NEW t, NEW who, NEW s, DoneMerged(t, who, s)
      PROVE  deps' = deps /\ held' = held
  BY <1>1, <1>3 DEF DoneMerged
<1>4. ASSUME NEW t, NEW who, NEW forceClaim, Cancel(t, who, forceClaim)
      PROVE  deps' = deps /\ held' = held
  BY <1>4 DEF Cancel
<1>5. ASSUME NEW t, NEW set, NEW wait, NEW total, NEW who, NEW forceClaim,
             Modify(t, set, wait, total, who, forceClaim)
      PROVE  deps' = deps /\ held' = held
  BY <1>5 DEF Modify
<1>6. ASSUME NEW t, Reopen(t)
      PROVE  deps' = deps /\ held' = held
  BY <1>6 DEF Reopen
<1> QED
  BY <1>2, <1>3, <1>4, <1>5, <1>6 DEF Closes

LEMMA HeldUntouched ==
    ASSUME Tick \/ Adds \/ Clocks \/ Closes \/ Triages \/ Relations \/ Undo
    PROVE  held' = held
<1>1. Tick => held' = held
  BY DEF Tick
<1>2. Adds => held' = held
  BY DEF Adds, Add
<1>3. Clocks => held' = held
  BY DEF Clocks, GitStart, Start, Stop, Release, Claim, Adjust
<1>4. Closes => held' = held
  BY ClosesTouch
<1>5. Triages => held' = held
  BY DEF Triages, Accept, Decline, Duplicate
<1>6. Relations => held' = held
  BY DEF Relations, DepAdd, DepRemove, SetCheck
<1>7. Undo => held' = held
  BY DEF Undo, RevertStop, RevertCancel, RevertDone, RevertModify, RevertAdjust,
         RevertAccept, RevertDepRemove, Reverted
<1> QED
  BY <1>1, <1>2, <1>3, <1>4, <1>5, <1>6, <1>7

\* Whatever a step does to the rows, what was held before it stays behind them.
LEMMA HeldMoves ==
    ASSUME BaseInv, BaseInv', HeldInv, Moves, NEW c \in Clients, held'[c] = held[c],
           NEW x \in TaskIds, held[c].t = x
    PROVE  HeldBehind(c, x)'
<1>1. HeldBehind(c, x)
  BY DEF HeldInv
<1>2. held[c].row.rev \in Nat /\ row[x].rev \in Nat /\ row'[x].rev \in Nat
  BY ColumnTypes DEF BaseInv, TypeInv, TypeOK, Row
<1>3. Stays(x) \/ Advances(x) \/ Goes(x)
  BY <1>1 DEF Moves, IsBorn, HeldBehind
<1>4. CASE Stays(x)
  BY <1>1, <1>4 DEF Stays, Exists, HeldBehind
<1>5. CASE Advances(x)
  BY <1>1, <1>2, <1>5 DEF Advances, Exists, HeldBehind
<1>6. CASE Goes(x)
  BY <1>1, <1>6 DEF Goes, Exists, HeldBehind
<1> QED
  BY <1>3, <1>4, <1>5, <1>6

LEMMA HeldInduction == BaseInv /\ BaseInv' /\ HeldInv /\ [Next]_vars => HeldInv'
<1> SUFFICES ASSUME BaseInv, BaseInv', HeldInv, [Next]_vars, NEW c \in Clients,
                    NEW x \in TaskIds, held'[c].t = x
             PROVE  HeldBehind(c, x)'
  BY DEF HeldInv
<1>1. Moves
  BY StepMoves
<1>2. CASE held'[c] = held[c]
  BY <1>1, <1>2, HeldMoves
<1>3. CASE UNCHANGED vars
  BY <1>2, <1>3 DEF vars
<1>4. CASE \E reader \in Clients, t \in TaskIds : Read(reader, t)
  <2> PICK reader \in Clients, t \in TaskIds : Read(reader, t)
    BY <1>4
  <2>1. /\ held' = [held EXCEPT ![reader] = [t |-> t, row |-> row[t], deps |-> DependsOn(t)]]
        /\ row' = row /\ deps' = deps /\ Exists(t)
    BY DEF Read
  <2>2. CASE c = reader
    <3>1. held'[c] = [t |-> t, row |-> row[t], deps |-> DependsOn(t)] /\ t = x
      BY <2>1, <2>2 DEF BaseInv, TypeInv, TypeOK
    <3>2. row[x].rev \in Nat
      BY ColumnTypes DEF BaseInv
    <3> QED
      BY <2>1, <3>1, <3>2 DEF HeldBehind, Exists, DependsOn
  <2>3. CASE c # reader
    BY <1>2, <2>1, <2>3 DEF BaseInv, TypeInv, TypeOK
  <2> QED
    BY <2>2, <2>3
<1>5. CASE Tick \/ Adds \/ Clocks \/ Closes \/ Triages \/ Relations \/ Undo
  BY <1>2, <1>5, HeldUntouched
<1> QED
  BY <1>3, <1>4, <1>5 DEF Next

\* The rev protects all of a row and its edges: a client whose expected_rev
\* still matches (guard_rev, task.rs 4814-4819) holds them as they are, whatever
\* calls, cascades and undos ran in between.
THEOREM HeldIsCurrentCorrect == Spec => []HeldIsCurrent
<1>1. Init => HeldInv
  BY IdsAssumption DEF Init, HeldInv
<1>2. BaseInv /\ BaseInv' /\ HeldInv /\ [Next]_vars => HeldInv'
  BY HeldInduction
<1>3. BaseInv /\ HeldInv => HeldIsCurrent
  <2> SUFFICES ASSUME BaseInv, HeldInv, NEW c \in Clients, NEW x, x = held[c].t, x # NoTask,
                      Exists(x), held[c].row.rev = row[x].rev
               PROVE  held[c].row = row[x] /\ held[c].deps = DependsOn(x)
    BY DEF HeldIsCurrent
  <2>1. x \in TaskIds
    BY DEF BaseInv, TypeInv, TypeOK
  <2> QED
    BY <2>1 DEF HeldInv, HeldBehind
<1> QED
  BY <1>1, <1>2, <1>3, BaseInvariant, PTL DEF Spec

-----------------------------------------------------------------------------
(* Occurrences *)

LEMMA SlotInduction == BaseInv /\ SlotFilledOnce /\ [Next]_vars => SlotFilledOnce'
<1> SUFFICES ASSUME BaseInv, SlotFilledOnce, [Next]_vars, NEW x \in TaskIds, NEW y \in TaskIds,
                    Exists(x)', Exists(y)', row'[x].from # NoTask,
                    row'[x].from = row'[y].from, row'[x].due = row'[y].due
             PROVE  x = y
  BY DEF SlotFilledOnce
<1>1. Moves
  BY StepMoves
<1>2. CASE IsBorn(x) \/ IsBorn(y)
  BY <1>2 DEF IsBorn, FillsFreeSlot
<1>3. ASSUME NEW z \in {x, y}, ~IsBorn(z)
      PROVE  Exists(z) /\ row'[z].from = row[z].from /\ row'[z].due = row[z].due
  BY <1>1, <1>3 DEF Moves, Stays, Advances, Goes, Exists
<1> QED
  BY <1>2, <1>3 DEF SlotFilledOnce

\* D191: one row per occurrence (task.rs 1947-1962), however often the task it
\* was spawned from is completed, reopened, undone and completed again.
THEOREM SlotFilledOnceCorrect == Spec => []SlotFilledOnce
<1>1. Init => SlotFilledOnce
  BY DEF Init, SlotFilledOnce, Exists, NoRow, Fresh
<1>2. BaseInv /\ SlotFilledOnce /\ [Next]_vars => SlotFilledOnce'
  BY SlotInduction
<1> QED
  BY <1>1, <1>2, BaseInvariant, PTL DEF Spec

-----------------------------------------------------------------------------
(* Cycles *)

LEMMA FewerEdges ==
    ASSUME Acyclic, deps' \subseteq deps
    PROVE  Acyclic'
<1> SUFFICES ASSUME NEW t \in TaskIds, NEW d \in TaskIds, <<t, d>> \in deps'
             PROVE  ~Reaches(d, t)'
  BY DEF Acyclic, DependsOn
<1>1. PICK R \in SUBSET TaskIds : d \in R /\ Closed(R) /\ t \notin R
  BY DEF Acyclic, DependsOn, Reaches
<1>2. Closed(R)'
  BY <1>1 DEF Closed
<1> QED
  BY <1>1, <1>2 DEF Reaches

\* New edges that all lead into a closed set from outside it make no cycle.
LEMMA EdgesIntoClosed ==
    ASSUME Acyclic, NEW S \in SUBSET TaskIds, Closed(S), NEW E \in SUBSET (TaskIds \X TaskIds),
           deps' \subseteq deps \cup E, \A e \in E : e[1] \notin S /\ e[2] \in S
    PROVE  Acyclic'
<1> SUFFICES ASSUME NEW t \in TaskIds, NEW d \in TaskIds, <<t, d>> \in deps'
             PROVE  ~Reaches(d, t)'
  BY DEF Acyclic, DependsOn
<1>1. Closed(S)'
  BY DEF Closed
<1>2. CASE <<t, d>> \in E
  <2>1. d \in S /\ t \notin S
    BY <1>2
  <2> QED
    BY <1>1, <2>1 DEF Reaches
<1>3. CASE <<t, d>> \in deps
  <2>1. PICK R \in SUBSET TaskIds : d \in R /\ Closed(R) /\ t \notin R
    BY <1>3 DEF Acyclic, DependsOn, Reaches
  <2>2. CASE t \in S
    <3>1. d \in S
      BY <1>3, <2>2 DEF Closed
    <3>2. Closed(R \cap S)'
      BY <2>1 DEF Closed
    <3> QED
      BY <2>1, <3>1, <3>2 DEF Reaches
  <2>3. CASE t \notin S
    <3>1. Closed(R \cup S)'
      BY <2>1 DEF Closed
    <3> QED
      BY <2>1, <2>3, <3>1 DEF Reaches
  <2> QED
    BY <2>2, <2>3
<1> QED
  BY <1>2, <1>3

\* What a task reaches, itself included, is closed.
LEMMA ReachedClosed ==
    ASSUME BaseInv, NEW a \in TaskIds
    PROVE  LET S == {b \in TaskIds : Reaches(a, b)} IN Closed(S) /\ a \in S
<1> DEFINE S == {b \in TaskIds : Reaches(a, b)}
<1>1. a \in S
  BY DEF Reaches
<1>2. ASSUME NEW e \in deps, e[1] \in S
      PROVE  e[2] \in S
  <2>1. e[2] \in TaskIds
    BY DEF BaseInv, TypeInv, TypeOK
  <2>2. ASSUME NEW R \in SUBSET TaskIds, a \in R, Closed(R)
        PROVE  e[2] \in R
    <3>1. e[1] \in R
      BY <1>2, <2>2 DEF Reaches
    <3> QED
      BY <2>2, <3>1 DEF Closed
  <2>3. Reaches(a, e[2])
    BY <2>2 DEF Reaches
  <2> QED
    BY <2>1, <2>3
<1>3. Closed(S)
  BY <1>2 DEF Closed
<1> QED
  BY <1>1, <1>3

\* add_edge's cycle check: an edge whose target does not reach its source.
LEMMA EdgeAdded ==
    ASSUME BaseInv, Acyclic, NEW t \in TaskIds, NEW d \in TaskIds, ~Reaches(d, t),
           deps' = deps \cup {<<t, d>>}
    PROVE  Acyclic'
<1> DEFINE S == {b \in TaskIds : Reaches(d, b)}
<1>1. Closed(S) /\ d \in S /\ t \notin S /\ S \in SUBSET TaskIds
  BY ReachedClosed
<1> HIDE DEF S
<1>2. {<<t, d>>} \in SUBSET (TaskIds \X TaskIds) /\ deps' \subseteq deps \cup {<<t, d>>}
      /\ \A e \in {<<t, d>>} : e[1] \notin S /\ e[2] \in S
  BY <1>1
<1> QED
  BY <1>1, <1>2, EdgesIntoClosed

LEMMA AcyclicInduction == BaseInv /\ Acyclic /\ [Next]_vars => Acyclic'
<1> SUFFICES ASSUME BaseInv, Acyclic, [Next]_vars PROVE Acyclic'
  OBVIOUS
<1>1. CASE UNCHANGED vars \/ Tick \/ \E c \in Clients, t \in TaskIds : Read(c, t)
  BY <1>1, FewerEdges DEF vars, Tick, Read
<1>2. CASE Adds
  <2> PICK t \in Added, status \in Births, wait \in Waits, due \in Dues,
           rule \in Periods \cup {0}, checked \in Checks,
           needs \in SUBSET {d \in TaskIds : \E e \in Edges : d = e[2]} :
           Add(t, status, wait, due, rule, checked, needs)
    BY <1>2 DEF Adds
  <2>1. t \in TaskIds /\ ~Exists(t) /\ (\A d \in needs : Exists(d))
        /\ deps' = deps \cup ({t} \X needs)
    BY IdsAssumption DEF Add, Exists
  <2>2. Closed(TaskIds \ {t})
    BY <2>1 DEF Closed, BaseInv, EdgesInv, TypeInv, TypeOK
  <2> DEFINE E == {t} \X needs
             S == TaskIds \ {t}
  <2>3. E \in SUBSET (TaskIds \X TaskIds) /\ S \in SUBSET TaskIds
        /\ \A e \in E : e[1] \notin S /\ e[2] \in S
    BY <2>1
  <2>4. deps' \subseteq deps \cup E /\ Closed(S)
    BY <2>1, <2>2
  <2> HIDE DEF E, S
  <2> QED
    BY <2>3, <2>4, EdgesIntoClosed
<1>3. CASE Clocks
  <2>1. deps' = deps
    BY <1>3 DEF Clocks, GitStart, Start, Stop, Release, Claim, Adjust
  <2> QED
    BY <2>1, FewerEdges
<1>4. CASE Closes
  <2>1. deps' = deps
    BY <1>4, ClosesTouch
  <2> QED
    BY <2>1, FewerEdges
<1>5. CASE Triages
  <2>1. ASSUME NEW t \in TaskIds, NEW original \in TaskIds, NEW who, NEW forceClaim,
               Duplicate(t, original, who, forceClaim)
        PROVE  Acyclic'
    <3> DEFINE S == {b \in TaskIds : Reaches(original, b)}
               E == Repointed(t, original) \X {original}
    <3>1. Closed(S) /\ original \in S /\ S \in SUBSET TaskIds
      BY ReachedClosed
    <3>2. E \in SUBSET (TaskIds \X TaskIds) /\ \A e \in E : e[1] \notin S /\ e[2] = original
      BY DEF Repointed, Dependents
    <3>3. deps' \subseteq deps \cup E
      BY <2>1 DEF Duplicate
    <3> HIDE DEF S, E
    <3> QED
      BY <3>1, <3>2, <3>3, EdgesIntoClosed
  <2>2. (\E t \in TaskIds : \E original \in TaskIds, who \in Holders, forceClaim \in Forces :
            Duplicate(t, original, who, forceClaim)) \/ deps' = deps
    BY <1>5 DEF Triages, Accept, Decline
  <2> QED
    BY <2>1, <2>2, FewerEdges
<1>6. CASE Relations
  <2>1. ASSUME NEW t \in TaskIds, NEW d \in TaskIds, DepAdd(t, d)
        PROVE  Acyclic'
    BY <2>1, EdgeAdded DEF DepAdd
  <2>2. (\E t, d \in TaskIds : DepAdd(t, d)) \/ deps' \subseteq deps
    BY <1>6 DEF Relations, DepRemove, SetCheck
  <2> QED
    BY <2>1, <2>2, FewerEdges
<1>7. CASE Undo
  <2>1. ASSUME NEW t \in TaskIds, RevertDepRemove(t)
        PROVE  Acyclic'
    <3>1. newest.dep \in TaskIds /\ ~Reaches(newest.dep, t)
          /\ deps' = deps \cup {<<t, newest.dep>>}
      BY <2>1, NewestFields DEF RevertDepRemove, BaseInv
    <3> QED
      BY <3>1, EdgeAdded
  <2>2. (\E t \in TaskIds : RevertDepRemove(t)) \/ deps' = deps
    BY <1>7 DEF Undo, RevertStop, RevertCancel, RevertDone, RevertModify, RevertAdjust,
                RevertAccept
  <2> QED
    BY <2>1, <2>2, FewerEdges
<1> QED
  BY <1>1, <1>2, <1>3, <1>4, <1>5, <1>6, <1>7 DEF Next

\* No task waits for itself through whatever chain of edges: not after an add,
\* the re-pointing of a duplicate's edges or an undo that puts an edge back
\* (reaches, called from dependency.rs, task.rs and undo.rs).
THEOREM AcyclicCorrect == Spec => []Acyclic
<1>1. Init => Acyclic
  BY DEF Init, Acyclic, DependsOn
<1>2. BaseInv /\ Acyclic /\ [Next]_vars => Acyclic'
  BY AcyclicInduction
<1> QED
  BY <1>1, <1>2, BaseInvariant, PTL DEF Spec

-----------------------------------------------------------------------------
(* Clocks and claims.                                                      *)
(*                                                                         *)
(* OwnersAreNamed leaves out one call: a start whose holder is the shell's *)
(* own identity beside an actor with another name. Its clock runs under    *)
(* the actor's name, not under the identity whose claims and clocks the    *)
(* start was checked against (task.rs 1149-1157).                          *)


OwnersAreNamed ==
    \A call \in StartCalls : Identity(call) = User => call.actor \in {NoOne, User}
\* Nobody asks for a second clock.
NobodyKeeps == Keeps \subseteq {FALSE} /\ Git = FALSE

\* A closed task has no claim, and a live claim is its clock owner's.
RowsSettled ==
    /\ \A t \in TaskIds : Terminal(t) => row[t].until = 0
    /\ LiveClaimIsTheClocks

\* So is the claim that an undo of the newest event would bring back.
ClaimInv ==
    /\ RowsSettled
    /\ newest.op = "stop" /\ row[newest.t].until > now
            => row[newest.t].by = ClockOwner(newest.t)
    /\ newest.op \in {"done", "cancel", "modify"} =>
          /\ newest.from \notin {"done", "cancelled"}
          /\ newest.from = "active" /\ newest.until > now => newest.by = ClockOwner(newest.t)
    /\ newest.op = "modify" /\ "status" \notin newest.cols => newest.until = 0

\* One clock per holder, the one that an undo of a stop starts again included.
OneInv == OneClockPerHolder /\ (newest.op = "stop" => NoOtherActive(newest.t))

\* What every step keeps.
Kept == ClaimInv' /\ (OneInv => OneInv')

-----------------------------------------------------------------------------
\* One row is written while the clock stands still and no clock changes hands.
LEMMA WriteSettles ==
    ASSUME BaseInv, ClaimInv, NEW t \in TaskIds, NEW r, row' = [row EXCEPT ![t] = r],
           UNCHANGED <<now, start>>,
           r.status \in {"done", "cancelled"} => r.until = 0,
           r.status = "active" /\ r.until > now => r.by = ClockOwner(t),
           r.status = "active" => Running(t) \/ NoOtherActive(t)
    PROVE  RowsSettled' /\ (OneClockPerHolder => OneClockPerHolder')
<1>1. /\ row'[t] = r /\ \A x \in TaskIds \ {t} : row'[x] = row[x]
      /\ \A x \in TaskIds : ClockOwner(x)' = ClockOwner(x)
  BY DEF BaseInv, TypeInv, TypeOK, ClockOwner, ClockNamed
<1>2. RowsSettled'
  BY <1>1 DEF ClaimInv, RowsSettled, LiveClaimIsTheClocks, Terminal, Running, LiveClaim
<1>3. OneClockPerHolder => OneClockPerHolder'
  BY <1>1 DEF OneClockPerHolder, NoOtherActive, Running
<1> QED
  BY <1>2, <1>3

\* An event that leaves nothing of a clock to an undo.
LEMMA QuietKept ==
    ASSUME RowsSettled', OneClockPerHolder => OneClockPerHolder',
           newest'.op \notin {"stop", "done", "cancel", "modify"}
    PROVE  Kept
BY DEF Kept, ClaimInv, OneInv

\* One row is written with its clock and its claim as they were, or with no clock.
LEMMA CalmWrite ==
    ASSUME BaseInv, ClaimInv, NEW t \in TaskIds, NEW r, row' = [row EXCEPT ![t] = r],
           UNCHANGED <<now, start>>,
           newest'.op \notin {"stop", "done", "cancel", "modify"},
           \/ /\ r.status = row[t].status /\ r.by = row[t].by /\ r.until = row[t].until
           \/ r.status \in {"pending", "triage"}
           \/ r.status \in {"done", "cancelled"} /\ r.until = 0
    PROVE  Kept
<1>1. /\ r.status \in {"done", "cancelled"} => r.until = 0
      /\ r.status = "active" /\ r.until > now => r.by = ClockOwner(t)
      /\ r.status = "active" => Running(t) \/ NoOtherActive(t)
  BY DEF ClaimInv, RowsSettled, LiveClaimIsTheClocks, Terminal, Running, LiveClaim
<1>2. RowsSettled' /\ (OneClockPerHolder => OneClockPerHolder')
  BY <1>1, WriteSettles
<1> QED
  BY <1>2, QuietKept

-----------------------------------------------------------------------------
LEMMA TickKept == ASSUME BaseInv, ClaimInv, Tick PROVE Kept
<1>1. now \in Nat /\ now' = now + 1 /\ row' = row /\ start' = start /\ newest' = newest
  BY DEF Tick, BaseInv, TypeInv, TypeOK
<1>2. \A x \in TaskIds : row[x].until \in Nat
  BY ColumnTypes DEF BaseInv
<1>3. newest.until \in Nat /\ (newest.op # "none" => newest.t \in TaskIds)
  BY NewestFields DEF BaseInv, NewestInv
<1>4. \A x : ClockOwner(x)' = ClockOwner(x)
  BY <1>1 DEF ClockOwner, ClockNamed
<1>5. RowsSettled'
  BY <1>1, <1>2, <1>4 DEF ClaimInv, RowsSettled, LiveClaimIsTheClocks, Terminal, Running, LiveClaim
<1>6. ClaimInv'
  BY <1>1, <1>2, <1>3, <1>4, <1>5 DEF ClaimInv
<1>7. OneInv => OneInv'
  BY <1>1, <1>4 DEF OneInv, OneClockPerHolder, NoOtherActive, Running
<1> QED
  BY <1>6, <1>7 DEF Kept

LEMMA StillKept == ASSUME ClaimInv, UNCHANGED <<now, row, start, newest>> PROVE Kept
BY DEF Kept, ClaimInv, OneInv, RowsSettled, LiveClaimIsTheClocks, OneClockPerHolder,
       NoOtherActive, Terminal, Running, LiveClaim, ClockOwner, ClockNamed

LEMMA AddKept ==
    ASSUME BaseInv, ClaimInv, NEW t \in TaskIds, NEW status \in Births, NEW wait, NEW due,
           NEW rule, NEW checked, NEW needs, Add(t, status, wait, due, rule, checked, needs)
    PROVE  Kept
<1> DEFINE rev == 1 + Cardinality(needs) + (IF checked THEN 1 ELSE 0)
           r == Fresh(status, wait, due, rule, IF checked THEN "open" ELSE "none", NoTask, rev)
<1>1. row' = [row EXCEPT ![t] = r] /\ UNCHANGED <<now, start>> /\ newest'.op = "add"
  BY DEF Add, Event
<1>2. r.status \in {"pending", "triage"}
  BY CallsAssumption DEF Fresh
<1> HIDE DEF r
<1> QED
  BY <1>1, <1>2, CalmWrite

\* Whoever a start resolves to owns the clock that it starts.
LEMMA StarterOwns ==
    ASSUME BaseInv, NEW t \in TaskIds,
           NEW call \in [holder : Holders \cup {NoOne}, actor : Holders \cup {NoOne}],
           Identity(call) = User => call.actor \in {NoOne, User},
           NEW keep, Start(t, call, keep)
    PROVE  ClockOwner(t)' = Identity(call)
<1> DEFINE starter == Identity(call)
<1>1. starter \in Holders /\ starter # NoOne /\ User # NoOne
  BY IdsAssumption DEF Identity
<1> HIDE DEF starter
<1>2. start' = [start EXCEPT ![t] = [holder |-> IF starter # User THEN starter ELSE NoOne,
                                     actor |-> call.actor]]
  BY DEF Start, starter
<1>3. start'[t] = [holder |-> IF starter # User THEN starter ELSE NoOne, actor |-> call.actor]
  BY <1>2 DEF BaseInv, TypeInv, TypeOK
<1>4. start'[t].holder = (IF starter # User THEN starter ELSE NoOne)
      /\ start'[t].actor = call.actor
  BY <1>3
<1> QED
  BY <1>1, <1>4 DEF ClockOwner, ClockNamed, starter

LEMMA StartKept ==
    ASSUME BaseInv, ClaimInv, NEW t \in TaskIds, NEW keep,
           NEW call \in [holder : Holders \cup {NoOne}, actor : Holders \cup {NoOne}],
           Identity(call) = User => call.actor \in {NoOne, User},
           Start(t, call, keep)
    PROVE  ClaimInv' /\ (OneInv /\ keep = FALSE => OneInv')
<1> DEFINE starter == Identity(call)
           until == IF LiveClaim(t) /\ now + DefaultLease > row[t].until
                    THEN now + DefaultLease ELSE row[t].until
           stopped == IF keep THEN {} ELSE AutoStopped(starter)
           r == [row[t] EXCEPT !.status = "active", !.since = now,
                               !.until = until, !.rev = row[t].rev + 1]
<1>1. /\ row' = [a \in TaskIds |-> IF a = t THEN r
                                   ELSE IF a \in stopped THEN StoppedRow(a) ELSE row[a]]
      /\ now' = now /\ newest'.op = "start" /\ ~LiveElsewhere(t, starter)
  BY DEF Start, Event
<1>2. \A x \in TaskIds \ {t} : ClockOwner(x)' = ClockOwner(x)
  <2>1. \A x \in TaskIds \ {t} : start'[x] = start[x]
    BY DEF Start, BaseInv, TypeInv, TypeOK
  <2> QED
    BY <2>1 DEF ClockOwner, ClockNamed
<1>3. ClockOwner(t)' = starter
  BY StarterOwns
<1>4. until > now => LiveClaim(t)
  BY DEF LiveClaim
<1> HIDE DEF until, starter
<1>5. r.status = "active" /\ r.by = row[t].by /\ r.until = until
  BY ColumnTypes DEF BaseInv, Row
<1> HIDE DEF r, stopped
<1>6. row'[t] = r /\ \A x \in TaskIds \ {t} :
          \/ row'[x] = row[x] /\ x \notin stopped
          \/ row'[x].status = "pending"
  BY <1>1, StoppedFields DEF BaseInv
<1>7. RowsSettled'
  BY <1>1, <1>2, <1>3, <1>4, <1>5, <1>6 DEF ClaimInv, RowsSettled, LiveClaimIsTheClocks,
     Terminal, Running, LiveClaim, LiveElsewhere
<1>8. ClaimInv'
  BY <1>1, <1>7 DEF ClaimInv
<1>9. ASSUME OneInv, keep = FALSE PROVE OneInv'
  <2>1. \A x \in TaskIds : Running(x) /\ ClockOwner(x) = starter => x \in stopped
    BY <1>9 DEF AutoStopped, stopped
  <2>2. \A x \in TaskIds \ {t} : Running(x)' => Running(x) /\ ClockOwner(x)' # ClockOwner(t)'
    BY <2>1, <1>2, <1>3, <1>6 DEF Running
  <2>3. OneClockPerHolder'
    BY <2>2, <1>2, <1>9 DEF OneInv, OneClockPerHolder
  <2> QED
    BY <2>3, <1>1 DEF OneInv
<1> QED
  BY <1>8, <1>9

LEMMA StopKept ==
    ASSUME BaseInv, ClaimInv, NEW t \in TaskIds, NEW who, NEW force, Stop(t, who, force)
    PROVE  Kept
<1> DEFINE r == StoppedRow(t)
<1>1. /\ row' = [row EXCEPT ![t] = r] /\ UNCHANGED <<now, start>> /\ Running(t)
      /\ newest'.op = "stop" /\ newest'.t = t
  BY DEF Stop, Event
<1>2. r.status = "pending" /\ r.by = row[t].by /\ r.until = row[t].until
  BY StoppedFields DEF BaseInv
<1> HIDE DEF r
<1>3. RowsSettled' /\ (OneClockPerHolder => OneClockPerHolder')
  BY <1>1, <1>2, WriteSettles
<1>4. /\ row'[t] = r /\ \A x \in TaskIds \ {t} : row'[x] = row[x]
      /\ \A x \in TaskIds : ClockOwner(x)' = ClockOwner(x)
  BY <1>1 DEF BaseInv, TypeInv, TypeOK, ClockOwner, ClockNamed
<1>5. ClaimInv'
  BY <1>1, <1>2, <1>3, <1>4 DEF ClaimInv, RowsSettled, LiveClaimIsTheClocks, LiveClaim
<1>6. OneInv => OneInv'
  BY <1>1, <1>3, <1>4 DEF OneInv, OneClockPerHolder, NoOtherActive, Running
<1> QED
  BY <1>5, <1>6 DEF Kept

LEMMA ClaimKept ==
    ASSUME BaseInv, ClaimInv, NEW t \in TaskIds, NEW who \in Holders, NEW lease,
           Claim(t, who, lease)
    PROVE  Kept
<1> DEFINE until == now + lease
           r == [Bumped(t) EXCEPT !.by = who, !.until = until]
<1>1. /\ row' = [row EXCEPT ![t] = r] /\ UNCHANGED <<now, start>> /\ newest'.op = "claim"
      /\ ~Terminal(t) /\ (Running(t) => ClockOwner(t) = who)
  BY DEF Claim, Open, ClaimFitsClock, Event
<1> HIDE DEF until
<1>2. r.status = row[t].status /\ r.by = who
  BY BumpedFields, BumpedType DEF BaseInv, Row
<1> HIDE DEF r
<1>3. RowsSettled' /\ (OneClockPerHolder => OneClockPerHolder')
  BY <1>1, <1>2, WriteSettles DEF Terminal, Running
<1> QED
  BY <1>1, <1>3, QuietKept

LEMMA ReleaseKept ==
    ASSUME BaseInv, ClaimInv, NEW t \in TaskIds, NEW who, NEW force, Release(t, who, force)
    PROVE  Kept
<1> DEFINE r == [Bumped(t) EXCEPT !.by = NoOne, !.until = 0]
<1>1. row' = [row EXCEPT ![t] = r] /\ UNCHANGED <<now, start>> /\ newest'.op = "release"
  BY DEF Release, Event
<1>2. r.status = row[t].status /\ r.until = 0 /\ now \in Nat
  BY BumpedFields, BumpedType DEF BaseInv, Row, TypeInv, TypeOK
<1> HIDE DEF r
<1>3. ~(r.until > now) /\ (r.status = "active" => Running(t))
  BY <1>2 DEF Running
<1>4. RowsSettled' /\ (OneClockPerHolder => OneClockPerHolder')
  BY <1>1, <1>2, <1>3, WriteSettles
<1> QED
  BY <1>1, <1>4, QuietKept

LEMMA AdjustKept ==
    ASSUME BaseInv, ClaimInv, NEW t \in TaskIds, NEW delta, Adjust(t, delta)
    PROVE  Kept
<1> DEFINE r == [Bumped(t) EXCEPT !.tracked = row[t].tracked + delta,
                               !.adj = row[t].adj + delta]
<1>1. row' = [row EXCEPT ![t] = r] /\ UNCHANGED <<now, start>> /\ newest'.op = "adjust_tracked"
  BY DEF Adjust, Event
<1>2. r.status = row[t].status /\ r.by = row[t].by /\ r.until = row[t].until
  BY BumpedFields, BumpedType DEF BaseInv, Row
<1> HIDE DEF r
<1> QED
  BY <1>1, <1>2, CalmWrite

LEMMA ReopenKept ==
    ASSUME BaseInv, ClaimInv, NEW t \in TaskIds, Reopen(t)
    PROVE  Kept
<1> DEFINE r == [Bumped(t) EXCEPT !.status = ReopensAs(t)]
<1>1. row' = [row EXCEPT ![t] = r] /\ UNCHANGED <<now, start>> /\ newest'.op = "reopen"
  BY DEF Reopen, Event
<1>2. r.status \in {"pending", "triage"}
  BY BumpedFields, BumpedType DEF BaseInv, Row, ReopensAs
<1> HIDE DEF r
<1> QED
  BY <1>1, <1>2, CalmWrite

LEMMA AcceptKept ==
    ASSUME BaseInv, ClaimInv, NEW t \in TaskIds, Accept(t)
    PROVE  Kept
<1> DEFINE r == [Bumped(t) EXCEPT !.status = "pending"]
<1>1. row' = [row EXCEPT ![t] = r] /\ UNCHANGED <<now, start>> /\ newest'.op = "accept"
  BY DEF Accept, Event
<1>2. r.status = "pending"
  BY BumpedFields, BumpedType DEF BaseInv, Row
<1> HIDE DEF r
<1> QED
  BY <1>1, <1>2, CalmWrite

LEMMA SetCheckKept ==
    ASSUME BaseInv, ClaimInv, NEW t \in TaskIds, NEW check, SetCheck(t, check)
    PROVE  Kept
<1> DEFINE r == [Bumped(t) EXCEPT !.check = check]
<1>1. row' = [row EXCEPT ![t] = r] /\ UNCHANGED <<now, start>> /\ newest'.op = "check"
  BY DEF SetCheck, Event
<1>2. r.status = row[t].status /\ r.by = row[t].by /\ r.until = row[t].until
  BY BumpedFields, BumpedType DEF BaseInv, Row
<1> HIDE DEF r
<1> QED
  BY <1>1, <1>2, CalmWrite

LEMMA DepAddKept ==
    ASSUME BaseInv, ClaimInv, NEW t \in TaskIds, NEW d, DepAdd(t, d)
    PROVE  Kept
<1> DEFINE r == Bumped(t)
<1>1. row' = [row EXCEPT ![t] = r] /\ UNCHANGED <<now, start>> /\ newest'.op = "dependency.add"
  BY DEF DepAdd, Event
<1>2. r.status = row[t].status /\ r.by = row[t].by /\ r.until = row[t].until
  BY BumpedFields DEF BaseInv
<1> HIDE DEF r
<1> QED
  BY <1>1, <1>2, CalmWrite

LEMMA DepRemoveKept ==
    ASSUME BaseInv, ClaimInv, NEW t \in TaskIds, NEW d, DepRemove(t, d)
    PROVE  Kept
<1> DEFINE r == Bumped(t)
<1>1. row' = [row EXCEPT ![t] = r] /\ UNCHANGED <<now, start>> /\ newest'.op = "dependency.remove"
  BY DEF DepRemove, Event
<1>2. r.status = row[t].status /\ r.by = row[t].by /\ r.until = row[t].until
  BY BumpedFields DEF BaseInv
<1> HIDE DEF r
<1> QED
  BY <1>1, <1>2, CalmWrite

\* A closed row has no clock; its event remembers the claim that went with it.
LEMMA ClosedKept ==
    ASSUME BaseInv, ClaimInv, NEW t \in TaskIds, NEW r, row' = [row EXCEPT ![t] = r],
           UNCHANGED <<now, start>>, Open(t),
           r.status \in {"done", "cancelled"}, r.until = 0,
           newest'.op \in {"done", "cancel", "modify"}, newest'.t = t,
           newest'.from = row[t].status, newest'.by = row[t].by, newest'.until = row[t].until,
           newest'.op = "modify" => "status" \in newest'.cols
    PROVE  Kept
<1>1. RowsSettled' /\ (OneClockPerHolder => OneClockPerHolder')
  BY WriteSettles
<1>2. ClockOwner(t)' = ClockOwner(t)
  BY DEF ClockOwner, ClockNamed
<1>3. row[t].status \notin {"done", "cancelled"}
      /\ (row[t].status = "active" /\ row[t].until > now => row[t].by = ClockOwner(t))
  BY DEF ClaimInv, RowsSettled, LiveClaimIsTheClocks, Running, LiveClaim, Open, Terminal
<1>4. ClaimInv'
  BY <1>1, <1>2, <1>3 DEF ClaimInv
<1> QED
  BY <1>1, <1>4 DEF Kept, OneInv

LEMMA ClosingEventKeeps ==
    ASSUME BaseInv, NEW op \in Ops, NEW t \in TaskIds
    PROVE  LET e == ClosingEvent(op, t)
           IN  /\ e.op = op /\ e.t = t /\ e.from = row[t].status
               /\ e.by = row[t].by /\ e.until = row[t].until
BY EventType DEF ClosingEvent, Event

LEMMA CancelKept ==
    ASSUME BaseInv, ClaimInv, NEW t \in TaskIds, NEW who, NEW forceClaim,
           Cancel(t, who, forceClaim)
    PROVE  Kept
<1> DEFINE r == ClosedRow(t, "cancelled")
<1>1. /\ row' = [row EXCEPT ![t] = r] /\ UNCHANGED <<now, start>> /\ Open(t)
      /\ newest' = ClosingEvent("cancel", t) /\ "cancel" \in Ops
  BY DEF Cancel, Ops
<1>2. r.status = "cancelled" /\ r.until = 0
  BY ClosedFields, Literals DEF BaseInv
<1> HIDE DEF r
<1>3. /\ newest'.op = "cancel" /\ newest'.t = t /\ newest'.from = row[t].status
      /\ newest'.by = row[t].by /\ newest'.until = row[t].until
  BY <1>1, ClosingEventKeeps
<1> QED
  BY <1>1, <1>2, <1>3, ClosedKept

LEMMA DeclineKept ==
    ASSUME BaseInv, ClaimInv, NEW t \in TaskIds, NEW who, NEW forceClaim, NEW reason,
           Decline(t, who, forceClaim, reason)
    PROVE  Kept
<1> DEFINE closed == ClosedRow(t, "cancelled")
           rev == row[t].rev + (IF reason THEN 2 ELSE 1)
           r == [closed EXCEPT !.rev = rev]
<1>1. /\ row' = [row EXCEPT ![t] = r] /\ UNCHANGED <<now, start>> /\ Open(t)
      /\ newest' = ClosingEvent("cancel", t) /\ "cancel" \in Ops
  BY DEF Decline, Ops, Open, Exists, Terminal
<1>2. closed \in Row /\ closed.status = "cancelled" /\ closed.until = 0
  BY ClosedFields, ClosedRowType, Literals DEF BaseInv
<1> HIDE DEF closed, rev
<1>3. r.status = "cancelled" /\ r.until = 0
  BY <1>2 DEF Row
<1> HIDE DEF r
<1>4. /\ newest'.op = "cancel" /\ newest'.t = t /\ newest'.from = row[t].status
      /\ newest'.by = row[t].by /\ newest'.until = row[t].until
  BY <1>1, ClosingEventKeeps
<1> QED
  BY <1>1, <1>3, <1>4, ClosedKept

LEMMA ModifyKept ==
    ASSUME BaseInv, ClaimInv, NEW t \in TaskIds, NEW set \in SUBSET Columns, NEW wait \in Waits,
           NEW total \in Totals, NEW who, NEW forceClaim,
           Modify(t, set, wait, total, who, forceClaim)
    PROVE  Kept
<1> DEFINE r == ModifiedRow(t, set, wait, total)
<1>1. row' = [row EXCEPT ![t] = r] /\ UNCHANGED <<now, start>>
      /\ ("status" \in set => Open(t))
  BY DEF Modify
<1>2. /\ newest'.op = "modify" /\ newest'.t = t /\ newest'.cols = Written(t, set)
      /\ newest'.from = (IF "status" \in set THEN row[t].status ELSE "unborn")
      /\ newest'.by = (IF "status" \in set THEN row[t].by ELSE NoOne)
      /\ newest'.until = (IF "status" \in set THEN row[t].until ELSE 0)
  BY DEF Modify, ModifyEvent, Event
<1>3. "status" \in Written(t, set) <=> "status" \in set
  BY DEF Written
<1> HIDE DEF r
<1>4. /\ "status" \in set => r.status = "cancelled" /\ r.until = 0
      /\ "status" \notin set => /\ r.status = row[t].status /\ r.by = row[t].by
                                /\ r.until = row[t].until
  BY ModifiedFields DEF BaseInv, r
<1>5. CASE "status" \in set
  BY <1>1, <1>2, <1>3, <1>4, <1>5, ClosedKept
<1>6. CASE "status" \notin set
  <2>1. /\ r.status \in {"done", "cancelled"} => r.until = 0
        /\ r.status = "active" /\ r.until > now => r.by = ClockOwner(t)
        /\ r.status = "active" => Running(t)
    BY <1>4, <1>6 DEF ClaimInv, RowsSettled, LiveClaimIsTheClocks, Terminal, Running, LiveClaim
  <2>2. RowsSettled' /\ (OneClockPerHolder => OneClockPerHolder')
    BY <1>1, <2>1, WriteSettles
  <2> QED
    BY <1>2, <1>3, <1>6, <2>2 DEF Kept, ClaimInv, OneInv
<1> QED
  BY <1>5, <1>6

LEMMA CompleteKept ==
    ASSUME BaseInv, ClaimInv, NEW t \in TaskIds, NEW who, NEW forceClaim, NEW pass,
           NEW measured, NEW s \in TaskIds \cup {NoTask}, row[t].status \in {"pending", "active"},
           Complete(t, who, forceClaim, pass, measured, s)
    PROVE  Kept
<1> DEFINE check == IF pass THEN "passed" ELSE row[t].check
           closed == ClosedRow(t, "done")
           r == [closed EXCEPT !.check = check]
<1>1. /\ row' = [x \in TaskIds |-> IF x = t THEN r ELSE IF x = s THEN SpawnedRow(t) ELSE row[x]]
      /\ UNCHANGED <<now, start>>
  BY DEF Complete
<1>2. closed \in Row /\ closed.status = "done" /\ closed.until = 0
  BY ClosedFields, ClosedRowType, Literals DEF BaseInv
<1> HIDE DEF closed, check
<1>3. r.status = "done" /\ r.until = 0
  BY <1>2 DEF Row
<1> HIDE DEF r
<1>4. SpawnedRow(t).status = "pending"
  BY DEF SpawnedRow, Fresh
<1>5. \A x \in TaskIds : ClockOwner(x)' = ClockOwner(x)
  BY <1>1 DEF ClockOwner, ClockNamed
<1>6. \A x \in TaskIds : \/ row'[x] = row[x]
                         \/ row'[x].status = "pending"
                         \/ row'[x].status = "done" /\ row'[x].until = 0
  BY <1>1, <1>3, <1>4
<1>7. RowsSettled'
  BY <1>1, <1>5, <1>6
     DEF ClaimInv, RowsSettled, LiveClaimIsTheClocks, Terminal, Running, LiveClaim
<1>8. /\ newest'.op = "done" /\ newest'.t = t /\ newest'.from = row[t].status
      /\ newest'.by = row[t].by /\ newest'.until = row[t].until
  <2>1. ClosingEvent("done", t) \in Events /\ "done" \in Ops
    BY ClosingEventType DEF Ops, BaseInv
  <2> DEFINE e == ClosingEvent("done", t)
  <2>2. e.op = "done" /\ e.t = t /\ e.from = row[t].status /\ e.by = row[t].by
        /\ e.until = row[t].until
    BY <2>1, ClosingEventKeeps
  <2>3. newest' = [e EXCEPT !.check = row[t].check, !.spawn = s, !.measured = measured]
    BY DEF Complete
  <2> HIDE DEF e
  <2> QED
    BY <2>1, <2>2, <2>3 DEF Events, e
<1>9. row[t].status = "active" /\ row[t].until > now => row[t].by = ClockOwner(t)
  BY DEF ClaimInv, RowsSettled, LiveClaimIsTheClocks, Running, LiveClaim
<1>10. ClaimInv'
  BY <1>1, <1>5, <1>7, <1>8, <1>9 DEF ClaimInv
<1>11. OneInv => OneInv'
  BY <1>5, <1>6, <1>8 DEF OneInv, OneClockPerHolder, Running
<1> QED
  BY <1>10, <1>11 DEF Kept

LEMMA DuplicateKept ==
    ASSUME BaseInv, ClaimInv, NEW t \in TaskIds, NEW original \in TaskIds, NEW who,
           NEW forceClaim, Duplicate(t, original, who, forceClaim)
    PROVE  Kept
<1> DEFINE new(x) == DependentRow(x, x \in Repointed(t, original))
<1>1. /\ row' = [x \in TaskIds |-> IF x = t THEN ClosedRow(t, "cancelled")
                                   ELSE IF x \in Dependents(t) THEN new(x) ELSE row[x]]
      /\ UNCHANGED <<now, start>> /\ newest'.op = "duplicate"
  BY DEF Duplicate, Event
<1>2. \A x \in TaskIds : /\ new(x).status = row[x].status /\ new(x).by = row[x].by
                         /\ new(x).until = row[x].until
  BY DependentFields DEF BaseInv
<1>3. ClosedRow(t, "cancelled").status = "cancelled" /\ ClosedRow(t, "cancelled").until = 0
  BY ClosedFields, Literals DEF BaseInv
<1> HIDE DEF new
<1>4. \A x \in TaskIds :
         \/ /\ row'[x].status = row[x].status /\ row'[x].by = row[x].by
            /\ row'[x].until = row[x].until
         \/ row'[x].status = "cancelled" /\ row'[x].until = 0
  BY <1>1, <1>2, <1>3
<1>5. \A x \in TaskIds : ClockOwner(x)' = ClockOwner(x)
  BY <1>1 DEF ClockOwner, ClockNamed
<1>6. RowsSettled'
  BY <1>1, <1>4, <1>5
     DEF ClaimInv, RowsSettled, LiveClaimIsTheClocks, Terminal, Running, LiveClaim
<1>7. OneClockPerHolder => OneClockPerHolder'
  BY <1>4, <1>5 DEF OneClockPerHolder, Running
<1> QED
  BY <1>1, <1>6, <1>7, QuietKept

-----------------------------------------------------------------------------
LEMMA RevertedKept ==
    ASSUME BaseInv, ClaimInv, NEW t \in TaskIds, NEW r \in Row, Reverted(t, r),
           r.status \in {"done", "cancelled"} => r.until = 0,
           r.status = "active" /\ r.until > now => r.by = ClockOwner(t),
           OneInv /\ r.status = "active" => Running(t) \/ NoOtherActive(t)
    PROVE  Kept
<1> DEFINE q == [r EXCEPT !.rev = r.rev + 1]
<1>1. row' = [row EXCEPT ![t] = q] /\ UNCHANGED <<now, start>> /\ newest'.op = "undo"
  BY DEF Reverted, Event
<1>2. q.status = r.status /\ q.by = r.by /\ q.until = r.until
  BY DEF Row
<1> HIDE DEF q
<1>3. row'[t] = q /\ (\A x \in TaskIds \ {t} : row'[x] = row[x])
      /\ \A x \in TaskIds : ClockOwner(x)' = ClockOwner(x)
  BY <1>1 DEF BaseInv, TypeInv, TypeOK, ClockOwner, ClockNamed
<1>4. RowsSettled'
  BY <1>1, <1>2, <1>3
     DEF ClaimInv, RowsSettled, LiveClaimIsTheClocks, Terminal, Running, LiveClaim
<1>5. OneInv => OneInv'
  BY <1>1, <1>2, <1>3 DEF OneInv, OneClockPerHolder, NoOtherActive, Running
<1> QED
  BY <1>1, <1>4, <1>5 DEF Kept, ClaimInv

LEMMA RevertStopKept ==
    ASSUME BaseInv, ClaimInv, NEW t \in TaskIds, RevertStop(t)
    PROVE  Kept
<1> DEFINE since == newest.at - newest.secs
           tracked == row[t].tracked - newest.secs
           r == [row[t] EXCEPT !.status = "active", !.since = since, !.tracked = tracked]
<1>1. since \in Nat /\ tracked \in Nat /\ row[t] \in Row /\ "active" \in Stored
  BY ColumnTypes, NewestFields, Literals DEF RevertStop, BaseInv, TypeInv, TypeOK, PastReadings
<1>2. Reverted(t, r) /\ newest.op = "stop" /\ newest.t = t
  BY DEF RevertStop
<1> HIDE DEF since, tracked
<1>3. r \in Row
  BY <1>1, RowWrites, Zenon
<1>4. r.status = "active" /\ r.by = row[t].by /\ r.until = row[t].until
  BY <1>1 DEF Row
<1> HIDE DEF r
<1>5. r.until > now => r.by = ClockOwner(t)
  BY <1>2, <1>4 DEF ClaimInv
<1>6. OneInv => NoOtherActive(t)
  BY <1>2 DEF OneInv
<1> QED
  BY <1>2, <1>3, <1>4, <1>5, <1>6, RevertedKept

\* The row a close is taken back to: its old status and, while the lease lasts,
\* its old claim.
LEMMA PutBackKeeps ==
    ASSUME BaseInv, ClaimInv, NEW t \in TaskIds, newest.t = t, Terminal(t), MayPutBack(t),
           newest.op \in {"done", "cancel"}
    PROVE  LET r == Reclaimed(PutBack(t))
           IN  /\ r \in Row /\ r.status = newest.from
               /\ r.status \notin {"done", "cancelled"}
               /\ r.status = "active" /\ r.until > now => r.by = ClockOwner(t)
               /\ r.status = "active" => NoOtherActive(t)
<1> DEFINE base == PutBack(t)
           r == Reclaimed(base)
<1>1. base \in Row /\ r \in Row
  BY PutBackType, ReclaimedType DEF BaseInv
<1>2. base.status = newest.from /\ base.until = row[t].until
  BY PutBackFields DEF BaseInv
<1>3. row[t].until = 0 /\ now \in Nat /\ newest.from \notin {"done", "cancelled"}
      /\ (newest.from = "active" /\ newest.until > now => newest.by = ClockOwner(t))
      /\ (newest.from = "active" => NoOtherActive(t))
  BY DEF ClaimInv, RowsSettled, MayPutBack, BaseInv, TypeInv, TypeOK
<1> HIDE DEF base
<1>4. /\ r.status = base.status
      /\ newest.until > now => r.by = newest.by /\ r.until = newest.until
      /\ ~(newest.until > now) => r.until = base.until
  BY <1>1, ReclaimedFields
<1> HIDE DEF r
<1>5. r.status = "active" /\ r.until > now => r.by = ClockOwner(t)
  BY <1>2, <1>3, <1>4
<1> QED
  BY <1>1, <1>2, <1>3, <1>4, <1>5 DEF base, r

LEMMA RevertCancelKept ==
    ASSUME BaseInv, ClaimInv, NEW t \in TaskIds, RevertCancel(t)
    PROVE  Kept
<1> DEFINE r == Reclaimed(PutBack(t))
<1>1. Reverted(t, r) /\ newest.op = "cancel" /\ newest.t = t /\ Terminal(t) /\ MayPutBack(t)
  BY DEF RevertCancel, Terminal
<1>2. /\ r \in Row /\ r.status \notin {"done", "cancelled"}
      /\ r.status = "active" /\ r.until > now => r.by = ClockOwner(t)
      /\ r.status = "active" => NoOtherActive(t)
  BY <1>1, PutBackKeeps
<1> HIDE DEF r
<1> QED
  BY <1>1, <1>2, RevertedKept

LEMMA RevertDoneKept ==
    ASSUME BaseInv, ClaimInv, NEW t \in TaskIds, RevertDone(t)
    PROVE  Kept
<1> DEFINE s == newest.spawn
           base == Reclaimed(PutBack(t))
           r == [base EXCEPT !.check = newest.check, !.rev = row[t].rev + 1]
<1>1. /\ row' = [x \in TaskIds |-> IF x = t THEN r ELSE IF x = s THEN RemovedSpawn(s) ELSE row[x]]
      /\ UNCHANGED <<now, start>> /\ newest'.op = "undo" /\ MayPutBack(t) /\ Terminal(t)
      /\ newest.op = "done" /\ newest.t = t
  BY DEF RevertDone, Terminal, Event
<1>2. /\ base \in Row /\ base.status \notin {"done", "cancelled"}
      /\ base.status = "active" /\ base.until > now => base.by = ClockOwner(t)
      /\ base.status = "active" => NoOtherActive(t)
  BY <1>1, PutBackKeeps
<1> HIDE DEF base, s
<1>3. r.status = base.status /\ r.by = base.by /\ r.until = base.until
  BY <1>2 DEF Row
<1> HIDE DEF r
<1>4. RemovedSpawn(s).status = "removed"
  BY DEF RemovedSpawn, Fresh
<1>5. \A x \in TaskIds : ClockOwner(x)' = ClockOwner(x)
  BY <1>1 DEF ClockOwner, ClockNamed
<1>6. row'[t] = r /\ \A x \in TaskIds \ {t} : row'[x] = row[x] \/ row'[x].status = "removed"
  BY <1>1, <1>4
<1>7. RowsSettled'
  BY <1>1, <1>2, <1>3, <1>5, <1>6
     DEF ClaimInv, RowsSettled, LiveClaimIsTheClocks, Terminal, Running, LiveClaim
<1>8. OneClockPerHolder => OneClockPerHolder'
  BY <1>2, <1>3, <1>5, <1>6 DEF OneClockPerHolder, NoOtherActive, Running
<1> QED
  BY <1>1, <1>7, <1>8, QuietKept

LEMMA RevertModifyKept ==
    ASSUME BaseInv, ClaimInv, NEW t \in TaskIds, RevertModify(t)
    PROVE  Kept
<1> DEFINE base == RowBefore(t)
           r == Reclaimed(base)
<1>1. /\ Reverted(t, r) /\ newest.op = "modify" /\ newest.t = t
      /\ "status" \in newest.cols => Terminal(t)
      /\ newest.from = "active" => NoOtherActive(t)
  BY DEF RevertModify, Terminal
<1>2. base \in Row /\ r \in Row
  BY <1>1, RowBeforeType, ReclaimedType DEF BaseInv, RevertModify
<1>3. /\ "status" \in newest.cols => base.status = newest.from
      /\ "status" \notin newest.cols => base.status = row[t].status
      /\ base.by = row[t].by /\ base.until = row[t].until
  BY RowBeforeFields DEF BaseInv
<1> HIDE DEF base
<1>4. /\ r.status = base.status
      /\ newest.until > now => r.by = newest.by /\ r.until = newest.until
      /\ ~(newest.until > now) => r.by = base.by /\ r.until = base.until
  BY <1>2, ReclaimedFields
<1> HIDE DEF r
<1>5. /\ newest.from \notin {"done", "cancelled"} /\ now \in Nat
      /\ newest.from = "active" /\ newest.until > now => newest.by = ClockOwner(t)
      /\ "status" \notin newest.cols => newest.until = 0
      /\ Terminal(t) => row[t].until = 0
      /\ row[t].status = "active" /\ row[t].until > now => row[t].by = ClockOwner(t)
  BY <1>1 DEF ClaimInv, RowsSettled, LiveClaimIsTheClocks, LiveClaim, Running, BaseInv, TypeInv,
     TypeOK
<1>6. /\ r.status \in {"done", "cancelled"} => r.until = 0
      /\ r.status = "active" /\ r.until > now => r.by = ClockOwner(t)
      /\ r.status = "active" => Running(t) \/ NoOtherActive(t)
  <2>1. CASE "status" \in newest.cols
    BY <2>1, <1>1, <1>3, <1>4, <1>5
  <2>2. CASE "status" \notin newest.cols
    BY <2>2, <1>3, <1>4, <1>5 DEF Terminal, Running
  <2> QED
    BY <2>1, <2>2
<1> QED
  BY <1>1, <1>2, <1>6, RevertedKept

LEMMA RevertAdjustKept ==
    ASSUME BaseInv, ClaimInv, NEW t \in TaskIds, RevertAdjust(t)
    PROVE  Kept
<1> DEFINE tracked == row[t].tracked - newest.delta
           adj == row[t].adj - newest.delta
           r == [row[t] EXCEPT !.tracked = tracked, !.adj = adj]
<1>1. tracked \in Nat /\ adj \in Int /\ row[t] \in Row /\ Reverted(t, r)
  BY ColumnTypes, NewestFields DEF RevertAdjust, BaseInv
<1> HIDE DEF tracked, adj
<1>2. r \in Row
  BY <1>1, RowWrites, Zenon
<1>3. r.status = row[t].status /\ r.by = row[t].by /\ r.until = row[t].until
  BY <1>1 DEF Row
<1> HIDE DEF r
<1>4. /\ r.status \in {"done", "cancelled"} => r.until = 0
      /\ r.status = "active" /\ r.until > now => r.by = ClockOwner(t)
      /\ r.status = "active" => Running(t)
  BY <1>3 DEF ClaimInv, RowsSettled, LiveClaimIsTheClocks, Terminal, Running, LiveClaim
<1> QED
  BY <1>1, <1>2, <1>4, RevertedKept

LEMMA RevertAcceptKept ==
    ASSUME BaseInv, ClaimInv, NEW t \in TaskIds, RevertAccept(t)
    PROVE  Kept
<1> DEFINE r == [row[t] EXCEPT !.status = "triage"]
<1>1. Reverted(t, r) /\ row[t] \in Row
  BY ColumnTypes DEF RevertAccept, BaseInv
<1>2. r \in Row
  BY <1>1, Literals, RowWrites, Zenon
<1>3. r.status = "triage"
  BY <1>1 DEF Row
<1> HIDE DEF r
<1> QED
  BY <1>1, <1>2, <1>3, RevertedKept

LEMMA RevertDepRemoveKept ==
    ASSUME BaseInv, ClaimInv, NEW t \in TaskIds, RevertDepRemove(t)
    PROVE  Kept
<1>1. Reverted(t, row[t]) /\ row[t] \in Row
  BY ColumnTypes DEF RevertDepRemove, BaseInv
<1>2. /\ row[t].status \in {"done", "cancelled"} => row[t].until = 0
      /\ row[t].status = "active" /\ row[t].until > now => row[t].by = ClockOwner(t)
      /\ row[t].status = "active" => Running(t)
  BY DEF ClaimInv, RowsSettled, LiveClaimIsTheClocks, Terminal, Running, LiveClaim
<1> QED
  BY <1>1, <1>2, RevertedKept

-----------------------------------------------------------------------------
\* The starts of a step, all under names that resolve to their clock's owner.
LEMMA StepStarts ==
    ASSUME OwnersAreNamed, NEW t \in TaskIds,
           \/ \E call \in StartCalls, keep \in Keeps : Start(t, call, keep)
           \/ \E claimant \in Holders \cup {NoOne} : GitStart(t, claimant)
    PROVE  \E call \in [holder : Holders \cup {NoOne}, actor : Holders \cup {NoOne}] :
             \E keep \in Keeps \cup {TRUE} :
               /\ Identity(call) = User => call.actor \in {NoOne, User}
               /\ Start(t, call, keep)
               /\ keep = FALSE \/ Git \/ keep \in Keeps
<1>1. CASE \E call \in StartCalls, keep \in Keeps : Start(t, call, keep)
  BY <1>1, CallsAssumption DEF OwnersAreNamed
<1>2. CASE \E claimant \in Holders \cup {NoOne} : GitStart(t, claimant)
  <2> PICK claimant \in Holders \cup {NoOne} : GitStart(t, claimant)
    BY <1>2
  <2> DEFINE call == [NoStart EXCEPT !.holder = claimant]
  <2>1. call \in [holder : Holders \cup {NoOne}, actor : Holders \cup {NoOne}]
        /\ call.actor = NoOne
    BY DEF NoStart
  <2>2. Start(t, call, TRUE) /\ Git
    BY DEF GitStart
  <2> HIDE DEF call
  <2> QED
    BY <2>1, <2>2
<1> QED
  BY <1>1, <1>2

LEMMA StepKeepsClaims ==
    ASSUME BaseInv, ClaimInv, OwnersAreNamed, [Next]_vars
    PROVE  ClaimInv' /\ (OneInv /\ NobodyKeeps => OneInv')
<1>1. CASE UNCHANGED vars \/ Tick \/ \E c \in Clients, t \in TaskIds : Read(c, t)
  <2>1. Kept
    BY <1>1, TickKept, StillKept DEF vars, Read
  <2> QED
    BY <2>1 DEF Kept
<1>2. CASE Adds
  <2>1. Kept
    <3>1. PICK t \in Added, status \in Births, wait \in Waits, due \in Dues,
               rule \in Periods \cup {0}, checked \in Checks,
               needs \in SUBSET {d \in TaskIds : \E e \in Edges : d = e[2]} :
               Add(t, status, wait, due, rule, checked, needs)
      BY <1>2 DEF Adds
    <3>2. t \in TaskIds
      BY IdsAssumption
    <3> QED
      BY <3>1, <3>2, AddKept
  <2> QED
    BY <2>1 DEF Kept
<1>3. CASE Clocks
  <2> PICK t \in TaskIds :
      \/ \E call \in StartCalls, keep \in Keeps : Start(t, call, keep)
      \/ \E claimant \in Holders \cup {NoOne} : GitStart(t, claimant)
      \/ \E who \in Holders, force \in Forces : Stop(t, who, force) \/ Release(t, who, force)
      \/ \E who \in Holders, lease \in Leases : Claim(t, who, lease)
      \/ \E delta \in Deltas : Adjust(t, delta)
    BY <1>3 DEF Clocks
  <2>1. CASE \/ \E call \in StartCalls, keep \in Keeps : Start(t, call, keep)
             \/ \E claimant \in Holders \cup {NoOne} : GitStart(t, claimant)
    <3>1. PICK call \in [holder : Holders \cup {NoOne}, actor : Holders \cup {NoOne}],
               keep \in Keeps \cup {TRUE} :
               /\ Identity(call) = User => call.actor \in {NoOne, User}
               /\ Start(t, call, keep)
               /\ keep = FALSE \/ Git \/ keep \in Keeps
      BY <2>1, StepStarts
    <3>2. NobodyKeeps => keep = FALSE
      BY <3>1 DEF NobodyKeeps
    <3> QED
      BY <3>1, <3>2, StartKept
  <2>2. CASE \/ \E who \in Holders, force \in Forces : Stop(t, who, force) \/ Release(t, who, force)
             \/ \E who \in Holders, lease \in Leases : Claim(t, who, lease)
             \/ \E delta \in Deltas : Adjust(t, delta)
    <3>1. Kept
      BY <2>2, StopKept, ReleaseKept, ClaimKept, AdjustKept
    <3> QED
      BY <3>1 DEF Kept
  <2> QED
    BY <2>1, <2>2
<1>4. CASE Closes
  <2>1. ASSUME NEW t \in TaskIds, NEW who, NEW force, NEW forceClaim, NEW pass, NEW measured,
               NEW s \in TaskIds \cup {NoTask}, Done(t, who, force, forceClaim, pass, measured, s)
        PROVE  Kept
    <3>1. row[t].status \in {"pending", "active"}
          /\ Complete(t, who, forceClaim, pass, measured, s)
      BY <2>1 DEF Done, Status
    <3> QED
      BY <3>1, CompleteKept
  <2>2. ASSUME NEW t \in TaskIds, NEW who, NEW s \in TaskIds \cup {NoTask}, DoneMerged(t, who, s)
        PROVE  Kept
    <3>1. row[t].status \in {"pending", "active", "backlog"} /\ row[t].status \in Stored
          /\ Complete(t, who, FALSE, FALSE, FALSE, s)
      BY <2>2, ColumnTypes DEF DoneMerged, Status, BaseInv
    <3>2. row[t].status \in {"pending", "active"}
      BY <3>1 DEF Stored
    <3> QED
      BY <3>1, <3>2, CompleteKept
  <2>3. Kept
    BY <1>4, <2>1, <2>2, CancelKept, ModifyKept, ReopenKept DEF Closes
  <2> QED
    BY <2>3 DEF Kept
<1>5. CASE Triages
  <2>1. Kept
    BY <1>5, AcceptKept, DeclineKept, DuplicateKept DEF Triages
  <2> QED
    BY <2>1 DEF Kept
<1>6. CASE Relations
  <2>1. Kept
    BY <1>6, DepAddKept, DepRemoveKept, SetCheckKept DEF Relations
  <2> QED
    BY <2>1 DEF Kept
<1>7. CASE Undo
  <2>1. Kept
    BY <1>7, RevertStopKept, RevertCancelKept, RevertDoneKept, RevertModifyKept, RevertAdjustKept,
       RevertAcceptKept, RevertDepRemoveKept DEF Undo
  <2> QED
    BY <2>1 DEF Kept
<1> QED
  BY <1>1, <1>2, <1>3, <1>4, <1>5, <1>6, <1>7 DEF Next

LEMMA ClaimInit == Init => ClaimInv /\ OneInv
<1> SUFFICES ASSUME Init PROVE ClaimInv /\ OneInv
  OBVIOUS
<1>1. newest.op = "none" /\ \A t \in TaskIds : row[t].status = "unborn" /\ row[t].until = 0
  BY DEF Init, Event, NoRow, Fresh
<1> QED
  BY <1>1 DEF ClaimInv, OneInv, RowsSettled, LiveClaimIsTheClocks, OneClockPerHolder, Terminal,
     Running

\* A live claim on a running task is its clock owner's, whatever order of claims,
\* takeovers, starts, closes and undos came before (claim_close_guard and the
\* auto-stop each read only one of the two, task.rs 1060-1066, 1264-1272).
THEOREM LiveClaimIsTheClocksCorrect ==
    ASSUME OwnersAreNamed
    PROVE  Spec => []LiveClaimIsTheClocks
<1>1. Init => ClaimInv
  BY ClaimInit
<1>2. BaseInv /\ ClaimInv /\ [Next]_vars => ClaimInv'
  BY StepKeepsClaims
<1>3. ClaimInv => LiveClaimIsTheClocks
  BY DEF ClaimInv, RowsSettled
<1> QED
  BY <1>1, <1>2, <1>3, BaseInvariant, PTL DEF Spec

\* D6 and D236: while nobody asks to keep a second clock, nobody runs two, the
\* undo of a stop or of a close included (undo.rs 707-731).
THEOREM OneClockPerHolderCorrect ==
    ASSUME OwnersAreNamed, NobodyKeeps
    PROVE  Spec => []OneClockPerHolder
<1>1. Init => ClaimInv /\ OneInv
  BY ClaimInit
<1>2. BaseInv /\ ClaimInv /\ OneInv /\ [Next]_vars => ClaimInv' /\ OneInv'
  BY StepKeepsClaims
<1>3. OneInv => OneClockPerHolder
  BY DEF OneInv
<1> QED
  BY <1>1, <1>2, <1>3, BaseInvariant, PTL DEF Spec

-----------------------------------------------------------------------------
(* What a start stops *)

LEMMA CompletesAsDone ==
    ASSUME BaseInv, NEW t \in TaskIds, NEW who, NEW forceClaim, NEW pass, NEW measured, NEW s,
           Complete(t, who, forceClaim, pass, measured, s)
    PROVE  newest'.op = "done"
<1>1. ClosingEvent("done", t) \in Events /\ "done" \in Ops
  BY ClosingEventType DEF Ops, BaseInv
<1> DEFINE e == ClosingEvent("done", t)
<1>2. e.op = "done"
  BY <1>1, ClosingEventKeeps
<1>3. newest' = [e EXCEPT !.check = row[t].check, !.spawn = s, !.measured = measured]
  BY DEF Complete
<1> HIDE DEF e
<1> QED
  BY <1>1, <1>2, <1>3 DEF Events, e

\* Only a start records a start.
LEMMA OpsOfCloses == ASSUME BaseInv, Closes PROVE newest'.op \notin {"start", "undo"}
<1>1. ASSUME NEW t \in TaskIds, NEW who, NEW force, NEW forceClaim, NEW pass, NEW measured,
             NEW s, Done(t, who, force, forceClaim, pass, measured, s)
      PROVE  newest'.op = "done"
  BY <1>1, CompletesAsDone DEF Done
<1>2. ASSUME NEW t \in TaskIds, NEW who, NEW s, DoneMerged(t, who, s)
      PROVE  newest'.op = "done"
  BY <1>2, CompletesAsDone DEF DoneMerged
<1>3. ASSUME NEW t \in TaskIds, NEW who, NEW forceClaim, Cancel(t, who, forceClaim)
      PROVE  newest'.op = "cancel"
  BY <1>3, ClosingEventKeeps DEF Cancel, Ops
<1>4. ASSUME NEW t \in TaskIds, NEW set, NEW wait, NEW total, NEW who, NEW forceClaim,
             Modify(t, set, wait, total, who, forceClaim)
      PROVE  newest'.op = "modify"
  BY <1>4 DEF Modify, ModifyEvent, Event
<1>5. ASSUME NEW t \in TaskIds, Reopen(t)
      PROVE  newest'.op = "reopen"
  BY <1>5 DEF Reopen, Event
<1> QED
  BY <1>1, <1>2, <1>3, <1>4, <1>5 DEF Closes

LEMMA OpsOfTriages == ASSUME BaseInv, Triages PROVE newest'.op \notin {"start", "undo"}
<1>1. ASSUME NEW t \in TaskIds, NEW who, NEW forceClaim, NEW reason,
             Decline(t, who, forceClaim, reason)
      PROVE  newest'.op = "cancel"
  BY <1>1, ClosingEventKeeps DEF Decline, Ops
<1>2. ASSUME NEW t \in TaskIds, Accept(t)
      PROVE  newest'.op = "accept"
  BY <1>2 DEF Accept, Event
<1>3. ASSUME NEW t \in TaskIds, NEW original, NEW who, NEW forceClaim,
             Duplicate(t, original, who, forceClaim)
      PROVE  newest'.op = "duplicate"
  BY <1>3 DEF Duplicate, Event
<1> QED
  BY <1>1, <1>2, <1>3 DEF Triages

LEMMA OpsOfOthers ==
    /\ Adds => newest'.op = "add"
    /\ Relations => newest'.op \in {"dependency.add", "dependency.remove", "check"}
    /\ Undo => newest'.op = "undo"
<1>1. Adds => newest'.op = "add"
  BY DEF Adds, Add, Event
<1>2. Relations => newest'.op \in {"dependency.add", "dependency.remove", "check"}
  <2>1. ASSUME NEW t, NEW d, DepAdd(t, d) PROVE newest'.op = "dependency.add"
    BY <2>1 DEF DepAdd, Event
  <2>2. ASSUME NEW t, NEW d, DepRemove(t, d) PROVE newest'.op = "dependency.remove"
    BY <2>2 DEF DepRemove, Event
  <2>3. ASSUME NEW t, NEW check, SetCheck(t, check) PROVE newest'.op = "check"
    BY <2>3 DEF SetCheck, Event
  <2> QED
    BY <2>1, <2>2, <2>3 DEF Relations
<1>3. Undo => newest'.op = "undo"
  BY DEF Undo, RevertStop, RevertCancel, RevertDone, RevertModify, RevertAdjust, RevertAccept,
         RevertDepRemove, Reverted, Event
<1> QED
  BY <1>1, <1>2, <1>3

\* A start stops a clock under a live claim only if the claim is its own.
LEMMA StartSpares ==
    ASSUME BaseInv, ClaimInv, NEW u \in TaskIds, NEW keep,
           NEW call \in [holder : Holders \cup {NoOne}, actor : Holders \cup {NoOne}],
           Identity(call) = User => call.actor \in {NoOne, User},
           Start(u, call, keep),
           NEW t \in TaskIds, Running(t), ~Running(t)', LiveClaim(t)
    PROVE  row[t].by = ClockOwner(u)'
<1>1. ClockOwner(u)' = Identity(call)
  BY StarterOwns
<1>2. row[t].by = ClockOwner(t)
  BY DEF ClaimInv, RowsSettled, LiveClaimIsTheClocks
<1> DEFINE stopped == IF keep THEN {} ELSE AutoStopped(Identity(call))
           until == IF LiveClaim(u) /\ now + DefaultLease > row[u].until
                    THEN now + DefaultLease ELSE row[u].until
           r == [row[u] EXCEPT !.status = "active", !.since = now,
                               !.until = until, !.rev = row[u].rev + 1]
<1>3. row' = [a \in TaskIds |-> IF a = u THEN r
                                ELSE IF a \in stopped THEN StoppedRow(a) ELSE row[a]]
  BY DEF Start
<1> HIDE DEF until
<1>4. r.status = "active"
  BY ColumnTypes DEF BaseInv, Row
<1> HIDE DEF r, stopped
<1>5. t \in stopped
  BY <1>3, <1>4 DEF Running
<1>6. t \in AutoStopped(Identity(call))
  BY <1>5 DEF stopped
<1> QED
  BY <1>1, <1>2, <1>6 DEF AutoStopped

LEMMA ClocksSpare ==
    ASSUME BaseInv, ClaimInv, OwnersAreNamed, Clocks, newest'.op = "start",
           NEW t \in TaskIds, NEW u \in TaskIds, newest'.t = u,
           Running(t), ~Running(t)', LiveClaim(t)
    PROVE  row[t].by = ClockOwner(u)'
<1> PICK x \in TaskIds :
      \/ \E call \in StartCalls, keep \in Keeps : Start(x, call, keep)
      \/ \E claimant \in Holders \cup {NoOne} : GitStart(x, claimant)
      \/ \E who \in Holders, force \in Forces : Stop(x, who, force) \/ Release(x, who, force)
      \/ \E who \in Holders, lease \in Leases : Claim(x, who, lease)
      \/ \E delta \in Deltas : Adjust(x, delta)
  BY DEF Clocks
<1>1. CASE \/ \E who \in Holders, force \in Forces : Stop(x, who, force) \/ Release(x, who, force)
           \/ \E who \in Holders, lease \in Leases : Claim(x, who, lease)
           \/ \E delta \in Deltas : Adjust(x, delta)
  <2>1. ASSUME NEW who, NEW force, Stop(x, who, force) PROVE newest'.op = "stop"
    BY <2>1 DEF Stop, Event
  <2>2. ASSUME NEW who, NEW force, Release(x, who, force) PROVE newest'.op = "release"
    BY <2>2 DEF Release, Event
  <2>3. ASSUME NEW who, NEW lease, Claim(x, who, lease) PROVE newest'.op = "claim"
    BY <2>3 DEF Claim, Event
  <2>4. ASSUME NEW delta, Adjust(x, delta) PROVE newest'.op = "adjust_tracked"
    BY <2>4 DEF Adjust, Event
  <2> QED
    BY <1>1, <2>1, <2>2, <2>3, <2>4
<1>2. CASE \/ \E call \in StartCalls, keep \in Keeps : Start(x, call, keep)
           \/ \E claimant \in Holders \cup {NoOne} : GitStart(x, claimant)
  <2>1. PICK call \in [holder : Holders \cup {NoOne}, actor : Holders \cup {NoOne}],
             keep \in Keeps \cup {TRUE} :
             /\ Identity(call) = User => call.actor \in {NoOne, User}
             /\ Start(x, call, keep)
    BY <1>2, StepStarts
  <2>2. x = u
    BY <2>1 DEF Start, Event
  <2> QED
    BY <2>1, <2>2, StartSpares
<1> QED
  BY <1>1, <1>2

\* A start never stops a clock that runs under somebody else's live claim: that
\* work is allocated, whoever starts next (task.rs 1060-1066).
THEOREM StartSparesClaimsCorrect ==
    ASSUME OwnersAreNamed
    PROVE  Spec => StartSparesClaims
<1>1. Init => ClaimInv
  BY ClaimInit
<1>2. BaseInv /\ ClaimInv /\ [Next]_vars => ClaimInv'
  BY StepKeepsClaims
<1>3. BaseInv /\ ClaimInv /\ [Next]_vars
        => [newest'.op = "start" =>
              \A t, u \in TaskIds :
                 newest'.t = u /\ Running(t) /\ ~Running(t)' /\ LiveClaim(t)
                     => row[t].by = ClockOwner(u)']_vars
  <2> SUFFICES ASSUME BaseInv, ClaimInv, Next, newest'.op = "start",
                      NEW t \in TaskIds, NEW u \in TaskIds, newest'.t = u,
                      Running(t), ~Running(t)', LiveClaim(t)
               PROVE  row[t].by = ClockOwner(u)'
    OBVIOUS
  <2>1. CASE Tick \/ \E c \in Clients, x \in TaskIds : Read(c, x)
    BY <2>1 DEF Tick, Read, Running
  <2>2. CASE Clocks
    BY <2>2, ClocksSpare
  <2>3. CASE Adds \/ Closes \/ Triages \/ Relations \/ Undo
    BY <2>3, OpsOfCloses, OpsOfTriages, OpsOfOthers
  <2> QED
    BY <2>1, <2>2, <2>3 DEF Next
<1> QED
  BY <1>1, <1>2, <1>3, BaseInvariant, PTL DEF Spec, StartSparesClaims

-----------------------------------------------------------------------------
(* Banked and running time *)

\* The ways a row keeps what was worked on it: untouched; its clock untouched;
\* its running interval banked as the clock ends, or none as none ran; a clock
\* that starts now.
LEMMA WorkKept ==
    ASSUME BaseInv, NEW x \in TaskIds, now' = now,
           \/ row'[x] = row[x]
           \/ /\ row'[x].status = row[x].status /\ row'[x].since = row[x].since
              /\ row'[x].tracked = row[x].tracked
           \/ row'[x].status # "active" /\ row'[x].tracked = row[x].tracked + Elapsed(x)
           \/ /\ ~Running(x) /\ row'[x].since = now /\ row'[x].tracked = row[x].tracked
    PROVE  Worked(x)' = Worked(x)
<1>1. now \in Nat /\ row[x].tracked \in Nat /\ row[x].since \in Nat /\ Elapsed(x) \in Nat
  BY ColumnTypes, ElapsedType DEF BaseInv, TypeInv, TypeOK
<1>2. CASE row'[x] = row[x]
  BY <1>2 DEF Worked, Elapsed, Running
<1>3. CASE /\ row'[x].status = row[x].status /\ row'[x].since = row[x].since
           /\ row'[x].tracked = row[x].tracked
  BY <1>3 DEF Worked, Elapsed, Running
<1>4. CASE row'[x].status # "active" /\ row'[x].tracked = row[x].tracked + Elapsed(x)
  BY <1>1, <1>4 DEF Worked, Elapsed, Running
<1>5. CASE ~Running(x) /\ row'[x].since = now /\ row'[x].tracked = row[x].tracked
  BY <1>1, <1>5 DEF Worked, Elapsed, Running
<1> QED
  BY <1>2, <1>3, <1>4, <1>5

\* No time passes and no time is lost.
AllWorkKept == now' = now /\ \A x \in TaskIds : Exists(x) => Worked(x)' = Worked(x)

\* One row is written.
LEMMA WriteWork ==
    ASSUME BaseInv, NEW t \in TaskIds, NEW r, row' = [row EXCEPT ![t] = r], now' = now,
           \/ r.status = row[t].status /\ r.since = row[t].since /\ r.tracked = row[t].tracked
           \/ r.status # "active" /\ r.tracked = row[t].tracked + Elapsed(t)
    PROVE  AllWorkKept
<1>1. row'[t] = r /\ \A x \in TaskIds \ {t} : row'[x] = row[x]
  BY DEF BaseInv, TypeInv, TypeOK
<1> QED
  BY <1>1, WorkKept DEF AllWorkKept

LEMMA AddWork ==
    ASSUME BaseInv, NEW t \in TaskIds, NEW status, NEW wait, NEW due, NEW rule, NEW checked,
           NEW needs, Add(t, status, wait, due, rule, checked, needs)
    PROVE  AllWorkKept
<1>1. now' = now /\ ~Exists(t) /\ \A x \in TaskIds \ {t} : row'[x] = row[x]
  BY DEF Add, Exists, BaseInv, TypeInv, TypeOK
<1> QED
  BY <1>1, WorkKept DEF AllWorkKept

LEMMA StartWork ==
    ASSUME BaseInv, NEW t \in TaskIds, NEW call, NEW keep, Start(t, call, keep)
    PROVE  AllWorkKept
<1> DEFINE stopped == IF keep THEN {} ELSE AutoStopped(Identity(call))
           until == IF LiveClaim(t) /\ now + DefaultLease > row[t].until
                    THEN now + DefaultLease ELSE row[t].until
           r == [row[t] EXCEPT !.status = "active", !.since = now,
                               !.until = until, !.rev = row[t].rev + 1]
<1>1. /\ row' = [a \in TaskIds |-> IF a = t THEN r
                                   ELSE IF a \in stopped THEN StoppedRow(a) ELSE row[a]]
      /\ now' = now /\ ~Running(t)
  BY DEF Start, Status, Running
<1> HIDE DEF until, stopped
<1>2. r.since = now /\ r.tracked = row[t].tracked
  BY ColumnTypes DEF BaseInv, Row
<1> HIDE DEF r
<1>3. ASSUME NEW x \in TaskIds PROVE Worked(x)' = Worked(x)
  <2>1. CASE x = t
    BY <2>1, <1>1, <1>2, WorkKept
  <2>2. CASE x # t /\ x \in stopped
    <3>1. row'[x] = StoppedRow(x)
      BY <1>1, <2>2
    <3>2. row'[x].status = "pending" /\ row'[x].tracked = row[x].tracked + Elapsed(x)
      BY <3>1, StoppedFields DEF BaseInv
    <3> QED
      BY <3>2, <1>1, WorkKept
  <2>3. CASE x # t /\ x \notin stopped
    BY <2>3, <1>1, WorkKept
  <2> QED
    BY <2>1, <2>2, <2>3
<1> QED
  BY <1>1, <1>3 DEF AllWorkKept

LEMMA StopWork ==
    ASSUME BaseInv, NEW t \in TaskIds, NEW who, NEW force, Stop(t, who, force)
    PROVE  AllWorkKept
BY StoppedFields, WriteWork DEF Stop, BaseInv

LEMMA CompleteWork ==
    ASSUME BaseInv, NEW t \in TaskIds, NEW who, NEW forceClaim, NEW pass, NEW measured,
           NEW s \in TaskIds \cup {NoTask}, Complete(t, who, forceClaim, pass, measured, s)
    PROVE  AllWorkKept
<1> DEFINE check == IF pass THEN "passed" ELSE row[t].check
           closed == ClosedRow(t, "done")
           r == [closed EXCEPT !.check = check]
<1>1. /\ row' = [x \in TaskIds |-> IF x = t THEN r ELSE IF x = s THEN SpawnedRow(t) ELSE row[x]]
      /\ now' = now
  BY DEF Complete
<1>2. closed \in Row /\ closed.status = "done" /\ closed.tracked = row[t].tracked + Elapsed(t)
  BY ClosedFields, ClosedRowType, Literals DEF BaseInv
<1> HIDE DEF closed, check
<1>3. r.status = "done" /\ r.tracked = row[t].tracked + Elapsed(t)
  BY <1>2 DEF Row
<1> HIDE DEF r
<1>4. s \in TaskIds => ~Exists(s)
  BY IdsAssumption DEF Complete, Exists
<1>5. ASSUME NEW x \in TaskIds, Exists(x) PROVE Worked(x)' = Worked(x)
  <2>1. CASE x = t
    BY <2>1, <1>1, <1>3, WorkKept
  <2>2. CASE x # t
    BY <2>2, <1>1, <1>4, <1>5, WorkKept
  <2> QED
    BY <2>1, <2>2
<1> QED
  BY <1>1, <1>5 DEF AllWorkKept

LEMMA CancelWork ==
    ASSUME BaseInv, NEW t \in TaskIds, NEW who, NEW forceClaim, Cancel(t, who, forceClaim)
    PROVE  AllWorkKept
BY ClosedFields, WriteWork, Literals DEF Cancel, BaseInv

LEMMA DeclineWork ==
    ASSUME BaseInv, NEW t \in TaskIds, NEW who, NEW forceClaim, NEW reason,
           Decline(t, who, forceClaim, reason)
    PROVE  AllWorkKept
<1> DEFINE closed == ClosedRow(t, "cancelled")
           rev == row[t].rev + (IF reason THEN 2 ELSE 1)
           r == [closed EXCEPT !.rev = rev]
<1>1. row' = [row EXCEPT ![t] = r] /\ now' = now
  BY DEF Decline
<1>2. closed \in Row /\ closed.status = "cancelled"
      /\ closed.tracked = row[t].tracked + Elapsed(t)
  BY ClosedFields, ClosedRowType, Literals DEF BaseInv
<1> HIDE DEF closed, rev
<1>3. r.status = "cancelled" /\ r.tracked = row[t].tracked + Elapsed(t)
  BY <1>2 DEF Row
<1> HIDE DEF r
<1> QED
  BY <1>1, <1>3, WriteWork

LEMMA DuplicateWork ==
    ASSUME BaseInv, NEW t \in TaskIds, NEW original \in TaskIds, NEW who, NEW forceClaim,
           Duplicate(t, original, who, forceClaim)
    PROVE  AllWorkKept
<1> DEFINE new(x) == DependentRow(x, x \in Repointed(t, original))
<1>1. /\ row' = [x \in TaskIds |-> IF x = t THEN ClosedRow(t, "cancelled")
                                   ELSE IF x \in Dependents(t) THEN new(x) ELSE row[x]]
      /\ now' = now
  BY DEF Duplicate
<1>2. \A x \in TaskIds : /\ new(x).status = row[x].status /\ new(x).since = row[x].since
                         /\ new(x).tracked = row[x].tracked
  BY DependentFields DEF BaseInv
<1>3. /\ ClosedRow(t, "cancelled").status = "cancelled"
      /\ ClosedRow(t, "cancelled").tracked = row[t].tracked + Elapsed(t)
  BY ClosedFields, Literals DEF BaseInv
<1> HIDE DEF new
<1>4. ASSUME NEW x \in TaskIds PROVE Worked(x)' = Worked(x)
  <2>1. CASE x = t
    BY <2>1, <1>1, <1>3, WorkKept
  <2>2. CASE x # t /\ x \in Dependents(t)
    BY <2>2, <1>1, <1>2, WorkKept
  <2>3. CASE x # t /\ x \notin Dependents(t)
    BY <2>3, <1>1, WorkKept
  <2> QED
    BY <2>1, <2>2, <2>3
<1> QED
  BY <1>1, <1>4 DEF AllWorkKept

LEMMA ClaimWork ==
    ASSUME BaseInv, NEW t \in TaskIds, NEW who, NEW lease, Claim(t, who, lease)
    PROVE  AllWorkKept
<1> DEFINE r == [Bumped(t) EXCEPT !.by = who, !.until = now + lease]
<1>1. row' = [row EXCEPT ![t] = r] /\ now' = now
  BY DEF Claim
<1>2. r.status = row[t].status /\ r.since = row[t].since /\ r.tracked = row[t].tracked
  BY BumpedFields, BumpedType DEF BaseInv, Row
<1> HIDE DEF r
<1> QED
  BY <1>1, <1>2, WriteWork

LEMMA ReleaseWork ==
    ASSUME BaseInv, NEW t \in TaskIds, NEW who, NEW force, Release(t, who, force)
    PROVE  AllWorkKept
<1> DEFINE r == [Bumped(t) EXCEPT !.by = NoOne, !.until = 0]
<1>1. row' = [row EXCEPT ![t] = r] /\ now' = now
  BY DEF Release
<1>2. r.status = row[t].status /\ r.since = row[t].since /\ r.tracked = row[t].tracked
  BY BumpedFields, BumpedType DEF BaseInv, Row
<1> HIDE DEF r
<1> QED
  BY <1>1, <1>2, WriteWork

LEMMA ReopenWork ==
    ASSUME BaseInv, NEW t \in TaskIds, Reopen(t)
    PROVE  AllWorkKept
<1> DEFINE r == [Bumped(t) EXCEPT !.status = ReopensAs(t)]
<1>1. row' = [row EXCEPT ![t] = r] /\ now' = now
  BY DEF Reopen
<1>2. r.status # "active" /\ r.tracked = row[t].tracked + Elapsed(t)
  BY BumpedFields, BumpedType, ColumnTypes
     DEF BaseInv, Row, Reopen, ReopensAs, Elapsed, Running, Terminal
<1> HIDE DEF r
<1> QED
  BY <1>1, <1>2, WriteWork

LEMMA AcceptWork ==
    ASSUME BaseInv, NEW t \in TaskIds, Accept(t)
    PROVE  AllWorkKept
<1> DEFINE r == [Bumped(t) EXCEPT !.status = "pending"]
<1>1. row' = [row EXCEPT ![t] = r] /\ now' = now
  BY DEF Accept
<1>2. r.status # "active" /\ r.tracked = row[t].tracked + Elapsed(t)
  BY BumpedFields, BumpedType, ColumnTypes DEF BaseInv, Row, Accept, Elapsed, Running
<1> HIDE DEF r
<1> QED
  BY <1>1, <1>2, WriteWork

LEMMA SetCheckWork ==
    ASSUME BaseInv, NEW t \in TaskIds, NEW check, SetCheck(t, check)
    PROVE  AllWorkKept
<1> DEFINE r == [Bumped(t) EXCEPT !.check = check]
<1>1. row' = [row EXCEPT ![t] = r] /\ now' = now
  BY DEF SetCheck
<1>2. r.status = row[t].status /\ r.since = row[t].since /\ r.tracked = row[t].tracked
  BY BumpedFields, BumpedType DEF BaseInv, Row
<1> HIDE DEF r
<1> QED
  BY <1>1, <1>2, WriteWork

LEMMA DepAddWork ==
    ASSUME BaseInv, NEW t \in TaskIds, NEW d, DepAdd(t, d)
    PROVE  AllWorkKept
<1> DEFINE r == Bumped(t)
<1>1. row' = [row EXCEPT ![t] = r] /\ now' = now
  BY DEF DepAdd
<1>2. r.status = row[t].status /\ r.since = row[t].since /\ r.tracked = row[t].tracked
  BY BumpedFields DEF BaseInv
<1> HIDE DEF r
<1> QED
  BY <1>1, <1>2, WriteWork

LEMMA DepRemoveWork ==
    ASSUME BaseInv, NEW t \in TaskIds, NEW d, DepRemove(t, d)
    PROVE  AllWorkKept
<1> DEFINE r == Bumped(t)
<1>1. row' = [row EXCEPT ![t] = r] /\ now' = now
  BY DEF DepRemove
<1>2. r.status = row[t].status /\ r.since = row[t].since /\ r.tracked = row[t].tracked
  BY BumpedFields DEF BaseInv
<1> HIDE DEF r
<1> QED
  BY <1>1, <1>2, WriteWork

LEMMA TickWork ==
    ASSUME BaseInv, Tick, NEW t \in TaskIds
    PROVE  Worked(t)' = Worked(t) + (IF Running(t) THEN now' - now ELSE 0)
<1>1. /\ now \in Nat /\ now' = now + 1 /\ row' = row
      /\ row[t].tracked \in Nat /\ row[t].since \in Nat
  BY ColumnTypes DEF Tick, BaseInv, TypeInv, TypeOK
<1> QED
  BY <1>1 DEF Worked, Elapsed, Running

LEMMA StepWork ==
    ASSUME BaseInv, Next, newest'.op \notin {"adjust_tracked", "modify", "undo"}, ~Tick
    PROVE  AllWorkKept
<1>1. CASE \E c \in Clients, t \in TaskIds : Read(c, t)
  <2>1. now' = now /\ row' = row
    BY <1>1 DEF Read
  <2> QED
    BY <2>1, WorkKept DEF AllWorkKept
<1>2. CASE Adds
  <2>1. PICK t \in Added, status \in Births, wait \in Waits, due \in Dues,
             rule \in Periods \cup {0}, checked \in Checks,
             needs \in SUBSET {d \in TaskIds : \E e \in Edges : d = e[2]} :
             Add(t, status, wait, due, rule, checked, needs)
    BY <1>2 DEF Adds
  <2>2. t \in TaskIds
    BY IdsAssumption
  <2> QED
    BY <2>1, <2>2, AddWork
<1>3. CASE Clocks
  <2>1. ASSUME NEW t \in TaskIds, NEW delta, Adjust(t, delta) PROVE FALSE
    BY <2>1 DEF Adjust, Event
  <2> QED
    BY <1>3, <2>1, StartWork, StopWork, ReleaseWork, ClaimWork DEF Clocks, GitStart
<1>4. CASE Closes
  <2>1. ASSUME NEW t \in TaskIds, NEW set, NEW wait, NEW total, NEW who, NEW forceClaim,
               Modify(t, set, wait, total, who, forceClaim)
        PROVE  FALSE
    BY <2>1 DEF Modify, ModifyEvent, Event
  <2>2. ASSUME NEW t \in TaskIds, NEW who, NEW force, NEW forceClaim, NEW pass, NEW measured,
               NEW s \in TaskIds \cup {NoTask}, Done(t, who, force, forceClaim, pass, measured, s)
        PROVE  AllWorkKept
    BY <2>2, CompleteWork DEF Done
  <2>3. ASSUME NEW t \in TaskIds, NEW who, NEW s \in TaskIds \cup {NoTask}, DoneMerged(t, who, s)
        PROVE  AllWorkKept
    BY <2>3, CompleteWork DEF DoneMerged
  <2> QED
    BY <1>4, <2>1, <2>2, <2>3, CancelWork, ReopenWork DEF Closes
<1>5. CASE Triages
  BY <1>5, AcceptWork, DeclineWork, DuplicateWork DEF Triages
<1>6. CASE Relations
  BY <1>6, DepAddWork, DepRemoveWork, SetCheckWork DEF Relations
<1>7. CASE Undo
  BY <1>7, OpsOfOthers
<1> QED
  BY <1>1, <1>2, <1>3, <1>4, <1>5, <1>6, <1>7 DEF Next

\* Banked and running time together grow exactly with the clock: whoever stops,
\* completes, cancels, declines or reopens whatever, no second is lost or counted
\* twice (stop_row, complete, close_cancelled and the auto-stop of task.start).
THEOREM TimeIsKeptCorrect == Spec => TimeIsKept
<1>1. BaseInv /\ [Next]_vars
        => [newest'.op \notin {"adjust_tracked", "modify", "undo"} =>
              \A t \in TaskIds : Exists(t) =>
                  Worked(t)' = Worked(t) + (IF Running(t) THEN now' - now ELSE 0)]_vars
  <2> SUFFICES ASSUME BaseInv, Next, newest'.op \notin {"adjust_tracked", "modify", "undo"},
                      NEW t \in TaskIds, Exists(t)
               PROVE  Worked(t)' = Worked(t) + (IF Running(t) THEN now' - now ELSE 0)
    OBVIOUS
  <2>1. CASE Tick
    BY <2>1, TickWork
  <2>2. CASE ~Tick
    <3>1. now' = now /\ Worked(t)' = Worked(t)
      BY <2>2, StepWork DEF AllWorkKept
    <3>2. Worked(t) \in Int /\ now \in Nat
      BY ColumnTypes, ElapsedType DEF Worked, BaseInv, TypeInv, TypeOK
    <3> QED
      BY <3>1, <3>2
  <2> QED
    BY <2>1, <2>2
<1> QED
  BY <1>1, BaseInvariant, PTL DEF Spec, TimeIsKept

-----------------------------------------------------------------------------
(* Answers *)

\* t goes from open to closed, or back, and no edge and no other task's
\* status changes, but that a free id may be born.
OthersStay(t) ==
    /\ newest'.t = t /\ deps' = deps
    /\ \A x \in TaskIds \ {t} : row[x].status = "unborn" \/ row'[x].status = row[x].status
ClosesOne(t)  == Open(t) /\ Terminal(t)' /\ OthersStay(t)
ReopensOne(t) == Terminal(t) /\ Open(t)' /\ OthersStay(t)

\* Both ends of an edge exist, so no edge is at an id that is only born now.
LEMMA EdgesKept ==
    ASSUME BaseInv, NEW t \in TaskIds, OthersStay(t)
    PROVE  /\ \A x \in TaskIds : DependsOn(x)' = DependsOn(x) /\ Dependents(x)' = Dependents(x)
           /\ \A x, d \in TaskIds : d \in DependsOn(x) <=> x \in Dependents(d)
           /\ \A x, d \in TaskIds : d \in DependsOn(x) => Exists(x) /\ Exists(d)
           /\ \A x \in TaskIds \ {t} : Exists(x) => /\ Exists(x)'
                                                    /\ Terminal(x)' <=> Terminal(x)
                                                    /\ Open(x)' <=> Open(x)
<1>1. \A x \in TaskIds : DependsOn(x)' = DependsOn(x) /\ Dependents(x)' = Dependents(x)
  BY DEF OthersStay, DependsOn, Dependents
<1>2. \A x, d \in TaskIds : d \in DependsOn(x) <=> x \in Dependents(d)
  BY DEF DependsOn, Dependents
<1>3. \A x, d \in TaskIds : d \in DependsOn(x) => Exists(x) /\ Exists(d)
  BY DEF DependsOn, BaseInv, EdgesInv
<1>4. ASSUME NEW x \in TaskIds \ {t}, Exists(x)
      PROVE  Exists(x)' /\ (Terminal(x)' <=> Terminal(x)) /\ (Open(x)' <=> Open(x))
  BY <1>4 DEF OthersStay, Exists, Terminal, Open
<1> QED
  BY <1>1, <1>2, <1>3, <1>4

LEMMA ClosingReleases ==
    ASSUME BaseInv, NEW t \in TaskIds, ClosesOne(t)
    PROVE  Unblocked(t)' = Released(t)
<1>1. OthersStay(t) /\ Open(t) /\ Terminal(t)' /\ ~Open(t)'
  BY DEF ClosesOne, Open
<1>2. ASSUME NEW x \in TaskIds, x \in Unblocked(t)' PROVE x \in Released(t)
  <2>1. x # t /\ t \in DependsOn(x) /\ Open(x)' /\ \A d \in DependsOn(x) : ~Open(d)'
    BY <1>1, <1>2, EdgesKept DEF Unblocked
  <2>2. ~Terminal(x)
    BY <1>1, <2>1, EdgesKept DEF Open
  <2>3. Blocked(x)
    BY <1>1, <2>1, <2>2 DEF Blocked, OpenBlockers
  <2>4. ~Blocked(x)'
    BY <1>1, <2>1, EdgesKept DEF Blocked, OpenBlockers
  <2> QED
    BY <2>1, <2>3, <2>4 DEF Released
<1>3. ASSUME NEW x \in TaskIds, x \in Released(t) PROVE x \in Unblocked(t)'
  <2>1. x # t /\ Blocked(x) /\ ~Blocked(x)'
    BY <1>3 DEF Released
  <2>2. PICK d \in DependsOn(x) : Open(d) /\ ~Terminal(x)
    BY <2>1 DEF Blocked, OpenBlockers
  <2>3. d \in TaskIds /\ Open(x) /\ Open(x)' /\ ~Terminal(x)'
    BY <1>1, <2>1, <2>2, EdgesKept DEF Open, DependsOn
  <2>4. \A e \in DependsOn(x)' : ~Open(e)'
    BY <2>1, <2>3 DEF Blocked, OpenBlockers
  <2>5. d = t
    BY <1>1, <2>2, <2>3, <2>4, EdgesKept
  <2> QED
    BY <1>1, <2>2, <2>3, <2>4, <2>5, EdgesKept DEF Unblocked
<1>4. Unblocked(t)' \subseteq TaskIds /\ Released(t) \subseteq TaskIds
  BY DEF Unblocked, Dependents, Released
<1> QED
  BY <1>2, <1>3, <1>4

LEMMA ReopeningBlocks ==
    ASSUME BaseInv, Acyclic, NEW t \in TaskIds, ReopensOne(t)
    PROVE  Reblocked(t)' = {x \in TaskIds \ {t} : ~Blocked(x) /\ Blocked(x)'}
<1>1. OthersStay(t) /\ Terminal(t) /\ ~Open(t) /\ Open(t)' /\ ~Blocked(t)
  BY DEF ReopensOne, Open, Blocked, OpenBlockers
<1>2. ASSUME NEW x \in TaskIds, x \in Reblocked(t)', x # t PROVE ~Blocked(x) /\ Blocked(x)'
  <2>1. t \in DependsOn(x) /\ Open(x)' /\ {d \in DependsOn(x) : Open(d)'} = {t}
    BY <1>1, <1>2, EdgesKept DEF Reblocked
  <2>2. Blocked(x)'
    BY <1>1, <2>1, EdgesKept DEF Blocked, OpenBlockers, Open
  <2>3. ASSUME NEW d \in DependsOn(x), Open(d) PROVE FALSE
    <3>1. d \in TaskIds /\ d # t
      BY <1>1, <2>3 DEF DependsOn
    <3>2. Open(d)'
      BY <1>1, <2>3, <3>1, EdgesKept
    <3> QED
      BY <2>1, <3>1, <3>2
  <2> QED
    BY <2>2, <2>3 DEF Blocked, OpenBlockers
<1>3. ASSUME NEW x \in TaskIds \ {t}, ~Blocked(x), Blocked(x)' PROVE x \in Reblocked(t)'
  <2>1. PICK d \in DependsOn(x) : Open(d)' /\ ~Terminal(x)'
    BY <1>1, <1>3, EdgesKept DEF Blocked, OpenBlockers
  <2>2. d \in TaskIds /\ Exists(x) /\ Open(x)' /\ ~Terminal(x)
    BY <1>1, <2>1, EdgesKept DEF DependsOn, Open
  <2>3. \A e \in DependsOn(x) : ~Open(e)
    BY <1>3, <2>2 DEF Blocked, OpenBlockers
  <2>4. \A e \in DependsOn(x) : Open(e)' => e = t
    BY <1>1, <2>3, EdgesKept DEF DependsOn
  <2> QED
    BY <1>1, <2>1, <2>2, <2>4, EdgesKept DEF Reblocked
<1>4. t \notin Reblocked(t)'
  <2>1. t \notin DependsOn(t)
    BY DEF Acyclic, Reaches
  <2>2. t \notin Dependents(t)'
    BY <1>1, <2>1, EdgesKept
  <2> QED
    BY <2>2 DEF Reblocked
<1>5. Reblocked(t)' \subseteq TaskIds
  BY DEF Reblocked, Dependents
<1> QED
  BY <1>2, <1>3, <1>4, <1>5

\* Each call that records a close closes one task.
LEMMA CompleteCloses ==
    ASSUME BaseInv, NEW t \in TaskIds, NEW who, NEW forceClaim, NEW pass, NEW measured,
           NEW s \in TaskIds \cup {NoTask}, Open(t),
           Complete(t, who, forceClaim, pass, measured, s)
    PROVE  ClosesOne(t)
<1> DEFINE check == IF pass THEN "passed" ELSE row[t].check
           closed == ClosedRow(t, "done")
           r == [closed EXCEPT !.check = check]
<1>1. /\ row' = [x \in TaskIds |-> IF x = t THEN r ELSE IF x = s THEN SpawnedRow(t) ELSE row[x]]
      /\ deps' = deps
      /\ s \in TaskIds => row[s].status = "unborn"
  BY IdsAssumption DEF Complete
<1>2. closed \in Row /\ closed.status = "done"
  BY ClosedFields, ClosedRowType, Literals DEF BaseInv
<1> HIDE DEF closed, check
<1>3. r.status = "done"
  BY <1>2 DEF Row
<1> HIDE DEF r
<1>4. Terminal(t)'
  BY <1>1, <1>3 DEF Terminal
<1>5. \A x \in TaskIds \ {t} : row[x].status = "unborn" \/ row'[x].status = row[x].status
  BY <1>1
<1>6. newest'.t = t
  <2> DEFINE e == ClosingEvent("done", t)
  <2>1. e \in Events /\ e.t = t
    BY ClosingEventType, ClosingEventKeeps DEF Ops, BaseInv
  <2>2. newest' = [e EXCEPT !.check = row[t].check, !.spawn = s, !.measured = measured]
    BY DEF Complete
  <2> HIDE DEF e
  <2> QED
    BY <2>1, <2>2 DEF Events
<1> QED
  BY <1>1, <1>4, <1>5, <1>6 DEF ClosesOne, OthersStay

LEMMA WriteCloses ==
    ASSUME BaseInv, NEW t \in TaskIds, NEW r, row' = [row EXCEPT ![t] = r],
           r.status = "cancelled", newest' = ClosingEvent("cancel", t), deps' = deps, Open(t)
    PROVE  ClosesOne(t)
<1>1. row'[t] = r /\ \A x \in TaskIds \ {t} : row'[x] = row[x]
  BY DEF BaseInv, TypeInv, TypeOK
<1>2. newest'.t = t
  BY ClosingEventKeeps DEF Ops
<1> QED
  BY <1>1, <1>2 DEF ClosesOne, OthersStay, Terminal

LEMMA CallsClose ==
    ASSUME BaseInv, Closes \/ Triages, newest'.op \in {"done", "cancel"}
    PROVE  \E t \in TaskIds : ClosesOne(t)
<1>1. ASSUME NEW t \in TaskIds, NEW who, NEW force, NEW forceClaim, NEW pass, NEW measured,
             NEW s \in TaskIds \cup {NoTask}, Done(t, who, force, forceClaim, pass, measured, s)
      PROVE  ClosesOne(t)
  <2>1. Open(t)
    BY <1>1 DEF Done, Status, Open, Exists, Terminal
  <2> QED
    BY <1>1, <2>1, CompleteCloses DEF Done
<1>2. ASSUME NEW t \in TaskIds, NEW who, NEW s \in TaskIds \cup {NoTask}, DoneMerged(t, who, s)
      PROVE  ClosesOne(t)
  <2>1. Open(t)
    BY <1>2 DEF DoneMerged, Status, Open, Exists, Terminal
  <2> QED
    BY <1>2, <2>1, CompleteCloses DEF DoneMerged
<1>3. ASSUME NEW t \in TaskIds, NEW who, NEW forceClaim, Cancel(t, who, forceClaim)
      PROVE  ClosesOne(t)
  <2>1. ClosedRow(t, "cancelled").status = "cancelled"
    BY ClosedFields, Literals DEF BaseInv
  <2> QED
    BY <1>3, <2>1, WriteCloses DEF Cancel
<1>4. ASSUME NEW t \in TaskIds, NEW set, NEW wait, NEW total, NEW who, NEW forceClaim,
             Modify(t, set, wait, total, who, forceClaim)
      PROVE  newest'.op = "modify"
  BY <1>4 DEF Modify, ModifyEvent, Event
<1>5. ASSUME NEW t \in TaskIds, Reopen(t) \/ Accept(t)
      PROVE  newest'.op \in {"reopen", "accept"}
  BY <1>5 DEF Reopen, Accept, Event
<1>6. ASSUME NEW t \in TaskIds, NEW who, NEW forceClaim, NEW reason,
             Decline(t, who, forceClaim, reason)
      PROVE  ClosesOne(t)
  <2> DEFINE closed == ClosedRow(t, "cancelled")
             r == [closed EXCEPT !.rev = row[t].rev + (IF reason THEN 2 ELSE 1)]
  <2>1. closed \in Row /\ closed.status = "cancelled"
    BY ClosedFields, ClosedRowType, Literals DEF BaseInv
  <2> HIDE DEF closed
  <2>2. r.status = "cancelled"
    BY <2>1 DEF Row
  <2>3. row' = [row EXCEPT ![t] = r] /\ newest' = ClosingEvent("cancel", t) /\ deps' = deps
    BY <1>6 DEF Decline, closed
  <2>4. Open(t)
    BY <1>6 DEF Decline, Open, Exists, Terminal
  <2> HIDE DEF r
  <2> QED
    BY <2>2, <2>3, <2>4, WriteCloses
<1>7. ASSUME NEW t \in TaskIds, NEW original, NEW who, NEW forceClaim,
             Duplicate(t, original, who, forceClaim)
      PROVE  newest'.op = "duplicate"
  BY <1>7 DEF Duplicate, Event
<1>8. CASE Closes
  BY <1>1, <1>2, <1>3, <1>4, <1>5, <1>8 DEF Closes
<1>9. CASE Triages
  BY <1>5, <1>6, <1>7, <1>9 DEF Triages
<1> QED
  BY <1>8, <1>9

LEMMA OpsOfClocks ==
    ASSUME Clocks
    PROVE  newest'.op \in {"start", "stop", "claim", "release", "adjust_tracked"}
<1>1. ASSUME NEW t, NEW call, NEW keep, Start(t, call, keep)
      PROVE  newest'.op = "start"
  BY <1>1 DEF Start, Event
<1>2. ASSUME NEW t, NEW claimant, GitStart(t, claimant)
      PROVE  newest'.op = "start"
  BY <1>1, <1>2 DEF GitStart
<1>3. ASSUME NEW t, NEW who, NEW force, Stop(t, who, force)
      PROVE  newest'.op = "stop"
  BY <1>3 DEF Stop, Event
<1>4. ASSUME NEW t, NEW who, NEW force, Release(t, who, force)
      PROVE  newest'.op = "release"
  BY <1>4 DEF Release, Event
<1>5. ASSUME NEW t, NEW who, NEW lease, Claim(t, who, lease)
      PROVE  newest'.op = "claim"
  BY <1>5 DEF Claim, Event
<1>6. ASSUME NEW t, NEW delta, Adjust(t, delta)
      PROVE  newest'.op = "adjust_tracked"
  BY <1>6 DEF Adjust, Event
<1> QED
  BY <1>1, <1>2, <1>3, <1>4, <1>5, <1>6 DEF Clocks

\* What a close answers as "unblocked" (compute_unblocked, task.rs 2077-2150) is
\* exactly the work it makes actionable: whatever the graph, none is missed and
\* none is named that still waits, was closed already, or waited on nothing.
LEMMA CloseAnswers ==
    ASSUME BaseInv, Next, row' # row, newest'.op \in {"done", "cancel"},
           NEW t \in TaskIds, newest'.t = t
    PROVE  Unblocked(t)' = Released(t)
<1>1. CASE Tick \/ \E c \in Clients, x \in TaskIds : Read(c, x)
  BY <1>1 DEF Tick, Read
<1>2. CASE Clocks
  BY <1>2, OpsOfClocks
<1>3. CASE Adds \/ Relations \/ Undo
  BY <1>3, OpsOfOthers
<1>4. CASE Closes \/ Triages
  <2>1. PICK u \in TaskIds : ClosesOne(u)
    BY <1>4, CallsClose
  <2>2. u = t
    BY <2>1 DEF ClosesOne, OthersStay
  <2> QED
    BY <2>1, <2>2, ClosingReleases
<1> QED
  BY <1>1, <1>2, <1>3, <1>4 DEF Next

LEMMA CallsReopen ==
    ASSUME BaseInv, Closes \/ Triages, newest'.op = "reopen"
    PROVE  \E t \in TaskIds : ReopensOne(t)
<1>1. ASSUME NEW t \in TaskIds, NEW who, NEW force, NEW forceClaim, NEW pass, NEW measured,
             NEW s, Done(t, who, force, forceClaim, pass, measured, s)
      PROVE  newest'.op = "done"
  BY <1>1, CompletesAsDone DEF Done
<1>2. ASSUME NEW t \in TaskIds, NEW who, NEW s, DoneMerged(t, who, s)
      PROVE  newest'.op = "done"
  BY <1>2, CompletesAsDone DEF DoneMerged
<1>3. ASSUME NEW t \in TaskIds, NEW who, NEW forceClaim, Cancel(t, who, forceClaim)
      PROVE  newest'.op = "cancel"
  BY <1>3, ClosingEventKeeps DEF Cancel, Ops
<1>4. ASSUME NEW t \in TaskIds, NEW set, NEW wait, NEW total, NEW who, NEW forceClaim,
             Modify(t, set, wait, total, who, forceClaim)
      PROVE  newest'.op = "modify"
  BY <1>4 DEF Modify, ModifyEvent, Event
<1>5. ASSUME NEW t \in TaskIds, Reopen(t)
      PROVE  ReopensOne(t)
  <2> DEFINE bumped == Bumped(t)
             r == [bumped EXCEPT !.status = ReopensAs(t)]
  <2>1. row' = [row EXCEPT ![t] = r] /\ newest' = Event("reopen", t) /\ deps' = deps
        /\ Terminal(t)
    BY <1>5 DEF Reopen
  <2>2. bumped \in Row
    BY BumpedType DEF BaseInv
  <2> HIDE DEF bumped
  <2>3. r.status \in {"triage", "pending"}
    BY <2>2 DEF Row, ReopensAs
  <2> HIDE DEF r
  <2>4. row'[t] = r /\ \A x \in TaskIds \ {t} : row'[x] = row[x]
    BY <2>1 DEF BaseInv, TypeInv, TypeOK
  <2>5. newest'.t = t
    BY <2>1 DEF Event
  <2> QED
    BY <2>1, <2>3, <2>4, <2>5 DEF ReopensOne, OthersStay, Open, Exists, Terminal
<1>6. CASE Closes
  BY <1>1, <1>2, <1>3, <1>4, <1>5, <1>6 DEF Closes
<1>7. CASE Triages
  <2>1. ASSUME NEW t \in TaskIds, NEW who, NEW forceClaim, NEW reason,
               Decline(t, who, forceClaim, reason)
        PROVE  newest'.op = "cancel"
    BY <2>1, ClosingEventKeeps DEF Decline, Ops
  <2>2. ASSUME NEW t \in TaskIds, Accept(t)
        PROVE  newest'.op = "accept"
    BY <2>2 DEF Accept, Event
  <2>3. ASSUME NEW t \in TaskIds, NEW original, NEW who, NEW forceClaim,
               Duplicate(t, original, who, forceClaim)
        PROVE  newest'.op = "duplicate"
    BY <2>3 DEF Duplicate, Event
  <2> QED
    BY <1>7, <2>1, <2>2, <2>3 DEF Triages
<1> QED
  BY <1>6, <1>7

\* What a reopen answers as "blocked" (compute_reblocked, task.rs 4662-4695) is
\* exactly the work it takes out of the actionable set: a dependent that another
\* open task blocked all along is not named. No task depends on itself, so the
\* reopened task is never in its own answer.
LEMMA ReopenAnswers ==
    ASSUME BaseInv, Acyclic, Next, row' # row, newest'.op = "reopen",
           NEW t \in TaskIds, newest'.t = t
    PROVE  Reblocked(t)' = Withheld(t)
<1>1. CASE Tick \/ \E c \in Clients, x \in TaskIds : Read(c, x)
  BY <1>1 DEF Tick, Read
<1>2. CASE Clocks
  BY <1>2, OpsOfClocks
<1>3. CASE Adds \/ Relations \/ Undo
  BY <1>3, OpsOfOthers
<1>4. CASE Closes \/ Triages
  <2>1. PICK u \in TaskIds : ReopensOne(u)
    BY <1>4, CallsReopen
  <2>2. u = t
    BY <2>1 DEF ReopensOne, OthersStay
  <2> QED
    BY <2>1, <2>2, ReopeningBlocks DEF Withheld
<1> QED
  BY <1>1, <1>2, <1>3, <1>4 DEF Next

\* Every call's answer names exactly the work that it released or blocked, for
\* any sets of tasks and any graph: compute_unblocked and compute_reblocked read
\* the tables after the call has written, and miss nothing by it.
THEOREM CallsAnswerCorrect == Spec => CallsAnswer
<1>1. BaseInv /\ Acyclic /\ [Next]_vars
        => [row' # row => \A t \in TaskIds : newest'.t = t =>
              /\ newest'.op \in {"done", "cancel"} => Unblocked(t)' = Released(t)
              /\ newest'.op = "reopen" => Reblocked(t)' = Withheld(t)]_vars
  BY CloseAnswers, ReopenAnswers
<1> QED
  BY <1>1, BaseInvariant, AcyclicCorrect, PTL DEF Spec, CallsAnswer

-----------------------------------------------------------------------------
(* Proposals *)

\* accepted is what tells proposals from work, also while a task is closed:
\* leftTriage stands in for it then, and newest.from while an undo may reopen.
Waiting(t) ==
    /\ row[t].status = "unborn" => t \notin accepted
    /\ Open(t) => (row[t].status = "triage" <=> t \notin accepted)
    /\ row[t].status = "done" => t \in accepted
    /\ row[t].status = "cancelled" => (leftTriage[t] <=> t \notin accepted)
EventWaits ==
    /\ newest.op \in {"done", "cancel"} \/ (newest.op = "modify" /\ "status" \in newest.cols)
          => /\ newest.from \notin {"done", "cancelled"}
             /\ newest.from = "triage" <=> newest.t \notin accepted
    /\ newest.op = "accept" => newest.t \in accepted
WaitInv == (\A t \in TaskIds : Waiting(t)) /\ EventWaits

\* A task's status changes at most between those of a clock.
SameKind(x) ==
    \/ row'[x].status = row[x].status
    \/ row[x].status \in {"pending", "active"} /\ row'[x].status \in {"pending", "active"}

\* Only a birth, an accept and the undo of an accept change what is accepted.
LEMMA OthersWait ==
    ASSUME HNext, NEW x \in TaskIds, Waiting(x), SameKind(x), leftTriage'[x] = leftTriage[x],
           newest'.op = "accept" => newest'.t # x,
           newest'.op = "undo" /\ newest.op = "accept" => newest.t # x
    PROVE  Waiting(x)' /\ (x \in accepted' <=> x \in accepted)
<1>1. Exists(x)' <=> Exists(x)
  BY DEF SameKind, Exists
<1>2. x \in accepted' <=> x \in accepted
  BY <1>1 DEF HNext, Accepting, Unaccepting
<1> QED
  BY <1>2 DEF Waiting, SameKind, Open, Exists, Terminal

LEMMA WriteSameKind ==
    ASSUME BaseInv, NEW t \in TaskIds, NEW r, row' = [row EXCEPT ![t] = r],
           \/ r.status = row[t].status
           \/ row[t].status \in {"pending", "active"} /\ r.status \in {"pending", "active"}
    PROVE  \A x \in TaskIds : SameKind(x)
<1>1. row'[t] = r /\ \A x \in TaskIds \ {t} : row'[x] = row[x]
  BY DEF BaseInv, TypeInv, TypeOK
<1> QED
  BY <1>1 DEF SameKind

\* A step that opens, closes, accepts and proposes nothing.
CalmOp ==
    /\ newest'.op \notin {"accept", "done", "cancel"}
    /\ newest'.op = "modify" => "status" \notin newest'.cols
    /\ newest'.op = "undo" => newest.op # "accept"
LEMMA CalmWaits ==
    ASSUME WaitInv, HNext, \A x \in TaskIds : SameKind(x), leftTriage' = leftTriage, CalmOp
    PROVE  WaitInv'
<1>1. ASSUME NEW x \in TaskIds PROVE Waiting(x)'
  BY OthersWait DEF WaitInv, CalmOp
<1>2. EventWaits'
  BY DEF EventWaits, CalmOp
<1> QED
  BY <1>1, <1>2 DEF WaitInv

LEMMA StillWaits ==
    ASSUME BaseInv, WaitInv, HNext, UNCHANGED <<row, leftTriage, newest>>
    PROVE  WaitInv'
<1>1. ASSUME NEW x \in TaskIds PROVE x \in accepted' <=> x \in accepted
  <2>1. Exists(x)' <=> Exists(x)
    BY DEF Exists
  <2>2. newest.op = "accept" => newest.t \in accepted
    BY DEF WaitInv, EventWaits
  <2> QED
    BY <2>1, <2>2 DEF HNext, Accepting, Unaccepting
<1>2. ASSUME NEW x \in TaskIds PROVE Waiting(x)'
  BY <1>1 DEF WaitInv, Waiting, Open, Exists, Terminal
<1>3. newest.op # "none" => newest.t \in TaskIds
  BY DEF BaseInv, NewestInv
<1>4. EventWaits'
  BY <1>1, <1>3 DEF WaitInv, EventWaits
<1> QED
  BY <1>2, <1>4 DEF WaitInv

LEMMA ClocksWait == ASSUME BaseInv, WaitInv, HNext, Clocks PROVE WaitInv'
<1>1. leftTriage' = leftTriage
  BY DEF Clocks, Start, GitStart, Stop, Release, Claim, Adjust
<1>2. CalmOp
  BY OpsOfClocks DEF CalmOp
<1>3. ASSUME NEW t \in TaskIds, NEW call, NEW keep, Start(t, call, keep)
      PROVE  \A x \in TaskIds : SameKind(x)
  <2> DEFINE q == [row[t] EXCEPT !.status = "active", !.since = now,
                       !.until = IF LiveClaim(t) /\ now + DefaultLease > row[t].until
                                 THEN now + DefaultLease ELSE row[t].until,
                       !.rev = row[t].rev + 1]
             stopped == IF keep THEN {} ELSE AutoStopped(Identity(call))
  <2>1. /\ row' = [a \in TaskIds |-> IF a = t THEN q
                    ELSE IF a \in stopped THEN StoppedRow(a) ELSE row[a]]
        /\ row[t].status = "pending"
    BY <1>3 DEF Start, Status
  <2>2. q.status = "active"
    BY ColumnTypes DEF Row, BaseInv
  <2> HIDE DEF q
  <2>3. \A a \in TaskIds : a \in stopped => row[a].status = "active"
    BY DEF AutoStopped, Running
  <2> HIDE DEF stopped
  <2>4. \A a \in TaskIds : StoppedRow(a).status = "pending"
    BY StoppedFields DEF BaseInv
  <2> QED
    BY <2>1, <2>2, <2>3, <2>4 DEF SameKind
<1>4. ASSUME NEW t \in TaskIds, NEW who, NEW force, Stop(t, who, force)
      PROVE  \A x \in TaskIds : SameKind(x)
  <2>1. StoppedRow(t).status = "pending" /\ row[t].status = "active"
    BY <1>4, StoppedFields DEF BaseInv, Stop, Running
  <2> QED
    BY <1>4, <2>1, WriteSameKind DEF Stop
<1>5. ASSUME NEW t \in TaskIds, NEW who, NEW force, Release(t, who, force)
      PROVE  \A x \in TaskIds : SameKind(x)
  <2> DEFINE r == [Bumped(t) EXCEPT !.by = NoOne, !.until = 0]
  <2>1. r.status = row[t].status
    BY BumpedFields, BumpedType DEF BaseInv, Row
  <2>2. row' = [row EXCEPT ![t] = r]
    BY <1>5 DEF Release
  <2> HIDE DEF r
  <2> QED
    BY <2>1, <2>2, WriteSameKind
<1>6. ASSUME NEW t \in TaskIds, NEW who, NEW lease, Claim(t, who, lease)
      PROVE  \A x \in TaskIds : SameKind(x)
  <2> DEFINE r == [Bumped(t) EXCEPT !.by = who, !.until = now + lease]
  <2>1. r.status = row[t].status
    BY BumpedFields, BumpedType DEF BaseInv, Row
  <2>2. row' = [row EXCEPT ![t] = r]
    BY <1>6 DEF Claim
  <2> HIDE DEF r
  <2> QED
    BY <2>1, <2>2, WriteSameKind
<1>7. ASSUME NEW t \in TaskIds, NEW delta, Adjust(t, delta)
      PROVE  \A x \in TaskIds : SameKind(x)
  <2> DEFINE r == [Bumped(t) EXCEPT !.tracked = row[t].tracked + delta,
                                    !.adj = row[t].adj + delta]
  <2>1. r.status = row[t].status
    BY BumpedFields, BumpedType DEF BaseInv, Row
  <2>2. row' = [row EXCEPT ![t] = r]
    BY <1>7 DEF Adjust
  <2> HIDE DEF r
  <2> QED
    BY <2>1, <2>2, WriteSameKind
<1>8. \A x \in TaskIds : SameKind(x)
  BY <1>3, <1>4, <1>5, <1>6, <1>7 DEF Clocks, GitStart
<1> QED
  BY <1>1, <1>2, <1>8, CalmWaits

LEMMA RelationsWait == ASSUME BaseInv, WaitInv, HNext, Relations PROVE WaitInv'
<1>1. leftTriage' = leftTriage /\ CalmOp
  <2>1. newest'.op \in {"dependency.add", "dependency.remove", "check"}
    BY OpsOfOthers
  <2> QED
    BY <2>1 DEF CalmOp, Relations, DepAdd, DepRemove, SetCheck
<1>2. ASSUME NEW t \in TaskIds, row' = [row EXCEPT ![t] = Bumped(t)]
      PROVE  \A x \in TaskIds : SameKind(x)
  BY <1>2, BumpedFields, WriteSameKind DEF BaseInv
<1>3. ASSUME NEW t \in TaskIds, NEW check, SetCheck(t, check)
      PROVE  \A x \in TaskIds : SameKind(x)
  <2> DEFINE r == [Bumped(t) EXCEPT !.check = check]
  <2>1. r.status = row[t].status
    BY BumpedFields, BumpedType DEF BaseInv, Row
  <2>2. row' = [row EXCEPT ![t] = r]
    BY <1>3 DEF SetCheck
  <2> HIDE DEF r
  <2> QED
    BY <2>1, <2>2, WriteSameKind
<1>4. \A x \in TaskIds : SameKind(x)
  BY <1>2, <1>3 DEF Relations, DepAdd, DepRemove
<1> QED
  BY <1>1, <1>4, CalmWaits

LEMMA AddsWait == ASSUME BaseInv, WaitInv, HNext, Adds PROVE WaitInv'
<1>1. PICK t \in Added, status \in Births, wait \in Waits, due \in Dues,
           rule \in Periods \cup {0}, checked \in Checks,
           needs \in SUBSET {d \in TaskIds : \E e \in Edges : d = e[2]} :
           Add(t, status, wait, due, rule, checked, needs)
  BY DEF Adds
<1> DEFINE r == Fresh(status, wait, due, rule, IF checked THEN "open" ELSE "none", NoTask,
                      1 + Cardinality(needs) + (IF checked THEN 1 ELSE 0))
<1>2. /\ row' = [row EXCEPT ![t] = r] /\ row[t].status = "unborn" /\ t \in TaskIds
      /\ leftTriage' = leftTriage /\ newest' = Event("add", t)
  BY <1>1, IdsAssumption DEF Add
<1>3. r.status = status /\ status \in {"pending", "triage"}
  BY CallsAssumption DEF Fresh
<1> HIDE DEF r
<1>4. row'[t] = r /\ \A x \in TaskIds \ {t} : row'[x] = row[x]
  BY <1>2 DEF BaseInv, TypeInv, TypeOK
<1>5. newest'.op = "add"
  BY <1>2 DEF Event
<1>6. \A x \in TaskIds \ {t} : Waiting(x)'
  BY <1>2, <1>4, <1>5, OthersWait DEF SameKind, WaitInv
<1>7. t \in accepted' <=> status # "triage"
  <2>1. t \notin accepted /\ ~Exists(t) /\ Exists(t)'
    BY <1>2, <1>3, <1>4 DEF WaitInv, Waiting, Exists
  <2> QED
    BY <2>1, <1>2, <1>3, <1>4, <1>5 DEF HNext, Accepting, Unaccepting
<1>8. Waiting(t)'
  BY <1>3, <1>4, <1>7 DEF Waiting, Open
<1> QED
  BY <1>5, <1>6, <1>8 DEF WaitInv, EventWaits

\* A task closes; another may be born as work, no other changes its kind.
ClosesQuietly(t) ==
    /\ Open(t) /\ row'[t].status \in {"done", "cancelled"}
    /\ row'[t].status = "done" => row[t].status # "triage"
    /\ row'[t].status = "cancelled" => (leftTriage'[t] <=> row[t].status = "triage")
    /\ \A x \in TaskIds \ {t} : \/ SameKind(x) /\ leftTriage'[x] = leftTriage[x]
                                \/ row[x].status = "unborn" /\ row'[x].status = "pending"
    /\ newest'.op \in {"done", "cancel", "modify", "duplicate"}
    /\ newest'.op # "duplicate" => newest'.t = t /\ newest'.from = row[t].status

LEMMA CloseWaits ==
    ASSUME BaseInv, WaitInv, HNext, NEW t \in TaskIds, ClosesQuietly(t)
    PROVE  WaitInv'
<1>1. t \in accepted' <=> t \in accepted
  <2>1. Exists(t)
    BY DEF ClosesQuietly, Open
  <2> QED
    BY <2>1 DEF HNext, Accepting, Unaccepting, ClosesQuietly
<1>2. row[t].status = "triage" <=> t \notin accepted
  BY DEF ClosesQuietly, WaitInv, Waiting
<1>3. Waiting(t)'
  BY <1>1, <1>2 DEF ClosesQuietly, Waiting, Open, Terminal
<1>4. ASSUME NEW x \in TaskIds \ {t} PROVE Waiting(x)'
  <2>1. CASE SameKind(x) /\ leftTriage'[x] = leftTriage[x]
    BY <2>1, OthersWait DEF WaitInv, ClosesQuietly
  <2>2. CASE row[x].status = "unborn" /\ row'[x].status = "pending"
    <3>1. x \in accepted'
      BY <2>2 DEF HNext, Accepting, Unaccepting, Exists, ClosesQuietly
    <3> QED
      BY <2>2, <3>1 DEF Waiting
  <2> QED
    BY <2>1, <2>2 DEF ClosesQuietly
<1>5. EventWaits'
  BY <1>1, <1>2 DEF EventWaits, ClosesQuietly, Open, Terminal
<1> QED
  BY <1>3, <1>4, <1>5 DEF WaitInv

LEMMA CompleteWaits ==
    ASSUME BaseInv, WaitInv, HNext, NEW t \in TaskIds, NEW who, NEW forceClaim, NEW pass,
           NEW measured, NEW s \in TaskIds \cup {NoTask}, row[t].status \in {"pending", "active"},
           Complete(t, who, forceClaim, pass, measured, s)
    PROVE  WaitInv'
<1> DEFINE check == IF pass THEN "passed" ELSE row[t].check
           closed == ClosedRow(t, "done")
           r == [closed EXCEPT !.check = check]
<1>1. /\ row' = [x \in TaskIds |-> IF x = t THEN r ELSE IF x = s THEN SpawnedRow(t) ELSE row[x]]
      /\ leftTriage' = leftTriage
      /\ s \in TaskIds => row[s].status = "unborn"
  BY IdsAssumption DEF Complete
<1>2. closed \in Row /\ closed.status = "done"
  BY ClosedFields, ClosedRowType, Literals DEF BaseInv
<1> HIDE DEF closed, check
<1>3. r.status = "done"
  BY <1>2 DEF Row
<1> HIDE DEF r
<1>4. SpawnedRow(t).status = "pending"
  BY DEF SpawnedRow, Fresh
<1>5. newest'.op = "done" /\ newest'.t = t /\ newest'.from = row[t].status
  <2>1. ClosingEvent("done", t) \in Events /\ "done" \in Ops
    BY ClosingEventType DEF Ops, BaseInv
  <2> DEFINE e == ClosingEvent("done", t)
  <2>2. e.op = "done" /\ e.t = t /\ e.from = row[t].status
    BY <2>1, ClosingEventKeeps
  <2>3. newest' = [e EXCEPT !.check = row[t].check, !.spawn = s, !.measured = measured]
    BY DEF Complete
  <2> HIDE DEF e
  <2> QED
    BY <2>1, <2>2, <2>3 DEF Events, e
<1>6. Open(t)
  BY DEF Open, Exists, Terminal
<1>7. ASSUME NEW x \in TaskIds \ {t}
      PROVE  \/ SameKind(x) /\ leftTriage'[x] = leftTriage[x]
             \/ row[x].status = "unborn" /\ row'[x].status = "pending"
  BY <1>1, <1>4 DEF SameKind
<1>8. row'[t].status = "done"
  BY <1>1, <1>3
<1>9. ClosesQuietly(t)
  BY <1>5, <1>6, <1>7, <1>8 DEF ClosesQuietly
<1> QED
  BY <1>9, CloseWaits

\* A row is closed as cancelled, on whichever path, and the event says so.
LEMMA CancelWaits ==
    ASSUME BaseInv, WaitInv, HNext, NEW t \in TaskIds, NEW r, NEW left, Open(t),
           row' = [row EXCEPT ![t] = r], r.status = "cancelled",
           leftTriage' = [leftTriage EXCEPT ![t] = left], left <=> row[t].status = "triage",
           newest'.op \in {"cancel", "modify"}, newest'.t = t, newest'.from = row[t].status
    PROVE  WaitInv'
<1>1. /\ row'[t] = r /\ leftTriage'[t] = left
      /\ \A x \in TaskIds \ {t} : row'[x] = row[x] /\ leftTriage'[x] = leftTriage[x]
  BY DEF BaseInv, TypeInv, TypeOK
<1>2. leftTriage'[t] <=> row[t].status = "triage"
  BY <1>1, Zenon
<1>3. ClosesQuietly(t)
  BY <1>1, <1>2 DEF ClosesQuietly, SameKind
<1> QED
  BY <1>3, CloseWaits

LEMMA CancelsWait ==
    ASSUME BaseInv, WaitInv, HNext, NEW t \in TaskIds, NEW who, NEW forceClaim, NEW reason,
           Cancel(t, who, forceClaim) \/ Decline(t, who, forceClaim, reason)
    PROVE  WaitInv'
<1> DEFINE closed == ClosedRow(t, "cancelled")
           r == [closed EXCEPT !.rev = row[t].rev + (IF reason THEN 2 ELSE 1)]
<1>1. closed \in Row /\ closed.status = "cancelled"
  BY ClosedFields, ClosedRowType, Literals DEF BaseInv
<1>2. newest' = ClosingEvent("cancel", t)
  BY DEF Cancel, Decline
<1>3. newest'.op = "cancel" /\ newest'.t = t /\ newest'.from = row[t].status
  BY <1>2, ClosingEventKeeps DEF Ops
<1>4. CASE Cancel(t, who, forceClaim)
  <2> DEFINE left == row[t].status = "triage"
  <2>1. /\ row' = [row EXCEPT ![t] = closed] /\ Open(t)
        /\ leftTriage' = [leftTriage EXCEPT ![t] = left]
    BY <1>4 DEF Cancel
  <2>2. left <=> row[t].status = "triage"
    OBVIOUS
  <2> HIDE DEF closed, left
  <2> QED
    BY <1>1, <1>3, <2>1, <2>2, CancelWaits
<1>5. CASE Decline(t, who, forceClaim, reason)
  <2>1. /\ row' = [row EXCEPT ![t] = r] /\ row[t].status = "triage"
        /\ leftTriage' = [leftTriage EXCEPT ![t] = TRUE]
    BY <1>5 DEF Decline
  <2>2. Open(t)
    BY <2>1 DEF Open, Exists, Terminal
  <2> HIDE DEF closed
  <2>3. r.status = "cancelled"
    BY <1>1 DEF Row
  <2> HIDE DEF r
  <2> QED
    BY <1>3, <2>1, <2>2, <2>3, CancelWaits
<1> QED
  BY <1>4, <1>5

LEMMA ModifyWaits ==
    ASSUME BaseInv, WaitInv, HNext, NEW t \in TaskIds, NEW set \in SUBSET Columns,
           NEW wait \in Waits, NEW total \in Totals, NEW who, NEW forceClaim,
           Modify(t, set, wait, total, who, forceClaim)
    PROVE  WaitInv'
<1> DEFINE r == ModifiedRow(t, set, wait, total)
           left == row[t].status = "triage"
<1>1. row' = [row EXCEPT ![t] = r] /\ ("status" \in set => Open(t))
  BY DEF Modify
<1>2. /\ "status" \in set => r.status = "cancelled"
      /\ "status" \notin set => r.status = row[t].status
  BY ModifiedFields DEF BaseInv
<1>3. /\ "status" \in set => leftTriage' = [leftTriage EXCEPT ![t] = left]
      /\ "status" \notin set => leftTriage' = leftTriage
  BY DEF Modify
<1>4. /\ newest'.op = "modify" /\ newest'.t = t /\ newest'.cols = Written(t, set)
      /\ newest'.from = (IF "status" \in set THEN row[t].status ELSE "unborn")
  BY DEF Modify, ModifyEvent, Event
<1>5. "status" \in Written(t, set) => "status" \in set
  BY DEF Written
<1>6. left <=> row[t].status = "triage"
  OBVIOUS
<1> HIDE DEF r, left
<1>7. CASE "status" \in set
  BY <1>1, <1>2, <1>3, <1>4, <1>6, <1>7, CancelWaits
<1>8. CASE "status" \notin set
  <2>1. \A x \in TaskIds : SameKind(x)
    BY <1>1, <1>2, <1>8, WriteSameKind
  <2>2. CalmOp
    BY <1>4, <1>5, <1>8 DEF CalmOp
  <2> QED
    BY <1>3, <1>8, <2>1, <2>2, CalmWaits
<1> QED
  BY <1>7, <1>8

LEMMA DuplicateWaits ==
    ASSUME BaseInv, WaitInv, HNext, NEW t \in TaskIds, NEW original \in TaskIds, NEW who,
           NEW forceClaim, Duplicate(t, original, who, forceClaim)
    PROVE  WaitInv'
<1> DEFINE new(x) == DependentRow(x, x \in Repointed(t, original))
<1>1. /\ row' = [x \in TaskIds |-> IF x = t THEN ClosedRow(t, "cancelled")
                                   ELSE IF x \in Dependents(t) THEN new(x) ELSE row[x]]
      /\ row[t].status = "triage" /\ newest' = Event("duplicate", t)
      /\ leftTriage' = [leftTriage EXCEPT ![t] = TRUE]
  BY DEF Duplicate
<1>2. ASSUME NEW x \in TaskIds PROVE new(x).status = row[x].status
  BY DependentFields DEF BaseInv
<1> HIDE DEF new
<1>3. ASSUME NEW x \in TaskIds \ {t} PROVE SameKind(x) /\ leftTriage'[x] = leftTriage[x]
  BY <1>1, <1>2 DEF SameKind, BaseInv, TypeInv, TypeOK
<1>4. row'[t].status = "cancelled" /\ leftTriage'[t] = TRUE
  BY <1>1, ClosedFields, Literals DEF BaseInv, TypeInv, TypeOK
<1>5. Open(t) /\ newest'.op = "duplicate"
  BY <1>1 DEF Open, Exists, Terminal, Event
<1>6. ClosesQuietly(t)
  BY <1>1, <1>3, <1>4, <1>5 DEF ClosesQuietly
<1> QED
  BY <1>6, CloseWaits

\* A closed task comes back as what it was when it was closed.
LEMMA ReopenWaits ==
    ASSUME BaseInv, WaitInv, HNext, NEW t \in TaskIds, Reopen(t)
    PROVE  WaitInv'
<1> DEFINE bumped == Bumped(t)
           r == [bumped EXCEPT !.status = ReopensAs(t)]
<1>1. row' = [row EXCEPT ![t] = r] /\ newest' = Event("reopen", t)
      /\ leftTriage' = leftTriage /\ Terminal(t)
  BY DEF Reopen
<1>2. bumped \in Row
  BY BumpedType DEF BaseInv
<1> HIDE DEF bumped
<1>3. r.status = ReopensAs(t)
  BY <1>2 DEF Row
<1> HIDE DEF r
<1>4. row'[t] = r /\ \A x \in TaskIds \ {t} : row'[x] = row[x]
  BY <1>1 DEF BaseInv, TypeInv, TypeOK
<1>5. newest'.op = "reopen"
  BY <1>1 DEF Event
<1>6. ASSUME NEW x \in TaskIds \ {t} PROVE Waiting(x)'
  BY <1>1, <1>4, <1>5, OthersWait DEF SameKind, WaitInv
<1>7. t \in accepted' <=> t \in accepted
  <2>1. Exists(t)
    BY <1>1 DEF Exists, Terminal
  <2> QED
    BY <2>1, <1>5 DEF HNext, Accepting, Unaccepting
<1>8. /\ r.status \in {"triage", "pending"}
      /\ r.status = "triage" <=> t \notin accepted
  BY <1>1, <1>3 DEF ReopensAs, WaitInv, Waiting, Terminal
<1>9. Waiting(t)'
  BY <1>4, <1>7, <1>8 DEF Waiting
<1> QED
  BY <1>5, <1>6, <1>9 DEF WaitInv, EventWaits

LEMMA AcceptWaits ==
    ASSUME BaseInv, WaitInv, HNext, NEW t \in TaskIds, Accept(t)
    PROVE  WaitInv'
<1> DEFINE bumped == Bumped(t)
           r == [bumped EXCEPT !.status = "pending"]
<1>1. row' = [row EXCEPT ![t] = r] /\ newest' = Event("accept", t) /\ leftTriage' = leftTriage
  BY DEF Accept
<1>2. bumped \in Row
  BY BumpedType DEF BaseInv
<1> HIDE DEF bumped
<1>3. r.status = "pending"
  BY <1>2 DEF Row
<1> HIDE DEF r
<1>4. row'[t] = r /\ \A x \in TaskIds \ {t} : row'[x] = row[x]
  BY <1>1 DEF BaseInv, TypeInv, TypeOK
<1>5. newest'.op = "accept" /\ newest'.t = t
  BY <1>1 DEF Event
<1>6. ASSUME NEW x \in TaskIds \ {t} PROVE Waiting(x)'
  BY <1>1, <1>4, <1>5, OthersWait DEF SameKind, WaitInv
<1>7. t \in accepted'
  BY <1>5 DEF HNext, Accepting, Unaccepting
<1>8. Waiting(t)'
  BY <1>3, <1>4, <1>7 DEF Waiting
<1> QED
  BY <1>5, <1>6, <1>7, <1>8 DEF WaitInv, EventWaits

LEMMA ClosesWait == ASSUME BaseInv, WaitInv, HNext, Closes PROVE WaitInv'
<1>1. ASSUME NEW t \in TaskIds, NEW who, NEW force, NEW forceClaim, NEW pass, NEW measured,
             NEW s \in TaskIds \cup {NoTask}, Done(t, who, force, forceClaim, pass, measured, s)
      PROVE  WaitInv'
  <2>1. row[t].status \in {"pending", "active"}
    BY <1>1 DEF Done, Status
  <2> QED
    BY <1>1, <2>1, CompleteWaits DEF Done
<1>2. ASSUME NEW t \in TaskIds, NEW who, NEW s \in TaskIds \cup {NoTask}, DoneMerged(t, who, s)
      PROVE  WaitInv'
  <2>1. row[t].status \in {"pending", "active"}
    BY <1>2, ColumnTypes DEF DoneMerged, Status, BaseInv, Stored
  <2> QED
    BY <1>2, <2>1, CompleteWaits DEF DoneMerged
<1> QED
  BY <1>1, <1>2, CancelsWait, ModifyWaits, ReopenWaits DEF Closes

LEMMA TriagesWait == ASSUME BaseInv, WaitInv, HNext, Triages PROVE WaitInv'
BY AcceptWaits, CancelsWait, DuplicateWaits DEF Triages

\* An undo of a close puts the task back as what the event recorded of it.
LEMMA BackWaits ==
    ASSUME BaseInv, WaitInv, HNext, NEW t \in TaskIds, newest.t = t,
           newest.op \in {"done", "cancel"} \/ (newest.op = "modify" /\ "status" \in newest.cols),
           Exists(t), row'[t].status = newest.from, leftTriage' = leftTriage, newest'.op = "undo",
           \A x \in TaskIds \ {t} : SameKind(x) \/ row'[x].status = "removed"
    PROVE  WaitInv'
<1>1. /\ newest.from \notin {"done", "cancelled", "unborn", "removed"}
      /\ newest.from = "triage" <=> t \notin accepted
  BY DEF WaitInv, EventWaits, BaseInv, NewestInv
<1>2. t \in accepted' <=> t \in accepted
  BY DEF HNext, Accepting, Unaccepting
<1>3. Waiting(t)'
  BY <1>1, <1>2 DEF Waiting
<1>4. ASSUME NEW x \in TaskIds \ {t} PROVE Waiting(x)'
  <2>1. CASE SameKind(x)
    BY <2>1, OthersWait DEF WaitInv
  <2>2. CASE row'[x].status = "removed"
    BY <2>2 DEF Waiting, Open, Exists
  <2> QED
    BY <2>1, <2>2
<1> QED
  BY <1>3, <1>4 DEF WaitInv, EventWaits

LEMMA RevertedKinds ==
    ASSUME BaseInv, NEW t \in TaskIds, NEW r \in Row, Reverted(t, r)
    PROVE  /\ row'[t].status = r.status /\ \A x \in TaskIds \ {t} : SameKind(x)
           /\ leftTriage' = leftTriage /\ newest'.op = "undo"
<1> DEFINE q == [r EXCEPT !.rev = r.rev + 1]
<1>1. row' = [row EXCEPT ![t] = q] /\ newest' = Event("undo", t) /\ leftTriage' = leftTriage
  BY DEF Reverted
<1>2. q.status = r.status
  BY DEF Row
<1> HIDE DEF q
<1> QED
  BY <1>1, <1>2 DEF SameKind, Event, BaseInv, TypeInv, TypeOK

LEMMA RevertStopWaits ==
    ASSUME BaseInv, WaitInv, HNext, NEW t \in TaskIds, RevertStop(t)
    PROVE  WaitInv'
<1> DEFINE since == newest.at - newest.secs
           tracked == row[t].tracked - newest.secs
           r == [row[t] EXCEPT !.status = "active", !.since = since, !.tracked = tracked]
<1>1. since \in Nat /\ tracked \in Nat /\ row[t] \in Row /\ "active" \in Stored
  BY ColumnTypes, NewestFields, Literals DEF RevertStop, BaseInv, TypeInv, TypeOK, PastReadings
<1>2. Reverted(t, r) /\ row[t].status = "pending" /\ newest.op = "stop"
  BY DEF RevertStop, Status
<1> HIDE DEF since, tracked
<1>3. r \in Row
  BY <1>1, RowWrites, Zenon
<1>4. r.status = "active"
  BY <1>1 DEF Row
<1> HIDE DEF r
<1>5. row'[t].status = "active" /\ (\A x \in TaskIds \ {t} : SameKind(x))
      /\ leftTriage' = leftTriage /\ newest'.op = "undo"
  BY <1>2, <1>3, <1>4, RevertedKinds
<1>6. \A x \in TaskIds : SameKind(x)
  BY <1>2, <1>5 DEF SameKind
<1> QED
  BY <1>2, <1>5, <1>6, CalmWaits DEF CalmOp

LEMMA RevertCancelWaits ==
    ASSUME BaseInv, WaitInv, HNext, NEW t \in TaskIds, RevertCancel(t)
    PROVE  WaitInv'
<1> DEFINE base == PutBack(t)
           r == Reclaimed(base)
<1>1. /\ Reverted(t, r) /\ Exists(t) /\ MayPutBack(t) /\ newest.t = t
      /\ newest.op = "cancel"
  BY DEF RevertCancel, Exists
<1>2. base \in Row /\ r \in Row
  BY <1>1, PutBackType, ReclaimedType DEF BaseInv
<1>3. base.status = newest.from
  BY PutBackFields DEF BaseInv
<1> HIDE DEF base
<1>4. r.status = newest.from
  BY <1>2, <1>3, ReclaimedFields
<1> HIDE DEF r
<1> QED
  BY <1>1, <1>2, <1>4, RevertedKinds, BackWaits

LEMMA RevertModifyWaits ==
    ASSUME BaseInv, WaitInv, HNext, NEW t \in TaskIds, RevertModify(t)
    PROVE  WaitInv'
<1> DEFINE base == RowBefore(t)
           r == Reclaimed(base)
<1>1. /\ Reverted(t, r) /\ newest.t = t /\ newest.op = "modify" /\ Exists(t)
  BY DEF RevertModify, BaseInv, NewestInv
<1>2. base \in Row /\ r \in Row
  BY <1>1, RowBeforeType, ReclaimedType DEF BaseInv, RevertModify
<1>3. /\ "status" \in newest.cols => base.status = newest.from
      /\ "status" \notin newest.cols => base.status = row[t].status
  BY RowBeforeFields DEF BaseInv
<1> HIDE DEF base
<1>4. r.status = base.status
  BY <1>2, ReclaimedFields
<1> HIDE DEF r
<1>5. row'[t].status = r.status /\ (\A x \in TaskIds \ {t} : SameKind(x))
      /\ leftTriage' = leftTriage /\ newest'.op = "undo"
  BY <1>1, <1>2, RevertedKinds
<1>6. CASE "status" \in newest.cols
  BY <1>1, <1>3, <1>4, <1>5, <1>6, BackWaits
<1>7. CASE "status" \notin newest.cols
  <2>1. \A x \in TaskIds : SameKind(x)
    BY <1>3, <1>4, <1>5, <1>7 DEF SameKind
  <2> QED
    BY <1>1, <1>5, <2>1, CalmWaits DEF CalmOp
<1> QED
  BY <1>6, <1>7

LEMMA RevertDoneWaits ==
    ASSUME BaseInv, WaitInv, HNext, NEW t \in TaskIds, RevertDone(t)
    PROVE  WaitInv'
<1> DEFINE s == newest.spawn
           base == PutBack(t)
           claimed == Reclaimed(base)
           r == [claimed EXCEPT !.check = newest.check, !.rev = row[t].rev + 1]
<1>1. /\ row' = [x \in TaskIds |-> IF x = t THEN r ELSE IF x = s THEN RemovedSpawn(s) ELSE row[x]]
      /\ newest' = Event("undo", t) /\ MayPutBack(t) /\ Exists(t) /\ leftTriage' = leftTriage
      /\ newest.op = "done" /\ newest.t = t
  BY DEF RevertDone, Exists
<1>2. base \in Row /\ claimed \in Row
  BY <1>1, PutBackType, ReclaimedType DEF BaseInv
<1>3. base.status = newest.from
  BY PutBackFields DEF BaseInv
<1> HIDE DEF base
<1>4. claimed.status = newest.from
  BY <1>2, <1>3, ReclaimedFields
<1> HIDE DEF claimed
<1>5. r.status = newest.from
  BY <1>2, <1>4 DEF Row
<1> HIDE DEF r
<1>6. RemovedSpawn(s).status = "removed"
  BY DEF RemovedSpawn, Fresh
<1>7. ASSUME NEW x \in TaskIds \ {t} PROVE SameKind(x) \/ row'[x].status = "removed"
  BY <1>1, <1>6 DEF SameKind
<1>8. row'[t].status = newest.from /\ newest'.op = "undo"
  BY <1>1, <1>5 DEF Event
<1> QED
  BY <1>1, <1>7, <1>8, BackWaits

LEMMA RevertAdjustWaits ==
    ASSUME BaseInv, WaitInv, HNext, NEW t \in TaskIds, RevertAdjust(t) \/ RevertDepRemove(t)
    PROVE  WaitInv'
<1>1. CASE RevertAdjust(t)
  <2> DEFINE tracked == row[t].tracked - newest.delta
             adj == row[t].adj - newest.delta
             r == [row[t] EXCEPT !.tracked = tracked, !.adj = adj]
  <2>1. tracked \in Nat /\ adj \in Int /\ row[t] \in Row
    BY <1>1, ColumnTypes, NewestFields DEF RevertAdjust, BaseInv
  <2>2. Reverted(t, r) /\ newest.op = "adjust_tracked"
    BY <1>1 DEF RevertAdjust
  <2> HIDE DEF tracked, adj
  <2>3. r \in Row
    BY <2>1, RowWrites, Zenon
  <2>4. r.status = row[t].status
    BY <2>1 DEF Row
  <2> HIDE DEF r
  <2>5. (\A x \in TaskIds : SameKind(x)) /\ leftTriage' = leftTriage /\ newest'.op = "undo"
    BY <2>2, <2>3, <2>4, RevertedKinds DEF SameKind
  <2> QED
    BY <2>2, <2>5, CalmWaits DEF CalmOp
<1>2. CASE RevertDepRemove(t)
  <2>1. Reverted(t, row[t]) /\ newest.op = "dependency.remove" /\ row[t] \in Row
    BY <1>2, ColumnTypes DEF RevertDepRemove, BaseInv
  <2>2. (\A x \in TaskIds : SameKind(x)) /\ leftTriage' = leftTriage /\ newest'.op = "undo"
    BY <2>1, RevertedKinds DEF SameKind
  <2> QED
    BY <2>1, <2>2, CalmWaits DEF CalmOp
<1> QED
  BY <1>1, <1>2

\* An accept that is taken back makes the task a proposal again.
LEMMA RevertAcceptWaits ==
    ASSUME BaseInv, WaitInv, HNext, NEW t \in TaskIds, RevertAccept(t)
    PROVE  WaitInv'
<1> DEFINE r == [row[t] EXCEPT !.status = "triage"]
<1>1. /\ Reverted(t, r) /\ newest.op = "accept" /\ newest.t = t /\ row[t].status = "pending"
  BY DEF RevertAccept
<1>2. r \in Row /\ r.status = "triage"
  BY ColumnTypes, Literals DEF Row, BaseInv
<1> HIDE DEF r
<1>3. row'[t].status = "triage" /\ (\A x \in TaskIds \ {t} : SameKind(x))
      /\ leftTriage' = leftTriage /\ newest'.op = "undo"
  BY <1>1, <1>2, RevertedKinds
<1>4. ASSUME NEW x \in TaskIds \ {t} PROVE Waiting(x)'
  BY <1>1, <1>3, OthersWait DEF WaitInv
<1>5. t \notin accepted'
  BY <1>1, <1>3 DEF HNext, Unaccepting
<1>6. Waiting(t)'
  BY <1>3, <1>5 DEF Waiting
<1> QED
  BY <1>3, <1>4, <1>6 DEF WaitInv, EventWaits

LEMMA UndoWaits == ASSUME BaseInv, WaitInv, HNext, Undo PROVE WaitInv'
BY RevertStopWaits, RevertCancelWaits, RevertDoneWaits, RevertModifyWaits, RevertAdjustWaits,
   RevertAcceptWaits DEF Undo

LEMMA WaitInduction == BaseInv /\ WaitInv /\ [HNext]_hvars => WaitInv'
<1> SUFFICES ASSUME BaseInv, WaitInv, [HNext]_hvars PROVE WaitInv'
  OBVIOUS
<1>1. CASE UNCHANGED hvars
  BY <1>1 DEF hvars, vars, WaitInv, Waiting, EventWaits, Open, Exists, Terminal
<1>2. CASE HNext
  <2>1. Next
    BY <1>2 DEF HNext
  <2>2. CASE Tick \/ \E c \in Clients, t \in TaskIds : Read(c, t)
    <3>1. UNCHANGED <<row, leftTriage, newest>>
      BY <2>2 DEF Tick, Read
    <3> QED
      BY <1>2, <3>1, StillWaits
  <2> QED
    BY <1>2, <2>1, <2>2, AddsWait, ClocksWait, ClosesWait, TriagesWait, RelationsWait, UndoWaits
    DEF Next
<1> QED
  BY <1>1, <1>2

LEMMA HistoryRuns == HSpec => Spec
<1>1. HInit => Init
  BY DEF HInit
<1>2. [HNext]_hvars => [Next]_vars
  BY DEF HNext, hvars
<1> QED
  BY <1>1, <1>2, PTL DEF HSpec, Spec

\* D238: a proposal becomes work only by being accepted, and accepted work is
\* never a proposal again, whatever is cancelled, reopened, undone and cancelled
\* again in between (cancelled_from_triage, task.rs 4703-4728).
THEOREM ProposalsWaitCorrect == HSpec => []ProposalsWait
<1>1. HInit => WaitInv
  <2> SUFFICES ASSUME HInit PROVE WaitInv
    OBVIOUS
  <2>1. /\ \A t \in TaskIds : row[t].status = "unborn"
        /\ newest.op = "none" /\ accepted = {}
    BY DEF HInit, Init, NoRow, Fresh, Event
  <2> QED
    BY <2>1 DEF WaitInv, Waiting, EventWaits, Open, Exists
<1>2. BaseInv /\ WaitInv /\ [HNext]_hvars => WaitInv'
  BY WaitInduction
<1>3. WaitInv => ProposalsWait
  BY DEF WaitInv, Waiting, ProposalsWait
<1> QED
  BY <1>1, <1>2, <1>3, HistoryRuns, BaseInvariant, PTL DEF HSpec

-----------------------------------------------------------------------------
(* Clocks that do not run: only a running task has a start of its interval. *)

IdleRow(r) == r.status # "active" => r.since = 0
EventIdle ==
    newest.op = "modify" /\ "since" \in newest.cols
        => "status" \in newest.cols /\ newest.from = "active"
IdleInv == (\A t \in TaskIds : IdleRow(row[t])) /\ EventIdle

LEMMA WriteIdle ==
    ASSUME BaseInv, IdleInv, NEW t \in TaskIds, NEW r, row' = [row EXCEPT ![t] = r],
           IdleRow(r) \/ (r.status = row[t].status /\ r.since = row[t].since),
           newest'.op # "modify"
    PROVE  IdleInv'
<1>1. row'[t] = r /\ \A x \in TaskIds \ {t} : row'[x] = row[x]
  BY DEF BaseInv, TypeInv, TypeOK
<1> QED
  BY <1>1 DEF IdleInv, IdleRow, EventIdle

LEMMA AddsIdle == ASSUME BaseInv, IdleInv, Adds PROVE IdleInv'
<1>1. PICK t \in Added, status \in Births, wait \in Waits, due \in Dues,
           rule \in Periods \cup {0}, checked \in Checks,
           needs \in SUBSET {d \in TaskIds : \E e \in Edges : d = e[2]} :
           Add(t, status, wait, due, rule, checked, needs)
  BY DEF Adds
<1> DEFINE r == Fresh(status, wait, due, rule, IF checked THEN "open" ELSE "none", NoTask,
                      1 + Cardinality(needs) + (IF checked THEN 1 ELSE 0))
<1>2. row' = [row EXCEPT ![t] = r] /\ t \in TaskIds /\ newest' = Event("add", t)
  BY <1>1, IdsAssumption DEF Add
<1>3. r.since = 0
  BY DEF Fresh
<1> HIDE DEF r
<1> QED
  BY <1>2, <1>3, WriteIdle DEF IdleRow, Event

LEMMA StartIdle ==
    ASSUME BaseInv, IdleInv, NEW t \in TaskIds, NEW call, NEW keep, Start(t, call, keep)
    PROVE  IdleInv'
<1> DEFINE q == [row[t] EXCEPT !.status = "active", !.since = now,
                     !.until = IF LiveClaim(t) /\ now + DefaultLease > row[t].until
                               THEN now + DefaultLease ELSE row[t].until,
                     !.rev = row[t].rev + 1]
           stopped == IF keep THEN {} ELSE AutoStopped(Identity(call))
<1>1. /\ row' = [a \in TaskIds |-> IF a = t THEN q
                  ELSE IF a \in stopped THEN StoppedRow(a) ELSE row[a]]
      /\ newest' = Event("start", t)
  BY DEF Start
<1>2. q.status = "active"
  BY ColumnTypes DEF Row, BaseInv
<1> HIDE DEF q, stopped
<1>3. \A a \in TaskIds : StoppedRow(a).since = 0
  BY StoppedFields DEF BaseInv
<1> QED
  BY <1>1, <1>2, <1>3 DEF IdleInv, IdleRow, EventIdle, Event

LEMMA ClocksIdle == ASSUME BaseInv, IdleInv, Clocks PROVE IdleInv'
<1>1. newest'.op # "modify"
  BY OpsOfClocks
<1>2. ASSUME NEW t \in TaskIds, NEW who, NEW force, Stop(t, who, force)
      PROVE  IdleInv'
  <2>1. IdleRow(StoppedRow(t))
    BY StoppedFields DEF IdleRow, BaseInv
  <2> QED
    BY <1>1, <1>2, <2>1, WriteIdle DEF Stop
<1>3. ASSUME NEW t \in TaskIds, NEW who, NEW force, Release(t, who, force)
      PROVE  IdleInv'
  <2> DEFINE r == [Bumped(t) EXCEPT !.by = NoOne, !.until = 0]
  <2>1. r.status = row[t].status /\ r.since = row[t].since
    BY BumpedFields, BumpedType DEF BaseInv, Row
  <2>2. row' = [row EXCEPT ![t] = r]
    BY <1>3 DEF Release
  <2> HIDE DEF r
  <2> QED
    BY <1>1, <2>1, <2>2, WriteIdle
<1>4. ASSUME NEW t \in TaskIds, NEW who, NEW lease, Claim(t, who, lease)
      PROVE  IdleInv'
  <2> DEFINE r == [Bumped(t) EXCEPT !.by = who, !.until = now + lease]
  <2>1. r.status = row[t].status /\ r.since = row[t].since
    BY BumpedFields, BumpedType DEF BaseInv, Row
  <2>2. row' = [row EXCEPT ![t] = r]
    BY <1>4 DEF Claim
  <2> HIDE DEF r
  <2> QED
    BY <1>1, <2>1, <2>2, WriteIdle
<1>5. ASSUME NEW t \in TaskIds, NEW delta, Adjust(t, delta)
      PROVE  IdleInv'
  <2> DEFINE r == [Bumped(t) EXCEPT !.tracked = row[t].tracked + delta,
                                    !.adj = row[t].adj + delta]
  <2>1. r.status = row[t].status /\ r.since = row[t].since
    BY BumpedFields, BumpedType DEF BaseInv, Row
  <2>2. row' = [row EXCEPT ![t] = r]
    BY <1>5 DEF Adjust
  <2> HIDE DEF r
  <2> QED
    BY <1>1, <2>1, <2>2, WriteIdle
<1> QED
  BY <1>2, <1>3, <1>4, <1>5, StartIdle DEF Clocks, GitStart

LEMMA RelationsIdle == ASSUME BaseInv, IdleInv, Relations PROVE IdleInv'
<1>1. newest'.op # "modify"
  BY OpsOfOthers
<1>2. ASSUME NEW t \in TaskIds, row' = [row EXCEPT ![t] = Bumped(t)]
      PROVE  IdleInv'
  BY <1>1, <1>2, BumpedFields, WriteIdle DEF BaseInv
<1>3. ASSUME NEW t \in TaskIds, NEW check, SetCheck(t, check)
      PROVE  IdleInv'
  <2> DEFINE r == [Bumped(t) EXCEPT !.check = check]
  <2>1. r.status = row[t].status /\ r.since = row[t].since
    BY BumpedFields, BumpedType DEF BaseInv, Row
  <2>2. row' = [row EXCEPT ![t] = r]
    BY <1>3 DEF SetCheck
  <2> HIDE DEF r
  <2> QED
    BY <1>1, <2>1, <2>2, WriteIdle
<1> QED
  BY <1>2, <1>3 DEF Relations, DepAdd, DepRemove

LEMMA CompleteIdle ==
    ASSUME BaseInv, IdleInv, NEW t \in TaskIds, NEW who, NEW forceClaim, NEW pass,
           NEW measured, NEW s, Complete(t, who, forceClaim, pass, measured, s)
    PROVE  IdleInv'
<1> DEFINE check == IF pass THEN "passed" ELSE row[t].check
           closed == ClosedRow(t, "done")
           r == [closed EXCEPT !.check = check]
<1>1. row' = [x \in TaskIds |-> IF x = t THEN r ELSE IF x = s THEN SpawnedRow(t) ELSE row[x]]
  BY DEF Complete
<1>2. closed \in Row /\ closed.since = 0
  BY ClosedFields, ClosedRowType, Literals DEF BaseInv
<1> HIDE DEF closed, check
<1>3. r.since = 0
  BY <1>2 DEF Row
<1> HIDE DEF r
<1>4. SpawnedRow(t).since = 0
  BY DEF SpawnedRow, Fresh
<1>5. newest'.op = "done"
  BY CompletesAsDone
<1> QED
  BY <1>1, <1>3, <1>4, <1>5 DEF IdleInv, IdleRow, EventIdle

LEMMA CancelsIdle ==
    ASSUME BaseInv, IdleInv, NEW t \in TaskIds, NEW who, NEW forceClaim, NEW reason,
           Cancel(t, who, forceClaim) \/ Decline(t, who, forceClaim, reason)
    PROVE  IdleInv'
<1> DEFINE closed == ClosedRow(t, "cancelled")
           r == [closed EXCEPT !.rev = row[t].rev + (IF reason THEN 2 ELSE 1)]
<1>1. closed \in Row /\ closed.since = 0
  BY ClosedFields, ClosedRowType, Literals DEF BaseInv
<1>2. newest'.op = "cancel"
  BY ClosingEventKeeps DEF Cancel, Decline, Ops
<1>3. row' = [row EXCEPT ![t] = closed] \/ row' = [row EXCEPT ![t] = r]
  BY DEF Cancel, Decline
<1> HIDE DEF closed
<1>4. r.since = 0
  BY <1>1 DEF Row
<1> HIDE DEF r
<1> QED
  BY <1>1, <1>2, <1>3, <1>4, WriteIdle DEF IdleRow

LEMMA ModifyIdle ==
    ASSUME BaseInv, IdleInv, NEW t \in TaskIds, NEW set \in SUBSET Columns,
           NEW wait \in Waits, NEW total \in Totals, NEW who, NEW forceClaim,
           Modify(t, set, wait, total, who, forceClaim)
    PROVE  IdleInv'
<1> DEFINE r == ModifiedRow(t, set, wait, total)
<1>1. row' = [row EXCEPT ![t] = r]
  BY DEF Modify
<1>2. r.since = 0 \/ (r.status = row[t].status /\ r.since = row[t].since)
  BY ModifiedFields DEF BaseInv
<1> HIDE DEF r
<1>3. \A x \in TaskIds : IdleRow(row'[x])
  <2>1. row'[t] = r /\ \A x \in TaskIds \ {t} : row'[x] = row[x]
    BY <1>1 DEF BaseInv, TypeInv, TypeOK
  <2> QED
    BY <1>2, <2>1 DEF IdleInv, IdleRow
<1>4. /\ newest'.cols = Written(t, set)
      /\ newest'.from = (IF "status" \in set THEN row[t].status ELSE "unborn")
  BY DEF Modify, ModifyEvent, Event
<1>5. "since" \in Written(t, set) => "status" \in set /\ row[t].status = "active"
  BY CallsAssumption DEF Written, Running
<1>6. "status" \in set => "status" \in Written(t, set)
  BY DEF Written
<1>7. EventIdle'
  BY <1>4, <1>5, <1>6 DEF EventIdle
<1> QED
  BY <1>3, <1>7 DEF IdleInv

LEMMA ReopenIdle ==
    ASSUME BaseInv, IdleInv, NEW t \in TaskIds, Reopen(t) \/ Accept(t)
    PROVE  IdleInv'
<1> DEFINE bumped == Bumped(t)
           r == [bumped EXCEPT !.status = ReopensAs(t)]
           q == [bumped EXCEPT !.status = "pending"]
<1>1. /\ row' = [row EXCEPT ![t] = r] \/ row' = [row EXCEPT ![t] = q]
      /\ newest'.op # "modify" /\ row[t].status # "active"
  BY DEF Reopen, Accept, Terminal, Event
<1>2. bumped \in Row /\ bumped.since = 0
  BY <1>1, BumpedType, BumpedFields DEF BaseInv, IdleInv, IdleRow
<1> HIDE DEF bumped
<1>3. r.since = 0 /\ q.since = 0
  BY <1>2 DEF Row
<1> HIDE DEF r, q
<1> QED
  BY <1>1, <1>3, WriteIdle DEF IdleRow

LEMMA DuplicateIdle ==
    ASSUME BaseInv, IdleInv, NEW t \in TaskIds, NEW original, NEW who, NEW forceClaim,
           Duplicate(t, original, who, forceClaim)
    PROVE  IdleInv'
<1> DEFINE new(x) == DependentRow(x, x \in Repointed(t, original))
<1>1. /\ row' = [x \in TaskIds |-> IF x = t THEN ClosedRow(t, "cancelled")
                                   ELSE IF x \in Dependents(t) THEN new(x) ELSE row[x]]
      /\ newest' = Event("duplicate", t)
  BY DEF Duplicate
<1>2. ASSUME NEW x \in TaskIds PROVE new(x).status = row[x].status /\ new(x).since = row[x].since
  BY DependentFields DEF BaseInv
<1> HIDE DEF new
<1>3. ClosedRow(t, "cancelled").since = 0
  BY ClosedFields, Literals DEF BaseInv
<1> QED
  BY <1>1, <1>2, <1>3 DEF IdleInv, IdleRow, EventIdle, Event

LEMMA RevertedIdle ==
    ASSUME BaseInv, IdleInv, NEW t \in TaskIds, NEW r \in Row, Reverted(t, r), IdleRow(r)
    PROVE  IdleInv'
<1> DEFINE q == [r EXCEPT !.rev = r.rev + 1]
<1>1. row' = [row EXCEPT ![t] = q] /\ newest' = Event("undo", t)
  BY DEF Reverted
<1>2. q.status = r.status /\ q.since = r.since
  BY DEF Row
<1> HIDE DEF q
<1> QED
  BY <1>1, <1>2, WriteIdle DEF IdleRow, Event

LEMMA PutBackIdle ==
    ASSUME BaseInv, IdleInv, NEW t \in TaskIds, Terminal(t), MayPutBack(t)
    PROVE  LET r == Reclaimed(PutBack(t)) IN r \in Row /\ IdleRow(r)
<1> DEFINE base == PutBack(t)
           r == Reclaimed(base)
<1>1. base \in Row /\ r \in Row
  BY PutBackType, ReclaimedType DEF BaseInv
<1>2. row[t].since = 0
  BY DEF IdleInv, IdleRow, Terminal
<1>3. base.status = "active" \/ base.since = 0
  BY <1>2, PutBackFields DEF BaseInv
<1> HIDE DEF base
<1>4. r.status = base.status /\ r.since = base.since
  BY <1>1, ReclaimedFields
<1> QED
  BY <1>1, <1>3, <1>4 DEF IdleRow, base

LEMMA RevertModifyIdle ==
    ASSUME BaseInv, IdleInv, NEW t \in TaskIds, RevertModify(t)
    PROVE  IdleInv'
<1> DEFINE base == RowBefore(t)
           r == Reclaimed(base)
<1>1. Reverted(t, r) /\ newest.op = "modify"
      /\ ("status" \in newest.cols => row[t].status = "cancelled")
  BY DEF RevertModify
<1>2. base \in Row /\ r \in Row
  BY RowBeforeType, ReclaimedType DEF BaseInv, RevertModify
<1>3. /\ "status" \in newest.cols => base.status = newest.from
      /\ "status" \notin newest.cols => base.status = row[t].status
      /\ "since" \notin newest.cols => base.since = row[t].since
  BY RowBeforeFields DEF BaseInv
<1> HIDE DEF base
<1>4. r.status = base.status /\ r.since = base.since
  BY <1>2, ReclaimedFields
<1>5. IdleRow(base)
  BY <1>1, <1>3 DEF IdleInv, EventIdle, IdleRow
<1>6. IdleRow(r)
  BY <1>4, <1>5 DEF IdleRow
<1> HIDE DEF r
<1> QED
  BY <1>1, <1>2, <1>6, RevertedIdle

LEMMA RevertDoneIdle ==
    ASSUME BaseInv, IdleInv, NEW t \in TaskIds, RevertDone(t)
    PROVE  IdleInv'
<1> DEFINE s == newest.spawn
           claimed == Reclaimed(PutBack(t))
           r == [claimed EXCEPT !.check = newest.check, !.rev = row[t].rev + 1]
<1>1. /\ row' = [x \in TaskIds |-> IF x = t THEN r ELSE IF x = s THEN RemovedSpawn(s) ELSE row[x]]
      /\ newest' = Event("undo", t) /\ MayPutBack(t) /\ Terminal(t)
  BY DEF RevertDone, Terminal
<1>2. claimed \in Row /\ IdleRow(claimed)
  BY <1>1, PutBackIdle
<1> HIDE DEF claimed
<1>3. r.status = claimed.status /\ r.since = claimed.since
  BY <1>2 DEF Row
<1> HIDE DEF r
<1>4. RemovedSpawn(s).since = 0
  BY DEF RemovedSpawn, Fresh
<1> QED
  BY <1>1, <1>2, <1>3, <1>4 DEF IdleInv, IdleRow, EventIdle, Event

LEMMA UndoIdle == ASSUME BaseInv, IdleInv, Undo PROVE IdleInv'
<1>1. ASSUME NEW t \in TaskIds, RevertStop(t) PROVE IdleInv'
  <2> DEFINE since == newest.at - newest.secs
             tracked == row[t].tracked - newest.secs
             r == [row[t] EXCEPT !.status = "active", !.since = since, !.tracked = tracked]
  <2>1. since \in Nat /\ tracked \in Nat /\ row[t] \in Row /\ "active" \in Stored
    BY <1>1, ColumnTypes, NewestFields, Literals
    DEF RevertStop, BaseInv, TypeInv, TypeOK, PastReadings
  <2>2. Reverted(t, r)
    BY <1>1 DEF RevertStop
  <2> HIDE DEF since, tracked
  <2>3. r \in Row
    BY <2>1, RowWrites, Zenon
  <2>4. r.status = "active"
    BY <2>1 DEF Row
  <2> HIDE DEF r
  <2> QED
    BY <2>2, <2>3, <2>4, RevertedIdle DEF IdleRow
<1>2. ASSUME NEW t \in TaskIds, RevertCancel(t) PROVE IdleInv'
  <2>1. Terminal(t) /\ MayPutBack(t) /\ Reverted(t, Reclaimed(PutBack(t)))
    BY <1>2 DEF RevertCancel, Terminal
  <2> QED
    BY <2>1, PutBackIdle, RevertedIdle
<1>3. ASSUME NEW t \in TaskIds, RevertAdjust(t) PROVE IdleInv'
  <2> DEFINE tracked == row[t].tracked - newest.delta
             adj == row[t].adj - newest.delta
             r == [row[t] EXCEPT !.tracked = tracked, !.adj = adj]
  <2>1. tracked \in Nat /\ adj \in Int /\ row[t] \in Row
    BY <1>3, ColumnTypes, NewestFields DEF RevertAdjust, BaseInv
  <2>2. Reverted(t, r)
    BY <1>3 DEF RevertAdjust
  <2> HIDE DEF tracked, adj
  <2>3. r \in Row
    BY <2>1, RowWrites, Zenon
  <2>4. r.status = row[t].status /\ r.since = row[t].since
    BY <2>1 DEF Row
  <2> HIDE DEF r
  <2> QED
    BY <2>2, <2>3, <2>4, RevertedIdle DEF IdleInv, IdleRow
<1>4. ASSUME NEW t \in TaskIds, RevertAccept(t) PROVE IdleInv'
  <2> DEFINE r == [row[t] EXCEPT !.status = "triage"]
  <2>1. Reverted(t, r) /\ row[t].status = "pending"
    BY <1>4 DEF RevertAccept
  <2>2. r \in Row /\ r.since = row[t].since
    BY ColumnTypes, Literals DEF Row, BaseInv
  <2> HIDE DEF r
  <2> QED
    BY <2>1, <2>2, RevertedIdle DEF IdleInv, IdleRow
<1>5. ASSUME NEW t \in TaskIds, RevertDepRemove(t) PROVE IdleInv'
  BY <1>5, RevertedIdle, ColumnTypes DEF RevertDepRemove, BaseInv, IdleInv
<1> QED
  BY <1>1, <1>2, <1>3, <1>4, <1>5, RevertModifyIdle, RevertDoneIdle DEF Undo

LEMMA IdleInduction == BaseInv /\ IdleInv /\ [Next]_vars => IdleInv'
<1> SUFFICES ASSUME BaseInv, IdleInv, [Next]_vars PROVE IdleInv'
  OBVIOUS
<1>1. CASE Tick \/ (\E c \in Clients, t \in TaskIds : Read(c, t)) \/ UNCHANGED vars
  <2>1. UNCHANGED <<row, newest>>
    BY <1>1 DEF Tick, Read, vars
  <2> QED
    BY <2>1 DEF IdleInv, EventIdle
<1>2. CASE Closes
  BY <1>2, CompleteIdle, CancelsIdle, ModifyIdle, ReopenIdle DEF Closes, Done, DoneMerged
<1>3. CASE Triages
  BY <1>3, CancelsIdle, ReopenIdle, DuplicateIdle DEF Triages
<1> QED
  BY <1>1, <1>2, <1>3, AddsIdle, ClocksIdle, RelationsIdle, UndoIdle DEF Next

-----------------------------------------------------------------------------
(* What an undo takes back: what the newest event records tells the tables as *)
(* they were before it from the tables as they are.                           *)

HasInverse == {"stop", "cancel", "done", "modify", "adjust_tracked", "accept",
               "dependency.remove"}

SameWork(p, q) ==
    /\ p.status = q.status /\ p.wait = q.wait /\ p.due = q.due /\ p.rule = q.rule
    /\ p.since = q.since /\ p.tracked = q.tracked /\ p.adj = q.adj /\ p.check = q.check
    /\ p.from = q.from
SameClaim(p, q) == p.by = q.by /\ p.until = q.until

PriorTyped == prior.row \in [TaskIds -> Row] /\ prior.deps \subseteq TaskIds \X TaskIds
OthersAsBefore ==
    /\ \A x \in TaskIds : x # newest.t /\ x # newest.spawn => prior.row[x] = row[x]
    /\ newest.op = "done" /\ newest.spawn # NoTask
          => newest.spawn # newest.t /\ prior.row[newest.spawn].status = "unborn"
    /\ newest.op # "done" => newest.spawn = NoTask
    /\ prior.deps = IF newest.op = "dependency.remove"
                    THEN deps \cup {<<newest.t, newest.dep>>} ELSE deps
ColumnsKept(was, is) == was.due = is.due /\ was.rule = is.rule /\ was.from = is.from
StopTaken(e, was, is) ==
    /\ was.status = "active" /\ was.since = e.at - e.secs
    /\ was.tracked = is.tracked - e.secs
    /\ ColumnsKept(was, is) /\ was.wait = is.wait /\ was.adj = is.adj /\ was.check = is.check
    /\ SameClaim(was, is)
CloseTaken(e, was, is) ==
    /\ was.status = e.from
    /\ e.from = "active"
          => was.since = e.started /\ was.tracked = is.tracked - e.secs
    /\ e.from # "active" => was.since = is.since /\ was.tracked = is.tracked
    /\ ColumnsKept(was, is) /\ was.wait = is.wait /\ was.adj = is.adj
    /\ was.check = IF e.op = "done" THEN e.check ELSE is.check
    /\ was.by = e.by /\ was.until = e.until /\ is.until = 0
ModifyTaken(e, was, is) ==
    /\ was.wait = IF "wait" \in e.cols THEN e.wait ELSE is.wait
    /\ was.tracked = IF "tracked" \in e.cols THEN e.tracked ELSE is.tracked
    /\ was.adj = IF "adj" \in e.cols THEN e.adj ELSE is.adj
    /\ was.since = IF "since" \in e.cols THEN e.started ELSE is.since
    /\ was.status = IF "status" \in e.cols THEN e.from ELSE is.status
    /\ ColumnsKept(was, is) /\ was.check = is.check
    /\ IF "status" \in e.cols
       THEN was.by = e.by /\ was.until = e.until /\ is.until = 0
       ELSE SameClaim(was, is) /\ e.until = 0
AdjustTaken(e, was, is) ==
    /\ was.tracked = is.tracked - e.delta /\ was.adj = is.adj - e.delta
    /\ was.status = is.status /\ was.since = is.since
    /\ ColumnsKept(was, is) /\ was.wait = is.wait /\ was.check = is.check
    /\ SameClaim(was, is)
AcceptTaken(e, was, is) ==
    /\ was.status = "triage" /\ was.since = is.since /\ was.tracked = is.tracked
    /\ ColumnsKept(was, is) /\ was.wait = is.wait /\ was.adj = is.adj /\ was.check = is.check
    /\ SameClaim(was, is)
EventTaken(e, was, is) ==
    /\ e.op = "stop" => StopTaken(e, was, is)
    /\ e.op \in {"done", "cancel"} => CloseTaken(e, was, is)
    /\ e.op = "modify" => ModifyTaken(e, was, is)
    /\ e.op = "adjust_tracked" => AdjustTaken(e, was, is)
    /\ e.op = "accept" => AcceptTaken(e, was, is)
    /\ e.op = "dependency.remove" => SameWork(was, is) /\ SameClaim(was, is)
PriorInv ==
    /\ PriorTyped
    /\ newest.op \in HasInverse
          => OthersAsBefore /\ EventTaken(newest, prior.row[newest.t], row[newest.t])

LEMMA PriorType ==
    ASSUME BaseInv, PriorTyped, HNext
    PROVE  PriorTyped'
BY DEF PriorTyped, HNext, BaseInv, TypeInv, TypeOK

\* Of an event that nothing takes back, nothing is kept.
LEMMA FinalPrior ==
    ASSUME BaseInv, PriorInv, HNext, newest'.op \notin HasInverse
    PROVE  PriorInv'
BY PriorType DEF PriorInv

\* A write of one row is told by its event.
LEMMA WritePrior ==
    ASSUME BaseInv, PriorInv, HNext, NEW t \in TaskIds, NEW r, r # row[t],
           row' = [row EXCEPT ![t] = r], newest'.t = t, newest'.spawn = NoTask,
           newest'.op # "done", EventTaken(newest', row[t], r),
           deps = IF newest'.op = "dependency.remove" THEN deps' \cup {<<t, newest'.dep>>}
                  ELSE deps'
    PROVE  PriorInv'
<1>1. /\ prior'.row = row /\ prior'.deps = deps
      /\ row'[t] = r /\ \A x \in TaskIds \ {t} : row'[x] = row[x]
  <2>1. row'[t] = r /\ \A x \in TaskIds \ {t} : row'[x] = row[x]
    BY DEF BaseInv, TypeInv, TypeOK
  <2> QED
    BY <2>1 DEF HNext
<1>2. OthersAsBefore'
  BY <1>1 DEF OthersAsBefore
<1>3. EventTaken(newest', prior'.row[newest'.t], row'[newest'.t])
  BY <1>1
<1> QED
  BY <1>2, <1>3, PriorType DEF PriorInv

LEMMA ElapsedRuns ==
    ASSUME BaseInv, IdleInv, NEW t \in TaskIds
    PROVE  /\ row[t].status = "active" => Elapsed(t) = now - row[t].since
           /\ row[t].status # "active" => Elapsed(t) = 0 /\ row[t].since = 0
BY DEF Elapsed, Running, IdleInv, IdleRow

\* The columns that the writes of a call leave alone.
LEMMA StoppedKeeps ==
    ASSUME TypeInv, NEW t \in TaskIds
    PROVE  LET r == StoppedRow(t)
               o == row[t]
           IN  r.wait = o.wait /\ r.rule = o.rule /\ r.adj = o.adj /\ r.check = o.check
BY ColumnTypes DEF StoppedRow, Row

LEMMA ClosedKeeps ==
    ASSUME TypeInv, NEW t \in TaskIds, NEW status \in Stored
    PROVE  LET r == ClosedRow(t, status)
               o == row[t]
           IN  r.wait = o.wait /\ r.rule = o.rule /\ r.adj = o.adj /\ r.check = o.check
BY StoppedKeeps, StoppedRowType DEF ClosedRow, Row

LEMMA ClosingEventRecords ==
    ASSUME BaseInv, NEW op \in Ops, NEW t \in TaskIds
    PROVE  LET e == ClosingEvent(op, t)
           IN  /\ e.op = op /\ e.t = t /\ e.from = row[t].status /\ e.by = row[t].by
               /\ e.until = row[t].until /\ e.started = row[t].since /\ e.secs = Elapsed(t)
               /\ e.spawn = NoTask
BY EventType DEF ClosingEvent, Event

LEMMA StopPrior ==
    ASSUME BaseInv, IdleInv, PriorInv, HNext, NEW t \in TaskIds, NEW who, NEW force,
           Stop(t, who, force)
    PROVE  PriorInv'
<1> DEFINE r == StoppedRow(t)
<1>1. /\ row' = [row EXCEPT ![t] = r] /\ deps' = deps /\ row[t].status = "active"
      /\ newest' = [Event("stop", t) EXCEPT !.at = now, !.secs = Elapsed(t)]
  BY DEF Stop, Running
<1>2. /\ newest'.op = "stop" /\ newest'.t = t /\ newest'.at = now
      /\ newest'.secs = Elapsed(t) /\ newest'.spawn = NoTask
  BY <1>1 DEF Event
<1>3. /\ r.status = "pending" /\ r.tracked = row[t].tracked + Elapsed(t) /\ r.by = row[t].by
      /\ r.until = row[t].until /\ r.from = row[t].from /\ r.due = row[t].due
      /\ r.wait = row[t].wait /\ r.rule = row[t].rule /\ r.adj = row[t].adj
      /\ r.check = row[t].check
  BY StoppedFields, StoppedKeeps DEF BaseInv
<1>4. Elapsed(t) = now - row[t].since /\ row[t].tracked \in Nat /\ row[t].since \in Nat
      /\ now \in Nat
  BY <1>1, ElapsedRuns, ColumnTypes DEF BaseInv, TypeInv, TypeOK
<1> HIDE DEF r
<1>5. StopTaken(newest', row[t], r)
  BY <1>1, <1>2, <1>3, <1>4 DEF StopTaken, ColumnsKept, SameClaim
<1>6. EventTaken(newest', row[t], r)
  BY <1>2, <1>5 DEF EventTaken
<1>7. r # row[t]
  BY <1>1, <1>3
<1> QED
  BY <1>1, <1>2, <1>6, <1>7, WritePrior

\* However a task is cancelled or completed, its event tells what it was.
LEMMA ClosedTaken ==
    ASSUME BaseInv, IdleInv, NEW t \in TaskIds, NEW r, NEW e,
           e.op \in {"done", "cancel"}, e.from = row[t].status, e.by = row[t].by,
           e.until = row[t].until, e.started = row[t].since, e.secs = Elapsed(t),
           e.op = "done" => e.check = row[t].check,
           e.op = "cancel" => r.check = row[t].check,
           r.since = 0, r.tracked = row[t].tracked + Elapsed(t), r.until = 0,
           r.from = row[t].from, r.due = row[t].due, r.wait = row[t].wait,
           r.rule = row[t].rule, r.adj = row[t].adj
    PROVE  EventTaken(e, row[t], r)
<1>1. row[t].tracked \in Nat /\ row[t].since \in Nat /\ now \in Nat
  BY ColumnTypes DEF BaseInv, TypeInv, TypeOK
<1>2. row[t].status = "active" => Elapsed(t) \in Int
  BY <1>1, ElapsedRuns
<1>3. CloseTaken(e, row[t], r)
  BY <1>1, <1>2, ElapsedRuns DEF CloseTaken, ColumnsKept
<1> QED
  BY <1>3 DEF EventTaken

LEMMA CancelsPrior ==
    ASSUME BaseInv, IdleInv, PriorInv, HNext, NEW t \in TaskIds, NEW who, NEW forceClaim,
           NEW reason, Cancel(t, who, forceClaim) \/ Decline(t, who, forceClaim, reason)
    PROVE  PriorInv'
<1> DEFINE closed == ClosedRow(t, "cancelled")
           q == [closed EXCEPT !.rev = row[t].rev + (IF reason THEN 2 ELSE 1)]
           Fits(r) == /\ r.status = "cancelled" /\ r.since = 0
                      /\ r.tracked = row[t].tracked + Elapsed(t) /\ r.until = 0
                      /\ r.from = row[t].from /\ r.due = row[t].due /\ r.wait = row[t].wait
                      /\ r.rule = row[t].rule /\ r.adj = row[t].adj /\ r.check = row[t].check
<1>1. closed \in Row /\ Fits(closed)
  BY ClosedFields, ClosedKeeps, ClosedRowType, Literals DEF BaseInv
<1>2. newest' = ClosingEvent("cancel", t) /\ deps' = deps /\ row[t].status # "cancelled"
  BY DEF Cancel, Decline, Open, Terminal
<1>3. row' = [row EXCEPT ![t] = closed] \/ row' = [row EXCEPT ![t] = q]
  BY DEF Cancel, Decline
<1> HIDE DEF closed
<1>4. Fits(q)
  BY <1>1 DEF Row
<1>5. PICK r : row' = [row EXCEPT ![t] = r] /\ Fits(r)
  BY <1>1, <1>3, <1>4
<1> HIDE DEF q
<1>6. /\ newest'.op = "cancel" /\ newest'.t = t /\ newest'.from = row[t].status
      /\ newest'.by = row[t].by /\ newest'.until = row[t].until
      /\ newest'.started = row[t].since /\ newest'.secs = Elapsed(t) /\ newest'.spawn = NoTask
  BY <1>2, ClosingEventRecords DEF Ops
<1>7. EventTaken(newest', row[t], r)
  BY <1>5, <1>6, ClosedTaken
<1>8. r # row[t]
  BY <1>2, <1>5
<1> QED
  BY <1>2, <1>5, <1>6, <1>7, <1>8, WritePrior

LEMMA CompletePrior ==
    ASSUME BaseInv, IdleInv, PriorInv, HNext, NEW t \in TaskIds, NEW who, NEW forceClaim,
           NEW pass, NEW measured, NEW s \in TaskIds \cup {NoTask}, Open(t),
           Complete(t, who, forceClaim, pass, measured, s)
    PROVE  PriorInv'
<1> DEFINE check == IF pass THEN "passed" ELSE row[t].check
           closed == ClosedRow(t, "done")
           r == [closed EXCEPT !.check = check]
<1>1. /\ row' = [x \in TaskIds |-> IF x = t THEN r ELSE IF x = s THEN SpawnedRow(t) ELSE row[x]]
      /\ deps' = deps
      /\ s \in TaskIds => row[s].status = "unborn"
  BY IdsAssumption DEF Complete
<1>2. /\ closed \in Row /\ closed.status = "done" /\ closed.since = 0
      /\ closed.tracked = row[t].tracked + Elapsed(t) /\ closed.until = 0
      /\ closed.from = row[t].from /\ closed.due = row[t].due /\ closed.wait = row[t].wait
      /\ closed.rule = row[t].rule /\ closed.adj = row[t].adj
  BY ClosedFields, ClosedKeeps, ClosedRowType, Literals DEF BaseInv
<1> HIDE DEF closed, check
<1>3. /\ r.status = "done" /\ r.since = 0
      /\ r.tracked = row[t].tracked + Elapsed(t) /\ r.until = 0
      /\ r.from = row[t].from /\ r.due = row[t].due /\ r.wait = row[t].wait
      /\ r.rule = row[t].rule /\ r.adj = row[t].adj
  BY <1>2 DEF Row
<1> HIDE DEF r
<1>4. /\ newest'.op = "done" /\ newest'.t = t /\ newest'.from = row[t].status
      /\ newest'.by = row[t].by /\ newest'.until = row[t].until
      /\ newest'.started = row[t].since /\ newest'.secs = Elapsed(t)
      /\ newest'.spawn = s /\ newest'.check = row[t].check
  <2>1. ClosingEvent("done", t) \in Events /\ "done" \in Ops
    BY ClosingEventType DEF Ops, BaseInv
  <2> DEFINE e == ClosingEvent("done", t)
  <2>2. /\ e.op = "done" /\ e.t = t /\ e.from = row[t].status /\ e.by = row[t].by
        /\ e.until = row[t].until /\ e.started = row[t].since /\ e.secs = Elapsed(t)
    BY <2>1, ClosingEventRecords
  <2>3. newest' = [e EXCEPT !.check = row[t].check, !.spawn = s, !.measured = measured]
    BY DEF Complete
  <2> HIDE DEF e
  <2> QED
    BY <2>1, <2>2, <2>3 DEF Events, e
<1>5. EventTaken(newest', row[t], r)
  BY <1>3, <1>4, ClosedTaken
<1>6. row'[t] = r /\ r # row[t] /\ s # t
  BY <1>1, <1>3 DEF Open, Exists, Terminal
<1>7. prior'.row = row /\ prior'.deps = deps
  BY <1>6 DEF HNext
<1>8. OthersAsBefore'
  BY <1>1, <1>4, <1>6, <1>7 DEF OthersAsBefore
<1>9. EventTaken(newest', prior'.row[newest'.t], row'[newest'.t])
  BY <1>4, <1>5, <1>6, <1>7
<1> QED
  BY <1>8, <1>9, PriorType DEF PriorInv

LEMMA ModifiedKeeps ==
    ASSUME TypeInv, NEW t \in TaskIds, NEW set \in SUBSET Columns, NEW wait \in Waits,
           NEW total \in Totals
    PROVE  LET r == ModifiedRow(t, set, wait, total)
               o == row[t]
           IN  /\ "wait" \notin set => r.wait = o.wait
               /\ "tracked" \notin set => r.adj = o.adj
               /\ "tracked" \notin set /\ ("status" \in set => o.status # "active")
                     => r.tracked = o.tracked
               /\ r.rule = o.rule /\ r.check = o.check
<1> DEFINE base == Changed(t, set, wait, total)
<1>1. /\ "wait" \notin set => base.wait = row[t].wait
      /\ "tracked" \notin set => base.adj = row[t].adj /\ base.tracked = row[t].tracked
      /\ base.rule = row[t].rule /\ base.check = row[t].check
  BY ColumnTypes DEF Changed, Row
<1>1a. base \in Row
  BY ChangedType
<1>2. ModifiedRow(t, set, wait, total) =
        IF "status" \in set
        THEN [base EXCEPT !.status = "cancelled", !.since = 0, !.by = NoOne, !.until = 0,
                          !.tracked = base.tracked + Elapsed(t)]
        ELSE base
  BY DEF ModifiedRow
<1> HIDE DEF base
<1>3. row[t].status # "active" => Elapsed(t) = 0
  BY DEF Elapsed, Running
<1> QED
  BY <1>1, <1>1a, <1>2, <1>3 DEF Row

LEMMA ModifyRecords ==
    ASSUME NEW t \in TaskIds, NEW set \in SUBSET Columns
    PROVE  LET e == ModifyEvent(t, set)
               o == row[t]
           IN  /\ e.op = "modify" /\ e.t = t /\ e.spawn = NoTask
               /\ "wait" \in e.cols <=> "wait" \in set
               /\ "adj" \in e.cols <=> "tracked" \in set
               /\ "status" \in e.cols <=> "status" \in set
               /\ "since" \in e.cols <=> "status" \in set /\ o.status = "active"
               /\ "tracked" \in e.cols
                     <=> "tracked" \in set \/ ("status" \in set /\ o.status = "active")
               /\ "wait" \in e.cols => e.wait = o.wait
               /\ "tracked" \in e.cols => e.tracked = o.tracked
               /\ "adj" \in e.cols => e.adj = o.adj
               /\ "since" \in e.cols => e.started = o.since
               /\ "status" \in set => e.from = o.status /\ e.by = o.by /\ e.until = o.until
               /\ "status" \notin set => e.until = 0
<1> DEFINE written == Written(t, set)
<1>1. /\ "wait" \in written <=> "wait" \in set
      /\ "adj" \in written <=> "tracked" \in set
      /\ "status" \in written <=> "status" \in set
      /\ "since" \in written <=> "status" \in set /\ row[t].status = "active"
      /\ "tracked" \in written
            <=> "tracked" \in set \/ ("status" \in set /\ row[t].status = "active")
  BY CallsAssumption DEF Written, Running
<1> DEFINE e == ModifyEvent(t, set)
<1>2. /\ e.op = "modify" /\ e.t = t /\ e.spawn = NoTask /\ e.cols = written
      /\ e.wait = (IF "wait" \in written THEN row[t].wait ELSE 0)
      /\ e.tracked = (IF "tracked" \in written THEN row[t].tracked ELSE 0)
      /\ e.adj = (IF "adj" \in written THEN row[t].adj ELSE 0)
      /\ e.started = (IF "since" \in written THEN row[t].since ELSE 0)
      /\ e.from = (IF "status" \in set THEN row[t].status ELSE "unborn")
      /\ e.by = (IF "status" \in set THEN row[t].by ELSE NoOne)
      /\ e.until = (IF "status" \in set THEN row[t].until ELSE 0)
  BY DEF ModifyEvent, Event
<1> HIDE DEF e, written
<1> QED
  BY <1>1, <1>2 DEF e

LEMMA ModifyPrior ==
    ASSUME BaseInv, IdleInv, PriorInv, HNext, NEW t \in TaskIds, NEW set \in SUBSET Columns,
           NEW wait \in Waits, NEW total \in Totals, NEW who, NEW forceClaim,
           Modify(t, set, wait, total, who, forceClaim)
    PROVE  PriorInv'
<1> DEFINE r == ModifiedRow(t, set, wait, total)
<1>1. row' = [row EXCEPT ![t] = r] /\ deps' = deps /\ newest' = ModifyEvent(t, set)
  BY DEF Modify
<1>2. /\ "status" \in set => r.since = 0 /\ r.until = 0
      /\ "status" \notin set => /\ r.status = row[t].status /\ r.since = row[t].since
                                /\ r.by = row[t].by /\ r.until = row[t].until
      /\ r.from = row[t].from /\ r.due = row[t].due /\ r.rev = row[t].rev + 1
  BY ModifiedFields DEF BaseInv
<1>3. /\ "wait" \notin set => r.wait = row[t].wait
      /\ "tracked" \notin set => r.adj = row[t].adj
      /\ "tracked" \notin set /\ ("status" \in set => row[t].status # "active")
            => r.tracked = row[t].tracked
      /\ r.rule = row[t].rule /\ r.check = row[t].check
  BY ModifiedKeeps DEF BaseInv
<1>4. row[t].status # "active" => row[t].since = 0
  BY ElapsedRuns
<1> DEFINE e == ModifyEvent(t, set)
<1>5. /\ e.op = "modify" /\ e.t = t /\ e.spawn = NoTask
      /\ "wait" \in e.cols <=> "wait" \in set
      /\ "adj" \in e.cols <=> "tracked" \in set
      /\ "status" \in e.cols <=> "status" \in set
      /\ "since" \in e.cols <=> "status" \in set /\ row[t].status = "active"
      /\ "tracked" \in e.cols
            <=> "tracked" \in set \/ ("status" \in set /\ row[t].status = "active")
      /\ "wait" \in e.cols => e.wait = row[t].wait
      /\ "tracked" \in e.cols => e.tracked = row[t].tracked
      /\ "adj" \in e.cols => e.adj = row[t].adj
      /\ "since" \in e.cols => e.started = row[t].since
      /\ "status" \in set => /\ e.from = row[t].status /\ e.by = row[t].by
                             /\ e.until = row[t].until
      /\ "status" \notin set => e.until = 0
  BY ModifyRecords
<1> HIDE DEF r, e
<1>6. ModifyTaken(e, row[t], r)
  BY <1>2, <1>3, <1>4, <1>5 DEF ModifyTaken, ColumnsKept, SameClaim
<1>7. EventTaken(e, row[t], r)
  BY <1>5, <1>6 DEF EventTaken
<1>8. r # row[t]
  BY <1>2, ColumnTypes DEF BaseInv
<1> QED
  BY <1>1, <1>5, <1>7, <1>8, WritePrior DEF e

LEMMA AdjustPrior ==
    ASSUME BaseInv, PriorInv, HNext, NEW t \in TaskIds, NEW delta \in Int, Adjust(t, delta)
    PROVE  PriorInv'
<1> DEFINE bumped == Bumped(t)
           r == [bumped EXCEPT !.tracked = row[t].tracked + delta, !.adj = row[t].adj + delta]
<1>1. /\ row' = [row EXCEPT ![t] = r] /\ deps' = deps
      /\ newest' = [Event("adjust_tracked", t) EXCEPT !.delta = delta]
  BY DEF Adjust
<1>2. /\ newest'.op = "adjust_tracked" /\ newest'.t = t /\ newest'.delta = delta
      /\ newest'.spawn = NoTask
  BY <1>1 DEF Event
<1>3. bumped \in Row /\ SameClaim(row[t], bumped) /\ bumped.rev = row[t].rev + 1
      /\ SameWork(row[t], bumped)
  BY BumpedType, ColumnTypes DEF BaseInv, Bumped, Row, SameClaim, SameWork
<1> HIDE DEF bumped
<1>4. /\ r.tracked = row[t].tracked + delta /\ r.adj = row[t].adj + delta
      /\ r.status = bumped.status /\ r.since = bumped.since /\ r.wait = bumped.wait
      /\ r.due = bumped.due /\ r.rule = bumped.rule /\ r.from = bumped.from
      /\ r.check = bumped.check /\ r.by = bumped.by /\ r.until = bumped.until
      /\ r.rev = bumped.rev
  BY <1>3 DEF Row
<1> HIDE DEF r
<1>5. row[t].tracked \in Nat /\ row[t].adj \in Int /\ row[t].rev \in Nat
  BY ColumnTypes DEF BaseInv
<1>6. AdjustTaken(newest', row[t], r)
  BY <1>2, <1>3, <1>4, <1>5 DEF AdjustTaken, ColumnsKept, SameClaim, SameWork
<1>7. EventTaken(newest', row[t], r)
  BY <1>2, <1>6 DEF EventTaken
<1>8. r # row[t]
  BY <1>3, <1>4, <1>5
<1> QED
  BY <1>1, <1>2, <1>7, <1>8, WritePrior

LEMMA AcceptPrior ==
    ASSUME BaseInv, PriorInv, HNext, NEW t \in TaskIds, Accept(t)
    PROVE  PriorInv'
<1> DEFINE bumped == Bumped(t)
           r == [bumped EXCEPT !.status = "pending"]
<1>1. /\ row' = [row EXCEPT ![t] = r] /\ deps' = deps /\ newest' = Event("accept", t)
      /\ row[t].status = "triage"
  BY DEF Accept
<1>2. newest'.op = "accept" /\ newest'.t = t /\ newest'.spawn = NoTask
  BY <1>1 DEF Event
<1>3. bumped \in Row /\ SameClaim(row[t], bumped) /\ SameWork(row[t], bumped)
  BY BumpedType, ColumnTypes DEF BaseInv, Bumped, Row, SameClaim, SameWork
<1> HIDE DEF bumped
<1>4. /\ r.status = "pending" /\ r.tracked = bumped.tracked /\ r.adj = bumped.adj
      /\ r.since = bumped.since /\ r.wait = bumped.wait
      /\ r.due = bumped.due /\ r.rule = bumped.rule /\ r.from = bumped.from
      /\ r.check = bumped.check /\ r.by = bumped.by /\ r.until = bumped.until
  BY <1>3 DEF Row
<1> HIDE DEF r
<1>5. AcceptTaken(newest', row[t], r)
  BY <1>1, <1>3, <1>4 DEF AcceptTaken, ColumnsKept, SameClaim, SameWork
<1>6. EventTaken(newest', row[t], r)
  BY <1>2, <1>5 DEF EventTaken
<1>7. r # row[t]
  BY <1>1, <1>4
<1> QED
  BY <1>1, <1>2, <1>6, <1>7, WritePrior

LEMMA DepRemovePrior ==
    ASSUME BaseInv, PriorInv, HNext, NEW t \in TaskIds, NEW d, DepRemove(t, d)
    PROVE  PriorInv'
<1> DEFINE r == Bumped(t)
<1>1. /\ row' = [row EXCEPT ![t] = r] /\ deps' = deps \ {<<t, d>>} /\ <<t, d>> \in deps
      /\ newest' = [Event("dependency.remove", t) EXCEPT !.dep = d]
  BY DEF DepRemove
<1>2. /\ newest'.op = "dependency.remove" /\ newest'.t = t /\ newest'.dep = d
      /\ newest'.spawn = NoTask
  BY <1>1 DEF Event
<1>3. SameClaim(row[t], r) /\ SameWork(row[t], r) /\ r.rev = row[t].rev + 1
      /\ row[t].rev \in Nat
  BY ColumnTypes DEF BaseInv, Bumped, Row, SameClaim, SameWork
<1> HIDE DEF r
<1>4. EventTaken(newest', row[t], r)
  BY <1>2, <1>3 DEF EventTaken
<1>5. r # row[t]
  BY <1>3
<1>6. deps = deps' \cup {<<t, newest'.dep>>}
  BY <1>1, <1>2
<1> QED
  BY <1>1, <1>2, <1>4, <1>5, <1>6, WritePrior

LEMMA PriorInduction == BaseInv /\ IdleInv /\ PriorInv /\ [HNext]_hvars => PriorInv'
<1> SUFFICES ASSUME BaseInv, IdleInv, PriorInv, [HNext]_hvars PROVE PriorInv'
  OBVIOUS
<1>1. CASE UNCHANGED <<row, deps, newest, prior>>
  BY <1>1 DEF PriorInv, PriorTyped, OthersAsBefore
<1>2. CASE UNCHANGED hvars
  BY <1>1, <1>2 DEF hvars, vars
<1>3. CASE HNext
  <2>1. Next
    BY <1>3 DEF HNext
  <2>2. CASE Tick \/ \E c \in Clients, t \in TaskIds : Read(c, t)
    BY <1>1, <1>3, <2>2 DEF Tick, Read, HNext
  <2>3. CASE Adds \/ Undo
    BY <1>3, <2>3, OpsOfOthers, FinalPrior DEF HasInverse
  <2>4. CASE Clocks
    <3>1. ASSUME NEW t \in TaskIds, NEW delta \in Deltas, Adjust(t, delta) PROVE PriorInv'
      <4>1. delta \in Int
        BY NumbersAssumption
      <4> QED
        BY <1>3, <3>1, <4>1, AdjustPrior
    <3>2. ASSUME NEW t \in TaskIds, NEW call, NEW keep, Start(t, call, keep) PROVE PriorInv'
      BY <1>3, <3>2, FinalPrior DEF Start, Event, HasInverse
    <3>3. ASSUME NEW t \in TaskIds, NEW who, NEW force, Release(t, who, force) PROVE PriorInv'
      BY <1>3, <3>3, FinalPrior DEF Release, Event, HasInverse
    <3>4. ASSUME NEW t \in TaskIds, NEW who, NEW lease, Claim(t, who, lease) PROVE PriorInv'
      BY <1>3, <3>4, FinalPrior DEF Claim, Event, HasInverse
    <3> QED
      BY <1>3, <2>4, <3>1, <3>2, <3>3, <3>4, StopPrior DEF Clocks, GitStart
  <2>5. CASE Closes
    <3>1. ASSUME NEW t \in TaskIds, NEW who, NEW force, NEW forceClaim, NEW pass, NEW measured,
                 NEW s \in TaskIds \cup {NoTask},
                 Done(t, who, force, forceClaim, pass, measured, s)
          PROVE  PriorInv'
      <4>1. Open(t)
        BY <3>1 DEF Done, Status, Open, Exists, Terminal
      <4> QED
        BY <1>3, <3>1, <4>1, CompletePrior DEF Done
    <3>2. ASSUME NEW t \in TaskIds, NEW who, NEW s \in TaskIds \cup {NoTask},
                 DoneMerged(t, who, s)
          PROVE  PriorInv'
      <4>1. Open(t)
        BY <3>2 DEF DoneMerged, Status, Open, Exists, Terminal
      <4> QED
        BY <1>3, <3>2, <4>1, CompletePrior DEF DoneMerged
    <3>3. ASSUME NEW t \in TaskIds, Reopen(t) PROVE PriorInv'
      BY <1>3, <3>3, FinalPrior DEF Reopen, Event, HasInverse
    <3> QED
      BY <1>3, <2>5, <3>1, <3>2, <3>3, CancelsPrior, ModifyPrior DEF Closes
  <2>6. CASE Triages
    <3>1. ASSUME NEW t \in TaskIds, NEW original, NEW who, NEW forceClaim,
                 Duplicate(t, original, who, forceClaim)
          PROVE  PriorInv'
      BY <1>3, <3>1, FinalPrior DEF Duplicate, Event, HasInverse
    <3> QED
      BY <1>3, <2>6, <3>1, AcceptPrior, CancelsPrior DEF Triages
  <2>7. CASE Relations
    <3>1. ASSUME NEW t \in TaskIds, NEW d, DepAdd(t, d) PROVE PriorInv'
      BY <1>3, <3>1, FinalPrior DEF DepAdd, Event, HasInverse
    <3>2. ASSUME NEW t \in TaskIds, NEW check, SetCheck(t, check) PROVE PriorInv'
      BY <1>3, <3>2, FinalPrior DEF SetCheck, Event, HasInverse
    <3> QED
      BY <1>3, <2>7, <3>1, <3>2, DepRemovePrior DEF Relations
  <2> QED
    BY <2>1, <2>2, <2>3, <2>4, <2>5, <2>6, <2>7 DEF Next
<1> QED
  BY <1>2, <1>3

-----------------------------------------------------------------------------
(* What an undo leaves *)

LEMMA RestoredRow ==
    ASSUME NEW after, NEW before \in Row, SameWork(after, before),
           before.until > now => SameClaim(after, before),
           ~(before.until > now) => after.until <= now
    PROVE  Restored(after, before)
<1>1. DOMAIN before = {"status", "wait", "due", "rule", "since", "tracked", "adj", "check",
                       "by", "until", "from", "rev"}
  BY DEF Row
<1>2. \A f \in DOMAIN before \ {"rev", "by", "until"} : after[f] = before[f]
  BY <1>1 DEF SameWork
<1> QED
  BY <1>2 DEF Restored, SameClaim

Restores == (\A x \in TaskIds : Restored(row'[x], prior.row[x])) /\ deps' = prior.deps

LEMMA RevertedRestores ==
    ASSUME BaseInv, PriorInv, newest.op \in HasInverse \ {"done"}, NEW t \in TaskIds,
           newest.t = t, NEW r \in Row, Reverted(t, r), SameWork(r, prior.row[t]),
           prior.row[t].until > now => SameClaim(r, prior.row[t]),
           ~(prior.row[t].until > now) => r.until <= now, deps' = prior.deps
    PROVE  Restores
<1> DEFINE q == [r EXCEPT !.rev = r.rev + 1]
<1>1. row' = [row EXCEPT ![t] = q]
  BY DEF Reverted
<1>2. SameWork(q, r) /\ SameClaim(q, r)
  BY DEF Row, SameWork, SameClaim
<1> HIDE DEF q
<1>3. row'[t] = q /\ \A x \in TaskIds \ {t} : row'[x] = row[x]
  BY <1>1 DEF BaseInv, TypeInv, TypeOK
<1>4. \A x \in TaskIds : prior.row[x] \in Row
  BY DEF PriorInv, PriorTyped
<1>5. \A x \in TaskIds \ {t} : prior.row[x] = row[x]
  BY IdsAssumption DEF PriorInv, OthersAsBefore
<1>6. Restored(row'[t], prior.row[t])
  <2>1. SameWork(q, prior.row[t])
    BY <1>2 DEF SameWork
  <2>2. q.by = r.by /\ q.until = r.until
    BY <1>2 DEF SameClaim
  <2> QED
    BY <1>3, <1>4, <2>1, <2>2, RestoredRow DEF SameClaim
<1>7. ASSUME NEW x \in TaskIds \ {t} PROVE Restored(row'[x], prior.row[x])
  <2>1. row'[x] = prior.row[x] /\ prior.row[x] \in Row
    BY <1>3, <1>4, <1>5
  <2>2. prior.row[x].until \in Nat /\ now \in Nat
    BY <2>1 DEF Row, BaseInv, TypeInv, TypeOK
  <2> QED
    BY <2>1, <2>2, RestoredRow DEF SameWork, SameClaim
<1> QED
  BY <1>6, <1>7 DEF Restores

\* The claim an undone close gives back, and the columns it leaves alone.
LEMMA ReclaimedKeeps ==
    ASSUME NEW o \in Row
    PROVE  LET r == Reclaimed(o)
           IN  r.wait = o.wait /\ r.rule = o.rule /\ r.adj = o.adj /\ r.check = o.check
<1>1. CASE newest.until > now
  BY <1>1 DEF Reclaimed, Row
<1>2. CASE ~(newest.until > now)
  BY <1>2 DEF Reclaimed
<1> QED
  BY <1>1, <1>2

LEMMA PutBackKeepsRest ==
    ASSUME TypeInv, NEW t \in TaskIds
    PROVE  LET r == PutBack(t)
               o == row[t]
           IN  r.wait = o.wait /\ r.rule = o.rule /\ r.adj = o.adj /\ r.check = o.check
BY ColumnTypes DEF PutBack, Row

LEMMA RowBeforeKeeps ==
    ASSUME TypeInv, NEW t \in TaskIds
    PROVE  LET r == RowBefore(t)
               o == row[t]
           IN  /\ r.wait = IF "wait" \in newest.cols THEN newest.wait ELSE o.wait
               /\ r.tracked = IF "tracked" \in newest.cols THEN newest.tracked ELSE o.tracked
               /\ r.adj = IF "adj" \in newest.cols THEN newest.adj ELSE o.adj
               /\ r.rule = o.rule /\ r.check = o.check
BY ColumnTypes DEF RowBefore, Row

\* What put_back_status and restore_claim make of a closed row.
LEMMA PutBackRestores ==
    ASSUME BaseInv, PriorInv, NEW t \in TaskIds, newest.t = t, newest.op \in {"done", "cancel"},
           MayPutBack(t)
    PROVE  LET r == Reclaimed(PutBack(t))
               was == prior.row[t]
           IN  /\ r \in Row
               /\ r.status = was.status /\ r.since = was.since /\ r.tracked = was.tracked
               /\ r.from = was.from /\ r.due = was.due /\ r.wait = was.wait
               /\ r.rule = was.rule /\ r.adj = was.adj
               /\ newest.op = "cancel" => r.check = was.check
               /\ was.until > now => SameClaim(r, was)
               /\ ~(was.until > now) => r.until <= now
<1> DEFINE base == PutBack(t)
           r == Reclaimed(base)
           was == prior.row[t]
<1>1. base \in Row /\ r \in Row
  BY PutBackType, ReclaimedType DEF BaseInv
<1>2. CloseTaken(newest, was, row[t])
  BY DEF PriorInv, EventTaken, HasInverse
<1>3. /\ base.status = was.status /\ base.since = was.since /\ base.tracked = was.tracked
      /\ base.from = was.from /\ base.due = was.due /\ base.by = row[t].by
      /\ base.until = row[t].until
  BY <1>2, PutBackFields DEF BaseInv, CloseTaken, ColumnsKept
<1>4. /\ base.wait = was.wait /\ base.rule = was.rule /\ base.adj = was.adj
      /\ newest.op = "cancel" => base.check = was.check
  BY <1>2, PutBackKeepsRest DEF BaseInv, CloseTaken, ColumnsKept
<1>5. was.by = newest.by /\ was.until = newest.until /\ row[t].until = 0
  BY <1>2 DEF CloseTaken
<1> HIDE DEF base, was
<1>6. /\ r.status = base.status /\ r.since = base.since /\ r.tracked = base.tracked
      /\ newest.until > now => r.by = newest.by /\ r.until = newest.until
      /\ ~(newest.until > now) => r.until = base.until
      /\ r.from = base.from /\ r.due = base.due
  BY <1>1, ReclaimedFields
<1>7. r.wait = base.wait /\ r.rule = base.rule /\ r.adj = base.adj /\ r.check = base.check
  BY <1>1, ReclaimedKeeps
<1>8. now \in Nat
  BY DEF BaseInv, TypeInv, TypeOK
<1> HIDE DEF r
<1>9. /\ was.until > now => SameClaim(r, was)
      /\ ~(was.until > now) => r.until <= now
  BY <1>3, <1>5, <1>6, <1>8 DEF SameClaim
<1> QED
  BY <1>1, <1>3, <1>4, <1>6, <1>7, <1>9 DEF r, base, was

LEMMA RevertStopRestores ==
    ASSUME BaseInv, PriorInv, NEW t \in TaskIds, RevertStop(t)
    PROVE  Restores
<1> DEFINE since == newest.at - newest.secs
           tracked == row[t].tracked - newest.secs
           r == [row[t] EXCEPT !.status = "active", !.since = since, !.tracked = tracked]
           was == prior.row[t]
<1>1. since \in Nat /\ tracked \in Nat /\ row[t] \in Row /\ "active" \in Stored
  BY ColumnTypes, NewestFields, Literals DEF RevertStop, BaseInv, TypeInv, TypeOK, PastReadings
<1>2. Reverted(t, r) /\ newest.op = "stop" /\ newest.t = t /\ deps' = deps
  BY DEF RevertStop
<1>3. StopTaken(newest, was, row[t]) /\ deps = prior.deps
  BY <1>2 DEF PriorInv, EventTaken, HasInverse, OthersAsBefore
<1>4. was.since = since /\ was.tracked = tracked
  BY <1>3 DEF StopTaken
<1> HIDE DEF since, tracked, was
<1>5. r \in Row
  BY <1>1, RowWrites, Zenon
<1>6. /\ r.status = "active" /\ r.since = since /\ r.tracked = tracked
      /\ ColumnsKept(r, row[t]) /\ SameClaim(r, row[t])
      /\ r.wait = row[t].wait /\ r.adj = row[t].adj /\ r.check = row[t].check
  BY <1>1 DEF Row, ColumnsKept, SameClaim
<1> HIDE DEF r
<1>7. SameWork(r, was) /\ SameClaim(r, was)
  BY <1>3, <1>4, <1>6 DEF SameWork, StopTaken, ColumnsKept, SameClaim
<1>8. was.until \in Nat /\ now \in Nat
  BY DEF PriorInv, PriorTyped, Row, BaseInv, TypeInv, TypeOK, was
<1> QED
  BY <1>2, <1>3, <1>5, <1>7, <1>8, RevertedRestores DEF HasInverse, was, SameClaim

LEMMA RevertCancelRestores ==
    ASSUME BaseInv, PriorInv, NEW t \in TaskIds, RevertCancel(t)
    PROVE  Restores
<1> DEFINE r == Reclaimed(PutBack(t))
           was == prior.row[t]
<1>1. Reverted(t, r) /\ newest.op = "cancel" /\ newest.t = t /\ deps' = deps /\ MayPutBack(t)
  BY DEF RevertCancel
<1>2. deps = prior.deps
  BY <1>1 DEF PriorInv, HasInverse, OthersAsBefore
<1>3. /\ r \in Row
      /\ r.status = was.status /\ r.since = was.since /\ r.tracked = was.tracked
      /\ r.from = was.from /\ r.due = was.due /\ r.wait = was.wait
      /\ r.rule = was.rule /\ r.adj = was.adj /\ r.check = was.check
      /\ was.until > now => SameClaim(r, was)
      /\ ~(was.until > now) => r.until <= now
  BY <1>1, PutBackRestores
<1> HIDE DEF r, was
<1>4. SameWork(r, was)
  BY <1>3 DEF SameWork
<1> QED
  BY <1>1, <1>2, <1>3, <1>4, RevertedRestores DEF HasInverse, was

LEMMA RevertDoneRestores ==
    ASSUME BaseInv, PriorInv, NEW t \in TaskIds, RevertDone(t)
    PROVE  Restores
<1> DEFINE s == newest.spawn
           claimed == Reclaimed(PutBack(t))
           r == [claimed EXCEPT !.check = newest.check, !.rev = row[t].rev + 1]
           was == prior.row[t]
<1>1. /\ row' = [x \in TaskIds |-> IF x = t THEN r ELSE IF x = s THEN RemovedSpawn(s) ELSE row[x]]
      /\ MayPutBack(t) /\ newest.op = "done" /\ newest.t = t /\ deps' = deps
  BY DEF RevertDone
<1>2. OthersAsBefore /\ CloseTaken(newest, was, row[t])
      /\ \A x \in TaskIds : prior.row[x] \in Row
  BY <1>1 DEF PriorInv, PriorTyped, EventTaken, HasInverse
<1>3. deps' = prior.deps
  BY <1>1, <1>2 DEF OthersAsBefore
<1>4. /\ claimed \in Row
      /\ claimed.status = was.status /\ claimed.since = was.since
      /\ claimed.tracked = was.tracked /\ claimed.from = was.from /\ claimed.due = was.due
      /\ claimed.wait = was.wait /\ claimed.rule = was.rule /\ claimed.adj = was.adj
      /\ was.until > now => SameClaim(claimed, was)
      /\ ~(was.until > now) => claimed.until <= now
  BY <1>1, PutBackRestores
<1>5. was.check = newest.check
  BY <1>1, <1>2 DEF CloseTaken
<1> HIDE DEF claimed, was
<1>6. /\ r.status = claimed.status /\ r.since = claimed.since
      /\ r.tracked = claimed.tracked /\ r.from = claimed.from /\ r.due = claimed.due
      /\ r.wait = claimed.wait /\ r.rule = claimed.rule /\ r.adj = claimed.adj
      /\ r.check = newest.check /\ r.by = claimed.by /\ r.until = claimed.until
  BY <1>4 DEF Row
<1> HIDE DEF r
<1>7. SameWork(r, was)
  BY <1>4, <1>5, <1>6 DEF SameWork
<1>8. Restored(row'[t], prior.row[t])
  <2>1. row'[t] = r /\ was \in Row
    BY <1>1, <1>2 DEF was
  <2>2. Restored(r, was)
    BY <1>4, <1>6, <1>7, <2>1, RestoredRow DEF SameClaim
  <2> QED
    BY <2>1, <2>2 DEF was
<1>9. ASSUME NEW x \in TaskIds \ {t} PROVE Restored(row'[x], prior.row[x])
  <2>1. CASE x = s
    <3>1. row'[x] = RemovedSpawn(s) /\ prior.row[x].status = "unborn"
      BY <1>1, <1>2, <2>1, IdsAssumption DEF OthersAsBefore
    <3>2. row'[x].status = "removed"
      BY <3>1 DEF RemovedSpawn, Fresh
    <3> QED
      BY <3>1, <3>2 DEF Restored
  <2>2. CASE x # s
    <3>1. row'[x] = prior.row[x] /\ prior.row[x] \in Row
      BY <1>1, <1>2, <2>2 DEF OthersAsBefore
    <3>2. prior.row[x].until \in Nat /\ now \in Nat
      BY <3>1 DEF Row, BaseInv, TypeInv, TypeOK
    <3> QED
      BY <3>1, <3>2, RestoredRow DEF SameWork, SameClaim
  <2> QED
    BY <2>1, <2>2
<1> QED
  BY <1>3, <1>8, <1>9 DEF Restores

LEMMA RevertModifyRestores ==
    ASSUME BaseInv, PriorInv, NEW t \in TaskIds, RevertModify(t)
    PROVE  Restores
<1> DEFINE base == RowBefore(t)
           r == Reclaimed(base)
           was == prior.row[t]
<1>1. Reverted(t, r) /\ newest.op = "modify" /\ newest.t = t /\ deps' = deps
  BY DEF RevertModify
<1>2. ModifyTaken(newest, was, row[t]) /\ deps = prior.deps
  BY <1>1 DEF PriorInv, EventTaken, HasInverse, OthersAsBefore
<1>3. base \in Row /\ r \in Row
  BY RowBeforeType, ReclaimedType DEF BaseInv, RevertModify
<1>4. /\ base.status = was.status /\ base.since = was.since /\ base.from = was.from
      /\ base.due = was.due /\ base.by = row[t].by /\ base.until = row[t].until
  BY <1>2, RowBeforeFields DEF BaseInv, ModifyTaken, ColumnsKept
<1>5. /\ base.wait = was.wait /\ base.tracked = was.tracked /\ base.adj = was.adj
      /\ base.rule = was.rule /\ base.check = was.check
  BY <1>2, RowBeforeKeeps DEF BaseInv, ModifyTaken, ColumnsKept
<1>6. /\ "status" \in newest.cols
            => was.by = newest.by /\ was.until = newest.until /\ row[t].until = 0
      /\ "status" \notin newest.cols => SameClaim(was, row[t]) /\ newest.until = 0
  BY <1>2 DEF ModifyTaken
<1> HIDE DEF base, was
<1>7. /\ r.status = base.status /\ r.since = base.since /\ r.tracked = base.tracked
      /\ newest.until > now => r.by = newest.by /\ r.until = newest.until
      /\ ~(newest.until > now) => r.by = base.by /\ r.until = base.until
      /\ r.from = base.from /\ r.due = base.due
  BY <1>3, ReclaimedFields
<1>8. r.wait = base.wait /\ r.rule = base.rule /\ r.adj = base.adj /\ r.check = base.check
  BY <1>3, ReclaimedKeeps
<1> HIDE DEF r
<1>9. SameWork(r, was)
  BY <1>4, <1>5, <1>7, <1>8 DEF SameWork
<1>10. now \in Nat /\ was.until \in Nat
  BY DEF PriorInv, PriorTyped, Row, BaseInv, NewestInv, TypeInv, TypeOK, was
<1>11. /\ was.until > now => SameClaim(r, was)
       /\ ~(was.until > now) => r.until <= now
  BY <1>4, <1>6, <1>7, <1>10 DEF SameClaim
<1> QED
  BY <1>1, <1>2, <1>3, <1>9, <1>11, RevertedRestores DEF HasInverse, was

LEMMA RevertAdjustRestores ==
    ASSUME BaseInv, PriorInv, NEW t \in TaskIds, RevertAdjust(t)
    PROVE  Restores
<1> DEFINE tracked == row[t].tracked - newest.delta
           adj == row[t].adj - newest.delta
           r == [row[t] EXCEPT !.tracked = tracked, !.adj = adj]
           was == prior.row[t]
<1>1. tracked \in Nat /\ adj \in Int /\ row[t] \in Row
  BY ColumnTypes, NewestFields DEF RevertAdjust, BaseInv
<1>2. Reverted(t, r) /\ newest.op = "adjust_tracked" /\ newest.t = t /\ deps' = deps
  BY DEF RevertAdjust
<1>3. AdjustTaken(newest, was, row[t]) /\ deps = prior.deps
  BY <1>2 DEF PriorInv, EventTaken, HasInverse, OthersAsBefore
<1>4. was.tracked = tracked /\ was.adj = adj
  BY <1>3 DEF AdjustTaken
<1> HIDE DEF tracked, adj, was
<1>5. r \in Row
  BY <1>1, RowWrites, Zenon
<1>6. /\ r.tracked = tracked /\ r.adj = adj /\ r.status = row[t].status
      /\ r.since = row[t].since /\ ColumnsKept(r, row[t]) /\ SameClaim(r, row[t])
      /\ r.wait = row[t].wait /\ r.check = row[t].check
  BY <1>1 DEF Row, ColumnsKept, SameClaim
<1> HIDE DEF r
<1>7. SameWork(r, was) /\ SameClaim(r, was)
  BY <1>3, <1>4, <1>6 DEF SameWork, AdjustTaken, ColumnsKept, SameClaim
<1>8. was.until \in Nat /\ now \in Nat
  BY DEF PriorInv, PriorTyped, Row, BaseInv, TypeInv, TypeOK, was
<1> QED
  BY <1>2, <1>3, <1>5, <1>7, <1>8, RevertedRestores DEF HasInverse, was, SameClaim

LEMMA RevertAcceptRestores ==
    ASSUME BaseInv, PriorInv, NEW t \in TaskIds, RevertAccept(t)
    PROVE  Restores
<1> DEFINE r == [row[t] EXCEPT !.status = "triage"]
           was == prior.row[t]
<1>1. Reverted(t, r) /\ newest.op = "accept" /\ newest.t = t /\ deps' = deps
  BY DEF RevertAccept
<1>2. AcceptTaken(newest, was, row[t]) /\ deps = prior.deps
  BY <1>1 DEF PriorInv, EventTaken, HasInverse, OthersAsBefore
<1>3. /\ r \in Row /\ r.status = "triage" /\ ColumnsKept(r, row[t]) /\ SameClaim(r, row[t])
      /\ r.since = row[t].since /\ r.tracked = row[t].tracked
      /\ r.wait = row[t].wait /\ r.adj = row[t].adj /\ r.check = row[t].check
  BY ColumnTypes, Literals DEF Row, BaseInv, ColumnsKept, SameClaim
<1> HIDE DEF r, was
<1>4. SameWork(r, was) /\ SameClaim(r, was)
  BY <1>2, <1>3 DEF SameWork, AcceptTaken, ColumnsKept, SameClaim
<1>5. was.until \in Nat /\ now \in Nat
  BY DEF PriorInv, PriorTyped, Row, BaseInv, NewestInv, TypeInv, TypeOK, was
<1> QED
  BY <1>1, <1>2, <1>3, <1>4, <1>5, RevertedRestores DEF HasInverse, was, SameClaim

LEMMA RevertDepRemoveRestores ==
    ASSUME BaseInv, PriorInv, NEW t \in TaskIds, RevertDepRemove(t)
    PROVE  Restores
<1> DEFINE was == prior.row[t]
<1>1. /\ Reverted(t, row[t]) /\ newest.op = "dependency.remove" /\ newest.t = t
      /\ deps' = deps \cup {<<t, newest.dep>>}
  BY DEF RevertDepRemove
<1>2. SameWork(was, row[t]) /\ SameClaim(was, row[t]) /\ deps' = prior.deps
  BY <1>1 DEF PriorInv, EventTaken, HasInverse, OthersAsBefore
<1>3. SameWork(row[t], was) /\ SameClaim(row[t], was) /\ row[t] \in Row
  BY <1>2, ColumnTypes DEF SameWork, SameClaim, BaseInv
<1>4. was.until \in Nat /\ now \in Nat
  BY DEF PriorInv, PriorTyped, Row, BaseInv, TypeInv, TypeOK
<1> HIDE DEF was
<1> QED
  BY <1>1, <1>2, <1>3, <1>4, RevertedRestores DEF HasInverse, was, SameClaim

\* An undo leaves every row as it was before the event it takes back, but for the
\* rev: whatever happened before that event, its inverse (undo.rs 398-597) brings
\* back status, dates, clock, banked time, corrections, check and edges, with the
\* claim while its lease is live, and an occurrence it spawned is gone again.
THEOREM UndoRestoresCorrect == HSpec => UndoRestores
<1>1. HInit => IdleInv /\ PriorInv
  <2> SUFFICES ASSUME HInit PROVE IdleInv /\ PriorInv
    OBVIOUS
  <2>1. /\ \A t \in TaskIds : row[t].since = 0
        /\ newest.op = "none" /\ prior.row = row /\ prior.deps = deps /\ BaseInv
    BY BaseInit DEF HInit, Init, NoRow, Fresh, Event
  <2> QED
    BY <2>1 DEF IdleInv, IdleRow, EventIdle, PriorInv, PriorTyped, HasInverse, BaseInv,
                TypeInv, TypeOK
<1>2. BaseInv /\ IdleInv /\ PriorInv /\ [HNext]_hvars => IdleInv' /\ PriorInv'
  <2>1. [HNext]_hvars => [Next]_vars
    BY DEF HNext, hvars
  <2> QED
    BY <2>1, IdleInduction, PriorInduction
<1>3. BaseInv /\ PriorInv /\ [HNext]_hvars
        => [row' # row /\ newest'.op = "undo" =>
              /\ \A t \in TaskIds : Restored(row'[t], prior.row[t])
              /\ deps' = prior.deps]_hvars
  <2> SUFFICES ASSUME BaseInv, PriorInv, HNext, row' # row, newest'.op = "undo"
               PROVE  Restores
    BY DEF Restores
  <2>1. Next
    BY DEF HNext
  <2>2. CASE Tick \/ \E c \in Clients, x \in TaskIds : Read(c, x)
    BY <2>2 DEF Tick, Read
  <2>3. CASE Clocks
    BY <2>3, OpsOfClocks
  <2>4. CASE Adds \/ Closes \/ Triages \/ Relations
    BY <2>4, OpsOfCloses, OpsOfTriages, OpsOfOthers
  <2>5. CASE Undo
    BY <2>5, RevertStopRestores, RevertCancelRestores, RevertDoneRestores, RevertModifyRestores,
       RevertAdjustRestores, RevertAcceptRestores, RevertDepRemoveRestores DEF Undo
  <2> QED
    BY <2>1, <2>2, <2>3, <2>4, <2>5 DEF Next
<1> QED
  BY <1>1, <1>2, <1>3, HistoryRuns, BaseInvariant, PTL DEF HSpec, UndoRestores

=============================================================================
