-------------------------- MODULE RemindersProofs --------------------------
(***************************************************************************)
(* Theorems about Reminders for any tasks, instants and daemons.           *)
(***************************************************************************)
EXTENDS Reminders, WellFoundedInduction, TLAPS

\* Every nonempty set of naturals has a least element.
LEMMA MinimumOfNaturals ==
    ASSUME NEW S \in SUBSET Nat, S # {}
    PROVE  \E x \in S : \A y \in S : x <= y
<1>1. \E x \in S : \A y \in S : <<y, x>> \notin OpToRel(<, Nat)
    BY NatLessThanWellFounded, WFMin
<1>2. PICK x \in S : \A y \in S : <<y, x>> \notin OpToRel(<, Nat)
    BY <1>1
<1>3. \A y \in S : ~(y < x)
    BY <1>2 DEF OpToRel
<1> QED BY <1>3

\* There is always a first reminder: CHOOSE in First has something to choose.
LEMMA FirstIsRipe ==
    ASSUME NEW S \in SUBSET Reminder, S # {}
    PROVE  First(S) \in S
<1> DEFINE Ats == {p[2] : p \in S}
<1>1. PICK at \in Ats : \A other \in Ats : at <= other
    <2>1. Ats \in SUBSET Nat /\ Ats # {}
        BY RemindersAssumption DEF Reminder
    <2> QED BY <2>1, MinimumOfNaturals
<1> DEFINE Ids == {p[1] : p \in {q \in S : q[2] = at}}
<1>2. PICK id \in Ids : \A other \in Ids : id <= other
    <2>1. Ids \in SUBSET Nat /\ Ids # {}
        BY <1>1, RemindersAssumption DEF Reminder
    <2> QED BY <2>1, MinimumOfNaturals
<1>3. PICK p \in S : p[2] = at /\ p[1] = id
    BY <1>2
<1>4. \A q \in S : p[2] < q[2] \/ (p[2] = q[2] /\ p[1] <= q[1])
    <2> SUFFICES ASSUME NEW q \in S
                 PROVE  p[2] < q[2] \/ (p[2] = q[2] /\ p[1] <= q[1])
        OBVIOUS
    <2>1. at <= q[2] /\ q[2] \in Nat /\ at \in Nat
        BY <1>1, <1>3, RemindersAssumption DEF Reminder
    <2>2. q[2] = at => id <= q[1]
        BY <1>2
    <2> QED BY <1>3, <2>1, <2>2
<1>5. \E r \in S : \A q \in S : r[2] < q[2] \/ (r[2] = q[2] /\ r[1] <= q[1])
    BY <1>4
<1> QED BY <1>5 DEF First

-----------------------------------------------------------------------------
(* Types *)

LEMMA TypeInit == Init => TypeOK
<1> SUFFICES ASSUME Init PROVE TypeOK
    OBVIOUS
<1>1. Stopped \in Daemon
    BY DEF Stopped, Daemon, NoReminder
<1> QED BY <1>1 DEF Init, TypeOK

\* A thread's step leaves the record of one daemon changed.
LEMMA TypeStep ==
    ASSUME TypeOK, NEW d \in Daemons, Step(d)
    PROVE  TypeOK'
<1> DEFINE x == daemon[d]
<1> USE DEF TypeOK
<1>0. x \in Daemon /\ x.ripe \in SUBSET Reminder /\ x.heap \in SUBSET Reminder
      /\ Wanted \in SUBSET Reminder
    BY DEF Daemon, Wanted
<1>1. CASE Begin(d)
    BY <1>1, <1>0 DEF Begin, Daemon
<1>2. CASE ReadFired(d)
    BY <1>2, <1>0 DEF ReadFired, Daemon
<1>3. CASE ReadTasks(d)
    <2> DEFINE heap == Wanted \ x.fired
               ripe == {p \in heap : p[2] <= x.clock}
               popped == [x EXCEPT !.pc = "firing", !.seen = x.cur, !.fired = {},
                                   !.clock = 0, !.cur = 0, !.heap = heap \ ripe, !.ripe = ripe]
    <2>1. heap \ ripe \in SUBSET Reminder /\ ripe \in SUBSET Reminder
        BY <1>0
    <2>2. daemon' = [daemon EXCEPT ![d] = popped]
        BY <1>3 DEF ReadTasks
    <2> HIDE DEF heap, ripe
    <2>3. popped \in Daemon
        BY <1>0, <2>1 DEF Daemon
    <2> QED BY <1>3, <2>2, <2>3 DEF ReadTasks
<1>4. CASE PopRipe(d)
    <2> DEFINE ripe == {p \in x.heap : p[2] <= x.clock}
               popped == [x EXCEPT !.pc = "firing", !.clock = 0, !.cur = 0,
                                   !.heap = x.heap \ ripe, !.ripe = ripe]
    <2>1. x.heap \ ripe \in SUBSET Reminder /\ ripe \in SUBSET Reminder
        BY <1>0
    <2>2. daemon' = [daemon EXCEPT ![d] = popped]
        BY <1>4 DEF PopRipe
    <2> HIDE DEF ripe
    <2>3. popped \in Daemon
        BY <1>0, <2>1 DEF Daemon
    <2> QED BY <1>4, <2>2, <2>3 DEF PopRipe
<1>5. CASE Fire(d)
    <2>1. First(x.ripe) \in Reminder
        BY <1>5, <1>0, FirstIsRipe DEF Fire
    <2> DEFINE first == First(x.ripe)
               left == x.ripe \ {first}
    <2>2. /\ daemon' = [daemon EXCEPT ![d] = [x EXCEPT !.pc = "showing", !.ripe = left,
                                                       !.showing = first]]
          /\ reminded' = reminded \cup {first} /\ events' = events + 1
        BY <1>5 DEF Fire
    <2>3. left \in SUBSET Reminder
        BY <1>0
    <2> HIDE DEF left, first
    <2>4. [x EXCEPT !.pc = "showing", !.ripe = left, !.showing = first] \in Daemon
        BY <1>0, <2>1, <2>3 DEF Daemon, first
    <2>5. reminded' \subseteq Reminder
        BY <2>1, <2>2 DEF first
    <2> QED BY <1>5, <2>2, <2>4, <2>5 DEF Fire
<1>6. CASE Deduped(d)
    BY <1>6, <1>0 DEF Deduped, Daemon
<1>7. CASE Show(d)
    <2>1. [x EXCEPT !.pc = "firing", !.showing = NoReminder] \in Daemon
        BY <1>0 DEF Daemon
    <2>2. daemon' = [daemon EXCEPT ![d] = [x EXCEPT !.pc = "firing", !.showing = NoReminder]]
        BY <1>7 DEF Show
    <2>3. shown' \in [Reminder -> Nat]
        <3>1. shown' = [shown EXCEPT ![x.showing] = shown[x.showing] + 1]
            BY <1>7 DEF Show
        <3>2. CASE x.showing \in Reminder
            BY <3>1, <3>2
        <3>3. CASE x.showing \notin Reminder
            BY <3>1, <3>3
        <3> QED BY <3>2, <3>3
    <2> QED BY <1>7, <2>1, <2>2, <2>3 DEF Show
<1>8. CASE EndTick(d)
    BY <1>8, <1>0 DEF EndTick, Watermark, Daemon
<1> QED BY <1>1, <1>2, <1>3, <1>4, <1>5, <1>6, <1>7, <1>8 DEF Step

LEMMA TypeNext ==
    ASSUME TypeOK, [Next]_vars
    PROVE  TypeOK'
<1> USE DEF TypeOK
<1>1. CASE Tick
    BY <1>1 DEF Tick
<1>2. ASSUME NEW t \in Tasks, NEW live \in BOOLEAN, NEW at \in Instants \cup {0}, Edit(t, live, at)
      PROVE  TypeOK'
    BY <1>2 DEF Edit
<1>3. ASSUME NEW p \in Reminder, FireByHand(p)
      PROVE  TypeOK'
    BY <1>3 DEF FireByHand
<1>4. ASSUME NEW d \in Daemons, Boot(d) \/ Stop(d)
      PROVE  TypeOK'
    <2>1. Stopped \in Daemon /\ [Stopped EXCEPT !.pc = "asleep"] \in Daemon
        BY DEF Stopped, Daemon, NoReminder
    <2> QED BY <1>4, <2>1 DEF Boot, Stop
<1>5. ASSUME NEW d \in Daemons, FireFails(d)
      PROVE  TypeOK'
    <2> DEFINE left == daemon[d].ripe \ {First(daemon[d].ripe)}
    <2>1. left \in SUBSET Reminder /\ daemon[d] \in Daemon
        BY DEF Daemon
    <2>2. daemon' = [daemon EXCEPT ![d] = [daemon[d] EXCEPT !.ripe = left, !.seen = -1]]
        BY <1>5 DEF FireFails, FailedWatermark
    <2> HIDE DEF left
    <2>3. [daemon[d] EXCEPT !.ripe = left, !.seen = -1] \in Daemon
        BY <2>1 DEF Daemon
    <2> QED BY <1>5, <2>2, <2>3 DEF FireFails
<1>6. ASSUME NEW d \in Daemons, Step(d)
      PROVE  TypeOK'
    BY <1>6, TypeStep
<1>7. CASE UNCHANGED vars
    BY <1>7 DEF vars
<1> QED BY <1>1, <1>2, <1>3, <1>4, <1>5, <1>6, <1>7 DEF Next

\* The clock, the log and the threads hold values of their types.
THEOREM TypeCorrect == Spec => []TypeOK
<1>1. Init => TypeOK
    BY TypeInit
<1>2. TypeOK /\ [Next]_vars => TypeOK'
    BY TypeNext
<1> QED BY <1>1, <1>2, PTL DEF Spec

-----------------------------------------------------------------------------
(* Exactly one record, at most one notification *)

\* A reminder a thread is about to show is recorded, was never shown, and is
\* in no other thread's hands; nothing is shown without its record.
OneShower ==
    /\ \A p \in Reminder : p \notin reminded => shown[p] = 0
    /\ \A d \in Daemons : daemon[d].pc = "showing" =>
          daemon[d].showing \in reminded /\ shown[daemon[d].showing] = 0
    /\ \A d, e \in Daemons : daemon[d].pc = "showing" /\ daemon[e].pc = "showing"
          /\ daemon[d].showing = daemon[e].showing => d = e

ShownInv == TypeOK /\ OneShower /\ ShownOnce

\* A step that records and shows nothing, and starts no thread showing.
LEMMA QuietStep ==
    ASSUME ShownInv, TypeOK',
           reminded \subseteq reminded', shown' = shown,
           \A e \in Daemons : daemon'[e].pc = "showing" => daemon'[e] = daemon[e]
    PROVE  ShownInv'
<1>1. OneShower'
    BY DEF ShownInv, OneShower
<1> QED BY <1>1 DEF ShownInv, ShownOnce

LEMMA FireStep ==
    ASSUME ShownInv, TypeOK', NEW d \in Daemons, Fire(d)
    PROVE  ShownInv'
<1> DEFINE p == First(daemon[d].ripe)
<1>1. p \in Reminder /\ p \notin reminded /\ shown[p] = 0
    <2>1. daemon[d].ripe \in SUBSET Reminder
        BY DEF ShownInv, TypeOK, Daemon
    <2> QED BY <2>1, FirstIsRipe DEF Fire, NotYetFired, ShownInv, OneShower
<1>2. reminded' = reminded \cup {p} /\ shown' = shown
    BY DEF Fire
<1>3. daemon'[d].pc = "showing" /\ daemon'[d].showing = p
    BY DEF Fire, ShownInv, TypeOK, Daemon
<1>4. \A e \in Daemons \ {d} : daemon'[e] = daemon[e]
    BY DEF Fire, ShownInv, TypeOK
<1> HIDE DEF p
<1>5. OneShower'
    <2>1. \A e \in Daemons \ {d} : daemon[e].pc = "showing" => daemon[e].showing # p
        BY <1>1 DEF ShownInv, OneShower
    <2> QED BY <1>1, <1>2, <1>3, <1>4, <2>1 DEF ShownInv, OneShower
<1> QED BY <1>2, <1>5 DEF ShownInv, ShownOnce

LEMMA ShowStep ==
    ASSUME ShownInv, TypeOK', NEW d \in Daemons, Show(d)
    PROVE  ShownInv'
<1> DEFINE p == daemon[d].showing
<1>1. daemon[d].pc = "showing" /\ p \in reminded /\ p \in Reminder /\ shown[p] = 0
    BY DEF Show, ShownInv, OneShower, TypeOK
<1>2. reminded' = reminded
    BY DEF Show
<1>3. shown'[p] = 1 /\ \A q \in Reminder \ {p} : shown'[q] = shown[q]
    BY <1>1 DEF Show, ShownInv, TypeOK
<1>4. daemon'[d].pc = "firing" /\ \A e \in Daemons \ {d} : daemon'[e] = daemon[e]
    BY DEF Show, ShownInv, TypeOK, Daemon
<1>5. \A e \in Daemons \ {d} : daemon[e].pc = "showing" =>
          daemon[e].showing # p /\ daemon[e].showing \in Reminder
    BY <1>1 DEF ShownInv, OneShower, TypeOK
<1> HIDE DEF p
<1>6. OneShower'
    BY <1>1, <1>2, <1>3, <1>4, <1>5 DEF ShownInv, OneShower
<1>7. ShownOnce'
    BY <1>1, <1>3 DEF ShownInv, ShownOnce
<1> QED BY <1>6, <1>7 DEF ShownInv

LEMMA ShownNext ==
    ASSUME ShownInv, [Next]_vars
    PROVE  ShownInv'
<1>0. TypeOK /\ TypeOK'
    BY TypeNext DEF ShownInv
<1>1. CASE UNCHANGED vars \/ Tick \/ (\E t \in Tasks, live \in BOOLEAN, at \in Instants \cup {0} : Edit(t, live, at))
              \/ (\E p \in Reminder : FireByHand(p))
    BY <1>0, <1>1, QuietStep DEF vars, Tick, Edit, FireByHand
<1>2. ASSUME NEW d \in Daemons, Boot(d) \/ Stop(d)
      PROVE  ShownInv'
    BY <1>0, <1>2, QuietStep DEF Boot, Stop, Stopped, TypeOK
<1>3. ASSUME NEW d \in Daemons, FireFails(d)
      PROVE  ShownInv'
    BY <1>0, <1>3, QuietStep DEF FireFails, TypeOK, Daemon
<1>4. ASSUME NEW d \in Daemons, Begin(d) \/ ReadFired(d) \/ Deduped(d) \/ EndTick(d)
      PROVE  ShownInv'
    BY <1>0, <1>4, QuietStep DEF Begin, ReadFired, Deduped, EndTick, TypeOK, Daemon
<1>5. ASSUME NEW d \in Daemons, ReadTasks(d) \/ PopRipe(d)
      PROVE  ShownInv'
    BY <1>0, <1>5, QuietStep DEF ReadTasks, PopRipe, TypeOK, Daemon
<1>6. ASSUME NEW d \in Daemons, Fire(d) \/ Show(d)
      PROVE  ShownInv'
    BY <1>0, <1>6, FireStep, ShowStep
<1> QED BY <1>1, <1>2, <1>3, <1>4, <1>5, <1>6 DEF Next, Step

\* No reminder is notified twice (scheduler.rs 19-27): the record is written by
\* the one transaction that found none, and only its thread notifies.
THEOREM ShownOnceCorrect == Spec => []ShownOnce
<1>1. Init => ShownInv
    <2> SUFFICES ASSUME Init PROVE ShownInv
        OBVIOUS
    <2>1. OneShower /\ ShownOnce
        BY DEF Init, OneShower, ShownOnce, Stopped
    <2> QED BY <2>1, TypeInit DEF ShownInv
<1>2. ShownInv /\ [Next]_vars => ShownInv'
    BY ShownNext
<1>3. ShownInv => ShownOnce
    BY DEF ShownInv
<1> QED BY <1>1, <1>2, <1>3, PTL DEF Spec

-----------------------------------------------------------------------------
(* The watermark *)

\* A watermark never runs ahead of the log, and whichever point of its tick a
\* thread is at, a watermark that still equals the log's length vouches for
\* what the thread has read. A thread that has just fired is behind.
Vouches(x) ==
    /\ x.seen <= events /\ (x.pc \in {"begun", "read"} => x.cur <= events)
    /\ x.pc \in {"asleep", "begun"} /\ x.seen = events => x.heap = Schedule
    /\ x.pc = "read" /\ x.cur = events => x.fired = reminded
    /\ x.pc = "firing" /\ x.seen = events => x.heap \cup x.ripe = Schedule
    /\ x.pc = "showing" => x.seen < events

WatermarkInv == TypeOK /\ \A d \in Daemons : Vouches(daemon[d])

\* A step that logs an event makes every watermark stale.
LEMMA LoggedStep ==
    ASSUME WatermarkInv, TypeOK', events' = events + 1, daemon' = daemon
    PROVE  WatermarkInv'
<1> SUFFICES ASSUME NEW d \in Daemons PROVE Vouches(daemon[d])'
    BY DEF WatermarkInv
<1>1. daemon'[d] = daemon[d] /\ daemon[d].seen <= events /\ daemon[d].seen \in Int
      /\ (daemon[d].pc \in {"begun", "read"} => daemon[d].cur <= events)
      /\ daemon[d].cur \in Int /\ events \in Nat
    BY DEF WatermarkInv, TypeOK, Daemon, Vouches
<1> QED BY <1>1 DEF Vouches

\* A step of one thread that leaves the store alone.
LEMMA ThreadStep ==
    ASSUME WatermarkInv, TypeOK', NEW d \in Daemons,
           UNCHANGED <<task, events, reminded>>,
           \A e \in Daemons \ {d} : daemon'[e] = daemon[e],
           Vouches(daemon'[d])
    PROVE  WatermarkInv'
<1>1. Schedule' = Schedule
    BY DEF Schedule, Wanted
<1>2. \A e \in Daemons : Vouches(daemon'[e])
    BY DEF WatermarkInv
<1>3. \A e \in Daemons : Vouches(daemon[e])'
    BY <1>1, <1>2 DEF Vouches
<1> QED BY <1>3 DEF WatermarkInv

\* Every step of a thread but the one that logs keeps its watermark's word.
LEMMA WatermarkStep ==
    ASSUME WatermarkInv, TypeOK', NEW d \in Daemons,
           Begin(d) \/ ReadFired(d) \/ ReadTasks(d) \/ PopRipe(d) \/ Deduped(d)
             \/ Show(d) \/ EndTick(d) \/ FireFails(d) \/ Boot(d) \/ Stop(d)
    PROVE  WatermarkInv'
<1> DEFINE x == daemon[d]
<1>0. /\ x \in Daemon /\ Vouches(x) /\ events \in Nat
      /\ x.seen \in Int /\ x.cur \in Int
    BY DEF WatermarkInv, TypeOK, Daemon
<1>1. UNCHANGED <<task, events, reminded>>
    BY DEF Begin, ReadFired, ReadTasks, PopRipe, Deduped, Show, EndTick, FireFails, Boot, Stop
<1>2. \A e \in Daemons \ {d} : daemon'[e] = daemon[e]
    BY DEF Begin, ReadFired, ReadTasks, PopRipe, Deduped, Show, EndTick, FireFails, Boot, Stop,
           WatermarkInv, TypeOK
<1>3. Vouches(daemon'[d])
    <2>1. CASE Begin(d)
        <3>1. daemon'[d].pc = "begun" /\ daemon'[d].cur = events
              /\ daemon'[d].seen = x.seen /\ daemon'[d].heap = x.heap /\ x.pc = "asleep"
            BY <1>0, <2>1 DEF Begin, WatermarkInv, TypeOK, Daemon
        <3> QED BY <1>0, <3>1 DEF Vouches
    <2>2. CASE ReadFired(d)
        <3>1. daemon'[d].pc = "read" /\ daemon'[d].cur = x.cur /\ x.pc = "begun"
              /\ daemon'[d].seen = x.seen /\ daemon'[d].fired = reminded
            BY <1>0, <2>2 DEF ReadFired, WatermarkInv, TypeOK, Daemon
        <3> QED BY <1>0, <3>1 DEF Vouches
    <2>3. CASE ReadTasks(d)
        <3> DEFINE heap == Wanted \ x.fired
                   ripe == {p \in heap : p[2] <= x.clock}
        <3>1. /\ daemon'[d].pc = "firing" /\ daemon'[d].seen = x.cur
              /\ daemon'[d].heap = heap \ ripe /\ daemon'[d].ripe = ripe
            <4> DEFINE popped == [x EXCEPT !.pc = "firing", !.seen = x.cur, !.fired = {},
                    !.clock = 0, !.cur = 0, !.heap = heap \ ripe, !.ripe = ripe]
            <4>1. daemon' = [daemon EXCEPT ![d] = popped]
                BY <2>3 DEF ReadTasks
            <4>2. daemon'[d] = popped
                BY <4>1 DEF WatermarkInv, TypeOK
            <4> HIDE DEF heap, ripe
            <4> QED BY <1>0, <4>2 DEF Daemon
        <3>2. (heap \ ripe) \cup ripe = heap
            OBVIOUS
        <3>3. x.pc = "read" /\ (x.cur = events => heap = Schedule) /\ x.cur <= events
            BY <1>0, <2>3 DEF ReadTasks, Vouches, Schedule
        <3> HIDE DEF heap, ripe
        <3> QED BY <3>1, <3>2, <3>3 DEF Vouches
    <2>4. CASE PopRipe(d)
        <3> DEFINE ripe == {p \in x.heap : p[2] <= x.clock}
        <3>1. /\ daemon'[d].pc = "firing" /\ daemon'[d].seen = x.seen
              /\ daemon'[d].heap = x.heap \ ripe /\ daemon'[d].ripe = ripe
            <4> DEFINE popped == [x EXCEPT !.pc = "firing", !.clock = 0, !.cur = 0,
                                           !.heap = x.heap \ ripe, !.ripe = ripe]
            <4>1. daemon' = [daemon EXCEPT ![d] = popped]
                BY <2>4 DEF PopRipe
            <4>2. daemon'[d] = popped
                BY <4>1 DEF WatermarkInv, TypeOK
            <4> HIDE DEF ripe
            <4> QED BY <1>0, <4>2 DEF Daemon
        <3>2. (x.heap \ ripe) \cup ripe = x.heap
            OBVIOUS
        <3>3. (x.seen = events => x.heap = Schedule) /\ x.seen <= events
            BY <1>0, <2>4 DEF PopRipe, Vouches
        <3> HIDE DEF ripe
        <3> QED BY <3>1, <3>2, <3>3 DEF Vouches
    <2>5. CASE Deduped(d)
        <3> DEFINE p == First(x.ripe)
        <3>1. /\ daemon'[d].pc = "firing" /\ daemon'[d].seen = x.seen
              /\ daemon'[d].heap = x.heap /\ daemon'[d].ripe = x.ripe \ {p}
            BY <1>0, <2>5 DEF Deduped, WatermarkInv, TypeOK, Daemon
        <3>2. p \in x.ripe /\ p \in reminded
            BY <1>0, <2>5, FirstIsRipe DEF Deduped, NotYetFired, Daemon
        <3>3. x.seen # events /\ x.seen <= events
            BY <1>0, <2>5, <3>2 DEF Deduped, Vouches, Schedule
        <3> QED BY <3>1, <3>3 DEF Vouches
    <2>6. CASE Show(d)
        <3>1. /\ daemon'[d].pc = "firing" /\ daemon'[d].seen = x.seen
            BY <1>0, <2>6 DEF Show, WatermarkInv, TypeOK, Daemon
        <3>2. x.seen < events
            BY <1>0, <2>6 DEF Show, Vouches
        <3> QED BY <1>0, <3>1, <3>2 DEF Vouches
    <2>7. CASE EndTick(d)
        <3>1. /\ daemon'[d].pc = "asleep" /\ daemon'[d].seen = x.seen
              /\ daemon'[d].heap = x.heap /\ x.ripe = {}
            BY <1>0, <2>7 DEF EndTick, Watermark, WatermarkInv, TypeOK, Daemon
        <3> QED BY <1>0, <2>7, <3>1 DEF EndTick, Vouches
    <2>8. CASE FireFails(d)
        <3>1. daemon'[d].pc = "firing" /\ daemon'[d].seen = -1
            BY <1>0, <2>8 DEF FireFails, FailedWatermark, WatermarkInv, TypeOK, Daemon
        <3> QED BY <1>0, <3>1 DEF Vouches
    <2>9. CASE Boot(d) \/ Stop(d)
        <3>1. daemon'[d].pc \in {"asleep", "down"} /\ daemon'[d].seen = -1
            BY <2>9 DEF Boot, Stop, Stopped, WatermarkInv, TypeOK
        <3> QED BY <1>0, <3>1 DEF Vouches
    <2> QED BY <2>1, <2>2, <2>3, <2>4, <2>5, <2>6, <2>7, <2>8, <2>9
<1> QED BY <1>1, <1>2, <1>3, ThreadStep

LEMMA WatermarkFire ==
    ASSUME WatermarkInv, TypeOK', NEW d \in Daemons, Fire(d)
    PROVE  WatermarkInv'
<1> SUFFICES ASSUME NEW e \in Daemons PROVE Vouches(daemon[e])'
    BY DEF WatermarkInv
<1>1. events' = events + 1 /\ events \in Nat
    BY DEF Fire, WatermarkInv, TypeOK
<1>2. daemon[e].seen <= events /\ daemon[e].seen \in Int /\ daemon[e].cur \in Int
      /\ (daemon[e].pc \in {"begun", "read"} => daemon[e].cur <= events)
    BY DEF WatermarkInv, TypeOK, Daemon, Vouches
<1>3. CASE e = d
    <2>1. daemon'[d].pc = "showing" /\ daemon'[d].seen = daemon[d].seen
        BY DEF Fire, WatermarkInv, TypeOK, Daemon
    <2> QED BY <1>1, <1>2, <1>3, <2>1 DEF Vouches
<1>4. CASE e # d
    <2>1. daemon'[e] = daemon[e]
        BY <1>4 DEF Fire, WatermarkInv, TypeOK
    <2> QED BY <1>1, <1>2, <2>1 DEF Vouches
<1> QED BY <1>3, <1>4

LEMMA WatermarkNext ==
    ASSUME WatermarkInv, [Next]_vars
    PROVE  WatermarkInv'
<1>0. TypeOK'
    BY TypeNext DEF WatermarkInv
<1>1. CASE UNCHANGED vars \/ Tick
    BY <1>0, <1>1 DEF vars, Tick, WatermarkInv, Vouches, Schedule, Wanted
<1>2. CASE \/ \E t \in Tasks, live \in BOOLEAN, at \in Instants \cup {0} : Edit(t, live, at)
           \/ \E p \in Reminder : FireByHand(p)
    <2>1. events' = events + 1 /\ daemon' = daemon
        BY <1>2 DEF Edit, FireByHand
    <2> QED BY <1>0, <2>1, LoggedStep
<1>3. ASSUME NEW d \in Daemons, Boot(d) \/ Stop(d) \/ FireFails(d) \/ Step(d)
      PROVE  WatermarkInv'
    BY <1>0, <1>3, WatermarkStep, WatermarkFire DEF Step
<1> QED BY <1>1, <1>2, <1>3 DEF Next

\* A sleeping thread whose watermark equals the log holds exactly what the
\* store would have it remind of (daemon.rs 1362-1370), so no reminder is
\* dropped by a rebuild that was skipped.
THEOREM HeapIsCurrentCorrect == Spec => []HeapIsCurrent
<1>1. Init => WatermarkInv
    <2> SUFFICES ASSUME Init PROVE WatermarkInv
        OBVIOUS
    <2>1. \A d \in Daemons : Vouches(daemon[d])
        BY DEF Init, Stopped, Vouches
    <2> QED BY <2>1, TypeInit DEF WatermarkInv
<1>2. WatermarkInv /\ [Next]_vars => WatermarkInv'
    BY WatermarkNext
<1>3. WatermarkInv => HeapIsCurrent
    BY DEF WatermarkInv, Vouches, HeapIsCurrent
<1> QED BY <1>1, <1>2, <1>3, PTL DEF Spec

=============================================================================
