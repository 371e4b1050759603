--------------------------- MODULE SyncLoopProofs ---------------------------
(***************************************************************************)
(* Theorems about SyncLoop for any number of machines, runs, edits, rounds *)
(* and faults: what a sync promised stays on the remote, and a conflict    *)
(* copy goes only once its changes are in a snapshot that landed. Both are *)
(* of runs that have a state directory each: two syncs that share one take *)
(* each other's copies away.                                               *)
(***************************************************************************)
EXTENDS SyncLoop, TLAPS

\* No two runs are given one state directory.
Apart == \A r, s \in Runs : DirOf[r] = DirOf[s] => r = s

Call == [phase : Phases, base : Versions \cup {NoVersion}, got : SUBSET Versions,
         blob : Versions \cup {NoVersion}]
Loop == [at : {"off", "pull", "merge", "push", "retry"}, attempt : Nat,
         todo : SUBSET Versions, pulled : SUBSET Versions]

TypeInv ==
    /\ head \in Versions \cup {NoVersion} /\ copies \subseteq Versions
    /\ handed \in [Dirs -> SUBSET Versions] /\ store \in [Dirs -> SUBSET Changes]
    /\ call \in [Runs -> Call] /\ loop \in [Runs -> Loop]

\* The copies the push of run r takes away, once it has landed.
Doomed(r) == IF call[r].phase = "landed" THEN handed[DirOf[r]]
             ELSE IF call[r].phase = "dropping" THEN call[r].got ELSE {}

There(S) == \A v \in S : Holds(v) \subseteq OnRemote
Covers(p, S) == \A v \in S : Holds(v) \subseteq Holds(p)

\* What is pulled was on the remote, is merged before it is pushed, and what
\* is pushed holds all that the push replaces and takes away.
Pulling(r) ==
    /\ call[r].phase = "pulling"
    /\ call[r].base \in call[r].got \cup {NoVersion}
    /\ There(call[r].got)
Merging(r) ==
    /\ call[r].phase = "pulled"
    /\ call[r].base \in loop[r].pulled \cup {NoVersion}
    /\ handed[DirOf[r]] = loop[r].pulled
    /\ There(loop[r].pulled)
    /\ \A v \in loop[r].pulled \ loop[r].todo : Holds(v) \subseteq store[DirOf[r]]
Pushing(r, p) ==
    /\ loop[r].pulled = {p}
    /\ call[r].phase \in {"pushing", "landed", "dropping", "pushed", "conflict"}
    /\ call[r].phase = "pushing" =>
          call[r].blob = p /\ Covers(p, handed[DirOf[r]] \cup {call[r].base})
    /\ call[r].phase \in {"landed", "dropping"} => Covers(p, Doomed(r))
    /\ call[r].phase \in {"landed", "dropping", "pushed"} => There({p})
InStep(r) ==
    /\ call[r].phase # "pushing" => call[r].blob = NoVersion
    /\ loop[r].at \in {"off", "retry"} => call[r].phase = "idle"
    /\ loop[r].at = "pull" => Pulling(r)
    /\ loop[r].at = "merge" => Merging(r)
    /\ loop[r].at = "push" => \E p \in Versions : Pushing(r, p)

\* Nobody has seen a snapshot that is yet to land.
Got == UNION {call[r].got : r \in Runs}
Seen == {head} \cup copies \cup HandedOver \cup Got
Unseen(r) == call[r].blob \notin Seen /\ \A s \in Runs \ {r} : call[s].blob # call[r].blob
Fresh == \A r \in Runs : call[r].phase = "pushing" => Unseen(r)

\* What the remote names and no push is about to take away holds everything:
\* two pushes that take copies away at a time never take each other's.
Spared == {v \in {head} \cup copies : \A r \in Runs : v \notin Doomed(r)}
OnSpared == UNION {Holds(v) : v \in Spared}
Safe == OnRemote \subseteq OnSpared

SyncInv == TypeInv /\ (\A r \in Runs : InStep(r)) /\ Fresh /\ Safe

-----------------------------------------------------------------------------
(* What a step of one run leaves to the others *)

\* What a run relies on of the rest: its directory's record, its store, and a
\* remote that has forgotten nothing.
LEMMA OthersInStep ==
    ASSUME NEW s \in Runs, InStep(s), call'[s] = call[s], loop'[s] = loop[s],
           handed'[DirOf[s]] = handed[DirOf[s]],
           store[DirOf[s]] \subseteq store'[DirOf[s]],
           OnRemote \subseteq OnRemote'
    PROVE  InStep(s)'
<1>1. Doomed(s)' = Doomed(s)
    BY DEF Doomed
<1>2. \A S : There(S) => There(S)'
    BY DEF There, Holds
<1>3. Pulling(s) => Pulling(s)'
    BY <1>2 DEF Pulling
<1>4. Merging(s) => Merging(s)'
    BY <1>2 DEF Merging, Holds
<1>5. \A p : Pushing(s, p) => Pushing(s, p)'
    BY <1>1, <1>2 DEF Pushing, Covers, Holds
<1> QED
    BY <1>3, <1>4, <1>5 DEF InStep

\* A step that pushes nothing new leaves what is yet to land unseen, though
\* what it had pushed itself is seen from now on.
LEMMA StaysFresh ==
    ASSUME NEW r \in Runs, TypeInv, \A s \in Runs : InStep(s), Fresh,
           \A s \in Runs \ {r} : call'[s] = call[s],
           call'[r].phase # "pushing", call'[r].blob = NoVersion,
           Seen' \subseteq Seen \cup {call[r].blob, NoVersion}
    PROVE  Fresh'
<1> SUFFICES ASSUME NEW s \in Runs, call'[s].phase = "pushing"
             PROVE  Unseen(s)'
    BY DEF Fresh
<1>1. s # r /\ call'[s] = call[s] /\ call[s].phase = "pushing"
    OBVIOUS
<1>2. Unseen(s)
    BY <1>1 DEF Fresh
<1>3. call[s].blob # NoVersion
    <2>1. loop[s].at = "push"
        BY <1>1 DEF InStep, Pulling, Merging, TypeInv, Loop
    <2>2. PICK p \in Versions : Pushing(s, p)
        BY <2>1 DEF InStep
    <2> QED
        BY <1>1, <2>2, RunsAssumption DEF Pushing
<1>4. call'[s].blob \notin Seen'
    BY <1>1, <1>2, <1>3 DEF Unseen
<1>5. \A t \in Runs \ {s} : call'[t].blob # call'[s].blob
    BY <1>1, <1>2, <1>3 DEF Unseen
<1> QED
    BY <1>4, <1>5 DEF Unseen

\* While the remote is as it is and no more of it is to go, nothing is lost.
LEMMA StaysSafe ==
    ASSUME Safe, UNCHANGED <<head, copies>>, \A r \in Runs : Doomed(r)' \subseteq Doomed(r)
    PROVE  Safe' /\ OnRemote' = OnRemote
<1>1. OnRemote' = OnRemote
    BY DEF OnRemote, Holds
<1>2. Spared \subseteq Spared'
    BY DEF Spared
<1>3. OnSpared \subseteq OnSpared'
    BY <1>2 DEF OnSpared, Holds
<1> QED
    BY <1>1, <1>3 DEF Safe

\* A step of one run that leaves the remote as it is keeps the invariant when
\* it keeps what the invariant says of that run.
LEMMA OneRun ==
    ASSUME Apart, SyncInv, NEW r \in Runs, TypeInv',
           UNCHANGED <<head, copies>>,
           \A s \in Runs \ {r} : call'[s] = call[s] /\ loop'[s] = loop[s],
           \A d \in Dirs \ {DirOf[r]} : handed'[d] = handed[d],
           \A d \in Dirs : store[d] \subseteq store'[d],
           Doomed(r)' \subseteq Doomed(r),
           OnRemote' = OnRemote => InStep(r)', Fresh'
    PROVE  SyncInv' /\ OnRemote \subseteq OnRemote'
<1>1. ASSUME NEW s \in Runs \ {r}
      PROVE  /\ DirOf[s] \in Dirs \ {DirOf[r]} /\ Doomed(s)' = Doomed(s)
             /\ handed'[DirOf[s]] = handed[DirOf[s]] /\ store[DirOf[s]] \subseteq store'[DirOf[s]]
    BY <1>1, RunsAssumption DEF Apart, Doomed
<1>2. Safe' /\ OnRemote' = OnRemote
    <2>1. \A s \in Runs : Doomed(s)' \subseteq Doomed(s)
        BY <1>1
    <2> QED
        BY <2>1, StaysSafe DEF SyncInv
<1>3. ASSUME NEW s \in Runs PROVE InStep(s)'
    <2>1. CASE s = r
        BY <1>2, <2>1
    <2>2. CASE s # r
        BY <1>1, <1>2, <2>2, OthersInStep DEF SyncInv
    <2> QED
        BY <2>1, <2>2
<1> QED
    BY <1>2, <1>3 DEF SyncInv

\* A snapshot lands, as the head or as a conflict copy: it holds whatever it
\* replaces and its run takes away, and nobody is about to take it.
LEMMA OneLands ==
    ASSUME Apart, SyncInv, NEW r \in Runs, TypeInv', NEW p,
           loop[r].at = "push", call[r].phase = "pushing", p = call[r].blob,
           call' = [call EXCEPT ![r] = [Idle EXCEPT !.phase = "landed"]],
           UNCHANGED <<handed, store, loop>>,
           p \in {head'} \cup copies',
           {head'} \cup copies' \subseteq {head} \cup copies \cup {p},
           ({head} \cup copies) \ ({head'} \cup copies') \subseteq {call[r].base}
    PROVE  SyncInv' /\ OnRemote \subseteq OnRemote'
<1>1. p \in Versions /\ Pushing(r, p) /\ Covers(p, handed[DirOf[r]] \cup {call[r].base})
    <2>1. PICK q \in Versions : Pushing(r, q)
        BY DEF SyncInv, InStep
    <2> QED
        BY <2>1 DEF Pushing
<1>2. call'[r] = [Idle EXCEPT !.phase = "landed"] /\ \A s \in Runs \ {r} : call'[s] = call[s]
    BY DEF SyncInv, TypeInv
<1>3. Doomed(r)' = handed[DirOf[r]] /\ \A s \in Runs \ {r} : Doomed(s)' = Doomed(s)
    BY <1>2 DEF Doomed, Idle
<1>4. p \notin Seen
    BY DEF SyncInv, Fresh, Unseen
<1>5. \A s \in Runs : p \notin Doomed(s)'
    BY <1>3, <1>4, RunsAssumption DEF Doomed, Seen, HandedOver, Got
<1>6. p \in Spared'
    BY <1>5 DEF Spared
<1>7. ASSUME NEW v \in {head} \cup copies, v \notin {head'} \cup copies'
      PROVE  Holds(v) \subseteq Holds(p)
    BY <1>1, <1>7 DEF Covers
<1>8. OnRemote \subseteq OnRemote'
    BY <1>7 DEF OnRemote, Holds
<1>9. ASSUME NEW v \in Spared PROVE Holds(v) \subseteq OnSpared'
    <2>1. CASE v \notin {head'} \cup copies' \/ v \in handed[DirOf[r]]
        <3>1. Holds(v) \subseteq Holds(p)
            BY <1>1, <1>7, <2>1 DEF Covers, Spared
        <3> QED
            BY <1>6, <3>1 DEF OnSpared, Holds
    <2>2. CASE v \in {head'} \cup copies' /\ v \notin handed[DirOf[r]]
        <3>1. v \in Spared'
            BY <1>3, <2>2 DEF Spared
        <3> QED
            BY <3>1 DEF OnSpared, Holds
    <2> QED
        BY <2>1, <2>2
<1>10. Safe'
    <2>1. OnSpared \subseteq OnSpared'
        BY <1>9 DEF OnSpared
    <2>2. Holds(p) \subseteq OnSpared'
        BY <1>6 DEF OnSpared, Holds
    <2>3. OnRemote' \subseteq OnRemote \cup Holds(p)
        BY DEF OnRemote, Holds
    <2> QED
        BY <2>1, <2>2, <2>3 DEF Safe, SyncInv
<1>11. Fresh'
    <2>1. Seen' \subseteq Seen \cup {p}
        BY <1>2 DEF Seen, HandedOver, Got, Idle
    <2> QED
        BY <1>2, <2>1, StaysFresh DEF SyncInv, Idle
<1>12. InStep(r)'
    <2>1. Holds(p) \subseteq OnRemote'
        BY DEF OnRemote, Holds
    <2>2. Pushing(r, p)'
        BY <1>1, <1>2, <1>3, <2>1 DEF Pushing, Covers, There, Idle, Holds
    <2> QED
        BY <1>1, <1>2, <2>2 DEF InStep, Idle
<1>13. ASSUME NEW s \in Runs \ {r} PROVE InStep(s)'
    BY <1>2, <1>8, OthersInStep DEF SyncInv
<1>14. \A s \in Runs : InStep(s)'
    BY <1>12, <1>13
<1> QED
    BY <1>8, <1>10, <1>11, <1>14 DEF SyncInv

-----------------------------------------------------------------------------
(* The steps *)

LEMMA EditKeeps ==
    ASSUME Apart, SyncInv, NEW s \in Dirs, NEW x \in Changes, Edit(s, x)
    PROVE  SyncInv' /\ OnRemote \subseteq OnRemote'
<1>1. UNCHANGED <<head, copies, handed, call, loop>> /\ \A d \in Dirs : store[d] \subseteq store'[d]
    BY DEF Edit, cvars, SyncInv, TypeInv
<1>2. TypeInv'
    BY <1>1 DEF SyncInv, TypeInv, Edit
<1>3. Safe' /\ OnRemote' = OnRemote
    <2>1. \A r \in Runs : Doomed(r)' \subseteq Doomed(r)
        BY <1>1 DEF Doomed
    <2> QED
        BY <1>1, <2>1, StaysSafe DEF SyncInv
<1>4. Fresh'
    BY <1>1 DEF SyncInv, Fresh, Unseen, Seen, HandedOver, Got
<1>5. ASSUME NEW r \in Runs PROVE InStep(r)'
    BY <1>1, <1>3, RunsAssumption, OthersInStep DEF SyncInv
<1> QED
    BY <1>2, <1>3, <1>4, <1>5 DEF SyncInv

\* PullHead, by the run that begins and by the one that tries again.
LEMMA PullHeadKeeps ==
    ASSUME Apart, SyncInv, NEW r \in Runs, PullHead(r), UNCHANGED store,
           NEW l \in Loop, l.at = "pull", loop' = [loop EXCEPT ![r] = l]
    PROVE  SyncInv' /\ OnRemote \subseteq OnRemote'
<1>1. /\ call'[r] = [phase |-> "pulling", base |-> head, got |-> {head} \ {NoVersion},
                     blob |-> NoVersion]
      /\ \A s \in Runs \ {r} : call'[s] = call[s] /\ loop'[s] = loop[s]
      /\ loop'[r] = l /\ UNCHANGED <<head, copies, handed>>
    BY DEF PullHead, SyncInv, TypeInv, Idle
<1>2. TypeInv'
    BY <1>1 DEF SyncInv, TypeInv, PullHead, Call, Phases, Idle
<1>3. Doomed(r)' = {}
    BY <1>1 DEF Doomed
<1>4. OnRemote' = OnRemote => InStep(r)'
    BY <1>1 DEF InStep, Pulling, There, OnRemote, Holds
<1>5. Fresh'
    <2>1. Seen' \subseteq Seen
        BY <1>1 DEF Seen, HandedOver, Got
    <2> QED
        BY <1>1, <2>1, StaysFresh DEF SyncInv
<1> QED
    BY <1>1, <1>2, <1>3, <1>4, <1>5, OneRun

LEMMA PullNextKeeps ==
    ASSUME Apart, SyncInv, NEW r \in Runs, NEW h \in copies, PullNext(r, h)
    PROVE  SyncInv' /\ OnRemote \subseteq OnRemote'
<1>1. /\ call'[r] = [call[r] EXCEPT !.got = call[r].got \cup {h}]
      /\ \A s \in Runs \ {r} : call'[s] = call[s]
      /\ loop[r].at = "pull" /\ UNCHANGED <<head, copies, handed, loop, store>>
    BY DEF PullNext, PullCopy, Local, SyncInv, TypeInv, Call
<1>2. TypeInv'
    BY <1>1 DEF SyncInv, TypeInv, PullNext, PullCopy, Call
<1>3. Pulling(r) /\ call[r] \in Call
    BY <1>1 DEF SyncInv, InStep, TypeInv
<1>4. call'[r].phase = "pulling" /\ call'[r].got = call[r].got \cup {h}
         /\ call'[r].base = call[r].base /\ call'[r].blob = call[r].blob
    BY <1>1, <1>3 DEF Call, Pulling
<1>5. Doomed(r)' = {}
    BY <1>4 DEF Doomed
<1>6. OnRemote' = OnRemote => InStep(r)'
    BY <1>1, <1>3, <1>4 DEF SyncInv, InStep, Pulling, There, OnRemote, Holds
<1>7. Fresh'
    <2>1. Seen' \subseteq Seen
        <3>1. \A s \in Runs : call'[s].got \subseteq Seen
            BY <1>1, <1>4 DEF Seen, Got
        <3> QED
            BY <1>1, <3>1 DEF Seen, HandedOver, Got
    <2>2. call'[r].blob = NoVersion
        BY <1>3, <1>4 DEF SyncInv, InStep, Pulling
    <2> QED
        BY <1>1, <1>4, <2>1, <2>2, StaysFresh DEF SyncInv
<1> QED
    BY <1>1, <1>2, <1>5, <1>6, <1>7, OneRun

LEMMA PullDoneKeeps ==
    ASSUME Apart, SyncInv, NEW r \in Runs, PullDone(r)
    PROVE  SyncInv' /\ OnRemote \subseteq OnRemote'
<1>1. /\ loop[r].at = "pull" /\ UNCHANGED <<head, copies, store>>
      /\ call' = [call EXCEPT ![r].phase = "pulled"]
      /\ handed' = [handed EXCEPT ![DirOf[r]] = call[r].got]
      /\ loop' = [loop EXCEPT ![r].at = "merge", ![r].todo = call[r].got,
                              ![r].pulled = call[r].got]
    BY DEF PullDone, PullEnd
<1>2. Pulling(r) /\ call[r] \in Call /\ loop[r] \in Loop /\ DirOf[r] \in Dirs
    BY <1>1, RunsAssumption DEF SyncInv, InStep, TypeInv
<1>3. /\ call'[r].phase = "pulled" /\ call'[r].got = call[r].got /\ call'[r].base = call[r].base
      /\ call'[r].blob = call[r].blob /\ handed'[DirOf[r]] = call[r].got
      /\ loop'[r].at = "merge" /\ loop'[r].todo = call[r].got /\ loop'[r].pulled = call[r].got
      /\ \A s \in Runs \ {r} : call'[s] = call[s] /\ loop'[s] = loop[s]
      /\ \A d \in Dirs \ {DirOf[r]} : handed'[d] = handed[d]
    BY <1>1, <1>2 DEF SyncInv, TypeInv, Call, Loop
<1>4. TypeInv'
    BY <1>1, <1>2 DEF SyncInv, TypeInv, Call, Loop, Phases
<1>5. Doomed(r)' = {}
    BY <1>3 DEF Doomed
<1>6. OnRemote' = OnRemote => InStep(r)'
    BY <1>1, <1>2, <1>3 DEF SyncInv, InStep, Pulling, Merging, There, Holds
<1>7. Fresh'
    <2>1. Seen' \subseteq Seen
        <3>1. ASSUME NEW d \in Dirs PROVE handed'[d] \subseteq Seen
            <4>1. CASE d = DirOf[r]
                BY <1>3, <4>1 DEF Seen, HandedOver, Got
            <4>2. CASE d # DirOf[r]
                BY <1>3, <4>2 DEF Seen, HandedOver, Got
            <4> QED
                BY <4>1, <4>2
        <3>2. \A s \in Runs : call'[s].got = call[s].got
            BY <1>3
        <3> QED
            BY <1>1, <3>1, <3>2 DEF Seen, HandedOver, Got
    <2>2. call'[r].blob = NoVersion
        BY <1>2, <1>3 DEF SyncInv, InStep, Pulling
    <2> QED
        BY <1>3, <2>1, <2>2, StaysFresh DEF SyncInv
<1> QED
    BY <1>1, <1>3, <1>4, <1>5, <1>6, <1>7, OneRun

\* Only a run's own merges put what it pulled into its store.
LEMMA MergeKeeps ==
    ASSUME Apart, SyncInv, NEW r \in Runs, NEW v \in loop[r].todo, Merge(r, v)
    PROVE  SyncInv' /\ OnRemote \subseteq OnRemote'
<1>1. /\ loop[r].at = "merge" /\ UNCHANGED <<head, copies, handed, call>>
      /\ store' = [store EXCEPT ![DirOf[r]] = store[DirOf[r]] \cup Holds(v)]
      /\ loop' = [loop EXCEPT ![r].todo = loop[r].todo \ {v}]
    BY DEF Merge, cvars
<1>2. /\ Merging(r) /\ loop[r] \in Loop /\ DirOf[r] \in Dirs
      /\ v \in Versions /\ Holds(v) \subseteq Changes
    <2>1. Merging(r) /\ loop[r] \in Loop /\ DirOf[r] \in Dirs
        BY <1>1, RunsAssumption DEF SyncInv, InStep, TypeInv
    <2>2. v \in Versions
        BY <2>1 DEF Loop
    <2> QED
        BY <2>1, <2>2, SnapshotsAssumption DEF Holds
<1>3. /\ store'[DirOf[r]] = store[DirOf[r]] \cup Holds(v)
      /\ loop'[r].at = "merge" /\ loop'[r].todo = loop[r].todo \ {v}
      /\ loop'[r].pulled = loop[r].pulled
      /\ \A s \in Runs \ {r} : loop'[s] = loop[s]
      /\ \A d \in Dirs : store[d] \subseteq store'[d]
    BY <1>1, <1>2 DEF SyncInv, TypeInv, Loop
<1>4. TypeInv'
    BY <1>1, <1>2 DEF SyncInv, TypeInv, Loop
<1>5. Doomed(r)' = {}
    BY <1>1, <1>2 DEF Doomed, Merging
<1>6. OnRemote' = OnRemote => InStep(r)'
    <2>1. OnRemote' = OnRemote => Merging(r)'
        BY <1>1, <1>2, <1>3 DEF Merging, There, Holds
    <2> QED
        BY <1>1, <1>3, <2>1 DEF SyncInv, InStep
<1>7. Fresh'
    BY <1>1 DEF SyncInv, Fresh, Unseen, Seen, HandedOver, Got
<1> QED
    BY <1>1, <1>3, <1>4, <1>5, <1>6, <1>7, OneRun

\* The run is over, or waits to try again: its call is no more.
LEMMA ReturnKeeps ==
    ASSUME Apart, SyncInv, NEW r \in Runs, call' = [call EXCEPT ![r] = Idle],
           UNCHANGED <<head, copies, handed, store>>,
           NEW l \in Loop, l.at \in {"off", "retry"}, loop' = [loop EXCEPT ![r] = l]
    PROVE  SyncInv' /\ OnRemote \subseteq OnRemote'
<1>1. /\ call'[r] = Idle /\ loop'[r] = l
      /\ \A s \in Runs \ {r} : call'[s] = call[s] /\ loop'[s] = loop[s]
    BY DEF SyncInv, TypeInv
<1>2. TypeInv'
    BY DEF SyncInv, TypeInv, Call, Phases, Idle
<1>3. Doomed(r)' = {}
    BY <1>1 DEF Doomed, Idle
<1>4. InStep(r)'
    BY <1>1 DEF InStep, Idle
<1>5. Fresh'
    <2>1. Seen' \subseteq Seen
        BY <1>1 DEF Seen, HandedOver, Got, Idle
    <2> QED
        BY <1>1, <2>1, StaysFresh DEF SyncInv, Idle
<1> QED
    BY <1>1, <1>2, <1>3, <1>4, <1>5, OneRun

\* A snapshot is sealed under an id that nothing names.
LEMMA SealedIsNew ==
    ASSUME NEW export \in SUBSET Changes, Ids \ Named # {}
    PROVE  /\ Sealed(export) \in Versions /\ Holds(Sealed(export)) = export
           /\ Sealed(export) \notin {head} \cup copies \cup HandedOver \cup InRuns
<1> DEFINE i == CHOOSE i \in Ids \ Named : TRUE
<1>1. i \in Ids /\ i \notin Named
    OBVIOUS
<1>2. Sealed(export) = [id |-> i, holds |-> export]
    BY DEF Sealed
<1> HIDE DEF i
<1>3. Sealed(export) \in Versions
    BY <1>1, <1>2, SnapshotsAssumption
<1>4. Sealed(export) # NoVersion
    BY <1>3, RunsAssumption
<1>5. ASSUME Sealed(export) \in {head} \cup copies \cup HandedOver \cup InRuns PROVE FALSE
    <2>1. Sealed(export).id \in Named
        BY <1>4, <1>5 DEF Named, Snapshots
    <2> QED
        BY <1>1, <1>2, <2>1
<1> QED
    BY <1>2, <1>3, <1>4, <1>5 DEF Holds

LEMMA PushKeeps ==
    ASSUME Apart, SyncInv, NEW r \in Runs, Push(r)
    PROVE  SyncInv' /\ OnRemote \subseteq OnRemote'
<1>0. PICK p : p = Sealed(store[DirOf[r]])
    OBVIOUS
<1>1. /\ loop[r].at = "merge" /\ loop[r].todo = {} /\ Ids \ Named # {} /\ call[r].phase = "pulled"
      /\ call' = [call EXCEPT ![r] =
            [Idle EXCEPT !.phase = "pushing", !.base = call[r].base, !.blob = p]]
      /\ loop' = [loop EXCEPT ![r].at = "push", ![r].pulled = {p}]
      /\ UNCHANGED <<head, copies, handed, store>>
    BY <1>0 DEF Push, Ask, MergedAll, Local
<1>2. Merging(r) /\ call[r] \in Call /\ loop[r] \in Loop /\ DirOf[r] \in Dirs
         /\ store[DirOf[r]] \in SUBSET Changes
    BY <1>1, RunsAssumption DEF SyncInv, InStep, TypeInv
<1>3. /\ p \in Versions /\ Holds(p) = store[DirOf[r]]
      /\ p \notin {head} \cup copies \cup HandedOver \cup InRuns
    BY <1>0, <1>1, <1>2, SealedIsNew
<1>4. /\ call'[r].phase = "pushing" /\ call'[r].base = call[r].base
      /\ call'[r].got = {} /\ call'[r].blob = p
      /\ loop'[r].at = "push" /\ loop'[r].pulled = {p}
      /\ \A s \in Runs \ {r} : call'[s] = call[s] /\ loop'[s] = loop[s]
    BY <1>1, <1>2 DEF SyncInv, TypeInv, Idle, Loop
<1>5. TypeInv'
    <2>1. call'[r] \in Call
        BY <1>1, <1>2, <1>3 DEF SyncInv, TypeInv, Call, Phases, Idle
    <2>2. loop'[r] \in Loop
        BY <1>1, <1>2, <1>3 DEF SyncInv, TypeInv, Loop
    <2>3. call' \in [Runs -> Call] /\ loop' \in [Runs -> Loop]
        BY <1>1, <2>1, <2>2 DEF SyncInv, TypeInv
    <2> QED
        BY <1>1, <2>3 DEF SyncInv, TypeInv
<1>6. Doomed(r)' = {}
    BY <1>4 DEF Doomed
<1>7. Covers(p, handed[DirOf[r]] \cup {call[r].base})
    BY <1>1, <1>2, <1>3 DEF Merging, Covers, Holds
<1>8. InStep(r)'
    <2>1. Pushing(r, p)'
        BY <1>1, <1>4, <1>7 DEF Pushing, Covers, Holds
    <2> QED
        BY <1>3, <1>4, <2>1 DEF InStep
<1>9. Fresh'
    <2>1. p \notin Seen'
        BY <1>1, <1>3, <1>4 DEF Seen, HandedOver, Got, InRuns, Held
    <2>2. \A s \in Runs \ {r} : p # call[s].blob
        BY <1>3 DEF InRuns, Held
    <2>3. Unseen(r)'
        BY <1>4, <2>1, <2>2 DEF Unseen
    <2>4. ASSUME NEW s \in Runs \ {r}, call'[s].phase = "pushing" PROVE Unseen(s)'
        <3>1. call'[s] = call[s] /\ Unseen(s)
            BY <1>4, <2>4 DEF SyncInv, Fresh
        <3>2. Seen' \subseteq Seen
            BY <1>1, <1>4 DEF Seen, HandedOver, Got
        <3> QED
            BY <1>4, <2>2, <3>1, <3>2 DEF Unseen
    <2> QED
        BY <2>3, <2>4 DEF Fresh
<1> QED
    BY <1>1, <1>4, <1>5, <1>6, <1>8, <1>9, OneRun

\* What a push answers with, but for its landing.
LEMMA AnswerKeeps ==
    ASSUME Apart, SyncInv, NEW r \in Runs, loop[r].at = "push", NEW phase,
           phase \in {"dropping", "pushed", "conflict"},
           phase = "dropping" => call[r].phase = "landed" /\ handed[DirOf[r]] = call'[r].got,
           phase = "pushed" => call[r].phase = "dropping",
           call'[r] \in Call, call'[r].phase = phase, call'[r].blob = NoVersion,
           call'[r].got \in {{}, handed[DirOf[r]]},
           call' = [call EXCEPT ![r] = call'[r]],
           handed' \in {handed, [handed EXCEPT ![DirOf[r]] = {}]},
           UNCHANGED <<head, copies, store, loop>>
    PROVE  SyncInv' /\ OnRemote \subseteq OnRemote'
<1>1. PICK p \in Versions : Pushing(r, p)
    BY DEF SyncInv, InStep
<1>2. DirOf[r] \in Dirs
    BY RunsAssumption
<1>3. /\ \A s \in Runs \ {r} : call'[s] = call[s]
      /\ \A d \in Dirs : handed'[d] \subseteq handed[d]
      /\ \A d \in Dirs \ {DirOf[r]} : handed'[d] = handed[d]
    BY DEF SyncInv, TypeInv
<1>4. TypeInv'
    BY <1>2 DEF SyncInv, TypeInv
<1>5. Doomed(r)' \subseteq Doomed(r)
    BY DEF Doomed
<1>6. OnRemote' = OnRemote => InStep(r)'
    <2>1. OnRemote' = OnRemote => Pushing(r, p)'
        BY <1>1, <1>5 DEF Pushing, Covers, There, Holds
    <2> QED
        BY <2>1 DEF InStep
<1>7. Fresh'
    <2>1. Seen' \subseteq Seen
        <3>1. \A s \in Runs : call'[s].got \subseteq Seen
            BY <1>2, <1>3 DEF Seen, HandedOver, Got
        <3> QED
            BY <1>3, <3>1 DEF Seen, HandedOver, Got
    <2> QED
        BY <1>3, <2>1, StaysFresh DEF SyncInv
<1> QED
    BY <1>3, <1>4, <1>5, <1>6, <1>7, OneRun

\* A copy a push takes away is one it spares nobody's changes by.
LEMMA DropKeeps ==
    ASSUME Apart, SyncInv, NEW r \in Runs, NEW h \in copies, Drop(r, h), UNCHANGED <<store, loop>>
    PROVE  SyncInv' /\ OnRemote \subseteq OnRemote'
<1>1. /\ h \in Doomed(r) /\ copies' = copies \ {h}
      /\ UNCHANGED <<head, handed, call, store, loop>>
    BY DEF Drop, Doomed
<1>2. \A s \in Runs : Doomed(s)' = Doomed(s)
    BY <1>1 DEF Doomed
<1>3. Spared \subseteq Spared'
    BY <1>1, <1>2 DEF Spared
<1>4. OnSpared \subseteq OnSpared'
    BY <1>3 DEF OnSpared, Holds
<1>5. OnRemote' \subseteq OnRemote
    BY <1>1 DEF OnRemote, Holds
<1>6. OnSpared' \subseteq OnRemote'
    BY DEF OnSpared, Spared, OnRemote, Holds
<1>7. Safe' /\ OnRemote \subseteq OnRemote'
    BY <1>4, <1>5, <1>6 DEF SyncInv, Safe
<1>8. TypeInv'
    BY <1>1 DEF SyncInv, TypeInv
<1>9. Fresh'
    BY <1>1 DEF SyncInv, Fresh, Unseen, Seen, HandedOver, Got
<1>10. \A s \in Runs : InStep(s)'
    BY <1>1, <1>7, OthersInStep DEF SyncInv
<1> QED
    BY <1>7, <1>8, <1>9, <1>10 DEF SyncInv

-----------------------------------------------------------------------------
(* Every step *)

LEMMA AnswerType ==
    \A c : \A phase \in {"conflict", "pushed"} : c = [Idle EXCEPT !.phase = phase] =>
        c \in Call /\ c.phase = phase /\ c.blob = NoVersion /\ c.got = {}
    BY DEF Call, Phases, Idle

\* The answer to a push that landed, whatever it could not clear away.
LEMMA ConsumeKeeps ==
    ASSUME Apart, SyncInv, NEW r \in Runs, loop[r].at = "push", Consume(r),
           UNCHANGED <<store, loop>>
    PROVE  SyncInv' /\ OnRemote \subseteq OnRemote'
<1>1. /\ call[r].phase = "dropping" /\ UNCHANGED <<head, copies>>
      /\ handed' \in {handed, [handed EXCEPT ![DirOf[r]] = {}]}
      /\ call' = [call EXCEPT ![r] = [Idle EXCEPT !.phase = "pushed"]]
    BY DEF Consume
<1>2. call'[r] = [Idle EXCEPT !.phase = "pushed"]
    BY <1>1 DEF SyncInv, TypeInv
<1>3. call'[r] \in Call /\ call'[r].phase = "pushed" /\ call'[r].blob = NoVersion
         /\ call'[r].got = {}
    BY <1>2, AnswerType
<1>4. call' = [call EXCEPT ![r] = call'[r]]
    BY <1>1, <1>2
<1> QED
    BY <1>1, <1>3, <1>4, AnswerKeeps

LEMMA RemoteKeeps ==
    ASSUME Apart, SyncInv, NEW r \in Runs, Remote(r)
    PROVE  SyncInv' /\ OnRemote \subseteq OnRemote'
<1>1. loop[r].at = "push" /\ UNCHANGED <<loop, store>> /\ call[r] \in Call /\ DirOf[r] \in Dirs
         /\ handed[DirOf[r]] \in SUBSET Versions
    BY RunsAssumption DEF Remote, Local, SyncInv, TypeInv
<1>2. PICK p \in Versions : Pushing(r, p)
    BY <1>1 DEF SyncInv, InStep
<1>3. CASE Land(r)
    <2>1. /\ call[r].phase = "pushing" /\ head = call[r].base /\ head' = call[r].blob
          /\ call' = [call EXCEPT ![r] = [Idle EXCEPT !.phase = "landed"]]
          /\ UNCHANGED <<copies, handed>>
        BY <1>3 DEF Land, MayLand
    <2>2. TypeInv'
        BY <1>1, <2>1 DEF SyncInv, TypeInv, Call, Phases, Idle
    <2> QED
        BY <1>1, <2>1, <2>2, OneLands
<1>4. CASE Conflict(r)
    <2>1. /\ call' = [call EXCEPT ![r] = [Idle EXCEPT !.phase = "conflict"]]
          /\ UNCHANGED <<head, copies, handed>>
        BY <1>4 DEF Conflict
    <2>2. call'[r] = [Idle EXCEPT !.phase = "conflict"]
        BY <2>1 DEF SyncInv, TypeInv
    <2>3. call'[r] \in Call /\ call'[r].phase = "conflict" /\ call'[r].blob = NoVersion
             /\ call'[r].got = {}
        BY <2>2, AnswerType
    <2>4. call' = [call EXCEPT ![r] = call'[r]]
        BY <2>1, <2>2
    <2> QED
        BY <1>1, <2>1, <2>3, <2>4, AnswerKeeps
<1>5. CASE Merged(r)
    <2>1. /\ call[r].phase = "landed" /\ UNCHANGED <<head, copies, handed>>
          /\ call' = [call EXCEPT ![r].phase = "dropping", ![r].got = handed[DirOf[r]]]
        BY <1>5 DEF Merged
    <2>2. call[r].blob = NoVersion
        BY <2>1 DEF SyncInv, InStep
    <2>3. call'[r] \in Call /\ call'[r].phase = "dropping" /\ call'[r].blob = NoVersion
             /\ call'[r].got = handed[DirOf[r]] /\ call' = [call EXCEPT ![r] = call'[r]]
        BY <1>1, <2>1, <2>2 DEF SyncInv, TypeInv, Call, Phases
    <2> QED
        BY <1>1, <2>1, <2>3, AnswerKeeps
<1>6. CASE \E h \in copies : Drop(r, h)
    BY <1>1, <1>6, DropKeeps
<1>7. CASE Consume(r)
    BY <1>1, <1>7, ConsumeKeeps
<1> QED
    BY <1>3, <1>4, <1>5, <1>6, <1>7 DEF Remote

LEMMA FaultKeeps ==
    ASSUME Apart, SyncInv, NEW r \in Runs,
           Stopped(r) \/ AnswerLost(r) \/ Untidy(r) \/ PushApart(r)
    PROVE  SyncInv' /\ OnRemote \subseteq OnRemote'
<1>1. CASE Stopped(r)
    <2>1. Off \in Loop /\ Off.at = "off"
        BY DEF Off, Loop
    <2> QED
        BY <1>1, <2>1, ReturnKeeps DEF Stopped
<1>2. CASE AnswerLost(r)
    <2>1. /\ loop[r].at = "push" /\ UNCHANGED <<head, copies, handed, store, loop>>
          /\ call' = [call EXCEPT ![r] = [Idle EXCEPT !.phase = "conflict"]]
        BY <1>2 DEF AnswerLost, Unsure
    <2>2. call'[r] = [Idle EXCEPT !.phase = "conflict"]
        BY <2>1 DEF SyncInv, TypeInv
    <2>3. call'[r] \in Call /\ call'[r].phase = "conflict" /\ call'[r].blob = NoVersion
             /\ call'[r].got = {}
        BY <2>2, AnswerType
    <2>4. call' = [call EXCEPT ![r] = call'[r]]
        BY <2>1, <2>2
    <2> QED
        BY <2>1, <2>3, <2>4, AnswerKeeps
<1>3. CASE PushApart(r)
    <2>1. /\ loop[r].at = "push" /\ call[r].phase = "pushing" /\ head # NoVersion
          /\ call' = [call EXCEPT ![r] = [Idle EXCEPT !.phase = "landed"]]
          /\ UNCHANGED <<handed, store, loop>>
          /\ \/ copies' = copies \cup {call[r].blob} /\ UNCHANGED head
             \/ copies' = copies \cup {head} /\ head' = call[r].blob
        BY <1>3 DEF PushApart
    <2>2. PICK p \in Versions : p = call[r].blob
        BY <2>1 DEF SyncInv, InStep, Pushing
    <2>3. TypeInv'
        BY <2>1, <2>2 DEF SyncInv, TypeInv, Call, Phases, Idle
    <2>4. p \in {head'} \cup copies' /\ {head'} \cup copies' = {head} \cup copies \cup {p}
        BY <2>1, <2>2
    <2> QED
        BY <2>1, <2>2, <2>3, <2>4, OneLands
<1>4. CASE Untidy(r)
    BY <1>4, ConsumeKeeps DEF Untidy
<1> QED
    BY <1>1, <1>2, <1>3, <1>4

LEMMA RunStepKeeps ==
    ASSUME Apart, SyncInv, NEW r \in Runs, RunStep(r)
    PROVE  SyncInv' /\ OnRemote \subseteq OnRemote'
<1>1. loop[r] \in Loop /\ Off \in Loop /\ Off.at = "off"
    BY DEF SyncInv, TypeInv, Off, Loop
<1>2. CASE Begin(r)
    <2> DEFINE l == [Off EXCEPT !.at = "pull", !.attempt = 1]
    <2>1. l \in Loop /\ l.at = "pull"
        BY DEF Off, Loop
    <2>2. PullHead(r) /\ UNCHANGED store /\ loop' = [loop EXCEPT ![r] = l]
        BY <1>2 DEF Begin, Local
    <2> QED
        BY <2>1, <2>2, PullHeadKeeps
<1>3. CASE Retry(r)
    <2>1. PICK l : l = [loop[r] EXCEPT !.at = "pull"]
        OBVIOUS
    <2>2. l \in Loop /\ l.at = "pull"
        BY <1>1, <2>1 DEF Loop
    <2>3. PullHead(r) /\ UNCHANGED store /\ loop' = [loop EXCEPT ![r] = l]
        BY <1>3, <2>1 DEF Retry, Local
    <2> QED
        BY <2>2, <2>3, PullHeadKeeps
<1>4. CASE \E h \in copies : PullNext(r, h)
    BY <1>4, PullNextKeeps
<1>5. CASE PullDone(r)
    BY <1>5, PullDoneKeeps
<1>6. CASE \E v \in loop[r].todo : Merge(r, v)
    BY <1>6, MergeKeeps
<1>7. CASE Push(r)
    BY <1>7, PushKeeps
<1>8. CASE Skip(r) \/ Pushed(r)
    BY <1>1, <1>8, ReturnKeeps DEF Skip, Pushed, Return, Succeed
<1>9. CASE Again(r)
    <2>1. PICK l : l = IF loop[r].attempt < MAX_ATTEMPTS
            THEN [Off EXCEPT !.at = "retry", !.attempt = loop[r].attempt + 1] ELSE Off
        OBVIOUS
    <2>2. l \in Loop /\ l.at \in {"off", "retry"}
        <3>1. loop[r].attempt + 1 \in Nat
            BY <1>1 DEF Loop
        <3>2. CASE l = Off
            BY <1>1, <3>2
        <3>3. CASE l = [Off EXCEPT !.at = "retry", !.attempt = loop[r].attempt + 1]
            BY <3>1, <3>3 DEF Off, Loop
        <3> QED
            BY <2>1, <3>2, <3>3
    <2>3. /\ call' = [call EXCEPT ![r] = Idle] /\ loop' = [loop EXCEPT ![r] = l]
          /\ UNCHANGED <<head, copies, handed, store>>
        BY <1>9, <2>1 DEF Again, Return, Local
    <2> QED
        BY <2>2, <2>3, ReturnKeeps
<1>10. CASE Remote(r)
    BY <1>10, RemoteKeeps
<1> QED
    BY <1>2, <1>3, <1>4, <1>5, <1>6, <1>7, <1>8, <1>9, <1>10 DEF RunStep

LEMMA StepKeeps ==
    ASSUME Apart, SyncInv, [SNext]_svars
    PROVE  SyncInv' /\ OnRemote \subseteq OnRemote'
<1>1. CASE \E s \in Dirs, x \in Changes : Edit(s, x)
    BY <1>1, EditKeeps
<1>2. CASE \E r \in Runs : RunStep(r)
    BY <1>2, RunStepKeeps
<1>3. CASE \E r \in Runs : Stopped(r) \/ AnswerLost(r) \/ Untidy(r) \/ PushApart(r)
    BY <1>3, FaultKeeps
<1>4. CASE UNCHANGED svars
    <2>1. UNCHANGED <<head, copies, handed, call, store, loop>>
        BY <1>4 DEF svars, cvars
    <2>2. \A r \in Runs : Doomed(r)' = Doomed(r)
        BY <2>1 DEF Doomed
    <2>3. Safe' /\ OnRemote' = OnRemote
        BY <2>1, <2>2, StaysSafe DEF SyncInv
    <2>4. TypeInv' /\ Fresh'
        BY <2>1 DEF SyncInv, TypeInv, Fresh, Unseen, Seen, HandedOver, Got
    <2>5. \A r \in Runs : InStep(r)'
        BY <2>1, <2>3, OthersInStep DEF SyncInv
    <2> QED
        BY <2>3, <2>4, <2>5 DEF SyncInv
<1> QED
    BY <1>1, <1>2, <1>3, <1>4 DEF SNext

LEMMA StartsInStep ==
    ASSUME SInit
    PROVE  SyncInv
<1>1. /\ head = NoVersion /\ copies = {} /\ handed = [d \in Dirs |-> {}]
      /\ call = [r \in Runs |-> Idle] /\ store = [d \in Dirs |-> {}]
      /\ loop = [r \in Runs |-> Off]
    BY DEF SInit, Init
<1>2. TypeInv
    BY <1>1 DEF TypeInv, Call, Loop, Phases, Idle, Off
<1>3. \A r \in Runs : InStep(r)
    BY <1>1 DEF InStep, Idle, Off
<1>4. Fresh
    BY <1>1 DEF Fresh, Idle
<1>5. Safe
    BY <1>1 DEF Safe, OnRemote, Holds
<1> QED
    BY <1>2, <1>3, <1>4, <1>5 DEF SyncInv

\* The remote, the directories' records, the stores and the loops keep their
\* types, a run's connector call is where its loop is, what is pushed is new,
\* and it holds all that it replaces (sync.rs, run_loop).
THEOREM SyncInvCorrect ==
    ASSUME Apart
    PROVE  SSpec => []SyncInv
<1>1. SInit => SyncInv
    BY StartsInStep
<1>2. SyncInv /\ [SNext]_svars => SyncInv'
    BY StepKeeps
<1> QED
    BY <1>1, <1>2, PTL DEF SSpec

\* What successful syncs promised is on the remote, and a promise is made only
\* of what is there.
LEMMA PromiseKept ==
    ASSUME Apart, SyncInv, Delivered, [SNext]_svars
    PROVE  Delivered'
<1>1. OnRemote \subseteq OnRemote' /\ promised \subseteq OnRemote
    BY StepKeeps DEF Delivered
<1>2. CASE \E r \in Runs : Skip(r)
    <2>1. PICK r \in Runs : Skip(r)
        BY <1>2
    <2>2. PICK v \in loop[r].pulled : Holds(v) = store[DirOf[r]]
        BY <2>1 DEF Skip, RemoteHolds
    <2>3. Merging(r)
        BY <2>1 DEF Skip, SyncInv, InStep
    <2>4. Holds(v) \subseteq OnRemote
        BY <2>2, <2>3 DEF Merging, There
    <2> QED
        BY <1>1, <2>1, <2>2, <2>4 DEF Skip, Succeed, Delivered
<1>3. CASE \E r \in Runs : Pushed(r)
    <2>1. PICK r \in Runs : Pushed(r)
        BY <1>3
    <2>2. PICK p \in Versions : Pushing(r, p)
        BY <2>1 DEF Pushed, SyncInv, InStep
    <2>3. loop[r].pulled = {p} /\ Holds(p) \subseteq OnRemote
        BY <2>1, <2>2 DEF Pushed, Pushing, There
    <2> QED
        BY <1>1, <2>1, <2>3 DEF Pushed, Succeed, Delivered
<1>4. CASE promised' = promised
    BY <1>1, <1>4 DEF Delivered
<1>5. promised' = promised \/ \E r \in Runs : Skip(r) \/ Pushed(r)
    BY DEF SNext, Edit, RunStep, Stopped, AnswerLost, Untidy, PushApart, Begin, PullNext, PullDone,
           Merge, Push, Again, Retry, Remote, Local, svars
<1> QED
    BY <1>2, <1>3, <1>4, <1>5

\* Nothing a successful sync pushed, or found pushed, leaves the remote again,
\* for any number of machines that push, take copies away and fail at any step
\* (sync.rs 25-42).
THEOREM DeliveredCorrect ==
    ASSUME Apart
    PROVE  SSpec => []Delivered
<1>1. SInit => Delivered
    BY DEF SInit, Delivered
<1>2. SyncInv /\ Delivered /\ [SNext]_svars => Delivered'
    BY PromiseKept
<1> QED
    BY <1>1, <1>2, SyncInvCorrect, PTL DEF SSpec

\* A copy goes by the push of a run that was handed it, merged it, and landed
\* a snapshot of what it then held (remote-dir main.rs 38-40).
LEMMA CopyIsMerged ==
    ASSUME SyncInv, [SNext]_svars, NEW v \in copies \ copies'
    PROVE  \E r \in Runs : /\ call[r].phase = "dropping" /\ v \in call[r].got
                           /\ \E pushed \in loop[r].pulled : Holds(v) \subseteq Holds(pushed)
<1>1. PICK r \in Runs, h \in copies : loop[r].at = "push" /\ Drop(r, h) /\ v = h
    BY DEF SNext, Edit, RunStep, Stopped, AnswerLost, Untidy, PushApart, Begin, PullNext, PullDone,
           Merge, Push, Skip, Pushed, Again, Retry, Remote, Local, svars, cvars, PullHead, PullCopy,
           PullEnd, Return, Ask, Unsure, Land, Conflict, Merged, Consume, Drop
<1>2. PICK p \in Versions : Pushing(r, p)
    BY <1>1 DEF SyncInv, InStep
<1>3. call[r].phase = "dropping" /\ v \in call[r].got /\ v \in Doomed(r)
    BY <1>1 DEF Drop, Doomed
<1>4. p \in loop[r].pulled /\ Holds(v) \subseteq Holds(p)
    BY <1>2, <1>3 DEF Pushing, Covers
<1> QED
    BY <1>3, <1>4

\* A conflict copy is taken away only by a push whose snapshot holds all that
\* the copy holds.
THEOREM CopiesAreMergedCorrect ==
    ASSUME Apart
    PROVE  SSpec => CopiesAreMerged
<1>1. SyncInv /\ [SNext]_svars =>
        [\A v \in copies \ copies' : \E r \in Runs :
          /\ call[r].phase = "dropping" /\ v \in call[r].got
          /\ \E pushed \in loop[r].pulled : Holds(v) \subseteq Holds(pushed)]_svars
    BY CopyIsMerged
<1> QED
    BY <1>1, SyncInvCorrect, PTL DEF SSpec, CopiesAreMerged

=============================================================================
