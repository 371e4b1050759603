------------------------------- MODULE Daemon -------------------------------
(***************************************************************************)
(* The daemon's connections and its event stream (core/daemon.rs): the     *)
(* accept loop, a reader and a writer thread per client, the poller, and   *)
(* the hub that hands every event of the store to every subscriber.        *)
(*                                                                         *)
(* A client calls or subscribes, one request at a time, and may stop       *)
(* reading or leave. Calls that write nothing take the way of those that   *)
(* do. A write to a client ends when the client takes the frame; when it   *)
(* does not read, the send timeout fails it. Reminders are in Reminders.   *)
(***************************************************************************)
EXTENDS Integers, Sequences, FiniteSets

CONSTANTS
    Clients,
    Poller,         \* the poller thread
    Watchers,       \* bound: the clients that may subscribe
    Callers,        \* bound: the clients that may call
    Quitters,       \* bound: the clients that may stop reading, or leave
    Limit,          \* MAX_CONCURRENT_CLIENTS
    Cap,            \* OUT_QUEUE_CAP
    MaxEvents,      \* bound: events of the log
    MaxRequests     \* bound: requests of a client

ASSUME DaemonAssumption ==
    /\ IsFiniteSet(Clients) /\ Poller \notin Clients
    /\ Watchers \subseteq Clients /\ Callers \subseteq Clients /\ Quitters \subseteq Clients
    /\ Limit \in Nat \ {0} /\ Cap \in Nat \ {0} /\ MaxEvents \in Nat /\ MaxRequests \in Nat

VARIABLES
    log,        \* the last rowid of the store's events
    watermark,  \* the last rowid broadcast
    pumping,    \* the threads inside the pump, one that holds the watermark's lock
    last,       \* per thread, the last rowid its pump has broadcast
    upto,       \* per thread, the last rowid its pump has read
    subs,       \* the hub's subscribers
    dropped,    \* per client, the hub's count of events it could not queue
    others,     \* how many slots are held by clients that only stay
    reader,     \* per client, where its connection's reader stands
    out,        \* per client, the queue of frames to send
    sending,    \* per client, the frame its writer is writing
    failed,     \* per client, whether a write has failed and the writer is gone
    stopping,   \* the shutdown flag
    daemon,     \* where the accept loop stands
    client,     \* per client, what it does with the connection
    wire,       \* per client, the request sent and not read
    asked,      \* per client, how many requests it has sent
    applied,    \* per client, whether its latest request was committed
    told,       \* per client, what it knows of its latest request
    seen        \* per client, the last event it has been told of, or lost by a gap

hubVars == <<subs, dropped>>
pumpVars == <<others, watermark, pumping, last, upto>>
clientVars == <<client, wire, asked, told, seen>>
vars == <<log, pumpVars, hubVars, reader, out, sending, failed, stopping, daemon, clientVars, applied>>

\* A frame says how many events it accounts for, and after which event it
\* leaves a subscriber.
Frame == [kind : {"answer", "refusal", "event", "gap"}, count : Nat, at : Nat]
Idle == [kind |-> "none", count |-> 0, at |-> 0]
Threads == Clients \cup {Poller}

\* handle_conn: read a frame, queue its answer, and pump after a commit.
Live == {"reading", "acking", "answering", "refusing", "pump", "closing"}
Admitted == {c \in Clients : reader[c] \in Live}

Init ==
    /\ log = 0 /\ watermark = 0 /\ pumping = {}
    /\ last = [t \in Threads |-> 0] /\ upto = [t \in Threads |-> 0]
    /\ others \in 0 .. Limit - 1
    /\ subs = {} /\ dropped = [c \in Clients |-> 0]
    /\ reader = [c \in Clients |-> "away"]
    /\ out = [c \in Clients |-> <<>>] /\ sending = [c \in Clients |-> Idle]
    /\ failed = [c \in Clients |-> FALSE]
    /\ stopping = FALSE /\ daemon = "serving"
    /\ client = [c \in Clients |-> "reading"] /\ wire = [c \in Clients |-> "none"]
    /\ asked = [c \in Clients |-> 0] /\ applied = [c \in Clients |-> FALSE]
    /\ told = [c \in Clients |-> "nothing"] /\ seen = [c \in Clients |-> 0]

-----------------------------------------------------------------------------
(* Clients *)

Connect(c) ==
    /\ reader[c] = "away" /\ daemon = "serving"
    /\ reader' = [reader EXCEPT ![c] = "backlog"]
    /\ UNCHANGED <<log, pumpVars, hubVars, out, sending, failed, stopping, daemon, clientVars, applied>>

Ask(c, what) ==
    /\ client[c] = "reading" /\ reader[c] \notin {"away", "done"} /\ daemon # "gone"
    /\ wire[c] = "none" /\ told[c] # "waiting" /\ asked[c] < MaxRequests
    /\ IF what = "subscribe" THEN c \in Watchers \ subs ELSE c \in Callers
    /\ wire' = [wire EXCEPT ![c] = what]
    /\ asked' = [asked EXCEPT ![c] = @ + 1]
    /\ applied' = [applied EXCEPT ![c] = FALSE]
    /\ told' = [told EXCEPT ![c] = "waiting"]
    /\ UNCHANGED <<log, pumpVars, hubVars, reader, out, sending, failed, stopping, daemon, client, seen>>

\* Stalls, and is never heard of again, or closes the connection.
GiveUp(c, how) ==
    /\ c \in Quitters /\ client[c] = "reading" /\ reader[c] # "away"
    /\ client' = [client EXCEPT ![c] = how]
    /\ UNCHANGED <<log, pumpVars, hubVars, reader, out, sending, failed, stopping, daemon,
                   wire, asked, told, seen, applied>>

\* The client takes the frame being written. A refusal names no request: it is
\* about the one that waits.
Take(c) ==
    /\ sending[c] # Idle /\ client[c] = "reading" /\ daemon # "gone"
    /\ sending' = [sending EXCEPT ![c] = Idle]
    /\ seen' = [seen EXCEPT ![c] = sending[c].at]
    /\ told' = [told EXCEPT ![c] =
            IF @ = "waiting" /\ sending[c].kind \in {"answer", "refusal"} THEN sending[c].kind ELSE @]
    /\ UNCHANGED <<log, pumpVars, hubVars, reader, out, failed, stopping, daemon, client, wire,
                   asked, applied>>

\* Another process writes to the store.
WriteOutside ==
    /\ log < MaxEvents
    /\ log' = log + 1
    /\ UNCHANGED <<pumpVars, hubVars, reader, out, sending, failed, stopping, daemon, clientVars, applied>>

-----------------------------------------------------------------------------
(* The hub *)

Room(c) == Len(out[c]) < Cap
\* Where the frames queued for a subscriber leave it; nobody else is led anywhere.
Reached(c) == IF c \in subs THEN watermark - dropped[c] ELSE 0

\* What broadcast queues for a subscriber: the event, and first the gap before
\* it; a gap for which there is room alone is announced all the same.
Queued(c, row) ==
    LET gap == [kind |-> "gap", count |-> dropped[c], at |-> row - 1]
        event == [kind |-> "event", count |-> 1, at |-> row]
    IN  IF ~Room(c) THEN <<>>
        ELSE IF dropped[c] = 0 THEN <<event>>
        ELSE IF Len(out[c]) + 1 < Cap THEN <<gap, event>> ELSE <<gap>>
Dropped(c) ==
    IF ~Room(c) THEN dropped[c] + 1
    ELSE IF dropped[c] > 0 /\ Len(out[c]) + 1 >= Cap THEN 1 ELSE 0

\* Broadcast to every subscriber whose writer is there; the others are pruned.
Broadcast(row) ==
    /\ subs' = {c \in subs : ~failed[c]}
    /\ out' = [c \in Clients |-> IF c \in subs' THEN out[c] \o Queued(c, row) ELSE out[c]]
    /\ dropped' = [c \in Clients |-> IF c \in subs' THEN Dropped(c) ELSE dropped[c]]

\* (mutant) a gap is announced with the next event only
NoFlush(c) == FALSE
Flushable(c) == dropped[c] > 0 /\ Room(c)
\* flush_gaps: what an idle subscriber lost is told as soon as there is room.
FlushGaps ==
    /\ subs' = {c \in subs : dropped[c] > 0 => ~failed[c]}
    /\ out' = [c \in Clients |-> IF c \in subs' /\ Flushable(c)
            THEN Append(out[c], [kind |-> "gap", count |-> dropped[c], at |-> watermark])
            ELSE out[c]]
    /\ dropped' = [c \in Clients |-> IF c \in subs' /\ Flushable(c) THEN 0 ELSE dropped[c]]

-----------------------------------------------------------------------------
(* The pump, of the poller and of every reader after a call *)

\* (mutant) each thread reads and broadcasts for itself
PumpsAtOnce == TRUE
LockIsFree == pumping = {}

PumpBegin(t) ==
    /\ daemon # "gone" /\ LockIsFree /\ t \notin pumping
    /\ IF t = Poller THEN ~stopping /\ watermark < log ELSE reader[t] = "pump"
    /\ pumping' = pumping \cup {t}
    /\ last' = [last EXCEPT ![t] = watermark] /\ upto' = [upto EXCEPT ![t] = log]
    /\ UNCHANGED <<log, others, watermark, hubVars, reader, out, sending, failed, stopping, daemon, clientVars,
                   applied>>

PumpNext(t) ==
    /\ daemon # "gone" /\ t \in pumping /\ last[t] < upto[t]
    /\ LET row == last[t] + 1 IN
       /\ Broadcast(row)
       /\ watermark' = IF row > watermark THEN row ELSE watermark
       /\ last' = [last EXCEPT ![t] = row]
    /\ UNCHANGED <<log, others, pumping, upto, reader, sending, failed, stopping, daemon, clientVars, applied>>

PumpEnd(t) ==
    /\ daemon # "gone" /\ t \in pumping /\ last[t] = upto[t]
    /\ pumping' = pumping \ {t}
    /\ last' = [last EXCEPT ![t] = 0] /\ upto' = [upto EXCEPT ![t] = 0]
    /\ reader' = [c \in Clients |-> IF c = t THEN "reading" ELSE reader[c]]
    /\ UNCHANGED <<log, others, watermark, hubVars, out, sending, failed, stopping, daemon, clientVars, applied>>

-----------------------------------------------------------------------------
(* The accept loop *)

\* Ctrl-C, or a background thread that reports a fatal failure.
Stop ==
    /\ ~stopping
    /\ stopping' = TRUE
    /\ UNCHANGED <<log, pumpVars, hubVars, reader, out, sending, failed, daemon, clientVars, applied>>

\* An iteration flushes the gaps and heeds the flag, leaves when nobody has been
\* here for the idle timeout, and else takes in one client or none. It reads
\* nothing twice, so that what others do in its midst might as well come before.
Iteration ==
    /\ daemon = "serving"
    /\ FlushGaps
    /\ UNCHANGED <<log, pumpVars, sending, failed, client, wire, asked, seen, applied>>

Leave ==
    /\ stopping \/ (Admitted = {} /\ others = 0 /\ subs = {})
    /\ stopping' = TRUE /\ daemon' = "draining"
    /\ Iteration
    /\ UNCHANGED <<reader, told>>

Accept(c) ==
    /\ ~stopping /\ reader[c] = "backlog" /\ Cardinality(Admitted) + others < Limit
    /\ reader' = [reader EXCEPT ![c] = "reading"]
    /\ Iteration
    /\ UNCHANGED <<stopping, daemon, told>>

\* reject_overloaded: one write, with a short deadline, and the connection is closed.
Reject(c) ==
    /\ ~stopping /\ reader[c] = "backlog" /\ Cardinality(Admitted) + others >= Limit
    /\ reader' = [reader EXCEPT ![c] = "done"]
    /\ told' = [told EXCEPT ![c] = IF client[c] = "reading" THEN "refusal" ELSE @]
    /\ Iteration
    /\ UNCHANGED <<stopping, daemon>>

NoneWaits ==
    /\ ~stopping /\ \A c \in Clients : reader[c] # "backlog"
    /\ Iteration
    /\ UNCHANGED <<stopping, daemon, reader, told>>

Frames(c) == (IF sending[c] = Idle THEN <<>> ELSE <<sending[c]>>) \o out[c]

\* (mutant) the process exits as soon as the loop has ended
NobodyAwaited(c) == TRUE
\* What the drain need not wait for at its deadline: a reader parked on an empty
\* queue, and a client whose write has been cut. A call ends before the deadline.
Abandonable(c) ==
    \/ reader[c] \notin Live
    \/ reader[c] = "reading" /\ wire[c] = "none" /\ Frames(c) = <<>>
    \/ client[c] # "reading"
\* drain_connections: every reader has ended, or the deadline has passed.
Drain ==
    /\ daemon = "draining" /\ \A c \in Clients : Abandonable(c)
    /\ daemon' = "gone"
    /\ UNCHANGED <<log, pumpVars, hubVars, reader, out, sending, failed, stopping, clientVars, applied>>

-----------------------------------------------------------------------------
(* A connection's reader: handle_conn *)

Read(c) ==
    /\ daemon # "gone" /\ reader[c] = "reading" /\ wire[c] # "none"
    /\ wire' = [wire EXCEPT ![c] = "none"]
    /\ \/ /\ stopping
          /\ reader' = [reader EXCEPT ![c] = "refusing"]
          /\ UNCHANGED <<log, applied, subs, dropped, seen>>
       \/ /\ ~stopping /\ wire[c] = "subscribe"
          /\ subs' = subs \cup {c} /\ dropped' = [dropped EXCEPT ![c] = 0]
          /\ seen' = [seen EXCEPT ![c] = watermark]
          /\ reader' = [reader EXCEPT ![c] = "acking"]
          /\ UNCHANGED <<log, applied>>
       \/ /\ ~stopping /\ wire[c] = "write"
          \* (past the bound a call writes nothing)
          /\ log' = IF log < MaxEvents THEN log + 1 ELSE log
          /\ applied' = [applied EXCEPT ![c] = log' > log]
          /\ reader' = [reader EXCEPT ![c] = "answering"]
          /\ UNCHANGED <<subs, dropped, seen>>
    /\ UNCHANGED <<pumpVars, out, sending, failed, stopping, daemon, client, asked, told>>

\* The reader's end: unregister, drop the queue's sender, and join the writer.
Ends(c) ==
    /\ reader' = [reader EXCEPT ![c] = "closing"]
    /\ subs' = subs \ {c}

\* Queue the answer, waiting for room; when the writer is gone the reader ends.
Send(c) ==
    /\ daemon # "gone" /\ reader[c] \in {"acking", "answering", "refusing"}
    /\ \/ failed[c] /\ Ends(c) /\ UNCHANGED out
       \/ /\ ~failed[c] /\ Room(c)
          /\ out' = [out EXCEPT ![c] = Append(@,
                [kind |-> IF reader[c] = "refusing" THEN "refusal" ELSE "answer",
                 count |-> 0, at |-> Reached(c)])]
          /\ \/ reader[c] = "refusing" /\ Ends(c)
             \/ /\ reader[c] # "refusing" /\ UNCHANGED subs
                /\ reader' = [reader EXCEPT ![c] = IF @ = "acking" THEN "reading" ELSE "pump"]
    /\ UNCHANGED <<log, pumpVars, dropped, sending, failed, stopping, daemon, clientVars, applied>>

\* (mutant) a dead writer is noticed by the next answer only
TornDown(c) == stopping
TeardownDue(c) == stopping \/ failed[c]

Parked(c) == daemon # "gone" /\ reader[c] = "reading" /\ wire[c] = "none"

\* The receive timeout, with nothing read: a stopping daemon parts with a
\* refusal, which a subscriber is spared.
TimedOut(c) ==
    /\ Parked(c) /\ TeardownDue(c)
    /\ IF stopping /\ c \notin subs
       THEN reader' = [reader EXCEPT ![c] = "refusing"] /\ UNCHANGED subs
       ELSE Ends(c)
    /\ UNCHANGED <<log, pumpVars, dropped, out, sending, failed, stopping, daemon, clientVars, applied>>

\* Nothing was read for CLIENT_IDLE_TIMEOUT.
IdleOut(c) ==
    /\ Parked(c) /\ ~stopping /\ Ends(c)
    /\ UNCHANGED <<log, pumpVars, dropped, out, sending, failed, stopping, daemon, clientVars, applied>>

Eof(c) ==
    /\ Parked(c) /\ client[c] = "left" /\ Ends(c)
    /\ UNCHANGED <<log, pumpVars, dropped, out, sending, failed, stopping, daemon, clientVars, applied>>

Done(c) ==
    /\ daemon # "gone" /\ reader[c] = "closing" /\ Frames(c) = <<>>
    /\ reader' = [reader EXCEPT ![c] = "done"]
    /\ UNCHANGED <<log, pumpVars, hubVars, out, sending, failed, stopping, daemon, clientVars, applied>>

-----------------------------------------------------------------------------
(* A connection's writer: writer_loop *)

WriterTakes(c) ==
    /\ daemon # "gone" /\ ~failed[c] /\ sending[c] = Idle /\ out[c] # <<>>
    /\ sending' = [sending EXCEPT ![c] = Head(out[c])]
    /\ out' = [out EXCEPT ![c] = Tail(@)]
    /\ UNCHANGED <<log, pumpVars, hubVars, reader, failed, stopping, daemon, clientVars, applied>>

\* A closed connection, or CLIENT_SEND_TIMEOUT: the writer ends, and the queue with it.
WriteFails(c) ==
    /\ daemon # "gone" /\ sending[c] # Idle /\ client[c] # "reading"
    /\ failed' = [failed EXCEPT ![c] = TRUE]
    /\ sending' = [sending EXCEPT ![c] = Idle] /\ out' = [out EXCEPT ![c] = <<>>]
    /\ UNCHANGED <<log, pumpVars, hubVars, reader, stopping, daemon, clientVars, applied>>

-----------------------------------------------------------------------------

Loop == Leave \/ (\E c \in Clients : Accept(c) \/ Reject(c)) \/ NoneWaits
Pumping == \E t \in Threads : PumpBegin(t)

Next ==
    \/ \E c \in Clients :
        \/ Connect(c) \/ Take(c)
        \/ \E what \in {"write", "subscribe"} : Ask(c, what)
        \/ \E how \in {"stalled", "left"} : GiveUp(c, how)
        \/ Read(c) \/ Send(c) \/ TimedOut(c) \/ IdleOut(c) \/ Eof(c) \/ Done(c)
        \/ WriterTakes(c) \/ WriteFails(c)
    \/ \E t \in Threads : PumpNext(t) \/ PumpEnd(t)
    \/ Pumping \/ WriteOutside \/ Stop \/ Loop \/ Drain

\* Every thread of the daemon runs, the send timeout fails a write that stays
\* unread, and a client that reads takes what it is sent. Of the threads that
\* wait for the watermark's lock some one gets it. Nobody need ask, stop or leave.
Fairness ==
    /\ WF_vars(Loop) /\ WF_vars(Pumping)
    /\ \A t \in Threads : WF_vars(PumpNext(t)) /\ WF_vars(PumpEnd(t))
    /\ \A c \in Clients :
        /\ WF_vars(Take(c)) /\ WF_vars(WriterTakes(c)) /\ WF_vars(WriteFails(c))
        /\ WF_vars(Read(c)) /\ WF_vars(Send(c)) /\ WF_vars(TimedOut(c)) /\ WF_vars(Eof(c))
        /\ WF_vars(Done(c))

Spec == Init /\ [][Next]_vars
LiveSpec == Spec /\ Fairness

-----------------------------------------------------------------------------
(* Properties *)

\* Where frames lead, and that none of them leaves anything out.
Lead(f, from) == IF f = <<>> THEN from ELSE f[Len(f)].at
Unbroken(f, from) ==
    \A i \in 1 .. Len(f) : f[i].at = f[i].count + (IF i = 1 THEN from ELSE f[i - 1].at)

\* Whoever pumps, and whatever its queue had no room for, a subscriber is told
\* of every event broadcast since it subscribed once and in order, or that it
\* was lost, at the place where it was: the frames it has not yet seen go on
\* from there one by one, and what was dropped last is still to be told.
StreamIsWhole ==
    \A c \in Clients :
        /\ Unbroken(Frames(c), seen[c])
        /\ c \in subs /\ ~failed[c] => Lead(Frames(c), seen[c]) + dropped[c] = watermark

\* A request the daemon refused was not applied; and a client that reads is told
\* of the one that was, before its connection ends or the daemon exits.
AnswerIsTrue ==
    \A c \in Clients :
        /\ told[c] = "refusal" => ~applied[c]
        /\ client[c] = "reading" /\ applied[c] /\ (daemon = "gone" \/ reader[c] = "done")
            => told[c] = "answer"

\* An event that is in the log reaches every subscriber that reads, or the gap it
\* was lost in does, though nothing more ever happens in the store.
EventsArrive ==
    \A c \in Watchers, n \in 1 .. MaxEvents :
        (c \in subs /\ log >= n)
            ~> (seen[c] >= n \/ c \notin subs \/ client[c] # "reading" \/ stopping)

\* A connection whose writer has died gives its slot back, though its client
\* neither sends nor leaves.
SlotIsFreed == \A c \in Quitters : failed[c] ~> (reader[c] = "done" \/ daemon = "gone")

=============================================================================
