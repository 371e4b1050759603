# tasqx in TLA+

tasqx keeps a person's and a coding agent's tasks in one SQLite file. Shells, MCP
servers, a daemon and git hooks write to that file at the same time; a daemon reminds;
`tasqx sync` carries the store between machines through a dumb remote. These modules
model that core, TLC checks it on small instances, and TLAPS proves part of it for all.

Paths below are relative to `src/`; `core` is `crates/tasqx-core/src`, `cli` is
`crates/tasqx-cli/src`.

## Inventory

| Component | State it keeps | Operations | What makes it correct |
|---|---|---|---|
| Task store engine (`core/engine/task.rs`, `storage.rs`) | the tables of tasks, dependencies, checks, claims, events | add, modify, start, stop, claim, release, done, cancel, reopen, accept, decline, duplicate, adjust_tracked | one clock per holder; a claim and a clock never belong to two parties; no second of tracked time lost; a rev that guards the whole row; answers that name what was released |
| Undo (`core/engine/undo.rs`) | none: it reads the newest event | event.revert | exact inverse, or a refusal |
| Relationships (`core/engine/relationships.rs`) | dependency edges, acceptance checks | dependency.add / remove, check.* | no cycle, whatever adds an edge |
| Recurrence (`core/recur.rs`, `task.rs` spawn_next) | the rule, `spawned_from` | the spawn inside done | one row per occurrence |
| Git integration (`core/engine/git.rs`) | refs seen | git.event | starts and completes as the claim's holder |
| Reminder scheduler (`core/scheduler.rs`, the thread in `daemon.rs`) | a heap and a log watermark per daemon; `reminded` events | reminder_tick, reminder.fire | nobody is notified twice; a ripe reminder fires |
| Directory connector (`crates/tasqx-remote-dir`) | HEAD, snapshots, history, conflict copies, a lock file, `pulled.json` | pull, push | compare-and-swap; HEAD never dangles; only merged copies go |
| Connector protocol (`core/remote.rs`) | a state directory per store | describe, configure, pull, push | a failed call changes nothing more |
| R2 connector (`crates/tasqx-remote-r2`) | one object | pull, push | a lost answer is told from a conflict |
| Sync loop (`cli/sync.rs`) | the state file | up to three rounds of pull, merge, push | what was delivered stays delivered; the stores converge |
| Export, import, merge (`core/engine/transfer.rs`, `field_merge.rs`, `merge_removals.rs`, `recur_dedupe.rs`) | the store's | store.export, store.import, the fold of twin occurrences | merge is commutative and idempotent; a row is what its history makes it; no second counts twice; one row per occurrence, the same on every machine |
| Daemon (`core/daemon.rs`) | connections, queues, the event hub, the idle clock | accept, serve, pump, shut down | no admitted request is committed and unanswered; the event stream has no silent hole; every slot comes back |
| Attribution and tokens, memory and search, notes, reports, filters, dates, MCP, CLI, TUI, HTML, setup, the desktop application | see `PROJECT.json` | | mostly text, rendering or single writes |

How they interact. Every mutation is one `BEGIN IMMEDIATE` transaction
(`begin_mutation`), whoever calls, and the row it guards on is read inside it; the event
log is written in the same transaction and is what undo, reopen, recurrence, attribution
and merge read back. The daemon polls that log's highest rowid. `tasqx sync` exports the
store, and spawns a connector process per call that it kills at a deadline; machines meet
only in the remote's files.

What is hard: calls of many processes in any order, with leases that run out between them;
undo against whatever has happened since; reads in several statements by threads that
others write around; a lock that is only a file; kills, lost answers and conflict copies;
histories of two machines, with clocks that may disagree, merged from documents of any age;
threads that share one watermark and one queue per client.
`PROJECT.json` lists each of these hazards at its line with the property that covers it.

## Modules

| Module | What it is |
|---|---|
| `TaskStore` | Task store, undo, relationships, recurrence, and what git events do to a task |
| `TaskStoreHistory` | `TaskStore` with two history variables, for two properties about the past |
| `MCTaskStore` | its instances |
| `TaskStoreProofs` | theorems about `TaskStore`: its types, rows and edges, its clocks and claims; and, with the history variables, what its calls answer, proposals, and undo |
| `Reminders`, `RemindersProofs` | the daemons' reminder threads over one store, and theorems |
| `CasRemote` | the contract between a sync and a remote, as steps of pull and push |
| `DirRemote`, `MCDirRemote`, `DirRemoteProofs` | the directory connector, file operation by file operation; refines `CasRemote`; theorems, the refinement among them |
| `SyncLoop`, `MCSyncLoop`, `SyncLoopProofs` | the sync loops of several machines, over `CasRemote`; theorems |
| `TaskLog` | what a merge reads off the event log of a task: last writers, removals, counted time; the merged total |
| `StoreMerge`, `MCStoreMerge`, `StoreMergeProofs` | one task in the stores of several machines, edited, undone, exported and merged; theorems |
| `SumProofs` | facts about finite sets and sums over them, for the totals of `StoreMergeProofs` |
| `Occurrences`, `MCOccurrences`, `OccurrencesProofs` | a recurring series and the edges between its tasks in two stores that merge; the fold of twin occurrences; theorems |
| `Daemon`, `MCDaemon`, `DaemonProofs` | the daemon's connections and its event stream, thread by thread; theorems |

`SyncLoop` extends `CasRemote`, whose actions are its remote; `DirRemote` implements
`CasRemote` (`Implements`), so what the loop relies on is what the folder provides.
`StoreMerge` and `Occurrences` extend `TaskLog`: a merge of two copies and a fold of two
occurrences count time and choose a status by the same rules, as the code does.

### TaskStore

One action per API method, each a whole transaction: guard as the code refuses, then every
row, edge and event it writes. State: `row` is the tasks table, `deps` the edges, `start`
what the log says of the latest start of a task (`clock_holder_of`, `clock_owner`),
`leftTriage` what it says of the newest cancellation (`cancelled_from_triage`), `newest`
the fields of the newest event that `event.revert` reads. `held` is a client that keeps a
row it read, which is how `expected_rev` is modelled: the guard itself only refuses, and
what it is for is that a matching rev means the row is still the one that was read
(`HeldIsCurrent`). A call that changes nothing (starting a running task, removing an edge
that is not there) is no step.

Stored `backlog` and `pending` are one status, because `effective_status` decides from
`wait` and `scheduled` at each read; `Status` is that function. Of `task.modify` the
columns `wait`, `tracked` and `status` are modelled, those that meet a clock, a date or a
claim; text columns behave like any other that only bumps the rev.

### Reminders

A tick is up to five engine calls: the log's highest rowid, the reminded pairs, the tasks,
one `reminder.fire` per ripe reminder, and the notifier outside the engine lock. Each is a
step; edits, hand-fired reminders, other daemons, failed writes and stops come between any
two. `daemon[d]` is the thread's stack and heap. A stop stands for a crash, a shutdown and
the idle timeout.

### CasRemote, DirRemote, SyncLoop

`CasRemote`: `head` and `copies` are the remote, `handed` what the last pull of a state
directory handed back, `call[r]` the call in progress. Pull reads the head, then the
copies one at a time; push lands or conflicts, then drops copies, and may fail anywhere.

`DirRemote`: every file operation of `pull` and `push` in `main.rs` is a step, so two runs
interleave at file operations. `run[r].pc` is the place in the code. The lock file, its age
and its removal by `Drop` or by somebody who finds it stale are `lock` and `stale`; looking at
the age and removing the file are two steps (`Stat`, `Unlink`), and what is removed is whatever
lock is there by then. `torn` remembers that a push took away the lock of another at work. Any
run may be killed at any step, and runs again. A removal that fails is ignored, as in the code:
of a stale lock, the own lock, a lost upload, a copy, the record of the pull, a snapshot. The
refinement mapping is `CallOf`: `merged` is "landed", `supersede` is "dropping", everything
up to the swap is "pushing".

`SyncLoop`: a store is the set of changes it holds, a snapshot is the set it carries with
the identity its sealing gives it (AGE is randomised, so the same export sealed twice is two
snapshots). `promised` is what completed syncs have put on the remote. `Ids` bounds the
snapshots that are named at once: a push seals one whose identity nothing names any more.
A push that lands but cannot remove the copies or the record of its pull is a fault (`Untidy`).

### TaskLog, StoreMerge

A log is a set of events. The code walks it once, in order, with a running tally
(`field_merge.rs`, `count`); `TaskLog` says of each answer which events it rests on: `Edits`
and `Last` for the last writer of a group of fields, `Removed` for the removal ledger,
`Tracked` for the time. `MergedTotal` is `merged_tracked`.

`StoreMerge` follows one task. `copy[s]` is its row and log in a store, `doc[s]` the document
the store exported last, which any machine may merge at any later time and again; `last[s]` is
what undo reads. Calls are actions of `UserEdit`, their inverses of `Undo`. A modify writes one
field: the title, the total or the status, which it can only set to cancelled
(`CancelByModify`). That is the fifth way an interval closes, and the one that names no interval
in the log: `Slow` does not move it behind its start, `Standing` does not count it. Every machine has a
clock of its own, off by a constant, and ids sort by that clock (UUIDv7). `Merge` is the whole
import of the task: per-group choice, ties, total, tags by the ledger, the trigger on claims,
stamp and rev. Of the groups of fields `status`, `title` and `claim` are kept, one each of
those that lifecycle calls, modify and the claim calls write. Notes, checks and edges of one
task are united and removed as tags are. Guards that concern other tasks are `TaskStore`'s.

### Occurrences

Two machines hold one series and an errand that does not recur. A store is `row`, `log` (the
events by the task they are filed under, which a fold changes) and `deps`. An import is one
step: the event pass, which files no event twice; the rows, by their last writers; the edges, a
cycle among which refuses the whole document; then `Folded`, which folds the first pair of twins
(two rows on one slot) until there is none: `MaxTask` times, since each fold takes a row away. `Fold` moves edges, events and successors to the
lower id, drops the survivor's edges that close a cycle, and chooses the status and the total
from the two copies' logs, each with what the document has filed under it (`CopyLog`).

The clocks agree and no two edits share an instant, so a spawned task's id is its instant. The
series is due later than every edit, so the next occurrence is one period on. One document is in
flight at a time. `start` needs that no clock runs in the store (it would stop that, which is
`TaskStore`'s). Edges lead between the errand and spawned occurrences. Removal of edges, notes,
checks, links, tokens, revs and a replace import are left out.

### Daemon

Per client a connection with its reader (`handle_conn`), writer (`writer_loop`) and queue;
`pumping`, `last` and `upto` are the pump (`pump`) of the poller and of every reader after a
commit, under the lock on `watermark`; `subs` and `dropped` are the hub. A frame carries what it
accounts for, `count` events and the event it leaves the subscriber at, so that `seen` says
what a client has been told of. A read, a broadcast of one event, an append to a queue, a frame
handed to the client, a timeout and an iteration of the accept loop are one step each; an
iteration may be one, since it reads nothing twice.

Abstractions: a client has one request under way; what the kernel's socket buffer holds counts
as queued or being written; a call that writes nothing goes the way of one that does; `others`
are slots of clients that only stay. A stop comes at any time (Ctrl-C or a failed background
thread). `Drain` assumes that a call and a pump end within `SHUTDOWN_DRAIN_DEADLINE`, as does
the promise in `daemon.rs` 18-22. Not modelled: the Windows watchdog, the attribution and
telemetry threads, the guard of the socket, the client's side.

## Runs

| Run | Checks | Expected |
|---|---|---|
| `claims` | clocks and claims of three identities on two tasks | pass |
| `graph` | edges, triage, recurrence, answers and revs on three tasks | pass |
| `undo` | every operation and its undo on one task over three instants, git events included | pass |
| `fire` | two daemons, edits, failures and stops around two reminders | pass, liveness included |
| `daemon` | two clients of one daemon: a subscriber that calls, stalls or leaves, and one that takes a slot, beside writes of other processes and a stop | pass, liveness included |
| `folder` | two runs in one folder, either killed at any step and run again; refinement of `CasRemote` | pass |
| `sync` | two machines and every fault | pass, liveness included |
| `merge` | two machines, one task, its calls and undos, documents of any age, one clock or two | pass |
| `drift` | an undone stop that is stopped again | **violated**, finding |
| `series` | two machines, one series with its twins, edges and time | pass |
| `overtaken` | the next occurrence completed before its twin is spawned | **violated**, finding |
| `resync` | a folded copy that its own store takes back | **violated**, finding |

What they show:

- `LiveClaimIsTheClocks`, `OneClockPerHolder`, `StartSparesClaims`: the checks of claim,
  start and close each look at one of claim and clock, and together keep them consistent
  through leases that expire and closes that are undone.
- `TimeIsKept`: banked plus running seconds move only with the clock, outside corrections
  and undo.
- `HeldIsCurrent`: no call, cascade, auto-stop or undo changes a row or its edges under an
  unchanged rev.
- `UndoRestores`: undo returns the columns, edges and rows to what they were before the
  event (a claim whose lease has run out stays gone). It is run on one task without a rule;
  that an occurrence is taken back with its completion shows in `series`.
- `Acyclic`, `SlotFilledOnce`, `ProposalsWait`; `CallsAnswer`: a close names the tasks it
  released, a reopen those it withheld again, whatever a cascade closed with it.
- `ShownOnce`, `HeapIsCurrent`, `RipeFires`.
- `HeadIsWhole`, `Implements` for the folder: locks of dead pushes are broken, removals fail and
  pushes are killed anywhere, and HEAD names a snapshot that is there and moves by
  compare-and-swap, until a push takes away the lock of another at work (Findings). `Delivered`,
  `CopiesAreMerged`, `Converges` for the loop.
- `StreamIsWhole`, `AnswerIsTrue`, `EventsArrive`, `SlotIsFreed`: whoever pumps and whatever a
  queue has no room for, a subscriber knows every event or where it lost some, though nothing
  more happens; what was refused was not done, and what was done is answered before the daemon
  is gone; a client that stalls does not keep its slot.
- `MergeCommutes`, `MergeIsIdempotent`, `SameHistorySameRow`: the two directions of a merge end
  on one row, a second merge writes nothing, and a row, but for its claim (Findings), is what its
  log makes it, by whatever merges it came about. `SameEditSameValue` and `TagsFollowLog` say the same of a group of
  fields and of tags by the event that decides them.
- `LogExplainsTotal`, `TimeIsLived`: no merge loses a second or counts one twice, and there is
  no more time than has passed. What `LogExplainsTotal` and `SameHistorySameRow` say of totals is
  of logs without a modify that cancelled the task while it ran (`Blind`; Findings).
- `StoppedStaysStopped`: a merge runs no clock that a machine, however slow its own clock, has
  stopped, completed or cancelled, if it was started on a clock that none is ahead of; and none
  that began before a modify which cancelled the running task. A cancelling modify whose stamp is
  before the start it ended does not hold: it names no interval, so nothing moves it
  (`field_merge.rs` 138-147), the start wins and the clock runs again. `DESIGN.md` 4463 accepts it.
- `RevTellsOfMerge`: a guarded write does not pass over a merge.
- `EitherWayOneStore`, `OneNextOccurrence`, `EdgesStayAcyclic`, `LastWordStands`,
  `LogsExplainTotals`: the same for a series whose occurrences both machines made; and it never
  ends, nor doubles, by a merge. `EitherWayOneStore` and `OneNextOccurrence` are of stores in
  which no due was moved. The last two are of stores in which no occurrence was taken back either
  (`Plain`): the events of a copy that is moved, or that undo deletes, after another store has
  folded it stay filed under its own id there, and two stores then read one row from different
  logs (run `resync`).

### Findings

With a run:

- `overtaken`. The fold takes the status of the copy whose log has the later status event, and
  a copy's own `add` is one (`field_merge.rs` 102). If A completes an occurrence and the one
  after it, and B completes the first later, B's untouched twin wins: the work A finished is
  pending again on both. `recur_dedupe.rs` 27-29 says that a stop or a completion on either copy
  is the last word wherever it lands. `LastWordStands` is what does hold.
- `resync`. A merge counts a task's time from the events filed under its id (`transfer.rs` 2953),
  and an event the store holds under another id stays there (1653). A completes an occurrence and
  starts the next; B completes the same one; A folds B's copy into its own, whose clock the copy's
  later `add` ends, so the interval is banked. B undoes its completion, which deletes its copy and
  leaves that `add` under the deleted id (`undo.rs` 848), and merges A's document: B's log of the
  survivor cannot explain the banked time, A's can, so it counts as B's residual on top. Every
  further import of that document adds it again. `recur_dedupe.rs` 35 says that a round trip does
  not count work twice, `transfer.rs` 4977 that a second import changes nothing.
- `drift`. An undone stop rebuilds the interval's start in whole seconds (`undo.rs` 689), and
  merges key intervals by their exact start: the interval the log opened is banked beside the
  rebuilt one. `undo.rs` 640 says that the drift lands on a field nothing sums.

Met while modelling, without a run:

- The answer of a task marked as a duplicate never names what it released, because it is
  computed after the edges are gone (`task.rs` 4521; the comment at 4517 promises it).
- A stop of a task that its wait has come to hide cannot be undone though nothing else runs
  (`undo.rs` 668).
- A reminder fires for a task that was finished during the tick (`daemon.rs` 1417).
- A push slower than `LOCK_STALE` loses its lock, and compare-and-swap with it: sync gives a
  connector ten minutes, the comment in `remote-dir` assumes two.
- Two pushes that find the lock of a dead one stale can lose it with no push being slow
  (`remote-dir` 588-591). A push dies holding the lock; two others, one of them perhaps the same
  machine again, both read its age; the first removes it and makes its own; the second removes that
  one and makes its own. Both are under the lock, both read the same HEAD, both swap: one push that
  was answered is gone from HEAD, though its blob stays while the history names it. When the two
  prune at once, the history the later one writes may not name what HEAD names, and the sweep
  deletes it; or one that finds HEAD moved clears away the snapshot the other is about to name: then
  no pull succeeds any more, nor any push, which follows one. Dropping
  `CONSTRAINT Whole` and `torn` from the properties shows both. The comment at line 46 takes a
  stale lock to belong to a dead process, which by the time of the removal it need not.
- A modify that cancels a running task banks the interval in the row and names it nowhere in the
  log (`task.rs` 2506-2531). The log's count ends the interval at the first event after its start,
  so it holds less than the row: started at 2, tagged at 3 and cancelled so at 5, the row gains 3
  seconds and the log counts 1. The difference is a residual, and a merge keeps only the larger of
  two residuals (`field_merge.rs` 466). It also outlives its cause: merge that copy into B, undo
  the modify on A, and merge again: A and B hold the same events, B two seconds more.
  `DESIGN.md` 4463 says that such loss "only arises for time recorded before either log began".
- Two stores, or two syncs of one, that share a connector's state directory share `pulled.json`.
- A merged total below zero is raised to zero and what is forgiven becomes a residual
  (`field_merge.rs` 466): with corrections down on several machines the order of merges tells,
  which `DESIGN.md` 4453 denies.
- An undone `modify tracked` still resets the count of a merge (`field_merge.rs` 352).
- A merge that closes a task ends its claim (the trigger, `storage.rs` 525), and logs nothing: the
  log still tells of the claim last. A closes the task, exports, reopens it, exports; B, which has
  seen none of it, claims it and merges both documents, and the close ends the claim there; A
  merges B's first export and has the claim. Both have one log and two claims, until a further
  exchange, where the tie rule takes the empty one. `SameHistorySameRow` compares rows but for the
  claim; run `merge` makes these calls.
- A copy of an occurrence that is moved to another date after another store has folded it is not
  folded there; time logged on it by then counts on both rows. The docs leave copies on different
  dates alone.
- Moved on, such a copy can make the two stores end differently. A has folded a copy that runs on
  B into another, and files its start there; B moves the copy to a date where two more rows
  stand. When A imports B, the first fold there reads the start from the document (`copy_log`),
  but the survivor's log does not get it (INSERT OR IGNORE, `transfer.rs` 1653), and the second
  fold decides without it: the row ends pending on A, and active on B, which imports A.
  `recur_dedupe.rs` 18 says "that is what lets every store reach the same state". It takes
  fourteen edits and a merge before the import, beyond the bounds of `series`, whose
  `EitherWayOneStore` is of stores without moves.
- `spawned_from` of two copies of one row is decided by the tie rule on every re-import of an
  older document and re-pointed by the fold, so its rev goes up each time.

### Bounds

Each bound is a constant of its module. `MaxTime` 2 or 3 lets a lease of one expire
between two calls and a lease of two survive it; three tasks are the fewest for a cycle
closed through a chain and for a duplicate with a dependent and an original; two tasks and
three identities (the shell and two agents) for every conflict over a clock. `MaxTracked`
caps corrections only. Revs grow with every call: the configurations use a VIEW that keeps
of a rev only whether each client's held rev still equals it, which is all that any guard or
property reads, and which a later step changes the same way whatever its value (a rev only
grows). `KEEP` is 1 in the folder run instead of 5, so that one push more than one prunes. Two
runs that may both die and come back are enough for a lock that a third left behind: the dead
one's machine is one of the two that then find it stale. Once the lock is torn the properties
say nothing more, and `CONSTRAINT Whole` stops there.
`MaxFaults` 1 puts one failure at every place; two machines with two conflicting pushes
need three attempts, the code's `MAX_ATTEMPTS`. `fire` gives one edit, which reaches a
reminder withdrawn, moved, added or recorded by hand at any point of a tick.

`daemon`: a queue of one frame overflows with the second of two events, a limit of two
admits the other client or refuses it, and two requests let a client subscribe and then call.
`merge`: a scene fixes which calls are made, which are undone, how many there are and how far the
second clock is behind. Three edits of what moves the total (start, stop, modify tracked, with
stops undone) reach an interval that both machines close, one closes and one reopens, or neither
closes; three of tags reach a tag removed here and added there, and undone; a claim, a close and a
reopening reach a claim that a merge ends; a start, a cancelling modify, its undo and a start
again reach a clock the log leaves open; two of every call
reach each pair of writers of one group, with one clock and with two. The undo of `modify
tracked` and corrections down are left out (Findings). `MaxId` only has to lie above every id.
The VIEW leaves revs out: no guard reads one, and
`MergeIsIdempotent` and `RevTellsOfMerge` compare them within one step.
`graph` also completes tasks that recur every period, reopened or undone and completed again.
`series`: both machines complete an occurrence, and two calls more of one kind (start, undo of
the completion, an edge), or one reopen, fall anywhere between the merges, or any two calls at
all: twins, twins a generation down, a copy worked on before or after the fold. Machines are
interchangeable (SYMMETRY). `MaxTask` lies above every id. `resync` is the start scene with an undo.

`SYMMETRY` is used in `claims`, `graph`, `folder`, `series`, `overtaken` and `resync`, on tasks,
snapshots and machines that nothing tells apart, and in no run with a liveness property.
`CHECK_DEADLOCK FALSE` stands where the system may stop: clocks end at `MaxTime`, a folder is
followed no further than to a torn lock, daemons may stay asleep or be gone, and users make no
more calls than the scene has.

### Fairness

`Reminders!FairSpec`: the clock goes on, and a thread's steps are taken while its daemon
runs (it sleeps 200 ms between ticks); starting a daemon, edits, failures and stops are not
fair. Failures are finite, so this says a failing disk recovers. `SyncLoop!FairSpec`: every
run goes on, since a connector answers or is killed at its deadline and somebody keeps
running `tasqx sync`; users' edits, faults and late copies are finite and not fair.
`Daemon!LiveSpec`: every thread of the daemon runs, the send timeout fails a write that
stays unread, a client that reads takes what it is sent, and of the threads that wait for
the watermark's lock some one gets it (nothing is assumed of which); asking, stopping and
leaving are not fair. The task store and the merges have no fairness: every call returns at
once, and nothing in it waits.

### Assumptions

- In `folder` nothing is assumed of the lock: it may become stale at any time, its push dead or
  slow. `HeadIsWhole`, `Implements` and `PushIsCas` claim nothing from when a push takes away the
  lock of another at work.
- The file system gives atomic rename and exclusive create. The sync client that brings
  conflict copies does not itself replace HEAD in `DirRemote`; in `SyncLoop` two machines
  that push while apart do (`PushApart`).
- The clock of `TaskStore` never runs backwards. `start` is called with one identity or
  with none, never as `holder: "user"` beside an actor.
- `MergeCommutes`, `MergeIsIdempotent` and `RevTellsOfMerge` assume nothing of the machines'
  clocks. The other properties of `StoreMerge` but one are conditional on `Agree`, since D189
  orders writes of machines that have not met by their stamps; `Occurrences` is modelled with
  agreeing clocks. `StoppedStaysStopped` is about logs without an undone close, of which the
  starts were made on clocks no other is ahead of (`StartsLead`): a slow machine that restarts
  what it has received stamps its start before the event it started from, and of three machines
  the third may see the older of the two intervals win. D189 (`DESIGN.md` 4463) accepts that.
- In `StoreMerge` a modify writes one field. One that sets `tracked` and cancels, which composes
  (D98), is left out.
- `Repayable`, of the three theorems about totals: no correction is negative, none is undone where
  totals are set, no total that was set is undone, and a stop is undone only where instants are
  whole seconds. Scenes without it refute `LogExplainsTotal` in two or three edits: a total that
  comes out below zero in a merge and is raised to zero (a correction of -1, or one of 9 undone
  beside a total of 5), the reset an undone `modify tracked:` still is, the start an undone stop
  rounds. The scenes of `merge` satisfy it, and TLC evaluates that (`MergesAreRepayable`).
- `SyncLoopProofs`: no two runs share a connector's state directory (`Apart`).
- Documents carry whole logs, as this version writes them (no legacy export).

## Proofs

TLAPS checks, for every value of the constants under the named assumptions:

- `TaskStoreProofs!TypeCorrect`: `TypeOK` for any tasks, identities, dates and bounds. The
  types alone are not inductive: seconds banked by a stop are `now - since`, and undo
  rebuilds `since` from the event's own time. `PastReadings` says that every clock reading
  kept in a row or in the newest event lies in the past, and that a stop's seconds fit
  before its time. One lemma per group of actions shows the row and the event it writes
  have their types.
- The rows in `TaskStoreProofs`, all over one lemma, `StepMoves`: in any step a row stays as it is,
  edges included, or is written under a higher rev with its occurrence unchanged, or is new
  and in a free slot, or is deleted. Each action has its lemma `...Moves`. They need
  `BaseInv`: the task an undo would write exists, and so do both ends of every edge (else an
  undo of a dependency's removal could write a row that was deleted with its occurrence).
  - `HeldIsCurrentCorrect`: `HeldBehind`, a held row is never ahead of the table, and equal
    revs mean equal rows and edges.
  - `SlotFilledOnceCorrect`: a new row's slot is free, and no row ever changes its slot.
  - `AcyclicCorrect`: `EdgesIntoClosed`, new edges that all lead from outside a closed set
    into it close no cycle. For an edge the set is what its target reaches, which the check
    before it says does not hold its source; for a duplicate's edges what the original
    reaches; for a new task every other task, since nothing can depend on it yet.
- The clocks and claims in `TaskStoreProofs`, over `ClaimInv` and `OneInv`: beside the property itself, a closed
  task has no claim, and what an undo of the newest event would bring back keeps the
  property too: the claim under a stopped or closed clock was its owner's, and no other
  clock of that owner has begun since, because a start would itself be the newest event.
  - `LiveClaimIsTheClocksCorrect` and `StartSparesClaimsCorrect`, under `OwnersAreNamed`: no
    start names the shell as holder for an actor of another name.
  - `OneClockPerHolderCorrect`, also under `NobodyKeeps`: no `keep`, and no git events.
  - `TimeIsKeptCorrect`, without assumptions: each action keeps `Worked` row by row.
- What the calls answer and take back, over `TaskStoreHistory`, in the same module:
  - `CallsAnswerCorrect`, from the graph alone: a cascade closes one
    task or several, edges stay as they are, and no task waits for itself.
  - `ProposalsWaitCorrect`, over `WaitInv`: while a task is closed `leftTriage` stands for
    whether it was accepted, and while an undo may reopen it the newest event's `from` does.
  - `UndoRestoresCorrect`, over `PriorInv`: what the newest event recorded and what the tables
    hold now determine the tables before that event. `IdleInv` goes with it: a clock that does
    not run has no start, which is what lets the inverse of a close leave the start out.
- `RemindersProofs!ShownOnceCorrect`: `OneShower` strengthens `ShownOnce`: what is not
  recorded was never shown; what a thread is about to show is recorded, was not shown, and
  is in no other thread's hands. Only the step that writes the record makes a thread show.
- `RemindersProofs!HeapIsCurrentCorrect`: `Vouches` follows a thread through its tick: a
  watermark that equals the log's length vouches for what has been read so far, and one
  whose thread has logged something itself is behind. Every write logs, so every write
  makes all watermarks stale.
- `RemindersProofs!TypeCorrect`; it needs that `First` finds a minimum, from the
  well-foundedness of the naturals.
- `DirRemoteProofs!TypeCorrect`: the folder's types, whatever is killed, slow or delivered.
  Inductive with `Carries`: what a run has in hand at each of its steps.
- `DirRemoteProofs!HeadIsWholeCorrect` and `PushIsCasCorrect`, without assumptions. `FolderInv`
  is `TypeInv` and, until the lock is torn, `SafeInv`. That says of each run where it is and what
  is true of the folder there: who is past `Create` and not yet dead is the lock's holder; what it
  compared is still HEAD until it swaps; its snapshot is stored when HEAD comes to name it; HEAD
  is its own until it gives the lock back. `SafeStep` is the argument for the others: a step is
  the holder's, and then nobody else is at a step that relies on the folder, or it leaves alone
  what the holder relies on. A kill leaves a lock that is nobody's (`Left`), which may be broken
  without harm; one that breaks another's tears the lock, and the rest is void.
- `DirRemoteProofs!ImplementsCorrect`, likewise: every step of the folder is a step of `CasRemote`
  or none, under the mapping `CallOf` that the folder run checks, until the lock is torn.
  So what `SyncLoop` is checked over is what the folder does, for any number of machines.
- `SyncLoopProofs!SyncInvCorrect`, `DeliveredCorrect`, `CopiesAreMergedCorrect`, under `Apart`.
  `InStep` says of each run which connector call its loop is in, and that its store holds what
  the call was handed; `Fresh` that nothing has been handed a snapshot that is still on its
  way; `Safe` that the copies no push is about to take away, and the head, hold everything on
  the remote. A push that drops copies holds all they hold (`MergedAll` has merged them), and
  what it holds is on the remote or in a copy that no push of that moment has been handed. With
  a shared directory `handed` is another run's, and a copy goes that was never merged.
- `DaemonProofs`: `StreamIsWholeCorrect`, `AnswerIsTrueCorrect` and `DaemonTypeCorrect` for any
  clients, limits, queue bound and log. `IInv` adds to the types `PumpInv` (one thread at most is
  in the pump, and the watermark is where its pump stands) and, per client, `StreamInv` (frames
  queued, sent and dropped add up to the watermark, and lead nowhere for who has not subscribed)
  and `AnswerInv` (a request applied and not told of is in the reader's hands or in the
  queue); `NothingOwed` says the rest of a daemon that is gone. Each action has a lemma per client it touches
  and one for the others.
- `StoreMergeProofs!MergeCommutesCorrect`, `QuietIsOneRowCorrect`, `RevTellsOfMergeCorrect`, for
  any machines, clocks, calls and documents. They need `StateOK`: row types, that every log holds
  an add and a last edit of each group, that a closed row has no claim, so that the trigger in `Upserted`
  changes nothing the merge has chosen. The order of events is total on a log because `Place`
  is injective on ids; that a maximum is the same whichever log it is taken over does the rest.
- `StoreMergeProofs!SameEditSameValueCorrect`: `StateOK`, and while the clocks agree `InTime` (no
  event or id lies ahead of the clock), `Unique` (an id names one event anywhere) and `Alike`,
  the property for every pair of copies and documents. An edit is the last of its log and of no
  other; a merge hands on one of the two values.
- `StoreMergeProofs!TagsFollowLogCorrect`: over that, `TagInv` says of each copy that its tags
  are those whose latest word is a write; a merge's union takes a tag from the copy that has seen
  the word.

- `StoreMergeProofs!StoppedStaysStoppedCorrect`: over `LeadInv`, every close of an interval has
  the interval's start in its log, and while a clock runs its start is the latest edit of the
  status. A close that is slow sorts behind the start it names (`Slow`, `Place`), so a log that
  has it does not run that interval. A cancelling modify is an edit of the status at its own
  stamp, so a clock that runs began no earlier.
- `StoreMergeProofs!MergeIsIdempotentCorrect`: the row the first merge makes is the row the second
  chooses (`ChosenAgain`: the latest edit of a union is that of one of its parts, and a tie that
  went one way goes that way again, since the merged row has the later stamp of the two), and the
  total the first makes is the one the second makes (`SameTotal`: what the union does not explain
  of the merged total is at least what was kept of either copy, so the maximum is taken again).
  The second needs totals to be integers at all, for logs of any size: `SumInv` keeps the numbers
  and the finiteness of logs. `SumIsFold` and `SumType` (in `SumProofs`) go by induction over finite
  sets, as the well-foundedness of strict inclusion (`SmallestSubset`); a least counterexample
  cannot be.
- `StoreMergeProofs!LogExplainsTotalCorrect`, `SameHistorySameRowCorrect` and
  `TimeIsLivedCorrect`, under `Repayable`, over `LedgerInv`. What a log counts is a sum of four
  parts (`TrackedIs`): the last total set, the intervals with a standing close, the corrections, and
  the intervals nothing closed but something followed. A lemma each says what one event more does to
  them (`MoveStart`, `MoveClose`, `MoveReopen`, ...): a close adds the length the row
  banks if no other close of its interval stands, and a reopening takes off that close's and no
  other's. So `LedgerInv` says of each copy that the interval its row runs is the one its log
  opened last, which is not closed there (`Tells`), of what undo finds that it is the
  newest event, and if a close the only one standing of its interval (`Backed`), of a correction
  that it is undone once (`Once`, `Settled`), and of every event that what it rests on is in the same
  log (`Rooted`). All that is said of the copies whose logs are `Clean`, without a modify that
  cancelled a running task, and of their events (`Sound`): a clean log's copy has only been merged
  with clean ones, so what the others bank beyond their logs never reaches it; of those `Stamp`
  still says that the row's stamp is its log's newest. In a merge neither side has anything beyond its log but what was there before it
  began, so the union's count is the merged total, if it is not below zero: every correction
  undone is matched with the one it takes back (`SumOfPairs`). For `SameHistorySameRow` the
  stamp, the tags and the last writers follow from the log too (`LogTellsRow`). For `TimeIsLived` every
  interval a log without corrections counts is told by the instant of a start, and each by its own
  (`SumsWithin`).
- `OccurrencesProofs!EdgesStayAcyclicCorrect`, without assumptions on the moves: `FoldAcyclic`
  says that moving the edges of a dropped copy onto the survivor closes only cycles through the
  survivor, and one of those has an edge that `FoldedEdges` drops; an import unites edges only
  if the union has no cycle.
- `OccurrencesProofs!OneNextOccurrenceCorrect`, over `LineInv`. That after a merge no twins are left
  needs that `MaxTask` folds are enough: a fold takes a row, and two rows at least make a pair.
  That a completion's new row has the slot to itself needs more. While no due is moved a store is
  one line: every task descends from the first by steps of one period (`Rooted`, `Stepwise`), a
  completed task has its successor (`Followed`), and of two tasks with one due one would be a
  twin of the other (`Single`). Any two stores, and the document, agree on the due of every id
  they share, so a merge joins two lines into one; a fold keeps it, since the successors of the
  dropped copy go to the survivor. A spawned id is the instant of its completion, which nothing
  before it has. `LastFits` says that the newest completion's row and successor are still as
  the undo needs them.
- `OccurrencesProofs!LastWordStandsCorrect` and `LogsExplainTotalsCorrect`, over `LineInv` and
  `LogInv`. `LogInv` is about the stores, and the document, that are `Plain`. In each of them a row
  tells what its own log says (`Booked`: status, clock, completion, total and corrections), any two
  of them file an event under the same piece of work (`Filed`), and an id names one event
  (`LogOK`). Two rows that tell their logs merge and fold into one that tells both logs' union
  (`MergedTells`, `FoldedTells`): the group's winner is the copy whose log has the later status
  event, and of the union's sum each side has its own part, so no residual is left on either. A
  fold's survivor then has the events of both copies from both stores (`copy_log`), which is what
  `FoldedUnderway` follows from fold to fold; since each store alone is `Single`, at most two
  copies of an occurrence ever meet. `Kempt` and `Recorded` say of every call that the event it
  logs says what it writes. `LogInv` is inductive only beside `LineInv`, which keeps two stores
  from giving one id to two tasks; it was model-checked on the scenes of `series` first.
- `OccurrencesProofs!EitherWayOneStoreCorrect`, over `LineInv` and `FileInv`, for all stores in
  which no due was moved, completions undone included. There `LogInv` says nothing: after an undo
  two stores may read one row from different logs, and a row no longer follows from its log. What
  is left is that the two imports have the same copies to choose from. `FileInv` says of any two
  such stores (and the document) that an event they file under tasks is about one piece of work
  (`Together`); of each, that a task's add is filed under it, that of an occurrence taken back
  only the add is left (`Homed`), and that the instants in a row are those its status has; and
  that the row an undo puts back and the occurrence it deletes are still so (`Returns`). From
  there `MergedEitherWay` shows that a row both hold merges to one row from either side: the
  decision by the last writer and the tie rule are each other's mirror, and where the two texts
  tie, status and instants are equal (`SameStatus`). The imports then go through the same folds:
  they have the same rows and edges after every one (`FoldedAlike`), since the copies folded have
  the same logs, united with the document's, on both sides, and a pair once folded is of no later
  pair (`Paired`; at most two copies of an occurrence meet).

Only model-checked: the liveness properties (`RipeFires`, `EventsArrive`, `SlotIsFreed`,
`Converges`), which are out of the prover's reach. Every other property of a passing run is
proved, under the assumptions above. Totals without `Repayable`, or of logs with a modify that
cancelled a running task, are neither proved nor checked: the properties do not all hold there.
No module here has a RECURSIVE operator: `Reaches` is the least closed set, `Folded` a recursive
function, sums are folds of the community modules.

## Plan

Done: the task store with undo, the reminder threads, the folder and its contract, the sync
loop, the merge of a task, the fold of occurrences, the daemon's connections and stream, and the
theorems above. Next, in order:

1. Totals without `Repayable`, and of logs with a cancelling modify: what of `LogExplainsTotal`
   holds there, and its proof.
2. `SyncLoop` over `StoreMerge`'s copies instead of sets of changes.
3. `Attribution`: its thread has the reminder thread's shape, watermark, pending set and retry.
4. Notes, checks and links of folded copies, with the ids they are given; removal of edges.
5. `RemoteSetup` (two stores, one directory), `Migration`, `MemoryIndex`, `Optimistic`.

Not modelled, and why: parsing, rendering, calendars and ranking are text and arithmetic
without state that a property of this kind could be about; configuration is written by one
process; packaging is not the program. `PROJECT.json` names every such part.
