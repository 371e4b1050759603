----------------------------- MODULE DirRemote -----------------------------
(***************************************************************************)
(* tasqx-remote-dir: a remote kept in a folder, with every file operation  *)
(* of a pull and of a push a step of its own. Runs of several machines     *)
(* interleave on one file system, whose exclusive create is the lock; a    *)
(* sync client brings the conflict copies.                                 *)
(*                                                                         *)
(* A run is one `tasqx sync`: it pulls, and may push what it likes against *)
(* the version it pulled. A blob is named by the hash of its bytes, so two *)
(* runs that push the same bytes push the same version. Files are renamed  *)
(* into place (write_atomic), so a file is whole or not there. Not         *)
(* modelled: bytes that do not match their name, a conflict copy that      *)
(* cannot be read, and a sync client that replaces HEAD itself.            *)
(***************************************************************************)
EXTENDS Sequences, FiniteSets, Naturals

CONSTANTS
    Runs, Dirs, DirOf, Blobs, NoVersion,   \* as in CasRemote
    Foreign,     \* the blobs a sync client delivers from another machine
    Keep,        \* KEEP: how many snapshots survive a push
    Killable     \* the runs that may be killed at any point

Free == "free"
Dead == "dead"

ASSUME FolderAssumption ==
    /\ DirOf \in [Runs -> Dirs] /\ NoVersion \notin Blobs /\ Foreign \subseteq Blobs
    /\ Keep \in Nat \ {0} /\ Killable \subseteq Runs
    /\ Free \notin Runs /\ Dead \notin Runs

VARIABLES
    head,      \* HEAD
    copies,    \* the hashes the conflict copies of HEAD hold
    blobs,     \* snapshots/
    history,   \* history: the hashes HEAD has held, newest last
    lock,      \* the lock file: Free, or whose push made it (Dead: one that is over)
    stale,     \* whether the lock file is older than LOCK_STALE
    torn,      \* whether a push ever took away the lock of another at work
    pulled,    \* per state directory, pulled.json
    run        \* per run, where its connector is and what that has read

dvars == <<head, copies, blobs, history, lock, stale, torn, pulled, run>>

Pcs == {"idle", "blob", "list", "read", "pulled", "look", "upload", "lock", "stat", "unlink",
        "compare", "restore", "swap", "merged", "supersede", "prune", "sweep", "unlock",
        "pushed", "conflict", "failed", "dead"}
Quiet == [pc |-> "idle", base |-> NoVersion, blob |-> NoVersion, got |-> {}, todo |-> {},
          wrote |-> FALSE, answer |-> "none"]

Init ==
    /\ head = NoVersion /\ copies = {} /\ blobs = {} /\ history = <<>>
    /\ lock = Free /\ stale = FALSE /\ torn = FALSE
    /\ pulled = [d \in Dirs |-> {}]
    /\ run = [r \in Runs |-> Quiet]

At(r, pc) == run[r].pc = pc
Go(r, pc) == run' = [run EXCEPT ![r].pc = pc]
\* The call is over, or has an answer: what it read is not read again.
End(r, pc) == run' = [run EXCEPT ![r] = [Quiet EXCEPT !.pc = pc]]
Answer(r, answer) == run' = [run EXCEPT ![r] = [Quiet EXCEPT !.pc = "unlock", !.answer = answer]]

-----------------------------------------------------------------------------
(* pull *)

ReadHead(r) ==
    /\ At(r, "idle")
    /\ run' = [run EXCEPT ![r] = [Quiet EXCEPT
            !.base = head, !.got = {head} \ {NoVersion},
            !.pc = IF head = NoVersion THEN "list" ELSE "blob"]]
    /\ UNCHANGED <<head, copies, blobs, history, lock, stale, torn, pulled>>

\* A HEAD whose blob is not there is "not fully synced yet", an error.
ReadBlob(r) ==
    /\ At(r, "blob")
    /\ IF run[r].base \in blobs THEN Go(r, "list") ELSE End(r, "failed")
    /\ UNCHANGED <<head, copies, blobs, history, lock, stale, torn, pulled>>

ListCopies(r) ==
    /\ At(r, "list")
    /\ run' = [run EXCEPT ![r].pc = "read", ![r].todo = copies]
    /\ UNCHANGED <<head, copies, blobs, history, lock, stale, torn, pulled>>

\* A copy that is gone by now, or whose blob is not there, is skipped.
ReadCopy(r, h) ==
    /\ At(r, "read") /\ h \in run[r].todo
    /\ run' = [run EXCEPT ![r].todo = run[r].todo \ {h},
                          ![r].got = run[r].got \cup ({h} \cap copies \cap blobs)]
    /\ UNCHANGED <<head, copies, blobs, history, lock, stale, torn, pulled>>

Record(r) ==
    /\ At(r, "read") /\ run[r].todo = {}
    /\ pulled' = [pulled EXCEPT ![DirOf[r]] = run[r].got]
    /\ Go(r, "pulled")
    /\ UNCHANGED <<head, copies, blobs, history, lock, stale, torn>>

-----------------------------------------------------------------------------
(* push, up to the lock *)

Ask(r, blob) ==
    /\ At(r, "pulled")
    /\ run' = [run EXCEPT ![r] = [Quiet EXCEPT
            !.pc = "look", !.base = run[r].base, !.blob = blob]]
    /\ UNCHANGED <<head, copies, blobs, history, lock, stale, torn, pulled>>

\* store_blob, before the lock: a blob that is already there is not written.
Look(r) ==
    /\ At(r, "look")
    /\ Go(r, IF run[r].blob \in blobs THEN "lock" ELSE "upload")
    /\ UNCHANGED <<head, copies, blobs, history, lock, stale, torn, pulled>>

Upload(r) ==
    /\ At(r, "upload")
    /\ blobs' = blobs \cup {run[r].blob}
    /\ run' = [run EXCEPT ![r].pc = "lock", ![r].wrote = TRUE]
    /\ UNCHANGED <<head, copies, history, lock, stale, torn, pulled>>

Create(r) ==
    /\ At(r, "lock")
    /\ IF lock = Free
       THEN lock' = r /\ stale' = FALSE /\ Go(r, "compare")
       ELSE Go(r, "stat") /\ UNCHANGED <<lock, stale>>
    /\ UNCHANGED <<head, copies, blobs, history, torn, pulled>>

\* is_stale; past LOCK_WAIT a push that finds the lock held gives up.
Stat(r) ==
    /\ At(r, "stat")
    /\ IF lock # Free /\ stale THEN Go(r, "unlink")
       ELSE Go(r, "lock") \/ End(r, "failed")
    /\ UNCHANGED <<head, copies, blobs, history, lock, stale, torn, pulled>>

\* It takes away whatever lock is there by now, be it one that another push
\* made since; a failure to is ignored, and the next attempt looks again.
Unlink(r) ==
    /\ At(r, "unlink")
    /\ \/ lock' = Free /\ stale' = FALSE /\ torn' = (torn \/ lock \in Runs)
       \/ UNCHANGED <<lock, stale, torn>>
    /\ Go(r, "lock")
    /\ UNCHANGED <<head, copies, blobs, history, pulled>>

\* What the lock file is once the push of r is over and has not removed it.
Left(r) == IF lock = r THEN Dead ELSE lock

-----------------------------------------------------------------------------
(* push, under the lock *)

\* The upload of a push that lost, unless HEAD names it by now; that it cannot
\* be removed is ignored, as at every removal below.
Garbage(r) == IF run[r].wrote /\ head # run[r].blob THEN {run[r].blob} ELSE {}

Compare(r) ==
    /\ At(r, "compare")
    /\ IF head = run[r].base THEN Go(r, "restore") /\ UNCHANGED blobs
       ELSE /\ blobs' \in {blobs, blobs \ Garbage(r)}
            /\ Answer(r, "conflict")
    /\ UNCHANGED <<head, copies, history, lock, stale, torn, pulled>>

\* (mutant) a blob found already present is trusted to be there still
TrustsTheLook(r) == blobs
\* store_blob again: another push may have pruned or cleared the blob away.
StoredAgain(r) == blobs \cup {run[r].blob}

Restore(r) ==
    /\ At(r, "restore")
    /\ blobs' = StoredAgain(r)
    /\ Go(r, "swap")
    /\ UNCHANGED <<head, copies, history, lock, stale, torn, pulled>>

Swap(r) ==
    /\ At(r, "swap")
    /\ head' = run[r].blob
    /\ run' = [run EXCEPT ![r] = [Quiet EXCEPT !.pc = "merged", !.blob = run[r].blob]]
    /\ UNCHANGED <<copies, blobs, history, lock, stale, torn, pulled>>

\* (mutant) every copy there is goes
AnyCopy(r) == copies
\* supersede: the copies the last pull of this state directory handed back.
Superseded(r) == copies \cap pulled[DirOf[r]]

ReadPulled(r) ==
    /\ At(r, "merged")
    /\ run' = [run EXCEPT ![r].pc = "supersede", ![r].got = pulled[DirOf[r]],
                          ![r].todo = Superseded(r)]
    /\ UNCHANGED <<head, copies, blobs, history, lock, stale, torn, pulled>>

RemoveCopy(r, h) ==
    /\ At(r, "supersede") /\ h \in run[r].todo
    /\ run' = [run EXCEPT ![r].todo = run[r].todo \ {h}]
    /\ copies' = copies \ {h}
    /\ UNCHANGED <<head, blobs, history, lock, stale, torn, pulled>>

\* What is left to remove stays: the record could not be read, the copies not
\* be listed, or one of them not be removed. The record goes, or a failure to
\* remove it is printed and the next push of this state directory reads it again.
Consume(r) ==
    /\ At(r, "supersede")
    /\ pulled' \in {pulled, [pulled EXCEPT ![DirOf[r]] = {}]}
    /\ run' = [run EXCEPT ![r].pc = "prune", ![r].got = {}, ![r].todo = {}]
    /\ UNCHANGED <<head, copies, blobs, history, lock, stale, torn>>

Last(s, n) == IF Len(s) <= n THEN s ELSE SubSeq(s, Len(s) - n + 1, Len(s))

\* history.retain: HEAD names a hash once in it, so there is one to leave out.
Without(s, h) ==
    IF \E i \in 1..Len(s) : s[i] = h
    THEN LET i == CHOOSE j \in 1..Len(s) : s[j] = h
         IN  SubSeq(s, 1, i - 1) \o SubSeq(s, i + 1, Len(s))
    ELSE s
Entries(s) == {s[i] : i \in 1..Len(s)}

\* prune: the history first. What it now names is kept, whatever the file holds
\* by the time the deleting is done.
Prune(r) ==
    /\ At(r, "prune")
    /\ history' = Last(Append(Without(history, run[r].blob), run[r].blob), Keep)
    /\ run' = [run EXCEPT ![r].pc = "sweep", ![r].todo = Entries(history')]
    /\ UNCHANGED <<head, copies, blobs, lock, stale, torn, pulled>>

\* And then the snapshots that neither it nor a conflict copy names, those of
\* them that can be removed.
Sweep(r) ==
    /\ At(r, "sweep")
    /\ \E gone \in SUBSET (blobs \ (copies \cup run[r].todo)) : blobs' = blobs \ gone
    /\ Answer(r, "pushed")
    /\ UNCHANGED <<head, copies, history, lock, stale, torn, pulled>>

\* Drop removes the file, whoever made it; a file it cannot remove stays.
Unlock(r) ==
    /\ At(r, "unlock")
    /\ \/ lock' = Free /\ stale' = FALSE
       \/ lock' = Left(r) /\ UNCHANGED stale
    /\ End(r, run[r].answer)
    /\ UNCHANGED <<head, copies, blobs, history, torn, pulled>>

\* The caller has its answer, or gave up on a killed connector, and may sync again.
Return(r) ==
    /\ run[r].pc \in {"pulled", "pushed", "conflict", "failed", "dead"}
    /\ End(r, "idle")
    /\ UNCHANGED <<head, copies, blobs, history, lock, stale, torn, pulled>>

-----------------------------------------------------------------------------
(* Failures, time and the sync client *)

\* An error ends the call; under the lock the lock goes first. Once HEAD has
\* moved the push has landed: an error in prune ends only that, and the other
\* removals say above what they leave behind.
IoError(r) ==
    /\ \/ /\ run[r].pc \in {"blob", "list", "read", "look", "upload", "lock"}
          /\ End(r, "failed")
       \/ /\ run[r].pc \in {"compare", "restore", "swap"}
          /\ Answer(r, "failed")
       \/ /\ run[r].pc \in {"prune", "sweep"}
          /\ Answer(r, "pushed")
    /\ UNCHANGED <<head, copies, blobs, history, lock, stale, torn, pulled>>

\* A killed connector leaves its files, its lock among them.
Kill(r) ==
    /\ r \in Killable /\ run[r].pc \notin {"idle", "pulled", "pushed", "conflict", "failed", "dead"}
    /\ End(r, "dead")
    /\ lock' = Left(r)
    /\ UNCHANGED <<head, copies, blobs, history, stale, torn, pulled>>

\* A lock passes LOCK_STALE, its push dead or slow.
LockAges ==
    /\ lock # Free /\ ~stale
    /\ stale' = TRUE
    /\ UNCHANGED <<head, copies, blobs, history, lock, torn, pulled, run>>

CopyArrives(h) ==
    /\ copies' = copies \cup {h}
    /\ UNCHANGED <<head, blobs, history, lock, stale, torn, pulled, run>>

BlobArrives(h) ==
    /\ blobs' = blobs \cup {h}
    /\ UNCHANGED <<head, copies, history, lock, stale, torn, pulled, run>>

Next ==
    \/ \E r \in Runs :
          \/ ReadHead(r) \/ ReadBlob(r) \/ ListCopies(r) \/ Record(r) \/ Look(r) \/ Upload(r)
          \/ Create(r) \/ Stat(r) \/ Unlink(r) \/ Compare(r) \/ Restore(r) \/ Swap(r)
          \/ ReadPulled(r) \/ Consume(r) \/ Prune(r) \/ Sweep(r) \/ Unlock(r) \/ Return(r) \/ IoError(r)
          \/ Kill(r)
          \/ \E h \in Blobs : ReadCopy(r, h) \/ RemoveCopy(r, h)
          \/ \E h \in Blobs \ Foreign : Ask(r, h)
    \/ LockAges
    \/ \E h \in Foreign : CopyArrives(h) \/ BlobArrives(h)

Spec == Init /\ [][Next]_dvars

-----------------------------------------------------------------------------
(* Properties *)

Run == [pc : Pcs, base : Blobs \cup {NoVersion}, blob : Blobs \cup {NoVersion},
        got : SUBSET Blobs, todo : SUBSET Blobs, wrote : BOOLEAN,
        answer : {"none", "pushed", "conflict", "failed"}]

\* Every file and every run is in a state the program has.
TypeOK ==
    /\ head \in Blobs \cup {NoVersion} /\ copies \subseteq Blobs /\ blobs \subseteq Blobs
    /\ history \in Seq(Blobs) /\ Len(history) <= Keep
    /\ lock \in Runs \cup {Free, Dead} /\ stale \in BOOLEAN /\ torn \in BOOLEAN
    /\ pulled \in [Dirs -> SUBSET Blobs]
    /\ run \in [Runs -> Run]

\* HEAD never names a snapshot that is not there, whatever uploads, clean-ups
\* and prunes of other pushes, kills and errors come between (main.rs 444-486):
\* every pull would fail from then on, and no push can follow a failed pull.
\* Once a push took away the lock of another at work the prune of the one that
\* lost HEAD may delete what HEAD names.
HeadIsWhole == torn \/ (head # NoVersion => head \in blobs)

\* What a call is doing, in the contract's terms.
Phase(r) ==
    LET pc == run[r].pc
    IN  CASE pc \in {"blob", "list", "read"} -> "pulling"
          [] pc \in {"look", "upload", "lock", "stat", "unlink", "compare", "restore",
                     "swap"} -> "pushing"
          [] pc = "merged" -> "landed"
          [] pc = "supersede" -> "dropping"
          [] pc \in {"prune", "sweep"} -> "pushed"
          [] pc = "unlock" -> run[r].answer
          [] pc = "dead" -> "failed"
          [] OTHER -> pc
CallOf(r) ==
    [phase |-> Phase(r), base |-> run[r].base, got |-> run[r].got,
     blob |-> IF Phase(r) = "pushing" THEN run[r].blob ELSE NoVersion]

\* The folder keeps the contract of a remote: compare-and-swap on HEAD, copies
\* removed only when this state directory's last pull handed them back, one
\* push per pull, and a failed call that changes nothing more. It does so until
\* a push takes away the lock of another at work, because that one is slower
\* than LOCK_STALE, or because both had found the lock of a dead one stale.
Remote == INSTANCE CasRemote
    WITH Versions <- Blobs, handed <- pulled, call <- [r \in Runs |-> CallOf(r)]
Implements ==
    Remote!Init /\ [][torn \/ UNCHANGED Remote!cvars \/ Remote!Next]_dvars

\* "push writes only if the remote's current version equals it"
\* (core/remote.rs 40-43): HEAD moves from what its writer was told to expect,
\* until then.
PushIsCas ==
    [][\A r \in Runs : At(r, "swap") /\ At(r, "merged")' => torn \/ head = run[r].base]_dvars

=============================================================================
