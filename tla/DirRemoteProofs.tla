-------------------------- MODULE DirRemoteProofs --------------------------
(***************************************************************************)
(* Theorems about DirRemote for any number of machines, state directories, *)
(* snapshots and KEEP, whoever is killed and however slow: the types, that *)
(* HEAD is whole, that a push is a compare-and-swap, and that the folder   *)
(* implements the contract of a remote, until a push takes away the lock   *)
(* of another at work. What a step makes of its own run is one lemma per   *)
(* action, cited by both inductions.                                       *)
(***************************************************************************)
EXTENDS DirRemote, TLAPS

-----------------------------------------------------------------------------
(* The history file *)

\* Leaving a hash out of a history leaves a history (history.retain).
LEMMA WithoutType ==
    ASSUME NEW s \in Seq(Blobs), NEW h
    PROVE  Without(s, h) \in Seq(Blobs)
<1> DEFINE i == CHOOSE j \in 1..Len(s) : s[j] = h
<1>1. CASE \E j \in 1..Len(s) : s[j] = h
  <2>1. i \in 1..Len(s)
    BY <1>1
  <2> HIDE DEF i
  <2>2. SubSeq(s, 1, i - 1) \in Seq(Blobs) /\ SubSeq(s, i + 1, Len(s)) \in Seq(Blobs)
    BY <2>1
  <2>3. SubSeq(s, 1, i - 1) \o SubSeq(s, i + 1, Len(s)) \in Seq(Blobs)
    BY <2>2
  <2> USE DEF i
  <2> QED
    BY <2>3, <1>1 DEF Without
<1>2. CASE ~ \E j \in 1..Len(s) : s[j] = h
  BY <1>2 DEF Without
<1> QED
  BY <1>1, <1>2

\* What prune writes is at most Keep hashes long and names the new HEAD: the
\* cut takes from the front, and HEAD was pushed at the back.
LEMMA KeptType ==
    ASSUME NEW s \in Seq(Blobs), NEW h \in Blobs
    PROVE  LET kept == Last(Append(s, h), Keep)
           IN  kept \in Seq(Blobs) /\ Len(kept) <= Keep /\ h \in Entries(kept)
               /\ Entries(kept) \subseteq Blobs
<1> DEFINE a == Append(s, h)
           kept == Last(a, Keep)
<1>1. a \in Seq(Blobs) /\ Len(a) = Len(s) + 1 /\ a[Len(a)] = h
  OBVIOUS
<1>2. Keep \in Nat \ {0}
  BY FolderAssumption
<1> HIDE DEF a
<1>3. kept \in Seq(Blobs) /\ Len(kept) <= Keep /\ Len(kept) \in Nat \ {0} /\ kept[Len(kept)] = h
  <2>1. CASE Len(a) <= Keep
    BY <2>1, <1>1 DEF Last
  <2>2. CASE ~(Len(a) <= Keep)
    <3>1. kept = SubSeq(a, Len(a) - Keep + 1, Len(a))
      BY <2>2 DEF Last
    <3>2. kept \in Seq(Blobs) /\ Len(kept) = Keep
      BY <3>1, <1>1, <1>2, <2>2
    <3>3. kept[Keep] = a[Len(a)]
      BY <3>1, <1>1, <1>2, <2>2
    <3> QED
      BY <3>2, <3>3, <1>1, <1>2
  <2> QED
    BY <2>1, <2>2
<1> HIDE DEF kept
<1>4. h \in Entries(kept) /\ Entries(kept) \subseteq Blobs
  BY <1>3 DEF Entries
<1> QED
  BY <1>3, <1>4 DEF kept, a

\* Where a run holds the lock, as the code has it.
Held == {"compare", "restore", "swap", "merged", "supersede", "prune", "sweep", "unlock"}

-----------------------------------------------------------------------------
(* Steps of one run *)

\* What a step of run r never does: touch another's record.
Stepped(r) == run' \in [Runs -> Run] /\ \A s \in Runs \ {r} : run'[s] = run[s]

LEMMA QuietType == Quiet \in Run
  BY DEF Quiet, Run, Pcs

LEMMA GoType ==
    ASSUME NEW r \in Runs, run \in [Runs -> Run], NEW pc \in Pcs, Go(r, pc)
    PROVE  /\ run' \in [Runs -> Run]
           /\ run'[r].pc = pc /\ run'[r].base = run[r].base /\ run'[r].blob = run[r].blob
           /\ run'[r].got = run[r].got /\ run'[r].todo = run[r].todo
           /\ \A s \in Runs \ {r} : run'[s] = run[s]
<1>1. run[r] \in Run
  OBVIOUS
<1> DEFINE q == [run[r] EXCEPT !.pc = pc]
<1>2. /\ q \in Run /\ q.pc = pc /\ q.base = run[r].base /\ q.blob = run[r].blob
      /\ q.got = run[r].got /\ q.todo = run[r].todo
  BY <1>1 DEF Run
<1>3. run' = [run EXCEPT ![r] = q]
  BY DEF Go
<1> HIDE DEF q
<1> QED
  BY <1>2, <1>3

LEMMA EndType ==
    ASSUME NEW r \in Runs, run \in [Runs -> Run], NEW pc \in Pcs, End(r, pc)
    PROVE  /\ run' \in [Runs -> Run]
           /\ run'[r].pc = pc /\ run'[r].answer = "none"
           /\ run'[r].base = NoVersion /\ run'[r].got = {}
           /\ \A s \in Runs \ {r} : run'[s] = run[s]
<1> DEFINE q == [Quiet EXCEPT !.pc = pc]
<1>1. q \in Run /\ q.pc = pc /\ q.answer = "none" /\ q.base = NoVersion /\ q.got = {}
  BY QuietType DEF Run, Quiet
<1>2. run' = [run EXCEPT ![r] = q]
  BY DEF End
<1> HIDE DEF q
<1> QED
  BY <1>1, <1>2

LEMMA AnswerType ==
    ASSUME NEW r \in Runs, run \in [Runs -> Run],
           NEW answer \in {"pushed", "conflict", "failed"}, Answer(r, answer)
    PROVE  /\ run' \in [Runs -> Run]
           /\ run'[r].pc = "unlock" /\ run'[r].answer = answer
           /\ run'[r].base = NoVersion /\ run'[r].got = {}
           /\ \A s \in Runs \ {r} : run'[s] = run[s]
<1> DEFINE q == [Quiet EXCEPT !.pc = "unlock", !.answer = answer]
<1>1. q \in Run /\ q.pc = "unlock" /\ q.answer = answer /\ q.base = NoVersion /\ q.got = {}
  BY DEF Run, Pcs, Quiet
<1>2. run' = [run EXCEPT ![r] = q]
  BY DEF Answer
<1> HIDE DEF q
<1> QED
  BY <1>1, <1>2

-----------------------------------------------------------------------------
(* What each step that writes more than a pc makes of its run *)

LEMMA ReadHeadRun ==
    ASSUME TypeOK, NEW r \in Runs, ReadHead(r)
    PROVE  /\ Stepped(r)
           /\ run'[r].pc \in {"list", "blob"}
           /\ run'[r].base = head /\ run'[r].got = {head} \ {NoVersion}
<1> DEFINE q == [Quiet EXCEPT !.base = head, !.got = {head} \ {NoVersion},
                              !.pc = IF head = NoVersion THEN "list" ELSE "blob"]
<1>0. run \in [Runs -> Run] /\ run[r] \in Run
  BY DEF TypeOK
<1>1. /\ q \in Run
      /\ q.pc \in {"list", "blob"}
      /\ q.base = head /\ q.got = {head} \ {NoVersion}
  BY <1>0 DEF ReadHead, At, Run, Pcs, Quiet, TypeOK
<1>2. run' = [run EXCEPT ![r] = q]
  BY <1>0 DEF ReadHead, Run
<1> HIDE DEF q
<1> QED
  BY <1>0, <1>1, <1>2 DEF Stepped

LEMMA ListCopiesRun ==
    ASSUME TypeOK, NEW r \in Runs, ListCopies(r)
    PROVE  /\ Stepped(r)
           /\ run'[r].pc = "read" /\ run'[r].base = run[r].base /\ run'[r].got = run[r].got
<1> DEFINE q == [run[r] EXCEPT !.pc = "read", !.todo = copies]
<1>0. run \in [Runs -> Run] /\ run[r] \in Run
  BY DEF TypeOK
<1>1. /\ q \in Run
      /\ q.pc = "read" /\ q.base = run[r].base /\ q.got = run[r].got
  BY <1>0 DEF ListCopies, At, Run, Pcs, Quiet, TypeOK
<1>2. run' = [run EXCEPT ![r] = q]
  BY <1>0 DEF ListCopies, Run
<1> HIDE DEF q
<1> QED
  BY <1>0, <1>1, <1>2 DEF Stepped

LEMMA ReadCopyRun ==
    ASSUME TypeOK, NEW r \in Runs, NEW h \in Blobs, ReadCopy(r, h)
    PROVE  /\ Stepped(r)
           /\ run'[r].pc = "read" /\ run'[r].base = run[r].base
           /\ run'[r].got = run[r].got \cup ({h} \cap copies \cap blobs)
<1> DEFINE q == [run[r] EXCEPT !.todo = run[r].todo \ {h},
                               !.got = run[r].got \cup ({h} \cap copies \cap blobs)]
<1>0. run \in [Runs -> Run] /\ run[r] \in Run
  BY DEF TypeOK
<1>1. /\ q \in Run
      /\ q.pc = "read" /\ q.base = run[r].base
      /\ q.got = run[r].got \cup ({h} \cap copies \cap blobs)
  BY <1>0 DEF ReadCopy, At, Run, Pcs, Quiet, TypeOK
<1>2. run' = [run EXCEPT ![r] = q]
  BY <1>0 DEF ReadCopy, Run
<1> HIDE DEF q
<1> QED
  BY <1>0, <1>1, <1>2 DEF Stepped

LEMMA AskRun ==
    ASSUME TypeOK, NEW r \in Runs, NEW b \in Blobs, Ask(r, b)
    PROVE  /\ Stepped(r)
           /\ run'[r].pc = "look" /\ run'[r].blob = b
           /\ run'[r].base = run[r].base /\ run'[r].got = {}
<1> DEFINE q == [Quiet EXCEPT !.pc = "look", !.base = run[r].base, !.blob = b]
<1>0. run \in [Runs -> Run] /\ run[r] \in Run
  BY DEF TypeOK
<1>1. /\ q \in Run
      /\ q.pc = "look" /\ q.blob = b
      /\ q.base = run[r].base /\ q.got = {}
  BY <1>0 DEF Ask, At, Run, Pcs, Quiet, TypeOK
<1>2. run' = [run EXCEPT ![r] = q]
  BY <1>0 DEF Ask, Run
<1> HIDE DEF q
<1> QED
  BY <1>0, <1>1, <1>2 DEF Stepped

LEMMA UploadRun ==
    ASSUME TypeOK, NEW r \in Runs, Upload(r)
    PROVE  /\ Stepped(r)
           /\ run'[r].pc = "lock" /\ run'[r].blob = run[r].blob
           /\ run'[r].base = run[r].base /\ run'[r].got = run[r].got
<1> DEFINE q == [run[r] EXCEPT !.pc = "lock", !.wrote = TRUE]
<1>0. run \in [Runs -> Run] /\ run[r] \in Run
  BY DEF TypeOK
<1>1. /\ q \in Run
      /\ q.pc = "lock" /\ q.blob = run[r].blob
      /\ q.base = run[r].base /\ q.got = run[r].got
  BY <1>0 DEF Upload, At, Run, Pcs, Quiet, TypeOK
<1>2. run' = [run EXCEPT ![r] = q]
  BY <1>0 DEF Upload, Run
<1> HIDE DEF q
<1> QED
  BY <1>0, <1>1, <1>2 DEF Stepped

LEMMA SwapRun ==
    ASSUME TypeOK, NEW r \in Runs, Swap(r)
    PROVE  /\ Stepped(r)
           /\ run'[r].pc = "merged" /\ run'[r].blob = run[r].blob
           /\ run'[r].base = NoVersion /\ run'[r].got = {}
<1> DEFINE q == [Quiet EXCEPT !.pc = "merged", !.blob = run[r].blob]
<1>0. run \in [Runs -> Run] /\ run[r] \in Run
  BY DEF TypeOK
<1>1. /\ q \in Run
      /\ q.pc = "merged" /\ q.blob = run[r].blob
      /\ q.base = NoVersion /\ q.got = {}
  BY <1>0 DEF Swap, At, Run, Pcs, Quiet, TypeOK
<1>2. run' = [run EXCEPT ![r] = q]
  BY <1>0 DEF Swap, Run
<1> HIDE DEF q
<1> QED
  BY <1>0, <1>1, <1>2 DEF Stepped

LEMMA ReadPulledRun ==
    ASSUME TypeOK, NEW r \in Runs, ReadPulled(r)
    PROVE  /\ Stepped(r)
           /\ run'[r].pc = "supersede" /\ run'[r].blob = run[r].blob
           /\ run'[r].base = run[r].base /\ run'[r].got = pulled[DirOf[r]]
              /\ run'[r].todo \subseteq run'[r].got
<1> DEFINE q == [run[r] EXCEPT !.pc = "supersede", !.got = pulled[DirOf[r]],
                               !.todo = Superseded(r)]
<1>0. run \in [Runs -> Run] /\ run[r] \in Run
  BY DEF TypeOK
<1>1. /\ q \in Run
      /\ q.pc = "supersede" /\ q.blob = run[r].blob
      /\ q.base = run[r].base /\ q.got = pulled[DirOf[r]] /\ q.todo \subseteq q.got
  BY <1>0, FolderAssumption DEF ReadPulled, At, Run, Pcs, Quiet, TypeOK, Superseded
<1>2. run' = [run EXCEPT ![r] = q]
  BY <1>0 DEF ReadPulled, Run
<1> HIDE DEF q
<1> QED
  BY <1>0, <1>1, <1>2 DEF Stepped

LEMMA RemoveCopyRun ==
    ASSUME TypeOK, NEW r \in Runs, NEW h \in Blobs, RemoveCopy(r, h)
    PROVE  /\ Stepped(r)
           /\ run'[r].pc = "supersede" /\ run'[r].blob = run[r].blob
           /\ run'[r].base = run[r].base /\ run'[r].got = run[r].got
           /\ run'[r].todo \subseteq run[r].todo
<1> DEFINE q == [run[r] EXCEPT !.todo = run[r].todo \ {h}]
<1>0. run \in [Runs -> Run] /\ run[r] \in Run
  BY DEF TypeOK
<1>1. /\ q \in Run
      /\ q.pc = "supersede" /\ q.blob = run[r].blob
      /\ q.base = run[r].base /\ q.got = run[r].got
      /\ q.todo \subseteq run[r].todo
  BY <1>0 DEF RemoveCopy, At, Run, Pcs, Quiet, TypeOK
<1>2. run' = [run EXCEPT ![r] = q]
  BY <1>0 DEF RemoveCopy, Run
<1> HIDE DEF q
<1> QED
  BY <1>0, <1>1, <1>2 DEF Stepped

LEMMA ConsumeRun ==
    ASSUME TypeOK, NEW r \in Runs, Consume(r)
    PROVE  /\ Stepped(r)
           /\ run'[r].pc = "prune" /\ run'[r].blob = run[r].blob
           /\ run'[r].base = run[r].base /\ run'[r].got = {}
<1> DEFINE q == [run[r] EXCEPT !.pc = "prune", !.got = {}, !.todo = {}]
<1>0. run \in [Runs -> Run] /\ run[r] \in Run
  BY DEF TypeOK
<1>1. /\ q \in Run
      /\ q.pc = "prune" /\ q.blob = run[r].blob
      /\ q.base = run[r].base /\ q.got = {}
  BY <1>0 DEF Consume, At, Run, Pcs, Quiet, TypeOK
<1>2. run' = [run EXCEPT ![r] = q]
  BY <1>0 DEF Consume, Run
<1> HIDE DEF q
<1> QED
  BY <1>0, <1>1, <1>2 DEF Stepped

\* The history prune writes is a history, and what prune will keep includes
\* the HEAD it has just pushed.
LEMMA PruneRun ==
    ASSUME TypeOK, NEW r \in Runs, run[r].blob \in Blobs, Prune(r)
    PROVE  /\ Stepped(r)
           /\ history' \in Seq(Blobs) /\ Len(history') <= Keep
           /\ run'[r].pc = "sweep" /\ run'[r].blob = run[r].blob
           /\ run'[r].base = run[r].base /\ run'[r].got = run[r].got
           /\ run[r].blob \in run'[r].todo
<1> DEFINE rest == Without(history, run[r].blob)
           q == [run[r] EXCEPT !.pc = "sweep", !.todo = Entries(history')]
<1>0. run \in [Runs -> Run] /\ run[r] \in Run
  BY DEF TypeOK
<1>1. rest \in Seq(Blobs)
  BY WithoutType DEF TypeOK
<1>2. history' = Last(Append(rest, run[r].blob), Keep)
  BY DEF Prune
<1> HIDE DEF rest
<1>3. /\ history' \in Seq(Blobs) /\ Len(history') <= Keep
      /\ run[r].blob \in Entries(history') /\ Entries(history') \subseteq Blobs
  BY <1>1, <1>2, KeptType
<1>4. /\ q \in Run /\ q.pc = "sweep" /\ q.blob = run[r].blob /\ run[r].blob \in q.todo
      /\ q.base = run[r].base /\ q.got = run[r].got
  BY <1>0, <1>3 DEF Run, Pcs
<1>5. run' = [run EXCEPT ![r] = q]
  BY <1>0 DEF Prune, Run
<1> HIDE DEF q
<1> QED
  BY <1>0, <1>3, <1>4, <1>5 DEF Stepped

LEMMA ReadBlobRun ==
    ASSUME TypeOK, NEW r \in Runs, ReadBlob(r)
    PROVE  /\ Stepped(r)
           /\ \/ run'[r].pc = "list" /\ run'[r].base = run[r].base /\ run'[r].got = run[r].got
              \/ run'[r].pc = "failed" /\ run'[r].base = NoVersion /\ run'[r].got = {}
<1>0. run \in [Runs -> Run] /\ run[r] \in Run
  BY DEF TypeOK
<1>1. "list" \in Pcs /\ "failed" \in Pcs
  BY DEF Pcs
<1> QED
  BY <1>0, <1>1, GoType, EndType DEF Stepped, ReadBlob

LEMMA RecordRun ==
    ASSUME TypeOK, NEW r \in Runs, Record(r)
    PROVE  /\ Stepped(r)
           /\ run'[r].pc = "pulled" /\ run'[r].base = run[r].base /\ run'[r].got = run[r].got
<1>0. run \in [Runs -> Run] /\ run[r] \in Run
  BY DEF TypeOK
<1>1. "pulled" \in Pcs
  BY DEF Pcs
<1> QED
  BY <1>0, <1>1, GoType DEF Stepped, Record

LEMMA LookRun ==
    ASSUME TypeOK, NEW r \in Runs, Look(r)
    PROVE  /\ Stepped(r)
           /\ run'[r].pc \in {"lock", "upload"} /\ run'[r].blob = run[r].blob
           /\ run'[r].base = run[r].base /\ run'[r].got = run[r].got
<1>0. run \in [Runs -> Run] /\ run[r] \in Run
  BY DEF TypeOK
<1>1. "lock" \in Pcs /\ "upload" \in Pcs
  BY DEF Pcs
<1> QED
  BY <1>0, <1>1, GoType DEF Stepped, Look

LEMMA CreateRun ==
    ASSUME TypeOK, NEW r \in Runs, Create(r)
    PROVE  /\ Stepped(r)
           /\ run'[r].pc = (IF lock = Free THEN "compare" ELSE "stat")
              /\ run'[r].blob = run[r].blob
           /\ run'[r].base = run[r].base /\ run'[r].got = run[r].got
<1>0. run \in [Runs -> Run] /\ run[r] \in Run
  BY DEF TypeOK
<1>1. "compare" \in Pcs /\ "stat" \in Pcs
  BY DEF Pcs
<1> QED
  BY <1>0, <1>1, GoType DEF Stepped, Create

LEMMA StatRun ==
    ASSUME TypeOK, NEW r \in Runs, Stat(r)
    PROVE  /\ Stepped(r)
           /\ \/ run'[r].pc \in {"unlink", "lock"} /\ run'[r].blob = run[r].blob
                 /\ run'[r].base = run[r].base /\ run'[r].got = run[r].got
              \/ run'[r].pc = "failed" /\ run'[r].base = NoVersion /\ run'[r].got = {}
           /\ stale = FALSE => run'[r].pc # "unlink"
<1>0. run \in [Runs -> Run] /\ run[r] \in Run
  BY DEF TypeOK
<1>1. "unlink" \in Pcs /\ "lock" \in Pcs /\ "failed" \in Pcs
  BY DEF Pcs
<1> QED
  BY <1>0, <1>1, GoType, EndType DEF Stepped, Stat

LEMMA UnlinkRun ==
    ASSUME TypeOK, NEW r \in Runs, Unlink(r)
    PROVE  /\ Stepped(r)
           /\ run'[r].pc = "lock" /\ run'[r].blob = run[r].blob
           /\ run'[r].base = run[r].base /\ run'[r].got = run[r].got
<1>0. run \in [Runs -> Run] /\ run[r] \in Run
  BY DEF TypeOK
<1>1. "lock" \in Pcs
  BY DEF Pcs
<1> QED
  BY <1>0, <1>1, GoType DEF Stepped, Unlink

LEMMA CompareRun ==
    ASSUME TypeOK, NEW r \in Runs, Compare(r)
    PROVE  /\ Stepped(r)
           /\ \/ head = run[r].base /\ run'[r].pc = "restore"
                 /\ run'[r].blob = run[r].blob /\ run'[r].base = run[r].base
                 /\ run'[r].got = run[r].got
              \/ head # run[r].base /\ run'[r].pc = "unlock"
                 /\ run'[r].answer = "conflict" /\ run'[r].base = NoVersion /\ run'[r].got = {}
<1>0. run \in [Runs -> Run] /\ run[r] \in Run
  BY DEF TypeOK
<1>1. "restore" \in Pcs /\ "unlock" \in Pcs
  BY DEF Pcs
<1> QED
  BY <1>0, <1>1, GoType, AnswerType DEF Stepped, Compare

LEMMA RestoreRun ==
    ASSUME TypeOK, NEW r \in Runs, Restore(r)
    PROVE  /\ Stepped(r)
           /\ run'[r].pc = "swap" /\ run'[r].blob = run[r].blob
           /\ run'[r].base = run[r].base /\ run'[r].got = run[r].got
<1>0. run \in [Runs -> Run] /\ run[r] \in Run
  BY DEF TypeOK
<1>1. "swap" \in Pcs
  BY DEF Pcs
<1> QED
  BY <1>0, <1>1, GoType DEF Stepped, Restore

LEMMA SweepRun ==
    ASSUME TypeOK, NEW r \in Runs, Sweep(r)
    PROVE  /\ Stepped(r)
           /\ run'[r].pc = "unlock" /\ run'[r].answer = "pushed"
              /\ run'[r].base = NoVersion /\ run'[r].got = {}
<1>0. run \in [Runs -> Run] /\ run[r] \in Run
  BY DEF TypeOK
<1> QED
  BY <1>0, AnswerType DEF Stepped, Sweep

LEMMA ReturnRun ==
    ASSUME TypeOK, NEW r \in Runs, Return(r)
    PROVE  /\ Stepped(r)
           /\ run'[r].pc = "idle" /\ run'[r].base = NoVersion /\ run'[r].got = {}
<1>0. run \in [Runs -> Run] /\ run[r] \in Run
  BY DEF TypeOK
<1>1. "idle" \in Pcs
  BY DEF Pcs
<1> QED
  BY <1>0, <1>1, EndType DEF Stepped, Return

LEMMA KillRun ==
    ASSUME TypeOK, NEW r \in Runs, Kill(r)
    PROVE  /\ Stepped(r)
           /\ run'[r].pc = "dead" /\ run'[r].base = NoVersion /\ run'[r].got = {}
<1>0. run \in [Runs -> Run] /\ run[r] \in Run
  BY DEF TypeOK
<1>1. "dead" \in Pcs
  BY DEF Pcs
<1> QED
  BY <1>0, <1>1, EndType DEF Stepped, Kill

LEMMA IoErrorRun ==
    ASSUME TypeOK, NEW r \in Runs, IoError(r)
    PROVE  /\ Stepped(r)
           /\ \/ run'[r].pc = "failed" /\ run[r].pc \notin Held
              \/ run'[r].pc = "unlock" /\ run'[r].answer = "failed"
                 /\ run[r].pc \in {"compare", "restore", "swap"}
              \/ run'[r].pc = "unlock" /\ run'[r].answer = "pushed"
                 /\ run[r].pc \in {"prune", "sweep"}
           /\ run'[r].base = NoVersion /\ run'[r].got = {}
<1>0. run \in [Runs -> Run] /\ run[r] \in Run
  BY DEF TypeOK
<1>1. "failed" \in Pcs
  BY DEF Pcs
<1> QED
  BY <1>0, <1>1, EndType, AnswerType DEF Stepped, IoError, Held, At

LEMMA UnlockRun ==
    ASSUME TypeOK, NEW r \in Runs, run[r].answer # "none", Unlock(r)
    PROVE  /\ Stepped(r)
           /\ run'[r].pc = run[r].answer /\ run'[r].pc \in {"pushed", "conflict", "failed"}
           /\ run'[r].base = NoVersion /\ run'[r].got = {}
<1>0. run \in [Runs -> Run] /\ run[r] \in Run
  BY DEF TypeOK
<1>1. "pushed" \in Pcs /\ "conflict" \in Pcs /\ "failed" \in Pcs
  BY DEF Pcs
<1> QED
  BY <1>0, <1>1, EndType DEF Stepped, Unlock, Run

-----------------------------------------------------------------------------
(* Types *)

\* A push has bytes to store, from its first look to its last deletion, and an
\* answer by the time it gives the lock back.
Carrying == {"look", "upload", "lock", "stat", "unlink", "compare", "restore", "swap",
             "merged", "supersede", "prune", "sweep"}
Carries(r) ==
    /\ run[r].pc \in Carrying => run[r].blob \in Blobs
    /\ run[r].pc = "unlock" => run[r].answer # "none"
    /\ run[r].pc \in {"merged", "supersede", "prune", "sweep",
       "unlock"} => run[r].base = NoVersion
    /\ run[r].pc \in {"prune", "sweep", "unlock"} => run[r].got = {}
    /\ run[r].pc = "supersede" => run[r].todo \subseteq run[r].got
TypeInv == TypeOK /\ \A r \in Runs : Carries(r)

\* What is left to show once a step of r is known to be r's alone.
FilesTyped ==
    /\ head \in Blobs \cup {NoVersion} /\ copies \subseteq Blobs /\ blobs \subseteq Blobs
    /\ history \in Seq(Blobs) /\ Len(history) <= Keep
    /\ lock \in Runs \cup {Free, Dead} /\ stale \in BOOLEAN /\ torn \in BOOLEAN
    /\ pulled \in [Dirs -> SUBSET Blobs]

LEMMA TypeStep ==
    ASSUME TypeInv, NEW r \in Runs, Stepped(r), Carries(r)', FilesTyped'
    PROVE  TypeInv'
<1>1. \A s \in Runs : Carries(s)'
  BY DEF TypeInv, Carries, Stepped
<1> QED
  BY <1>1 DEF TypeInv, TypeOK, FilesTyped, Stepped

LEMMA TypeInit == Init => TypeInv
<1> SUFFICES ASSUME Init PROVE TypeInv
  OBVIOUS
<1>1. run \in [Runs -> Run] /\ \A r \in Runs : run[r].pc = "idle"
  BY QuietType DEF Init, Quiet
<1>2. history \in Seq(Blobs) /\ Len(history) <= Keep
  BY FolderAssumption DEF Init
<1>3. \A r \in Runs : Carries(r)
  BY <1>1 DEF Carries, Carrying
<1> QED
  BY <1>1, <1>2, <1>3 DEF Init, TypeInv, TypeOK

LEMMA PullTyped ==
    ASSUME TypeInv, NEW r \in Runs,
           \/ ReadHead(r) \/ ReadBlob(r) \/ ListCopies(r) \/ Record(r)
           \/ \E h \in Blobs : ReadCopy(r, h)
    PROVE  TypeInv'
<1> USE DEF Carries, Carrying
<1>0. /\ run \in [Runs -> Run] /\ run[r] \in Run /\ TypeOK /\ FilesTyped /\ TypeInv
      /\ Carries(r)
  BY DEF TypeInv, TypeOK, FilesTyped
<1>1. CASE ReadHead(r)
  <2>1. Stepped(r) /\ Carries(r)'
    BY <1>0, <1>1, ReadHeadRun DEF ReadHead, At
  <2>2. FilesTyped'
    BY <1>0, <1>1 DEF FilesTyped, ReadHead
  <2> QED
    BY <2>1, <2>2, TypeStep
<1>2. CASE ReadBlob(r)
  <2>1. Stepped(r) /\ Carries(r)'
    BY <1>0, <1>2, ReadBlobRun DEF ReadBlob, At
  <2>2. FilesTyped'
    BY <1>0, <1>2 DEF FilesTyped, ReadBlob
  <2> QED
    BY <2>1, <2>2, TypeStep
<1>3. CASE ListCopies(r)
  <2>1. Stepped(r) /\ Carries(r)'
    BY <1>0, <1>3, ListCopiesRun DEF ListCopies, At
  <2>2. FilesTyped'
    BY <1>0, <1>3 DEF FilesTyped, ListCopies
  <2> QED
    BY <2>1, <2>2, TypeStep
<1>4. CASE Record(r)
  <2>1. Stepped(r) /\ Carries(r)'
    BY <1>0, <1>4, RecordRun DEF Record, At
  <2>2. FilesTyped'
    BY <1>0, <1>4, FolderAssumption DEF FilesTyped, Record, Run
  <2> QED
    BY <2>1, <2>2, TypeStep
<1>5. ASSUME NEW h \in Blobs, ReadCopy(r, h)
      PROVE  TypeInv'
  <2>1. Stepped(r) /\ Carries(r)'
    BY <1>0, <1>5, ReadCopyRun DEF ReadCopy, At
  <2>2. FilesTyped'
    BY <1>0, <1>5 DEF FilesTyped, ReadCopy
  <2> QED
    BY <2>1, <2>2, TypeStep
<1> QED
  BY <1>1, <1>2, <1>3, <1>4, <1>5

LEMMA PushTyped ==
    ASSUME TypeInv, NEW r \in Runs,
           \/ Look(r) \/ Upload(r) \/ Create(r) \/ Stat(r) \/ Unlink(r) \/ Compare(r)
           \/ Restore(r) \/ Swap(r) \/ ReadPulled(r) \/ Consume(r) \/ Prune(r) \/ Sweep(r)
           \/ \E h \in Blobs : Ask(r, h) \/ RemoveCopy(r, h)
    PROVE  TypeInv'
<1> USE DEF Carries, Carrying
<1>0. /\ run \in [Runs -> Run] /\ run[r] \in Run /\ TypeOK /\ FilesTyped /\ TypeInv
      /\ Carries(r)
  BY DEF TypeInv, TypeOK, FilesTyped
<1>1. CASE Look(r)
  <2>1. Stepped(r) /\ Carries(r)'
    BY <1>0, <1>1, LookRun DEF Look, At
  <2>2. FilesTyped'
    BY <1>0, <1>1 DEF FilesTyped, Look
  <2> QED
    BY <2>1, <2>2, TypeStep
<1>2. CASE Upload(r)
  <2>0. run[r].blob \in Blobs
    BY <1>0, <1>2 DEF Upload, At
  <2>1. Stepped(r) /\ Carries(r)'
    BY <2>0, <1>0, <1>2, UploadRun DEF Upload, At
  <2>2. FilesTyped'
    BY <2>0, <1>0, <1>2 DEF FilesTyped, Upload
  <2> QED
    BY <2>1, <2>2, TypeStep
<1>3. CASE Create(r)
  <2>1. Stepped(r) /\ Carries(r)'
    BY <1>0, <1>3, CreateRun DEF Create, At
  <2>2. FilesTyped'
    BY <1>0, <1>3 DEF FilesTyped, Create
  <2> QED
    BY <2>1, <2>2, TypeStep
<1>4. CASE Stat(r)
  <2>1. Stepped(r) /\ Carries(r)'
    BY <1>0, <1>4, StatRun DEF Stat, At
  <2>2. FilesTyped'
    BY <1>0, <1>4 DEF FilesTyped, Stat
  <2> QED
    BY <2>1, <2>2, TypeStep
<1>5. CASE Unlink(r)
  <2>1. Stepped(r) /\ Carries(r)'
    BY <1>0, <1>5, UnlinkRun DEF Unlink, At
  <2>2. FilesTyped'
    BY <1>0, <1>5 DEF FilesTyped, Unlink
  <2> QED
    BY <2>1, <2>2, TypeStep
<1>6. CASE Compare(r)
  <2>1. Stepped(r) /\ Carries(r)'
    BY <1>0, <1>6, CompareRun DEF Compare, At
  <2>2. FilesTyped'
    BY <1>0, <1>6 DEF FilesTyped, Compare
  <2> QED
    BY <2>1, <2>2, TypeStep
<1>7. CASE Restore(r)
  <2>0. run[r].blob \in Blobs
    BY <1>0, <1>7 DEF Restore, At
  <2>1. Stepped(r) /\ Carries(r)'
    BY <2>0, <1>0, <1>7, RestoreRun DEF Restore, At
  <2>2. FilesTyped'
    BY <2>0, <1>0, <1>7 DEF FilesTyped, Restore, StoredAgain
  <2> QED
    BY <2>1, <2>2, TypeStep
<1>8. CASE Swap(r)
  <2>0. run[r].blob \in Blobs
    BY <1>0, <1>8 DEF Swap, At
  <2>1. Stepped(r) /\ Carries(r)'
    BY <2>0, <1>0, <1>8, SwapRun DEF Swap, At
  <2>2. FilesTyped'
    BY <2>0, <1>0, <1>8 DEF FilesTyped, Swap
  <2> QED
    BY <2>1, <2>2, TypeStep
<1>9. CASE ReadPulled(r)
  <2>1. Stepped(r) /\ Carries(r)'
    BY <1>0, <1>9, ReadPulledRun DEF ReadPulled, At
  <2>2. FilesTyped'
    BY <1>0, <1>9 DEF FilesTyped, ReadPulled
  <2> QED
    BY <2>1, <2>2, TypeStep
<1>10. CASE Consume(r)
  <2>1. Stepped(r) /\ Carries(r)'
    BY <1>0, <1>10, ConsumeRun DEF Consume, At
  <2>2. FilesTyped'
    BY <1>0, <1>10, FolderAssumption DEF FilesTyped, Consume
  <2> QED
    BY <2>1, <2>2, TypeStep
<1>11. CASE Prune(r)
  <2>0. run[r].blob \in Blobs
    BY <1>0, <1>11 DEF Prune, At
  <2>1. Stepped(r) /\ Carries(r)'
    BY <2>0, <1>0, <1>11, PruneRun DEF Prune, At
  <2>2. FilesTyped'
    BY <2>0, <1>0, <1>11, PruneRun DEF FilesTyped, Prune
  <2> QED
    BY <2>1, <2>2, TypeStep
<1>12. CASE Sweep(r)
  <2>1. Stepped(r) /\ Carries(r)'
    BY <1>0, <1>12, SweepRun DEF Sweep, At
  <2>2. FilesTyped'
    BY <1>0, <1>12 DEF FilesTyped, Sweep
  <2> QED
    BY <2>1, <2>2, TypeStep
<1>13. ASSUME NEW h \in Blobs, Ask(r, h)
      PROVE  TypeInv'
  <2>1. Stepped(r) /\ Carries(r)'
    BY <1>0, <1>13, AskRun DEF Ask, At
  <2>2. FilesTyped'
    BY <1>0, <1>13 DEF FilesTyped, Ask
  <2> QED
    BY <2>1, <2>2, TypeStep
<1>14. ASSUME NEW h \in Blobs, RemoveCopy(r, h)
      PROVE  TypeInv'
  <2>1. Stepped(r) /\ Carries(r)'
    BY <1>0, <1>14, RemoveCopyRun DEF RemoveCopy, At
  <2>2. FilesTyped'
    BY <1>0, <1>14 DEF FilesTyped, RemoveCopy
  <2> QED
    BY <2>1, <2>2, TypeStep
<1> QED
  BY <1>1, <1>2, <1>3, <1>4, <1>5, <1>6, <1>7, <1>8, <1>9, <1>10, <1>11, <1>12, <1>13, <1>14

LEMMA EndTyped ==
    ASSUME TypeInv, NEW r \in Runs,
           Unlock(r) \/ Return(r) \/ IoError(r) \/ Kill(r)
    PROVE  TypeInv'
<1> USE DEF Carries, Carrying
<1>0. /\ run \in [Runs -> Run] /\ run[r] \in Run /\ TypeOK /\ FilesTyped /\ TypeInv
      /\ Carries(r)
  BY DEF TypeInv, TypeOK, FilesTyped
<1>1. CASE Unlock(r)
  <2>0. run[r].answer # "none"
    BY <1>0, <1>1 DEF Unlock, At
  <2>1. Stepped(r) /\ Carries(r)'
    BY <2>0, <1>0, <1>1, UnlockRun DEF Unlock, At
  <2>2. FilesTyped'
    BY <2>0, <1>0, <1>1 DEF FilesTyped, Unlock, Left
  <2> QED
    BY <2>1, <2>2, TypeStep
<1>2. CASE Return(r)
  <2>1. Stepped(r) /\ Carries(r)'
    BY <1>0, <1>2, ReturnRun DEF Return, At
  <2>2. FilesTyped'
    BY <1>0, <1>2 DEF FilesTyped, Return
  <2> QED
    BY <2>1, <2>2, TypeStep
<1>3. CASE IoError(r)
  <2>1. Stepped(r) /\ Carries(r)'
    BY <1>0, <1>3, IoErrorRun DEF IoError, At
  <2>2. FilesTyped'
    BY <1>0, <1>3 DEF FilesTyped, IoError
  <2> QED
    BY <2>1, <2>2, TypeStep
<1>4. CASE Kill(r)
  <2>1. Stepped(r) /\ Carries(r)'
    BY <1>0, <1>4, KillRun DEF Kill, At
  <2>2. FilesTyped'
    BY <1>0, <1>4 DEF FilesTyped, Kill, Left
  <2> QED
    BY <2>1, <2>2, TypeStep
<1> QED
  BY <1>1, <1>2, <1>3, <1>4

LEMMA TypeNext == TypeInv /\ [Next]_dvars => TypeInv'
<1> SUFFICES ASSUME TypeInv, [Next]_dvars PROVE TypeInv'
  OBVIOUS
<1>1. CASE \/ UNCHANGED dvars \/ LockAges
           \/ \E h \in Foreign : CopyArrives(h) \/ BlobArrives(h)
  <2>1. run' = run
    BY <1>1 DEF dvars, LockAges, CopyArrives, BlobArrives
  <2>2. FilesTyped /\ run \in [Runs -> Run]
    BY DEF FilesTyped, TypeInv, TypeOK
  <2>3. FilesTyped'
    BY <1>1, <2>2, FolderAssumption
       DEF FilesTyped, dvars, LockAges, CopyArrives, BlobArrives
  <2>4. \A r \in Runs : Carries(r)'
    BY <2>1 DEF TypeInv, Carries
  <2> QED
    BY <2>1, <2>2, <2>3, <2>4 DEF TypeInv, TypeOK, FilesTyped
<1>2. ASSUME NEW r \in Runs,
             \/ ReadHead(r) \/ ReadBlob(r) \/ ListCopies(r) \/ Record(r)
             \/ \E h \in Blobs : ReadCopy(r, h)
      PROVE  TypeInv'
  BY <1>2, PullTyped
<1>3. ASSUME NEW r \in Runs,
             \/ Look(r) \/ Upload(r) \/ Create(r) \/ Stat(r) \/ Unlink(r) \/ Compare(r)
             \/ Restore(r) \/ Swap(r) \/ ReadPulled(r) \/ Consume(r) \/ Prune(r) \/ Sweep(r)
             \/ \E h \in Blobs : Ask(r, h) \/ RemoveCopy(r, h)
      PROVE  TypeInv'
  BY <1>3, PushTyped
<1>4. ASSUME NEW r \in Runs, Unlock(r) \/ Return(r) \/ IoError(r) \/ Kill(r)
      PROVE  TypeInv'
  BY <1>4, EndTyped
<1> QED
  BY <1>1, <1>2, <1>3, <1>4 DEF Next

\* Whatever is killed, ages or arrives: every file and every connector stays in
\* a state the program has, and the history at KEEP hashes at most (main.rs
\* 503-514).
THEOREM TypeCorrect == Spec => []TypeOK
<1>1. TypeInv => TypeOK
  BY DEF TypeInv
<1> QED
  BY TypeInit, TypeNext, <1>1, PTL DEF Spec

-----------------------------------------------------------------------------
(* What the lock gives, until one is taken away at work *)

\* Which of its steps a run is at, and what is true of the folder there: only
\* the holder compares, so HEAD stays what it compared; its snapshot is in
\* place before HEAD names it; and HEAD is its own until it gives the lock back.
Safe(r) ==
    /\ run[r].pc \in Held => lock = r
    /\ run[r].pc \in {"restore", "swap"} => head = run[r].base
    /\ run[r].pc = "swap" => run[r].blob \in blobs
    /\ run[r].pc \in {"merged", "supersede", "prune", "sweep"} => head = run[r].blob
    /\ run[r].pc = "sweep" => run[r].blob \in run[r].todo
SafeFiles == head # NoVersion => head \in blobs
SafeInv == TypeInv /\ SafeFiles /\ \A r \in Runs : Safe(r)
FolderInv == TypeInv /\ (torn \/ SafeInv)

\* A step of the lock's holder, or one that leaves alone what a holder relies
\* on, keeps every other run safe: with the lock free, a dead push's or r's own
\* there is no other holder.
LEMMA SafeStep ==
    ASSUME SafeInv, NEW r \in Runs, TypeInv', Stepped(r), Safe(r)', SafeFiles',
           \/ run[r].pc \in Held
           \/ head' = head /\ blobs \subseteq blobs' /\ lock' = lock
           \/ head' = head /\ blobs \subseteq blobs' /\ lock \notin Runs \ {r}
    PROVE  SafeInv'
<1>1. ASSUME NEW s \in Runs \ {r}
      PROVE  Safe(s)'
  <2>1. run'[s] = run[s] /\ Safe(s) /\ Safe(r)
    BY DEF Stepped, SafeInv
  <2>2. CASE run[r].pc \in Held \/ lock \notin Runs \ {r}
    <3>1. run[s].pc \notin Held
      BY <2>1, <2>2 DEF Safe
    <3> QED
      BY <2>1, <3>1 DEF Safe, Held
  <2>3. CASE head' = head /\ blobs \subseteq blobs' /\ lock' = lock
    BY <2>1, <2>3 DEF Safe
  <2> QED
    BY <2>2, <2>3
<1>2. \A s \in Runs : Safe(s)'
  BY <1>1
<1> QED
  BY <1>2 DEF SafeInv

LEMMA PullSafe ==
    ASSUME SafeInv, TypeInv', NEW r \in Runs,
           \/ ReadHead(r) \/ ReadBlob(r) \/ ListCopies(r) \/ Record(r)
           \/ \E h \in Blobs : ReadCopy(r, h)
    PROVE  SafeInv'
<1> USE DEF Safe, Held
<1>0. /\ run \in [Runs -> Run] /\ run[r] \in Run /\ TypeOK /\ SafeFiles /\ Safe(r)
      /\ Carries(r)
  BY DEF SafeInv, TypeInv, TypeOK
<1>1. CASE ReadHead(r)
  <2>1. Stepped(r) /\ Safe(r)'
    BY <1>0, <1>1, ReadHeadRun DEF ReadHead, At
  <2>2. SafeFiles'
    BY <1>0, <1>1 DEF SafeFiles, ReadHead, At
  <2> QED
    BY <1>1, <2>1, <2>2, SafeStep DEF ReadHead, At
<1>2. CASE ReadBlob(r)
  <2>1. Stepped(r) /\ Safe(r)'
    BY <1>0, <1>2, ReadBlobRun DEF ReadBlob, At
  <2>2. SafeFiles'
    BY <1>0, <1>2 DEF SafeFiles, ReadBlob, At
  <2> QED
    BY <1>2, <2>1, <2>2, SafeStep DEF ReadBlob, At
<1>3. CASE ListCopies(r)
  <2>1. Stepped(r) /\ Safe(r)'
    BY <1>0, <1>3, ListCopiesRun DEF ListCopies, At
  <2>2. SafeFiles'
    BY <1>0, <1>3 DEF SafeFiles, ListCopies, At
  <2> QED
    BY <1>3, <2>1, <2>2, SafeStep DEF ListCopies, At
<1>4. CASE Record(r)
  <2>1. Stepped(r) /\ Safe(r)'
    BY <1>0, <1>4, RecordRun DEF Record, At
  <2>2. SafeFiles'
    BY <1>0, <1>4 DEF SafeFiles, Record, At
  <2> QED
    BY <1>4, <2>1, <2>2, SafeStep DEF Record, At
<1>5. ASSUME NEW h \in Blobs, ReadCopy(r, h)
      PROVE  SafeInv'
  <2>1. Stepped(r) /\ Safe(r)'
    BY <1>0, <1>5, ReadCopyRun DEF ReadCopy, At
  <2>2. SafeFiles'
    BY <1>0, <1>5 DEF SafeFiles, ReadCopy, At
  <2> QED
    BY <1>5, <2>1, <2>2, SafeStep DEF ReadCopy, At
<1> QED
  BY <1>1, <1>2, <1>3, <1>4, <1>5

LEMMA FreeSafe ==
    ASSUME SafeInv, TypeInv', NEW r \in Runs,
           \/ Look(r) \/ Upload(r) \/ Create(r) \/ Stat(r) \/ Unlink(r) \/ Return(r) \/ Kill(r)
           \/ \E h \in Blobs : Ask(r, h)
    PROVE  torn' \/ SafeInv'
<1> USE DEF Safe, Held
<1>0. /\ run \in [Runs -> Run] /\ run[r] \in Run /\ TypeOK /\ SafeFiles /\ Safe(r)
      /\ Carries(r)
  BY DEF SafeInv, TypeInv, TypeOK
<1>1. CASE Look(r)
  <2>1. Stepped(r) /\ Safe(r)'
    BY <1>0, <1>1, LookRun DEF Look, At
  <2>2. SafeFiles'
    BY <1>0, <1>1 DEF SafeFiles, Look, At
  <2> QED
    BY <1>1, <2>1, <2>2, SafeStep DEF Look, At
<1>2. CASE Upload(r)
  <2>0. run[r].blob \in Blobs
    BY <1>0, <1>2 DEF Upload, At, Carries, Carrying
  <2>1. Stepped(r) /\ Safe(r)'
    BY <2>0, <1>0, <1>2, UploadRun DEF Upload, At
  <2>2. SafeFiles'
    BY <2>0, <1>0, <1>2 DEF SafeFiles, Upload, At
  <2> QED
    BY <1>2, <2>1, <2>2, SafeStep DEF Upload, At
<1>3. CASE Create(r)
  <2>1. Stepped(r) /\ Safe(r)'
    BY <1>0, <1>3, CreateRun DEF Create, At
  <2>2. SafeFiles'
    BY <1>0, <1>3, FolderAssumption DEF SafeFiles, Create, At
  <2> QED
    BY <1>3, <2>1, <2>2, SafeStep, FolderAssumption DEF Create, At
<1>4. CASE Stat(r)
  <2>1. Stepped(r) /\ Safe(r)'
    BY <1>0, <1>4, StatRun DEF Stat, At, SafeFiles
  <2>2. SafeFiles'
    BY <1>0, <1>4 DEF SafeFiles, Stat, At
  <2> QED
    BY <1>4, <2>1, <2>2, SafeStep DEF Stat, At
<1>5. CASE Unlink(r)
  <2>1. Stepped(r) /\ Safe(r)'
    BY <1>0, <1>5, UnlinkRun DEF Unlink, At
  <2>2. SafeFiles'
    BY <1>0, <1>5 DEF SafeFiles, Unlink, At
  <2>3. CASE lock \in Runs /\ lock' # lock
    BY <1>5, <2>3 DEF Unlink
  <2>4. CASE ~(lock \in Runs /\ lock' # lock)
    BY <1>5, <2>1, <2>2, <2>4, SafeStep DEF Unlink
  <2> QED
    BY <2>3, <2>4
<1>6. CASE Return(r)
  <2>1. Stepped(r) /\ Safe(r)'
    BY <1>0, <1>6, ReturnRun DEF Return, At
  <2>2. SafeFiles'
    BY <1>0, <1>6 DEF SafeFiles, Return, At
  <2> QED
    BY <1>6, <2>1, <2>2, SafeStep DEF Return, At
<1>7. CASE Kill(r)
  <2>1. Stepped(r) /\ Safe(r)'
    BY <1>0, <1>7, KillRun DEF Kill, At
  <2>2. SafeFiles'
    BY <1>0, <1>7 DEF SafeFiles, Kill, At
  <2> QED
    BY <1>7, <2>1, <2>2, SafeStep DEF Kill, Left
<1>8. ASSUME NEW h \in Blobs, Ask(r, h)
      PROVE  SafeInv'
  <2>1. Stepped(r) /\ Safe(r)'
    BY <1>0, <1>8, AskRun DEF Ask, At
  <2>2. SafeFiles'
    BY <1>0, <1>8 DEF SafeFiles, Ask, At
  <2> QED
    BY <1>8, <2>1, <2>2, SafeStep DEF Ask, At
<1> QED
  BY <1>1, <1>2, <1>3, <1>4, <1>5, <1>6, <1>7, <1>8

LEMMA HolderSafe ==
    ASSUME SafeInv, TypeInv', NEW r \in Runs,
           \/ Compare(r) \/ Restore(r) \/ Swap(r) \/ ReadPulled(r) \/ Consume(r) \/ Prune(r)
           \/ Sweep(r) \/ Unlock(r) \/ IoError(r)
           \/ \E h \in Blobs : RemoveCopy(r, h)
    PROVE  SafeInv'
<1> USE DEF Safe, Held
<1>0. /\ run \in [Runs -> Run] /\ run[r] \in Run /\ TypeOK /\ SafeFiles /\ Safe(r)
      /\ Carries(r)
  BY DEF SafeInv, TypeInv, TypeOK
<1>1. CASE Compare(r)
  <2>1. Stepped(r) /\ Safe(r)'
    BY <1>0, <1>1, CompareRun DEF Compare, At
  <2>2. SafeFiles'
    BY <1>0, <1>1 DEF SafeFiles, Compare, At, Garbage
  <2> QED
    BY <1>1, <2>1, <2>2, SafeStep DEF Compare, At
<1>2. CASE Restore(r)
  <2>1. Stepped(r) /\ Safe(r)'
    BY <1>0, <1>2, RestoreRun DEF Restore, At, StoredAgain, TypeInv
  <2>2. SafeFiles'
    BY <1>0, <1>2 DEF SafeFiles, Restore, At, StoredAgain
  <2> QED
    BY <1>2, <2>1, <2>2, SafeStep DEF Restore, At
<1>3. CASE Swap(r)
  <2>1. Stepped(r) /\ Safe(r)'
    BY <1>0, <1>3, SwapRun DEF Swap, At
  <2>2. SafeFiles'
    BY <1>0, <1>3 DEF SafeFiles, Swap, At
  <2> QED
    BY <1>3, <2>1, <2>2, SafeStep DEF Swap, At
<1>4. CASE ReadPulled(r)
  <2>1. Stepped(r) /\ Safe(r)'
    BY <1>0, <1>4, ReadPulledRun DEF ReadPulled, At
  <2>2. SafeFiles'
    BY <1>0, <1>4 DEF SafeFiles, ReadPulled, At
  <2> QED
    BY <1>4, <2>1, <2>2, SafeStep DEF ReadPulled, At
<1>5. CASE Consume(r)
  <2>1. Stepped(r) /\ Safe(r)'
    BY <1>0, <1>5, ConsumeRun DEF Consume, At
  <2>2. SafeFiles'
    BY <1>0, <1>5 DEF SafeFiles, Consume, At
  <2> QED
    BY <1>5, <2>1, <2>2, SafeStep DEF Consume, At
<1>6. CASE Prune(r)
  <2>0. run[r].blob \in Blobs
    BY <1>0, <1>6 DEF Prune, At, Carries, Carrying
  <2>1. Stepped(r) /\ Safe(r)'
    BY <2>0, <1>0, <1>6, PruneRun DEF Prune, At
  <2>2. SafeFiles'
    BY <2>0, <1>0, <1>6 DEF SafeFiles, Prune, At
  <2> QED
    BY <1>6, <2>1, <2>2, SafeStep DEF Prune, At
<1>7. CASE Sweep(r)
  <2>1. Stepped(r) /\ Safe(r)'
    BY <1>0, <1>7, SweepRun DEF Sweep, At
  <2>2. SafeFiles'
    BY <1>0, <1>7 DEF SafeFiles, Sweep, At
  <2> QED
    BY <1>7, <2>1, <2>2, SafeStep DEF Sweep, At
<1>8. CASE Unlock(r)
  <2>0. run[r].answer # "none"
    BY <1>0, <1>8 DEF Unlock, At, Carries, Carrying
  <2>1. Stepped(r) /\ Safe(r)'
    BY <2>0, <1>0, <1>8, UnlockRun DEF Unlock, At
  <2>2. SafeFiles'
    BY <2>0, <1>0, <1>8 DEF SafeFiles, Unlock, At
  <2> QED
    BY <1>8, <2>1, <2>2, SafeStep DEF Unlock, At
<1>9. CASE IoError(r)
  <2>1. Stepped(r) /\ Safe(r)'
    BY <1>0, <1>9, IoErrorRun DEF IoError, At
  <2>2. SafeFiles'
    BY <1>0, <1>9 DEF SafeFiles, IoError, At
  <2> QED
    BY <1>9, <2>1, <2>2, SafeStep DEF IoError, At
<1>10. ASSUME NEW h \in Blobs, RemoveCopy(r, h)
      PROVE  SafeInv'
  <2>1. Stepped(r) /\ Safe(r)'
    BY <1>0, <1>10, RemoveCopyRun DEF RemoveCopy, At
  <2>2. SafeFiles'
    BY <1>0, <1>10 DEF SafeFiles, RemoveCopy, At
  <2> QED
    BY <1>10, <2>1, <2>2, SafeStep DEF RemoveCopy, At
<1> QED
  BY <1>1, <1>2, <1>3, <1>4, <1>5, <1>6, <1>7, <1>8, <1>9, <1>10

LEMMA FolderInit == Init => FolderInv
<1> SUFFICES ASSUME Init PROVE FolderInv
  OBVIOUS
<1>1. \A r \in Runs : run[r].pc = "idle"
  BY DEF Init, Quiet
<1>2. SafeFiles
  BY DEF Init, SafeFiles
<1> QED
  BY <1>1, <1>2, TypeInit DEF FolderInv, SafeInv, Safe, Held

LEMMA SafeNext == SafeInv /\ [Next]_dvars => torn' \/ SafeInv'
<1> SUFFICES ASSUME SafeInv, [Next]_dvars PROVE torn' \/ SafeInv'
  OBVIOUS
<1>0. TypeInv'
  BY TypeNext DEF SafeInv
<1>1. CASE \/ UNCHANGED dvars \/ LockAges
           \/ \E h \in Foreign : CopyArrives(h) \/ BlobArrives(h)
  <2>1. run' = run /\ head' = head /\ lock' = lock /\ blobs \subseteq blobs'
    BY <1>1 DEF dvars, LockAges, CopyArrives, BlobArrives
  <2>2. SafeFiles'
    BY <2>1 DEF SafeInv, SafeFiles
  <2>3. \A r \in Runs : Safe(r)'
    BY <2>1 DEF SafeInv, Safe
  <2> QED
    BY <1>0, <2>2, <2>3 DEF SafeInv
<1>2. ASSUME NEW r \in Runs,
             \/ ReadHead(r) \/ ReadBlob(r) \/ ListCopies(r) \/ Record(r)
             \/ \E h \in Blobs : ReadCopy(r, h)
      PROVE  SafeInv'
  BY <1>0, <1>2, PullSafe
<1>3. ASSUME NEW r \in Runs,
             \/ Look(r) \/ Upload(r) \/ Create(r) \/ Stat(r) \/ Unlink(r) \/ Return(r)
                \/ Kill(r)
             \/ \E h \in Blobs : Ask(r, h)
      PROVE  torn' \/ SafeInv'
  BY <1>0, <1>3, FreeSafe
<1>4. ASSUME NEW r \in Runs,
             \/ Compare(r) \/ Restore(r) \/ Swap(r) \/ ReadPulled(r) \/ Consume(r) \/ Prune(r)
             \/ Sweep(r) \/ Unlock(r) \/ IoError(r)
             \/ \E h \in Blobs : RemoveCopy(r, h)
      PROVE  SafeInv'
  BY <1>0, <1>4, HolderSafe
<1> QED
  BY <1>1, <1>2, <1>3, <1>4 DEF Next

\* A lock once taken away at work stays noted.
LEMMA TornStays == [Next]_dvars => (torn => torn')
  BY DEF Next, dvars, ReadHead, ReadBlob, ListCopies, Record, Look, Upload, Create, Stat,
         Unlink, Compare, Restore, Swap, ReadPulled, Consume, Prune, Sweep, Unlock, Return,
         IoError, Kill, ReadCopy, RemoveCopy, Ask, LockAges, CopyArrives, BlobArrives

LEMMA FolderNext == FolderInv /\ [Next]_dvars => FolderInv'
  BY TypeNext, SafeNext, TornStays DEF FolderInv

\* HEAD never names a snapshot that is not there, for any number of machines,
\* directories and bytes, whoever is killed at which step: the second store
\* under the lock puts back what a prune or a clean-up took (main.rs 444-486).
\* Only where a push took away the lock of another at work nothing is said.
THEOREM HeadIsWholeCorrect == Spec => []HeadIsWhole
<1>1. FolderInv => HeadIsWhole
  BY DEF FolderInv, SafeInv, SafeFiles, HeadIsWhole
<1> QED
  BY FolderInit, FolderNext, <1>1, PTL DEF Spec

\* A push moves HEAD from the version its caller expected (core/remote.rs
\* 40-43), for any number of machines and whoever is killed, until a push takes
\* away the lock of another at work (main.rs 588-591).
THEOREM PushIsCasCorrect == Spec => PushIsCas
<1>1. FolderInv =>
        [\A r \in Runs :
            At(r, "swap") /\ At(r, "merged")' => torn \/ head = run[r].base]_dvars
  BY DEF FolderInv, SafeInv, Safe, At
<1> QED
  BY FolderInit, FolderNext, <1>1, PTL DEF Spec, PushIsCas

-----------------------------------------------------------------------------
(* The folder implements CasRemote: every step of DirRemote is a step of   *)
(* CasRemote under the mapping CallOf, or none.                            *)

Calls == [r \in Runs |-> CallOf(r)]
RemoteVars == <<head, copies, pulled, Calls>>
C(phase, base, got, blob) == [phase |-> phase, base |-> base, got |-> got, blob |-> blob]

\* A step of run r moves r's call alone.
LEMMA OneCall ==
    ASSUME NEW r \in Runs, Stepped(r)
    PROVE  Calls' = [Calls EXCEPT ![r] = CallOf(r)']
<1>1. \A s \in Runs \ {r} : CallOf(s)' = CallOf(s)
  BY DEF Stepped, CallOf, Phase
<1> QED
  BY <1>1 DEF Calls

\* A step that leaves r's call as it is, and what others see, is none.
LEMMA Stutters ==
    ASSUME NEW r \in Runs, Stepped(r), CallOf(r)' = CallOf(r), UNCHANGED <<head, copies,
    pulled>>
    PROVE  UNCHANGED RemoteVars
<1>1. Calls' = Calls
  BY OneCall DEF Calls
<1> QED
  BY <1>1 DEF RemoteVars

LEMMA PullRefines ==
    ASSUME SafeInv, NEW r \in Runs,
           \/ ReadHead(r) \/ ReadBlob(r) \/ ListCopies(r) \/ Record(r)
           \/ \E h \in Blobs : ReadCopy(r, h)
    PROVE  [Remote!Next]_RemoteVars
<1>0. TypeOK /\ Carries(r) /\ Safe(r) /\ run[r] \in Run
  BY DEF SafeInv, TypeInv, TypeOK
<1>1. CASE ReadHead(r)
  <2>1. Stepped(r) /\ CallOf(r).phase = "idle"
    BY <1>0, <1>1, ReadHeadRun DEF CallOf, Phase, ReadHead, At, Carries, Carrying
  <2>2. CallOf(r)' = C("pulling", head, {head} \ {NoVersion}, NoVersion)
    BY <1>0, <1>1, ReadHeadRun DEF CallOf, Phase, C, ReadHead, At, Carries, Carrying
  <2>3. Calls' = [Calls EXCEPT ![r] = C("pulling", head, {head} \ {NoVersion}, NoVersion)]
    BY <2>1, <2>2, OneCall
  <2>4. Remote!PullHead(r)
    BY <1>0, <1>1, <2>1, <2>3 DEF Remote!PullHead, Remote!Idle, C, ReadHead, Calls, CallOf
  <2> QED
    BY <2>4 DEF Remote!Next
<1>2. CASE ReadBlob(r)
  <2>0. Stepped(r)
    BY <1>0, <1>2, ReadBlobRun
  <2>1. CASE run'[r].pc = "list"
    <3>1. CallOf(r)' = CallOf(r)
      BY <2>1, <1>0, <1>2, ReadBlobRun DEF CallOf, Phase, ReadBlob, At, Carries, Carrying, Held
    <3> QED
      BY <1>2, <2>0, <3>1, Stutters DEF ReadBlob
  <2>2. CASE run'[r].pc = "failed"
    <3>1. CallOf(r).phase = "pulling"
      BY <2>2, <1>0, <1>2, ReadBlobRun DEF CallOf, Phase, ReadBlob, At
    <3>2. CallOf(r)' = C("failed", NoVersion, {}, NoVersion)
      BY <2>2, <1>0, <1>2, ReadBlobRun DEF CallOf, Phase, C, ReadBlob, At, Held
    <3>3. Calls' = [Calls EXCEPT ![r] = C("failed", NoVersion, {}, NoVersion)]
      BY <2>0, <3>2, OneCall
    <3>4. Remote!Fail(r)
      BY <2>2, <1>0, <1>2, <3>1, <3>3 DEF Remote!Fail, Remote!Idle, C, ReadBlob, Calls, CallOf
    <3> QED
      BY <3>4 DEF Remote!Next
  <2> QED
    BY <2>1, <2>2, <1>0, <1>2, ReadBlobRun
<1>3. CASE ListCopies(r)
  <2>1. Stepped(r) /\ CallOf(r)' = CallOf(r)
    BY <1>0, <1>3, ListCopiesRun DEF CallOf, Phase, ListCopies, At, Carries, Carrying
  <2> QED
    BY <1>3, <2>1, Stutters DEF ListCopies
<1>4. CASE Record(r)
  <2>1. Stepped(r) /\ CallOf(r).phase = "pulling"
    BY <1>0, <1>4, RecordRun DEF CallOf, Phase, Record, At, Carries, Carrying
  <2>2. CallOf(r)' = C("pulled", run[r].base, run[r].got, NoVersion)
    BY <1>0, <1>4, RecordRun DEF CallOf, Phase, C, Record, At, Carries, Carrying
  <2>3. Calls' = [Calls EXCEPT ![r] = C("pulled", run[r].base, run[r].got, NoVersion)]
    BY <2>1, <2>2, OneCall
  <2>4. Remote!PullEnd(r)
    BY <1>0, <1>4, <2>1, <2>3 DEF Remote!PullEnd, Remote!Idle, C, Record, Calls, CallOf
  <2> QED
    BY <2>4 DEF Remote!Next
<1>5. ASSUME NEW h \in Blobs, ReadCopy(r, h)
      PROVE  [Remote!Next]_RemoteVars
  <2>1. Stepped(r) /\ CallOf(r).phase = "pulling"
    BY <1>0, <1>5, ReadCopyRun DEF CallOf, Phase, ReadCopy, At
  <2>2. CASE h \notin copies \/ h \notin blobs
    <3>0. run'[r].got = run[r].got
      <4>1. run'[r].got = run[r].got \cup ({h} \cap copies \cap blobs)
        BY <1>0, <1>5, ReadCopyRun
      <4>2. {h} \cap copies \cap blobs = {}
        BY <2>2
      <4> QED
        BY <4>1, <4>2
    <3>1. CallOf(r)' = CallOf(r)
      BY <3>0, <1>0, <1>5, ReadCopyRun DEF CallOf, Phase, ReadCopy, At
    <3> QED
      BY <1>5, <2>1, <3>1, Stutters DEF ReadCopy
  <2>3. CASE h \in copies /\ h \in blobs
    <3>0. run'[r].got = run[r].got \cup {h}
      BY <2>3, <1>0, <1>5, ReadCopyRun
    <3>1. CallOf(r)' = C("pulling", run[r].base, run[r].got \cup {h}, NoVersion)
      BY <3>0, <1>0, <1>5, ReadCopyRun DEF CallOf, Phase, C, ReadCopy, At
    <3>2. Calls' = [Calls EXCEPT ![r] = C("pulling", run[r].base, run[r].got \cup {h},
          NoVersion)]
      BY <2>1, <3>1, OneCall
    <3>3. Remote!PullCopy(r, h)
      BY <2>1, <2>3, <1>5, <3>2 DEF Remote!PullCopy, C, ReadCopy, Calls, CallOf
    <3> QED
      BY <3>3 DEF Remote!Next
  <2> QED
    BY <2>2, <2>3
<1> QED
  BY <1>1, <1>2, <1>3, <1>4, <1>5

LEMMA FreeRefines ==
    ASSUME SafeInv, NEW r \in Runs,
           \/ Look(r) \/ Upload(r) \/ Create(r) \/ Stat(r) \/ Unlink(r) \/ Return(r)
           \/ Kill(r)
           \/ \E h \in Blobs \ Foreign : Ask(r, h)
    PROVE  [Remote!Next]_RemoteVars
<1>0. TypeOK /\ Carries(r) /\ Safe(r) /\ run[r] \in Run
  BY DEF SafeInv, TypeInv, TypeOK
<1>1. CASE Look(r)
  <2>1. Stepped(r) /\ CallOf(r)' = CallOf(r)
    BY <1>0, <1>1, LookRun DEF CallOf, Phase, Look, At, Carries, Carrying
  <2> QED
    BY <1>1, <2>1, Stutters DEF Look
<1>2. CASE Upload(r)
  <2>0. run[r].blob \in Blobs
    BY <1>0, <1>2 DEF Upload, At, Carries, Carrying
  <2>1. Stepped(r) /\ CallOf(r)' = CallOf(r)
    BY <2>0, <1>0, <1>2, UploadRun DEF CallOf, Phase, Upload, At, Carries, Carrying
  <2> QED
    BY <1>2, <2>1, Stutters DEF Upload
<1>3. CASE Create(r)
  <2>1. Stepped(r) /\ CallOf(r)' = CallOf(r)
    BY <1>0, <1>3, CreateRun DEF CallOf, Phase, Create, At, Carries, Carrying
  <2> QED
    BY <1>3, <2>1, Stutters DEF Create
<1>4. CASE Stat(r)
  <2>0. Stepped(r)
    BY <1>0, <1>4, StatRun
  <2>1. CASE run'[r].pc # "failed"
    <3>1. CallOf(r)' = CallOf(r)
      BY <2>1, <1>0, <1>4, StatRun DEF CallOf, Phase, Stat, At, Carries, Carrying, Held
    <3> QED
      BY <1>4, <2>0, <3>1, Stutters DEF Stat
  <2>2. CASE run'[r].pc = "failed"
    <3>1. CallOf(r).phase = "pushing"
      BY <2>2, <1>0, <1>4, StatRun DEF CallOf, Phase, Stat, At
    <3>2. CallOf(r)' = C("failed", NoVersion, {}, NoVersion)
      BY <2>2, <1>0, <1>4, StatRun DEF CallOf, Phase, C, Stat, At, Held
    <3>3. Calls' = [Calls EXCEPT ![r] = C("failed", NoVersion, {}, NoVersion)]
      BY <2>0, <3>2, OneCall
    <3>4. Remote!Fail(r)
      BY <2>2, <1>0, <1>4, <3>1, <3>3 DEF Remote!Fail, Remote!Idle, C, Stat, Calls, CallOf
    <3> QED
      BY <3>4 DEF Remote!Next
  <2> QED
    BY <2>1, <2>2, <1>0, <1>4, StatRun
<1>5. CASE Return(r)
  <2>1. Stepped(r) /\ CallOf(r).phase \in {"pulled", "pushed", "conflict", "failed"}
    BY <1>0, <1>5, ReturnRun DEF CallOf, Phase, Return, At, Carries, Carrying
  <2>2. CallOf(r)' = C("idle", NoVersion, {}, NoVersion)
    BY <1>0, <1>5, ReturnRun DEF CallOf, Phase, C, Return, At, Carries, Carrying
  <2>3. Calls' = [Calls EXCEPT ![r] = C("idle", NoVersion, {}, NoVersion)]
    BY <2>1, <2>2, OneCall
  <2>4. Remote!Return(r)
    BY <1>0, <1>5, <2>1, <2>3 DEF Remote!Return, Remote!Idle, C, Return, Calls, CallOf
  <2> QED
    BY <2>4 DEF Remote!Next
<1>6. ASSUME NEW h \in Blobs \ Foreign, Ask(r, h)
      PROVE  [Remote!Next]_RemoteVars
  <2>1. Stepped(r) /\ CallOf(r).phase = "pulled"
    BY <1>0, <1>6, AskRun DEF CallOf, Phase, Ask, At, Carries, Carrying
  <2>2. CallOf(r)' = C("pushing", run[r].base, {}, h)
    BY <1>0, <1>6, AskRun DEF CallOf, Phase, C, Ask, At, Carries, Carrying
  <2>3. Calls' = [Calls EXCEPT ![r] = C("pushing", run[r].base, {}, h)]
    BY <2>1, <2>2, OneCall
  <2>4. Remote!Ask(r, h)
    BY <1>0, <1>6, <2>1, <2>3 DEF Remote!Ask, Remote!Idle, C, Ask, Calls, CallOf
  <2> QED
    BY <2>4 DEF Remote!Next
<1>7. CASE Unlink(r)
  <2>1. Stepped(r) /\ CallOf(r)' = CallOf(r)
    BY <1>0, <1>7, UnlinkRun DEF CallOf, Phase, Unlink, At, Carries, Carrying
  <2> QED
    BY <1>7, <2>1, Stutters DEF Unlink
<1>8. CASE Kill(r)
  <2>0. Stepped(r)
    BY <1>0, <1>8, KillRun
  <2>1. CallOf(r)' = C("failed", NoVersion, {}, NoVersion)
    BY <1>0, <1>8, KillRun DEF CallOf, Phase, C, Kill, At
  <2>2. CASE CallOf(r).phase = "failed"
    <3>1. CallOf(r)' = CallOf(r)
      BY <2>1, <2>2, <1>0, <1>8 DEF CallOf, Phase, C, Kill, Carries, Run, Pcs
    <3> QED
      BY <1>8, <2>0, <3>1, Stutters DEF Kill
  <2>3. CASE CallOf(r).phase # "failed"
    <3>1. CallOf(r).phase \notin {"idle", "failed"}
      BY <2>3, <1>0, <1>8 DEF CallOf, Phase, Kill, Run, Pcs, Carries
    <3>2. Calls' = [Calls EXCEPT ![r] = C("failed", NoVersion, {}, NoVersion)]
      BY <2>0, <2>1, OneCall
    <3>3. Remote!Fail(r)
      BY <1>8, <3>1, <3>2 DEF Remote!Fail, Remote!Idle, C, Kill, Calls, CallOf
    <3> QED
      BY <3>3 DEF Remote!Next
  <2> QED
    BY <2>2, <2>3
<1> QED
  BY <1>1, <1>2, <1>3, <1>4, <1>5, <1>6, <1>7, <1>8

LEMMA HolderRefines ==
    ASSUME SafeInv, NEW r \in Runs,
           \/ Compare(r) \/ Restore(r) \/ Swap(r) \/ ReadPulled(r) \/ Consume(r) \/ Prune(r)
           \/ Sweep(r) \/ Unlock(r) \/ IoError(r)
           \/ \E h \in Blobs : RemoveCopy(r, h)
    PROVE  [Remote!Next]_RemoteVars
<1>0. TypeOK /\ Carries(r) /\ Safe(r) /\ run[r] \in Run
  BY DEF SafeInv, TypeInv, TypeOK
<1>1. CASE Compare(r)
  <2>0. Stepped(r)
    BY <1>0, <1>1, CompareRun
  <2>1. CASE run'[r].pc = "restore"
    <3>1. CallOf(r)' = CallOf(r)
      BY <2>1, <1>0, <1>1, CompareRun DEF CallOf, Phase, Compare, At, Carries, Carrying, Held
    <3> QED
      BY <1>1, <2>0, <3>1, Stutters DEF Compare
  <2>2. CASE run'[r].pc = "unlock"
    <3>1. CallOf(r).phase = "pushing" /\ head # CallOf(r).base
      BY <2>2, <1>0, <1>1, CompareRun DEF CallOf, Phase, Compare, At
    <3>2. CallOf(r)' = C("conflict", NoVersion, {}, NoVersion)
      BY <2>2, <1>0, <1>1, CompareRun DEF CallOf, Phase, C, Compare, At, Held
    <3>3. Calls' = [Calls EXCEPT ![r] = C("conflict", NoVersion, {}, NoVersion)]
      BY <2>0, <3>2, OneCall
    <3>4. Remote!Conflict(r)
      BY <2>2, <1>0, <1>1, <3>1, <3>3
         DEF Remote!Conflict, Remote!Idle, C, Compare, Calls, CallOf
    <3> QED
      BY <3>4 DEF Remote!Next
  <2> QED
    BY <2>1, <2>2, <1>0, <1>1, CompareRun
<1>2. CASE Restore(r)
  <2>1. Stepped(r) /\ CallOf(r)' = CallOf(r)
    BY <1>0, <1>2, RestoreRun DEF CallOf, Phase, Restore, At, Carries, Carrying
  <2> QED
    BY <1>2, <2>1, Stutters DEF Restore
<1>3. CASE Swap(r)
  <2>0. run[r].blob \in Blobs /\ head = run[r].base
    BY <1>0, <1>3 DEF Swap, At, Carries, Carrying, Safe
  <2>1. Stepped(r) /\ CallOf(r).phase = "pushing" /\ CallOf(r).base = head
        /\ CallOf(r).blob = run[r].blob
    BY <2>0, <1>0, <1>3, SwapRun DEF CallOf, Phase, Swap, At, Carries, Carrying
  <2>2. CallOf(r)' = C("landed", NoVersion, {}, NoVersion)
    BY <2>0, <1>0, <1>3, SwapRun DEF CallOf, Phase, C, Swap, At, Carries, Carrying
  <2>3. Calls' = [Calls EXCEPT ![r] = C("landed", NoVersion, {}, NoVersion)]
    BY <2>1, <2>2, OneCall
  <2>4. Remote!Land(r)
    BY <2>0, <1>0, <1>3, <2>1, <2>3
       DEF Remote!Land, Remote!Idle, C, Swap, Calls, CallOf, Remote!MayLand
  <2> QED
    BY <2>4 DEF Remote!Next
<1>4. CASE ReadPulled(r)
  <2>1. Stepped(r) /\ CallOf(r) = C("landed", NoVersion, run[r].got, NoVersion)
    BY <1>0, <1>4, ReadPulledRun DEF CallOf, Phase, ReadPulled, At, Carries, Carrying, C
  <2>2. CallOf(r)' = C("dropping", NoVersion, pulled[DirOf[r]], NoVersion)
    BY <1>0, <1>4, ReadPulledRun DEF CallOf, Phase, C, ReadPulled, At, Carries, Carrying
  <2>3. Calls' = [Calls EXCEPT ![r] = C("dropping", NoVersion, pulled[DirOf[r]], NoVersion)]
    BY <2>1, <2>2, OneCall
  <2>4. Remote!Merged(r)
    BY <1>0, <1>4, <2>1, <2>3 DEF Remote!Merged, Remote!Idle, C, ReadPulled, Calls, CallOf
  <2> QED
    BY <2>4 DEF Remote!Next
<1>5. CASE Consume(r)
  <2>1. Stepped(r) /\ CallOf(r).phase = "dropping"
    BY <1>0, <1>5, ConsumeRun DEF CallOf, Phase, Consume, At, Carries, Carrying
  <2>2. CallOf(r)' = C("pushed", NoVersion, {}, NoVersion)
    BY <1>0, <1>5, ConsumeRun DEF CallOf, Phase, C, Consume, At, Carries, Carrying
  <2>3. Calls' = [Calls EXCEPT ![r] = C("pushed", NoVersion, {}, NoVersion)]
    BY <2>1, <2>2, OneCall
  <2>4. Remote!Consume(r)
    BY <1>0, <1>5, <2>1, <2>3 DEF Remote!Consume, Remote!Idle, C, Consume, Calls, CallOf
  <2> QED
    BY <2>4 DEF Remote!Next
<1>6. CASE Prune(r)
  <2>0. run[r].blob \in Blobs
    BY <1>0, <1>6 DEF Prune, At, Carries, Carrying
  <2>1. Stepped(r) /\ CallOf(r)' = CallOf(r)
    BY <2>0, <1>0, <1>6, PruneRun DEF CallOf, Phase, Prune, At, Carries, Carrying
  <2> QED
    BY <1>6, <2>1, Stutters DEF Prune
<1>7. CASE Sweep(r)
  <2>1. Stepped(r) /\ CallOf(r)' = CallOf(r)
    BY <1>0, <1>7, SweepRun DEF CallOf, Phase, Sweep, At, Carries, Carrying
  <2> QED
    BY <1>7, <2>1, Stutters DEF Sweep
<1>8. CASE Unlock(r)
  <2>0. run[r].answer # "none"
    BY <1>0, <1>8 DEF Unlock, At, Carries, Carrying
  <2>1. Stepped(r) /\ CallOf(r)' = CallOf(r)
    BY <2>0, <1>0, <1>8, UnlockRun DEF CallOf, Phase, Unlock, At, Carries, Carrying
  <2> QED
    BY <1>8, <2>1, Stutters DEF Unlock
<1>9. CASE IoError(r)
  <2>0. Stepped(r)
    BY <1>0, <1>9, IoErrorRun
  <2>1. CASE run[r].pc \in {"prune", "sweep"}
    <3>1. CallOf(r)' = CallOf(r)
      BY <2>1, <1>0, <1>9, IoErrorRun DEF CallOf, Phase, IoError, At, Carries, Carrying, Held
    <3> QED
      BY <1>9, <2>0, <3>1, Stutters DEF IoError
  <2>2. CASE run[r].pc \notin {"prune", "sweep"}
    <3>1. CallOf(r).phase \in {"pulling", "pushing"}
      BY <2>2, <1>0, <1>9, IoErrorRun DEF CallOf, Phase, IoError, At
    <3>2. CallOf(r)' = C("failed", NoVersion, {}, NoVersion)
      BY <2>2, <1>0, <1>9, IoErrorRun DEF CallOf, Phase, C, IoError, At, Held
    <3>3. Calls' = [Calls EXCEPT ![r] = C("failed", NoVersion, {}, NoVersion)]
      BY <2>0, <3>2, OneCall
    <3>4. Remote!Fail(r)
      BY <2>2, <1>0, <1>9, <3>1, <3>3 DEF Remote!Fail, Remote!Idle, C, IoError, Calls, CallOf
    <3> QED
      BY <3>4 DEF Remote!Next
  <2> QED
    BY <2>1, <2>2, <1>0, <1>9, IoErrorRun
<1>10. ASSUME NEW h \in Blobs, RemoveCopy(r, h)
      PROVE  [Remote!Next]_RemoteVars
  <2>1. Stepped(r) /\ CallOf(r)' = CallOf(r)
    BY <1>0, <1>10, RemoveCopyRun DEF CallOf, Phase, RemoveCopy, At
  <2>2. CallOf(r).phase = "dropping" /\ h \in CallOf(r).got
    BY <1>0, <1>10 DEF CallOf, Phase, RemoveCopy, At, Carries
  <2>3. Calls' = Calls
    BY <2>1, OneCall DEF Calls
  <2>4. Remote!Drop(r, h)
    BY <1>10, <2>2, <2>3 DEF Remote!Drop, RemoveCopy, Calls
  <2> QED
    BY <2>4 DEF Remote!Next
<1> QED
  BY <1>1, <1>2, <1>3, <1>4, <1>5, <1>6, <1>7, <1>8, <1>9, <1>10

LEMMA NextRefines == SafeInv /\ [Next]_dvars => [Remote!Next]_RemoteVars
<1> SUFFICES ASSUME SafeInv, [Next]_dvars PROVE [Remote!Next]_RemoteVars
  OBVIOUS
<1>1. CASE \/ UNCHANGED dvars \/ LockAges \/ \E h \in Foreign : BlobArrives(h)
  <2>1. run' = run /\ UNCHANGED <<head, copies, pulled>>
    BY <1>1 DEF dvars, LockAges, BlobArrives
  <2>2. Calls' = Calls
    BY <2>1 DEF Calls, CallOf, Phase
  <2> QED
    BY <2>1, <2>2 DEF RemoteVars
<1>2. ASSUME NEW h \in Foreign, CopyArrives(h)
      PROVE  Remote!Next
  <2>1. Calls' = Calls
    BY <1>2 DEF Calls, CallOf, Phase, CopyArrives
  <2>2. Remote!CopyArrives(h) /\ h \in Blobs
    BY <1>2, <2>1, FolderAssumption DEF Remote!CopyArrives, CopyArrives, Calls
  <2> QED
    BY <2>2 DEF Remote!Next
<1>3. ASSUME NEW r \in Runs,
             \/ ReadHead(r) \/ ReadBlob(r) \/ ListCopies(r) \/ Record(r)
             \/ \E h \in Blobs : ReadCopy(r, h)
      PROVE  [Remote!Next]_RemoteVars
  BY <1>3, PullRefines
<1>4. ASSUME NEW r \in Runs,
             \/ Look(r) \/ Upload(r) \/ Create(r) \/ Stat(r) \/ Unlink(r) \/ Return(r)
             \/ Kill(r)
             \/ \E h \in Blobs \ Foreign : Ask(r, h)
      PROVE  [Remote!Next]_RemoteVars
  BY <1>4, FreeRefines
<1>5. ASSUME NEW r \in Runs,
             \/ Compare(r) \/ Restore(r) \/ Swap(r) \/ ReadPulled(r) \/ Consume(r) \/ Prune(r)
             \/ Sweep(r) \/ Unlock(r) \/ IoError(r)
             \/ \E h \in Blobs : RemoveCopy(r, h)
      PROVE  [Remote!Next]_RemoteVars
  BY <1>5, HolderRefines
<1> QED
  BY <1>1, <1>2, <1>3, <1>4, <1>5 DEF Next

LEMMA InitRefines == Init => Remote!Init
<1> SUFFICES ASSUME Init PROVE Remote!Init
  OBVIOUS
<1>1. \A r \in Runs : CallOf(r) = C("idle", NoVersion, {}, NoVersion)
  BY DEF Init, Quiet, CallOf, Phase, C
<1> QED
  BY <1>1 DEF Init, Remote!Init, Remote!Idle, C

\* What SyncLoop relies on of any remote (core/remote.rs 36-43), the folder
\* keeps, whoever is killed and whichever removals fail: a push lands on the
\* version it expected or answers conflict, it takes away only what its
\* directory's last pull handed back, and a call that failed changes nothing
\* more. It keeps it until a push takes away the lock of another at work; the
\* lock of a killed push may be taken away any number of times.
THEOREM ImplementsCorrect == Spec => Implements
<1>1. FolderInv /\ [Next]_dvars => torn \/ [Remote!Next]_RemoteVars
  BY NextRefines DEF FolderInv
<1>2. RemoteVars = Remote!cvars
  BY DEF RemoteVars, Remote!cvars, Calls
<1>3. FolderInv /\ [Next]_dvars =>
        [torn \/ UNCHANGED Remote!cvars \/ Remote!Next]_dvars
  BY <1>1, <1>2 DEF RemoteVars, Remote!cvars, Calls
<1> QED
  BY FolderInit, FolderNext, InitRefines, <1>3, PTL DEF Spec, Implements

=============================================================================
