---------------------------- MODULE MCStoreMerge ----------------------------
(* Instances of StoreMerge: one task on two machines. *)
EXTENDS StoreMerge

OneClock == [s \in Stores |-> 0]
\* The second machine is a call or two behind the first.
SecondIsSlow == [s \in Stores |-> IF s = 1 THEN 2 ELSE 0]

Scene(skew, calls, undone, most) ==
    [skew |-> skew, calls |-> calls, undone |-> undone, most |-> most]

\* What moves the total, tags, a claim against a close and its reopening, and a
\* modify that cancels against its undo, three calls deep; every other call, two
\* deep, with one clock and with two.
Timed == {"start", "stop", "modify tracked"}
Every == {"start", "stop", "done", "cancel", "reopen", "claim", "release", "modify",
          "modify status", "adjust_tracked", "tag.add", "tag.remove"}
Tagging == {"tag.add", "tag.remove"}
Merges ==
    {Scene(OneClock, Timed, {"stop"}, 3)}
        \cup {Scene(OneClock, Tagging, Tagging, 3)}
        \cup {Scene(OneClock, {"done", "reopen", "claim"}, {}, 3)}
        \cup {Scene(OneClock, {"start", "modify status"}, {"modify"}, 3)}
        \cup {Scene(skew, Every, Every, 2) : skew \in {OneClock, SecondIsSlow}}

\* The theorems about totals speak of them.
ASSUME MergesAreRepayable == Scenes = Merges => Repayable

\* A stop is undone and the interval stopped again.
Restops == {Scene(OneClock, {"start", "stop"}, {"stop"}, 4)}

\* No guard and no field but the rev itself reads the rev.
Blank(c) == [c EXCEPT !.row.rev = 0]
ButRev == <<now, scene, [s \in Stores |-> Blank(copy[s])], [s \in Stores |-> Blank(doc[s])],
            [s \in Stores |-> [last[s] EXCEPT !.before.rev = 0]], edits>>
=============================================================================
