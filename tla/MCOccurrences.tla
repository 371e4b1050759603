--------------------------- MODULE MCOccurrences ----------------------------
(* Instances of Occurrences: two machines. *)
EXTENDS Occurrences, TLC

CONSTANTS m1, m2

Symmetric == Permutations(Stores)

Scene(calls, most) == [calls |-> calls, most |-> most]

\* Both machines complete an occurrence, and one thing happens to the copies:
\* four calls deep. Every call, two deep.
Every == {"done", "start", "stop", "reopen", "undo", "modify", "adjust_tracked", "dependency.add"}
TwoCopies ==
    {Scene({"done", call}, 4) : call \in {"start", "undo", "dependency.add"}}
        \cup {Scene({"done", "reopen"}, 3), Scene(Every, 2)}

\* One copy finished before the other was made.
Overtaken == {Scene({"done"}, 3)}

\* A copy that was worked on is folded with one whose store takes it back.
Retracted == {Scene({"done", "start", "undo"}, 4)}
=============================================================================
