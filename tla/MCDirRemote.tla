---------------------------- MODULE MCDirRemote ----------------------------
(***************************************************************************)
(* Instances of DirRemote for TLC: two machines, one state directory each. *)
(***************************************************************************)
EXTENDS DirRemote, TLC

CONSTANTS r1, r2, b1, b2, c

OneEach == [r \in Runs |-> r]
Twins == Permutations({b1, b2}) \cup Permutations({r1, r2})
\* Of a folder whose lock was torn the properties say nothing more.
Whole == ~torn

=============================================================================
