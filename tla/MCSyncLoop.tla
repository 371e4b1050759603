----------------------------- MODULE MCSyncLoop -----------------------------
(***************************************************************************)
(* Instances of SyncLoop for TLC: two machines, with one run each.         *)
(***************************************************************************)
EXTENDS SyncLoop

CONSTANTS m1, m2, r1, r2, x, y

OneEach == [r \in Runs |-> IF r = r1 THEN m1 ELSE m2]
AnyVersion == [id : Ids, holds : SUBSET Changes]

=============================================================================
