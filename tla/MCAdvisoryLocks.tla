--------------------------- MODULE MCAdvisoryLocks ---------------------------
(* Instances of AdvisoryLocks for TLC: two of the keys have the same hash. *)
EXTENDS AdvisoryLocks, TLC

CONSTANTS k1, k2, i1

CollidingIDs == k1 :> i1 @@ k2 :> i1
=============================================================================
