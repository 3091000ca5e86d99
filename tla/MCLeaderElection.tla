-------------------------- MODULE MCLeaderElection --------------------------
(* Instance of LeaderElection for TLC: the values are in Leader.cfg. *)
EXTENDS LeaderElection
=============================================================================
