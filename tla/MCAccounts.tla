----------------------------- MODULE MCAccounts -----------------------------
(* Instances of Accounts for TLC. *)
EXTENDS Accounts, TLC

Symmetric == Permutations(Users) \cup Permutations(Seeding) \cup Permutations(Slots)
=============================================================================
