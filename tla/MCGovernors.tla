---------------------------- MODULE MCGovernors ----------------------------
(* Governors, and tallies on its stores, on small sets of accounts and validators. *)
EXTENDS Tally, TLC

Symmetry == Permutations(Accounts) \cup Permutations(Validators)
=============================================================================
