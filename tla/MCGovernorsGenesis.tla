------------------------- MODULE MCGovernorsGenesis -------------------------
(* GovernorsGenesis on small sets of accounts and validators. *)
EXTENDS GovernorsGenesis, TLC

Symmetry == Permutations(Accounts) \cup Permutations(Validators)
=============================================================================
