--------------------------- MODULE MCDistribution ---------------------------
EXTENDS Distribution

Symmetry == Permutations(Delegators)
MCParams == [CommunityTax |-> 1, Enabled |-> TRUE]
=============================================================================
