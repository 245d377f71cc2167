------------------------ MODULE MCOptimisticExecution ------------------------
EXTENDS OptimisticExecution, TLC

CONSTANTS b1, b2, b3

\* b3 has no transaction and its end blockers fail.
MCTxs == (b1 :> 1) @@ (b2 :> 2) @@ (b3 :> 0)
=============================================================================
