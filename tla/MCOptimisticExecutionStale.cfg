SPECIFICATION Spec
CONSTANTS
    b1 = b1
    b2 = b2
    b3 = b3
    Blocks = {b1, b2, b3}
    Txs <- MCTxs
    Failing = {b3}
    HaltHeight = 3
    MaxRounds = 2
    MaxCrashes = 1
    RejectsAfterAccept = TRUE
INVARIANTS
    ResultIsExecution
CHECK_DEADLOCK FALSE
