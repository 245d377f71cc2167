CONSTANTS
    Accounts = {a1}
    Voters = {v1}
    ProposalIds = {1}
    Precision = 2
    ParamSets <- OnlyParams
    InitialParams <- Params
    Supply = 3
    Amounts = {1, 2}
    MaxBlockGap = 2
    SubmitUntil = 1
    MaxTime = 6
    Unregistering = "anytime"
SPECIFICATION Spec
INVARIANTS
    NeverHalts
