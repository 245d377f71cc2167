CONSTANTS
    Accounts = {a1, a2}
    Voters = {v1}
    ProposalIds = {1, 2}
    Precision = 2
    ParamSets <- EagerOrOther
    InitialParams <- EagerChecks
    Supply = 3
    Amounts = {1, 2}
    MaxBlockGap = 2
    SubmitUntil = 1
    MaxTime = 6
    Unregistering = "never"
SPECIFICATION Spec
SYMMETRY Symmetry
INVARIANTS
    QueuesMatchStatus
    QuorumChecksSound
    
    
    MinDepositsAboveFloor
PROPERTIES
    PeriodsRespected
