CONSTANTS
    Accounts = {a1}
    Voters = {v1}
    ProposalIds = {1, 2}
    Precision = 2
    ParamSets <- MCParamSets
    InitialParams <- EagerChecks
    Supply = 4
    Amounts = {2}
    MaxBlockGap = 2
    SubmitUntil = 1
    MaxTime = 12
    RestartUntil = 5
    Unregistering = "unchecked"
SPECIFICATION FairSpecGenesis
INVARIANTS
    QueuesMatchStatus
    
PROPERTIES
    
    ProposalsEnd
