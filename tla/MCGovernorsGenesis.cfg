CONSTANTS
    a1 = a1
    a2 = a2
    v1 = v1
    v2 = v2
    Accounts = {a1, a2}
    Validators = {v1}
    None = None
    Precision = 4
    Amounts = {1, 2}
    SlashFactor = 2
    MaxShares = 3
    MaxTime = 1
    StatusChangePeriod = 1
    MinSelfDelegations = {1, 2}
SPECIFICATION SpecGenesis

    
PROPERTIES
    RestartPreserves
    RevalidatedGovernorsHoldMinimum
    DeactivationJustified
