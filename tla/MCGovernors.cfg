CONSTANTS
    a1 = a1
    a2 = a2
    v1 = v1
    v2 = v2
    Accounts = {a1, a2}
    Validators = {v1, v2}
    None = None
    Precision = 2
    Amounts = {1}
    SlashFactor = 2
    MaxShares = 2
    MaxTime = 2
    StatusChangePeriod = 1
    MinSelfDelegations = {1, 2}
SPECIFICATION Spec
SYMMETRY Symmetry
INVARIANTS
    NeverPanics
    ActiveIndexExact
    GovernorSharesMatchStake
    TurnoutWithinBonded
    StakeCountedOnce
