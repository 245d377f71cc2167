CONSTANTS
    Precision = 10
    QuorumRange <- MCQuorumRange
    Threshold <- MCThreshold
    BurnDepositNoThreshold = 8
    BurnVoteQuorum = TRUE
    InitialEMA <- MCInitialEMA
    Counts <- MCCounts
SPECIFICATION OutcomeSpec
INVARIANTS
    QuorumWithinRange
    PassedHasMajority
    BundlingIsNoShortcut
