SPECIFICATION FairSpec
CONSTANTS
    Precision = 20
    ParamSets <- MCParamSets
    MaxGasValues <- MCMaxGasValues
    BlockGas = {0, 2, 9}
    Width = 4
    MaxDec = 60
INVARIANTS
    WindowIsHistory
PROPERTIES
    PriceFollowsBlock
    RateFollowsWindow
    PriceReturns
