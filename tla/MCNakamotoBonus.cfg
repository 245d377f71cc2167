SPECIFICATION FairSpec
CONSTANTS
  Precision = 10
  Identifiers = {"day", "week"}
  Duration <- MCDuration
  Gaps = {1, 4}
  StartTimes <- MCStartTimes
  MaxLag = 6
  ParamSets <- MCParamSets
  Stakes <- MCStakes
  Coefficients = {0, 3}
PROPERTIES CatchesUp CoefficientFollowsStake
