SPECIFICATION Spec
CONSTANTS
  Precision = 10
  Delegators = {d1, d2}
  Validators = {v1}
  CommissionRate = 3
  Fees = {5}
  Powers = {1}
  Params <- MCParams
  Coefficients = {0}
  Amounts = {1, 2}
  Burns = {1}
  Gifts = {1}
  MaxTokens = 3
  MaxBalance = 1
  MaxPeriod = 5
  MaxHeight = 3
SYMMETRY Symmetry
INVARIANTS NeverPanics ReferencesExact ModuleAccountExact 
PROPERTIES RewardsUndisturbed
CHECK_DEADLOCK FALSE
