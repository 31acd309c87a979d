SPECIFICATION Spec
CONSTANTS
  Keys = {"small", "large"}
  Amount <- AmountOf
  Requests = {r1, r2}
  NoKey = none
  Ops = {"withdraw"}
  Opening = 2
  Earning = 2
  Limit = 4
  Faults = FALSE
INVARIANT Solvent
