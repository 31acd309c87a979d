SPECIFICATION Spec
CONSTANTS
  Keys = {"small", "large"}
  Amount <- AmountOf
  Requests = {r1}
  NoKey = none
  Ops <- AllOps
  Opening = 2
  Earning = 2
  Limit = 4
  Faults = TRUE
INVARIANT Conserved
INVARIANT ReservedIsPending
INVARIANT Solvent
INVARIANT FailedIsUnpaid
INVARIANT WithdrawnOnce
PROPERTY FinalStaysFinal
