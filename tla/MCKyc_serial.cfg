SPECIFICATION Spec
CONSTANTS
  Providers = {p1, p2}
  Events = {e1}
  Admins = {a1}
  Requests = {r1}
  None = none
  MaxAttempts = 1
  Ops <- AllOps
  Faults = TRUE
SYMMETRY Symmetry
INVARIANT AppliedOnce
INVARIANT ApprovalIsEarned
INVARIANT GuessesAreBounded
PROPERTY RejectionHolds
