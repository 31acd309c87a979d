SPECIFICATION Spec
CONSTANTS
  Bookings = {b1, b2}
  Carts = {c1, c2}
  Requests = {r1}
  None = none
  Ops <- AllOps
  Faults = TRUE
SYMMETRY Symmetry
INVARIANT UnmovedCartSettles
INVARIANT DeclinedIsRefunded
