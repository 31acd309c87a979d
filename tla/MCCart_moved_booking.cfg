SPECIFICATION Spec
CONSTANTS
  Bookings = {b1}
  Carts = {c1, c2}
  Requests = {r1}
  None = none
  Ops <- CartOnly
  Faults = FALSE
INVARIANT PaidCartSettles
