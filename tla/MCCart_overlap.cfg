SPECIFICATION FairSpec
CONSTANTS
  Bookings = {b1, b2}
  Carts = {c1}
  Requests = {r1, r2}
  None = none
  Ops <- NoDeclines
  Faults = FALSE
INVARIANT SettledIsCharged
PROPERTY CartSettles
