SPECIFICATION OverlapSpec
CONSTANTS
  Bookings = {b1}
  Requests = {r1}
  NoBooking = none
  Ops <- CustomerOps
  Kinds = {"payNow", "later", "cash"}
  Faults = FALSE
  MaxCredits = 2
INVARIANT CashIsNotCredited
