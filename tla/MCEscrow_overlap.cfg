SPECIFICATION OverlapSpec
CONSTANTS
  Bookings = {b1}
  Requests = {r1, r2}
  NoBooking = none
  Ops <- OverlapOps
  Kinds = {"payNow", "later", "cash"}
  Faults = FALSE
  MaxCredits = 1
SYMMETRY Symmetry
INVARIANT WorkIsBackedUnlessReopened
PROPERTY KeepsPromise
