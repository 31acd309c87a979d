SPECIFICATION SerialSpec
CONSTANTS
  Bookings = {b1}
  Requests = {r1}
  NoBooking = none
  Ops <- AllOps
  Kinds = {"payNow", "later", "cash"}
  Faults = TRUE
  MaxCredits = 2
INVARIANT PayoutInOrder
INVARIANT NotRefundedAndPaidOut
INVARIANT CalmCreditedOnce
INVARIANT CalmSettledIsActivated
INVARIANT CalmPayoutIsComplete
PROPERTY ClosedStaysClosed
