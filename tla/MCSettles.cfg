SPECIFICATION SettlesSpec
CONSTANTS
  Requests = {r1, r2}
  None = none
  Bookings = {b1}
  Keys = {k1}
  Providers = {p1}
  Events = {e1, e2}
  Admins = {a1}
PROPERTY ScanPaysOut
PROPERTY WithdrawalSettles
PROPERTY VerdictLands
