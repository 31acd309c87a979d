SPECIFICATION CastSpec
CONSTANTS
  Customers = {u}
  Providers = {v}
  Admins = {a}
  Channels = {"email"}
  Twins <- OneIdentity
  Requests = {r1}
  None = none
  Absent = absent
  Keys <- SessionKeys
  Faults = TRUE
  MaxPassword = 2
  MaxMade = 2
  MaxAttempts = 1
INVARIANT SessionsFollowPassword
INVARIANT DeletedStaysOut
INVARIANT UsedOnce
INVARIANT EarnedByCode
