SPECIFICATION MCSpec
CONSTANTS
  Requests = {r1, r2}
  None = none
  Absent = absent
  Faults = TRUE
  Keys <- RedisKeys
  Overlapping = {"config", "catalogue", "ratings"}
  First = r1
  Members = {a1, a2}
  Founders = {a1}
  Roles = {q1, q2}
  Super = super
  Contents = {c1, c2}
  Initial = c1
  Keep = 1
  MaxVersion = 3
  MaxSnapshots = 3
  MaxMessages = 4
  Finished = {b1, b2}
  Scores = {1, 5}
  Tickets = {t1}
  Screens = {"home"}
  Endpoints = {"pay"}
  Names = {n1}
  Spellings = {"dj", "DJ"}
  Listings = {s1}
  MaxPortfolio = 1
  Upcoming = {g1}
  Devices = {d1, d2}
  Recipients = {u, v}
INVARIANT NobodyIsRaised
INVARIANT InvitationsAgree
INVARIANT NoVersionIsLost
INVARIANT InboxAgrees
INVARIANT AggregateAgrees
INVARIANT ResolvedAgrees
INVARIANT OneProposalPerName
INVARIANT ListedIsLinked
INVARIANT RemindedOnce
INVARIANT PushIsWelcome
PROPERTY FlagSettles
