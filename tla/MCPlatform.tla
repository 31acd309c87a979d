----------------------------- MODULE MCPlatform -----------------------------
(* Instance of Platform for TLC.  Two requests overlap in the parts whose  *)
(* properties speak of overlaps, and one works in the others.  For the     *)
(* configuration the store stays where it is (a flag in the other store    *)
(* expires too), and overlapping requests publish and ask, since restoring *)
(* is publishing what a snapshot says.                                     *)
EXTENDS Platform

CONSTANTS
  Overlapping,   \* those parts
  First          \* the request that works in every behaviour

RedisKeys == {MAINTENANCE_KEY} \cup {DedupKey(b) : b \in Upcoming}

MCInit ==
  /\ PlatformInit
  /\ First \in slots
  /\ part \notin Overlapping => OneByOne
  /\ part = "config" => ready

Focus ==
  /\ part = "config" => ~switched'
  /\ part = "config" /\ ~OneByOne =>
       \A r \in Requests : req'[r].at # "restore.read" /\ req'[r].by # "snapshot"

MCSpec == MCInit /\ [][PlatformNext /\ Focus]_platformVars /\ PlatformFairness
=============================================================================
