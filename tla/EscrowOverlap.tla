---------------------------- MODULE EscrowOverlap ----------------------------
(***************************************************************************)
(* Escrow with a history variable for the writes that come too late.       *)
(* updateStatus checks the transition against a status it has read and     *)
(* writes by id alone, so a handler that was overtaken can take a booking  *)
(* out of a status that is meant to be its last.  `reopened' remembers     *)
(* which bookings that has happened to, and restricts nothing.             *)
(***************************************************************************)
EXTENDS EscrowInvariant

VARIABLE reopened

(* What a booking that was declined is in until somebody reopens it: a     *)
(* late decline or cancel may follow, and a dispute.                       *)
Shut == {"DECLINED", "CANCELLED", "DISPUTED"}

Reopening == {b \in Bookings : st[b] \in Shut /\ st'[b] \notin Shut}

OverlapInit == Init /\ reopened = {}

OverlapNext == Next /\ reopened' = reopened \cup Reopening

OverlapSpec == OverlapInit /\ [][OverlapNext]_<<vars, reopened>>

-----------------------------------------------------------------------------
(* However two requests overlap, a job is in progress on money that was    *)
(* given back only if a late write took the booking out of the status the  *)
(* refund left it in: the refund of a decline never meets a job that       *)
(* started or starts in turn (updateStatus, refundDeclinedBooking).        *)
WorkIsBackedUnlessReopened ==
  \A b \in Bookings \ reopened : st[b] = "IN_PROGRESS" => Backed(b)

(* Why: a refund is asked for by the request that has declined the booking,*)
(* and nothing but a late write takes it out of Shut again.                *)
GivenBack(b) == refunded[b] \/ \E r \in Requests : req[r].b = b /\ req[r].at \in Refunding

RefundInv == \A b \in Bookings \ reopened : GivenBack(b) => st[b] \in Shut
=============================================================================
