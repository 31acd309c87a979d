--------------------------- MODULE EscrowInvariant ---------------------------
(***************************************************************************)
(* Why Escrow is safe although no handler holds a lock: everything a       *)
(* handler relies on after it has read it is a fact that stays true once   *)
(* it is true (the money is secured, the QR was scanned, the method is     *)
(* cash).  The invariant says, for each await, which such fact the request *)
(* has established; no other request can take it away.                     *)
(***************************************************************************)
EXTENDS Escrow

(* Somebody has ended the job: the customer's QR, or an administrator.     *)
Finished(b) == done[b] \/ approved[b]

BookingInv(b) ==
  /\ pay[b] = "COMPLETED" => Funded(b)
  /\ st[b] = "IN_PROGRESS" => Funded(b)
  /\ st[b] \in {"COMPLETED", "PAID"} => Finished(b)
  /\ done[b] => Funded(b)
  /\ credits[b] > 0 => Finished(b)
  /\ st[b] = "NEW" => method[b] = "CARD" /\ pay[b] = "NONE" /\ qr[b] = "NONE"
  /\ Exists(b) /\ pay[b] = "NONE" => method[b] = "CARD"
  /\ kind[b] = "payNow" => method[b] = "CARD"
  /\ kind[b] = "payNow" /\ Exists(b) /\ st[b] \notin {"AWAITING_PAYMENT", "DISPUTED"} => Funded(b)

Scanning == {"scan.claim", "scan.complete"}
CashSettling == {"cash.payment", "cash.booking"}
Releasing == {"release.ledger", "release.credit", "release.record", "release.mark", "release.paid"}
Settling == {"settle.check", "settle.booking"}
SettlingSeen == {"settle.payment", "settle.activate", "settle.promote", "settle.price"}
Approving == {"admin.credit", "admin.record", "admin.booking", "admin.complete"}

RequestInv(r) == LET b == req[r].b at == req[r].at saw == req[r].saw IN
  /\ at # "idle" => st[b] # "NEW"
  /\ at = "start.check" => saw = "IN_PROGRESS"
  /\ at = "status.write" => saw \in {"ACCEPTED", "DECLINED", "CANCELLED", "IN_PROGRESS", "PAID"}
  /\ at = "status.write" /\ saw = "IN_PROGRESS" => Funded(b)
  /\ at = "status.write" /\ saw = "PAID" => Finished(b)
  /\ at \in {"start.check", "status.write"} /\ kind[b] = "payNow" => Funded(b)
  /\ at \in Scanning => Funded(b)
  /\ at \in Scanning /\ req[r].via = "CASH" => method[b] = "CASH"
  /\ at = "cash.payment" => method[b] = "CASH"
  /\ at \in CashSettling => done[b]
  /\ at \in Releasing => Finished(b)
  /\ at \in Settling \cup SettlingSeen => secured[b]
  /\ at \in SettlingSeen /\ saw = "COMPLETED" => Finished(b)
  /\ at \in Approving => approved[b]
  /\ at = "init.update" => method[b] = "CARD" /\ (pay[b] # "NONE" \/ ~Exists(b))

(* The inductive invariant.                                                *)
IInv ==
  /\ TypeOK
  /\ \A b \in Bookings : BookingInv(b)
  /\ \A r \in Requests : RequestInv(r)

-----------------------------------------------------------------------------
(* What keeps a payout's three writes in order, whatever overlaps: the     *)
(* request that writes the next of them has written the one before.        *)
PayoutInv ==
  /\ PayoutInOrder
  /\ \A r \in Requests :
       /\ req[r].at \in {"release.record", "admin.record"} => credits[req[r].b] > 0
       /\ req[r].at \in {"release.mark", "release.paid"} => ledger[req[r].b]

(* No two requests in flight work on the same booking.                     *)
Apart == \A q, r \in Requests : req[q].b = req[r].b => q = r \/ req[q].b = NoBooking

(* While that is so, what a request has read still holds when it writes:   *)
(* the transition it checked, the declined booking it refunds, the started *)
(* job it completes, the wait it ends, the payment it releases.            *)
Refunding == {"refund.read", "refund.call", "refund.write"}

ApartBooking(b) ==
  /\ done[b] => st[b] \in {"COMPLETED", "PAID", "DISPUTED"}
  /\ refunded[b] => ~done[b] /\ st[b] \in {"DECLINED", "DISPUTED"}

ApartRequest(r) == LET b == req[r].b at == req[r].at IN
  /\ at \in {"start.check", "status.write"} => AllowedTransition(st[b], req[r].saw)
  /\ at \in Refunding => st[b] = "DECLINED"
  /\ at \in Scanning => st[b] = "IN_PROGRESS"
  /\ at \in {"delete", "settle.promote"} => st[b] = "AWAITING_PAYMENT"
  /\ at \in Releasing \cup {"release.booking"} => pay[b] = "COMPLETED"
  /\ at \in Releasing => req[r].saw = st[b]

ApartInv ==
  /\ \A b \in Bookings : approved[b] \/ ApartBooking(b)
  /\ \A r \in Requests : ApartRequest(r)

-----------------------------------------------------------------------------
(* The refinement: every step of every handler is a step of the promise of *)
(* Custody, or leaves it alone.                                            *)
Promise == INSTANCE Custody WITH
  Jobs     <- Bookings,
  backed   <- [b \in Bookings |-> Funded(b)],
  finished <- [b \in Bookings |-> Finished(b)],
  paidOut  <- [b \in Bookings |-> credits[b] > 0]

(* Backing, completion and payout of a booking happen in that order and    *)
(* are never undone, whatever requests overlap and wherever they die.      *)
KeepsPromise == Promise!Spec
=============================================================================
