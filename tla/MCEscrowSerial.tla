--------------------------- MODULE MCEscrowSerial ---------------------------
(* Escrow for TLC with a history variable that tells runs in which a       *)
(* request has died from those in which none has.                          *)
EXTENDS EscrowInvariant

VARIABLE died

Calm == INSTANCE Escrow WITH Faults <- FALSE

SerialInit == Init /\ died = FALSE

SerialNext ==
  \/ Calm!Next /\ UNCHANGED died
  \/ Next /\ died' = TRUE

SerialSpec == SerialInit /\ [][SerialNext]_<<vars, died>>

(* Nothing has died, and no administrator has paid a withdrawal out by hand. *)
Undisturbed == ~died /\ \A b \in Bookings : ~approved[b]

(* One request at a time and none of them dead, a payout credits once and  *)
(* leaves its transaction row (releasePaymentToProvider's check).          *)
CalmCreditedOnce == Undisturbed => CreditedOnce

(* One request at a time and none of them dead, a settled "pay now"        *)
(* booking has been activated (markPaymentCompleted).                      *)
CalmSettledIsActivated == Undisturbed => SettledIsActivated

(* One request at a time and none of them dead, a payout that credits also *)
(* releases the payment and marks the booking (releasePaymentToProvider).  *)
CalmPayoutIsComplete == Undisturbed => PayoutIsComplete
(* Why: while nothing has died, a booking that is half credited, half paid *)
(* out or half settled is the one the request in flight works on, at the   *)
(* step `at`; between requests none is.                                    *)
CalmAt(b, at) ==
  /\ credits[b] <= 1
  /\ credits[b] = 1 => ledger[b] \/ at = "release.record"
  /\ credits[b] = 1 => \/ released[b] /\ st[b] \in {"PAID", "DISPUTED"}
                       \/ at \in {"release.record", "release.mark", "release.paid"}
  /\ pay[b] = "COMPLETED" /\ st[b] = "AWAITING_PAYMENT"
       => at \in {"settle.activate", "settle.promote"}
  /\ at \in {"release.credit", "release.record"} => ~ledger[b]
  /\ at = "release.credit" => credits[b] = 0
  /\ at = "release.paid" => released[b]

CalmInv ==
  ~died => /\ \A b \in Bookings : approved[b] \/ (AtRest(b) => CalmAt(b, "idle"))
           /\ \A r \in Requests :
                req[r].at = "idle" \/ approved[req[r].b] \/ CalmAt(req[r].b, req[r].at)
=============================================================================
