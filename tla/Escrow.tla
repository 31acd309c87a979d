------------------------------- MODULE Escrow -------------------------------
(***************************************************************************)
(* One marketplace booking and the money held for it: the booking row, its *)
(* payment row, its completion QR and its wallet credit, with every        *)
(* endpoint, callback and cron job that writes them.  A handler is a       *)
(* request in flight; each `await` of a database or gateway call is one    *)
(* step, so requests interleave between any two calls, and what a request  *)
(* read may be stale when it writes.  No handler below holds a lock, and   *)
(* none but the two-row delete runs in a transaction.  The operators named *)
(* ..._Mutant are slips a change to the code could make; nothing uses them *)
(* but the experiments that show each property would notice.               *)
(***************************************************************************)
EXTENDS Naturals

CONSTANTS
  Bookings,     \* booking ids
  Requests,     \* requests the server can have in flight at once
  NoBooking,    \* the booking of an idle request slot
  Ops,          \* endpoints, callbacks and jobs that occur
  Kinds,        \* kinds of booking customers create
  Faults,       \* may a request die between two awaits (crash, database error)?
  MaxCredits    \* bound up to which a booking's wallet credits are counted

BookingStatus == {"AWAITING_PAYMENT", "PENDING", "ACCEPTED", "DECLINED", "IN_PROGRESS",
                  "COMPLETED", "PAID", "CANCELLED", "DISPUTED"}
Row           == BookingStatus \cup {"NEW", "DELETED"}
PaymentStatus == {"NONE", "PENDING", "COMPLETED", "FAILED", "REFUNDED"}
AllKinds      == {"payNow", "later", "cash"}
Gateways      == {"PAYFAST", "STRIPE", "INTENT", "PAYSTACK"}

AllOps == {"create", "supersede", "sweep", "updateStatus", "issueCompletionQr", "completeByQr",
           "confirmPayout", "callback", "payfastFailure", "stripeFailure", "manualConfirm",
           "approveWithdrawal", "dispute"} \cup Gateways

ASSUME EscrowAssumption ==
  /\ NoBooking \notin Bookings
  /\ Ops \subseteq AllOps
  /\ Kinds \subseteq AllKinds
  /\ Faults \in BOOLEAN
  /\ MaxCredits \in Nat \ {0}

VARIABLES
  st,         \* Booking.status; NEW before the insert, DELETED after the delete
  kind,       \* paymentTiming and paymentCategory chosen at creation
  pay,        \* Payment.status; NONE when there is no payment row
  method,     \* Payment.paymentMethod: CASH, or CARD for every online method
  token,      \* gateway of Payment.gatewayPaymentToken
  done,       \* Booking.completedAt is set
  qr,         \* BookingCompletionToken: none, OPEN (scannedAt null) or USED
  ledger,     \* a WalletTransaction row exists for the payment
  released,   \* Payment.payoutReleased
  disputed,   \* a Dispute row exists
  credits,    \* how often the provider's balance was raised for this booking
  opened,     \* a gateway checkout page exists (at the gateway)
  secured,    \* the gateway captured the money, or an admin vouched for it
  refunded,   \* the gateway returned the money to the customer
  approved,   \* an admin's payout approval took this payment in
  req         \* the requests in flight

bookingRow == <<st, kind, done, disputed>>
paymentRow == <<pay, method, token, released>>
walletRows == <<ledger, credits>>
gateway    == <<opened, secured, refunded>>
vars       == <<bookingRow, paymentRow, walletRows, gateway, qr, approved, req>>

Steps == {"idle", "create.payment", "start.check", "status.write",
          "refund.read", "refund.call", "refund.write",
          "qr.issue", "scan.booking", "scan.claim", "scan.complete",
          "cash.payment", "cash.booking",
          "release.payment", "release.booking", "release.ledger", "release.credit",
          "release.record", "release.mark", "release.paid",
          "settle.check", "settle.booking", "settle.payment", "settle.activate",
          "settle.promote", "settle.price",
          "fail.write", "init.create", "init.update", "init.gateway", "delete",
          "dispute.write", "dispute.record",
          "admin.payment", "admin.credit", "admin.record", "admin.booking", "admin.complete"}

Idle == [at |-> "idle", b |-> NoBooking, saw |-> "NEW", via |-> "CARD"]
Request == [at : Steps, b : Bookings \cup {NoBooking}, saw : Row, via : Gateways \cup {"CASH", "CARD"}]

Exists(b) == st[b] \notin {"NEW", "DELETED"}

(* Control of a request: begin it, move it on, or end it. *)
Begin(r, b, step)       == req[r].at = "idle" /\ req' = [req EXCEPT ![r] = [Idle EXCEPT !.at = step, !.b = b]]
BeginSeeing(r, b, step, s) ==
  req[r].at = "idle" /\ req' = [req EXCEPT ![r] = [Idle EXCEPT !.at = step, !.b = b, !.saw = s]]
BeginVia(r, b, step, v) ==
  req[r].at = "idle" /\ req' = [req EXCEPT ![r] = [Idle EXCEPT !.at = step, !.b = b, !.via = v]]
Goto(r, step)           == req' = [req EXCEPT ![r].at = step]
GotoSeeing(r, step, s)  == req' = [req EXCEPT ![r].at = step, ![r].saw = s]
End(r)                  == req' = [req EXCEPT ![r] = Idle]

Init ==
  /\ st = [b \in Bookings |-> "NEW"]
  /\ kind = [b \in Bookings |-> "later"]
  /\ pay = [b \in Bookings |-> "NONE"]
  /\ method = [b \in Bookings |-> "CARD"]
  /\ token = [b \in Bookings |-> "NONE"]
  /\ qr = [b \in Bookings |-> "NONE"]
  /\ credits = [b \in Bookings |-> 0]
  /\ done = [b \in Bookings |-> FALSE]
  /\ ledger = [b \in Bookings |-> FALSE]
  /\ released = [b \in Bookings |-> FALSE]
  /\ disputed = [b \in Bookings |-> FALSE]
  /\ opened = [b \in Bookings |-> FALSE]
  /\ secured = [b \in Bookings |-> FALSE]
  /\ refunded = [b \in Bookings |-> FALSE]
  /\ approved = [b \in Bookings |-> FALSE]
  /\ req = [r \in Requests |-> Idle]

-----------------------------------------------------------------------------
(* Guards of the handlers. *)

(* BookingsService.updateStatus: who may follow whom. *)
AllowedTransition_LateDecline_Mutant(from, to) ==
  \/ from = "PENDING"   /\ to \in {"ACCEPTED", "DECLINED", "CANCELLED"}
  \/ from = "ACCEPTED"  /\ to \in {"IN_PROGRESS", "CANCELLED"}
  \/ from = "COMPLETED" /\ to \in {"PAID", "DECLINED"}

AllowedTransition_Reopen_Mutant(from, to) ==
  \/ from \in {"PENDING", "CANCELLED"} /\ to \in {"ACCEPTED", "DECLINED", "CANCELLED"}
  \/ from = "ACCEPTED"  /\ to \in {"IN_PROGRESS", "CANCELLED"}
  \/ from = "COMPLETED" /\ to = "PAID"

AllowedTransition_EarlyPaid_Mutant(from, to) ==
  \/ from = "PENDING"   /\ to \in {"ACCEPTED", "DECLINED", "CANCELLED"}
  \/ from = "ACCEPTED"  /\ to \in {"IN_PROGRESS", "CANCELLED"}
  \/ from \in {"IN_PROGRESS", "COMPLETED"} /\ to = "PAID"

AllowedTransition(from, to) ==
  \/ from = "PENDING"   /\ to \in {"ACCEPTED", "DECLINED", "CANCELLED"}
  \/ from = "ACCEPTED"  /\ to \in {"IN_PROGRESS", "CANCELLED"}
  \/ from = "COMPLETED" /\ to = "PAID"

(* The job may start, and a completion QR be issued and scanned, only for  *)
(* a cash booking or a completed payment.                                  *)
CashOrPaid_NoCheck_Mutant(b) == pay[b] # "NONE"

CashOrPaid(b) == (pay[b] # "NONE" /\ method[b] = "CASH") \/ pay[b] = "COMPLETED"

Scannable(b) == st[b] = "IN_PROGRESS" /\ CashOrPaid(b)

PayoutEligible_Started_Mutant(b) == st[b] \in {"IN_PROGRESS", "COMPLETED", "PAID"} \/ done[b]

PayoutEligible(b) == st[b] \in {"COMPLETED", "PAID"} \/ done[b]

Refundable(b) == pay[b] = "COMPLETED" /\ ~released[b] /\ token[b] = "PAYSTACK"

(* Online checkout: never for cash; a settled or failed payment is refused *)
(* except by the PaymentIntent endpoint, which refuses only COMPLETED.     *)
CheckoutAllowed(b, g) ==
  \/ pay[b] = "NONE"
  \/ /\ method[b] # "CASH"
     /\ pay[b] = "PENDING" \/ (g = "INTENT" /\ pay[b] \in {"FAILED", "REFUNDED"})

(* "Pay now" bookings wait, invisible, for their money.                    *)
InitialStatus_Visible_Mutant(k) == "PENDING"

InitialStatus(k) == IF k = "payNow" THEN "AWAITING_PAYMENT" ELSE "PENDING"

(* PayFast only builds a form and stores no token.                         *)
TokenAfter_Name_Mutant(b, g) == g

TokenAfter(b, g) ==
  CASE g = "PAYFAST" -> token[b] [] g = "PAYSTACK" -> "PAYSTACK" [] OTHER -> "STRIPE"
-----------------------------------------------------------------------------
(* BookingsService.create: the booking row, then (another call) its        *)
(* payment row.                                                            *)
CreateBooking(r, b, k) ==
  /\ "create" \in Ops
  /\ st[b] = "NEW"
  /\ Begin(r, b, "create.payment")
  /\ st' = [st EXCEPT ![b] = InitialStatus(k)]
  /\ kind' = [kind EXCEPT ![b] = k]
  /\ UNCHANGED <<done, disputed, paymentRow, walletRows, gateway, qr, approved>>

CreatePayment(r) == LET b == req[r].b IN
  /\ req[r].at = "create.payment"
  /\ Exists(b) /\ pay[b] = "NONE"
  /\ pay' = [pay EXCEPT ![b] = "PENDING"]
  /\ method' = [method EXCEPT ![b] = IF kind[b] = "cash" THEN "CASH" ELSE "CARD"]
  /\ End(r)
  /\ UNCHANGED <<bookingRow, token, released, walletRows, gateway, qr, approved>>

(* The two places that look for abandoned "pay now" bookings: a new create *)
(* for the same service, which takes every unpaid-looking booking, and the *)
(* half-hourly sweep, which also wants its payment PENDING (its two-hour   *)
(* age is when this action is taken).  Both then delete by id.             *)
FindAbandoned(r, b) ==
  /\ st[b] = "AWAITING_PAYMENT"
  /\ "supersede" \in Ops \/ ("sweep" \in Ops /\ pay[b] = "PENDING")
  /\ Begin(r, b, "delete")
  /\ UNCHANGED <<bookingRow, paymentRow, walletRows, gateway, qr, approved>>

(* A Dispute row refers to its booking and blocks the delete.              *)
DeleteAbandoned(r) == LET b == req[r].b IN
  /\ req[r].at = "delete"
  /\ ~disputed[b]
  /\ st' = [st EXCEPT ![b] = "DELETED"]
  /\ pay' = [pay EXCEPT ![b] = "NONE"]
  /\ qr' = [qr EXCEPT ![b] = "NONE"]
  /\ End(r)
  /\ UNCHANGED <<kind, done, disputed, method, token, released, walletRows, gateway, approved>>

-----------------------------------------------------------------------------
(* BookingsService.updateStatus: check the transition against the status   *)
(* read, look at the payment when the job is to start, write the status by *)
(* id, and refund a declined booking.                                      *)
UpdateStatus(r, b, to) ==
  /\ "updateStatus" \in Ops
  /\ Exists(b) /\ AllowedTransition(st[b], to)
  /\ BeginSeeing(r, b, IF to = "IN_PROGRESS" THEN "start.check" ELSE "status.write", to)
  /\ UNCHANGED <<bookingRow, paymentRow, walletRows, gateway, qr, approved>>

CheckStart(r) ==
  /\ req[r].at = "start.check"
  /\ CashOrPaid(req[r].b)
  /\ Goto(r, "status.write")
  /\ UNCHANGED <<bookingRow, paymentRow, walletRows, gateway, qr, approved>>

WriteStatus(r) == LET b == req[r].b IN
  /\ req[r].at = "status.write"
  /\ Exists(b)
  /\ st' = [st EXCEPT ![b] = req[r].saw]
  /\ IF req[r].saw = "DECLINED" THEN Goto(r, "refund.read") ELSE End(r)
  /\ UNCHANGED <<kind, done, disputed, paymentRow, walletRows, gateway, qr, approved>>

(* PaymentsService.refundDeclinedBooking: read, call the gateway, record.  *)
ReadForRefund(r) ==
  /\ req[r].at = "refund.read"
  /\ Refundable(req[r].b)
  /\ Goto(r, "refund.call")
  /\ UNCHANGED <<bookingRow, paymentRow, walletRows, gateway, qr, approved>>

(* The gateway refunds a transaction it captured and has not refunded.     *)
RefundAtGateway(r) == LET b == req[r].b IN
  /\ req[r].at = "refund.call"
  /\ secured[b] /\ ~refunded[b]
  /\ refunded' = [refunded EXCEPT ![b] = TRUE]
  /\ Goto(r, "refund.write")
  /\ UNCHANGED <<bookingRow, paymentRow, walletRows, opened, secured, qr, approved>>

RecordRefund(r) == LET b == req[r].b IN
  /\ req[r].at = "refund.write"
  /\ pay[b] # "NONE"
  /\ pay' = [pay EXCEPT ![b] = "REFUNDED"]
  /\ End(r)
  /\ UNCHANGED <<bookingRow, method, token, released, walletRows, gateway, qr, approved>>

-----------------------------------------------------------------------------
(* BookingsService.issueCompletionQr: a fresh code replaces the stored one *)
(* and clears scannedAt.                                                   *)
RequestQr(r, b) ==
  /\ "issueCompletionQr" \in Ops
  /\ Scannable(b)
  /\ Begin(r, b, "qr.issue")
  /\ UNCHANGED <<bookingRow, paymentRow, walletRows, gateway, qr, approved>>

IssueQr(r) == LET b == req[r].b IN
  /\ req[r].at = "qr.issue"
  /\ Exists(b)
  /\ qr' = [qr EXCEPT ![b] = "OPEN"]
  /\ End(r)
  /\ UNCHANGED <<bookingRow, paymentRow, walletRows, gateway, approved>>

(* BookingsService.completeByQr: read the code, read the booking with its  *)
(* payment, claim the code with a conditional update, then complete.       *)
ScanQr(r, b) ==
  /\ "completeByQr" \in Ops
  /\ qr[b] = "OPEN"
  /\ Begin(r, b, "scan.booking")
  /\ UNCHANGED <<bookingRow, paymentRow, walletRows, gateway, qr, approved>>

ReadScannedBooking(r) == LET b == req[r].b IN
  /\ req[r].at = "scan.booking"
  /\ Scannable(b)
  /\ req' = [req EXCEPT ![r].at = "scan.claim",
                        ![r].via = IF method[b] = "CASH" THEN "CASH" ELSE "CARD"]
  /\ UNCHANGED <<bookingRow, paymentRow, walletRows, gateway, qr, approved>>

ClaimQr(r) == LET b == req[r].b IN
  /\ req[r].at = "scan.claim"
  /\ qr[b] = "OPEN"
  /\ qr' = [qr EXCEPT ![b] = "USED"]
  /\ Goto(r, "scan.complete")
  /\ UNCHANGED <<bookingRow, paymentRow, walletRows, gateway, approved>>

CompleteBooking_NoTimestamp_Mutant(r) == LET b == req[r].b IN
  /\ req[r].at = "scan.complete"
  /\ Exists(b)
  /\ st' = [st EXCEPT ![b] = "COMPLETED"]
  /\ Goto(r, IF req[r].via = "CASH" THEN "cash.payment" ELSE "release.payment")
  /\ UNCHANGED <<kind, done, disputed, paymentRow, walletRows, gateway, qr, approved>>

CompleteBooking_NoPayout_Mutant(r) == LET b == req[r].b IN
  /\ req[r].at = "scan.complete"
  /\ Exists(b)
  /\ st' = [st EXCEPT ![b] = "COMPLETED"]
  /\ done' = [done EXCEPT ![b] = TRUE]
  /\ IF req[r].via = "CASH" THEN Goto(r, "cash.payment") ELSE End(r)
  /\ UNCHANGED <<kind, disputed, paymentRow, walletRows, gateway, qr, approved>>

CompleteBooking(r) == LET b == req[r].b IN
  /\ req[r].at = "scan.complete"
  /\ Exists(b)
  /\ st' = [st EXCEPT ![b] = "COMPLETED"]
  /\ done' = [done EXCEPT ![b] = TRUE]
  /\ Goto(r, IF req[r].via = "CASH" THEN "cash.payment" ELSE "release.payment")
  /\ UNCHANGED <<kind, disputed, paymentRow, walletRows, gateway, qr, approved>>

SettleCashPayment(r) == LET b == req[r].b IN
  /\ req[r].at = "cash.payment"
  /\ pay[b] # "NONE"
  /\ pay' = [pay EXCEPT ![b] = "COMPLETED"]
  /\ method' = [method EXCEPT ![b] = "CASH"]
  /\ Goto(r, "cash.booking")
  /\ UNCHANGED <<bookingRow, token, released, walletRows, gateway, qr, approved>>

(* The writes that leave a booking PAID: a scanned cash booking, and the   *)
(* end of a payout unless the booking was PAID when the payout read it.    *)
MarkPaid(r) == LET b == req[r].b IN
  /\ \/ req[r].at = "cash.booking"
     \/ req[r].at = "release.paid" /\ req[r].saw # "PAID"
  /\ Exists(b)
  /\ st' = [st EXCEPT ![b] = "PAID"]
  /\ End(r)
  /\ UNCHANGED <<kind, done, disputed, paymentRow, walletRows, gateway, qr, approved>>

-----------------------------------------------------------------------------
(* PaymentsService.releasePaymentToProvider, called by a scan or by the    *)
(* customer's confirm-payout.                                              *)
ConfirmPayout(r, b) ==
  /\ "confirmPayout" \in Ops
  /\ Exists(b)
  /\ Begin(r, b, "release.payment")
  /\ UNCHANGED <<bookingRow, paymentRow, walletRows, gateway, qr, approved>>

ReadPaymentToRelease(r) ==
  /\ req[r].at = "release.payment"
  /\ pay[req[r].b] = "COMPLETED"
  /\ Goto(r, "release.booking")
  /\ UNCHANGED <<bookingRow, paymentRow, walletRows, gateway, qr, approved>>

ReadBookingToRelease(r) == LET b == req[r].b IN
  /\ req[r].at = "release.booking"
  /\ Exists(b) /\ PayoutEligible(b)
  /\ GotoSeeing(r, "release.ledger", st[b])
  /\ UNCHANGED <<bookingRow, paymentRow, walletRows, gateway, qr, approved>>

CheckNotReleased_NoCheck_Mutant(r) ==
  /\ req[r].at = "release.ledger"
  /\ Goto(r, "release.credit")
  /\ UNCHANGED <<bookingRow, paymentRow, walletRows, gateway, qr, approved>>

CheckNotReleased_RecordOnly_Mutant(r) ==
  /\ req[r].at = "release.ledger"
  /\ ~ledger[req[r].b]
  /\ Goto(r, "release.record")
  /\ UNCHANGED <<bookingRow, paymentRow, walletRows, gateway, qr, approved>>

CheckNotReleased(r) ==
  /\ req[r].at = "release.ledger"
  /\ ~ledger[req[r].b]
  /\ Goto(r, "release.credit")
  /\ UNCHANGED <<bookingRow, paymentRow, walletRows, gateway, qr, approved>>

(* WalletService.credit: raise the balance, then insert the transaction    *)
(* row, unique per payment; an admin's approval takes the same two steps.  *)
CreditBalance(r) == LET b == req[r].b IN
  /\ \/ req[r].at = "release.credit" /\ Goto(r, "release.record")
     \/ req[r].at = "admin.credit"   /\ Goto(r, "admin.record")
  /\ credits' = [credits EXCEPT ![b] = IF @ < MaxCredits THEN @ + 1 ELSE @]
  /\ UNCHANGED <<bookingRow, paymentRow, ledger, gateway, qr, approved>>

RecordCredit(r) == LET b == req[r].b IN
  /\ \/ req[r].at = "release.record" /\ Goto(r, "release.mark")
     \/ req[r].at = "admin.record"   /\ Goto(r, "admin.booking")
  /\ ~ledger[b] /\ pay[b] # "NONE"
  /\ ledger' = [ledger EXCEPT ![b] = TRUE]
  /\ UNCHANGED <<bookingRow, paymentRow, credits, gateway, qr, approved>>

MarkReleased_NoPaid_Mutant(r) == LET b == req[r].b IN
  /\ req[r].at = "release.mark"
  /\ pay[b] # "NONE"
  /\ released' = [released EXCEPT ![b] = TRUE]
  /\ End(r)
  /\ UNCHANGED <<bookingRow, pay, method, token, walletRows, gateway, qr, approved>>

MarkReleased(r) == LET b == req[r].b IN
  /\ req[r].at = "release.mark"
  /\ pay[b] # "NONE"
  /\ released' = [released EXCEPT ![b] = TRUE]
  /\ Goto(r, "release.paid")
  /\ UNCHANGED <<bookingRow, pay, method, token, walletRows, gateway, qr, approved>>

-----------------------------------------------------------------------------
(* Gateway checkouts: read the payment row, create or reset it, open the   *)
(* checkout at the gateway and store its token.  PayFast only builds a     *)
(* form: it leaves an existing row alone and stores no token.              *)
Initiate(r, b, g) ==
  /\ g \in Ops
  /\ Exists(b) /\ CheckoutAllowed(b, g)
  /\ BeginVia(r, b, IF pay[b] = "NONE" THEN "init.create"
                    ELSE IF g = "PAYFAST" THEN "init.gateway" ELSE "init.update", g)
  /\ UNCHANGED <<bookingRow, paymentRow, walletRows, gateway, qr, approved>>

WritePendingPayment(r) == LET b == req[r].b IN
  /\ \/ req[r].at = "init.create" /\ pay[b] = "NONE" /\ Exists(b)
     \/ req[r].at = "init.update" /\ pay[b] # "NONE"
  /\ pay' = [pay EXCEPT ![b] = "PENDING"]
  /\ method' = [method EXCEPT ![b] = "CARD"]
  /\ Goto(r, "init.gateway")
  /\ UNCHANGED <<bookingRow, token, released, walletRows, gateway, qr, approved>>

OpenCheckout(r) == LET b == req[r].b g == req[r].via IN
  /\ req[r].at = "init.gateway"
  /\ pay[b] # "NONE"
  /\ opened' = [opened EXCEPT ![b] = TRUE]
  /\ token' = [token EXCEPT ![b] = TokenAfter(b, g)]
  /\ End(r)
  /\ UNCHANGED <<bookingRow, pay, method, released, walletRows, secured, refunded, qr, approved>>

(* The customer pays on the gateway's page, at any later time.             *)
Capture(b) ==
  /\ opened[b] /\ ~secured[b]
  /\ secured' = [secured EXCEPT ![b] = TRUE]
  /\ UNCHANGED <<bookingRow, paymentRow, walletRows, opened, refunded, qr, approved, req>>

-----------------------------------------------------------------------------
(* Success reports: webhook, return redirect, ITN or verify poll, repeated *)
(* and late at the gateway's will; and the administrator's manual          *)
(* confirmation.  All run markPaymentCompleted.                            *)
Callback(r, b) ==
  /\ "callback" \in Ops
  /\ secured[b] /\ pay[b] # "NONE"
  /\ Begin(r, b, "settle.check")
  /\ UNCHANGED <<bookingRow, paymentRow, walletRows, gateway, qr, approved>>

ManualConfirm(r, b) ==
  /\ "manualConfirm" \in Ops
  /\ pay[b] \notin {"NONE", "COMPLETED"}
  /\ secured' = [secured EXCEPT ![b] = TRUE]
  /\ Begin(r, b, "settle.check")
  /\ UNCHANGED <<bookingRow, paymentRow, walletRows, opened, refunded, qr, approved>>

CheckNotSettled(r) ==
  /\ req[r].at = "settle.check"
  /\ pay[req[r].b] # "COMPLETED"
  /\ Goto(r, "settle.booking")
  /\ UNCHANGED <<bookingRow, paymentRow, walletRows, gateway, qr, approved>>

ReadBookingToSettle(r) ==
  /\ req[r].at = "settle.booking"
  /\ GotoSeeing(r, "settle.payment", st[req[r].b])
  /\ UNCHANGED <<bookingRow, paymentRow, walletRows, gateway, qr, approved>>

WritePaymentCompleted(r) == LET b == req[r].b IN
  /\ req[r].at = "settle.payment"
  /\ pay[b] # "NONE"
  /\ pay' = [pay EXCEPT ![b] = "COMPLETED"]
  /\ Goto(r, "settle.activate")
  /\ UNCHANGED <<bookingRow, method, token, released, walletRows, gateway, qr, approved>>

(* BookingsService.activatePaidBooking: promote the booking if it still    *)
(* awaits payment.  An error here is logged and settlement goes on.        *)
ReadBookingToActivate_Skip_Mutant(r) ==
  /\ req[r].at = "settle.activate"
  /\ Goto(r, "settle.price")
  /\ UNCHANGED <<bookingRow, paymentRow, walletRows, gateway, qr, approved>>

ReadBookingToActivate(r) ==
  /\ req[r].at = "settle.activate"
  /\ Goto(r, IF st[req[r].b] = "AWAITING_PAYMENT" THEN "settle.promote" ELSE "settle.price")
  /\ UNCHANGED <<bookingRow, paymentRow, walletRows, gateway, qr, approved>>

PromoteBooking(r) == LET b == req[r].b IN
  /\ req[r].at = "settle.promote"
  /\ Goto(r, "settle.price")
  /\ \/ Exists(b) /\ st' = [st EXCEPT ![b] = "PENDING"]
     \/ (Faults \/ ~Exists(b)) /\ UNCHANGED st
  /\ UNCHANGED <<kind, done, disputed, paymentRow, walletRows, gateway, qr, approved>>

(* The booking read before the payment was written decides PAID.           *)
WriteFinalPrice(r) == LET b == req[r].b IN
  /\ req[r].at = "settle.price"
  /\ Exists(b)
  /\ st' = [st EXCEPT ![b] = IF req[r].saw = "COMPLETED" THEN "PAID" ELSE @]
  /\ End(r)
  /\ UNCHANGED <<kind, done, disputed, paymentRow, walletRows, gateway, qr, approved>>

(* Failure reports: Stripe's handler looks at the status first, PayFast's  *)
(* does not.                                                               *)
ReportFailure(r, b) ==
  /\ pay[b] # "NONE" /\ opened[b]
  /\ "payfastFailure" \in Ops \/ ("stripeFailure" \in Ops /\ pay[b] # "COMPLETED")
  /\ Begin(r, b, "fail.write")
  /\ UNCHANGED <<bookingRow, paymentRow, walletRows, gateway, qr, approved>>

WritePaymentFailed(r) == LET b == req[r].b IN
  /\ req[r].at = "fail.write"
  /\ pay[b] # "NONE"
  /\ pay' = [pay EXCEPT ![b] = "FAILED"]
  /\ End(r)
  /\ UNCHANGED <<bookingRow, method, token, released, walletRows, gateway, qr, approved>>

-----------------------------------------------------------------------------
(* DisputesService.create, from any status; its resolve writes no booking. *)
OpenDispute(r, b) ==
  /\ "dispute" \in Ops
  /\ Exists(b)
  /\ Begin(r, b, "dispute.write")
  /\ UNCHANGED <<bookingRow, paymentRow, walletRows, gateway, qr, approved>>

WriteDisputed(r) == LET b == req[r].b IN
  /\ req[r].at = "dispute.write"
  /\ Exists(b)
  /\ st' = [st EXCEPT ![b] = "DISPUTED"]
  /\ Goto(r, "dispute.record")
  /\ UNCHANGED <<kind, done, disputed, paymentRow, walletRows, gateway, qr, approved>>

RecordDispute(r) == LET b == req[r].b IN
  /\ req[r].at = "dispute.record"
  /\ Exists(b)
  /\ disputed' = [disputed EXCEPT ![b] = TRUE]
  /\ End(r)
  /\ UNCHANGED <<st, kind, done, paymentRow, walletRows, gateway, qr, approved>>

(* AdminService.approveWithdrawal, for one of the PENDING payments of the  *)
(* provider it finds: complete it, credit it, complete its booking.        *)
ApproveWithdrawal(r, b) ==
  /\ "approveWithdrawal" \in Ops
  /\ pay[b] = "PENDING"
  /\ Begin(r, b, "admin.payment")
  /\ UNCHANGED <<bookingRow, paymentRow, walletRows, gateway, qr, approved>>

ApprovePayment(r) == LET b == req[r].b IN
  /\ req[r].at = "admin.payment"
  /\ pay[b] # "NONE"
  /\ pay' = [pay EXCEPT ![b] = "COMPLETED"]
  /\ approved' = [approved EXCEPT ![b] = TRUE]
  /\ Goto(r, "admin.credit")
  /\ UNCHANGED <<bookingRow, method, token, released, walletRows, gateway, qr>>

ReadApprovedBooking(r) == LET b == req[r].b IN
  /\ req[r].at = "admin.booking"
  /\ Exists(b) /\ st[b] \notin {"COMPLETED", "PAID"}
  /\ Goto(r, "admin.complete")
  /\ UNCHANGED <<bookingRow, paymentRow, walletRows, gateway, qr, approved>>

CompleteApproved(r) == LET b == req[r].b IN
  /\ req[r].at = "admin.complete"
  /\ Exists(b)
  /\ st' = [st EXCEPT ![b] = "COMPLETED"]
  /\ End(r)
  /\ UNCHANGED <<kind, done, disputed, paymentRow, walletRows, gateway, qr, approved>>

-----------------------------------------------------------------------------
(* A request ends early when its next check fails or its next write finds  *)
(* no row (the handler throws or returns); a gateway call may be refused;  *)
(* a settlement's gatewayTransactionId may be taken by another payment;    *)
(* under Faults it may die anywhere.  Nothing it wrote is undone.          *)
Refused(r) == LET b == req[r].b IN
  \/ req[r].at = "create.payment" /\ (~Exists(b) \/ pay[b] # "NONE")
  \/ req[r].at = "delete" /\ disputed[b]
  \/ req[r].at = "start.check" /\ ~CashOrPaid(b)
  \/ req[r].at = "refund.read" /\ ~Refundable(b)
  \/ req[r].at = "scan.booking" /\ ~Scannable(b)
  \/ req[r].at = "scan.claim" /\ qr[b] # "OPEN"
  \/ req[r].at = "release.payment" /\ pay[b] # "COMPLETED"
  \/ req[r].at = "release.booking" /\ ~(Exists(b) /\ PayoutEligible(b))
  \/ req[r].at = "release.ledger" /\ ledger[b]
  \/ req[r].at \in {"release.record", "admin.record"} /\ (ledger[b] \/ pay[b] = "NONE")
  \/ req[r].at = "release.paid" /\ req[r].saw = "PAID"
  \/ req[r].at = "settle.check" /\ pay[b] = "COMPLETED"
  \/ req[r].at = "init.create" /\ (pay[b] # "NONE" \/ ~Exists(b))
  \/ req[r].at = "admin.booking" /\ (~Exists(b) \/ st[b] \in {"COMPLETED", "PAID"})
  \/ /\ req[r].at \in {"status.write", "qr.issue", "scan.complete", "cash.booking", "release.paid",
                       "settle.price", "dispute.write", "dispute.record", "admin.complete"}
     /\ ~Exists(b)
  \/ /\ req[r].at \in {"refund.write", "cash.payment", "release.mark", "settle.payment",
                       "init.update", "init.gateway", "fail.write", "admin.payment"}
     /\ pay[b] = "NONE"

Stop(r) ==
  /\ req[r].at # "idle"
  /\ Faults \/ Refused(r)
     \/ req[r].at \in {"refund.call", "init.gateway", "settle.payment", "admin.payment"}
  /\ End(r)
  /\ UNCHANGED <<bookingRow, paymentRow, walletRows, gateway, qr, approved>>

(* The endpoints of BookingsController and PaymentsController; the sweep,  *)
(* the disputes' and the administrators' come with them in Arrive.         *)
BookingEndpoints(r, b) ==
  \/ \E k \in Kinds : CreateBooking(r, b, k)
  \/ \E to \in BookingStatus : UpdateStatus(r, b, to)
  \/ RequestQr(r, b)
  \/ ScanQr(r, b)

PaymentEndpoints(r, b) ==
  \/ \E g \in Gateways : Initiate(r, b, g)
  \/ Callback(r, b)
  \/ ReportFailure(r, b)
  \/ ConfirmPayout(r, b)
  \/ ManualConfirm(r, b)

Arrive(r) == \E b \in Bookings :
  \/ BookingEndpoints(r, b)
  \/ PaymentEndpoints(r, b)
  \/ FindAbandoned(r, b)
  \/ OpenDispute(r, b)
  \/ ApproveWithdrawal(r, b)

Proceed(r) ==
  \/ CreatePayment(r)        \/ DeleteAbandoned(r)
  \/ CheckStart(r)           \/ WriteStatus(r)
  \/ ReadForRefund(r)        \/ RefundAtGateway(r)      \/ RecordRefund(r)
  \/ IssueQr(r)              \/ ReadScannedBooking(r)   \/ ClaimQr(r)
  \/ CompleteBooking(r)      \/ SettleCashPayment(r)    \/ MarkPaid(r)
  \/ ReadPaymentToRelease(r) \/ ReadBookingToRelease(r) \/ CheckNotReleased(r)
  \/ CreditBalance(r)        \/ RecordCredit(r)         \/ MarkReleased(r)
  \/ WritePendingPayment(r)  \/ OpenCheckout(r)
  \/ CheckNotSettled(r)      \/ ReadBookingToSettle(r)  \/ WritePaymentCompleted(r)
  \/ ReadBookingToActivate(r) \/ PromoteBooking(r)      \/ WriteFinalPrice(r)
  \/ WritePaymentFailed(r)   \/ WriteDisputed(r)        \/ RecordDispute(r)
  \/ ApprovePayment(r)       \/ ReadApprovedBooking(r)  \/ CompleteApproved(r)
  \/ Stop(r)

(* Nothing has to arrive: a server with no request in flight may rest.     *)
Rest ==
  /\ \A r \in Requests : req[r].at = "idle"
  /\ UNCHANGED vars

Next ==
  \/ \E r \in Requests : Arrive(r) \/ Proceed(r)
  \/ \E b \in Bookings : Capture(b)
  \/ Rest

Spec == Init /\ [][Next]_vars

(* The event loop resumes every awaiting handler; nobody owes a request.   *)
FairSpec == Spec /\ \A r \in Requests : WF_vars(Proceed(r))

-----------------------------------------------------------------------------
(* Every row keeps its type.                                               *)
RowsTypeOK ==
  /\ st \in [Bookings -> Row]
  /\ kind \in [Bookings -> AllKinds]
  /\ pay \in [Bookings -> PaymentStatus]
  /\ method \in [Bookings -> {"CASH", "CARD"}]
  /\ token \in [Bookings -> {"NONE", "STRIPE", "PAYSTACK"}]
  /\ qr \in [Bookings -> {"NONE", "OPEN", "USED"}]
  /\ credits \in [Bookings -> 0..MaxCredits]
  /\ done \in [Bookings -> BOOLEAN]
  /\ ledger \in [Bookings -> BOOLEAN]
  /\ released \in [Bookings -> BOOLEAN]
  /\ disputed \in [Bookings -> BOOLEAN]
  /\ opened \in [Bookings -> BOOLEAN]
  /\ secured \in [Bookings -> BOOLEAN]
  /\ refunded \in [Bookings -> BOOLEAN]
  /\ approved \in [Bookings -> BOOLEAN]

(* A request slot keeps its type, and holds a booking while it is busy.    *)
RequestsTypeOK ==
  /\ req \in [Requests -> Request]
  /\ \A r \in Requests : req[r].at = "idle" <=> req[r].b = NoBooking

TypeOK == RowsTypeOK /\ RequestsTypeOK

-----------------------------------------------------------------------------
(* Somebody has stood behind the job: cash at the door, money the gateway  *)
(* captured, given back since or not, or an administrator's approval.      *)
Funded(b) == method[b] = "CASH" \/ secured[b] \/ approved[b]

(* Somebody stands behind it still: what the gateway captured it holds.    *)
Backed(b) == method[b] = "CASH" \/ (secured[b] /\ ~refunded[b]) \/ approved[b]

AtRest(b) == \A r \in Requests : req[r].b # b

(* A job is in progress only with money behind it that nobody has given    *)
(* back, however the payment row is reset or failed between the check and  *)
(* the write (updateStatus, refundDeclinedBooking).                        *)
WorkIsBacked == \A b \in Bookings : st[b] = "IN_PROGRESS" => Backed(b)

(* A booking is finished only by a claimed completion QR, or by an         *)
(* administrator's payout approval (completeByQr, approveWithdrawal).      *)
OnlyScansComplete ==
  \A b \in Bookings : st[b] \in {"COMPLETED", "PAID"} => done[b] \/ approved[b]

(* The provider's wallet is credited only for a job the customer's QR      *)
(* completed and somebody paid for, or by an administrator's approval:     *)
(* the escrow promise of markPaymentCompleted and releasePaymentToProvider.*)
PayoutFollowsCompletion ==
  \A b \in Bookings : credits[b] > 0 => approved[b] \/ (done[b] /\ Funded(b))

(* A "pay now" booking reaches the provider only after payment (create,    *)
(* activatePaidBooking); opening a dispute is the one way round.           *)
ProviderSeesOnlyPaid ==
  \A b \in Bookings :
    kind[b] = "payNow" /\ Exists(b) /\ st[b] \notin {"AWAITING_PAYMENT", "DISPUTED"}
      => secured[b] \/ approved[b]

(* payoutReleased is never set without the wallet transaction, nor the     *)
(* transaction written without the balance: what a crash between the three *)
(* calls of a payout leaves behind is always the earlier ones.             *)
PayoutInOrder ==
  \A b \in Bookings : (released[b] => ledger[b]) /\ (ledger[b] => credits[b] > 0)

(* Money returned to the customer is not also paid out to the provider     *)
(* (refundDeclinedBooking against releasePaymentToProvider).               *)
NotRefundedAndPaidOut ==
  \A b \in Bookings : refunded[b] /\ credits[b] > 0 => approved[b]

(* A declined or cancelled booking is never worked on again: no request    *)
(* takes it to another status than DISPUTED (allowedTransitions).          *)
ClosedStaysClosed ==
  [][\A b \in Bookings :
       st[b] \in {"DECLINED", "CANCELLED"} => st'[b] \in {st[b], "DISPUTED"} \/ approved[b]]_vars

(* A credit is recorded: whatever was credited is in the ledger by the     *)
(* time nobody works on the booking, and it was credited once: the check   *)
(* of releasePaymentToProvider "prevents double-credit".                   *)
CreditedOnce ==
  \A b \in Bookings : credits[b] <= 1 /\ (AtRest(b) /\ credits[b] = 1 => ledger[b])

(* Between requests, a settled "pay now" booking has reached the provider: *)
(* markPaymentCompleted promotes it "now that the money has landed".       *)
SettledIsActivated ==
  \A b \in Bookings :
    pay[b] = "COMPLETED" /\ AtRest(b) => st[b] # "AWAITING_PAYMENT"

(* Between requests, a payout is complete: a credited booking is released  *)
(* and PAID, unless somebody disputes it.                                  *)
PayoutIsComplete ==
  \A b \in Bookings :
    credits[b] > 0 /\ AtRest(b) => released[b] /\ st[b] \in {"PAID", "DISPUTED"}

(* A cash job never credits the wallet: "settles cash bookings ... without *)
(* wallet credit" (completeByQr).                                          *)
CashIsNotCredited == \A b \in Bookings : method[b] = "CASH" => credits[b] = 0

(* The scan that completes a job paid online pays the provider out, while  *)
(* other scans, confirmations and gateway reports run.                     *)
ScanPaysOut ==
  \A b \in Bookings : (done[b] /\ method[b] = "CARD") ~> (ledger[b] /\ released[b])

=============================================================================
