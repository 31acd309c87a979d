-------------------------------- MODULE Cart --------------------------------
(***************************************************************************)
(* Several "pay now" bookings of one customer, paid through Paystack: each *)
(* on its own or together in a cart.  A Paystack transaction is named by   *)
(* its cart, or by its booking when that is paid alone.  A booking's       *)
(* payment row points at transactions in two ways, checkoutId and          *)
(* gatewayPaymentToken, each overwritten by the latest attempt, while the  *)
(* gateway's older pages stay payable.  Every `await` is a step.           *)
(***************************************************************************)
EXTENDS FiniteSets

CONSTANTS
  Bookings,     \* the customer's "pay now" bookings
  Carts,        \* cart checkouts the customer may start
  Requests,     \* requests the server can have in flight at once
  None,         \* no transaction, no booking
  Ops,          \* what occurs
  Faults        \* may a request die between two awaits?

AllOps == {"cart", "single", "report", "decline"}
Tx     == Carts \cup Bookings

ASSUME CartAssumption ==
  /\ Carts \cap Bookings = {}
  /\ None \notin Tx
  /\ Ops \subseteq AllOps
  /\ Faults \in BOOLEAN

VARIABLES
  st,           \* Booking.status
  pay,          \* Payment.status
  link,         \* Payment.checkoutId
  token,        \* Payment.gatewayPaymentToken
  cart,         \* PaymentCheckout.status; NONE before the insert
  reference,    \* the carts whose PaymentCheckout.reference is stored
  basket,       \* the bookings each cart was started with
  opened,       \* the transactions with a page at the gateway
  captured,     \* the transactions the customer paid
  refunds,      \* the shares the gateway gave back: <<booking, transaction>>
  died,         \* has a request died? (history)
  req           \* the requests in flight

bookingRows == <<st, pay, link, token>>
cartRows    == <<cart, reference, basket>>
gateway     == <<opened, captured, refunds>>
vars        == <<bookingRows, cartRows, gateway, died, req>>

BookingStatus  == {"AWAITING_PAYMENT", "PENDING", "DECLINED"}
PaymentStatus  == {"PENDING", "COMPLETED", "REFUNDED"}
CheckoutStatus == {"NONE", "PENDING", "FAILED", "PAID"}

Steps == {"idle", "cart.read", "cart.link", "cart.gateway", "cart.reference", "cart.token",
          "single.write", "single.gateway", "single.token",
          "settle.check", "settle.write", "settle.activate", "settle.paid",
          "refund.read", "refund.call", "refund.write"}

Idle    == [at |-> "idle", t |-> None, b |-> None, todo |-> {}]
Request == [at : Steps, t : Tx \cup {None}, b : Bookings \cup {None}, todo : SUBSET Bookings]

Begin(r, step, t, b, todo) ==
  /\ req[r].at = "idle"
  /\ req' = [req EXCEPT ![r] = [at |-> step, t |-> t, b |-> b, todo |-> todo]]
Goto(r, step)           == req' = [req EXCEPT ![r].at = step]
Turn(r, step, b, todo)  == req' = [req EXCEPT ![r].at = step, ![r].b = b, ![r].todo = todo]
End(r)                  == req' = [req EXCEPT ![r] = Idle]

(* What a transaction charges for.                                         *)
Covers(t) == IF t \in Carts THEN basket[t] ELSE {t}

(* Every booking has just been created, with its payment row.              *)
Init ==
  /\ st = [b \in Bookings |-> "AWAITING_PAYMENT"]
  /\ pay = [b \in Bookings |-> "PENDING"]
  /\ link = [b \in Bookings |-> None]
  /\ token = [b \in Bookings |-> None]
  /\ cart = [c \in Carts |-> "NONE"]
  /\ basket = [c \in Carts |-> {}]
  /\ reference = {} /\ opened = {} /\ captured = {} /\ refunds = {}
  /\ died = FALSE
  /\ req = [r \in Requests |-> Idle]

-----------------------------------------------------------------------------
(* PaymentsService.initiatePaystackCheckout: look at the bookings, insert  *)
(* the checkout row, then read and relink the payments one by one.  A      *)
(* payment that is settled already aborts it; those relinked before stay.  *)
InitiateCart(r, c, B) ==
  /\ "cart" \in Ops
  /\ B # {} /\ \A b \in B : st[b] = "AWAITING_PAYMENT"
  /\ cart[c] = "NONE"
  /\ cart' = [cart EXCEPT ![c] = "PENDING"]
  /\ basket' = [basket EXCEPT ![c] = B]
  /\ Begin(r, "cart.read", c, None, B)
  /\ UNCHANGED <<bookingRows, reference, gateway, died>>

ReadCartPayment(r) ==
  /\ req[r].at = "cart.read"
  /\ \E b \in req[r].todo :
       /\ pay[b] = "PENDING"
       /\ Turn(r, "cart.link", b, req[r].todo \ {b})
  /\ UNCHANGED <<bookingRows, cartRows, gateway, died>>

LinkCartPayment(r) == LET b == req[r].b IN
  /\ req[r].at = "cart.link"
  /\ pay' = [pay EXCEPT ![b] = "PENDING"]
  /\ link' = [link EXCEPT ![b] = req[r].t]
  /\ Goto(r, IF req[r].todo = {} THEN "cart.gateway" ELSE "cart.read")
  /\ UNCHANGED <<st, token, cartRows, gateway, died>>

(* The gateway opens the page; only then are the reference, and by another *)
(* call the payments' tokens, stored.                                      *)
OpenCartPage(r) == LET c == req[r].t IN
  /\ req[r].at = "cart.gateway"
  /\ opened' = opened \cup {c}
  /\ Goto(r, "cart.reference")
  /\ UNCHANGED <<bookingRows, cartRows, captured, refunds, died>>

CartPageRefused(r) == LET c == req[r].t IN
  /\ req[r].at = "cart.gateway"
  /\ cart' = [cart EXCEPT ![c] = "FAILED"]
  /\ End(r)
  /\ UNCHANGED <<bookingRows, reference, basket, gateway, died>>

StoreReference(r) ==
  /\ req[r].at = "cart.reference"
  /\ reference' = reference \cup {req[r].t}
  /\ Goto(r, "cart.token")
  /\ UNCHANGED <<bookingRows, cart, basket, gateway, died>>

StoreTokens_All_Mutant(r) ==
  /\ req[r].at = "cart.token"
  /\ token' = [b \in Bookings |-> req[r].t]
  /\ End(r)
  /\ UNCHANGED <<st, pay, link, cartRows, gateway, died>>

StoreTokens(r) ==
  /\ req[r].at = "cart.token"
  /\ token' = [b \in Bookings |-> IF link[b] = req[r].t THEN req[r].t ELSE token[b]]
  /\ End(r)
  /\ UNCHANGED <<st, pay, link, cartRows, gateway, died>>

-----------------------------------------------------------------------------
(* PaymentsService.initiatePaystack, for a booking on its own.             *)
InitiateSingle(r, b) ==
  /\ "single" \in Ops
  /\ pay[b] = "PENDING"
  /\ Begin(r, "single.write", b, b, {})
  /\ UNCHANGED <<bookingRows, cartRows, gateway, died>>

ResetPayment(r) ==
  /\ req[r].at = "single.write"
  /\ pay' = [pay EXCEPT ![req[r].b] = "PENDING"]
  /\ Goto(r, "single.gateway")
  /\ UNCHANGED <<st, link, token, cartRows, gateway, died>>

OpenSinglePage(r) ==
  /\ req[r].at = "single.gateway"
  /\ opened' = opened \cup {req[r].b}
  /\ Goto(r, "single.token")
  /\ UNCHANGED <<bookingRows, cartRows, captured, refunds, died>>

StoreToken(r) == LET b == req[r].b IN
  /\ req[r].at = "single.token"
  /\ token' = [token EXCEPT ![b] = b]
  /\ End(r)
  /\ UNCHANGED <<st, pay, link, cartRows, gateway, died>>

(* The customer pays on any page that was ever opened.                     *)
Capture(t) ==
  /\ t \in opened \ captured
  /\ captured' = captured \cup {t}
  /\ UNCHANGED <<bookingRows, cartRows, opened, refunds, died, req>>

-----------------------------------------------------------------------------
(* Redirect and webhook report a paid transaction, repeatedly.             *)
(* For a cart settleCheckout takes the payments linked to it now, as the   *)
(* handler read them; for a single one, the payment its metadata names.    *)
Unsettled_Any_Mutant(t) == {b \in Bookings : pay[b] = "PENDING"}

Unsettled_Refunded_Mutant(t) == {b \in Bookings : link[b] = t /\ pay[b] # "COMPLETED"}

Unsettled(t) ==
  IF t \in Carts THEN {b \in Bookings : link[b] = t /\ pay[b] = "PENDING"}
                 ELSE {b \in {t} : pay[b] # "COMPLETED"}

Report(r, t) ==
  /\ "report" \in Ops
  /\ t \in captured
  /\ t \in Carts => t \in reference
  /\ Begin(r, IF Unsettled(t) # {} THEN "settle.check" ELSE "settle.paid", t, None, Unsettled(t))
  /\ UNCHANGED <<bookingRows, cartRows, gateway, died>>

(* The customer's app asks after a booking, and the transaction that the   *)
(* payment row points at is looked up at the gateway.                      *)
Verify(r, b) ==
  /\ pay[b] # "COMPLETED" /\ token[b] # None
  /\ token[b] \in Carts \/ pay[b] = "PENDING"
  /\ Report(r, token[b])

(* markPaymentCompleted, for one payment after the other (see Escrow).     *)
CheckNotSettled(r) ==
  /\ req[r].at = "settle.check"
  /\ \E b \in req[r].todo :
       Turn(r, IF pay[b] # "COMPLETED" THEN "settle.write"
               ELSE IF req[r].todo = {b} THEN "settle.paid" ELSE "settle.check",
            b, req[r].todo \ {b})
  /\ UNCHANGED <<bookingRows, cartRows, gateway, died>>

WriteCompleted(r) ==
  /\ req[r].at = "settle.write"
  /\ pay' = [pay EXCEPT ![req[r].b] = "COMPLETED"]
  /\ Goto(r, "settle.activate")
  /\ UNCHANGED <<st, link, token, cartRows, gateway, died>>

ActivateBooking_First_Mutant(r) == LET b == req[r].b IN
  /\ req[r].at = "settle.activate"
  /\ st' = [st EXCEPT ![b] = IF @ = "AWAITING_PAYMENT" THEN "PENDING" ELSE @]
  /\ Goto(r, "settle.paid")
  /\ UNCHANGED <<pay, link, token, cartRows, gateway, died>>

ActivateBooking(r) == LET b == req[r].b IN
  /\ req[r].at = "settle.activate"
  /\ st' = [st EXCEPT ![b] = IF @ = "AWAITING_PAYMENT" THEN "PENDING" ELSE @]
  /\ Goto(r, IF req[r].todo = {} THEN "settle.paid" ELSE "settle.check")
  /\ UNCHANGED <<pay, link, token, cartRows, gateway, died>>

MarkCartPaid_Mutant(r) ==
  /\ req[r].at = "settle.paid"
  /\ UNCHANGED cart
  /\ End(r)
  /\ UNCHANGED <<bookingRows, reference, basket, gateway, died>>

MarkCartPaid(r) == LET t == req[r].t IN
  /\ req[r].at = "settle.paid"
  /\ cart' = [c \in Carts |-> IF c = t THEN "PAID" ELSE cart[c]]
  /\ End(r)
  /\ UNCHANGED <<bookingRows, reference, basket, gateway, died>>

-----------------------------------------------------------------------------
(* The provider declines (updateStatus, one step here), and                *)
(* refundDeclinedBooking asks the gateway to return the booking's share of *)
(* the transaction the payment row points at, the cart's first.            *)
RefundReference(b) == IF link[b] \in reference THEN link[b] ELSE token[b]

Decline(r, b) ==
  /\ "decline" \in Ops
  /\ st[b] = "PENDING"
  /\ st' = [st EXCEPT ![b] = "DECLINED"]
  /\ Begin(r, "refund.read", None, b, {})
  /\ UNCHANGED <<pay, link, token, cartRows, gateway, died>>

ReadForRefund(r) == LET b == req[r].b IN
  /\ req[r].at = "refund.read"
  /\ pay[b] = "COMPLETED" /\ RefundReference(b) # None
  /\ req' = [req EXCEPT ![r].at = "refund.call", ![r].t = RefundReference(b)]
  /\ UNCHANGED <<bookingRows, cartRows, gateway, died>>

(* The gateway returns money of a transaction that was paid.               *)
RefundAtGateway(r) ==
  /\ req[r].at = "refund.call"
  /\ req[r].t \in captured
  /\ refunds' = refunds \cup {<<req[r].b, req[r].t>>}
  /\ Goto(r, "refund.write")
  /\ UNCHANGED <<bookingRows, cartRows, opened, captured, died>>

RecordRefund_Name_Mutant(r) ==
  /\ req[r].at = "refund.write"
  /\ pay' = [pay EXCEPT ![req[r].b] = "DECLINED"]
  /\ End(r)
  /\ UNCHANGED <<st, link, token, cartRows, gateway, died>>

RecordRefund(r) ==
  /\ req[r].at = "refund.write"
  /\ pay' = [pay EXCEPT ![req[r].b] = "REFUNDED"]
  /\ End(r)
  /\ UNCHANGED <<st, link, token, cartRows, gateway, died>>

-----------------------------------------------------------------------------
(* A request ends early when a read tells it to or the gateway refuses,    *)
(* and, under Faults, anywhere.                                            *)
Refused(r) ==
  \/ req[r].at = "cart.read" /\ \E b \in req[r].todo : pay[b] # "PENDING"
  \/ req[r].at = "single.gateway"
  \/ req[r].at = "refund.read" /\ ~(pay[req[r].b] = "COMPLETED" /\ RefundReference(req[r].b) # None)
  \/ req[r].at = "refund.call" /\ req[r].t \notin captured

Stop(r) ==
  /\ req[r].at # "idle"
  /\ Faults \/ Refused(r)
  /\ End(r)
  /\ died' = (died \/ ~Refused(r))
  /\ UNCHANGED <<bookingRows, cartRows, gateway>>

Arrive(r) ==
  \/ \E c \in Carts, B \in SUBSET Bookings : InitiateCart(r, c, B)
  \/ \E b \in Bookings : InitiateSingle(r, b) \/ Decline(r, b) \/ Verify(r, b)
  \/ \E t \in Tx : Report(r, t)

Proceed(r) ==
  \/ ReadCartPayment(r) \/ LinkCartPayment(r) \/ OpenCartPage(r) \/ CartPageRefused(r)
  \/ StoreReference(r)  \/ StoreTokens(r)
  \/ ResetPayment(r)    \/ OpenSinglePage(r)  \/ StoreToken(r)
  \/ CheckNotSettled(r) \/ WriteCompleted(r)  \/ ActivateBooking(r) \/ MarkCartPaid(r)
  \/ ReadForRefund(r)   \/ RefundAtGateway(r) \/ RecordRefund(r)
  \/ Stop(r)

Rest ==
  /\ \A r \in Requests : req[r].at = "idle"
  /\ UNCHANGED vars

Next ==
  \/ \E r \in Requests : Arrive(r) \/ Proceed(r)
  \/ \E t \in Tx : Capture(t)
  \/ Rest

Spec == Init /\ [][Next]_vars

(* Handlers are resumed, and Paystack repeats the report of a paid cart.   *)
FairSpec ==
  /\ Spec
  /\ \A r \in Requests : WF_vars(Proceed(r))
  /\ \A c \in Carts : SF_vars(\E r \in Requests : Report(r, c))

-----------------------------------------------------------------------------
(* Rows and requests keep their types.                                     *)
RowsTypeOK ==
  /\ st \in [Bookings -> BookingStatus]
  /\ pay \in [Bookings -> PaymentStatus]
  /\ link \in [Bookings -> Carts \cup {None}]
  /\ token \in [Bookings -> Tx \cup {None}]
  /\ cart \in [Carts -> CheckoutStatus]
  /\ basket \in [Carts -> SUBSET Bookings]
  /\ reference \subseteq Carts
  /\ opened \subseteq Tx /\ captured \subseteq Tx
  /\ refunds \subseteq Bookings \X Tx
  /\ died \in BOOLEAN

TypeOK == RowsTypeOK /\ req \in [Requests -> Request]

AtRest == \A r \in Requests : req[r].at = "idle"

(* A booking reads as paid only when the customer paid a transaction that  *)
(* charged for it, however attempts overlap (settleCheckout,               *)
(* markPaymentCompleted).                                                  *)
SettledIsCharged ==
  \A b \in Bookings : pay[b] \in {"COMPLETED", "REFUNDED"} => \E t \in captured : b \in Covers(t)

(* A refund comes out of a transaction that charged for the booking, so    *)
(* that "partial refunds leave the rest of a cart untouched".              *)
RefundIsOwnShare == \A p \in refunds : p[2] \in captured /\ p[1] \in Covers(p[2])

(* Between requests, a settled cart has settled what it was started for:   *)
(* "settling it settles every booking in the cart".                        *)
PaidCartSettles ==
  AtRest => \A c \in Carts : cart[c] = "PAID" => \A b \in basket[c] : pay[b] # "PENDING"

(* The same of a cart whose bookings were put into no other cart, wherever *)
(* requests die and whatever is paid alone meanwhile.                      *)
UnmovedCartSettles ==
  AtRest => \A c \in Carts :
    cart[c] = "PAID" /\ (\A d \in Carts \ {c} : basket[c] \cap basket[d] = {})
      => \A b \in basket[c] : pay[b] # "PENDING"

(* Nothing dead, a declined booking that was paid through carts alone has  *)
(* been refunded between requests, even one that was moved from cart to    *)
(* cart (refundDeclinedBooking).                                           *)
DeclinedIsRefunded ==
  AtRest /\ ~died => \A b \in Bookings \ opened : st[b] = "DECLINED" => pay[b] # "COMPLETED"

(* A paid cart whose reference was stored is settled in the end, though    *)
(* reports of it overlap one another and other attempts.                   *)
CartSettles == \A c \in Carts : (c \in captured /\ c \in reference) ~> (cart[c] = "PAID")

=============================================================================
