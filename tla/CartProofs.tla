----------------------------- MODULE CartProofs -----------------------------
(***************************************************************************)
(* What Cart keeps for any bookings, carts and request slots, with crashes *)
(* anywhere: a booking reads as paid only when a transaction that charged  *)
(* for it was paid, and refunds come out of such a transaction.            *)
(*                                                                         *)
(* Both rest on where the rows point.  checkoutId and gatewayPaymentToken  *)
(* are overwritten freely, but never with a transaction that does not      *)
(* charge for the booking (Pointers), because the bookings a request is    *)
(* still to handle are always some its transaction charges for (InHand).   *)
(*                                                                         *)
(* The second half follows whole carts, from the first link to the last    *)
(* payment, and declined bookings to their refund.                         *)
(***************************************************************************)
EXTENDS Cart, TLAPS

(* A cart has no bookings before its row is inserted.                      *)
Unstarted == \A c \in Carts : cart[c] = "NONE" => basket[c] = {}

(* A payment row points only at transactions that charge for its booking.  *)
Pointers ==
  \A b \in Bookings :
    /\ link[b] \in Carts => b \in basket[link[b]]
    /\ token[b] \in Tx => b \in Covers(token[b])

(* What a request in flight knows of the transaction in its hands.         *)
InHand(r) == LET q == req[r] IN
  /\ q.at \in {"cart.read", "cart.link", "cart.gateway", "cart.reference", "cart.token"} => q.t \in Carts
  /\ q.at \in {"cart.read", "cart.link"} => q.todo \subseteq basket[q.t]
  /\ q.at = "cart.link" => q.b \in basket[q.t]
  /\ q.at \in {"single.write", "single.gateway", "single.token", "settle.write", "settle.activate",
               "refund.read", "refund.call", "refund.write"} => q.b \in Bookings
  /\ q.at \in {"settle.check", "settle.write", "settle.activate"}
       => q.t \in captured /\ q.todo \subseteq Covers(q.t)
  /\ q.at = "settle.write" => q.b \in Covers(q.t)
  /\ q.at \in {"refund.call", "refund.write"} => q.t \in Tx /\ q.b \in Covers(q.t)
  /\ q.at = "refund.write" => q.t \in captured

IInv ==
  /\ TypeOK /\ Unstarted /\ Pointers
  /\ \A r \in Requests : InHand(r)
  /\ SettledIsCharged /\ RefundIsOwnShare

(* Only request r moves.                                                   *)
Alone(r) == \A q \in Requests \ {r} : req'[q] = req[q]

(* Baskets and payments at the gateway only grow.                          *)
Grows ==
  /\ \A c \in Carts : basket[c] \subseteq basket'[c]
  /\ captured \subseteq captured'

-----------------------------------------------------------------------------
(* Requests: beginning, moving on and ending keep the slots' type.         *)
LEMMA BeginType ==
  ASSUME TypeOK, NEW r \in Requests, NEW step \in Steps, NEW t \in Tx \cup {None},
         NEW b \in Bookings \cup {None}, NEW todo \in SUBSET Bookings, Begin(r, step, t, b, todo)
  PROVE  /\ req' \in [Requests -> Request] /\ Alone(r)
         /\ req'[r] = [at |-> step, t |-> t, b |-> b, todo |-> todo]
BY DEF TypeOK, Begin, Request, Alone

LEMMA GotoType ==
  ASSUME TypeOK, NEW r \in Requests, NEW step \in Steps, Goto(r, step)
  PROVE  /\ req' \in [Requests -> Request] /\ Alone(r)
         /\ req'[r].at = step /\ req'[r].t = req[r].t
         /\ req'[r].b = req[r].b /\ req'[r].todo = req[r].todo
BY DEF TypeOK, Goto, Request, Alone

LEMMA TurnType ==
  ASSUME TypeOK, NEW r \in Requests, NEW step \in Steps, NEW b \in req[r].todo,
         Turn(r, step, b, req[r].todo \ {b})
  PROVE  /\ req' \in [Requests -> Request] /\ Alone(r)
         /\ req'[r].at = step /\ req'[r].t = req[r].t /\ req'[r].b = b
         /\ req'[r].todo = req[r].todo \ {b} /\ b \in Bookings
BY DEF TypeOK, Turn, Request, Alone

LEMMA EndType ==
  ASSUME TypeOK, NEW r \in Requests, End(r)
  PROVE  req' \in [Requests -> Request] /\ Alone(r) /\ InHand(r)'
BY DEF TypeOK, End, Request, Idle, Steps, Alone, InHand

(* What a transaction charges for is a set of bookings, and only grows.    *)
LEMMA CoversType ==
  ASSUME TypeOK, NEW t \in Tx
  PROVE  Covers(t) \subseteq Bookings
BY CartAssumption DEF TypeOK, RowsTypeOK, Covers, Tx, CartAssumption

LEMMA CoversGrows ==
  ASSUME Grows, NEW t \in Tx
  PROVE  Covers(t) \subseteq Covers(t)'
BY DEF Grows, Covers, Tx

(* What the other requests know stays true.                                *)
LEMMA OthersInHand ==
  ASSUME Grows, TypeOK, NEW r \in Requests, Alone(r), NEW q \in Requests, q # r, InHand(q)
  PROVE  InHand(q)'
<1>1. req'[q] = req[q]
  BY DEF Alone
<1>2. req[q].t \in Carts => basket[req[q].t] \subseteq basket'[req[q].t]
  BY DEF Grows
<1>3. \A t \in Tx : Covers(t) \subseteq Covers(t)'
  BY CoversGrows
<1>4. captured \subseteq captured' /\ captured \subseteq Tx
  BY DEF Grows, TypeOK, RowsTypeOK
<1> QED BY <1>1, <1>2, <1>3, <1>4 DEF InHand, Covers

(* What holds of the rows is kept by a step that leaves payments, pointers *)
(* and refunds alone and lets baskets and payments at the gateway grow.    *)
LEMMA RowsKept ==
  ASSUME IInv, Grows, UNCHANGED <<pay, link, token, refunds>>
  PROVE  Pointers' /\ SettledIsCharged' /\ RefundIsOwnShare'
<1>1. \A t \in Tx : Covers(t) \subseteq Covers(t)'
  BY CoversGrows
<1>2. captured \subseteq captured' /\ captured \subseteq Tx
  BY DEF Grows, IInv, TypeOK, RowsTypeOK
<1>3. Pointers'
  BY <1>1 DEF Pointers, IInv, Grows
<1>4. SettledIsCharged'
  BY <1>1, <1>2 DEF SettledIsCharged, IInv
<1>5. RefundIsOwnShare'
  BY <1>1, <1>2 DEF RefundIsOwnShare, IInv
<1> QED BY <1>3, <1>4, <1>5

(* The invariant after a step of request r.                                *)
LEMMA Together ==
  ASSUME IInv, NEW r \in Requests, Grows, Alone(r), TypeOK', InHand(r)',
         Unstarted', Pointers', SettledIsCharged', RefundIsOwnShare'
  PROVE  IInv'
<1>1. ASSUME NEW q \in Requests PROVE InHand(q)'
  BY OthersInHand, <1>1 DEF IInv
<1> QED BY <1>1 DEF IInv

-----------------------------------------------------------------------------
LEMMA InitHolds == Init => IInv
<1> SUFFICES ASSUME Init PROVE IInv
  OBVIOUS
<1>1. died \in BOOLEAN
  BY DEF Init
<1>2. req \in [Requests -> Request] /\ \A r \in Requests : InHand(r)
  BY DEF Init, InHand, Request, Idle, Steps
<1>3. RowsTypeOK
  BY <1>1 DEF Init, RowsTypeOK, BookingStatus, PaymentStatus, CheckoutStatus
<1>4. Unstarted /\ Pointers /\ SettledIsCharged /\ RefundIsOwnShare
  BY CartAssumption DEF Init, Unstarted, Pointers, SettledIsCharged, RefundIsOwnShare,
       CartAssumption, Tx
<1> QED BY <1>2, <1>3, <1>4 DEF IInv, TypeOK

(* Requests arrive with a transaction and the bookings it charges for.     *)
LEMMA InitiateCartStep ==
  ASSUME IInv, NEW r \in Requests, NEW c \in Carts, NEW B \in SUBSET Bookings, InitiateCart(r, c, B)
  PROVE  IInv'
<1>1. Grows
  BY DEF Grows, InitiateCart, IInv, Unstarted, TypeOK, RowsTypeOK, gateway
<1>2. /\ req' \in [Requests -> Request] /\ Alone(r)
      /\ req'[r] = [at |-> "cart.read", t |-> c, b |-> None, todo |-> B]
  <2>1. TypeOK /\ Begin(r, "cart.read", c, None, B)
    BY DEF InitiateCart, IInv
  <2>2. "cart.read" \in Steps /\ c \in Tx \cup {None} /\ None \in Bookings \cup {None}
    BY DEF Steps, Tx
  <2> QED BY <2>1, <2>2, BeginType
<1>3. RowsTypeOK'
  BY DEF InitiateCart, IInv, TypeOK, RowsTypeOK, CheckoutStatus, bookingRows, gateway
<1>4. Unstarted'
  BY DEF InitiateCart, IInv, Unstarted, TypeOK, RowsTypeOK
<1>5. InHand(r)'
  BY <1>2 DEF InitiateCart, InHand, IInv, TypeOK, RowsTypeOK
<1>6. Pointers' /\ SettledIsCharged' /\ RefundIsOwnShare'
  BY <1>1, RowsKept DEF InitiateCart, bookingRows, gateway
<1> QED BY <1>1, <1>2, <1>3, <1>4, <1>5, <1>6, Together DEF TypeOK

LEMMA InitiateSingleStep ==
  ASSUME IInv, NEW r \in Requests, NEW b \in Bookings, InitiateSingle(r, b)
  PROVE  IInv'
<1>1. Grows
  BY DEF Grows, InitiateSingle, cartRows, gateway
<1>2. /\ req' \in [Requests -> Request] /\ Alone(r)
      /\ req'[r] = [at |-> "single.write", t |-> b, b |-> b, todo |-> {}]
  <2>1. TypeOK /\ Begin(r, "single.write", b, b, {})
    BY DEF InitiateSingle, IInv
  <2>2. "single.write" \in Steps /\ b \in Tx \cup {None} /\ b \in Bookings \cup {None}
    BY DEF Steps, Tx
  <2> QED BY <2>1, <2>2, BeginType
<1>3. RowsTypeOK' /\ Unstarted'
  BY DEF InitiateSingle, IInv, TypeOK, RowsTypeOK, Unstarted, bookingRows, cartRows, gateway
<1>4. InHand(r)'
  BY <1>2 DEF InHand
<1>5. Pointers' /\ SettledIsCharged' /\ RefundIsOwnShare'
  BY <1>1, RowsKept DEF InitiateSingle, bookingRows, gateway
<1> QED BY <1>1, <1>2, <1>3, <1>4, <1>5, Together DEF TypeOK

LEMMA DeclineStep ==
  ASSUME IInv, NEW r \in Requests, NEW b \in Bookings, Decline(r, b)
  PROVE  IInv'
<1>1. Grows
  BY DEF Grows, Decline, cartRows, gateway
<1>2. /\ req' \in [Requests -> Request] /\ Alone(r)
      /\ req'[r] = [at |-> "refund.read", t |-> None, b |-> b, todo |-> {}]
  <2>1. TypeOK /\ Begin(r, "refund.read", None, b, {})
    BY DEF Decline, IInv
  <2>2. "refund.read" \in Steps /\ None \in Tx \cup {None} /\ b \in Bookings \cup {None}
    BY DEF Steps, Tx
  <2> QED BY <2>1, <2>2, BeginType
<1>3. RowsTypeOK' /\ Unstarted'
  BY DEF Decline, IInv, TypeOK, RowsTypeOK, Unstarted, BookingStatus, cartRows, gateway
<1>4. InHand(r)'
  BY <1>2 DEF InHand
<1>5. Pointers' /\ SettledIsCharged' /\ RefundIsOwnShare'
  BY <1>1, RowsKept DEF Decline, gateway
<1> QED BY <1>1, <1>2, <1>3, <1>4, <1>5, Together DEF TypeOK

LEMMA ReportStep ==
  ASSUME IInv, NEW r \in Requests, NEW t \in Tx, Report(r, t)
  PROVE  IInv'
<1>1. Grows
  BY DEF Grows, Report, cartRows, gateway
<1>2. Unsettled(t) \subseteq Covers(t) /\ Unsettled(t) \subseteq Bookings
  BY DEF Unsettled, Covers, IInv, Pointers, Tx
<1>3. PICK step \in {"settle.check", "settle.paid"} : Begin(r, step, t, None, Unsettled(t))
  BY DEF Report
<1>4. /\ req' \in [Requests -> Request] /\ Alone(r)
      /\ req'[r] = [at |-> step, t |-> t, b |-> None, todo |-> Unsettled(t)]
  <2>1. TypeOK /\ step \in Steps
    BY DEF IInv, Steps
  <2> QED BY <2>1, <1>2, <1>3, BeginType
<1>5. RowsTypeOK' /\ Unstarted'
  BY DEF Report, IInv, TypeOK, RowsTypeOK, Unstarted, bookingRows, cartRows, gateway
<1>6. InHand(r)'
  BY <1>2, <1>4 DEF InHand, Report, Covers, cartRows, gateway
<1>7. Pointers' /\ SettledIsCharged' /\ RefundIsOwnShare'
  BY <1>1, RowsKept DEF Report, bookingRows, gateway
<1> QED BY <1>1, <1>4, <1>5, <1>6, <1>7, Together DEF TypeOK

-----------------------------------------------------------------------------
(* A request moves on.  First the steps that write no payment.             *)
LEMMA ReadStep ==
  ASSUME IInv, NEW r \in Requests,
         ReadCartPayment(r) \/ CheckNotSettled(r) \/ ReadForRefund(r) \/ Stop(r)
  PROVE  IInv'
<1>1. /\ UNCHANGED <<st, pay, link, token, cart, reference, basket, opened, captured, refunds>>
      /\ Grows
  BY DEF ReadCartPayment, CheckNotSettled, ReadForRefund, Stop, Grows, bookingRows, cartRows,
       gateway
<1>2. TypeOK /\ InHand(r)
  BY DEF IInv
<1>3. req' \in [Requests -> Request] /\ Alone(r) /\ InHand(r)'
  <2>1. CASE ReadCartPayment(r)
    <3>1. PICK b \in req[r].todo : Turn(r, "cart.link", b, req[r].todo \ {b})
      BY <2>1 DEF ReadCartPayment
    <3>2. "cart.link" \in Steps
      BY DEF Steps
    <3>3. /\ req' \in [Requests -> Request] /\ Alone(r)
          /\ req'[r].at = "cart.link" /\ req'[r].t = req[r].t /\ req'[r].b = b
          /\ req'[r].todo = req[r].todo \ {b}
      BY <1>2, <3>1, <3>2, TurnType
    <3> QED BY <1>1, <1>2, <2>1, <3>3 DEF InHand, ReadCartPayment
  <2>2. CASE CheckNotSettled(r)
    <3>1. PICK b \in req[r].todo, step \in {"settle.write", "settle.paid", "settle.check"} :
            Turn(r, step, b, req[r].todo \ {b})
      BY <2>2 DEF CheckNotSettled
    <3>2. step \in Steps
      BY DEF Steps
    <3>3. /\ req' \in [Requests -> Request] /\ Alone(r)
          /\ req'[r].at = step /\ req'[r].t = req[r].t /\ req'[r].b = b
          /\ req'[r].todo = req[r].todo \ {b} /\ b \in Bookings
      BY <1>2, <3>1, <3>2, TurnType
    <3> QED BY <1>1, <1>2, <2>2, <3>3 DEF InHand, CheckNotSettled, Covers
  <2>3. CASE ReadForRefund(r)
    <3>1. req[r].at = "refund.read" /\ req[r].b \in Bookings /\ RefundReference(req[r].b) # None
      BY <1>2, <2>3 DEF ReadForRefund, InHand
    <3>2. RefundReference(req[r].b) \in Tx /\ req[r].b \in Covers(RefundReference(req[r].b))
      BY <3>1 DEF RefundReference, IInv, Pointers, TypeOK, RowsTypeOK, Covers, Tx
    <3>3. /\ req' = [req EXCEPT ![r].at = "refund.call", ![r].t = RefundReference(req[r].b)]
          /\ "refund.call" \in Steps
      BY <2>3 DEF ReadForRefund, Steps
    <3>4. req' \in [Requests -> Request] /\ Alone(r)
      BY <1>2, <3>2, <3>3 DEF TypeOK, Request, Alone
    <3>5. /\ req'[r].at = "refund.call" /\ req'[r].t = RefundReference(req[r].b)
          /\ req'[r].b = req[r].b
      BY <1>2, <3>3 DEF TypeOK, Request
    <3> QED BY <1>1, <3>1, <3>2, <3>4, <3>5 DEF InHand, Covers
  <2>4. CASE Stop(r)
    BY <1>2, <2>4, EndType DEF Stop
  <2> QED BY <2>1, <2>2, <2>3, <2>4
<1>4. died' \in BOOLEAN
  <2>1. CASE Stop(r)
    BY <2>1 DEF Stop
  <2>2. CASE UNCHANGED died
    BY <1>2, <2>2 DEF TypeOK, RowsTypeOK
  <2> QED BY <2>1, <2>2 DEF ReadCartPayment, CheckNotSettled, ReadForRefund
<1>5. RowsTypeOK' /\ Unstarted'
  BY <1>1, <1>4 DEF IInv, TypeOK, RowsTypeOK, Unstarted
<1>6. Pointers' /\ SettledIsCharged' /\ RefundIsOwnShare'
  BY <1>1, RowsKept
<1> QED BY <1>1, <1>3, <1>5, <1>6, Together DEF TypeOK

(* The steps of a cart that write the checkout or open its page.           *)
LEMMA CheckoutStep ==
  ASSUME IInv, NEW r \in Requests,
         OpenCartPage(r) \/ CartPageRefused(r) \/ StoreReference(r) \/ OpenSinglePage(r) \/ MarkCartPaid(r)
  PROVE  IInv'
<1>1. UNCHANGED <<st, pay, link, token, basket, captured, refunds, died>> /\ Grows
  BY DEF OpenCartPage, CartPageRefused, StoreReference, OpenSinglePage, MarkCartPaid, Grows,
         bookingRows, cartRows, gateway
<1>2. TypeOK /\ InHand(r) /\ req[r].t \in Tx \cup {None}
  BY DEF IInv, TypeOK, Request
<1>3. req' \in [Requests -> Request] /\ Alone(r) /\ InHand(r)'
  <2>1. CASE CartPageRefused(r) \/ MarkCartPaid(r)
    BY <1>2, <2>1, EndType DEF CartPageRefused, MarkCartPaid
  <2>2. CASE OpenCartPage(r) \/ StoreReference(r) \/ OpenSinglePage(r)
    <3>1. PICK step \in {"cart.reference", "cart.token", "single.token"} : Goto(r, step)
      BY <2>2 DEF OpenCartPage, StoreReference, OpenSinglePage
    <3>2. step \in Steps
      BY DEF Steps
    <3>3. /\ req' \in [Requests -> Request] /\ Alone(r)
          /\ req'[r].at = step /\ req'[r].t = req[r].t
          /\ req'[r].b = req[r].b /\ req'[r].todo = req[r].todo
      BY <1>2, <3>1, <3>2, GotoType
    <3>4. CASE OpenCartPage(r) \/ StoreReference(r)
      <4>1. step \in {"cart.reference", "cart.token"}
        BY <1>2, <3>1, <3>4 DEF OpenCartPage, StoreReference, Goto, TypeOK, Request
      <4> QED BY <1>2, <3>3, <3>4, <4>1 DEF InHand, OpenCartPage, StoreReference
    <3>5. CASE OpenSinglePage(r)
      <4>1. step = "single.token"
        BY <1>2, <3>1, <3>5 DEF OpenSinglePage, Goto, TypeOK, Request
      <4> QED BY <1>2, <3>3, <3>5, <4>1 DEF InHand, OpenSinglePage
    <3> QED BY <2>2, <3>4, <3>5
  <2> QED BY <2>1, <2>2
<1>4. RowsTypeOK'
  <2>1. cart' \in [Carts -> CheckoutStatus]
    BY DEF OpenCartPage, CartPageRefused, StoreReference, OpenSinglePage, MarkCartPaid,
           IInv, TypeOK, RowsTypeOK, CheckoutStatus, cartRows
  <2>2. reference' \subseteq Carts
    BY <1>2 DEF OpenCartPage, CartPageRefused, StoreReference, OpenSinglePage, MarkCartPaid,
           IInv, TypeOK, RowsTypeOK, InHand, cartRows
  <2>3. opened' \subseteq Tx
    BY <1>2 DEF OpenCartPage, CartPageRefused, StoreReference, OpenSinglePage, MarkCartPaid,
           IInv, TypeOK, RowsTypeOK, InHand, gateway, Tx
  <2> QED BY <1>1, <2>1, <2>2, <2>3 DEF IInv, TypeOK, RowsTypeOK
<1>5. Unstarted'
  BY <1>1 DEF OpenCartPage, CartPageRefused, StoreReference, OpenSinglePage, MarkCartPaid,
     IInv, TypeOK, RowsTypeOK, Unstarted, cartRows
<1>6. Pointers' /\ SettledIsCharged' /\ RefundIsOwnShare'
  BY <1>1, RowsKept
<1> QED BY <1>1, <1>3, <1>4, <1>5, <1>6, Together DEF TypeOK

(* Moving a payment row to a cart, or to a booking's own transaction.      *)
LEMMA PointStep ==
  ASSUME IInv, NEW r \in Requests,
         LinkCartPayment(r) \/ StoreTokens(r) \/ ResetPayment(r) \/ StoreToken(r)
  PROVE  IInv'
<1>1. UNCHANGED <<st, cart, reference, basket, opened, captured, refunds, died>> /\ Grows
  BY DEF LinkCartPayment, StoreTokens, ResetPayment, StoreToken, Grows, cartRows, gateway
<1>2. TypeOK /\ InHand(r) /\ Pointers
  BY DEF IInv
<1>3. req' \in [Requests -> Request] /\ Alone(r) /\ InHand(r)'
  <2>1. CASE StoreTokens(r) \/ StoreToken(r)
    BY <1>2, <2>1, EndType DEF StoreTokens, StoreToken
  <2>2. CASE LinkCartPayment(r)
    <3>1. PICK step \in {"cart.gateway", "cart.read"} : Goto(r, step)
      BY <2>2 DEF LinkCartPayment
    <3>2. step \in Steps
      BY DEF Steps
    <3>3. /\ req' \in [Requests -> Request] /\ Alone(r)
          /\ req'[r].at = step /\ req'[r].t = req[r].t
          /\ req'[r].b = req[r].b /\ req'[r].todo = req[r].todo
      BY <1>2, <3>1, <3>2, GotoType
    <3> QED BY <1>1, <1>2, <2>2, <3>3 DEF InHand, LinkCartPayment
  <2>3. CASE ResetPayment(r)
    <3>1. Goto(r, "single.gateway") /\ "single.gateway" \in Steps
      BY <2>3 DEF ResetPayment, Steps
    <3>2. /\ req' \in [Requests -> Request] /\ Alone(r)
          /\ req'[r].at = "single.gateway" /\ req'[r].b = req[r].b
      BY <1>2, <3>1, GotoType
    <3> QED BY <1>2, <2>3, <3>2 DEF InHand, ResetPayment
  <2> QED BY <2>1, <2>2, <2>3
<1>4. /\ pay' \in [Bookings -> PaymentStatus]
      /\ \A b \in Bookings : pay'[b] \in {"COMPLETED", "REFUNDED"} => pay[b] \in {"COMPLETED", "REFUNDED"}
  BY DEF LinkCartPayment, StoreTokens, ResetPayment, StoreToken, IInv, TypeOK, RowsTypeOK,
       PaymentStatus
<1>5. link' \in [Bookings -> Carts \cup {None}] /\ token' \in [Bookings -> Tx \cup {None}]
  BY <1>2 DEF LinkCartPayment, StoreTokens, ResetPayment, StoreToken, TypeOK, RowsTypeOK,
       InHand, Tx
<1>6. Pointers'
  <2>1. \A b \in Bookings : link'[b] \in Carts => b \in basket[link'[b]]
    BY <1>2 DEF LinkCartPayment, StoreTokens, ResetPayment, StoreToken, TypeOK, RowsTypeOK,
         InHand, Pointers
  <2>2. \A b \in Bookings : token'[b] \in Tx => b \in Covers(token'[b])
    <3>1. CASE StoreTokens(r)
      BY <1>2, <3>1 DEF StoreTokens, TypeOK, RowsTypeOK, InHand, Pointers, Covers
    <3>2. CASE StoreToken(r)
      BY <1>2, <3>2, CartAssumption DEF StoreToken, TypeOK, RowsTypeOK, Pointers, Covers,
           CartAssumption
    <3>3. CASE LinkCartPayment(r) \/ ResetPayment(r)
      BY <1>2, <3>3 DEF LinkCartPayment, ResetPayment, Pointers
    <3> QED BY <3>1, <3>2, <3>3
  <2> QED BY <1>1, <2>1, <2>2 DEF Pointers, Covers
<1>7. RowsTypeOK' /\ Unstarted'
  BY <1>1, <1>4, <1>5 DEF IInv, TypeOK, RowsTypeOK, Unstarted
<1>8. SettledIsCharged' /\ RefundIsOwnShare'
  BY <1>1, <1>4 DEF IInv, SettledIsCharged, RefundIsOwnShare, Covers
<1> QED BY <1>1, <1>3, <1>6, <1>7, <1>8, Together DEF TypeOK

(* Settling one booking of a reported transaction.                         *)
LEMMA SettleStep ==
  ASSUME IInv, NEW r \in Requests, WriteCompleted(r) \/ ActivateBooking(r)
  PROVE  IInv'
<1>1. UNCHANGED <<link, token, cart, reference, basket, opened, captured, refunds, died>> /\ Grows
  BY DEF WriteCompleted, ActivateBooking, Grows, cartRows, gateway
<1>2. TypeOK /\ InHand(r) /\ Pointers
  BY DEF IInv
<1>3. PICK step \in {"settle.activate", "settle.paid", "settle.check"} : Goto(r, step)
  BY DEF WriteCompleted, ActivateBooking
<1>4. step \in Steps
  BY DEF Steps
<1>5. /\ req' \in [Requests -> Request] /\ Alone(r)
      /\ req'[r].at = step /\ req'[r].t = req[r].t
      /\ req'[r].b = req[r].b /\ req'[r].todo = req[r].todo
  BY <1>2, <1>3, <1>4, GotoType
<1>6. InHand(r)'
  BY <1>1, <1>2, <1>5 DEF InHand, WriteCompleted, ActivateBooking, Covers
<1>7. pay' \in [Bookings -> PaymentStatus] /\ st' \in [Bookings -> BookingStatus]
  BY <1>2 DEF WriteCompleted, ActivateBooking, TypeOK, RowsTypeOK, PaymentStatus, BookingStatus
<1>8. SettledIsCharged'
  <2>1. CASE WriteCompleted(r)
    <3>1. req[r].t \in captured /\ req[r].b \in Covers(req[r].t) /\ req[r].b \in Bookings
      BY <1>2, <2>1 DEF WriteCompleted, InHand
    <3>2. \A b \in Bookings : b # req[r].b => pay'[b] = pay[b]
      BY <1>2, <2>1 DEF WriteCompleted, TypeOK, RowsTypeOK
    <3> QED BY <1>1, <3>1, <3>2 DEF IInv, SettledIsCharged, Covers
  <2>2. CASE ActivateBooking(r)
    BY <1>1, <2>2 DEF ActivateBooking, IInv, SettledIsCharged, Covers
  <2> QED BY <2>1, <2>2
<1>9. RowsTypeOK' /\ Unstarted' /\ Pointers' /\ RefundIsOwnShare'
  BY <1>1, <1>7 DEF IInv, TypeOK, RowsTypeOK, Unstarted, Pointers, RefundIsOwnShare, Covers
<1> QED BY <1>1, <1>5, <1>6, <1>8, <1>9, Together DEF TypeOK

(* Giving a declined booking's share back, and recording it.               *)
LEMMA RefundStep ==
  ASSUME IInv, NEW r \in Requests, RefundAtGateway(r) \/ RecordRefund(r)
  PROVE  IInv'
<1>1. UNCHANGED <<st, link, token, cart, reference, basket, opened, captured, died>> /\ Grows
  BY DEF RefundAtGateway, RecordRefund, Grows, bookingRows, cartRows, gateway
<1>2. TypeOK /\ InHand(r) /\ Pointers /\ SettledIsCharged
  BY DEF IInv
<1>3. req[r].t \in Tx /\ req[r].b \in Bookings /\ req[r].b \in Covers(req[r].t) /\ req[r].t \in captured
  BY <1>2 DEF RefundAtGateway, RecordRefund, InHand
<1>4. req' \in [Requests -> Request] /\ Alone(r) /\ InHand(r)'
  <2>1. CASE RefundAtGateway(r)
    <3>1. Goto(r, "refund.write") /\ "refund.write" \in Steps
      BY <2>1 DEF RefundAtGateway, Steps
    <3>2. /\ req' \in [Requests -> Request] /\ Alone(r)
          /\ req'[r].at = "refund.write" /\ req'[r].t = req[r].t /\ req'[r].b = req[r].b
      BY <1>2, <3>1, GotoType
    <3> QED BY <1>1, <1>3, <3>2 DEF InHand, Covers
  <2>2. CASE RecordRefund(r)
    BY <1>2, <2>2, EndType DEF RecordRefund
  <2> QED BY <2>1, <2>2
<1>5. pay' \in [Bookings -> PaymentStatus] /\ refunds' \subseteq Bookings \X Tx
  BY <1>2, <1>3 DEF RefundAtGateway, RecordRefund, TypeOK, RowsTypeOK, PaymentStatus,
       bookingRows, gateway
<1>6. SettledIsCharged'
  <2>1. \A b \in Bookings : b # req[r].b => pay'[b] = pay[b]
    BY <1>2 DEF RefundAtGateway, RecordRefund, TypeOK, RowsTypeOK, bookingRows
  <2> QED BY <1>1, <1>2, <1>3, <2>1 DEF SettledIsCharged, Covers
<1>7. RefundIsOwnShare'
  <2>1. \A p \in refunds' : p \in refunds \/ p = <<req[r].b, req[r].t>>
    BY DEF RefundAtGateway, RecordRefund, gateway
  <2>2. ASSUME NEW p \in refunds' PROVE p[2] \in captured /\ p[1] \in Covers(p[2])
    <3>1. CASE p \in refunds
      BY <3>1 DEF IInv, RefundIsOwnShare
    <3>2. CASE p = <<req[r].b, req[r].t>>
      <4>1. p[1] = req[r].b /\ p[2] = req[r].t
        BY <3>2
      <4> QED BY <4>1, <1>3
    <3> QED BY <2>1, <3>1, <3>2
  <2> QED BY <1>1, <2>2 DEF RefundIsOwnShare, Covers
<1>8. RowsTypeOK' /\ Unstarted' /\ Pointers'
  BY <1>1, <1>5 DEF IInv, TypeOK, RowsTypeOK, Unstarted, Pointers, Covers
<1> QED BY <1>1, <1>4, <1>6, <1>7, <1>8, Together DEF TypeOK

(* The customer pays.                                                      *)
LEMMA CaptureStep ==
  ASSUME IInv, NEW t \in Tx, Capture(t)
  PROVE  IInv'
<1>1. Grows /\ UNCHANGED <<st, pay, link, token, cart, reference, basket, opened, refunds, req>>
  BY DEF Capture, Grows, bookingRows, cartRows
<1>2. TypeOK' /\ Unstarted'
  BY <1>1 DEF Capture, IInv, TypeOK, RowsTypeOK, Unstarted
<1>3. ASSUME NEW r \in Requests PROVE InHand(r)'
  BY <1>1, <1>3 DEF IInv, InHand, Covers, Grows
<1>4. Pointers' /\ SettledIsCharged' /\ RefundIsOwnShare'
  BY <1>1, RowsKept
<1> QED BY <1>2, <1>3, <1>4 DEF IInv

LEMMA StepHolds == IInv /\ [Next]_vars => IInv'
<1> SUFFICES ASSUME IInv, [Next]_vars PROVE IInv'
  OBVIOUS
<1>1. CASE UNCHANGED vars
  BY <1>1 DEF vars, bookingRows, cartRows, gateway, IInv, TypeOK, RowsTypeOK, Unstarted,
       Pointers, InHand,
              SettledIsCharged, RefundIsOwnShare, Covers
<1>2. ASSUME NEW r \in Requests, Arrive(r) PROVE IInv'
  <2>1. ASSUME NEW b \in Bookings, Verify(r, b) PROVE IInv'
    <3>1. token[b] \in Tx
      BY <2>1 DEF Verify, Tx, IInv, TypeOK, RowsTypeOK
    <3> QED BY <2>1, <3>1, ReportStep DEF Verify
  <2> QED BY <1>2, <2>1, InitiateCartStep, InitiateSingleStep, DeclineStep, ReportStep DEF Arrive
<1>3. ASSUME NEW r \in Requests, Proceed(r) PROVE IInv'
  BY <1>3, ReadStep, CheckoutStep, PointStep, SettleStep, RefundStep DEF Proceed
<1>4. ASSUME NEW t \in Tx, Capture(t) PROVE IInv'
  BY <1>4, CaptureStep
<1> QED BY <1>1, <1>2, <1>3, <1>4 DEF Next, Rest

LEMMA Invariance == Spec => []IInv
BY InitHolds, StepHolds, PTL DEF Spec

-----------------------------------------------------------------------------
(* Rows and requests keep their types.                                     *)
THEOREM TypeCorrect == Spec => []TypeOK
<1>1. IInv => TypeOK
  BY DEF IInv
<1> QED BY <1>1, Invariance, PTL

(* However attempts, reports and refunds overlap, and wherever they die, a *)
(* booking reads as paid only when the customer paid a transaction that    *)
(* charged for it (settleCheckout, markPaymentCompleted).                  *)
THEOREM NothingSettledUnpaid == Spec => []SettledIsCharged
<1>1. IInv => SettledIsCharged
  BY DEF IInv
<1> QED BY <1>1, Invariance, PTL

(* A refund comes out of a paid transaction that charged for the booking   *)
(* declined (refundDeclinedBooking).                                       *)
THEOREM RefundsOwnShare == Spec => []RefundIsOwnShare
<1>1. IInv => RefundIsOwnShare
  BY DEF IInv
<1> QED BY <1>1, Invariance, PTL

-----------------------------------------------------------------------------
(* Settling a whole cart and refunding a declined booking rest on more:    *)
(* that a cart's page opens only after every booking in it was linked to   *)
(* it (Pages, Starting), so that what is linked to a reported cart is what *)
(* it was started for, save what was moved to another cart.                *)
StartSteps  == {"cart.read", "cart.link", "cart.gateway"}
SettleSteps == {"settle.check", "settle.write", "settle.activate", "settle.paid"}
RefundSteps == {"refund.read", "refund.call", "refund.write"}

Moved(b, c)  == \E d \in Carts \ {c} : b \in basket[d]
Linked(b, c) == link[b] = c \/ Moved(b, c)

(* Only started carts have pages, and what is linked to them is complete.  *)
Pages ==
  /\ captured \subseteq opened /\ reference \subseteq opened
  /\ \A c \in Carts : cart[c] = "NONE" => c \notin opened
  /\ \A c \in Carts : c \in opened => \A b \in basket[c] : Linked(b, c)

(* A cart being started has no page, and lacks the bookings still to do;   *)
(* a report is of a paid transaction and, for a cart, a stored reference.  *)
Opening(r) == LET q == req[r] IN
  /\ q.at \in StartSteps =>
       /\ cart[q.t] # "NONE" /\ q.t \notin opened
       /\ \A b \in basket[q.t] \ q.todo : Linked(b, q.t) \/ (q.at = "cart.link" /\ b = q.b)
  /\ q.at = "cart.gateway" => q.todo = {}
  /\ q.at = "cart.reference" => q.t \in opened
  /\ q.at \in SettleSteps => q.t \in captured /\ (q.t \in Carts => q.t \in reference)

(* Each cart is started by one request.                                    *)
OneStarter ==
  \A p, q \in Requests : p # q /\ req[p].at \in StartSteps /\ req[q].at \in StartSteps => req[p].t # req[q].t

StartInv == IInv /\ Pages /\ OneStarter /\ \A r \in Requests : Opening(r)

(* Rows move on: carts once started keep their bookings, links go only to  *)
(* carts that hold the booking, and what the gateway opened stays open.    *)
Onward ==
  /\ reference \subseteq reference' /\ opened \subseteq opened' /\ captured \subseteq captured'
  /\ \A c \in Carts : cart'[c] = "NONE" => cart[c] = "NONE"
  /\ \A c \in Carts : basket[c] \subseteq basket'[c] /\ (cart[c] # "NONE" => basket'[c] = basket[c])
  /\ \A b \in Bookings : link'[b] = link[b] \/ (link'[b] \in Carts /\ b \in basket[link'[b]])

LEMMA LinkedKept ==
  ASSUME Onward, NEW c \in Carts, NEW b \in Bookings, Linked(b, c)
  PROVE  Linked(b, c)'
<1>1. CASE Moved(b, c)
  BY <1>1 DEF Moved, Linked, Onward
<1>2. CASE link[b] = c /\ link'[b] # c
  BY <1>2 DEF Moved, Linked, Onward
<1> QED BY <1>1, <1>2 DEF Linked

LEMMA OthersOpening ==
  ASSUME IInv, NEW r \in Requests, NEW q \in Requests, q # r, Alone(r), Onward, Opening(q),
         \A t \in opened' \ opened : req[q].at \in StartSteps => req[q].t # t
  PROVE  Opening(q)'
<1>1. req'[q] = req[q]
  BY DEF Alone
<1>2. CASE req[q].at \in StartSteps
  <2>1. PICK c \in Carts : c = req[q].t
    BY <1>2 DEF IInv, InHand, StartSteps
  <2>2. cart[c] # "NONE" /\ c \notin opened /\ basket[c] \subseteq Bookings
    BY <1>2, <2>1 DEF Opening, IInv, TypeOK, RowsTypeOK
  <2>3. cart'[c] # "NONE" /\ basket'[c] = basket[c] /\ c \notin opened'
    BY <1>2, <2>1, <2>2 DEF Onward
  <2>4. ASSUME NEW b \in basket[c] \ req[q].todo
        PROVE  Linked(b, c)' \/ (req[q].at = "cart.link" /\ b = req[q].b)
    <3>1. Linked(b, c) \/ (req[q].at = "cart.link" /\ b = req[q].b)
      BY <1>2, <2>1 DEF Opening
    <3> QED BY <3>1, <2>2, LinkedKept
  <2>5. req'[q].t = c /\ req'[q].at = req[q].at /\ req'[q].b = req[q].b /\ req'[q].todo = req[q].todo
    BY <1>1, <2>1
  <2>6. req[q].at = "cart.gateway" => req[q].todo = {}
    BY DEF Opening
  <2> QED BY <1>2, <2>3, <2>4, <2>5, <2>6 DEF Opening, StartSteps, SettleSteps, Linked
<1>3. CASE req[q].at \notin StartSteps
  BY <1>1, <1>3 DEF Opening, Onward, StartSteps, SettleSteps
<1> QED BY <1>2, <1>3

(* The invariant after a step of request r that opens at most its own page. *)
LEMMA StartTogether ==
  ASSUME StartInv, IInv', NEW r \in Requests, Alone(r), Onward, Pages', OneStarter', Opening(r)',
         \A q \in Requests \ {r}, t \in opened' \ opened : req[q].at \in StartSteps => req[q].t # t
  PROVE  StartInv'
<1>1. ASSUME NEW q \in Requests PROVE Opening(q)'
  <2>1. CASE q # r
    BY <2>1, OthersOpening DEF StartInv
  <2> QED BY <2>1
<1> QED BY <1>1 DEF StartInv

(* A step that leaves carts, links and pages alone, and after which the    *)
(* request is not starting a cart.                                         *)
LEMMA QuietStart ==
  ASSUME StartInv, IInv', NEW r \in Requests, Alone(r),
         UNCHANGED <<link, cart, reference, basket, opened, captured>>,
         req'[r].at \notin StartSteps \cup {"cart.reference"},
         req'[r].at \in SettleSteps => req'[r].t \in captured /\ (req'[r].t \in Carts => req'[r].t \in reference)
  PROVE  StartInv'
<1>1. Onward /\ Pages'
  BY DEF StartInv, Onward, Pages, Linked, Moved
<1>2. OneStarter'
  BY DEF StartInv, OneStarter, Alone
<1>3. Opening(r)'
  BY DEF Opening, StartSteps
<1> QED BY <1>1, <1>2, <1>3, StartTogether

LEMMA InitiateCartStarts ==
  ASSUME StartInv, IInv', NEW r \in Requests, NEW c \in Carts, NEW B \in SUBSET Bookings, InitiateCart(r, c, B)
  PROVE  StartInv'
<1>1. /\ Alone(r)
      /\ req'[r] = [at |-> "cart.read", t |-> c, b |-> None, todo |-> B]
  <2>1. TypeOK /\ Begin(r, "cart.read", c, None, B)
    BY DEF InitiateCart, StartInv, IInv
  <2>2. "cart.read" \in Steps /\ c \in Tx \cup {None} /\ None \in Bookings \cup {None}
    BY DEF Steps, Tx
  <2> QED BY <2>1, <2>2, BeginType
<1>2. /\ UNCHANGED <<link, reference, opened, captured>>
      /\ cart[c] = "NONE" /\ c \notin opened /\ basket[c] = {} /\ cart'[c] = "PENDING" /\ basket'[c] = B
      /\ \A d \in Carts \ {c} : cart'[d] = cart[d] /\ basket'[d] = basket[d]
  BY DEF InitiateCart, StartInv, IInv, TypeOK, RowsTypeOK, Unstarted, Pages, bookingRows, gateway
<1>3. Onward
  BY <1>2 DEF Onward
<1>4. Pages'
  <2>1. ASSUME NEW d \in Carts, d \in opened, NEW b \in basket'[d] PROVE Linked(b, d)'
    <3>1. b \in basket[d] /\ b \in Bookings
      BY <1>2, <2>1 DEF StartInv, IInv, TypeOK, RowsTypeOK
    <3> QED BY <1>3, <2>1, <3>1, LinkedKept DEF StartInv, Pages
  <2> QED BY <1>2, <2>1 DEF StartInv, Pages
<1>5. OneStarter'
  BY <1>1, <1>2 DEF StartInv, OneStarter, Alone, Opening
<1>6. Opening(r)'
  BY <1>1, <1>2 DEF Opening, StartSteps, SettleSteps
<1> QED BY <1>1, <1>2, <1>3, <1>4, <1>5, <1>6, StartTogether

(* Linking the bookings of a cart one by one.                              *)
LEMMA LinkingStarts ==
  ASSUME StartInv, IInv', NEW r \in Requests, ReadCartPayment(r) \/ LinkCartPayment(r)
  PROVE  StartInv'
<1>1. PICK c \in Carts : c = req[r].t
  BY DEF ReadCartPayment, LinkCartPayment, StartInv, IInv, InHand
<1>2. /\ cart[c] # "NONE" /\ c \notin opened /\ req[r].at \in StartSteps
      /\ \A b \in basket[c] \ req[r].todo : Linked(b, c) \/ (req[r].at = "cart.link" /\ b = req[r].b)
  BY <1>1 DEF ReadCartPayment, LinkCartPayment, StartInv, Opening, StartSteps
<1>3. /\ UNCHANGED <<cart, reference, basket, opened, captured>>
      /\ basket[c] \subseteq Bookings
  BY <1>1 DEF ReadCartPayment, LinkCartPayment, bookingRows, cartRows, gateway, StartInv, IInv,
       TypeOK, RowsTypeOK
<1>4. TypeOK /\ InHand(r)
  BY DEF StartInv, IInv
<1>5. /\ Alone(r) /\ Onward
      /\ req'[r].at \in StartSteps /\ req'[r].t = c
      /\ req'[r].at = "cart.gateway" => req'[r].todo = {}
      /\ \A b \in basket[c] \ req'[r].todo : Linked(b, c)' \/ (req'[r].at = "cart.link" /\ b = req'[r].b)
  <2>1. CASE ReadCartPayment(r)
    <3>1. PICK b \in req[r].todo : Turn(r, "cart.link", b, req[r].todo \ {b})
      BY <2>1 DEF ReadCartPayment
    <3>2. "cart.link" \in Steps
      BY DEF Steps
    <3>3. /\ Alone(r)
          /\ req'[r].at = "cart.link" /\ req'[r].t = req[r].t /\ req'[r].b = b
          /\ req'[r].todo = req[r].todo \ {b}
      BY <1>4, <3>1, <3>2, TurnType
    <3>4. UNCHANGED link /\ req[r].at = "cart.read"
      BY <2>1 DEF ReadCartPayment, bookingRows
    <3>5. Onward
      BY <1>3, <3>4 DEF Onward
    <3> QED BY <1>1, <1>2, <1>3, <3>3, <3>4, <3>5 DEF StartSteps, Linked, Moved
  <2>2. CASE LinkCartPayment(r)
    <3>1. Goto(r, IF req[r].todo = {} THEN "cart.gateway" ELSE "cart.read") /\ req[r].at = "cart.link"
      BY <2>2 DEF LinkCartPayment
    <3>2. "cart.gateway" \in Steps /\ "cart.read" \in Steps
      BY DEF Steps
    <3>3. /\ Alone(r)
          /\ req'[r].at = (IF req[r].todo = {} THEN "cart.gateway" ELSE "cart.read") /\ req'[r].t = req[r].t
          /\ req'[r].todo = req[r].todo
      BY <1>4, <3>1, <3>2, GotoType
    <3>4. /\ req[r].b \in Bookings /\ req[r].b \in basket[c] /\ link'[req[r].b] = c
          /\ \A b \in Bookings : b # req[r].b => link'[b] = link[b]
      BY <1>1, <1>4, <2>2, <3>1 DEF LinkCartPayment, InHand, TypeOK, RowsTypeOK
    <3>5. Onward
      BY <1>3, <3>4 DEF Onward
    <3>6. ASSUME NEW b \in basket[c] \ req[r].todo PROVE Linked(b, c)'
      <4>1. CASE b = req[r].b
        BY <3>4, <4>1 DEF Linked
      <4>2. CASE b # req[r].b
        BY <1>2, <1>3, <3>5, <4>2, LinkedKept
      <4> QED BY <4>1, <4>2
    <3> QED BY <1>1, <3>3, <3>5, <3>6 DEF StartSteps
  <2> QED BY <2>1, <2>2
<1>6. Pages'
  <2>1. ASSUME NEW d \in Carts, d \in opened, NEW b \in basket[d] PROVE Linked(b, d)'
    <3>1. b \in Bookings
      BY <2>1 DEF StartInv, IInv, TypeOK, RowsTypeOK
    <3> QED BY <1>5, <2>1, <3>1, LinkedKept DEF StartInv, Pages
  <2> QED BY <1>3, <2>1 DEF StartInv, Pages
<1>7. OneStarter'
  BY <1>1, <1>2, <1>5 DEF StartInv, OneStarter, Alone
<1>8. Opening(r)'
  BY <1>2, <1>3, <1>5 DEF Opening, StartSteps, SettleSteps, Linked
<1> QED BY <1>3, <1>5, <1>6, <1>7, <1>8, StartTogether

(* The page opens, or is refused, and its reference is stored.             *)
LEMMA PageStarts ==
  ASSUME StartInv, IInv', NEW r \in Requests,
         OpenCartPage(r) \/ CartPageRefused(r) \/ StoreReference(r) \/ MarkCartPaid(r)
  PROVE  StartInv'
<1>1. UNCHANGED <<link, basket, captured>>
  BY DEF OpenCartPage, CartPageRefused, StoreReference, MarkCartPaid, bookingRows, cartRows,
       gateway
<1>2. TypeOK /\ InHand(r) /\ Opening(r) /\ Pages
  BY DEF StartInv, IInv
<1>3. CASE OpenCartPage(r)
  <2>1. PICK c \in Carts : c = req[r].t
    BY <1>2, <1>3 DEF OpenCartPage, InHand
  <2>2. /\ UNCHANGED <<cart, reference>> /\ opened' = opened \cup {c} /\ req[r].at = "cart.gateway"
        /\ Goto(r, "cart.reference") /\ "cart.reference" \in Steps
    BY <1>3, <2>1 DEF OpenCartPage, cartRows, Steps
  <2>3. Alone(r) /\ req'[r].at = "cart.reference" /\ req'[r].t = c
    BY <1>2, <2>1, <2>2, GotoType
  <2>4. cart[c] # "NONE" /\ \A b \in basket[c] : Linked(b, c)
    BY <1>2, <2>1, <2>2 DEF Opening, StartSteps
  <2>5. Onward /\ Pages'
    BY <1>1, <1>2, <2>2, <2>4 DEF Onward, Pages, Linked, Moved
  <2>6. \A q \in Requests \ {r} : req[q].at \in StartSteps => req[q].t # c
    BY <2>1, <2>2 DEF StartInv, OneStarter, StartSteps
  <2>7. OneStarter'
    BY <2>3 DEF StartInv, OneStarter, Alone, StartSteps
  <2>8. Opening(r)'
    BY <2>2, <2>3 DEF Opening, StartSteps, SettleSteps
  <2> QED BY <2>2, <2>3, <2>5, <2>6, <2>7, <2>8, StartTogether
<1>4. CASE ~OpenCartPage(r)
  <2>1. /\ UNCHANGED opened
        /\ \A c \in Carts : cart[c] # "NONE" => cart'[c] # "NONE"
        /\ reference \subseteq reference'
    BY <1>2, <1>4 DEF CartPageRefused, StoreReference, MarkCartPaid, cartRows, gateway, TypeOK,
         RowsTypeOK
  <2>2. reference' \subseteq opened
    BY <1>2, <1>4 DEF CartPageRefused, StoreReference, MarkCartPaid, cartRows, Pages, Opening
  <2>3. \A c \in Carts : cart'[c] = "NONE" => cart[c] = "NONE"
    BY <2>1
  <2>4. Onward /\ Pages'
    BY <1>1, <1>2, <2>1, <2>2, <2>3 DEF Onward, Pages, Linked, Moved
  <2>5. Alone(r) /\ req'[r].at \in {"idle", "cart.token"}
    <3>1. CASE StoreReference(r)
      <4>1. Goto(r, "cart.token") /\ "cart.token" \in Steps
        BY <3>1 DEF StoreReference, Steps
      <4> QED BY <1>2, <4>1, GotoType
    <3>2. CASE CartPageRefused(r) \/ MarkCartPaid(r)
      <4>1. End(r)
        BY <3>2 DEF CartPageRefused, MarkCartPaid
      <4> QED BY <1>2, <4>1, EndType DEF End, Idle, TypeOK
    <3> QED BY <1>4, <3>1, <3>2
  <2>6. OneStarter'
    BY <2>5 DEF StartInv, OneStarter, Alone, StartSteps
  <2>7. Opening(r)'
    BY <2>5 DEF Opening, StartSteps, SettleSteps
  <2> QED BY <2>1, <2>4, <2>5, <2>6, <2>7, StartTogether
<1> QED BY <1>3, <1>4

LEMMA SinglePageStarts ==
  ASSUME StartInv, IInv', NEW r \in Requests, OpenSinglePage(r)
  PROVE  StartInv'
<1>1. /\ UNCHANGED <<link, cart, basket, reference, captured>> /\ opened' = opened \cup {req[r].b}
      /\ Goto(r, "single.token") /\ "single.token" \in Steps
  BY DEF OpenSinglePage, bookingRows, cartRows, Steps
<1>2. TypeOK /\ Pages /\ req[r].b \in Bookings
  BY DEF StartInv, IInv, InHand, OpenSinglePage
<1>3. Alone(r) /\ req'[r].at = "single.token"
  BY <1>1, <1>2, GotoType
<1>4. req[r].b \notin Carts
  BY <1>2, CartAssumption DEF CartAssumption
<1>5. Onward /\ Pages'
  BY <1>1, <1>2, <1>4 DEF Onward, Pages, Linked, Moved
<1>6. \A q \in Requests : req[q].at \in StartSteps => req[q].t \in Carts
  BY DEF StartInv, IInv, InHand, StartSteps
<1>7. OneStarter'
  BY <1>3 DEF StartInv, OneStarter, Alone, StartSteps
<1>8. Opening(r)'
  BY <1>3 DEF Opening, StartSteps, SettleSteps
<1> QED BY <1>1, <1>3, <1>4, <1>5, <1>6, <1>7, <1>8, StartTogether

(* A request arrives that does not start a cart.                           *)
LEMMA ArriveStarts ==
  ASSUME StartInv, IInv', NEW r \in Requests,
         \/ \E b \in Bookings : InitiateSingle(r, b) \/ Decline(r, b)
         \/ \E t \in Tx : Report(r, t)
  PROVE  StartInv'
<1>1. TypeOK
  BY DEF StartInv, IInv
<1>2. CASE \E b \in Bookings : InitiateSingle(r, b) \/ Decline(r, b)
  <2>1. PICK b \in Bookings : InitiateSingle(r, b) \/ Decline(r, b)
    BY <1>2
  <2>2. PICK step \in {"single.write", "refund.read"}, t \in {b, None} : Begin(r, step, t, b, {})
    BY <2>1 DEF InitiateSingle, Decline
  <2>3. step \in Steps /\ t \in Tx \cup {None} /\ b \in Bookings \cup {None} /\ {} \in SUBSET Bookings
    BY DEF Steps, Tx
  <2>4. Alone(r) /\ req'[r] = [at |-> step, t |-> t, b |-> b, todo |-> {}]
    BY <1>1, <2>2, <2>3, BeginType
  <2>5. UNCHANGED <<link, cart, reference, basket, opened, captured>>
    BY <2>1 DEF InitiateSingle, Decline, bookingRows, cartRows, gateway
  <2> QED BY <2>4, <2>5, QuietStart DEF StartSteps, SettleSteps
<1>3. CASE \E t \in Tx : Report(r, t)
  <2>1. PICK t \in Tx : Report(r, t)
    BY <1>3
  <2>2. PICK step \in {"settle.check", "settle.paid"} : Begin(r, step, t, None, Unsettled(t))
    BY <2>1 DEF Report
  <2>3. step \in Steps /\ t \in Tx \cup {None} /\ None \in Bookings \cup {None} /\ Unsettled(t) \in SUBSET Bookings
    BY DEF Steps, Tx, Unsettled
  <2>4. Alone(r) /\ req'[r] = [at |-> step, t |-> t, b |-> None, todo |-> Unsettled(t)]
    BY <1>1, <2>2, <2>3, BeginType
  <2>5. /\ UNCHANGED <<link, cart, reference, basket, opened, captured>>
        /\ t \in captured /\ (t \in Carts => t \in reference)
    BY <2>1 DEF Report, bookingRows, cartRows, gateway
  <2> QED BY <2>4, <2>5, QuietStart DEF StartSteps, SettleSteps
<1> QED BY <1>2, <1>3

(* A request moves on without touching carts, links or pages.              *)
LEMMA QuietlyStarts ==
  ASSUME StartInv, IInv', NEW r \in Requests,
         \/ StoreTokens(r) \/ ResetPayment(r) \/ StoreToken(r)
         \/ CheckNotSettled(r) \/ WriteCompleted(r) \/ ActivateBooking(r)
         \/ ReadForRefund(r) \/ RefundAtGateway(r) \/ RecordRefund(r) \/ Stop(r)
  PROVE  StartInv'
<1>1. UNCHANGED <<link, cart, reference, basket, opened, captured>>
  BY DEF StoreTokens, ResetPayment, StoreToken, CheckNotSettled, WriteCompleted,
       ActivateBooking, ReadForRefund,
         RefundAtGateway, RecordRefund, Stop, bookingRows, cartRows, gateway
<1>2. TypeOK /\ InHand(r) /\ Opening(r)
  BY DEF StartInv, IInv
<1>3. CASE StoreTokens(r) \/ StoreToken(r) \/ RecordRefund(r) \/ Stop(r)
  <2>1. End(r)
    BY <1>3 DEF StoreTokens, StoreToken, RecordRefund, Stop
  <2>2. Alone(r) /\ req'[r].at = "idle"
    BY <1>2, <2>1, EndType DEF End, Idle, TypeOK
  <2> QED BY <1>1, <2>2, QuietStart DEF StartSteps, SettleSteps
<1>4. CASE ResetPayment(r) \/ WriteCompleted(r) \/ ActivateBooking(r) \/ RefundAtGateway(r)
  <2>1. PICK step \in {"single.gateway", "settle.activate", "settle.paid", "settle.check", "refund.write"} :
          Goto(r, step) /\ (step \in SettleSteps => req[r].at \in SettleSteps)
    BY <1>4 DEF ResetPayment, WriteCompleted, ActivateBooking, RefundAtGateway, SettleSteps
  <2>2. step \in Steps
    BY DEF Steps
  <2>3. Alone(r) /\ req'[r].at = step /\ req'[r].t = req[r].t
    BY <1>2, <2>1, <2>2, GotoType
  <2> QED BY <1>1, <1>2, <2>1, <2>3, QuietStart DEF StartSteps, SettleSteps, Opening
<1>5. CASE CheckNotSettled(r)
  <2>1. PICK b \in req[r].todo, step \in {"settle.write", "settle.paid", "settle.check"} :
          Turn(r, step, b, req[r].todo \ {b})
    BY <1>5 DEF CheckNotSettled
  <2>2. step \in Steps
    BY DEF Steps
  <2>3. Alone(r) /\ req'[r].at = step /\ req'[r].t = req[r].t
    BY <1>2, <2>1, <2>2, TurnType
  <2> QED BY <1>1, <1>2, <1>5, <2>3, QuietStart DEF StartSteps, SettleSteps, Opening,
       CheckNotSettled
<1>6. CASE ReadForRefund(r)
  <2>1. Alone(r) /\ req'[r].at = "refund.call"
    BY <1>2, <1>6 DEF ReadForRefund, Alone, TypeOK, Request
  <2> QED BY <1>1, <2>1, QuietStart DEF StartSteps, SettleSteps
<1> QED BY <1>3, <1>4, <1>5, <1>6

LEMMA CaptureStarts ==
  ASSUME StartInv, IInv', NEW t \in Tx, Capture(t)
  PROVE  StartInv'
<1>1. /\ UNCHANGED <<link, cart, reference, basket, opened, req>>
      /\ t \in opened /\ captured' = captured \cup {t}
  BY DEF Capture, bookingRows, cartRows
<1>2. Pages' /\ OneStarter'
  BY <1>1 DEF StartInv, Pages, OneStarter, Linked, Moved
<1>3. ASSUME NEW r \in Requests PROVE Opening(r)'
  BY <1>1 DEF StartInv, Opening, Linked, Moved
<1> QED BY <1>2, <1>3 DEF StartInv

LEMMA StartHolds == StartInv /\ [Next]_vars => StartInv'
<1> SUFFICES ASSUME StartInv, [Next]_vars PROVE StartInv'
  OBVIOUS
<1>0. IInv'
  BY StepHolds DEF StartInv
<1>1. CASE UNCHANGED vars
  BY <1>0, <1>1 DEF vars, bookingRows, cartRows, gateway, StartInv, Pages, OneStarter, Opening,
       Linked, Moved
<1>2. ASSUME NEW r \in Requests, Arrive(r) PROVE StartInv'
  <2>1. ASSUME NEW b \in Bookings, Verify(r, b) PROVE \E t \in Tx : Report(r, t)
    <3>1. token[b] \in Tx
      BY <2>1 DEF Verify, Tx, StartInv, IInv, TypeOK, RowsTypeOK
    <3> QED BY <2>1, <3>1 DEF Verify
  <2> QED BY <1>0, <1>2, <2>1, InitiateCartStarts, ArriveStarts DEF Arrive
<1>3. ASSUME NEW r \in Requests, Proceed(r) PROVE StartInv'
  BY <1>0, <1>3, LinkingStarts, PageStarts, SinglePageStarts, QuietlyStarts DEF Proceed
<1>4. ASSUME NEW t \in Tx, Capture(t) PROVE StartInv'
  BY <1>0, <1>4, CaptureStarts
<1> QED BY <1>1, <1>2, <1>3, <1>4 DEF Next, Rest

LEMMA InitStarts == Init => StartInv
<1> SUFFICES ASSUME Init PROVE StartInv
  OBVIOUS
<1>1. IInv
  BY InitHolds
<1>2. Pages /\ OneStarter /\ \A r \in Requests : Opening(r)
  BY DEF Init, Pages, OneStarter, Opening, Idle, StartSteps, SettleSteps
<1> QED BY <1>1, <1>2 DEF StartInv

LEMMA StartInvariance == Spec => []StartInv
BY InitStarts, StartHolds, PTL DEF Spec

-----------------------------------------------------------------------------
(* Overlapping requests for one booking do lose settlements and refunds:   *)
(* an attempt that read the payment as pending writes that over a report   *)
(* of another page, and two reports write "COMPLETED" twice, the second    *)
(* over a refund.  So the rest is proved of behaviours where no two        *)
(* requests have the same booking in hand; they may have the same cart.    *)
Holds(r) == req[r].todo \cup ({req[r].b} \cap Bookings)
Apart    == \A q, r \in Requests : q # r => Holds(q) \cap Holds(r) = {}

(* A settled cart has settled what it holds, save what was moved from it.  *)
CartsSettled ==
  \A c \in Carts : cart[c] = "PAID" => \A b \in basket[c] : pay[b] # "PENDING" \/ Moved(b, c)

(* A booking that was activated has a payment.                             *)
Activated == \A b \in Bookings : st[b] # "AWAITING_PAYMENT" => pay[b] # "PENDING"

(* A booking without a page of its own that reads as paid points at a paid *)
(* cart whose reference is stored, so that the refund finds it.            *)
Sources == \A b \in Bookings \ opened : pay[b] = "COMPLETED" => link[b] \in captured \cap reference

(* A declined booking still to be refunded has a request at it.            *)
Returning(b) == \E r \in Requests : req[r].at \in RefundSteps /\ req[r].b = b
Returns ==
  \A b \in Bookings \ opened : st[b] = "DECLINED" /\ pay[b] = "COMPLETED" /\ ~died => Returning(b)

(* What a request knows of the payments in its hands, and, of a cart, what *)
(* is left to settle.                                                      *)
Handling(r) == LET q == req[r] IN
  /\ q.at \in {"cart.link", "single.write"} => pay[q.b] = "PENDING"
  /\ q.at = "settle.paid" => q.todo = {}
  /\ q.at \in SettleSteps /\ q.t \in Carts =>
       /\ \A b \in q.todo : pay[b] = "PENDING" /\ link[b] = q.t
       /\ \A b \in Bookings :
            link[b] = q.t /\ pay[b] = "PENDING" => b \in q.todo \/ (q.at = "settle.write" /\ b = q.b)
  /\ q.at = "settle.write" => q.b \notin q.todo /\ (q.t \in Carts => pay[q.b] = "PENDING" /\ link[q.b] = q.t)
  /\ q.at = "settle.activate" => pay[q.b] = "COMPLETED"
  /\ q.at = "refund.call" => q.b \in opened \/ q.t \in captured

SettleInv ==
  /\ StartInv /\ CartsSettled /\ Activated /\ Sources /\ Returns
  /\ \A r \in Requests : Handling(r)

(* A step of request r writes payments and links only of bookings in its   *)
(* hands; it makes no payment pending, and links to no cart with a page.   *)
Within(r) ==
  /\ \A b \in Bookings \ Holds(r) : pay'[b] = pay[b] /\ link'[b] = link[b]
  /\ \A b \in Bookings : pay'[b] = "PENDING" => pay[b] = "PENDING"
  /\ \A b \in Bookings : link'[b] = link[b] \/ link'[b] \notin opened

LEMMA UnwrittenIsWithin ==
  ASSUME NEW r \in Requests, UNCHANGED <<pay, link>>
  PROVE  Within(r)
BY DEF Within

LEMMA OthersHandling ==
  ASSUME StartInv, Apart, NEW r \in Requests, NEW q \in Requests, q # r, Alone(r), Onward, Within(r), Handling(q)
  PROVE  Handling(q)'
<1>1. req'[q] = req[q] /\ req[q] \in Request
  BY DEF Alone, StartInv, IInv, TypeOK
<1>2. \A b \in Bookings : b \in Holds(q) => pay'[b] = pay[b] /\ link'[b] = link[b]
  BY DEF Apart, Within
<1>3. /\ req[q].todo \subseteq Holds(q) /\ req[q].todo \subseteq Bookings
      /\ req[q].b \in Bookings => req[q].b \in Holds(q)
  BY <1>1 DEF Holds, Request
<1>4. req[q].at \in {"cart.link", "single.write", "settle.write", "settle.activate"} => req[q].b \in Bookings
  BY DEF StartInv, IInv, InHand, TypeOK, RowsTypeOK
<1>5. req[q].at \in SettleSteps => req[q].t \in captured /\ req[q].t \in opened
  BY DEF StartInv, Opening, Pages
<1>6. opened \subseteq opened' /\ captured \subseteq captured'
  BY DEF Onward
<1>7. CASE req[q].at \in SettleSteps /\ req[q].t \in Carts
  <2>1. \A b \in req[q].todo : pay'[b] = "PENDING" /\ link'[b] = req[q].t
    BY <1>2, <1>3, <1>7 DEF Handling
  <2>2. ASSUME NEW b \in Bookings, link'[b] = req[q].t, pay'[b] = "PENDING"
        PROVE  b \in req[q].todo \/ (req[q].at = "settle.write" /\ b = req[q].b)
    <3>1. link[b] = req[q].t /\ pay[b] = "PENDING"
      BY <1>5, <1>7, <2>2 DEF Within
    <3> QED BY <1>7, <3>1 DEF Handling
  <2>3. req[q].at = "settle.write" => pay'[req[q].b] = "PENDING" /\ link'[req[q].b] = req[q].t
    BY <1>2, <1>3, <1>4, <1>7 DEF Handling
  <2>4. /\ req[q].at = "settle.activate" => pay'[req[q].b] = "COMPLETED"
        /\ req[q].at = "settle.paid" => req[q].todo = {}
        /\ req[q].at = "settle.write" => req[q].b \notin req[q].todo
    BY <1>2, <1>3, <1>4 DEF Handling
  <2> QED BY <1>1, <1>7, <2>1, <2>2, <2>3, <2>4 DEF Handling, SettleSteps
<1>8. CASE ~(req[q].at \in SettleSteps /\ req[q].t \in Carts)
  <2>1. req[q].at \in {"cart.link", "single.write"} => pay'[req[q].b] = "PENDING"
    BY <1>2, <1>3, <1>4 DEF Handling
  <2>2. /\ req[q].at = "settle.activate" => pay'[req[q].b] = "COMPLETED"
        /\ req[q].at = "settle.paid" => req[q].todo = {}
        /\ req[q].at = "settle.write" => req[q].b \notin req[q].todo
    BY <1>2, <1>3, <1>4 DEF Handling
  <2>3. req[q].at = "refund.call" => req[q].b \in opened' \/ req[q].t \in captured'
    BY <1>6 DEF Handling
  <2> QED BY <1>1, <1>8, <2>1, <2>2, <2>3 DEF Handling, SettleSteps
<1> QED BY <1>7, <1>8

(* A step that settles no cart keeps the carts settled.                    *)
LEMMA CartsStaySettled ==
  ASSUME StartInv, CartsSettled, Onward, NEW r \in Requests, Within(r),
         \A c \in Carts : cart'[c] = "PAID" => cart[c] = "PAID"
  PROVE  CartsSettled'
<1>1. ASSUME NEW c \in Carts, cart'[c] = "PAID", NEW b \in basket'[c]
      PROVE  pay'[b] # "PENDING" \/ Moved(b, c)'
  <2>1. cart[c] = "PAID" /\ b \in basket[c] /\ b \in Bookings
    BY <1>1 DEF Onward, StartInv, IInv, TypeOK, RowsTypeOK
  <2>2. pay[b] # "PENDING" \/ Moved(b, c)
    BY <2>1 DEF CartsSettled
  <2>3. Moved(b, c) => Moved(b, c)'
    BY DEF Moved, Onward
  <2> QED BY <2>1, <2>2, <2>3 DEF Within
<1> QED BY <1>1 DEF CartsSettled

(* What is still to be refunded keeps its request.                         *)
LEMMA ReturnsKept ==
  ASSUME Returns, NEW r \in Requests, Alone(r), opened \subseteq opened', died => died',
         \A b \in Bookings \ opened' :
           st'[b] = "DECLINED" /\ pay'[b] = "COMPLETED" /\ ~died'
             => \/ st[b] = "DECLINED" /\ pay[b] = "COMPLETED"
                     /\ (req[r].at \in RefundSteps /\ req[r].b = b => req'[r].at \in RefundSteps /\ req'[r].b = b)
                \/ req'[r].at \in RefundSteps /\ req'[r].b = b
  PROVE  Returns'
<1>1. ASSUME NEW b \in Bookings \ opened', st'[b] = "DECLINED", pay'[b] = "COMPLETED", ~died'
      PROVE  \E q \in Requests : req'[q].at \in RefundSteps /\ req'[q].b = b
  <2>1. CASE req'[r].at \in RefundSteps /\ req'[r].b = b
    BY <2>1
  <2>2. CASE ~(req'[r].at \in RefundSteps /\ req'[r].b = b)
    <3>1. /\ st[b] = "DECLINED" /\ pay[b] = "COMPLETED" /\ ~died /\ b \notin opened
          /\ ~(req[r].at \in RefundSteps /\ req[r].b = b)
      BY <1>1, <2>2
    <3>2. PICK q \in Requests : req[q].at \in RefundSteps /\ req[q].b = b
      BY <1>1, <3>1 DEF Returns, Returning
    <3>3. req'[q] = req[q]
      BY <3>1, <3>2 DEF Alone
    <3> QED BY <3>2, <3>3
  <2> QED BY <2>1, <2>2
<1> QED BY <1>1 DEF Returns, Returning

LEMMA SettleTogether ==
  ASSUME SettleInv, StartInv', Apart, NEW r \in Requests, Alone(r), Onward, Within(r),
         CartsSettled', Activated', Sources', Returns', Handling(r)'
  PROVE  SettleInv'
<1>1. ASSUME NEW q \in Requests PROVE Handling(q)'
  <2>1. CASE q # r
    BY <2>1, OthersHandling DEF SettleInv
  <2> QED BY <2>1
<1> QED BY <1>1 DEF SettleInv

-----------------------------------------------------------------------------
(* Steps that write no payment, link or status and refund nothing.         *)
LEMMA OnwardHolds ==
  ASSUME StartInv, Next
  PROVE  Onward
<1>1. /\ captured \subseteq opened /\ TypeOK /\ Unstarted
      /\ \A r \in Requests : InHand(r)
  BY DEF StartInv, IInv, Pages
<1>2. ASSUME NEW r \in Requests, NEW c \in Carts, NEW B \in SUBSET Bookings, InitiateCart(r, c, B)
      PROVE  Onward
  BY <1>1, <1>2 DEF InitiateCart, Onward, TypeOK, RowsTypeOK, Unstarted, bookingRows, gateway
<1>3. ASSUME NEW r \in Requests, NEW b \in Bookings, InitiateSingle(r, b) \/ Decline(r, b)
      PROVE  Onward
  BY <1>3 DEF InitiateSingle, Decline, Onward, bookingRows, cartRows, gateway
<1>4. ASSUME NEW r \in Requests, NEW t, Report(r, t)
      PROVE  Onward
  BY <1>4 DEF Report, Onward, bookingRows, cartRows, gateway
<1>5. ASSUME NEW r \in Requests, Proceed(r)
      PROVE  Onward
  <2>1. CASE LinkCartPayment(r)
    <3>1. /\ UNCHANGED <<cart, reference, basket, opened, captured>>
          /\ \A b \in Bookings : link'[b] = link[b] \/ (link'[b] = req[r].t /\ b = req[r].b)
      BY <1>1, <2>1 DEF LinkCartPayment, cartRows, gateway, TypeOK, RowsTypeOK
    <3>2. req[r].t \in Carts /\ req[r].b \in basket[req[r].t]
      BY <1>1, <2>1 DEF LinkCartPayment, InHand
    <3> QED BY <3>1, <3>2 DEF Onward
  <2>2. CASE \/ OpenCartPage(r) \/ StoreReference(r) \/ OpenSinglePage(r)
    BY <2>2 DEF OpenCartPage, StoreReference, OpenSinglePage, Onward, bookingRows, cartRows,
         gateway
  <2>3. CASE CartPageRefused(r) \/ MarkCartPaid(r)
    BY <1>1, <2>3 DEF CartPageRefused, MarkCartPaid, Onward, bookingRows, gateway, TypeOK,
         RowsTypeOK
  <2>4. CASE \/ ReadCartPayment(r) \/ StoreTokens(r) \/ ResetPayment(r) \/ StoreToken(r)
             \/ CheckNotSettled(r) \/ WriteCompleted(r) \/ ActivateBooking(r)
             \/ ReadForRefund(r) \/ RefundAtGateway(r) \/ RecordRefund(r) \/ Stop(r)
    BY <2>4 DEF ReadCartPayment, StoreTokens, ResetPayment, StoreToken, CheckNotSettled,
         WriteCompleted,
       ActivateBooking, ReadForRefund, RefundAtGateway, RecordRefund, Stop, Onward, bookingRows,
       cartRows, gateway
  <2> QED BY <1>5, <2>1, <2>2, <2>3, <2>4 DEF Proceed
<1>6. ASSUME NEW t \in Tx, Capture(t)
      PROVE  Onward
  BY <1>6 DEF Capture, Onward, bookingRows, cartRows
<1>7. CASE Rest
  BY <1>7 DEF Rest, vars, Onward, bookingRows, cartRows, gateway
<1> QED BY <1>2, <1>3, <1>4, <1>5, <1>6, <1>7 DEF Next, Arrive, Verify

LEMMA RequestAlone ==
  ASSUME TypeOK, NEW r \in Requests, Arrive(r) \/ Proceed(r)
  PROVE  Alone(r)
BY DEF TypeOK, Alone, Arrive, Proceed, InitiateCart, InitiateSingle, Decline, Verify, Report,
     ReadCartPayment,
   LinkCartPayment, OpenCartPage, CartPageRefused, StoreReference, StoreTokens, ResetPayment,
   OpenSinglePage,
   StoreToken, CheckNotSettled, WriteCompleted, ActivateBooking, MarkCartPaid, ReadForRefund,
   RefundAtGateway,
   RecordRefund, Stop, Begin, Goto, Turn, End

LEMMA PlainStep ==
  ASSUME SettleInv, StartInv', Apart, NEW r \in Requests, Alone(r), Onward,
         UNCHANGED <<st, pay, link, died>>, \A c \in Carts : cart'[c] = "PAID" => cart[c] = "PAID",
         req[r].at \in RefundSteps => req'[r].at \in RefundSteps /\ req'[r].b = req[r].b,
         Handling(r)'
  PROVE  SettleInv'
<1>1. Within(r)
  BY UnwrittenIsWithin
<1>2. CartsSettled'
  BY <1>1, CartsStaySettled DEF SettleInv
<1>3. Activated' /\ Sources'
  BY DEF SettleInv, Activated, Sources, Onward
<1>4. Returns'
  <2>1. Returns /\ opened \subseteq opened' /\ (died => died')
    BY DEF SettleInv, Onward
  <2> QED BY <2>1, ReturnsKept
<1> QED BY <1>1, <1>2, <1>3, <1>4, SettleTogether

LEMMA ArrivePlain ==
  ASSUME SettleInv, StartInv', Apart, NEW r \in Requests, Alone(r), Onward,
         \/ \E c \in Carts, B \in SUBSET Bookings : InitiateCart(r, c, B)
         \/ \E b \in Bookings : InitiateSingle(r, b)
         \/ \E t \in Tx : Report(r, t)
  PROVE  SettleInv'
<1>1. TypeOK /\ req[r].at = "idle" /\ UNCHANGED <<st, pay, link, died>>
  BY DEF SettleInv, StartInv, IInv, InitiateCart, InitiateSingle, Report, Begin, bookingRows
<1>2. CASE \E c \in Carts, B \in SUBSET Bookings : InitiateCart(r, c, B)
  <2>1. PICK c \in Carts, B \in SUBSET Bookings : InitiateCart(r, c, B)
    BY <1>2
  <2>2. \A d \in Carts : cart'[d] = "PAID" => cart[d] = "PAID"
    BY <1>1, <2>1 DEF InitiateCart, TypeOK, RowsTypeOK
  <2>3. Handling(r)'
    BY <1>1, <2>1 DEF InitiateCart, Begin, Handling, SettleSteps, TypeOK
  <2> QED BY <1>1, <2>2, <2>3, PlainStep DEF RefundSteps
<1>3. CASE \E b \in Bookings : InitiateSingle(r, b)
  <2>1. PICK b \in Bookings : InitiateSingle(r, b)
    BY <1>3
  <2>2. UNCHANGED cart
    BY <2>1 DEF InitiateSingle, cartRows
  <2>3. Handling(r)'
    BY <1>1, <2>1 DEF InitiateSingle, Begin, Handling, SettleSteps, TypeOK
  <2> QED BY <1>1, <2>2, <2>3, PlainStep DEF RefundSteps
<1>4. CASE \E t \in Tx : Report(r, t)
  <2>1. PICK t \in Tx : Report(r, t)
    BY <1>4
  <2>2. UNCHANGED cart
    BY <2>1 DEF Report, cartRows
  <2>3. /\ req'[r].at = (IF Unsettled(t) # {} THEN "settle.check" ELSE "settle.paid")
        /\ req'[r].t = t /\ req'[r].todo = Unsettled(t)
    BY <1>1, <2>1 DEF Report, Begin, TypeOK
  <2>4. Handling(r)'
    BY <1>1, <2>3 DEF Handling, SettleSteps, Unsettled
  <2> QED BY <1>1, <2>2, <2>4, PlainStep DEF RefundSteps
<1> QED BY <1>2, <1>3, <1>4

LEMMA ProceedPlain ==
  ASSUME SettleInv, StartInv', Apart, NEW r \in Requests, Alone(r), Onward,
         \/ ReadCartPayment(r) \/ OpenCartPage(r) \/ CartPageRefused(r) \/ StoreReference(r) \/ StoreTokens(r)
         \/ OpenSinglePage(r) \/ StoreToken(r) \/ CheckNotSettled(r) \/ ReadForRefund(r) \/ RefundAtGateway(r)
  PROVE  SettleInv'
<1>1. TypeOK /\ InHand(r) /\ Handling(r) /\ Opening(r)
  BY DEF SettleInv, StartInv, IInv
<1>2. UNCHANGED <<st, pay, link, died>>
  BY DEF ReadCartPayment, OpenCartPage, CartPageRefused, StoreReference, StoreTokens,
       OpenSinglePage,
         StoreToken, CheckNotSettled, ReadForRefund, RefundAtGateway, bookingRows
<1>3. \A c \in Carts : cart'[c] = "PAID" => cart[c] = "PAID"
  BY <1>1 DEF ReadCartPayment, OpenCartPage, CartPageRefused, StoreReference, StoreTokens,
       OpenSinglePage,
         StoreToken, CheckNotSettled, ReadForRefund, RefundAtGateway, cartRows, TypeOK, RowsTypeOK
<1>4. CASE ReadCartPayment(r)
  <2>1. PICK b \in req[r].todo : pay[b] = "PENDING" /\ Turn(r, "cart.link", b, req[r].todo \ {b})
    BY <1>4 DEF ReadCartPayment
  <2>2. "cart.link" \in Steps
    BY DEF Steps
  <2>3. req'[r].at = "cart.link" /\ req'[r].b = b
    BY <1>1, <2>1, <2>2, TurnType
  <2>4. Handling(r)'
    BY <1>2, <2>1, <2>3 DEF Handling, SettleSteps
  <2> QED BY <1>2, <1>3, <1>4, <2>4, PlainStep DEF RefundSteps, ReadCartPayment
<1>5. CASE CartPageRefused(r) \/ StoreTokens(r) \/ StoreToken(r)
  <2>1. End(r) /\ req[r].at \notin RefundSteps
    BY <1>5 DEF CartPageRefused, StoreTokens, StoreToken, RefundSteps
  <2>2. req'[r].at = "idle"
    BY <1>1, <2>1 DEF End, Idle, TypeOK
  <2>3. Handling(r)'
    BY <2>2 DEF Handling, SettleSteps
  <2> QED BY <1>2, <1>3, <2>1, <2>3, PlainStep
<1>6. CASE OpenCartPage(r) \/ StoreReference(r) \/ OpenSinglePage(r)
  <2>1. PICK step \in {"cart.reference", "cart.token", "single.token"} : Goto(r, step)
    BY <1>6 DEF OpenCartPage, StoreReference, OpenSinglePage
  <2>2. step \in Steps /\ req[r].at \notin RefundSteps
    BY <1>6 DEF Steps, OpenCartPage, StoreReference, OpenSinglePage, RefundSteps
  <2>3. req'[r].at = step
    BY <1>1, <2>1, <2>2, GotoType
  <2>4. Handling(r)'
    BY <2>3 DEF Handling, SettleSteps
  <2> QED BY <1>2, <1>3, <2>2, <2>4, PlainStep
<1>7. CASE CheckNotSettled(r)
  <2>1. PICK b \in req[r].todo :
          Turn(r, IF pay[b] # "COMPLETED" THEN "settle.write"
                  ELSE IF req[r].todo = {b} THEN "settle.paid" ELSE "settle.check", b, req[r].todo \ {b})
    BY <1>7 DEF CheckNotSettled
  <2>2. {"settle.write", "settle.paid", "settle.check"} \subseteq Steps /\ req[r].at = "settle.check"
    BY <1>7 DEF Steps, CheckNotSettled
  <2>3. PICK step \in {"settle.write", "settle.paid", "settle.check"} :
          /\ step = (IF pay[b] # "COMPLETED" THEN "settle.write"
                     ELSE IF req[r].todo = {b} THEN "settle.paid" ELSE "settle.check")
          /\ Turn(r, step, b, req[r].todo \ {b})
    BY <2>1
  <2>4. /\ req'[r].at = step /\ req'[r].t = req[r].t /\ req'[r].b = b
        /\ req'[r].todo = req[r].todo \ {b} /\ b \in Bookings
    BY <1>1, <2>2, <2>3, TurnType
  <2>5. req[r].t \in Carts => pay[b] = "PENDING" /\ link[b] = req[r].t
    BY <1>1, <2>2 DEF Handling, SettleSteps
  <2>6. Handling(r)'
    <3>1. step = "settle.paid" => req[r].todo \ {b} = {}
      BY <2>3
    <3>2. CASE req[r].t \in Carts
      <4>1. step = "settle.write"
        BY <2>3, <2>5, <3>2
      <4>2. /\ \A a \in req[r].todo : pay[a] = "PENDING" /\ link[a] = req[r].t
            /\ \A a \in Bookings : link[a] = req[r].t /\ pay[a] = "PENDING" => a \in req[r].todo
        BY <1>1, <2>2, <3>2 DEF Handling, SettleSteps
      <4> QED BY <1>2, <2>4, <2>5, <3>2, <4>1, <4>2 DEF Handling, SettleSteps
    <3>3. CASE req[r].t \notin Carts
      BY <2>4, <3>1, <3>3 DEF Handling, SettleSteps
    <3> QED BY <3>2, <3>3
  <2> QED BY <1>2, <1>3, <2>2, <2>6, PlainStep DEF RefundSteps
<1>8. CASE ReadForRefund(r)
  <2>1. /\ req[r].at = "refund.read" /\ req[r].b \in Bookings /\ pay[req[r].b] = "COMPLETED"
        /\ req' = [req EXCEPT ![r].at = "refund.call", ![r].t = RefundReference(req[r].b)]
        /\ UNCHANGED <<opened, captured>>
    BY <1>1, <1>8 DEF ReadForRefund, InHand, gateway
  <2>2. req'[r].at = "refund.call" /\ req'[r].b = req[r].b /\ req'[r].t = RefundReference(req[r].b)
    BY <1>1, <2>1 DEF TypeOK, Request
  <2>3. req[r].b \in opened \/ RefundReference(req[r].b) \in captured
    BY <2>1 DEF SettleInv, Sources, RefundReference
  <2>4. Handling(r)'
    BY <2>1, <2>2, <2>3 DEF Handling, SettleSteps
  <2> QED BY <1>2, <1>3, <2>1, <2>2, <2>4, PlainStep DEF RefundSteps
<1>9. CASE RefundAtGateway(r)
  <2>1. Goto(r, "refund.write") /\ "refund.write" \in Steps
    BY <1>9 DEF RefundAtGateway, Steps
  <2>2. req'[r].at = "refund.write" /\ req'[r].b = req[r].b
    BY <1>1, <2>1, GotoType
  <2>3. Handling(r)'
    BY <2>2 DEF Handling, SettleSteps
  <2> QED BY <1>2, <1>3, <2>2, <2>3, PlainStep DEF RefundSteps
<1> QED BY <1>4, <1>5, <1>6, <1>7, <1>8, <1>9

-----------------------------------------------------------------------------
(* Linking and resetting find the payment pending, as it was read.         *)
LEMMA RelinkSettles ==
  ASSUME SettleInv, StartInv', Apart, NEW r \in Requests, Alone(r), Onward,
         LinkCartPayment(r) \/ ResetPayment(r)
  PROVE  SettleInv'
<1>1. TypeOK /\ InHand(r) /\ Handling(r) /\ Opening(r)
  BY DEF SettleInv, StartInv, IInv
<1>2. req[r].b \in Bookings /\ pay[req[r].b] = "PENDING"
  BY <1>1 DEF LinkCartPayment, ResetPayment, InHand, Handling, TypeOK, RowsTypeOK
<1>3. UNCHANGED <<st, pay, cart, died>>
  BY <1>1, <1>2 DEF LinkCartPayment, ResetPayment, cartRows, TypeOK, RowsTypeOK
<1>4. CASE LinkCartPayment(r)
  <2>1. /\ req[r].at = "cart.link" /\ req[r].t \notin opened
        /\ \A b \in Bookings : link'[b] = IF b = req[r].b THEN req[r].t ELSE link[b]
    BY <1>1, <1>2, <1>4 DEF LinkCartPayment, Opening, StartSteps, TypeOK, RowsTypeOK
  <2>2. Within(r)
    BY <1>2, <1>3, <2>1 DEF Within, Holds
  <2>3. PICK step \in {"cart.gateway", "cart.read"} : Goto(r, step)
    BY <1>4 DEF LinkCartPayment
  <2>4. req'[r].at = step
    BY <1>1, <2>3, GotoType DEF Steps
  <2>5. Handling(r)'
    BY <2>4 DEF Handling, SettleSteps
  <2>6. CartsSettled'
    BY <1>3, <2>2, CartsStaySettled DEF SettleInv
  <2>7. Activated' /\ Sources'
    BY <1>2, <1>3, <2>1 DEF SettleInv, Activated, Sources, Onward
  <2>8. Returns'
    <3>1. Returns /\ opened \subseteq opened' /\ req[r].at \notin RefundSteps
      BY <2>1 DEF SettleInv, Onward, RefundSteps
    <3> QED BY <1>3, <3>1, ReturnsKept
  <2> QED BY <2>2, <2>5, <2>6, <2>7, <2>8, SettleTogether
<1>5. CASE ResetPayment(r)
  <2>1. Goto(r, "single.gateway") /\ "single.gateway" \in Steps /\ req[r].at = "single.write" /\ UNCHANGED link
    BY <1>5 DEF ResetPayment, Steps
  <2>2. req'[r].at = "single.gateway"
    BY <1>1, <2>1, GotoType
  <2>3. Handling(r)'
    BY <2>2 DEF Handling, SettleSteps
  <2> QED BY <1>3, <2>1, <2>3, PlainStep DEF RefundSteps
<1> QED BY <1>4, <1>5

(* One booking of a report is written as paid, and activated.              *)
LEMMA WriteSettles ==
  ASSUME SettleInv, StartInv', Apart, NEW r \in Requests, Alone(r), Onward, WriteCompleted(r)
  PROVE  SettleInv'
<1>1. TypeOK /\ InHand(r) /\ Handling(r) /\ Opening(r) /\ Pages
  BY DEF SettleInv, StartInv, IInv
<1>2. /\ req[r].at = "settle.write" /\ req[r].b \in Bookings /\ req[r].b \in Covers(req[r].t)
      /\ req[r].t \in captured /\ req[r].b \notin req[r].todo
  BY <1>1 DEF WriteCompleted, InHand, Handling
<1>3. /\ UNCHANGED <<st, link, cart, reference, opened, captured, died>>
      /\ \A b \in Bookings : pay'[b] = IF b = req[r].b THEN "COMPLETED" ELSE pay[b]
  BY <1>1, <1>2 DEF WriteCompleted, cartRows, gateway, TypeOK, RowsTypeOK
<1>4. req[r].b \notin opened
        => pay[req[r].b] = "PENDING" /\ link[req[r].b] = req[r].t /\ req[r].t \in captured \cap reference
  BY <1>1, <1>2 DEF Covers, Pages, Handling, Opening, SettleSteps
<1>5. Within(r)
  BY <1>2, <1>3 DEF Within, Holds
<1>6. CartsSettled'
  BY <1>3, <1>5, CartsStaySettled DEF SettleInv
<1>7. Activated' /\ Sources'
  BY <1>3, <1>4 DEF SettleInv, Activated, Sources
<1>8. Returns'
  <2>1. Returns /\ Activated /\ req[r].at \notin RefundSteps
    BY <1>2 DEF SettleInv, RefundSteps
  <2>2. ASSUME NEW b \in Bookings \ opened', st'[b] = "DECLINED", pay'[b] = "COMPLETED"
        PROVE  st[b] = "DECLINED" /\ pay[b] = "COMPLETED"
    BY <1>3, <1>4, <2>1, <2>2 DEF Activated
  <2> QED BY <1>3, <2>1, <2>2, ReturnsKept
<1>9. Handling(r)'
  <2>1. Goto(r, "settle.activate") /\ "settle.activate" \in Steps
    BY DEF WriteCompleted, Steps
  <2>2. /\ req'[r].at = "settle.activate" /\ req'[r].t = req[r].t /\ req'[r].b = req[r].b
        /\ req'[r].todo = req[r].todo /\ req[r].todo \subseteq Bookings
    BY <1>1, <2>1, GotoType DEF TypeOK, Request
  <2> QED BY <1>1, <1>2, <1>3, <2>2 DEF Handling, SettleSteps
<1> QED BY <1>5, <1>6, <1>7, <1>8, <1>9, SettleTogether

LEMMA ActivateSettles ==
  ASSUME SettleInv, StartInv', Apart, NEW r \in Requests, Alone(r), Onward, ActivateBooking(r)
  PROVE  SettleInv'
<1>1. TypeOK /\ InHand(r) /\ Handling(r)
  BY DEF SettleInv, StartInv, IInv
<1>2. req[r].at = "settle.activate" /\ req[r].b \in Bookings /\ pay[req[r].b] = "COMPLETED"
  BY <1>1 DEF ActivateBooking, InHand, Handling
<1>3. /\ UNCHANGED <<pay, link, cart, reference, opened, captured, died>>
      /\ \A b \in Bookings : st'[b] = st[b] \/ (b = req[r].b /\ st'[b] = "PENDING")
  BY <1>1, <1>2 DEF ActivateBooking, cartRows, gateway, TypeOK, RowsTypeOK
<1>4. Within(r)
  BY <1>3, UnwrittenIsWithin
<1>5. CartsSettled'
  BY <1>3, <1>4, CartsStaySettled DEF SettleInv
<1>6. Activated' /\ Sources'
  BY <1>2, <1>3 DEF SettleInv, Activated, Sources
<1>7. Returns'
  <2>1. Returns /\ req[r].at \notin RefundSteps
    BY <1>2 DEF SettleInv, RefundSteps
  <2>2. \A b \in Bookings : st'[b] = "DECLINED" => st[b] = "DECLINED"
    BY <1>3
  <2> QED BY <1>3, <2>1, <2>2, ReturnsKept
<1>8. Handling(r)'
  <2>1. PICK step \in {"settle.paid", "settle.check"} :
          Goto(r, step) /\ step = (IF req[r].todo = {} THEN "settle.paid" ELSE "settle.check")
    BY DEF ActivateBooking
  <2>2. /\ req'[r].at = step /\ req'[r].t = req[r].t /\ req'[r].b = req[r].b
        /\ req'[r].todo = req[r].todo /\ req[r].todo \subseteq Bookings
    BY <1>1, <2>1, GotoType DEF TypeOK, Request, Steps
  <2> QED BY <1>1, <1>2, <1>3, <2>1, <2>2 DEF Handling, SettleSteps
<1> QED BY <1>4, <1>5, <1>6, <1>7, <1>8, SettleTogether

(* Nothing linked to the cart is pending when it is marked as paid.        *)
LEMMA MarkSettles ==
  ASSUME SettleInv, StartInv', Apart, NEW r \in Requests, Alone(r), Onward, MarkCartPaid(r)
  PROVE  SettleInv'
<1>1. TypeOK /\ Handling(r) /\ Opening(r) /\ Pages
  BY DEF SettleInv, StartInv, IInv
<1>2. req[r].at = "settle.paid" /\ req[r].todo = {} /\ req[r].t \in opened
  BY <1>1 DEF MarkCartPaid, Handling, Opening, Pages, SettleSteps
<1>3. /\ UNCHANGED <<st, pay, link, reference, basket, opened, captured, died>>
      /\ \A c \in Carts : cart'[c] = IF c = req[r].t THEN "PAID" ELSE cart[c]
  BY DEF MarkCartPaid, bookingRows, gateway
<1>4. Within(r)
  BY <1>3, UnwrittenIsWithin
<1>5. CartsSettled'
  <2>1. ASSUME NEW c \in Carts, cart'[c] = "PAID", NEW b \in basket[c]
        PROVE  pay[b] # "PENDING" \/ Moved(b, c)
    <3>1. CASE c = req[r].t
      <4>1. b \in Bookings /\ Linked(b, c)
        BY <1>1, <1>2, <2>1, <3>1 DEF Pages, TypeOK, RowsTypeOK
      <4> QED BY <1>1, <1>2, <3>1, <4>1 DEF Linked, Handling, SettleSteps
    <3>2. CASE c # req[r].t
      BY <1>3, <2>1, <3>2 DEF SettleInv, CartsSettled
    <3> QED BY <3>1, <3>2
  <2> QED BY <1>3, <2>1 DEF CartsSettled, Moved
<1>6. Activated' /\ Sources'
  BY <1>3 DEF SettleInv, Activated, Sources
<1>7. Returns'
  <2>1. Returns /\ req[r].at \notin RefundSteps
    BY <1>2 DEF SettleInv, RefundSteps
  <2> QED BY <1>3, <2>1, ReturnsKept
<1>8. Handling(r)'
  <2>1. req'[r].at = "idle"
    BY <1>1 DEF MarkCartPaid, End, Idle, TypeOK
  <2> QED BY <2>1 DEF Handling, SettleSteps
<1> QED BY <1>4, <1>5, <1>6, <1>7, <1>8, SettleTogether

(* A declined booking has a request at its refund until it is recorded.    *)
LEMMA DeclineSettles ==
  ASSUME SettleInv, StartInv', Apart, NEW r \in Requests, Alone(r), Onward, NEW b \in Bookings, Decline(r, b)
  PROVE  SettleInv'
<1>1. TypeOK
  BY DEF SettleInv, StartInv, IInv
<1>2. /\ UNCHANGED <<pay, link, cart, reference, opened, captured, died>>
      /\ st[b] = "PENDING" /\ \A a \in Bookings \ {b} : st'[a] = st[a]
      /\ req'[r].at = "refund.read" /\ req'[r].b = b
  BY <1>1 DEF Decline, Begin, cartRows, gateway, TypeOK, RowsTypeOK
<1>3. Within(r)
  BY <1>2, UnwrittenIsWithin
<1>4. CartsSettled'
  BY <1>2, <1>3, CartsStaySettled DEF SettleInv
<1>5. Activated' /\ Sources'
  BY <1>2 DEF SettleInv, Activated, Sources
<1>6. Returns'
  <2>1. Returns /\ req[r].at \notin RefundSteps /\ req'[r].at \in RefundSteps
    BY <1>2 DEF SettleInv, RefundSteps, Decline, Begin
  <2> QED BY <1>2, <2>1, ReturnsKept
<1>7. Handling(r)'
  BY <1>2 DEF Handling, SettleSteps
<1> QED BY <1>3, <1>4, <1>5, <1>6, <1>7, SettleTogether

LEMMA RecordSettles ==
  ASSUME SettleInv, StartInv', Apart, NEW r \in Requests, Alone(r), Onward, RecordRefund(r)
  PROVE  SettleInv'
<1>1. TypeOK /\ InHand(r)
  BY DEF SettleInv, StartInv, IInv
<1>2. /\ UNCHANGED <<st, link, cart, reference, opened, captured, died>>
      /\ req[r].b \in Bookings
      /\ \A b \in Bookings : pay'[b] = IF b = req[r].b THEN "REFUNDED" ELSE pay[b]
  BY <1>1 DEF RecordRefund, InHand, cartRows, gateway, TypeOK, RowsTypeOK
<1>3. Within(r)
  BY <1>2 DEF Within, Holds
<1>4. CartsSettled'
  BY <1>2, <1>3, CartsStaySettled DEF SettleInv
<1>5. Activated' /\ Sources'
  BY <1>2 DEF SettleInv, Activated, Sources
<1>6. Returns'
  <2>1. Returns
    BY DEF SettleInv
  <2>2. \A b \in Bookings : pay'[b] = "COMPLETED" => pay[b] = "COMPLETED" /\ b # req[r].b
    BY <1>2
  <2> QED BY <1>2, <2>1, <2>2, ReturnsKept
<1>7. Handling(r)'
  <2>1. req'[r].at = "idle"
    BY <1>1 DEF RecordRefund, End, Idle, TypeOK
  <2> QED BY <2>1 DEF Handling, SettleSteps
<1> QED BY <1>3, <1>4, <1>5, <1>6, <1>7, SettleTogether

(* A refund that is refused was of a booking with a page of its own, or is *)
(* not paid; any other request that stops has died.                        *)
LEMMA StopSettles ==
  ASSUME SettleInv, StartInv', Apart, NEW r \in Requests, Alone(r), Onward, Stop(r)
  PROVE  SettleInv'
<1>1. TypeOK /\ InHand(r) /\ Handling(r)
  BY DEF SettleInv, StartInv, IInv
<1>2. /\ UNCHANGED <<st, pay, link, cart, reference, opened, captured>>
      /\ died' = (died \/ ~Refused(r))
  BY DEF Stop, bookingRows, cartRows, gateway
<1>3. Within(r)
  BY <1>2, UnwrittenIsWithin
<1>4. CartsSettled'
  BY <1>2, <1>3, CartsStaySettled DEF SettleInv
<1>5. Activated' /\ Sources'
  BY <1>2 DEF SettleInv, Activated, Sources
<1>6. Returns'
  <2>1. Returns /\ (died => died')
    BY <1>2 DEF SettleInv
  <2>2. ASSUME req[r].at \in RefundSteps, pay[req[r].b] = "COMPLETED", req[r].b \notin opened
        PROVE  ~Refused(r)
    <3>1. req[r].b \in Bookings
      BY <1>1, <2>2 DEF InHand, RefundSteps
    <3>2. link[req[r].b] \in captured \cap reference
      BY <2>2, <3>1 DEF SettleInv, Sources
    <3>3. RefundReference(req[r].b) # None
      <4>1. reference \subseteq Tx
        BY <1>1 DEF TypeOK, RowsTypeOK, Tx
      <4> QED BY <3>2, <4>1, CartAssumption DEF RefundReference, CartAssumption
    <3>4. req[r].at = "refund.call" => req[r].t \in captured
      BY <1>1, <2>2 DEF Handling
    <3> QED BY <2>2, <3>3, <3>4 DEF Refused, RefundSteps
  <2>3. ASSUME NEW b \in Bookings \ opened', pay'[b] = "COMPLETED", ~died'
        PROVE  ~(req[r].at \in RefundSteps /\ req[r].b = b)
    BY <1>2, <2>2, <2>3
  <2> QED BY <1>2, <2>1, <2>3, ReturnsKept
<1>7. Handling(r)'
  <2>1. req'[r].at = "idle"
    BY <1>1 DEF Stop, End, Idle, TypeOK
  <2> QED BY <2>1 DEF Handling, SettleSteps
<1> QED BY <1>3, <1>4, <1>5, <1>6, <1>7, SettleTogether

LEMMA CaptureSettles ==
  ASSUME SettleInv, StartInv', NEW t \in Tx, Capture(t)
  PROVE  SettleInv'
<1>1. UNCHANGED <<st, pay, link, cart, basket, reference, opened, died, req>> /\ captured \subseteq captured'
  BY DEF Capture, bookingRows, cartRows
<1>2. CartsSettled' /\ Activated' /\ Sources' /\ Returns'
  BY <1>1 DEF SettleInv, CartsSettled, Activated, Sources, Returns, Returning, Moved
<1>3. ASSUME NEW r \in Requests PROVE Handling(r)'
  BY <1>1 DEF SettleInv, Handling
<1> QED BY <1>2, <1>3 DEF SettleInv

LEMMA SettleHolds == SettleInv /\ Apart /\ [Next]_vars => SettleInv'
<1> SUFFICES ASSUME SettleInv, Apart, [Next]_vars PROVE SettleInv'
  OBVIOUS
<1>1. StartInv'
  BY StartHolds DEF SettleInv
<1>2. CASE UNCHANGED vars
  BY <1>1, <1>2 DEF vars, bookingRows, cartRows, gateway, SettleInv, CartsSettled, Activated,
       Sources, Returns,
     Returning, Moved, Handling
<1>3. CASE Next
  <2>1. Onward
    BY <1>3, OnwardHolds DEF SettleInv
  <2>2. ASSUME NEW r \in Requests, Arrive(r) \/ Proceed(r) PROVE Alone(r)
    BY <2>2, RequestAlone DEF SettleInv, StartInv, IInv
  <2>3. ASSUME NEW r \in Requests, Arrive(r) PROVE SettleInv'
    <3>1. ASSUME NEW b \in Bookings, Verify(r, b) PROVE \E t \in Tx : Report(r, t)
      <4>1. token[b] \in Tx
        BY <3>1 DEF Verify, Tx, SettleInv, StartInv, IInv, TypeOK, RowsTypeOK
      <4> QED BY <3>1, <4>1 DEF Verify
    <3> QED BY <1>1, <2>1, <2>2, <2>3, <3>1, ArrivePlain, DeclineSettles DEF Arrive
  <2>4. ASSUME NEW r \in Requests, Proceed(r) PROVE SettleInv'
    BY <1>1, <2>1, <2>2, <2>4, ProceedPlain, RelinkSettles, WriteSettles, ActivateSettles,
         MarkSettles,
       RecordSettles, StopSettles DEF Proceed
  <2>5. ASSUME NEW t \in Tx, Capture(t) PROVE SettleInv'
    BY <1>1, <2>5, CaptureSettles
  <2>6. CASE Rest
    BY <1>2, <2>6 DEF Rest
  <2> QED BY <1>3, <2>3, <2>4, <2>5, <2>6 DEF Next
<1> QED BY <1>2, <1>3

LEMMA InitSettles == Init => SettleInv
<1> SUFFICES ASSUME Init PROVE SettleInv
  OBVIOUS
<1>1. StartInv
  BY InitStarts
<1>2. CartsSettled /\ Activated /\ Sources /\ Returns /\ \A r \in Requests : Handling(r)
  BY DEF Init, CartsSettled, Activated, Sources, Returns, Handling, Idle, SettleSteps
<1> QED BY <1>1, <1>2 DEF SettleInv

LEMMA SettleInvariance == Spec /\ []Apart => []SettleInv
BY InitSettles, SettleHolds, PTL DEF Spec

-----------------------------------------------------------------------------
(* With no two requests at one booking, a settled cart that shares no      *)
(* booking with another has settled every booking in it, wherever requests *)
(* died (settleCheckout).                                                  *)
THEOREM UnmovedCartsSettle == Spec /\ []Apart => []UnmovedCartSettles
<1>1. SettleInv => UnmovedCartSettles
  BY DEF SettleInv, CartsSettled, Moved, UnmovedCartSettles
<1> QED BY <1>1, SettleInvariance, PTL

(* With no two requests at one booking and none dead, a declined booking   *)
(* that never had a page of its own has been refunded between requests,    *)
(* whatever cart it was moved to (refundDeclinedBooking).                  *)
THEOREM DeclinedAreRefunded == Spec /\ []Apart => []DeclinedIsRefunded
<1>1. SettleInv => DeclinedIsRefunded
  BY DEF SettleInv, Returns, Returning, RefundSteps, DeclinedIsRefunded, AtRest
<1> QED BY <1>1, SettleInvariance, PTL

=============================================================================
