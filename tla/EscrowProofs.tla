---------------------------- MODULE EscrowProofs ----------------------------
(***************************************************************************)
(* Escrow keeps its promises for any number of bookings and of requests in *)
(* flight, crashing anywhere.  The inductive invariant IInv is that of     *)
(* EscrowInvariant.  Each action is shown to keep the rows' types, the     *)
(* facts requests rely on (Grows), the invariant of every booking and that *)
(* of the request it moves; StepKeeps does the other requests once.        *)
(***************************************************************************)
EXTENDS EscrowInvariant, TLAPS

USE DEF bookingRow, paymentRow, walletRows, gateway

Rows == <<bookingRow, paymentRow, walletRows, gateway, qr, approved>>

(* The facts no step takes away: what one request has established about a  *)
(* booking still holds when another request has run.                       *)
Grows == \A b \in Bookings :
  /\ secured[b] => secured'[b]
  /\ approved[b] => approved'[b]
  /\ done[b] => done'[b]
  /\ method[b] = "CASH" => method'[b] = "CASH"
  /\ st[b] # "NEW" => st'[b] # "NEW" /\ kind'[b] = kind[b]
  /\ method[b] = "CARD" /\ st[b] # "NEW" /\ (pay[b] # "NONE" \/ ~Exists(b))
       => method'[b] = "CARD" /\ (pay'[b] # "NONE" \/ ~Exists(b)')

(* Only request r moves.                                                   *)
Alone(r) == \A q \in Requests \ {r} : req'[q] = req[q]

-----------------------------------------------------------------------------
(* Requests: a busy one holds a booking, and every way to begin, move and  *)
(* end one keeps the type of the slots and leaves the others alone.        *)
LEMMA BusyBooking ==
  ASSUME RequestsTypeOK, NEW r \in Requests, req[r].at # "idle"
  PROVE  req[r].b \in Bookings
BY DEF RequestsTypeOK, Request

LEMMA BeginType ==
  ASSUME RequestsTypeOK, NEW r \in Requests, NEW b \in Bookings, NEW step \in Steps \ {"idle"},
         Begin(r, b, step)
  PROVE  RequestsTypeOK' /\ Alone(r)
BY EscrowAssumption DEF RequestsTypeOK, Begin, Request, Idle, Row, Alone

LEMMA BeginSeeingType ==
  ASSUME RequestsTypeOK, NEW r \in Requests, NEW b \in Bookings, NEW step \in Steps \ {"idle"},
         NEW s \in Row, BeginSeeing(r, b, step, s)
  PROVE  RequestsTypeOK' /\ Alone(r)
BY EscrowAssumption DEF RequestsTypeOK, BeginSeeing, Request, Idle, Alone

LEMMA BeginViaType ==
  ASSUME RequestsTypeOK, NEW r \in Requests, NEW b \in Bookings, NEW step \in Steps \ {"idle"},
         NEW v \in Gateways, BeginVia(r, b, step, v)
  PROVE  RequestsTypeOK' /\ Alone(r)
BY EscrowAssumption DEF RequestsTypeOK, BeginVia, Request, Idle, Row, Alone

LEMMA GotoType ==
  ASSUME RequestsTypeOK, NEW r \in Requests, NEW step \in Steps \ {"idle"},
         req[r].at # "idle", Goto(r, step)
  PROVE  RequestsTypeOK' /\ Alone(r)
BY EscrowAssumption DEF RequestsTypeOK, Goto, Request, Alone

LEMMA GotoSeeingType ==
  ASSUME RequestsTypeOK, NEW r \in Requests, NEW step \in Steps \ {"idle"}, NEW s \in Row,
         req[r].at # "idle", GotoSeeing(r, step, s)
  PROVE  RequestsTypeOK' /\ Alone(r)
BY ZenonT(40), EscrowAssumption DEF RequestsTypeOK, GotoSeeing, Request, Alone

LEMMA EndType ==
  ASSUME RequestsTypeOK, NEW r \in Requests, End(r)
  PROVE  RequestsTypeOK' /\ Alone(r) /\ req'[r] = Idle
BY EscrowAssumption DEF RequestsTypeOK, End, Request, Idle, Row, Steps, Alone

(* What every request relies on is kept by a step that takes no fact away. *)
LEMMA OthersKeep ==
  ASSUME RequestsTypeOK, NEW q \in Requests, RequestInv(q), RowsTypeOK, RowsTypeOK',
         Grows, req'[q] = req[q]
  PROVE  RequestInv(q)'
<1>1. CASE req[q].at = "idle"
  BY <1>1 DEF RequestInv, Scanning, CashSettling, Releasing, Settling, SettlingSeen, Approving
<1>2. CASE req[q].at # "idle"
  <2>1. req[q].b \in Bookings
    BY <1>2, BusyBooking
  <2> QED
    BY <1>2, <2>1 DEF RequestInv, Grows, Funded, Finished, RowsTypeOK
<1> QED
  BY <1>1, <1>2

LEMMA StepKeeps ==
  ASSUME IInv, NEW r \in Requests, RowsTypeOK', RequestsTypeOK', Alone(r), Grows,
         \A c \in Bookings : BookingInv(c)', RequestInv(r)'
  PROVE  IInv'
<1>1. ASSUME NEW q \in Requests PROVE RequestInv(q)'
  BY OthersKeep DEF IInv, TypeOK, Alone
<1> QED
  BY <1>1 DEF IInv, TypeOK

(* A step that only reads: the rows stay, and one request moves on.        *)
LEMMA ReadKeeps ==
  ASSUME IInv, NEW r \in Requests, UNCHANGED Rows, RequestsTypeOK', Alone(r), RequestInv(r)'
  PROVE  IInv'
<1>1. RowsTypeOK'
  BY DEF IInv, TypeOK, RowsTypeOK, Rows
<1>2. Grows
  BY DEF Grows, Rows, Exists
<1>3. \A c \in Bookings : BookingInv(c)'
  BY DEF IInv, BookingInv, Funded, Finished, Exists, Rows
<1> QED
  BY <1>1, <1>2, <1>3, StepKeeps

(* A request that has ended, and one that awaits something no later check  *)
(* relies on, rely on nothing but that their booking was created.          *)
LEMMA EndedRelies ==
  ASSUME NEW r \in Requests, req'[r] = Idle PROVE RequestInv(r)'
BY DEF RequestInv, Idle, Scanning, CashSettling, Releasing, Settling, SettlingSeen, Approving

-----------------------------------------------------------------------------
(* The steps that only read.                                               *)
LEMMA FindAbandonedKeeps ==
  ASSUME IInv, NEW r \in Requests, NEW b \in Bookings, FindAbandoned(r, b)
  PROVE  IInv'
<1>1. RequestsTypeOK' /\ Alone(r)
  BY BeginType DEF IInv, TypeOK, FindAbandoned, Steps
<1>2. RequestInv(r)'
  BY DEF IInv, TypeOK, RequestsTypeOK, Request, FindAbandoned, Begin, Idle, RequestInv,
         Scanning, CashSettling, Releasing, Settling, SettlingSeen, Approving
<1> QED
  BY <1>1, <1>2, ReadKeeps DEF FindAbandoned, Rows

LEMMA UpdateStatusKeeps ==
  ASSUME IInv, NEW r \in Requests, NEW b \in Bookings, NEW to \in BookingStatus, UpdateStatus(r, b, to)
  PROVE  IInv'
<1>1. RequestsTypeOK' /\ Alone(r)
  BY BeginSeeingType DEF IInv, TypeOK, UpdateStatus, Steps, Row
<1>2. RequestInv(r)'
  BY DEF IInv, TypeOK, RequestsTypeOK, Request, UpdateStatus, BeginSeeing, Idle,
         AllowedTransition, Exists, BookingInv, Funded, Finished, RequestInv, Scanning,
         CashSettling, Releasing, Settling, SettlingSeen, Approving
<1> QED
  BY <1>1, <1>2, ReadKeeps DEF UpdateStatus, Rows

LEMMA CheckStartKeeps ==
  ASSUME IInv, NEW r \in Requests, CheckStart(r)
  PROVE  IInv'
<1>1. req[r].b \in Bookings
  BY BusyBooking DEF IInv, TypeOK, CheckStart
<1>2. RequestsTypeOK' /\ Alone(r)
  BY <1>1, GotoType DEF IInv, TypeOK, CheckStart, Steps
<1>3. RequestInv(r)'
  BY <1>1
     DEF IInv, TypeOK, RequestsTypeOK, Request, CheckStart, Goto, CashOrPaid, BookingInv,
         Funded, Finished, RequestInv, Scanning, CashSettling, Releasing, Settling,
         SettlingSeen, Approving
<1> QED
  BY <1>2, <1>3, ReadKeeps DEF CheckStart, Rows

LEMMA ReadForRefundKeeps ==
  ASSUME IInv, NEW r \in Requests, ReadForRefund(r)
  PROVE  IInv'
<1>1. req[r].b \in Bookings
  BY BusyBooking DEF IInv, TypeOK, ReadForRefund
<1>2. RequestsTypeOK' /\ Alone(r)
  BY <1>1, GotoType DEF IInv, TypeOK, ReadForRefund, Steps
<1>3. RequestInv(r)'
  BY <1>1
     DEF IInv, TypeOK, RequestsTypeOK, Request, ReadForRefund, Goto, RequestInv, Scanning,
         CashSettling, Releasing, Settling, SettlingSeen, Approving
<1> QED
  BY <1>2, <1>3, ReadKeeps DEF ReadForRefund, Rows

LEMMA RequestQrKeeps ==
  ASSUME IInv, NEW r \in Requests, NEW b \in Bookings, RequestQr(r, b)
  PROVE  IInv'
<1>1. RequestsTypeOK' /\ Alone(r)
  BY BeginType DEF IInv, TypeOK, RequestQr, Steps
<1>2. RequestInv(r)'
  BY DEF IInv, TypeOK, RequestsTypeOK, Request, RequestQr, Begin, Idle, Scannable, RequestInv,
         Scanning, CashSettling, Releasing, Settling, SettlingSeen, Approving
<1> QED
  BY <1>1, <1>2, ReadKeeps DEF RequestQr, Rows

LEMMA ScanQrKeeps ==
  ASSUME IInv, NEW r \in Requests, NEW b \in Bookings, ScanQr(r, b)
  PROVE  IInv'
<1>1. RequestsTypeOK' /\ Alone(r)
  BY BeginType DEF IInv, TypeOK, ScanQr, Steps
<1>2. RequestInv(r)'
  BY DEF IInv, TypeOK, RequestsTypeOK, Request, ScanQr, Begin, Idle, BookingInv, RequestInv,
         Scanning, CashSettling, Releasing, Settling, SettlingSeen, Approving
<1> QED
  BY <1>1, <1>2, ReadKeeps DEF ScanQr, Rows

LEMMA ConfirmPayoutKeeps ==
  ASSUME IInv, NEW r \in Requests, NEW b \in Bookings, ConfirmPayout(r, b)
  PROVE  IInv'
<1>1. RequestsTypeOK' /\ Alone(r)
  BY BeginType DEF IInv, TypeOK, ConfirmPayout, Steps
<1>2. RequestInv(r)'
  BY DEF IInv, TypeOK, RequestsTypeOK, Request, ConfirmPayout, Begin, Idle, Exists, RequestInv,
         Scanning, CashSettling, Releasing, Settling, SettlingSeen, Approving
<1> QED
  BY <1>1, <1>2, ReadKeeps DEF ConfirmPayout, Rows

LEMMA ReadPaymentToReleaseKeeps ==
  ASSUME IInv, NEW r \in Requests, ReadPaymentToRelease(r)
  PROVE  IInv'
<1>1. req[r].b \in Bookings
  BY BusyBooking DEF IInv, TypeOK, ReadPaymentToRelease
<1>2. RequestsTypeOK' /\ Alone(r)
  BY <1>1, GotoType DEF IInv, TypeOK, ReadPaymentToRelease, Steps
<1>3. RequestInv(r)'
  BY <1>1
     DEF IInv, TypeOK, RequestsTypeOK, Request, ReadPaymentToRelease, Goto, RequestInv,
         Scanning, CashSettling, Releasing, Settling, SettlingSeen, Approving
<1> QED
  BY <1>2, <1>3, ReadKeeps DEF ReadPaymentToRelease, Rows

LEMMA ReadBookingToReleaseKeeps ==
  ASSUME IInv, NEW r \in Requests, ReadBookingToRelease(r)
  PROVE  IInv'
<1>1. req[r].b \in Bookings
  BY BusyBooking DEF IInv, TypeOK, ReadBookingToRelease
<1>2. RequestsTypeOK' /\ Alone(r)
  BY <1>1, GotoSeeingType DEF IInv, TypeOK, ReadBookingToRelease, Steps, RowsTypeOK
<1>3. RequestInv(r)'
  BY <1>1
     DEF IInv, TypeOK, RequestsTypeOK, Request, ReadBookingToRelease, GotoSeeing,
         PayoutEligible, BookingInv, Finished, RequestInv, Scanning, CashSettling, Releasing,
         Settling, SettlingSeen, Approving
<1> QED
  BY <1>2, <1>3, ReadKeeps DEF ReadBookingToRelease, Rows

LEMMA CheckNotReleasedKeeps ==
  ASSUME IInv, NEW r \in Requests, CheckNotReleased(r)
  PROVE  IInv'
<1>1. req[r].b \in Bookings
  BY BusyBooking DEF IInv, TypeOK, CheckNotReleased
<1>2. RequestsTypeOK' /\ Alone(r)
  BY <1>1, GotoType DEF IInv, TypeOK, CheckNotReleased, Steps
<1>3. RequestInv(r)'
  BY <1>1
     DEF IInv, TypeOK, RequestsTypeOK, Request, CheckNotReleased, Goto, Finished, RequestInv,
         Scanning, CashSettling, Releasing, Settling, SettlingSeen, Approving
<1> QED
  BY <1>2, <1>3, ReadKeeps DEF CheckNotReleased, Rows

LEMMA InitiateKeeps ==
  ASSUME IInv, NEW r \in Requests, NEW b \in Bookings, NEW g \in Gateways, Initiate(r, b, g)
  PROVE  IInv'
<1>1. RequestsTypeOK' /\ Alone(r)
  BY BeginViaType DEF IInv, TypeOK, Initiate, Steps
<1>2. RequestInv(r)'
  BY DEF IInv, TypeOK, RequestsTypeOK, Request, Initiate, BeginVia, Idle, Exists,
         CheckoutAllowed, RowsTypeOK, RequestInv, Scanning, CashSettling, Releasing, Settling,
         SettlingSeen, Approving
<1> QED
  BY <1>1, <1>2, ReadKeeps DEF Initiate, Rows

LEMMA CallbackKeeps ==
  ASSUME IInv, NEW r \in Requests, NEW b \in Bookings, Callback(r, b)
  PROVE  IInv'
<1>1. RequestsTypeOK' /\ Alone(r)
  BY BeginType DEF IInv, TypeOK, Callback, Steps
<1>2. RequestInv(r)'
  BY DEF IInv, TypeOK, RequestsTypeOK, Request, Callback, Begin, Idle, BookingInv, RequestInv,
         Scanning, CashSettling, Releasing, Settling, SettlingSeen, Approving
<1> QED
  BY <1>1, <1>2, ReadKeeps DEF Callback, Rows

LEMMA CheckNotSettledKeeps ==
  ASSUME IInv, NEW r \in Requests, CheckNotSettled(r)
  PROVE  IInv'
<1>1. req[r].b \in Bookings
  BY BusyBooking DEF IInv, TypeOK, CheckNotSettled
<1>2. RequestsTypeOK' /\ Alone(r)
  BY <1>1, GotoType DEF IInv, TypeOK, CheckNotSettled, Steps
<1>3. RequestInv(r)'
  BY <1>1
     DEF IInv, TypeOK, RequestsTypeOK, Request, CheckNotSettled, Goto, RequestInv, Scanning,
         CashSettling, Releasing, Settling, SettlingSeen, Approving
<1> QED
  BY <1>2, <1>3, ReadKeeps DEF CheckNotSettled, Rows

LEMMA ReadBookingToSettleKeeps ==
  ASSUME IInv, NEW r \in Requests, ReadBookingToSettle(r)
  PROVE  IInv'
<1>1. req[r].b \in Bookings
  BY BusyBooking DEF IInv, TypeOK, ReadBookingToSettle
<1>2. RequestsTypeOK' /\ Alone(r)
  BY <1>1, GotoSeeingType DEF IInv, TypeOK, ReadBookingToSettle, Steps, RowsTypeOK
<1>3. RequestInv(r)'
  BY <1>1
     DEF IInv, TypeOK, RequestsTypeOK, Request, ReadBookingToSettle, GotoSeeing, BookingInv,
         Finished, RequestInv, Scanning, CashSettling, Releasing, Settling, SettlingSeen,
         Approving
<1> QED
  BY <1>2, <1>3, ReadKeeps DEF ReadBookingToSettle, Rows

LEMMA ReadBookingToActivateKeeps ==
  ASSUME IInv, NEW r \in Requests, ReadBookingToActivate(r)
  PROVE  IInv'
<1>1. req[r].b \in Bookings
  BY BusyBooking DEF IInv, TypeOK, ReadBookingToActivate
<1>2. RequestsTypeOK' /\ Alone(r)
  BY <1>1, GotoType DEF IInv, TypeOK, ReadBookingToActivate, Steps
<1>3. RequestInv(r)'
  BY <1>1
     DEF IInv, TypeOK, RequestsTypeOK, Request, ReadBookingToActivate, Goto, Finished,
         RequestInv, Scanning, CashSettling, Releasing, Settling, SettlingSeen, Approving
<1> QED
  BY <1>2, <1>3, ReadKeeps DEF ReadBookingToActivate, Rows

LEMMA ReportFailureKeeps ==
  ASSUME IInv, NEW r \in Requests, NEW b \in Bookings, ReportFailure(r, b)
  PROVE  IInv'
<1>1. RequestsTypeOK' /\ Alone(r)
  BY BeginType DEF IInv, TypeOK, ReportFailure, Steps
<1>2. RequestInv(r)'
  BY DEF IInv, TypeOK, RequestsTypeOK, Request, ReportFailure, Begin, Idle, BookingInv,
         RequestInv, Scanning, CashSettling, Releasing, Settling, SettlingSeen, Approving
<1> QED
  BY <1>1, <1>2, ReadKeeps DEF ReportFailure, Rows

LEMMA OpenDisputeKeeps ==
  ASSUME IInv, NEW r \in Requests, NEW b \in Bookings, OpenDispute(r, b)
  PROVE  IInv'
<1>1. RequestsTypeOK' /\ Alone(r)
  BY BeginType DEF IInv, TypeOK, OpenDispute, Steps
<1>2. RequestInv(r)'
  BY DEF IInv, TypeOK, RequestsTypeOK, Request, OpenDispute, Begin, Idle, Exists, RequestInv,
         Scanning, CashSettling, Releasing, Settling, SettlingSeen, Approving
<1> QED
  BY <1>1, <1>2, ReadKeeps DEF OpenDispute, Rows

LEMMA ApproveWithdrawalKeeps ==
  ASSUME IInv, NEW r \in Requests, NEW b \in Bookings, ApproveWithdrawal(r, b)
  PROVE  IInv'
<1>1. RequestsTypeOK' /\ Alone(r)
  BY BeginType DEF IInv, TypeOK, ApproveWithdrawal, Steps
<1>2. RequestInv(r)'
  BY DEF IInv, TypeOK, RequestsTypeOK, Request, ApproveWithdrawal, Begin, Idle, BookingInv,
         RequestInv, Scanning, CashSettling, Releasing, Settling, SettlingSeen, Approving
<1> QED
  BY <1>1, <1>2, ReadKeeps DEF ApproveWithdrawal, Rows

LEMMA ReadApprovedBookingKeeps ==
  ASSUME IInv, NEW r \in Requests, ReadApprovedBooking(r)
  PROVE  IInv'
<1>1. req[r].b \in Bookings
  BY BusyBooking DEF IInv, TypeOK, ReadApprovedBooking
<1>2. RequestsTypeOK' /\ Alone(r)
  BY <1>1, GotoType DEF IInv, TypeOK, ReadApprovedBooking, Steps
<1>3. RequestInv(r)'
  BY <1>1
     DEF IInv, TypeOK, RequestsTypeOK, Request, ReadApprovedBooking, Goto, RequestInv,
         Scanning, CashSettling, Releasing, Settling, SettlingSeen, Approving
<1> QED
  BY <1>2, <1>3, ReadKeeps DEF ReadApprovedBooking, Rows

LEMMA ReadScannedBookingKeeps ==
  ASSUME IInv, NEW r \in Requests, ReadScannedBooking(r)
  PROVE  IInv'
<1>1. req[r].b \in Bookings
  BY BusyBooking DEF IInv, TypeOK, ReadScannedBooking
<1>2. RequestsTypeOK' /\ Alone(r)
  <2>1. "scan.claim" \in Steps \ {"idle"}
    BY DEF Steps
  <2>2. req' \in [Requests -> Request]
    <3> DEFINE v == IF method[req[r].b] = "CASH" THEN "CASH" ELSE "CARD"
    <3>1. req' = [req EXCEPT ![r].at = "scan.claim", ![r].via = v] /\ req \in [Requests -> Request]
      BY DEF IInv, TypeOK, RequestsTypeOK, ReadScannedBooking
    <3>2. v \in Gateways \cup {"CASH", "CARD"}
      OBVIOUS
    <3> HIDE DEF v
    <3>3. [req[r] EXCEPT !.at = "scan.claim", !.via = v] \in Request
      BY <2>1, <3>1, <3>2 DEF Request
    <3> QED BY <3>1, <3>3
  <2>3. /\ req'[r].at = "scan.claim" /\ req'[r].b = req[r].b
        /\ \A q \in Requests \ {r} : req'[q] = req[q]
    BY DEF IInv, TypeOK, RequestsTypeOK, ReadScannedBooking, Request
  <2> QED
    BY <1>1, <2>2, <2>3, EscrowAssumption DEF IInv, TypeOK, RequestsTypeOK, Alone
<1>3. RequestInv(r)'
  BY <1>1 DEF IInv, TypeOK, RequestsTypeOK, Request, ReadScannedBooking, Scannable,
              CashOrPaid, BookingInv, Funded, RequestInv, Scanning, CashSettling, Releasing, Settling, SettlingSeen, Approving
<1> QED
  BY <1>2, <1>3, ReadKeeps DEF ReadScannedBooking, Rows

LEMMA StopKeeps ==
  ASSUME IInv, NEW r \in Requests, Stop(r)
  PROVE  IInv'
<1>1. RequestsTypeOK' /\ Alone(r) /\ req'[r] = Idle
  BY EndType DEF IInv, TypeOK, Stop
<1> QED
  BY <1>1, EndedRelies, ReadKeeps DEF Stop, Rows

-----------------------------------------------------------------------------
(* The steps that write.                                                   *)
LEMMA CreateBookingKeeps ==
  ASSUME IInv, NEW r \in Requests, NEW b \in Bookings, NEW k \in Kinds, CreateBooking(r, b, k)
  PROVE  IInv'
<1>1. RowsTypeOK'
  BY EscrowAssumption
     DEF IInv, TypeOK, RowsTypeOK, CreateBooking, InitialStatus, Row, BookingStatus, AllKinds
<1>2. RequestsTypeOK' /\ Alone(r)
  BY BeginType DEF IInv, TypeOK, CreateBooking, InitialStatus, Steps
<1>3. Grows
  BY DEF IInv, TypeOK, RowsTypeOK, CreateBooking, InitialStatus, Grows, Exists, RequestInv,
         Scanning, CashSettling, Releasing, Settling, SettlingSeen, Approving
<1>4. \A c \in Bookings : BookingInv(c)'
  BY DEF IInv, TypeOK, RowsTypeOK, CreateBooking, InitialStatus, BookingInv, Funded, Finished,
         Exists, RequestInv, Scanning, CashSettling, Releasing, Settling, SettlingSeen,
         Approving
<1>5. RequestInv(r)'
  BY DEF IInv, TypeOK, RowsTypeOK, RequestsTypeOK, Request, CreateBooking, InitialStatus,
         Begin, Idle, BookingInv, Funded, Finished, Exists, RequestInv, Scanning, CashSettling,
         Releasing, Settling, SettlingSeen, Approving
<1> QED
  BY <1>1, <1>2, <1>3, <1>4, <1>5, StepKeeps

LEMMA CreatePaymentKeeps ==
  ASSUME IInv, NEW r \in Requests, CreatePayment(r)
  PROVE  IInv'
<1>1. req[r].b \in Bookings
  BY BusyBooking DEF IInv, TypeOK, CreatePayment
<1>2. RowsTypeOK'
  BY <1>1 DEF IInv, TypeOK, RowsTypeOK, CreatePayment, PaymentStatus
<1>3. RequestsTypeOK' /\ Alone(r) /\ req'[r] = Idle
  BY EndType DEF IInv, TypeOK, CreatePayment
<1>4. Grows
  BY <1>1
     DEF IInv, TypeOK, RowsTypeOK, CreatePayment, Grows, Exists, BookingInv, RequestInv,
         Scanning, CashSettling, Releasing, Settling, SettlingSeen, Approving
<1>5. \A c \in Bookings : BookingInv(c)'
  BY <1>1
     DEF IInv, TypeOK, RowsTypeOK, CreatePayment, BookingInv, Funded, Finished, Exists,
         RequestInv, Scanning, CashSettling, Releasing, Settling, SettlingSeen, Approving
<1>6. RequestInv(r)'
  BY <1>3, EndedRelies
<1> QED
  BY <1>2, <1>3, <1>4, <1>5, <1>6, StepKeeps

LEMMA DeleteAbandonedKeeps ==
  ASSUME IInv, NEW r \in Requests, DeleteAbandoned(r)
  PROVE  IInv'
<1>1. req[r].b \in Bookings
  BY BusyBooking DEF IInv, TypeOK, DeleteAbandoned
<1>2. RowsTypeOK'
  BY <1>1 DEF IInv, TypeOK, RowsTypeOK, DeleteAbandoned, Row, PaymentStatus
<1>3. RequestsTypeOK' /\ Alone(r) /\ req'[r] = Idle
  BY EndType DEF IInv, TypeOK, DeleteAbandoned
<1>4. Grows
  BY <1>1
     DEF IInv, TypeOK, RowsTypeOK, DeleteAbandoned, Grows, Exists, RequestInv, Scanning,
         CashSettling, Releasing, Settling, SettlingSeen, Approving
<1>5. \A c \in Bookings : BookingInv(c)'
  BY <1>1
     DEF IInv, TypeOK, RowsTypeOK, DeleteAbandoned, BookingInv, Funded, Finished, Exists,
         RequestInv, Scanning, CashSettling, Releasing, Settling, SettlingSeen, Approving
<1>6. RequestInv(r)'
  BY <1>3, EndedRelies
<1> QED
  BY <1>2, <1>3, <1>4, <1>5, <1>6, StepKeeps

LEMMA WriteStatusKeeps ==
  ASSUME IInv, NEW r \in Requests, WriteStatus(r)
  PROVE  IInv'
<1>1. req[r].b \in Bookings
  BY BusyBooking DEF IInv, TypeOK, WriteStatus
<1>2. RowsTypeOK'
  BY <1>1 DEF IInv, TypeOK, RowsTypeOK, RequestsTypeOK, Request, WriteStatus, Row, BookingStatus
<1>3. RequestsTypeOK' /\ Alone(r)
  BY GotoType, EndType DEF IInv, TypeOK, WriteStatus, Steps
<1>4. Grows
  BY <1>1
     DEF IInv, TypeOK, RowsTypeOK, WriteStatus, Grows, Exists, RequestInv, Scanning,
         CashSettling, Releasing, Settling, SettlingSeen, Approving
<1>5. \A c \in Bookings : BookingInv(c)'
  BY <1>1
     DEF IInv, TypeOK, RowsTypeOK, WriteStatus, BookingInv, Funded, Finished, Exists,
         RequestInv, Scanning, CashSettling, Releasing, Settling, SettlingSeen, Approving
<1>6. RequestInv(r)'
  BY <1>1
     DEF IInv, TypeOK, RowsTypeOK, RequestsTypeOK, Request, WriteStatus, Goto, End, Idle,
         Exists, RequestInv, Scanning, CashSettling, Releasing, Settling, SettlingSeen,
         Approving
<1> QED
  BY <1>2, <1>3, <1>4, <1>5, <1>6, StepKeeps

LEMMA RefundAtGatewayKeeps ==
  ASSUME IInv, NEW r \in Requests, RefundAtGateway(r)
  PROVE  IInv'
<1>1. req[r].b \in Bookings
  BY BusyBooking DEF IInv, TypeOK, RefundAtGateway
<1>2. RowsTypeOK'
  BY <1>1 DEF IInv, TypeOK, RowsTypeOK, RefundAtGateway
<1>3. RequestsTypeOK' /\ Alone(r)
  BY GotoType DEF IInv, TypeOK, RefundAtGateway, Steps
<1>4. Grows
  BY <1>1
     DEF IInv, TypeOK, RowsTypeOK, RefundAtGateway, Grows, Exists, RequestInv, Scanning,
         CashSettling, Releasing, Settling, SettlingSeen, Approving
<1>5. \A c \in Bookings : BookingInv(c)'
  BY <1>1
     DEF IInv, TypeOK, RowsTypeOK, RefundAtGateway, BookingInv, Funded, Finished, Exists,
         RequestInv, Scanning, CashSettling, Releasing, Settling, SettlingSeen, Approving
<1>6. RequestInv(r)'
  BY <1>1
     DEF IInv, TypeOK, RowsTypeOK, RequestsTypeOK, Request, RefundAtGateway, Goto, BookingInv,
         Funded, Finished, Exists, RequestInv, Scanning, CashSettling, Releasing, Settling,
         SettlingSeen, Approving
<1> QED
  BY <1>2, <1>3, <1>4, <1>5, <1>6, StepKeeps

LEMMA RecordRefundKeeps ==
  ASSUME IInv, NEW r \in Requests, RecordRefund(r)
  PROVE  IInv'
<1>1. req[r].b \in Bookings
  BY BusyBooking DEF IInv, TypeOK, RecordRefund
<1>2. RowsTypeOK'
  BY <1>1 DEF IInv, TypeOK, RowsTypeOK, RecordRefund, PaymentStatus
<1>3. RequestsTypeOK' /\ Alone(r) /\ req'[r] = Idle
  BY EndType DEF IInv, TypeOK, RecordRefund
<1>4. Grows
  BY <1>1
     DEF IInv, TypeOK, RowsTypeOK, RecordRefund, Grows, Exists, RequestInv, Scanning,
         CashSettling, Releasing, Settling, SettlingSeen, Approving
<1>5. \A c \in Bookings : BookingInv(c)'
  BY <1>1
     DEF IInv, TypeOK, RowsTypeOK, RecordRefund, BookingInv, Funded, Finished, Exists,
         RequestInv, Scanning, CashSettling, Releasing, Settling, SettlingSeen, Approving
<1>6. RequestInv(r)'
  BY <1>3, EndedRelies
<1> QED
  BY <1>2, <1>3, <1>4, <1>5, <1>6, StepKeeps

LEMMA IssueQrKeeps ==
  ASSUME IInv, NEW r \in Requests, IssueQr(r)
  PROVE  IInv'
<1>1. req[r].b \in Bookings
  BY BusyBooking DEF IInv, TypeOK, IssueQr
<1>2. RowsTypeOK'
  BY <1>1 DEF IInv, TypeOK, RowsTypeOK, IssueQr
<1>3. RequestsTypeOK' /\ Alone(r) /\ req'[r] = Idle
  BY EndType DEF IInv, TypeOK, IssueQr
<1>4. Grows
  BY <1>1
     DEF IInv, TypeOK, RowsTypeOK, IssueQr, Grows, Exists, RequestInv, Scanning, CashSettling,
         Releasing, Settling, SettlingSeen, Approving
<1>5. \A c \in Bookings : BookingInv(c)'
  BY <1>1
     DEF IInv, TypeOK, RowsTypeOK, IssueQr, BookingInv, Funded, Finished, Exists, RequestInv,
         Scanning, CashSettling, Releasing, Settling, SettlingSeen, Approving
<1>6. RequestInv(r)'
  BY <1>3, EndedRelies
<1> QED
  BY <1>2, <1>3, <1>4, <1>5, <1>6, StepKeeps

LEMMA ClaimQrKeeps ==
  ASSUME IInv, NEW r \in Requests, ClaimQr(r)
  PROVE  IInv'
<1>1. req[r].b \in Bookings
  BY BusyBooking DEF IInv, TypeOK, ClaimQr
<1>2. RowsTypeOK'
  BY <1>1 DEF IInv, TypeOK, RowsTypeOK, ClaimQr
<1>3. RequestsTypeOK' /\ Alone(r)
  BY GotoType DEF IInv, TypeOK, ClaimQr, Steps
<1>4. Grows
  BY <1>1
     DEF IInv, TypeOK, RowsTypeOK, ClaimQr, Grows, Exists, RequestInv, Scanning, CashSettling,
         Releasing, Settling, SettlingSeen, Approving
<1>5. \A c \in Bookings : BookingInv(c)'
  BY <1>1
     DEF IInv, TypeOK, RowsTypeOK, ClaimQr, BookingInv, Funded, Finished, Exists, RequestInv,
         Scanning, CashSettling, Releasing, Settling, SettlingSeen, Approving
<1>6. RequestInv(r)'
  BY <1>1
     DEF IInv, TypeOK, RowsTypeOK, RequestsTypeOK, Request, ClaimQr, Goto, BookingInv, Funded,
         Finished, Exists, RequestInv, Scanning, CashSettling, Releasing, Settling,
         SettlingSeen, Approving
<1> QED
  BY <1>2, <1>3, <1>4, <1>5, <1>6, StepKeeps

LEMMA CompleteBookingKeeps ==
  ASSUME IInv, NEW r \in Requests, CompleteBooking(r)
  PROVE  IInv'
<1>1. req[r].b \in Bookings
  BY BusyBooking DEF IInv, TypeOK, CompleteBooking
<1>2. RowsTypeOK'
  BY <1>1 DEF IInv, TypeOK, RowsTypeOK, CompleteBooking, Row, BookingStatus
<1>3. RequestsTypeOK' /\ Alone(r)
  BY GotoType DEF IInv, TypeOK, CompleteBooking, Steps
<1>4. Grows
  BY <1>1
     DEF IInv, TypeOK, RowsTypeOK, CompleteBooking, Grows, Exists, RequestInv, Scanning,
         CashSettling, Releasing, Settling, SettlingSeen, Approving
<1>5. \A c \in Bookings : BookingInv(c)'
  BY <1>1
     DEF IInv, TypeOK, RowsTypeOK, CompleteBooking, BookingInv, Funded, Finished, Exists,
         RequestInv, Scanning, CashSettling, Releasing, Settling, SettlingSeen, Approving
<1>6. RequestInv(r)'
  BY <1>1
     DEF IInv, TypeOK, RowsTypeOK, RequestsTypeOK, Request, CompleteBooking, Goto, BookingInv,
         Funded, Finished, Exists, RequestInv, Scanning, CashSettling, Releasing, Settling,
         SettlingSeen, Approving
<1> QED
  BY <1>2, <1>3, <1>4, <1>5, <1>6, StepKeeps

LEMMA SettleCashPaymentKeeps ==
  ASSUME IInv, NEW r \in Requests, SettleCashPayment(r)
  PROVE  IInv'
<1>1. req[r].b \in Bookings
  BY BusyBooking DEF IInv, TypeOK, SettleCashPayment
<1>2. RowsTypeOK'
  BY <1>1 DEF IInv, TypeOK, RowsTypeOK, SettleCashPayment, PaymentStatus
<1>3. RequestsTypeOK' /\ Alone(r)
  BY GotoType DEF IInv, TypeOK, SettleCashPayment, Steps
<1>4. Grows
  BY <1>1
     DEF IInv, TypeOK, RowsTypeOK, SettleCashPayment, Grows, Exists, RequestInv, Scanning,
         CashSettling, Releasing, Settling, SettlingSeen, Approving
<1>5. \A c \in Bookings : BookingInv(c)'
  BY <1>1
     DEF IInv, TypeOK, RowsTypeOK, SettleCashPayment, BookingInv, Funded, Finished, Exists,
         RequestInv, Scanning, CashSettling, Releasing, Settling, SettlingSeen, Approving
<1>6. RequestInv(r)'
  BY <1>1
     DEF IInv, TypeOK, RowsTypeOK, RequestsTypeOK, Request, SettleCashPayment, Goto,
         BookingInv, Funded, Finished, Exists, RequestInv, Scanning, CashSettling, Releasing,
         Settling, SettlingSeen, Approving
<1> QED
  BY <1>2, <1>3, <1>4, <1>5, <1>6, StepKeeps

LEMMA MarkPaidKeeps ==
  ASSUME IInv, NEW r \in Requests, MarkPaid(r)
  PROVE  IInv'
<1>1. req[r].b \in Bookings
  BY BusyBooking DEF IInv, TypeOK, MarkPaid
<1>2. RowsTypeOK'
  BY <1>1 DEF IInv, TypeOK, RowsTypeOK, MarkPaid, Row, BookingStatus
<1>3. RequestsTypeOK' /\ Alone(r) /\ req'[r] = Idle
  BY EndType DEF IInv, TypeOK, MarkPaid
<1>4. Grows
  BY <1>1
     DEF IInv, TypeOK, RowsTypeOK, MarkPaid, Grows, Exists, RequestInv, Scanning, CashSettling,
         Releasing, Settling, SettlingSeen, Approving
<1>5. \A c \in Bookings : BookingInv(c)'
  BY <1>1
     DEF IInv, TypeOK, RowsTypeOK, MarkPaid, BookingInv, Funded, Finished, Exists, RequestInv,
         Scanning, CashSettling, Releasing, Settling, SettlingSeen, Approving
<1>6. RequestInv(r)'
  BY <1>3, EndedRelies
<1> QED
  BY <1>2, <1>3, <1>4, <1>5, <1>6, StepKeeps

LEMMA CreditBalanceKeeps ==
  ASSUME IInv, NEW r \in Requests, CreditBalance(r)
  PROVE  IInv'
<1>1. req[r].b \in Bookings
  BY BusyBooking DEF IInv, TypeOK, CreditBalance
<1>2. RowsTypeOK'
  BY <1>1, EscrowAssumption DEF IInv, TypeOK, RowsTypeOK, CreditBalance
<1>3. RequestsTypeOK' /\ Alone(r)
  BY GotoType DEF IInv, TypeOK, CreditBalance, Steps
<1>4. Grows
  BY <1>1
     DEF IInv, TypeOK, RowsTypeOK, CreditBalance, Grows, Exists, RequestInv, Scanning,
         CashSettling, Releasing, Settling, SettlingSeen, Approving
<1>5. \A c \in Bookings : BookingInv(c)'
  BY <1>1
     DEF IInv, TypeOK, RowsTypeOK, CreditBalance, BookingInv, Funded, Finished, Exists,
         RequestInv, Scanning, CashSettling, Releasing, Settling, SettlingSeen, Approving
<1>6. RequestInv(r)'
  BY <1>1
     DEF IInv, TypeOK, RowsTypeOK, RequestsTypeOK, Request, CreditBalance, Goto, BookingInv,
         Funded, Finished, Exists, RequestInv, Scanning, CashSettling, Releasing, Settling,
         SettlingSeen, Approving
<1> QED
  BY <1>2, <1>3, <1>4, <1>5, <1>6, StepKeeps

LEMMA RecordCreditKeeps ==
  ASSUME IInv, NEW r \in Requests, RecordCredit(r)
  PROVE  IInv'
<1>1. req[r].b \in Bookings
  BY BusyBooking DEF IInv, TypeOK, RecordCredit
<1>2. RowsTypeOK'
  BY <1>1 DEF IInv, TypeOK, RowsTypeOK, RecordCredit
<1>3. RequestsTypeOK' /\ Alone(r)
  BY GotoType DEF IInv, TypeOK, RecordCredit, Steps
<1>4. Grows
  BY <1>1
     DEF IInv, TypeOK, RowsTypeOK, RecordCredit, Grows, Exists, RequestInv, Scanning,
         CashSettling, Releasing, Settling, SettlingSeen, Approving
<1>5. \A c \in Bookings : BookingInv(c)'
  BY <1>1
     DEF IInv, TypeOK, RowsTypeOK, RecordCredit, BookingInv, Funded, Finished, Exists,
         RequestInv, Scanning, CashSettling, Releasing, Settling, SettlingSeen, Approving
<1>6. RequestInv(r)'
  BY <1>1
     DEF IInv, TypeOK, RowsTypeOK, RequestsTypeOK, Request, RecordCredit, Goto, BookingInv,
         Funded, Finished, Exists, RequestInv, Scanning, CashSettling, Releasing, Settling,
         SettlingSeen, Approving
<1> QED
  BY <1>2, <1>3, <1>4, <1>5, <1>6, StepKeeps

LEMMA MarkReleasedKeeps ==
  ASSUME IInv, NEW r \in Requests, MarkReleased(r)
  PROVE  IInv'
<1>1. req[r].b \in Bookings
  BY BusyBooking DEF IInv, TypeOK, MarkReleased
<1>2. RowsTypeOK'
  BY <1>1 DEF IInv, TypeOK, RowsTypeOK, MarkReleased
<1>3. RequestsTypeOK' /\ Alone(r)
  BY GotoType DEF IInv, TypeOK, MarkReleased, Steps
<1>4. Grows
  BY <1>1
     DEF IInv, TypeOK, RowsTypeOK, MarkReleased, Grows, Exists, RequestInv, Scanning,
         CashSettling, Releasing, Settling, SettlingSeen, Approving
<1>5. \A c \in Bookings : BookingInv(c)'
  BY <1>1
     DEF IInv, TypeOK, RowsTypeOK, MarkReleased, BookingInv, Funded, Finished, Exists,
         RequestInv, Scanning, CashSettling, Releasing, Settling, SettlingSeen, Approving
<1>6. RequestInv(r)'
  BY <1>1
     DEF IInv, TypeOK, RowsTypeOK, RequestsTypeOK, Request, MarkReleased, Goto, BookingInv,
         Funded, Finished, Exists, RequestInv, Scanning, CashSettling, Releasing, Settling,
         SettlingSeen, Approving
<1> QED
  BY <1>2, <1>3, <1>4, <1>5, <1>6, StepKeeps

LEMMA WritePendingPaymentKeeps ==
  ASSUME IInv, NEW r \in Requests, WritePendingPayment(r)
  PROVE  IInv'
<1>1. req[r].b \in Bookings
  BY BusyBooking DEF IInv, TypeOK, WritePendingPayment
<1>2. RowsTypeOK'
  BY <1>1 DEF IInv, TypeOK, RowsTypeOK, WritePendingPayment, PaymentStatus
<1>3. RequestsTypeOK' /\ Alone(r)
  BY GotoType DEF IInv, TypeOK, WritePendingPayment, Steps
<1>4. Grows
  BY <1>1
     DEF IInv, TypeOK, RowsTypeOK, WritePendingPayment, Grows, Exists, BookingInv, RequestInv,
         Scanning, CashSettling, Releasing, Settling, SettlingSeen, Approving
<1>5. \A c \in Bookings : BookingInv(c)'
  BY <1>1
     DEF IInv, TypeOK, RowsTypeOK, WritePendingPayment, BookingInv, Funded, Finished, Exists,
         RequestInv, Scanning, CashSettling, Releasing, Settling, SettlingSeen, Approving
<1>6. RequestInv(r)'
  BY <1>1
     DEF IInv, TypeOK, RowsTypeOK, RequestsTypeOK, Request, WritePendingPayment, Goto,
         BookingInv, Funded, Finished, Exists, RequestInv, Scanning, CashSettling, Releasing,
         Settling, SettlingSeen, Approving
<1> QED
  BY <1>2, <1>3, <1>4, <1>5, <1>6, StepKeeps

LEMMA OpenCheckoutKeeps ==
  ASSUME IInv, NEW r \in Requests, OpenCheckout(r)
  PROVE  IInv'
<1>1. req[r].b \in Bookings
  BY BusyBooking DEF IInv, TypeOK, OpenCheckout, TokenAfter
<1>2. RowsTypeOK'
  BY <1>1 DEF IInv, TypeOK, RowsTypeOK, OpenCheckout, TokenAfter
<1>3. RequestsTypeOK' /\ Alone(r) /\ req'[r] = Idle
  BY EndType DEF IInv, TypeOK, OpenCheckout, TokenAfter
<1>4. Grows
  BY <1>1
     DEF IInv, TypeOK, RowsTypeOK, OpenCheckout, TokenAfter, Grows, Exists, RequestInv,
         Scanning, CashSettling, Releasing, Settling, SettlingSeen, Approving
<1>5. \A c \in Bookings : BookingInv(c)'
  BY <1>1
     DEF IInv, TypeOK, RowsTypeOK, OpenCheckout, TokenAfter, BookingInv, Funded, Finished,
         Exists, RequestInv, Scanning, CashSettling, Releasing, Settling, SettlingSeen,
         Approving
<1>6. RequestInv(r)'
  BY <1>3, EndedRelies
<1> QED
  BY <1>2, <1>3, <1>4, <1>5, <1>6, StepKeeps

LEMMA ManualConfirmKeeps ==
  ASSUME IInv, NEW r \in Requests, NEW b \in Bookings, ManualConfirm(r, b)
  PROVE  IInv'
<1>1. RowsTypeOK'
  BY DEF IInv, TypeOK, RowsTypeOK, ManualConfirm
<1>2. RequestsTypeOK' /\ Alone(r)
  BY BeginType DEF IInv, TypeOK, ManualConfirm, Steps
<1>3. Grows
  BY DEF IInv, TypeOK, RowsTypeOK, ManualConfirm, Grows, Exists, RequestInv, Scanning,
         CashSettling, Releasing, Settling, SettlingSeen, Approving
<1>4. \A c \in Bookings : BookingInv(c)'
  BY DEF IInv, TypeOK, RowsTypeOK, ManualConfirm, BookingInv, Funded, Finished, Exists,
         RequestInv, Scanning, CashSettling, Releasing, Settling, SettlingSeen, Approving
<1>5. RequestInv(r)'
  BY DEF IInv, TypeOK, RowsTypeOK, RequestsTypeOK, Request, ManualConfirm, Begin, Idle,
         BookingInv, Funded, Finished, Exists, RequestInv, Scanning, CashSettling, Releasing,
         Settling, SettlingSeen, Approving
<1> QED
  BY <1>1, <1>2, <1>3, <1>4, <1>5, StepKeeps

LEMMA WritePaymentCompletedKeeps ==
  ASSUME IInv, NEW r \in Requests, WritePaymentCompleted(r)
  PROVE  IInv'
<1>1. req[r].b \in Bookings
  BY BusyBooking DEF IInv, TypeOK, WritePaymentCompleted
<1>2. RowsTypeOK'
  BY <1>1 DEF IInv, TypeOK, RowsTypeOK, WritePaymentCompleted, PaymentStatus
<1>3. RequestsTypeOK' /\ Alone(r)
  BY GotoType DEF IInv, TypeOK, WritePaymentCompleted, Steps
<1>4. Grows
  BY <1>1
     DEF IInv, TypeOK, RowsTypeOK, WritePaymentCompleted, Grows, Exists, RequestInv, Scanning,
         CashSettling, Releasing, Settling, SettlingSeen, Approving
<1>5. \A c \in Bookings : BookingInv(c)'
  BY <1>1
     DEF IInv, TypeOK, RowsTypeOK, WritePaymentCompleted, BookingInv, Funded, Finished, Exists,
         RequestInv, Scanning, CashSettling, Releasing, Settling, SettlingSeen, Approving
<1>6. RequestInv(r)'
  BY <1>1
     DEF IInv, TypeOK, RowsTypeOK, RequestsTypeOK, Request, WritePaymentCompleted, Goto,
         BookingInv, Funded, Finished, Exists, RequestInv, Scanning, CashSettling, Releasing,
         Settling, SettlingSeen, Approving
<1> QED
  BY <1>2, <1>3, <1>4, <1>5, <1>6, StepKeeps

LEMMA PromoteBookingKeeps ==
  ASSUME IInv, NEW r \in Requests, PromoteBooking(r)
  PROVE  IInv'
<1>1. req[r].b \in Bookings
  BY BusyBooking DEF IInv, TypeOK, PromoteBooking
<1>2. RowsTypeOK'
  BY <1>1 DEF IInv, TypeOK, RowsTypeOK, PromoteBooking, Row, BookingStatus
<1>3. RequestsTypeOK' /\ Alone(r)
  BY GotoType DEF IInv, TypeOK, PromoteBooking, Steps
<1>4. Grows
  BY <1>1
     DEF IInv, TypeOK, RowsTypeOK, PromoteBooking, Grows, Exists, RequestInv, Scanning,
         CashSettling, Releasing, Settling, SettlingSeen, Approving
<1>5. \A c \in Bookings : BookingInv(c)'
  BY <1>1
     DEF IInv, TypeOK, RowsTypeOK, PromoteBooking, BookingInv, Funded, Finished, Exists,
         RequestInv, Scanning, CashSettling, Releasing, Settling, SettlingSeen, Approving
<1>6. RequestInv(r)'
  BY <1>1
     DEF IInv, TypeOK, RowsTypeOK, RequestsTypeOK, Request, PromoteBooking, Goto, BookingInv,
         Funded, Finished, Exists, RequestInv, Scanning, CashSettling, Releasing, Settling,
         SettlingSeen, Approving
<1> QED
  BY <1>2, <1>3, <1>4, <1>5, <1>6, StepKeeps

LEMMA WriteFinalPriceKeeps ==
  ASSUME IInv, NEW r \in Requests, WriteFinalPrice(r)
  PROVE  IInv'
<1>1. req[r].b \in Bookings
  BY BusyBooking DEF IInv, TypeOK, WriteFinalPrice
<1>2. RowsTypeOK'
  BY <1>1 DEF IInv, TypeOK, RowsTypeOK, WriteFinalPrice, Row, BookingStatus
<1>3. RequestsTypeOK' /\ Alone(r) /\ req'[r] = Idle
  BY EndType DEF IInv, TypeOK, WriteFinalPrice
<1>4. Grows
  BY <1>1
     DEF IInv, TypeOK, RowsTypeOK, WriteFinalPrice, Grows, Exists, RequestInv, Scanning,
         CashSettling, Releasing, Settling, SettlingSeen, Approving
<1>5. \A c \in Bookings : BookingInv(c)'
  BY <1>1
     DEF IInv, TypeOK, RowsTypeOK, WriteFinalPrice, BookingInv, Funded, Finished, Exists,
         RequestInv, Scanning, CashSettling, Releasing, Settling, SettlingSeen, Approving
<1>6. RequestInv(r)'
  BY <1>3, EndedRelies
<1> QED
  BY <1>2, <1>3, <1>4, <1>5, <1>6, StepKeeps

LEMMA WritePaymentFailedKeeps ==
  ASSUME IInv, NEW r \in Requests, WritePaymentFailed(r)
  PROVE  IInv'
<1>1. req[r].b \in Bookings
  BY BusyBooking DEF IInv, TypeOK, WritePaymentFailed
<1>2. RowsTypeOK'
  BY <1>1 DEF IInv, TypeOK, RowsTypeOK, WritePaymentFailed, PaymentStatus
<1>3. RequestsTypeOK' /\ Alone(r) /\ req'[r] = Idle
  BY EndType DEF IInv, TypeOK, WritePaymentFailed
<1>4. Grows
  BY <1>1
     DEF IInv, TypeOK, RowsTypeOK, WritePaymentFailed, Grows, Exists, RequestInv, Scanning,
         CashSettling, Releasing, Settling, SettlingSeen, Approving
<1>5. \A c \in Bookings : BookingInv(c)'
  BY <1>1
     DEF IInv, TypeOK, RowsTypeOK, WritePaymentFailed, BookingInv, Funded, Finished, Exists,
         RequestInv, Scanning, CashSettling, Releasing, Settling, SettlingSeen, Approving
<1>6. RequestInv(r)'
  BY <1>3, EndedRelies
<1> QED
  BY <1>2, <1>3, <1>4, <1>5, <1>6, StepKeeps

LEMMA WriteDisputedKeeps ==
  ASSUME IInv, NEW r \in Requests, WriteDisputed(r)
  PROVE  IInv'
<1>1. req[r].b \in Bookings
  BY BusyBooking DEF IInv, TypeOK, WriteDisputed
<1>2. RowsTypeOK'
  BY <1>1 DEF IInv, TypeOK, RowsTypeOK, WriteDisputed, Row, BookingStatus
<1>3. RequestsTypeOK' /\ Alone(r)
  BY GotoType DEF IInv, TypeOK, WriteDisputed, Steps
<1>4. Grows
  BY <1>1
     DEF IInv, TypeOK, RowsTypeOK, WriteDisputed, Grows, Exists, RequestInv, Scanning,
         CashSettling, Releasing, Settling, SettlingSeen, Approving
<1>5. \A c \in Bookings : BookingInv(c)'
  BY <1>1
     DEF IInv, TypeOK, RowsTypeOK, WriteDisputed, BookingInv, Funded, Finished, Exists,
         RequestInv, Scanning, CashSettling, Releasing, Settling, SettlingSeen, Approving
<1>6. RequestInv(r)'
  BY <1>1
     DEF IInv, TypeOK, RowsTypeOK, RequestsTypeOK, Request, WriteDisputed, Goto, BookingInv,
         Funded, Finished, Exists, RequestInv, Scanning, CashSettling, Releasing, Settling,
         SettlingSeen, Approving
<1> QED
  BY <1>2, <1>3, <1>4, <1>5, <1>6, StepKeeps

LEMMA RecordDisputeKeeps ==
  ASSUME IInv, NEW r \in Requests, RecordDispute(r)
  PROVE  IInv'
<1>1. req[r].b \in Bookings
  BY BusyBooking DEF IInv, TypeOK, RecordDispute
<1>2. RowsTypeOK'
  BY <1>1 DEF IInv, TypeOK, RowsTypeOK, RecordDispute
<1>3. RequestsTypeOK' /\ Alone(r) /\ req'[r] = Idle
  BY EndType DEF IInv, TypeOK, RecordDispute
<1>4. Grows
  BY <1>1
     DEF IInv, TypeOK, RowsTypeOK, RecordDispute, Grows, Exists, RequestInv, Scanning,
         CashSettling, Releasing, Settling, SettlingSeen, Approving
<1>5. \A c \in Bookings : BookingInv(c)'
  BY <1>1
     DEF IInv, TypeOK, RowsTypeOK, RecordDispute, BookingInv, Funded, Finished, Exists,
         RequestInv, Scanning, CashSettling, Releasing, Settling, SettlingSeen, Approving
<1>6. RequestInv(r)'
  BY <1>3, EndedRelies
<1> QED
  BY <1>2, <1>3, <1>4, <1>5, <1>6, StepKeeps

LEMMA ApprovePaymentKeeps ==
  ASSUME IInv, NEW r \in Requests, ApprovePayment(r)
  PROVE  IInv'
<1>1. req[r].b \in Bookings
  BY BusyBooking DEF IInv, TypeOK, ApprovePayment
<1>2. RowsTypeOK'
  BY <1>1 DEF IInv, TypeOK, RowsTypeOK, ApprovePayment, PaymentStatus
<1>3. RequestsTypeOK' /\ Alone(r)
  BY GotoType DEF IInv, TypeOK, ApprovePayment, Steps
<1>4. Grows
  BY <1>1
     DEF IInv, TypeOK, RowsTypeOK, ApprovePayment, Grows, Exists, RequestInv, Scanning,
         CashSettling, Releasing, Settling, SettlingSeen, Approving
<1>5. \A c \in Bookings : BookingInv(c)'
  BY <1>1
     DEF IInv, TypeOK, RowsTypeOK, ApprovePayment, BookingInv, Funded, Finished, Exists,
         RequestInv, Scanning, CashSettling, Releasing, Settling, SettlingSeen, Approving
<1>6. RequestInv(r)'
  BY <1>1
     DEF IInv, TypeOK, RowsTypeOK, RequestsTypeOK, Request, ApprovePayment, Goto, BookingInv,
         Funded, Finished, Exists, RequestInv, Scanning, CashSettling, Releasing, Settling,
         SettlingSeen, Approving
<1> QED
  BY <1>2, <1>3, <1>4, <1>5, <1>6, StepKeeps

LEMMA CompleteApprovedKeeps ==
  ASSUME IInv, NEW r \in Requests, CompleteApproved(r)
  PROVE  IInv'
<1>1. req[r].b \in Bookings
  BY BusyBooking DEF IInv, TypeOK, CompleteApproved
<1>2. RowsTypeOK'
  BY <1>1 DEF IInv, TypeOK, RowsTypeOK, CompleteApproved, Row, BookingStatus
<1>3. RequestsTypeOK' /\ Alone(r) /\ req'[r] = Idle
  BY EndType DEF IInv, TypeOK, CompleteApproved
<1>4. Grows
  BY <1>1
     DEF IInv, TypeOK, RowsTypeOK, CompleteApproved, Grows, Exists, RequestInv, Scanning,
         CashSettling, Releasing, Settling, SettlingSeen, Approving
<1>5. \A c \in Bookings : BookingInv(c)'
  BY <1>1
     DEF IInv, TypeOK, RowsTypeOK, CompleteApproved, BookingInv, Funded, Finished, Exists,
         RequestInv, Scanning, CashSettling, Releasing, Settling, SettlingSeen, Approving
<1>6. RequestInv(r)'
  BY <1>3, EndedRelies
<1> QED
  BY <1>2, <1>3, <1>4, <1>5, <1>6, StepKeeps

(* The customer's payment moves no request: it only adds a fact.           *)
LEMMA CaptureKeeps ==
  ASSUME IInv, NEW b \in Bookings, Capture(b)
  PROVE  IInv'
<1>1. RowsTypeOK' /\ RequestsTypeOK'
  BY DEF IInv, TypeOK, RowsTypeOK, RequestsTypeOK, Capture
<1>2. Grows
  BY DEF IInv, TypeOK, RowsTypeOK, Capture, Grows, Exists
<1>3. \A c \in Bookings : BookingInv(c)'
  BY DEF IInv, TypeOK, RowsTypeOK, Capture, BookingInv, Funded, Finished, Exists
<1>4. ASSUME NEW q \in Requests PROVE RequestInv(q)'
  BY <1>1, <1>2, OthersKeep DEF IInv, TypeOK, Capture
<1> QED
  BY <1>1, <1>3, <1>4 DEF IInv, TypeOK

-----------------------------------------------------------------------------
LEMMA InitHolds == Init => IInv
<1> SUFFICES ASSUME Init PROVE IInv
  OBVIOUS
<1>1. RowsTypeOK
  BY EscrowAssumption DEF Init, RowsTypeOK, Row, PaymentStatus, AllKinds
<1>2. RequestsTypeOK
  BY EscrowAssumption DEF Init, RequestsTypeOK, Request, Idle, Steps, Row
<1>3. ASSUME NEW b \in Bookings PROVE BookingInv(b)
  BY DEF Init, BookingInv, Exists
<1>4. ASSUME NEW r \in Requests PROVE RequestInv(r)
  BY DEF Init, Idle, RequestInv, Scanning, CashSettling, Releasing, Settling, SettlingSeen,
         Approving
<1> QED
  BY <1>1, <1>2, <1>3, <1>4 DEF IInv, TypeOK

LEMMA NextKeeps == IInv /\ [Next]_vars => IInv'
<1> SUFFICES ASSUME IInv, [Next]_vars PROVE IInv'
  OBVIOUS
<1>1. ASSUME NEW r \in Requests, Arrive(r) PROVE IInv'
  BY <1>1, FindAbandonedKeeps, UpdateStatusKeeps, RequestQrKeeps, ScanQrKeeps,
     ConfirmPayoutKeeps, InitiateKeeps, CallbackKeeps, ReportFailureKeeps, OpenDisputeKeeps,
     ApproveWithdrawalKeeps, CreateBookingKeeps, ManualConfirmKeeps
     DEF Arrive, BookingEndpoints, PaymentEndpoints
<1>2. ASSUME NEW r \in Requests, Proceed(r) PROVE IInv'
  BY <1>2, CheckStartKeeps, ReadForRefundKeeps, ReadPaymentToReleaseKeeps,
     ReadBookingToReleaseKeeps, CheckNotReleasedKeeps, CheckNotSettledKeeps,
     ReadBookingToSettleKeeps, ReadBookingToActivateKeeps, ReadApprovedBookingKeeps,
     CreatePaymentKeeps, DeleteAbandonedKeeps, WriteStatusKeeps, RefundAtGatewayKeeps,
     RecordRefundKeeps, IssueQrKeeps, ClaimQrKeeps, CompleteBookingKeeps,
     SettleCashPaymentKeeps, MarkPaidKeeps, CreditBalanceKeeps, RecordCreditKeeps,
     MarkReleasedKeeps, WritePendingPaymentKeeps, OpenCheckoutKeeps, WritePaymentCompletedKeeps,
     PromoteBookingKeeps, WriteFinalPriceKeeps, WritePaymentFailedKeeps, WriteDisputedKeeps,
     RecordDisputeKeeps, ApprovePaymentKeeps, CompleteApprovedKeeps, ReadScannedBookingKeeps,
     StopKeeps
     DEF Proceed
<1>3. ASSUME NEW b \in Bookings, Capture(b) PROVE IInv'
  BY <1>3, CaptureKeeps
<1>4. ASSUME UNCHANGED vars PROVE IInv'
  BY <1>4
     DEF vars, IInv, TypeOK, RowsTypeOK, RequestsTypeOK, BookingInv, Funded, Finished, Exists,
         RequestInv
<1> QED
  BY <1>1, <1>2, <1>3, <1>4 DEF Next, Rest

THEOREM Invariance == Spec => []IInv
<1>1. Init => IInv
  BY InitHolds
<1>2. IInv /\ [Next]_vars => IInv'
  BY NextKeeps
<1> QED
  BY <1>1, <1>2, PTL DEF Spec

-----------------------------------------------------------------------------
(* Every row and every request slot keeps its type.                        *)
THEOREM TypeCorrect == Spec => []TypeOK
<1>1. IInv => TypeOK
  BY DEF IInv
<1> QED
  BY <1>1, Invariance, PTL

(* Nothing but a claimed completion QR or an administrator's approval      *)
(* takes a booking to COMPLETED or PAID.                                   *)
THEOREM CompletionNeedsScan == Spec => []OnlyScansComplete
<1>1. IInv => OnlyScansComplete
  BY DEF IInv, BookingInv, OnlyScansComplete, Finished
<1> QED
  BY <1>1, Invariance, PTL

(* The provider's balance is raised only after completion and payment, by  *)
(* however many scans, confirmations and approvals at once.                *)
THEOREM PayoutNeedsCompletion == Spec => []PayoutFollowsCompletion
<1>1. IInv => PayoutFollowsCompletion
  BY DEF IInv, BookingInv, PayoutFollowsCompletion, Finished, Funded
<1> QED
  BY <1>1, Invariance, PTL

(* A "pay now" booking is visible to the provider only once it is paid.    *)
THEOREM VisibilityNeedsPayment == Spec => []ProviderSeesOnlyPaid
<1>1. IInv => ProviderSeesOnlyPaid
  BY DEF IInv, BookingInv, ProviderSeesOnlyPaid, Funded
<1> QED
  BY <1>1, Invariance, PTL

-----------------------------------------------------------------------------
(* The refinement of Custody.  Few steps change what its variables are     *)
(* mapped to; each of these is one step of the promise.                    *)
Promised == <<method, secured, approved, done, credits>>

LEMMA QuietStep == UNCHANGED Promised => UNCHANGED Promise!vars
BY DEF Promised, Promise!vars, Funded, Finished

LEMMA BackStep ==
  ASSUME NEW b \in Bookings, Funded(b)', UNCHANGED <<done, approved, credits>>,
         \A c \in Bookings \ {b} : method'[c] = method[c] /\ secured'[c] = secured[c]
  PROVE  Promise!Next
<1>1. Promise!Back(b)
  BY DEF Promise!Back, Funded, Finished
<1> QED
  BY <1>1 DEF Promise!Next

LEMMA PayOutStep ==
  ASSUME NEW b \in Bookings, Finished(b), credits'[b] > 0,
         UNCHANGED <<method, secured, approved, done>>,
         \A c \in Bookings \ {b} : credits'[c] = credits[c]
  PROVE  Promise!Next
<1>1. [c \in Bookings |-> credits'[c] > 0]
        = [[c \in Bookings |-> credits[c] > 0] EXCEPT ![b] = TRUE]
  OBVIOUS
<1>2. [c \in Bookings |-> Finished(c)][b]
  OBVIOUS
<1>3. \A c \in Bookings : Funded(c)' = Funded(c) /\ Finished(c)' = Finished(c)
  BY DEF Funded, Finished
<1>4. Promise!PayOut(b)
  BY <1>1, <1>2, <1>3 DEF Promise!PayOut
<1> QED
  BY <1>4 DEF Promise!Next

LEMMA PromiseStep ==
  ASSUME NEW b \in Bookings,
         Promise!Back(b) \/ Promise!Finish(b) \/ Promise!Vouch(b) \/ Promise!PayOut(b)
  PROVE  Promise!Next
BY DEF Promise!Next

LEMMA ProceedRefines ==
  ASSUME IInv, NEW r \in Requests, Proceed(r)
  PROVE  [Promise!Next]_(Promise!vars)
<1> USE DEF IInv, TypeOK, RowsTypeOK
<1>1. CASE CreatePayment(r)
  <2>1. req[r].b \in Bookings
    BY <1>1, BusyBooking DEF CreatePayment
  <2>2. CASE kind[req[r].b] = "cash"
    BY <1>1, <2>1, <2>2, BackStep DEF CreatePayment, Funded
  <2>3. CASE kind[req[r].b] # "cash"
    <3>1. method[req[r].b] = "CARD"
      BY <1>1, <2>1 DEF CreatePayment, BookingInv
    <3> QED
      BY <1>1, <2>1, <2>3, <3>1, QuietStep DEF CreatePayment, Promised
  <2> QED
    BY <2>2, <2>3
<1>2. CASE CompleteBooking(r)
  <2>1. req[r].b \in Bookings
    BY <1>2, BusyBooking DEF CompleteBooking
  <2>2. Funded(req[r].b)
    BY <1>2 DEF CompleteBooking, RequestInv, Scanning
  <2>3. Promise!Finish(req[r].b)
    BY <1>2, <2>1, <2>2 DEF CompleteBooking, Promise!Finish, Funded, Finished
  <2> QED
    BY <2>1, <2>3, PromiseStep
<1>3. CASE SettleCashPayment(r)
  <2>1. req[r].b \in Bookings
    BY <1>3, BusyBooking DEF SettleCashPayment
  <2>2. method[req[r].b] = "CASH"
    BY <1>3 DEF SettleCashPayment, RequestInv
  <2> QED
    BY <1>3, <2>1, <2>2, QuietStep DEF SettleCashPayment, Promised
<1>4. CASE WritePendingPayment(r)
  <2>1. req[r].b \in Bookings
    BY <1>4, BusyBooking DEF WritePendingPayment
  <2>2. method[req[r].b] = "CARD"
    BY <1>4, <2>1 DEF WritePendingPayment, RequestInv, BookingInv
  <2> QED
    BY <1>4, <2>1, <2>2, QuietStep DEF WritePendingPayment, Promised
<1>5. CASE CreditBalance(r)
  <2>1. req[r].b \in Bookings
    BY <1>5, BusyBooking DEF CreditBalance
  <2>2. Finished(req[r].b)
    BY <1>5 DEF CreditBalance, RequestInv, Releasing, Approving, Finished
  <2>3. credits'[req[r].b] > 0
    BY <1>5, <2>1, EscrowAssumption DEF CreditBalance
  <2>4. \A c \in Bookings \ {req[r].b} : credits'[c] = credits[c]
    BY <1>5 DEF CreditBalance
  <2>5. UNCHANGED <<method, secured, approved, done>>
    BY <1>5 DEF CreditBalance
  <2> QED
    BY <2>1, <2>2, <2>3, <2>4, <2>5, PayOutStep
<1>6. CASE ApprovePayment(r)
  <2>1. req[r].b \in Bookings
    BY <1>6, BusyBooking DEF ApprovePayment
  <2>2. Promise!Vouch(req[r].b)
    BY <1>6, <2>1 DEF ApprovePayment, Promise!Vouch, Funded, Finished
  <2> QED
    BY <2>1, <2>2, PromiseStep
<1>7. ASSUME ~CreatePayment(r), ~CompleteBooking(r), ~SettleCashPayment(r),
             ~WritePendingPayment(r), ~CreditBalance(r), ~ApprovePayment(r)
      PROVE  UNCHANGED Promised
  BY <1>7
     DEF Proceed, Promised, CheckStart, ReadForRefund, ReadPaymentToRelease,
         ReadBookingToRelease, CheckNotReleased, CheckNotSettled, ReadBookingToSettle,
         ReadBookingToActivate, ReadApprovedBooking, DeleteAbandoned, WriteStatus,
         RefundAtGateway, RecordRefund, IssueQr, ClaimQr, MarkPaid, RecordCredit, MarkReleased,
         OpenCheckout, WritePaymentCompleted, PromoteBooking, WriteFinalPrice,
         WritePaymentFailed, WriteDisputed, RecordDispute, CompleteApproved,
         ReadScannedBooking, Stop
<1> QED
  BY <1>1, <1>2, <1>3, <1>4, <1>5, <1>6, <1>7, QuietStep

LEMMA ArriveRefines ==
  ASSUME IInv, NEW r \in Requests, Arrive(r)
  PROVE  [Promise!Next]_(Promise!vars)
<1>1. ASSUME NEW b \in Bookings, ManualConfirm(r, b) PROVE Promise!Next
  BY <1>1, BackStep DEF ManualConfirm, IInv, TypeOK, RowsTypeOK, Funded
<1>2. ASSUME \A b \in Bookings : ~ManualConfirm(r, b) PROVE UNCHANGED Promised
  BY <1>2
     DEF Arrive, BookingEndpoints, PaymentEndpoints, Promised, FindAbandoned, UpdateStatus, RequestQr, ScanQr, ConfirmPayout,
         Initiate, Callback, ReportFailure, OpenDispute, ApproveWithdrawal, CreateBooking
<1> QED
  BY <1>1, <1>2, QuietStep

(* Escrow implements Custody: for every booking, money or a voucher comes  *)
(* first, completion second, payout last, and none is ever taken back.     *)
THEOREM Refinement == Spec => KeepsPromise
<1>1. Init => Promise!Init
  <2> SUFFICES ASSUME Init PROVE Promise!Init
    OBVIOUS
  <2>1. \A b \in Bookings : Funded(b) = FALSE /\ Finished(b) = FALSE
    BY DEF Init, Funded, Finished
  <2>2. ASSUME NEW b \in Bookings PROVE (credits[b] > 0) = FALSE
    <3>1. credits[b] = 0
      BY DEF Init
    <3> QED
      BY <3>1
  <2> QED
    BY <2>1, <2>2 DEF Promise!Init
<1>2. IInv /\ [Next]_vars => [Promise!Next]_(Promise!vars)
  <2> SUFFICES ASSUME IInv, [Next]_vars PROVE [Promise!Next]_(Promise!vars)
    OBVIOUS
  <2>1. ASSUME NEW r \in Requests, Arrive(r) \/ Proceed(r) PROVE [Promise!Next]_(Promise!vars)
    BY <2>1, ArriveRefines, ProceedRefines
  <2>2. ASSUME NEW b \in Bookings, Capture(b) PROVE [Promise!Next]_(Promise!vars)
    BY <2>2, BackStep DEF Capture, IInv, TypeOK, RowsTypeOK, Funded
  <2>3. ASSUME UNCHANGED vars PROVE [Promise!Next]_(Promise!vars)
    BY <2>3, QuietStep DEF vars, Promised
  <2> QED
    BY <2>1, <2>2, <2>3 DEF Next, Rest
<1> QED
  BY <1>1, <1>2, Invariance, PTL DEF Spec, KeepsPromise, Promise!Spec

=============================================================================
