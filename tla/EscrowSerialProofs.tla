------------------------- MODULE EscrowSerialProofs -------------------------
(***************************************************************************)
(* What Escrow promises of money that could go two ways.  The order of a   *)
(* payout's three writes survives every overlap and every crash, and so    *)
(* does the money behind a job unless a late write reopens its booking.    *)
(* That a job is backed whatever is written, a refunded booking not paid   *)
(* out, a closed one not reopened, and a payout or settlement nothing      *)
(* killed complete, holds as long as no two requests work on the same      *)
(* booking at once: any number of others may be in flight.                 *)
(***************************************************************************)
EXTENDS MCEscrowSerial, EscrowOverlap, EscrowProofs

USE DEF bookingRow, paymentRow, walletRows, gateway

(* A step on booking b leaves the rows of the others alone.                *)
Frames(b) == \A c \in Bookings \ {b} :
  /\ st'[c] = st[c] /\ pay'[c] = pay[c] /\ done'[c] = done[c] /\ approved'[c] = approved[c]
  /\ refunded'[c] = refunded[c] /\ credits'[c] = credits[c]
  /\ ledger'[c] = ledger[c] /\ released'[c] = released[c]

LEMMA ProceedFrames ==
  ASSUME RowsTypeOK, NEW r \in Requests, Proceed(r)
  PROVE  Frames(req[r].b)
<1> USE DEF Frames, RowsTypeOK
<1>1. CASE CreatePayment(r)
  BY <1>1 DEF CreatePayment
<1>2. CASE DeleteAbandoned(r)
  BY <1>2 DEF DeleteAbandoned
<1>3. CASE WriteStatus(r)
  BY <1>3 DEF WriteStatus
<1>4. CASE RefundAtGateway(r)
  BY <1>4 DEF RefundAtGateway
<1>5. CASE RecordRefund(r)
  BY <1>5 DEF RecordRefund
<1>6. CASE CompleteBooking(r)
  BY <1>6 DEF CompleteBooking
<1>7. CASE SettleCashPayment(r)
  BY <1>7 DEF SettleCashPayment
<1>8. CASE MarkPaid(r)
  BY <1>8 DEF MarkPaid
<1>9. CASE CreditBalance(r)
  BY <1>9 DEF CreditBalance
<1>10. CASE RecordCredit(r)
  BY <1>10 DEF RecordCredit
<1>11. CASE MarkReleased(r)
  BY <1>11 DEF MarkReleased
<1>12. CASE WritePendingPayment(r)
  BY <1>12 DEF WritePendingPayment
<1>13. CASE WritePaymentCompleted(r)
  BY <1>13 DEF WritePaymentCompleted
<1>14. CASE PromoteBooking(r)
  BY <1>14 DEF PromoteBooking
<1>15. CASE WriteFinalPrice(r)
  BY <1>15 DEF WriteFinalPrice
<1>16. CASE WritePaymentFailed(r)
  BY <1>16 DEF WritePaymentFailed
<1>17. CASE WriteDisputed(r)
  BY <1>17 DEF WriteDisputed
<1>18. CASE ApprovePayment(r)
  BY <1>18 DEF ApprovePayment
<1>19. CASE CompleteApproved(r)
  BY <1>19 DEF CompleteApproved
<1>20. CASE \/ CheckStart(r) \/ ReadForRefund(r) \/ ReadScannedBooking(r)
            \/ ReadPaymentToRelease(r) \/ ReadBookingToRelease(r) \/ CheckNotReleased(r)
            \/ CheckNotSettled(r) \/ ReadBookingToSettle(r) \/ ReadBookingToActivate(r)
            \/ ReadApprovedBooking(r) \/ IssueQr(r) \/ OpenCheckout(r) \/ RecordDispute(r)
            \/ ClaimQr(r) \/ Stop(r)
  BY <1>20 DEF CheckStart, ReadForRefund, ReadScannedBooking, ReadPaymentToRelease,
       ReadBookingToRelease, CheckNotReleased, CheckNotSettled, ReadBookingToSettle,
       ReadBookingToActivate, ReadApprovedBooking, IssueQr, OpenCheckout, RecordDispute,
       ClaimQr, Stop
<1> QED
  BY <1>1, <1>2, <1>3, <1>4, <1>5, <1>6, <1>7, <1>8, <1>9, <1>10, <1>11, <1>12, <1>13, <1>14,
       <1>15, <1>16, <1>17, <1>18, <1>19, <1>20 DEF Proceed

LEMMA ProceedMoves ==
  ASSUME RequestsTypeOK, NEW r \in Requests, Proceed(r)
  PROVE  Alone(r) /\ req'[r].b \in {req[r].b, NoBooking} /\ req[r].at # "idle"
<1> USE DEF Alone, RequestsTypeOK, Request, Idle
<1>1. CASE \/ CreatePayment(r) \/ DeleteAbandoned(r) \/ RecordRefund(r) \/ IssueQr(r)
           \/ MarkPaid(r) \/ OpenCheckout(r) \/ WriteFinalPrice(r) \/ WritePaymentFailed(r)
           \/ RecordDispute(r) \/ CompleteApproved(r) \/ Stop(r)
  BY <1>1 DEF End, CreatePayment, DeleteAbandoned, RecordRefund, IssueQr, MarkPaid,
       OpenCheckout, WriteFinalPrice, WritePaymentFailed, RecordDispute, CompleteApproved, Stop
<1>2. CASE \/ CheckStart(r) \/ WriteStatus(r) \/ ReadForRefund(r) \/ RefundAtGateway(r)
           \/ ReadScannedBooking(r) \/ ClaimQr(r) \/ CompleteBooking(r) \/ SettleCashPayment(r)
           \/ ReadPaymentToRelease(r) \/ ReadBookingToRelease(r) \/ CheckNotReleased(r)
  BY <1>2 DEF Goto, GotoSeeing, End, CheckStart, WriteStatus, ReadForRefund, RefundAtGateway,
       ReadScannedBooking, ClaimQr, CompleteBooking, SettleCashPayment, ReadPaymentToRelease,
       ReadBookingToRelease, CheckNotReleased
<1>3. CASE \/ CreditBalance(r) \/ RecordCredit(r) \/ MarkReleased(r) \/ WritePendingPayment(r)
           \/ CheckNotSettled(r) \/ ReadBookingToSettle(r) \/ WritePaymentCompleted(r)
           \/ ReadBookingToActivate(r) \/ PromoteBooking(r) \/ WriteDisputed(r)
           \/ ApprovePayment(r) \/ ReadApprovedBooking(r)
  BY <1>3 DEF Goto, GotoSeeing, End, CreditBalance, RecordCredit, MarkReleased,
       WritePendingPayment, CheckNotSettled, ReadBookingToSettle, WritePaymentCompleted,
       ReadBookingToActivate, PromoteBooking, WriteDisputed, ApprovePayment, ReadApprovedBooking
<1> QED
  BY <1>1, <1>2, <1>3 DEF Proceed

(* Where a request first awaits.                                          *)
FirstAwaits == {"create.payment", "delete", "start.check", "status.write", "qr.issue",
                "scan.booking", "release.payment", "settle.check", "init.create", "init.update",
                "init.gateway", "fail.write", "dispute.write", "admin.payment"}

LEMMA ArriveMoves ==
  ASSUME RequestsTypeOK, RowsTypeOK, NEW r \in Requests, Arrive(r)
  PROVE  /\ Alone(r) /\ req[r].b = NoBooking /\ req'[r].b \in Bookings /\ Frames(req'[r].b)
         /\ req'[r].at \in FirstAwaits
         /\ UNCHANGED <<done, approved, refunded, credits, ledger, released, pay>>
<1> USE DEF Alone, RequestsTypeOK, Request, Idle, Begin, BeginSeeing, BeginVia, Frames,
     RowsTypeOK,
        FirstAwaits
<1>1. PICK b \in Bookings :
         \/ BookingEndpoints(r, b) \/ PaymentEndpoints(r, b) \/ FindAbandoned(r, b)
         \/ OpenDispute(r, b) \/ ApproveWithdrawal(r, b)
  BY DEF Arrive
<1>2. CASE \E k \in Kinds : CreateBooking(r, b, k)
  BY <1>2 DEF CreateBooking
<1>3. CASE \E to \in BookingStatus : UpdateStatus(r, b, to)
  BY <1>3 DEF UpdateStatus
<1>4. CASE \E g \in Gateways : Initiate(r, b, g)
  BY <1>4 DEF Initiate
<1>5. CASE RequestQr(r, b)
  BY <1>5 DEF RequestQr
<1>6. CASE ScanQr(r, b)
  BY <1>6 DEF ScanQr
<1>7. CASE Callback(r, b)
  BY <1>7 DEF Callback
<1>8. CASE ReportFailure(r, b)
  BY <1>8 DEF ReportFailure
<1>9. CASE ConfirmPayout(r, b)
  BY <1>9 DEF ConfirmPayout
<1>10. CASE ManualConfirm(r, b)
  BY <1>10 DEF ManualConfirm
<1>11. CASE FindAbandoned(r, b)
  BY <1>11 DEF FindAbandoned
<1>12. CASE OpenDispute(r, b)
  BY <1>12 DEF OpenDispute
<1>13. CASE ApproveWithdrawal(r, b)
  BY <1>13 DEF ApproveWithdrawal
<1> QED
  BY <1>1, <1>2, <1>3, <1>4, <1>5, <1>6, <1>7, <1>8, <1>9, <1>10, <1>11, <1>12,
       <1>13 DEF BookingEndpoints, PaymentEndpoints

-----------------------------------------------------------------------------
(* The work and its money, in spite of refunds.  The history restricts     *)
(* nothing; only declining asks for a refund.                              *)
LEMMA OverlapStep == [OverlapNext]_<<vars, reopened>> => [Next]_vars
BY DEF OverlapNext

LEMMA OverlapIsSpec == OverlapSpec => Spec
BY OverlapStep, PTL DEF OverlapSpec, Spec, OverlapInit

LEMMA DeclineGivesBack ==
  ASSUME IInv, [Next]_vars, NEW b \in Bookings, GivenBack(b)'
  PROVE  GivenBack(b) \/ st'[b] = "DECLINED"
<1> USE DEF GivenBack, Refunding
<1>1. ASSUME NEW r \in Requests, Arrive(r) PROVE GivenBack(b)
  <2>1. Alone(r) /\ req'[r].at \in FirstAwaits /\ UNCHANGED refunded
    BY <1>1, ArriveMoves DEF IInv, TypeOK
  <2> QED
    BY <2>1 DEF Alone, FirstAwaits
<1>2. ASSUME NEW r \in Requests, Proceed(r) PROVE GivenBack(b) \/ st'[b] = "DECLINED"
  <2>0. RequestsTypeOK /\ RowsTypeOK
    BY DEF IInv, TypeOK
  <2>1. CASE WriteStatus(r)
    BY <2>0, <2>1 DEF WriteStatus, Goto, End, Idle, RequestsTypeOK, RowsTypeOK, Request
  <2>2. CASE ReadForRefund(r) \/ RefundAtGateway(r) \/ RecordRefund(r)
    BY <2>0, <2>2 DEF ReadForRefund, RefundAtGateway, RecordRefund, Goto, End, Idle,
       RequestsTypeOK, RowsTypeOK, Request
  <2>3. CASE \/ CreatePayment(r) \/ DeleteAbandoned(r) \/ IssueQr(r) \/ MarkPaid(r)
             \/ OpenCheckout(r) \/ WriteFinalPrice(r) \/ WritePaymentFailed(r)
             \/ RecordDispute(r) \/ CompleteApproved(r) \/ Stop(r)
    BY <2>0, <2>3 DEF CreatePayment, DeleteAbandoned, IssueQr, MarkPaid, OpenCheckout,
       WriteFinalPrice, WritePaymentFailed, RecordDispute, CompleteApproved, Stop, End, Idle,
       RequestsTypeOK, Request
  <2>4. CASE \/ CheckStart(r) \/ ReadScannedBooking(r) \/ ClaimQr(r) \/ CompleteBooking(r)
             \/ SettleCashPayment(r) \/ ReadPaymentToRelease(r) \/ ReadBookingToRelease(r)
             \/ CheckNotReleased(r)
    BY <2>0, <2>4 DEF CheckStart, ReadScannedBooking, ClaimQr, CompleteBooking,
       SettleCashPayment, ReadPaymentToRelease, ReadBookingToRelease, CheckNotReleased, Goto,
       GotoSeeing, Idle, RequestsTypeOK, Request
  <2>5. CASE \/ CreditBalance(r) \/ RecordCredit(r) \/ MarkReleased(r)
             \/ WritePendingPayment(r) \/ CheckNotSettled(r) \/ ReadBookingToSettle(r)
             \/ WritePaymentCompleted(r) \/ ReadBookingToActivate(r) \/ PromoteBooking(r)
             \/ WriteDisputed(r) \/ ApprovePayment(r) \/ ReadApprovedBooking(r)
    BY <2>0, <2>5 DEF CreditBalance, RecordCredit, MarkReleased, WritePendingPayment,
       CheckNotSettled, ReadBookingToSettle, WritePaymentCompleted, ReadBookingToActivate,
       PromoteBooking, WriteDisputed, ApprovePayment, ReadApprovedBooking, Goto, GotoSeeing,
       Idle, RequestsTypeOK, Request
  <2> QED
    BY <1>2, <2>1, <2>2, <2>3, <2>4, <2>5 DEF Proceed
<1>3. ASSUME NEW c \in Bookings, Capture(c) PROVE GivenBack(b)
  BY <1>3 DEF Capture
<1>4. ASSUME UNCHANGED vars PROVE GivenBack(b)
  BY <1>4 DEF vars
<1> QED
  BY <1>1, <1>2, <1>3, <1>4 DEF Next, Rest

(* However requests overlap and wherever they die, a job is in progress    *)
(* only with money behind it that was not given back, unless a late write  *)
(* took its booking out of a status it was shut in: updateStatus checks    *)
(* the payment and writes the status in two calls, and a decline refunds   *)
(* in a third.                                                             *)
THEOREM WorkNeedsMoney == OverlapSpec => []WorkIsBackedUnlessReopened
<1>1. OverlapInit => RefundInv
  BY DEF OverlapInit, Init, RefundInv, GivenBack, Idle, Refunding
<1>2. IInv /\ RefundInv /\ [OverlapNext]_<<vars, reopened>> => RefundInv'
  <2> SUFFICES ASSUME IInv, RefundInv, [OverlapNext]_<<vars, reopened>>,
                      NEW b \in Bookings, b \notin reopened', GivenBack(b)'
               PROVE  st'[b] \in Shut
    BY DEF RefundInv
  <2>1. GivenBack(b) \/ st'[b] = "DECLINED"
    BY OverlapStep, DeclineGivesBack
  <2>2. b \notin reopened /\ (st[b] \in Shut => st'[b] \in Shut)
    BY DEF OverlapNext, Reopening, vars
  <2> QED
    BY <2>1, <2>2 DEF RefundInv, Shut
<1>3. IInv /\ RefundInv => WorkIsBackedUnlessReopened
  BY DEF IInv, BookingInv, RefundInv, GivenBack, Shut, WorkIsBackedUnlessReopened, Funded, Backed
<1> QED
  BY <1>1, <1>2, <1>3, OverlapIsSpec, Invariance, PTL DEF OverlapSpec

-----------------------------------------------------------------------------
(* The three writes of a payout.                                           *)
Recording == {"release.record", "admin.record", "release.mark", "release.paid"}

LEMMA PayoutKeeps ==
  ASSUME PayoutInv, NEW r \in Requests, Alone(r), UNCHANGED <<credits, ledger, released>>,
         req'[r].at \notin Recording
  PROVE  PayoutInv'
BY DEF PayoutInv, PayoutInOrder, Alone, Recording

LEMMA ArrivePayout ==
  ASSUME IInv, PayoutInv, NEW r \in Requests, Arrive(r)
  PROVE  PayoutInv'
<1>1. req'[r].at \notin Recording
  BY ArriveMoves DEF IInv, TypeOK, FirstAwaits, Recording
<1> QED
  BY <1>1, ArriveMoves, PayoutKeeps DEF IInv, TypeOK

LEMMA ProceedPayout ==
  ASSUME IInv, PayoutInv, NEW r \in Requests, Proceed(r)
  PROVE  PayoutInv'
<1> USE DEF IInv, TypeOK, RowsTypeOK, RequestsTypeOK, Request
<1>1. Alone(r) /\ req[r].b \in Bookings
  BY ProceedMoves, BusyBooking
<1>2. CASE CreditBalance(r)
  <2>1. credits'[req[r].b] > 0 /\ req'[r].b = req[r].b /\ req'[r].at \in {"release.record", "admin.record"}
    BY <1>1, <1>2, EscrowAssumption DEF CreditBalance, Goto, RequestsTypeOK
  <2>2. \A c \in Bookings : credits[c] > 0 => credits'[c] > 0
    BY <1>2, <2>1 DEF CreditBalance
  <2> QED
    BY <1>1, <1>2, <2>1, <2>2, BusyBooking DEF CreditBalance, PayoutInv, PayoutInOrder, Alone
<1>3. CASE RecordCredit(r)
  <2>1. credits[req[r].b] > 0 /\ ledger'[req[r].b]
         /\ req'[r].b = req[r].b /\ req'[r].at \in {"release.mark", "admin.booking"}
    BY <1>1, <1>3 DEF RecordCredit, Goto, RequestsTypeOK, PayoutInv
  <2> QED
    BY <1>1, <1>3, <2>1 DEF RecordCredit, PayoutInv, PayoutInOrder, Alone
<1>4. CASE MarkReleased(r)
  <2>1. ledger[req[r].b] /\ req'[r].b = req[r].b /\ req'[r].at = "release.paid"
    BY <1>1, <1>4 DEF MarkReleased, Goto, RequestsTypeOK, PayoutInv
  <2> QED
    BY <1>1, <1>4, <2>1 DEF MarkReleased, PayoutInv, PayoutInOrder, Alone
<1>5. ASSUME ~CreditBalance(r), ~RecordCredit(r), ~MarkReleased(r)
      PROVE  UNCHANGED <<credits, ledger, released>> /\ req'[r].at \notin Recording
  <2> USE DEF Goto, GotoSeeing, End, Idle, Recording
  <2>1. CASE \/ CreatePayment(r) \/ DeleteAbandoned(r) \/ CheckStart(r) \/ WriteStatus(r)
             \/ ReadForRefund(r) \/ RefundAtGateway(r) \/ RecordRefund(r) \/ IssueQr(r)
             \/ ReadScannedBooking(r) \/ ClaimQr(r) \/ CompleteBooking(r) \/ Stop(r)
    BY <2>1 DEF CreatePayment, DeleteAbandoned, CheckStart, WriteStatus, ReadForRefund,
         RefundAtGateway, RecordRefund, IssueQr, ReadScannedBooking, ClaimQr, CompleteBooking,
         Stop
  <2>2. CASE \/ SettleCashPayment(r) \/ MarkPaid(r) \/ ReadPaymentToRelease(r)
             \/ ReadBookingToRelease(r) \/ CheckNotReleased(r) \/ WritePendingPayment(r)
             \/ OpenCheckout(r) \/ CheckNotSettled(r) \/ ReadBookingToSettle(r)
    BY <1>5, <2>2 DEF SettleCashPayment, MarkPaid, ReadPaymentToRelease, ReadBookingToRelease,
         CheckNotReleased, WritePendingPayment, OpenCheckout, CheckNotSettled,
         ReadBookingToSettle
  <2>3. CASE \/ WritePaymentCompleted(r) \/ ReadBookingToActivate(r) \/ PromoteBooking(r)
             \/ WriteFinalPrice(r) \/ WritePaymentFailed(r) \/ WriteDisputed(r)
             \/ RecordDispute(r) \/ ApprovePayment(r) \/ ReadApprovedBooking(r)
             \/ CompleteApproved(r)
    BY <2>3 DEF WritePaymentCompleted, ReadBookingToActivate, PromoteBooking, WriteFinalPrice,
         WritePaymentFailed, WriteDisputed, RecordDispute, ApprovePayment, ReadApprovedBooking,
         CompleteApproved
  <2> QED BY <1>5, <2>1, <2>2, <2>3 DEF Proceed
<1> QED
  BY <1>1, <1>2, <1>3, <1>4, <1>5, PayoutKeeps

(* payoutReleased never without its transaction row, nor that without the  *)
(* balance, whatever overlaps and wherever a request dies: what a crash    *)
(* leaves of releasePaymentToProvider's three writes is always the first.  *)
THEOREM PayoutsInOrder == Spec => []PayoutInOrder
<1>1. Init => PayoutInv
  BY DEF Init, PayoutInv, PayoutInOrder, Idle
<1>2. IInv /\ PayoutInv /\ [Next]_vars => PayoutInv'
  <2> SUFFICES ASSUME IInv, PayoutInv, [Next]_vars PROVE PayoutInv'
    OBVIOUS
  <2>1. ASSUME NEW r \in Requests, Arrive(r) \/ Proceed(r) PROVE PayoutInv'
    BY <2>1, ArrivePayout, ProceedPayout
  <2>2. ASSUME NEW b \in Bookings, Capture(b) PROVE PayoutInv'
    BY <2>2 DEF Capture, PayoutInv, PayoutInOrder
  <2>3. ASSUME UNCHANGED vars PROVE PayoutInv'
    BY <2>3 DEF vars, PayoutInv, PayoutInOrder
  <2> QED
    BY <2>1, <2>2, <2>3 DEF Next, Rest
<1>3. PayoutInv => PayoutInOrder
  BY DEF PayoutInv
<1> QED
  BY <1>1, <1>2, <1>3, Invariance, PTL DEF Spec

-----------------------------------------------------------------------------
(* Requests on different bookings.                                         *)
LEMMA ApartKeeps ==
  ASSUME RequestsTypeOK, RequestsTypeOK', ApartInv, Apart, Apart', NEW r \in Requests, NEW b \in Bookings,
         Alone(r), Frames(b),
         (req[r].b = b /\ req'[r].b \in {b, NoBooking}) \/ (req[r].b = NoBooking /\ req'[r].b = b),
         approved'[b] \/ ApartBooking(b)', ApartRequest(r)'
  PROVE  ApartInv'
<1>1. ASSUME NEW c \in Bookings PROVE approved'[c] \/ ApartBooking(c)'
  BY DEF ApartInv, Frames, ApartBooking
<1>2. ASSUME NEW q \in Requests \ {r} PROVE ApartRequest(q)'
  <2>1. CASE req[q].at = "idle"
    BY <2>1 DEF Alone, ApartRequest, Refunding, Scanning, Releasing
  <2>2. CASE req[q].at # "idle"
    <3>1. req[q].b \in Bookings /\ req'[q] = req[q] /\ req[q].b # NoBooking
      BY <2>2, BusyBooking, EscrowAssumption DEF Alone
    <3>2. req[q].b # b
      BY <3>1 DEF Apart
    <3>3. st'[req[q].b] = st[req[q].b] /\ pay'[req[q].b] = pay[req[q].b]
      BY <3>1, <3>2 DEF Frames
    <3> QED
      BY <3>1, <3>3 DEF ApartInv, ApartRequest
  <2> QED
    BY <2>1, <2>2
<1> QED
  BY <1>1, <1>2 DEF ApartInv

LEMMA ArriveApart ==
  ASSUME IInv, IInv', ApartInv, Apart, Apart', NEW r \in Requests, Arrive(r)
  PROVE  ApartInv'
<1>1. Alone(r) /\ req[r].b = NoBooking /\ req'[r].b \in Bookings /\ Frames(req'[r].b)
  BY ArriveMoves DEF IInv, TypeOK
<1>2. PICK b \in Bookings :
         \/ BookingEndpoints(r, b) \/ PaymentEndpoints(r, b) \/ FindAbandoned(r, b)
         \/ OpenDispute(r, b) \/ ApproveWithdrawal(r, b)
  BY DEF Arrive
<1> USE DEF IInv, TypeOK, RequestsTypeOK, Request, Idle, Begin, BeginSeeing, BeginVia, RowsTypeOK,
        ApartRequest, Refunding, Scanning, Releasing
<1>3. ApartRequest(r)'
  <2>1. CASE \E n \in Kinds : CreateBooking(r, b, n)
    BY <2>1 DEF CreateBooking
  <2>2. CASE \E to \in BookingStatus : UpdateStatus(r, b, to)
    BY <2>2 DEF UpdateStatus
  <2>3. CASE \E g \in Gateways : Initiate(r, b, g)
    BY <2>3 DEF Initiate
  <2>4. CASE RequestQr(r, b)
    BY <2>4 DEF RequestQr
  <2>5. CASE ScanQr(r, b)
    BY <2>5 DEF ScanQr
  <2>6. CASE Callback(r, b)
    BY <2>6 DEF Callback
  <2>7. CASE ReportFailure(r, b)
    BY <2>7 DEF ReportFailure
  <2>8. CASE ConfirmPayout(r, b)
    BY <2>8 DEF ConfirmPayout
  <2>9. CASE ManualConfirm(r, b)
    BY <2>9 DEF ManualConfirm
  <2>10. CASE FindAbandoned(r, b)
    BY <2>10 DEF FindAbandoned
  <2>11. CASE OpenDispute(r, b)
    BY <2>11 DEF OpenDispute
  <2>12. CASE ApproveWithdrawal(r, b)
    BY <2>12 DEF ApproveWithdrawal
  <2> QED
    BY <1>2, <2>1, <2>2, <2>3, <2>4, <2>5, <2>6, <2>7, <2>8, <2>9, <2>10, <2>11,
         <2>12 DEF BookingEndpoints, PaymentEndpoints
<1>4. ASSUME NEW c \in Bookings PROVE approved'[c] \/ ApartBooking(c)'
  <2>1. UNCHANGED <<done, approved, refunded>>
    BY ArriveMoves
  <2>2. st'[c] = st[c] \/ st[c] = "NEW"
    <3>1. CASE \E k \in Kinds : CreateBooking(r, b, k)
      BY <3>1 DEF CreateBooking
    <3>2. ASSUME \A k \in Kinds : ~CreateBooking(r, b, k) PROVE st' = st
      BY <1>2, <3>2 DEF BookingEndpoints, PaymentEndpoints, UpdateStatus, RequestQr, ScanQr,
         Initiate, Callback, ReportFailure, ConfirmPayout, ManualConfirm, FindAbandoned,
         OpenDispute, ApproveWithdrawal
    <3> QED
      BY <3>1, <3>2
  <2> QED
    BY <2>1, <2>2 DEF ApartInv, ApartBooking
<1> HIDE DEF IInv, RowsTypeOK, ApartRequest
<1> QED
  BY <1>1, <1>3, <1>4, ApartKeeps DEF IInv, TypeOK

LEMMA ProceedApart ==
  ASSUME IInv, IInv', ApartInv, Apart, Apart', NEW r \in Requests, Proceed(r)
  PROVE  ApartInv'
<1>1. PICK b \in Bookings : req[r].b = b
  BY ProceedMoves, BusyBooking DEF IInv, TypeOK
<1>2. Alone(r) /\ Frames(b) /\ req'[r].b \in {b, NoBooking} /\ req[r].at # "idle"
  BY <1>1, ProceedMoves, ProceedFrames DEF IInv, TypeOK
<1>3. RowsTypeOK /\ RequestsTypeOK /\ BookingInv(b) /\ RequestInv(r)
  BY DEF IInv, TypeOK
<1>4. (approved[b] \/ ApartBooking(b)) /\ ApartRequest(r)
  BY DEF ApartInv
<1>5. ApartRequest(r)' /\ (approved'[b] \/ ApartBooking(b)')
  <2> USE <1>1, <1>2, <1>3, <1>4 DEF RowsTypeOK, RequestsTypeOK, Request, Idle, Goto,
       GotoSeeing, End,
          ApartRequest, ApartBooking, Refunding, Scanning, Releasing
  <2>1. CASE CreatePayment(r)
    BY <2>1 DEF CreatePayment
  <2>2. CASE DeleteAbandoned(r)
    BY <2>2 DEF DeleteAbandoned
  <2>3. CASE CheckStart(r)
    BY <2>3 DEF CheckStart
  <2>4. CASE WriteStatus(r)
    BY <2>4 DEF WriteStatus, AllowedTransition
  <2>5. CASE ReadForRefund(r)
    BY <2>5 DEF ReadForRefund
  <2>6. CASE RefundAtGateway(r)
    BY <2>6 DEF RefundAtGateway
  <2>7. CASE RecordRefund(r)
    BY <2>7 DEF RecordRefund
  <2>8. CASE IssueQr(r)
    BY <2>8 DEF IssueQr
  <2>9. CASE ReadScannedBooking(r)
    BY <2>9 DEF ReadScannedBooking, Scannable
  <2>10. CASE ClaimQr(r)
    BY <2>10 DEF ClaimQr
  <2>11. CASE CompleteBooking(r)
    BY <2>11 DEF CompleteBooking
  <2>12. CASE SettleCashPayment(r)
    BY <2>12 DEF SettleCashPayment
  <2>13. CASE MarkPaid(r)
    BY <2>13 DEF MarkPaid, RequestInv, CashSettling, Finished
  <2>14. CASE ReadPaymentToRelease(r)
    BY <2>14 DEF ReadPaymentToRelease
  <2>15. CASE ReadBookingToRelease(r)
    BY <2>15 DEF ReadBookingToRelease
  <2>16. CASE CheckNotReleased(r)
    BY <2>16 DEF CheckNotReleased
  <2>17. CASE CreditBalance(r)
    BY <2>17 DEF CreditBalance
  <2>18. CASE RecordCredit(r)
    BY <2>18 DEF RecordCredit
  <2>19. CASE MarkReleased(r)
    BY <2>19 DEF MarkReleased
  <2>20. CASE WritePendingPayment(r)
    BY <2>20 DEF WritePendingPayment
  <2>21. CASE OpenCheckout(r)
    BY <2>21 DEF OpenCheckout
  <2>22. CASE CheckNotSettled(r)
    BY <2>22 DEF CheckNotSettled
  <2>23. CASE ReadBookingToSettle(r)
    BY <2>23 DEF ReadBookingToSettle
  <2>24. CASE WritePaymentCompleted(r)
    BY <2>24 DEF WritePaymentCompleted
  <2>25. CASE ReadBookingToActivate(r)
    BY <2>25 DEF ReadBookingToActivate
  <2>26. CASE PromoteBooking(r)
    BY <2>26 DEF PromoteBooking
  <2>27. CASE WriteFinalPrice(r)
    BY <2>27 DEF WriteFinalPrice, RequestInv, SettlingSeen, Finished
  <2>28. CASE WritePaymentFailed(r)
    BY <2>28 DEF WritePaymentFailed
  <2>29. CASE WriteDisputed(r)
    BY <2>29 DEF WriteDisputed
  <2>30. CASE RecordDispute(r)
    BY <2>30 DEF RecordDispute
  <2>31. CASE ApprovePayment(r)
    BY <2>31 DEF ApprovePayment
  <2>32. CASE ReadApprovedBooking(r)
    BY <2>32 DEF ReadApprovedBooking
  <2>33. CASE CompleteApproved(r)
    BY <2>33 DEF CompleteApproved, RequestInv, Approving
  <2>34. CASE Stop(r)
    BY <2>34 DEF Stop
  <2> QED
    BY <2>1, <2>2, <2>3, <2>4, <2>5, <2>6, <2>7, <2>8, <2>9, <2>10, <2>11, <2>12, <2>13, <2>14,
         <2>15, <2>16, <2>17, <2>18, <2>19, <2>20, <2>21, <2>22, <2>23, <2>24, <2>25, <2>26,
         <2>27, <2>28, <2>29, <2>30, <2>31, <2>32, <2>33, <2>34 DEF Proceed
<1> QED
  BY <1>1, <1>2, <1>5, ApartKeeps DEF IInv, TypeOK

LEMMA ApartStep == IInv /\ IInv' /\ ApartInv /\ Apart /\ Apart' /\ [Next]_vars => ApartInv'
<1> SUFFICES ASSUME IInv, IInv', ApartInv, Apart, Apart', [Next]_vars PROVE ApartInv'
  OBVIOUS
<1>1. ASSUME NEW r \in Requests, Arrive(r) \/ Proceed(r) PROVE ApartInv'
  BY <1>1, ArriveApart, ProceedApart
<1>2. ASSUME NEW b \in Bookings, Capture(b) PROVE ApartInv'
  BY <1>2 DEF Capture, ApartInv, ApartBooking, ApartRequest
<1>3. ASSUME UNCHANGED vars PROVE ApartInv'
  BY <1>3 DEF vars, ApartInv, ApartBooking, ApartRequest
<1> QED
  BY <1>1, <1>2, <1>3 DEF Next, Rest

LEMMA ApartInvariance == Spec /\ []Apart => []ApartInv
<1>1. Init => ApartInv
  BY DEF Init, Idle, ApartInv, ApartBooking, ApartRequest, Refunding, Scanning, Releasing
<1> QED
  BY <1>1, ApartStep, Invariance, PTL DEF Spec

(* As long as no two requests work on one booking, money refunded to the   *)
(* customer is not also paid out, unless an administrator approved it: a   *)
(* declined booking is never one that a scan has completed.                *)
THEOREM NoRefundAndPayout == Spec /\ []Apart => []NotRefundedAndPaidOut
<1>1. IInv /\ ApartInv => NotRefundedAndPaidOut
  BY DEF IInv, BookingInv, Finished, ApartInv, ApartBooking, NotRefundedAndPaidOut
<1> QED
  BY <1>1, Invariance, ApartInvariance, PTL

(* On the same condition a job is in progress only with money behind it    *)
(* that was not given back: no decline overtakes its start (updateStatus,  *)
(* refundDeclinedBooking).                                                 *)
THEOREM JobsAreBacked == Spec /\ []Apart => []WorkIsBacked
<1>1. IInv /\ ApartInv => WorkIsBacked
  BY DEF IInv, BookingInv, ApartInv, ApartBooking, WorkIsBacked, Funded, Backed
<1> QED
  BY <1>1, Invariance, ApartInvariance, PTL

(* A closed booking.                                                       *)
Closed(b) == st[b] \in {"DECLINED", "CANCELLED"}

LEMMA ProceedClosed ==
  ASSUME IInv, ApartInv, NEW r \in Requests, Proceed(r), NEW c \in Bookings, Closed(c)
  PROVE  st'[c] \in {st[c], "DISPUTED"} \/ approved[c]
<1>1. PICK b \in Bookings : req[r].b = b
  BY ProceedMoves, BusyBooking DEF IInv, TypeOK
<1>2. CASE c # b
  BY <1>1, <1>2, ProceedFrames DEF Frames, IInv, TypeOK
<1>3. CASE c = b
  <2>1. RowsTypeOK /\ BookingInv(b) /\ RequestInv(r) /\ (approved[b] \/ ApartBooking(b)) /\ ApartRequest(r)
    BY DEF IInv, TypeOK, ApartInv
  <2> USE <1>1, <1>3, <2>1 DEF Closed, RowsTypeOK, ApartRequest, ApartBooking
  <2>2. CASE DeleteAbandoned(r)
    BY <2>2 DEF DeleteAbandoned
  <2>3. CASE WriteStatus(r)
    BY <2>3 DEF WriteStatus, AllowedTransition
  <2>4. CASE CompleteBooking(r)
    BY <2>4 DEF CompleteBooking, Scanning
  <2>5. CASE MarkPaid(r)
    BY <2>5 DEF MarkPaid, RequestInv, CashSettling, Releasing, Finished
  <2>6. CASE PromoteBooking(r)
    BY <2>6 DEF PromoteBooking
  <2>7. CASE WriteFinalPrice(r)
    BY <2>7 DEF WriteFinalPrice, RequestInv, SettlingSeen, Finished
  <2>8. CASE WriteDisputed(r)
    BY <2>8 DEF WriteDisputed
  <2>9. CASE CompleteApproved(r)
    BY <2>9 DEF CompleteApproved, RequestInv, Approving
  <2>10. ASSUME ~DeleteAbandoned(r), ~WriteStatus(r), ~CompleteBooking(r), ~MarkPaid(r),
              ~PromoteBooking(r), ~WriteFinalPrice(r), ~WriteDisputed(r), ~CompleteApproved(r)
       PROVE  st' = st
    BY <2>10 DEF Proceed, CreatePayment, CheckStart, ReadForRefund, RefundAtGateway,
         RecordRefund, IssueQr,
       ReadScannedBooking, ClaimQr, SettleCashPayment, ReadPaymentToRelease,
       ReadBookingToRelease, CheckNotReleased, CreditBalance, RecordCredit, MarkReleased,
       WritePendingPayment, OpenCheckout, CheckNotSettled, ReadBookingToSettle,
       WritePaymentCompleted, ReadBookingToActivate, WritePaymentFailed, RecordDispute,
       ApprovePayment, ReadApprovedBooking, Stop
  <2> QED
    BY <2>2, <2>3, <2>4, <2>5, <2>6, <2>7, <2>8, <2>9, <2>10
<1> QED
  BY <1>2, <1>3

LEMMA ArriveClosed ==
  ASSUME NEW r \in Requests, Arrive(r), IInv, NEW c \in Bookings, Closed(c)
  PROVE  st'[c] = st[c]
<1>1. PICK b \in Bookings :
         \/ BookingEndpoints(r, b) \/ PaymentEndpoints(r, b) \/ FindAbandoned(r, b)
         \/ OpenDispute(r, b) \/ ApproveWithdrawal(r, b)
  BY DEF Arrive
<1>2. CASE \E k \in Kinds : CreateBooking(r, b, k)
  BY <1>2 DEF CreateBooking, Closed, IInv, TypeOK, RowsTypeOK
<1>3. ASSUME \A k \in Kinds : ~CreateBooking(r, b, k) PROVE st' = st
  BY <1>1, <1>3 DEF BookingEndpoints, PaymentEndpoints, UpdateStatus, RequestQr, ScanQr, Initiate,
     Callback, ReportFailure, ConfirmPayout, ManualConfirm, FindAbandoned, OpenDispute,
     ApproveWithdrawal
<1> QED
  BY <1>2, <1>3

(* As long as no two requests work on one booking, a declined or cancelled *)
(* booking goes nowhere but into a dispute, unless an administrator        *)
(* approved its payout (allowedTransitions and every other write of a      *)
(* status).                                                                *)
THEOREM ClosedIsFinal == Spec /\ []Apart => ClosedStaysClosed
<1> DEFINE Kept == \A b \in Bookings :
             st[b] \in {"DECLINED", "CANCELLED"} => st'[b] \in {st[b], "DISPUTED"} \/ approved[b]
<1>1. IInv /\ ApartInv /\ [Next]_vars => [Kept]_vars
  <2> SUFFICES ASSUME IInv, ApartInv, [Next]_vars, UNCHANGED vars \/ Next PROVE Kept \/ UNCHANGED vars
    OBVIOUS
  <2>1. ASSUME NEW r \in Requests, Arrive(r) \/ Proceed(r) PROVE Kept
    BY <2>1, ArriveClosed, ProceedClosed DEF Closed
  <2>2. ASSUME NEW b \in Bookings, Capture(b) PROVE Kept
    BY <2>2 DEF Capture
  <2> QED
    BY <2>1, <2>2 DEF Next, Rest
<1> QED
  BY <1>1, Invariance, ApartInvariance, PTL DEF Spec, ClosedStaysClosed

-----------------------------------------------------------------------------
(* Runs in which nothing dies.  A step of Escrow without faults is a step  *)
(* of Escrow: the two differ in where a request may stop, and in whether   *)
(* the promotion of a paid booking may be lost.                            *)
Ends == {"refund.call", "init.gateway", "settle.payment", "admin.payment"}

CalmStops(r) == Stop(r) /\ (Refused(r) \/ req[r].at \in Ends)

CalmPromotes(r) ==
  PromoteBooking(r) /\ (Exists(req[r].b) => st' = [st EXCEPT ![req[r].b] = "PENDING"])

CalmMoves(r) ==
  \/ CreatePayment(r) \/ DeleteAbandoned(r) \/ CheckStart(r) \/ WriteStatus(r)
  \/ ReadForRefund(r) \/ RefundAtGateway(r) \/ RecordRefund(r) \/ IssueQr(r)
  \/ ReadScannedBooking(r) \/ ClaimQr(r) \/ CompleteBooking(r) \/ SettleCashPayment(r)
  \/ MarkPaid(r) \/ ReadPaymentToRelease(r) \/ ReadBookingToRelease(r) \/ CheckNotReleased(r)
  \/ CreditBalance(r) \/ RecordCredit(r) \/ MarkReleased(r) \/ WritePendingPayment(r)
  \/ OpenCheckout(r) \/ CheckNotSettled(r) \/ ReadBookingToSettle(r) \/ WritePaymentCompleted(r)
  \/ ReadBookingToActivate(r) \/ WriteFinalPrice(r) \/ WritePaymentFailed(r) \/ WriteDisputed(r)
  \/ RecordDispute(r) \/ ApprovePayment(r) \/ ReadApprovedBooking(r) \/ CompleteApproved(r)
  \/ CalmStops(r) \/ CalmPromotes(r)

LEMMA CalmProceeds ==
  ASSUME NEW r \in Requests, Calm!Proceed(r)
  PROVE  CalmMoves(r)
<1> USE DEF Calm!bookingRow, Calm!paymentRow, Calm!walletRows, Calm!gateway, Calm!Goto, Goto,
     Calm!GotoSeeing, GotoSeeing, Calm!End, End, Calm!Idle, Idle, Calm!Exists, Exists
<1>1. Calm!CreatePayment(r) => CreatePayment(r)
  BY DEF Calm!CreatePayment, CreatePayment
<1>2. Calm!DeleteAbandoned(r) => DeleteAbandoned(r)
  BY DEF Calm!DeleteAbandoned, DeleteAbandoned
<1>3. Calm!CheckStart(r) => CheckStart(r)
  BY DEF Calm!CheckStart, CheckStart, Calm!CashOrPaid, CashOrPaid
<1>4. Calm!WriteStatus(r) => WriteStatus(r)
  BY DEF Calm!WriteStatus, WriteStatus
<1>5. Calm!ReadForRefund(r) => ReadForRefund(r)
  BY DEF Calm!ReadForRefund, ReadForRefund, Calm!Refundable, Refundable
<1>6. Calm!RefundAtGateway(r) => RefundAtGateway(r)
  BY DEF Calm!RefundAtGateway, RefundAtGateway
<1>7. Calm!RecordRefund(r) => RecordRefund(r)
  BY DEF Calm!RecordRefund, RecordRefund
<1>8. Calm!IssueQr(r) => IssueQr(r)
  BY DEF Calm!IssueQr, IssueQr
<1>9. Calm!ReadScannedBooking(r) => ReadScannedBooking(r)
  BY DEF Calm!ReadScannedBooking, ReadScannedBooking, Calm!Scannable, Scannable,
       Calm!CashOrPaid, CashOrPaid
<1>10. Calm!ClaimQr(r) => ClaimQr(r)
  BY DEF Calm!ClaimQr, ClaimQr
<1>11. Calm!CompleteBooking(r) => CompleteBooking(r)
  BY DEF Calm!CompleteBooking, CompleteBooking
<1>12. Calm!SettleCashPayment(r) => SettleCashPayment(r)
  BY DEF Calm!SettleCashPayment, SettleCashPayment
<1>13. Calm!MarkPaid(r) => MarkPaid(r)
  BY DEF Calm!MarkPaid, MarkPaid
<1>14. Calm!ReadPaymentToRelease(r) => ReadPaymentToRelease(r)
  BY DEF Calm!ReadPaymentToRelease, ReadPaymentToRelease
<1>15. Calm!ReadBookingToRelease(r) => ReadBookingToRelease(r)
  BY DEF Calm!ReadBookingToRelease, ReadBookingToRelease, Calm!PayoutEligible, PayoutEligible
<1>16. Calm!CheckNotReleased(r) => CheckNotReleased(r)
  BY DEF Calm!CheckNotReleased, CheckNotReleased
<1>17. Calm!CreditBalance(r) => CreditBalance(r)
  BY DEF Calm!CreditBalance, CreditBalance
<1>18. Calm!RecordCredit(r) => RecordCredit(r)
  BY DEF Calm!RecordCredit, RecordCredit
<1>19. Calm!MarkReleased(r) => MarkReleased(r)
  BY DEF Calm!MarkReleased, MarkReleased
<1>20. Calm!WritePendingPayment(r) => WritePendingPayment(r)
  BY DEF Calm!WritePendingPayment, WritePendingPayment
<1>21. Calm!OpenCheckout(r) => OpenCheckout(r)
  BY DEF Calm!OpenCheckout, OpenCheckout, Calm!TokenAfter, TokenAfter
<1>22. Calm!CheckNotSettled(r) => CheckNotSettled(r)
  BY DEF Calm!CheckNotSettled, CheckNotSettled
<1>23. Calm!ReadBookingToSettle(r) => ReadBookingToSettle(r)
  BY DEF Calm!ReadBookingToSettle, ReadBookingToSettle
<1>24. Calm!WritePaymentCompleted(r) => WritePaymentCompleted(r)
  BY DEF Calm!WritePaymentCompleted, WritePaymentCompleted
<1>25. Calm!ReadBookingToActivate(r) => ReadBookingToActivate(r)
  BY DEF Calm!ReadBookingToActivate, ReadBookingToActivate
<1>26. Calm!WriteFinalPrice(r) => WriteFinalPrice(r)
  BY DEF Calm!WriteFinalPrice, WriteFinalPrice
<1>27. Calm!WritePaymentFailed(r) => WritePaymentFailed(r)
  BY DEF Calm!WritePaymentFailed, WritePaymentFailed
<1>28. Calm!WriteDisputed(r) => WriteDisputed(r)
  BY DEF Calm!WriteDisputed, WriteDisputed
<1>29. Calm!RecordDispute(r) => RecordDispute(r)
  BY DEF Calm!RecordDispute, RecordDispute
<1>30. Calm!ApprovePayment(r) => ApprovePayment(r)
  BY DEF Calm!ApprovePayment, ApprovePayment
<1>31. Calm!ReadApprovedBooking(r) => ReadApprovedBooking(r)
  BY DEF Calm!ReadApprovedBooking, ReadApprovedBooking
<1>32. Calm!CompleteApproved(r) => CompleteApproved(r)
  BY DEF Calm!CompleteApproved, CompleteApproved
<1>33. Calm!Refused(r) => Refused(r)
  BY DEF Calm!Refused, Refused, Calm!CashOrPaid, CashOrPaid, Calm!Refundable, Refundable,
       Calm!Scannable, Scannable, Calm!PayoutEligible, PayoutEligible
<1>34. Calm!Stop(r) => CalmStops(r)
  BY <1>33 DEF Calm!Stop, Stop, CalmStops, Ends
<1>35. Calm!PromoteBooking(r) => CalmPromotes(r)
  BY DEF Calm!PromoteBooking, PromoteBooking, CalmPromotes
<1> QED
  BY <1>1, <1>2, <1>3, <1>4, <1>5, <1>6, <1>7, <1>8, <1>9, <1>10, <1>11, <1>12, <1>13, <1>14,
       <1>15, <1>16, <1>17, <1>18, <1>19, <1>20, <1>21, <1>22, <1>23, <1>24, <1>25, <1>26,
       <1>27, <1>28, <1>29, <1>30, <1>31, <1>32, <1>33, <1>34, <1>35 DEF Calm!Proceed, CalmMoves

LEMMA CalmArrives ==
  ASSUME NEW r \in Requests, Calm!Arrive(r)
  PROVE  Arrive(r)
<1> USE DEF Calm!bookingRow, Calm!paymentRow, Calm!walletRows, Calm!gateway, Calm!Begin, Begin,
     Calm!BeginSeeing, BeginSeeing, Calm!BeginVia, BeginVia, Calm!Idle, Idle, Calm!Exists, Exists
<1>1. PICK b \in Bookings :
         \/ Calm!BookingEndpoints(r, b) \/ Calm!PaymentEndpoints(r, b) \/ Calm!FindAbandoned(r, b)
         \/ Calm!OpenDispute(r, b) \/ Calm!ApproveWithdrawal(r, b)
  BY DEF Calm!Arrive
<1>2. ASSUME NEW k \in Kinds, Calm!CreateBooking(r, b, k) PROVE CreateBooking(r, b, k)
  BY <1>2 DEF Calm!CreateBooking, CreateBooking, Calm!InitialStatus, InitialStatus
<1>3. ASSUME NEW to \in BookingStatus, Calm!UpdateStatus(r, b, to) PROVE UpdateStatus(r, b, to)
  BY <1>3 DEF Calm!UpdateStatus, UpdateStatus, Calm!AllowedTransition, AllowedTransition
<1>4. ASSUME NEW g \in Gateways, Calm!Initiate(r, b, g) PROVE Initiate(r, b, g)
  BY <1>4 DEF Calm!Initiate, Initiate, Calm!CheckoutAllowed, CheckoutAllowed
<1>5. Calm!RequestQr(r, b) => RequestQr(r, b)
  BY DEF Calm!RequestQr, RequestQr, Calm!Scannable, Scannable, Calm!CashOrPaid, CashOrPaid
<1>6. Calm!ScanQr(r, b) => ScanQr(r, b)
  BY DEF Calm!ScanQr, ScanQr
<1>7. Calm!Callback(r, b) => Callback(r, b)
  BY DEF Calm!Callback, Callback
<1>8. Calm!ReportFailure(r, b) => ReportFailure(r, b)
  BY DEF Calm!ReportFailure, ReportFailure
<1>9. Calm!ConfirmPayout(r, b) => ConfirmPayout(r, b)
  BY DEF Calm!ConfirmPayout, ConfirmPayout
<1>10. Calm!ManualConfirm(r, b) => ManualConfirm(r, b)
  BY DEF Calm!ManualConfirm, ManualConfirm
<1>11. Calm!FindAbandoned(r, b) => FindAbandoned(r, b)
  BY DEF Calm!FindAbandoned, FindAbandoned
<1>12. Calm!OpenDispute(r, b) => OpenDispute(r, b)
  BY DEF Calm!OpenDispute, OpenDispute
<1>13. Calm!ApproveWithdrawal(r, b) => ApproveWithdrawal(r, b)
  BY DEF Calm!ApproveWithdrawal, ApproveWithdrawal
<1> QED
  BY <1>1, <1>2, <1>3, <1>4, <1>5, <1>6, <1>7, <1>8, <1>9, <1>10, <1>11, <1>12,
       <1>13 DEF Arrive, Calm!BookingEndpoints, Calm!PaymentEndpoints, BookingEndpoints,
       PaymentEndpoints, Calm!BookingStatus, BookingStatus, Calm!Gateways, Gateways

CalmBodies ==
  /\ \A b \in Bookings : approved[b] \/ (AtRest(b) => CalmAt(b, "idle"))
  /\ \A r \in Requests :
       req[r].at = "idle" \/ approved[req[r].b] \/ CalmAt(req[r].b, req[r].at)

LEMMA CalmKeeps ==
  ASSUME RequestsTypeOK, RequestsTypeOK', CalmBodies, Apart, Apart',
         NEW r \in Requests, NEW b \in Bookings, NEW at, at = req'[r].at, Alone(r), Frames(b),
         (req[r].b = b /\ req'[r].b \in {b, NoBooking}) \/ (req[r].b = NoBooking /\ req'[r].b = b),
         approved'[b] \/ CalmAt(b, at)'
  PROVE  CalmBodies'
<1>1. ASSUME NEW c \in Bookings, AtRest(c)' PROVE approved'[c] \/ CalmAt(c, "idle")'
  <2>1. CASE c = b
    BY <1>1, <2>1 DEF AtRest, RequestsTypeOK
  <2>2. CASE c # b
    <3>1. AtRest(c)
      BY <1>1, <2>2, EscrowAssumption DEF AtRest, Alone
    <3> QED
      BY <2>2, <3>1 DEF CalmBodies, CalmAt, Frames
  <2> QED
    BY <2>1, <2>2
<1>2. ASSUME NEW q \in Requests, req'[q].at # "idle"
      PROVE  approved'[req'[q].b] \/ CalmAt(req[q].b, req[q].at)'
  <2>1. CASE q = r
    BY <1>2, <2>1 DEF RequestsTypeOK, CalmAt
  <2>2. CASE q # r
    <3>1. req'[q] = req[q] /\ req[q].b \in Bookings /\ req[q].b # NoBooking
      BY <1>2, <2>2, BusyBooking, EscrowAssumption DEF Alone
    <3>2. req[q].b # b
      BY <2>2, <3>1 DEF Apart
    <3> QED
      BY <1>2, <3>1, <3>2 DEF CalmBodies, CalmAt, Frames
  <2> QED
    BY <2>1, <2>2
<1> QED
  BY <1>1, <1>2 DEF CalmBodies

LEMMA CalmArriveKeeps ==
  ASSUME IInv, IInv', ApartInv, CalmBodies, Apart, Apart', NEW r \in Requests, Arrive(r)
  PROVE  CalmBodies'
<1>1. PICK b \in Bookings : req'[r].b = b
  BY ArriveMoves DEF IInv, TypeOK
<1>2. /\ Alone(r) /\ req[r].b = NoBooking /\ Frames(b) /\ req'[r].at \in FirstAwaits
      /\ UNCHANGED <<done, approved, refunded, credits, ledger, released, pay>>
  BY <1>1, ArriveMoves DEF IInv, TypeOK
<1>3. AtRest(b)
  BY <1>1, <1>2, EscrowAssumption DEF AtRest, Apart, Alone
<1>4. approved[b] \/ CalmAt(b, "idle")
  BY <1>3 DEF CalmBodies
<1>5. st'[b] = st[b] \/ (st[b] = "NEW" /\ pay[b] = "NONE")
  <2>1. PICK c \in Bookings :
          \/ BookingEndpoints(r, c) \/ PaymentEndpoints(r, c) \/ FindAbandoned(r, c)
          \/ OpenDispute(r, c) \/ ApproveWithdrawal(r, c)
    BY DEF Arrive
  <2>2. CASE \E k \in Kinds : CreateBooking(r, c, k)
    BY <2>2 DEF CreateBooking, IInv, TypeOK, RowsTypeOK, BookingInv
  <2>3. ASSUME \A k \in Kinds : ~CreateBooking(r, c, k) PROVE st' = st
    BY <2>1, <2>3 DEF BookingEndpoints, PaymentEndpoints, UpdateStatus, RequestQr, ScanQr,
       Initiate, Callback, ReportFailure, ConfirmPayout, ManualConfirm, FindAbandoned,
       OpenDispute, ApproveWithdrawal
  <2> QED
    BY <2>2, <2>3
<1>6. PICK at : at = req'[r].at
  OBVIOUS
<1>7. approved'[b] \/ CalmAt(b, at)'
  <2>1. credits[b] \in Nat
    BY DEF IInv, TypeOK, RowsTypeOK
  <2>3. st[b] = "NEW" => approved[b] \/ credits[b] = 0
    BY <2>1 DEF IInv, BookingInv, Finished, ApartInv, ApartBooking
  <2>2. /\ at \notin {"release.record", "release.mark", "release.paid", "release.credit"}
        /\ at \notin {"settle.activate", "settle.promote"}
    BY <1>2, <1>6 DEF FirstAwaits
  <2> QED
    BY <1>2, <1>4, <1>5, <2>1, <2>2, <2>3 DEF CalmAt
<1> QED
  BY <1>1, <1>2, <1>6, <1>7, CalmKeeps DEF IInv, TypeOK

LEMMA NoneYet == \A n \in Nat : n <= 1 /\ n # 1 => n = 0
OBVIOUS

LEMMA CalmProceedKeeps ==
  ASSUME IInv, IInv', ApartInv, CalmBodies, Apart, Apart', NEW r \in Requests, Proceed(r), CalmMoves(r)
  PROVE  CalmBodies'
<1>1. PICK b \in Bookings : req[r].b = b
  BY ProceedMoves, BusyBooking DEF IInv, TypeOK
<1>2. Alone(r) /\ Frames(b) /\ req'[r].b \in {b, NoBooking} /\ req[r].at # "idle"
  BY <1>1, ProceedMoves, ProceedFrames DEF IInv, TypeOK
<1>3. RowsTypeOK /\ RequestsTypeOK /\ BookingInv(b) /\ RequestInv(r)
  BY DEF IInv, TypeOK
<1>4. (approved[b] \/ ApartBooking(b)) /\ ApartRequest(r) /\ (approved[b] \/ CalmAt(b, req[r].at))
  BY <1>1, <1>2 DEF ApartInv, CalmBodies
<1>5. PICK at : at = req'[r].at
  OBVIOUS
<1>6. approved'[b] \/ CalmAt(b, at)'
  <2> USE <1>1, <1>2, <1>3, <1>4, <1>5 DEF RowsTypeOK, RequestsTypeOK, Request, Idle, Goto,
       GotoSeeing, End, CalmAt
  <2>1. CASE CreatePayment(r)
    BY <2>1 DEF CreatePayment
  <2>2. CASE DeleteAbandoned(r)
    BY <2>2 DEF DeleteAbandoned, ApartRequest
  <2>3. CASE CheckStart(r)
    BY <2>3 DEF CheckStart
  <2>4. CASE WriteStatus(r)
    BY <2>4 DEF WriteStatus, ApartRequest, AllowedTransition
  <2>5. CASE ReadForRefund(r)
    BY <2>5 DEF ReadForRefund
  <2>6. CASE RefundAtGateway(r)
    BY <2>6 DEF RefundAtGateway, ApartRequest, Refunding
  <2>7. CASE RecordRefund(r)
    BY <2>7 DEF RecordRefund
  <2>8. CASE IssueQr(r)
    BY <2>8 DEF IssueQr
  <2>9. CASE ReadScannedBooking(r)
    BY <2>9 DEF ReadScannedBooking
  <2>10. CASE ClaimQr(r)
    BY <2>10 DEF ClaimQr
  <2>11. CASE CompleteBooking(r)
    BY <2>11 DEF CompleteBooking, ApartRequest, Scanning, BookingInv, RequestInv, Finished,
         ApartBooking
  <2>12. CASE SettleCashPayment(r)
    BY <2>12 DEF SettleCashPayment, RequestInv, CashSettling, ApartBooking
  <2>13. CASE MarkPaid(r)
    BY <2>13 DEF MarkPaid, Releasing, ApartRequest
  <2>14. CASE ReadPaymentToRelease(r)
    BY <2>14 DEF ReadPaymentToRelease
  <2>15. CASE ReadBookingToRelease(r)
    BY <2>15 DEF ReadBookingToRelease
  <2>16. CASE CheckNotReleased(r)
    <3>1. credits[b] \in Nat /\ ~ledger[b] /\ at = "release.credit" /\ approved' = approved
      BY <2>16, EscrowAssumption DEF CheckNotReleased
    <3>2. req[r].at = "release.ledger" /\ ledger[b] = FALSE
      BY <2>16 DEF CheckNotReleased
    <3>3. approved[b] \/ (credits[b] <= 1 /\ credits[b] # 1)
      BY <3>1, <3>2
    <3>4. approved[b] \/ credits[b] = 0
      BY <3>1, <3>3, NoneYet
    <3> QED
      BY <2>16, <3>1, <3>4 DEF CheckNotReleased
  <2>17. CASE CreditBalance(r)
    BY <2>17 DEF CreditBalance, RequestInv, Approving, Releasing
  <2>18. CASE RecordCredit(r)
    BY <2>18 DEF RecordCredit, RequestInv, Approving
  <2>19. CASE MarkReleased(r)
    BY <2>19 DEF MarkReleased
  <2>20. CASE WritePendingPayment(r)
    BY <2>20 DEF WritePendingPayment
  <2>21. CASE OpenCheckout(r)
    BY <2>21 DEF OpenCheckout
  <2>22. CASE CheckNotSettled(r)
    BY <2>22 DEF CheckNotSettled
  <2>23. CASE ReadBookingToSettle(r)
    BY <2>23 DEF ReadBookingToSettle
  <2>24. CASE WritePaymentCompleted(r)
    BY <2>24 DEF WritePaymentCompleted
  <2>25. CASE ReadBookingToActivate(r)
    BY <2>25 DEF ReadBookingToActivate
  <2>26. CASE WriteFinalPrice(r)
    BY <2>26 DEF WriteFinalPrice, RequestInv, SettlingSeen
  <2>27. CASE WritePaymentFailed(r)
    BY <2>27 DEF WritePaymentFailed
  <2>28. CASE WriteDisputed(r)
    BY <2>28 DEF WriteDisputed
  <2>29. CASE RecordDispute(r)
    BY <2>29 DEF RecordDispute
  <2>30. CASE ApprovePayment(r)
    BY <2>30 DEF ApprovePayment
  <2>31. CASE ReadApprovedBooking(r)
    BY <2>31 DEF ReadApprovedBooking, RequestInv, Approving
  <2>32. CASE CompleteApproved(r)
    BY <2>32 DEF CompleteApproved, RequestInv, Approving
  <2>33. CASE CalmStops(r)
    BY <2>33 DEF CalmStops, Stop, Refused, Ends, ApartRequest, ApartBooking, RequestInv,
         Releasing, Approving, Finished, Exists
  <2>34. CASE CalmPromotes(r)
    BY <2>34 DEF CalmPromotes, PromoteBooking, ApartRequest, Exists
  <2> QED
    BY <2>1, <2>2, <2>3, <2>4, <2>5, <2>6, <2>7, <2>8, <2>9, <2>10, <2>11, <2>12, <2>13, <2>14,
         <2>15, <2>16, <2>17, <2>18, <2>19, <2>20, <2>21, <2>22, <2>23, <2>24, <2>25, <2>26,
         <2>27, <2>28, <2>29, <2>30, <2>31, <2>32, <2>33, <2>34 DEF CalmMoves
<1> QED
  BY <1>1, <1>2, <1>5, <1>6, CalmKeeps DEF IInv, TypeOK

LEMMA MovesProceed == \A r \in Requests : CalmMoves(r) => Proceed(r)
BY DEF CalmMoves, CalmStops, CalmPromotes, Proceed

LEMMA CalmNext ==
  ASSUME IInv, IInv', ApartInv, CalmBodies, Apart, Apart', Calm!Next
  PROVE  CalmBodies'
<1>1. ASSUME NEW r \in Requests, Calm!Arrive(r) PROVE CalmBodies'
  BY <1>1, CalmArrives, CalmArriveKeeps
<1>2. ASSUME NEW r \in Requests, Calm!Proceed(r) PROVE CalmBodies'
  BY <1>2, CalmProceeds, MovesProceed, CalmProceedKeeps
<1>3. ASSUME NEW b \in Bookings, Calm!Capture(b) PROVE CalmBodies'
  BY <1>3
     DEF Calm!Capture, Calm!bookingRow, Calm!paymentRow, Calm!walletRows, CalmBodies, CalmAt,
     AtRest
<1>4. ASSUME Calm!Rest PROVE CalmBodies'
  BY <1>4
     DEF Calm!Rest, Calm!vars, Calm!bookingRow, Calm!paymentRow, Calm!walletRows, Calm!gateway,
     CalmBodies, CalmAt, AtRest
<1> QED
  BY <1>1, <1>2, <1>3, <1>4 DEF Calm!Next

(* Telling the deaths apart adds nothing to what Escrow does.              *)
LEMMA SerialStep == [SerialNext]_<<vars, died>> => [Next]_vars
<1>1. ASSUME NEW r \in Requests, Calm!Arrive(r) \/ Calm!Proceed(r) PROVE Arrive(r) \/ Proceed(r)
  BY <1>1, CalmArrives, CalmProceeds, MovesProceed
<1>2. ASSUME NEW b \in Bookings, Calm!Capture(b) PROVE Capture(b)
  BY <1>2 DEF Calm!Capture, Capture, Calm!bookingRow, Calm!paymentRow, Calm!walletRows
<1>3. Calm!Rest => UNCHANGED vars
  BY DEF Calm!Rest, Calm!vars, vars, Calm!bookingRow, Calm!paymentRow, Calm!walletRows,
       Calm!gateway
<1> QED
  BY <1>1, <1>2, <1>3 DEF SerialNext, Next, Calm!Next

LEMMA SerialIsSpec == SerialSpec => Spec
BY SerialStep, PTL DEF SerialSpec, Spec, SerialInit

LEMMA CalmInvariance == SerialSpec /\ []Apart => []CalmInv
<1>1. CalmInv <=> (~died => CalmBodies)
  BY DEF CalmInv, CalmBodies
<1>2. SerialInit => CalmInv
  <2>1. Init => CalmBodies
    BY DEF Init, Idle, CalmBodies, CalmAt
  <2> QED
    BY <1>1, <2>1 DEF SerialInit
<1>3. IInv /\ IInv' /\ ApartInv /\ Apart /\ Apart' /\ CalmInv /\ [SerialNext]_<<vars, died>> => CalmInv'
  <2> SUFFICES ASSUME IInv, IInv', ApartInv, Apart, Apart', CalmInv, [SerialNext]_<<vars, died>>, ~died'
               PROVE  CalmBodies'
    BY DEF CalmInv, CalmBodies
  <2>1. CASE Calm!Next /\ UNCHANGED died
    BY <1>1, <2>1, CalmNext
  <2>2. CASE UNCHANGED <<vars, died>>
    BY <1>1, <2>2 DEF vars, CalmBodies, CalmAt, AtRest
  <2> QED
    BY <2>1, <2>2 DEF SerialNext
<1> QED
  BY <1>2, <1>3, SerialIsSpec, Invariance, ApartInvariance, PTL DEF SerialSpec

LEMMA CalmAnswers ==
  ASSUME IInv, CalmInv, Undisturbed, NEW b \in Bookings
  PROVE  /\ CalmAt(b, "idle") \/ \E r \in Requests : req[r].b = b /\ CalmAt(b, req[r].at)
         /\ AtRest(b) => CalmAt(b, "idle")
<1>1. \A r \in Requests : req[r].b = b => req[r].at # "idle"
  BY EscrowAssumption DEF IInv, TypeOK, RequestsTypeOK
<1>2. CASE AtRest(b)
  BY <1>2 DEF CalmInv, Undisturbed
<1>3. CASE ~AtRest(b)
  BY <1>1, <1>3 DEF CalmInv, Undisturbed, AtRest
<1> QED
  BY <1>2, <1>3

(* As long as nothing dies, no administrator steps in and no two requests  *)
(* work on one booking, a payout credits the provider once and leaves its  *)
(* transaction row (the double-credit check of releasePaymentToProvider).  *)
THEOREM PayoutCreditsOnce == SerialSpec /\ []Apart => []CalmCreditedOnce
<1>1. IInv /\ CalmInv => CalmCreditedOnce
  <2> SUFFICES ASSUME IInv, CalmInv, Undisturbed, NEW b \in Bookings
               PROVE  credits[b] <= 1 /\ (AtRest(b) /\ credits[b] = 1 => ledger[b])
    BY DEF CalmCreditedOnce, CreditedOnce
  <2> QED
    BY CalmAnswers DEF CalmAt
<1> QED
  BY <1>1, SerialIsSpec, Invariance, CalmInvariance, PTL

(* On the same conditions, between requests a settled "pay now" booking    *)
(* has been activated (markPaymentCompleted, activatePaidBooking).         *)
THEOREM SettlementActivates == SerialSpec /\ []Apart => []CalmSettledIsActivated
<1>1. IInv /\ CalmInv => CalmSettledIsActivated
  <2> SUFFICES ASSUME IInv, CalmInv, Undisturbed, NEW b \in Bookings, pay[b] = "COMPLETED", AtRest(b)
               PROVE  st[b] # "AWAITING_PAYMENT"
    BY DEF CalmSettledIsActivated, SettledIsActivated
  <2> QED
    BY CalmAnswers DEF CalmAt
<1> QED
  BY <1>1, SerialIsSpec, Invariance, CalmInvariance, PTL

(* On the same conditions, between requests a booking that was credited is *)
(* released and PAID, or disputed since (releasePaymentToProvider).        *)
THEOREM PayoutCompletes == SerialSpec /\ []Apart => []CalmPayoutIsComplete
<1>1. IInv /\ CalmInv => CalmPayoutIsComplete
  <2> SUFFICES ASSUME IInv, CalmInv, Undisturbed, NEW b \in Bookings, credits[b] > 0, AtRest(b)
               PROVE  released[b] /\ st[b] \in {"PAID", "DISPUTED"}
    BY DEF CalmPayoutIsComplete, PayoutIsComplete
  <2>1. CalmAt(b, "idle") /\ credits[b] \in Nat
    BY CalmAnswers DEF IInv, TypeOK, RowsTypeOK
  <2>2. credits[b] = 1
    BY <2>1 DEF CalmAt
  <2> QED
    BY <2>1, <2>2 DEF CalmAt
<1> QED
  BY <1>1, SerialIsSpec, Invariance, CalmInvariance, PTL

=============================================================================
