---------------------------- MODULE WalletProofs ----------------------------
(***************************************************************************)
(* What Wallet keeps for any set of keys, amounts and request slots, with  *)
(* crashes and lost answers anywhere.  Conserved and ReservedIsPending are *)
(* not inductive alone: each needs that no request stands before the step  *)
(* that would break it (Fresh, Decided).  Every action is shown to keep  *)
(* the types, then to move the columns in balance.                         *)
(***************************************************************************)
EXTENDS Wallet, SumLemmas

USE DEF purse, history

(* Only request r moves.                                                   *)
Alone(r) == \A q \in Requests \ {r} : req'[q] = req[q]

(* A credit about to be written has seen the balance as it is.             *)
Fresh ==
  \A r \in Requests : req[r].at = "credit.write" => "credit" \in Ops /\ req[r].saw = balance

(* A decision about to reach the wallet is an administrator's.             *)
Decided == \A r \in Requests : req[r].at \in {"approve.wallet", "reject.wallet"} => ruled

-----------------------------------------------------------------------------
(* Requests: beginning, moving on and ending keep the slots' type.         *)
LEMMA BeginType ==
  ASSUME RequestsTypeOK, NEW r \in Requests, NEW step \in Steps, NEW k \in Keys \cup {NoKey},
         NEW news \in Transfer, NEW saw \in Int, step \notin Keyless => k \in Keys,
         Begin(r, step, k, news, saw)
  PROVE  RequestsTypeOK' /\ Alone(r)
BY DEF RequestsTypeOK, Begin, Request, Alone

LEMMA GotoType ==
  ASSUME RequestsTypeOK, NEW r \in Requests, req[r].at # "idle", NEW step \in Steps,
         req[r].at \in Keyless => step \in Keyless, Goto(r, step)
  PROVE  RequestsTypeOK' /\ Alone(r)
BY WalletAssumption DEF RequestsTypeOK, Goto, Request, Keyless, Alone

LEMMA EndType ==
  ASSUME RequestsTypeOK, NEW r \in Requests, End(r)
  PROVE  RequestsTypeOK' /\ Alone(r)
BY WalletAssumption DEF RequestsTypeOK, End, Request, Idle, Steps, Transfer, Keyless, Alone

LEMMA KeyInHand ==
  ASSUME RequestsTypeOK, NEW r \in Requests, req[r].at \notin Keyless
  PROVE  req[r].k \in Keys /\ Amount[req[r].k] \in Nat
BY WalletAssumption DEF RequestsTypeOK, WalletAssumption

-----------------------------------------------------------------------------
(* The types.                                                              *)
LEMMA InitType == Init => TypeOK
<1> SUFFICES ASSUME Init PROVE TypeOK
  OBVIOUS
<1>1. /\ balance \in Int /\ pending \in Int /\ reserved \in Int
      /\ withdrawn \in Nat /\ earned \in Nat /\ recorded \in Nat
  BY WalletAssumption DEF Init, WalletAssumption
<1>2. status \in [Keys -> Status] /\ transfer \in [Keys -> Transfer]
  BY DEF Init, Status, Transfer
<1>3. lost \in BOOLEAN /\ ruled \in BOOLEAN
  BY DEF Init
<1>4. RequestsTypeOK
  BY DEF Init, RequestsTypeOK, Keyless, Request, Idle, Steps, Transfer
<1> QED BY <1>1, <1>2, <1>3, <1>4 DEF TypeOK, ColumnsTypeOK

LEMMA ArriveType ==
  ASSUME TypeOK, NEW r \in Requests, Arrive(r)
  PROVE  TypeOK' /\ Alone(r)
<1> USE DEF TypeOK
<1>1. CASE Credit(r)
  <2>1. RequestsTypeOK' /\ Alone(r)
    BY <1>1, BeginType DEF Credit, ColumnsTypeOK, Transfer, Steps, Keyless
  <2> QED BY <1>1, <2>1 DEF Credit, ColumnsTypeOK
<1>2. ASSUME NEW k \in Keys, RequestWithdrawal(r, k) PROVE TypeOK' /\ Alone(r)
  <2>1. RequestsTypeOK' /\ Alone(r)
    BY <1>2, BeginType DEF RequestWithdrawal, Transfer, Steps, Keyless
  <2> QED BY <1>2, <2>1 DEF RequestWithdrawal, ColumnsTypeOK
<1>3. ASSUME NEW k \in Keys, Approve(r, k) PROVE TypeOK' /\ Alone(r)
  <2>1. RequestsTypeOK' /\ Alone(r)
    BY <1>3, BeginType DEF Approve, Transfer, Steps, Keyless
  <2> QED BY <1>3, <2>1 DEF Approve, ColumnsTypeOK, Status
<1>4. ASSUME NEW k \in Keys, Reject(r, k) PROVE TypeOK' /\ Alone(r)
  <2>1. RequestsTypeOK' /\ Alone(r)
    BY <1>4, BeginType DEF Reject, Transfer, Steps, Keyless
  <2> QED BY <1>4, <2>1 DEF Reject, ColumnsTypeOK, Status
<1>5. ASSUME NEW k \in Keys, NEW news \in Transfer, Webhook(r, k, news) PROVE TypeOK' /\ Alone(r)
  <2>1. RequestsTypeOK' /\ Alone(r)
    BY <1>5, BeginType DEF Webhook, Steps, Keyless
  <2> QED BY <1>5, <2>1 DEF Webhook, ColumnsTypeOK
<1> QED BY <1>1, <1>2, <1>3, <1>4, <1>5 DEF Arrive

LEMMA ProceedType ==
  ASSUME TypeOK, NEW r \in Requests, Proceed(r)
  PROVE  TypeOK' /\ Alone(r)
<1> USE DEF TypeOK
<1>k. req[r].at \notin Keyless => req[r].k \in Keys /\ Amount[req[r].k] \in Nat
  BY KeyInHand
<1>1. CASE FindExisting(r) \/ RecheckBalance(r) \/ FindDuplicate(r) \/ ReadAgain(r) \/ Stop(r)
  <2>1. RequestsTypeOK' /\ Alone(r)
    BY <1>1, GotoType, EndType
    DEF FindExisting, RecheckBalance, FindDuplicate, ReadAgain, Stop, Steps, Keyless
  <2> QED
    BY <1>1, <2>1 DEF FindExisting, RecheckBalance, FindDuplicate, ReadAgain, Stop, ColumnsTypeOK
<1>2. CASE ReserveAmount(r)
  <2>1. RequestsTypeOK' /\ Alone(r)
    BY <1>2, GotoType DEF ReserveAmount, Steps, Keyless
  <2> QED BY <1>2, <1>k, <2>1 DEF ReserveAmount, Reserve, ColumnsTypeOK, Status, Open, Keyless
<1>3. CASE SendTransfer(r)
  <2>1. RequestsTypeOK' /\ Alone(r)
    BY <1>3, GotoType DEF SendTransfer, Steps, Keyless
  <2> QED BY <1>3, <1>k, <2>1 DEF SendTransfer, ColumnsTypeOK, Transfer, Keyless
<1>4. CASE MarkProcessing(r)
  <2>1. RequestsTypeOK' /\ Alone(r)
    BY <1>4, EndType DEF MarkProcessing
  <2> QED BY <1>4, <2>1 DEF MarkProcessing, ColumnsTypeOK, Status, Open
<1>5. CASE UndoReservation(r)
  <2>1. RequestsTypeOK' /\ Alone(r)
    BY <1>5, EndType DEF UndoReservation
  <2> QED BY <1>5, <1>k, <2>1 DEF UndoReservation, Release, ColumnsTypeOK, Status, Final, Keyless
<1>6. CASE ApplyReport(r)
  <2>1. RequestsTypeOK' /\ Alone(r)
    BY <1>6, EndType DEF ApplyReport
  <2>2. StatusAfter(req[r].news) \in Status
    BY DEF StatusAfter, Status, Open, Final
  <2>3. req[r].k \in Keys /\ Amount[req[r].k] \in Nat
    BY <1>6, <1>k DEF ApplyReport, Keyless
  <2>4. /\ balance' \in Int /\ pending' \in Int /\ reserved' \in Int /\ withdrawn' \in Nat
    BY <1>6, <2>3 DEF ApplyReport, PayOut, Release, ColumnsTypeOK
  <2> QED BY <1>6, <2>1, <2>2, <2>3, <2>4 DEF ApplyReport, ColumnsTypeOK
<1>7. CASE PayApproved(r) \/ ReturnRejected(r)
  <2>1. RequestsTypeOK' /\ Alone(r)
    BY <1>7, EndType DEF PayApproved, ReturnRejected
  <2> QED BY <1>7, <1>k, <2>1 DEF PayApproved, ReturnRejected, ColumnsTypeOK, Keyless
<1>8. CASE WriteCredit(r) \/ RecordCredit(r)
  <2>1. RequestsTypeOK' /\ Alone(r)
    BY <1>8, GotoType, EndType DEF WriteCredit, RecordCredit, Steps, Keyless
  <2>2. req[r].saw \in Int
    BY DEF RequestsTypeOK, Request
  <2> QED
    BY <1>8, <2>1, <2>2, WalletAssumption
    DEF WriteCredit, RecordCredit, ColumnsTypeOK, WalletAssumption
<1> QED BY <1>1, <1>2, <1>3, <1>4, <1>5, <1>6, <1>7, <1>8 DEF Proceed

LEMMA GatewayType ==
  ASSUME TypeOK, NEW k \in Keys, GatewayMoves(k)
  PROVE  TypeOK'
BY DEF GatewayMoves, TypeOK, ColumnsTypeOK, RequestsTypeOK, Transfer

(* Every column and every request keeps its type.                          *)
THEOREM TypeCorrect == Spec => []TypeOK
<1>1. TypeOK /\ [Next]_vars => TypeOK'
  <2> SUFFICES ASSUME TypeOK, [Next]_vars PROVE TypeOK'
    OBVIOUS
  <2>1. CASE UNCHANGED vars
    BY <2>1 DEF vars, TypeOK, ColumnsTypeOK, RequestsTypeOK
  <2>2. CASE Rest
    BY <2>2 DEF Rest, vars, TypeOK, ColumnsTypeOK, RequestsTypeOK
  <2> QED BY <2>1, <2>2, ArriveType, ProceedType, GatewayType DEF Next
<1> QED BY <1>1, InitType, PTL DEF Spec

-----------------------------------------------------------------------------
(* Conservation.  A credit writes back the balance it read, so it must not *)
(* overlap anything that moves the balance.                                *)
NoOverlap == \A p, q \in Requests : p = q

LEMMA ArriveBalance ==
  ASSUME TypeOK, NEW r \in Requests, Arrive(r)
  PROVE  /\ UNCHANGED <<purse, earned>>
         /\ req'[r].at = "credit.write" => "credit" \in Ops /\ req'[r].saw = balance
<1> USE DEF TypeOK, RequestsTypeOK
<1>1. CASE Credit(r)
  BY <1>1 DEF Credit, Begin
<1>2. CASE \E k \in Keys : RequestWithdrawal(r, k) \/ Approve(r, k) \/ Reject(r, k)
  BY <1>2 DEF RequestWithdrawal, Approve, Reject, Begin
<1>3. CASE \E k \in Keys, news \in Transfer : Webhook(r, k, news)
  BY <1>3 DEF Webhook, Begin
<1> QED BY <1>1, <1>2, <1>3 DEF Arrive

LEMMA ProceedBalance ==
  ASSUME TypeOK, Conserved, Fresh, NEW r \in Requests, Proceed(r)
  PROVE  /\ Conserved'
         /\ req'[r].at # "credit.write"
<1> USE DEF TypeOK, ColumnsTypeOK, RequestsTypeOK, Conserved
<1>k. req[r].at \notin Keyless => req[r].k \in Keys /\ Amount[req[r].k] \in Nat
  BY KeyInHand
<1>a. ASSUME NEW step, Goto(r, step) PROVE req'[r].at = step
  BY <1>a DEF Goto
<1>b. End(r) => req'[r].at = "idle"
  BY DEF End, Idle
<1>1. CASE FindExisting(r) \/ RecheckBalance(r) \/ FindDuplicate(r) \/ ReadAgain(r)
  <2>1. UNCHANGED <<purse, earned>>
    BY <1>1 DEF FindExisting, RecheckBalance, FindDuplicate, ReadAgain
  <2>2. req'[r].at # "credit.write"
    BY <1>1, <1>a, <1>b DEF FindExisting, RecheckBalance, FindDuplicate, ReadAgain
  <2> QED BY <2>1, <2>2
<1>7. CASE SendTransfer(r) \/ MarkProcessing(r)
  <2>1. UNCHANGED <<purse, earned>>
    BY <1>7 DEF SendTransfer, MarkProcessing
  <2>2. req'[r].at # "credit.write"
    BY <1>7, <1>a, <1>b DEF SendTransfer, MarkProcessing
  <2> QED BY <2>1, <2>2
<1>8. CASE Stop(r) \/ RecordCredit(r)
  BY <1>8 DEF Stop, RecordCredit, End, Idle
<1>2. CASE ReserveAmount(r)
  BY <1>2, <1>k DEF ReserveAmount, Reserve, Goto, Keyless
<1>3. CASE UndoReservation(r)
  BY <1>3, <1>k DEF UndoReservation, Release, End, Idle, Keyless
<1>4. CASE ApplyReport(r)
  <2>1. Amount[req[r].k] \in Nat
    BY <1>4, <1>k DEF ApplyReport, Keyless
  <2>2. PayOut(req[r].k) \/ Release(req[r].k) \/ UNCHANGED purse
    BY <1>4 DEF ApplyReport
  <2>3. req'[r].at = "idle" /\ earned' = earned
    BY <1>4 DEF ApplyReport, End, Idle
  <2> QED BY <2>1, <2>2, <2>3 DEF PayOut, Release
<1>5. CASE PayApproved(r) \/ ReturnRejected(r)
  BY <1>5, <1>k DEF PayApproved, ReturnRejected, End, Idle, Keyless
<1>6. CASE WriteCredit(r)
  <2>1. req[r].saw = balance
    BY <1>6 DEF WriteCredit, Fresh
  <2> QED BY <1>6, <2>1, WalletAssumption DEF WriteCredit, Goto, WalletAssumption
<1> QED BY <1>1, <1>2, <1>3, <1>4, <1>5, <1>6, <1>7, <1>8 DEF Proceed

(* Whatever requests, reports, crashes and decisions overlap, the provider *)
(* loses and gains nothing, as long as no credit overlaps them: there are  *)
(* none, or the server takes one request at a time.                        *)
THEOREM Conservation ==
  ASSUME "credit" \notin Ops \/ NoOverlap
  PROVE  Spec => []Conserved
<1>1. Init => Conserved /\ Fresh
  BY WalletAssumption DEF Init, Conserved, Fresh, Idle, WalletAssumption
<1>2. TypeOK /\ Conserved /\ Fresh /\ [Next]_vars => (Conserved /\ Fresh)'
  <2> SUFFICES ASSUME TypeOK, Conserved, Fresh, [Next]_vars PROVE (Conserved /\ Fresh)'
    OBVIOUS
  <2>1. CASE UNCHANGED vars
    BY <2>1 DEF vars, Conserved, Fresh
  <2>2. CASE Rest
    BY <2>2 DEF Rest, vars, Conserved, Fresh
  <2>3. CASE \E k \in Keys : GatewayMoves(k)
    BY <2>3 DEF GatewayMoves, Conserved, Fresh
  <2>4. ASSUME NEW r \in Requests, Arrive(r) PROVE (Conserved /\ Fresh)'
    <3>1. UNCHANGED <<purse, earned>> /\ Alone(r)
      BY <2>4, ArriveBalance, ArriveType
    <3>2. req'[r].at = "credit.write" => "credit" \in Ops /\ req'[r].saw = balance
      BY <2>4, ArriveBalance
    <3> QED BY <3>1, <3>2 DEF Conserved, Fresh, Alone
  <2>5. ASSUME NEW r \in Requests, Proceed(r) PROVE (Conserved /\ Fresh)'
    <3>1. Conserved' /\ req'[r].at # "credit.write" /\ Alone(r)
      BY <2>5, ProceedBalance, ProceedType
    <3>2. \A q \in Requests : req'[q].at # "credit.write"
      BY <3>1 DEF Fresh, NoOverlap, Alone
    <3> QED BY <3>1, <3>2 DEF Fresh
  <2> QED BY <2>1, <2>2, <2>3, <2>4, <2>5 DEF Next
<1> QED BY <1>1, <1>2, TypeCorrect, PTL DEF Spec

-----------------------------------------------------------------------------
(* No request that is under way turns into a decision.                     *)
LEMMA ProceedDecides ==
  ASSUME TypeOK, NEW r \in Requests, Proceed(r)
  PROVE  req'[r].at \notin {"approve.wallet", "reject.wallet"}
<1> USE DEF TypeOK, RequestsTypeOK
<1>1. ASSUME NEW step \in Steps \ {"approve.wallet", "reject.wallet"}, Goto(r, step)
      PROVE  req'[r].at \notin {"approve.wallet", "reject.wallet"}
  BY <1>1 DEF Goto
<1>2. CASE End(r)
  BY <1>2 DEF End, Idle
<1>3. CASE FindExisting(r) \/ RecheckBalance(r) \/ FindDuplicate(r) \/ ReserveAmount(r)
  BY <1>1, <1>2, <1>3 DEF FindExisting, RecheckBalance, FindDuplicate, ReserveAmount, Steps
<1>4. CASE SendTransfer(r) \/ ReadAgain(r) \/ WriteCredit(r)
  BY <1>1, <1>4 DEF SendTransfer, ReadAgain, WriteCredit, Steps
<1>5. CASE \/ MarkProcessing(r) \/ UndoReservation(r) \/ ApplyReport(r) \/ PayApproved(r)
           \/ ReturnRejected(r) \/ RecordCredit(r) \/ Stop(r)
  BY <1>2, <1>5 DEF MarkProcessing, UndoReservation, ApplyReport, PayApproved, ReturnRejected,
                    RecordCredit, Stop
<1> QED BY <1>3, <1>4, <1>5 DEF Proceed

(* Nor is a decision taken back.                                           *)
LEMMA RuledStays ==
  ASSUME NEW r \in Requests, Arrive(r) \/ Proceed(r)
  PROVE  ruled => ruled'
  BY DEF Arrive, Credit, RequestWithdrawal, Approve, Reject, Webhook, Proceed, FindExisting,
         RecheckBalance, FindDuplicate, ReserveAmount, SendTransfer, MarkProcessing,
         UndoReservation, ReadAgain, ApplyReport, PayApproved, ReturnRejected, WriteCredit,
         RecordCredit, Stop

(* A decision that is under way has been taken.                            *)
LEMMA DecisionsAreRuled == Spec => []Decided
<1>1. Init => Decided
  BY DEF Init, Decided, Idle
<1>2. TypeOK /\ Decided /\ [Next]_vars => Decided'
  <2> SUFFICES ASSUME TypeOK, Decided, [Next]_vars PROVE Decided'
    OBVIOUS
  <2>1. CASE UNCHANGED vars
    BY <2>1 DEF vars, Decided
  <2>2. CASE Rest
    BY <2>2 DEF Rest, vars, Decided
  <2>3. CASE \E k \in Keys : GatewayMoves(k)
    BY <2>3 DEF GatewayMoves, Decided
  <2>4. ASSUME NEW r \in Requests, Arrive(r) PROVE Decided'
    <3>1. Alone(r) /\ (ruled => ruled')
      BY <2>4, ArriveType, RuledStays
    <3>2. req'[r].at \in {"approve.wallet", "reject.wallet"} => ruled'
      BY <2>4 DEF Arrive, Credit, RequestWithdrawal, Approve, Reject, Webhook, Begin,
                  TypeOK, RequestsTypeOK
    <3> QED BY <3>1, <3>2 DEF Decided, Alone
  <2>5. ASSUME NEW r \in Requests, Proceed(r) PROVE Decided'
    <3>1. Alone(r) /\ (ruled => ruled')
      BY <2>5, ProceedType, RuledStays
    <3>2. req'[r].at \notin {"approve.wallet", "reject.wallet"}
      BY <2>5, ProceedDecides
    <3> QED BY <3>1, <3>2 DEF Decided, Alone
  <2> QED BY <2>1, <2>2, <2>3, <2>4, <2>5 DEF Next
<1> QED BY <1>1, <1>2, TypeCorrect, PTL DEF Spec

(* Until an administrator decides, every step that moves what is pending   *)
(* moves what is reserved with it, however steps overlap.                  *)
THEOREM ReservationsMatch == Spec => []ReservedIsPending
<1>1. Init => ReservedIsPending
  BY DEF Init, ReservedIsPending
<1>2. TypeOK /\ ReservedIsPending /\ Decided /\ [Next]_vars => ReservedIsPending'
  <2> SUFFICES ASSUME TypeOK, ReservedIsPending, Decided, [Next]_vars
               PROVE  ReservedIsPending'
    OBVIOUS
  <2> USE DEF ReservedIsPending
  <2>1. CASE UNCHANGED vars
    BY <2>1 DEF vars
  <2>2. CASE Rest
    BY <2>2 DEF Rest, vars
  <2>3. CASE \E k \in Keys : GatewayMoves(k)
    BY <2>3 DEF GatewayMoves
  <2>4. ASSUME NEW r \in Requests, Arrive(r) PROVE ReservedIsPending'
    <3>1. UNCHANGED purse /\ (ruled => ruled')
      BY <2>4, ArriveBalance, RuledStays
    <3> QED BY <3>1
  <2>5. ASSUME NEW r \in Requests, Proceed(r) PROVE ReservedIsPending'
    <3>1. CASE ruled
      <4>1. ruled'
        BY <2>5, <3>1, RuledStays
      <4> QED BY <4>1
    <3>2. CASE ~ruled
      <4>a. req[r].at \notin Keyless => Amount[req[r].k] \in Nat
        BY KeyInHand DEF TypeOK
      <4>b. reserved \in Int /\ pending \in Int /\ reserved = pending
        BY <3>2 DEF TypeOK, ColumnsTypeOK
      <4>1. ASSUME ReserveAmount(r) PROVE ReservedIsPending'
        BY <4>1, <4>a, <4>b DEF ReserveAmount, Reserve, Keyless
      <4>2. ASSUME UndoReservation(r) PROVE ReservedIsPending'
        BY <4>2, <4>a, <4>b DEF UndoReservation, Release, Keyless
      <4>3. ASSUME ApplyReport(r) PROVE ReservedIsPending'
        <5>1. Amount[req[r].k] \in Nat
          BY <4>3, <4>a DEF ApplyReport, Keyless
        <5>2. PayOut(req[r].k) \/ Release(req[r].k) \/ UNCHANGED purse
          BY <4>3 DEF ApplyReport
        <5> QED BY <4>b, <5>1, <5>2 DEF PayOut, Release
      <4>4. ASSUME PayApproved(r) \/ ReturnRejected(r) PROVE ReservedIsPending'
        BY <3>2, <4>4 DEF PayApproved, ReturnRejected, Decided
      <4>5. ASSUME \/ FindExisting(r) \/ RecheckBalance(r) \/ FindDuplicate(r) \/ SendTransfer(r)
                   \/ MarkProcessing(r) \/ ReadAgain(r) \/ Stop(r) \/ WriteCredit(r)
                   \/ RecordCredit(r)
            PROVE  ReservedIsPending'
        BY <4>5, <4>b DEF FindExisting, RecheckBalance, FindDuplicate, SendTransfer,
                          MarkProcessing, ReadAgain, Stop, WriteCredit, RecordCredit
      <4> QED BY <2>5, <4>1, <4>2, <4>3, <4>4, <4>5 DEF Proceed
    <3> QED BY <3>1, <3>2
  <2> QED BY <2>1, <2>2, <2>3, <2>4, <2>5 DEF Next
<1> QED BY <1>1, <1>2, DecisionsAreRuled, TypeCorrect, PTL DEF Spec

-----------------------------------------------------------------------------
(* No overdraft.  The balance is checked at one await and lowered at a     *)
(* later one, and a credit writes back what it read: what must not overlap *)
(* is two requests between such a look and the write it is for.            *)
Looked == {"reserve.duplicate", "reserve.write", "credit.write"}

LooksApart ==
  \A p, q \in Requests : p # q => ~(req[p].at \in Looked /\ req[q].at \in Looked)

(* What a request saw of the balance still covers what it is about to do.  *)
Covered(r) ==
  /\ req[r].at \in {"reserve.duplicate", "reserve.write"} => balance >= Amount[req[r].k]
  /\ req[r].at = "credit.write" => req[r].saw >= 0

Covers == balance >= 0 /\ \A r \in Requests : Covered(r)

(* Only a reservation and a credit can leave less than there was.          *)
LEMMA BalanceGrows ==
  ASSUME TypeOK, NEW r \in Requests, Arrive(r) \/ Proceed(r),
         req[r].at \notin {"reserve.write", "credit.write"}
  PROVE  balance' >= balance
<1>b. balance \in Int
  BY DEF TypeOK, ColumnsTypeOK
<1>k. req[r].at \notin Keyless => Amount[req[r].k] \in Nat
  BY KeyInHand DEF TypeOK
<1>1. CASE Arrive(r)
  <2>1. UNCHANGED balance
    BY <1>1, ArriveBalance
  <2> QED BY <1>b, <2>1
<1>2. CASE UndoReservation(r) \/ ReturnRejected(r)
  BY <1>b, <1>k, <1>2 DEF UndoReservation, Release, ReturnRejected, Keyless
<1>3. CASE ApplyReport(r)
  <2>1. Amount[req[r].k] \in Nat
    BY <1>3, <1>k DEF ApplyReport, Keyless
  <2>2. PayOut(req[r].k) \/ Release(req[r].k) \/ UNCHANGED purse
    BY <1>3 DEF ApplyReport
  <2> QED BY <1>b, <2>1, <2>2 DEF PayOut, Release
<1>4. CASE \/ FindExisting(r) \/ RecheckBalance(r) \/ FindDuplicate(r) \/ SendTransfer(r)
           \/ MarkProcessing(r) \/ ReadAgain(r) \/ PayApproved(r) \/ RecordCredit(r) \/ Stop(r)
  <2>1. UNCHANGED balance
    BY <1>4 DEF FindExisting, RecheckBalance, FindDuplicate, SendTransfer, MarkProcessing,
                ReadAgain, PayApproved, RecordCredit, Stop
  <2> QED BY <1>b, <2>1
<1>5. ~ReserveAmount(r) /\ ~WriteCredit(r)
  BY DEF ReserveAmount, WriteCredit
<1> QED BY <1>1, <1>2, <1>3, <1>4, <1>5 DEF Proceed

(* A request that goes on to the write has just looked.                    *)
LEMMA LooksFirst ==
  ASSUME TypeOK, Covers, NEW r \in Requests, Arrive(r) \/ Proceed(r)
  PROVE  /\ balance' >= 0
         /\ req'[r].at \in {"reserve.duplicate", "reserve.write"} =>
              balance' >= Amount[req'[r].k]
         /\ req'[r].at = "credit.write" => req'[r].saw >= 0
<1> USE DEF TypeOK, RequestsTypeOK
<1>b. balance \in Int /\ Earning \in Nat
  BY WalletAssumption DEF ColumnsTypeOK, WalletAssumption
<1>k. req[r].at \notin Keyless => Amount[req[r].k] \in Nat
  BY KeyInHand
<1>1. CASE Arrive(r)
  <2>1. UNCHANGED balance /\ (req'[r].at = "credit.write" => req'[r].saw = balance)
    BY <1>1, ArriveBalance
  <2>2. req'[r].at \notin {"reserve.duplicate", "reserve.write"}
    BY <1>1 DEF Arrive, Credit, RequestWithdrawal, Approve, Reject, Webhook, Begin
  <2> QED BY <1>b, <2>1, <2>2 DEF Covers
<1>2. CASE RecheckBalance(r)
  BY <1>2, <1>b DEF RecheckBalance, Affordable, Goto, Covers
<1>3. CASE FindDuplicate(r)
  BY <1>3, <1>b DEF FindDuplicate, Goto, Covers, Covered
<1>4. CASE ReserveAmount(r)
  BY <1>4, <1>b, <1>k DEF ReserveAmount, Reserve, Goto, Covers, Covered, Keyless
<1>5. CASE WriteCredit(r)
  <2>1. req[r].saw \in Int /\ req[r].saw >= 0
    BY <1>5 DEF WriteCredit, Covers, Covered, Request
  <2> QED BY <1>5, <1>b, <2>1 DEF WriteCredit, Goto
<1>6. CASE \/ FindExisting(r) \/ SendTransfer(r) \/ MarkProcessing(r) \/ UndoReservation(r)
           \/ ReadAgain(r) \/ ApplyReport(r) \/ PayApproved(r) \/ ReturnRejected(r)
           \/ RecordCredit(r) \/ Stop(r)
  <2>1. req'[r].at \notin Looked
    <3>1. ASSUME NEW step \in Steps \ Looked, Goto(r, step) PROVE req'[r].at \notin Looked
      BY <3>1 DEF Goto
    <3>2. CASE End(r)
      BY <3>2 DEF End, Idle, Looked
    <3>3. CASE FindExisting(r) \/ SendTransfer(r) \/ ReadAgain(r)
      BY <3>1, <3>2, <3>3 DEF FindExisting, SendTransfer, ReadAgain, Steps, Looked
    <3> QED
      BY <1>6, <3>2, <3>3 DEF MarkProcessing, UndoReservation, ApplyReport, PayApproved,
                             ReturnRejected, RecordCredit, Stop
  <2>2. CASE req[r].at \notin {"reserve.write", "credit.write"}
    <3>1. balance' >= balance
      BY <2>2, BalanceGrows
    <3>2. balance' \in Int
      BY ArriveType, ProceedType DEF ColumnsTypeOK
    <3> QED BY <1>b, <2>1, <3>1, <3>2 DEF Covers, Looked
  <2>3. CASE req[r].at \in {"reserve.write", "credit.write"}
    <3>1. UNCHANGED balance
      BY <1>6, <2>3 DEF FindExisting, SendTransfer, MarkProcessing, UndoReservation, ReadAgain,
                        ApplyReport, PayApproved, ReturnRejected, RecordCredit, Stop
    <3> QED BY <2>1, <3>1 DEF Covers, Looked
  <2> QED BY <2>2, <2>3
<1> QED BY <1>1, <1>2, <1>3, <1>4, <1>5, <1>6 DEF Proceed

LEMMA CoversStep == TypeOK /\ LooksApart /\ Covers /\ [Next]_vars => Covers'
<1> SUFFICES ASSUME TypeOK, LooksApart, Covers, [Next]_vars PROVE Covers'
  OBVIOUS
<1>1. CASE UNCHANGED vars \/ Rest
  BY <1>1 DEF Rest, vars, Covers, Covered
<1>2. CASE \E k \in Keys : GatewayMoves(k)
  BY <1>2 DEF GatewayMoves, Covers, Covered
<1>3. ASSUME NEW r \in Requests, Arrive(r) \/ Proceed(r) PROVE Covers'
  <2>1. balance' >= 0 /\ Covered(r)'
    BY <1>3, LooksFirst DEF Covered
  <2>2. ASSUME NEW q \in Requests \ {r} PROVE Covered(q)'
    <3>1. req'[q] = req[q]
      BY <1>3, ArriveType, ProceedType DEF Alone
    <3>2. req[q].at \in Looked => balance' >= balance
      BY <1>3, BalanceGrows DEF LooksApart, Looked
    <3>3. balance' \in Int /\ balance \in Int
      BY <1>3, ArriveType, ProceedType DEF TypeOK, ColumnsTypeOK
    <3>4. req[q].at \notin Keyless => Amount[req[q].k] \in Nat
      BY KeyInHand DEF TypeOK
    <3>5. Covered(q)
      BY DEF Covers
    <3>6. req[q].at \in {"reserve.duplicate", "reserve.write"} => balance' >= Amount[req[q].k]
      BY <3>2, <3>3, <3>4, <3>5 DEF Covered, Looked, Keyless
    <3> QED BY <3>1, <3>5, <3>6 DEF Covered
  <2> QED BY <2>1, <2>2 DEF Covers
<1> QED BY <1>1, <1>2, <1>3 DEF Next

(* Requests whose look at the balance and write do not overlap never       *)
(* overdraw the wallet, whatever webhooks, decisions and crashes come in   *)
(* between (requestWithdrawal, credit).                                    *)
THEOREM NeverOverdrawn == Spec /\ []LooksApart => []Solvent
<1>1. Init => Covers
  BY WalletAssumption DEF Init, Covers, Covered, Idle, WalletAssumption
<1>2. Covers => Solvent
  BY DEF Covers, Solvent
<1> QED BY <1>1, <1>2, CoversStep, TypeCorrect, PTL DEF Spec

-----------------------------------------------------------------------------
(* One withdrawal at a time.  The rest needs that no two requests work on  *)
(* the same withdrawal at the same moment; on others they may.             *)
Apart == \A p, q \in Requests : p # q /\ req[p].k \in Keys => req[q].k # req[p].k

(* What a request found in the row is what the row still says.             *)
Stands(r) == LET k == req[r].k IN
  /\ req[r].at \in {"reserve.balance", "reserve.duplicate", "reserve.write"} => status[k] = "NONE"
  /\ req[r].at \in {"transfer", "transfer.mark", "transfer.undo"} => status[k] = "PENDING"
  /\ req[r].at = "webhook.write" => status[k] \notin Final
  /\ req[r].at \in {"webhook.read", "webhook.write"} => status[k] # "NONE"

(* What a request takes the gateway to have done, it has.                  *)
Tells(r) == LET k == req[r].k IN
  /\ req[r].at = "transfer" => transfer[k] = "none"
  /\ req[r].at = "transfer.undo" /\ ~lost => transfer[k] = "none"
  /\ req[r].at \in {"webhook.read", "webhook.write"} /\ req[r].news = "failed" =>
       transfer[k] = "failed"

Unpaid(k) ==
  /\ status[k] = "NONE" => transfer[k] = "none"
  /\ status[k] = "FAILED" /\ ~lost => transfer[k] \in {"none", "failed"}

Honest == (\A r \in Requests : Stands(r) /\ Tells(r)) /\ \A k \in Keys : Unpaid(k)

(* A request writes the row and orders the transfer of its own withdrawal, *)
(* and forgets no loss.                                                    *)
LEMMA OwnWithdrawal ==
  ASSUME TypeOK, NEW r \in Requests, Arrive(r) \/ Proceed(r)
  PROVE  /\ \A k \in Keys : k # req[r].k /\ k # req'[r].k =>
              status'[k] = status[k] /\ transfer'[k] = transfer[k]
         /\ lost => lost'
         /\ req[r].at # "idle" => req'[r].k \in {req[r].k, NoKey}
<1> USE DEF TypeOK, ColumnsTypeOK, RequestsTypeOK
<1>g. ASSUME NEW step, Goto(r, step) PROVE req'[r].k = req[r].k
  BY <1>g DEF Goto, Request
<1>e. End(r) => req'[r].k = NoKey
  BY DEF End, Idle
<1>1. CASE Arrive(r)
  <2>1. ASSUME NEW k \in Keys, Approve(r, k) \/ Reject(r, k) PROVE req'[r].k = k
    BY <2>1 DEF Approve, Reject, Begin
  <2>2. req[r].at = "idle"
    BY <1>1 DEF Arrive, Credit, RequestWithdrawal, Approve, Reject, Webhook, Begin
  <2> QED BY <1>1, <2>1, <2>2 DEF Arrive, Credit, RequestWithdrawal, Approve, Reject, Webhook
<1>2. CASE ReserveAmount(r) \/ MarkProcessing(r) \/ UndoReservation(r)
  BY <1>2, <1>g, <1>e DEF ReserveAmount, MarkProcessing, UndoReservation
<1>3. CASE SendTransfer(r)
  BY <1>3, <1>g DEF SendTransfer
<1>4. CASE ApplyReport(r)
  BY <1>4, <1>e DEF ApplyReport
<1>5. CASE \/ FindExisting(r) \/ RecheckBalance(r) \/ FindDuplicate(r) \/ ReadAgain(r)
           \/ PayApproved(r) \/ ReturnRejected(r) \/ WriteCredit(r) \/ RecordCredit(r) \/ Stop(r)
  BY <1>5, <1>g, <1>e DEF FindExisting, RecheckBalance, FindDuplicate, ReadAgain, PayApproved,
                          ReturnRejected, WriteCredit, RecordCredit, Stop
<1> QED BY <1>1, <1>2, <1>3, <1>4, <1>5 DEF Proceed

(* What a request that begins has found.                                   *)
LEMMA ArriveHonest ==
  ASSUME TypeOK, Honest, NEW r \in Requests, Arrive(r)
  PROVE  (Stands(r) /\ Tells(r))' /\ \A k \in Keys : Unpaid(k)'
<1> USE DEF TypeOK, ColumnsTypeOK, RequestsTypeOK
<1>1. CASE Credit(r)
  BY <1>1 DEF Credit, Begin, Honest, Stands, Tells, Unpaid
<1>2. ASSUME NEW k \in Keys, RequestWithdrawal(r, k)
      PROVE  (Stands(r) /\ Tells(r))' /\ \A j \in Keys : Unpaid(j)'
  BY <1>2 DEF RequestWithdrawal, Begin, Honest, Stands, Tells, Unpaid
<1>3. ASSUME NEW k \in Keys, Approve(r, k) \/ Reject(r, k)
      PROVE  (Stands(r) /\ Tells(r))' /\ \A j \in Keys : Unpaid(j)'
  <2>1. (Stands(r) /\ Tells(r))'
    BY <1>3 DEF Approve, Reject, Begin, Stands, Tells
  <2>2. \A j \in Keys : Unpaid(j)'
    BY <1>3 DEF Approve, Reject, Honest, Unpaid
  <2> QED BY <2>1, <2>2
<1>4. ASSUME NEW k \in Keys, NEW news \in Transfer, Webhook(r, k, news)
      PROVE  (Stands(r) /\ Tells(r))' /\ \A j \in Keys : Unpaid(j)'
  <2>1. news = "failed" => transfer[k] = "failed"
    BY <1>4 DEF Webhook, Reports, Transfer
  <2> QED BY <1>4, <2>1 DEF Webhook, Begin, Honest, Stands, Tells, Unpaid
<1> QED BY <1>1, <1>2, <1>3, <1>4 DEF Arrive

(* What a request that goes on has found, and what it leaves.              *)
LEMMA ProceedHonest ==
  ASSUME TypeOK, Honest, NEW r \in Requests, Proceed(r)
  PROVE  (Stands(r) /\ Tells(r))' /\ \A k \in Keys : Unpaid(k)'
<1> USE DEF TypeOK, ColumnsTypeOK, RequestsTypeOK
<1>k. req[r].at \notin Keyless => req[r].k \in Keys
  BY KeyInHand
<1>i. Stands(r) /\ Tells(r) /\ \A k \in Keys : Unpaid(k)
  BY DEF Honest
<1>e. End(r) => (Stands(r) /\ Tells(r))'
  BY DEF End, Idle, Stands, Tells
<1>g. ASSUME NEW step \in Steps, Goto(r, step)
      PROVE  req'[r].at = step /\ req'[r].k = req[r].k /\ req'[r].news = req[r].news
  BY <1>g DEF Goto, Request
<1>1. CASE FindExisting(r)
  BY <1>1, <1>e, <1>g, <1>i DEF FindExisting, Stands, Tells, Unpaid, Steps
<1>2. CASE RecheckBalance(r)
  BY <1>2, <1>g, <1>i DEF RecheckBalance, Stands, Tells, Unpaid, Steps
<1>3. CASE FindDuplicate(r)
  BY <1>3, <1>g, <1>i DEF FindDuplicate, Stands, Tells, Unpaid, Steps
<1>4. CASE ReserveAmount(r)
  <2> DEFINE k == req[r].k
  <2>1. k \in Keys /\ transfer[k] = "none" /\ status'[k] = "PENDING" /\ UNCHANGED <<transfer, lost>>
    BY <1>4, <1>k, <1>i DEF ReserveAmount, Unpaid, Keyless
  <2>2. req'[r].at = "transfer" /\ req'[r].k = k
    BY <1>4, <1>g DEF ReserveAmount, Steps
  <2>3. \A j \in Keys : j # k => status'[j] = status[j]
    BY <1>4 DEF ReserveAmount
  <2> QED BY <1>i, <2>1, <2>2, <2>3 DEF Stands, Tells, Unpaid
<1>5. CASE SendTransfer(r)
  <2> DEFINE k == req[r].k
  <2>1. k \in Keys /\ transfer[k] = "none" /\ status[k] = "PENDING" /\ UNCHANGED status
    BY <1>5, <1>k, <1>i DEF SendTransfer, Stands, Tells, Keyless
  <2>2. \A j \in Keys : j # k => transfer'[j] = transfer[j]
    BY <1>5 DEF SendTransfer
  <2>3. req'[r].at \in {"transfer.mark", "transfer.undo"} /\ req'[r].k = k
    BY <1>5, <1>g DEF SendTransfer, Steps
  <2>4. req'[r].at = "transfer.undo" => lost' \/ transfer'[k] = "none"
    BY <1>5, <1>g, <2>1 DEF SendTransfer, Steps
  <2>5. lost => lost'
    BY <1>5 DEF SendTransfer
  <2> QED BY <1>i, <2>1, <2>2, <2>3, <2>4, <2>5 DEF Stands, Tells, Unpaid
<1>6. CASE MarkProcessing(r)
  <2>1. \A j \in Keys : Unpaid(j)'
    BY <1>6, <1>i DEF MarkProcessing, Unpaid
  <2> QED BY <1>6, <1>e, <2>1 DEF MarkProcessing
<1>7. CASE UndoReservation(r)
  <2>1. \A j \in Keys : Unpaid(j)'
    BY <1>7, <1>i DEF UndoReservation, Unpaid, Tells
  <2> QED BY <1>7, <1>e, <2>1 DEF UndoReservation
<1>8. CASE ReadAgain(r)
  BY <1>8, <1>g, <1>i DEF ReadAgain, Settled, Stands, Tells, Unpaid, Steps
<1>9. CASE ApplyReport(r)
  <2>1. ASSUME NEW j \in Keys PROVE Unpaid(j)'
    <3>1. CASE j = req[r].k
      <4>1. status'[j] = StatusAfter(req[r].news) /\ UNCHANGED <<transfer, lost>>
        BY <1>9, <3>1 DEF ApplyReport
      <4>2. req[r].news = "failed" => transfer[j] = "failed"
        BY <1>9, <1>i, <3>1 DEF ApplyReport, Tells
      <4>3. status'[j] # "NONE" /\ (status'[j] = "FAILED" => req[r].news = "failed")
        BY <4>1 DEF StatusAfter
      <4> QED BY <4>1, <4>2, <4>3 DEF Unpaid
    <3>2. CASE j # req[r].k
      BY <1>9, <1>i, <3>2 DEF ApplyReport, Unpaid
    <3> QED BY <3>1, <3>2
  <2> QED BY <1>9, <1>e, <2>1 DEF ApplyReport
<1>10. CASE PayApproved(r) \/ ReturnRejected(r) \/ RecordCredit(r)
  BY <1>10, <1>e, <1>i DEF PayApproved, ReturnRejected, RecordCredit, Unpaid
<1>11. CASE WriteCredit(r)
  BY <1>11, <1>g, <1>i DEF WriteCredit, Stands, Tells, Unpaid, Steps
<1>12. CASE Stop(r)
  BY <1>12, <1>e, <1>i DEF Stop, Unpaid
<1> QED BY <1>1, <1>2, <1>3, <1>4, <1>5, <1>6, <1>7, <1>8, <1>9, <1>10, <1>11, <1>12 DEF Proceed

(* The others are at work on other withdrawals.                            *)
LEMMA OthersHonest ==
  ASSUME TypeOK, Apart, Apart', Honest, NEW r \in Requests, Arrive(r) \/ Proceed(r),
         NEW q \in Requests \ {r}
  PROVE  (Stands(q) /\ Tells(q))'
<1>1. req'[q] = req[q]
  BY ArriveType, ProceedType DEF Alone
<1>2. Stands(q) /\ Tells(q)
  BY DEF Honest
<1>3. CASE req[q].k \in Keys
  <2>1. req[r].k # req[q].k /\ req'[r].k # req[q].k
    BY <1>1, <1>3 DEF Apart
  <2>2. /\ status'[req[q].k] = status[req[q].k]
        /\ transfer'[req[q].k] = transfer[req[q].k]
        /\ lost => lost'
    BY <1>3, <2>1, OwnWithdrawal
  <2> QED BY <1>1, <1>2, <2>2 DEF Stands, Tells
<1>4. CASE req[q].k \notin Keys
  <2>1. req[q].at \in Keyless
    BY <1>4 DEF TypeOK, RequestsTypeOK
  <2> QED BY <1>1, <2>1 DEF Stands, Tells, Keyless
<1> QED BY <1>3, <1>4

(* The gateway settles only what it was sent.                              *)
LEMMA GatewayHonest ==
  ASSUME TypeOK, Honest, NEW k \in Keys, GatewayMoves(k)
  PROVE  Honest'
<1> USE DEF TypeOK, ColumnsTypeOK
<1>1. transfer[k] \in {"sent", "paid"} /\ UNCHANGED <<status, lost, req>>
  BY DEF GatewayMoves
<1>2. \A j \in Keys : transfer[j] \in {"none", "failed"} => transfer'[j] = transfer[j]
  BY DEF GatewayMoves
<1>3. \A j \in Keys : Unpaid(j)'
  BY <1>1, <1>2 DEF Honest, Unpaid
<1>4. ASSUME NEW r \in Requests PROVE (Stands(r) /\ Tells(r))'
  <2>1. req[r].at \notin Keyless => req[r].k \in Keys
    BY KeyInHand
  <2>2. Stands(r) /\ Tells(r)
    BY DEF Honest
  <2> QED BY <1>1, <1>2, <2>1, <2>2 DEF Stands, Tells, Keyless
<1> QED BY <1>3, <1>4 DEF Honest

LEMMA HonestStep == TypeOK /\ Apart /\ Apart' /\ Honest /\ [Next]_vars => Honest'
<1> SUFFICES ASSUME TypeOK, Apart, Apart', Honest, [Next]_vars PROVE Honest'
  OBVIOUS
<1>1. CASE UNCHANGED vars \/ Rest
  BY <1>1 DEF Rest, vars, Honest, Stands, Tells, Unpaid
<1>2. CASE \E k \in Keys : GatewayMoves(k)
  BY <1>2, GatewayHonest
<1>3. ASSUME NEW r \in Requests, Arrive(r) \/ Proceed(r) PROVE Honest'
  <2>1. (Stands(r) /\ Tells(r))' /\ \A k \in Keys : Unpaid(k)'
    BY <1>3, ArriveHonest, ProceedHonest
  <2>2. \A q \in Requests \ {r} : (Stands(q) /\ Tells(q))'
    BY <1>3, OthersHonest
  <2> QED BY <2>1, <2>2 DEF Honest
<1> QED BY <1>1, <1>2, <1>3 DEF Next

LEMMA HonestInvariance == Spec /\ []Apart => []Honest
<1>1. Init => Honest
  BY DEF Init, Honest, Stands, Tells, Unpaid, Idle
<1> QED BY <1>1, HonestStep, TypeCorrect, PTL DEF Spec

(* Nothing lost, no withdrawal is both given back and paid out, whatever   *)
(* the gateway answers, fails or reports late, and to however many         *)
(* withdrawals at once.                                                    *)
THEOREM FailureIsNoPayment == Spec /\ []Apart => []FailedIsUnpaid
<1>1. Honest => FailedIsUnpaid
  BY DEF Honest, Unpaid, FailedIsUnpaid
<1> QED BY <1>1, HonestInvariance, PTL

(* The status a request writes over is not final, except by a decision.    *)
LEMMA FinalIsKept ==
  ASSUME TypeOK, Honest, NEW r \in Requests, Arrive(r) \/ Proceed(r), ~ruled'
  PROVE  \A k \in Keys : status[k] \in Final => status'[k] = status[k]
<1> USE DEF TypeOK, ColumnsTypeOK
<1>i. Stands(r)
  BY DEF Honest
<1>1. CASE ReserveAmount(r)
  BY <1>1 DEF ReserveAmount, Final
<1>2. CASE MarkProcessing(r) \/ UndoReservation(r)
  BY <1>i, <1>2 DEF MarkProcessing, UndoReservation, Stands, Final
<1>3. CASE ApplyReport(r)
  BY <1>i, <1>3 DEF ApplyReport, Stands
<1>4. CASE Arrive(r)
  BY <1>4 DEF Arrive, Credit, RequestWithdrawal, Approve, Reject, Webhook
<1>5. CASE \/ FindExisting(r) \/ RecheckBalance(r) \/ FindDuplicate(r) \/ SendTransfer(r)
           \/ ReadAgain(r) \/ PayApproved(r) \/ ReturnRejected(r) \/ WriteCredit(r)
           \/ RecordCredit(r) \/ Stop(r)
  BY <1>5 DEF FindExisting, RecheckBalance, FindDuplicate, SendTransfer, ReadAgain, PayApproved,
              ReturnRejected, WriteCredit, RecordCredit, Stop
<1> QED BY <1>1, <1>2, <1>3, <1>4, <1>5 DEF Proceed

(* A settled withdrawal stays settled the way it is: neither a late mark,  *)
(* a late undo nor a report that comes again moves it, crashes included.   *)
THEOREM SettledStays == Spec /\ []Apart => FinalStaysFinal
<1>1. TypeOK /\ Honest /\ [Next]_vars =>
        [ruled' \/ \A k \in Keys : status[k] \in Final => status'[k] = status[k]]_vars
  <2> SUFFICES ASSUME TypeOK, Honest, [Next]_vars, ~ruled'
               PROVE  \A k \in Keys : status[k] \in Final => status'[k] = status[k]
    BY DEF vars
  <2>1. CASE UNCHANGED vars \/ Rest
    BY <2>1 DEF Rest, vars
  <2>2. CASE \E k \in Keys : GatewayMoves(k)
    BY <2>2 DEF GatewayMoves
  <2> QED BY <2>1, <2>2, FinalIsKept DEF Next
<1> QED BY <1>1, HonestInvariance, TypeCorrect, PTL DEF Spec, FinalStaysFinal

(* What counts as withdrawn moves only with a withdrawal that turns        *)
(* SUCCESSFUL, and by its amount.                                          *)
Pays(k) ==
  /\ status[k] # "SUCCESSFUL"
  /\ status' = [status EXCEPT ![k] = "SUCCESSFUL"]
  /\ withdrawn' = withdrawn + Amount[k]

NothingPaid ==
  /\ withdrawn' = withdrawn
  /\ \A k \in Keys : status'[k] = "SUCCESSFUL" <=> status[k] = "SUCCESSFUL"

(* Until an administrator decides, each step settles one withdrawal, by    *)
(* the amount it asked for, or none (handleFlutterwaveWebhook).            *)
PaidByAmount == [][ruled' \/ NothingPaid \/ \E k \in Keys : Pays(k)]_vars

LEMMA PaysByAmount ==
  ASSUME TypeOK, Honest, Decided, NEW r \in Requests, Arrive(r) \/ Proceed(r), ~ruled'
  PROVE  NothingPaid \/ \E k \in Keys : Pays(k)
<1> USE DEF TypeOK, ColumnsTypeOK
<1>i. Stands(r)
  BY DEF Honest
<1>k. req[r].at \notin Keyless => req[r].k \in Keys
  BY KeyInHand
<1>1. CASE ReserveAmount(r) \/ MarkProcessing(r) \/ UndoReservation(r)
  <2>1. status[req[r].k] # "SUCCESSFUL" /\ UNCHANGED withdrawn
    BY <1>1, <1>i DEF ReserveAmount, Reserve, MarkProcessing, UndoReservation, Release, Stands
  <2>2. \E s \in Status \ {"SUCCESSFUL"} : status' = [status EXCEPT ![req[r].k] = s]
    BY <1>1 DEF ReserveAmount, MarkProcessing, UndoReservation, Status, Open, Final
  <2> QED BY <2>1, <2>2 DEF NothingPaid
<1>2. CASE ApplyReport(r)
  <2> DEFINE k == req[r].k
  <2>1. k \in Keys /\ status[k] # "SUCCESSFUL"
    BY <1>2, <1>i, <1>k DEF ApplyReport, Stands, Keyless, Final
  <2>2. CASE req[r].news = "paid"
    BY <1>2, <2>1, <2>2 DEF ApplyReport, PayOut, StatusAfter, Pays
  <2>3. CASE req[r].news # "paid"
    <3>1. StatusAfter(req[r].news) # "SUCCESSFUL"
      BY <2>3 DEF StatusAfter
    <3>2. UNCHANGED withdrawn
      BY <1>2, <2>3 DEF ApplyReport, Release
    <3> QED BY <1>2, <2>1, <3>1, <3>2 DEF ApplyReport, NothingPaid
  <2> QED BY <2>2, <2>3
<1>3. CASE Arrive(r)
  BY <1>3 DEF Arrive, Credit, RequestWithdrawal, Approve, Reject, Webhook, NothingPaid
<1>4. CASE PayApproved(r) \/ ReturnRejected(r)
  <2>1. ruled'
    BY <1>4 DEF PayApproved, ReturnRejected, Decided
  <2> QED BY <2>1
<1>5. CASE \/ FindExisting(r) \/ RecheckBalance(r) \/ FindDuplicate(r) \/ SendTransfer(r)
           \/ ReadAgain(r) \/ WriteCredit(r) \/ RecordCredit(r) \/ Stop(r)
  BY <1>5 DEF FindExisting, RecheckBalance, FindDuplicate, SendTransfer, ReadAgain, WriteCredit,
              RecordCredit, Stop, NothingPaid
<1> QED BY <1>1, <1>2, <1>3, <1>4, <1>5 DEF Proceed

LEMMA PaidStep ==
  TypeOK /\ Honest /\ Decided /\ [Next]_vars => ruled' \/ NothingPaid \/ \E k \in Keys : Pays(k)
<1> SUFFICES ASSUME TypeOK, Honest, Decided, [Next]_vars, ~ruled'
             PROVE  NothingPaid \/ \E k \in Keys : Pays(k)
  OBVIOUS
<1>1. CASE UNCHANGED vars \/ Rest
  BY <1>1 DEF Rest, vars, NothingPaid
<1>2. CASE \E k \in Keys : GatewayMoves(k)
  BY <1>2 DEF GatewayMoves, NothingPaid
<1> QED BY <1>1, <1>2, PaysByAmount DEF Next

(* Each withdrawal is counted when it is settled, by its own amount, and   *)
(* (SettledStays) never again.                                             *)
THEOREM PaymentsCount == Spec /\ []Apart => PaidByAmount
<1>1. TypeOK /\ Honest /\ Decided /\ [Next]_vars =>
        [ruled' \/ NothingPaid \/ \E k \in Keys : Pays(k)]_vars
  BY PaidStep
<1> QED BY <1>1, DecisionsAreRuled, HonestInvariance, TypeCorrect, PTL DEF Spec, PaidByAmount

(* So the count is the sum over the settled withdrawals, which are ever    *)
(* finitely many.                                                          *)
Successful == {k \in Keys : status[k] = "SUCCESSFUL"}

AddedUp == ~ruled => IsFiniteSet(Successful) /\ withdrawn = SumOver(Amount, Successful)

LEMMA AddedUpStep == TypeOK /\ Honest /\ Decided /\ AddedUp /\ [Next]_vars => AddedUp'
<1> SUFFICES ASSUME TypeOK, Honest, Decided, AddedUp, [Next]_vars, ~ruled'
             PROVE  IsFiniteSet(Successful') /\ withdrawn' = SumOver(Amount, Successful')
  BY DEF AddedUp
<1>1. ~ruled
  BY RuledStays DEF Next, GatewayMoves, Rest, vars
<1>2. IsFiniteSet(Successful) /\ withdrawn = SumOver(Amount, Successful)
  BY <1>1 DEF AddedUp
<1>3. CASE NothingPaid
  <2>1. Successful' = Successful
    BY <1>3 DEF NothingPaid, Successful
  <2> QED BY <1>2, <1>3, <2>1 DEF NothingPaid
<1>4. ASSUME NEW k \in Keys, Pays(k)
      PROVE  IsFiniteSet(Successful') /\ withdrawn' = SumOver(Amount, Successful')
  <2>1. k \notin Successful /\ Successful' = Successful \cup {k}
    BY <1>4 DEF Pays, Successful, TypeOK, ColumnsTypeOK
  <2>2. IsFiniteSet(Successful') /\ k \in Successful' /\ Successful' \ {k} = Successful
    BY <1>2, <2>1, FS_AddElement
  <2>3. \A j \in Keys : Amount[j] \in Int
    BY WalletAssumption DEF WalletAssumption
  <2>4. \A j \in Successful' : Amount[j] \in Int
    BY <2>3 DEF Successful
  <2>5. SumOver(Amount, Successful') = Amount[k] + SumOver(Amount, Successful)
    BY <2>2, <2>4, SumAdd
  <2>6. SumOver(Amount, Successful) \in Int
    BY <1>2, <2>3, SumType DEF Successful
  <2> QED BY <1>2, <1>4, <2>2, <2>3, <2>5, <2>6 DEF Pays
<1> QED BY <1>3, <1>4, PaidStep

(* totalWithdrawn is the sum of the settled withdrawals, each once: the    *)
(* webhook pays none twice, whatever is repeated, late or lost, until an   *)
(* administrator decides and as long as no two requests share a withdrawal.*)
THEOREM WithdrawalsAddUp == Spec /\ []Apart => []WithdrawnOnce
<1>1. Init => AddedUp
  <2> SUFFICES ASSUME Init PROVE IsFiniteSet(Successful) /\ withdrawn = SumOver(Amount, Successful)
    BY DEF AddedUp
  <2>1. Successful = {} /\ withdrawn = 0
    BY DEF Init, Successful
  <2> QED BY <2>1, SumEmpty, FS_EmptySet
<1>2. AddedUp => WithdrawnOnce
  <2>1. Sum({"SUCCESSFUL"}) = SumOver(Amount, Successful)
    <3>1. {k \in Keys : status[k] \in {"SUCCESSFUL"}} = Successful
      BY DEF Successful
    <3> QED BY <3>1, Zenon DEF Sum, SumOver
  <2> QED BY <2>1 DEF AddedUp, WithdrawnOnce
<1> QED BY <1>1, <1>2, AddedUpStep, DecisionsAreRuled, HonestInvariance, TypeCorrect, PTL DEF Spec

-----------------------------------------------------------------------------
(* What is pending moves with a withdrawal that opens or closes, and by    *)
(* its amount.                                                             *)
Opened == {k \in Keys : status[k] \in Open}

Opens(k)  == k \notin Opened /\ Opened' = Opened \cup {k} /\ pending' = pending + Amount[k]
Closes(k) == k \in Opened /\ Opened' = Opened \ {k} /\ pending' = pending - Amount[k]
Steady    == Opened' = Opened /\ pending' = pending

Undecided == \A k \in Keys : status[k] \notin {"APPROVED", "REJECTED"}

LEMMA OpensByAmount ==
  ASSUME TypeOK, Honest, Decided, Undecided, NEW r \in Requests, Arrive(r) \/ Proceed(r), ~ruled'
  PROVE  Undecided' /\ (Steady \/ \E k \in Keys : Opens(k) \/ Closes(k))
<1> USE DEF TypeOK, ColumnsTypeOK
<1>i. Stands(r)
  BY DEF Honest
<1>k. req[r].at \notin Keyless => req[r].k \in Keys
  BY KeyInHand
<1>s. ASSUME NEW k \in Keys, NEW s, status' = [status EXCEPT ![k] = s], s \notin {"APPROVED", "REJECTED"}
      PROVE  /\ Undecided'
             /\ s \in Open => Opened' = Opened \cup {k}
             /\ s \notin Open => Opened' = Opened \ {k}
  BY <1>s DEF Undecided, Opened
<1>u. UNCHANGED status => Undecided' /\ Opened' = Opened
  BY DEF Undecided, Opened
<1>1. CASE ReserveAmount(r)
  <2> DEFINE k == req[r].k
  <2>1. k \in Keys /\ status[k] = "NONE" /\ status' = [status EXCEPT ![k] = "PENDING"]
    BY <1>1, <1>k DEF ReserveAmount, Keyless
  <2>2. pending' = pending + Amount[k]
    BY <1>1 DEF ReserveAmount, Reserve
  <2>3. Undecided' /\ Opened' = Opened \cup {k}
    BY <1>s, <2>1 DEF Open
  <2>4. k \notin Opened
    BY <2>1 DEF Opened, Open
  <2> QED BY <2>1, <2>2, <2>3, <2>4 DEF Opens
<1>2. CASE MarkProcessing(r)
  <2> DEFINE k == req[r].k
  <2>1. /\ k \in Keys /\ status[k] = "PENDING" /\ status' = [status EXCEPT ![k] = "PROCESSING"]
        /\ pending' = pending
    BY <1>2, <1>i, <1>k DEF MarkProcessing, Stands, Keyless
  <2>2. Undecided' /\ Opened' = Opened \cup {k}
    BY <1>s, <2>1 DEF Open
  <2>3. k \in Opened
    BY <2>1 DEF Opened, Open
  <2> QED BY <2>1, <2>2, <2>3 DEF Steady
<1>3. CASE UndoReservation(r)
  <2> DEFINE k == req[r].k
  <2>1. k \in Keys /\ status[k] = "PENDING" /\ status' = [status EXCEPT ![k] = "FAILED"]
    BY <1>3, <1>i, <1>k DEF UndoReservation, Stands, Keyless
  <2>2. pending' = pending - Amount[k]
    BY <1>3 DEF UndoReservation, Release
  <2>3. Undecided' /\ Opened' = Opened \ {k}
    BY <1>s, <2>1 DEF Open
  <2>4. k \in Opened
    BY <2>1 DEF Opened, Open
  <2> QED BY <2>1, <2>2, <2>3, <2>4 DEF Closes
<1>4. CASE ApplyReport(r)
  <2> DEFINE k == req[r].k
             s == StatusAfter(req[r].news)
  <2>1. k \in Keys /\ status[k] \notin Final /\ status[k] # "NONE" /\ status' = [status EXCEPT ![k] = s]
    BY <1>4, <1>i, <1>k DEF ApplyReport, Stands, Keyless
  <2>2. k \in Opened
    BY <2>1 DEF Undecided, Status, Opened
  <2>3. CASE req[r].news \in {"paid", "failed", "reversed"}
    <3>1. s \in Final
      BY <2>3 DEF StatusAfter, Final
    <3>2. pending' = pending - Amount[k]
      BY <1>4, <2>3 DEF ApplyReport, PayOut, Release
    <3>3. Undecided' /\ Opened' = Opened \ {k}
      BY <1>s, <2>1, <3>1 DEF Open, Final
    <3> QED BY <2>1, <2>2, <3>2, <3>3 DEF Closes
  <2>4. CASE req[r].news \notin {"paid", "failed", "reversed"}
    <3>1. s = "PROCESSING"
      BY <2>4 DEF StatusAfter
    <3>2. pending' = pending
      BY <1>4, <2>4 DEF ApplyReport
    <3>3. Undecided' /\ Opened' = Opened \cup {k}
      BY <1>s, <2>1, <3>1 DEF Open
    <3> QED BY <2>2, <3>2, <3>3 DEF Steady
  <2> QED BY <2>3, <2>4
<1>5. CASE Arrive(r)
  <2>1. UNCHANGED <<status, pending>>
    BY <1>5 DEF Arrive, Credit, RequestWithdrawal, Approve, Reject, Webhook
  <2> QED BY <1>u, <2>1 DEF Steady
<1>6. CASE PayApproved(r) \/ ReturnRejected(r)
  <2>1. ruled'
    BY <1>6 DEF PayApproved, ReturnRejected, Decided
  <2> QED BY <2>1
<1>7. CASE \/ FindExisting(r) \/ RecheckBalance(r) \/ FindDuplicate(r) \/ SendTransfer(r)
           \/ ReadAgain(r) \/ WriteCredit(r) \/ RecordCredit(r) \/ Stop(r)
  <2>1. UNCHANGED <<status, pending>>
    BY <1>7 DEF FindExisting, RecheckBalance, FindDuplicate, SendTransfer, ReadAgain, WriteCredit,
                RecordCredit, Stop
  <2> QED BY <1>u, <2>1 DEF Steady
<1> QED BY <1>1, <1>2, <1>3, <1>4, <1>5, <1>6, <1>7 DEF Proceed

(* What is pending is the sum of what the open withdrawals, ever finitely  *)
(* many, ask for.                                                          *)
SetAside == ~ruled => Undecided /\ IsFiniteSet(Opened) /\ pending = SumOver(Amount, Opened)

LEMMA SetAsideStep == TypeOK /\ Honest /\ Decided /\ SetAside /\ [Next]_vars => SetAside'
<1> SUFFICES ASSUME TypeOK, Honest, Decided, SetAside, [Next]_vars, ~ruled'
             PROVE  Undecided' /\ IsFiniteSet(Opened') /\ pending' = SumOver(Amount, Opened')
  BY DEF SetAside
<1>1. ~ruled
  BY RuledStays DEF Next, GatewayMoves, Rest, vars
<1>2. Undecided /\ IsFiniteSet(Opened) /\ pending = SumOver(Amount, Opened)
  BY <1>1 DEF SetAside
<1>3. Undecided' /\ (Steady \/ \E k \in Keys : Opens(k) \/ Closes(k))
  <2>1. CASE UNCHANGED <<status, pending>>
    BY <1>2, <2>1 DEF Undecided, Opened, Steady
  <2> QED BY <1>2, <2>1, OpensByAmount DEF Next, GatewayMoves, Rest, vars
<1>4. \A j \in Keys : Amount[j] \in Int
  BY WalletAssumption DEF WalletAssumption
<1>5. CASE Steady
  BY <1>2, <1>3, <1>5 DEF Steady
<1>6. ASSUME NEW k \in Keys, Opens(k)
      PROVE  IsFiniteSet(Opened') /\ pending' = SumOver(Amount, Opened')
  <2>1. IsFiniteSet(Opened') /\ k \in Opened' /\ Opened' \ {k} = Opened
    BY <1>2, <1>6, FS_AddElement DEF Opens
  <2>2. \A j \in Opened' : Amount[j] \in Int
    BY <1>4 DEF Opened
  <2>3. SumOver(Amount, Opened') = Amount[k] + SumOver(Amount, Opened)
    BY <2>1, <2>2, SumAdd
  <2> QED BY <1>2, <1>4, <1>6, <2>1, <2>3 DEF Opens, TypeOK, ColumnsTypeOK
<1>7. ASSUME NEW k \in Keys, Closes(k)
      PROVE  IsFiniteSet(Opened') /\ pending' = SumOver(Amount, Opened')
  <2>1. IsFiniteSet(Opened') /\ k \in Opened /\ Opened' = Opened \ {k}
    BY <1>2, <1>7, FS_RemoveElement DEF Closes
  <2>2. \A j \in Opened : Amount[j] \in Int
    BY <1>4 DEF Opened
  <2>3. SumOver(Amount, Opened) = Amount[k] + SumOver(Amount, Opened')
    BY <1>2, <2>1, <2>2, SumAdd
  <2>4. SumOver(Amount, Opened') \in Int
    BY <2>1, <2>2, SumType
  <2> QED BY <1>2, <1>4, <1>7, <2>1, <2>3, <2>4 DEF Closes
<1> QED BY <1>3, <1>5, <1>6, <1>7

(* No reservation is leaked or released twice, crashes and lost answers    *)
(* included (requestWithdrawal and its catch, the webhook).                *)
THEOREM ReservationsAddUp == Spec /\ []Apart => []OpenIsPending
<1>1. Init => SetAside
  <2> SUFFICES ASSUME Init
               PROVE  Undecided /\ IsFiniteSet(Opened) /\ pending = SumOver(Amount, Opened)
    BY DEF SetAside
  <2>1. Opened = {} /\ pending = 0 /\ Undecided
    BY DEF Init, Opened, Open, Undecided
  <2> QED BY <2>1, SumEmpty, FS_EmptySet
<1>2. SetAside => OpenIsPending
  <2>1. Sum(Open) = SumOver(Amount, Opened)
    BY Zenon DEF Sum, SumOver, Opened
  <2> QED BY <2>1 DEF SetAside, OpenIsPending
<1> QED BY <1>1, <1>2, SetAsideStep, DecisionsAreRuled, HonestInvariance, TypeCorrect,
     PTL DEF Spec
=============================================================================
