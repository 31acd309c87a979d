----------------------------- MODULE KycProofs -----------------------------
(***************************************************************************)
(* What Kyc keeps for any set of providers, administrators, events and     *)
(* overlapping requests, with crashes: nobody is approved, and nobody made *)
(* available, without a vendor's verdict or an administrator's request.    *)
(* A write relies on what was read steps before, so the invariant says     *)
(* what a request at each step, and a stored code, vouch for; all of it is *)
(* about facts that stay true: verdicts and requests are not taken back.   *)
(***************************************************************************)
EXTENDS Kyc, TLAPS

(* Only request r moves.                                                   *)
Alone(r) == \A q \in Requests \ {r} : req'[q] = req[q]

(* Requests: beginning, moving on and ending keep the slots' type.         *)
LEMMA IdleType == Idle \in Request /\ Idle.at = "idle"
BY DEF Idle, Request, Steps, News, DiditNews, SumsubNews, KycStatus

LEMMA BeginType ==
  ASSUME TypeOK, NEW r \in Requests, NEW at \in Steps \ (Coding \cup {"event.claim"}),
         NEW p \in Providers, Begin(r, at, p)
  PROVE  RequestsTypeOK' /\ Alone(r)
BY IdleType DEF TypeOK, RequestsTypeOK, Begin, Request, Idle, Alone

LEMMA BeginSeeingType ==
  ASSUME TypeOK, NEW r \in Requests, NEW at \in Steps \ (Coding \cup {"event.claim"}),
         NEW p \in Providers, BeginSeeing(r, at, p)
  PROVE  RequestsTypeOK' /\ Alone(r)
BY IdleType DEF TypeOK, RowsTypeOK, RequestsTypeOK, BeginSeeing, Request, Idle, Alone

LEMMA BeginEventType ==
  ASSUME TypeOK, NEW r \in Requests, NEW at \in Steps \ Coding, NEW p \in Providers,
         NEW e \in Events \cup {None}, NEW news \in News,
         at = "event.claim" => e \in Events, BeginEvent(r, at, p, e, news)
  PROVE  RequestsTypeOK' /\ Alone(r)
BY IdleType DEF TypeOK, RowsTypeOK, RequestsTypeOK, BeginEvent, Request, Idle, Alone

LEMMA BeginCodeType ==
  ASSUME TypeOK, NEW r \in Requests, NEW at \in Coding, NEW p \in Providers,
         NEW a \in Admins, NEW tries \in Nat, BeginCode(r, at, p, a, tries)
  PROVE  RequestsTypeOK' /\ Alone(r)
BY IdleType DEF TypeOK, RequestsTypeOK, BeginCode, Request, Idle, Steps, Coding, Alone

LEMMA GotoType ==
  ASSUME TypeOK, NEW r \in Requests, req[r].at # "idle", NEW at \in Steps \ {"event.claim"},
         at \in Coding => req[r].at \in Coding, Goto(r, at)
  PROVE  RequestsTypeOK' /\ Alone(r)
BY DEF TypeOK, RequestsTypeOK, Goto, Request, Alone

LEMMA EndType ==
  ASSUME TypeOK, NEW r \in Requests, End(r)
  PROVE  RequestsTypeOK' /\ Alone(r)
BY IdleType DEF TypeOK, RequestsTypeOK, End, Coding, Alone

-----------------------------------------------------------------------------
(* The types.                                                              *)
LEMMA InitType == Init => TypeOK
BY IdleType, KycAssumption
DEF Init, TypeOK, RowsTypeOK, RequestsTypeOK, KycStatus, NoCode, News, DiditNews, Coding

LEMMA ArriveType ==
  ASSUME TypeOK, NEW r \in Requests, Arrive(r)
  PROVE  TypeOK' /\ Alone(r)
<1>1. ASSUME NEW p \in Providers, StartSession(r, p) PROVE TypeOK' /\ Alone(r)
  <2>1. RequestsTypeOK' /\ Alone(r)
    BY <1>1, BeginSeeingType DEF StartSession, Steps, Coding
  <2> QED BY <1>1, <2>1 DEF StartSession, TypeOK, RowsTypeOK, providerRow, keys, vendors, history
<1>2. ASSUME NEW p \in Providers, GoLive(r, p) PROVE TypeOK' /\ Alone(r)
  <2>1. RequestsTypeOK' /\ Alone(r)
    BY <1>2, BeginType DEF GoLive, Steps, Coding
  <2> QED BY <1>2, <2>1 DEF GoLive, TypeOK, RowsTypeOK, providerRow, keys, vendors, history
<1>3. ASSUME NEW e \in Events, DiditWebhook(r, e) PROVE TypeOK' /\ Alone(r)
  <2>1. said[e].p \in Providers /\ said[e].news \in News
    BY <1>3 DEF DiditWebhook, TypeOK, RowsTypeOK
  <2>2. RequestsTypeOK' /\ Alone(r)
    BY <1>3, <2>1, BeginEventType DEF DiditWebhook, Steps, Coding
  <2> QED BY <1>3, <2>2 DEF DiditWebhook, TypeOK, RowsTypeOK, providerRow, keys, vendors, history
<1>4. ASSUME NEW p \in Providers, NEW news \in SumsubNews, SumsubWebhook(r, p, news)
      PROVE  TypeOK' /\ Alone(r)
  <2>1. RequestsTypeOK' /\ Alone(r)
    BY <1>4, BeginEventType DEF SumsubWebhook, Steps, Coding, News
  <2> QED BY <1>4, <2>1 DEF SumsubWebhook, TypeOK, RowsTypeOK, providerRow, keys, vendors, history
<1>5. ASSUME NEW a \in Admins, NEW p \in Providers,
             RequestApproval(r, a, p) \/ ConfirmExhausted(r, a, p) \/ ConfirmRight(r, a, p)
      PROVE  TypeOK' /\ Alone(r)
  <2>1. RequestsTypeOK' /\ Alone(r)
    BY <1>5, BeginCodeType DEF RequestApproval, ConfirmExhausted, ConfirmRight, Coding
  <2> QED
    BY <1>5, <2>1
    DEF RequestApproval, ConfirmExhausted, ConfirmRight, TypeOK, RowsTypeOK, providerRow, keys,
    vendors, history
<1>6. ASSUME NEW a \in Admins, NEW p \in Providers, ConfirmWrong(r, a, p)
      PROVE  TypeOK' /\ Alone(r)
  <2>1. otp[a].p = p /\ otp[a].tries + 1 \in Nat
    BY <1>6 DEF ConfirmWrong, IssuedFor, TypeOK, RowsTypeOK
  <2>2. RequestsTypeOK' /\ Alone(r)
    BY <1>6, <2>1, BeginCodeType DEF ConfirmWrong, Coding
  <2> QED BY <1>6, <2>2 DEF ConfirmWrong, TypeOK, RowsTypeOK, providerRow, keys, vendors, history
<1> QED BY <1>1, <1>2, <1>3, <1>4, <1>5, <1>6 DEF Arrive

LEMMA ProceedType ==
  ASSUME TypeOK, NEW r \in Requests, Proceed(r)
  PROVE  TypeOK' /\ Alone(r)
<1>k. /\ req[r].at # "idle" => req[r].p \in Providers
      /\ req[r].at \in Coding => req[r].a \in Admins
      /\ req[r].at = "event.claim" => req[r].e \in Events
      /\ req[r].news \in News /\ req[r].tries \in Nat
  BY DEF TypeOK, RequestsTypeOK, Request
<1>1. CASE CreateSession(r) \/ WriteUnderReview(r) \/ Stop(r)
  <2>1. RequestsTypeOK' /\ Alone(r)
    BY <1>1, GotoType, EndType DEF CreateSession, WriteUnderReview, Stop, Steps, Coding
  <2> QED
    BY <1>1, <1>k, <2>1
    DEF CreateSession, WriteUnderReview, Stop, TypeOK, RowsTypeOK, KycStatus, providerRow, keys,
    vendors, history
<1>2. CASE ClaimEvent(r)
  <2>1. RequestsTypeOK' /\ Alone(r)
    BY <1>2, GotoType DEF ClaimEvent, Steps, Coding
  <2>2. seen' \subseteq Events
    BY <1>2, <1>k DEF ClaimEvent, TypeOK, RowsTypeOK
  <2> QED BY <1>2, <2>1, <2>2 DEF ClaimEvent, TypeOK, RowsTypeOK, providerRow, vendors, history
<1>3. CASE ReadProvider(r)
  <2>1. kyc[req[r].p] \in KycStatus
    BY <1>3, <1>k DEF ReadProvider, TypeOK, RowsTypeOK
  <2>2. /\ req[r].p \in Providers
        /\ req' = [req EXCEPT ![r] = [req[r] EXCEPT !.at = "event.write", !.saw = kyc[req[r].p]]]
    BY <1>3, <1>k DEF ReadProvider, TypeOK, RequestsTypeOK, Request
  <2>3. [req[r] EXCEPT !.at = "event.write", !.saw = kyc[req[r].p]] \in Request
    BY <2>1 DEF TypeOK, RequestsTypeOK, Request, Steps
  <2>4. req' \in [Requests -> Request] /\ Alone(r)
    BY <2>2, <2>3 DEF TypeOK, RequestsTypeOK, Alone
  <2>5. req'[r].at = "event.write" /\ req'[r].p = req[r].p
    BY <2>2 DEF TypeOK, RequestsTypeOK, Request
  <2>6. RequestsTypeOK' /\ Alone(r)
    BY <2>2, <2>4, <2>5 DEF TypeOK, RequestsTypeOK, Coding, Alone
  <2> QED BY <1>3, <2>6 DEF ReadProvider, TypeOK, RowsTypeOK, providerRow, keys, vendors, history
<1>4. CASE WriteDecision(r)
  <2>1. RequestsTypeOK' /\ Alone(r)
    BY <1>4, EndType DEF WriteDecision
  <2>2. StatusAfter(req[r].news) \in KycStatus
    BY <1>k DEF StatusAfter, KycStatus, News, DiditNews, SumsubNews
  <2>3. /\ kyc' \in [Providers -> KycStatus]
        /\ avail' \in [Providers -> BOOLEAN]
        /\ reviewer' \in [Providers -> Admins \cup {None}]
    BY <1>4, <2>2 DEF WriteDecision, TypeOK, RowsTypeOK, providerRow
  <2>4. applied' \in [Events -> Nat]
    BY <1>4 DEF WriteDecision, TypeOK, RowsTypeOK
  <2> QED BY <1>4, <2>1, <2>3, <2>4 DEF WriteDecision, TypeOK, RowsTypeOK, keys, vendors
<1>5. CASE WriteLive(r)
  <2>1. RequestsTypeOK' /\ Alone(r)
    BY <1>5, EndType DEF WriteLive
  <2> QED BY <1>5, <2>1 DEF WriteLive, TypeOK, RowsTypeOK, keys, vendors, history
<1>6. CASE StoreCode(r)
  <2>1. RequestsTypeOK' /\ Alone(r)
    BY <1>6, EndType DEF StoreCode
  <2>2. req[r].p \in Providers /\ req[r].a \in Admins
    BY <1>6, <1>k DEF StoreCode, Coding
  <2> QED BY <1>6, <2>1, <2>2 DEF StoreCode, TypeOK, RowsTypeOK, providerRow, vendors
<1>7. CASE CountGuess(r)
  <2>1. RequestsTypeOK' /\ Alone(r)
    BY <1>7, EndType DEF CountGuess
  <2>2. req[r].p \in Providers /\ req[r].a \in Admins
    BY <1>7, <1>k DEF CountGuess, Coding
  <2> QED BY <1>7, <1>k, <2>1, <2>2 DEF CountGuess, TypeOK, RowsTypeOK, providerRow, vendors,
       history
<1>8. CASE ReadForApproval(r)
  <2>1. RequestsTypeOK' /\ Alone(r)
    BY <1>8, GotoType DEF ReadForApproval, Steps, Coding
  <2> QED BY <1>8, <2>1 DEF ReadForApproval, TypeOK, RowsTypeOK, providerRow, keys, vendors,
       history
<1>9. CASE WriteApproval(r)
  <2>1. RequestsTypeOK' /\ Alone(r)
    BY <1>9, GotoType DEF WriteApproval, Steps, Coding
  <2>2. req[r].a \in Admins
    BY <1>9, <1>k DEF WriteApproval, Coding
  <2> QED BY <1>9, <2>1, <2>2 DEF WriteApproval, TypeOK, RowsTypeOK, KycStatus, keys, vendors,
       history
<1>10. CASE DeleteCode(r)
  <2>1. RequestsTypeOK' /\ Alone(r)
    BY <1>10, EndType DEF DeleteCode
  <2> QED BY <1>10, <2>1 DEF DeleteCode, NoCode, TypeOK, RowsTypeOK, providerRow, vendors, history
<1> QED BY <1>1, <1>2, <1>3, <1>4, <1>5, <1>6, <1>7, <1>8, <1>9, <1>10 DEF Proceed

LEMMA EnvironmentType ==
  ASSUME TypeOK, Environment
  PROVE  TypeOK' /\ UNCHANGED req
<1>1. ASSUME NEW e \in Events, NEW p \in Providers, NEW news \in DiditNews, DiditDecides(e, p, news)
      PROVE  TypeOK' /\ UNCHANGED req
  BY <1>1 DEF DiditDecides, TypeOK, RowsTypeOK, RequestsTypeOK, News, providerRow, keys, history
<1>2. ASSUME NEW p \in Providers, SumsubApproves(p)
      PROVE  TypeOK' /\ UNCHANGED req
  BY <1>2 DEF SumsubApproves, TypeOK, RowsTypeOK, RequestsTypeOK, News, providerRow, keys, history
<1>3. ASSUME NEW p \in Providers, GoOffline(p) PROVE TypeOK' /\ UNCHANGED req
  BY <1>3 DEF GoOffline, TypeOK, RowsTypeOK, RequestsTypeOK, keys, vendors, history
<1>4. ASSUME NEW a \in Admins, ExpireCode(a) PROVE TypeOK' /\ UNCHANGED req
  BY <1>4 DEF ExpireCode, NoCode, TypeOK, RowsTypeOK, RequestsTypeOK, providerRow, vendors,
       history
<1> QED BY <1>1, <1>2, <1>3, <1>4 DEF Environment

(* Every row, key and request keeps its type.                              *)
THEOREM TypeCorrect == Spec => []TypeOK
<1>1. TypeOK /\ [Next]_vars => TypeOK'
  <2> SUFFICES ASSUME TypeOK, [Next]_vars PROVE TypeOK'
    OBVIOUS
  <2>1. CASE UNCHANGED vars
    BY <2>1 DEF vars, providerRow, keys, vendors, history, TypeOK, RowsTypeOK, RequestsTypeOK
  <2>2. CASE Rest
    BY <2>1, <2>2 DEF Rest, vars, providerRow, keys, vendors, history, TypeOK, RowsTypeOK,
         RequestsTypeOK
  <2> QED BY <2>1, <2>2, ArriveType, ProceedType, EnvironmentType DEF Next
<1> QED BY <1>1, InitType, PTL DEF Spec

-----------------------------------------------------------------------------
(* Somebody stands for the provider.                                       *)
Earned(p) == VendorApproved(p) \/ \E a \in Admins : <<a, p>> \in asked

(* What a stored code vouches for.                                         *)
CodeInv == \A a \in Admins : otp[a].p # None => <<a, otp[a].p>> \in asked

(* What a request vouches for: a verdict on its way, a check before going  *)
(* live, a code that was read.                                             *)
Vouched(r) ==
  /\ req[r].at \in {"event.claim", "event.read", "event.write"} /\ req[r].news = "approved"
       => VendorApproved(req[r].p)
  /\ req[r].at = "live.write" => Earned(req[r].p)
  /\ req[r].at \in {"code.count", "approve.read", "approve.write"} => <<req[r].a, req[r].p>> \in asked

RequestInv == \A r \in Requests : Vouched(r)

KInv == TypeOK /\ ApprovalIsEarned /\ AvailableIsEarned /\ CodeInv /\ RequestInv

LEMMA InitKInv == Init => KInv
BY InitType, KycAssumption
DEF Init, Idle, NoCode, KInv, ApprovalIsEarned, AvailableIsEarned, CodeInv, RequestInv, Vouched

(* Nobody takes back a verdict or a request for approval.                  *)
Kept ==
  /\ asked \subseteq asked'
  /\ \A p \in Providers : VendorApproved(p) => VendorApproved(p)'

LEMMA SameWitnesses ==
  ASSUME UNCHANGED <<heard, said>>, asked \subseteq asked'
  PROVE  Kept
BY DEF Kept, VendorApproved

LEMMA KeptEarned ==
  ASSUME Kept, NEW p \in Providers, Earned(p)
  PROVE  Earned(p)'
BY DEF Kept, Earned

(* When only request r moves, the others vouch for what they did.          *)
LEMMA OthersVouch ==
  ASSUME KInv, NEW r \in Requests, Alone(r), Kept, NEW q \in Requests \ {r}
  PROVE  Vouched(q)'
<1>1. req'[q] = req[q] /\ Vouched(q)
  BY DEF Alone, KInv, RequestInv
<1>2. req[q].at # "idle" => req[q].p \in Providers
  BY DEF KInv, TypeOK, RequestsTypeOK
<1> QED BY <1>1, <1>2 DEF Vouched, Kept, Earned, VendorApproved

(* Rows and codes that are left alone stay vouched for.                    *)
LEMMA SameRows ==
  ASSUME KInv, Kept, UNCHANGED providerRow
  PROVE  ApprovalIsEarned' /\ AvailableIsEarned'
BY DEF KInv, ApprovalIsEarned, AvailableIsEarned, Kept, VendorApproved, providerRow

LEMMA SameCodes ==
  ASSUME KInv, Kept, UNCHANGED otp
  PROVE  CodeInv'
BY DEF KInv, CodeInv, Kept

LEMMA Together ==
  ASSUME KInv, TypeOK', NEW r \in Requests, Alone(r), Kept, Vouched(r)',
         ApprovalIsEarned', AvailableIsEarned', CodeInv'
  PROVE  KInv'
<1>1. ASSUME NEW q \in Requests PROVE Vouched(q)'
  BY <1>1, OthersVouch
<1> QED BY <1>1 DEF KInv, RequestInv

(* A request that begins has read what it vouches for.                     *)
LEMMA ArriveKInv ==
  ASSUME KInv, NEW r \in Requests, Arrive(r)
  PROVE  KInv'
<1>t. TypeOK /\ TypeOK' /\ Alone(r)
  BY ArriveType DEF KInv
<1>r. req \in [Requests -> Request]
  BY <1>t DEF TypeOK, RequestsTypeOK
<1>1. UNCHANGED <<providerRow, keys, vendors, asked>>
  BY DEF Arrive, StartSession, GoLive, DiditWebhook, SumsubWebhook, RequestApproval,
       ConfirmExhausted,
         ConfirmWrong, ConfirmRight, history
<1>2. Kept
  BY <1>1, SameWitnesses DEF vendors
<1>3. ApprovalIsEarned' /\ AvailableIsEarned' /\ CodeInv'
  BY <1>1, <1>2, SameRows, SameCodes DEF keys
<1>4. Vouched(r)'
  <2>1. ASSUME NEW p \in Providers, StartSession(r, p) PROVE Vouched(r)'
    BY <2>1, <1>r DEF StartSession, BeginSeeing, Idle, Vouched
  <2>2. ASSUME NEW p \in Providers, GoLive(r, p) PROVE Vouched(r)'
    <3>1. Earned(p)
      BY <2>2 DEF GoLive, MayGoLive, KInv, ApprovalIsEarned, Earned, TypeOK, RowsTypeOK
    <3>2. req'[r].at = "live.write" /\ req'[r].p = p
      BY <2>2, <1>r DEF GoLive, Begin, Idle
    <3> QED BY <3>1, <3>2, <1>1, <1>2 DEF Vouched, Kept, Earned, VendorApproved, vendors
  <2>3. ASSUME NEW e \in Events, DiditWebhook(r, e) PROVE Vouched(r)'
    <3>1. said[e].news = "approved" => said[e] = [p |-> said[e].p, news |-> "approved"]
      BY <1>t DEF TypeOK, RowsTypeOK
    <3>2. req'[r].at = "event.claim" /\ req'[r].p = said[e].p /\ req'[r].news = said[e].news
      BY <2>3, <1>r DEF DiditWebhook, BeginEvent, Idle
    <3> QED BY <3>1, <3>2, <1>1 DEF Vouched, VendorApproved, vendors
  <2>4. ASSUME NEW p \in Providers, NEW news \in SumsubNews, SumsubWebhook(r, p, news) PROVE Vouched(r)'
    <3>1. req'[r].at = "event.write" /\ req'[r].p = p /\ req'[r].news = news
      BY <2>4, <1>r DEF SumsubWebhook, BeginEvent, Idle
    <3> QED BY <2>4, <3>1, <1>1 DEF SumsubWebhook, Vouched, VendorApproved, vendors
  <2>5. ASSUME NEW a \in Admins, NEW p \in Providers, RequestApproval(r, a, p) \/ ConfirmExhausted(r, a, p)
        PROVE  Vouched(r)'
    BY <2>5, <1>r DEF RequestApproval, ConfirmExhausted, BeginCode, Idle, Vouched
  <2>6. ASSUME NEW a \in Admins, NEW p \in Providers, ConfirmWrong(r, a, p) \/ ConfirmRight(r, a, p)
        PROVE  Vouched(r)'
    <3>1. <<a, p>> \in asked /\ otp[a].p = p
      BY <2>6, KycAssumption DEF ConfirmWrong, ConfirmRight, IssuedFor, KInv, CodeInv
    <3>2. req'[r].at \in {"code.count", "approve.read"} /\ req'[r].p = p /\ req'[r].a = a
      BY ZenonT(40), <2>6, <3>1, <1>r DEF ConfirmWrong, ConfirmRight, BeginCode, Idle
    <3> QED BY <3>1, <3>2, <1>1 DEF Vouched
  <2> QED BY <2>1, <2>2, <2>3, <2>4, <2>5, <2>6 DEF Arrive
<1> QED BY <1>t, <1>2, <1>3, <1>4, Together

(* A request that goes on writes what it was vouched for.                  *)
LEMMA ProceedKInv ==
  ASSUME KInv, NEW r \in Requests, Proceed(r)
  PROVE  KInv'
<1>t. TypeOK /\ TypeOK' /\ Alone(r)
  BY ProceedType DEF KInv
<1>r. req \in [Requests -> Request] /\ (req[r].at # "idle" => req[r].p \in Providers) /\ Vouched(r)
  BY <1>t DEF TypeOK, RequestsTypeOK, KInv, RequestInv
<1>w. Kept
  <2>1. UNCHANGED <<heard, said>> /\ asked \subseteq asked'
    BY DEF Proceed, CreateSession, WriteUnderReview, ClaimEvent, ReadProvider, WriteDecision,
         WriteLive, StoreCode,
           CountGuess, ReadForApproval, WriteApproval, DeleteCode, Stop, vendors, history
  <2> QED BY <2>1, SameWitnesses
<1>e. End(r) => Vouched(r)'
  BY <1>r DEF End, Idle, Vouched
<1>1. CASE CreateSession(r) \/ Stop(r)
  <2>1. Goto(r, "session.write") => Vouched(r)'
    BY <1>r DEF Goto, Vouched
  <2>2. Vouched(r)'
    BY <1>1, <1>e, <2>1 DEF CreateSession, Stop
  <2>3. ApprovalIsEarned' /\ AvailableIsEarned' /\ CodeInv'
    BY <1>1, <1>w, SameRows, SameCodes DEF CreateSession, Stop, keys
  <2> QED BY <2>2, <2>3, <1>t, <1>w, Together
<1>2. CASE WriteUnderReview(r)
  <2>1. ApprovalIsEarned' /\ AvailableIsEarned'
    BY <1>2, <1>t, <1>w
    DEF WriteUnderReview, KInv, ApprovalIsEarned, AvailableIsEarned, TypeOK, RowsTypeOK, Kept,
    VendorApproved
  <2> QED BY <1>2, <2>1, <1>t, <1>w, <1>e, SameCodes, Together DEF WriteUnderReview, keys
<1>3. CASE ClaimEvent(r) \/ ReadProvider(r)
  <2>1. Vouched(r)'
    <3>1. /\ req[r].at \in {"event.claim", "event.read"}
          /\ req'[r].at \in {"event.read", "event.write"}
          /\ req'[r].p = req[r].p /\ req'[r].news = req[r].news
      BY <1>3, <1>r DEF ClaimEvent, ReadProvider, Goto, Request
    <3> QED BY <3>1, <1>r, <1>w DEF Vouched, Kept, VendorApproved
  <2>2. ApprovalIsEarned' /\ AvailableIsEarned' /\ CodeInv'
    BY <1>3, <1>w, SameRows, SameCodes DEF ClaimEvent, ReadProvider, keys
  <2> QED BY <2>1, <2>2, <1>t, <1>w, Together
<1>4. CASE WriteDecision(r)
  <2> DEFINE p == req[r].p
             news == req[r].news
  <2>1. p \in Providers /\ (news = "approved" => VendorApproved(p))
    BY <1>4, <1>r DEF WriteDecision, Vouched
  <2>2. UNCHANGED <<otp, heard, said, asked>> /\ End(r)
    BY <1>4 DEF WriteDecision, keys, vendors
  <2>v. \A q \in Providers : VendorApproved(q)' <=> VendorApproved(q)
    BY <2>2 DEF VendorApproved
  <2>3. CASE UNCHANGED providerRow
    BY <2>2, <2>3, <1>t, <1>w, <1>e, SameRows, SameCodes, Together
  <2>4. CASE ~ UNCHANGED providerRow
    <3>1. /\ kyc' = [kyc EXCEPT ![p] = StatusAfter(news)]
          /\ avail' = [avail EXCEPT ![p] = @ \/ news = "approved"]
          /\ reviewer' = [reviewer EXCEPT ![p] = IF news \in {"approved", "declined", "retry"} THEN None ELSE @]
      BY <1>4, <2>4 DEF WriteDecision
    <3>2. StatusAfter(news) = "APPROVED" => news = "approved"
      BY DEF StatusAfter
    <3>3. ApprovalIsEarned'
      BY <3>1, <3>2, <2>1, <2>2, <2>v, <1>t DEF KInv, ApprovalIsEarned, TypeOK, RowsTypeOK
    <3>4. AvailableIsEarned'
      BY <3>1, <2>1, <2>2, <2>v, <1>t DEF KInv, AvailableIsEarned, TypeOK, RowsTypeOK
    <3> QED BY <3>3, <3>4, <2>2, <1>t, <1>w, <1>e, SameCodes, Together
  <2> QED BY <2>3, <2>4
<1>5. CASE WriteLive(r)
  <2>1. req[r].p \in Providers /\ Earned(req[r].p)
    BY <1>5, <1>r DEF WriteLive, Vouched
  <2>2. AvailableIsEarned'
    BY ZenonT(40), <1>5, <2>1, <1>t, <1>w
    DEF WriteLive, KInv, AvailableIsEarned, TypeOK, RowsTypeOK, Kept, Earned
  <2>3. ApprovalIsEarned'
    BY <1>5, <1>w DEF WriteLive, KInv, ApprovalIsEarned, Kept, VendorApproved
  <2> QED BY <1>5, <2>2, <2>3, <1>t, <1>w, <1>e, SameCodes, Together DEF WriteLive, keys
<1>6. CASE StoreCode(r)
  <2>1. CodeInv'
    BY <1>6, <1>t DEF StoreCode, KInv, CodeInv, TypeOK, RowsTypeOK
  <2> QED BY <1>6, <2>1, <1>t, <1>w, <1>e, SameRows, Together DEF StoreCode
<1>7. CASE CountGuess(r)
  <2>1. <<req[r].a, req[r].p>> \in asked
    BY <1>7, <1>r DEF CountGuess, Vouched
  <2>2. CodeInv'
    BY <1>7, <2>1, <1>t DEF CountGuess, KInv, CodeInv, TypeOK, RowsTypeOK, history
  <2> QED BY <1>7, <2>2, <1>t, <1>w, <1>e, SameRows, Together DEF CountGuess
<1>8. CASE ReadForApproval(r)
  <2>1. /\ req[r].at = "approve.read" /\ req'[r].at \in {"approve.write", "code.delete"}
        /\ req'[r].p = req[r].p /\ req'[r].a = req[r].a
    BY <1>8, <1>r DEF ReadForApproval, Goto, Request
  <2>2. Vouched(r)'
    BY <2>1, <1>r, <1>w DEF Vouched, Kept
  <2>3. ApprovalIsEarned' /\ AvailableIsEarned' /\ CodeInv'
    BY <1>8, <1>w, SameRows, SameCodes DEF ReadForApproval, keys
  <2> QED BY <2>2, <2>3, <1>t, <1>w, Together
<1>9. CASE WriteApproval(r)
  <2>1. req[r].p \in Providers /\ req[r].a \in Admins /\ <<req[r].a, req[r].p>> \in asked
    BY <1>9, <1>r, <1>t DEF WriteApproval, Vouched, TypeOK, RequestsTypeOK, Coding
  <2>2. ApprovalIsEarned'
    BY <1>9, <2>1, <1>t, <1>w, KycAssumption
    DEF WriteApproval, KInv, ApprovalIsEarned, TypeOK, RowsTypeOK, Kept, VendorApproved
  <2>3. AvailableIsEarned'
    BY <1>9, <1>w DEF WriteApproval, KInv, AvailableIsEarned, Kept, VendorApproved
  <2>4. Vouched(r)'
    BY <1>9, <1>r DEF WriteApproval, Goto, Vouched
  <2> QED BY <1>9, <2>2, <2>3, <2>4, <1>t, <1>w, SameCodes, Together DEF WriteApproval, keys
<1>10. CASE DeleteCode(r)
  <2>1. CodeInv'
    BY <1>10, <1>t DEF DeleteCode, NoCode, KInv, CodeInv, TypeOK, RowsTypeOK, history
  <2> QED BY <1>10, <2>1, <1>t, <1>w, <1>e, SameRows, Together DEF DeleteCode
<1> QED BY <1>1, <1>2, <1>3, <1>4, <1>5, <1>6, <1>7, <1>8, <1>9, <1>10 DEF Proceed

LEMMA EnvironmentKInv ==
  ASSUME KInv, Environment
  PROVE  KInv'
<1>t. TypeOK /\ TypeOK' /\ UNCHANGED req
  BY EnvironmentType DEF KInv
<1>w. Kept
  <2>1. ASSUME NEW e \in Events, NEW p \in Providers, NEW news \in DiditNews, DiditDecides(e, p, news) PROVE Kept
    BY <2>1, <1>t, KycAssumption DEF DiditDecides, history, TypeOK, RowsTypeOK, Kept,
         VendorApproved
  <2>2. ASSUME NEW p \in Providers, SumsubApproves(p) PROVE Kept
    BY <2>2 DEF SumsubApproves, history, Kept, VendorApproved
  <2>3. CASE (\E p \in Providers : GoOffline(p)) \/ (\E a \in Admins : ExpireCode(a))
    BY <2>3, SameWitnesses DEF GoOffline, ExpireCode, vendors, history
  <2> QED BY <2>1, <2>2, <2>3 DEF Environment
<1>r. RequestInv'
  <2>1. ASSUME NEW r \in Requests PROVE Vouched(r)'
    <3>1. Vouched(r) /\ (req[r].at # "idle" => req[r].p \in Providers)
      BY <1>t DEF KInv, RequestInv, TypeOK, RequestsTypeOK
    <3> QED BY <3>1, <1>t, <1>w DEF Vouched, Kept, Earned, VendorApproved
  <2> QED BY <2>1 DEF RequestInv
<1>1. ApprovalIsEarned' /\ AvailableIsEarned'
  <2>1. CASE UNCHANGED providerRow
    BY <2>1, <1>w, SameRows
  <2>2. ASSUME NEW p \in Providers, GoOffline(p) PROVE ApprovalIsEarned' /\ AvailableIsEarned'
    BY <2>2, <1>t, <1>w
    DEF GoOffline, KInv, ApprovalIsEarned, AvailableIsEarned, TypeOK, RowsTypeOK, Kept,
    VendorApproved
  <2> QED BY <2>1, <2>2 DEF Environment, DiditDecides, SumsubApproves, ExpireCode
<1>2. CodeInv'
  <2>1. CASE UNCHANGED otp
    BY <2>1, <1>w, SameCodes
  <2>2. ASSUME NEW a \in Admins, ExpireCode(a) PROVE CodeInv'
    BY <2>2, <1>t DEF ExpireCode, NoCode, KInv, CodeInv, TypeOK, RowsTypeOK, history
  <2> QED BY <2>1, <2>2 DEF Environment, DiditDecides, SumsubApproves, GoOffline, keys
<1> QED BY <1>t, <1>r, <1>1, <1>2 DEF KInv

LEMMA KInvHolds == Spec => []KInv
<1>1. KInv /\ [Next]_vars => KInv'
  <2> SUFFICES ASSUME KInv, [Next]_vars PROVE KInv'
    OBVIOUS
  <2>1. CASE UNCHANGED vars
    BY <2>1 DEF vars, providerRow, keys, vendors, history, KInv, TypeOK, RowsTypeOK,
         RequestsTypeOK,
                ApprovalIsEarned, AvailableIsEarned, CodeInv, RequestInv, Vouched, Earned,
                VendorApproved
  <2> QED BY <2>1, ArriveKInv, ProceedKInv, EnvironmentKInv DEF Next, Rest
<1> QED BY <1>1, InitKInv, PTL DEF Spec

(* A provider is approved only on a vendor's verdict, or by the reviewer   *)
(* on record after he had asked for this very provider (handleWebhook,     *)
(* confirmProviderKycApproval).                                            *)
THEOREM ApprovalsAreEarned == Spec => []ApprovalIsEarned
<1>1. KInv => ApprovalIsEarned
  BY DEF KInv
<1> QED BY <1>1, KInvHolds, PTL

(* A provider is available only if a vendor has approved him or somebody   *)
(* has asked to (updateProfile, the webhooks).                             *)
THEOREM AvailabilityIsEarned == Spec => []AvailableIsEarned
<1>1. KInv => AvailableIsEarned
  BY DEF KInv
<1> QED BY <1>1, KInvHolds, PTL

-----------------------------------------------------------------------------
(* An event, a code or a provider that one request at a time works on.     *)
(* What arrives writes nothing yet.                                        *)
EventsApart == \A q, r \in Requests : req[q].e = req[r].e => q = r \/ req[q].e = None

CodesApart == \A q, r \in Requests : req[q].a = req[r].a => q = r \/ req[q].a = None

ProvidersApart == \A q, r \in Requests : req[q].p = req[r].p => q = r \/ req[q].p = None

LEMMA ArriveReads ==
  ASSUME NEW r \in Requests, Arrive(r)
  PROVE  UNCHANGED <<providerRow, keys, vendors, history>>
BY DEF Arrive, StartSession, GoLive, DiditWebhook, SumsubWebhook, RequestApproval,
       ConfirmExhausted, ConfirmWrong, ConfirmRight

-----------------------------------------------------------------------------
(* Deliveries.  An event that was applied has been seen, and one on its    *)
(* way to being applied has not been applied.                              *)
Handling(r) == LET e == req[r].e IN
  /\ req[r].at = "event.claim" => applied[e] = 0
  /\ req[r].at \in {"event.read", "event.write"} /\ e # None => e \in seen /\ applied[e] = 0

OnceInv ==
  /\ \A e \in Events : applied[e] = 0 \/ (applied[e] = 1 /\ e \in seen)
  /\ \A r \in Requests : Handling(r)

LEMMA OthersHandle ==
  ASSUME TypeOK, OnceInv, EventsApart, NEW r \in Requests, Alone(r), seen \subseteq seen',
         \A e \in Events \ {req[r].e} : applied'[e] = applied[e],
         NEW q \in Requests \ {r}
  PROVE  Handling(q)'
<1>1. req'[q] = req[q] /\ Handling(q)
  BY DEF Alone, OnceInv
<1>2. req[q].e \in Events \cup {None} /\ (req[q].at = "event.claim" => req[q].e \in Events)
  BY DEF TypeOK, RequestsTypeOK, Request
<1>3. req[q].e # None => req[q].e # req[r].e
  BY DEF EventsApart
<1> QED
  BY <1>1, <1>2, <1>3, KycAssumption DEF Handling

LEMMA ArriveOnce ==
  ASSUME TypeOK, OnceInv, EventsApart, NEW r \in Requests, Arrive(r)
  PROVE  OnceInv'
<1>1. Alone(r) /\ UNCHANGED <<seen, applied>>
  BY ArriveType, ArriveReads DEF keys, history
<1>2. Handling(r)'
  <2> USE <1>1 DEF TypeOK, RequestsTypeOK, Idle, Handling
  <2>1. ASSUME NEW p \in Providers, StartSession(r, p) \/ GoLive(r, p) PROVE Handling(r)'
    BY <2>1 DEF StartSession, GoLive, Begin, BeginSeeing
  <2>2. ASSUME NEW e \in Events, DiditWebhook(r, e) PROVE Handling(r)'
    BY <2>2 DEF DiditWebhook, BeginEvent, Fresh, OnceInv
  <2>3. ASSUME NEW p \in Providers, NEW news \in SumsubNews, SumsubWebhook(r, p, news) PROVE Handling(r)'
    BY <2>3 DEF SumsubWebhook, BeginEvent
  <2>4. ASSUME NEW a \in Admins, NEW p \in Providers,
               \/ RequestApproval(r, a, p) \/ ConfirmExhausted(r, a, p)
               \/ ConfirmWrong(r, a, p) \/ ConfirmRight(r, a, p)
        PROVE  Handling(r)'
    BY ZenonT(40), <2>4 DEF RequestApproval, ConfirmExhausted, ConfirmWrong, ConfirmRight, BeginCode
  <2> QED
    BY <2>1, <2>2, <2>3, <2>4 DEF Arrive
<1>3. ASSUME NEW q \in Requests PROVE Handling(q)'
  BY <1>1, <1>2, OthersHandle
<1> QED
  BY <1>1, <1>3 DEF OnceInv

LEMMA ProceedOnce ==
  ASSUME TypeOK, OnceInv, EventsApart, NEW r \in Requests, Proceed(r)
  PROVE  OnceInv'
<1>1. Alone(r) /\ Handling(r) /\ req \in [Requests -> Request]
  BY ProceedType DEF OnceInv, TypeOK, RequestsTypeOK
<1>2. CASE ClaimEvent(r)
  <2>1. req[r].e \in Events /\ applied[req[r].e] = 0
    BY <1>1, <1>2 DEF ClaimEvent, TypeOK, RequestsTypeOK, Handling
  <2>2. Handling(r)'
    BY <1>1, <1>2, <2>1 DEF ClaimEvent, Goto, Handling, Request, history
  <2> QED
    BY <1>1, <1>2, <2>2, OthersHandle DEF ClaimEvent, OnceInv, history
<1>3. CASE WriteDecision(r)
  <2>1. \A e \in Events \ {req[r].e} : applied'[e] = applied[e]
    BY <1>3 DEF WriteDecision, TypeOK, RowsTypeOK
  <2>2. req[r].e \in Events => applied'[req[r].e] = 1 /\ req[r].e \in seen
    BY <1>1, <1>3, KycAssumption DEF WriteDecision, Handling
  <2>3. Handling(r)' /\ UNCHANGED seen
    BY <1>3 DEF WriteDecision, End, Idle, Handling, keys, TypeOK, RequestsTypeOK
  <2> QED
    BY <1>1, <2>1, <2>2, <2>3, OthersHandle DEF OnceInv
<1>4. ASSUME ~ClaimEvent(r), ~WriteDecision(r) PROVE OnceInv'
  <2>1. UNCHANGED <<seen, applied>>
    BY <1>4 DEF Proceed, CreateSession, WriteUnderReview, ReadProvider, WriteLive, StoreCode,
         CountGuess,
       ReadForApproval, WriteApproval, DeleteCode, Stop, keys, history
  <2>2. CASE ReadProvider(r)
    <3>1. Handling(r)'
      BY <1>1, <2>1, <2>2 DEF ReadProvider, Handling, Request
    <3> QED
      BY <1>1, <2>1, <3>1, OthersHandle DEF OnceInv
  <2>3. CASE ~ReadProvider(r)
    <3>1. req'[r].at \notin {"event.claim", "event.read", "event.write"}
      BY <1>1, <1>4, <2>3 DEF Proceed, CreateSession, WriteUnderReview, WriteLive, StoreCode,
           CountGuess,
         ReadForApproval, WriteApproval, DeleteCode, Stop, Goto, End, Idle, Request
    <3>2. Handling(r)'
      BY <3>1 DEF Handling
    <3> QED
      BY <1>1, <2>1, <3>2, OthersHandle DEF OnceInv
  <2> QED
    BY <2>2, <2>3
<1> QED
  BY <1>2, <1>3, <1>4

(* Redelivered, delayed and reordered, and wherever a handler dies, an     *)
(* event is processed at most once, as long as no two deliveries of it are *)
(* handled at the same time: "Single-use / dedupe on event_id".            *)
THEOREM EventsAreAppliedOnce == Spec /\ []EventsApart => []AppliedOnce
<1>1. Init => OnceInv
  BY DEF Init, Idle, OnceInv, Handling
<1>2. TypeOK /\ OnceInv /\ EventsApart /\ [Next]_vars => OnceInv'
  <2> SUFFICES ASSUME TypeOK, OnceInv, EventsApart, [Next]_vars PROVE OnceInv'
    OBVIOUS
  <2>1. CASE Environment \/ Rest \/ UNCHANGED vars
    <3>1. UNCHANGED <<seen, applied, req>>
      BY <2>1 DEF Environment, DiditDecides, SumsubApproves, GoOffline, ExpireCode, Rest, vars,
           keys, history
    <3> QED
      BY <3>1 DEF OnceInv, Handling
  <2> QED
    BY <2>1, ArriveOnce, ProceedOnce DEF Next
<1>3. OnceInv => AppliedOnce
  BY DEF OnceInv, AppliedOnce
<1> QED
  BY <1>1, <1>2, <1>3, TypeCorrect, PTL DEF Spec

-----------------------------------------------------------------------------
(* Guesses.  The count stored with a code, and the one a wrong guess is    *)
(* about to store, are no less than the guesses refused.                   *)
Guessing(r) ==
  req[r].at = "code.count" => guesses[req[r].a] < req[r].tries /\ req[r].tries <= MaxAttempts

GuessInv ==
  /\ \A a \in Admins : guesses[a] <= MaxAttempts /\ (otp[a] # NoCode => guesses[a] <= otp[a].tries)
  /\ \A r \in Requests : Guessing(r)

LEMMA OthersGuess ==
  ASSUME TypeOK, GuessInv, CodesApart, NEW r \in Requests, Alone(r),
         \A a \in Admins \ {req[r].a} : guesses'[a] = guesses[a],
         NEW q \in Requests \ {r}
  PROVE  Guessing(q)'
<1>1. req'[q] = req[q] /\ Guessing(q)
  BY DEF Alone, GuessInv
<1>2. req[q].at = "code.count" => req[q].a \in Admins /\ req[q].a # req[r].a
  BY KycAssumption DEF TypeOK, RequestsTypeOK, Coding, CodesApart
<1> QED
  BY <1>1, <1>2 DEF Guessing

LEMMA ArriveGuess ==
  ASSUME TypeOK, GuessInv, CodesApart, NEW r \in Requests, Arrive(r)
  PROVE  GuessInv'
<1>1. Alone(r) /\ UNCHANGED <<otp, guesses>>
  BY ArriveType, ArriveReads DEF keys, history
<1>2. Guessing(r)'
  <2> USE <1>1 DEF TypeOK, RequestsTypeOK, Idle, Guessing
  <2>1. ASSUME NEW p \in Providers, StartSession(r, p) \/ GoLive(r, p) PROVE Guessing(r)'
    BY <2>1 DEF StartSession, GoLive, Begin, BeginSeeing
  <2>2. ASSUME NEW e \in Events, DiditWebhook(r, e) PROVE Guessing(r)'
    BY <2>2 DEF DiditWebhook, BeginEvent
  <2>3. ASSUME NEW p \in Providers, NEW news \in SumsubNews, SumsubWebhook(r, p, news) PROVE Guessing(r)'
    BY <2>3 DEF SumsubWebhook, BeginEvent
  <2>4. ASSUME NEW a \in Admins, NEW p \in Providers,
               RequestApproval(r, a, p) \/ ConfirmExhausted(r, a, p) \/ ConfirmRight(r, a, p)
        PROVE  Guessing(r)'
    BY <2>4 DEF RequestApproval, ConfirmExhausted, ConfirmRight, BeginCode
  <2>5. ASSUME NEW a \in Admins, NEW p \in Providers, ConfirmWrong(r, a, p) PROVE Guessing(r)'
    <3>1. otp[a].tries \in Nat /\ guesses[a] \in Nat /\ MaxAttempts \in Nat
      BY KycAssumption DEF RowsTypeOK
    <3>2. otp[a] # NoCode /\ otp[a].tries < MaxAttempts
      BY <2>5, <3>1 DEF ConfirmWrong, Exhausted
    <3>3. guesses[a] <= otp[a].tries
      BY <3>2 DEF GuessInv
    <3>4. req'[r].a = a /\ req'[r].tries = otp[a].tries + 1
      BY <2>5 DEF ConfirmWrong, BeginCode
    <3> QED
      BY <3>1, <3>2, <3>3, <3>4
  <2> QED
    BY <2>1, <2>2, <2>3, <2>4, <2>5 DEF Arrive
<1>3. ASSUME NEW q \in Requests PROVE Guessing(q)'
  BY <1>1, <1>2, OthersGuess
<1> QED
  BY <1>1, <1>3 DEF GuessInv, NoCode

LEMMA ProceedGuess ==
  ASSUME TypeOK, GuessInv, CodesApart, NEW r \in Requests, Proceed(r)
  PROVE  GuessInv'
<1>1. Alone(r) /\ Guessing(r) /\ req \in [Requests -> Request]
  BY ProceedType DEF GuessInv, TypeOK, RequestsTypeOK
<1>2. req'[r].at # "code.count"
  BY <1>1 DEF Proceed, CreateSession, WriteUnderReview, ClaimEvent, ReadProvider, WriteDecision,
       WriteLive,
     StoreCode, CountGuess, ReadForApproval, WriteApproval, DeleteCode, Stop, Goto, End, Idle,
     Request
<1>3. CASE StoreCode(r) \/ CountGuess(r) \/ DeleteCode(r)
  <2>1. req[r].a \in Admins
    BY <1>3 DEF StoreCode, CountGuess, DeleteCode, TypeOK, RequestsTypeOK, Coding
  <2>2. PICK a \in Admins : a = req[r].a
    BY <2>1
  <2>3. guesses[a] \in Nat /\ MaxAttempts \in Nat /\ req[r].tries \in Nat
    BY <1>1, KycAssumption DEF TypeOK, RowsTypeOK, Request
  <2>4. \A c \in Admins \ {a} : guesses'[c] = guesses[c] /\ otp'[c] = otp[c]
    BY <1>3, <2>2 DEF StoreCode, CountGuess, DeleteCode, TypeOK, RowsTypeOK, history
  <2>5. guesses'[a] <= MaxAttempts /\ (otp'[a] # NoCode => guesses'[a] <= otp'[a].tries)
    <3>1. CASE StoreCode(r)
      BY <3>1, <2>2, <2>3 DEF StoreCode, TypeOK, RowsTypeOK
    <3>2. CASE CountGuess(r)
      <4>1. guesses[a] < req[r].tries /\ req[r].tries <= MaxAttempts
        BY <1>1, <3>2, <2>2 DEF CountGuess, Guessing
      <4>2. guesses'[a] = guesses[a] + 1
        BY <3>2, <2>2, <2>3, <4>1 DEF CountGuess, TypeOK, RowsTypeOK
      <4>3. otp'[a].tries = req[r].tries
        BY <3>2, <2>2 DEF CountGuess, TypeOK, RowsTypeOK
      <4> QED
        BY <2>3, <4>1, <4>2, <4>3
    <3>3. CASE DeleteCode(r)
      BY <3>3, <2>2 DEF DeleteCode, TypeOK, RowsTypeOK, history, GuessInv
    <3> QED
      BY <1>3, <3>1, <3>2, <3>3
  <2>6. ASSUME NEW q \in Requests PROVE Guessing(q)'
    BY <1>1, <1>2, <2>2, <2>4, OthersGuess DEF Guessing
  <2> QED
    BY <2>4, <2>5, <2>6 DEF GuessInv, NoCode
<1>4. CASE ~(StoreCode(r) \/ CountGuess(r) \/ DeleteCode(r))
  <2>1. UNCHANGED <<otp, guesses>>
    BY <1>4 DEF Proceed, CreateSession, WriteUnderReview, ClaimEvent, ReadProvider,
         WriteDecision, WriteLive,
       ReadForApproval, WriteApproval, Stop, keys, history
  <2>2. ASSUME NEW q \in Requests PROVE Guessing(q)'
    BY <1>1, <1>2, <2>1, OthersGuess DEF Guessing
  <2> QED
    BY <2>1, <2>2 DEF GuessInv, NoCode
<1> QED
  BY <1>3, <1>4

(* No more guesses at a code are refused as wrong than                     *)
(* KYC_APPROVAL_OTP_MAX_ATTEMPTS, expiry, deletion and crashes included,   *)
(* as long as an administrator makes one request at a time.                *)
THEOREM GuessesStayBounded == Spec /\ []CodesApart => []GuessesAreBounded
<1>1. Init => GuessInv
  BY KycAssumption DEF Init, Idle, NoCode, GuessInv, Guessing
<1>2. TypeOK /\ GuessInv /\ CodesApart /\ [Next]_vars => GuessInv'
  <2> SUFFICES ASSUME TypeOK, GuessInv, CodesApart, [Next]_vars PROVE GuessInv'
    OBVIOUS
  <2>1. ASSUME NEW a \in Admins, ExpireCode(a) PROVE GuessInv'
    BY <2>1 DEF ExpireCode, GuessInv, Guessing, history, TypeOK, RowsTypeOK, NoCode
  <2>2. CASE UNCHANGED <<otp, guesses, req>>
    BY <2>2 DEF GuessInv, Guessing, NoCode
  <2>3. \/ \E a \in Admins : ExpireCode(a)
        \/ \E r \in Requests : Arrive(r) \/ Proceed(r)
        \/ UNCHANGED <<otp, guesses, req>>
    BY DEF Next, Environment, DiditDecides, SumsubApproves, GoOffline, Rest, vars, keys, history
  <2> QED
    BY <2>1, <2>2, <2>3, ArriveGuess, ProceedGuess
<1>3. GuessInv => GuessesAreBounded
  BY DEF GuessInv, GuessesAreBounded
<1> QED
  BY <1>1, <1>2, <1>3, TypeCorrect, PTL DEF Spec

-----------------------------------------------------------------------------
(* Statuses.  What a request has read of a provider still holds when it    *)
(* writes on the strength of it.                                           *)
Looked(r) == LET p == req[r].p IN
  /\ req[r].at \in {"session.vendor", "session.write"} => req[r].saw = kyc[p]
  /\ req[r].at = "session.write" => Startable(req[r].saw)
  /\ req[r].at = "event.write" /\ req[r].news = "review" => req[r].saw = kyc[p]
  /\ req[r].at = "approve.write" => Approvable(p)

LookInv == \A r \in Requests : Looked(r)

LEMMA OthersLook ==
  ASSUME TypeOK, LookInv, ProvidersApart, NEW r \in Requests, Alone(r),
         \A p \in Providers \ {req[r].p} : kyc'[p] = kyc[p],
         NEW q \in Requests \ {r}
  PROVE  Looked(q)'
<1>1. req'[q] = req[q] /\ Looked(q)
  BY DEF Alone, LookInv
<1>2. req[q].at # "idle" => req[q].p \in Providers /\ req[q].p # req[r].p
  BY KycAssumption DEF TypeOK, RequestsTypeOK, ProvidersApart
<1> QED
  BY <1>1, <1>2 DEF Looked, Approvable

LEMMA ArriveLook ==
  ASSUME TypeOK, LookInv, ProvidersApart, NEW r \in Requests, Arrive(r)
  PROVE  LookInv'
<1>1. Alone(r) /\ UNCHANGED kyc
  BY ArriveType, ArriveReads DEF providerRow
<1>2. Looked(r)'
  <2> USE <1>1 DEF TypeOK, RequestsTypeOK, Idle, Looked
  <2>1. ASSUME NEW p \in Providers, StartSession(r, p) PROVE Looked(r)'
    <3>1. req'[r].at = "session.vendor" /\ req'[r].p = p /\ req'[r].saw = kyc[p]
      BY <2>1 DEF StartSession, BeginSeeing
    <3> QED
      BY <3>1
  <2>5. ASSUME NEW p \in Providers, GoLive(r, p) PROVE Looked(r)'
    BY <2>5 DEF GoLive, Begin
  <2>2. ASSUME NEW e \in Events, DiditWebhook(r, e) PROVE Looked(r)'
    BY <2>2 DEF DiditWebhook, BeginEvent
  <2>3. ASSUME NEW p \in Providers, NEW news \in SumsubNews, SumsubWebhook(r, p, news) PROVE Looked(r)'
    BY <2>3 DEF SumsubWebhook, BeginEvent
  <2>4. ASSUME NEW a \in Admins, NEW p \in Providers,
               \/ RequestApproval(r, a, p) \/ ConfirmExhausted(r, a, p)
               \/ ConfirmWrong(r, a, p) \/ ConfirmRight(r, a, p)
        PROVE  Looked(r)'
    BY ZenonT(40), <2>4 DEF RequestApproval, ConfirmExhausted, ConfirmWrong, ConfirmRight, BeginCode
  <2> QED
    BY <2>1, <2>2, <2>3, <2>4, <2>5 DEF Arrive
<1>3. ASSUME NEW q \in Requests PROVE Looked(q)'
  BY <1>1, <1>2, OthersLook
<1> QED
  BY <1>3 DEF LookInv

LEMMA ProceedLook ==
  ASSUME TypeOK, LookInv, ProvidersApart, NEW r \in Requests, Proceed(r)
  PROVE  LookInv'
<1>1. Alone(r) /\ Looked(r) /\ req \in [Requests -> Request]
  BY ProceedType DEF LookInv, TypeOK, RequestsTypeOK
<1>2. CASE WriteUnderReview(r) \/ WriteDecision(r) \/ WriteApproval(r)
  <2>1. \A p \in Providers \ {req[r].p} : kyc'[p] = kyc[p]
    BY <1>2 DEF WriteUnderReview, WriteDecision, WriteApproval, TypeOK, RowsTypeOK, providerRow
  <2>2. req'[r].at \in {"idle", "code.delete"}
    BY <1>1, <1>2 DEF WriteUnderReview, WriteDecision, WriteApproval, Goto, End, Idle, Request
  <2>3. Looked(r)'
    BY <2>2 DEF Looked
  <2> QED
    BY <1>1, <2>1, <2>3, OthersLook DEF LookInv
<1>3. CASE ~(WriteUnderReview(r) \/ WriteDecision(r) \/ WriteApproval(r))
  <2>1. UNCHANGED kyc
    BY <1>3 DEF Proceed, CreateSession, ClaimEvent, ReadProvider, WriteLive, StoreCode,
         CountGuess,
       ReadForApproval, DeleteCode, Stop, providerRow
  <2>2. Looked(r)'
    <3>1. CASE CreateSession(r)
      BY <1>1, <2>1, <3>1 DEF CreateSession, Goto, End, Idle, Request, Looked
    <3>2. CASE ReadProvider(r)
      BY <1>1, <2>1, <3>2 DEF ReadProvider, Request, Looked
    <3>3. CASE ReadForApproval(r)
      BY <1>1, <2>1, <3>3 DEF ReadForApproval, Goto, Request, Looked, Approvable
    <3>4. CASE ~(CreateSession(r) \/ ReadProvider(r) \/ ReadForApproval(r))
      <4>1. req'[r].at \in {"idle", "event.read"}
        BY <1>1, <1>3, <3>4 DEF Proceed, ClaimEvent, WriteLive, StoreCode, CountGuess,
             DeleteCode, Stop,
           Goto, End, Idle, Request
      <4> QED
        BY <4>1 DEF Looked
    <3> QED
      BY <3>1, <3>2, <3>3, <3>4
  <2> QED
    BY <1>1, <2>1, <2>2, OthersLook DEF LookInv
<1> QED
  BY <1>2, <1>3

LEMMA LookInvariance == Spec /\ []ProvidersApart => []LookInv
<1>1. Init => LookInv
  BY DEF Init, Idle, LookInv, Looked
<1>2. TypeOK /\ LookInv /\ ProvidersApart /\ [Next]_vars => LookInv'
  <2> SUFFICES ASSUME TypeOK, LookInv, ProvidersApart, [Next]_vars PROVE LookInv'
    OBVIOUS
  <2>1. CASE Environment \/ Rest \/ UNCHANGED vars
    <3>1. UNCHANGED <<kyc, req>>
      BY <2>1 DEF Environment, DiditDecides, SumsubApproves, GoOffline, ExpireCode, Rest, vars,
           providerRow
    <3> QED
      BY <3>1 DEF LookInv, Looked, Approvable
  <2> QED
    BY <2>1, ArriveLook, ProceedLook DEF Next
<1> QED
  BY <1>1, <1>2, TypeCorrect, PTL DEF Spec

(* What may become of a provider's status.                                 *)
Respects(p) ==
  /\ kyc[p] = "REJECTED" /\ kyc'[p] = "APPROVED" => reviewer'[p] = None
  /\ kyc[p] = "APPROVED" => kyc'[p] # "UNDER_REVIEW"

LEMMA StepRespects ==
  ASSUME TypeOK, LookInv, [Next]_vars, NEW p \in Providers
  PROVE  Respects(p)
<1>1. CASE kyc'[p] = kyc[p]
  BY <1>1 DEF Respects, TypeOK, RowsTypeOK, KycStatus
<1>2. ASSUME NEW r \in Requests, Looked(r), req[r].p \in Providers,
             WriteUnderReview(r) \/ WriteDecision(r) \/ WriteApproval(r)
      PROVE  Respects(p)
  <2>1. CASE WriteUnderReview(r)
    BY <1>2, <2>1 DEF WriteUnderReview, Looked, Startable, Respects, TypeOK, RowsTypeOK
  <2>2. CASE WriteDecision(r)
    <3>1. CASE UNCHANGED providerRow
      BY <3>1 DEF Respects, TypeOK, RowsTypeOK, providerRow
    <3>2. CASE ~UNCHANGED providerRow
      <4>1. /\ kyc' = [kyc EXCEPT ![req[r].p] = StatusAfter(req[r].news)]
            /\ reviewer' = [reviewer EXCEPT ![req[r].p] =
                 IF req[r].news \in {"approved", "declined", "retry"} THEN None ELSE @]
            /\ req[r].at = "event.write" /\ (req[r].news = "review" => Startable(req[r].saw))
        BY <2>2, <3>2 DEF WriteDecision
      <4>2. CASE req[r].news = "approved"
        BY <1>2, <4>1, <4>2 DEF StatusAfter, Respects, TypeOK, RowsTypeOK
      <4>3. CASE req[r].news = "review"
        BY <1>2, <4>1, <4>3 DEF StatusAfter, Startable, Looked, Respects, TypeOK, RowsTypeOK
      <4>4. CASE req[r].news \notin {"approved", "review"}
        <5>1. StatusAfter(req[r].news) \in {"REJECTED", "PENDING"}
          BY <4>4 DEF StatusAfter
        <5> QED
          BY <1>2, <4>1, <5>1 DEF Respects, TypeOK, RowsTypeOK
      <4> QED
        BY <4>2, <4>3, <4>4
    <3> QED
      BY <3>1, <3>2
  <2>3. CASE WriteApproval(r)
    BY <1>2, <2>3 DEF WriteApproval, Looked, Approvable, Respects, TypeOK, RowsTypeOK
  <2> QED
    BY <1>2, <2>1, <2>2, <2>3
<1>3. ASSUME NEW r \in Requests, Proceed(r), ~(WriteUnderReview(r) \/ WriteDecision(r) \/ WriteApproval(r))
      PROVE  UNCHANGED kyc
  BY <1>3 DEF Proceed, CreateSession, ClaimEvent, ReadProvider, WriteLive, StoreCode, CountGuess,
     ReadForApproval, DeleteCode, Stop, providerRow
<1>4. ASSUME NEW r \in Requests, WriteUnderReview(r) \/ WriteDecision(r) \/ WriteApproval(r)
      PROVE  Looked(r) /\ req[r].p \in Providers
  BY <1>4 DEF WriteUnderReview, WriteDecision, WriteApproval, LookInv, TypeOK, RequestsTypeOK
<1>5. \/ UNCHANGED kyc
      \/ \E r \in Requests : WriteUnderReview(r) \/ WriteDecision(r) \/ WriteApproval(r)
  BY <1>3, ArriveReads DEF Next, Environment, DiditDecides, SumsubApproves, GoOffline,
       ExpireCode, Rest, vars,
     providerRow
<1> QED
  BY <1>1, <1>2, <1>4, <1>5

(* As long as no two requests work on one provider, an administrator's     *)
(* code never overrides a rejection, however old the code is               *)
(* (confirmProviderKycApproval's second look).                             *)
THEOREM RejectionsHold == Spec /\ []ProvidersApart => RejectionHolds
<1>1. TypeOK /\ LookInv /\ [Next]_vars =>
        [\A p \in Providers : kyc[p] = "REJECTED" /\ kyc'[p] = "APPROVED" => reviewer'[p] = None]_vars
  BY StepRespects DEF Respects
<1> QED
  BY <1>1, TypeCorrect, LookInvariance, PTL DEF Spec, RejectionHolds

(* On the same condition, no webhook and no new session sends an approved  *)
(* provider back to review (getKycAccessToken, "In Review").               *)
THEOREM ApprovedStaysApproved == Spec /\ []ProvidersApart => ApprovedIsNotReviewed
<1>1. TypeOK /\ LookInv /\ [Next]_vars =>
        [\A p \in Providers : kyc[p] = "APPROVED" => kyc'[p] # "UNDER_REVIEW"]_vars
  BY StepRespects DEF Respects
<1> QED
  BY <1>1, TypeCorrect, LookInvariance, PTL DEF Spec, ApprovedIsNotReviewed
=============================================================================
