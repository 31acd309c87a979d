-------------------------------- MODULE Kyc --------------------------------
(***************************************************************************)
(* The identity verification of providers.  A provider starts a session at *)
(* Didit, whose webhooks report what it decides; Sumsub, used before,      *)
(* still reports on its applicants; an administrator may approve with a    *)
(* code mailed to him.  All of them write Provider.kycStatus by id, after  *)
(* reads that are steps of their own.  One-time codes and the keys of      *)
(* webhooks already seen are in Redis, written and read by separate calls. *)
(***************************************************************************)
EXTENDS Naturals

CONSTANTS
  Providers,    \* provider ids
  Events,       \* ids of Didit's events
  Admins,       \* administrators who may approve
  Requests,     \* requests the server can have in flight at once
  None,         \* no provider, event or administrator
  MaxAttempts,  \* KYC_APPROVAL_OTP_MAX_ATTEMPTS
  Ops,          \* what occurs
  Faults        \* may a request die between two awaits?

AllOps     == {"session", "didit", "sumsub", "approve", "live"}
KycStatus  == {"PENDING", "UNDER_REVIEW", "APPROVED", "REJECTED"}
DiditNews  == {"approved", "declined", "review", "resubmit", "expired"}
SumsubNews == {"approved", "declined", "review", "retry"}
News       == DiditNews \cup SumsubNews

ASSUME KycAssumption ==
  /\ None \notin Providers \cup Events \cup Admins
  /\ MaxAttempts \in Nat \ {0}
  /\ Ops \subseteq AllOps
  /\ Faults \in BOOLEAN

VARIABLES
  kyc,          \* Provider.kycStatus
  avail,        \* Provider.isAvailable
  reviewer,     \* Provider.kycReviewedBy
  otp,          \* the code stored for an administrator: its provider and attempts
  seen,         \* the dedupe keys didit:webhook_event:<id>
  sessions,     \* the providers Didit has a session of
  said,         \* what Didit decided, by event
  heard,        \* whom Sumsub approved (its other decisions leave no trace here)
  applied,      \* how often each event has been processed, up to 2 (history)
  guesses,      \* guesses refused since the last mail, to MaxAttempts + 1 (history)
  asked,        \* who asked for a code to approve whom (history)
  req           \* the requests in flight

providerRow == <<kyc, avail, reviewer>>
keys        == <<otp, seen>>
vendors     == <<sessions, said, heard>>
history     == <<applied, guesses, asked>>
vars        == <<providerRow, keys, vendors, history, req>>

Steps == {"idle", "session.vendor", "session.write", "event.claim", "event.read", "event.write",
          "live.write", "code.store", "code.count", "approve.read", "approve.write", "code.delete"}

Idle == [at |-> "idle", p |-> None, a |-> None, e |-> None, news |-> "review", saw |-> "PENDING", tries |-> 0]
Request == [at : Steps, p : Providers \cup {None}, a : Admins \cup {None}, e : Events \cup {None},
            news : News, saw : KycStatus, tries : Nat]

Begin(r, at, p)        == req[r].at = "idle" /\ req' = [req EXCEPT ![r] = [Idle EXCEPT !.at = at, !.p = p]]
BeginSeeing(r, at, p)  == req[r].at = "idle" /\ req' = [req EXCEPT ![r] = [Idle EXCEPT !.at = at, !.p = p, !.saw = kyc[p]]]
BeginEvent(r, at, p, e, news) ==
  req[r].at = "idle" /\ req' = [req EXCEPT ![r] = [Idle EXCEPT !.at = at, !.p = p, !.e = e, !.news = news, !.saw = kyc[p]]]
BeginCode(r, at, p, a, tries) ==
  req[r].at = "idle" /\ req' = [req EXCEPT ![r] = [Idle EXCEPT !.at = at, !.p = p, !.a = a, !.tries = tries]]
Goto(r, at) == req' = [req EXCEPT ![r].at = at]
End(r)      == req' = [req EXCEPT ![r] = Idle]

NoCode == [p |-> None, tries |-> 0]

(* Some applicants were under review at Sumsub when Didit took over.       *)
Init ==
  /\ kyc \in [Providers -> {"PENDING", "UNDER_REVIEW"}]
  /\ avail = [p \in Providers |-> FALSE]
  /\ reviewer = [p \in Providers |-> None]
  /\ otp = [a \in Admins |-> NoCode]
  /\ seen = {} /\ sessions = {} /\ heard = {} /\ asked = {}
  /\ said = [e \in Events |-> [p |-> None, news |-> "review"]]
  /\ applied = [e \in Events |-> 0]
  /\ guesses = [a \in Admins |-> 0]
  /\ req = [r \in Requests |-> Idle]

-----------------------------------------------------------------------------
(* ProvidersService.getKycAccessToken: read the status, ask Didit for a    *)
(* session, and mark the provider under review if it was open then.        *)
Startable_Approved_Mutant(s) == TRUE

Startable(s) == s \in {"PENDING", "REJECTED"}

StartSession(r, p) ==
  /\ "session" \in Ops
  /\ kyc[p] # "APPROVED"
  /\ BeginSeeing(r, "session.vendor", p)
  /\ UNCHANGED <<providerRow, keys, vendors, history>>

CreateSession(r) ==
  /\ req[r].at = "session.vendor"
  /\ sessions' = sessions \cup {req[r].p}
  /\ IF Startable(req[r].saw) THEN Goto(r, "session.write") ELSE End(r)
  /\ UNCHANGED <<providerRow, keys, said, heard, history>>

WriteUnderReview(r) ==
  /\ req[r].at = "session.write"
  /\ kyc' = [kyc EXCEPT ![req[r].p] = "UNDER_REVIEW"]
  /\ End(r)
  /\ UNCHANGED <<avail, reviewer, keys, vendors, history>>

-----------------------------------------------------------------------------
(* The vendors decide, in any order and as often as they like.             *)
DiditDecides(e, p, news) ==
  /\ said[e].p = None /\ p \in sessions
  /\ said' = [said EXCEPT ![e] = [p |-> p, news |-> news]]
  /\ UNCHANGED <<providerRow, keys, sessions, heard, history, req>>

SumsubApproves(p) ==
  /\ "sumsub" \in Ops
  /\ heard' = heard \cup {p}
  /\ UNCHANGED <<providerRow, keys, sessions, said, history, req>>

(* DiditWebhookController: an event not seen before is marked as seen, the *)
(* provider is read, and the decision is written.  Deliveries repeat, late *)
(* and out of order; the key outlives the time in which they are accepted. *)
Fresh_Any_Mutant(e) == TRUE

Fresh(e) == e \notin seen

DiditWebhook(r, e) ==
  /\ "didit" \in Ops
  /\ said[e].p # None /\ Fresh(e)
  /\ BeginEvent(r, "event.claim", said[e].p, e, said[e].news)
  /\ UNCHANGED <<providerRow, keys, vendors, history>>

ClaimEvent_Lost_Mutant(r) ==
  /\ req[r].at = "event.claim"
  /\ seen' = seen \cup {req[r].e}
  /\ End(r)
  /\ UNCHANGED <<providerRow, otp, vendors, history>>

ClaimEvent(r) ==
  /\ req[r].at = "event.claim"
  /\ seen' = seen \cup {req[r].e}
  /\ Goto(r, "event.read")
  /\ UNCHANGED <<providerRow, otp, vendors, history>>

ReadProvider(r) ==
  /\ req[r].at = "event.read"
  /\ req' = [req EXCEPT ![r].at = "event.write", ![r].saw = kyc[req[r].p]]
  /\ UNCHANGED <<providerRow, keys, vendors, history>>

(* SumsubWebhookController: no dedupe; it begins with the provider.        *)
SumsubWebhook(r, p, news) ==
  /\ "sumsub" \in Ops
  /\ news = "approved" => p \in heard
  /\ BeginEvent(r, "event.write", p, None, news)
  /\ UNCHANGED <<providerRow, keys, vendors, history>>

(* What both write.  A verdict is written whatever the status is, "under   *)
(* review" only if the provider that was read was open.                    *)
StatusAfter_Name_Mutant(news) == news

StatusAfter(news) ==
  CASE news = "approved" -> "APPROVED" [] news = "declined" -> "REJECTED"
    [] news = "review" -> "UNDER_REVIEW" [] OTHER -> "PENDING"

WriteDecision(r) == LET p == req[r].p e == req[r].e news == req[r].news IN
  /\ req[r].at = "event.write"
  /\ IF news = "review" /\ ~Startable(req[r].saw)
     THEN UNCHANGED providerRow
     ELSE /\ kyc' = [kyc EXCEPT ![p] = StatusAfter(news)]
          /\ avail' = [avail EXCEPT ![p] = @ \/ news = "approved"]
          /\ reviewer' = [reviewer EXCEPT ![p] = IF news \in {"approved", "declined", "retry"} THEN None ELSE @]
  /\ applied' = [x \in Events |-> IF x = e /\ applied[x] < 2 THEN applied[x] + 1 ELSE applied[x]]
  /\ End(r)
  /\ UNCHANGED <<keys, vendors, guesses, asked>>

-----------------------------------------------------------------------------
(* ProvidersService.updateProfile: going live looks at the status first,   *)
(* going offline does not.                                                 *)
MayGoLive_Any_Mutant(p) == TRUE

MayGoLive(p) == kyc[p] = "APPROVED"

GoLive(r, p) ==
  /\ "live" \in Ops
  /\ MayGoLive(p)
  /\ Begin(r, "live.write", p)
  /\ UNCHANGED <<providerRow, keys, vendors, history>>

WriteLive(r) ==
  /\ req[r].at = "live.write"
  /\ avail' = [avail EXCEPT ![req[r].p] = TRUE]
  /\ End(r)
  /\ UNCHANGED <<kyc, reviewer, keys, vendors, history>>

GoOffline(p) ==
  /\ "live" \in Ops
  /\ avail' = [avail EXCEPT ![p] = FALSE]
  /\ UNCHANGED <<kyc, reviewer, keys, vendors, history, req>>

-----------------------------------------------------------------------------
(* AdminService.requestProviderKycApproval: after the password, look at    *)
(* the provider, then store a new code and mail it.                        *)
Approvable_Rejected_Mutant(p) == kyc[p] # "APPROVED"

Approvable(p) == kyc[p] \in {"PENDING", "UNDER_REVIEW"}

RequestApproval(r, a, p) ==
  /\ "approve" \in Ops
  /\ Approvable(p)
  /\ BeginCode(r, "code.store", p, a, 0)
  /\ UNCHANGED <<providerRow, keys, vendors, history>>

StoreCode(r) == LET a == req[r].a IN
  /\ req[r].at = "code.store"
  /\ otp' = [otp EXCEPT ![a] = [p |-> req[r].p, tries |-> 0]]
  /\ guesses' = [guesses EXCEPT ![a] = 0]
  /\ asked' = asked \cup {<<a, req[r].p>>}
  /\ End(r)
  /\ UNCHANGED <<providerRow, seen, vendors, applied>>

(* The key's lifetime ends.                                                *)
ExpireCode(a) ==
  /\ otp[a] # NoCode
  /\ otp' = [otp EXCEPT ![a] = NoCode]
  /\ UNCHANGED <<providerRow, seen, vendors, history, req>>

(* confirmProviderKycApproval: the stored code decides what happens.  Too  *)
(* many attempts and it is deleted; a code for another provider changes    *)
(* nothing; a wrong one is counted, from the number read; the right one    *)
(* leads to a second look at the provider, the approval, and the delete.   *)
IssuedFor_Any_Mutant(a, p) == otp[a] # NoCode

IssuedFor(a, p) == otp[a].p = p

Exhausted_OffByOne_Mutant(a) == otp[a].tries > MaxAttempts

Exhausted(a) == otp[a].tries >= MaxAttempts

ConfirmExhausted(r, a, p) ==
  /\ "approve" \in Ops
  /\ otp[a] # NoCode /\ Exhausted(a)
  /\ BeginCode(r, "code.delete", p, a, 0)
  /\ UNCHANGED <<providerRow, keys, vendors, history>>

ConfirmWrong(r, a, p) ==
  /\ "approve" \in Ops
  /\ otp[a] # NoCode /\ ~Exhausted(a) /\ IssuedFor(a, p)
  /\ BeginCode(r, "code.count", otp[a].p, a, otp[a].tries + 1)
  /\ UNCHANGED <<providerRow, keys, vendors, history>>

ConfirmRight(r, a, p) ==
  /\ "approve" \in Ops
  /\ otp[a] # NoCode /\ ~Exhausted(a) /\ IssuedFor(a, p)
  /\ BeginCode(r, "approve.read", p, a, 0)
  /\ UNCHANGED <<providerRow, keys, vendors, history>>

CountGuess(r) == LET a == req[r].a IN
  /\ req[r].at = "code.count"
  /\ otp' = [otp EXCEPT ![a] = [p |-> req[r].p, tries |-> req[r].tries]]
  /\ guesses' = [guesses EXCEPT ![a] = IF @ > MaxAttempts THEN @ ELSE @ + 1]
  /\ End(r)
  /\ UNCHANGED <<providerRow, seen, vendors, applied, asked>>

ReadForApproval(r) ==
  /\ req[r].at = "approve.read"
  /\ Goto(r, IF Approvable(req[r].p) THEN "approve.write" ELSE "code.delete")
  /\ UNCHANGED <<providerRow, keys, vendors, history>>

WriteApproval(r) == LET p == req[r].p IN
  /\ req[r].at = "approve.write"
  /\ kyc' = [kyc EXCEPT ![p] = "APPROVED"]
  /\ reviewer' = [reviewer EXCEPT ![p] = req[r].a]
  /\ Goto(r, "code.delete")
  /\ UNCHANGED <<avail, keys, vendors, history>>

DeleteCode(r) ==
  /\ req[r].at = "code.delete"
  /\ otp' = [otp EXCEPT ![req[r].a] = NoCode]
  /\ End(r)
  /\ UNCHANGED <<providerRow, seen, vendors, history>>

-----------------------------------------------------------------------------
(* Didit may refuse a session; under Faults a request may die anywhere.    *)
Stop(r) ==
  /\ req[r].at # "idle"
  /\ Faults \/ req[r].at = "session.vendor"
  /\ End(r)
  /\ UNCHANGED <<providerRow, keys, vendors, history>>

Arrive(r) ==
  \/ \E p \in Providers : StartSession(r, p) \/ GoLive(r, p)
  \/ \E e \in Events : DiditWebhook(r, e)
  \/ \E p \in Providers, news \in SumsubNews : SumsubWebhook(r, p, news)
  \/ \E a \in Admins, p \in Providers :
       \/ RequestApproval(r, a, p)
       \/ ConfirmExhausted(r, a, p)
       \/ ConfirmWrong(r, a, p)
       \/ ConfirmRight(r, a, p)

Proceed(r) ==
  \/ CreateSession(r) \/ WriteUnderReview(r)
  \/ ClaimEvent(r)    \/ ReadProvider(r)     \/ WriteDecision(r)
  \/ WriteLive(r)
  \/ StoreCode(r)     \/ CountGuess(r)
  \/ ReadForApproval(r) \/ WriteApproval(r)  \/ DeleteCode(r)
  \/ Stop(r)

Environment ==
  \/ \E e \in Events, p \in Providers, news \in DiditNews : DiditDecides(e, p, news)
  \/ \E p \in Providers : SumsubApproves(p) \/ GoOffline(p)
  \/ \E a \in Admins : ExpireCode(a)

Rest ==
  /\ \A r \in Requests : req[r].at = "idle"
  /\ UNCHANGED vars

Next == (\E r \in Requests : Arrive(r) \/ Proceed(r)) \/ Environment \/ Rest

Spec == Init /\ [][Next]_vars

(* Handlers are resumed, and Didit repeats an event until it is accepted.  *)
FairSpec ==
  /\ Spec
  /\ \A r \in Requests : WF_vars(Proceed(r))
  /\ \A e \in Events : SF_vars(\E r \in Requests : DiditWebhook(r, e))

-----------------------------------------------------------------------------
(* Rows, keys and requests keep their types.                               *)
RowsTypeOK ==
  /\ kyc \in [Providers -> KycStatus]
  /\ avail \in [Providers -> BOOLEAN]
  /\ reviewer \in [Providers -> Admins \cup {None}]
  /\ otp \in [Admins -> [p : Providers \cup {None}, tries : Nat]]
  /\ seen \subseteq Events
  /\ sessions \subseteq Providers
  /\ said \in [Events -> [p : Providers \cup {None}, news : News]]
  /\ heard \subseteq Providers
  /\ applied \in [Events -> Nat]
  /\ guesses \in [Admins -> Nat]
  /\ asked \subseteq Admins \X Providers

(* A request knows its provider, an approving one its administrator, and   *)
(* one about to claim an event the event.                                  *)
Coding == {"code.store", "code.count", "approve.read", "approve.write", "code.delete"}

RequestsTypeOK ==
  /\ req \in [Requests -> Request]
  /\ \A r \in Requests : req[r].at # "idle" => req[r].p \in Providers
  /\ \A r \in Requests : req[r].at \in Coding => req[r].a \in Admins
  /\ \A r \in Requests : req[r].at = "event.claim" => req[r].e \in Events

TypeOK == RowsTypeOK /\ RequestsTypeOK

(* A vendor has approved the provider, some time.                          *)
VendorApproved(p) ==
  p \in heard \/ \E e \in Events : said[e] = [p |-> p, news |-> "approved"]

(* A provider is approved only on a vendor's verdict, or by the reviewer   *)
(* on record after he had asked for this very provider, however webhooks,  *)
(* codes and sessions overlap (handleWebhook, confirmProviderKycApproval). *)
ApprovalIsEarned ==
  \A p \in Providers : kyc[p] = "APPROVED" =>
    IF reviewer[p] = None THEN VendorApproved(p) ELSE <<reviewer[p], p>> \in asked

(* A provider can be booked only if somebody has approved him, some time   *)
(* (updateProfile: "Complete identity verification before going live").    *)
AvailableIsEarned ==
  \A p \in Providers : avail[p] => VendorApproved(p) \/ \E a \in Admins : <<a, p>> \in asked

(* An approved provider is not sent back to review by a webhook or a       *)
(* session (getKycAccessToken, "In Review", applicantPending).             *)
ApprovedIsNotReviewed ==
  [][\A p \in Providers : kyc[p] = "APPROVED" => kyc'[p] # "UNDER_REVIEW"]_vars

(* An administrator never overrides a rejection: one approved right after  *)
(* has a vendor's verdict (confirmProviderKycApproval's second look).      *)
RejectionHolds ==
  [][\A p \in Providers : kyc[p] = "REJECTED" /\ kyc'[p] = "APPROVED" => reviewer'[p] = None]_vars

(* An event is processed once, redelivered or not, crashes included:       *)
(* "Single-use / dedupe on event_id".                                      *)
AppliedOnce == \A e \in Events : applied[e] <= 1

(* No more guesses at a code are answered "Invalid or expired code" than   *)
(* KYC_APPROVAL_OTP_MAX_ATTEMPTS, though others die before they count.     *)
GuessesAreBounded == \A a \in Admins : guesses[a] <= MaxAttempts

(* What Didit decided reaches the provider's row, in spite of overlapping  *)
(* deliveries and other requests (DiditWebhookController).                 *)
VerdictLands == \A e \in Events : (said[e].p # None) ~> (applied[e] > 0)
=============================================================================
