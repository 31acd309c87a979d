------------------------------- MODULE Wallet -------------------------------
(***************************************************************************)
(* One provider's wallet: withdrawals, the transfers Flutterwave makes for *)
(* them, its webhooks, an administrator's approval or rejection, and the   *)
(* credit of a payout.  A withdrawal is known by its idempotency key, which*)
(* the code builds from provider, amount and day, so a key fixes the       *)
(* amount.  As in Escrow each `await` is a step.  A transaction runs at    *)
(* PostgreSQL's default READ COMMITTED: its reads are steps of their own,  *)
(* its writes and the commit are one.                                      *)
(***************************************************************************)
EXTENDS Integers, FiniteSetsExt

CONSTANTS
  Keys,         \* idempotency keys, one withdrawal row each
  Amount,       \* the amount of each key
  Requests,     \* requests the server can have in flight at once
  NoKey,        \* the key of a request that has none
  Ops,          \* endpoints and callbacks that occur
  Opening,      \* what the provider had earned at the start
  Earning,      \* what one payout credits
  Limit,        \* bound: no credit, report or decision arrives beyond these totals
  Faults        \* may a request die between awaits, or an answer get lost?

AllOps   == {"withdraw", "webhook", "progress", "approve", "reject", "credit"}
Final    == {"SUCCESSFUL", "FAILED", "REVERSED"}
Open     == {"PENDING", "PROCESSING"}
Status   == {"NONE", "APPROVED", "REJECTED"} \cup Open \cup Final
Transfer == {"none", "sent", "paid", "failed", "reversed"}

ASSUME WalletAssumption ==
  /\ NoKey \notin Keys
  /\ Amount \in [Keys -> Nat \ {0}]
  /\ Ops \subseteq AllOps
  /\ Opening \in Nat /\ Earning \in Nat /\ Limit \in Nat
  /\ Faults \in BOOLEAN

VARIABLES
  balance,      \* Wallet.balance
  pending,      \* Wallet.pendingBalance
  reserved,     \* Wallet.reservedBalance
  withdrawn,    \* Wallet.totalWithdrawn
  earned,       \* Wallet.totalEarned
  recorded,     \* the sum of the wallet's transaction rows
  status,       \* WithdrawalRequest.status; NONE before the insert
  transfer,     \* the transfer, at the gateway
  lost,         \* has a request died or an answer been lost? (history)
  ruled,        \* has an administrator decided? (history)
  req           \* the requests in flight

purse   == <<balance, pending, reserved, withdrawn>>
history == <<lost, ruled>>
vars    == <<purse, earned, recorded, status, transfer, history, req>>

Steps == {"idle", "withdraw.existing", "reserve.balance", "reserve.duplicate", "reserve.write",
          "transfer", "transfer.mark", "transfer.undo", "webhook.read", "webhook.write",
          "approve.wallet", "reject.wallet", "credit.write", "credit.record"}

Idle    == [at |-> "idle", k |-> NoKey, news |-> "none", saw |-> 0]
Request == [at : Steps, k : Keys \cup {NoKey}, news : Transfer, saw : Int]

Begin(r, step, k, news, saw) ==
  /\ req[r].at = "idle"
  /\ req' = [req EXCEPT ![r] = [at |-> step, k |-> k, news |-> news, saw |-> saw]]
Goto(r, step) == req' = [req EXCEPT ![r].at = step]
End(r) == req' = [req EXCEPT ![r] = Idle]

Init ==
  /\ balance = Opening /\ earned = Opening
  /\ pending = 0 /\ reserved = 0 /\ withdrawn = 0 /\ recorded = 0
  /\ status = [k \in Keys |-> "NONE"]
  /\ transfer = [k \in Keys |-> "none"]
  /\ lost = FALSE /\ ruled = FALSE
  /\ req = [r \in Requests |-> Idle]

-----------------------------------------------------------------------------
(* What a withdrawal does to the wallet's columns.                         *)
Affordable_NoCheck_Mutant(k) == TRUE

Affordable(k) == balance >= Amount[k]

Reserve_NoBalance_Mutant(k) ==
  /\ balance' = balance
  /\ pending' = pending + Amount[k]
  /\ reserved' = reserved + Amount[k]
  /\ UNCHANGED withdrawn

Reserve(k) ==
  /\ balance' = balance - Amount[k]
  /\ pending' = pending + Amount[k]
  /\ reserved' = reserved + Amount[k]
  /\ UNCHANGED withdrawn

Release_KeepReserved_Mutant(k) ==
  /\ balance' = balance + Amount[k]
  /\ pending' = pending - Amount[k]
  /\ UNCHANGED <<reserved, withdrawn>>

Release(k) ==
  /\ balance' = balance + Amount[k]
  /\ pending' = pending - Amount[k]
  /\ reserved' = reserved - Amount[k]
  /\ UNCHANGED withdrawn

PayOut(k) ==
  /\ pending' = pending - Amount[k]
  /\ reserved' = reserved - Amount[k]
  /\ withdrawn' = withdrawn + Amount[k]
  /\ UNCHANGED balance

-----------------------------------------------------------------------------
(* WalletService.requestWithdrawal: look at the balance, then for an       *)
(* earlier row with this key, which is returned as it is.                  *)
RequestWithdrawal(r, k) ==
  /\ "withdraw" \in Ops
  /\ Affordable(k)
  /\ Begin(r, "withdraw.existing", k, "none", 0)
  /\ UNCHANGED <<purse, earned, recorded, status, transfer, history>>

FindExisting(r) ==
  /\ req[r].at = "withdraw.existing"
  /\ IF status[req[r].k] = "NONE" THEN Goto(r, "reserve.balance") ELSE End(r)
  /\ UNCHANGED <<purse, earned, recorded, status, transfer, history>>

(* The reserving transaction: look at both again, then move the amount     *)
(* (decrements, not the value read) and insert the row.  A row committed   *)
(* since is found here and carried on to the transfer, or breaks the       *)
(* unique key and rolls everything back.                                   *)
RecheckBalance(r) ==
  /\ req[r].at = "reserve.balance"
  /\ Affordable(req[r].k)
  /\ Goto(r, "reserve.duplicate")
  /\ UNCHANGED <<purse, earned, recorded, status, transfer, history>>

FindDuplicate(r) ==
  /\ req[r].at = "reserve.duplicate"
  /\ Goto(r, IF status[req[r].k] = "NONE" THEN "reserve.write" ELSE "transfer")
  /\ UNCHANGED <<purse, earned, recorded, status, transfer, history>>

ReserveAmount(r) == LET k == req[r].k IN
  /\ req[r].at = "reserve.write"
  /\ status[k] = "NONE"
  /\ Reserve(k)
  /\ status' = [status EXCEPT ![k] = "PENDING"]
  /\ Goto(r, "transfer")
  /\ UNCHANGED <<earned, recorded, transfer, history>>

(* Verify the account and order the transfer.  The key goes along as the   *)
(* gateway's idempotency key, so a repeated order changes nothing.  Any    *)
(* error, an answer lost on the way included, undoes the reservation.      *)
SendTransfer_LateError_Mutant(r) == LET k == req[r].k IN
  /\ req[r].at = "transfer"
  /\ transfer' = [transfer EXCEPT ![k] = IF @ = "none" THEN "sent" ELSE @]
  /\ \E next \in {"transfer.mark", "transfer.undo"} : Goto(r, next)
  /\ UNCHANGED <<purse, earned, recorded, status, history>>

SendTransfer(r) == LET k == req[r].k IN
  /\ req[r].at = "transfer"
  /\ \/ /\ transfer' = [transfer EXCEPT ![k] = IF @ = "none" THEN "sent" ELSE @]
        /\ \/ Goto(r, "transfer.mark") /\ UNCHANGED lost
           \/ Faults /\ Goto(r, "transfer.undo") /\ lost' = TRUE
     \/ /\ UNCHANGED <<transfer, lost>>
        /\ Goto(r, "transfer.undo")
  /\ UNCHANGED <<purse, earned, recorded, status, ruled>>

MarkProcessing(r) ==
  /\ req[r].at = "transfer.mark"
  /\ status' = [status EXCEPT ![req[r].k] = "PROCESSING"]
  /\ End(r)
  /\ UNCHANGED <<purse, earned, recorded, transfer, history>>

UndoReservation_StatusOnly_Mutant(r) == LET k == req[r].k IN
  /\ req[r].at = "transfer.undo"
  /\ status' = [status EXCEPT ![k] = "FAILED"]
  /\ End(r)
  /\ UNCHANGED <<purse, earned, recorded, transfer, history>>

UndoReservation(r) == LET k == req[r].k IN
  /\ req[r].at = "transfer.undo"
  /\ Release(k)
  /\ status' = [status EXCEPT ![k] = "FAILED"]
  /\ End(r)
  /\ UNCHANGED <<earned, recorded, transfer, history>>

-----------------------------------------------------------------------------
(* The gateway works a transfer off, and reports each state it went        *)
(* through any number of times, in any order.                              *)
GatewayMoves(k) ==
  /\ \/ transfer[k] = "sent" /\ \E s \in {"paid", "failed"} : transfer' = [transfer EXCEPT ![k] = s]
     \/ transfer[k] = "paid" /\ transfer' = [transfer EXCEPT ![k] = "reversed"]
  /\ UNCHANGED <<purse, earned, recorded, status, history, req>>

Reports(k) ==
  CASE transfer[k] = "none"     -> {}
    [] transfer[k] = "sent"     -> {"sent"}
    [] transfer[k] = "paid"     -> {"sent", "paid"}
    [] transfer[k] = "failed"   -> {"sent", "failed"}
    [] transfer[k] = "reversed" -> {"sent", "paid", "reversed"}

(* WalletService.handleFlutterwaveWebhook: skip a withdrawal in a final    *)
(* status, look again inside the transaction, then write.                  *)
Settled_NotSuccessful_Mutant(k) == status[k] \in Final \ {"SUCCESSFUL"}

Settled(k) == status[k] \in Final

Webhook(r, k, news) ==
  /\ news \in Reports(k) /\ (IF news = "sent" THEN "progress" ELSE "webhook") \in Ops
  /\ status[k] # "NONE" /\ ~Settled(k)
  /\ withdrawn < Limit /\ balance < Limit
  /\ Begin(r, "webhook.read", k, news, 0)
  /\ UNCHANGED <<purse, earned, recorded, status, transfer, history>>

ReadAgain(r) ==
  /\ req[r].at = "webhook.read"
  /\ ~Settled(req[r].k)
  /\ Goto(r, "webhook.write")
  /\ UNCHANGED <<purse, earned, recorded, status, transfer, history>>

StatusAfter_Name_Mutant(news) == news

StatusAfter_NoFailed_Mutant(news) ==
  CASE news = "paid" -> "SUCCESSFUL" [] news = "reversed" -> "REVERSED" [] OTHER -> "PROCESSING"

StatusAfter(news) ==
  CASE news = "paid" -> "SUCCESSFUL" [] news = "failed" -> "FAILED"
    [] news = "reversed" -> "REVERSED" [] OTHER -> "PROCESSING"

ApplyReport(r) == LET k == req[r].k IN
  /\ req[r].at = "webhook.write"
  /\ CASE req[r].news = "paid" -> PayOut(k)
       [] req[r].news \in {"failed", "reversed"} -> Release(k)
       [] OTHER -> UNCHANGED purse
  /\ status' = [status EXCEPT ![k] = StatusAfter(req[r].news)]
  /\ End(r)
  /\ UNCHANGED <<earned, recorded, transfer, history>>

-----------------------------------------------------------------------------
(* AdminService.approveWithdrawal, after its payments (see Escrow), and    *)
(* rejectWithdrawal: write the status whatever it was, then the wallet.    *)
Approve(r, k) ==
  /\ "approve" \in Ops
  /\ status[k] # "NONE" /\ withdrawn < Limit
  /\ Begin(r, "approve.wallet", k, "none", 0)
  /\ status' = [status EXCEPT ![k] = "APPROVED"]
  /\ ruled' = TRUE
  /\ UNCHANGED <<purse, earned, recorded, transfer, lost>>

PayApproved(r) == LET k == req[r].k IN
  /\ req[r].at = "approve.wallet"
  /\ pending' = pending - Amount[k]
  /\ withdrawn' = withdrawn + Amount[k]
  /\ End(r)
  /\ UNCHANGED <<balance, reserved, earned, recorded, status, transfer, history>>

Reject(r, k) ==
  /\ "reject" \in Ops
  /\ status[k] # "NONE" /\ balance < Limit
  /\ Begin(r, "reject.wallet", k, "none", 0)
  /\ status' = [status EXCEPT ![k] = "REJECTED"]
  /\ ruled' = TRUE
  /\ UNCHANGED <<purse, earned, recorded, transfer, lost>>

ReturnRejected(r) == LET k == req[r].k IN
  /\ req[r].at = "reject.wallet"
  /\ balance' = balance + Amount[k]
  /\ pending' = pending - Amount[k]
  /\ End(r)
  /\ UNCHANGED <<reserved, withdrawn, earned, recorded, status, transfer, history>>

(* WalletService.credit: the balance is written as the value read plus the *)
(* amount, totalEarned by an increment, then the transaction row.          *)
Credit(r) ==
  /\ "credit" \in Ops
  /\ earned < Limit
  /\ Begin(r, "credit.write", NoKey, "none", balance)
  /\ UNCHANGED <<purse, earned, recorded, status, transfer, history>>

WriteCredit_Absolute_Mutant(r) ==
  /\ req[r].at = "credit.write"
  /\ balance' = req[r].saw + Earning
  /\ earned' = req[r].saw + Earning
  /\ Goto(r, "credit.record")
  /\ UNCHANGED <<pending, reserved, withdrawn, recorded, status, transfer, history>>

WriteCredit(r) ==
  /\ req[r].at = "credit.write"
  /\ balance' = req[r].saw + Earning
  /\ earned' = earned + Earning
  /\ Goto(r, "credit.record")
  /\ UNCHANGED <<pending, reserved, withdrawn, recorded, status, transfer, history>>

RecordCredit(r) ==
  /\ req[r].at = "credit.record"
  /\ recorded' = recorded + Earning
  /\ End(r)
  /\ UNCHANGED <<purse, earned, status, transfer, history>>

-----------------------------------------------------------------------------
(* A request ends early when its next check fails, when the unique key is  *)
(* taken, or, under Faults, anywhere.                                      *)
Refused(r) == LET k == req[r].k IN
  \/ req[r].at = "reserve.balance" /\ ~Affordable(k)
  \/ req[r].at = "reserve.write" /\ status[k] # "NONE"
  \/ req[r].at = "webhook.read" /\ Settled(k)

Stop(r) ==
  /\ req[r].at # "idle"
  /\ Faults \/ Refused(r)
  /\ End(r)
  /\ lost' = (lost \/ ~Refused(r))
  /\ UNCHANGED <<purse, earned, recorded, status, transfer, ruled>>

Arrive(r) ==
  \/ Credit(r)
  \/ \E k \in Keys : RequestWithdrawal(r, k) \/ Approve(r, k) \/ Reject(r, k)
  \/ \E k \in Keys, news \in Transfer : Webhook(r, k, news)

Proceed(r) ==
  \/ FindExisting(r)   \/ RecheckBalance(r) \/ FindDuplicate(r)   \/ ReserveAmount(r)
  \/ SendTransfer(r)   \/ MarkProcessing(r) \/ UndoReservation(r)
  \/ ReadAgain(r)      \/ ApplyReport(r)
  \/ PayApproved(r)    \/ ReturnRejected(r)
  \/ WriteCredit(r)    \/ RecordCredit(r)
  \/ Stop(r)

Rest ==
  /\ \A r \in Requests : req[r].at = "idle"
  /\ UNCHANGED vars

Next ==
  \/ \E r \in Requests : Arrive(r) \/ Proceed(r)
  \/ \E k \in Keys : GatewayMoves(k)
  \/ Rest

Spec == Init /\ [][Next]_vars

(* What the gateway reports in the end, short of a reversal.               *)
Outcome(k) == IF transfer[k] = "failed" THEN "failed" ELSE "paid"

-----------------------------------------------------------------------------
(* Every column keeps its type; sums of Decimals may turn negative.        *)
ColumnsTypeOK ==
  /\ balance \in Int /\ pending \in Int /\ reserved \in Int
  /\ withdrawn \in Nat /\ earned \in Nat /\ recorded \in Nat
  /\ status \in [Keys -> Status]
  /\ transfer \in [Keys -> Transfer]
  /\ lost \in BOOLEAN /\ ruled \in BOOLEAN

(* A request holds its key from its first step to its last.                *)
Keyless == {"idle", "credit.write", "credit.record"}

RequestsTypeOK ==
  /\ req \in [Requests -> Request]
  /\ \A r \in Requests : req[r].at \notin Keyless => req[r].k \in Keys

TypeOK == ColumnsTypeOK /\ RequestsTypeOK

AtRest == \A r \in Requests : req[r].at = "idle"

Sum(S) == MapThenSumSet(LAMBDA k : Amount[k], {k \in Keys : status[k] \in S})

(* No withdrawal step makes or loses money: what the provider earned is    *)
(* available, pending or withdrawn, however requests and reports overlap.  *)
(* (credit, which writes back a balance it read, keeps this only alone.)   *)
Conserved == balance + pending + withdrawn = earned

(* The money set aside is the money pending (requestWithdrawal, webhooks), *)
(* until an administrator decides: approveWithdrawal and rejectWithdrawal  *)
(* leave reservedBalance alone.                                            *)
ReservedIsPending == ~ruled => reserved = pending

(* A wallet is never overdrawn: "rejects a withdrawal when the amount      *)
(* exceeds available balance" (the two checks of requestWithdrawal), until *)
(* an administrator returns money that is on its way.                      *)
Solvent == ~ruled => balance >= 0

(* Between requests, what is pending is what the open withdrawals ask for: *)
(* no reservation is leaked or released twice, crashes included.           *)
OpenIsPending == AtRest /\ ~ruled => pending = Sum(Open)

(* A final status stays ("already in final state"), until an administrator *)
(* overwrites it (requestWithdrawal, handleFlutterwaveWebhook).            *)
FinalStaysFinal ==
  [][ruled' \/ \A k \in Keys : status[k] \in Final => status'[k] = status[k]]_vars

(* Between requests, what counts as withdrawn is the sum of the settled    *)
(* withdrawals, whatever was repeated, late or lost: none is settled twice *)
(* (handleFlutterwaveWebhook), until an administrator decides.             *)
WithdrawnOnce == AtRest /\ ~ruled => withdrawn = Sum({"SUCCESSFUL"})

(* Nothing lost, a withdrawal whose money went back to the balance was not *)
(* also paid by the gateway (the catch of requestWithdrawal, webhooks).    *)
FailedIsUnpaid ==
  ~lost => \A k \in Keys : status[k] = "FAILED" => transfer[k] \notin {"paid", "reversed"}

(* Nothing lost, the wallet's transaction rows add up to what it earned,   *)
(* between requests (credit).                                              *)
LedgerIsComplete == AtRest /\ ~lost => earned = Opening + recorded
=============================================================================
