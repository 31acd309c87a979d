------------------------------ MODULE MCSettles ------------------------------
(* What must happen in the end, on instances of Escrow, Wallet and Kyc in  *)
(* which two requests overlap.  The three share no rows, so a behaviour is *)
(* about one of them, and `part' says which; the others keep their first   *)
(* state.  For the wallet two things are remembered: which outcomes a      *)
(* handler has answered for, as Flutterwave repeats no report that was     *)
(* answered, and which settled withdrawals a late write has reopened.      *)
EXTENDS Naturals

CONSTANTS Requests, None, Bookings, Keys, Providers, Events, Admins

VARIABLES
  part,
  st, kind, pay, method, token, qr, credits, done, ledger, released,
  disputed, opened, secured, refunded, approved, atEscrow,
  balance, pending, reserved, withdrawn, earned, recorded, status, transfer,
  lost, ruled, atWallet, answered, reopened,
  kyc, avail, reviewer, otp, seen, sessions, said, heard, applied, guesses,
  asked, atKyc

(* Work and payout through PayFast, which never rewrites a payment row.    *)
PayfastOps == {"create", "PAYFAST", "callback", "updateStatus", "issueCompletionQr", "completeByQr",
               "confirmPayout"}
OnlineKinds == {"payNow", "later"}

Escrow == INSTANCE Escrow WITH
  req <- atEscrow, NoBooking <- None, Kinds <- OnlineKinds, MaxCredits <- 2, Faults <- FALSE,
  Ops <- PayfastOps

(* One withdrawal of the whole opening balance, asked for more than once,  *)
(* and final reports only.  Progress reports that overlap final ones would *)
(* reopen a settled withdrawal again and again, and leave no bound on the  *)
(* totals.                                                                 *)
Payouts  == {"withdraw", "webhook"}
AmountOf == [k \in Keys |-> 2]

Wallet == INSTANCE Wallet WITH
  req <- atWallet, NoKey <- None, Amount <- AmountOf, Opening <- 2, Earning <- 2, Limit <- 20,
  Faults <- FALSE, Ops <- Payouts

(* Sessions and Didit's reports on them.                                   *)
DiditOps == {"session", "didit"}

Kyc == INSTANCE Kyc WITH
  req <- atKyc, MaxAttempts <- 1, Faults <- FALSE, Ops <- DiditOps

escrowVars ==
  <<st, kind, pay, method, token, qr, credits, done, ledger, released,
    disputed, opened, secured, refunded, approved, atEscrow>>
walletVars ==
  <<balance, pending, reserved, withdrawn, earned, recorded, status, transfer,
    lost, ruled, atWallet, answered, reopened>>
kycVars ==
  <<kyc, avail, reviewer, otp, seen, sessions, said, heard, applied, guesses,
    asked, atKyc>>
vars == <<part, escrowVars, walletVars, kycVars>>

Init ==
  /\ part \in {"escrow", "wallet", "kyc"}
  /\ Escrow!Init /\ Wallet!Init /\ Kyc!Init
  /\ answered = {} /\ reopened = {}
  /\ part # "kyc" => kyc = [p \in Providers |-> "PENDING"]

(* The parts that are not at work keep their first state.                  *)
InEscrow == part = "escrow" /\ UNCHANGED <<part, walletVars, kycVars>>
InWallet == part = "wallet" /\ UNCHANGED <<part, escrowVars, kycVars>>
InKyc    == part = "kyc"    /\ UNCHANGED <<part, escrowVars, walletVars>>

(* A handler that had taken in the outcome of a transfer has ended: it has *)
(* written, or found the withdrawal settled.                               *)
Answering ==
  {k \in Keys : \E r \in Requests :
     /\ atWallet[r].at \in {"webhook.read", "webhook.write"} /\ atWallet'[r].at = "idle"
     /\ atWallet[r].k = k /\ atWallet[r].news = Wallet!Outcome(k)}

Reopening == {k \in Keys : status[k] \in Wallet!Final /\ status'[k] \in Wallet!Open}

Remember ==
  /\ answered' = answered \cup Answering
  /\ reopened' = reopened \cup Reopening

Next ==
  \/ InEscrow /\ Escrow!Next
  \/ InWallet /\ Wallet!Next /\ Remember
  \/ InKyc    /\ Kyc!Next

(* The event loop resumes every handler; the gateway decides every         *)
(* transfer; Flutterwave repeats an outcome until some handler has         *)
(* answered, and Didit an event until it is taken.                         *)
Resumes(r) ==
  \/ InEscrow /\ Escrow!Proceed(r)
  \/ InWallet /\ Wallet!Proceed(r) /\ Remember
  \/ InKyc    /\ Kyc!Proceed(r)

Decides(k) == InWallet /\ transfer[k] = "sent" /\ Wallet!GatewayMoves(k) /\ Remember

TransferTaken(k) ==
  /\ InWallet /\ k \notin answered
  /\ \E r \in Requests : Wallet!Webhook(r, k, Wallet!Outcome(k))
  /\ Remember

EventTaken(e) == InKyc /\ \E r \in Requests : Kyc!DiditWebhook(r, e)

SettlesFairness ==
  /\ \A r \in Requests : WF_vars(Resumes(r))
  /\ \A k \in Keys : WF_vars(Decides(k)) /\ SF_vars(TransferTaken(k))
  /\ \A e \in Events : SF_vars(EventTaken(e))

SettlesSpec == Init /\ [][Next]_vars /\ SettlesFairness

-----------------------------------------------------------------------------
(* The scan that completes a job paid online pays the provider out, while  *)
(* other scans, confirmations and gateway reports run (completeByQr,       *)
(* releasePaymentToProvider).                                              *)
ScanPaysOut == part = "escrow" => Escrow!ScanPaysOut

(* Every withdrawal that was taken in is settled by a single answer to its *)
(* outcome, unless a late write takes it back from the settled ones        *)
(* (requestWithdrawal, which writes PROCESSING whatever a webhook has      *)
(* written meanwhile, and handleFlutterwaveWebhook).  Nothing dies here.   *)
WithdrawalSettles ==
  part = "wallet" => \A k \in Keys :
    (status[k] \in Wallet!Open) ~> (status[k] \in Wallet!Final \/ k \in reopened)

(* What Didit decided reaches the provider's row, in spite of overlapping  *)
(* deliveries and other requests (DiditWebhookController).                 *)
VerdictLands == part = "kyc" => Kyc!VerdictLands
=============================================================================
