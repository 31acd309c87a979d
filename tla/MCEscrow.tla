------------------------------ MODULE MCEscrow ------------------------------
(* Instances of Escrow for TLC: which endpoints occur in a run.            *)
EXTENDS EscrowOverlap, TLC

Symmetry == Permutations(Requests)

(* Everything that writes a status, with the one gateway that refunds, and *)
(* the weaker-guarded of two endpoints that do the same: supersede for     *)
(* sweep, PayFast's failure report for Stripe's.                           *)
OverlapOps == {"create", "supersede", "PAYSTACK", "callback", "payfastFailure", "manualConfirm",
               "updateStatus", "issueCompletionQr", "completeByQr", "confirmPayout",
               "approveWithdrawal", "dispute"}

(* Everything but the administrator's approval.                            *)
CustomerOps == AllOps \ {"approveWithdrawal"}
=============================================================================
