------------------------------- MODULE Custody -------------------------------
(***************************************************************************)
(* What the marketplace promises about a job and its money, with no        *)
(* requests, rows or gateways: somebody first stands behind the job, then  *)
(* the customer finishes it, and only then is the provider paid.  An       *)
(* administrator may vouch for a job in place of both.                     *)
(***************************************************************************)
CONSTANT Jobs

VARIABLES
  backed,     \* cash was agreed, the money was captured, or an admin vouched
  finished,   \* the customer's QR was scanned, or an admin vouched
  paidOut     \* the provider's balance was raised

vars == <<backed, finished, paidOut>>

Init ==
  /\ backed = [j \in Jobs |-> FALSE]
  /\ finished = [j \in Jobs |-> FALSE]
  /\ paidOut = [j \in Jobs |-> FALSE]

Back(j) ==
  /\ backed' = [backed EXCEPT ![j] = TRUE]
  /\ UNCHANGED <<finished, paidOut>>

Finish(j) ==
  /\ backed[j]
  /\ finished' = [finished EXCEPT ![j] = TRUE]
  /\ UNCHANGED <<backed, paidOut>>

Vouch(j) ==
  /\ backed' = [backed EXCEPT ![j] = TRUE]
  /\ finished' = [finished EXCEPT ![j] = TRUE]
  /\ UNCHANGED paidOut

PayOut(j) ==
  /\ finished[j]
  /\ paidOut' = [paidOut EXCEPT ![j] = TRUE]
  /\ UNCHANGED <<backed, finished>>

Next == \E j \in Jobs : Back(j) \/ Finish(j) \/ Vouch(j) \/ PayOut(j)

Spec == Init /\ [][Next]_vars
=============================================================================
