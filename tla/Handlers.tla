------------------------------ MODULE Handlers ------------------------------
(***************************************************************************)
(* What the request handlers of the server have in common.  A handler is   *)
(* an async function; between two of its steps others may run, so what it  *)
(* has read may be stale when it writes, and the process may die.  A       *)
(* behaviour uses some of the requests: with one of them handlers run one  *)
(* after the other, with more they overlap.                                *)
(***************************************************************************)
EXTENDS FiniteSets

CONSTANTS
  Requests,  \* requests the server can have in flight at once
  None,      \* nothing
  Faults     \* may a request die between two awaits?

ASSUME HandlersAssumption == IsFiniteSet(Requests)

VARIABLES
  req,       \* the requests in flight: next step, row, second row or code, what was read
  slots,     \* the requests that this behaviour uses (never changes)
  died       \* some request has died (history)

flight == <<req, slots, died>>

Idle == [at |-> "idle", on |-> None, by |-> None, saw |-> None]

FlightInit ==
  /\ req = [r \in Requests |-> Idle]
  /\ slots \in SUBSET Requests \ {{}}
  /\ died = FALSE

Free(r) == r \in slots /\ req[r].at = "idle"

Begin(r, at, on, by, saw) ==
  /\ Free(r)
  /\ req' = [req EXCEPT ![r] = [at |-> at, on |-> on, by |-> by, saw |-> saw]]
  /\ UNCHANGED <<slots, died>>

Carry(r, at, saw) ==
  /\ req' = [req EXCEPT ![r].at = at, ![r].saw = saw]
  /\ UNCHANGED <<slots, died>>

Goto(r, at) == req' = [req EXCEPT ![r].at = at] /\ UNCHANGED <<slots, died>>
End(r)      == req' = [req EXCEPT ![r] = Idle] /\ UNCHANGED <<slots, died>>

(* A handler that awaits once: its reads and its write are one step.       *)
Once(r) == Free(r) /\ UNCHANGED flight

(* A request dies where it stands; what it wrote stays written.            *)
Die(r) ==
  /\ Faults /\ req[r].at # "idle"
  /\ req' = [req EXCEPT ![r] = Idle]
  /\ died' = TRUE
  /\ UNCHANGED slots

Busy   == {r \in Requests : req[r].at # "idle"}
AtRest == Busy = {}
(* The idle server.  Without it TLC would call rest a deadlock; with it, a *)
(* deadlock is a handler that can neither go on nor end.                   *)
Rest == AtRest /\ UNCHANGED flight

OneByOne == Cardinality(slots) = 1

(* Requests have run one after the other, and none of them has died.       *)
Orderly == OneByOne /\ ~died
=============================================================================
