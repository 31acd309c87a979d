----------------------------- MODULE MCSession -----------------------------
(* Instances of Session for TLC.  A calm behaviour is about the accounts   *)
(* of one identity or an administrator, one request at a time; a rough one *)
(* is about one customer, with crashes and one change of the store.  The   *)
(* accounts that it is not about stay as they are.                         *)
EXTENDS Session

VARIABLE cast

OneIdentity == Customers \X Providers

Castings ==
  [who : {Customers \cup Providers, Admins}, rough : {FALSE}] \cup
  [who : {Customers}, rough : {TRUE}]

CastInit ==
  /\ SessionInit
  /\ cast \in Castings
  /\ \A a \in Accounts \ cast.who : row[a] = "active" <=> a \in Admins
  /\ mustChange \subseteq cast.who
  /\ cast.rough \/ ready

CastNext ==
  /\ SessionNext
  /\ \A a \in Accounts \ cast.who : row'[a] = row[a]
  /\ \A r \in Requests : req'[r].on \in cast.who \cup {None}
  /\ ~cast.rough => ~died' /\ ~switched'
  /\ switched => ready' = ready
  /\ UNCHANGED cast

CastSpec == CastInit /\ [][CastNext]_<<sessionVars, cast>>
=============================================================================
