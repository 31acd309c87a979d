------------------------------- MODULE Support -------------------------------
(***************************************************************************)
(* SupportService: tickets and their thread, error logs and the alerts     *)
(* they raise.  HttpExceptionFilter reports the server's own errors to the *)
(* same tables.                                                            *)
(***************************************************************************)
EXTENDS Handlers

CONSTANTS
  Tickets,      \* tickets that can be opened
  Screens,      \* screens of the app, for errors with one message
  Endpoints     \* endpoints of the server

NoScreen == "no screen"   \* an error that names none
Mobile   == Screens \cup {NoScreen}
Sources  == Mobile \cup Endpoints

ASSUME SupportAssumption == NoScreen \notin Screens \cup Endpoints /\ Screens \cap Endpoints = {}

VARIABLES
  ticket,     \* the rows SupportTicket: status, resolvedAt set; None before
  logs,       \* the error logs of the last minutes, by source
  alerts      \* the alerts of tickets and errors: open and recent, or past

supportVars == <<ticket, logs, alerts>>

SupportInit ==
  /\ ticket = [t \in Tickets |-> None]
  /\ logs = {}
  /\ alerts = [x \in Tickets \cup Sources |-> "none"]

Closing(status) == status \in {"RESOLVED", "CLOSED"}

-----------------------------------------------------------------------------
CreateTicket(r, t) ==
  /\ ticket[t] = None
  /\ Begin(r, "ticket.alert", t, None, None)
  /\ ticket' = [ticket EXCEPT ![t] = [status |-> "OPEN", resolved |-> FALSE]]
  /\ UNCHANGED <<logs, alerts>>

(* createAlert; a failure is caught, and the ticket stays without one.     *)
AlertTicket(r) ==
  /\ req[r].at = "ticket.alert"
  /\ alerts' = [alerts EXCEPT ![req[r].on] = "recent"]
  /\ End(r)
  /\ UNCHANGED <<ticket, logs>>

(* updateTicket: only resolvedAt and the status matter here, and a patch   *)
(* without a status leaves both alone.                                     *)
UpdateTicket(r, t, status) ==
  /\ ticket[t] # None
  /\ Begin(r, "ticket.write", t, status, None)
  /\ UNCHANGED supportVars

WriteTicket(r) ==
  /\ req[r].at = "ticket.write"
  /\ ticket' = [ticket EXCEPT ![req[r].on] = [status |-> req[r].by, resolved |-> Closing(req[r].by)]]
  /\ End(r)
  /\ UNCHANGED <<logs, alerts>>

(* addTicketMessage: read the ticket, create the message; the first reply  *)
(* that is not internal takes the ticket up.                               *)
ReplyToTicket_Any_Mutant(r, t, internal) ==
  /\ ticket[t] # None
  /\ Begin(r, "reply.create", t, None, ~internal)
  /\ UNCHANGED supportVars

ReplyToTicket(r, t, internal) ==
  /\ ticket[t] # None
  /\ Begin(r, "reply.create", t, None, ~internal /\ ticket[t].status = "OPEN")
  /\ UNCHANGED supportVars

CreateReply(r) ==
  /\ req[r].at = "reply.create"
  /\ IF req[r].saw THEN Goto(r, "reply.take") ELSE End(r)
  /\ UNCHANGED supportVars

TakeUp(r) ==
  /\ req[r].at = "reply.take"
  /\ ticket' = [ticket EXCEPT ![req[r].on].status = "IN_PROGRESS"]
  /\ End(r)
  /\ UNCHANGED <<logs, alerts>>

-----------------------------------------------------------------------------
(* reportClientError drops what was logged with the same message within    *)
(* five minutes on the same screen; an error without a screen is taken for *)
(* a repeat of any ("endpoint: screen || undefined").                      *)
Repeats(s) == IF s = NoScreen THEN logs \cap Mobile # {} ELSE s \in logs

ReportError(r, s) ==
  /\ s \in Mobile => ~Repeats(s)
  /\ Begin(r, "error.log", s, None, None)
  /\ UNCHANGED supportVars

LogError(r) ==
  /\ req[r].at = "error.log"
  /\ logs' = logs \cup {req[r].on}
  /\ Goto(r, IF req[r].on \in Mobile THEN "error.alert" ELSE "error.recent")
  /\ UNCHANGED <<ticket, alerts>>

(* The filter logs every error and alerts unless an open alert is recent.  *)
FindRecent(r) ==
  /\ req[r].at = "error.recent"
  /\ IF alerts[req[r].on] = "recent" THEN End(r) ELSE Goto(r, "error.alert")
  /\ UNCHANGED supportVars

AlertError(r) ==
  /\ req[r].at = "error.alert"
  /\ alerts' = [alerts EXCEPT ![req[r].on] = "recent"]
  /\ End(r)
  /\ UNCHANGED <<ticket, logs>>

ResolveAlert(r, x) ==
  /\ alerts[x] = "recent" /\ Once(r)
  /\ alerts' = [alerts EXCEPT ![x] = "past"]
  /\ UNCHANGED <<ticket, logs>>

(* The minutes pass: five for a log, ten for an alert.                     *)
ForgetLogs ==
  /\ logs # {} /\ logs' = {}
  /\ UNCHANGED <<ticket, alerts, flight>>

AgeAlert(x) ==
  /\ alerts[x] = "recent" /\ x \notin logs
  /\ alerts' = [alerts EXCEPT ![x] = "past"]
  /\ UNCHANGED <<ticket, logs, flight>>

StopSupport(r) == Die(r) /\ UNCHANGED supportVars

SupportNext ==
  \/ \E r \in Requests :
       \/ \E t \in Tickets :
            \/ CreateTicket(r, t)
            \/ \E status \in {"OPEN", "IN_PROGRESS", "RESOLVED", "CLOSED"} : UpdateTicket(r, t, status)
            \/ \E internal \in BOOLEAN : ReplyToTicket(r, t, internal)
       \/ \E s \in Sources : ReportError(r, s)
       \/ \E x \in DOMAIN alerts : ResolveAlert(r, x)
       \/ AlertTicket(r) \/ WriteTicket(r) \/ CreateReply(r) \/ TakeUp(r)
       \/ LogError(r) \/ FindRecent(r) \/ AlertError(r) \/ StopSupport(r)
  \/ ForgetLogs
  \/ \E x \in DOMAIN alerts : AgeAlert(x)

SupportSpec == SupportInit /\ FlightInit /\ [][SupportNext]_<<supportVars, flight>>

-----------------------------------------------------------------------------
SupportTypeOK ==
  /\ ticket \in [Tickets -> {None} \cup
       [status : {"OPEN", "IN_PROGRESS", "RESOLVED", "CLOSED"}, resolved : BOOLEAN]]
  /\ logs \subseteq Sources
  /\ alerts \in [Tickets \cup Sources -> {"none", "recent", "past"}]

(* One request at a time, though they may die, a ticket has a resolvedAt   *)
(* when its status is RESOLVED or CLOSED and at no other time: a reply may *)
(* not take up what is settled, and what is opened again loses it          *)
(* (updateTicket, addTicketMessage).                                       *)
ResolvedAgrees ==
  OneByOne => \A t \in Tickets : ticket[t] # None =>
    (ticket[t].resolved <=> Closing(ticket[t].status))
=============================================================================
