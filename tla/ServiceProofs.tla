---------------------------- MODULE ServiceProofs ----------------------------
(***************************************************************************)
(* What the services keep, for any constants, while requests may die.      *)
(* Support, Push, Staff, Reminders, Chat and AppConfig keep it while       *)
(* requests run one after the other: a handler relies at each step on what *)
(* it read before, which nobody else changes then, and the invariants say  *)
(* what that is.  Catalogue and Ratings keep theirs however requests       *)
(* overlap, since they rely on rows that are only ever added.              *)
(***************************************************************************)
EXTENDS Support, Push, Staff, Reminders, Chat, AppConfig, Catalogue, Ratings,
        SumLemmas, SequenceTheorems

(* Only the requests of this behaviour are ever in flight.                 *)
Shaped(x) == x = [at |-> x.at, on |-> x.on, by |-> x.by, saw |-> x.saw]

Slotted ==
  /\ slots \subseteq Requests
  /\ req = [r \in Requests |-> req[r]]
  /\ \A r \in Requests : Shaped(req[r]) /\ (r \notin slots => req[r].at = "idle")

Acts(r) == r \in slots /\ slots' = slots /\ \A q \in Requests \ {r} : req'[q] = req[q]

LEMMA Alone ==
  ASSUME Slotted, OneByOne, NEW r \in slots
  PROVE  \A q \in Requests \ {r} : req[q].at = "idle"
<1>1. IsFiniteSet(slots)
  BY FS_Subset, HandlersAssumption DEF Slotted
<1>2. PICK x : slots = {x}
  BY <1>1, FS_Singleton DEF OneByOne
<1> QED BY <1>2 DEF Slotted

LEMMA Begins ==
  ASSUME Slotted, NEW r \in Requests, NEW at, NEW on, NEW by, NEW saw, Begin(r, at, on, by, saw)
  PROVE  Slotted' /\ Acts(r) /\ req'[r] = [at |-> at, on |-> on, by |-> by, saw |-> saw]
BY DEF Slotted, Shaped, Acts, Begin, Free

LEMMA Carries ==
  ASSUME Slotted, NEW r \in Requests, NEW at, NEW saw, Carry(r, at, saw), req[r].at # "idle"
  PROVE  Slotted' /\ Acts(r)
         /\ req'[r] = [at |-> at, on |-> req[r].on, by |-> req[r].by, saw |-> saw]
<1>1. req' = [req EXCEPT ![r].at = at, ![r].saw = saw] /\ slots' = slots
  BY DEF Carry
<1>2. Shaped(req[r]) /\ req = [q \in Requests |-> req[q]] /\ r \in slots
  BY DEF Slotted
<1>3. req'[r] = [req[r] EXCEPT !.at = at, !.saw = saw]
      /\ req' = [q \in Requests |-> req'[q]] /\ \A q \in Requests \ {r} : req'[q] = req[q]
  BY <1>1, <1>2
<1>4. req'[r] = [at |-> at, on |-> req[r].on, by |-> req[r].by, saw |-> saw]
  BY <1>2, <1>3 DEF Shaped
<1> QED BY <1>1, <1>2, <1>3, <1>4 DEF Slotted, Shaped, Acts

LEMMA Goes ==
  ASSUME Slotted, NEW r \in Requests, NEW at, Goto(r, at), req[r].at # "idle"
  PROVE  Slotted' /\ Acts(r)
         /\ req'[r] = [at |-> at, on |-> req[r].on, by |-> req[r].by, saw |-> req[r].saw]
BY DEF Slotted, Shaped, Acts, Goto

LEMMA Ends ==
  ASSUME Slotted, NEW r \in Requests, End(r) \/ Die(r), req[r].at # "idle"
  PROVE  Slotted' /\ Acts(r) /\ req'[r] = Idle
BY DEF Slotted, Shaped, Acts, End, Die, Idle

LEMMA Stays ==
  ASSUME Slotted, NEW r \in Requests, Once(r)
  PROVE  Slotted' /\ Acts(r) /\ req'[r] = req[r] /\ req[r].at = "idle"
BY DEF Slotted, Shaped, Acts, Once, Free, flight

-----------------------------------------------------------------------------
(* Support: only a ticket that is open is taken up.                        *)
Statuses == {"OPEN", "IN_PROGRESS", "RESOLVED", "CLOSED"}

OpenTicket(t) == t \in Tickets /\ ticket[t] # None /\ ticket[t].status = "OPEN"

TicketPromise(r) ==
  /\ req[r].at = "ticket.write" => req[r].on \in Tickets
  /\ req[r].at = "reply.create" /\ req[r].saw => OpenTicket(req[r].on)
  /\ req[r].at = "reply.take" => OpenTicket(req[r].on)

Row(t) == ticket[t] = [status |-> ticket[t].status, resolved |-> ticket[t].resolved]

Tickety ==
  /\ ticket = [t \in Tickets |-> ticket[t]]
  /\ \A t \in Tickets : ticket[t] # None =>
       Row(t) /\ (ticket[t].resolved <=> Closing(ticket[t].status))
  /\ \A r \in Requests : TicketPromise(r)

SupportInv == Slotted /\ (OneByOne => Tickety)

(* Others are idle, and idle requests promise nothing.                     *)
LEMMA TicketsMove ==
  ASSUME SupportInv, NEW r \in Requests, Slotted', Acts(r),
         OneByOne => TicketPromise(r)' /\ ticket' = [t \in Tickets |-> ticket'[t]]
           /\ \A t \in Tickets : ticket'[t] # None =>
                Row(t)' /\ (ticket'[t].resolved <=> Closing(ticket'[t].status))
  PROVE  SupportInv'
<1>1. r \in slots /\ (OneByOne' <=> OneByOne)
  BY DEF Acts, OneByOne
<1>2. ASSUME OneByOne, NEW q \in Requests PROVE TicketPromise(q)'
  <2>1. CASE q = r
    BY <1>2, <2>1
  <2>2. CASE q # r
    <3>1. req'[q].at = "idle"
      BY <1>1, <1>2, <2>2, Alone DEF Acts, SupportInv
    <3> QED BY <3>1 DEF TicketPromise
  <2> QED BY <2>1, <2>2
<1> QED BY <1>1, <1>2 DEF SupportInv, Tickety

LEMMA TicketsStay ==
  ASSUME SupportInv, NEW r \in Requests, Slotted', Acts(r), ticket' = ticket,
         OneByOne => TicketPromise(r)'
  PROVE  SupportInv'
BY TicketsMove DEF SupportInv, Tickety, Row

LEMMA TicketsBegin ==
  ASSUME SupportInv, NEW r \in Requests,
         \/ \E t \in Tickets, status \in Statuses : UpdateTicket(r, t, status)
         \/ \E t \in Tickets, internal \in BOOLEAN : ReplyToTicket(r, t, internal)
         \/ \E x \in Sources : ReportError(r, x)
  PROVE  SupportInv'
<1>1. ASSUME NEW at, NEW on, NEW by, NEW saw, Begin(r, at, on, by, saw), ticket' = ticket,
             at = "ticket.write" => on \in Tickets,
             at = "reply.create" /\ saw => OpenTicket(on), at # "reply.take"
      PROVE  SupportInv'
  <2>1. Slotted' /\ Acts(r) /\ req'[r] = [at |-> at, on |-> on, by |-> by, saw |-> saw]
    BY <1>1, Begins DEF SupportInv
  <2>2. TicketPromise(r)'
    BY <1>1, <2>1 DEF TicketPromise, OpenTicket
  <2> QED BY <1>1, <2>1, <2>2, TicketsStay
<1>2. ASSUME NEW t \in Tickets, NEW status, UpdateTicket(r, t, status) PROVE SupportInv'
  BY <1>1, <1>2 DEF UpdateTicket, supportVars
<1>3. ASSUME NEW t \in Tickets, NEW internal, ReplyToTicket(r, t, internal) PROVE SupportInv'
  BY <1>1, <1>3 DEF ReplyToTicket, supportVars, OpenTicket
<1>4. ASSUME NEW x, ReportError(r, x) PROVE SupportInv'
  BY <1>1, <1>4 DEF ReportError, supportVars
<1> QED BY <1>2, <1>3, <1>4

LEMMA TicketsOpen ==
  ASSUME SupportInv, NEW r \in Requests, NEW t \in Tickets, CreateTicket(r, t)
  PROVE  SupportInv'
<1>1. Slotted' /\ Acts(r) /\ req'[r] = [at |-> "ticket.alert", on |-> t, by |-> None, saw |-> None]
  BY Begins DEF SupportInv, CreateTicket
<1>2. TicketPromise(r)'
  BY <1>1 DEF TicketPromise
<1>3. ticket' = [ticket EXCEPT ![t] = [status |-> "OPEN", resolved |-> FALSE]]
  BY DEF CreateTicket
<1>4. ASSUME OneByOne
      PROVE  /\ ticket' = [u \in Tickets |-> ticket'[u]]
             /\ \A u \in Tickets : ticket'[u] # None =>
                  Row(u)' /\ (ticket'[u].resolved <=> Closing(ticket'[u].status))
  BY <1>3, <1>4 DEF SupportInv, Tickety, Row, Closing
<1> QED BY <1>1, <1>2, <1>4, TicketsMove

LEMMA TicketsWrite ==
  ASSUME SupportInv, NEW r \in Requests, WriteTicket(r) \/ TakeUp(r)
  PROVE  SupportInv'
<1>1. Slotted' /\ Acts(r) /\ req'[r] = Idle
  BY Ends DEF SupportInv, WriteTicket, TakeUp
<1>2. TicketPromise(r)'
  BY <1>1 DEF TicketPromise, Idle
<1>3. ASSUME OneByOne
      PROVE  /\ ticket' = [u \in Tickets |-> ticket'[u]]
             /\ \A u \in Tickets : ticket'[u] # None =>
                  Row(u)' /\ (ticket'[u].resolved <=> Closing(ticket'[u].status))
  <2>1. ticket = [u \in Tickets |-> ticket[u]]
        /\ \A u \in Tickets : ticket[u] # None =>
             Row(u) /\ (ticket[u].resolved <=> Closing(ticket[u].status))
    BY <1>3 DEF SupportInv, Tickety
  <2>2. CASE WriteTicket(r)
    <3>1. PICK x : x = [status |-> req[r].by, resolved |-> Closing(req[r].by)]
      OBVIOUS
    <3>2. x = [status |-> x.status, resolved |-> x.resolved] /\ (x.resolved <=> Closing(x.status))
      BY <3>1
    <3>3. ticket' = [ticket EXCEPT ![req[r].on] = x]
      BY <2>2, <3>1 DEF WriteTicket
    <3> QED BY <2>1, <3>2, <3>3 DEF Row
  <2>3. CASE TakeUp(r)
    <3>1. PICK t \in Tickets : t = req[r].on /\ ticket[t] # None /\ ticket[t].status = "OPEN"
      BY <1>3, <2>3 DEF TakeUp, SupportInv, Tickety, TicketPromise, OpenTicket
    <3>2. ticket' = [ticket EXCEPT ![t].status = "IN_PROGRESS"]
      BY <2>3, <3>1 DEF TakeUp
    <3>3. Row(t) /\ ~ticket[t].resolved
      BY <2>1, <3>1 DEF Closing
    <3>4. ticket'[t] = [status |-> "IN_PROGRESS", resolved |-> ticket[t].resolved]
      BY <2>1, <3>2, <3>3 DEF Row
    <3> QED BY <2>1, <3>2, <3>3, <3>4 DEF Row, Closing
  <2> QED BY <2>2, <2>3
<1> QED BY <1>1, <1>2, <1>3, TicketsMove

LEMMA TicketsPass ==
  ASSUME SupportInv, NEW r \in Requests,
         \/ AlertTicket(r) \/ CreateReply(r) \/ LogError(r) \/ FindRecent(r) \/ AlertError(r)
         \/ StopSupport(r) \/ \E x : ResolveAlert(r, x)
  PROVE  SupportInv'
<1>1. ticket' = ticket
  BY DEF AlertTicket, CreateReply, LogError, FindRecent, AlertError, StopSupport, ResolveAlert,
       supportVars
<1>2. CASE (End(r) \/ Die(r)) /\ req[r].at # "idle"
  <2>1. Slotted' /\ Acts(r) /\ req'[r] = Idle
    BY <1>2, Ends DEF SupportInv
  <2>2. TicketPromise(r)'
    BY <2>1 DEF TicketPromise, Idle
  <2> QED BY <1>1, <2>1, <2>2, TicketsStay
<1>3. CASE \E at \in {"error.alert", "error.recent"} : Goto(r, at) /\ req[r].at # "idle"
  <2>1. PICK at \in {"error.alert", "error.recent"} : Goto(r, at) /\ req[r].at # "idle"
    BY <1>3
  <2>2. Slotted' /\ Acts(r)
        /\ req'[r] = [at |-> at, on |-> req[r].on, by |-> req[r].by, saw |-> req[r].saw]
    BY <2>1, Goes DEF SupportInv
  <2>3. TicketPromise(r)'
    BY <2>2 DEF TicketPromise
  <2> QED BY <1>1, <2>2, <2>3, TicketsStay
<1>4. CASE Once(r)
  <2>1. Slotted' /\ Acts(r) /\ req'[r] = req[r] /\ req[r].at = "idle"
    BY <1>4, Stays DEF SupportInv
  <2>2. TicketPromise(r)'
    BY <2>1 DEF TicketPromise
  <2> QED BY <1>1, <2>1, <2>2, TicketsStay
<1>5. CASE CreateReply(r) /\ req[r].saw
  <2>1. Slotted' /\ Acts(r)
        /\ req'[r] = [at |-> "reply.take", on |-> req[r].on, by |-> req[r].by, saw |-> req[r].saw]
    BY <1>5, Goes DEF SupportInv, CreateReply
  <2>2. OneByOne => OpenTicket(req[r].on)
    BY <1>5 DEF SupportInv, Tickety, TicketPromise, CreateReply
  <2>3. OneByOne => TicketPromise(r)'
    BY <1>1, <2>1, <2>2 DEF TicketPromise, OpenTicket
  <2> QED BY <1>1, <2>1, <2>3, TicketsStay
<1>6. ASSUME NEW x, ResolveAlert(r, x) PROVE Once(r)
  BY <1>6 DEF ResolveAlert
<1> QED
  BY <1>2, <1>3, <1>4, <1>5, <1>6
     DEF AlertTicket, CreateReply, LogError, FindRecent, AlertError, StopSupport, Die

LEMMA SupportInitial == SupportInit /\ FlightInit => SupportInv
BY DEF SupportInit, FlightInit, SupportInv, Slotted, Shaped, Idle, Tickety, TicketPromise

LEMMA SupportStep == SupportInv /\ [SupportNext]_<<supportVars, flight>> => SupportInv'
<1> SUFFICES ASSUME SupportInv, [SupportNext]_<<supportVars, flight>> PROVE SupportInv'
  OBVIOUS
<1>1. ASSUME ticket' = ticket, UNCHANGED flight PROVE SupportInv'
  BY <1>1 DEF flight, SupportInv, Slotted, OneByOne, Tickety, TicketPromise, OpenTicket, Row
<1>2. ASSUME NEW r \in Requests,
             \/ \E t \in Tickets :
                  \/ CreateTicket(r, t)
                  \/ \E status \in Statuses : UpdateTicket(r, t, status)
                  \/ \E internal \in BOOLEAN : ReplyToTicket(r, t, internal)
             \/ \E x \in Sources : ReportError(r, x)
             \/ \E x \in DOMAIN alerts : ResolveAlert(r, x)
             \/ AlertTicket(r) \/ WriteTicket(r) \/ CreateReply(r) \/ TakeUp(r)
             \/ LogError(r) \/ FindRecent(r) \/ AlertError(r) \/ StopSupport(r)
      PROVE  SupportInv'
  BY <1>2, TicketsBegin, TicketsOpen, TicketsWrite, TicketsPass
<1>3. CASE ForgetLogs \/ \E x \in DOMAIN alerts : AgeAlert(x)
  BY <1>1, <1>3 DEF ForgetLogs, AgeAlert
<1> QED BY <1>1, <1>2, <1>3 DEF SupportNext, supportVars, Statuses

LEMMA SupportInvariance == SupportSpec => []SupportInv
BY SupportInitial, SupportStep, PTL DEF SupportSpec

(* Requests one after the other, deaths allowed: resolvedAt and the status *)
(* of a ticket agree (updateTicket, addTicketMessage).                     *)
THEOREM SettledTicketsAgree == SupportSpec => []ResolvedAgrees
<1>1. SupportInv => ResolvedAgrees
  BY DEF SupportInv, Tickety, ResolvedAgrees
<1> QED BY <1>1, SupportInvariance, PTL

-----------------------------------------------------------------------------
(* Push: what is about to be sent goes to devices that are the account's.  *)
PushPromise(r) ==
  /\ req[r].at = "token.save" => req[r].by \notin closed
  /\ req[r].at \in {"push.tokens", "push.post"} /\ req[r].by = "asked" => req[r].on \notin muted
  /\ req[r].at = "push.post" => req[r].saw \subseteq ActiveOf(req[r].on)

Device(d) == token[d] = [on |-> token[d].on, active |-> token[d].active]

Tokens ==
  /\ token = [d \in Devices |-> token[d]]
  /\ \A d \in Devices : Device(d) /\ (token[d].active => token[d].on \notin closed)

Pushy == Tokens /\ strays = {} /\ \A r \in Requests : PushPromise(r)

PushInv == Slotted /\ (OneByOne => Pushy)

LEMMA PushMoves ==
  ASSUME PushInv, NEW r \in Requests, Slotted', Acts(r),
         OneByOne => PushPromise(r)' /\ Tokens' /\ strays' = {}
  PROVE  PushInv'
<1>1. r \in slots /\ (OneByOne' <=> OneByOne)
  BY DEF Acts, OneByOne
<1>2. ASSUME OneByOne, NEW q \in Requests PROVE PushPromise(q)'
  <2>1. CASE q = r
    BY <1>2, <2>1
  <2>2. CASE q # r
    <3>1. req'[q].at = "idle"
      BY <1>1, <1>2, <2>2, Alone DEF Acts, PushInv
    <3> QED BY <3>1 DEF PushPromise
  <2> QED BY <2>1, <2>2
<1> QED BY <1>1, <1>2 DEF PushInv, Pushy

LEMMA PushStays ==
  ASSUME PushInv, NEW r \in Requests, Slotted', Acts(r), UNCHANGED pushVars,
         OneByOne => PushPromise(r)'
  PROVE  PushInv'
BY PushMoves DEF PushInv, Pushy, Tokens, Device, pushVars

LEMMA PushBegins ==
  ASSUME PushInv, NEW r \in Requests,
         (\E d, a : SavePushToken(r, d, a)) \/ \E a, asked : SendToUser(r, a, asked)
  PROVE  PushInv'
<1>1. ASSUME NEW d, NEW a, SavePushToken(r, d, a) PROVE PushInv'
  <2>1. Slotted' /\ Acts(r) /\ req'[r] = [at |-> "token.save", on |-> d, by |-> a, saw |-> None]
    BY <1>1, Begins DEF PushInv, SavePushToken
  <2>2. UNCHANGED pushVars /\ PushPromise(r)'
    BY <1>1, <2>1 DEF SavePushToken, pushVars, PushPromise
  <2> QED BY <2>1, <2>2, PushStays
<1>2. ASSUME NEW a, NEW asked, SendToUser(r, a, asked) PROVE PushInv'
  <2>1. Slotted' /\ Acts(r) /\ req'[r] = [at |-> "push.tokens", on |-> a, by |-> asked, saw |-> None]
    BY <1>2, Begins DEF PushInv, SendToUser
  <2>2. UNCHANGED pushVars /\ PushPromise(r)'
    BY <1>2, <2>1 DEF SendToUser, pushVars, PushPromise, Allowed
  <2> QED BY <2>1, <2>2, PushStays
<1> QED BY <1>1, <1>2

LEMMA PushReads ==
  ASSUME PushInv, NEW r \in Requests, ReadTokens(r) \/ StopPush(r)
  PROVE  PushInv'
<1>1. UNCHANGED pushVars
  BY DEF ReadTokens, StopPush
<1>2. CASE (End(r) \/ Die(r)) /\ req[r].at # "idle"
  <2>1. Slotted' /\ Acts(r) /\ req'[r] = Idle
    BY <1>2, Ends DEF PushInv
  <2>2. PushPromise(r)'
    BY <2>1 DEF PushPromise, Idle
  <2> QED BY <1>1, <2>1, <2>2, PushStays
<1>3. CASE ReadTokens(r) /\ Carry(r, "push.post", ActiveOf(req[r].on))
  <2>1. PICK x : x = req[r]
    OBVIOUS
  <2>2. Slotted' /\ Acts(r)
        /\ req'[r] = [at |-> "push.post", on |-> x.on, by |-> x.by, saw |-> ActiveOf(x.on)]
    BY <1>3, <2>1, Carries DEF PushInv, ReadTokens
  <2>3. OneByOne /\ x.by = "asked" => x.on \notin muted
    BY <1>3, <2>1 DEF PushInv, Pushy, PushPromise, ReadTokens
  <2>4. OneByOne => PushPromise(r)'
    BY <1>1, <2>2, <2>3 DEF PushPromise, pushVars, ActiveOf
  <2> QED BY <1>1, <2>2, <2>4, PushStays
<1> QED BY <1>2, <1>3 DEF ReadTokens, StopPush, Die

(* The post reaches nobody who does not want it.                           *)
LEMMA PushPosts ==
  ASSUME PushInv, NEW r \in Requests, PostToExpo(r)
  PROVE  PushInv'
<1>1. UNCHANGED <<token, muted, closed>> /\ req[r].at = "push.post"
      /\ strays' = strays \cup (req[r].saw \cap Unwelcome(req[r].on, req[r].by))
  BY DEF PostToExpo
<1>2. OneByOne => req[r].saw \cap Unwelcome(req[r].on, req[r].by) = {}
  BY <1>1 DEF PushInv, Pushy, Tokens, PushPromise, Unwelcome, ActiveOf
<1>3. OneByOne => Tokens' /\ strays' = {}
  BY <1>1, <1>2 DEF PushInv, Pushy, Tokens, Device
<1>4. CASE End(r)
  <2>1. Slotted' /\ Acts(r) /\ req'[r] = Idle
    BY <1>1, <1>4, Ends DEF PushInv
  <2>2. PushPromise(r)'
    BY <2>1 DEF PushPromise, Idle
  <2> QED BY <1>3, <2>1, <2>2, PushMoves
<1>5. ASSUME NEW unknown, Carry(r, "push.clear", unknown) PROVE PushInv'
  <2>1. Slotted' /\ Acts(r)
        /\ req'[r] = [at |-> "push.clear", on |-> req[r].on, by |-> req[r].by, saw |-> unknown]
    BY <1>1, <1>5, Carries DEF PushInv
  <2>2. PushPromise(r)'
    BY <2>1 DEF PushPromise
  <2> QED BY <1>3, <2>1, <2>2, PushMoves
<1> QED BY <1>4, <1>5 DEF PostToExpo

LEMMA PushWrites ==
  ASSUME PushInv, NEW r \in Requests,
         WriteToken(r) \/ (\E d : ClearToken(r, d) \/ RemovePushToken(r, d))
  PROVE  PushInv'
<1>1. UNCHANGED <<muted, closed, strays>>
  BY DEF WriteToken, ClearToken, RemovePushToken
<1>2. OneByOne => Tokens'
  <2> SUFFICES ASSUME OneByOne PROVE Tokens'
    OBVIOUS
  <2>1. Tokens /\ PushPromise(r)
    BY DEF PushInv, Pushy
  <2>2. CASE WriteToken(r)
    BY <1>1, <2>1, <2>2 DEF WriteToken, Tokens, Device, PushPromise
  <2>3. ASSUME NEW d, token' = [token EXCEPT ![d].active = FALSE] PROVE Tokens'
    <3>1. token' = [e \in Devices |-> IF e = d THEN [token[e] EXCEPT !.active = FALSE] ELSE token[e]]
      BY <2>1, <2>3 DEF Tokens
    <3>2. ASSUME NEW e \in Devices PROVE Device(e)' /\ (token'[e].active => token'[e].on \notin closed')
      <4>1. token[e] = [on |-> token[e].on, active |-> token[e].active]
            /\ (token[e].active => token[e].on \notin closed)
        BY <2>1 DEF Tokens, Device
      <4>2. CASE e = d
        <5>1. token'[e] = [on |-> token[e].on, active |-> FALSE]
          BY <3>1, <4>1, <4>2
        <5> QED BY <5>1 DEF Device
      <4>3. CASE e # d
        BY <1>1, <3>1, <4>1, <4>3 DEF Device
      <4> QED BY <4>2, <4>3
    <3> QED BY <3>1, <3>2 DEF Tokens
  <2> QED BY <2>2, <2>3 DEF ClearToken, RemovePushToken
<1>3. CASE End(r) /\ req[r].at # "idle"
  <2>1. Slotted' /\ Acts(r) /\ req'[r] = Idle
    BY <1>3, Ends DEF PushInv
  <2>2. PushPromise(r)'
    BY <2>1 DEF PushPromise, Idle
  <2> QED BY <1>1, <1>2, <2>1, <2>2, PushMoves DEF PushInv, Pushy
<1>4. CASE Once(r)
  <2>1. Slotted' /\ Acts(r) /\ req'[r] = req[r] /\ req[r].at = "idle"
    BY <1>4, Stays DEF PushInv
  <2>2. PushPromise(r)'
    BY <2>1 DEF PushPromise
  <2> QED BY <1>1, <1>2, <2>1, <2>2, PushMoves DEF PushInv, Pushy
<1>5. ASSUME NEW v, Carry(r, "push.clear", v), req[r].at # "idle" PROVE PushInv'
  <2>1. Slotted' /\ Acts(r)
        /\ req'[r] = [at |-> "push.clear", on |-> req[r].on, by |-> req[r].by, saw |-> v]
    BY <1>5, Carries DEF PushInv
  <2>2. PushPromise(r)'
    BY <2>1 DEF PushPromise
  <2> QED BY <1>1, <1>2, <2>1, <2>2, PushMoves DEF PushInv, Pushy
<1> QED BY <1>3, <1>4, <1>5 DEF WriteToken, ClearToken, RemovePushToken

LEMMA PushAccounts ==
  ASSUME PushInv, NEW r \in Requests, \E a : SetPreference(r, a) \/ CloseAccount(r, a)
  PROVE  PushInv'
<1>1. Once(r) /\ strays' = strays
  BY DEF SetPreference, CloseAccount
<1>2. Slotted' /\ Acts(r) /\ req'[r] = req[r] /\ req[r].at = "idle"
  BY <1>1, Stays DEF PushInv
<1>3. PushPromise(r)'
  BY <1>2 DEF PushPromise
<1>4. OneByOne => Tokens'
  BY DEF SetPreference, CloseAccount, PushInv, Pushy, Tokens, Device
<1> QED BY <1>1, <1>2, <1>3, <1>4, PushMoves DEF PushInv, Pushy

LEMMA PushInitial == PushInit /\ FlightInit => PushInv
<1> SUFFICES ASSUME PushInit /\ FlightInit PROVE PushInv
  OBVIOUS
<1>1. Slotted
  BY DEF FlightInit, Slotted, Shaped, Idle
<1>2. Tokens /\ strays = {}
  BY DEF PushInit, Tokens, Device
<1>3. ASSUME NEW r \in Requests PROVE PushPromise(r)
  BY DEF FlightInit, Idle, PushPromise
<1> QED BY <1>1, <1>2, <1>3 DEF PushInv, Pushy

LEMMA PushStep == PushInv /\ [PushNext]_<<pushVars, flight>> => PushInv'
<1> SUFFICES ASSUME PushInv, [PushNext]_<<pushVars, flight>> PROVE PushInv'
  OBVIOUS
<1>1. CASE UNCHANGED <<pushVars, flight>>
  BY <1>1 DEF pushVars, flight, PushInv, Slotted, OneByOne, Pushy, Tokens, Device, PushPromise,
       ActiveOf
<1>2. CASE PushNext
  BY <1>2, PushBegins, PushReads, PushPosts, PushWrites, PushAccounts DEF PushNext
<1> QED BY <1>1, <1>2

LEMMA PushInvariance == PushSpec => []PushInv
BY PushInitial, PushStep, PTL DEF PushSpec

(* Requests one after the other, deaths allowed: no push reaches a device  *)
(* taken over or signed out, a deleted account, or one that has muted the  *)
(* category, if its preference was looked up (sendToUser, deleteAccount).  *)
THEOREM PushesAreWelcome == PushSpec => []PushIsWelcome
<1>1. PushInv => PushIsWelcome
  BY DEF PushInv, Pushy, PushIsWelcome
<1> QED BY <1>1, PushInvariance, PTL

-----------------------------------------------------------------------------
(* Staff: a role that is about to go is nobody's, a role that is about to  *)
(* be given is not the Super Admin's, and whoever is about to change is    *)
(* there.                                                                  *)
StaffPromise(r) ==
  /\ req[r].at = "role.delete" => \A a \in Members : There(a) => staff[a].role # req[r].on
  /\ req[r].at \in {"invite.create", "staff.role"} => req[r].by \in Roles
  /\ req[r].at \in {"own.write", "disable.write", "enable.write"} =>
       req[r].on \in Members /\ There(req[r].on)

Columns == {"role", "status", "barred", "first", "hash"}

Member(row) == DOMAIN row = Columns /\ row = [c \in Columns |-> row[c]]

LEMMA RoleWritten ==
  ASSUME NEW row, Member(row), NEW v
  PROVE  /\ Member([row EXCEPT !.role = v])
         /\ [row EXCEPT !.role = v].role = v /\ [row EXCEPT !.role = v].status = row.status
BY DEF Member, Columns

LEMMA HashWritten ==
  ASSUME NEW row, Member(row), NEW v
  PROVE  /\ Member([row EXCEPT !.hash = v])
         /\ [row EXCEPT !.hash = v].role = row.role /\ [row EXCEPT !.hash = v].status = row.status
BY DEF Member, Columns

LEMMA StandingWritten ==
  ASSUME NEW row, Member(row), NEW v
  PROVE  /\ Member([row EXCEPT !.barred = TRUE, !.status = v])
         /\ [row EXCEPT !.barred = TRUE, !.status = v].role = row.role
         /\ Member([row EXCEPT !.barred = FALSE, !.status = v])
         /\ [row EXCEPT !.barred = FALSE, !.status = v].role = row.role
BY DEF Member, Columns

LEMMA PasswordWritten ==
  ASSUME NEW row, Member(row), NEW n, n = [row EXCEPT !.hash = "own", !.first = FALSE, !.status = "ACTIVE"]
  PROVE  Member(n) /\ n.role = row.role
BY DEF Member, Columns

LEMMA SystemRoleWritten ==
  ASSUME NEW row, Member(row), NEW n, n = [row EXCEPT !.role = Super, !.status = "ACTIVE", !.first = FALSE]
  PROVE  Member(n)
BY DEF Member, Columns

LEMMA Filled ==
  ASSUME NEW role, NEW status, NEW barred, NEW first, NEW hash
  PROVE  Member([role |-> role, status |-> status, barred |-> barred, first |-> first, hash |-> hash])
BY DEF Member, Columns

Ranks ==
  /\ staff = [a \in Members |-> staff[a]]
  /\ \A a \in Members : Member(staff[a]) /\ (IsSuper(a) => a \in founders)

StaffInv == Slotted /\ (OneByOne => Ranks /\ \A r \in Requests : StaffPromise(r))

LEMMA StaffMoves ==
  ASSUME StaffInv, NEW r \in Requests, Slotted', Acts(r), OneByOne => StaffPromise(r)' /\ Ranks'
  PROVE  StaffInv'
<1>1. r \in slots /\ (OneByOne' <=> OneByOne)
  BY DEF Acts, OneByOne
<1>2. ASSUME OneByOne, NEW q \in Requests PROVE StaffPromise(q)'
  <2>1. CASE q = r
    BY <1>2, <2>1
  <2>2. CASE q # r
    <3>1. req'[q].at = "idle"
      BY <1>1, <1>2, <2>2, Alone DEF Acts, StaffInv
    <3> QED BY <3>1 DEF StaffPromise
  <2> QED BY <2>1, <2>2
<1> QED BY <1>1, <1>2 DEF StaffInv

LEMMA StaffStays ==
  ASSUME StaffInv, NEW r \in Requests, Slotted', Acts(r), UNCHANGED <<staff, founders>>,
         OneByOne => StaffPromise(r)'
  PROVE  StaffInv'
<1>1. OneByOne => Ranks'
  BY DEF StaffInv, Ranks, IsSuper, There
<1> QED BY <1>1, StaffMoves

LEMMA StaffBegins ==
  ASSUME StaffInv, NEW r \in Requests,
         \/ ListStaff(r) \/ \E role \in Roles : DeleteRole(r, role)
         \/ \E a \in Members : FirstSignIn(r, a) \/ Disable(r, a) \/ Enable(r, a)
         \/ \E a \in Members, role \in Roles : Invite(r, a, role)
         \/ \E a \in Members, role \in Roles, actor \in Members : Reassign(r, a, role, actor)
  PROVE  StaffInv'
<1>1. UNCHANGED <<staff, founders>>
  BY DEF ListStaff, DeleteRole, FirstSignIn, Disable, Enable, Invite, Reassign, staffVars
<1>2. ASSUME NEW at, NEW on, NEW by, NEW saw, Begin(r, at, on, by, saw),
             at = "role.delete" => \A a \in Members : There(a) => staff[a].role # on,
             at \in {"invite.create", "staff.role"} => by \in Roles,
             at \in {"own.write", "disable.write", "enable.write"} => on \in Members /\ There(on)
      PROVE  StaffInv'
  <2>1. Slotted' /\ Acts(r) /\ req'[r] = [at |-> at, on |-> on, by |-> by, saw |-> saw]
    BY <1>2, Begins DEF StaffInv
  <2>2. StaffPromise(r)'
    BY <1>1, <1>2, <2>1 DEF StaffPromise, There
  <2> QED BY <1>1, <2>1, <2>2, StaffStays
<1>3. CASE ListStaff(r)
  BY <1>2, <1>3 DEF ListStaff
<1>4. ASSUME NEW role \in Roles, DeleteRole(r, role) PROVE StaffInv'
  BY <1>2, <1>4 DEF DeleteRole, Deletable
<1>5. ASSUME NEW a \in Members, FirstSignIn(r, a) \/ Disable(r, a) \/ Enable(r, a) PROVE StaffInv'
  BY <1>2, <1>5 DEF FirstSignIn, Usable, Disable, Enable
<1>6. ASSUME NEW a \in Members, NEW role \in Roles, Invite(r, a, role) PROVE StaffInv'
  BY <1>2, <1>6 DEF Invite
<1>7. ASSUME NEW a \in Members, NEW role \in Roles, NEW actor, Reassign(r, a, role, actor)
      PROVE  StaffInv'
  BY <1>2, <1>7 DEF Reassign
<1> QED BY <1>3, <1>4, <1>5, <1>6, <1>7

LEMMA StaffPasses ==
  ASSUME StaffInv, NEW r \in Requests,
         \/ SendInvitation(r) \/ StopStaff(r)
         \/ \E role : CreateRole(r, role)
         \/ \E a : Reveal(r, a)
  PROVE  StaffInv'
<1>1. UNCHANGED <<staff, founders>>
  BY DEF SendInvitation, StopStaff, CreateRole, Reveal, staffVars
<1>2. CASE (End(r) \/ Die(r)) /\ req[r].at # "idle"
  <2>1. Slotted' /\ Acts(r) /\ req'[r] = Idle
    BY <1>2, Ends DEF StaffInv
  <2>2. StaffPromise(r)'
    BY <2>1 DEF StaffPromise, Idle
  <2> QED BY <1>1, <2>1, <2>2, StaffStays
<1>3. CASE Once(r)
  <2>1. Slotted' /\ Acts(r) /\ req'[r] = req[r] /\ req[r].at = "idle"
    BY <1>3, Stays DEF StaffInv
  <2>2. StaffPromise(r)'
    BY <2>1 DEF StaffPromise
  <2> QED BY <1>1, <2>1, <2>2, StaffStays
<1> QED BY <1>2, <1>3 DEF SendInvitation, StopStaff, StaffRefused, Die, CreateRole, Reveal

(* Rows are changed so that whoever counts as a Super Admin did before.    *)
LEMMA Ranked ==
  ASSUME Ranks, founders' = founders, staff' = [a \in Members |-> staff'[a]],
         \A a \in Members : Member(staff'[a]) /\ (IsSuper(a)' => IsSuper(a))
  PROVE  Ranks'
BY DEF Ranks

LEMMA StaffWrites ==
  ASSUME StaffInv, NEW r \in Requests,
         \/ GiveSystemRole(r) \/ RemoveRole(r) \/ CreateInvited(r) \/ WriteOwnPassword(r)
         \/ WriteRole(r) \/ WriteDisabled(r) \/ WriteEnabled(r) \/ HashInvited(r)
  PROVE  StaffInv'
<1> DEFINE m == req[r].on
           Kept(a) == Member(staff'[a]) /\ (IsSuper(a)' => IsSuper(a))
<1>1. OneByOne => Ranks'
  <2> SUFFICES ASSUME OneByOne PROVE Ranks'
    OBVIOUS
  <2>1. Ranks /\ StaffPromise(r) /\ founders' = founders
    BY DEF StaffInv, GiveSystemRole, RemoveRole, CreateInvited, WriteOwnPassword, WriteRole,
           WriteDisabled, WriteEnabled, HashInvited
  <2>2. \A a \in Members : Member(staff[a])
    BY <2>1 DEF Ranks
  <2>3. ASSUME NEW a \in Members, staff'[a] = staff[a] PROVE Kept(a)
    BY <2>2, <2>3 DEF IsSuper, There
  <2>4. CASE GiveSystemRole(r)
    <3>1. staff' = [a \in Members |->
            IF There(a) /\ staff[a].role = None
              THEN [staff[a] EXCEPT !.role = Super, !.status = "ACTIVE", !.first = FALSE]
              ELSE staff[a]]
      BY <2>4 DEF GiveSystemRole
    <3>2. ASSUME NEW a \in Members PROVE Kept(a)
      <4>1. CASE There(a) /\ staff[a].role = None
        <5>1. staff'[a] = [staff[a] EXCEPT !.role = Super, !.status = "ACTIVE", !.first = FALSE]
          BY <3>1, <4>1
        <5>2. Member(staff'[a])
          BY <2>2, <5>1, SystemRoleWritten
        <5> QED BY <4>1, <5>2 DEF IsSuper
      <4>2. CASE ~(There(a) /\ staff[a].role = None)
        BY <2>3, <3>1, <4>2
      <4> QED BY <4>1, <4>2
    <3> QED BY <2>1, <3>1, <3>2, Ranked
  <2>5. CASE RemoveRole(r)
    <3>1. staff' = [a \in Members |-> IF staff[a].role = m THEN [staff[a] EXCEPT !.role = None] ELSE staff[a]]
      BY <2>5 DEF RemoveRole
    <3>2. \A a \in Members : There(a) => staff[a].role # m
      BY <2>1, <2>5 DEF RemoveRole, StaffPromise
    <3>3. ASSUME NEW a \in Members PROVE Kept(a)
      <4>1. CASE staff[a].role = m
        <5>1. staff'[a] = [staff[a] EXCEPT !.role = None]
          BY <3>1, <4>1
        <5>2. Member(staff'[a]) /\ staff'[a].status = staff[a].status
          BY <2>2, <5>1, RoleWritten
        <5> QED BY <3>2, <4>1, <5>2 DEF IsSuper, There
      <4>2. CASE staff[a].role # m
        BY <2>3, <3>1, <4>2
      <4> QED BY <4>1, <4>2
    <3> QED BY <2>1, <3>1, <3>3, Ranked
  <2>6. CASE CreateInvited(r)
    <3>1. staff' = [a \in Members |-> IF a = m
            THEN [role |-> req[r].by, status |-> "PENDING", barred |-> FALSE, first |-> TRUE, hash |-> "pending"]
            ELSE staff[a]]
      BY <2>1, <2>6 DEF CreateInvited, Ranks
    <3>2. req[r].by \notin {None, Super}
      BY <2>1, <2>6, StaffAssumption DEF CreateInvited, StaffPromise
    <3>3. ASSUME NEW a \in Members PROVE Kept(a)
      <4>1. CASE a = m
        <5>1. Member(staff'[a]) /\ staff'[a].role = req[r].by
          BY <3>1, <4>1, Filled
        <5> QED BY <3>2, <5>1 DEF IsSuper
      <4>2. CASE a # m
        BY <2>3, <3>1, <4>2
      <4> QED BY <4>1, <4>2
    <3> QED BY <2>1, <3>1, <3>3, Ranked
  <2>7. CASE WriteRole(r)
    <3>1. staff' = [a \in Members |-> IF a = m THEN [staff[a] EXCEPT !.role = req[r].by] ELSE staff[a]]
      BY <2>1, <2>7 DEF Ranks, WriteRole
    <3>2. req[r].by \notin {None, Super}
      BY <2>1, <2>7, StaffAssumption DEF WriteRole, StaffPromise
    <3>3. ASSUME NEW a \in Members PROVE Kept(a)
      <4>1. CASE a = m
        <5>1. staff'[a] = [staff[a] EXCEPT !.role = req[r].by]
          BY <3>1, <4>1
        <5>2. Member(staff'[a]) /\ staff'[a].role = req[r].by
          BY <2>2, <5>1, RoleWritten
        <5> QED BY <3>2, <5>2 DEF IsSuper
      <4>2. CASE a # m
        BY <2>3, <3>1, <4>2
      <4> QED BY <4>1, <4>2
    <3> QED BY <2>1, <3>1, <3>3, Ranked
  <2>8. CASE HashInvited(r)
    <3>1. staff' = [a \in Members |-> IF a = m THEN [staff[a] EXCEPT !.hash = "id"] ELSE staff[a]]
      BY <2>1, <2>8 DEF Ranks, HashInvited
    <3>2. ASSUME NEW a \in Members PROVE Kept(a)
      <4>1. CASE a = m
        <5>1. staff'[a] = [staff[a] EXCEPT !.hash = "id"]
          BY <3>1, <4>1
        <5>2. Member(staff'[a]) /\ staff'[a].role = staff[a].role /\ staff'[a].status = staff[a].status
          BY <2>2, <5>1, HashWritten
        <5> QED BY <5>2 DEF IsSuper, There
      <4>2. CASE a # m
        BY <2>3, <3>1, <4>2
      <4> QED BY <4>1, <4>2
    <3> QED BY <2>1, <3>1, <3>2, Ranked
  <2>9. CASE WriteOwnPassword(r) \/ WriteDisabled(r) \/ WriteEnabled(r)
    <3>1. There(m) /\ m \in Members
      BY <2>1, <2>9 DEF WriteOwnPassword, WriteDisabled, WriteEnabled, StaffPromise
    <3>2. PICK n : /\ staff' = [staff EXCEPT ![m] = n]
                   /\ Member(n) /\ n.role = staff[m].role
      <4>1. CASE WriteOwnPassword(r)
        <5>1. staff' = [staff EXCEPT ![m] =
                [staff[m] EXCEPT !.hash = "own", !.first = FALSE, !.status = "ACTIVE"]]
          BY <2>1, <3>1, <4>1 DEF Ranks, WriteOwnPassword
        <5> DEFINE n == [staff[m] EXCEPT !.hash = "own", !.first = FALSE, !.status = "ACTIVE"]
        <5>2. Member(n) /\ n.role = staff[m].role
          BY <2>2, <3>1, PasswordWritten
        <5> QED BY <5>1, <5>2
      <4>2. CASE WriteDisabled(r)
        <5>1. staff' = [staff EXCEPT ![m] = [staff[m] EXCEPT !.barred = TRUE, !.status = "DISABLED"]]
          BY <2>1, <3>1, <4>2 DEF Ranks, WriteDisabled
        <5>2. Member(staff[m])
          BY <2>2, <3>1
        <5> QED BY <5>1, <5>2, StandingWritten
      <4>3. CASE WriteEnabled(r)
        <5>1. staff' = [staff EXCEPT ![m] =
                [staff[m] EXCEPT !.barred = FALSE, !.status = StatusOf(req[r].saw)]]
          BY <2>1, <3>1, <4>3 DEF Ranks, WriteEnabled
        <5>2. Member(staff[m])
          BY <2>2, <3>1
        <5> QED BY <5>1, <5>2, StandingWritten
      <4> QED BY <2>9, <4>1, <4>2, <4>3
    <3>3. staff' = [a \in Members |-> IF a = m THEN n ELSE staff[a]]
      BY <2>1, <3>2 DEF Ranks
    <3>4. ASSUME NEW a \in Members PROVE Kept(a)
      <4>1. CASE a = m
        BY <3>1, <3>2, <3>3, <4>1 DEF IsSuper
      <4>2. CASE a # m
        BY <2>3, <3>3, <4>2
      <4> QED BY <4>1, <4>2
    <3> QED BY <2>1, <3>3, <3>4, Ranked
  <2> QED BY <2>4, <2>5, <2>6, <2>7, <2>8, <2>9
<1>2. CASE End(r) /\ req[r].at # "idle"
  <2>1. Slotted' /\ Acts(r) /\ req'[r] = Idle
    BY <1>2, Ends DEF StaffInv
  <2>2. StaffPromise(r)'
    BY <2>1 DEF StaffPromise, Idle
  <2> QED BY <1>1, <2>1, <2>2, StaffMoves
<1>3. CASE \E at \in {"invite.hash", "invite.send"} : Goto(r, at) /\ req[r].at # "idle"
  <2>1. PICK at \in {"invite.hash", "invite.send"} : Goto(r, at) /\ req[r].at # "idle"
    BY <1>3
  <2>2. Slotted' /\ Acts(r)
        /\ req'[r] = [at |-> at, on |-> req[r].on, by |-> req[r].by, saw |-> req[r].saw]
    BY <2>1, Goes DEF StaffInv
  <2>3. StaffPromise(r)'
    BY <2>2 DEF StaffPromise
  <2> QED BY <1>1, <2>2, <2>3, StaffMoves
<1> QED
  BY <1>2, <1>3
     DEF GiveSystemRole, RemoveRole, CreateInvited, WriteOwnPassword, WriteRole, WriteDisabled,
         WriteEnabled, HashInvited

LEMMA StaffFirsts ==
  ASSUME StaffInv, NEW r \in Requests, \E a \in Members : CreateFirst(r, a) \/ ResetByMail(r, a)
  PROVE  StaffInv'
<1>1. Slotted' /\ Acts(r) /\ req'[r] = req[r] /\ req[r].at = "idle"
  BY Stays DEF StaffInv, CreateFirst, ResetByMail
<1>2. StaffPromise(r)'
  BY <1>1 DEF StaffPromise
<1>3. ASSUME OneByOne, NEW m \in Members, CreateFirst(r, m) PROVE Ranks'
  <2>1. Ranks
    BY <1>3 DEF StaffInv
  <2>2. staff' = [a \in Members |-> IF a = m THEN OwnRow(Super) ELSE staff[a]]
        /\ founders' = founders \cup {m}
    BY <1>3, <2>1 DEF CreateFirst, Ranks
  <2>3. ASSUME NEW a \in Members PROVE Member(staff'[a]) /\ (IsSuper(a)' => a \in founders')
    BY <2>1, <2>2, Filled DEF Ranks, IsSuper, There, OwnRow
  <2> QED BY <2>2, <2>3 DEF Ranks
<1>4. ASSUME OneByOne, NEW m \in Members, ResetByMail(r, m) PROVE Ranks'
  <2>1. Ranks /\ founders' = founders
    BY <1>4 DEF StaffInv, ResetByMail
  <2>2. staff' = [a \in Members |-> IF a = m THEN [staff[a] EXCEPT !.hash = "own"] ELSE staff[a]]
    BY <1>4, <2>1 DEF ResetByMail, Ranks
  <2>3. ASSUME NEW a \in Members PROVE Member(staff'[a]) /\ (IsSuper(a)' => IsSuper(a))
    <3>1. CASE a = m
      <4>1. Member(staff[a]) /\ staff'[a] = [staff[a] EXCEPT !.hash = "own"]
        BY <2>1, <2>2, <3>1 DEF Ranks
      <4>2. Member(staff'[a]) /\ staff'[a].role = staff[a].role /\ staff'[a].status = staff[a].status
        BY <4>1, HashWritten
      <4> QED BY <4>2 DEF IsSuper, There
    <3>2. CASE a # m
      BY <2>1, <2>2, <3>2 DEF Ranks, IsSuper, There
    <3> QED BY <3>1, <3>2
  <2> QED BY <2>1, <2>2, <2>3, Ranked
<1> QED BY <1>1, <1>2, <1>3, <1>4, StaffMoves

LEMMA StaffInitial == StaffInit /\ FlightInit => StaffInv
<1> SUFFICES ASSUME StaffInit /\ FlightInit PROVE StaffInv
  OBVIOUS
<1>1. Slotted
  BY DEF FlightInit, Slotted, Shaped, Idle
<1>2. Ranks
  BY Filled DEF StaffInit, Ranks, IsSuper, There, OwnRow, NoRow
<1>3. ASSUME NEW r \in Requests PROVE StaffPromise(r)
  BY DEF FlightInit, Idle, StaffPromise
<1> QED BY <1>1, <1>2, <1>3 DEF StaffInv

LEMMA StaffStep == StaffInv /\ [StaffNext]_<<staffVars, flight>> => StaffInv'
<1> SUFFICES ASSUME StaffInv, [StaffNext]_<<staffVars, flight>> PROVE StaffInv'
  OBVIOUS
<1>1. CASE UNCHANGED <<staffVars, flight>>
  BY <1>1 DEF staffVars, flight, StaffInv, Slotted, OneByOne, Ranks, IsSuper, There, StaffPromise
<1>2. ASSUME NEW r \in Requests, StaffArrive(r) PROVE StaffInv'
  BY <1>2, StaffBegins, StaffPasses, StaffFirsts DEF StaffArrive
<1>3. ASSUME NEW r \in Requests, StaffProceed(r) PROVE StaffInv'
  BY <1>3, StaffPasses, StaffWrites DEF StaffProceed
<1> QED BY <1>1, <1>2, <1>3 DEF StaffNext

LEMMA StaffInvariance == StaffSpec => []StaffInv
BY StaffInitial, StaffStep, PTL DEF StaffSpec

(* Requests one after the other, deaths allowed: nobody but the founders   *)
(* counts as a Super Admin, whatever roles are given, taken and deleted    *)
(* (resolveAdminAccess, deleteRole).                                       *)
THEOREM OnlyFoundersAreSuper == StaffSpec => []NobodyIsRaised
<1>1. StaffInv => NobodyIsRaised
  BY DEF StaffInv, Ranks, NobodyIsRaised
<1> QED BY <1>1, StaffInvariance, PTL

-----------------------------------------------------------------------------
(* Staff again: what the rows of invited administrators say.  Each request *)
(* holds what it was begun with.                                           *)
StaffRows ==
  [role : Roles \cup {Super, None}, status : {"NONE", "PENDING", "ACTIVE", "DISABLED"},
   barred : BOOLEAN, first : BOOLEAN, hash : {"none", "pending", "id", "own"}]

Holds(r) ==
  /\ req[r].at \in {"invite.create", "invite.hash", "invite.send"} => req[r].on \in Members
  /\ req[r].at \in {"invite.create", "staff.role"} => req[r].by \in Roles

(* Nobody disables an administrator who is about to set his password, and  *)
(* what enableStaff has read is what it goes by.                           *)
Steady(r) ==
  /\ req[r].at = "own.write" => req[r].on \in Members /\ ~staff[req[r].on].barred
  /\ req[r].at = "enable.write" =>
       req[r].on \in Members /\ req[r].saw = staff[req[r].on].first

Agrees(a) ==
  /\ staff[a].status = "PENDING" => staff[a].first
  /\ Invited(a) =>
       /\ staff[a].barred <=> staff[a].status = "DISABLED"
       /\ ~staff[a].barred => (staff[a].first <=> staff[a].status = "PENDING")

(* Whoever has yet to set his password can, or is being invited.           *)
Underway(a) ==
  \E r \in Requests :
    /\ req[r].on = a
    /\ \/ req[r].at = "invite.hash"
       \/ req[r].at = "invite.send" /\ staff[a].hash # "pending"

Welcome(a) == staff[a].first => Underway(a) \/ (a \in told /\ staff[a].hash # "pending")

Standing ==
  /\ StaffTypeOK
  /\ \A r \in Requests : Holds(r)
  /\ OneByOne => (\A a \in Members : Agrees(a)) /\ \A r \in Requests : Steady(r)
  /\ Orderly => \A a \in Members : Welcome(a)

LEMMA StandingMoves ==
  ASSUME StaffInv, Standing, NEW r \in Requests, Acts(r), died => died', StaffTypeOK', Holds(r)',
         OneByOne => (\A a \in Members : Agrees(a)') /\ Steady(r)',
         Orderly /\ ~died' => \A a \in Members : Welcome(a)'
  PROVE  Standing'
<1>1. r \in slots /\ (OneByOne' <=> OneByOne) /\ (Orderly' => Orderly /\ ~died')
  BY DEF Acts, OneByOne, Orderly
<1>2. ASSUME NEW q \in Requests PROVE Holds(q)'
  <2>1. CASE q = r
    BY <2>1
  <2>2. CASE q # r
    BY <2>2 DEF Acts, Standing, Holds
  <2> QED BY <2>1, <2>2
<1>3. ASSUME OneByOne, NEW q \in Requests PROVE Steady(q)'
  <2>1. CASE q = r
    BY <1>3, <2>1
  <2>2. CASE q # r
    <3>1. req'[q].at = "idle"
      BY <1>1, <1>3, <2>2, Alone DEF Acts, StaffInv
    <3> QED BY <3>1 DEF Steady
  <2> QED BY <2>1, <2>2
<1> QED BY <1>1, <1>2, <1>3 DEF Standing

(* While one request acts, no other invites.                               *)
LEMMA NobodyInvites ==
  ASSUME StaffInv, OneByOne, NEW r \in slots, NEW a,
         req[r].at \notin {"invite.hash", "invite.send"} \/ req[r].on # a
  PROVE  ~Underway(a)
BY Alone DEF StaffInv, Underway

(* Beginning something else, and passing, change no row.                   *)
LEMMA RowsRest ==
  ASSUME StaffInv, Standing, NEW r \in Requests, Acts(r), UNCHANGED <<staff, founders>>,
         roles' \subseteq Roles \cup {Super}, told' \subseteq Members, told \subseteq told',
         died => died', Holds(r)', OneByOne => Steady(r)',
         Orderly /\ ~died' => \A a \in Members : Underway(a) => a \in told' /\ staff[a].hash # "pending"
  PROVE  Standing'
<1>1. StaffTypeOK'
  BY DEF Standing, StaffTypeOK
<1>2. OneByOne => \A a \in Members : Agrees(a)'
  BY DEF Standing, Agrees, Invited, There
<1>3. Orderly /\ ~died' => \A a \in Members : Welcome(a)'
  BY DEF Standing, Welcome
<1> QED BY <1>1, <1>2, <1>3, StandingMoves

LEMMA RowsBegin ==
  ASSUME StaffInv, Standing, NEW r \in Requests,
         \/ ListStaff(r) \/ \E role \in Roles : DeleteRole(r, role)
         \/ \E a \in Members : FirstSignIn(r, a) \/ Disable(r, a) \/ Enable(r, a)
         \/ \E a \in Members, role \in Roles : Invite(r, a, role)
         \/ \E a \in Members, role \in Roles, actor \in Members : Reassign(r, a, role, actor)
  PROVE  Standing'
<1>1. UNCHANGED <<staff, founders, told, died>> /\ roles' \subseteq Roles \cup {Super}
      /\ told \subseteq Members
  BY DEF ListStaff, DeleteRole, FirstSignIn, Disable, Enable, Invite, Reassign, staffVars, Begin,
         Standing, StaffTypeOK
<1>2. ASSUME NEW at, NEW on, NEW by, NEW saw, Begin(r, at, on, by, saw),
             at \in {"invite.create", "invite.hash", "invite.send"} => on \in Members,
             at \in {"invite.create", "staff.role"} => by \in Roles,
             at = "own.write" => on \in Members /\ ~staff[on].barred,
             at = "enable.write" => on \in Members /\ saw = staff[on].first
      PROVE  Standing'
  <2>1. Acts(r) /\ req'[r] = [at |-> at, on |-> on, by |-> by, saw |-> saw]
    BY <1>2, Begins DEF StaffInv
  <2>2. Holds(r)' /\ Steady(r)'
    BY <1>1, <1>2, <2>1 DEF Holds, Steady
  <2>3. Orderly => \A a \in Members : ~Underway(a)
    BY <1>2, <2>1, NobodyInvites DEF Begin, Free, Orderly, Acts
  <2> QED BY <1>1, <2>1, <2>2, <2>3, RowsRest
<1>3. CASE ListStaff(r) \/ \E role \in Roles : DeleteRole(r, role)
  BY <1>2, <1>3 DEF ListStaff, DeleteRole
<1>4. ASSUME NEW a \in Members, FirstSignIn(r, a) \/ Disable(r, a) \/ Enable(r, a) PROVE Standing'
  BY <1>2, <1>4 DEF FirstSignIn, Usable, Disable, Enable
<1>5. ASSUME NEW a \in Members, NEW role \in Roles, Invite(r, a, role) PROVE Standing'
  BY <1>2, <1>5 DEF Invite
<1>6. ASSUME NEW a \in Members, NEW role \in Roles, NEW actor, Reassign(r, a, role, actor)
      PROVE  Standing'
  BY <1>2, <1>6 DEF Reassign
<1> QED BY <1>3, <1>4, <1>5, <1>6

LEMMA RowsPass ==
  ASSUME StaffInv, Standing, NEW r \in Requests,
         \/ SendInvitation(r) \/ StopStaff(r)
         \/ \E role \in Roles : CreateRole(r, role)
         \/ \E a \in Members : Reveal(r, a)
  PROVE  Standing'
<1>1. UNCHANGED <<staff, founders>> /\ told \subseteq told' /\ roles' \subseteq Roles \cup {Super}
  BY DEF SendInvitation, StopStaff, CreateRole, Reveal, staffVars, Standing, StaffTypeOK
<1>2. told' \subseteq Members
  BY DEF SendInvitation, StopStaff, CreateRole, Reveal, staffVars, Standing, StaffTypeOK, Holds
<1>3. ASSUME req'[r].at = "idle" PROVE Holds(r)' /\ Steady(r)'
  BY <1>3 DEF Holds, Steady
<1>4. CASE SendInvitation(r)
  <2>1. Acts(r) /\ req'[r] = Idle
    BY <1>4, Ends DEF StaffInv, SendInvitation
  <2>2. ASSUME Orderly, NEW a \in Members, Underway(a) PROVE a \in told' /\ staff[a].hash # "pending"
    <3>1. \A q \in Requests \ {r} : req[q].at = "idle"
      BY <2>1, <2>2, Alone DEF Orderly, StaffInv, Acts
    <3>2. req[r].on = a /\ staff[a].hash # "pending"
      BY <1>4, <2>2, <3>1 DEF Underway, SendInvitation
    <3> QED BY <1>4, <3>2 DEF SendInvitation
  <2>3. died' = died
    BY <1>4 DEF SendInvitation, End
  <2> QED BY <1>1, <1>2, <1>3, <2>1, <2>2, <2>3, RowsRest DEF Idle
<1>5. CASE StopStaff(r)
  <2>1. Acts(r) /\ req'[r] = Idle
    BY <1>5, Ends DEF StaffInv, StopStaff, StaffRefused, Die
  <2>2. died' \/ (died' = died /\ req[r].at \notin {"invite.hash", "invite.send"})
    BY <1>5 DEF StopStaff, StaffRefused, Die, End
  <2>3. Orderly /\ ~died' => \A a \in Members : ~Underway(a)
    BY <2>1, <2>2, NobodyInvites DEF Orderly, Acts
  <2>4. died => died'
    BY <2>2
  <2> QED BY <1>1, <1>2, <1>3, <2>1, <2>3, <2>4, RowsRest DEF Idle
<1>6. CASE Once(r)
  <2>1. Acts(r) /\ req'[r] = req[r] /\ req[r].at = "idle"
    BY <1>6, Stays DEF StaffInv
  <2>2. died' = died
    BY <1>6 DEF Once, flight
  <2>3. Orderly => \A a \in Members : ~Underway(a)
    BY <2>1, NobodyInvites DEF Orderly, Acts
  <2> QED BY <1>1, <1>2, <1>3, <2>1, <2>2, <2>3, RowsRest
<1> QED BY <1>4, <1>5, <1>6 DEF CreateRole, Reveal

(* Rows are changed so that nobody is asked for a first password again.    *)
LEMMA StaysWelcome ==
  ASSUME StaffInv, Standing, Orderly, NEW r \in slots,
         req[r].at \notin {"invite.hash", "invite.send"}, told \subseteq told', NEW a \in Members,
         staff'[a].first => staff[a].first,
         staff'[a].hash = "pending" => staff[a].hash = "pending"
  PROVE  Welcome(a)'
<1>1. ~Underway(a)
  BY NobodyInvites DEF Orderly
<1> QED BY <1>1 DEF Standing, Welcome

LEMMA RowsWrite ==
  ASSUME StaffInv, Standing, NEW r \in Requests,
         \/ GiveSystemRole(r) \/ RemoveRole(r) \/ WriteOwnPassword(r)
         \/ WriteRole(r) \/ WriteDisabled(r) \/ WriteEnabled(r)
  PROVE  Standing'
<1>0. PICK m : req[r].on = m
  OBVIOUS
<1>1. /\ End(r) /\ req[r].at \notin {"idle", "invite.hash", "invite.send"}
      /\ UNCHANGED <<told, founders, died>> /\ roles' \subseteq Roles \cup {Super}
  BY DEF GiveSystemRole, RemoveRole, WriteOwnPassword, WriteRole, WriteDisabled, WriteEnabled,
       End,
         Standing, StaffTypeOK
<1>2. Acts(r) /\ req'[r] = Idle
  BY <1>1, Ends DEF StaffInv
<1>3. staff \in [Members -> StaffRows] /\ \A a \in Members : staff[a] \in StaffRows
  BY DEF Standing, StaffTypeOK, StaffRows
<1> DEFINE Fine(a) ==
      /\ staff'[a] \in StaffRows
      /\ staff'[a].first => staff[a].first
      /\ staff'[a].hash = "pending" => staff[a].hash = "pending"
      /\ OneByOne => Agrees(a)'
<1>4. ASSUME NEW a \in Members, staff'[a] = staff[a] PROVE Fine(a)
  BY <1>1, <1>3, <1>4 DEF Standing, Agrees, Invited, There
<1>5. staff' \in [Members -> StaffRows] /\ \A a \in Members : Fine(a)
  <2>1. CASE GiveSystemRole(r)
    <3>1. staff' = [a \in Members |->
            IF There(a) /\ staff[a].role = None
              THEN [staff[a] EXCEPT !.role = Super, !.status = "ACTIVE", !.first = FALSE]
              ELSE staff[a]]
      BY <2>1 DEF GiveSystemRole
    <3>2. ASSUME NEW a \in Members, There(a), staff[a].role = None PROVE Fine(a)
      <4>1. staff'[a] = [staff[a] EXCEPT !.role = Super, !.status = "ACTIVE", !.first = FALSE]
        BY <3>1, <3>2
      <4>2. /\ staff'[a] \in StaffRows /\ staff'[a].status = "ACTIVE" /\ ~staff'[a].first
            /\ staff'[a].hash = staff[a].hash
        BY <1>3, <4>1 DEF StaffRows
      <4>3. OneByOne => a \in founders
        BY <3>2 DEF StaffInv, Ranks, IsSuper
      <4> QED BY <1>1, <4>2, <4>3 DEF Agrees, Invited
    <3>3. \A a \in Members : Fine(a)
      BY <1>4, <3>1, <3>2
    <3> QED BY <3>1, <3>3
  <2>2. CASE RemoveRole(r)
    <3>1. staff' = [a \in Members |->
            IF staff[a].role = m THEN [staff[a] EXCEPT !.role = None] ELSE staff[a]]
      BY <1>0, <2>2 DEF RemoveRole
    <3>2. ASSUME NEW a \in Members, staff[a].role = m PROVE Fine(a)
      <4>1. staff'[a] = [staff[a] EXCEPT !.role = None]
        BY <3>1, <3>2
      <4>2. /\ staff'[a] \in StaffRows /\ staff'[a].status = staff[a].status
            /\ staff'[a].first = staff[a].first /\ staff'[a].hash = staff[a].hash
            /\ staff'[a].barred = staff[a].barred
        BY <1>3, <4>1 DEF StaffRows
      <4> QED BY <1>1, <4>2 DEF Standing, Agrees, Invited, There
    <3>3. \A a \in Members : Fine(a)
      BY <1>4, <3>1, <3>2
    <3> QED BY <3>1, <3>3
  <2>3. ASSUME m \in Members, NEW row \in StaffRows, staff' = [staff EXCEPT ![m] = row], Fine(m)
        PROVE  staff' \in [Members -> StaffRows] /\ \A a \in Members : Fine(a)
    <3>1. staff' \in [Members -> StaffRows] /\ \A a \in Members \ {m} : staff'[a] = staff[a]
      BY <1>3, <2>3
    <3> QED BY <1>4, <2>3, <3>1
  <2>4. CASE WriteRole(r)
    <3> DEFINE row == [staff[m] EXCEPT !.role = req[r].by]
    <3>1. req[r].by \in Roles
      BY <2>4 DEF WriteRole, Standing, Holds
    <3>2. CASE m \in Members
      <4>1. staff' = [staff EXCEPT ![m] = row] /\ staff'[m] = row
        BY <1>0, <1>3, <2>4, <3>2 DEF WriteRole
      <4>2. /\ row \in StaffRows /\ row.status = staff[m].status /\ row.barred = staff[m].barred
            /\ row.first = staff[m].first /\ row.hash = staff[m].hash
        BY <1>3, <3>1, <3>2 DEF StaffRows
      <4>3. Fine(m)
        BY <1>1, <3>2, <4>1, <4>2 DEF Standing, Agrees, Invited, There
      <4> QED BY <2>3, <3>2, <4>1, <4>2, <4>3
    <3>3. CASE m \notin Members
      <4>1. staff' = staff
        BY <1>0, <1>3, <2>4, <3>3 DEF WriteRole
      <4> QED BY <1>3, <1>4, <4>1
    <3> QED BY <3>2, <3>3
  <2>5. CASE WriteDisabled(r)
    <3> DEFINE row == [staff[m] EXCEPT !.barred = TRUE, !.status = "DISABLED"]
    <3>2. CASE m \in Members
      <4>1. staff' = [staff EXCEPT ![m] = row] /\ staff'[m] = row
        BY <1>0, <1>3, <2>5, <3>2 DEF WriteDisabled
      <4>2. /\ row \in StaffRows /\ row.status = "DISABLED" /\ row.barred
            /\ row.first = staff[m].first /\ row.hash = staff[m].hash
        BY <1>3, <3>2 DEF StaffRows
      <4>3. Fine(m)
        BY <1>1, <3>2, <4>1, <4>2 DEF Agrees
      <4> QED BY <2>3, <3>2, <4>1, <4>2, <4>3
    <3>3. CASE m \notin Members
      <4>1. staff' = staff
        BY <1>0, <1>3, <2>5, <3>3 DEF WriteDisabled
      <4> QED BY <1>3, <1>4, <4>1
    <3> QED BY <3>2, <3>3
  <2>6. CASE WriteEnabled(r)
    <3> DEFINE row == [staff[m] EXCEPT !.barred = FALSE, !.status = StatusOf(req[r].saw)]
    <3>2. CASE m \in Members
      <4>1. staff' = [staff EXCEPT ![m] = row] /\ staff'[m] = row
        BY <1>0, <1>3, <2>6, <3>2 DEF WriteEnabled
      <4>2. /\ row \in StaffRows /\ row.status = StatusOf(req[r].saw) /\ ~row.barred
            /\ row.first = staff[m].first /\ row.hash = staff[m].hash
        BY <1>3, <3>2 DEF StaffRows, StatusOf
      <4>3. OneByOne => req[r].saw = staff[m].first
        BY <1>0, <2>6 DEF WriteEnabled, Standing, Steady
      <4>4. /\ staff'[m].status \in {"PENDING", "ACTIVE"} /\ ~staff'[m].barred
            /\ OneByOne => (staff'[m].status = "PENDING" <=> staff'[m].first)
        BY <1>3, <3>2, <4>1, <4>2, <4>3 DEF StatusOf
      <4>5. OneByOne => Agrees(m)'
        BY <4>4 DEF Agrees
      <4>6. Fine(m)
        BY <3>2, <4>1, <4>2, <4>5
      <4> QED BY <2>3, <3>2, <4>1, <4>2, <4>6
    <3>3. CASE m \notin Members
      <4>1. staff' = staff
        BY <1>0, <1>3, <2>6, <3>3 DEF WriteEnabled
      <4> QED BY <1>3, <1>4, <4>1
    <3> QED BY <3>2, <3>3
  <2>7. CASE WriteOwnPassword(r)
    <3> DEFINE row == [staff[m] EXCEPT !.hash = "own", !.first = FALSE, !.status = "ACTIVE"]
    <3>2. CASE m \in Members
      <4>1. staff' = [staff EXCEPT ![m] = row] /\ staff'[m] = row
        BY <1>0, <1>3, <2>7, <3>2 DEF WriteOwnPassword
      <4>2. /\ row \in StaffRows /\ row.status = "ACTIVE" /\ row.barred = staff[m].barred
            /\ ~row.first /\ row.hash = "own"
        BY <1>3, <3>2 DEF StaffRows
      <4>3. OneByOne => ~staff[m].barred
        BY <1>0, <2>7 DEF WriteOwnPassword, Standing, Steady
      <4>4. Fine(m)
        BY <1>1, <3>2, <4>1, <4>2, <4>3 DEF Agrees
      <4> QED BY <2>3, <3>2, <4>1, <4>2, <4>4
    <3>3. CASE m \notin Members
      <4>1. staff' = staff
        BY <1>0, <1>3, <2>7, <3>3 DEF WriteOwnPassword
      <4> QED BY <1>3, <1>4, <4>1
    <3> QED BY <3>2, <3>3
  <2> QED BY <2>1, <2>2, <2>4, <2>5, <2>6, <2>7
<1>6. StaffTypeOK'
  BY <1>1, <1>5 DEF Standing, StaffTypeOK, StaffRows
<1>7. Holds(r)' /\ Steady(r)'
  BY <1>2 DEF Idle, Holds, Steady
<1>8. Orderly => \A a \in Members : Welcome(a)'
  BY <1>1, <1>2, <1>5, StaysWelcome DEF Acts
<1> QED BY <1>1, <1>2, <1>5, <1>6, <1>7, <1>8, StandingMoves

(* The invitation: a row, then a hash, then the password made known.       *)
LEMMA RowsInvite ==
  ASSUME StaffInv, Standing, NEW r \in Requests, CreateInvited(r) \/ HashInvited(r)
  PROVE  Standing'
<1>0. PICK m : req[r].on = m
  OBVIOUS
<1>1. m \in Members /\ staff \in [Members -> StaffRows] /\ UNCHANGED <<roles, told, founders, died>>
  BY <1>0 DEF CreateInvited, HashInvited, Goto, Standing, StaffTypeOK, StaffRows, Holds
<1>2. PICK at \in {"invite.hash", "invite.send"} :
        /\ Goto(r, at) /\ req[r].at # "idle"
        /\ at = "invite.hash" <=> CreateInvited(r)
  BY DEF CreateInvited, HashInvited
<1>3. Acts(r) /\ req'[r] = [at |-> at, on |-> m, by |-> req[r].by, saw |-> req[r].saw]
  BY <1>0, <1>2, Goes DEF StaffInv
<1>4. PICK row \in StaffRows :
        /\ staff' = [staff EXCEPT ![m] = row]
        /\ at = "invite.hash" =>
             row.status = "PENDING" /\ ~row.barred /\ row.first
        /\ at = "invite.send" =>
             /\ row.hash = "id" /\ row.status = staff[m].status
             /\ row.barred = staff[m].barred /\ row.first = staff[m].first
  <2>1. CASE CreateInvited(r)
    <3> DEFINE row == [role |-> req[r].by, status |-> "PENDING", barred |-> FALSE, first |-> TRUE,
                       hash |-> "pending"]
    <3>1. req[r].by \in Roles
      BY <2>1 DEF CreateInvited, Standing, Holds
    <3>2. row \in StaffRows /\ staff' = [staff EXCEPT ![m] = row]
      BY <1>0, <2>1, <3>1 DEF CreateInvited, StaffRows
    <3>3. at = "invite.hash"
      BY <1>2, <2>1
    <3> QED BY <3>2, <3>3
  <2>2. CASE HashInvited(r) /\ ~CreateInvited(r)
    <3> DEFINE row == [staff[m] EXCEPT !.hash = "id"]
    <3>1. staff' = [staff EXCEPT ![m] = row]
      BY <1>0, <1>1, <2>2 DEF HashInvited
    <3>2. /\ row \in StaffRows /\ row.hash = "id" /\ row.status = staff[m].status
          /\ row.barred = staff[m].barred /\ row.first = staff[m].first
      BY <1>1 DEF StaffRows
    <3>3. at = "invite.send"
      BY <1>2, <2>2
    <3> QED BY <3>1, <3>2, <3>3
  <2> QED BY <2>1, <2>2
<1>5. staff' \in [Members -> StaffRows] /\ staff'[m] = row
      /\ \A a \in Members \ {m} : staff'[a] = staff[a]
  BY <1>1, <1>4
<1>6. StaffTypeOK'
  BY <1>1, <1>5 DEF Standing, StaffTypeOK, StaffRows
<1>7. Holds(r)' /\ Steady(r)'
  BY <1>1, <1>2, <1>3 DEF Holds, Steady, CreateInvited, HashInvited
<1>8. ASSUME OneByOne, NEW a \in Members PROVE Agrees(a)'
  <2>0. Agrees(a)
    BY <1>8 DEF Standing
  <2>1. CASE a # m
    BY <1>1, <1>5, <2>0, <2>1 DEF Agrees, Invited, There
  <2>2. CASE a = m /\ at = "invite.hash"
    BY <1>4, <1>5, <2>2 DEF Agrees
  <2>3. CASE a = m /\ at = "invite.send"
    BY <1>1, <1>4, <1>5, <2>0, <2>3 DEF Agrees, Invited, There
  <2> QED BY <1>2, <2>1, <2>2, <2>3
<1>9. ASSUME Orderly, NEW a \in Members PROVE Welcome(a)'
  <2>1. CASE a = m
    <3>1. Underway(a)'
      BY <1>2, <1>3, <1>4, <1>5, <2>1 DEF Underway
    <3> QED BY <3>1 DEF Welcome
  <2>2. CASE a # m
    <3>1. ~Underway(a)
      BY <1>0, <1>3, <1>9, <2>2, NobodyInvites DEF Acts, Orderly
    <3> QED BY <1>1, <1>5, <1>9, <2>2, <3>1 DEF Standing, Welcome
  <2> QED BY <2>1, <2>2
<1> QED BY <1>1, <1>3, <1>6, <1>7, <1>8, <1>9, StandingMoves

(* The first administrator, and a password reset by mail.                  *)
LEMMA RowsFirst ==
  ASSUME StaffInv, Standing, NEW r \in Requests, NEW m \in Members,
         CreateFirst(r, m) \/ ResetByMail(r, m)
  PROVE  Standing'
<1>1. /\ Once(r) /\ UNCHANGED told /\ founders \subseteq founders' /\ founders' \subseteq Members
      /\ roles' \subseteq Roles \cup {Super} /\ staff \in [Members -> StaffRows]
  BY DEF CreateFirst, ResetByMail, Standing, StaffTypeOK, StaffRows
<1>2. Acts(r) /\ req'[r] = req[r] /\ req[r].at = "idle" /\ died' = died
  BY <1>1, Stays DEF StaffInv, Once, flight
<1>3. PICK row \in StaffRows :
        /\ staff' = [staff EXCEPT ![m] = row]
        /\ row.hash = "own"
        /\ \/ m \in founders' /\ row.status = "ACTIVE" /\ ~row.first
           \/ /\ row.status = staff[m].status
              /\ row.barred = staff[m].barred /\ row.first = staff[m].first
  <2>1. CASE CreateFirst(r, m)
    <3> DEFINE row == [role |-> Super, status |-> "ACTIVE", barred |-> FALSE, first |-> FALSE,
                       hash |-> "own"]
    <3>1. row \in StaffRows
      BY DEF StaffRows
    <3>2. staff' = [staff EXCEPT ![m] = row] /\ m \in founders'
      BY <2>1 DEF CreateFirst, OwnRow
    <3> QED BY <3>1, <3>2
  <2>2. CASE ResetByMail(r, m)
    <3> DEFINE row == [staff[m] EXCEPT !.hash = "own"]
    <3>1. staff' = [staff EXCEPT ![m] = row]
      BY <1>1, <2>2 DEF ResetByMail
    <3>2. /\ row \in StaffRows /\ row.hash = "own" /\ row.status = staff[m].status
          /\ row.barred = staff[m].barred /\ row.first = staff[m].first
      BY <1>1 DEF StaffRows
    <3> QED BY <3>1, <3>2
  <2> QED BY <2>1, <2>2
<1>4. staff' \in [Members -> StaffRows] /\ staff'[m] = row
      /\ \A a \in Members \ {m} : staff'[a] = staff[a]
  BY <1>1, <1>3
<1>5. StaffTypeOK' /\ Holds(r)' /\ Steady(r)'
  BY <1>1, <1>2, <1>4 DEF Standing, StaffTypeOK, StaffRows, Holds, Steady
<1>6. ASSUME OneByOne, NEW a \in Members PROVE Agrees(a)'
  <2>0. Agrees(a) /\ (a \in founders => a \in founders')
    BY <1>1, <1>6 DEF Standing
  <2>1. CASE a # m
    BY <1>4, <2>0, <2>1 DEF Agrees, Invited, There
  <2>2. CASE a = m /\ m \in founders' /\ row.status = "ACTIVE"
    BY <1>4, <2>2 DEF Agrees, Invited
  <2>3. CASE a = m /\ row.status = staff[m].status /\ row.barred = staff[m].barred
             /\ row.first = staff[m].first
    BY <1>4, <2>0, <2>3 DEF Agrees, Invited, There
  <2> QED BY <1>3, <2>1, <2>2, <2>3
<1>7. ASSUME Orderly, NEW a \in Members PROVE Welcome(a)'
  <2>1. staff'[a].first => staff[a].first
    BY <1>3, <1>4
  <2>2. staff'[a].hash = "pending" => staff[a].hash = "pending"
    BY <1>3, <1>4
  <2> QED BY <1>1, <1>2, <1>7, <2>1, <2>2, StaysWelcome DEF Acts
<1> QED BY <1>2, <1>5, <1>6, <1>7, StandingMoves

LEMMA StandingStep == StaffInv /\ Standing /\ [StaffNext]_<<staffVars, flight>> => Standing'
<1> SUFFICES ASSUME StaffInv, Standing, [StaffNext]_<<staffVars, flight>> PROVE Standing'
  OBVIOUS
<1>1. CASE UNCHANGED <<staffVars, flight>>
  BY <1>1 DEF staffVars, flight, Standing, StaffTypeOK, Holds, Steady, Agrees, Invited, There,
              Welcome, Underway, Orderly, OneByOne
<1>2. ASSUME NEW r \in Requests, StaffArrive(r) PROVE Standing'
  BY <1>2, RowsBegin, RowsPass, RowsFirst DEF StaffArrive
<1>3. ASSUME NEW r \in Requests, StaffProceed(r) PROVE Standing'
  BY <1>3, RowsPass, RowsWrite, RowsInvite DEF StaffProceed
<1> QED BY <1>1, <1>2, <1>3 DEF StaffNext

LEMMA StandingInvariance == StaffSpec => []Standing
<1>1. ASSUME StaffInit, FlightInit PROVE Standing
  <2>1. \A r \in Requests : req[r].at = "idle"
    BY <1>1 DEF FlightInit, Idle
  <2>2. \A a \in Members :
          /\ staff[a] \in StaffRows /\ ~staff[a].barred /\ ~staff[a].first
          /\ staff[a].status \in {"NONE", "ACTIVE"} /\ (staff[a].status # "NONE" => a \in founders)
    BY <1>1 DEF StaffInit, OwnRow, NoRow, StaffRows
  <2>3. StaffTypeOK
    BY <1>1, <2>2, StaffAssumption DEF StaffInit, StaffTypeOK, StaffRows, StaffAssumption
  <2> QED
    BY <2>1, <2>2, <2>3 DEF Standing, Holds, Steady, Agrees, Invited, There, Welcome
<1> QED BY <1>1, StandingStep, StaffInvariance, PTL DEF StaffSpec

(* Requests one after the other: the columns of an invited administrator   *)
(* agree whatever is disabled, enabled, reassigned or dies half-way, and,  *)
(* if nothing died, whoever is pending can sign in (inviteStaff,           *)
(* enableStaff, setAdminPassword).                                         *)
THEOREM InvitedCanSignIn == StaffSpec => []InvitationsAgree
<1>1. Standing => InvitationsAgree
  <2> SUFFICES ASSUME Standing PROVE InvitationsAgree
    OBVIOUS
  <2>1. ASSUME OneByOne, NEW a \in Members, Invited(a)
        PROVE  /\ staff[a].barred <=> staff[a].status = "DISABLED"
               /\ ~staff[a].barred => (staff[a].first <=> staff[a].status = "PENDING")
    BY <2>1 DEF Standing, Agrees
  <2>2. ASSUME Orderly, AtRest, NEW a \in Members, staff[a].status = "PENDING"
        PROVE  a \in told /\ staff[a].hash # "pending"
    <3>1. ~Underway(a)
      BY <2>2 DEF AtRest, Busy, Underway
    <3>2. staff[a].first
      BY <2>2 DEF Standing, Agrees, Orderly
    <3> QED BY <2>2, <3>1, <3>2 DEF Standing, Welcome
  <2> QED BY <2>1, <2>2 DEF InvitationsAgree
<1> QED BY <1>1, StandingInvariance, PTL

-----------------------------------------------------------------------------
(* Reminders: a booking that somebody was told of is marked, or its window *)
(* is over and no sweep has it in hand any more, so none will come to it.  *)
Marked(b) == Get(DedupKey(b)) # Absent
Over(b)   == clock[b] = "after" /\ \A r \in Requests : req[r].at # "idle" => b \notin req[r].saw
Kept(b)   == Marked(b) \/ Over(b)

ReminderPromise(r) ==
  /\ req[r].at = "remind.look" => req[r].saw \subseteq Upcoming
  /\ req[r].at \in {"remind.mark", "remind.user", "remind.provider"} =>
       /\ req[r].saw \subseteq Upcoming /\ req[r].on \in Upcoming
       /\ notes[<<req[r].on, "provider">>] = 0
       /\ req[r].at # "remind.provider" => notes[<<req[r].on, "user">>] = 0
       /\ req[r].at # "remind.mark" => Kept(req[r].on)

Counted ==
  /\ accepted \subseteq Upcoming
  /\ clock = [b \in Upcoming |-> clock[b]]
  /\ notes \in [Upcoming \X Parties -> 0..1]
  /\ redis = [k \in Keys |-> redis[k]] /\ memory = [k \in Keys |-> memory[k]]

Told == \A b \in Upcoming, p \in Parties : notes[<<b, p>>] # 0 => Kept(b)

Calm == OneByOne /\ ~switched

RemindersInv ==
  Slotted /\ (Calm => Counted /\ Told /\ \A r \in Requests : ReminderPromise(r))

LEMMA RemindersMove ==
  ASSUME RemindersInv, NEW r \in Requests, Slotted', Acts(r), switched' = switched,
         Calm => ReminderPromise(r)' /\ Counted' /\ Told'
  PROVE  RemindersInv'
<1>1. r \in slots /\ (Calm' <=> Calm)
  BY DEF Acts, OneByOne, Calm
<1>2. ASSUME Calm, NEW q \in Requests PROVE ReminderPromise(q)'
  <2>1. CASE q = r
    BY <1>2, <2>1
  <2>2. CASE q # r
    <3>1. req'[q].at = "idle"
      BY <1>1, <1>2, <2>2, Alone DEF Acts, RemindersInv, Calm
    <3> QED BY <3>1 DEF ReminderPromise
  <2> QED BY <2>1, <2>2
<1> QED BY <1>1, <1>2 DEF RemindersInv

(* A handler that takes up no booking whose window is over.                *)
LEMMA KeptStays ==
  ASSUME NEW r \in Requests, Acts(r), clock' = clock,
         \A b \in Upcoming : Marked(b) => Marked(b)',
         \A b \in Upcoming : clock[b] = "after" /\ req'[r].at # "idle" /\ b \in req'[r].saw =>
           req[r].at # "idle" /\ b \in req[r].saw
  PROVE  \A b \in Upcoming : Kept(b) => Kept(b)'
<1> SUFFICES ASSUME NEW b \in Upcoming, Over(b) PROVE Over(b)'
  BY DEF Kept
<1>1. ASSUME NEW q \in Requests, req'[q].at # "idle" PROVE b \notin req'[q].saw
  <2>1. CASE q = r
    BY <1>1, <2>1 DEF Over
  <2>2. CASE q # r
    BY <1>1, <2>2 DEF Over, Acts
  <2> QED BY <2>1, <2>2
<1> QED BY <1>1 DEF Over

(* Steps that tell nobody and mark nothing.                                *)
LEMMA RemindersPass ==
  ASSUME RemindersInv, NEW r \in Requests, Slotted', Acts(r), UNCHANGED <<clock, notes, stores>>,
         Calm => accepted' \subseteq Upcoming,
         \A b \in Upcoming : clock[b] = "after" /\ req'[r].at # "idle" /\ b \in req'[r].saw =>
           req[r].at # "idle" /\ b \in req[r].saw,
         Calm /\ (\A b \in Upcoming : Kept(b) => Kept(b)') => ReminderPromise(r)'
  PROVE  RemindersInv'
<1>1. \A b \in Upcoming : Kept(b) => Kept(b)'
  <2>1. \A b \in Upcoming : Marked(b) => Marked(b)'
    BY DEF stores, Marked, Get
  <2> QED BY <2>1, KeptStays
<1>2. Calm => Counted' /\ Told'
  BY <1>1 DEF RemindersInv, Counted, Told, stores
<1> QED BY <1>1, <1>2, RemindersMove DEF stores

LEMMA BookingsChange ==
  ASSUME RemindersInv, NEW r \in Requests, NEW b \in Upcoming, Accept(r, b) \/ Withdraw(r, b)
  PROVE  RemindersInv'
<1>1. Slotted' /\ Acts(r) /\ req'[r] = req[r] /\ req[r].at = "idle"
  BY Stays DEF RemindersInv, Accept, Withdraw
<1>2. UNCHANGED <<clock, notes, stores>> /\ (Calm => accepted' \subseteq Upcoming)
  BY DEF Accept, Withdraw, RemindersInv, Counted
<1>3. ReminderPromise(r)'
  BY <1>1 DEF ReminderPromise
<1> QED BY <1>1, <1>2, <1>3, RemindersPass

LEMMA SweepsPass ==
  ASSUME RemindersInv, NEW r \in Requests, Sweep(r) \/ SweepDone(r) \/ StopReminders(r)
  PROVE  RemindersInv'
<1>1. UNCHANGED <<accepted, clock, notes, stores>> /\ (Calm => accepted' \subseteq Upcoming)
  BY DEF Sweep, SweepDone, StopReminders, reminderVars, RemindersInv, Counted
<1>2. CASE Sweep(r)
  <2>1. Slotted' /\ Acts(r)
        /\ req'[r] = [at |-> "remind.look", on |-> None, by |-> None, saw |-> {b \in accepted : clock[b] = "in"}]
    BY <1>2, Begins DEF Sweep, RemindersInv
  <2>2. Calm => ReminderPromise(r)'
    BY <1>1, <2>1 DEF ReminderPromise
  <2> QED BY <1>1, <2>1, <2>2, RemindersPass
<1>3. CASE SweepDone(r) \/ StopReminders(r)
  <2>1. Slotted' /\ Acts(r) /\ req'[r] = Idle
    BY <1>3, Ends DEF SweepDone, StopReminders, Die, RemindersInv
  <2>2. req'[r].at = "idle" /\ ReminderPromise(r)'
    BY <2>1 DEF ReminderPromise, Idle
  <2> QED BY <1>1, <2>1, <2>2, RemindersPass
<1> QED BY <1>2, <1>3

LEMMA BookingsLookedUp ==
  ASSUME RemindersInv, NEW r \in Requests, NEW b \in Upcoming, Look(r, b)
  PROVE  RemindersInv'
<1> DEFINE at == IF Get(DedupKey(b)) = Absent THEN "remind.mark" ELSE "remind.look"
<1>1. req' = [req EXCEPT ![r] = [at |-> at, on |-> b, by |-> None, saw |-> req[r].saw \ {b}]]
      /\ slots' = slots /\ UNCHANGED reminderVars /\ req[r].at = "remind.look" /\ b \in req[r].saw
  BY DEF Look
<1>2. Slotted' /\ Acts(r) /\ req'[r] = [at |-> at, on |-> b, by |-> None, saw |-> req[r].saw \ {b}]
  BY <1>1 DEF RemindersInv, Slotted, Shaped, Acts
<1>3. UNCHANGED <<accepted, clock, notes, stores>> /\ (Calm => accepted' \subseteq Upcoming)
  BY <1>1 DEF reminderVars, RemindersInv, Counted
<1>4. ASSUME Calm PROVE ReminderPromise(r)'
  <2>1. req[r].saw \ {b} \subseteq Upcoming /\ Told
    BY <1>1, <1>4 DEF RemindersInv, ReminderPromise
  <2>2. CASE Get(DedupKey(b)) = Absent
    <3>1. ~Kept(b)
      BY <1>1, <2>2 DEF Kept, Marked, Over
    <3>2. notes[<<b, "user">>] = 0 /\ notes[<<b, "provider">>] = 0
      BY <2>1, <3>1 DEF Told, Parties
    <3> QED BY <1>2, <1>3, <2>1, <2>2, <3>2 DEF ReminderPromise
  <2>3. CASE Get(DedupKey(b)) # Absent
    BY <1>2, <2>1, <2>3 DEF ReminderPromise
  <2> QED BY <2>2, <2>3
<1>5. req[r].at # "idle" /\ req'[r].saw \subseteq req[r].saw
  BY <1>1, <1>2
<1> QED BY <1>2, <1>3, <1>4, <1>5, RemindersPass

LEMMA BookingsMarked ==
  ASSUME RemindersInv, NEW r \in Requests, Mark(r)
  PROVE  RemindersInv'
<1> DEFINE m == req[r].on
<1>1. req[r].at = "remind.mark" /\ Put(DedupKey(m), "1") /\ Goto(r, "remind.user")
      /\ UNCHANGED <<accepted, clock, notes>>
  BY DEF Mark
<1>2. Slotted' /\ Acts(r)
      /\ req'[r] = [at |-> "remind.user", on |-> m, by |-> req[r].by, saw |-> req[r].saw]
  BY <1>1, Goes DEF RemindersInv
<1>3. switched' = switched
  BY <1>1 DEF Put
<1>4. ASSUME Calm PROVE ReminderPromise(r)' /\ Counted' /\ Told'
  <2>1. Counted /\ Told /\ ReminderPromise(r) /\ m \in Upcoming
    BY <1>1, <1>4 DEF RemindersInv, ReminderPromise
  <2>2. DedupKey(m) \in Keys /\ Absent # "1"
    BY <2>1, RemindersAssumption
  <2>3. Counted'
    BY <1>1, <2>1 DEF Counted, Put
  <2>4. ASSUME NEW b \in Upcoming, Marked(b) PROVE Marked(b)'
    <3>1. DedupKey(b) \in Keys /\ ready' = ready
      BY <1>1, RemindersAssumption DEF Put
    <3>2. /\ redis'[DedupKey(b)] \in {redis[DedupKey(b)], "1"}
          /\ memory'[DedupKey(b)] \in {memory[DedupKey(b)], "1"}
      BY <1>1, <2>1, <3>1 DEF Put, Counted
    <3> QED BY <2>2, <2>4, <3>1, <3>2 DEF Marked, Get
  <2>5. Marked(m)'
    BY <1>1, <1>2, <2>1, <2>2 DEF Marked, Get, Put, Counted
  <2>6. \A b \in Upcoming : Kept(b) => Kept(b)'
    BY <1>1, <1>2, <2>4, KeptStays
  <2>7. Told'
    BY <1>1, <2>1, <2>6 DEF Told
  <2>8. ReminderPromise(r)'
    BY <1>1, <1>2, <2>1, <2>5 DEF ReminderPromise, Kept
  <2> QED BY <2>3, <2>7, <2>8
<1> QED BY <1>2, <1>3, <1>4, RemindersMove

LEMMA PartiesTold ==
  ASSUME RemindersInv, NEW r \in Requests, NEW p \in Parties, Announce(r, p)
  PROVE  RemindersInv'
<1> DEFINE m == req[r].on
           next == IF p = "user" THEN "remind.provider" ELSE "remind.look"
<1>1. /\ req[r].at = IF p = "user" THEN "remind.user" ELSE "remind.provider"
      /\ Goto(r, next) /\ UNCHANGED <<accepted, clock, stores>>
      /\ \/ notes' = [notes EXCEPT ![<<m, p>>] = IF @ = 2 THEN 2 ELSE @ + 1]
         \/ UNCHANGED notes
  BY DEF Announce
<1>2. Slotted' /\ Acts(r) /\ req'[r] = [at |-> next, on |-> m, by |-> req[r].by, saw |-> req[r].saw]
  BY <1>1, Goes DEF RemindersInv
<1>3. switched' = switched
  BY <1>1 DEF stores
<1>4. ASSUME Calm PROVE ReminderPromise(r)' /\ Counted' /\ Told'
  <2>1. /\ Counted /\ Told /\ m \in Upcoming /\ req[r].saw \subseteq Upcoming
        /\ notes[<<m, "provider">>] = 0 /\ Kept(m)
        /\ p = "user" => notes[<<m, "user">>] = 0
    BY <1>1, <1>4 DEF RemindersInv, ReminderPromise
  <2>2. \A b \in Upcoming : Kept(b) => Kept(b)'
    <3>1. \A b \in Upcoming : Marked(b) => Marked(b)'
      BY <1>1 DEF stores, Marked, Get
    <3> QED BY <1>1, <1>2, <3>1, KeptStays
  <2>3. notes[<<m, p>>] = 0
    BY <2>1 DEF Parties
  <2>4. notes' = [notes EXCEPT ![<<m, p>>] = 1] \/ notes' = notes
    BY <1>1, <2>3
  <2>5. <<m, p>> \in Upcoming \X Parties /\ notes \in [Upcoming \X Parties -> 0..1]
    BY <2>1 DEF Counted
  <2>6. Counted'
    BY <1>1, <2>1, <2>4, <2>5 DEF Counted, stores
  <2>7. \A b \in Upcoming, q \in Parties : <<b, q>> # <<m, p>> => notes'[<<b, q>>] = notes[<<b, q>>]
    BY <2>4, <2>5
  <2>8. Told'
    BY <2>1, <2>2, <2>7 DEF Told
  <2>9. p = "user" => notes'[<<m, "provider">>] = 0
    BY <2>1, <2>7 DEF Parties
  <2>10. ReminderPromise(r)'
    BY <1>2, <2>1, <2>2, <2>9 DEF ReminderPromise
  <2> QED BY <2>6, <2>8, <2>10
<1> QED BY <1>2, <1>3, <1>4, RemindersMove

(* What happens on its own leaves the handlers where they are.             *)
LEMMA RemindersAlone ==
  ASSUME RemindersInv, UNCHANGED <<flight, accepted, notes>>, switched' = switched,
         Calm => Counted' /\ \A b \in Upcoming : Kept(b) => Kept(b)'
  PROVE  RemindersInv'
<1>1. Slotted' /\ (Calm' <=> Calm)
  BY DEF RemindersInv, Slotted, Shaped, flight, Calm, OneByOne
<1>2. ASSUME Calm PROVE Told'
  BY <1>2 DEF RemindersInv, Told
<1>3. ASSUME Calm, NEW r \in Requests PROVE ReminderPromise(r)'
  <2>1. ReminderPromise(r) /\ req' = req /\ notes' = notes
    BY <1>3 DEF RemindersInv, flight
  <2> QED BY <1>3, <2>1 DEF ReminderPromise
<1> QED BY <1>1, <1>2, <1>3 DEF RemindersInv

LEMMA WindowsPass ==
  ASSUME RemindersInv, NEW b \in Upcoming, Pass(b)
  PROVE  RemindersInv'
<1>1. UNCHANGED <<flight, accepted, notes, stores>> /\ clock[b] # "after"
  BY DEF Pass
<1>2. ASSUME Calm PROVE Counted' /\ \A c \in Upcoming : Kept(c) => Kept(c)'
  <2>1. Counted /\ clock' = [clock EXCEPT ![b] = IF @ = "before" THEN "in" ELSE "after"]
    BY <1>2 DEF Pass, RemindersInv
  <2>2. Counted'
    BY <1>1, <2>1 DEF Counted, stores
  <2>3. ASSUME NEW c \in Upcoming, Kept(c) PROVE Kept(c)'
    <3>1. clock[c] = "after" => clock'[c] = "after"
      BY <1>1, <2>1 DEF Counted
    <3> QED BY <1>1, <2>3, <3>1 DEF Kept, Marked, Over, Get, stores, flight
  <2> QED BY <2>2, <2>3
<1> QED BY <1>1, <1>2, RemindersAlone DEF stores

LEMMA MarksExpire ==
  ASSUME RemindersInv, NEW b \in Upcoming, ExpireMark(b)
  PROVE  RemindersInv'
<1>1. UNCHANGED <<flight, accepted, notes, clock>> /\ Over(b) /\ ExpireKey(DedupKey(b))
  BY DEF ExpireMark, Over
<1>2. switched' = switched /\ ready' = ready
  BY <1>1 DEF ExpireKey
<1>3. ASSUME Calm PROVE Counted' /\ \A c \in Upcoming : Kept(c) => Kept(c)'
  <2>1. Counted
    BY <1>3 DEF RemindersInv
  <2>2. Counted'
    BY <1>1, <2>1 DEF Counted, ExpireKey
  <2>3. \A c \in Upcoming : Over(c) => Over(c)'
    BY <1>1 DEF Over, flight
  <2>4. ASSUME NEW c \in Upcoming, c # b, Marked(c) PROVE Marked(c)'
    <3>1. DedupKey(c) # DedupKey(b)
      BY <2>4 DEF DedupKey
    <3>2. DedupKey(c) \in Keys
      BY RemindersAssumption
    <3>3. redis'[DedupKey(c)] = redis[DedupKey(c)] /\ memory'[DedupKey(c)] = memory[DedupKey(c)]
      BY <1>1, <2>1, <3>1, <3>2 DEF ExpireKey, Counted
    <3> QED BY <1>2, <2>4, <3>3 DEF Marked, Get
  <2> QED BY <1>1, <2>2, <2>3, <2>4 DEF Kept
<1> QED BY <1>1, <1>2, <1>3, RemindersAlone

LEMMA RemindersInitial == RemindersInit /\ FlightInit => RemindersInv
<1> SUFFICES ASSUME RemindersInit /\ FlightInit PROVE RemindersInv
  OBVIOUS
<1>1. Slotted
  BY DEF FlightInit, Slotted, Shaped, Idle
<1>2. Counted
  BY DEF RemindersInit, RedisInit, Counted
<1>3. Told
  BY DEF RemindersInit, Told
<1>4. ASSUME NEW r \in Requests PROVE ReminderPromise(r)
  BY DEF FlightInit, Idle, ReminderPromise
<1> QED BY <1>1, <1>2, <1>3, <1>4 DEF RemindersInv

LEMMA RemindersStep == RemindersInv /\ [RemindersNext]_<<reminderVars, flight>> => RemindersInv'
<1> SUFFICES ASSUME RemindersInv, [RemindersNext]_<<reminderVars, flight>> PROVE RemindersInv'
  OBVIOUS
<1>1. CASE UNCHANGED <<reminderVars, flight>>
  <2>1. UNCHANGED <<flight, accepted, notes, clock, redis, memory, ready, switched>>
    BY <1>1 DEF reminderVars, stores
  <2>2. Calm => Counted' /\ \A b \in Upcoming : Kept(b) => Kept(b)'
    BY <2>1 DEF RemindersInv, Counted, Kept, Marked, Over, Get, flight
  <2> QED BY <2>1, <2>2, RemindersAlone
<1>2. CASE SwitchMarks
  <2>1. Slotted' /\ ~Calm'
    BY <1>2 DEF SwitchMarks, SwitchStore, RemindersInv, Slotted, Shaped, flight, Calm
  <2> QED BY <2>1 DEF RemindersInv
<1> QED
  BY <1>1, <1>2, BookingsChange, SweepsPass, BookingsLookedUp, BookingsMarked, PartiesTold,
       WindowsPass,
     MarksExpire
  DEF RemindersNext

LEMMA RemindersInvariance == RemindersSpec => []RemindersInv
BY RemindersInitial, RemindersStep, PTL DEF RemindersSpec

(* While sweeps do not overlap and the store stays where it is, nobody is  *)
(* announced a booking twice, though a sweep may die, a booking be         *)
(* withdrawn and accepted again, and its mark expire                       *)
(* (sendUpcomingBookingReminders).                                         *)
THEOREM NobodyIsRemindedTwice == RemindersSpec => []RemindedOnce
<1>1. RemindersInv => RemindedOnce
  <2> SUFFICES ASSUME RemindersInv, Calm, NEW b \in Upcoming, NEW p \in Parties
               PROVE  notes[<<b, p>>] <= 1
    BY DEF RemindedOnce, Calm
  <2>1. notes \in [Upcoming \X Parties -> 0..1] /\ <<b, p>> \in Upcoming \X Parties
    BY DEF RemindersInv, Counted
  <2> QED BY <2>1
<1> QED BY <1>1, RemindersInvariance, PTL

-----------------------------------------------------------------------------
(* Chat: what a handler has yet to bring the conversation up to date with. *)
Message == [from : Sides, read : BOOLEAN]

Tallied(s) == thread.unread[s] = Cardinality(Unseen(s))

(* A handler past the conversation's creation has its row.                 *)
ChatPromise(r) ==
  /\ req[r].at \in {"chat.thread", "chat.message", "chat.update", "chat.read", "chat.count"} => req[r].on \in Sides
  /\ req[r].at \in {"chat.message", "chat.update", "chat.read", "chat.count"} => thread \in Thread
  /\ req[r].at = "chat.update" => req[r].saw \in Nat

(* After a message, its sender has nothing unseen and the other one more;  *)
(* after reading, the reader has nothing unseen.                           *)
Behind(r) ==
  /\ req[r].at = "chat.update" =>
       /\ req[r].saw = Len(messages) /\ Unseen(req[r].on) = {}
       /\ Cardinality(Unseen(Other(req[r].on))) = thread.unread[Other(req[r].on)] + 1
  /\ req[r].at = "chat.count" =>
       /\ Unseen(req[r].on) = {} /\ Tallied(Other(req[r].on)) /\ thread.last = Len(messages)

UpToDate == thread \in Thread => thread.last = Len(messages) /\ \A s \in Sides : Tallied(s)

ChatInv ==
  /\ Slotted /\ ChatTypeOK /\ \A r \in Requests : ChatPromise(r)
  /\ Orderly =>
       /\ thread = None => messages = <<>>
       /\ \A r \in Requests : Behind(r)
       /\ (\A r \in Requests : req[r].at \notin {"chat.update", "chat.count"}) => UpToDate

(* Unseen messages are among the messages there are.                       *)
LEMMA UnseenFinite ==
  ASSUME messages \in Seq(Message), NEW s
  PROVE  IsFiniteSet(Unseen(s)) /\ Cardinality(Unseen(s)) \in Nat
<1>1. DOMAIN messages = 1..Len(messages) /\ Len(messages) \in Nat
  OBVIOUS
<1>2. IsFiniteSet(DOMAIN messages)
  BY <1>1, FS_Interval
<1>3. IsFiniteSet(Unseen(s))
  BY <1>2, FS_Subset DEF Unseen
<1> QED BY <1>3, FS_CardinalityType

(* A new message of s leaves s nothing unseen and the other one more.      *)
LEMMA UnseenGrows ==
  ASSUME messages \in Seq(Message), NEW s \in Sides, messages' = Append(messages, [from |-> s, read |-> FALSE])
  PROVE  /\ messages' \in Seq(Message) /\ Len(messages') = Len(messages) + 1
         /\ Unseen(s)' = {}
         /\ Cardinality(Unseen(Other(s))') = Cardinality(Unseen(Other(s))) + 1
<1> DEFINE n == Len(messages) + 1
           m == [from |-> s, read |-> FALSE]
<1>1. m \in Message
  BY DEF Message
<1>2. /\ messages' \in Seq(Message) /\ Len(messages') = n /\ DOMAIN messages' = 1..n
      /\ DOMAIN messages = 1..(n - 1) /\ n \in Nat \ {0}
      /\ \A i \in 1..(n - 1) : messages'[i] = messages[i]
      /\ messages'[n] = m
  BY <1>1, AppendProperties
<1>3. Other(s) # s /\ Other(Other(s)) = s
  BY DEF Other, Sides
<1>4. Unseen(s)' = {}
  BY <1>2, <1>3 DEF Unseen
<1>5. Unseen(Other(s))' = Unseen(Other(s)) \cup {n}
  BY <1>2, <1>3 DEF Unseen
<1>6. n \notin Unseen(Other(s))
  BY <1>2 DEF Unseen
<1>7. Cardinality(Unseen(Other(s)) \cup {n}) = Cardinality(Unseen(Other(s))) + 1
  BY <1>6, UnseenFinite, FS_AddElement
<1> QED BY <1>2, <1>4, <1>5, <1>7

(* Reading takes what the other wrote, and nothing else.                   *)
LEMMA UnseenRead ==
  ASSUME messages \in Seq(Message), NEW s \in Sides,
         messages' = [i \in DOMAIN messages |->
                        [messages[i] EXCEPT !.read = @ \/ messages[i].from = Other(s)]]
  PROVE  /\ messages' \in Seq(Message) /\ Len(messages') = Len(messages)
         /\ Unseen(s)' = {} /\ Unseen(Other(s))' = Unseen(Other(s))
<1> DEFINE n == Len(messages)
<1>1. /\ DOMAIN messages = 1..n /\ n \in Nat
      /\ \A i \in 1..n : messages[i] \in Message
  OBVIOUS
<1>2. \A i \in 1..n : /\ messages'[i] \in Message /\ messages'[i].from = messages[i].from
                      /\ messages'[i].read = (messages[i].read \/ messages[i].from = Other(s))
  BY <1>1 DEF Message
<1>3. messages' \in [1..n -> Message]
  BY <1>1, <1>2
<1>4. messages' \in Seq(Message) /\ Len(messages') = n /\ DOMAIN messages' = 1..n
  BY <1>1, <1>3, IsASeq
<1>5. Other(s) # s /\ Other(Other(s)) = s
  BY DEF Other, Sides
<1>6. Unseen(s)' = {}
  BY <1>2, <1>4 DEF Unseen
<1>7. Unseen(Other(s))' = Unseen(Other(s))
  BY <1>1, <1>2, <1>4, <1>5 DEF Unseen
<1> QED BY <1>4, <1>6, <1>7

LEMMA ChatMoves ==
  ASSUME ChatInv, NEW r \in Requests, Slotted', Acts(r), died => died', ChatTypeOK', ChatPromise(r)',
         thread \in Thread => thread' \in Thread,
         Orderly /\ Orderly' =>
           /\ thread' = None => messages' = <<>>
           /\ Behind(r)'
           /\ req'[r].at \notin {"chat.update", "chat.count"} => UpToDate'
  PROVE  ChatInv'
<1>1. Orderly' => Orderly
  BY DEF Orderly, OneByOne, Acts
<1>2. ASSUME NEW q \in Requests PROVE ChatPromise(q)'
  <2>1. CASE q # r
    BY <2>1 DEF ChatInv, ChatPromise, Acts
  <2> QED BY <2>1
<1>3. ASSUME Orderly', NEW q \in Requests PROVE Behind(q)'
  <2>1. CASE q # r
    <3>1. req[q].at = "idle" /\ req'[q] = req[q]
      BY <1>1, <1>3, <2>1, Alone DEF ChatInv, Orderly, Acts
    <3> QED BY <3>1 DEF Behind
  <2> QED BY <1>1, <1>3, <2>1
<1> QED BY <1>1, <1>2, <1>3 DEF ChatInv

(* In order, the other requests are idle.                                  *)
LEMMA ChatAlone ==
  ASSUME ChatInv, Orderly, NEW r \in slots
  PROVE  /\ thread = None => messages = <<>>
         /\ Behind(r)
         /\ req[r].at \notin {"chat.update", "chat.count"} => UpToDate
<1>1. \A q \in Requests \ {r} : req[q].at = "idle"
  BY Alone DEF ChatInv, Orderly
<1> QED BY <1>1 DEF ChatInv, Slotted

LEMMA ChatBegins ==
  ASSUME ChatInv, NEW r \in Requests, NEW s \in Sides, SendMessage(r, s) \/ MarkRead(r, s)
  PROVE  ChatInv'
<1>1. PICK at \in {"chat.thread", "chat.message", "chat.read"} :
        /\ Begin(r, at, s, None, None)
        /\ at \in {"chat.message", "chat.read"} => thread # None
  BY DEF SendMessage, MarkRead
<1>2. UNCHANGED chatVars /\ died' = died /\ req[r].at = "idle"
  BY <1>1 DEF SendMessage, MarkRead, Begin, Free
<1>3. Slotted' /\ Acts(r) /\ req'[r] = [at |-> at, on |-> s, by |-> None, saw |-> None]
  BY <1>1, Begins DEF ChatInv
<1>4. ChatTypeOK' /\ ChatPromise(r)' /\ Behind(r)'
  BY <1>1, <1>2, <1>3 DEF ChatInv, ChatTypeOK, ChatPromise, Behind, chatVars
<1>5. ASSUME Orderly PROVE (thread = None => messages = <<>>) /\ UpToDate
  BY <1>2, <1>3, <1>5, ChatAlone DEF Acts
<1>6. Orderly => (thread' = None => messages' = <<>>) /\ UpToDate'
  BY <1>2, <1>5 DEF UpToDate, Tallied, Unseen, chatVars
<1> QED BY <1>2, <1>3, <1>4, <1>6, ChatMoves DEF chatVars

LEMMA ThreadBegins ==
  ASSUME ChatInv, NEW r \in Requests, CreateThread(r)
  PROVE  ChatInv'
<1>1. /\ req[r].at = "chat.thread" /\ thread = None /\ messages' = messages
      /\ thread' = [last |-> 0, unread |-> [s \in Sides |-> 0]] /\ died' = died
  BY DEF CreateThread, Goto
<1>2. Slotted' /\ Acts(r)
      /\ req'[r] = [at |-> "chat.message", on |-> req[r].on, by |-> req[r].by, saw |-> req[r].saw]
  BY <1>1, Goes DEF ChatInv, CreateThread
<1>3. thread' \in Thread /\ thread' # None
  BY <1>1, ChatAssumption DEF Thread, ChatAssumption
<1>4. ChatTypeOK' /\ ChatPromise(r)' /\ Behind(r)'
  BY <1>1, <1>2, <1>3 DEF ChatInv, ChatTypeOK, ChatPromise, Behind
<1>5. ASSUME Orderly PROVE UpToDate'
  <2>1. messages = <<>>
    BY <1>1, <1>2, <1>5, ChatAlone DEF Acts
  <2>2. \A s \in Sides : Unseen(s)' = {}
    BY <1>1, <2>1 DEF Unseen
  <2> QED BY <1>1, <2>1, <2>2, FS_EmptySet DEF UpToDate, Tallied
<1> QED BY <1>1, <1>2, <1>3, <1>4, <1>5, ChatMoves

LEMMA MessageCreated ==
  ASSUME ChatInv, NEW r \in Requests, CreateMessage(r)
  PROVE  ChatInv'
<1>1. PICK s \in Sides : s = req[r].on
  BY DEF CreateMessage, ChatInv, ChatPromise
<1>2. /\ req[r].at = "chat.message" /\ thread \in Thread /\ thread' = thread /\ died' = died
      /\ messages' = Append(messages, [from |-> s, read |-> FALSE])
      /\ Carry(r, "chat.update", Len(messages'))
  BY <1>1 DEF CreateMessage, Carry, ChatInv, ChatPromise
<1>3. Slotted' /\ Acts(r)
      /\ req'[r] = [at |-> "chat.update", on |-> s, by |-> req[r].by, saw |-> Len(messages')]
  BY <1>1, <1>2, Carries DEF ChatInv
<1>4. messages \in Seq(Message)
  BY DEF ChatInv, ChatTypeOK, Message
<1>5. /\ messages' \in Seq(Message) /\ Len(messages') = Len(messages) + 1
      /\ Unseen(s)' = {}
      /\ Cardinality(Unseen(Other(s))') = Cardinality(Unseen(Other(s))) + 1
  BY <1>2, <1>4, UnseenGrows
<1>6. ChatTypeOK' /\ ChatPromise(r)'
  BY <1>1, <1>2, <1>3, <1>4, <1>5 DEF ChatInv, ChatTypeOK, ChatPromise, Message
<1>7. ASSUME Orderly PROVE Behind(r)'
  <2>1. UpToDate /\ Other(s) \in Sides
    BY <1>2, <1>3, <1>7, ChatAlone DEF Acts, Other, Sides
  <2>2. Cardinality(Unseen(Other(s))) = thread.unread[Other(s)]
    BY <1>2, <2>1 DEF UpToDate, Tallied
  <2>3. req'[r].at = "chat.update" /\ req'[r].on = s /\ req'[r].saw = Len(messages')
    BY <1>3
  <2>4. Cardinality(Unseen(Other(s))') = thread'.unread[Other(s)] + 1
    BY <1>2, <1>5, <2>2
  <2> QED BY <1>5, <2>3, <2>4 DEF Behind, Unseen, Other
<1>8. thread' # None
  BY <1>2, ChatAssumption DEF ChatAssumption
<1> QED BY <1>2, <1>3, <1>6, <1>7, <1>8, ChatMoves

LEMMA ThreadUpdated ==
  ASSUME ChatInv, NEW r \in Requests, UpdateThread(r)
  PROVE  ChatInv'
<1>1. PICK s \in Sides : s = req[r].on
  BY DEF UpdateThread, ChatInv, ChatPromise
<1>2. /\ req[r].at = "chat.update" /\ thread \in Thread /\ messages' = messages /\ died' = died
      /\ thread' = [last |-> req[r].saw,
                    unread |-> [x \in Sides |-> IF x = s THEN 0 ELSE thread.unread[x] + 1]]
      /\ End(r) /\ req[r].saw \in Nat
  BY <1>1 DEF UpdateThread, End, ChatInv, ChatPromise
<1>3. Slotted' /\ Acts(r) /\ req'[r] = Idle
  BY <1>2, Ends DEF ChatInv
<1>4. thread' \in Thread /\ thread' # None
  BY <1>2, ChatAssumption DEF Thread, ChatAssumption
<1>5. ChatTypeOK' /\ ChatPromise(r)' /\ Behind(r)'
  BY <1>2, <1>3, <1>4 DEF ChatInv, ChatTypeOK, ChatPromise, Behind, Idle
<1>6. ASSUME Orderly PROVE UpToDate'
  <2>1. Behind(r)
    BY <1>3, <1>6, ChatAlone DEF Acts
  <2>2. /\ req[r].saw = Len(messages) /\ Unseen(s) = {}
        /\ Cardinality(Unseen(Other(s))) = thread.unread[Other(s)] + 1
    BY <1>1, <1>2, <2>1 DEF Behind
  <2>3. /\ thread'.last = Len(messages) /\ thread'.unread[s] = 0
        /\ thread'.unread[Other(s)] = thread.unread[Other(s)] + 1
    BY <1>2, <2>2 DEF Other, Sides
  <2>4. \A x \in Sides : x = s \/ x = Other(s)
    BY DEF Other, Sides
  <2>5. \A x \in Sides : thread'.unread[x] = Cardinality(Unseen(x))
    BY <2>2, <2>3, <2>4, FS_EmptySet
  <2>6. \A x \in Sides : Unseen(x)' = Unseen(x)
    BY <1>2 DEF Unseen
  <2> QED BY <1>2, <2>3, <2>5, <2>6 DEF UpToDate, Tallied
<1> QED BY <1>2, <1>3, <1>4, <1>5, <1>6, ChatMoves

LEMMA MessagesRead ==
  ASSUME ChatInv, NEW r \in Requests, ReadMessages(r)
  PROVE  ChatInv'
<1>1. PICK s \in Sides : s = req[r].on
  BY DEF ReadMessages, ChatInv, ChatPromise
<1>2. /\ req[r].at = "chat.read" /\ thread \in Thread /\ thread' = thread /\ died' = died
      /\ messages' = [i \in DOMAIN messages |->
                        [messages[i] EXCEPT !.read = @ \/ messages[i].from = Other(s)]]
      /\ Goto(r, "chat.count")
  BY <1>1 DEF ReadMessages, Goto, ChatInv, ChatPromise
<1>3. Slotted' /\ Acts(r)
      /\ req'[r] = [at |-> "chat.count", on |-> s, by |-> req[r].by, saw |-> req[r].saw]
  BY <1>1, <1>2, Goes DEF ChatInv
<1>4. messages \in Seq(Message)
  BY DEF ChatInv, ChatTypeOK, Message
<1>5. /\ messages' \in Seq(Message) /\ Len(messages') = Len(messages)
      /\ Unseen(s)' = {} /\ Unseen(Other(s))' = Unseen(Other(s))
  BY <1>2, <1>4, UnseenRead
<1>6. ChatTypeOK' /\ ChatPromise(r)' /\ thread' # None
  BY <1>1, <1>2, <1>3, <1>4, <1>5, ChatAssumption DEF ChatInv, ChatTypeOK, ChatPromise, Message,
       ChatAssumption
<1>7. ASSUME Orderly PROVE Behind(r)'
  <2>1. UpToDate /\ Other(s) \in Sides
    BY <1>2, <1>3, <1>7, ChatAlone DEF Acts, Other, Sides
  <2>2. thread'.unread[Other(s)] = Cardinality(Unseen(Other(s))') /\ thread'.last = Len(messages')
    BY <1>2, <1>5, <2>1 DEF UpToDate, Tallied
  <2>3. req'[r].at = "chat.count" /\ req'[r].on = s
    BY <1>3
  <2> QED BY <1>5, <2>2, <2>3 DEF Behind, Tallied, Unseen, Other
<1> QED BY <1>2, <1>3, <1>6, <1>7, ChatMoves

LEMMA CountCleared ==
  ASSUME ChatInv, NEW r \in Requests, ClearCount(r)
  PROVE  ChatInv'
<1>1. PICK s \in Sides : s = req[r].on
  BY DEF ClearCount, ChatInv, ChatPromise
<1>2. /\ req[r].at = "chat.count" /\ thread \in Thread /\ messages' = messages /\ died' = died
      /\ thread' = [thread EXCEPT !.unread[s] = 0] /\ End(r)
  BY <1>1 DEF ClearCount, End, ChatInv, ChatPromise
<1>3. Slotted' /\ Acts(r) /\ req'[r] = Idle
  BY <1>2, Ends DEF ChatInv
<1>4. /\ thread' \in Thread /\ thread' # None
      /\ thread'.last = thread.last /\ thread'.unread[s] = 0
      /\ \A x \in Sides \ {s} : thread'.unread[x] = thread.unread[x]
  BY <1>2, ChatAssumption DEF Thread, ChatAssumption
<1>5. ChatTypeOK' /\ ChatPromise(r)' /\ Behind(r)'
  BY <1>2, <1>3, <1>4 DEF ChatInv, ChatTypeOK, ChatPromise, Behind, Idle
<1>6. ASSUME Orderly PROVE UpToDate'
  <2>1. Unseen(s) = {} /\ Tallied(Other(s)) /\ thread.last = Len(messages)
    <3>1. Behind(r)
      BY <1>3, <1>6, ChatAlone DEF Acts
    <3> QED BY <1>1, <1>2, <3>1 DEF Behind
  <2>2. \A x \in Sides : x = s \/ (x = Other(s) /\ x # s)
    BY DEF Other, Sides
  <2>3. \A x \in Sides : thread'.unread[x] = Cardinality(Unseen(x))
    BY <1>4, <2>1, <2>2, FS_EmptySet DEF Tallied
  <2>4. \A x \in Sides : Unseen(x)' = Unseen(x)
    BY <1>2 DEF Unseen
  <2> QED BY <1>2, <1>4, <2>1, <2>3, <2>4 DEF UpToDate, Tallied
<1> QED BY <1>2, <1>3, <1>4, <1>5, <1>6, ChatMoves

(* A handler that finds the conversation there has done nothing; one that  *)
(* dies leaves the order.                                                  *)
LEMMA ChatStops ==
  ASSUME ChatInv, NEW r \in Requests, StopChat(r)
  PROVE  ChatInv'
<1>1. UNCHANGED chatVars /\ (died => died') /\ req[r].at # "idle" /\ (End(r) \/ Die(r))
  BY DEF StopChat, End, Die
<1>2. Slotted' /\ Acts(r) /\ req'[r] = Idle
  BY <1>1, Ends DEF ChatInv
<1>3. ChatTypeOK' /\ ChatPromise(r)' /\ Behind(r)'
  BY <1>1, <1>2 DEF ChatInv, ChatTypeOK, ChatPromise, Behind, Idle, chatVars
<1>4. ASSUME Orderly, Orderly' PROVE (thread' = None => messages' = <<>>) /\ UpToDate'
  <2>1. req[r].at = "chat.thread"
    BY <1>4 DEF StopChat, Die, Orderly
  <2>2. (thread = None => messages = <<>>) /\ UpToDate
    BY <1>2, <1>4, <2>1, ChatAlone DEF Acts
  <2> QED BY <1>1, <2>2 DEF UpToDate, Tallied, Unseen, chatVars
<1> QED BY <1>1, <1>2, <1>3, <1>4, ChatMoves DEF chatVars

LEMMA ChatInitial == ChatInit /\ FlightInit => ChatInv
<1> SUFFICES ASSUME ChatInit, FlightInit PROVE ChatInv
  OBVIOUS
<1>1. Slotted /\ \A r \in Requests : req[r].at = "idle"
  BY DEF FlightInit, Slotted, Shaped, Idle
<1>2. thread \notin Thread /\ thread = None /\ messages = <<>>
  BY ChatAssumption DEF ChatInit, ChatAssumption
<1> QED BY <1>1, <1>2 DEF ChatInv, ChatTypeOK, ChatPromise, Behind, UpToDate

LEMMA ChatStep == ChatInv /\ [ChatNext]_<<chatVars, flight>> => ChatInv'
<1> SUFFICES ASSUME ChatInv, [ChatNext]_<<chatVars, flight>> PROVE ChatInv'
  OBVIOUS
<1>1. CASE UNCHANGED <<chatVars, flight>>
  <2>1. /\ Slotted' = Slotted /\ ChatTypeOK' = ChatTypeOK /\ Orderly' = Orderly
        /\ UpToDate' = UpToDate /\ thread' = thread /\ messages' = messages /\ req' = req
    BY <1>1 DEF flight, chatVars, Slotted, ChatTypeOK, Orderly, OneByOne, UpToDate, Tallied, Unseen
  <2>2. ASSUME NEW r \in Requests PROVE ChatPromise(r)' = ChatPromise(r) /\ Behind(r)' = Behind(r)
    BY <2>1 DEF ChatPromise, Behind, Tallied, Unseen
  <2> QED BY <2>1, <2>2 DEF ChatInv
<1>2. ASSUME NEW r \in Requests, NEW s \in Sides, SendMessage(r, s) \/ MarkRead(r, s) PROVE ChatInv'
  BY <1>2, ChatBegins
<1>3. ASSUME NEW r \in Requests,
             \/ CreateThread(r) \/ CreateMessage(r) \/ UpdateThread(r)
             \/ ReadMessages(r) \/ ClearCount(r)    \/ StopChat(r)
      PROVE  ChatInv'
  BY <1>3, ThreadBegins, MessageCreated, ThreadUpdated, MessagesRead, CountCleared, ChatStops
<1> QED BY <1>1, <1>2, <1>3 DEF ChatNext

LEMMA ChatInvariance == ChatSpec => []ChatInv
BY ChatInitial, ChatStep, PTL DEF ChatSpec

(* Requests one after the other and none dead, the inbox shows the newest  *)
(* message and the number unseen (createMessage, markMessagesAsRead).      *)
THEOREM InboxesAgree == ChatSpec => []InboxAgrees
<1>1. ASSUME ChatInv, Orderly, AtRest, thread # None
      PROVE  (\A s \in Sides : thread.unread[s] = Cardinality(Unseen(s))) /\ thread.last = Len(messages)
  <2>1. \A r \in Requests : req[r].at = "idle"
    BY <1>1 DEF AtRest, Busy
  <2>2. thread \in Thread
    BY <1>1 DEF ChatInv, ChatTypeOK
  <2> QED BY <1>1, <2>1, <2>2 DEF ChatInv, UpToDate, Tallied
<1>2. ChatInv => InboxAgrees
  BY <1>1 DEF InboxAgrees
<1> QED BY <1>2, ChatInvariance, PTL

-----------------------------------------------------------------------------
(* AppConfig: every version that was replaced is in a snapshot, or was     *)
(* pushed out by newer ones.  Snapshots are in the order of versions, so   *)
(* that pruning keeps the newest.                                          *)
Config == [version : Nat \ {0}, content : Contents, maintenance : BOOLEAN]
Patch  == [content : Contents \cup {None}, maintenance : BOOLEAN \cup {None}]

Versioned ==
  /\ config \in Config /\ published \in Seq(Config) /\ snapshots \in Seq(Config)
  /\ Len(published) = config.version /\ published[config.version] = config
  /\ \A v \in 1..config.version : published[v].version = v

ConfigRequest(r) ==
  /\ req[r].at = "publish.snapshot" => req[r].saw \in Config
  /\ req[r].at \in {"restore.read", "publish.update"} => req[r].on \in Patch
  /\ req[r].at = "publish.snapshot" /\ req[r].by = "publish" => req[r].on \in Patch

Ordered ==
  /\ \A i \in DOMAIN snapshots : snapshots[i].version <= config.version
  /\ \A i, j \in DOMAIN snapshots : i <= j => snapshots[i].version <= snapshots[j].version

Stored(v)    == \E i \in DOMAIN snapshots : snapshots[i] = published[v]
PushedOut(v) == Len(snapshots) >= Keep /\ \A i \in DOMAIN snapshots : snapshots[i].version >= v
Restorable(v)      == Stored(v) \/ PushedOut(v)

(* What is published next is what was read, and then is in a snapshot.     *)
Fresh(r) ==
  /\ req[r].at = "publish.snapshot" => req[r].saw = config
  /\ req[r].at = "publish.update" => Restorable(config.version)

ConfigInv ==
  /\ Slotted /\ Versioned /\ \A r \in Requests : ConfigRequest(r)
  /\ OneByOne =>
       /\ Ordered /\ \A v \in 1..(config.version - 1) : Restorable(v)
       /\ \A r \in Requests : Fresh(r)

LEMMA ConfigMoves ==
  ASSUME ConfigInv, NEW r \in Requests, Slotted', Acts(r), Versioned', ConfigRequest(r)',
         OneByOne => Ordered' /\ (\A v \in 1..(config'.version - 1) : Restorable(v)') /\ Fresh(r)'
  PROVE  ConfigInv'
<1>1. OneByOne' => OneByOne
  BY DEF OneByOne, Acts
<1>2. ASSUME OneByOne, NEW q \in Requests PROVE Fresh(q)'
  <2>1. CASE q # r
    <3>1. req[q].at = "idle" /\ req'[q] = req[q]
      BY <1>2, <2>1, Alone DEF ConfigInv, Acts
    <3> QED BY <3>1 DEF Fresh
  <2> QED BY <1>2, <2>1
<1>3. ASSUME NEW q \in Requests PROVE ConfigRequest(q)'
  <2>1. CASE q # r
    BY <2>1 DEF ConfigInv, ConfigRequest, Acts
  <2> QED BY <2>1
<1> QED BY <1>1, <1>2, <1>3 DEF ConfigInv

(* Steps that write neither the configuration nor a snapshot.              *)
LEMMA ConfigRests ==
  ASSUME ConfigInv, NEW r \in Requests, Slotted', Acts(r), UNCHANGED <<config, snapshots, published>>,
         ConfigRequest(r)', req'[r].at = "publish.snapshot" => req'[r].saw = config,
         req'[r].at # "publish.update"
  PROVE  ConfigInv'
<1>1. Versioned' /\ Fresh(r)'
  BY DEF ConfigInv, Versioned, Fresh
<1>2. OneByOne => Ordered' /\ \A v \in 1..(config'.version - 1) : Restorable(v)'
  BY DEF ConfigInv, Ordered, Restorable, Stored, PushedOut
<1> QED BY <1>1, <1>2, ConfigMoves

LEMMA ConfigBegun ==
  ASSUME ConfigInv, NEW r \in Requests, NEW at \in {"publish.snapshot", "restore.read"},
         NEW on, NEW by, NEW saw, Begin(r, at, on, by, saw), UNCHANGED configVars,
         at = "publish.snapshot" => saw = config,
         at = "restore.read" \/ by = "publish" => on \in Patch
  PROVE  ConfigInv'
<1>1. Slotted' /\ Acts(r) /\ req'[r] = [at |-> at, on |-> on, by |-> by, saw |-> saw]
  BY Begins DEF ConfigInv
<1>2. ConfigRequest(r)'
  BY <1>1 DEF ConfigRequest, ConfigInv, Versioned
<1> QED BY <1>1, <1>2, ConfigRests DEF configVars

LEMMA ConfigBegins ==
  ASSUME ConfigInv, NEW r \in Requests, ConfigArrive(r)
  PROVE  ConfigInv'
<1>1. \A i \in DOMAIN snapshots : snapshots[i] \in Config
  BY DEF ConfigInv, Versioned
<1>2. ASSUME NEW patch \in Patches, Publish(r, patch) PROVE ConfigInv'
  <2>1. patch \in Patch
    BY DEF Patches, Patch
  <2> QED BY <1>2, <2>1, ConfigBegun DEF Publish
<1>3. ASSUME NEW i \in DOMAIN snapshots, Restore(r, i) PROVE ConfigInv'
  <2>1. [content |-> snapshots[i].content, maintenance |-> snapshots[i].maintenance] \in Patch
    BY <1>1 DEF Patch, Config
  <2> QED BY <1>3, <2>1, ConfigBegun DEF Restore
<1>4. CASE CreateSnapshot(r)
  BY <1>4, ConfigBegun DEF CreateSnapshot
<1>5. CASE AskFlag(r)
  <2>1. Begin(r, "flag.read", None, None, None) /\ UNCHANGED <<config, snapshots, published>>
    BY <1>5 DEF AskFlag, configVars
  <2>2. Slotted' /\ Acts(r) /\ req'[r] = [at |-> "flag.read", on |-> None, by |-> None, saw |-> None]
    BY <2>1, Begins DEF ConfigInv
  <2>3. ConfigRequest(r)'
    BY <2>2 DEF ConfigRequest
  <2> QED BY <2>1, <2>2, <2>3, ConfigRests
<1> QED BY <1>2, <1>3, <1>4, <1>5 DEF ConfigArrive

(* The steps about the flag, and a restore's reading.                      *)
LEMMA ConfigPasses ==
  ASSUME ConfigInv, NEW r \in Requests,
         \/ ReadForRestore(r) \/ CopyFlag(r) \/ CacheFlag(r) \/ ReadFlag(r) \/ FillFlag(r) \/ StopConfig(r)
  PROVE  ConfigInv'
<1>1. UNCHANGED <<config, snapshots, published>> /\ req[r].at # "idle"
  BY DEF ReadForRestore, CopyFlag, CacheFlag, ReadFlag, FillFlag, StopConfig, Die, SameRows,
       configVars
<1>2. CASE ReadForRestore(r)
  <2>1. Slotted' /\ Acts(r)
        /\ req'[r] = [at |-> "publish.snapshot", on |-> req[r].on, by |-> req[r].by, saw |-> config]
    BY <1>1, <1>2, Carries DEF ReadForRestore, ConfigInv
  <2>2. ConfigRequest(r)'
    BY <1>2, <2>1 DEF ReadForRestore, ConfigRequest, ConfigInv, Versioned
  <2> QED BY <1>1, <2>1, <2>2, ConfigRests
<1>3. CASE CopyFlag(r) \/ CacheFlag(r)
  <2>1. PICK at \in {"publish.cache", "publish.prune"} : Goto(r, at)
    BY <1>3 DEF CopyFlag, CacheFlag
  <2>2. Slotted' /\ Acts(r) /\ req'[r] = [at |-> at, on |-> req[r].on, by |-> req[r].by, saw |-> req[r].saw]
    BY <1>1, <2>1, Goes DEF ConfigInv
  <2>3. ConfigRequest(r)'
    BY <2>2 DEF ConfigRequest
  <2> QED BY <1>1, <2>2, <2>3, ConfigRests
<1>4. CASE ReadFlag(r)
  <2>1. Slotted' /\ Acts(r)
        /\ req'[r] = [at |-> "flag.fill", on |-> req[r].on, by |-> req[r].by, saw |-> config.maintenance]
    BY <1>1, <1>4, Carries DEF ReadFlag, ConfigInv
  <2>2. ConfigRequest(r)'
    BY <2>1 DEF ConfigRequest
  <2> QED BY <1>1, <2>1, <2>2, ConfigRests
<1>5. CASE FillFlag(r) \/ StopConfig(r)
  <2>1. Slotted' /\ Acts(r) /\ req'[r] = Idle
    BY <1>1, <1>5, Ends DEF FillFlag, StopConfig, ConfigInv
  <2>2. ConfigRequest(r)'
    BY <2>1 DEF ConfigRequest, Idle
  <2> QED BY <1>1, <2>1, <2>2, ConfigRests DEF Idle
<1> QED BY <1>2, <1>3, <1>4, <1>5

(* A snapshot of what was read joins the others, and pushes nothing out.   *)
LEMMA SnapshotWritten ==
  ASSUME ConfigInv, NEW r \in Requests, WriteSnapshot(r)
  PROVE  ConfigInv'
<1> DEFINE n == Len(snapshots)
           c == req[r].saw
<1>1. /\ req[r].at = "publish.snapshot" /\ c \in Config /\ snapshots \in Seq(Config) /\ n \in Nat
      /\ snapshots' = Append(snapshots, c) /\ config' = config /\ published' = published
  BY DEF WriteSnapshot, ConfigInv, ConfigRequest, Versioned
<1>2. /\ snapshots' \in Seq(Config) /\ Len(snapshots') = n + 1 /\ DOMAIN snapshots' = 1..(n + 1)
      /\ DOMAIN snapshots = 1..n
      /\ \A i \in 1..n : snapshots'[i] = snapshots[i] /\ snapshots[i] \in Config
      /\ snapshots'[n + 1] = c
  BY <1>1, AppendProperties
<1>3. /\ Slotted' /\ Acts(r)
      /\ \/ req'[r] = [at |-> "publish.update", on |-> req[r].on, by |-> req[r].by, saw |-> c] /\ req[r].by = "publish"
         \/ req'[r] = Idle
  <2>1. CASE req[r].by = "publish"
    BY <1>1, <2>1, Goes DEF WriteSnapshot, ConfigInv
  <2>2. CASE req[r].by # "publish"
    BY <1>1, <2>2, Ends DEF WriteSnapshot, ConfigInv
  <2> QED BY <2>1, <2>2
<1>4. ConfigRequest(r)'
  BY <1>1, <1>3 DEF ConfigRequest, ConfigInv, Idle
<1>5. Versioned'
  BY <1>1, <1>2 DEF ConfigInv, Versioned
<1>6. ASSUME OneByOne
      PROVE  Ordered' /\ (\A v \in 1..(config'.version - 1) : Restorable(v)') /\ Fresh(r)'
  <2>1. /\ c = config /\ Ordered /\ config.version \in Nat /\ n \in Nat
        /\ published[config.version] = config
    BY <1>1, <1>6 DEF ConfigInv, Fresh, Versioned, Config
  <2>2. \A i \in 1..n : snapshots[i].version \in Nat
    BY <1>2 DEF Config
  <2>3. Ordered'
    BY <1>1, <1>2, <2>1, <2>2 DEF Ordered
  <2>4. ASSUME NEW v \in 1..(config.version - 1) PROVE Restorable(v)'
    <3>1. CASE Stored(v)
      BY <1>1, <1>2, <3>1 DEF Stored, Restorable
    <3>2. CASE PushedOut(v)
      <4>1. c.version >= v /\ Len(snapshots') >= Keep
        BY <1>1, <1>2, <2>1, <3>2, ConfigAssumption DEF PushedOut, ConfigAssumption
      <4>2. \A i \in 1..n : snapshots'[i].version >= v
        BY <1>2, <3>2 DEF PushedOut
      <4>3. \A i \in 1..(n + 1) : i \in 1..n \/ i = n + 1
        BY <1>1
      <4>4. \A i \in DOMAIN snapshots' : snapshots'[i].version >= v
        BY <1>2, <4>1, <4>2, <4>3
      <4> QED BY <4>1, <4>4 DEF PushedOut, Restorable
    <3> QED BY <1>6, <3>1, <3>2 DEF ConfigInv, Restorable
  <2>5. \E i \in DOMAIN snapshots' : snapshots'[i] = published'[config'.version]
    <3>1. n + 1 \in DOMAIN snapshots'
      BY <1>2, <2>1
    <3> QED BY <1>1, <1>2, <2>1, <3>1
  <2>6. Fresh(r)'
    BY <1>3, <2>5 DEF Fresh, Restorable, Stored, Idle
  <2> QED BY <1>1, <2>3, <2>4, <2>6
<1> QED BY <1>3, <1>4, <1>5, <1>6, ConfigMoves

(* The next version replaces one that is kept.                             *)
LEMMA ConfigWritten ==
  ASSUME ConfigInv, NEW r \in Requests, WriteConfig(r)
  PROVE  ConfigInv'
<1> DEFINE n == config.version
           patch == req[r].on
<1>1. /\ req[r].at = "publish.update" /\ patch \in Patch /\ config \in Config /\ n \in Nat \ {0}
      /\ published \in Seq(Config) /\ Len(published) = n /\ snapshots' = snapshots
      /\ published' = Append(published, config')
      /\ config' = [version |-> n + 1,
                    content |-> IF patch.content = None THEN config.content ELSE patch.content,
                    maintenance |-> IF patch.maintenance = None THEN config.maintenance ELSE patch.maintenance]
      /\ Carry(r, "publish.copy", config')
  BY DEF WriteConfig, ConfigInv, ConfigRequest, Versioned, Config
<1>2. config' \in Config /\ config'.version = n + 1
  BY <1>1 DEF Config, Patch
<1>3. /\ published' \in Seq(Config) /\ Len(published') = n + 1
      /\ \A v \in 1..n : published'[v] = published[v]
      /\ published'[n + 1] = config'
  BY <1>1, <1>2, AppendProperties
<1>4. /\ Slotted' /\ Acts(r)
      /\ req'[r] = [at |-> "publish.copy", on |-> req[r].on, by |-> req[r].by, saw |-> config']
  BY <1>1, Carries DEF ConfigInv
<1>5. ConfigRequest(r)' /\ Fresh(r)'
  BY <1>4 DEF ConfigRequest, Fresh
<1>6. Versioned'
  <2>1. \A v \in 1..(n + 1) : published'[v].version = v
    BY <1>1, <1>2, <1>3 DEF ConfigInv, Versioned
  <2> QED BY <1>1, <1>2, <1>3, <2>1 DEF ConfigInv, Versioned
<1>7. ASSUME OneByOne PROVE Ordered' /\ \A v \in 1..(config'.version - 1) : Restorable(v)'
  <2>1. Ordered /\ Restorable(n) /\ \A v \in 1..(n - 1) : Restorable(v)
    BY <1>1, <1>7 DEF ConfigInv, Fresh
  <2>2. \A v \in 1..n : Restorable(v)
    BY <1>1, <2>1
  <2>3. \A i \in DOMAIN snapshots : snapshots[i].version \in Nat
    <3>1. snapshots \in Seq(Config)
      BY DEF ConfigInv, Versioned
    <3>2. \A i \in DOMAIN snapshots : snapshots[i] \in Config
      BY <3>1
    <3> QED BY <3>2 DEF Config
  <2>4. Ordered'
    BY <1>1, <1>2, <2>1, <2>3 DEF Ordered
  <2>5. ASSUME NEW v \in 1..n PROVE Restorable(v)'
    <3>1. published'[v] = published[v] /\ Restorable(v)
      BY <1>3, <2>2
    <3>2. CASE Stored(v)
      BY <1>1, <3>1, <3>2 DEF Restorable, Stored
    <3>3. CASE PushedOut(v)
      BY <1>1, <3>3 DEF Restorable, PushedOut
    <3> QED BY <3>1, <3>2, <3>3 DEF Restorable
  <2> QED BY <1>1, <1>2, <2>4, <2>5
<1> QED BY <1>4, <1>5, <1>6, <1>7, ConfigMoves

(* Pruning takes the oldest snapshots, and leaves Keep of them.            *)
LEMMA SnapshotsPruned ==
  ASSUME ConfigInv, NEW r \in Requests, Prune(r)
  PROVE  ConfigInv'
<1> DEFINE n == Len(snapshots)
           extra == n - Keep
<1>1. /\ req[r].at = "publish.prune" /\ End(r) /\ UNCHANGED <<config, published>>
      /\ snapshots' = IF extra > 0 THEN SubSeq(snapshots, extra + 1, n) ELSE snapshots
  BY DEF Prune
<1>2. Slotted' /\ Acts(r) /\ req'[r] = Idle
  BY <1>1, Ends DEF ConfigInv
<1>3. ConfigRequest(r)' /\ Fresh(r)'
  BY <1>2 DEF ConfigRequest, Fresh, Idle
<1>4. /\ snapshots \in Seq(Config) /\ n \in Nat /\ DOMAIN snapshots = 1..n /\ Keep \in Nat \ {0}
      /\ \A i \in 1..n : snapshots[i] \in Config /\ snapshots[i].version \in Nat
  <2>1. snapshots \in Seq(Config)
    BY DEF ConfigInv, Versioned
  <2>2. \A i \in DOMAIN snapshots : snapshots[i] \in Config
    BY <2>1
  <2> QED BY <2>1, <2>2, ConfigAssumption DEF Config, ConfigAssumption
<1>5. n \in Nat /\ Keep \in Nat /\ Keep > 0 /\ extra \in Int /\ extra + Keep = n
  BY <1>4
<1>6. CASE extra <= 0
  <2>1. snapshots' = snapshots
    BY <1>1, <1>5, <1>6
  <2> QED BY <1>1, <1>2, <1>3, <2>1, ConfigRests DEF Idle
<1>7. CASE extra > 0
  <2>1. snapshots' = SubSeq(snapshots, extra + 1, n) /\ extra \in Nat
    <3> HIDE DEF extra, n
    <3>1. extra > 0
      BY <1>7
    <3> QED BY <1>1, <1>5, <3>1
  <2>2. \A i \in (extra + 1)..n : snapshots[i] \in Config
    BY <1>4, <2>1
  <2>3. /\ snapshots' \in Seq(Config) /\ Len(snapshots') = Keep /\ DOMAIN snapshots' = 1..Keep
        /\ \A i \in 1..Keep : snapshots'[i] = snapshots[extra + i] /\ extra + i \in 1..n
    <3>1. /\ SubSeq(snapshots, extra + 1, n) \in Seq(Config)
          /\ Len(SubSeq(snapshots, extra + 1, n)) = IF extra + 1 <= n THEN n - (extra + 1) + 1 ELSE 0
          /\ \A i \in 1..(n - (extra + 1) + 1) :
               SubSeq(snapshots, extra + 1, n)[i] = snapshots[extra + 1 + i - 1]
      BY <1>4, <2>1, <2>2, SubSeqProperties
    <3>2. n - (extra + 1) + 1 = Keep /\ extra + 1 <= n /\ extra = n - Keep
      BY <1>4, <1>7
    <3>3. \A i \in 1..Keep : extra + 1 + i - 1 = extra + i /\ extra + i \in 1..n
      BY <1>4, <2>1, <3>2
    <3> HIDE DEF extra
    <3> QED BY SMTT(30), <2>1, <3>1, <3>2, <3>3
  <2>4. Versioned'
    BY <1>1, <2>3 DEF ConfigInv, Versioned
  <2>5. ASSUME OneByOne PROVE Ordered' /\ \A v \in 1..(config'.version - 1) : Restorable(v)'
    <3>1. Ordered /\ \A v \in 1..(config.version - 1) : Restorable(v)
      BY <2>5 DEF ConfigInv
    <3>2. Ordered'
      <4>1. \A i \in 1..Keep : snapshots'[i].version <= config.version
        BY <1>4, <2>3, <3>1 DEF Ordered
      <4>2. ASSUME NEW i \in 1..Keep, NEW j \in 1..Keep, i <= j
            PROVE  snapshots'[i].version <= snapshots'[j].version
        <5>1. n \in Nat /\ extra \in Int /\ extra >= 0 /\ extra + Keep = n
          BY <1>5, <2>1
        <5>2. i \in Int /\ j \in Int /\ 1 <= i /\ i <= j /\ j <= Keep
          BY <1>4, <4>2
        <5>3. extra + i <= extra + j /\ extra + i \in 1..n /\ extra + j \in 1..n
          BY <1>4, <5>1, <5>2
        <5> QED BY <1>4, <2>3, <3>1, <5>3 DEF Ordered
      <4> QED BY <1>1, <2>3, <4>1, <4>2 DEF Ordered
    <3>3. ASSUME NEW v \in 1..(config.version - 1) PROVE Restorable(v)'
      <4>1. ASSUME NEW i \in 1..n, snapshots[i] = published[v], i > extra PROVE Stored(v)'
        <5>1. i - extra \in 1..Keep /\ extra + (i - extra) = i
          BY <1>4, <1>7, <4>1
        <5>2. snapshots'[i - extra] = snapshots[i]
          BY <2>3, <5>1
        <5> QED BY <1>1, <2>3, <4>1, <5>1, <5>2 DEF Stored
      <4>2. ASSUME NEW i \in 1..n, snapshots[i] = published[v], i <= extra PROVE PushedOut(v)'
        <5>1. snapshots[i].version = v
          BY <3>3, <4>2 DEF ConfigInv, Versioned, Config
        <5>2. ASSUME NEW j \in 1..Keep PROVE snapshots'[j].version >= v
          <6>1. i <= extra + j /\ extra + j \in 1..n
            BY <1>4, <2>1, <2>3, <4>2
          <6>2. snapshots[i].version <= snapshots[extra + j].version
            BY <1>4, <3>1, <6>1 DEF Ordered
          <6> QED BY <1>4, <2>3, <5>1, <6>1, <6>2
        <5> QED BY <1>4, <2>3, <5>2 DEF PushedOut
      <4>3. CASE PushedOut(v)
        <5>1. \A j \in 1..Keep : snapshots'[j].version >= v
          BY <1>4, <2>3, <4>3 DEF PushedOut
        <5> QED BY <1>4, <2>3, <5>1 DEF PushedOut, Restorable
      <4>4. CASE Stored(v)
        <5>1. PICK i \in 1..n : snapshots[i] = published[v]
          BY <1>4, <4>4 DEF Stored
        <5>2. i > extra \/ i <= extra
          BY <1>4, <2>1
        <5> QED BY <4>1, <4>2, <5>1, <5>2 DEF Restorable
      <4> QED BY <3>1, <4>3, <4>4 DEF Restorable
    <3> QED BY <1>1, <3>2, <3>3
  <2> QED BY <1>2, <1>3, <2>4, <2>5, ConfigMoves
<1> QED BY <1>4, <1>6, <1>7

LEMMA ConfigInitial == ConfigInit /\ FlightInit => ConfigInv
<1> SUFFICES ASSUME ConfigInit, FlightInit PROVE ConfigInv
  OBVIOUS
<1>1. Slotted /\ \A r \in Requests : req[r].at = "idle"
  BY DEF FlightInit, Slotted, Shaped, Idle
<1>2. /\ config = [version |-> 1, content |-> Initial, maintenance |-> FALSE]
      /\ snapshots = <<>> /\ published = <<config>> /\ config \in Config
  BY ConfigAssumption DEF ConfigInit, ConfigAssumption, Config
<1>3. Versioned /\ Ordered
  BY <1>2 DEF Versioned, Ordered
<1> QED BY <1>1, <1>2, <1>3 DEF ConfigInv, ConfigRequest, Fresh

LEMMA ConfigStep == ConfigInv /\ [ConfigNext]_<<configVars, flight>> => ConfigInv'
<1> SUFFICES ASSUME ConfigInv, [ConfigNext]_<<configVars, flight>> PROVE ConfigInv'
  OBVIOUS
<1>1. ASSUME UNCHANGED <<config, snapshots, published, flight>> PROVE ConfigInv'
  BY <1>1 DEF flight, ConfigInv, Slotted, Versioned, ConfigRequest, OneByOne, Ordered,
       Restorable, Stored,
     PushedOut, Fresh
<1>2. CASE UNCHANGED <<configVars, flight>> \/ ExpireFlag
  BY <1>1, <1>2 DEF configVars, ExpireFlag, SameRows
<1>3. ASSUME NEW r \in Requests, ConfigArrive(r) \/ ConfigGoOn(r) \/ StopConfig(r) PROVE ConfigInv'
  BY <1>3, ConfigBegins, ConfigPasses, SnapshotWritten, ConfigWritten,
       SnapshotsPruned DEF ConfigGoOn
<1> QED BY <1>2, <1>3 DEF ConfigNext

LEMMA ConfigInvariance == ConfigSpec => []ConfigInv
BY ConfigInitial, ConfigStep, PTL DEF ConfigSpec

(* Requests one after the other, deaths allowed: a configuration that was  *)
(* replaced can be restored, until Keep newer snapshots push it out        *)
(* (publish: "Automatic backup before publish").                           *)
THEOREM VersionsAreKept == ConfigSpec => []NoVersionIsLost
<1>1. ConfigInv => NoVersionIsLost
  BY DEF ConfigInv, Restorable, Stored, PushedOut, NoVersionIsLost
<1> QED BY <1>1, ConfigInvariance, PTL

-----------------------------------------------------------------------------
(* Catalogue, however requests overlap: a request links the category steps *)
(* before it writes the service, so the invariant says what it relies on   *)
(* at each step; rows of categories and links are never taken back.        *)
ListingSteps  == {"idle", "category.create", "category.link", "service.write", "service.delete", "item.create"}
ListingSlot   == [at : ListingSteps, on : Categories \cup Listings \cup {None}, by : Listings \cup {None},
           saw : BOOLEAN \cup {None}]
CategoryStatus == {"NONE", "PENDING", "APPROVED", "HIDDEN", "REJECTED"}

ListingTyped ==
  /\ category \in [Categories -> CategoryStatus]
  /\ listing \in [Listings -> Categories \cup {None}]
  /\ linked \subseteq Known
  /\ req \in [Requests -> ListingSlot]

(* What a request that is about to write relies on.                        *)
ReadyToLink(r) ==
  /\ req[r].at = "category.create" => req[r].on \in Categories
  /\ req[r].at = "category.link" => req[r].on \in Known
  /\ req[r].at = "service.write" => req[r].on \in linked /\ req[r].by \in Listings
  /\ req[r].at = "category.link" => req[r].by \in Listings

Linking == ListingTyped /\ ListedIsLinked /\ \A r \in Requests : ReadyToLink(r)

-----------------------------------------------------------------------------
(* Moving one request keeps the slots' type and leaves the others alone.   *)
OnlyMoves(r) == \A q \in Requests \ {r} : req'[q] = req[q]

(* Rows of categories and links are only added to.                         *)
Grows ==
  /\ category' \in [Categories -> CategoryStatus]
  /\ \A c \in Known : category'[c] # "NONE"
  /\ linked \subseteq linked' /\ linked' \subseteq Known'

LEMMA LinkingKept ==
  ASSUME Linking, NEW r \in Requests, Grows, listing' = listing,
         req' \in [Requests -> ListingSlot], OnlyMoves(r), ReadyToLink(r)'
  PROVE  Linking'
<1>1. Known \subseteq Known'
  BY DEF Grows, Known, Linking, ListingTyped
<1>2. ListingTyped'
  BY DEF Linking, ListingTyped, Grows
<1>3. ListedIsLinked'
  BY <1>1 DEF Linking, ListedIsLinked, Grows
<1>4. ASSUME NEW q \in Requests PROVE ReadyToLink(q)'
  <2>1. CASE q = r
    BY <2>1
  <2>2. CASE q # r
    BY <1>1, <2>2 DEF Linking, ReadyToLink, OnlyMoves, Grows
  <2> QED BY <2>1, <2>2
<1> QED BY <1>2, <1>3, <1>4 DEF Linking

(* Ending, dying and awaiting once leave nothing to rely on.               *)
LEMMA ListingEnds ==
  ASSUME Linking, NEW r \in Requests, End(r) \/ Die(r)
  PROVE  req' \in [Requests -> ListingSlot] /\ OnlyMoves(r) /\ ReadyToLink(r)'
BY DEF Linking, ListingTyped, OnlyMoves, End, Die, Idle, ListingSlot, ReadyToLink, ListingSteps

LEMMA ListingStays ==
  ASSUME Linking, NEW r \in Requests, Once(r)
  PROVE  req' \in [Requests -> ListingSlot] /\ OnlyMoves(r) /\ ReadyToLink(r)'
BY DEF Linking, ListingTyped, OnlyMoves, Once, Free, flight, ReadyToLink

LEMMA ListingBegins ==
  ASSUME Linking, NEW r \in Requests,
         NEW at \in ListingSteps, NEW on \in Categories \cup Listings \cup {None},
         NEW by \in Listings \cup {None}, NEW saw \in BOOLEAN \cup {None},
         Begin(r, at, on, by, saw)
  PROVE  /\ req' \in [Requests -> ListingSlot] /\ OnlyMoves(r)
         /\ req'[r].at = at /\ req'[r].on = on /\ req'[r].by = by
BY DEF Linking, ListingTyped, OnlyMoves, Begin, ListingSlot

LEMMA ListingGoes ==
  ASSUME Linking, NEW r \in Requests, NEW at \in ListingSteps, Goto(r, at)
  PROVE  /\ req' \in [Requests -> ListingSlot] /\ OnlyMoves(r)
         /\ req'[r].at = at /\ req'[r].on = req[r].on /\ req'[r].by = req[r].by
BY DEF Linking, ListingTyped, OnlyMoves, Goto, ListingSlot

-----------------------------------------------------------------------------
(* Rows of categories.                                                     *)
LEMMA CategoryMoves ==
  ASSUME Linking, NEW r \in Requests, NEW c \in Categories,
         (\E status \in {"APPROVED", "HIDDEN"} : CreateCategory(r, c, status))
         \/ (\E status \in {"APPROVED", "REJECTED"} : Settle(r, c, status))
  PROVE  Linking'
<1>1. PICK status \in CategoryStatus \ {"NONE"} :
        category' = [category EXCEPT ![c] = status]
  BY DEF CreateCategory, Settle, CategoryStatus
<1>2. Once(r) /\ listing' = listing /\ linked' = linked
  BY DEF CreateCategory, Settle
<1>3. Grows
  BY <1>1, <1>2 DEF Grows, Linking, ListingTyped, Known, CategoryStatus
<1> QED BY <1>2, <1>3, ListingStays, LinkingKept

LEMMA GrowsQuietly ==
  ASSUME Linking, category' = category, linked' = linked
  PROVE  Grows
BY DEF Linking, ListingTyped, Grows, Known

LEMMA ListingAsks ==
  ASSUME Linking, NEW r \in Requests, NEW c \in Categories,
         \/ Suggest(r, c)
         \/ \E s \in Listings : ListUnder(r, c, s) \/ ListUnderId(r, c, s)
  PROVE  Linking'
<1>1. listing' = listing /\ category' = category /\ linked' = linked
  BY DEF Suggest, ListUnder, ListUnderId, catalogueVars
<1>2. req' \in [Requests -> ListingSlot] /\ OnlyMoves(r) /\ ReadyToLink(r)'
  <2>1. CASE Suggest(r, c)
    <3>1. Begin(r, "category.create", c, None, None)
      BY <2>1 DEF Suggest
    <3> QED BY <3>1, ListingBegins DEF ListingSteps, ReadyToLink
  <2>2. ASSUME NEW s \in Listings, ListUnder(r, c, s), Alike(c) = {}
        PROVE  req' \in [Requests -> ListingSlot] /\ OnlyMoves(r) /\ ReadyToLink(r)'
    <3>1. Begin(r, "category.create", c, s, listing[s] # None)
      BY <2>2 DEF ListUnder
    <3> QED BY <3>1, ListingBegins DEF ListingSteps, ReadyToLink
  <2>3. ASSUME NEW s \in Listings, NEW d \in Known,
               Begin(r, "category.link", d, s, listing[s] # None)
        PROVE  req' \in [Requests -> ListingSlot] /\ OnlyMoves(r) /\ ReadyToLink(r)'
    <3>1. d \in Categories /\ d \in Known'
      BY <1>1 DEF Known
    <3>2. (listing[s] # None) \in BOOLEAN
      OBVIOUS
    <3>3. req' \in [Requests -> ListingSlot] /\ OnlyMoves(r)
          /\ req'[r].at = "category.link" /\ req'[r].on = d /\ req'[r].by = s
      BY <2>3, <3>1, <3>2, ListingBegins DEF ListingSteps
    <3> QED BY <3>1, <3>3 DEF ReadyToLink
  <2>4. ASSUME NEW s \in Listings, ListUnder(r, c, s), Alike(c) # {}
        PROVE  \E d \in Known : Begin(r, "category.link", d, s, listing[s] # None)
    BY <2>4 DEF ListUnder, Alike
  <2>5. ASSUME NEW s \in Listings, ListUnderId(r, c, s)
        PROVE  \E d \in Known : Begin(r, "category.link", d, s, listing[s] # None)
    BY <2>5 DEF ListUnderId
  <2> QED BY <2>1, <2>2, <2>3, <2>4, <2>5
<1> QED BY <1>1, <1>2, GrowsQuietly, LinkingKept

LEMMA ListingProposes ==
  ASSUME Linking, NEW r \in Requests, Propose(r)
  PROVE  Linking'
<1>1. req[r].on \in Categories /\ listing' = listing /\ linked' = linked
  BY DEF Propose, Linking, ReadyToLink
<1>2. category' = [category EXCEPT ![req[r].on] = "PENDING"]
  BY DEF Propose
<1>3. Grows /\ req[r].on \in Known'
  BY <1>1, <1>2 DEF Grows, Linking, ListingTyped, Known, CategoryStatus
<1>4. CASE req[r].by = None
  BY <1>1, <1>3, <1>4, ListingEnds, LinkingKept DEF Propose
<1>5. CASE req[r].by # None
  <2>1. req[r].by \in Listings
    BY <1>5 DEF Linking, ListingTyped, ListingSlot
  <2>2. Goto(r, "category.link")
    BY <1>5 DEF Propose
  <2> QED BY <1>1, <1>3, <2>1, <2>2, ListingGoes, LinkingKept DEF ListingSteps, ReadyToLink
<1> QED BY <1>4, <1>5

(* Links are made of categories that are there.                            *)
LEMMA ListingLinks ==
  ASSUME Linking, NEW r \in Requests,
         LinkCategory(r) \/ \E c \in Categories : AddCategory(r, c)
  PROVE  Linking'
<1>1. listing' = listing /\ category' = category
  BY DEF LinkCategory, AddCategory
<1>2. CASE LinkCategory(r)
  <2>1. linked' = linked \cup {req[r].on} /\ req[r].on \in Known /\ req[r].by \in Listings
    BY <1>2 DEF LinkCategory, Linking, ReadyToLink
  <2>2. Grows
    BY <1>1, <2>1 DEF Linking, ListingTyped, Grows, Known
  <2>3. Goto(r, "service.write")
    BY <1>2 DEF LinkCategory
  <2> QED BY <1>1, <2>1, <2>2, <2>3, ListingGoes, LinkingKept DEF ListingSteps, ReadyToLink
<1>3. ASSUME NEW c \in Categories, AddCategory(r, c) PROVE Linking'
  <2>1. Grows
    BY <1>1, <1>3 DEF AddCategory, Linking, ListingTyped, Grows, Known
  <2> QED BY <1>1, <1>3, <2>1, ListingStays, LinkingKept DEF AddCategory
<1> QED BY <1>2, <1>3

(* The rows of services.                                                   *)
LEMMA ListingWrites ==
  ASSUME Linking, NEW r \in Requests, WriteService(r) \/ RemoveService(r)
  PROVE  Linking'
<1>1. category' = category /\ linked' = linked /\ End(r)
  BY DEF WriteService, RemoveService
<1>2. linked \subseteq Categories /\ listing \in [Listings -> Categories \cup {None}]
  BY DEF Linking, ListingTyped, Known
<1>3. /\ listing' \in [Listings -> Categories \cup {None}]
      /\ \A t \in Listings : listing'[t] \in {listing[t], None} \cup linked
  <2>1. CASE WriteService(r)
    <3>1. req[r].by \in Listings /\ req[r].on \in linked
      BY <2>1 DEF WriteService, Linking, ReadyToLink
    <3>2. listing' = [listing EXCEPT ![req[r].by] = req[r].on]
      BY <2>1 DEF WriteService
    <3> QED BY <1>2, <3>1, <3>2
  <2>2. CASE RemoveService(r)
    <3>1. listing' = [listing EXCEPT ![req[r].on] = None]
      BY <2>2 DEF RemoveService
    <3> QED BY <1>2, <3>1
  <2> QED BY <2>1, <2>2
<1>4. ListingTyped' /\ ReadyToLink(r)' /\ OnlyMoves(r)
  <2>1. req' \in [Requests -> ListingSlot] /\ ReadyToLink(r)' /\ OnlyMoves(r)
    BY <1>1, ListingEnds
  <2> QED BY <1>1, <1>3, <2>1 DEF Linking, ListingTyped, Known
<1>5. ListedIsLinked'
  <2>1. linked \subseteq Known /\ linked' = linked /\ Known' = Known
    BY <1>1 DEF Linking, ListingTyped, Known
  <2> QED BY <1>3, <2>1 DEF Linking, ListedIsLinked
<1>6. ASSUME NEW q \in Requests PROVE ReadyToLink(q)'
  BY <1>1, <1>4 DEF Linking, OnlyMoves, ReadyToLink, Known
<1> QED BY <1>4, <1>5, <1>6 DEF Linking

LEMMA ListingRests ==
  ASSUME Linking, NEW r \in Requests,
         \/ \E s \in Listings : DeleteService(r, s)
         \/ AddItem(r) \/ RemoveItem(r) \/ CreateItem(r) \/ StopCatalogue(r)
  PROVE  Linking'
<1>1. listing' = listing /\ category' = category /\ linked' = linked
  BY DEF DeleteService, AddItem, RemoveItem, CreateItem, StopCatalogue, catalogueVars
<1>2. req' \in [Requests -> ListingSlot] /\ OnlyMoves(r) /\ ReadyToLink(r)'
  <2>1. ASSUME NEW at \in {"service.delete", "item.create"}, NEW s \in Listings \cup {None},
               Begin(r, at, s, None, None)
        PROVE  req' \in [Requests -> ListingSlot] /\ OnlyMoves(r) /\ ReadyToLink(r)'
    <3>1. at \in ListingSteps /\ s \in Categories \cup Listings \cup {None}
      BY DEF ListingSteps
    <3>2. req' \in [Requests -> ListingSlot] /\ OnlyMoves(r) /\ req'[r].at = at
      BY <2>1, <3>1, ListingBegins
    <3> QED BY <3>2 DEF ReadyToLink
  <2>2. ASSUME NEW s \in Listings, DeleteService(r, s)
        PROVE  req' \in [Requests -> ListingSlot] /\ OnlyMoves(r) /\ ReadyToLink(r)'
    BY <2>1, <2>2 DEF DeleteService
  <2>3. CASE AddItem(r)
    BY <2>1, <2>3 DEF AddItem
  <2> QED BY <2>2, <2>3, ListingEnds, ListingStays DEF RemoveItem, CreateItem, StopCatalogue
<1> QED BY <1>1, <1>2, GrowsQuietly, LinkingKept

-----------------------------------------------------------------------------
LEMMA InitLinks == CatalogueInit /\ FlightInit => Linking
BY DEF CatalogueInit, FlightInit, Linking, ListingTyped, ListedIsLinked, ReadyToLink, Known,
     Idle, ListingSlot, ListingSteps, CategoryStatus

LEMMA NextLinks == Linking /\ [CatalogueNext]_<<catalogueVars, flight>> => Linking'
<1> SUFFICES ASSUME Linking, [CatalogueNext]_<<catalogueVars, flight>> PROVE Linking'
  OBVIOUS
<1>1. CASE UNCHANGED <<catalogueVars, flight>>
  BY <1>1 DEF catalogueVars, flight, Linking, ListingTyped, ListedIsLinked, ReadyToLink, Known
<1>2. CASE CatalogueNext
  BY <1>2, CategoryMoves, ListingAsks, ListingProposes, ListingLinks, ListingWrites,
       ListingRests DEF CatalogueNext
<1> QED BY <1>1, <1>2

LEMMA LinkingInvariance == CatalogueSpec => []Linking
BY InitLinks, NextLinks, PTL DEF CatalogueSpec

(* For any names and listings, and however requests overlap and die,       *)
(* whoever lists a service is found under its category, and the category   *)
(* is there (createForProvider, updateForProvider, resolveForProvider).    *)
THEOREM ListingIsLinked == CatalogueSpec => []ListedIsLinked
<1>1. Linking => ListedIsLinked
  BY DEF Linking
<1> QED BY <1>1, LinkingInvariance, PTL

-----------------------------------------------------------------------------
(* Proposals.  Between the look for a name and the insert nobody else may  *)
(* propose it: the key of the table keeps spellings apart, not names.      *)
Distinct == \A c, d \in proposed : c[1] = d[1] => c = d

Unknown(r) ==
  req[r].at = "category.create" => \A d \in Known : d[1] # req[r].on[1]

Proposing ==
  /\ slots \subseteq Requests
  /\ \A r \in Requests : r \notin slots => req[r].at = "idle"
  /\ proposed \subseteq Known
  /\ OneByOne => Distinct /\ \A r \in Requests : Unknown(r)

(* Request r, one of this behaviour's, moves and the others do not.        *)
ListingActs(r) == r \in slots /\ slots' = slots /\ OnlyMoves(r)

LEMMA Sole ==
  ASSUME Proposing, OneByOne, NEW r \in slots
  PROVE  \A q \in Requests \ {r} : req[q].at = "idle"
<1>1. IsFiniteSet(slots)
  BY FS_Subset, HandlersAssumption DEF Proposing
<1>2. PICK x : slots = {x}
  BY <1>1, FS_Singleton DEF OneByOne
<1> QED BY <1>2 DEF Proposing

(* A step is safe if it adds at most a name that nobody has, and has       *)
(* looked before it goes to propose.                                       *)
LEMMA ProposalsMove ==
  ASSUME Proposing, NEW r \in Requests, ListingActs(r), proposed' \subseteq Known',
         OneByOne => Distinct' /\ Unknown(r)'
  PROVE  Proposing'
<1>1. OneByOne' <=> OneByOne
  BY DEF ListingActs, OneByOne
<1>2. ASSUME NEW q \in Requests, q \notin slots' PROVE req'[q].at = "idle"
  BY <1>2 DEF ListingActs, OnlyMoves, Proposing
<1>3. ASSUME OneByOne, NEW q \in Requests PROVE Unknown(q)'
  <2>1. CASE q # r
    <3>1. req'[q].at = "idle"
      BY <1>3, <2>1, Sole DEF ListingActs, OnlyMoves
    <3> QED BY <3>1 DEF Unknown
  <2> QED BY <1>3, <2>1
<1> QED BY <1>1, <1>2, <1>3 DEF ListingActs, Proposing

LEMMA ProposalsStay ==
  ASSUME Linking, Proposing, NEW r \in Requests, ListingActs(r), proposed' = proposed,
         \A c \in Known : category'[c] # "NONE", OneByOne => Unknown(r)'
  PROVE  Proposing'
<1>1. proposed' \subseteq Known'
  BY DEF Proposing, Known
<1>2. OneByOne => Distinct'
  BY DEF Proposing, Distinct
<1> QED BY <1>1, <1>2, ProposalsMove

(* Requests begin, end and await once.                                     *)
LEMMA ProposalsAsk ==
  ASSUME Linking, Proposing, NEW r \in Requests, NEW c \in Categories,
         \/ Suggest(r, c)
         \/ \E s \in Listings : ListUnder(r, c, s) \/ ListUnderId(r, c, s)
  PROVE  Proposing'
<1>1. category' = category /\ proposed' = proposed /\ Known' = Known
  BY DEF Suggest, ListUnder, ListUnderId, catalogueVars, Known
<1>2. ASSUME NEW at \in {"category.create", "category.link"}, NEW on, NEW by, NEW saw,
             Begin(r, at, on, by, saw), at = "category.create" => Alike(on) = {}
      PROVE  ListingActs(r) /\ Unknown(r)'
  <2>1. req'[r] = [at |-> at, on |-> on, by |-> by, saw |-> saw] /\ ListingActs(r)
    BY <1>2 DEF Begin, Free, ListingActs, OnlyMoves, Linking, ListingTyped
  <2> QED BY <1>1, <1>2, <2>1 DEF Unknown, Alike
<1>3. ListingActs(r) /\ Unknown(r)'
  <2>1. CASE Suggest(r, c)
    BY <1>2, <2>1 DEF Suggest
  <2>2. ASSUME NEW s \in Listings, ListUnder(r, c, s) PROVE ListingActs(r) /\ Unknown(r)'
    BY <1>2, <2>2 DEF ListUnder
  <2>3. ASSUME NEW s \in Listings, ListUnderId(r, c, s) PROVE ListingActs(r) /\ Unknown(r)'
    BY <1>2, <2>3 DEF ListUnderId
  <2> QED BY <2>1, <2>2, <2>3
<1> QED BY <1>1, <1>3, ProposalsStay DEF Known

LEMMA ProposalsSettle ==
  ASSUME Linking, Proposing, NEW r \in Requests, NEW c \in Categories,
         \/ \E status \in {"APPROVED", "HIDDEN"} : CreateCategory(r, c, status)
         \/ \E status \in {"APPROVED", "REJECTED"} : Settle(r, c, status)
         \/ AddCategory(r, c)
  PROVE  Proposing'
<1>1. Once(r) /\ proposed' = proposed
  BY DEF CreateCategory, Settle, AddCategory
<1>2. ListingActs(r) /\ Unknown(r)'
  BY <1>1 DEF Once, Free, flight, ListingActs, OnlyMoves, Unknown
<1>3. category' = category \/ \E status \in CategoryStatus \ {"NONE"} :
        category' = [category EXCEPT ![c] = status]
  BY DEF CreateCategory, Settle, AddCategory, CategoryStatus
<1>4. \A d \in Known : category'[d] # "NONE"
  BY <1>3 DEF Linking, ListingTyped, Known
<1> QED BY <1>1, <1>2, <1>4, ProposalsStay

LEMMA ProposalsPass ==
  ASSUME Linking, Proposing, NEW r \in Requests,
         \/ \E s \in Listings : DeleteService(r, s)
         \/ AddItem(r) \/ RemoveItem(r) \/ CreateItem(r)
         \/ LinkCategory(r) \/ WriteService(r) \/ RemoveService(r) \/ StopCatalogue(r)
  PROVE  Proposing'
<1>1. category' = category /\ proposed' = proposed
  BY DEF DeleteService, AddItem, RemoveItem, CreateItem, LinkCategory, WriteService,
         RemoveService, StopCatalogue, catalogueVars
<1>2. ListingActs(r) /\ req'[r].at # "category.create"
  <2> USE DEF ListingActs, OnlyMoves, Linking, ListingTyped, Proposing
  <2>1. CASE AddItem(r) \/ \E s \in Listings : DeleteService(r, s)
    BY <2>1 DEF AddItem, DeleteService, Begin, Free
  <2>2. CASE RemoveItem(r)
    BY <2>2 DEF RemoveItem, Once, Free, flight
  <2>3. CASE CreateItem(r) \/ WriteService(r) \/ RemoveService(r) \/ StopCatalogue(r)
    <3>1. req[r].at # "idle"
      BY <2>3 DEF CreateItem, WriteService, RemoveService, StopCatalogue, CatalogueRefused, Die
    <3>2. End(r) \/ Die(r)
      BY <2>3 DEF CreateItem, WriteService, RemoveService, StopCatalogue
    <3> QED BY <3>1, <3>2 DEF End, Die, Idle
  <2>4. CASE LinkCategory(r)
    BY <2>4 DEF LinkCategory, Goto
  <2> QED BY <2>1, <2>2, <2>3, <2>4
<1> QED BY <1>1, <1>2, ProposalsStay DEF Unknown, Known

LEMMA ProposalsGrow ==
  ASSUME Linking, Proposing, NEW r \in Requests, Propose(r)
  PROVE  Proposing'
<1> DEFINE c == req[r].on
<1>1. /\ req[r].at = "category.create" /\ c \in Categories
      /\ category' = [category EXCEPT ![c] = "PENDING"]
      /\ proposed' = proposed \cup {c}
      /\ End(r) \/ Goto(r, "category.link")
  BY DEF Propose, Linking, ReadyToLink
<1>2. ListingActs(r) /\ req'[r].at # "category.create"
  <2>1. r \in slots /\ slots' = slots
    BY <1>1 DEF End, Goto, Proposing
  <2>2. CASE End(r)
    BY <2>1, <2>2 DEF End, Idle, ListingActs, OnlyMoves, Linking, ListingTyped
  <2>3. CASE Goto(r, "category.link")
    BY <2>1, <2>3, ListingGoes DEF ListingSteps, ListingActs
  <2> QED BY <1>1, <2>2, <2>3
<1>3. proposed' \subseteq Known'
  BY <1>1 DEF Proposing, Linking, ListingTyped, Known
<1>4. OneByOne => Distinct'
  <2>1. OneByOne => Distinct /\ \A d \in proposed : d[1] # c[1]
    BY <1>1 DEF Proposing, Unknown
  <2> QED BY <1>1, <2>1 DEF Distinct
<1> QED BY <1>2, <1>3, <1>4, ProposalsMove DEF Unknown

LEMMA ProposalsStep == Linking /\ Proposing /\ [CatalogueNext]_<<catalogueVars, flight>> => Proposing'
<1> SUFFICES ASSUME Linking, Proposing, [CatalogueNext]_<<catalogueVars, flight>> PROVE Proposing'
  OBVIOUS
<1>1. CASE UNCHANGED <<catalogueVars, flight>>
  BY <1>1 DEF catalogueVars, flight, Proposing, Distinct, Unknown, Known, OneByOne
<1>2. CASE CatalogueNext
  BY <1>2, ProposalsAsk, ProposalsSettle, ProposalsPass, ProposalsGrow DEF CatalogueNext
<1> QED BY <1>1, <1>2

(* For any names and spellings, while requests run one after the other and *)
(* may die, no name is proposed twice, whatever its case and whatever      *)
(* became of it (suggest, resolveForProvider).                             *)
THEOREM ProposedOnce == CatalogueSpec => []OneProposalPerName
<1>1. CatalogueInit /\ FlightInit => Proposing
  BY DEF CatalogueInit, FlightInit, Proposing, Distinct, Unknown, Known, Idle
<1>2. Proposing => OneProposalPerName
  BY DEF Proposing, Distinct, OneProposalPerName
<1> QED BY <1>1, <1>2, ProposalsStep, LinkingInvariance, PTL DEF CatalogueSpec

-----------------------------------------------------------------------------
(* Ratings: however requests overlap or die, ratings are only added, so    *)
(* what a request counted it may still write.  In order, a profile is      *)
(* behind only while the request that added a rating is still at it.       *)
Rateable == Finished \X Directions

Behindhand == {"rating.aggregate", "rating.write"}

CountedUp(d) == Cardinality(RatedIn({d}))

RatingPromise(r) ==
  /\ req[r].at = "rating.create" => req[r].on \in Rateable /\ req[r].by \in Scores
  /\ req[r].at \in Behindhand => req[r].on \in Rateable
  /\ req[r].at = "rating.write" =>
       req[r].saw.count \in Nat /\ req[r].saw.count <= CountedUp(req[r].on[2])

(* What it read is what there still is.                                    *)
Latest(r) == req[r].at = "rating.write" => req[r].saw = Aggregate({req[r].on[2]})

Averaged(d) ==
  \/ profile[d] = Aggregate({d})
  \/ \E r \in Requests : req[r].at \in Behindhand /\ req[r].on[2] = d

Rating ==
  /\ ratings \in [Rateable -> Scores \cup {0}]
  /\ profile = [d \in Directions |-> profile[d]]
  /\ \A d \in Directions : profile[d].count \in Nat /\ profile[d].count <= CountedUp(d)
  /\ \A r \in Requests : RatingPromise(r)

RatingsInv ==
  /\ Slotted /\ Rating
  /\ Orderly => (\A r \in Requests : Latest(r)) /\ \A d \in Directions : Averaged(d)

LEMMA RatedFinite ==
  ASSUME NEW d \in Directions, NEW S \in SUBSET (Finished \X {d})
  PROVE  IsFiniteSet(S) /\ Cardinality(S) \in Nat
<1>1. IsFiniteSet(Finished \X {d})
  BY RatingsAssumption, FS_Singleton, FS_Product DEF RatingsAssumption
<1> QED BY <1>1, FS_Subset, FS_CardinalityType

LEMMA CountIsNat ==
  ASSUME NEW d \in Directions
  PROVE  CountedUp(d) \in Nat /\ CountedUp(d)' \in Nat
<1>1. RatedIn({d}) \subseteq Finished \X {d} /\ RatedIn({d})' \subseteq Finished \X {d}
  BY DEF RatedIn
<1> QED BY <1>1, RatedFinite DEF CountedUp

LEMMA RatedStays ==
  ASSUME ratings' = ratings, NEW d
  PROVE  Aggregate({d})' = Aggregate({d}) /\ CountedUp(d)' = CountedUp(d)
<1>1. RatedIn({d})' = RatedIn({d})
  BY DEF RatedIn
<1>2. /\ Aggregate({d}) = [sum |-> SumOver(ratings, RatedIn({d})), count |-> Cardinality(RatedIn({d}))]
      /\ Aggregate({d})' = [sum |-> SumOver(ratings', RatedIn({d})'), count |-> Cardinality(RatedIn({d})')]
  BY Zenon DEF Aggregate, SumOver, MapThenSumSet, MapThenFoldSet
<1> QED BY <1>1, <1>2 DEF CountedUp

(* A new rating counts for the one it is about, and for nobody else.       *)
LEMMA RatedGrows ==
  ASSUME Rating, NEW p \in Rateable, NEW s \in Scores, ratings[p] = 0,
         ratings' = [ratings EXCEPT ![p] = s], NEW d \in Directions
  PROVE  /\ CountedUp(d) <= CountedUp(d)'
         /\ p[2] # d => Aggregate({d})' = Aggregate({d})
<1> DEFINE old == RatedIn({d})
           new == RatedIn({d})'
<1>1. (\A q \in Rateable : q # p => ratings'[q] = ratings[q]) /\ ratings'[p] = s /\ s # 0
  BY RatingsAssumption DEF Rating, RatingsAssumption
<1>2. /\ old \subseteq Finished \X {d} /\ new \subseteq Finished \X {d}
      /\ Finished \X {d} \subseteq Rateable
  BY DEF RatedIn, Rateable
<1>3. old \subseteq new
  BY <1>1, <1>2 DEF RatedIn
<1>4. IsFiniteSet(old) /\ IsFiniteSet(new)
  BY <1>2, RatedFinite
<1>5. CountedUp(d) <= CountedUp(d)'
  BY <1>3, <1>4, FS_Subset DEF CountedUp
<1>6. ASSUME p[2] # d PROVE Aggregate({d})' = Aggregate({d})
  <2>1. \A q \in Finished \X {d} : ratings'[q] = ratings[q]
    BY <1>1, <1>2, <1>6
  <2>2. new = old
    BY <2>1 DEF RatedIn
  <2>3. SumOver(ratings', old) = SumOver(ratings, old)
    BY <1>2, <1>4, <2>1, SumSame
  <2>4. /\ Aggregate({d}) = [sum |-> SumOver(ratings, old), count |-> Cardinality(old)]
        /\ Aggregate({d})' = [sum |-> SumOver(ratings', new), count |-> Cardinality(new)]
    BY Zenon DEF Aggregate, SumOver, MapThenSumSet, MapThenFoldSet
  <2> HIDE DEF old, new
  <2> QED BY <2>2, <2>3, <2>4
<1> QED BY <1>5, <1>6

-----------------------------------------------------------------------------
(* A request moves, and each of the others finds what it counted.          *)
LEMMA RatingsMove ==
  ASSUME RatingsInv, NEW r \in Requests, Slotted', Acts(r), died => died',
         ratings' \in [Rateable -> Scores \cup {0}], RatingPromise(r)',
         \A d \in Directions : CountedUp(d) <= CountedUp(d)',
         profile' = [d \in Directions |-> profile'[d]],
         \A d \in Directions : profile'[d].count \in Nat /\ profile'[d].count <= CountedUp(d)',
         Orderly => Latest(r)' /\ \A d \in Directions : Averaged(d)'
  PROVE  RatingsInv'
<1>1. Orderly' => Orderly
  BY DEF Orderly, OneByOne, Acts
<1>2. ASSUME NEW q \in Requests PROVE RatingPromise(q)'
  <2>1. CASE q # r
    <3>1. RatingPromise(q) /\ req'[q] = req[q]
      BY <2>1 DEF RatingsInv, Rating, Acts
    <3>2. ASSUME req[q].at = "rating.write"
          PROVE  req[q].saw.count \in Nat /\ req[q].saw.count <= CountedUp(req[q].on[2])'
      <4>1. PICK d \in Directions : d = req[q].on[2]
        BY <3>1, <3>2 DEF RatingPromise, Rateable, Behindhand
      <4>2. req[q].saw.count \in Nat /\ req[q].saw.count <= CountedUp(d)
        BY <3>1, <3>2, <4>1 DEF RatingPromise
      <4>3. req[q].saw.count <= CountedUp(d)'
        BY <4>2, CountIsNat
      <4>4. CountedUp(d)' = CountedUp(req[q].on[2])'
        BY <3>1, <4>1 DEF CountedUp, RatedIn
      <4> QED BY <4>2, <4>3, <4>4
    <3> QED BY <3>1, <3>2 DEF RatingPromise, CountedUp, RatedIn
  <2> QED BY <2>1
<1>3. ASSUME Orderly', NEW q \in Requests PROVE Latest(q)'
  <2>1. CASE q # r
    <3>1. req[q].at = "idle" /\ req'[q] = req[q]
      BY <1>1, <1>3, <2>1, Alone DEF RatingsInv, Orderly, Acts
    <3> QED BY <3>1 DEF Latest
  <2> QED BY <1>1, <1>3, <2>1
<1>4. Rating'
  BY <1>2 DEF Rating
<1> QED BY <1>1, <1>3, <1>4 DEF RatingsInv

(* The rows stay as they are.                                              *)
LEMMA RatingsStay ==
  ASSUME RatingsInv, NEW r \in Requests, Slotted', Acts(r), died => died', UNCHANGED ratings,
         RatingPromise(r)', profile' = [d \in Directions |-> profile'[d]],
         \A d \in Directions : profile'[d].count \in Nat /\ profile'[d].count <= CountedUp(d),
         Orderly => Latest(r)' /\ \A d \in Directions : Averaged(d)'
  PROVE  RatingsInv'
<1>1. \A d \in Directions : CountedUp(d)' = CountedUp(d)
  BY RatedStays
<1>2. \A d \in Directions : CountedUp(d) <= CountedUp(d)'
  BY <1>1, CountIsNat
<1>3. ratings' \in [Rateable -> Scores \cup {0}]
  BY DEF RatingsInv, Rating
<1> QED BY <1>1, <1>2, <1>3, RatingsMove

LEMMA RatingBegins ==
  ASSUME RatingsInv, NEW r \in Requests, NEW b \in Finished, NEW d \in Directions,
         NEW s \in Scores, Rate(r, b, d, s)
  PROVE  RatingsInv'
<1>1. /\ Begin(r, "rating.create", <<b, d>>, s, None) /\ UNCHANGED ratingVars
      /\ died' = died /\ req[r].at = "idle"
  BY DEF Rate, Begin, Free
<1> DEFINE on == <<b, d>>
<1>0. on \in Rateable
  BY DEF Rateable
<1> HIDE DEF on
<1>2. /\ Slotted' /\ Acts(r)
      /\ req'[r] = [at |-> "rating.create", on |-> on, by |-> s, saw |-> None]
  BY <1>1, Begins DEF RatingsInv, on
<1>3. RatingPromise(r)' /\ Latest(r)'
  BY <1>0, <1>2 DEF RatingPromise, Latest, Behindhand
<1>4. ASSUME Orderly, NEW e \in Directions PROVE Averaged(e)'
  <2>1. Averaged(e)
    BY <1>4 DEF RatingsInv
  <2>2. \A q \in Requests : req[q].at \in Behindhand => req'[q] = req[q]
    BY <1>1, <1>2 DEF Acts, Behindhand
  <2>3. Aggregate({e})' = Aggregate({e}) /\ profile' = profile
    BY <1>1, RatedStays DEF ratingVars
  <2> QED BY <2>1, <2>2, <2>3 DEF Averaged
<1> QED BY <1>1, <1>2, <1>3, <1>4, RatingsStay DEF RatingsInv, Rating, ratingVars

LEMMA RatingCreated ==
  ASSUME RatingsInv, NEW r \in Requests, CreateRating(r)
  PROVE  RatingsInv'
<1>1. /\ req[r].at = "rating.create" /\ ratings[req[r].on] = 0
      /\ ratings' = [ratings EXCEPT ![req[r].on] = req[r].by]
      /\ profile' = profile /\ died' = died
  BY DEF CreateRating, Goto
<1>2. /\ Slotted' /\ Acts(r)
      /\ req'[r] = [at |-> "rating.aggregate", on |-> req[r].on, by |-> req[r].by, saw |-> req[r].saw]
  BY <1>1, Goes DEF RatingsInv, CreateRating
<1>3. PICK p \in Rateable : p = req[r].on
  BY <1>1 DEF RatingsInv, Rating, RatingPromise
<1>4. PICK s \in Scores : s = req[r].by
  BY <1>1 DEF RatingsInv, Rating, RatingPromise
<1>5. \A d \in Directions :
        CountedUp(d) <= CountedUp(d)' /\ (p[2] # d => Aggregate({d})' = Aggregate({d}))
  BY <1>1, <1>3, <1>4, RatedGrows DEF RatingsInv
<1>6. ASSUME NEW d \in Directions
      PROVE  profile[d].count \in Nat /\ profile[d].count <= CountedUp(d)'
  <2>1. profile[d].count \in Nat /\ profile[d].count <= CountedUp(d) /\ CountedUp(d) <= CountedUp(d)'
    BY <1>5 DEF RatingsInv, Rating
  <2>2. CountedUp(d) \in Nat /\ CountedUp(d)' \in Nat
    BY CountIsNat
  <2> QED BY <2>1, <2>2
<1>7. RatingPromise(r)' /\ Latest(r)'
  BY <1>2, <1>3 DEF RatingPromise, Latest, Behindhand
<1>8. ASSUME Orderly, NEW d \in Directions PROVE Averaged(d)'
  <2>1. CASE p[2] = d
    BY <1>2, <1>3, <2>1 DEF Averaged, Behindhand
  <2>2. CASE p[2] # d
    <3>1. Averaged(d)
      BY <1>8 DEF RatingsInv
    <3>2. \A q \in Requests : req[q].at \in Behindhand => req'[q] = req[q]
      BY <1>1, <1>2 DEF Acts, Behindhand
    <3> QED BY <1>1, <1>5, <2>2, <3>1, <3>2 DEF Averaged
  <2> QED BY <2>1, <2>2
<1>9. ratings' \in [Rateable -> Scores \cup {0}]
  BY <1>1, <1>3, <1>4 DEF RatingsInv, Rating
<1>10. profile' = [d \in Directions |-> profile'[d]]
  BY <1>1 DEF RatingsInv, Rating
<1> QED BY <1>1, <1>2, <1>5, <1>6, <1>7, <1>8, <1>9, <1>10, RatingsMove

LEMMA RatingsRead ==
  ASSUME RatingsInv, NEW r \in Requests, ReadAggregate(r)
  PROVE  RatingsInv'
<1>1. /\ req[r].at = "rating.aggregate" /\ UNCHANGED <<ratings, profile>> /\ died' = died
      /\ Carry(r, "rating.write", Aggregate({req[r].on[2]}))
  BY DEF ReadAggregate, Carry, ratingVars
<1>2. PICK p \in Rateable : p = req[r].on
  BY <1>1 DEF RatingsInv, Rating, RatingPromise, Behindhand
<1> DEFINE d == p[2]
<1>3. /\ Slotted' /\ Acts(r)
      /\ req'[r] = [at |-> "rating.write", on |-> p, by |-> req[r].by, saw |-> Aggregate({d})]
  BY <1>1, <1>2, Carries DEF RatingsInv
<1>4. d \in Directions
  BY DEF Rateable
<1>5. \A e \in Directions : Aggregate({e})' = Aggregate({e}) /\ CountedUp(e)' = CountedUp(e)
  BY <1>1, RatedStays
<1>6. Aggregate({d}).count = CountedUp(d) /\ CountedUp(d) \in Nat
  BY <1>4, CountIsNat DEF Aggregate, CountedUp
<1>7. RatingPromise(r)'
  <2>1. req'[r].saw.count \in Nat /\ req'[r].saw.count <= CountedUp(d)'
    BY <1>3, <1>5, <1>4, <1>6
  <2>2. req'[r].at = "rating.write" /\ req'[r].on = p
    BY <1>3
  <2> HIDE DEF d
  <2>3. CountedUp(d)' = Cardinality(RatedIn({d})')
    BY DEF CountedUp
  <2> QED BY <2>1, <2>2 DEF RatingPromise, Behindhand, CountedUp, RatedIn, d
<1>8. Latest(r)'
  BY <1>3, <1>4, <1>5 DEF Latest
<1>9. ASSUME Orderly, NEW e \in Directions PROVE Averaged(e)'
  <2>1. Averaged(e)
    BY <1>9 DEF RatingsInv
  <2>2. \A q \in Requests : req[q].at \in Behindhand =>
          req'[q].at \in Behindhand /\ req'[q].on = req[q].on
    BY <1>2, <1>3 DEF Acts, Behindhand
  <2> QED BY <1>1, <1>5, <2>1, <2>2 DEF Averaged
<1> QED BY <1>1, <1>3, <1>7, <1>8, <1>9, RatingsStay DEF RatingsInv, Rating

(* In order, nothing was rated since the request read.                     *)
LEMMA RatingsWritten ==
  ASSUME RatingsInv, NEW r \in Requests, WriteAggregate(r)
  PROVE  RatingsInv'
<1>1. /\ req[r].at = "rating.write" /\ UNCHANGED ratings /\ died' = died /\ End(r)
      /\ profile' = [profile EXCEPT ![req[r].on[2]] = req[r].saw]
  BY DEF WriteAggregate, End
<1>2. PICK d \in Directions : d = req[r].on[2]
  BY <1>1 DEF RatingsInv, Rating, RatingPromise, Rateable, Behindhand
<1>3. Slotted' /\ Acts(r) /\ req'[r] = Idle
  BY <1>1, Ends DEF RatingsInv
<1>4. RatingPromise(r)' /\ Latest(r)'
  BY <1>3 DEF RatingPromise, Latest, Behindhand, Idle
<1>5. /\ profile' = [e \in Directions |-> profile'[e]]
      /\ profile'[d] = req[r].saw /\ \A e \in Directions \ {d} : profile'[e] = profile[e]
  BY <1>1, <1>2 DEF RatingsInv, Rating
<1>6. req[r].saw.count \in Nat /\ req[r].saw.count <= CountedUp(d)
  BY <1>1, <1>2 DEF RatingsInv, Rating, RatingPromise
<1>7. \A e \in Directions : profile'[e].count \in Nat /\ profile'[e].count <= CountedUp(e)
  BY <1>5, <1>6 DEF RatingsInv, Rating
<1>8. ASSUME Orderly, NEW e \in Directions PROVE Averaged(e)'
  <2>1. \A x \in Directions : Aggregate({x})' = Aggregate({x})
    BY <1>1, RatedStays
  <2>2. CASE e = d
    <3>1. req[r].saw = Aggregate({d})
      BY <1>1, <1>2, <1>8 DEF RatingsInv, Latest
    <3> QED BY <1>5, <2>1, <2>2, <3>1 DEF Averaged
  <2>3. CASE e # d
    <3>1. Averaged(e)
      BY <1>8 DEF RatingsInv
    <3>2. \A q \in Requests : req[q].on[2] = e => req'[q] = req[q]
      BY <1>2, <1>3, <2>3 DEF Acts
    <3> QED BY <1>5, <2>1, <2>3, <3>1, <3>2 DEF Averaged
  <2> QED BY <2>2, <2>3
<1> QED BY <1>1, <1>3, <1>4, <1>5, <1>7, <1>8, RatingsStay

(* Refused, it added nothing; and with a death all order ends.             *)
LEMMA RatingStops ==
  ASSUME RatingsInv, NEW r \in Requests, StopRating(r)
  PROVE  RatingsInv'
<1>1. /\ ratings' = ratings /\ profile' = profile /\ (End(r) \/ Die(r)) /\ req[r].at # "idle"
      /\ died => died'
      /\ req[r].at = "rating.create" \/ died'
  BY DEF StopRating, Die, End, ratingVars
<1>2. Slotted' /\ Acts(r) /\ req'[r] = Idle
  BY <1>1, Ends DEF RatingsInv
<1>3. RatingPromise(r)' /\ Latest(r)'
  BY <1>2 DEF RatingPromise, Latest, Behindhand, Idle
<1>4. CASE req[r].at = "rating.create"
  <2>1. ASSUME Orderly, NEW e \in Directions PROVE Averaged(e)'
    <3>1. Averaged(e) /\ Aggregate({e})' = Aggregate({e})
      BY <1>1, <2>1, RatedStays DEF RatingsInv
    <3>2. \A q \in Requests : req[q].at \in Behindhand => req'[q] = req[q]
      BY <1>2, <1>4 DEF Acts, Behindhand
    <3> QED BY <1>1, <3>1, <3>2 DEF Averaged
  <2> QED BY <1>1, <1>2, <1>3, <2>1, RatingsStay DEF RatingsInv, Rating
<1>5. CASE died'
  <2>1. ~Orderly'
    BY <1>5 DEF Orderly
  <2>2. \A d \in Directions : CountedUp(d)' = CountedUp(d)
    BY <1>1 DEF CountedUp, RatedIn
  <2>3. ASSUME NEW q \in Requests PROVE RatingPromise(q)'
    <3>1. CASE q # r
      <4>1. RatingPromise(q) /\ req'[q] = req[q]
        BY <1>2, <3>1 DEF RatingsInv, Rating, Acts
      <4> QED BY <1>1, <4>1 DEF RatingPromise, CountedUp, RatedIn
    <3> QED BY <1>3, <3>1
  <2> QED BY <1>1, <1>2, <2>1, <2>2, <2>3 DEF RatingsInv, Rating
<1> QED BY <1>1, <1>4, <1>5

-----------------------------------------------------------------------------
LEMMA RatingsInitial == RatingsInit /\ FlightInit => RatingsInv
<1> SUFFICES ASSUME RatingsInit, FlightInit PROVE RatingsInv
  OBVIOUS
<1>1. Slotted /\ \A r \in Requests : req[r].at = "idle"
  BY DEF FlightInit, Idle, Slotted, Shaped
<1>2. /\ ratings = [p \in Rateable |-> 0]
      /\ \A d \in Directions : profile[d] = [sum |-> 0, count |-> 0]
      /\ profile = [d \in Directions |-> profile[d]]
  BY DEF RatingsInit, Rateable
<1>3. \A d \in Directions : RatedIn({d}) = {}
  BY <1>2 DEF RatedIn, Rateable
<1>4. \A d \in Directions : CountedUp(d) = 0
  BY <1>3, FS_EmptySet DEF CountedUp
<1>5. ASSUME NEW d \in Directions PROVE Aggregate({d}) = [sum |-> 0, count |-> 0]
  <2>1. Aggregate({d}) = [sum |-> SumOver(ratings, RatedIn({d})), count |-> Cardinality(RatedIn({d}))]
    BY Zenon DEF Aggregate, SumOver, MapThenSumSet, MapThenFoldSet
  <2> QED BY <1>3, <2>1, SumEmpty, FS_EmptySet
<1>6. Rating
  BY <1>1, <1>2, <1>4 DEF Rating, RatingPromise, Behindhand
<1> QED BY <1>1, <1>2, <1>5, <1>6 DEF RatingsInv, Latest, Averaged

LEMMA RatingsStep == RatingsInv /\ [RatingsNext]_<<ratingVars, flight>> => RatingsInv'
<1> SUFFICES ASSUME RatingsInv, [RatingsNext]_<<ratingVars, flight>> PROVE RatingsInv'
  OBVIOUS
<1>1. CASE UNCHANGED <<ratingVars, flight>>
  <2>1. UNCHANGED <<ratings, profile, req, slots, died>>
    BY <1>1 DEF ratingVars, flight
  <2>2. \A d : Aggregate({d})' = Aggregate({d}) /\ CountedUp(d)' = CountedUp(d)
    BY <2>1, RatedStays
  <2>3. Slotted' /\ (Orderly' => Orderly)
    BY <2>1 DEF RatingsInv, Slotted, Shaped, Orderly, OneByOne
  <2>4. \A r \in Requests : RatingPromise(r)' /\ (Latest(r) => Latest(r)')
    BY <2>1, <2>2 DEF RatingsInv, Rating, RatingPromise, Latest
  <2>5. \A d \in Directions : Averaged(d) => Averaged(d)'
    BY <2>1, <2>2 DEF Averaged
  <2>6. Rating'
    BY <2>1, <2>2, <2>4 DEF RatingsInv, Rating
  <2> QED BY <2>3, <2>4, <2>5, <2>6 DEF RatingsInv
<1>2. CASE RatingsNext
  BY <1>2, RatingBegins, RatingCreated, RatingsRead, RatingsWritten, RatingStops DEF RatingsNext
<1> QED BY <1>1, <1>2

LEMMA RatingsInvariance == RatingsSpec => []RatingsInv
BY RatingsInitial, RatingsStep, PTL DEF RatingsSpec

(* For any bookings and scores: a profile shows the average of the ratings *)
(* it got and of no others once requests that ran one after the other are  *)
(* done, and however they overlap or die it never counts more ratings than *)
(* there are (create, then updateProviderRating or updateUserRating).      *)
THEOREM ProfilesAverage == RatingsSpec => []AggregateAgrees
<1>1. RatingsInv => AggregateAgrees
  <2> SUFFICES ASSUME RatingsInv PROVE AggregateAgrees
    OBVIOUS
  <2>1. ASSUME Orderly, AtRest, NEW d \in Directions PROVE profile[d] = Aggregate({d})
    <3>1. \A r \in Requests : req[r].at = "idle"
      BY <2>1 DEF AtRest, Busy
    <3> QED BY <2>1, <3>1 DEF RatingsInv, Averaged, Behindhand
  <2>2. ASSUME NEW d \in Directions PROVE profile[d].count <= Aggregate({d}).count
    <3>1. Aggregate({d}).count = CountedUp(d)
      BY DEF Aggregate, CountedUp
    <3> QED BY <3>1 DEF RatingsInv, Rating
  <2> QED BY <2>1, <2>2 DEF AggregateAgrees
<1> QED BY <1>1, RatingsInvariance, PTL
=============================================================================
