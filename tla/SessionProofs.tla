---------------------------- MODULE SessionProofs ----------------------------
(***************************************************************************)
(* First, what Session keeps however requests overlap, crashes and changes *)
(* of the store included: passwords, second factors and verified addresses *)
(* come from codes that reached the reader they were made for.  Earning    *)
(* follows a code from the list of those made, through either store and    *)
(* the requests that carry it, to what it brings about.  The list of codes *)
(* and the letters that went out only grow.                                *)
(*                                                                         *)
(* Then, what is calm: requests one after the other, none of which died,   *)
(* and one store.  Following says of which password every session is, and  *)
(* which request is about to see to it; Spending that nothing stored is of *)
(* a code that has been used, but for the one that is about to be removed. *)
(***************************************************************************)
EXTENDS Session, FiniteSetTheorems, TLAPS

For(p)   == IF p = "grant" THEN "change" ELSE p
Owners   == Accounts \cup {None}
Reasons  == Purposes \cup {"selection", "exchange"}
Issued   == [on : Owners, for : Reasons]

(* The code with this number was made for that.                            *)
Numbered(n, a, p) == n \in 1..Len(made) /\ made[n] = [on |-> a, for |-> p]

Vouched == \A m \in inbox : Numbered(m.n, m.on, m.for)

(* What either store holds for an account: a code made for it, and a grant *)
(* only for a code that was sent.                                          *)
Sound(v, p, a) ==
  /\ v \in Entries
  /\ Numbered(v.n, a, For(p))
  /\ p = "grant" => Delivered(a, "change", v.n)

Held == \A p \in Purposes, a \in Accounts :
  /\ redis[<<p, a>>] # Absent => Sound(redis[<<p, a>>], p, a)
  /\ memory[<<p, a>>] # Absent => Sound(memory[<<p, a>>], p, a)

(* What a request relies on at its next step.                              *)
Promise(r) ==
  /\ req[r].at \in {"code.store", "welcome.store", "code.send", "welcome.send"} =>
       req[r].on \in Accounts /\ req[r].by \in Purposes \ {"grant", "setup"}
  /\ req[r].at \in {"code.send", "welcome.send"} => Numbered(req[r].saw, req[r].on, req[r].by)
  /\ req[r].at = "password.write" =>
       /\ req[r].on \in Accounts /\ req[r].saw.n \in Nat
       /\ \/ Delivered(req[r].on, "reset", req[r].saw.n)
          \/ Delivered(req[r].on, "change", req[r].saw.n)
  /\ req[r].at = "confirm.write" =>
       /\ req[r].on \in Accounts /\ req[r].by \in Channels \cup {"setup"}
       /\ req[r].saw.n \in 1..Len(made)
       /\ Delivered(req[r].on, req[r].by, req[r].saw.n)
  /\ req[r].at \in {"change.count", "change.delete", "change.grant"} =>
       req[r].on \in Accounts /\ Sound(req[r].saw, "change", req[r].on)
  /\ req[r].at \in {"change.delete", "change.grant"} =>
       Delivered(req[r].on, "change", req[r].saw.n)

Shaped(x) == x = [at |-> x.at, on |-> x.on, by |-> x.by, saw |-> x.saw] /\ x.on \in Owners

Slotted == req = [r \in Requests |-> req[r]] /\ \A r \in Requests : Shaped(req[r])

Rows ==
  /\ authority \in [Accounts -> Nat] /\ twoFactor \in [Accounts -> Nat]
  /\ made \in Seq(Issued)
  /\ redis = [k \in Keys |-> redis[k]] /\ memory = [k \in Keys |-> memory[k]]

Earning ==
  Rows /\ Slotted /\ Vouched /\ Held /\ EarnedByCode /\ \A r \in Requests : Promise(r)

-----------------------------------------------------------------------------
(* Codes and letters only become more.                                     *)
Grows ==
  /\ Len(made) <= Len(made') /\ \A n \in 1..Len(made) : made'[n] = made[n]
  /\ inbox \subseteq inbox'

Alone(r) == \A q \in Requests \ {r} : req'[q] = req[q]

LEMMA Lengths == ASSUME Rows PROVE Len(made) \in Nat
BY DEF Rows

(* What was made or delivered stays so.                                    *)
LEMMA Lasting ==
  ASSUME Rows, Rows', Grows, NEW n, NEW a, NEW p
  PROVE  /\ Numbered(n, a, p) => Numbered(n, a, p)'
         /\ Delivered(a, p, n) => Delivered(a, p, n)'
BY Lengths DEF Grows, Numbered, Delivered, Rows

LEMMA SoundLasts ==
  ASSUME Rows, Rows', Grows, NEW v, NEW a, NEW p, Sound(v, p, a)
  PROVE  Sound(v, p, a)'
BY Lasting DEF Sound

LEMMA PromiseLasts ==
  ASSUME Rows, Rows', Grows, NEW q \in Requests, req'[q] = req[q], Promise(q)
  PROVE  Promise(q)'
<1> DEFINE x == req[q]
<1>1. Len(made) \in Nat /\ Len(made') \in Nat /\ Len(made) <= Len(made')
  BY Lengths DEF Rows, Grows
<1>2. x.at \in {"code.send", "welcome.send"} => Numbered(x.saw, x.on, x.by)'
  BY Lasting DEF Promise
<1>3. x.at = "password.write" =>
        Delivered(x.on, "reset", x.saw.n)' \/ Delivered(x.on, "change", x.saw.n)'
  BY Lasting DEF Promise
<1>4. x.at = "confirm.write" =>
        Delivered(x.on, x.by, x.saw.n)' /\ x.saw.n \in 1..Len(made')
  BY Lasting, <1>1 DEF Promise
<1>5. x.at \in {"change.count", "change.delete", "change.grant"} =>
        Sound(x.saw, "change", x.on)'
  BY SoundLasts DEF Promise
<1>6. x.at \in {"change.delete", "change.grant"} => Delivered(x.on, "change", x.saw.n)'
  BY Lasting DEF Promise
<1> QED BY <1>2, <1>3, <1>4, <1>5, <1>6 DEF Promise

(* A step is of one request, which must see to its own promise.            *)
LEMMA Moved ==
  ASSUME Earning, NEW r \in Requests, Rows', Slotted', Grows, Vouched', Held',
         EarnedByCode', Alone(r), Promise(r)'
  PROVE  Earning'
<1>1. ASSUME NEW q \in Requests PROVE Promise(q)'
  <2>1. CASE q = r
    BY <2>1
  <2>2. CASE q # r
    BY <2>2, PromiseLasts DEF Earning, Alone
  <2> QED BY <2>1, <2>2
<1> QED BY <1>1 DEF Earning

-----------------------------------------------------------------------------
(* The requests.                                                           *)
LEMMA Begins ==
  ASSUME Slotted, NEW r \in Requests, NEW at, NEW on \in Owners, NEW by, NEW saw,
         Begin(r, at, on, by, saw)
  PROVE  /\ Slotted' /\ Alone(r)
         /\ req'[r] = [at |-> at, on |-> on, by |-> by, saw |-> saw]
BY DEF Slotted, Shaped, Alone, Begin

LEMMA Carries ==
  ASSUME Slotted, NEW r \in Requests, NEW at, NEW saw, Carry(r, at, saw)
  PROVE  /\ Slotted' /\ Alone(r)
         /\ req'[r] = [at |-> at, on |-> req[r].on, by |-> req[r].by, saw |-> saw]
<1>1. req' = [req EXCEPT ![r].at = at, ![r].saw = saw]
  BY DEF Carry
<1>2. Shaped(req[r]) /\ req = [q \in Requests |-> req[q]]
  BY DEF Slotted
<1>3. req'[r] = [req[r] EXCEPT !.at = at, !.saw = saw]
      /\ req' = [q \in Requests |-> req'[q]] /\ Alone(r)
  BY <1>1, <1>2 DEF Alone
<1>4. req'[r] = [at |-> at, on |-> req[r].on, by |-> req[r].by, saw |-> saw]
  BY <1>2, <1>3 DEF Shaped
<1> QED BY <1>2, <1>3, <1>4 DEF Slotted, Shaped, Alone

LEMMA Goes ==
  ASSUME Slotted, NEW r \in Requests, NEW at, Goto(r, at)
  PROVE  /\ Slotted' /\ Alone(r)
         /\ req'[r] = [at |-> at, on |-> req[r].on, by |-> req[r].by, saw |-> req[r].saw]
BY DEF Slotted, Shaped, Alone, Goto

LEMMA Ends ==
  ASSUME Slotted, NEW r \in Requests, End(r) \/ Die(r)
  PROVE  Slotted' /\ Alone(r) /\ Promise(r)'
<1>1. req' = [req EXCEPT ![r] = Idle]
  BY DEF End, Die
<1>2. Slotted' /\ Alone(r) /\ req'[r] = Idle
  BY <1>1 DEF Slotted, Shaped, Alone, Idle, Owners
<1> QED BY <1>2 DEF Promise, Idle

(* Steps that rely on nothing.                                             *)
Careless == {"idle", "issue", "exchange.store", "exchange.delete", "selection.delete",
             "selection.read", "code.delete", "session.delete", "first.write", "scrub"}

LEMMA Unpromised ==
  ASSUME NEW r \in Requests, req'[r].at \in Careless
  PROVE  Promise(r)'
BY DEF Promise, Careless

LEMMA Stays ==
  ASSUME Earning, NEW r \in Requests, Once(r)
  PROVE  Slotted' /\ Alone(r) /\ Promise(r)'
<1>1. req' = req /\ req[r].at = "idle"
  BY DEF Once, Free, flight
<1>2. Slotted' /\ Alone(r)
  BY <1>1 DEF Earning, Slotted, Shaped, Alone
<1> QED BY <1>1, <1>2, Unpromised DEF Careless

-----------------------------------------------------------------------------
(* Where a step only reads, or drops keys, nothing is earned or lost.      *)
Still == UNCHANGED <<made, inbox, authority, twoFactor, verified>>

LEMMA Idles ==
  ASSUME Earning, Still
  PROVE  Grows /\ Vouched' /\ EarnedByCode'
<1>1. Grows
  BY Lengths DEF Still, Grows, Earning
<1>2. Vouched'
  BY DEF Still, Vouched, Numbered, Earning
<1>3. EarnedByCode'
  BY DEF Still, EarnedByCode, Delivered, Earning
<1> QED BY <1>1, <1>2, <1>3

(* The stores after one key is written.                                    *)
LEMMA Puts ==
  ASSUME Earning, NEW k, NEW v, Put(k, v)
  PROVE  /\ redis' = [q \in Keys |-> redis'[q]] /\ memory' = [q \in Keys |-> memory'[q]]
         /\ \A q \in Keys : redis'[q] \in {redis[q], v} /\ memory'[q] \in {memory[q], v}
         /\ \A q \in Keys \ {k} : redis'[q] = redis[q] /\ memory'[q] = memory[q]
<1>1. redis = [q \in Keys |-> redis[q]] /\ memory = [q \in Keys |-> memory[q]]
  BY DEF Earning, Rows
<1>2. CASE ready
  BY <1>1, <1>2 DEF Put
<1>3. CASE ~ready
  BY <1>1, <1>3 DEF Put
<1> QED BY <1>2, <1>3

LEMMA KeyInUse ==
  ASSUME NEW p \in Purposes, NEW a \in Accounts
  PROVE  <<p, a>> \in Keys /\ p \notin {"refresh", "selection", "exchange"}
BY SessionAssumption DEF SessionKeys, Purposes

LEMMA HeldLasts ==
  ASSUME Earning, Rows', Grows,
         \A p \in Purposes, a \in Accounts :
           /\ redis'[<<p, a>>] \in {redis[<<p, a>>], Absent}
           /\ memory'[<<p, a>>] \in {memory[<<p, a>>], Absent}
  PROVE  Held'
<1> SUFFICES ASSUME NEW p \in Purposes, NEW a \in Accounts
             PROVE  /\ redis'[<<p, a>>] # Absent => Sound(redis[<<p, a>>], p, a)'
                    /\ memory'[<<p, a>>] # Absent => Sound(memory[<<p, a>>], p, a)'
  BY DEF Held
<1>1. ASSUME NEW v, Sound(v, p, a)
      PROVE  /\ v \in Entries /\ v.n \in 1..Len(made')
             /\ made'[v.n] = [on |-> a, for |-> For(p)]
             /\ p = "grant" => \E m \in inbox' : m.on = a /\ m.for = "change" /\ m.n = v.n
  BY <1>1, SoundLasts DEF Sound, Numbered, Delivered, Earning
<1>2. redis'[<<p, a>>] # Absent =>
        redis'[<<p, a>>] = redis[<<p, a>>] /\ Sound(redis[<<p, a>>], p, a)
  BY DEF Earning, Held
<1>3. memory'[<<p, a>>] # Absent =>
        memory'[<<p, a>>] = memory[<<p, a>>] /\ Sound(memory[<<p, a>>], p, a)
  BY DEF Earning, Held
<1> QED BY <1>1, <1>2, <1>3 DEF Sound, Numbered, Delivered

-----------------------------------------------------------------------------
(* A step that leaves the tables be, and the stores, or writes one key     *)
(* that is no code's or removes one.                                       *)
LEMMA Harmless ==
  ASSUME Earning, NEW r \in Requests, Still, UNCHANGED stores,
         Slotted', Alone(r), Promise(r)'
  PROVE  Earning'
<1>1. Grows /\ Vouched' /\ EarnedByCode'
  BY Idles
<1>2. Rows'
  BY DEF Still, stores, Earning, Rows
<1>3. Held'
  BY <1>1, <1>2, HeldLasts DEF stores
<1> QED BY <1>1, <1>2, <1>3, Moved

LEMMA Drops ==
  ASSUME Earning, NEW r \in Requests, Still, NEW k, NEW v, Put(k, v),
         k \in Purposes \X Accounts => v = Absent,
         Slotted', Alone(r), Promise(r)'
  PROVE  Earning'
<1>1. Grows /\ Vouched' /\ EarnedByCode'
  BY Idles
<1>2. Rows'
  BY Puts DEF Still, Earning, Rows
<1>3. ASSUME NEW p \in Purposes, NEW a \in Accounts
      PROVE  /\ redis'[<<p, a>>] \in {redis[<<p, a>>], Absent}
             /\ memory'[<<p, a>>] \in {memory[<<p, a>>], Absent}
  <2>1. <<p, a>> \in Keys /\ <<p, a>> \in Purposes \X Accounts
    BY KeyInUse
  <2>2. CASE k = <<p, a>>
    BY <2>1, <2>2, Puts
  <2>3. CASE k # <<p, a>>
    BY <2>1, <2>3, Puts
  <2> QED BY <2>2, <2>3
<1>4. Held'
  BY <1>1, <1>2, <1>3, HeldLasts
<1> QED BY <1>1, <1>2, <1>4, Moved

(* The code a client shows is the one the store holds, and it was sent.    *)
LEMMA Shown ==
  ASSUME Earning, NEW p \in Purposes, NEW a \in Accounts, Get(Key(p, a)) # Absent
  PROVE  /\ Sound(Get(Key(p, a)), p, a)
         /\ \A m \in inbox : Matches(m, p, a) /\ p # "grant" => Delivered(a, p, Get(Key(p, a)).n)
<1>1. Sound(Get(Key(p, a)), p, a)
  BY DEF Earning, Held, Get, Key
<1>2. ASSUME NEW m \in inbox, Matches(m, p, a), p # "grant"
      PROVE  Delivered(a, p, Get(Key(p, a)).n)
  <2>1. made[m.n] = [on |-> m.on, for |-> m.for] /\ Get(Key(p, a)).n = m.n
    BY <1>2 DEF Earning, Vouched, Numbered, Matches
  <2>2. made[m.n] = [on |-> a, for |-> p]
    BY <1>1, <1>2, <2>1 DEF Sound, Numbered, For
  <2> QED BY <2>1, <2>2 DEF Delivered
<1> QED BY <1>1, <1>2

LEMMA Numbers ==
  ASSUME NEW v, NEW p, NEW a, Sound(v, p, a)
  PROVE  v.n \in Nat /\ v.n \in 1..Len(made)
BY DEF Sound, Entries, Numbered

-----------------------------------------------------------------------------
LEMMA Readers ==
  ASSUME Earning, NEW m \in inbox
  PROVE  m.on \in Owners
<1>1. m.n \in 1..Len(made) /\ made[m.n] = [on |-> m.on, for |-> m.for]
  BY DEF Earning, Vouched, Numbered
<1>2. made \in Seq(Issued)
  BY DEF Earning, Rows
<1>3. made[m.n] \in Issued
  BY <1>1, <1>2
<1>4. made[m.n].on \in Owners
  BY <1>3 DEF Issued
<1> QED BY <1>1, <1>4

(* Handlers that have read and will write.                                 *)
LEMMA SignsIn ==
  ASSUME Earning, NEW r \in Requests,
         \/ \E a \in Accounts : Login(r, a) \/ VerifyTwoFactor(r, a) \/ RefreshTokens(r, a)
                              \/ SetAdminPassword(r, a) \/ DeleteAccount(r, a)
         \/ \E a \in Accounts, via \in {"direct", "redirect"} : SocialLogin(r, a, via)
         \/ \E m \in inbox : Exchange(r, m) \/ \E a \in Accounts : SelectAccount(r, m, a)
  PROVE  Earning'
<1>1. Still /\ UNCHANGED stores
  BY DEF Login, VerifyTwoFactor, RefreshTokens, SetAdminPassword, DeleteAccount, SocialLogin,
         Exchange, SelectAccount, Still, rows, trail
<1>2. \E at \in Careless, on \in Owners : \E by, saw : Begin(r, at, on, by, saw)
  <2>1. ASSUME NEW a \in Accounts, Login(r, a) \/ VerifyTwoFactor(r, a) \/ RefreshTokens(r, a)
                              \/ SetAdminPassword(r, a) \/ DeleteAccount(r, a)
        PROVE  \E at \in Careless, on \in Owners : \E by, saw : Begin(r, at, on, by, saw)
    BY <2>1 DEF Login, VerifyTwoFactor, RefreshTokens, SetAdminPassword, DeleteAccount,
                StartSession, Careless, Owners
  <2>2. ASSUME NEW a \in Accounts, NEW via, SocialLogin(r, a, via)
        PROVE  \E at \in Careless, on \in Owners : \E by, saw : Begin(r, at, on, by, saw)
    BY <2>2 DEF SocialLogin, StartSession, Careless, Owners
  <2>3. ASSUME NEW m \in inbox, Exchange(r, m) \/ \E a \in Accounts : SelectAccount(r, m, a)
        PROVE  \E at \in Careless, on \in Owners : \E by, saw : Begin(r, at, on, by, saw)
    BY <2>3, Readers DEF Exchange, SelectAccount, Careless, Owners
  <2> QED BY <2>1, <2>2, <2>3
<1>3. PICK at \in Careless, on \in Owners : \E by, saw : Begin(r, at, on, by, saw)
  BY <1>2
<1>4. PICK by, saw : Begin(r, at, on, by, saw)
  BY <1>3
<1>5. Slotted' /\ Alone(r) /\ req'[r] = [at |-> at, on |-> on, by |-> by, saw |-> saw]
  BY <1>4, Begins DEF Earning
<1>6. req'[r].at \in Careless
  BY <1>5
<1> QED BY <1>1, <1>5, <1>6, Unpromised, Harmless

LEMMA Asks ==
  ASSUME Earning, NEW r \in Requests, NEW a \in Accounts,
         Register(r, a) \/ \E p \in Purposes : RequestCode(r, a, p)
  PROVE  Earning'
<1>1. Still /\ UNCHANGED stores
  BY DEF Register, RequestCode, Still, rows, trail
<1>2. \E at \in {"code.store", "welcome.store"}, p \in Purposes \ {"grant", "setup"} :
        Begin(r, at, a, p, None)
  <2>1. Channels \subseteq {"email", "phone"} /\ "email" \in Channels
    BY SessionAssumption
  <2> QED BY <2>1 DEF Register, RequestCode, Purposes
<1>3. PICK at \in {"code.store", "welcome.store"}, p \in Purposes \ {"grant", "setup"} :
        Begin(r, at, a, p, None)
  BY <1>2
<1>4. Slotted' /\ Alone(r) /\ req'[r] = [at |-> at, on |-> a, by |-> p, saw |-> None]
  BY <1>3, Begins DEF Earning, Owners
<1>5. Promise(r)'
  BY <1>4 DEF Promise
<1> QED BY <1>1, <1>4, <1>5, Harmless

LEMMA Earns ==
  ASSUME Earning, NEW r \in Requests, NEW m \in inbox, NEW a \in Accounts,
         ResetPassword(r, m, a) \/ \E p \in Channels \cup {"setup"} : Confirm(r, m, a, p)
  PROVE  Earning'
<1>1. Still /\ UNCHANGED stores
  BY DEF ResetPassword, Confirm, Still, rows, trail
<1>2. CASE ResetPassword(r, m, a)
  <2>1. PICK v : v = Get(Key("reset", a))
    OBVIOUS
  <2>2. Delivered(a, "reset", v.n) /\ v.n \in Nat /\ Begin(r, "password.write", a, "reset", v)
    BY <1>2, <2>1, Shown, Numbers DEF ResetPassword, Matches, Purposes
  <2>3. Slotted' /\ Alone(r) /\ req'[r] = [at |-> "password.write", on |-> a, by |-> "reset", saw |-> v]
    BY <2>2, Begins DEF Earning, Owners
  <2>4. Delivered(a, "reset", v.n)'
    BY <1>1, <2>2 DEF Still, Delivered
  <2>5. Promise(r)'
    BY <2>2, <2>3, <2>4 DEF Promise
  <2> QED BY <1>1, <2>3, <2>5, Harmless
<1>3. ASSUME NEW p \in Channels \cup {"setup"}, Confirm(r, m, a, p) PROVE Earning'
  <2>1. PICK v : v = Get(Key(p, a))
    OBVIOUS
  <2>2. p \in Purposes /\ p # "grant"
    BY SessionAssumption DEF Purposes
  <2>3. Delivered(a, p, v.n) /\ v.n \in 1..Len(made) /\ Begin(r, "confirm.write", a, p, v)
    BY <1>3, <2>1, <2>2, Shown, Numbers DEF Confirm, Matches
  <2>4. Slotted' /\ Alone(r) /\ req'[r] = [at |-> "confirm.write", on |-> a, by |-> p, saw |-> v]
    BY <2>3, Begins DEF Earning, Owners
  <2>5. Delivered(a, p, v.n)' /\ v.n \in 1..Len(made')
    BY <1>1, <2>3 DEF Still, Delivered
  <2>6. Promise(r)'
    BY <2>4, <2>5 DEF Promise
  <2> QED BY <1>1, <2>4, <2>6, Harmless
<1> QED BY <1>2, <1>3

(* Administrators: a change by code, which a guess does not advance, and   *)
(* the password set on the grant.                                          *)
LEMMA Changes ==
  ASSUME Earning, NEW r \in Requests, NEW m \in inbox, NEW a \in Accounts,
         VerifyChangeCode(r, m, a)
  PROVE  Earning'
<1>1. Still /\ UNCHANGED stores
  BY DEF VerifyChangeCode, Still, rows, trail
<1>2. PICK v : v = Get(Key("change", a))
  OBVIOUS
<1>3. PICK at \in {"change.delete", "change.count"} :
        /\ Begin(r, at, a, "change", v)
        /\ at = "change.delete" => Matches(m, "change", a)
  BY <1>2 DEF VerifyChangeCode
<1>4. Sound(v, "change", a) /\ (at = "change.delete" => Delivered(a, "change", v.n))
  BY <1>2, <1>3, Shown DEF VerifyChangeCode, Purposes
<1>5. Slotted' /\ Alone(r) /\ req'[r] = [at |-> at, on |-> a, by |-> "change", saw |-> v]
  BY <1>3, Begins DEF Earning, Owners
<1>6. Sound(v, "change", a)' /\ (at = "change.delete" => Delivered(a, "change", v.n)')
  BY <1>1, <1>4 DEF Still, Sound, Numbered, Delivered
<1>7. Promise(r)'
  BY <1>5, <1>6 DEF Promise
<1> QED BY <1>1, <1>5, <1>7, Harmless

LEMMA Renews ==
  ASSUME Earning, NEW r \in Requests, NEW a \in Accounts, SetPasswordAfterCode(r, a)
  PROVE  Earning'
<1>1. Still /\ UNCHANGED stores
  BY DEF SetPasswordAfterCode, Still, rows, trail
<1>2. PICK v : v = Get(Key("grant", a))
  OBVIOUS
<1>3. Begin(r, "password.write", a, "grant", v)
  BY <1>2 DEF SetPasswordAfterCode
<1>4. Sound(v, "grant", a) /\ v.n \in Nat
  BY <1>2, Shown, Numbers DEF SetPasswordAfterCode, Purposes
<1>5. Slotted' /\ Alone(r) /\ req'[r] = [at |-> "password.write", on |-> a, by |-> "grant", saw |-> v]
  BY <1>3, Begins DEF Earning, Owners
<1>6. Delivered(a, "change", v.n)'
  BY <1>1, <1>4 DEF Still, Sound, Delivered
<1>7. Promise(r)'
  BY <1>4, <1>5, <1>6 DEF Promise
<1> QED BY <1>1, <1>5, <1>7, Harmless

-----------------------------------------------------------------------------
(* Handlers that go on, or end, or await once.                             *)
LEMMA Passes ==
  ASSUME Earning, NEW r \in Requests,
         ReadSelected(r) \/ StopSession(r) \/ \E a \in Accounts : Suspend(r, a) \/ Unsuspend(r, a)
  PROVE  Earning'
<1>1. Still /\ UNCHANGED stores
  BY DEF ReadSelected, StopSession, Suspend, Unsuspend, Still, rows, trail
<1>2. CASE ReadSelected(r)
  <2>1. PICK v : Carry(r, "issue", v)
    BY <1>2 DEF ReadSelected
  <2>2. Slotted' /\ Alone(r) /\ req'[r] = [at |-> "issue", on |-> req[r].on, by |-> req[r].by, saw |-> v]
    BY <2>1, Carries DEF Earning
  <2>3. req'[r].at \in Careless
    BY <2>2 DEF Careless
  <2> QED BY <1>1, <2>2, <2>3, Unpromised, Harmless
<1>3. CASE StopSession(r)
  <2>1. End(r) \/ Die(r)
    BY <1>3 DEF StopSession
  <2> QED BY <1>1, <2>1, Ends, Harmless DEF Earning
<1>4. ASSUME NEW a \in Accounts, Suspend(r, a) \/ Unsuspend(r, a) PROVE Earning'
  <2>1. Once(r)
    BY <1>4 DEF Suspend, Unsuspend
  <2> QED BY <1>1, <2>1, Stays, Harmless
<1> QED BY <1>2, <1>3, <1>4

(* Sessions are stored and keys removed.                                   *)
LEMMA Clears ==
  ASSUME Earning, NEW r \in Requests,
         \/ IssueTokens(r) \/ DeleteSelection(r) \/ DeleteExchange(r)
         \/ DeleteCode(r) \/ DeleteSession(r)
         \/ \E a \in Accounts : Logout(r, a) \/ VerifyExhausted(r, a)
  PROVE  Earning'
<1>1. Still
  BY DEF IssueTokens, DeleteSelection, DeleteExchange, DeleteCode, DeleteSession, Logout,
         VerifyExhausted, Still, rows, trail
<1>2. \E k, v : Put(k, v) /\ (k \in Purposes \X Accounts => v = Absent)
  <2>1. ASSUME NEW k, Del(k) PROVE \E q, v : Put(q, v) /\ (q \in Purposes \X Accounts => v = Absent)
    BY <2>1 DEF Del
  <2>2. CASE IssueTokens(r)
    <3>1. Refresh(req[r].on) \notin Purposes \X Accounts
      BY SessionAssumption DEF Refresh, Purposes
    <3>2. Put(Refresh(req[r].on), req[r].saw)
      BY <2>2 DEF IssueTokens
    <3> QED BY <3>1, <3>2
  <2>3. CASE ~IssueTokens(r)
    BY <2>1, <2>3 DEF DeleteSelection, DeleteExchange, DeleteCode, DeleteSession, Logout,
         VerifyExhausted
  <2> QED BY <2>2, <2>3
<1>3. Slotted' /\ Alone(r) /\ Promise(r)'
  <2>1. CASE \E at \in Careless : Goto(r, at)
    <3>1. PICK at \in Careless : Goto(r, at)
      BY <2>1
    <3>2. Slotted' /\ Alone(r) /\ req'[r] = [at |-> at, on |-> req[r].on, by |-> req[r].by, saw |-> req[r].saw]
      BY <3>1, Goes DEF Earning
    <3>3. req'[r].at \in Careless
      BY <3>2
    <3> QED BY <3>2, <3>3, Unpromised
  <2>2. CASE \E v : Carry(r, "issue", v)
    <3>1. PICK v : Carry(r, "issue", v)
      BY <2>2
    <3>2. Slotted' /\ Alone(r) /\ req'[r] = [at |-> "issue", on |-> req[r].on, by |-> req[r].by, saw |-> v]
      BY <3>1, Carries DEF Earning
    <3>3. req'[r].at \in Careless
      BY <3>2 DEF Careless
    <3> QED BY <3>2, <3>3, Unpromised
  <2>3. CASE End(r)
    BY <2>3, Ends DEF Earning
  <2>4. CASE Once(r)
    BY <2>4, Stays
  <2>5. (\E at \in Careless : Goto(r, at)) \/ (\E v : Carry(r, "issue", v)) \/ End(r) \/ Once(r)
    BY DEF IssueTokens, DeleteSelection, DeleteExchange, DeleteCode, DeleteSession, Logout,
           VerifyExhausted, Careless
  <2> QED BY <2>1, <2>2, <2>3, <2>4, <2>5
<1>4. PICK k, v : Put(k, v) /\ (k \in Purposes \X Accounts => v = Absent)
  BY <1>2
<1> QED BY <1>1, <1>3, <1>4, Drops

(* The change's code is taken back before it is granted.                   *)
LEMMA Takes ==
  ASSUME Earning, NEW r \in Requests, DeleteChangeCode(r)
  PROVE  Earning'
<1>1. Still
  BY DEF DeleteChangeCode, Still, rows, trail
<1>2. Slotted' /\ Alone(r)
      /\ req'[r] = [at |-> "change.grant", on |-> req[r].on, by |-> req[r].by, saw |-> req[r].saw]
  BY Goes DEF DeleteChangeCode, Earning
<1>3. /\ req[r].on \in Accounts /\ Sound(req[r].saw, "change", req[r].on)
      /\ Delivered(req[r].on, "change", req[r].saw.n)
  BY DEF DeleteChangeCode, Earning, Promise
<1>4. PICK x : x = req[r]
  OBVIOUS
<1>5. Sound(x.saw, "change", x.on)' /\ Delivered(x.on, "change", x.saw.n)'
  BY <1>1, <1>3, <1>4 DEF Still, Sound, Numbered, Delivered
<1>6. Promise(r)'
  BY <1>2, <1>3, <1>4, <1>5 DEF Promise
<1>7. PICK k : Put(k, Absent)
  BY DEF DeleteChangeCode, Del
<1> QED BY <1>1, <1>2, <1>6, <1>7, Drops

-----------------------------------------------------------------------------
(* A code is made: the list is one longer.                                 *)
LEMMA Makes ==
  ASSUME Earning, NEW a \in Owners, NEW p \in Reasons, Make(a, p)
  PROVE  /\ made' \in Seq(Issued) /\ Len(made') = Len(made) + 1
         /\ made'[Len(made')] = [on |-> a, for |-> p]
         /\ \A n \in 1..Len(made) : made'[n] = made[n]
<1>1. made \in Seq(Issued) /\ [on |-> a, for |-> p] \in Issued
  BY DEF Earning, Rows, Issued
<1>2. made' = Append(made, [on |-> a, for |-> p])
  BY DEF Make
<1> QED BY <1>1, <1>2

(* Letters sent before stay vouched for, and the new one is.               *)
LEMMA Posts ==
  ASSUME Earning, Rows', Len(made) <= Len(made'), \A n \in 1..Len(made) : made'[n] = made[n],
         NEW a, NEW p, NEW n,
         \/ inbox' = inbox
         \/ inbox' = inbox \cup {[on |-> a, for |-> p, n |-> n]} /\ Numbered(n, a, p)'
  PROVE  Grows /\ Vouched'
<1>1. Grows
  BY DEF Grows
<1>2. ASSUME NEW m \in inbox' PROVE Numbered(m.n, m.on, m.for)'
  <2>1. CASE m \in inbox
    <3>1. Numbered(m.n, m.on, m.for)
      BY <2>1 DEF Earning, Vouched
    <3> QED BY <1>1, <3>1, Lasting DEF Earning
  <2>2. CASE m \notin inbox
    BY <2>2
  <2> QED BY <2>1, <2>2
<1> QED BY <1>1, <1>2 DEF Vouched

(* Nothing is earned by making or sending a code.                          *)
LEMMA Unearned ==
  ASSUME Earning, Rows', Grows, UNCHANGED <<authority, twoFactor, verified>>
  PROVE  EarnedByCode'
<1>1. Len(made) \in Nat /\ Len(made') \in Nat /\ 1..Len(made) \subseteq 1..Len(made')
  BY Lengths DEF Rows, Grows
<1> QED BY <1>1 DEF Earning, EarnedByCode, Delivered, Grows

(* The stores, when the code written is one made for the key.              *)
LEMMA Holds ==
  ASSUME Earning, Rows', Grows, NEW k, NEW v, Put(k, v),
         \A p \in Purposes, a \in Accounts : k = <<p, a>> => Sound(v, p, a)'
  PROVE  Held'
<1> SUFFICES ASSUME NEW p \in Purposes, NEW a \in Accounts
             PROVE  /\ redis'[<<p, a>>] # Absent => Sound(redis[<<p, a>>], p, a)'
                    /\ memory'[<<p, a>>] # Absent => Sound(memory[<<p, a>>], p, a)'
  BY DEF Held
<1>1. ASSUME NEW w, Sound(w, p, a) \/ Sound(w, p, a)'
      PROVE  /\ w \in Entries /\ w.n \in 1..Len(made')
             /\ made'[w.n] = [on |-> a, for |-> For(p)]
             /\ p = "grant" => \E m \in inbox' : m.on = a /\ m.for = "change" /\ m.n = w.n
  <2>1. Sound(w, p, a)'
    BY <1>1, SoundLasts DEF Earning
  <2> QED BY <2>1 DEF Sound, Numbered, Delivered
<1>2. <<p, a>> \in Keys
  BY KeyInUse
<1>3. redis'[<<p, a>>] # Absent =>
        \E w : redis'[<<p, a>>] = w /\ (Sound(w, p, a) \/ Sound(w, p, a)')
  <2>1. CASE k = <<p, a>>
    BY <1>2, <2>1, Puts DEF Earning, Held
  <2>2. CASE k # <<p, a>>
    BY <1>2, <2>2, Puts DEF Earning, Held
  <2> QED BY <2>1, <2>2
<1>4. memory'[<<p, a>>] # Absent =>
        \E w : memory'[<<p, a>>] = w /\ (Sound(w, p, a) \/ Sound(w, p, a)')
  <2>1. CASE k = <<p, a>>
    BY <1>2, <2>1, Puts DEF Earning, Held
  <2>2. CASE k # <<p, a>>
    BY <1>2, <2>2, Puts DEF Earning, Held
  <2> QED BY <2>1, <2>2
<1> QED BY <1>1, <1>3, <1>4 DEF Sound, Numbered, Delivered

(* A code made and stored in one step, over the last one for its key.      *)
LEMMA Stores ==
  ASSUME Earning, NEW r \in Requests, NEW k, NEW v, NEW a \in Owners, NEW p \in Reasons, NEW n,
         Make(a, p), n = Len(made'), Put(k, v), UNCHANGED <<authority, twoFactor, verified>>,
         k \in Purposes \X Accounts => k = <<p, a>> /\ p # "grant" /\ v = Entry(a, n, 0),
         \/ inbox' = inbox
         \/ inbox' = inbox \cup {[on |-> a, for |-> p, n |-> n]},
         Slotted', Alone(r), Numbered(n, a, p)' => Promise(r)'
  PROVE  Earning'
<1>1. Rows'
  BY Makes, Puts DEF Earning, Rows
<1>2. Len(made) \in Nat /\ Len(made) <= Len(made') /\ n \in Nat
      /\ \A i \in 1..Len(made) : made'[i] = made[i]
  <2>1. Len(made) \in Nat
    BY Lengths DEF Earning
  <2>2. Len(made') = Len(made) + 1 /\ \A i \in 1..Len(made) : made'[i] = made[i]
    BY Makes
  <2> QED BY <2>1, <2>2
<1>3. Numbered(n, a, p)'
  BY Makes, <1>2 DEF Numbered
<1>4. Grows /\ Vouched'
  BY <1>1, <1>2, <1>3, Posts
<1>5. ASSUME NEW q \in Purposes, NEW b \in Accounts, k = <<q, b>> PROVE Sound(v, q, b)'
  <2>1. q = p /\ b = a /\ p # "grant" /\ v = Entry(a, n, 0)
    BY <1>5
  <2>2. v \in Entries /\ v.n = n
    BY <1>2, <2>1 DEF Entry, Entries
  <2>3. Numbered(n, a, p)' /\ For(q) = p
    BY <1>3, <2>1 DEF For
  <2> QED BY <2>1, <2>2, <2>3 DEF Sound, Numbered
<1>6. Held'
  BY <1>1, <1>4, <1>5, Holds
<1>7. EarnedByCode'
  BY <1>1, <1>4, Unearned
<1> QED BY <1>1, <1>3, <1>4, <1>6, <1>7, Moved

LEMMA MakesCodes ==
  ASSUME Earning, NEW r \in Requests,
         StoreCode(r) \/ StoreExchange(r) \/ (\E a \in Accounts : SetupTwoFactor(r, a))
         \/ \E t \in Twins : OfferSelection(r, t)
  PROVE  Earning'
<1>1. UNCHANGED <<authority, twoFactor, verified>>
  BY DEF StoreCode, StoreExchange, SetupTwoFactor, OfferSelection, rows, trail
<1>2. PICK n : n = Len(made')
  OBVIOUS
<1>3. CASE StoreCode(r)
  <2>1. PICK x : x = req[r]
    OBVIOUS
  <2>2. x.on \in Accounts /\ x.by \in Purposes \ {"grant", "setup"}
    BY <1>3, <2>1 DEF StoreCode, Earning, Promise
  <2>3. PICK v : v = Entry(x.on, n, 0)
    OBVIOUS
  <2>4. Make(x.on, x.by) /\ Put(<<x.by, x.on>>, v) /\ inbox' = inbox
    BY <1>2, <1>3, <2>1, <2>3 DEF StoreCode, Key
  <2>5. PICK at \in {"code.send", "welcome.send"} : Carry(r, at, n)
    BY <1>2, <1>3 DEF StoreCode
  <2>6. Slotted' /\ Alone(r) /\ req'[r] = [at |-> at, on |-> x.on, by |-> x.by, saw |-> n]
    BY <2>1, <2>5, Carries DEF Earning
  <2>7. Numbered(n, x.on, x.by)' => Promise(r)'
    BY <2>2, <2>6 DEF Promise
  <2> QED BY <1>1, <1>2, <2>2, <2>3, <2>4, <2>6, <2>7, Stores DEF Owners, Reasons
<1>4. CASE StoreExchange(r)
  <2>1. PICK k, v : k = <<"exchange", n>> /\ v = req[r].saw
    OBVIOUS
  <2>2. Make(req[r].on, "exchange") /\ Put(k, v)
        /\ inbox' = inbox \cup {[on |-> req[r].on, for |-> "exchange", n |-> n]}
    BY <1>2, <1>4, <2>1 DEF StoreExchange, Deliver
  <2>3. PICK a \in Owners : a = req[r].on
    BY DEF Earning, Slotted, Shaped
  <2>4. k \notin Purposes \X Accounts
    BY <2>1, SessionAssumption DEF Purposes
  <2>5. Slotted' /\ Alone(r) /\ Promise(r)'
    BY <1>4, Ends DEF StoreExchange, Earning
  <2> QED BY <1>1, <1>2, <2>2, <2>3, <2>4, <2>5, Stores DEF Reasons
<1>5. ASSUME NEW a \in Accounts, SetupTwoFactor(r, a) PROVE Earning'
  <2>1. PICK v : v = Entry(a, n, 0)
    OBVIOUS
  <2>2. Make(a, "setup") /\ Put(<<"setup", a>>, v)
        /\ inbox' = inbox \cup {[on |-> a, for |-> "setup", n |-> n]}
    BY <1>2, <1>5, <2>1 DEF SetupTwoFactor, Deliver, Key
  <2>3. Slotted' /\ Alone(r) /\ Promise(r)'
    BY <1>5, Stays DEF SetupTwoFactor
  <2> QED BY <1>1, <1>2, <2>1, <2>2, <2>3, Stores DEF Owners, Reasons, Purposes
<1>6. ASSUME NEW t \in Twins, OfferSelection(r, t) PROVE Earning'
  <2>1. PICK k, v : k = <<"selection", n>> /\ v = Entry(t[1], n, 0)
    OBVIOUS
  <2>2. Make(t[1], "selection") /\ Put(k, v)
        /\ inbox' = inbox \cup {[on |-> t[1], for |-> "selection", n |-> n]}
    BY <1>2, <1>6, <2>1 DEF OfferSelection, Deliver
  <2>3. t[1] \in Owners
    BY SessionAssumption DEF Owners, Accounts
  <2>4. k \notin Purposes \X Accounts
    BY <2>1, SessionAssumption DEF Purposes
  <2>5. Slotted' /\ Alone(r) /\ Promise(r)'
    BY <1>6, Stays DEF OfferSelection
  <2> QED BY <1>1, <1>2, <2>2, <2>3, <2>4, <2>5, Stores DEF Reasons
<1> QED BY <1>3, <1>4, <1>5, <1>6

(* Letters carry codes that were made for their readers.                   *)
LEMMA SendsCodes ==
  ASSUME Earning, NEW r \in Requests, SendCode(r) \/ SendWelcome(r)
  PROVE  Earning'
<1>1. UNCHANGED <<made, authority, twoFactor, verified>> /\ UNCHANGED stores
  BY DEF SendCode, SendWelcome, rows, trail
<1>2. PICK x : x = req[r]
  OBVIOUS
<1>3. Numbered(x.saw, x.on, x.by)'
  BY <1>1, <1>2 DEF SendCode, SendWelcome, Earning, Promise, Numbered
<1>4. inbox' = inbox \/ inbox' = inbox \cup {[on |-> x.on, for |-> x.by, n |-> x.saw]}
  BY <1>2 DEF SendCode, SendWelcome, Deliver
<1>5. Rows'
  BY <1>1 DEF Earning, Rows, stores
<1>6. Grows /\ Vouched'
  <2>1. Len(made) <= Len(made') /\ \A n \in 1..Len(made) : made'[n] = made[n]
    BY <1>1, Lengths DEF Earning
  <2> QED BY <1>3, <1>4, <1>5, <2>1, Posts
<1>7. EarnedByCode'
  BY <1>1, <1>5, <1>6, Unearned
<1>8. Held'
  BY <1>1, <1>5, <1>6, HeldLasts DEF stores
<1>9. Slotted' /\ Alone(r) /\ Promise(r)'
  <2>1. CASE SendCode(r)
    BY <2>1, Ends DEF SendCode, Earning
  <2>2. CASE SendWelcome(r)
    <3>1. PICK v : Carry(r, "issue", v)
      BY <2>2 DEF SendWelcome
    <3>2. Slotted' /\ Alone(r) /\ req'[r] = [at |-> "issue", on |-> req[r].on, by |-> req[r].by, saw |-> v]
      BY <3>1, Carries DEF Earning
    <3>3. req'[r].at \in Careless
      BY <3>2 DEF Careless
    <3> QED BY <3>2, <3>3, Unpromised
  <2> QED BY <2>1, <2>2
<1> QED BY <1>5, <1>6, <1>7, <1>8, <1>9, Moved

(* A guess is counted in the code it was made against, and a grant is of   *)
(* the code that was shown.                                                *)
LEMMA Rewrites ==
  ASSUME Earning, NEW r \in Requests, CountAttempt(r) \/ Grant(r)
  PROVE  Earning'
<1>1. Still
  BY DEF CountAttempt, Grant, Still, rows, trail
<1>2. Grows /\ Vouched' /\ EarnedByCode'
  BY <1>1, Idles
<1>3. PICK x : x = req[r]
  OBVIOUS
<1>4. x.on \in Accounts /\ Sound(x.saw, "change", x.on)
      /\ (Grant(r) => Delivered(x.on, "change", x.saw.n))
  BY <1>3 DEF CountAttempt, Grant, Earning, Promise
<1>5. \E p \in {"change", "grant"} : \E v : Put(<<p, x.on>>, v) /\ Sound(v, p, x.on)
  <2>1. CASE CountAttempt(r)
    <3>1. PICK v : v = [x.saw EXCEPT !.tries = @ + 1]
      OBVIOUS
    <3>2. x.saw \in Entries
      BY <1>4 DEF Sound
    <3>3. v \in Entries /\ v.n = x.saw.n
      BY <3>1, <3>2 DEF Entries
    <3>4. Sound(v, "change", x.on)
      BY <1>4, <3>3 DEF Sound
    <3> QED BY <1>3, <2>1, <3>1, <3>4 DEF CountAttempt, Key
  <2>2. CASE Grant(r)
    <3>1. Sound(x.saw, "grant", x.on)
      BY <1>4, <2>2 DEF Sound, For
    <3> QED BY <1>3, <2>2, <3>1 DEF Grant, Key
  <2> QED BY <2>1, <2>2
<1>6. PICK p \in {"change", "grant"} : \E v : Put(<<p, x.on>>, v) /\ Sound(v, p, x.on)
  BY <1>5
<1>7. PICK v : Put(<<p, x.on>>, v) /\ Sound(v, p, x.on)
  BY <1>6
<1>8. Rows'
  BY <1>1, <1>7, Puts DEF Still, Earning, Rows
<1>9. Sound(v, p, x.on)'
  BY <1>2, <1>7, <1>8, SoundLasts DEF Earning
<1>10. Held'
  BY <1>2, <1>7, <1>8, <1>9, Holds
<1>11. Slotted' /\ Alone(r) /\ Promise(r)'
  BY Ends DEF CountAttempt, Grant, Earning
<1> QED BY <1>2, <1>8, <1>10, <1>11, Moved

-----------------------------------------------------------------------------
(* What codes bring about: the code behind it has been delivered.          *)
LEMMA Effects ==
  ASSUME Earning, NEW r \in Requests,
         WriteConfirmed(r) \/ WritePassword(r) \/ WriteFirstPassword(r) \/ Scrub(r)
  PROVE  Earning'
<1>1. UNCHANGED <<made, inbox>> /\ UNCHANGED stores
  BY DEF WriteConfirmed, WritePassword, WriteFirstPassword, Scrub, trail
<1>2. PICK x : x = req[r]
  OBVIOUS
<1>3. authority \in [Accounts -> Nat] /\ twoFactor \in [Accounts -> Nat]
  BY DEF Earning, Rows
<1>4. ASSUME NEW a, NEW p, NEW n, Delivered(a, p, n) PROVE Delivered(a, p, n)'
  BY <1>1, <1>4 DEF Delivered
<1>5. /\ authority' \in [Accounts -> Nat] /\ twoFactor' \in [Accounts -> Nat]
      /\ \A a \in Accounts : authority'[a] # 0 =>
           Delivered(a, "reset", authority'[a]) \/ Delivered(a, "change", authority'[a])
      /\ \A a \in Accounts : twoFactor'[a] # 0 => Delivered(a, "setup", twoFactor'[a])
      /\ \A v \in verified' : \E n \in 1..Len(made) : Delivered(v[1], v[2], n)
  <2>1. CASE WriteConfirmed(r)
    <3>1. x.on \in Accounts /\ x.by \in Channels \cup {"setup"} /\ x.saw.n \in 1..Len(made)
          /\ Delivered(x.on, x.by, x.saw.n)
      BY <1>2, <2>1 DEF WriteConfirmed, Earning, Promise
    <3>2. authority' = authority
      BY <2>1 DEF WriteConfirmed
    <3>3. CASE x.by = "setup"
      <4>1. twoFactor' = [twoFactor EXCEPT ![x.on] = x.saw.n] /\ verified' = verified
        BY <1>2, <2>1, <3>3 DEF WriteConfirmed
      <4> QED BY <1>3, <3>1, <3>2, <3>3, <4>1, Lengths DEF Earning, EarnedByCode
    <3>4. CASE x.by # "setup"
      <4>1. verified' = verified \cup {<<x.on, x.by>>} /\ twoFactor' = twoFactor
        BY <1>2, <2>1, <3>4 DEF WriteConfirmed
      <4>2. \A v \in verified' : \E n \in 1..Len(made) : Delivered(v[1], v[2], n)
        BY <3>1, <4>1 DEF Earning, EarnedByCode
      <4> QED BY <1>3, <3>2, <4>1, <4>2 DEF Earning, EarnedByCode
    <3> QED BY <3>3, <3>4
  <2>2. CASE WritePassword(r)
    <3>1. x.on \in Accounts /\ x.saw.n \in Nat
          /\ (Delivered(x.on, "reset", x.saw.n) \/ Delivered(x.on, "change", x.saw.n))
      BY <1>2, <2>2 DEF WritePassword, Earning, Promise
    <3>2. authority' = [authority EXCEPT ![x.on] = x.saw.n]
          /\ twoFactor' = twoFactor /\ verified' = verified
      BY <1>2, <2>2 DEF WritePassword
    <3> QED BY <1>3, <3>1, <3>2 DEF Earning, EarnedByCode
  <2>3. CASE WriteFirstPassword(r)
    <3>1. authority' = [authority EXCEPT ![x.on] = 0]
          /\ twoFactor' = twoFactor /\ verified' = verified
      BY <1>2, <2>3 DEF WriteFirstPassword
    <3> QED BY <1>3, <3>1 DEF Earning, EarnedByCode
  <2>4. CASE Scrub(r)
    <3>1. twoFactor' = [twoFactor EXCEPT ![x.on] = 0]
          /\ authority' = authority /\ verified' = verified
      BY <1>2, <2>4 DEF Scrub, trail
    <3> QED BY <1>3, <3>1 DEF Earning, EarnedByCode
  <2> QED BY <2>1, <2>2, <2>3, <2>4
<1>6. EarnedByCode'
  BY <1>1, <1>5 DEF EarnedByCode, Delivered
<1>7. Rows'
  BY <1>1, <1>5 DEF Earning, Rows, stores
<1>8. Grows /\ Vouched'
  <2>1. Grows
    BY <1>1, Lengths DEF Grows, Earning
  <2> QED BY <1>1, <2>1 DEF Earning, Vouched, Numbered
<1>9. Held'
  BY <1>1, <1>7, <1>8, HeldLasts DEF stores
<1>10. Slotted' /\ Alone(r) /\ Promise(r)'
  <2>1. CASE WriteFirstPassword(r)
    <3>1. PICK v : Carry(r, "issue", v)
      BY <2>1 DEF WriteFirstPassword
    <3>2. Slotted' /\ Alone(r) /\ req'[r] = [at |-> "issue", on |-> req[r].on, by |-> req[r].by, saw |-> v]
      BY <3>1, Carries DEF Earning
    <3>3. req'[r].at \in Careless
      BY <3>2 DEF Careless
    <3> QED BY <3>2, <3>3, Unpromised
  <2>2. CASE ~WriteFirstPassword(r)
    <3>1. PICK at \in {"code.delete", "session.delete"} : Goto(r, at)
      BY <2>2 DEF WriteConfirmed, WritePassword, Scrub
    <3>2. Slotted' /\ Alone(r) /\ req'[r] = [at |-> at, on |-> req[r].on, by |-> req[r].by, saw |-> req[r].saw]
      BY <3>1, Goes DEF Earning
    <3>3. req'[r].at \in Careless
      BY <3>2 DEF Careless
    <3> QED BY <3>2, <3>3, Unpromised
  <2> QED BY <2>1, <2>2
<1> QED BY <1>6, <1>7, <1>8, <1>9, <1>10, Moved

(* Nothing to do with a request: the connection, time, and a restart.      *)
LEMMA Around ==
  ASSUME Earning, Still, Slotted', \A q \in Requests : req'[q] = req[q] \/ Promise(q)',
         redis' = [k \in Keys |-> redis'[k]], memory' = [k \in Keys |-> memory'[k]],
         \A k \in Keys : redis'[k] \in {redis[k], Absent} /\ memory'[k] \in {memory[k], Absent}
  PROVE  Earning'
<1>1. Grows /\ Vouched' /\ EarnedByCode'
  BY Idles
<1>2. Rows'
  BY DEF Still, Earning, Rows
<1>3. Held'
  BY <1>1, <1>2, KeyInUse, HeldLasts
<1>4. ASSUME NEW q \in Requests PROVE Promise(q)'
  BY <1>1, <1>2, PromiseLasts DEF Earning
<1> QED BY <1>1, <1>2, <1>3, <1>4 DEF Earning

LEMMA Surroundings ==
  ASSUME Earning,
         StoreChanges \/ (\E k \in SessionKeys : Expire(k)) \/ Restart \/ UNCHANGED sessionVars
         \/ (Rest /\ UNCHANGED <<rows, made, inbox, trail, stores>>)
  PROVE  Earning'
<1>1. Still
  BY DEF StoreChanges, Expire, Restart, Rest, sessionVars, Still, rows, trail
<1>2. redis = [k \in Keys |-> redis[k]] /\ memory = [k \in Keys |-> memory[k]]
  BY DEF Earning, Rows
<1>3. /\ redis' = [k \in Keys |-> redis'[k]] /\ memory' = [k \in Keys |-> memory'[k]]
      /\ \A k \in Keys : redis'[k] \in {redis[k], Absent} /\ memory'[k] \in {memory[k], Absent}
  <2>1. CASE StoreChanges
    BY <1>2, <2>1 DEF StoreChanges, SwitchStore
  <2>2. ASSUME NEW q \in SessionKeys, Expire(q)
        PROVE  /\ redis' = [redis EXCEPT ![q] = Absent]
               /\ memory' = [memory EXCEPT ![q] = Absent]
    BY <2>2 DEF Expire, ExpireKey
  <2>3. CASE Restart
    BY <1>2, <2>3 DEF Restart
  <2>4. CASE UNCHANGED stores
    BY <1>2, <2>4 DEF stores
  <2> QED BY <1>2, <2>1, <2>2, <2>3, <2>4 DEF sessionVars
<1>4. Slotted' /\ \A q \in Requests : req'[q] = req[q] \/ Promise(q)'
  <2>1. CASE req' = req
    BY <2>1 DEF Earning, Slotted, Shaped
  <2>2. CASE Restart
    <3>1. req' = [q \in Requests |-> Idle]
      BY <2>2 DEF Restart
    <3>2. Slotted'
      BY <3>1 DEF Slotted, Shaped, Idle, Owners
    <3>3. ASSUME NEW q \in Requests PROVE req'[q].at \in Careless
      BY <3>1 DEF Idle, Careless
    <3> QED BY <3>2, <3>3, Unpromised
  <2>3. req' = req \/ Restart
    BY DEF StoreChanges, Expire, Rest, flight, sessionVars
  <2> QED BY <2>1, <2>2, <2>3
<1> QED BY <1>1, <1>3, <1>4, Around

-----------------------------------------------------------------------------
LEMMA InitEarns == SessionInit => Earning
<1> SUFFICES ASSUME SessionInit PROVE Earning
  OBVIOUS
<1>1. Rows
  BY DEF SessionInit, RedisInit, Rows
<1>2. Slotted
  BY DEF SessionInit, FlightInit, Slotted, Shaped, Idle, Owners
<1>3. Vouched /\ EarnedByCode
  BY DEF SessionInit, Vouched, EarnedByCode
<1>4. Held
  BY KeyInUse DEF SessionInit, RedisInit, Held
<1>5. ASSUME NEW r \in Requests PROVE Promise(r)
  BY DEF SessionInit, FlightInit, Promise, Idle
<1> QED BY <1>1, <1>2, <1>3, <1>4, <1>5 DEF Earning

LEMMA NextEarns == Earning /\ [SessionNext]_sessionVars => Earning'
<1> SUFFICES ASSUME Earning, [SessionNext]_sessionVars PROVE Earning'
  OBVIOUS
<1>1. ASSUME NEW r \in Requests, AccountEndpoints(r) PROVE Earning'
  BY <1>1, SignsIn, Asks, Clears, MakesCodes, Earns DEF AccountEndpoints, Accounts
<1>2. ASSUME NEW r \in Requests, AdminEndpoints(r) PROVE Earning'
  BY <1>2, SignsIn, Clears, Renews, Changes DEF AdminEndpoints, Accounts
<1>3. ASSUME NEW r \in Requests, SocialEndpoints(r) PROVE Earning'
  BY <1>3, SignsIn, MakesCodes DEF SocialEndpoints, Accounts
<1>4. ASSUME NEW r \in Requests, SessionArrive(r) PROVE Earning'
  BY <1>1, <1>2, <1>3, <1>4, Passes, SignsIn DEF SessionArrive, Accounts
<1>5. ASSUME NEW r \in Requests, SessionProceed(r) PROVE Earning'
  BY <1>5, Passes, Clears, Takes, MakesCodes, SendsCodes, Rewrites, Effects DEF SessionProceed
<1> QED BY <1>4, <1>5, Surroundings DEF SessionNext

LEMMA Invariance == SessionSpec => []Earning
BY InitEarns, NextEarns, PTL DEF SessionSpec

(* For any accounts, however requests overlap, die, or find the store      *)
(* changed: a password was set by a code sent for that to that account, or *)
(* first by itself, a second factor was shown to its customer, and a       *)
(* verified address was sent a code (resetPassword, verifyEmail,           *)
(* verifyPhone, enableTwoFactor, setAdminPasswordAfterOtp).                *)
THEOREM CodesEarn == SessionSpec => []EarnedByCode
<1>1. Earning => EarnedByCode
  BY DEF Earning
<1> QED BY <1>1, Invariance, PTL

-----------------------------------------------------------------------------
(* Calm: requests one after the other, none has died, and the connection   *)
(* to Redis is as it was.                                                  *)
Calm == Orderly /\ ~switched

(* A request in flight is one of those this behaviour uses.                *)
Seats == slots \subseteq Requests /\ \A r \in Requests \ slots : req[r].at = "idle"

(* A step of one request: the others stay as they are, and what is not     *)
(* calm does not become so.                                                *)
Acts(r) == Seats' /\ Alone(r) /\ r \in slots /\ slots' = slots /\ (Calm' => Calm)

LEMMA Sole ==
  ASSUME Seats, OneByOne, NEW r \in slots
  PROVE  \A q \in Requests \ {r} : req[q].at = "idle"
<1>1. IsFiniteSet(slots)
  BY FS_Subset, HandlersAssumption DEF Seats
<1>2. slots = {r}
  BY <1>1, FS_Singleton DEF OneByOne
<1> QED BY <1>2 DEF Seats

LEMMA ActsWhen ==
  ASSUME Slotted, Seats, NEW r \in slots, Alone(r), UNCHANGED slots, died => died',
         switched' = switched
  PROVE  Acts(r)
<1>1. r \in Requests
  BY DEF Seats
<1>2. Seats'
  BY <1>1 DEF Seats, Alone
<1>3. OneByOne' <=> OneByOne
  BY DEF OneByOne
<1>4. Calm' => Calm
  BY <1>3 DEF Calm, Orderly
<1> QED BY <1>2, <1>4 DEF Acts

(* Whatever step of a handler it is, it is a step of that request.         *)
Steps(r) ==
  \/ \E at, on, by, saw : Begin(r, at, on, by, saw)
  \/ req[r].at # "idle" /\ \E at : Goto(r, at) \/ \E saw : Carry(r, at, saw)
  \/ req[r].at # "idle" /\ (End(r) \/ Die(r))
  \/ Once(r)

Touches == UNCHANGED stores \/ \E k, v : Put(k, v)

LEMMA Moving ==
  ASSUME Slotted, Seats, NEW r \in Requests, Steps(r), Touches
  PROVE  Acts(r)
<1>1. switched' = switched
  BY DEF Touches, stores, Put
<1>2. r \in slots /\ UNCHANGED slots /\ (died => died')
  <2>1. req[r].at # "idle" => r \in slots
    BY DEF Seats
  <2>2. CASE \E at, on, by, saw : Begin(r, at, on, by, saw)
    BY <2>2 DEF Begin, Free
  <2>3. CASE req[r].at # "idle" /\ \E at : Goto(r, at) \/ \E saw : Carry(r, at, saw)
    BY <2>1, <2>3 DEF Goto, Carry
  <2>4. CASE req[r].at # "idle" /\ (End(r) \/ Die(r))
    BY <2>1, <2>4 DEF End, Die
  <2>5. CASE Once(r)
    BY <2>5 DEF Once, Free, flight
  <2> QED BY <2>2, <2>3, <2>4, <2>5 DEF Steps
<1>3. Alone(r)
  BY DEF Steps, Begin, Goto, Carry, End, Die, Once, flight, Slotted, Alone
<1> QED BY <1>1, <1>2, <1>3, ActsWhen

LEMMA ArriveActs ==
  ASSUME Earning, Seats, NEW r \in Requests, SessionArrive(r)
  PROVE  Acts(r)
<1>1. CASE \E a \in Accounts :
             \/ Login(r, a) \/ RefreshTokens(r, a) \/ Register(r, a) \/ VerifyTwoFactor(r, a)
             \/ SetAdminPassword(r, a) \/ SetPasswordAfterCode(r, a) \/ DeleteAccount(r, a)
             \/ Suspend(r, a) \/ Unsuspend(r, a) \/ (\E p \in Purposes : RequestCode(r, a, p))
             \/ \E via : SocialLogin(r, a, via)
  BY <1>1, Moving DEF Login, RefreshTokens, Register, VerifyTwoFactor, SetAdminPassword, Earning,
       SetPasswordAfterCode, DeleteAccount, Suspend, Unsuspend, RequestCode, SocialLogin,
       StartSession, Steps, Touches
<1>2. CASE \E m \in inbox :
             \/ Exchange(r, m)
             \/ \E a \in Accounts : \/ SelectAccount(r, m, a) \/ ResetPassword(r, m, a)
                                    \/ VerifyChangeCode(r, m, a)
                                    \/ \E p \in Purposes : Confirm(r, m, a, p)
  BY <1>2, Moving DEF Exchange, SelectAccount, ResetPassword, VerifyChangeCode, Confirm, Earning,
       Steps, Touches
<1>3. CASE \/ \E a \in Accounts : Logout(r, a) \/ SetupTwoFactor(r, a) \/ VerifyExhausted(r, a)
           \/ \E t \in Twins : OfferSelection(r, t)
  BY <1>3, Moving DEF Logout, SetupTwoFactor, VerifyExhausted, OfferSelection, Earning, Del,
       Steps, Touches
<1> QED BY <1>1, <1>2, <1>3 DEF SessionArrive, AccountEndpoints, AdminEndpoints, SocialEndpoints,
             Accounts, Purposes

LEMMA ProceedActs ==
  ASSUME Earning, Seats, NEW r \in Requests, SessionProceed(r)
  PROVE  Acts(r)
<1>1. CASE \/ IssueTokens(r) \/ StoreExchange(r) \/ DeleteExchange(r) \/ DeleteSelection(r)
           \/ ReadSelected(r) \/ StoreCode(r) \/ SendCode(r) \/ SendWelcome(r)
  BY <1>1, Moving DEF IssueTokens, StoreExchange, DeleteExchange, DeleteSelection, ReadSelected,
       StoreCode, SendCode, SendWelcome, Earning, Del, Steps, Touches
<1>2. CASE \/ WriteConfirmed(r) \/ WritePassword(r) \/ DeleteCode(r) \/ DeleteSession(r)
           \/ WriteFirstPassword(r) \/ CountAttempt(r) \/ DeleteChangeCode(r) \/ Grant(r)
           \/ Scrub(r)
  BY <1>2, Moving DEF WriteConfirmed, WritePassword, DeleteCode, DeleteSession, Earning,
       WriteFirstPassword, CountAttempt, DeleteChangeCode, Grant, Scrub, Del, Steps, Touches
<1>3. CASE StopSession(r)
  BY <1>3, Moving DEF StopSession, SessionRefused, Die, Earning, Steps, Touches
<1> QED BY <1>1, <1>2, <1>3 DEF SessionProceed

(* What the store answers for a key, after a write to it or to another.    *)
LEMMA Answers ==
  ASSUME Earning, NEW k, NEW v, NEW q \in Keys, Put(k, v)
  PROVE  /\ q # k => Get(q)' = Get(q)
         /\ q = k => Get(q)' = v
<1>1. ready' = ready
  BY DEF Put
<1>2. redis = [j \in Keys |-> redis[j]] /\ memory = [j \in Keys |-> memory[j]]
  BY DEF Earning, Rows
<1>3. CASE q # k
  BY <1>1, <1>3, Puts DEF Get
<1>4. CASE q = k /\ ready
  BY <1>1, <1>2, <1>4 DEF Put, Get
<1>5. CASE q = k /\ ~ready
  BY <1>1, <1>2, <1>5 DEF Put, Get
<1> QED BY <1>3, <1>4, <1>5

-----------------------------------------------------------------------------
(* Sessions follow the password: the refresh token of an account began     *)
(* under the password in force, unless the request in flight is about to   *)
(* replace it or take it back.                                             *)
Alive(a) == row[a] \in {"active", "suspended"}

Ending(x, a) ==
  /\ x.on = a
  /\ \/ x.at \in {"issue", "session.delete"}
     \/ x.at = "code.delete" /\ x.by \in {"reset", "grant"}

Current(a) == Get(Refresh(a)) # Absent => Alive(a) /\ Get(Refresh(a)).since = password[a]

Follows(a) ==
  /\ twoFactor[a] # 0 => Alive(a)
  /\ Current(a) \/ \E r \in Requests : Ending(req[r], a)

(* What a request relies on: the account is still there, but for a reset,  *)
(* which may be of a deleted row; and a new session is of the password in  *)
(* force.                                                                  *)
Minds(x) ==
  /\ x.at \in {"selection.delete", "selection.read", "scrub", "session.delete",
               "password.write", "code.delete"} =>
       x.on \in Accounts
  /\ x.at \in {"issue", "welcome.store", "welcome.send", "confirm.write", "first.write"} =>
       x.on \in Accounts /\ Alive(x.on)
  /\ x.at \in {"password.write", "code.delete", "session.delete"} /\ x.by = "grant" =>
       Alive(x.on)
  /\ x.at = "password.write" => x.by \in {"reset", "grant"}
  /\ x.at = "code.delete" => x.by \in Purposes
  /\ x.at = "scrub" => x.by = "scrub"
  /\ x.at = "issue" => x.saw.since = password[x.on]
  /\ x.at \in {"welcome.store", "welcome.send"} => password[x.on] = 1

Tables ==
  /\ row \in [Accounts -> {"none", "active", "suspended", "deleted"}]
  /\ password \in [Accounts -> Nat]

Following ==
  /\ Seats /\ Tables
  /\ Calm => (\A a \in Accounts : Follows(a)) /\ \A r \in Requests : Minds(req[r])

LEMMA RefreshKey ==
  ASSUME NEW a \in Accounts
  PROVE  Refresh(a) \in Keys /\ \A p \in Purposes : \A b : Refresh(a) # <<p, b>>
BY SessionAssumption DEF Refresh, SessionKeys, Purposes

LEMMA FollowOn ==
  ASSUME Following, NEW r \in Requests, Acts(r), Tables',
         Calm /\ Calm' =>
           /\ Minds(req[r])'
           /\ \A a \in Accounts :
                /\ twoFactor'[a] # 0 => Alive(a)'
                /\ Current(a)' \/ Ending(req'[r], a)
  PROVE  Following'
<1>1. ASSUME Calm', NEW q \in Requests PROVE Minds(req[q])'
  <2>1. CASE q = r
    BY <1>1, <2>1 DEF Acts
  <2>2. CASE q # r
    <3>1. req'[q].at = "idle"
      BY <1>1, <2>2, Sole DEF Acts, Alone, Following, Calm, Orderly
    <3> QED BY <3>1 DEF Minds
  <2> QED BY <2>1, <2>2
<1>2. ASSUME Calm', NEW a \in Accounts PROVE Follows(a)'
  BY <1>2 DEF Acts, Follows
<1> QED BY <1>1, <1>2 DEF Following, Acts

(* When the requests are one after the other, one acts for them all.       *)
LEMMA Mine ==
  ASSUME Following, Calm, NEW r \in slots, NEW a \in Accounts
  PROVE  /\ Current(a) \/ Ending(req[r], a)
         /\ twoFactor[a] # 0 => Alive(a)
         /\ Minds(req[r])
<1>1. r \in Requests /\ \A q \in Requests \ {r} : req[q].at = "idle"
  BY Sole DEF Following, Seats, Calm, Orderly
<1> QED BY <1>1 DEF Following, Follows, Ending

(* Steps that leave accounts and their refresh tokens be.                  *)
LEMMA Quiet ==
  ASSUME Earning, Following, NEW r \in Requests, Acts(r), UNCHANGED <<row, password, twoFactor>>,
         Calm => /\ \A a \in Accounts : Get(Refresh(a))' = Get(Refresh(a))
                 /\ Minds(req[r])'
                 /\ \A a \in Accounts : Ending(req[r], a) => Ending(req'[r], a)
  PROVE  Following'
<1>1. Tables'
  BY DEF Tables, Following
<1>2. ASSUME Calm, NEW a \in Accounts
      PROVE  /\ twoFactor'[a] # 0 => Alive(a)'
             /\ Current(a)' \/ Ending(req'[r], a)
  BY <1>2, Mine DEF Alive, Current, Acts
<1> QED BY <1>1, <1>2, FollowOn

(* Handlers that have read and will write.                                 *)
LEMMA FollowBegins ==
  ASSUME Earning, Following, NEW r \in Requests, Acts(r), NEW at, NEW on \in Owners, NEW by,
         NEW saw, Begin(r, at, on, by, saw), UNCHANGED <<row, password, twoFactor>>, UNCHANGED stores,
         Calm => Minds([at |-> at, on |-> on, by |-> by, saw |-> saw])
  PROVE  Following'
<1>1. req'[r] = [at |-> at, on |-> on, by |-> by, saw |-> saw]
  BY Begins DEF Earning
<1>2. req[r].at = "idle"
  BY DEF Begin, Free
<1>3. Calm => Minds(req[r])'
  BY <1>1 DEF Minds, Alive
<1>4. \A a \in Accounts : Get(Refresh(a))' = Get(Refresh(a))
  BY DEF stores, Get
<1> QED BY <1>2, <1>3, <1>4, Quiet DEF Ending

LEMMA FollowArrivals ==
  ASSUME Earning, Following, NEW r \in Requests, Acts(r),
         \/ \E a \in Accounts :
              \/ Login(r, a) \/ VerifyTwoFactor(r, a) \/ RefreshTokens(r, a)
              \/ SetAdminPassword(r, a) \/ SetPasswordAfterCode(r, a) \/ DeleteAccount(r, a)
              \/ (\E p \in Purposes : RequestCode(r, a, p)) \/ \E via : SocialLogin(r, a, via)
         \/ \E m \in inbox :
              \/ Exchange(r, m)
              \/ \E a \in Accounts : \/ SelectAccount(r, m, a) \/ ResetPassword(r, m, a)
                                     \/ VerifyChangeCode(r, m, a)
                                     \/ \E p \in Purposes : Confirm(r, m, a, p)
  PROVE  Following'
<1> DEFINE Starts(at, on, by, saw) ==
      Begin(r, at, on, by, saw) /\ (Calm => Minds([at |-> at, on |-> on, by |-> by, saw |-> saw]))
<1>1. UNCHANGED <<row, password, twoFactor>> /\ UNCHANGED stores /\ req[r].at = "idle"
  BY ZenonT(40) DEF Login, VerifyTwoFactor, RefreshTokens, SetAdminPassword, SetPasswordAfterCode, Free,
         DeleteAccount, RequestCode, SocialLogin, Exchange, SelectAccount, ResetPassword,
         VerifyChangeCode, Confirm, StartSession, rows, Begin
<1>2. \E at, by, saw : \E on \in Owners : Starts(at, on, by, saw)
  <2>1. ASSUME NEW a \in Accounts, NEW via, Begin(r, "issue", a, via, Entry(a, 0, password[a])),
               Calm => Alive(a)
        PROVE  Starts("issue", a, via, Entry(a, 0, password[a]))
    BY <2>1 DEF Minds, Entry
  <2>2. ASSUME NEW a \in Accounts, Login(r, a) \/ VerifyTwoFactor(r, a) \/ \E via : SocialLogin(r, a, via)
        PROVE  \E at, by, saw : \E on \in Owners : Starts(at, on, by, saw)
    <3>1. Calm => Alive(a)
      BY <2>2, Mine DEF Login, VerifyTwoFactor, SocialLogin, Usable, Alive, Acts
    <3>2. \E via : Begin(r, "issue", a, via, Entry(a, 0, password[a]))
      BY <2>2 DEF Login, VerifyTwoFactor, SocialLogin, StartSession
    <3> QED BY <2>1, <3>1, <3>2 DEF Owners
  <2>3. ASSUME NEW a \in Accounts, RefreshTokens(r, a)
        PROVE  Starts("issue", a, "direct", Get(Refresh(a)))
    <3>1. Calm => Current(a)
      BY <1>1, Mine DEF Ending, Acts
    <3> QED BY <2>3, <3>1 DEF RefreshTokens, Current, Minds
  <2>4. ASSUME NEW a \in Accounts,
               \/ SetAdminPassword(r, a) \/ SetPasswordAfterCode(r, a)
               \/ \E m \in inbox : ResetPassword(r, m, a) \/ \E p \in Purposes : Confirm(r, m, a, p)
        PROVE  \E at, by, saw : \E on \in Owners : Starts(at, on, by, saw)
    <3> DEFINE Heads(at, by) == \/ at = "password.write" /\ by = "reset"
                                \/ at = "password.write" /\ by = "grant" /\ Alive(a)
                                \/ at \in {"first.write", "confirm.write"} /\ Alive(a)
    <3>1. \E at, by, saw : Begin(r, at, a, by, saw) /\ Heads(at, by)
      <4>1. CASE SetAdminPassword(r, a)
        BY <4>1 DEF SetAdminPassword, SignedIn, Alive
      <4>2. CASE SetPasswordAfterCode(r, a)
        BY <4>2 DEF SetPasswordAfterCode, SignedIn, Alive
      <4>3. ASSUME NEW m \in inbox, ResetPassword(r, m, a)
            PROVE  \E at, by, saw : Begin(r, at, a, by, saw) /\ Heads(at, by)
        BY <4>3 DEF ResetPassword
      <4>4. ASSUME NEW m \in inbox, NEW p \in Purposes, Confirm(r, m, a, p)
            PROVE  \E at, by, saw : Begin(r, at, a, by, saw) /\ Heads(at, by)
        BY <4>4 DEF Confirm, SignedIn, Alive
      <4> QED BY <2>4, <4>1, <4>2, <4>3, <4>4
    <3>2. PICK at, by, saw : Begin(r, at, a, by, saw) /\ Heads(at, by)
      BY <3>1
    <3>3. Minds([at |-> at, on |-> a, by |-> by, saw |-> saw])
      BY <3>2 DEF Minds
    <3> QED BY <3>2, <3>3 DEF Owners
  <2>5. ASSUME NEW a \in Accounts,
               \/ DeleteAccount(r, a) \/ (\E p \in Purposes : RequestCode(r, a, p))
               \/ \E m \in inbox : SelectAccount(r, m, a) \/ VerifyChangeCode(r, m, a)
        PROVE  \E at, by, saw : \E on \in Owners : Starts(at, on, by, saw)
    <3>1. PICK at \in {"scrub", "code.store", "selection.delete", "change.delete", "change.count"} :
            \E by, saw : Begin(r, at, a, by, saw) /\ (at = "scrub" => by = "scrub")
      BY <2>5 DEF DeleteAccount, RequestCode, SelectAccount, VerifyChangeCode
    <3>2. PICK by, saw : Begin(r, at, a, by, saw) /\ (at = "scrub" => by = "scrub")
      BY <3>1
    <3>3. Minds([at |-> at, on |-> a, by |-> by, saw |-> saw])
      BY <3>1, <3>2 DEF Minds
    <3> QED BY <3>2, <3>3 DEF Owners
  <2>6. ASSUME NEW m \in inbox, Exchange(r, m)
        PROVE  \E at, by, saw : \E on \in Owners : Starts(at, on, by, saw)
    <3>1. PICK by, saw : Begin(r, "exchange.delete", m.on, by, saw)
      BY <2>6 DEF Exchange
    <3>2. Minds([at |-> "exchange.delete", on |-> m.on, by |-> by, saw |-> saw])
      BY DEF Minds
    <3> QED BY <3>1, <3>2, Readers
  <2> QED BY <2>2, <2>3, <2>4, <2>5, <2>6 DEF Owners
<1>3. PICK at, by, saw : \E on \in Owners : Starts(at, on, by, saw)
  BY <1>2
<1>4. PICK on \in Owners : Starts(at, on, by, saw)
  BY <1>3
<1> QED BY <1>1, <1>4, FollowBegins

(* Handlers that go on, or await once, and touch no refresh token.         *)
LEMMA Elsewhere ==
  ASSUME Earning, NEW k, NEW v, NEW p, NEW b, k = <<p, b>>, p # "refresh", Put(k, v)
  PROVE  \A a \in Accounts : Get(Refresh(a))' = Get(Refresh(a))
<1> SUFFICES ASSUME NEW a \in Accounts PROVE Get(Refresh(a))' = Get(Refresh(a))
  OBVIOUS
<1>1. Refresh(a) # k
  BY DEF Refresh
<1> QED BY <1>1, Answers, RefreshKey

LEMMA Untouched ==
  ASSUME Earning, NEW r \in Requests,
         \/ \E a \in Accounts : SetupTwoFactor(r, a) \/ VerifyExhausted(r, a)
         \/ \E t \in Twins : OfferSelection(r, t)
         \/ StoreExchange(r) \/ DeleteExchange(r) \/ SendCode(r) \/ CountAttempt(r) \/ Grant(r)
         \/ StopSession(r) \/ DeleteSelection(r) \/ DeleteChangeCode(r) \/ ReadSelected(r)
         \/ SendWelcome(r) \/ StoreCode(r)
         \/ req[r].by \in Purposes /\ DeleteCode(r)
  PROVE  \A a \in Accounts : Get(Refresh(a))' = Get(Refresh(a))
<1>0. PICK x : x = req[r]
  OBVIOUS
<1>1. ASSUME NEW k, Del(k) PROVE Put(k, Absent)
  BY <1>1 DEF Del
<1>2. "refresh" \notin Purposes
  BY SessionAssumption DEF Purposes
<1>3. CASE SendCode(r) \/ StopSession(r) \/ ReadSelected(r) \/ SendWelcome(r)
  BY <1>3 DEF SendCode, StopSession, ReadSelected, SendWelcome, stores, Get
<1>4. ASSUME NEW a \in Accounts, SetupTwoFactor(r, a)
      PROVE  \A b \in Accounts : Get(Refresh(b))' = Get(Refresh(b))
  BY <1>4, Elsewhere DEF SetupTwoFactor, Key
<1>5. ASSUME NEW a \in Accounts, VerifyExhausted(r, a)
      PROVE  \A b \in Accounts : Get(Refresh(b))' = Get(Refresh(b))
  BY <1>1, <1>5, Elsewhere DEF VerifyExhausted, Key
<1>6. ASSUME NEW t \in Twins, OfferSelection(r, t)
      PROVE  \A b \in Accounts : Get(Refresh(b))' = Get(Refresh(b))
  BY <1>6, Elsewhere DEF OfferSelection
<1>7. CASE StoreExchange(r)
  BY <1>7, Elsewhere DEF StoreExchange
<1>8. CASE DeleteExchange(r) \/ DeleteSelection(r)
  BY <1>1, <1>8, Elsewhere DEF DeleteExchange, DeleteSelection
<1>9. CASE CountAttempt(r) \/ Grant(r)
  BY <1>9, Elsewhere DEF CountAttempt, Grant, Key
<1>10. CASE DeleteChangeCode(r)
  BY <1>1, <1>10, Elsewhere DEF DeleteChangeCode, Key
<1>11. CASE StoreCode(r)
  <2>1. x.by \in Purposes /\ \E v : Put(<<x.by, x.on>>, v)
    BY <1>0, <1>11 DEF StoreCode, Earning, Promise, Key
  <2> QED BY <1>2, <2>1, Elsewhere
<1>12. CASE req[r].by \in Purposes /\ DeleteCode(r)
  <2>1. x.by \in Purposes /\ Put(<<x.by, x.on>>, Absent)
    BY <1>0, <1>1, <1>12 DEF DeleteCode, Key
  <2> QED BY <1>2, <2>1, Elsewhere
<1> QED BY <1>3, <1>4, <1>5, <1>6, <1>7, <1>8, <1>9, <1>10, <1>11, <1>12

LEMMA FollowOnce ==
  ASSUME Earning, Following, NEW r \in Requests, Acts(r),
         \/ \E a \in Accounts : SetupTwoFactor(r, a) \/ VerifyExhausted(r, a)
         \/ \E t \in Twins : OfferSelection(r, t)
  PROVE  Following'
<1>1. UNCHANGED <<row, password, twoFactor>> /\ req[r].at = "idle" /\ req' = req
  BY DEF SetupTwoFactor, VerifyExhausted, OfferSelection, Once, Free, flight, rows
<1>2. Minds(req[r])'
  BY <1>1 DEF Minds
<1> QED BY <1>1, <1>2, Untouched, Quiet

LEMMA FollowEnds ==
  ASSUME Earning, Following, NEW r \in Requests, Acts(r),
         StoreExchange(r) \/ DeleteExchange(r) \/ SendCode(r) \/ CountAttempt(r) \/ Grant(r)
         \/ StopSession(r)
  PROVE  Following'
<1>1. UNCHANGED <<row, password, twoFactor>>
  BY DEF StoreExchange, DeleteExchange, SendCode, CountAttempt, Grant, StopSession, rows
<1>2. CASE End(r) /\ req[r].at \notin {"issue", "session.delete", "code.delete"}
  <2>1. req'[r].at = "idle"
    BY <1>2 DEF End, Earning, Slotted, Idle
  <2>2. Minds(req[r])'
    BY <2>1 DEF Minds
  <2> QED BY <1>1, <1>2, <2>2, Untouched, Quiet DEF Ending
<1>3. CASE Die(r)
  <2>1. ~Calm' /\ Tables'
    BY <1>1, <1>3 DEF Die, Calm, Orderly, Following, Tables
  <2> QED BY <2>1, FollowOn
<1> QED BY <1>2, <1>3 DEF StoreExchange, DeleteExchange, SendCode, CountAttempt, Grant,
             StopSession, SessionRefused

LEMMA FollowGoes ==
  ASSUME Earning, Following, NEW r \in Requests, Acts(r),
         DeleteSelection(r) \/ DeleteChangeCode(r) \/ DeleteCode(r)
  PROVE  Following'
<1>0. PICK x : x = req[r]
  OBVIOUS
<1>1. UNCHANGED <<row, password, twoFactor>>
  BY DEF DeleteSelection, DeleteChangeCode, DeleteCode, rows
<1>2. Calm => Minds(x)
  BY <1>0, Mine DEF Acts, Following, Seats
<1>3. Calm => \A a \in Accounts : Get(Refresh(a))' = Get(Refresh(a))
  <2>1. Calm /\ DeleteCode(r) => x.by \in Purposes
    BY <1>0, <1>2 DEF DeleteCode, Minds
  <2> QED BY <1>0, <2>1, Untouched
<1>4. CASE DeleteCode(r) /\ x.by \notin {"reset", "grant"}
  <2>1. End(r) /\ x.at = "code.delete"
    BY <1>0, <1>4 DEF DeleteCode
  <2>2. req'[r].at = "idle"
    BY <2>1 DEF End, Earning, Slotted, Idle
  <2>3. Minds(req[r])'
    BY <2>2 DEF Minds
  <2>4. \A a \in Accounts : ~Ending(x, a)
    BY <1>4, <2>1 DEF Ending
  <2> QED BY <1>0, <1>1, <1>3, <2>3, <2>4, Quiet
<1>5. CASE ~(DeleteCode(r) /\ x.by \notin {"reset", "grant"})
  <2>1. PICK at \in {"selection.read", "change.grant", "session.delete"} :
          /\ Goto(r, at)
          /\ at = "selection.read" => x.at = "selection.delete"
          /\ at = "change.grant" => x.at = "change.delete"
          /\ at = "session.delete" => x.at = "code.delete" /\ x.by \in {"reset", "grant"}
    BY <1>0, <1>5 DEF DeleteSelection, DeleteChangeCode, DeleteCode
  <2>2. PICK y : y = req'[r]
    OBVIOUS
  <2>3. y = [at |-> at, on |-> x.on, by |-> x.by, saw |-> x.saw]
    BY <1>0, <2>1, <2>2, Goes DEF Earning
  <2>4. Calm => Minds(y)
    BY <1>2, <2>1, <2>3 DEF Minds
  <2>5. Calm => Minds(req[r])'
    BY <1>1, <2>2, <2>4 DEF Minds, Alive
  <2>6. \A a \in Accounts : Ending(x, a) => Ending(y, a)
    BY <2>1, <2>3 DEF Ending
  <2> QED BY <1>0, <1>1, <1>3, <2>2, <2>5, <2>6, Quiet
<1> QED BY <1>4, <1>5

LEMMA FollowCarries ==
  ASSUME Earning, Following, NEW r \in Requests, Acts(r),
         ReadSelected(r) \/ StoreCode(r) \/ SendWelcome(r)
  PROVE  Following'
<1>0. PICK x : x = req[r]
  OBVIOUS
<1>1. UNCHANGED <<row, password, twoFactor>>
  BY DEF ReadSelected, StoreCode, SendWelcome, rows
<1>2. Calm => Minds(x)
  BY <1>0, Mine DEF Acts, Following, Seats
<1>3. \E at \in {"code.send", "welcome.send", "issue"} : \E saw :
        /\ Carry(r, at, saw)
        /\ x.at \in {"selection.read", "code.store", "welcome.store", "welcome.send"}
        /\ at = "welcome.send" => x.at = "welcome.store"
        /\ at = "issue" =>
             \/ x.at = "selection.read" /\ Usable(x.on) /\ saw = Entry(x.on, 0, password[x.on])
             \/ x.at = "welcome.send" /\ saw = Entry(x.on, 0, 1)
  <2>1. CASE ReadSelected(r)
    BY <1>0, <2>1 DEF ReadSelected
  <2>2. CASE StoreCode(r)
    BY <1>0, <2>2 DEF StoreCode
  <2>3. CASE SendWelcome(r)
    BY <1>0, <2>3 DEF SendWelcome
  <2> QED BY <2>1, <2>2, <2>3
<1>4. PICK at \in {"code.send", "welcome.send", "issue"} : \E saw :
        /\ Carry(r, at, saw)
        /\ x.at \in {"selection.read", "code.store", "welcome.store", "welcome.send"}
        /\ at = "welcome.send" => x.at = "welcome.store"
        /\ at = "issue" =>
             \/ x.at = "selection.read" /\ Usable(x.on) /\ saw = Entry(x.on, 0, password[x.on])
             \/ x.at = "welcome.send" /\ saw = Entry(x.on, 0, 1)
  BY <1>3
<1>5. PICK saw :
        /\ Carry(r, at, saw)
        /\ x.at \in {"selection.read", "code.store", "welcome.store", "welcome.send"}
        /\ at = "welcome.send" => x.at = "welcome.store"
        /\ at = "issue" =>
             \/ x.at = "selection.read" /\ Usable(x.on) /\ saw = Entry(x.on, 0, password[x.on])
             \/ x.at = "welcome.send" /\ saw = Entry(x.on, 0, 1)
  BY <1>4
<1>6. PICK y : y = req'[r]
  OBVIOUS
<1>7. y = [at |-> at, on |-> x.on, by |-> x.by, saw |-> saw]
  BY <1>0, <1>5, <1>6, Carries DEF Earning
<1>8. Calm => Minds(y)
  BY <1>2, <1>4, <1>5, <1>7 DEF Minds, Usable, Alive, Entry
<1>9. Calm => Minds(req[r])'
  BY <1>1, <1>6, <1>8 DEF Minds, Alive
<1>10. \A a \in Accounts : ~Ending(x, a)
  BY <1>5 DEF Ending
<1> QED BY <1>0, <1>1, <1>9, <1>10, Untouched, Quiet

(* Refresh tokens are stored and taken back.                               *)
LEMMA FollowToken ==
  ASSUME Earning, Following, NEW r \in Requests, Acts(r), UNCHANGED <<row, password, twoFactor>>,
         Calm => Minds(req[r])',
         Calm => \E b \in Accounts : \E v :
           /\ Put(Refresh(b), v)
           /\ v # Absent => Alive(b) /\ v.since = password[b]
           /\ \A a \in Accounts \ {b} : ~Ending(req[r], a)
  PROVE  Following'
<1>1. Tables'
  BY DEF Tables, Following
<1>2. ASSUME Calm, NEW a \in Accounts
      PROVE  /\ twoFactor'[a] # 0 => Alive(a)'
             /\ Current(a)'
  <2>0. PICK b \in Accounts : \E v :
          /\ Put(Refresh(b), v)
          /\ v # Absent => Alive(b) /\ v.since = password[b]
          /\ \A c \in Accounts \ {b} : ~Ending(req[r], c)
    BY <1>2
  <2>1. PICK v :
          /\ Put(Refresh(b), v)
          /\ v # Absent => Alive(b) /\ v.since = password[b]
          /\ \A c \in Accounts \ {b} : ~Ending(req[r], c)
    BY <2>0
  <2>2. CASE a = b
    <3>1. Get(Refresh(a))' = v
      BY <2>1, <2>2, RefreshKey, Answers
    <3>2. Current(a)'
      BY <2>1, <2>2, <3>1 DEF Current, Alive
    <3> QED BY <1>2, <3>2, Mine DEF Acts, Alive
  <2>3. CASE a # b
    <3>1. Refresh(a) # Refresh(b)
      BY <2>3 DEF Refresh
    <3>2. Get(Refresh(a))' = Get(Refresh(a))
      BY <2>1, <3>1, RefreshKey, Answers
    <3>3. Current(a)
      BY <1>2, <2>1, <2>3, Mine DEF Acts
    <3>4. Current(a)'
      BY <3>2, <3>3 DEF Current, Alive
    <3> QED BY <1>2, <3>4, Mine DEF Acts, Alive
  <2> QED BY <2>2, <2>3
<1> QED BY <1>1, <1>2, FollowOn

LEMMA FollowTokens ==
  ASSUME Earning, Following, NEW r \in Requests, Acts(r),
         IssueTokens(r) \/ DeleteSession(r) \/ \E a \in Accounts : Logout(r, a)
  PROVE  Following'
<1>0. PICK x : x = req[r]
  OBVIOUS
<1>1. UNCHANGED <<row, password, twoFactor>>
  BY DEF IssueTokens, DeleteSession, Logout, rows
<1>2. Calm => Minds(x)
  BY <1>0, Mine DEF Acts, Following, Seats
<1>3. ASSUME NEW a \in Accounts, Logout(r, a) PROVE Following'
  <2>1. x.at = "idle" /\ req' = req /\ Put(Refresh(a), Absent)
    BY <1>0, <1>3 DEF Logout, Once, Free, flight, Del
  <2>2. Minds(req[r])' /\ \A b \in Accounts : ~Ending(x, b)
    BY <1>0, <2>1 DEF Minds, Ending
  <2> QED BY <1>0, <1>1, <2>1, <2>2, FollowToken
<1>4. CASE IssueTokens(r)
  <2>1. Put(Refresh(x.on), x.saw) /\ x.at = "issue"
    BY <1>0, <1>4 DEF IssueTokens
  <2>2. req'[r].at \in {"idle", "exchange.store"}
    <3>1. CASE End(r)
      BY <3>1 DEF End, Idle, Earning, Slotted
    <3>2. CASE Goto(r, "exchange.store")
      <4>1. Slotted
        BY DEF Earning
      <4>2. req'[r] = [at |-> "exchange.store", on |-> x.on, by |-> x.by, saw |-> x.saw]
        BY <1>0, <3>2, <4>1, Goes
      <4> QED BY <4>2
    <3> QED BY <1>4, <3>1, <3>2 DEF IssueTokens
  <2>3. Minds(req[r])'
    BY <2>2 DEF Minds
  <2>4. Calm => x.on \in Accounts /\ Alive(x.on) /\ x.saw.since = password[x.on]
    BY <1>2, <2>1 DEF Minds
  <2> QED BY <1>0, <1>1, <2>1, <2>3, <2>4, FollowToken DEF Ending
<1>5. CASE DeleteSession(r)
  <2>1. Put(Refresh(x.on), Absent) /\ x.at = "session.delete"
    BY <1>0, <1>5 DEF DeleteSession, Del
  <2>2. Calm => x.on \in Accounts /\ (x.by = "grant" => Alive(x.on))
    BY <1>2, <2>1 DEF Minds
  <2>3. Calm => Minds(req[r])'
    <3>1. CASE x.by = "grant"
      <4>1. Carry(r, "issue", Entry(x.on, 0, password[x.on]))
        BY <1>0, <1>5, <3>1 DEF DeleteSession
      <4>2. PICK y : y = req'[r]
        OBVIOUS
      <4>3. y = [at |-> "issue", on |-> x.on, by |-> x.by, saw |-> Entry(x.on, 0, password[x.on])]
        BY <1>0, <4>1, <4>2, Carries DEF Earning
      <4>4. Calm => Minds(y)
        BY <2>2, <3>1, <4>3 DEF Minds, Entry
      <4> QED BY <1>1, <4>2, <4>4 DEF Minds, Alive
    <3>2. CASE x.by # "grant"
      <4>1. req'[r].at = "idle"
        BY <1>0, <1>5, <3>2 DEF DeleteSession, End, Idle, Earning, Slotted
      <4> QED BY <4>1 DEF Minds
    <3> QED BY <3>1, <3>2
  <2> QED BY <1>0, <1>1, <2>1, <2>2, <2>3, FollowToken DEF Ending
<1> QED BY <1>3, <1>4, <1>5

(* The row of one account is written.                                      *)
LEMMA FollowRow ==
  ASSUME Earning, Following, NEW r \in Requests, Acts(r), UNCHANGED stores, Tables',
         Calm => Minds(req[r])',
         Calm => \E m \in Accounts :
           /\ \A a \in Accounts \ {m} :
                /\ row'[a] = row[a] /\ password'[a] = password[a] /\ twoFactor'[a] = twoFactor[a]
                /\ ~Ending(req[r], a)
           /\ twoFactor'[m] # 0 => Alive(m)'
           /\ Current(m)' \/ Ending(req'[r], m)
  PROVE  Following'
<1>1. ASSUME Calm, NEW a \in Accounts
      PROVE  /\ twoFactor'[a] # 0 => Alive(a)'
             /\ Current(a)' \/ Ending(req'[r], a)
  <2>1. PICK m \in Accounts :
          /\ \A c \in Accounts \ {m} :
               /\ row'[c] = row[c] /\ password'[c] = password[c] /\ twoFactor'[c] = twoFactor[c]
               /\ ~Ending(req[r], c)
          /\ twoFactor'[m] # 0 => Alive(m)'
          /\ Current(m)' \/ Ending(req'[r], m)
    BY <1>1
  <2>2. CASE a = m
    BY <2>1, <2>2
  <2>3. CASE a # m
    <3>1. row'[a] = row[a] /\ password'[a] = password[a] /\ twoFactor'[a] = twoFactor[a]
          /\ ~Ending(req[r], a)
      BY <2>1, <2>3
    <3>2. Current(a)
      BY <1>1, <3>1, Mine DEF Acts
    <3>3. Current(a)'
      BY <3>1, <3>2 DEF Current, Alive, stores, Get
    <3> QED BY <1>1, <3>1, <3>3, Mine DEF Acts, Alive
  <2> QED BY <2>2, <2>3
<1> QED BY <1>1, FollowOn

LEMMA FollowStanding ==
  ASSUME Earning, Following, NEW r \in Requests, Acts(r), NEW a \in Accounts,
         Register(r, a) \/ Suspend(r, a) \/ Unsuspend(r, a)
  PROVE  Following'
<1>0. PICK x : x = req[r]
  OBVIOUS
<1>1. /\ x.at = "idle" /\ UNCHANGED stores /\ UNCHANGED twoFactor
      /\ \A b : ~Ending(x, b)
  BY <1>0 DEF Register, Suspend, Unsuspend, Begin, Once, Free, Ending
<1>2. row \in [Accounts -> {"none", "active", "suspended", "deleted"}]
      /\ password \in [Accounts -> Nat]
  BY DEF Following, Tables
<1>3. Calm => /\ Current(a)
              /\ twoFactor[a] # 0 => Alive(a)
  BY <1>0, <1>1, Mine DEF Acts
<1>4. CASE Register(r, a)
  <2>1. row[a] = "none" /\ row' = [row EXCEPT ![a] = "active"] /\ password' = [password EXCEPT ![a] = 1]
        /\ Begin(r, "welcome.store", a, "email", None)
    BY <1>4 DEF Register
  <2>2. /\ Tables' /\ row'[a] = "active" /\ password'[a] = 1
        /\ \A b \in Accounts \ {a} : row'[b] = row[b] /\ password'[b] = password[b]
    BY <1>2, <2>1 DEF Tables
  <2>3. req'[r] = [at |-> "welcome.store", on |-> a, by |-> "email", saw |-> None]
    BY <2>1, Begins DEF Earning, Owners
  <2>4. Minds(req[r])'
    BY <2>2, <2>3 DEF Minds, Alive
  <2>5. Calm => Get(Refresh(a)) = Absent
    BY <1>3, <2>1 DEF Current, Alive
  <2>6. Calm => Current(a)'
    BY <1>1, <2>5 DEF Current, stores, Get
  <2>7. Alive(a)'
    BY <2>2 DEF Alive
  <2> QED BY <1>0, <1>1, <2>2, <2>4, <2>6, <2>7, FollowRow
<1>5. CASE Suspend(r, a) \/ Unsuspend(r, a)
  <2>1. PICK s \in {"active", "suspended"} : row' = [row EXCEPT ![a] = s]
    BY <1>5 DEF Suspend, Unsuspend
  <2>2. password' = password /\ req' = req
    BY <1>5 DEF Suspend, Unsuspend, Once, flight
  <2>3. /\ Tables' /\ row'[a] = s
        /\ \A b \in Accounts \ {a} : row'[b] = row[b]
    BY <1>2, <2>1, <2>2 DEF Tables
  <2>4. Minds(req[r])'
    BY <1>0, <1>1, <2>2 DEF Minds
  <2>5. Alive(a)'
    BY <2>3 DEF Alive
  <2>6. Calm => Current(a)'
    BY <1>1, <1>3, <2>2, <2>5 DEF Current, stores, Get
  <2> QED BY <1>0, <1>1, <2>2, <2>3, <2>4, <2>5, <2>6, FollowRow
<1> QED BY <1>4, <1>5

LEMMA Renewed ==
  ASSUME NEW b, password \in [Accounts -> Nat], password' = [password EXCEPT ![b] = @ + 1]
  PROVE  /\ password' \in [Accounts -> Nat]
         /\ \A a \in Accounts \ {b} : password'[a] = password[a]
<1>1. CASE b \in Accounts
  BY <1>1
<1>2. CASE b \notin Accounts
  BY <1>2
<1> QED BY <1>1, <1>2

LEMMA FollowWrites ==
  ASSUME Earning, Following, NEW r \in Requests, Acts(r),
         WritePassword(r) \/ WriteFirstPassword(r) \/ Scrub(r) \/ WriteConfirmed(r)
  PROVE  Following'
<1>0. PICK x : x = req[r]
  OBVIOUS
<1>1. PICK y : y = req'[r]
  OBVIOUS
<1>2. UNCHANGED stores
  BY DEF WritePassword, WriteFirstPassword, Scrub, WriteConfirmed
<1>3. row \in [Accounts -> {"none", "active", "suspended", "deleted"}]
      /\ password \in [Accounts -> Nat] /\ twoFactor \in [Accounts -> Nat]
  BY DEF Following, Tables, Earning, Rows
<1>4. Calm => Minds(x) /\ x.on \in Accounts
  <2>1. Calm => Minds(x)
    BY <1>0, Mine DEF Acts, Following, Seats
  <2> QED BY <1>0, <2>1 DEF Minds, WritePassword, WriteFirstPassword, Scrub, WriteConfirmed
<1>5. \A a \in Accounts : ~Ending(x, a)
  BY <1>0 DEF Ending, WritePassword, WriteFirstPassword, Scrub, WriteConfirmed
<1>6. ASSUME Calm, x.on \in Accounts
      PROVE  /\ Current(x.on)
             /\ twoFactor[x.on] # 0 => Alive(x.on)
  <2>1. PICK m \in Accounts : m = x.on
    BY <1>6
  <2> QED BY <1>0, <1>5, <1>6, <2>1, Mine DEF Acts
<1>7. CASE WritePassword(r)
  <2>1. /\ row' = row /\ twoFactor' = twoFactor /\ x.at = "password.write"
        /\ password' = [password EXCEPT ![x.on] = @ + 1]
        /\ Goto(r, "code.delete")
    BY <1>0, <1>7 DEF WritePassword, NewPassword
  <2>2. y = [at |-> "code.delete", on |-> x.on, by |-> x.by, saw |-> x.saw]
    BY <1>0, <1>1, <2>1, Goes DEF Earning
  <2>3. Tables' /\ \A a \in Accounts \ {x.on} : password'[a] = password[a]
    BY <1>3, <2>1, Renewed DEF Tables
  <2>4. Calm => x.by \in {"reset", "grant"} /\ (x.by = "grant" => Alive(x.on)')
    BY <1>4, <2>1 DEF Minds, Alive
  <2>5. Calm => (twoFactor'[x.on] # 0 => Alive(x.on)')
    BY <1>4, <1>6, <2>1 DEF Alive
  <2>6. Calm => Minds(y)' /\ Ending(y, x.on)
    BY <1>4, <2>2, <2>4 DEF Minds, Ending, Purposes
  <2>7. Calm => Minds(req[r])'
    BY <1>1, <2>6 DEF Minds
  <2> QED BY <1>0, <1>1, <1>2, <1>4, <1>5, <2>1, <2>3, <2>5, <2>6, <2>7, FollowRow
<1>8. CASE WriteFirstPassword(r)
  <2>1. /\ row' = row /\ twoFactor' = twoFactor /\ x.at = "first.write"
        /\ password' = [password EXCEPT ![x.on] = @ + 1]
        /\ Carry(r, "issue", Entry(x.on, 0, password'[x.on]))
    BY <1>0, <1>8 DEF WriteFirstPassword, NewPassword
  <2>2. y = [at |-> "issue", on |-> x.on, by |-> x.by, saw |-> Entry(x.on, 0, password'[x.on])]
    BY <1>0, <1>1, <2>1, Carries DEF Earning
  <2>3. Tables' /\ \A a \in Accounts \ {x.on} : password'[a] = password[a]
    BY <1>3, <2>1, Renewed DEF Tables
  <2>4. Calm => Alive(x.on)
    BY <1>4, <2>1 DEF Minds
  <2>5. Calm => Alive(x.on)'
    BY <2>1, <2>4 DEF Alive
  <2>6. Calm => Minds(y)' /\ Ending(y, x.on)
    BY <1>4, <2>2, <2>5 DEF Minds, Ending, Entry
  <2>7. Calm => Minds(req[r])'
    BY <1>1, <2>6 DEF Minds
  <2> QED BY <1>0, <1>1, <1>2, <1>4, <1>5, <2>1, <2>3, <2>5, <2>6, <2>7, FollowRow
<1>9. CASE Scrub(r)
  <2>1. /\ row' = [row EXCEPT ![x.on] = "deleted"] /\ x.at = "scrub"
        /\ password' = [password EXCEPT ![x.on] = 0]
        /\ twoFactor' = [twoFactor EXCEPT ![x.on] = 0]
        /\ Goto(r, "session.delete")
    BY <1>0, <1>9 DEF Scrub
  <2>2. y = [at |-> "session.delete", on |-> x.on, by |-> x.by, saw |-> x.saw]
    BY <1>0, <1>1, <2>1, Goes DEF Earning
  <2>3. Tables' /\ \A a \in Accounts \ {x.on} :
          password'[a] = password[a] /\ row'[a] = row[a] /\ twoFactor'[a] = twoFactor[a]
    BY <1>3, <2>1 DEF Tables
  <2>4. Calm => password'[x.on] = 0 /\ twoFactor'[x.on] = 0
    BY <1>3, <1>4, <2>1
  <2>5. Calm => x.by = "scrub"
    BY <1>4, <2>1 DEF Minds
  <2>6. Calm => Minds(y)' /\ Ending(y, x.on)
    BY <1>4, <2>2, <2>5 DEF Minds, Ending
  <2>7. Calm => Minds(req[r])'
    BY <1>1, <2>6 DEF Minds
  <2> QED BY <1>0, <1>1, <1>2, <1>4, <1>5, <2>3, <2>4, <2>6, <2>7, FollowRow
<1>10. CASE WriteConfirmed(r)
  <2>1. /\ row' = row /\ password' = password /\ x.at = "confirm.write"
        /\ twoFactor' \in {twoFactor, [twoFactor EXCEPT ![x.on] = x.saw.n]}
        /\ Goto(r, "code.delete")
    BY <1>0, <1>10 DEF WriteConfirmed
  <2>2. y = [at |-> "code.delete", on |-> x.on, by |-> x.by, saw |-> x.saw]
    BY <1>0, <1>1, <2>1, Goes DEF Earning
  <2>3. Tables' /\ \A a \in Accounts \ {x.on} : twoFactor'[a] = twoFactor[a]
    BY <1>3, <2>1 DEF Tables, Following
  <2>4. x.by \in Purposes
    BY <1>0, <2>1 DEF Earning, Promise, Purposes
  <2>5. Calm => Alive(x.on)
    BY <1>4, <2>1 DEF Minds
  <2>6. Calm => Alive(x.on)'
    BY <2>1, <2>5 DEF Alive
  <2>7. Calm => Minds(y)'
    BY <1>4, <2>2, <2>4, <2>6 DEF Minds
  <2>8. Calm => Minds(req[r])'
    BY <1>1, <2>7 DEF Minds
  <2>9. Calm => Current(x.on)'
    BY <1>2, <1>4, <1>6, <2>1 DEF Current, Alive, stores, Get
  <2> QED BY <1>0, <1>2, <1>4, <1>5, <2>1, <2>3, <2>6, <2>8, <2>9, FollowRow
<1> QED BY <1>7, <1>8, <1>9, <1>10

LEMMA FollowAround ==
  ASSUME Earning, Following,
         StoreChanges \/ (\E k \in SessionKeys : k[1] # "refresh" /\ Expire(k)) \/ Restart
         \/ UNCHANGED sessionVars \/ (Rest /\ UNCHANGED <<rows, made, inbox, trail, stores>>)
  PROVE  Following'
<1>1. UNCHANGED <<row, password, twoFactor, slots>>
  BY DEF StoreChanges, Expire, Restart, Rest, sessionVars, rows, flight
<1>2. Tables'
  BY <1>1 DEF Following, Tables
<1>3. Seats'
  BY <1>1 DEF StoreChanges, Expire, Restart, Rest, sessionVars, flight, Following, Seats, Idle
<1>4. CASE StoreChanges \/ Restart
  <2>1. ~Calm'
    BY <1>4 DEF StoreChanges, SwitchStore, Restart, Calm, Orderly
  <2> QED BY <1>2, <1>3, <2>1 DEF Following
<1>5. ASSUME UNCHANGED flight, Calm' => Calm,
             \A a \in Accounts : Get(Refresh(a))' = Get(Refresh(a))
      PROVE  Following'
  <2>1. ASSUME Calm', NEW a \in Accounts PROVE Follows(a)'
    BY <1>1, <1>5, <2>1 DEF Following, Follows, Current, Alive, flight
  <2>2. ASSUME Calm', NEW q \in Requests PROVE Minds(req[q])'
    BY <1>1, <1>5, <2>2 DEF Following, Minds, Alive, flight
  <2> QED BY <1>2, <1>3, <2>1, <2>2 DEF Following
<1>6. ASSUME NEW k \in SessionKeys, k[1] # "refresh", Expire(k) PROVE Following'
  <2>1. UNCHANGED flight /\ ready' = ready /\ switched' = switched
        /\ redis' = [redis EXCEPT ![k] = Absent] /\ memory' = [memory EXCEPT ![k] = Absent]
    BY <1>6 DEF Expire, ExpireKey
  <2>2. \A a \in Accounts : Refresh(a) # k
    BY <1>6 DEF Refresh
  <2>3. \A a \in Accounts : Get(Refresh(a))' = Get(Refresh(a))
    BY <2>1, <2>2, RefreshKey DEF Get, Earning, Rows
  <2>4. Calm' => Calm
    BY <2>1 DEF Calm, Orderly, OneByOne, flight
  <2> QED BY <1>5, <2>1, <2>3, <2>4
<1>7. CASE UNCHANGED sessionVars \/ (Rest /\ UNCHANGED <<rows, made, inbox, trail, stores>>)
  BY <1>5, <1>7 DEF sessionVars, Rest, flight, stores, Get, Calm, Orderly, OneByOne
<1> QED BY <1>4, <1>6, <1>7

LEMMA FollowInit == SessionInit => Following
<1> SUFFICES ASSUME SessionInit PROVE Following
  OBVIOUS
<1>1. Seats
  BY DEF SessionInit, FlightInit, Seats, Idle
<1>2. Tables
  BY DEF SessionInit, Tables
<1>3. ASSUME NEW a \in Accounts PROVE Follows(a)
  BY RefreshKey DEF SessionInit, RedisInit, Follows, Current, Get
<1>4. \A r \in Requests : Minds(req[r])
  BY DEF SessionInit, FlightInit, Minds, Idle
<1> QED BY <1>1, <1>2, <1>3, <1>4 DEF Following

LEMMA FollowNext == Earning /\ Following /\ [SessionNext]_sessionVars => Following'
<1> SUFFICES ASSUME Earning, Following, [SessionNext]_sessionVars PROVE Following'
  OBVIOUS
<1>1. ASSUME NEW r \in Requests, SessionArrive(r) PROVE Following'
  <2>1. Acts(r)
    BY <1>1, ArriveActs DEF Following
  <2> QED
    BY <1>1, <2>1, FollowArrivals, FollowOnce, FollowTokens, FollowStanding
       DEF SessionArrive, AccountEndpoints, AdminEndpoints, SocialEndpoints, Accounts, Purposes
<1>2. ASSUME NEW r \in Requests, SessionProceed(r) PROVE Following'
  <2>1. Acts(r)
    BY <1>2, ProceedActs DEF Following
  <2> QED
    BY <1>2, <2>1, FollowEnds, FollowGoes, FollowCarries, FollowTokens, FollowWrites
       DEF SessionProceed
<1> QED BY <1>1, <1>2, FollowAround DEF SessionNext

LEMMA FollowInvariance == SessionSpec => []Following
BY FollowInit, FollowNext, Invariance, PTL DEF SessionSpec

(* Requests one after the other, none dead, the connection steady: at rest *)
(* every session that can be refreshed began under the password in force,  *)
(* whatever resets, changes, grants, registrations and social sign-ins     *)
(* came before (resetPassword, setAdminPasswordAfterOtp, generateTokens).  *)
THEOREM SessionsFollow == SessionSpec => []SessionsFollowPassword
<1>1. Following => SessionsFollowPassword
  BY DEF Following, Follows, Current, Ending, SessionsFollowPassword, Steady, Calm, AtRest, Busy
<1> QED BY <1>1, FollowInvariance, PTL

(* Nor is there a session of a deleted account, or a second factor that    *)
(* would open one: whatever was open when it was deleted, and though a     *)
(* reset code from before may yet write a password on its row              *)
(* (deleteAccount, resetPassword, verifyTwoFactor).                        *)
THEOREM DeletedIsGone == SessionSpec => []DeletedStaysOut
<1>1. Following => DeletedStaysOut
  BY DEF Following, Follows, Current, Alive, Ending, DeletedStaysOut, Steady, Calm, AtRest, Busy
<1> QED BY <1>1, FollowInvariance, PTL

-----------------------------------------------------------------------------
(* Codes are used once.  What is stored is of codes that were not used,    *)
(* apart from the one a request has used and is about to take back.  Two   *)
(* codes of different accounts or purposes have different numbers; only a  *)
(* change's code and its grant are for one purpose, and they differ too.   *)
Unused(n) == n \in Codes /\ n <= Len(made) /\ uses[n] = 0

Dropping(x, p, a) == x.at = "code.delete" /\ x.by = p /\ x.on = a

Other(n, p, a) == Get(Key(p, a)) # Absent => Get(Key(p, a)).n # n

Granted(a) == Get(Key("grant", a)) # Absent => Other(Get(Key("grant", a)).n, "change", a)

OneTime(n) ==
  /\ Get(<<"selection", n>>) # Absent =>
       Unused(n) /\ made[n].for = "selection" /\ Get(<<"selection", n>>).n = n
  /\ Get(<<"exchange", n>>) # Absent => Unused(n) /\ made[n].for = "exchange"

(* The code a request holds is unused too, and there is a number left if   *)
(* it will make one.                                                       *)
Spends(x) ==
  /\ x.at \in {"code.store", "welcome.store", "exchange.store"} => Len(made) < MaxMade
  /\ x.at = "issue" /\ x.by = "redirect" => Len(made) < MaxMade
  /\ x.at \in {"first.write", "selection.delete", "selection.read"} => x.by # "redirect"
  /\ x.at \in {"confirm.write", "password.write", "change.count", "change.delete",
               "change.grant", "selection.delete"} => Unused(x.saw.n)
  /\ x.at \in {"confirm.write", "password.write"} => Numbered(x.saw.n, x.on, For(x.by))
  /\ x.at = "password.write" =>
       x.by \in {"reset", "grant"} /\ (x.by = "grant" => Other(x.saw.n, "change", x.on))
  /\ x.at \in {"change.count", "change.delete"} => Other(x.saw.n, "grant", x.on)
  /\ x.at = "change.grant" => Get(Key("change", x.on)) = Absent
  /\ x.at = "selection.delete" => made[x.saw.n].for = "selection"
  /\ x.at = "exchange.delete" => Unused(x.by) /\ made[x.by].for = "exchange"

Counted ==
  /\ Len(made) <= MaxMade
  /\ \A n \in Codes : uses[n] <= 1 /\ (n > Len(made) => uses[n] = 0)

Apiece(p, a) ==
  Get(Key(p, a)) # Absent =>
    Unused(Get(Key(p, a)).n) \/ \E r \in Requests : Dropping(req[r], p, a)

Spending ==
  /\ Seats /\ uses \in [Codes -> Nat]
  /\ Calm =>
       /\ Counted
       /\ \A p \in Purposes, a \in Accounts : Apiece(p, a)
       /\ \A a \in Accounts : Granted(a)
       /\ \A n \in Codes : OneTime(n)
       /\ \A r \in Requests : Spends(req[r])

LEMMA CodeKeys ==
  /\ \A p \in Purposes, a \in Accounts : Key(p, a) \in Keys
  /\ \A n \in Codes : <<"selection", n>> \in Keys /\ <<"exchange", n>> \in Keys
<1>1. \A p \in Purposes, a \in Accounts : Key(p, a) \in Keys
  BY KeyInUse DEF Key
<1>2. ASSUME NEW n \in Codes PROVE <<"selection", n>> \in Keys /\ <<"exchange", n>> \in Keys
  BY SessionAssumption DEF SessionKeys
<1> QED BY <1>1, <1>2

LEMMA SpendOn ==
  ASSUME Spending, NEW r \in Requests, Acts(r), uses' \in [Codes -> Nat],
         Calm /\ Calm' =>
           /\ Counted' /\ Spends(req[r])'
           /\ \A p \in Purposes, a \in Accounts :
                Get(Key(p, a))' # Absent =>
                  Unused(Get(Key(p, a)).n)' \/ Dropping(req'[r], p, a)
           /\ \A a \in Accounts : Granted(a)'
           /\ \A n \in Codes : OneTime(n)'
  PROVE  Spending'
<1>1. ASSUME Calm', NEW q \in Requests PROVE Spends(req[q])'
  <2>1. CASE q = r
    BY <1>1, <2>1 DEF Acts
  <2>2. CASE q # r
    <3>1. req'[q].at = "idle"
      BY <1>1, <2>2, Sole DEF Acts, Alone, Spending, Calm, Orderly
    <3> QED BY <3>1 DEF Spends
  <2> QED BY <2>1, <2>2
<1>2. ASSUME Calm', NEW p \in Purposes, NEW a \in Accounts PROVE Apiece(p, a)'
  BY <1>2 DEF Acts, Apiece
<1> QED BY <1>1, <1>2 DEF Spending, Acts

(* When the requests are one after the other, one acts for them all.       *)
LEMMA Own ==
  ASSUME Spending, Calm, NEW r \in slots
  PROVE  /\ Spends(req[r]) /\ Counted
         /\ \A p \in Purposes, a \in Accounts :
              Get(Key(p, a)) # Absent => Unused(Get(Key(p, a)).n) \/ Dropping(req[r], p, a)
<1>1. r \in Requests /\ \A q \in Requests \ {r} : req[q].at = "idle"
  BY Sole DEF Spending, Seats, Calm, Orderly
<1> QED BY <1>1 DEF Spending, Apiece, Dropping

(* Steps after which the store holds no code that it did not hold before.  *)
Less ==
  /\ \A p \in Purposes, a \in Accounts : Get(Key(p, a))' \in {Get(Key(p, a)), Absent}
  /\ \A n \in Codes :
       /\ Get(<<"selection", n>>)' \in {Get(<<"selection", n>>), Absent}
       /\ Get(<<"exchange", n>>)' \in {Get(<<"exchange", n>>), Absent}

LEMMA LessStill == UNCHANGED stores => Less
BY DEF stores, Get, Less

LEMMA LessDrops ==
  ASSUME Earning, NEW k, NEW v, Put(k, v), v = Absent \/ \E b : k = <<"refresh", b>>
  PROVE  Less
<1>1. ASSUME NEW q \in Keys, \A b : q # <<"refresh", b>> PROVE Get(q)' \in {Get(q), Absent}
  <2>1. CASE q = k
    BY <1>1, <2>1, Answers
  <2>2. CASE q # k
    BY <1>1, <2>2, Answers
  <2> QED BY <2>1, <2>2
<1>2. ASSUME NEW p \in Purposes, NEW a \in Accounts
      PROVE  Get(Key(p, a))' \in {Get(Key(p, a)), Absent}
  <2>1. Key(p, a) \in Keys /\ \A b : Key(p, a) # <<"refresh", b>>
    BY CodeKeys, SessionAssumption DEF Key, Purposes
  <2> QED BY <1>1, <2>1
<1>3. ASSUME NEW n \in Codes
      PROVE  /\ Get(<<"selection", n>>)' \in {Get(<<"selection", n>>), Absent}
             /\ Get(<<"exchange", n>>)' \in {Get(<<"exchange", n>>), Absent}
  BY <1>1, CodeKeys
<1> QED BY <1>2, <1>3 DEF Less

LEMMA Keeps ==
  ASSUME UNCHANGED <<made, uses>>, Less
  PROVE  /\ Counted => Counted'
         /\ \A n : Unused(n) => Unused(n)'
         /\ \A p \in Purposes, a \in Accounts : \A n : Other(n, p, a) => Other(n, p, a)'
         /\ \A a \in Accounts : Granted(a) => Granted(a)'
         /\ \A n \in Codes : OneTime(n) => OneTime(n)'
<1>1. Counted => Counted'
  BY DEF Counted
<1>2. \A n : Unused(n) => Unused(n)'
  BY DEF Unused
<1>3. ASSUME NEW p \in Purposes, NEW a \in Accounts, NEW n, Other(n, p, a) PROVE Other(n, p, a)'
  BY <1>3 DEF Less, Other
<1>4. ASSUME NEW a \in Accounts, Granted(a) PROVE Granted(a)'
  BY <1>4 DEF Less, Granted, Other, Purposes
<1>5. ASSUME NEW n \in Codes, OneTime(n) PROVE OneTime(n)'
  BY <1>2, <1>5 DEF Less, OneTime
<1> QED BY <1>1, <1>2, <1>3, <1>4, <1>5

LEMMA SpendLess ==
  ASSUME Spending, NEW r \in Requests, Acts(r), UNCHANGED <<made, uses>>, Less,
         Calm => /\ Spends(req[r])'
                 /\ \A p \in Purposes, a \in Accounts : Dropping(req[r], p, a) =>
                      Get(Key(p, a))' = Absent \/ Dropping(req'[r], p, a)
  PROVE  Spending'
<1>1. ASSUME Calm
      PROVE  /\ Counted'
             /\ \A a \in Accounts : Granted(a)'
             /\ \A n \in Codes : OneTime(n)'
  BY <1>1, Keeps DEF Spending
<1>2. ASSUME Calm, NEW p \in Purposes, NEW a \in Accounts, Get(Key(p, a))' # Absent
      PROVE  Unused(Get(Key(p, a)).n)' \/ Dropping(req'[r], p, a)
  <2>1. Get(Key(p, a))' = Get(Key(p, a)) /\ Get(Key(p, a)) # Absent
    BY <1>2 DEF Less
  <2>2. Unused(Get(Key(p, a)).n) \/ Dropping(req[r], p, a)
    BY <1>2, <2>1, Own DEF Acts
  <2> QED BY <1>2, <2>1, <2>2 DEF Unused
<1> QED BY <1>1, <1>2, SpendOn DEF Spending

(* A code is used: it was not, and no key is left that holds it, or it is  *)
(* about to be removed.                                                    *)
LEMMA Tally ==
  ASSUME uses \in [Codes -> Nat], NEW n, Used(n)
  PROVE  /\ uses' \in [Codes -> Nat]
         /\ \A q \in Codes \ {n} : uses'[q] = uses[q]
         /\ n \in Codes /\ uses[n] = 0 => uses'[n] = 1
<1>1. CASE n \in Codes
  BY <1>1 DEF Used
<1>2. CASE n \notin Codes
  BY <1>2 DEF Used
<1> QED BY <1>1, <1>2

LEMMA SpendUse ==
  ASSUME Spending, NEW r \in Requests, Acts(r), UNCHANGED made, Less, NEW n, Used(n),
         req[r].at # "code.delete",
         Calm => /\ Unused(n) /\ Spends(req[r])'
                 /\ \A p \in Purposes, a \in Accounts :
                      Get(Key(p, a))' # Absent /\ Get(Key(p, a)).n = n => Dropping(req'[r], p, a)
                 /\ Get(<<"selection", n>>)' = Absent /\ Get(<<"exchange", n>>)' = Absent
  PROVE  Spending'
<1>1. uses' \in [Codes -> Nat] /\ \A q \in Codes \ {n} : uses'[q] = uses[q]
  BY Tally DEF Spending
<1>2. Calm => uses'[n] = 1 /\ n \in Codes /\ n <= Len(made)
  BY Tally DEF Spending, Unused
<1>3. Calm => Counted'
  BY <1>1, <1>2 DEF Spending, Counted, Codes
<1>4. ASSUME NEW q, q # n, Unused(q) PROVE Unused(q)'
  BY <1>1, <1>4 DEF Unused
<1>5. ASSUME Calm, NEW p \in Purposes, NEW a \in Accounts, Get(Key(p, a))' # Absent
      PROVE  Unused(Get(Key(p, a)).n)' \/ Dropping(req'[r], p, a)
  <2>1. Get(Key(p, a))' = Get(Key(p, a)) /\ Get(Key(p, a)) # Absent
    BY <1>5 DEF Less
  <2>2. Unused(Get(Key(p, a)).n)
    BY <1>5, <2>1, Own DEF Acts, Dropping
  <2>3. PICK q : q = Get(Key(p, a)).n
    OBVIOUS
  <2>4. CASE q = n
    BY <1>5, <2>3, <2>4
  <2>5. CASE q # n
    <3>1. Unused(q)'
      BY <1>4, <2>2, <2>3, <2>5
    <3> QED BY <2>1, <2>3, <3>1 DEF Unused
  <2> QED BY <2>4, <2>5
<1>6. ASSUME Calm, NEW a \in Accounts PROVE Granted(a)'
  BY <1>6 DEF Spending, Less, Granted, Other, Purposes
<1>7. ASSUME Calm, NEW q \in Codes PROVE OneTime(q)'
  <2>1. CASE q = n
    BY <1>7, <2>1 DEF OneTime
  <2>2. CASE q # n
    BY <1>4, <1>7, <2>2 DEF Spending, Less, OneTime
  <2> QED BY <2>1, <2>2
<1> QED BY <1>1, <1>3, <1>5, <1>6, <1>7, SpendOn

(* A code is made and stored: its number is new.                           *)
LEMMA SpendMakes ==
  ASSUME Earning, Spending, NEW r \in Requests, Acts(r), UNCHANGED uses, req[r].at # "code.delete",
         NEW b \in Owners, NEW p \in Reasons, NEW n, NEW k, NEW v, Make(b, p), n = Len(made'),
         Put(k, v),
         \/ p \in Purposes \ {"grant"} /\ k = Key(p, b) /\ v.n = n
         \/ p = "selection" /\ k = <<"selection", n>> /\ v.n = n
         \/ p = "exchange" /\ k = <<"exchange", n>>,
         Calm => Len(made) < MaxMade /\ Spends(req[r])'
  PROVE  Spending'
<1>1. /\ Len(made) \in Nat /\ n = Len(made) + 1
      /\ made'[n] = [on |-> b, for |-> p]
      /\ \A q \in 1..Len(made) : made'[q] = made[q]
  BY Makes, Lengths DEF Earning
<1>2. MaxMade \in Nat /\ Codes = 1..MaxMade
  BY SessionAssumption DEF Codes
<1>3. Calm => Counted' /\ n \in Codes /\ uses'[n] = 0 /\ Unused(n)'
  <2>1. ASSUME Calm PROVE n \in Codes /\ uses[n] = 0
    BY <1>1, <1>2, <2>1 DEF Spending, Counted
  <2>2. ASSUME Calm PROVE Counted'
    BY <1>1, <1>2, <2>2 DEF Spending, Counted
  <2>3. ASSUME Calm PROVE Unused(n)'
    BY <1>1, <2>1, <2>3 DEF Unused
  <2> QED BY <2>1, <2>2, <2>3
<1>4. ASSUME NEW q, Unused(q) PROVE Unused(q)' /\ q \in 1..Len(made) /\ q # n
  BY <1>1, <1>2, <1>4 DEF Unused
<1>5. ASSUME NEW q \in Keys, q # k PROVE Get(q)' = Get(q)
  BY <1>5, Answers
<1>6. k \in Keys => Get(k)' = v
  BY Answers
<1>7. ASSUME Calm, NEW w \in Purposes, NEW a \in Accounts, Get(Key(w, a))' # Absent
      PROVE  Unused(Get(Key(w, a)).n)' \/ Dropping(req'[r], w, a)
  <2>1. Key(w, a) \in Keys /\ w \notin {"selection", "exchange"}
    BY CodeKeys, KeyInUse
  <2>2. CASE Key(w, a) = k
    <3>1. k \notin {<<"selection", n>>, <<"exchange", n>>}
      BY <2>1, <2>2 DEF Key
    <3> QED BY <1>3, <1>6, <1>7, <2>1, <2>2, <3>1 DEF Unused
  <2>3. CASE Key(w, a) # k
    <3>1. Get(Key(w, a))' = Get(Key(w, a))
      BY <1>5, <2>1, <2>3
    <3>2. Unused(Get(Key(w, a)).n)
      BY <1>7, <3>1, Own DEF Acts, Dropping
    <3>3. PICK q : q = Get(Key(w, a)).n
      OBVIOUS
    <3>4. Unused(q)'
      BY <1>4, <3>2, <3>3
    <3> QED BY <3>1, <3>3, <3>4 DEF Unused
  <2> QED BY <2>2, <2>3
<1>8. ASSUME Calm, NEW a \in Accounts PROVE Granted(a)'
  <2>1. "grant" \in Purposes /\ "change" \in Purposes
    BY DEF Purposes
  <2>2. Key("grant", a) # k
    BY SessionAssumption DEF Key, Purposes
  <2>3. Get(Key("grant", a))' = Get(Key("grant", a))
    BY <1>5, <2>1, <2>2, CodeKeys
  <2>4. CASE Key("change", a) = k
    <3>1. Get(Key("change", a))' = v /\ v.n = n
      BY <1>6, <2>1, <2>4, CodeKeys DEF Key
    <3>2. Get(Key("grant", a)) # Absent => Get(Key("grant", a)).n # n
      BY <1>4, <1>8, <2>1, Own DEF Acts, Dropping
    <3> QED BY <2>3, <3>1, <3>2 DEF Granted, Other
  <2>5. CASE Key("change", a) # k
    BY <1>5, <1>8, <2>1, <2>3, <2>5, CodeKeys DEF Spending, Granted, Other
  <2> QED BY <2>4, <2>5
<1>9. ASSUME Calm, NEW q \in Codes PROVE OneTime(q)'
  <2>1. OneTime(q)
    BY <1>9 DEF Spending
  <2>2. Get(<<"selection", q>>)' # Absent =>
          Unused(q)' /\ made'[q].for = "selection" /\ Get(<<"selection", q>>)'.n = q
    <3>1. CASE k = <<"selection", q>>
      <4>1. q = n /\ p = "selection" /\ v.n = n
        BY <3>1, SessionAssumption DEF Key, Purposes
      <4>2. Get(<<"selection", q>>)' = v
        BY <1>6, <3>1, CodeKeys
      <4>3. Unused(q)' /\ made'[q].for = "selection"
        BY <1>1, <1>3, <1>9, <4>1
      <4> QED BY <4>1, <4>2, <4>3
    <3>2. CASE k # <<"selection", q>>
      <4>1. Get(<<"selection", q>>)' = Get(<<"selection", q>>)
        BY <1>5, <3>2, CodeKeys
      <4> QED BY <1>1, <1>4, <2>1, <4>1 DEF OneTime
    <3> QED BY <3>1, <3>2
  <2>3. Get(<<"exchange", q>>)' # Absent => Unused(q)' /\ made'[q].for = "exchange"
    <3>1. CASE k = <<"exchange", q>>
      <4>1. q = n /\ p = "exchange"
        BY <3>1, SessionAssumption DEF Key, Purposes
      <4> QED BY <1>1, <1>3, <4>1, <1>9 DEF Unused
    <3>2. CASE k # <<"exchange", q>>
      <4>1. Get(<<"exchange", q>>)' = Get(<<"exchange", q>>)
        BY <1>5, <3>2, CodeKeys
      <4> QED BY <1>1, <1>4, <2>1, <4>1 DEF OneTime
    <3> QED BY <3>1, <3>2
  <2> QED BY <2>2, <2>3 DEF OneTime
<1> QED BY <1>3, <1>7, <1>8, <1>9, SpendOn DEF Spending

(* Handlers that have read and will write.                                 *)
LEMMA Vacancy ==
  ASSUME Earning, Room
  PROVE  Len(made) < MaxMade
<1>1. IsFiniteSet(Busy)
  BY FS_Subset, HandlersAssumption DEF Busy
<1>2. Cardinality(Busy) \in Nat /\ Len(made) \in Nat /\ MaxMade \in Nat
  BY <1>1, FS_CardinalityType, Lengths, SessionAssumption DEF Earning
<1> QED BY <1>2 DEF Room

LEMMA SpendBegins ==
  ASSUME Earning, Spending, NEW r \in Requests, Acts(r), NEW at, NEW on \in Owners, NEW by,
         NEW saw, Begin(r, at, on, by, saw), UNCHANGED <<made, uses>>, UNCHANGED stores,
         Calm => Spends([at |-> at, on |-> on, by |-> by, saw |-> saw])
  PROVE  Spending'
<1>1. req'[r] = [at |-> at, on |-> on, by |-> by, saw |-> saw]
  BY Begins DEF Earning
<1>2. req[r].at = "idle"
  BY DEF Begin, Free
<1>3. PICK y : y = [at |-> at, on |-> on, by |-> by, saw |-> saw]
  OBVIOUS
<1>4. Calm => Spends(y)'
  BY <1>3 DEF Spends, Unused, Numbered, Other, stores, Get
<1>5. Calm => Spends(req[r])'
  BY <1>1, <1>3, <1>4 DEF Spends
<1> QED BY <1>2, <1>5, LessStill, SpendLess DEF Dropping

(* A code in the store, while nobody else is at it, is unused and for the  *)
(* account and purpose of its key.                                         *)
LEMMA Worth ==
  ASSUME Earning, Spending, Calm, NEW r \in slots, req[r].at = "idle",
         NEW p \in Purposes, NEW a \in Accounts, Get(Key(p, a)) # Absent
  PROVE  Unused(Get(Key(p, a)).n) /\ Numbered(Get(Key(p, a)).n, a, For(p))
BY Own, Shown DEF Dropping, Sound

LEMMA SpendArrivals ==
  ASSUME Earning, Spending, NEW r \in Requests, Acts(r),
         \/ \E a \in Accounts :
              \/ Login(r, a) \/ VerifyTwoFactor(r, a) \/ RefreshTokens(r, a) \/ Register(r, a)
              \/ SetAdminPassword(r, a) \/ SetPasswordAfterCode(r, a) \/ DeleteAccount(r, a)
              \/ (\E p \in Purposes : RequestCode(r, a, p)) \/ \E via : SocialLogin(r, a, via)
         \/ \E m \in inbox :
              \/ Exchange(r, m)
              \/ \E a \in Accounts : \/ SelectAccount(r, m, a) \/ ResetPassword(r, m, a)
                                     \/ VerifyChangeCode(r, m, a)
                                     \/ \E p \in Channels \cup {"setup"} : Confirm(r, m, a, p)
  PROVE  Spending'
<1> DEFINE Starts(at, on, by, saw) ==
      Begin(r, at, on, by, saw) /\ (Calm => Spends([at |-> at, on |-> on, by |-> by, saw |-> saw]))
           Goal == \E at, by, saw : \E on \in Owners : Starts(at, on, by, saw)
<1>1. UNCHANGED <<made, uses>> /\ UNCHANGED stores /\ req[r].at = "idle"
  BY DEF Login, VerifyTwoFactor, RefreshTokens, SetAdminPassword, SetPasswordAfterCode, Free,
         DeleteAccount, RequestCode, SocialLogin, Exchange, SelectAccount, ResetPassword,
         Register,
         VerifyChangeCode, Confirm, StartSession, trail, Begin
<1>2. Goal
  <2>1. ASSUME NEW a \in Accounts,
               \/ Login(r, a) \/ VerifyTwoFactor(r, a) \/ RefreshTokens(r, a) \/ Register(r, a)
               \/ SetAdminPassword(r, a) \/ DeleteAccount(r, a)
               \/ (\E p \in Purposes : RequestCode(r, a, p)) \/ \E via : SocialLogin(r, a, via)
        PROVE  Goal
    <3>1. PICK at \in {"issue", "welcome.store", "first.write", "scrub", "code.store"} :
            \E by, saw :
              /\ Begin(r, at, a, by, saw)
              /\ at = "first.write" => by = "direct"
              /\ at \in {"welcome.store", "code.store"} => Room
              /\ at = "issue" => Room \/ by = "direct"
      BY <2>1 DEF Login, VerifyTwoFactor, RefreshTokens, Register, SetAdminPassword,
           DeleteAccount,
                  RequestCode, SocialLogin, StartSession
    <3>2. PICK by, saw :
              /\ Begin(r, at, a, by, saw)
              /\ at = "first.write" => by = "direct"
              /\ at \in {"welcome.store", "code.store"} => Room
              /\ at = "issue" => Room \/ by = "direct"
      BY <3>1
    <3>3. Spends([at |-> at, on |-> a, by |-> by, saw |-> saw])
      BY <3>1, <3>2, Vacancy DEF Spends
    <3> QED BY <3>2, <3>3 DEF Owners
  <2>2. ASSUME NEW a \in Accounts, NEW p \in Purposes, NEW at \in {"password.write", "confirm.write"},
               Get(Key(p, a)) # Absent, Begin(r, at, a, p, Get(Key(p, a))),
               at = "password.write" => p \in {"reset", "grant"}
        PROVE  Goal
    <3>1. PICK v : v = Get(Key(p, a))
      OBVIOUS
    <3>2. Calm => Unused(v.n) /\ Numbered(v.n, a, For(p))
      BY <1>1, <2>2, <3>1, Worth DEF Acts
    <3>3. Calm /\ p = "grant" => Other(v.n, "change", a)
      BY <2>2, <3>1 DEF Spending, Granted
    <3>4. Calm => Spends([at |-> at, on |-> a, by |-> p, saw |-> v])
      BY <2>2, <3>2, <3>3 DEF Spends
    <3> QED BY <2>2, <3>1, <3>4 DEF Owners
  <2>3. ASSUME NEW a \in Accounts, NEW m \in inbox, VerifyChangeCode(r, m, a) PROVE Goal
    <3>1. PICK v : v = Get(Key("change", a))
      OBVIOUS
    <3>2. PICK at \in {"change.delete", "change.count"} : Begin(r, at, a, "change", v)
      BY <2>3, <3>1 DEF VerifyChangeCode
    <3>3. Calm => Unused(v.n)
      BY <1>1, <2>3, <3>1, Worth DEF Acts, VerifyChangeCode, Purposes
    <3>4. Calm => Other(v.n, "grant", a)
      BY <2>3, <3>1 DEF VerifyChangeCode, Spending, Granted, Other
    <3>5. Calm => Spends([at |-> at, on |-> a, by |-> "change", saw |-> v])
      BY <3>2, <3>3, <3>4 DEF Spends
    <3> QED BY <3>2, <3>5 DEF Owners
  <2>4. ASSUME NEW m \in inbox, Calm PROVE m.n \in Codes
    <3>1. m.n \in 1..Len(made) /\ Len(made) <= MaxMade /\ Len(made) \in Nat
      BY <2>4, Lengths DEF Earning, Vouched, Numbered, Spending, Counted
    <3> QED BY <3>1, SessionAssumption DEF Codes
  <2>5. ASSUME NEW a \in Accounts, NEW m \in inbox, SelectAccount(r, m, a) PROVE Goal
    <3>1. PICK v : v = Get(<<"selection", m.n>>)
      OBVIOUS
    <3>2. Begin(r, "selection.delete", a, "direct", v) /\ v # Absent
      BY <2>5, <3>1 DEF SelectAccount
    <3>3. Calm => Unused(v.n) /\ made[v.n].for = "selection"
      BY <2>4, <3>1, <3>2 DEF Spending, OneTime
    <3>4. Calm => Spends([at |-> "selection.delete", on |-> a, by |-> "direct", saw |-> v])
      BY <3>3 DEF Spends
    <3> QED BY <3>2, <3>4 DEF Owners
  <2>6. ASSUME NEW m \in inbox, Exchange(r, m) PROVE Goal
    <3>1. PICK v : v = Get(<<"exchange", m.n>>)
      OBVIOUS
    <3>2. Begin(r, "exchange.delete", m.on, m.n, v) /\ v # Absent
      BY <2>6, <3>1 DEF Exchange
    <3>3. Calm => Unused(m.n) /\ made[m.n].for = "exchange"
      BY <2>4, <3>1, <3>2 DEF Spending, OneTime
    <3>4. Calm => Spends([at |-> "exchange.delete", on |-> m.on, by |-> m.n, saw |-> v])
      BY <3>3 DEF Spends
    <3> QED BY <3>2, <3>4, Readers
  <2>7. ASSUME NEW a \in Accounts, SetPasswordAfterCode(r, a) PROVE Goal
    BY <2>2, <2>7 DEF SetPasswordAfterCode, Purposes
  <2>8. ASSUME NEW a \in Accounts, NEW m \in inbox, ResetPassword(r, m, a) PROVE Goal
    BY <2>2, <2>8 DEF ResetPassword, Matches, Purposes
  <2>9. ASSUME NEW a \in Accounts, NEW m \in inbox, NEW p \in Channels \cup {"setup"},
               Confirm(r, m, a, p)
        PROVE  Goal
    BY <2>2, <2>9 DEF Confirm, Matches, Purposes
  <2> HIDE DEF Goal
  <2> QED BY <2>1, <2>3, <2>5, <2>6, <2>7, <2>8, <2>9
<1>3. PICK at, by, saw : \E on \in Owners : Starts(at, on, by, saw)
  BY <1>2
<1>4. PICK on \in Owners : Starts(at, on, by, saw)
  BY <1>3
<1> QED BY <1>1, <1>4, SpendBegins

(* Steps that write neither codes nor the store.                           *)
LEMMA SpendPasses ==
  ASSUME Earning, Spending, NEW r \in Requests, Acts(r),
         ReadSelected(r) \/ SendCode(r) \/ SendWelcome(r) \/ WriteFirstPassword(r) \/ Scrub(r)
         \/ StopSession(r) \/ \E a \in Accounts : Suspend(r, a) \/ Unsuspend(r, a)
  PROVE  Spending'
<1>0. PICK x : x = req[r]
  OBVIOUS
<1>1. UNCHANGED <<made, uses>> /\ UNCHANGED stores
  BY DEF ReadSelected, SendCode, SendWelcome, WriteFirstPassword, Scrub, StopSession, Suspend,
         Unsuspend, trail
<1>2. Calm => Spends(x)
  BY <1>0, Own DEF Acts
<1>3. PICK y : y = req'[r]
  OBVIOUS
<1>4. CASE Die(r)
  <2>1. ~Calm'
    BY <1>4 DEF Die, Calm, Orderly
  <2> QED BY <1>1, <2>1, SpendOn DEF Spending
<1>5. CASE ~Die(r)
  <2>1. Calm => y.at \in {"idle", "session.delete"} \/ (y.at = "issue" /\ y.by # "redirect")
    <3>1. CASE ReadSelected(r) \/ WriteFirstPassword(r)
      <4>1. PICK v : Carry(r, "issue", v) /\ x.at \in {"selection.read", "first.write"}
        BY <1>0, <3>1 DEF ReadSelected, WriteFirstPassword
      <4>2. y = [at |-> "issue", on |-> x.on, by |-> x.by, saw |-> v]
        BY <1>0, <1>3, <4>1, Carries DEF Earning
      <4> QED BY <1>2, <4>1, <4>2 DEF Spends
    <3>2. CASE SendWelcome(r)
      <4>1. PICK v : Carry(r, "issue", v) /\ x.at = "welcome.send"
        BY <1>0, <3>2 DEF SendWelcome
      <4>2. y = [at |-> "issue", on |-> x.on, by |-> x.by, saw |-> v]
        BY <1>0, <1>3, <4>1, Carries DEF Earning
      <4>3. x.by \in Purposes \ {"grant", "setup"}
        BY <1>0, <4>1 DEF Earning, Promise
      <4> QED BY <4>2, <4>3, SessionAssumption DEF Purposes
    <3>3. CASE Scrub(r)
      <4>1. y = [at |-> "session.delete", on |-> x.on, by |-> x.by, saw |-> x.saw]
        BY <1>0, <1>3, <3>3, Goes DEF Earning, Scrub
      <4> QED BY <4>1
    <3>4. CASE SendCode(r) \/ StopSession(r)
      BY <1>3, <1>5, <3>4 DEF SendCode, StopSession, End, Idle, Earning, Slotted
    <3>5. CASE \E a \in Accounts : Suspend(r, a) \/ Unsuspend(r, a)
      BY <1>3, <3>5 DEF Suspend, Unsuspend, Once, Free, flight
    <3> QED BY <3>1, <3>2, <3>3, <3>4, <3>5
  <2>2. Calm => Spends(req[r])'
    BY <1>3, <2>1 DEF Spends
  <2>3. x.at # "code.delete"
    BY <1>0, <1>5 DEF ReadSelected, SendCode, SendWelcome, WriteFirstPassword, Scrub, StopSession,
         Suspend, Unsuspend, SessionRefused, Once, Free
  <2> QED BY <1>0, <1>1, <2>2, <2>3, LessStill, SpendLess DEF Dropping
<1> QED BY <1>4, <1>5

(* Sessions are stored, and keys removed.                                  *)
LEMMA SpendRemoves ==
  ASSUME Earning, Spending, NEW r \in Requests, Acts(r),
         IssueTokens(r) \/ DeleteCode(r) \/ DeleteSession(r) \/ DeleteChangeCode(r)
         \/ \E a \in Accounts : Logout(r, a) \/ VerifyExhausted(r, a)
  PROVE  Spending'
<1>0. PICK x : x = req[r]
  OBVIOUS
<1>1. UNCHANGED <<made, uses>>
  BY DEF IssueTokens, DeleteCode, DeleteSession, DeleteChangeCode, Logout, VerifyExhausted, trail
<1>2. Calm => Spends(x)
  BY <1>0, Own DEF Acts
<1>3. PICK y : y = req'[r]
  OBVIOUS
<1>4. CASE \E a \in Accounts : Logout(r, a) \/ VerifyExhausted(r, a)
  <2>1. PICK k : Put(k, Absent)
    BY <1>4 DEF Logout, VerifyExhausted, Del
  <2>2. x.at = "idle" /\ y = x
    BY <1>0, <1>3, <1>4 DEF Logout, VerifyExhausted, Once, Free, flight
  <2>3. Spends(req[r])'
    BY <1>3, <2>2 DEF Spends
  <2> QED BY <1>0, <1>1, <2>1, <2>2, <2>3, LessDrops, SpendLess DEF Dropping
<1>5. CASE IssueTokens(r)
  <2>1. Put(Refresh(x.on), x.saw) /\ x.at = "issue"
    BY <1>0, <1>5 DEF IssueTokens
  <2>2. Less
    BY <2>1, LessDrops DEF Refresh
  <2>3. Calm => Spends(req[r])'
    <3>1. CASE x.by = "redirect"
      <4>1. Goto(r, "exchange.store")
        BY <1>0, <1>5, <3>1 DEF IssueTokens
      <4>2. y = [at |-> "exchange.store", on |-> x.on, by |-> x.by, saw |-> x.saw]
        BY <1>0, <1>3, <4>1, Goes DEF Earning
      <4> QED BY <1>1, <1>2, <1>3, <2>1, <3>1, <4>2 DEF Spends
    <3>2. CASE x.by # "redirect"
      <4>1. y.at = "idle"
        BY <1>0, <1>3, <1>5, <3>2 DEF IssueTokens, End, Idle, Earning, Slotted
      <4> QED BY <1>3, <4>1 DEF Spends
    <3> QED BY <3>1, <3>2
  <2> QED BY <1>0, <1>1, <2>1, <2>2, <2>3, SpendLess DEF Dropping
<1>6. CASE DeleteSession(r)
  <2>1. Put(Refresh(x.on), Absent) /\ x.at = "session.delete"
    BY <1>0, <1>6 DEF DeleteSession, Del
  <2>2. Less
    BY <2>1, LessDrops
  <2>3. Spends(req[r])'
    <3>1. CASE x.by = "grant"
      <4>1. PICK v : Carry(r, "issue", v)
        BY <1>0, <1>6, <3>1 DEF DeleteSession
      <4>2. y = [at |-> "issue", on |-> x.on, by |-> x.by, saw |-> v]
        BY <1>0, <1>3, <4>1, Carries DEF Earning
      <4> QED BY <1>3, <3>1, <4>2 DEF Spends
    <3>2. CASE x.by # "grant"
      <4>1. y.at = "idle"
        BY <1>0, <1>3, <1>6, <3>2 DEF DeleteSession, End, Idle, Earning, Slotted
      <4> QED BY <1>3, <4>1 DEF Spends
    <3> QED BY <3>1, <3>2
  <2> QED BY <1>0, <1>1, <2>1, <2>2, <2>3, SpendLess DEF Dropping
<1>7. CASE DeleteCode(r)
  <2>1. Put(Key(x.by, x.on), Absent) /\ x.at = "code.delete"
    BY <1>0, <1>7 DEF DeleteCode, Del
  <2>2. Less
    BY <2>1, LessDrops
  <2>3. \A p \in Purposes, a \in Accounts : Dropping(x, p, a) => Get(Key(p, a))' = Absent
    BY <2>1, Answers, CodeKeys DEF Dropping
  <2>4. y.at \in {"idle", "session.delete"}
    <3>1. CASE End(r)
      BY <1>3, <3>1 DEF End, Idle, Earning, Slotted
    <3>2. CASE Goto(r, "session.delete")
      <4>1. y = [at |-> "session.delete", on |-> x.on, by |-> x.by, saw |-> x.saw]
        BY <1>0, <1>3, <3>2, Goes DEF Earning
      <4> QED BY <4>1
    <3> QED BY <1>7, <3>1, <3>2 DEF DeleteCode
  <2>5. Spends(req[r])'
    BY <1>3, <2>4 DEF Spends
  <2> QED BY <1>0, <1>1, <2>2, <2>3, <2>5, SpendLess
<1>8. CASE DeleteChangeCode(r)
  <2>1. Put(Key("change", x.on), Absent) /\ x.at = "change.delete" /\ Goto(r, "change.grant")
    BY <1>0, <1>8 DEF DeleteChangeCode, Del
  <2>2. Less
    BY <2>1, LessDrops
  <2>3. y = [at |-> "change.grant", on |-> x.on, by |-> x.by, saw |-> x.saw]
    BY <1>0, <1>3, <2>1, Goes DEF Earning
  <2>4. PICK a \in Accounts : a = x.on
    BY <1>0, <2>1 DEF Earning, Promise
  <2>5. Get(Key("change", a))' = Absent
    BY <2>1, <2>4, Answers, CodeKeys DEF Purposes
  <2>6. Calm => Unused(x.saw.n)'
    BY <1>1, <1>2, <2>1 DEF Spends, Unused
  <2>7. Calm => Spends(y)'
    BY <2>3, <2>4, <2>5, <2>6 DEF Spends
  <2>8. Calm => Spends(req[r])'
    BY <1>3, <2>7 DEF Spends
  <2> QED BY <1>0, <1>1, <2>1, <2>2, <2>8, SpendLess DEF Dropping
<1> QED BY <1>4, <1>5, <1>6, <1>7, <1>8

(* A guess is counted, and a change granted, with the code that was there. *)
LEMMA SpendRewrites ==
  ASSUME Earning, Spending, NEW r \in Requests, Acts(r), CountAttempt(r) \/ Grant(r)
  PROVE  Spending'
<1>0. PICK x : x = req[r]
  OBVIOUS
<1>1. UNCHANGED <<made, uses>> /\ End(r)
  BY DEF CountAttempt, Grant, trail
<1>2. Calm => Spends(x)
  BY <1>0, Own DEF Acts
<1>3. x.at \in {"change.count", "change.grant"} /\ x.on \in Accounts /\ x.saw \in Entries
  BY <1>0 DEF CountAttempt, Grant, Earning, Promise, Sound
<1>4. PICK b \in Accounts : b = x.on
  BY <1>3
<1>5. PICK p \in {"change", "grant"} : p = "change" <=> x.at = "change.count"
  OBVIOUS
<1>6. PICK q \in {"change", "grant"} : q # p
  BY <1>5
<1>7. \E v : Put(Key(p, b), v) /\ v.n = x.saw.n
  <2>1. CASE CountAttempt(r)
    <3>1. PICK v : v = [x.saw EXCEPT !.tries = @ + 1]
      OBVIOUS
    <3>2. v.n = x.saw.n
      BY <1>3, <3>1 DEF Entries
    <3> QED BY <1>0, <1>4, <1>5, <2>1, <3>1, <3>2 DEF CountAttempt
  <2>2. CASE Grant(r)
    BY <1>0, <1>4, <1>5, <2>2 DEF Grant
  <2> QED BY <2>1, <2>2
<1>8. PICK v : Put(Key(p, b), v) /\ v.n = x.saw.n
  BY <1>7
<1>9. Calm => Unused(v.n) /\ Other(v.n, q, b)
  BY <1>2, <1>3, <1>4, <1>5, <1>6, <1>8 DEF Spends, Other
<1>10. Key(p, b) \in Keys /\ Get(Key(p, b))' = v
  BY <1>8, Answers, CodeKeys DEF Purposes
<1>11. ASSUME NEW w \in Purposes, NEW a \in Accounts, Key(w, a) # Key(p, b)
       PROVE  Get(Key(w, a))' = Get(Key(w, a))
  BY <1>8, <1>11, Answers, CodeKeys
<1>12. ASSUME Calm, NEW w \in Purposes, NEW a \in Accounts, Get(Key(w, a))' # Absent
       PROVE  Unused(Get(Key(w, a)).n)'
  <2>1. CASE Key(w, a) = Key(p, b)
    BY <1>1, <1>9, <1>10, <1>12, <2>1 DEF Unused
  <2>2. CASE Key(w, a) # Key(p, b)
    <3>1. Get(Key(w, a))' = Get(Key(w, a))
      BY <1>11, <2>2
    <3>2. Unused(Get(Key(w, a)).n)
      BY <1>0, <1>3, <1>12, <3>1, Own DEF Acts, Dropping
    <3> QED BY <1>1, <3>1, <3>2 DEF Unused
  <2> QED BY <2>1, <2>2
<1>13. ASSUME Calm, NEW a \in Accounts PROVE Granted(a)'
  <2>1. p \in Purposes /\ q \in Purposes /\ {p, q} = {"change", "grant"}
    BY <1>5, <1>6 DEF Purposes
  <2>2. CASE a = b
    <3>1. Key(q, b) # Key(p, b)
      BY <1>6 DEF Key
    <3>2. Get(Key(q, b))' = Get(Key(q, b))
      BY <1>11, <2>1, <3>1
    <3>3. Get(Key(q, b))' # Absent => Get(Key(q, b))'.n # Get(Key(p, b))'.n
      BY <1>9, <1>10, <1>13, <3>2 DEF Other
    <3> QED BY <2>1, <2>2, <3>3 DEF Granted, Other
  <2>3. CASE a # b
    <3>1. \A w \in {"change", "grant"} : Key(w, a) # Key(p, b)
      BY <2>3 DEF Key
    <3>2. /\ Get(Key("change", a))' = Get(Key("change", a))
          /\ Get(Key("grant", a))' = Get(Key("grant", a))
      BY <1>11, <3>1 DEF Purposes
    <3> QED BY <1>13, <3>2 DEF Spending, Granted, Other
  <2> QED BY <2>2, <2>3
<1>14. ASSUME Calm, NEW n \in Codes PROVE OneTime(n)'
  <2>1. <<"selection", n>> # Key(p, b) /\ <<"exchange", n>> # Key(p, b)
    BY <1>5 DEF Key
  <2>2. /\ Get(<<"selection", n>>)' = Get(<<"selection", n>>)
        /\ Get(<<"exchange", n>>)' = Get(<<"exchange", n>>)
    BY <1>8, <2>1, Answers, CodeKeys
  <2>3. Unused(n) => Unused(n)'
    BY <1>1 DEF Unused
  <2> QED BY <1>1, <1>14, <2>2, <2>3 DEF Spending, OneTime
<1>15. Spends(req[r])'
  <2>1. req'[r].at = "idle"
    BY <1>1 DEF End, Idle, Earning, Slotted
  <2> QED BY <2>1 DEF Spends
<1>16. Calm => Counted'
  BY <1>1 DEF Spending, Counted
<1> QED BY <1>1, <1>12, <1>13, <1>14, <1>15, <1>16, SpendOn DEF Spending

(* What codes are for is done.                                             *)
LEMMA SpendEffects ==
  ASSUME Earning, Spending, NEW r \in Requests, Acts(r), WriteConfirmed(r) \/ WritePassword(r)
  PROVE  Spending'
<1>0. PICK x : x = req[r]
  OBVIOUS
<1>1. UNCHANGED made /\ UNCHANGED stores /\ Used(x.saw.n) /\ Goto(r, "code.delete")
      /\ x.at \in {"confirm.write", "password.write"}
  BY <1>0 DEF WriteConfirmed, WritePassword
<1>2. Calm => Spends(x)
  BY <1>0, Own DEF Acts
<1>3. PICK y : y = req'[r]
  OBVIOUS
<1>4. y = [at |-> "code.delete", on |-> x.on, by |-> x.by, saw |-> x.saw]
  BY <1>0, <1>1, <1>3, Goes DEF Earning
<1>5. Spends(req[r])'
  BY <1>3, <1>4 DEF Spends
<1>6. PICK n : n = x.saw.n
  OBVIOUS
<1>7. Calm => /\ Unused(n) /\ made[n] = [on |-> x.on, for |-> For(x.by)]
              /\ x.by = "grant" => Other(n, "change", x.on)
              /\ x.by \in Purposes \ {"change"}
  <2>1. Calm => Unused(n) /\ Numbered(n, x.on, For(x.by))
    BY <1>1, <1>2, <1>6 DEF Spends
  <2>2. Calm /\ x.at = "password.write" =>
          x.by \in {"reset", "grant"} /\ (x.by = "grant" => Other(n, "change", x.on))
    BY <1>2, <1>6 DEF Spends
  <2>3. x.at = "confirm.write" => x.by \in Channels \cup {"setup"}
    BY <1>0 DEF Earning, Promise
  <2> QED BY <1>1, <2>1, <2>2, <2>3, SessionAssumption DEF Numbered, Purposes
<1>8. ASSUME Calm, NEW p \in Purposes, NEW a \in Accounts, Get(Key(p, a))' # Absent,
             Get(Key(p, a)).n = n
      PROVE  Dropping(req'[r], p, a)
  <2>1. Get(Key(p, a))' = Get(Key(p, a)) /\ Get(Key(p, a)) # Absent
    BY <1>1, <1>8 DEF stores, Get
  <2>2. made[n] = [on |-> a, for |-> For(p)]
    BY <1>8, <2>1, Shown DEF Sound, Numbered
  <2>3. a = x.on /\ For(p) = For(x.by)
    BY <1>7, <1>8, <2>2
  <2>4. ~(x.by = "grant" /\ p = "change")
    BY <1>7, <1>8, <2>1, <2>3 DEF Other
  <2>5. p = x.by
    BY <1>7, <1>8, <2>3, <2>4 DEF For
  <2> QED BY <1>3, <1>4, <2>3, <2>5 DEF Dropping
<1>9. Calm => Get(<<"selection", n>>)' = Absent /\ Get(<<"exchange", n>>)' = Absent
  <2>1. Calm => made[n].for \notin {"selection", "exchange"} /\ n \in Codes
    BY <1>7, SessionAssumption DEF For, Purposes, Unused
  <2>2. Calm => Get(<<"selection", n>>) = Absent /\ Get(<<"exchange", n>>) = Absent
    BY <2>1 DEF Spending, OneTime
  <2> QED BY <1>1, <2>2 DEF stores, Get
<1>10. req[r].at # "code.delete"
  BY <1>0, <1>1
<1>11. Used(n)
  BY <1>1, <1>6
<1> QED BY <1>1, <1>5, <1>7, <1>8, <1>9, <1>10, <1>11, LessStill, SpendUse

LEMMA SpendTickets ==
  ASSUME Earning, Spending, NEW r \in Requests, Acts(r), DeleteSelection(r) \/ DeleteExchange(r)
  PROVE  Spending'
<1>0. PICK x : x = req[r]
  OBVIOUS
<1>1. PICK w \in {"selection", "exchange"} : w = "selection" <=> x.at = "selection.delete"
  OBVIOUS
<1>2. PICK n : n = IF w = "selection" THEN x.saw.n ELSE x.by
  OBVIOUS
<1>3. UNCHANGED made /\ Used(n) /\ Put(<<w, n>>, Absent)
      /\ x.at \in {"selection.delete", "exchange.delete"}
  <2>1. CASE DeleteSelection(r)
    BY <1>0, <1>1, <1>2, <2>1 DEF DeleteSelection, Del
  <2>2. CASE DeleteExchange(r)
    BY <1>0, <1>1, <1>2, <2>2 DEF DeleteExchange, Del
  <2> QED BY <2>1, <2>2
<1>4. Calm => Spends(x)
  BY <1>0, Own DEF Acts
<1>5. Calm => Unused(n) /\ made[n].for = w
  BY <1>1, <1>2, <1>3, <1>4 DEF Spends
<1>6. Less
  BY <1>3, LessDrops
<1>7. Calm => Get(<<"selection", n>>)' = Absent /\ Get(<<"exchange", n>>)' = Absent
  <2>1. Calm => n \in Codes
    BY <1>5 DEF Unused
  <2>2. Calm => Get(<<w, n>>)' = Absent
    BY <1>1, <1>3, <2>1, Answers, CodeKeys
  <2>3. Calm /\ w = "selection" => Get(<<"exchange", n>>) = Absent
    BY <1>5, <2>1 DEF Spending, OneTime
  <2>4. Calm /\ w = "exchange" => Get(<<"selection", n>>) = Absent
    BY <1>5, <2>1 DEF Spending, OneTime
  <2> QED BY <1>1, <1>6, <2>1, <2>2, <2>3, <2>4 DEF Less
<1>8. ASSUME Calm, NEW p \in Purposes, NEW a \in Accounts, Get(Key(p, a))' # Absent,
             Get(Key(p, a)).n = n
      PROVE  FALSE
  <2>1. Get(Key(p, a)) # Absent
    BY <1>6, <1>8 DEF Less
  <2>2. made[n] = [on |-> a, for |-> For(p)]
    BY <1>8, <2>1, Shown DEF Sound, Numbered
  <2>3. For(p) \notin {"selection", "exchange"}
    BY SessionAssumption DEF For, Purposes
  <2> QED BY <1>1, <1>5, <1>8, <2>2, <2>3
<1>9. Calm => Spends(req[r])'
  <2>1. CASE DeleteSelection(r)
    <3>1. Goto(r, "selection.read") /\ x.at = "selection.delete"
      BY <1>0, <2>1 DEF DeleteSelection
    <3>2. PICK y : y = req'[r]
      OBVIOUS
    <3>3. y = [at |-> "selection.read", on |-> x.on, by |-> x.by, saw |-> x.saw]
      BY <1>0, <3>1, <3>2, Goes DEF Earning
    <3>4. Calm => x.by # "redirect"
      BY <1>4, <3>1 DEF Spends
    <3> QED BY <3>2, <3>3, <3>4 DEF Spends
  <2>2. CASE DeleteExchange(r)
    <3>1. req'[r].at = "idle"
      BY <2>2 DEF DeleteExchange, End, Idle, Earning, Slotted
    <3> QED BY <3>1 DEF Spends
  <2> QED BY <2>1, <2>2
<1>10. req[r].at # "code.delete"
  BY <1>0, <1>3
<1> QED BY <1>3, <1>5, <1>6, <1>7, <1>8, <1>9, <1>10, SpendUse

(* Codes are made where there is a number left.                            *)
LEMMA SpendCodes ==
  ASSUME Earning, Spending, NEW r \in Requests, Acts(r),
         StoreCode(r) \/ StoreExchange(r) \/ (\E a \in Accounts : SetupTwoFactor(r, a))
         \/ \E t \in Twins : OfferSelection(r, t)
  PROVE  Spending'
<1>0. PICK x : x = req[r]
  OBVIOUS
<1>1. UNCHANGED uses /\ x.at # "code.delete"
  BY <1>0 DEF StoreCode, StoreExchange, SetupTwoFactor, OfferSelection, trail, Once, Free
<1>2. Calm => Spends(x)
  BY <1>0, Own DEF Acts
<1>3. PICK n : n = Len(made')
  OBVIOUS
<1>4. CASE StoreCode(r)
  <2>1. x.on \in Accounts /\ x.by \in Purposes \ {"grant", "setup"}
        /\ x.at \in {"code.store", "welcome.store"}
    BY <1>0, <1>4 DEF StoreCode, Earning, Promise
  <2>2. PICK v : v = Entry(x.on, n, 0)
    OBVIOUS
  <2>3. Make(x.on, x.by) /\ Put(Key(x.by, x.on), v) /\ v.n = n
    BY <1>0, <1>3, <1>4, <2>2 DEF StoreCode, Entry
  <2>4. PICK at \in {"code.send", "welcome.send"} : Carry(r, at, n)
    BY <1>3, <1>4 DEF StoreCode
  <2>5. req'[r] = [at |-> at, on |-> x.on, by |-> x.by, saw |-> n]
    BY <1>0, <2>4, Carries DEF Earning
  <2>6. Spends(req[r])'
    BY <2>5 DEF Spends
  <2>7. Calm => Len(made) < MaxMade
    BY <1>2, <2>1 DEF Spends
  <2>8. x.on \in Owners /\ x.by \in Reasons /\ x.by \in Purposes \ {"grant"}
    BY <2>1 DEF Owners, Reasons
  <2> QED BY <1>0, <1>1, <1>3, <2>3, <2>6, <2>7, <2>8, SpendMakes
<1>5. CASE StoreExchange(r)
  <2>1. PICK k, v : k = <<"exchange", n>> /\ v = x.saw
    OBVIOUS
  <2>2. Make(x.on, "exchange") /\ Put(k, v) /\ x.at = "exchange.store" /\ End(r)
    BY <1>0, <1>3, <1>5, <2>1 DEF StoreExchange
  <2>3. x.on \in Owners /\ "exchange" \in Reasons
    BY <1>0 DEF Earning, Slotted, Shaped, Reasons
  <2>4. Spends(req[r])'
    <3>1. req'[r].at = "idle"
      BY <2>2 DEF End, Idle, Earning, Slotted
    <3> QED BY <3>1 DEF Spends
  <2>5. Calm => Len(made) < MaxMade
    BY <1>2, <2>2 DEF Spends
  <2> QED BY <1>0, <1>1, <1>3, <2>1, <2>2, <2>3, <2>4, <2>5, SpendMakes
<1>6. ASSUME NEW a \in Accounts, SetupTwoFactor(r, a) PROVE Spending'
  <2>1. PICK v : v = Entry(a, n, 0)
    OBVIOUS
  <2>2. Make(a, "setup") /\ Put(Key("setup", a), v) /\ v.n = n /\ Room /\ Once(r)
    BY <1>3, <1>6, <2>1 DEF SetupTwoFactor, Entry
  <2>3. Spends(req[r])'
    BY <2>2 DEF Once, Free, flight, Spends
  <2>4. a \in Owners /\ "setup" \in Reasons /\ "setup" \in Purposes \ {"grant"}
    BY DEF Owners, Reasons, Purposes
  <2> QED BY <1>0, <1>1, <1>3, <2>2, <2>3, <2>4, Vacancy, SpendMakes
<1>7. ASSUME NEW t \in Twins, OfferSelection(r, t) PROVE Spending'
  <2>1. PICK k, v : k = <<"selection", n>> /\ v = Entry(t[1], n, 0)
    OBVIOUS
  <2>2. Make(t[1], "selection") /\ Put(k, v) /\ v.n = n /\ Room /\ Once(r)
    BY <1>3, <1>7, <2>1 DEF OfferSelection, Entry
  <2>3. Spends(req[r])'
    BY <2>2 DEF Once, Free, flight, Spends
  <2>4. t[1] \in Owners /\ "selection" \in Reasons
    BY SessionAssumption DEF Owners, Accounts, Reasons
  <2> QED BY <1>0, <1>1, <1>3, <2>1, <2>2, <2>3, <2>4, Vacancy, SpendMakes
<1> QED BY <1>4, <1>5, <1>6, <1>7

LEMMA SpendAround ==
  ASSUME Earning, Spending,
         StoreChanges \/ (\E k \in SessionKeys : Expire(k)) \/ Restart
         \/ UNCHANGED sessionVars \/ (Rest /\ UNCHANGED <<rows, made, inbox, trail, stores>>)
  PROVE  Spending'
<1>1. UNCHANGED <<made, uses, slots>>
  BY DEF StoreChanges, Expire, Restart, Rest, sessionVars, trail, flight
<1>2. Seats'
  BY <1>1 DEF StoreChanges, Expire, Restart, Rest, sessionVars, flight, Spending, Seats, Idle
<1>3. CASE StoreChanges \/ Restart
  <2>1. ~Calm'
    BY <1>3 DEF StoreChanges, SwitchStore, Restart, Calm, Orderly
  <2> QED BY <1>1, <1>2, <2>1 DEF Spending
<1>4. ASSUME UNCHANGED flight, switched' = switched, Less,
             \A a \in Accounts : Get(Key("change", a))' \in {Get(Key("change", a)), Absent}
      PROVE  Spending'
  <2>1. Calm' => Calm
    BY <1>4 DEF Calm, Orderly, OneByOne, flight
  <2>2. ASSUME Calm', NEW p \in Purposes, NEW a \in Accounts PROVE Apiece(p, a)'
    <3>1. Apiece(p, a)
      BY <2>1, <2>2 DEF Spending
    <3> QED BY <1>1, <1>4, <3>1 DEF Apiece, Less, Unused, Dropping, flight
  <2>3. ASSUME Calm', NEW q \in Requests PROVE Spends(req[q])'
    <3>1. PICK x : x = req[q]
      OBVIOUS
    <3>2. Spends(x)
      BY <2>1, <2>3, <3>1 DEF Spending
    <3>3. x.at \in {"password.write", "change.count", "change.delete", "change.grant"} =>
            x.on \in Accounts
      BY <3>1 DEF Earning, Promise
    <3>4. ASSUME x.on \in Accounts, NEW n
          PROVE  /\ Other(n, "change", x.on) => Other(n, "change", x.on)'
                 /\ Other(n, "grant", x.on) => Other(n, "grant", x.on)'
      BY <1>1, <1>4, <3>4, Keeps DEF Purposes
    <3>5. x.on \in Accounts /\ Get(Key("change", x.on)) = Absent => Get(Key("change", x.on))' = Absent
      BY <1>4
    <3>6. Spends(x)'
      BY <1>1, <3>2, <3>3, <3>4, <3>5 DEF Spends, Unused, Numbered
    <3> QED BY <1>4, <3>1, <3>6 DEF flight
  <2>4. Calm' => Counted' /\ (\A a \in Accounts : Granted(a)') /\ \A n \in Codes : OneTime(n)'
    BY <1>1, <1>4, <2>1, Keeps DEF Spending
  <2> QED BY <1>1, <1>2, <2>2, <2>3, <2>4 DEF Spending
<1>5. ASSUME NEW k \in SessionKeys, Expire(k) PROVE Spending'
  <2>1. UNCHANGED flight /\ ready' = ready /\ switched' = switched
        /\ redis' = [redis EXCEPT ![k] = Absent] /\ memory' = [memory EXCEPT ![k] = Absent]
    BY <1>5 DEF Expire, ExpireKey
  <2>2. \A q \in Keys : Get(q)' \in {Get(q), Absent}
    BY <2>1 DEF Get, Earning, Rows
  <2>3. Less /\ \A a \in Accounts : Get(Key("change", a))' \in {Get(Key("change", a)), Absent}
    BY <2>2, CodeKeys DEF Less, Purposes
  <2> QED BY <1>4, <2>1, <2>3
<1>6. CASE UNCHANGED sessionVars \/ (Rest /\ UNCHANGED <<rows, made, inbox, trail, stores>>)
  <2>1. UNCHANGED flight /\ UNCHANGED stores
    BY <1>6 DEF sessionVars, Rest
  <2>2. switched' = switched /\ \A a \in Accounts : Get(Key("change", a))' = Get(Key("change", a))
    BY <2>1 DEF stores, Get
  <2> QED BY <1>4, <2>1, <2>2, LessStill
<1> QED BY <1>3, <1>5, <1>6

LEMMA SpendInit == SessionInit => Spending
<1> SUFFICES ASSUME SessionInit PROVE Spending
  OBVIOUS
<1>1. Seats
  BY DEF SessionInit, FlightInit, Seats, Idle
<1>2. uses \in [Codes -> Nat] /\ Counted
  BY SessionAssumption DEF SessionInit, Counted, Codes
<1>3. \A k \in Keys : Get(k) = Absent
  BY DEF SessionInit, RedisInit, Get
<1>4. /\ \A p \in Purposes, a \in Accounts : Apiece(p, a)
      /\ \A n \in Codes : OneTime(n)
  BY <1>3, CodeKeys DEF Apiece, OneTime
<1>5. \A a \in Accounts : Granted(a)
  BY <1>3, CodeKeys DEF Granted, Purposes
<1>6. \A r \in Requests : Spends(req[r])
  BY DEF SessionInit, FlightInit, Spends, Idle
<1> QED BY <1>1, <1>2, <1>4, <1>5, <1>6 DEF Spending

LEMMA SpendNext == Earning /\ Spending /\ [SessionNext]_sessionVars => Spending'
<1> SUFFICES ASSUME Earning, Spending, [SessionNext]_sessionVars PROVE Spending'
  OBVIOUS
<1>1. ASSUME NEW r \in Requests, SessionArrive(r) PROVE Spending'
  <2>1. Acts(r)
    BY <1>1, ArriveActs DEF Spending
  <2> QED
    BY <1>1, <2>1, SpendArrivals, SpendPasses, SpendRemoves, SpendCodes
       DEF SessionArrive, AccountEndpoints, AdminEndpoints, SocialEndpoints, Accounts
<1>2. ASSUME NEW r \in Requests, SessionProceed(r) PROVE Spending'
  <2>1. Acts(r)
    BY <1>2, ProceedActs DEF Spending
  <2> QED
    BY <1>2, <2>1, SpendPasses, SpendRemoves, SpendRewrites, SpendEffects, SpendTickets,
         SpendCodes
       DEF SessionProceed
<1> QED BY <1>1, <1>2, SpendAround DEF SessionNext

LEMMA SpendInvariance == SessionSpec => []Spending
BY SpendInit, SpendNext, Invariance, PTL DEF SessionSpec

(* Requests one after the other, none dead, the connection steady: no code *)
(* does twice what it is for, be it a letter's code, a secret, a grant, an *)
(* offer to select an account or a callback's exchange (resetPassword,     *)
(* verifyEmail, enableTwoFactor, selectAccount, exchangeOAuthCode).        *)
THEOREM CodesAreUsedOnce == SessionSpec => []UsedOnce
<1>1. Spending => UsedOnce
  BY DEF Spending, Counted, UsedOnce, Calm
<1> QED BY <1>1, SpendInvariance, PTL
=============================================================================
