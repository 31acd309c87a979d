------------------------------ MODULE Session ------------------------------
(***************************************************************************)
(* AuthService: passwords, sessions and one-time codes of customers,       *)
(* providers and administrators, with account deletion and suspension as   *)
(* they meet them.  Rows are in the database, refresh tokens and codes in  *)
(* Redis, and every call to either is a step of its own.  A customer and a *)
(* provider with one e-mail address share a social identity.               *)
(***************************************************************************)
EXTENDS Naturals, Sequences, Handlers, Redis

CONSTANTS
  Customers, Providers, Admins,  \* the accounts, by table
  Channels,      \* of email and phone, those in use
  Twins,         \* pairs of a customer and a provider with one e-mail address
  MaxPassword,   \* bound on the passwords an account has had
  MaxMade,       \* bound on the codes made
  MaxAttempts    \* ADMIN_PW_CHANGE_OTP_MAX_ATTEMPTS

Accounts == Customers \cup Providers \cup Admins
Purposes == Channels \cup {"reset", "change", "grant", "setup"}
Codes    == 1..MaxMade
SessionKeys ==
  (({"refresh"} \cup Purposes) \X Accounts) \cup ({"selection", "exchange"} \X Codes)

Refresh(a)  == <<"refresh", a>>
Key(p, a)   == <<p, a>>

ASSUME SessionAssumption ==
  /\ {"email"} \subseteq Channels /\ Channels \subseteq {"email", "phone"}
  /\ Twins \subseteq Customers \X Providers
  /\ MaxPassword \in Nat /\ MaxMade \in Nat /\ MaxAttempts \in Nat
  /\ SessionKeys \subseteq Keys

VARIABLES
  row,          \* the account's row: none, active, suspended or deleted
  password,     \* which password its hash is of, counted from 1; 0 is none
  mustChange,   \* administrators who must set a password (mustChangePassword)
  twoFactor,    \* the number of the secret in force; 0 is none
  verified,     \* isEmailVerified and isPhoneVerified
  made,         \* the codes made so far: whose, what for; its place is a code's number
  inbox,        \* codes that have reached their reader: whose, what for, number
  authority,    \* the code by which the password was last set, 0 if by none (history)
  uses          \* how often what a code is for has been done, up to 2 (history)

rows    == <<row, password, mustChange, twoFactor, verified>>
trail   == <<authority, uses>>
sessionVars == <<rows, made, inbox, trail, stores, flight>>

(* A value in Redis: the account, the code's number, the password in force *)
(* when the session began, and the wrong guesses so far.                   *)
Entry(a, n, since) == [on |-> a, n |-> n, since |-> since, tries |-> 0]

SessionInit ==
  /\ row \in [Accounts -> {"none", "active"}] /\ \A a \in Admins : row[a] = "active"
  /\ password = [a \in Accounts |-> IF row[a] = "active" THEN 1 ELSE 0]
  /\ mustChange \in SUBSET Admins
  /\ twoFactor = [a \in Accounts |-> 0]
  /\ verified = {} /\ inbox = {} /\ made = <<>>
  /\ authority = [a \in Accounts |-> 0]
  /\ uses = [n \in Codes |-> 0]
  /\ RedisInit /\ FlightInit

(* Bounds: numbers are left for the requests in flight and one more.       *)
Room       == Len(made) + Cardinality(Busy) < MaxMade
Renewal(a) == password[a] + Cardinality(Busy) < MaxPassword

Usable(a) == row[a] = "active"

(* JwtAuthGuard: the bearer of an access token, whose row is looked up.    *)
SignedIn(a) == row[a] = "active"

(* Codes are as good as unique: the number of a new one stands for it.     *)
Make(a, p) == made' = Append(made, [on |-> a, for |-> p])

Deliver(a, p, n) == inbox' = inbox \cup {[on |-> a, for |-> p, n |-> n]}

Used(n) == uses' = [uses EXCEPT ![n] = IF @ = 2 THEN 2 ELSE @ + 1]

NewPassword(a) == password' = [password EXCEPT ![a] = @ + 1]

-----------------------------------------------------------------------------
(* generateTokens: the last step of every way in.                          *)
StartSession(r, a, via) == Begin(r, "issue", a, via, Entry(a, 0, password[a]))

IssueTokens(r) ==
  /\ req[r].at = "issue"
  /\ Put(Refresh(req[r].on), req[r].saw)
  /\ IF req[r].by = "redirect" THEN Goto(r, "exchange.store") ELSE End(r)
  /\ UNCHANGED <<rows, made, inbox, trail>>

(* The new account is sent a code for its address and signed in.  For a    *)
(* customer the two are not ordered, and they touch different keys.        *)
Register(r, a) ==
  /\ row[a] = "none" /\ Room
  /\ row' = [row EXCEPT ![a] = "active"]
  /\ password' = [password EXCEPT ![a] = 1]
  /\ Begin(r, "welcome.store", a, "email", None)
  /\ UNCHANGED <<mustChange, twoFactor, verified, made, inbox, trail, stores>>

(* With a second factor in force, the answer is a challenge and no more.   *)
Login(r, a) ==
  /\ Usable(a) /\ password[a] # 0 /\ twoFactor[a] = 0
  /\ StartSession(r, a, "direct")
  /\ UNCHANGED <<rows, made, inbox, trail, stores>>

VerifyTwoFactor(r, a) ==
  /\ twoFactor[a] # 0
  /\ StartSession(r, a, "direct")
  /\ UNCHANGED <<rows, made, inbox, trail, stores>>

(* A session goes on from the stored token, whoever holds it.              *)
RefreshTokens(r, a) ==
  /\ row[a] # "none" /\ Get(Refresh(a)) # Absent
  /\ Begin(r, "issue", a, "direct", Get(Refresh(a)))
  /\ UNCHANGED <<rows, made, inbox, trail, stores>>

Logout(r, a) ==
  /\ SignedIn(a)
  /\ Once(r) /\ Del(Refresh(a))
  /\ UNCHANGED <<rows, made, inbox, trail>>

-----------------------------------------------------------------------------
(* handleOAuthLogin and the exchange of a callback's code.  The social     *)
(* provider has already vouched for the e-mail address of both accounts.   *)
FoundWith(a) == {t \in Twins : a \in {t[1], t[2]}}

SocialLogin(r, a, via) ==
  /\ Usable(a) /\ \A t \in FoundWith(a) : ~(Usable(t[1]) /\ Usable(t[2]))
  /\ Room
  /\ StartSession(r, a, via)
  /\ UNCHANGED <<rows, made, inbox, trail, stores>>

OfferSelection(r, t) ==
  /\ Usable(t[1]) /\ Usable(t[2])
  /\ Room /\ Once(r)
  /\ Make(t[1], "selection")
  /\ Put(<<"selection", Len(made')>>, Entry(t[1], Len(made'), 0))
  /\ Deliver(t[1], "selection", Len(made'))
  /\ UNCHANGED <<rows, trail>>

SelectAccount(r, m, a) ==
  /\ m.for = "selection" /\ Get(<<"selection", m.n>>) # Absent
  /\ a = m.on \/ <<m.on, a>> \in Twins
  /\ Begin(r, "selection.delete", a, "direct", Get(<<"selection", m.n>>))
  /\ UNCHANGED <<rows, made, inbox, trail, stores>>

DeleteSelection(r) ==
  /\ req[r].at = "selection.delete"
  /\ Del(<<"selection", req[r].saw.n>>)
  /\ Used(req[r].saw.n)
  /\ Goto(r, "selection.read")
  /\ UNCHANGED <<rows, made, inbox, authority>>

ReadSelected_Any_Mutant(r) ==
  /\ req[r].at = "selection.read"
  /\ Carry(r, "issue", Entry(req[r].on, 0, password[req[r].on]))
  /\ UNCHANGED <<rows, made, inbox, trail, stores>>

ReadSelected(r) ==
  /\ req[r].at = "selection.read" /\ Usable(req[r].on)
  /\ Carry(r, "issue", Entry(req[r].on, 0, password[req[r].on]))
  /\ UNCHANGED <<rows, made, inbox, trail, stores>>

StoreExchange(r) ==
  /\ req[r].at = "exchange.store"
  /\ Make(req[r].on, "exchange")
  /\ Put(<<"exchange", Len(made')>>, req[r].saw)
  /\ Deliver(req[r].on, "exchange", Len(made'))
  /\ End(r)
  /\ UNCHANGED <<rows, trail>>

Exchange(r, m) ==
  /\ m.for = "exchange" /\ Get(<<"exchange", m.n>>) # Absent
  /\ Begin(r, "exchange.delete", m.on, m.n, Get(<<"exchange", m.n>>))
  /\ UNCHANGED <<rows, made, inbox, trail, stores>>

DeleteExchange_Kept_Mutant(r) ==
  /\ req[r].at = "exchange.delete"
  /\ Used(req[r].by) /\ End(r)
  /\ UNCHANGED <<rows, made, inbox, authority, stores>>

DeleteExchange(r) ==
  /\ req[r].at = "exchange.delete"
  /\ Del(<<"exchange", req[r].by>>)
  /\ Used(req[r].by) /\ End(r)
  /\ UNCHANGED <<rows, made, inbox, authority>>

-----------------------------------------------------------------------------
(* Codes by mail or text: a new code is stored over the last one, then     *)
(* sent.  forgotPassword finds a row by its address and asks no more of it,*)
(* be it suspended or deleted.                                             *)
RequestCode(r, a, p) ==
  /\ \/ p = "reset" /\ row[a] # "none"
     \/ p \in Channels /\ SignedIn(a)
     \/ p = "change" /\ a \in Admins /\ SignedIn(a)
  /\ Room
  /\ Begin(r, "code.store", a, p, None)
  /\ UNCHANGED <<rows, made, inbox, trail, stores>>

StoreCode(r) ==
  /\ req[r].at \in {"code.store", "welcome.store"}
  /\ Make(req[r].on, req[r].by)
  /\ Put(Key(req[r].by, req[r].on), Entry(req[r].on, Len(made'), 0))
  /\ Carry(r, IF req[r].at = "code.store" THEN "code.send" ELSE "welcome.send", Len(made'))
  /\ UNCHANGED <<rows, inbox, trail>>

(* forgotPassword looks whether the code is there before it sends it; for  *)
(* a deleted row it goes to an address that may be no one's.               *)
SendCode(r) ==
  /\ req[r].at = "code.send"
  /\ req[r].by = "reset" => Get(Key("reset", req[r].on)) # Absent
  /\ \/ Deliver(req[r].on, req[r].by, req[r].saw)
     \/ req[r].by = "reset" /\ row[req[r].on] = "deleted" /\ UNCHANGED inbox
  /\ End(r)
  /\ UNCHANGED <<rows, made, trail, stores>>

(* A registration goes on without the mail if it cannot be sent.           *)
SendWelcome(r) ==
  /\ req[r].at = "welcome.send"
  /\ \/ Deliver(req[r].on, req[r].by, req[r].saw)
     \/ Faults /\ UNCHANGED inbox
  /\ Carry(r, "issue", Entry(req[r].on, 0, 1))
  /\ UNCHANGED <<rows, made, trail, stores>>

(* setupTwoFactor: the secret is shown to the customer and kept for now.   *)
SetupTwoFactor(r, a) ==
  /\ SignedIn(a) /\ Room /\ Once(r)
  /\ Make(a, "setup")
  /\ Put(Key("setup", a), Entry(a, Len(made'), 0))
  /\ Deliver(a, "setup", Len(made'))
  /\ UNCHANGED <<rows, trail>>

(* What the client shows matches what is stored for the account.           *)
Matches_Any_Mutant(m, p, a) == Get(Key(p, a)) # Absent

Matches(m, p, a) == Get(Key(p, a)) # Absent /\ Get(Key(p, a)).n = m.n

(* The row is found by its address and the code is stored under its number:*)
(* one from before a deletion still writes a password on the deleted row.  *)
ResetPassword(r, m, a) ==
  /\ row[a] # "none"
  /\ Matches(m, "reset", a) /\ Renewal(a)
  /\ Begin(r, "password.write", a, "reset", Get(Key("reset", a)))
  /\ UNCHANGED <<rows, made, inbox, trail, stores>>

Confirm(r, m, a, p) ==
  /\ SignedIn(a) /\ Matches(m, p, a)
  /\ Begin(r, "confirm.write", a, p, Get(Key(p, a)))
  /\ UNCHANGED <<rows, made, inbox, trail, stores>>

(* verifyEmail, verifyPhone and enableTwoFactor write what was confirmed.  *)
WriteConfirmed(r) ==
  /\ req[r].at = "confirm.write"
  /\ IF req[r].by = "setup"
       THEN twoFactor' = [twoFactor EXCEPT ![req[r].on] = req[r].saw.n] /\ UNCHANGED verified
       ELSE verified' = verified \cup {<<req[r].on, req[r].by>>} /\ UNCHANGED twoFactor
  /\ Used(req[r].saw.n)
  /\ Goto(r, "code.delete")
  /\ UNCHANGED <<row, password, mustChange, made, inbox, authority, stores>>

(* resetPassword and setAdminPasswordAfterOtp write the new hash, take the *)
(* code or the grant back, and end the session.                            *)
WritePassword(r) ==
  /\ req[r].at = "password.write"
  /\ NewPassword(req[r].on)
  /\ mustChange' = IF req[r].by = "grant" THEN mustChange \ {req[r].on} ELSE mustChange
  /\ authority' = [authority EXCEPT ![req[r].on] = req[r].saw.n]
  /\ Used(req[r].saw.n)
  /\ Goto(r, "code.delete")
  /\ UNCHANGED <<row, twoFactor, verified, made, inbox, stores>>

DeleteCode(r) ==
  /\ req[r].at = "code.delete"
  /\ Del(Key(req[r].by, req[r].on))
  /\ IF req[r].by \in {"reset", "grant"} THEN Goto(r, "session.delete") ELSE End(r)
  /\ UNCHANGED <<rows, made, inbox, trail>>

DeleteSession_Kept_Mutant(r) ==
  /\ req[r].at = "session.delete" /\ req[r].by # "grant"
  /\ End(r)
  /\ UNCHANGED <<rows, made, inbox, trail, stores>>

DeleteSession(r) ==
  /\ req[r].at = "session.delete"
  /\ Del(Refresh(req[r].on))
  /\ IF req[r].by = "grant"
       THEN Carry(r, "issue", Entry(req[r].on, 0, password[req[r].on]))
       ELSE End(r)
  /\ UNCHANGED <<rows, made, inbox, trail>>

-----------------------------------------------------------------------------
(* Administrators: the first password, and a change by code and grant.     *)
SetAdminPassword(r, a) ==
  /\ SignedIn(a) /\ a \in mustChange /\ Renewal(a)
  /\ Begin(r, "first.write", a, "direct", None)
  /\ UNCHANGED <<rows, made, inbox, trail, stores>>

WriteFirstPassword(r) ==
  /\ req[r].at = "first.write"
  /\ NewPassword(req[r].on)
  /\ mustChange' = mustChange \ {req[r].on}
  /\ authority' = [authority EXCEPT ![req[r].on] = 0]
  /\ Carry(r, "issue", Entry(req[r].on, 0, password'[req[r].on]))
  /\ UNCHANGED <<row, twoFactor, verified, made, inbox, uses, stores>>

VerifyChangeCode(r, m, a) ==
  /\ SignedIn(a) /\ Get(Key("change", a)) # Absent
  /\ Get(Key("change", a)).tries < MaxAttempts
  /\ Begin(r, IF Matches(m, "change", a) THEN "change.delete" ELSE "change.count",
           a, "change", Get(Key("change", a)))
  /\ UNCHANGED <<rows, made, inbox, trail, stores>>

VerifyExhausted(r, a) ==
  /\ SignedIn(a) /\ Get(Key("change", a)) # Absent
  /\ Get(Key("change", a)).tries >= MaxAttempts
  /\ Once(r) /\ Del(Key("change", a))
  /\ UNCHANGED <<rows, made, inbox, trail>>

CountAttempt(r) ==
  /\ req[r].at = "change.count"
  /\ Put(Key("change", req[r].on), [req[r].saw EXCEPT !.tries = @ + 1])
  /\ End(r)
  /\ UNCHANGED <<rows, made, inbox, trail>>

DeleteChangeCode(r) ==
  /\ req[r].at = "change.delete"
  /\ Del(Key("change", req[r].on))
  /\ Goto(r, "change.grant")
  /\ UNCHANGED <<rows, made, inbox, trail>>

Grant(r) ==
  /\ req[r].at = "change.grant"
  /\ Put(Key("grant", req[r].on), req[r].saw)
  /\ End(r)
  /\ UNCHANGED <<rows, made, inbox, trail>>

SetPasswordAfterCode(r, a) ==
  /\ SignedIn(a) /\ Get(Key("grant", a)) # Absent /\ Renewal(a)
  /\ Begin(r, "password.write", a, "grant", Get(Key("grant", a)))
  /\ UNCHANGED <<rows, made, inbox, trail, stores>>

-----------------------------------------------------------------------------
(* UsersService.deleteAccount, once bookings and wallet allow it, and the  *)
(* administrators' bans, which leave a deleted account as it is.           *)
DeleteAccount(r, a) ==
  /\ SignedIn(a)
  /\ Begin(r, "scrub", a, "scrub", None)
  /\ UNCHANGED <<rows, made, inbox, trail, stores>>

Scrub(r) ==
  /\ req[r].at = "scrub"
  /\ row' = [row EXCEPT ![req[r].on] = "deleted"]
  /\ password' = [password EXCEPT ![req[r].on] = 0]
  /\ twoFactor' = [twoFactor EXCEPT ![req[r].on] = 0]
  /\ Goto(r, "session.delete")
  /\ UNCHANGED <<mustChange, verified, made, inbox, trail, stores>>

Suspend(r, a) ==
  /\ row[a] = "active" /\ Once(r)
  /\ row' = [row EXCEPT ![a] = "suspended"]
  /\ UNCHANGED <<password, mustChange, twoFactor, verified, made, inbox, trail, stores>>

Unsuspend(r, a) ==
  /\ row[a] = "suspended" /\ Once(r)
  /\ row' = [row EXCEPT ![a] = "active"]
  /\ UNCHANGED <<password, mustChange, twoFactor, verified, made, inbox, trail, stores>>

-----------------------------------------------------------------------------
(* The connection to Redis changes, keys expire (a refresh token lives     *)
(* seven days and is taken to outlive the behaviour), and the process may  *)
(* start again, with nothing in flight and nothing in its memory.          *)
StoreChanges ==
  /\ SwitchStore
  /\ UNCHANGED <<rows, made, inbox, trail, flight>>

Expire(k) ==
  /\ ExpireKey(k)
  /\ UNCHANGED <<rows, made, inbox, trail, flight>>

Restart ==
  /\ Faults
  /\ req' = [r \in Requests |-> Idle]
  /\ memory' = [k \in Keys |-> Absent]
  /\ died' = TRUE
  /\ UNCHANGED <<rows, made, inbox, trail, redis, ready, switched, slots>>

SessionRefused(r) ==
  \/ req[r].at = "selection.read" /\ ~Usable(req[r].on)
  \/ req[r].at = "code.send" /\ req[r].by = "reset" /\ Get(Key("reset", req[r].on)) = Absent

StopSession(r) ==
  /\ \/ SessionRefused(r) /\ End(r)
     \/ Die(r)
  /\ UNCHANGED <<rows, made, inbox, trail, stores>>

(* The endpoints of AuthController: for anyone's own account, for          *)
(* administrators, and for social sign-in.                                 *)
AccountEndpoints(r) ==
  \/ \E a \in Accounts : Login(r, a) \/ RefreshTokens(r, a) \/ Logout(r, a)
  \/ \E a \in Accounts, p \in Purposes : RequestCode(r, a, p)
  \/ \E a \in Customers \cup Providers : Register(r, a)
  \/ \E a \in Customers : VerifyTwoFactor(r, a) \/ SetupTwoFactor(r, a)
  \/ \E m \in inbox :
       \/ \E a \in Customers : Confirm(r, m, a, "setup")
       \/ \E a \in Accounts : ResetPassword(r, m, a) \/ \E p \in Channels : Confirm(r, m, a, p)

AdminEndpoints(r) == \E a \in Admins :
  \/ SetAdminPassword(r, a) \/ VerifyExhausted(r, a) \/ SetPasswordAfterCode(r, a)
  \/ \E m \in inbox : VerifyChangeCode(r, m, a)

SocialEndpoints(r) ==
  \/ \E a \in Customers \cup Providers, via \in {"direct", "redirect"} : SocialLogin(r, a, via)
  \/ \E t \in Twins : OfferSelection(r, t)
  \/ \E m \in inbox : Exchange(r, m) \/ \E a \in Accounts : SelectAccount(r, m, a)

SessionArrive(r) ==
  \/ AccountEndpoints(r) \/ AdminEndpoints(r) \/ SocialEndpoints(r)
  \/ \E a \in Accounts : Suspend(r, a) \/ Unsuspend(r, a)
  \/ \E a \in Customers \cup Providers : DeleteAccount(r, a)

SessionProceed(r) ==
  \/ IssueTokens(r)      \/ StoreExchange(r)  \/ DeleteExchange(r)
  \/ DeleteSelection(r)  \/ ReadSelected(r)
  \/ StoreCode(r)        \/ SendCode(r)       \/ SendWelcome(r)
  \/ WriteConfirmed(r)
  \/ WritePassword(r)    \/ DeleteCode(r)     \/ DeleteSession(r)
  \/ WriteFirstPassword(r)
  \/ CountAttempt(r)     \/ DeleteChangeCode(r) \/ Grant(r)
  \/ Scrub(r)
  \/ StopSession(r)

SessionNext ==
  \/ \E r \in Requests : SessionArrive(r) \/ SessionProceed(r)
  \/ \E k \in SessionKeys : k[1] # "refresh" /\ Expire(k)
  \/ StoreChanges
  \/ Restart
  \/ Rest /\ UNCHANGED <<rows, made, inbox, trail, stores>>

SessionSpec == SessionInit /\ [][SessionNext]_sessionVars

-----------------------------------------------------------------------------
SessionSteps ==
  {"idle", "issue", "exchange.store", "exchange.delete", "selection.delete", "selection.read",
   "code.store", "code.send", "welcome.store", "welcome.send", "confirm.write",
   "password.write", "code.delete", "session.delete", "first.write",
   "change.count", "change.delete", "change.grant", "scrub"}

Entries == [on : Accounts, n : Nat, since : Nat, tries : Nat]
Made    == [on : Accounts, for : Purposes \cup {"selection", "exchange"}]
Sent    == [on : Accounts, for : Purposes \cup {"selection", "exchange"}, n : Codes]

(* Rows, keys and requests keep their types.                               *)
SessionTypeOK ==
  /\ row \in [Accounts -> {"none", "active", "suspended", "deleted"}]
  /\ password \in [Accounts -> Nat] /\ twoFactor \in [Accounts -> Nat]
  /\ mustChange \subseteq Admins /\ verified \subseteq Accounts \X Channels
  /\ made \in Seq(Made) /\ Len(made) <= MaxMade /\ inbox \subseteq Sent
  /\ authority \in [Accounts -> Nat] /\ uses \in [Codes -> 0..2]
  /\ \A k \in SessionKeys : redis[k] \in Entries \cup {Absent} /\ memory[k] \in Entries \cup {Absent}
  /\ ready \in BOOLEAN /\ switched \in BOOLEAN /\ died \in BOOLEAN
  /\ \A r \in Requests : req[r].at \in SessionSteps /\ req[r].on \in Accounts \cup {None}

Steady == Orderly /\ ~switched /\ AtRest

(* A session that can be refreshed began under the password in force: a    *)
(* change "invalidate[s] the old refresh token / other sessions"           *)
(* (resetPassword, setAdminPasswordAfterOtp), whatever came before it.     *)
SessionsFollowPassword ==
  Steady => \A a \in Accounts :
    Get(Refresh(a)) # Absent => Get(Refresh(a)).since = password[a]

(* A deleted account has no session to refresh and no second factor that   *)
(* would let it in without a look at the row, though selections, secrets   *)
(* and reset codes from before were open and a password may yet be written *)
(* on its row (deleteAccount: "can no longer be signed into").             *)
DeletedStaysOut ==
  Steady => \A a \in Accounts :
    row[a] = "deleted" => Get(Refresh(a)) = Absent /\ twoFactor[a] = 0

(* A code does what it is for once (exchangeOAuthCode: "one-time").        *)
UsedOnce == Orderly /\ ~switched => \A n \in Codes : uses[n] <= 1

(* The code with this number has reached the reader it was made for.       *)
Delivered(a, p, n) == \E m \in inbox : m.on = a /\ m.for = p /\ m.n = n

(* However requests, crashes and changes of the store overlap, a password  *)
(* was set by a code sent for that to that account, or first by itself; a  *)
(* second factor in force is one shown to its customer; and an address is  *)
(* verified by a code sent to it.                                          *)
EarnedByCode ==
  /\ \A a \in Accounts : authority[a] # 0 =>
       Delivered(a, "reset", authority[a]) \/ Delivered(a, "change", authority[a])
  /\ \A a \in Accounts : twoFactor[a] # 0 => Delivered(a, "setup", twoFactor[a])
  /\ \A v \in verified : \E n \in 1..Len(made) : Delivered(v[1], v[2], n)
=============================================================================
