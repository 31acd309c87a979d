-------------------------------- MODULE Push --------------------------------
(***************************************************************************)
(* PushService and the push tokens of UsersService: a device is registered *)
(* to one account at a time, and what is sent to an account goes to its    *)
(* active devices unless it is known to have muted it.                     *)
(***************************************************************************)
EXTENDS Handlers

CONSTANTS
  Devices,     \* push tokens
  Recipients   \* customers and providers

VARIABLES
  token,       \* the rows PushToken: account and isActive
  muted,       \* accounts that have switched the category off
  closed,      \* accounts deleted
  strays       \* devices sent what their account should not get (history)

pushVars == <<token, muted, closed, strays>>

PushInit ==
  /\ token = [d \in Devices |-> [on |-> None, active |-> FALSE]]
  /\ muted = {} /\ closed = {} /\ strays = {}

ActiveOf(a) == {d \in Devices : token[d] = [on |-> a, active |-> TRUE]}

-----------------------------------------------------------------------------
(* The account is looked up, then the token is taken over (upsert).        *)
SavePushToken(r, d, a) ==
  /\ a \notin closed
  /\ Begin(r, "token.save", d, a, None)
  /\ UNCHANGED pushVars

WriteToken(r) ==
  /\ req[r].at = "token.save"
  /\ token' = [token EXCEPT ![req[r].on] = [on |-> req[r].by, active |-> TRUE]]
  /\ End(r)
  /\ UNCHANGED <<muted, closed, strays>>

RemovePushToken(r, d) ==
  /\ Once(r)
  /\ token' = [token EXCEPT ![d].active = FALSE]
  /\ UNCHANGED <<muted, closed, strays>>

SetPreference(r, a) ==
  /\ a \notin closed /\ Once(r)
  /\ muted' = IF a \in muted THEN muted \ {a} ELSE muted \cup {a}
  /\ UNCHANGED <<token, closed, strays>>

(* deleteAccount's transaction, as far as devices go.                      *)
CloseAccount_Devices_Mutant(r, a) ==
  /\ a \notin closed /\ Once(r)
  /\ closed' = closed \cup {a}
  /\ UNCHANGED <<token, muted, strays>>

CloseAccount(r, a) ==
  /\ a \notin closed /\ Once(r)
  /\ token' = [d \in Devices |-> IF token[d].on = a THEN [token[d] EXCEPT !.active = FALSE] ELSE token[d]]
  /\ closed' = closed \cup {a}
  /\ UNCHANGED <<muted, strays>>

-----------------------------------------------------------------------------
(* sendToUser: the preference, the tokens, the call to Expo, and then the  *)
(* tokens that Expo does not know any more, in any order.  A preference    *)
(* that can be looked up is heeded.  Without a category, for an id in no   *)
(* table of its type, or when the read fails, the push goes out unasked.   *)
Questions == {"asked", "unasked"}

Allowed(a, asked) == asked = "asked" => a \notin muted

SendToUser(r, a, asked) ==
  /\ Allowed(a, asked)
  /\ Begin(r, "push.tokens", a, asked, None)
  /\ UNCHANGED pushVars

ReadTokens(r) ==
  /\ req[r].at = "push.tokens"
  /\ IF ActiveOf(req[r].on) = {} THEN End(r) ELSE Carry(r, "push.post", ActiveOf(req[r].on))
  /\ UNCHANGED pushVars

Unwelcome(a, asked) ==
  {d \in Devices : a \in closed \/ d \notin ActiveOf(a) \/ (asked = "asked" /\ a \in muted)}

PostToExpo(r) ==
  /\ req[r].at = "push.post"
  /\ strays' = strays \cup (req[r].saw \cap Unwelcome(req[r].on, req[r].by))
  /\ \E unknown \in SUBSET req[r].saw :
       IF unknown = {} THEN End(r) ELSE Carry(r, "push.clear", unknown)
  /\ UNCHANGED <<token, muted, closed>>

ClearToken(r, d) ==
  /\ req[r].at = "push.clear" /\ d \in req[r].saw
  /\ token' = [token EXCEPT ![d].active = FALSE]
  /\ IF req[r].saw = {d} THEN End(r) ELSE Carry(r, "push.clear", req[r].saw \ {d})
  /\ UNCHANGED <<muted, closed, strays>>

StopPush(r) == Die(r) /\ UNCHANGED pushVars

PushNext ==
  \E r \in Requests :
    \/ \E d \in Devices :
         \/ RemovePushToken(r, d) \/ ClearToken(r, d)
         \/ \E a \in Recipients : SavePushToken(r, d, a)
    \/ \E a \in Recipients : SetPreference(r, a) \/ CloseAccount(r, a)
    \/ \E a \in Recipients, asked \in Questions : SendToUser(r, a, asked)
    \/ WriteToken(r) \/ ReadTokens(r) \/ PostToExpo(r) \/ StopPush(r)

PushSpec == PushInit /\ FlightInit /\ [][PushNext]_<<pushVars, flight>>

-----------------------------------------------------------------------------
PushTypeOK ==
  /\ token \in [Devices -> [on : Recipients \cup {None}, active : BOOLEAN]]
  /\ muted \subseteq Recipients /\ closed \subseteq Recipients /\ strays \subseteq Devices

(* One request at a time, though they may die, nothing reaches a device    *)
(* that another account has taken over or that was signed out, nor the     *)
(* devices of a deleted account, nor, where the preference could be looked *)
(* up, those of one that has muted the category (sendToUser, "a muted      *)
(* category is skipped"; categoryAllowed "fails open").                    *)
PushIsWelcome == OneByOne => strays = {}
=============================================================================
