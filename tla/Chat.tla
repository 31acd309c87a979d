-------------------------------- MODULE Chat --------------------------------
(***************************************************************************)
(* MessagesService: the one conversation of a customer and a provider,     *)
(* its messages, and the unread counts kept beside it.  The controller and *)
(* the websocket gateway are two ways into the same handlers.              *)
(***************************************************************************)
EXTENDS Naturals, Sequences, Handlers

CONSTANT MaxMessages   \* bound on the messages

Sides  == {"USER", "PROVIDER"}
Thread == [last : Nat, unread : [Sides -> Nat]]

(* No row is null.                                                         *)
ASSUME ChatAssumption == MaxMessages \in Nat /\ None \notin Thread

VARIABLES
  thread,     \* the row Conversation: last message and unread counts, or None
  messages    \* the rows Message in the order of createdAt: sender, readAt set

chatVars == <<thread, messages>>

Other(s) == IF s = "USER" THEN "PROVIDER" ELSE "USER"

ChatInit == thread = None /\ messages = <<>>

-----------------------------------------------------------------------------
(* createMessage: find the conversation or create it, create the message,  *)
(* then bring the conversation up to date.                                 *)
SendMessage(r, s) ==
  /\ Len(messages) + Cardinality(Busy) < MaxMessages
  /\ Begin(r, IF thread = None THEN "chat.thread" ELSE "chat.message", s, None, None)
  /\ UNCHANGED chatVars

CreateThread(r) ==
  /\ req[r].at = "chat.thread" /\ thread = None
  /\ thread' = [last |-> 0, unread |-> [s \in Sides |-> 0]]
  /\ Goto(r, "chat.message")
  /\ UNCHANGED messages

CreateMessage(r) ==
  /\ req[r].at = "chat.message"
  /\ messages' = Append(messages, [from |-> req[r].on, read |-> FALSE])
  /\ Carry(r, "chat.update", Len(messages'))
  /\ UNCHANGED thread

UpdateThread_Own_Mutant(r) ==
  /\ req[r].at = "chat.update"
  /\ thread' = [thread EXCEPT !.last = req[r].saw, !.unread[Other(req[r].on)] = @ + 1]
  /\ End(r)
  /\ UNCHANGED messages

(* Who writes has read; who is written to has one more to read.            *)
UpdateThread(r) ==
  /\ req[r].at = "chat.update"
  /\ thread' = [last |-> req[r].saw,
                unread |-> [s \in Sides |-> IF s = req[r].on THEN 0 ELSE thread.unread[s] + 1]]
  /\ End(r)
  /\ UNCHANGED messages

(* markMessagesAsRead: the messages, then the count.                       *)
MarkRead(r, s) ==
  /\ thread # None
  /\ Begin(r, "chat.read", s, None, None)
  /\ UNCHANGED chatVars

ReadMessages(r) ==
  /\ req[r].at = "chat.read"
  /\ messages' = [i \in DOMAIN messages |->
                    [messages[i] EXCEPT !.read = @ \/ messages[i].from = Other(req[r].on)]]
  /\ Goto(r, "chat.count")
  /\ UNCHANGED thread

ClearCount(r) ==
  /\ req[r].at = "chat.count"
  /\ thread' = [thread EXCEPT !.unread[req[r].on] = 0]
  /\ End(r)
  /\ UNCHANGED messages

(* A conversation there by now is refused: one per pair (@@unique).        *)
StopChat(r) ==
  /\ \/ req[r].at = "chat.thread" /\ thread # None /\ End(r)
     \/ Die(r)
  /\ UNCHANGED chatVars

ChatNext ==
  \E r \in Requests :
    \/ \E s \in Sides : SendMessage(r, s) \/ MarkRead(r, s)
    \/ CreateThread(r) \/ CreateMessage(r) \/ UpdateThread(r)
    \/ ReadMessages(r) \/ ClearCount(r)    \/ StopChat(r)

ChatSpec == ChatInit /\ FlightInit /\ [][ChatNext]_<<chatVars, flight>>

-----------------------------------------------------------------------------
ChatTypeOK ==
  /\ messages \in Seq([from : Sides, read : BOOLEAN])
  /\ thread \in Thread \cup {None}

(* What s has not seen: sent by the other, not marked read, and later than *)
(* anything s has written.                                                 *)
Unseen(s) ==
  {i \in DOMAIN messages :
     /\ messages[i].from = Other(s) /\ ~messages[i].read
     /\ \A j \in DOMAIN messages : messages[j].from = s => j < i}

(* Between requests, one at a time and none of them dead, the counts that  *)
(* the inbox shows are those of the messages, and the message it shows is  *)
(* the newest (getUserConversations, getProviderConversations).            *)
InboxAgrees ==
  Orderly /\ AtRest /\ thread # None =>
    /\ \A s \in Sides : thread.unread[s] = Cardinality(Unseen(s))
    /\ thread.last = Len(messages)
=============================================================================
