------------------------------ MODULE Reminders ------------------------------
(***************************************************************************)
(* BookingReminderScheduler: every ten minutes, accepted bookings that     *)
(* start in an hour, give or take ten minutes, are announced to both       *)
(* parties.  A key in Redis that lives for six hours keeps the sweeps of   *)
(* one window from announcing a booking twice.                             *)
(***************************************************************************)
EXTENDS Naturals, Handlers, Redis

CONSTANT Upcoming   \* bookings with a date and a time slot

Parties == {"user", "provider"}

VARIABLES
  accepted,   \* the bookings that are ACCEPTED
  clock,      \* where the window of each booking stands: before, in or after
  notes       \* how often each party has been announced a booking, up to 2

reminderVars == <<accepted, clock, notes, stores>>

DedupKey(b) == <<"booking_reminder", b>>

ASSUME RemindersAssumption == {DedupKey(b) : b \in Upcoming} \subseteq Keys /\ Absent # "1"

RemindersInit ==
  /\ accepted = {}
  /\ clock = [b \in Upcoming |-> "before"]
  /\ notes = [n \in Upcoming \X Parties |-> 0]
  /\ RedisInit

-----------------------------------------------------------------------------
Accept(r, b) ==
  /\ b \notin accepted /\ Once(r)
  /\ accepted' = accepted \cup {b}
  /\ UNCHANGED <<clock, notes, stores>>

Withdraw(r, b) ==
  /\ b \in accepted /\ Once(r)
  /\ accepted' = accepted \ {b}
  /\ UNCHANGED <<clock, notes, stores>>

Pass(b) ==
  /\ clock[b] # "after"
  /\ clock' = [clock EXCEPT ![b] = IF @ = "before" THEN "in" ELSE "after"]
  /\ UNCHANGED <<accepted, notes, stores, flight>>

(* The sweep reads the bookings and takes `now' once.                      *)
Sweep(r) ==
  /\ Begin(r, "remind.look", None, None, {b \in accepted : clock[b] = "in"})
  /\ UNCHANGED reminderVars

Look(r, b) ==
  /\ req[r].at = "remind.look" /\ b \in req[r].saw
  /\ req' = [req EXCEPT ![r] = [at |-> IF Get(DedupKey(b)) = Absent THEN "remind.mark" ELSE "remind.look",
                                on |-> b, by |-> None, saw |-> req[r].saw \ {b}]]
  /\ UNCHANGED <<slots, died, reminderVars>>

SweepDone(r) ==
  /\ req[r].at = "remind.look" /\ req[r].saw = {}
  /\ End(r)
  /\ UNCHANGED reminderVars

Mark_After_Mutant(r) ==
  /\ req[r].at = "remind.mark"
  /\ notes' = [notes EXCEPT ![<<req[r].on, "user">>] = IF @ = 2 THEN 2 ELSE @ + 1]
  /\ Goto(r, "remind.provider")
  /\ UNCHANGED <<accepted, clock, stores>>

Mark(r) ==
  /\ req[r].at = "remind.mark"
  /\ Put(DedupKey(req[r].on), "1")
  /\ Goto(r, "remind.user")
  /\ UNCHANGED <<accepted, clock, notes>>

(* Both are told without waiting; a failure is caught, and not retried.    *)
Announce(r, p) ==
  /\ req[r].at = IF p = "user" THEN "remind.user" ELSE "remind.provider"
  /\ \/ notes' = [notes EXCEPT ![<<req[r].on, p>>] = IF @ = 2 THEN 2 ELSE @ + 1]
     \/ Faults /\ UNCHANGED notes
  /\ Goto(r, IF p = "user" THEN "remind.provider" ELSE "remind.look")
  /\ UNCHANGED <<accepted, clock, stores>>

(* Six hours are longer than the window is wide, and than a sweep takes.   *)
ExpireMark(b) ==
  /\ clock[b] = "after"
  /\ \A r \in Requests : req[r].at # "idle" => b \notin req[r].saw
  /\ ExpireKey(DedupKey(b))
  /\ UNCHANGED <<accepted, clock, notes, flight>>

SwitchMarks == SwitchStore /\ UNCHANGED <<accepted, clock, notes, flight>>

StopReminders(r) == Die(r) /\ UNCHANGED reminderVars

RemindersNext ==
  \/ \E r \in Requests :
       \/ \E b \in Upcoming : Accept(r, b) \/ Withdraw(r, b) \/ Look(r, b)
       \/ \E p \in Parties : Announce(r, p)
       \/ Sweep(r) \/ SweepDone(r) \/ Mark(r) \/ StopReminders(r)
  \/ \E b \in Upcoming : Pass(b) \/ ExpireMark(b)
  \/ SwitchMarks

RemindersSpec == RemindersInit /\ FlightInit /\ [][RemindersNext]_<<reminderVars, flight>>

-----------------------------------------------------------------------------
RemindersTypeOK ==
  /\ accepted \subseteq Upcoming
  /\ clock \in [Upcoming -> {"before", "in", "after"}]
  /\ notes \in [Upcoming \X Parties -> 0..2]

(* While sweeps do not overlap and the store stays where it is, nobody is  *)
(* announced a booking twice, though a sweep may die or a booking be       *)
(* withdrawn and accepted again (sendUpcomingBookingReminders marks first, *)
(* then sends).                                                            *)
RemindedOnce ==
  OneByOne /\ ~switched => \A b \in Upcoming, p \in Parties : notes[<<b, p>>] <= 1
=============================================================================
