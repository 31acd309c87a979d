------------------------------ MODULE Platform ------------------------------
(***************************************************************************)
(* The services around bookings and money, side by side in one process.    *)
(* They share its requests and its Redis service and no rows, so a         *)
(* behaviour is about one of them; `part' says which.                      *)
(***************************************************************************)
EXTENDS Staff, AppConfig, Chat, Ratings, Support, Catalogue, Reminders, Push

VARIABLE part

Parts ==
  {"staff", "config", "chat", "ratings", "support", "catalogue", "reminders", "push"}

ReminderRows == <<accepted, clock, notes>>
ConfigRows   == <<config, snapshots, mirror, published>>

platformVars ==
  <<part, flight, stores, staffVars, ConfigRows, chatVars, ratingVars, supportVars,
    catalogueVars, ReminderRows, pushVars>>

PlatformInit ==
  /\ part \in Parts
  /\ FlightInit /\ StaffInit /\ ConfigInit /\ ChatInit /\ RatingsInit
  /\ SupportInit /\ CatalogueInit /\ RemindersInit /\ PushInit
  /\ part # "staff" => founders = {}
  /\ part \notin {"config", "reminders"} => ready

Still(P) ==
  /\ "staff"     \in P => UNCHANGED staffVars
  /\ "config"    \in P => UNCHANGED ConfigRows
  /\ "chat"      \in P => UNCHANGED chatVars
  /\ "ratings"   \in P => UNCHANGED ratingVars
  /\ "support"   \in P => UNCHANGED supportVars
  /\ "catalogue" \in P => UNCHANGED catalogueVars
  /\ "reminders" \in P => UNCHANGED ReminderRows
  /\ "push"      \in P => UNCHANGED pushVars
  /\ P \cap {"config", "reminders"} = {"config", "reminders"} => UNCHANGED stores
  /\ UNCHANGED part

Others(p) == Still(Parts \ {p})

PlatformNext ==
  \/ part = "staff"     /\ StaffNext     /\ Others("staff")
  \/ part = "config"    /\ ConfigNext    /\ Others("config")
  \/ part = "chat"      /\ ChatNext      /\ Others("chat")
  \/ part = "ratings"   /\ RatingsNext   /\ Others("ratings")
  \/ part = "support"   /\ SupportNext   /\ Others("support")
  \/ part = "catalogue" /\ CatalogueNext /\ Others("catalogue")
  \/ part = "reminders" /\ RemindersNext /\ Others("reminders")
  \/ part = "push"      /\ PushNext      /\ Others("push")
  \/ Rest /\ Still(Parts)

(* A configuration request that is under way goes on, unless it dies, and  *)
(* what is cached expires.  Nobody has to publish or to ask.               *)
ConfigGoesOn(r) == part = "config" /\ ConfigGoOn(r) /\ Others("config")
FlagExpires     == part = "config" /\ ExpireFlag /\ Others("config")

PlatformFairness ==
  /\ \A r \in Requests : WF_platformVars(ConfigGoesOn(r))
  /\ WF_platformVars(FlagExpires)

PlatformSpec == PlatformInit /\ [][PlatformNext]_platformVars /\ PlatformFairness
=============================================================================
