------------------------------- MODULE Staff -------------------------------
(***************************************************************************)
(* AccessControlService: the administrators of the console, their roles    *)
(* and their invitations.  Whoever has no role counts as a Super Admin     *)
(* (resolveAdminAccess: "|| !admin.roleId"), as administrators from before *)
(* there were roles do until ensureSystemRole gives them theirs.           *)
(***************************************************************************)
EXTENDS Handlers

CONSTANTS
  Members,   \* administrators, there or to be invited
  Founders,  \* of them, those who may have been there before there were roles
  Roles,     \* roles that can be created
  Super      \* the system role super-admin

ASSUME StaffAssumption == Founders \subseteq Members /\ {None, Super} \cap Roles = {} /\ None # Super

VARIABLES
  roles,     \* the roles there are
  staff,     \* the administrators' rows
  told,      \* invited administrators who know their one-time password
  founders   \* who has been made a Super Admin (history)

staffVars == <<roles, staff, told, founders>>

(* inviteStatus, isBanned (with not isActive), mustChangePassword, and     *)
(* what passwordHash is the hash of.                                       *)
NoRow   == [role |-> None, status |-> "NONE", barred |-> FALSE, first |-> FALSE, hash |-> "none"]
OwnRow(role) == [role |-> role, status |-> "ACTIVE", barred |-> FALSE, first |-> FALSE, hash |-> "own"]

StaffInit ==
  /\ founders \in {{}, Founders}
  /\ roles = {}
  /\ staff = [a \in Members |-> IF a \in founders THEN OwnRow(None) ELSE NoRow]
  /\ told = {}

There(a)  == staff[a].status # "NONE"
IsSuper(a) == There(a) /\ staff[a].role \in {None, Super}
Usable(a) == There(a) /\ ~staff[a].barred
Acting(a) == \E s \in Members : s # a /\ Usable(s)

-----------------------------------------------------------------------------
(* The first administrator of an empty console, in one transaction.        *)
CreateFirst(r, a) ==
  /\ \A s \in Members : ~There(s)
  /\ Once(r)
  /\ roles' = roles \cup {Super}
  /\ staff' = [staff EXCEPT ![a] = OwnRow(Super)]
  /\ founders' = founders \cup {a}
  /\ UNCHANGED told

(* ensureSystemRole, at every listing of roles or staff.                   *)
ListStaff(r) ==
  /\ \E a \in Members : Usable(a)
  /\ Begin(r, "system.role", None, None, None)
  /\ roles' = roles \cup {Super}
  /\ UNCHANGED <<staff, told, founders>>

GiveSystemRole(r) ==
  /\ req[r].at = "system.role"
  /\ staff' = [a \in Members |->
       IF There(a) /\ staff[a].role = None
         THEN [staff[a] EXCEPT !.role = Super, !.status = "ACTIVE", !.first = FALSE]
         ELSE staff[a]]
  /\ End(r)
  /\ UNCHANGED <<roles, told, founders>>

CreateRole(r, role) ==
  /\ role \notin roles /\ \E a \in Members : Usable(a)
  /\ Once(r)
  /\ roles' = roles \cup {role}
  /\ UNCHANGED <<staff, told, founders>>

(* deleteRole counts the role's administrators, then deletes it; the       *)
(* database takes the role from whoever has it by then (SET NULL).         *)
Deletable_Any_Mutant(role) == role \in roles \ {Super}

Deletable(role) ==
  role \in roles \ {Super} /\ \A a \in Members : There(a) => staff[a].role # role

DeleteRole(r, role) ==
  /\ Deletable(role)
  /\ Begin(r, "role.delete", role, None, None)
  /\ UNCHANGED staffVars

RemoveRole(r) ==
  /\ req[r].at = "role.delete" /\ req[r].on \in roles
  /\ roles' = roles \ {req[r].on}
  /\ staff' = [a \in Members |->
       IF staff[a].role = req[r].on THEN [staff[a] EXCEPT !.role = None] ELSE staff[a]]
  /\ End(r)
  /\ UNCHANGED <<told, founders>>

-----------------------------------------------------------------------------
(* inviteStaff: the row is created with the hash 'pending', then the hash  *)
(* of its id is written, then the id is mailed as the one-time password.   *)
Invite(r, a, role) ==
  /\ ~There(a) /\ role \in roles \ {Super} /\ Acting(a)
  /\ Begin(r, "invite.create", a, role, None)
  /\ UNCHANGED staffVars

CreateInvited(r) ==
  /\ req[r].at = "invite.create" /\ ~There(req[r].on) /\ req[r].by \in roles
  /\ staff' = [staff EXCEPT ![req[r].on] =
       [role |-> req[r].by, status |-> "PENDING", barred |-> FALSE, first |-> TRUE, hash |-> "pending"]]
  /\ Goto(r, "invite.hash")
  /\ UNCHANGED <<roles, told, founders>>

HashInvited_Skipped_Mutant(r) ==
  /\ req[r].at = "invite.hash"
  /\ Goto(r, "invite.send")
  /\ UNCHANGED staffVars

HashInvited(r) ==
  /\ req[r].at = "invite.hash"
  /\ staff' = [staff EXCEPT ![req[r].on].hash = "id"]
  /\ Goto(r, "invite.send")
  /\ UNCHANGED <<roles, told, founders>>

(* Mailed, or else shown to the inviter to pass on.                        *)
SendInvitation(r) ==
  /\ req[r].at = "invite.send"
  /\ told' = told \cup {req[r].on}
  /\ End(r)
  /\ UNCHANGED <<roles, staff, founders>>

Reveal(r, a) ==
  /\ staff[a].status = "PENDING" /\ staff[a].first /\ Acting(a)
  /\ Once(r)
  /\ told' = told \cup {a}
  /\ UNCHANGED <<roles, staff, founders>>

(* AuthService.loginAdmin with the id, then setAdminPassword.              *)
FirstSignIn(r, a) ==
  /\ Usable(a) /\ a \in told /\ staff[a].hash = "id" /\ staff[a].first
  /\ Begin(r, "own.write", a, None, None)
  /\ UNCHANGED staffVars

WriteOwnPassword(r) ==
  /\ req[r].at = "own.write"
  /\ staff' = [staff EXCEPT ![req[r].on].hash = "own", ![req[r].on].first = FALSE,
                            ![req[r].on].status = "ACTIVE"]
  /\ End(r)
  /\ UNCHANGED <<roles, told, founders>>

(* AuthService.resetPassword by a mailed code: the hash and nothing else.  *)
ResetByMail(r, a) ==
  /\ There(a) /\ staff[a].hash # "pending"
  /\ Once(r)
  /\ staff' = [staff EXCEPT ![a].hash = "own"]
  /\ UNCHANGED <<roles, told, founders>>

-----------------------------------------------------------------------------
(* updateStaff: a Super Admin is reassigned only by himself.               *)
Reassign(r, a, role, actor) ==
  /\ There(a) /\ Usable(actor)
  /\ staff[a].role = Super => actor = a
  /\ role \in roles \ {Super}
  /\ Begin(r, "staff.role", a, role, None)
  /\ UNCHANGED staffVars

WriteRole(r) ==
  /\ req[r].at = "staff.role" /\ req[r].by \in roles
  /\ staff' = [staff EXCEPT ![req[r].on].role = req[r].by]
  /\ End(r)
  /\ UNCHANGED <<roles, told, founders>>

Disable(r, a) ==
  /\ There(a) /\ staff[a].role # Super /\ Acting(a)
  /\ Begin(r, "disable.write", a, None, None)
  /\ UNCHANGED staffVars

WriteDisabled(r) ==
  /\ req[r].at = "disable.write"
  /\ staff' = [staff EXCEPT ![req[r].on].barred = TRUE, ![req[r].on].status = "DISABLED"]
  /\ End(r)
  /\ UNCHANGED <<roles, told, founders>>

(* enableStaff reads mustChangePassword and writes the status it implies.  *)
Enable(r, a) ==
  /\ There(a) /\ Acting(a)
  /\ Begin(r, "enable.write", a, None, staff[a].first)
  /\ UNCHANGED staffVars

StatusOf_Active_Mutant(first) == "ACTIVE"

StatusOf(first) == IF first THEN "PENDING" ELSE "ACTIVE"

WriteEnabled(r) ==
  /\ req[r].at = "enable.write"
  /\ staff' = [staff EXCEPT ![req[r].on].barred = FALSE,
                            ![req[r].on].status = StatusOf(req[r].saw)]
  /\ End(r)
  /\ UNCHANGED <<roles, told, founders>>

-----------------------------------------------------------------------------
(* The database refuses a row or a role that is there or gone by now.      *)
StaffRefused(r) ==
  \/ req[r].at = "invite.create" /\ (There(req[r].on) \/ req[r].by \notin roles)
  \/ req[r].at = "staff.role" /\ req[r].by \notin roles
  \/ req[r].at = "role.delete" /\ req[r].on \notin roles

StopStaff(r) ==
  /\ \/ StaffRefused(r) /\ End(r)
     \/ Die(r)
  /\ UNCHANGED staffVars

StaffArrive(r) ==
  \/ ListStaff(r)
  \/ \E role \in Roles : CreateRole(r, role) \/ DeleteRole(r, role)
  \/ \E a \in Members :
       \/ CreateFirst(r, a) \/ Reveal(r, a)  \/ FirstSignIn(r, a) \/ ResetByMail(r, a)
       \/ Disable(r, a)     \/ Enable(r, a)
       \/ \E role \in Roles : Invite(r, a, role)
       \/ \E role \in Roles, actor \in Members : Reassign(r, a, role, actor)

StaffProceed(r) ==
  \/ GiveSystemRole(r) \/ RemoveRole(r)
  \/ CreateInvited(r)  \/ HashInvited(r)   \/ SendInvitation(r)
  \/ WriteOwnPassword(r)
  \/ WriteRole(r)      \/ WriteDisabled(r) \/ WriteEnabled(r)
  \/ StopStaff(r)

StaffNext == \E r \in Requests : StaffArrive(r) \/ StaffProceed(r)

StaffSpec == StaffInit /\ FlightInit /\ [][StaffNext]_<<staffVars, flight>>

-----------------------------------------------------------------------------
StaffTypeOK ==
  /\ roles \subseteq Roles \cup {Super}
  /\ staff \in [Members -> [role : Roles \cup {Super, None},
                            status : {"NONE", "PENDING", "ACTIVE", "DISABLED"},
                            barred : BOOLEAN, first : BOOLEAN,
                            hash : {"none", "pending", "id", "own"}]]
  /\ told \subseteq Members /\ founders \subseteq Members

Invited(a) == There(a) /\ a \notin founders

(* One request at a time, though they may die: nobody becomes a Super      *)
(* Admin but the founders, in particular not by the deletion of his role   *)
(* ("Reassign administrators before deleting this role").                  *)
NobodyIsRaised == OneByOne => \A a \in Members : IsSuper(a) => a \in founders

(* One request at a time, the columns that say how an invited              *)
(* administrator stands agree: disabled is barred, pending has yet to set  *)
(* his password (disableStaff, enableStaff, setAdminPassword).  And if no  *)
(* request has died, whoever is pending can sign in: "The administrator ID *)
(* is the one-time password for first sign-in", unless reset by mail.      *)
InvitationsAgree ==
  /\ OneByOne => \A a \in Members : Invited(a) =>
       /\ staff[a].barred <=> staff[a].status = "DISABLED"
       /\ ~staff[a].barred => (staff[a].first <=> staff[a].status = "PENDING")
  /\ Orderly /\ AtRest => \A a \in Members :
       staff[a].status = "PENDING" => a \in told /\ staff[a].hash # "pending"
=============================================================================
