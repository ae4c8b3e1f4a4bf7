-------------------------------- MODULE Teams --------------------------------
(***************************************************************************)
(* team.service.ts, its server actions and team context, and registration: *)
(* who belongs to a team with which role. Teams share nothing but which of *)
(* them is active for a user: one is modelled, a context in any other team *)
(* is "elsewhere". A request first resolves its team context, then checks, *)
(* then writes; other requests run between these steps, so the rank and    *)
(* permissions it acts on may be stale. Names, descriptions, the audit log *)
(* and the revocation of broker credentials by deleteTeam are left out; an *)
(* error ends a request, and so does a crash, at any step (Abandon).       *)
(***************************************************************************)
EXTENDS Naturals, FiniteSets

CONSTANTS
  Users,
  SeededUsers,  \* users who registered for another reason than this team
  Requests,
  CustomRoles, CustomRank,
  RoleGrants,   \* the permission sets that role editing chooses from
  InviteLimit,  \* bound on the invitations of a user
  NoRole, NoUser

SystemRoles == {"Owner", "Admin", "Viewer"}
Permissions == {"manage_members", "manage_roles", "manage_settings"}

ASSUME TeamsAssumption ==
  /\ SeededUsers \subseteq Users /\ InviteLimit \in Nat
  /\ CustomRank \in [CustomRoles -> 1..99]
  /\ RoleGrants \subseteq SUBSET Permissions
  /\ CustomRoles \cap SystemRoles = {}
  /\ NoRole \notin CustomRoles \cup SystemRoles /\ NoUser \notin Users

VARIABLES
  registered,
  teamKind,     \* "none", "personal", "shared" or "deleted"
  customRoles,  \* its roles beyond the system roles
  rolePerms,    \* per role: Role.permissions
  member,       \* per user: the role, NoRole for no membership
  invite,       \* per user (email): the row of team_invites
  activeHere,   \* users whose active team this is
  request,      \* per request: its step, context and arguments
  founder       \* history: whom createTeam made the Owner

teamsVars == <<registered, teamKind, customRoles, rolePerms, member, invite,
               activeHere, request, founder>>
rolesVars == <<customRoles, rolePerms>>
teamVars  == <<teamKind, rolesVars, founder>>

Roles == SystemRoles \cup CustomRoles
Rank(r) == CASE r = "Owner" -> 100 [] r = "Admin" -> 80 [] r = "Viewer" -> 10
             [] OTHER -> CustomRank[r]
Seeded(r) == CASE r = "Owner" -> Permissions
               [] r = "Admin" -> Permissions \ {"manage_settings"}
               [] OTHER -> {}

Exists == teamKind \in {"personal", "shared"}
TeamRoles == IF Exists THEN SystemRoles \cup customRoles ELSE {}
IsMember(u) == member[u] # NoRole

\* A row keeps its identity when it is issued anew.
NoInvite == [row |-> 0, issued |-> 0, role |-> NoRole, state |-> "none"]
InviteType == [row : 0..InviteLimit, issued : 0..InviteLimit,
               role : Roles \cup {NoRole},
               state : {"none", "open", "accepted", "revoked", "expired"}]

Steps == {"idle", "here", "elsewhere", "activate", "invite", "revoke", "change",
          "remove", "forget", "newRole", "editRole", "dropRole", "accept",
          "detach", "erase"}
Ended == [step |-> "idle", user |-> NoUser, rank |-> 0, perms |-> {},
          who |-> NoUser, role |-> NoRole, row |-> 0]

TeamsTypeOK ==
  /\ registered \subseteq Users
  /\ teamKind \in {"none", "personal", "shared", "deleted"}
  /\ customRoles \subseteq CustomRoles
  /\ rolePerms \in [Roles -> SUBSET Permissions]
  /\ member \in [Users -> Roles \cup {NoRole}]
  /\ invite \in [Users -> InviteType]
  /\ activeHere \subseteq Users
  /\ request \in [Requests ->
       [step : Steps, user : Users \cup {NoUser}, rank : 0..100,
        perms : SUBSET Permissions, who : Users \cup {NoUser},
        role : Roles \cup {NoRole}, row : 0..InviteLimit]]
  /\ founder \in Users \cup {NoUser}

TeamsInit ==
  /\ registered = SeededUsers
  /\ teamKind = "none" /\ founder = NoUser
  /\ customRoles = {} /\ rolePerms = [r \in Roles |-> Seeded(r)]
  /\ member = [u \in Users |-> NoRole]
  /\ invite = [u \in Users |-> NoInvite]
  /\ activeHere = {}
  /\ request = [q \in Requests |-> Ended]

-----------------------------------------------------------------------------
(* Registration, the team context, and new teams.                          *)

Goto(q, step) == request' = [request EXCEPT ![q].step = step]
End(q) == request' = [request EXCEPT ![q] = Ended]

\* What the write takes along.
Proceed(q, step, u, r) ==
  request' = [request EXCEPT ![q] =
    [Ended EXCEPT !.step = step, !.user = request[q].user, !.who = u, !.role = r]]

\* Registration is closed; a pending invite for the address lets a user in.
MayRegister(u) == invite[u].state = "open"

RegisterUser(q, u) ==
  /\ request[q].step = "idle" /\ u \notin registered /\ MayRegister(u)
  /\ registered' = registered \cup {u}
  /\ request' = [request EXCEPT ![q] = [Ended EXCEPT !.step = "elsewhere", !.user = u]]
  /\ UNCHANGED <<teamVars, member, invite, activeHere>>

\* The active team, else any other.
GetTeamContext(q, u) ==
  /\ request[q].step = "idle" /\ u \in registered
  /\ \/ /\ ~(IsMember(u) /\ u \in activeHere)
        /\ request' = [request EXCEPT ![q] =
             [Ended EXCEPT !.step = "elsewhere", !.user = u]]
     \/ /\ IsMember(u)
        /\ request' = [request EXCEPT ![q] =
             [Ended EXCEPT !.step = "here", !.user = u,
                !.rank = Rank(member[u]), !.perms = rolePerms[member[u]]]]
  /\ UNCHANGED <<registered, teamVars, member, invite, activeHere>>

\* createTeamAction, and ensurePersonalTeam for a user without a team; both
\* make the new team the active one in a step of its own.
CreateTeam(q, kind) ==
  /\ request[q].step \in {"here", "elsewhere"} /\ teamKind = "none"
  /\ teamKind' = kind
  /\ founder' = request[q].user
  /\ member' = [member EXCEPT ![request[q].user] = "Owner"]
  /\ Proceed(q, "activate", NoUser, NoRole)
  /\ UNCHANGED <<registered, rolesVars, invite, activeHere>>

\* switchActiveTeam after its check.
Activate(q) ==
  /\ request[q].step = "activate" /\ Exists
  /\ activeHere' = activeHere \cup {request[q].user}
  /\ End(q)
  /\ UNCHANGED <<registered, teamVars, member, invite>>

\* Another team becomes the active one.
ActivateOther(q) ==
  /\ request[q].step \in {"here", "elsewhere"}
  /\ activeHere' = activeHere \ {request[q].user}
  /\ End(q)
  /\ UNCHANGED <<registered, teamVars, member, invite>>

-----------------------------------------------------------------------------
(* The checks: c is the request's context, u and r its arguments.          *)

Can(c, perm) == perm \in c.perms
Owners == {u \in Users : member[u] = "Owner"}
NotLastOwner(u) == member[u] = "Owner" => Cardinality(Owners) > 1
\* Mutated: one's own rank may be given away.
OutranksOrEquals(c, r) == Rank(r) <= c.rank

Outranks(c, r) == Rank(r) < c.rank

MayInvite(c, u, r) ==
  Can(c, "manage_members") /\ r \in TeamRoles /\ Outranks(c, r) /\ ~IsMember(u)
MayRevoke(c, u) == Can(c, "manage_members") /\ invite[u].row > 0
MayChange(c, u, r) ==
  /\ Can(c, "manage_members") /\ IsMember(u) /\ r \in TeamRoles
  /\ Outranks(c, member[u]) /\ Outranks(c, r) /\ u # c.user /\ NotLastOwner(u)
MayRemove(c, u) ==
  /\ Can(c, "manage_members") /\ IsMember(u)
  /\ Outranks(c, member[u]) \/ u = c.user
  /\ NotLastOwner(u)
MayLeave(c) == IsMember(c.user) /\ teamKind = "shared" /\ NotLastOwner(c.user)
MayCreateRole(c, r) ==
  Can(c, "manage_roles") /\ r \in CustomRoles \ customRoles /\ Outranks(c, r)
MayEditRole(c, r) ==
  Can(c, "manage_roles") /\ r \in TeamRoles \ {"Owner"} /\ Outranks(c, r)
MayDropRole(c, r) ==
  /\ Can(c, "manage_roles") /\ r \in customRoles /\ Outranks(c, r)
  /\ \A u \in Users : member[u] # r
MayDeleteTeam(c) == Can(c, "manage_settings") /\ teamKind = "shared"

CheckHere(q) ==
  LET c == request[q] IN
  /\ c.step = "here"
  /\ \/ \E u \in Users, r \in Roles :
          \/ MayInvite(c, u, r) /\ Proceed(q, "invite", u, r)
          \/ MayChange(c, u, r) /\ Proceed(q, "change", u, r)
     \/ \E u \in Users :
          \/ MayRevoke(c, u) /\ Proceed(q, "revoke", u, NoRole)
          \/ MayRemove(c, u) /\ Proceed(q, "remove", u, NoRole)
     \/ MayLeave(c) /\ Proceed(q, "remove", c.user, NoRole)
     \/ \E r \in Roles :
          \/ MayCreateRole(c, r) /\ Proceed(q, "newRole", NoUser, r)
          \/ MayEditRole(c, r) /\ Proceed(q, "editRole", NoUser, r)
          \/ MayDropRole(c, r) /\ Proceed(q, "dropRole", NoUser, r)
     \/ MayDeleteTeam(c) /\ Proceed(q, "detach", NoUser, NoRole)
  /\ UNCHANGED <<registered, teamVars, member, invite, activeHere>>

\* acceptInviteAction and switchTeamAction, whatever the context.
CheckAnywhere(q) ==
  LET c == request[q]  row == invite[c.user] IN
  /\ c.step \in {"here", "elsewhere"}
  /\ \/ /\ row.state = "open"
        /\ request' = [request EXCEPT ![q] =
             [Ended EXCEPT !.step = "accept", !.user = c.user,
                           !.role = row.role, !.row = row.row]]
     \/ IsMember(c.user) /\ Proceed(q, "activate", NoUser, NoRole)
  /\ UNCHANGED <<registered, teamVars, member, invite, activeHere>>

-----------------------------------------------------------------------------
(* The writes. A violated constraint of the schema is an error: Abandon.   *)

\* An upsert; issuing a row anew opens it again.
InviteMember(q) ==
  LET c == request[q]  old == invite[c.who] IN
  /\ c.step = "invite" /\ c.role \in TeamRoles /\ old.issued < InviteLimit
  /\ invite' = [invite EXCEPT ![c.who] =
       [row |-> IF old.row = 0 THEN old.issued + 1 ELSE old.row,
        issued |-> old.issued + 1, role |-> c.role, state |-> "open"]]
  /\ End(q)
  /\ UNCHANGED <<registered, teamVars, member, activeHere>>

\* Whatever state the row is in by now.
RevokeInvite(q) ==
  LET c == request[q] IN
  /\ c.step = "revoke" /\ invite[c.who].row > 0
  /\ invite' = [invite EXCEPT ![c.who].state = "revoked"]
  /\ End(q)
  /\ UNCHANGED <<registered, teamVars, member, activeHere>>

ExpireInvite(u) ==
  /\ invite[u].state = "open"
  /\ invite' = [invite EXCEPT ![u].state = "expired"]
  /\ UNCHANGED <<registered, teamVars, member, activeHere, request>>

\* One transaction; the row may have been accepted, revoked or issued anew.
AcceptInvite(q) ==
  LET c == request[q] IN
  /\ c.step = "accept" /\ c.role \in TeamRoles
  /\ invite[c.user].row = c.row
  /\ member' = [member EXCEPT ![c.user] = c.role]
  /\ invite' = [invite EXCEPT ![c.user].state =
                  IF @ = "revoked" THEN @ ELSE "accepted"]
  /\ activeHere' = activeHere \cup {c.user}
  /\ End(q)
  /\ UNCHANGED <<registered, teamVars>>

ChangeMemberRole(q) ==
  LET c == request[q] IN
  /\ c.step = "change" /\ IsMember(c.who) /\ c.role \in TeamRoles
  /\ member' = [member EXCEPT ![c.who] = c.role]
  /\ End(q)
  /\ UNCHANGED <<registered, teamVars, invite, activeHere>>

\* removeMember and leaveTeam: the membership, then the active team.
RemoveMember(q) ==
  LET c == request[q] IN
  /\ c.step = "remove" /\ IsMember(c.who)
  /\ member' = [member EXCEPT ![c.who] = NoRole]
  /\ Goto(q, "forget")
  /\ UNCHANGED <<registered, teamVars, invite, activeHere>>

Forget(q) ==
  LET c == request[q] IN
  /\ c.step = "forget"
  /\ activeHere' = activeHere \ {c.who}
  /\ End(q)
  /\ UNCHANGED <<registered, teamVars, member, invite>>

CreateRole(q) ==
  LET c == request[q] IN
  /\ c.step = "newRole" /\ Exists /\ c.role \notin customRoles
  /\ customRoles' = customRoles \cup {c.role}
  /\ \E perms \in RoleGrants :
       rolePerms' = [rolePerms EXCEPT ![c.role] = perms]
  /\ End(q)
  /\ UNCHANGED <<registered, teamKind, founder, member, invite, activeHere>>

UpdateRole(q) ==
  LET c == request[q] IN
  /\ c.step = "editRole" /\ c.role \in TeamRoles
  /\ \E perms \in RoleGrants :
       rolePerms' = [rolePerms EXCEPT ![c.role] = perms]
  /\ End(q)
  /\ UNCHANGED <<registered, teamKind, founder, customRoles, member, invite,
                 activeHere>>

\* Mutated: the schema does not restrict the deletion of a role.
UnusedOrNot(r) == TRUE

\* onDelete: Restrict for members, Cascade for invites.
Unused(r) == \A u \in Users : member[u] # r
WithoutInvites(r) ==
  [u \in Users |-> IF invite[u].role = r
                   THEN [NoInvite EXCEPT !.issued = invite[u].issued] ELSE invite[u]]

DeleteRole(q) ==
  LET c == request[q] IN
  /\ c.step = "dropRole" /\ c.role \in TeamRoles /\ Unused(c.role)
  /\ customRoles' = customRoles \ {c.role}
  /\ invite' = WithoutInvites(c.role)
  /\ End(q)
  /\ UNCHANGED <<registered, teamKind, founder, rolePerms, member, activeHere>>

ClearActive(q) ==
  /\ request[q].step = "detach"
  /\ activeHere' = {}
  /\ Goto(q, "erase")
  /\ UNCHANGED <<registered, teamVars, member, invite>>

\* The cascades of the schema.
DeleteTeam(q) ==
  /\ request[q].step = "erase" /\ Exists
  /\ teamKind' = "deleted"
  /\ customRoles' = {} /\ activeHere' = {}
  /\ member' = [u \in Users |-> NoRole]
  /\ invite' = [u \in Users |-> NoInvite]
  /\ End(q)
  /\ UNCHANGED <<registered, rolePerms, founder>>

Abandon(q) ==
  /\ request[q].step # "idle"
  /\ End(q)
  /\ UNCHANGED <<registered, teamVars, member, invite, activeHere>>

RequestStep(q) ==
  \/ \E u \in Users : RegisterUser(q, u) \/ GetTeamContext(q, u)
  \/ \E kind \in {"personal", "shared"} : CreateTeam(q, kind)
  \/ Activate(q) \/ ActivateOther(q) \/ CheckHere(q) \/ CheckAnywhere(q)
  \/ InviteMember(q) \/ RevokeInvite(q) \/ AcceptInvite(q)
  \/ ChangeMemberRole(q) \/ RemoveMember(q) \/ Forget(q)
  \/ CreateRole(q) \/ UpdateRole(q) \/ DeleteRole(q)
  \/ ClearActive(q) \/ DeleteTeam(q) \/ Abandon(q)

TeamsNext ==
  \/ \E q \in Requests : RequestStep(q)
  \/ \E u \in Users : ExpireInvite(u)

TeamsSpec == TeamsInit /\ [][TeamsNext]_teamsVars

-----------------------------------------------------------------------------
(* Properties.                                                             *)

\* A team has exactly one Owner, the user who created it, from its creation
\* to its deletion: no invitation, promotion, removal or departure, checked
\* against a rank or a count that is stale by the time it is written, adds an
\* Owner or takes the only one away (ensureNotLastOwner and the rank checks).
ExactlyOneOwner ==
  Exists => Owners = {founder}

\* The role of a member, and that of an open invitation, is a role of the team:
\* a role is not deleted between the check that nobody has it and the write,
\* nor assigned after it is gone (deleteRole against the writes that assign).
RolesAreOfTheTeam ==
  \A u \in Users :
    /\ member[u] \in TeamRoles \cup {NoRole}
    /\ invite[u].role \in TeamRoles \cup {NoRole}
============================================================================
