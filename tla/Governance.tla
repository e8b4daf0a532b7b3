----------------------------- MODULE Governance -----------------------------
(***************************************************************************)
(* One organization with one workspace: its memberships and the roles they *)
(* give (workspace_views.py, workspace_permissions.py), and the            *)
(* invitations that make users members (enterprise_views.py,               *)
(* invitations.py).                                                        *)
(*                                                                         *)
(* A request checks who may do what, and then writes: its actions are one  *)
(* to check and one for the transaction, with the requests of others       *)
(* between them.  What it read is kept in its request record.              *)
(*                                                                         *)
(* Definitions marked "Fault:" are no part of the model.  Each is what the *)
(* definition after it would be with a plausible bug, and is used to show  *)
(* that the properties notice the bug.                                     *)
(***************************************************************************)
EXTENDS Naturals, FiniteSets

CONSTANTS
  Users,        \* users, each with one e-mail address
  Invitations,  \* primary keys of OrganizationInvitation rows
  Requests,     \* web requests that may be in progress at the same time
  OrgRole,      \* the roles in the organization that requests ask for
  WsRole,       \* the roles in the workspace that requests ask for
  MaxRows       \* bound: how often a user may become a member

\* VIEWER stands for every workspace role that does not manage members.
ASSUME RolesAssumption ==
  /\ OrgRole \subseteq {"OWNER", "ADMIN", "MEMBER", "AUDITOR"} /\ "OWNER" \in OrgRole
  /\ WsRole \subseteq {"ADMIN", "VIEWER"} /\ "ADMIN" \in WsRole

ASSUME MaxRowsAssumption == MaxRows \in Nat \ {0}

VARIABLES
  org,         \* OrganizationMembership: role and number of the row of a user
  ws,          \* WorkspaceMembership: the same
  invitation,  \* the rows of the invitations
  request      \* the requests in progress

vars == <<org, ws, invitation, request>>

-----------------------------------------------------------------------------

Rows == 0..MaxRows

\* A deleted membership has the role NONE; the next one of the user is a new row.
Membership(roles) == [role : roles \cup {"NONE"}, row : Rows]

Absent == [status |-> "ABSENT"]

Offer == [user : Users, role : OrgRole \ {"OWNER"}, grant : WsRole \cup {"NONE"}]

\* due: expires_at has passed.
Invitation ==
  [status : {"PENDING", "ACCEPTED", "REVOKED", "EXPIRED"}, offer : Offer, due : BOOLEAN]

Idle == [kind |-> "idle"]

Request ==
       [kind : {"add", "change", "remove"}, user : Users, row : Rows, role : OrgRole]
  \cup [kind : {"addWs", "changeWs", "removeWs"}, user : Users, row : Rows, role : WsRole]
  \cup [kind : {"invite"}, offer : Offer]
  \cup [kind : {"revoke", "expire", "accept"}, invitation : Invitations]

TypeOK ==
  /\ org \in [Users -> Membership(OrgRole)]
  /\ ws \in [Users -> Membership(WsRole)]
  /\ invitation \in [Invitations -> Invitation \cup {Absent}]
  /\ request \in [Requests -> Request \cup {Idle}]

Init ==
  /\ org = [u \in Users |-> [role |-> "NONE", row |-> 0]]
  /\ ws = [u \in Users |-> [role |-> "NONE", row |-> 0]]
  /\ invitation = [i \in Invitations |-> Absent]
  /\ request = [q \in Requests |-> Idle]

-----------------------------------------------------------------------------
(* Memberships.                                                            *)

Owners == {u \in Users : org[u].role = "OWNER"}

\* _require_org_admin, _org_for_manager
ManagesOrg(u) == org[u].role \in {"OWNER", "ADMIN"}

\* effective_workspace_role gives a role with the capability member.manage.
ManagesWs(u) ==
  \/ ManagesOrg(u)
  \/ org[u].role # "AUDITOR" /\ ws[u].role = "ADMIN"

Room(members, u) == members[u].row < MaxRows

Enrol(members, u, r) == [members EXCEPT ![u] = [role |-> r, row |-> @.row + 1]]

SetRole(members, u, r) == [members EXCEPT ![u].role = r]

\* update_or_create
Grant(members, u, r) ==
  IF members[u].role = "NONE" THEN Enrol(members, u, r) ELSE SetRole(members, u, r)

\* get(pk=...) finds the row that was read before.
SameRow(members, r) == members[r.user].role # "NONE" /\ members[r.user].row = r.row

Begin(q, r) ==
  /\ request[q] = Idle
  /\ request' = [request EXCEPT ![q] = r]

Kind(q) == request[q].kind

End(q) == request' = [request EXCEPT ![q] = Idle]

\* OrganizationListView.post
CreateOrganization(u) ==
  /\ \A v \in Users : org[v].row = 0 /\ ws[v].row = 0
  /\ org' = Enrol(org, u, "OWNER")
  /\ ws' = Enrol(ws, u, "ADMIN")
  /\ UNCHANGED <<invitation, request>>

\* OrganizationMemberListView.post: the checks ...
AddRead(q, actor, u, r) ==
  /\ ManagesOrg(actor)
  /\ r = "OWNER" => org[actor].role = "OWNER"
  /\ Begin(q, [kind |-> "add", user |-> u, row |-> 0, role |-> r])
  /\ UNCHANGED <<org, ws, invitation>>

\* ... and get_or_create.
Add(q) ==
  LET u == request[q].user IN
  /\ Kind(q) = "add"
  /\ End(q)
  /\ \/ /\ org[u].role = "NONE" /\ Room(org, u)
        /\ org' = Enrol(org, u, request[q].role)
     \/ org[u].role # "NONE" /\ UNCHANGED org
  /\ UNCHANGED <<ws, invitation>>

\* OrganizationMemberDetailView reads the membership and the actor's role ...
ChangeRead(q, actor, u, r) ==
  /\ ManagesOrg(actor)
  /\ org[u].role # "NONE"
  /\ "OWNER" \in {org[u].role, r} => org[actor].role = "OWNER"
  /\ Begin(q, [kind |-> "change", user |-> u, row |-> org[u].row, role |-> r])
  /\ UNCHANGED <<org, ws, invitation>>

RemoveRead(q, actor, u) ==
  /\ ManagesOrg(actor)
  /\ org[u].role # "NONE"
  /\ org[u].role = "OWNER" => org[actor].role = "OWNER"
  /\ Begin(q, [kind |-> "remove", user |-> u, row |-> org[u].row, role |-> "OWNER"])
  /\ UNCHANGED <<org, ws, invitation>>

\* Fault: all members are counted.
LastMember(u) == org[u].role = "OWNER" /\ \A v \in Users : org[v].role # "NONE" => v = u

\* ... and, with the organization locked, counts the owners ...
LastOwner(u) == Owners = {u}

\* ... before it saves the role ...
Change(q) ==
  LET u == request[q].user IN
  /\ Kind(q) = "change"
  /\ SameRow(org, request[q])
  /\ ~(LastOwner(u) /\ request[q].role # "OWNER")
  /\ org' = SetRole(org, u, request[q].role)
  /\ End(q)
  /\ UNCHANGED <<ws, invitation>>

\* Fault: the memberships of the workspaces are left.
RemoveFromOrg(q) ==
  LET u == request[q].user IN
  /\ Kind(q) = "remove"
  /\ SameRow(org, request[q])
  /\ ~LastOwner(u)
  /\ org' = SetRole(org, u, "NONE")
  /\ End(q)
  /\ UNCHANGED <<ws, invitation>>

\* ... or deletes the membership and those of the workspaces.
Remove(q) ==
  LET u == request[q].user IN
  /\ Kind(q) = "remove"
  /\ SameRow(org, request[q])
  /\ ~LastOwner(u)
  /\ org' = SetRole(org, u, "NONE")
  /\ ws' = SetRole(ws, u, "NONE")
  /\ End(q)
  /\ UNCHANGED invitation

\* 404 (the row is gone) or LAST_OWNER.
RefuseOrg(q) ==
  /\ Kind(q) \in {"change", "remove"}
  /\ \/ ~SameRow(org, request[q])
     \/ /\ LastOwner(request[q].user)
        /\ Kind(q) = "remove" \/ request[q].role # "OWNER"
  /\ End(q)
  /\ UNCHANGED <<org, ws, invitation>>

\* WorkspaceMemberListView.post: only members of the organization are found ...
AddWsRead(q, actor, u, r) ==
  /\ ManagesWs(actor)
  /\ org[u].role # "NONE"
  /\ Begin(q, [kind |-> "addWs", user |-> u, row |-> 0, role |-> r])
  /\ UNCHANGED <<org, ws, invitation>>

\* ... and get_or_create does not look at the organization again.
AddWs(q) ==
  LET u == request[q].user IN
  /\ Kind(q) = "addWs"
  /\ End(q)
  /\ \/ /\ ws[u].role = "NONE" /\ Room(ws, u)
        /\ ws' = Enrol(ws, u, request[q].role)
     \/ ws[u].role # "NONE" /\ UNCHANGED ws
  /\ UNCHANGED <<org, invitation>>

\* WorkspaceMemberDetailView
ChangeWsRead(q, actor, u, kind, r) ==
  /\ ManagesWs(actor)
  /\ ws[u].role # "NONE"
  /\ kind \in {"changeWs", "removeWs"}
  /\ Begin(q, [kind |-> kind, user |-> u, row |-> ws[u].row, role |-> r])
  /\ UNCHANGED <<org, ws, invitation>>

\* save(update_fields=...) and delete() change the row they read or none.
ChangeWs(q) ==
  LET r == request[q] IN
  /\ Kind(q) \in {"changeWs", "removeWs"}
  /\ ws' = IF SameRow(ws, r)
           THEN SetRole(ws, r.user, IF r.kind = "removeWs" THEN "NONE" ELSE r.role)
           ELSE ws
  /\ End(q)
  /\ UNCHANGED <<org, invitation>>

-----------------------------------------------------------------------------
(* Invitations.                                                            *)

Status(i) == invitation[i].status

SetStatus(i, s) == invitation' = [invitation EXCEPT ![i].status = s]

\* accept_invitation holds the row from its check to its commit.
Locked(i) == \E q \in Requests : Kind(q) = "accept" /\ request[q].invitation = i

\* OrganizationInvitationListView.post: the checks, for any role but OWNER.
InviteRead(q, actor, offer) ==
  /\ ManagesOrg(actor)
  /\ Begin(q, [kind |-> "invite", offer |-> offer])
  /\ UNCHANGED <<org, ws, invitation>>

\* resend: the same for what an invitation of any status offered.
ResendRead(q, actor, i) ==
  /\ ManagesOrg(actor)
  /\ Status(i) # "ABSENT"
  /\ Begin(q, [kind |-> "invite", offer |-> invitation[i].offer])
  /\ UNCHANGED <<org, ws, invitation>>

\* create_invitation: the pending invitation of the address is revoked.
Invite(q, i) ==
  LET new == [status |-> "PENDING", offer |-> request[q].offer, due |-> FALSE]
      earlier(j) == Status(j) = "PENDING" /\ invitation[j].offer.user = new.offer.user
  IN
  /\ Kind(q) = "invite"
  /\ Status(i) = "ABSENT"
  /\ \A j \in Invitations : earlier(j) => ~Locked(j)
  /\ invitation' = [j \in Invitations |->
                      IF j = i THEN new
                      ELSE IF earlier(j) THEN [invitation[j] EXCEPT !.status = "REVOKED"]
                      ELSE invitation[j]]
  /\ End(q)
  /\ UNCHANGED <<org, ws>>

\* The clock reaches expires_at.
Due(i) ==
  /\ Status(i) = "PENDING"
  /\ ~invitation[i].due
  /\ invitation' = [invitation EXCEPT ![i].due = TRUE]
  /\ UNCHANGED <<org, ws, request>>

\* OrganizationInvitationActionView reads a pending invitation ...
RevokeRead(q, actor, i) ==
  /\ ManagesOrg(actor)
  /\ Status(i) = "PENDING"
  /\ Begin(q, [kind |-> "revoke", invitation |-> i])
  /\ UNCHANGED <<org, ws, invitation>>

\* ... and so does resolve_invitation for a preview or a registration ...
PreviewRead(q, i) ==
  /\ Status(i) = "PENDING"
  /\ invitation[i].due
  /\ Begin(q, [kind |-> "expire", invitation |-> i])
  /\ UNCHANGED <<org, ws, invitation>>

\* ... and saves its new status over whatever the row has become.
Close(q) ==
  /\ Kind(q) \in {"revoke", "expire"}
  /\ ~Locked(request[q].invitation)
  /\ SetStatus(request[q].invitation, IF Kind(q) = "revoke" THEN "REVOKED" ELSE "EXPIRED")
  /\ End(q)
  /\ UNCHANGED <<org, ws>>

\* Fault: the row is read without select_for_update.
AcceptReadUnlocked(q, i) ==
  /\ Status(i) = "PENDING"
  /\ ~invitation[i].due
  /\ Begin(q, [kind |-> "accept", invitation |-> i])
  /\ UNCHANGED <<org, ws, invitation>>

\* accept_invitation by the invited user: resolve_invitation(for_update=True) ...
AcceptRead(q, i) ==
  /\ Status(i) = "PENDING"
  /\ ~invitation[i].due
  /\ ~Locked(i)
  /\ Begin(q, [kind |-> "accept", invitation |-> i])
  /\ UNCHANGED <<org, ws, invitation>>

\* ... and the memberships are created or updated in one transaction.
Accept(q) ==
  LET i == request[q].invitation
      offer == invitation[i].offer IN
  /\ Kind(q) = "accept"
  /\ org[offer.user].role # "NONE" \/ Room(org, offer.user)
  /\ org' = Grant(org, offer.user, offer.role)
  /\ \/ offer.grant = "NONE" /\ UNCHANGED ws
     \/ /\ offer.grant # "NONE"
        /\ ws[offer.user].role # "NONE" \/ Room(ws, offer.user)
        /\ ws' = Grant(ws, offer.user, offer.grant)
  /\ SetStatus(i, "ACCEPTED")
  /\ End(q)

-----------------------------------------------------------------------------

MemberStep(q) ==
  \/ \E actor, u \in Users :
       \/ \E r \in OrgRole : AddRead(q, actor, u, r) \/ ChangeRead(q, actor, u, r)
       \/ RemoveRead(q, actor, u)
       \/ \E r \in WsRole : AddWsRead(q, actor, u, r)
       \/ \E r \in WsRole, k \in {"changeWs", "removeWs"} : ChangeWsRead(q, actor, u, k, r)
  \/ Add(q) \/ Change(q) \/ Remove(q) \/ RefuseOrg(q)
  \/ AddWs(q) \/ ChangeWs(q)

InvitationStep(q) ==
  \/ \E actor \in Users :
       \/ \E offer \in Offer : InviteRead(q, actor, offer)
       \/ \E i \in Invitations : ResendRead(q, actor, i) \/ RevokeRead(q, actor, i)
  \/ \E i \in Invitations : Invite(q, i) \/ PreviewRead(q, i) \/ AcceptRead(q, i)
  \/ Close(q) \/ Accept(q)

Next ==
  \/ \E u \in Users : CreateOrganization(u)
  \/ \E q \in Requests : MemberStep(q) \/ InvitationStep(q)
  \/ \E i \in Invitations : Due(i)

Spec == Init /\ [][Next]_vars

-----------------------------------------------------------------------------
(* Properties.                                                             *)

Accepts(q) == Kind(q) = "accept" /\ request'[q] = Idle

\* However many owners demote and remove each other at once, the organization
\* keeps one. (An accepted invitation may take the role of the last one: see
\* AlwaysAnOwner.)
LastOwnerStays ==
  [][Owners # {} /\ ~(\E q \in Requests : Accepts(q)) => Owners' # {}]_vars

\* An invitation that makes a user a member is PENDING until it does:
\* two acceptances, a revocation or an expiry never cross it, and a used,
\* revoked or expired one never becomes PENDING again.
InvitationWorksOnce ==
  [][/\ \A q \in Requests : Accepts(q) => Status(request[q].invitation) = "PENDING"
     /\ \A i \in Invitations :
          Status(i) \notin {"ABSENT", "PENDING"} => invitation'[i].status # "PENDING"]_vars

\* An address has at most one PENDING invitation, so that revoking it leaves none.
OnePending ==
  \A i, j \in Invitations :
    Status(i) = "PENDING" /\ Status(j) = "PENDING" /\ invitation[i].offer.user = invitation[j].offer.user
      => i = j

\* Somebody outside the organization holds a role in its workspace only through
\* a workspace addition that was decided while the user was a member: removals,
\* acceptances and changes at the same time never leave one behind.
Outsider(u) == org[u].role = "NONE" /\ ws[u].role # "NONE"

OutsidersComeLate ==
  [][\A u \in Users :
       ~Outsider(u) /\ org'[u].role = "NONE" /\ ws'[u].role # "NONE"
         => \E q \in Requests :
              Kind(q) = "addWs" /\ request[q].user = u /\ request'[q] = Idle]_vars

\* The inductive invariant: an invitation that is being accepted is held by one
\* request and is PENDING.
AcceptanceHolds ==
  /\ \A q \in Requests : Kind(q) = "accept" => Status(request[q].invitation) = "PENDING"
  /\ \A p, q \in Requests :
       Kind(p) = "accept" /\ Kind(q) = "accept" /\ request[p].invitation = request[q].invitation
         => p = q

\* Requests about invitations name rows that exist.
RequestsNameRows ==
  \A q \in Requests : Kind(q) \in {"revoke", "expire", "accept"} => Status(request[q].invitation) # "ABSENT"

IInv == TypeOK /\ OnePending /\ AcceptanceHolds /\ RequestsNameRows

-----------------------------------------------------------------------------
(* Statements of the repository that the code does not keep.               *)

\* "组织必须至少保留一名所有者" (workspace_views.py): an organization has an owner.
AlwaysAnOwner == (\A u \in Users : org[u].row = 0) \/ Owners # {}

=============================================================================
