-------------------------- MODULE Governance_proofs --------------------------
(***************************************************************************)
(* Proofs about Governance, for any users, invitations, requests and roles.*)
(***************************************************************************)
EXTENDS Governance, TLAPS

\* A membership with a new role, and a new membership, are memberships.
LEMMA MembershipOps ==
  ASSUME NEW roles, NEW members \in [Users -> Membership(roles)], NEW u \in Users
  PROVE  /\ \A r \in roles \cup {"NONE"} : SetRole(members, u, r) \in [Users -> Membership(roles)]
         /\ \A r \in roles : Room(members, u) => Enrol(members, u, r) \in [Users -> Membership(roles)]
         /\ \A r \in roles : members[u].role # "NONE" \/ Room(members, u)
                               => Grant(members, u, r) \in [Users -> Membership(roles)]
<1>1. \A r \in roles \cup {"NONE"} : SetRole(members, u, r) \in [Users -> Membership(roles)]
  BY DEF SetRole, Membership
<1>2. \A r \in roles : Room(members, u) => Enrol(members, u, r) \in [Users -> Membership(roles)]
  BY MaxRowsAssumption DEF Enrol, Room, Membership, Rows
<1>3. QED  BY <1>1, <1>2 DEF Grant

\* The roles that the operations leave behind.
LEMMA RolesAfter ==
  ASSUME NEW roles, NEW members \in [Users -> Membership(roles)], NEW u \in Users, NEW r
  PROVE  /\ SetRole(members, u, r)[u].role = r
         /\ Enrol(members, u, r)[u].role = r
         /\ Grant(members, u, r)[u].role = r
         /\ \A v \in Users \ {u} : /\ SetRole(members, u, r)[v] = members[v]
                                   /\ Enrol(members, u, r)[v] = members[v]
                                   /\ Grant(members, u, r)[v] = members[v]
<1>1. members[u] \in [role : roles \cup {"NONE"}, row : Rows]
  BY DEF Membership
<1>2. SetRole(members, u, r)[u].role = r /\ \A v \in Users \ {u} : SetRole(members, u, r)[v] = members[v]
  BY <1>1 DEF SetRole
<1>3. Enrol(members, u, r)[u].role = r /\ \A v \in Users \ {u} : Enrol(members, u, r)[v] = members[v]
  BY <1>1 DEF Enrol
<1>4. QED  BY <1>2, <1>3 DEF Grant

\* What a request holds, by its kind.
LEMMA RequestTypes ==
  ASSUME TypeOK, NEW q \in Requests
  PROVE  /\ Kind(q) \in {"add", "change", "remove"} =>
              request[q].user \in Users /\ request[q].role \in OrgRole
         /\ Kind(q) \in {"addWs", "changeWs", "removeWs"} =>
              request[q].user \in Users /\ request[q].role \in WsRole
         /\ Kind(q) = "invite" => request[q].offer \in Offer
         /\ Kind(q) \in {"revoke", "expire", "accept"} => request[q].invitation \in Invitations
<1>1. request[q] \in Request \cup {Idle}
  BY DEF TypeOK
<1>2. QED  BY <1>1 DEF Request, Idle, Kind

\* What an invitation that exists holds.
LEMMA InvitationTypes ==
  ASSUME TypeOK, NEW i \in Invitations, Status(i) # "ABSENT"
  PROVE  invitation[i] \in Invitation /\ invitation[i].offer \in Offer
<1>1. invitation[i] \in Invitation \cup {Absent}
  BY DEF TypeOK
<1>2. invitation[i] # Absent
  BY DEF Status, Absent
<1>3. QED  BY <1>1, <1>2 DEF Invitation

-----------------------------------------------------------------------------
(* Type correctness.                                                       *)

\* A request that begins or ends keeps the requests in their type.
LEMMA RequestSteps ==
  ASSUME TypeOK, NEW q \in Requests
  PROVE  /\ End(q) => request' \in [Requests -> Request \cup {Idle}]
         /\ \A r \in Request : Begin(q, r) => request' \in [Requests -> Request \cup {Idle}]
  BY DEF TypeOK, End, Begin

\* The steps about members keep every variable in its type.
LEMMA MemberStepTypes ==
  ASSUME TypeOK, NEW q \in Requests, MemberStep(q)
  PROVE  TypeOK'
<1> USE DEF TypeOK
<1>1. ASSUME NEW actor \in Users, NEW u \in Users, NEW r \in OrgRole,
             AddRead(q, actor, u, r) \/ ChangeRead(q, actor, u, r)
      PROVE  TypeOK'
  <2>1. org[u].row \in Rows /\ 0 \in Rows
    BY MaxRowsAssumption DEF Membership, Rows
  <2>2. \A n \in Rows, k \in {"add", "change"} :
          [kind |-> k, user |-> u, row |-> n, role |-> r] \in Request
    BY DEF Request
  <2>3. QED  BY <1>1, <2>1, <2>2, RequestSteps DEF AddRead, ChangeRead
<1>2. ASSUME NEW actor \in Users, NEW u \in Users, RemoveRead(q, actor, u)
      PROVE  TypeOK'
  <2>1. org[u].row \in Rows /\ "OWNER" \in OrgRole
    BY RolesAssumption DEF Membership
  <2>2. [kind |-> "remove", user |-> u, row |-> org[u].row, role |-> "OWNER"] \in Request
    BY <2>1 DEF Request
  <2>3. QED  BY <1>2, <2>2, RequestSteps DEF RemoveRead
<1>3. ASSUME NEW actor \in Users, NEW u \in Users, NEW r \in WsRole, AddWsRead(q, actor, u, r)
      PROVE  TypeOK'
  <2>1. [kind |-> "addWs", user |-> u, row |-> 0, role |-> r] \in Request
    BY MaxRowsAssumption DEF Request, Rows
  <2>2. QED  BY <1>3, <2>1, RequestSteps DEF AddWsRead
<1>4. ASSUME NEW actor \in Users, NEW u \in Users, NEW r \in WsRole, NEW k \in {"changeWs", "removeWs"},
             ChangeWsRead(q, actor, u, k, r)
      PROVE  TypeOK'
  <2>1. ws[u].row \in Rows
    BY DEF Membership
  <2>2. [kind |-> k, user |-> u, row |-> ws[u].row, role |-> r] \in Request
    BY <2>1 DEF Request
  <2>3. QED  BY <1>4, <2>2, RequestSteps DEF ChangeWsRead
<1>5. CASE Add(q)
  <2>1. request[q].user \in Users /\ request[q].role \in OrgRole
    BY <1>5, RequestTypes DEF Add
  <2>2. org' \in [Users -> Membership(OrgRole)]
    BY <1>5, <2>1, MembershipOps DEF Add
  <2>3. QED  BY <1>5, <2>2, RequestSteps DEF Add
<1>6. CASE Change(q)
  <2>1. request[q].user \in Users /\ request[q].role \in OrgRole
    BY <1>6, RequestTypes DEF Change
  <2>2. org' \in [Users -> Membership(OrgRole)]
    BY <1>6, <2>1, MembershipOps DEF Change
  <2>3. QED  BY <1>6, <2>2, RequestSteps DEF Change
<1>7. CASE Remove(q)
  <2>1. request[q].user \in Users
    BY <1>7, RequestTypes DEF Remove
  <2>2. org' \in [Users -> Membership(OrgRole)] /\ ws' \in [Users -> Membership(WsRole)]
    BY <1>7, <2>1, MembershipOps DEF Remove
  <2>3. QED  BY <1>7, <2>2, RequestSteps DEF Remove
<1>8. CASE RefuseOrg(q)
  BY <1>8, RequestSteps DEF RefuseOrg
<1>9. CASE AddWs(q)
  <2>1. request[q].user \in Users /\ request[q].role \in WsRole
    BY <1>9, RequestTypes DEF AddWs
  <2>2. ws' \in [Users -> Membership(WsRole)]
    BY <1>9, <2>1, MembershipOps DEF AddWs
  <2>3. QED  BY <1>9, <2>2, RequestSteps DEF AddWs
<1>10. CASE ChangeWs(q)
  <2>1. request[q].user \in Users /\ request[q].role \in WsRole
    BY <1>10, RequestTypes DEF ChangeWs
  <2>2. ws' \in [Users -> Membership(WsRole)]
    BY <1>10, <2>1, MembershipOps DEF ChangeWs
  <2>3. QED  BY <1>10, <2>2, RequestSteps DEF ChangeWs
<1>11. QED
  BY <1>1, <1>2, <1>3, <1>4, <1>5, <1>6, <1>7, <1>8, <1>9, <1>10 DEF MemberStep

\* The steps about invitations keep every variable in its type.
LEMMA InvitationStepTypes ==
  ASSUME TypeOK, NEW q \in Requests, InvitationStep(q),
         Kind(q) \in {"revoke", "expire", "accept"} => Status(request[q].invitation) # "ABSENT"
  PROVE  TypeOK'
<1>1. ASSUME NEW actor \in Users, NEW offer \in Offer, InviteRead(q, actor, offer)
      PROVE  TypeOK'
  <2>1. [kind |-> "invite", offer |-> offer] \in Request
    BY DEF Request
  <2>2. QED  BY <1>1, <2>1, RequestSteps DEF InviteRead, TypeOK
<1>2. ASSUME NEW actor \in Users, NEW i \in Invitations, ResendRead(q, actor, i)
      PROVE  TypeOK'
  <2>1. invitation[i].offer \in Offer
    BY <1>2, InvitationTypes DEF ResendRead
  <2>2. [kind |-> "invite", offer |-> invitation[i].offer] \in Request
    BY <2>1 DEF Request
  <2>3. QED  BY <1>2, <2>2, RequestSteps DEF ResendRead, TypeOK
<1>3. ASSUME NEW i \in Invitations,
             \/ \E actor \in Users : RevokeRead(q, actor, i)
             \/ PreviewRead(q, i) \/ AcceptRead(q, i)
      PROVE  TypeOK'
  <2>1. \A k \in {"revoke", "expire", "accept"} : [kind |-> k, invitation |-> i] \in Request
    BY DEF Request
  <2>2. QED  BY <1>3, <2>1, RequestSteps DEF RevokeRead, PreviewRead, AcceptRead, TypeOK
<1>4. ASSUME NEW i \in Invitations, Invite(q, i)
      PROVE  TypeOK'
  <2>1. request[q].offer \in Offer
    BY <1>4, RequestTypes DEF Invite
  <2>2. [status |-> "PENDING", offer |-> request[q].offer, due |-> FALSE] \in Invitation
    BY <2>1 DEF Invitation
  <2>3. ASSUME NEW j \in Invitations, Status(j) = "PENDING"
        PROVE  [invitation[j] EXCEPT !.status = "REVOKED"] \in Invitation
    BY <2>3, InvitationTypes DEF Invitation
  <2>4. invitation' \in [Invitations -> Invitation \cup {Absent}]
    BY <1>4, <2>2, <2>3 DEF Invite, TypeOK
  <2>5. QED  BY <1>4, <2>4, RequestSteps DEF Invite, TypeOK
<1>5. CASE Close(q)
  <2>1. request[q].invitation \in Invitations /\ Status(request[q].invitation) # "ABSENT"
    BY <1>5, RequestTypes DEF Close
  <2>2. invitation' \in [Invitations -> Invitation \cup {Absent}]
    BY <1>5, <2>1, InvitationTypes DEF Close, SetStatus, Invitation, TypeOK
  <2>3. QED  BY <1>5, <2>2, RequestSteps DEF Close, TypeOK
<1>6. CASE Accept(q)
  <2> DEFINE i == request[q].invitation
             offer == invitation[i].offer
  <2>1. i \in Invitations /\ Status(i) # "ABSENT"
    BY <1>6, RequestTypes DEF Accept
  <2>2. offer \in Offer /\ invitation[i] \in Invitation
    BY <2>1, InvitationTypes
  <2>3. offer.user \in Users /\ offer.role \in OrgRole /\ (offer.grant # "NONE" => offer.grant \in WsRole)
    BY <2>2 DEF Offer
  <2>4. org' \in [Users -> Membership(OrgRole)]
    BY <1>6, <2>3, MembershipOps DEF Accept, TypeOK
  <2>5. ws' \in [Users -> Membership(WsRole)]
    BY <1>6, <2>3, MembershipOps DEF Accept, TypeOK
  <2>6. invitation' \in [Invitations -> Invitation \cup {Absent}]
    BY <1>6, <2>1, <2>2 DEF Accept, SetStatus, Invitation, TypeOK
  <2>7. QED  BY <1>6, <2>4, <2>5, <2>6, RequestSteps DEF Accept, TypeOK
<1>7. QED
  BY <1>1, <1>2, <1>3, <1>4, <1>5, <1>6 DEF InvitationStep

-----------------------------------------------------------------------------
(* The inductive invariant.                                                *)

TokenKinds == {"revoke", "expire", "accept"}

\* The parts of IInv that are about invitations.
Parts == OnePending /\ AcceptanceHolds /\ RequestsNameRows

\* A step that changes no invitation, and begins no request about one.
LEMMA QuietStep ==
  ASSUME IInv, NEW q \in Requests, UNCHANGED invitation,
         \/ End(q)
         \/ \E r \in Request : Begin(q, r) /\ r.kind \notin TokenKinds
  PROVE  Parts'
<1>1. \A p \in Requests : Kind(p)' \in TokenKinds => request'[p] = request[p]
  BY DEF IInv, TypeOK, End, Begin, Kind, Idle, TokenKinds
<1>2. \A i \in Invitations : Status(i)' = Status(i)
  BY DEF Status
<1>3. QED
  BY <1>1, <1>2, RequestTypes DEF IInv, Parts, OnePending, AcceptanceHolds, RequestsNameRows, Kind, Status, TokenKinds

LEMMA MemberStepParts ==
  ASSUME IInv, NEW q \in Requests, MemberStep(q)
  PROVE  Parts'
<1>1. UNCHANGED invitation
  BY DEF MemberStep, AddRead, ChangeRead, RemoveRead, AddWsRead, ChangeWsRead,
         Add, Change, Remove, RefuseOrg, AddWs, ChangeWs
<1>2. CASE Add(q) \/ Change(q) \/ Remove(q) \/ RefuseOrg(q) \/ AddWs(q) \/ ChangeWs(q)
  <2>1. End(q)
    BY <1>2 DEF Add, Change, Remove, RefuseOrg, AddWs, ChangeWs
  <2>2. QED  BY <1>1, <2>1, QuietStep
<1>3. ASSUME NEW actor \in Users, NEW u \in Users,
             \/ \E r \in OrgRole : AddRead(q, actor, u, r) \/ ChangeRead(q, actor, u, r)
             \/ RemoveRead(q, actor, u)
             \/ \E r \in WsRole : AddWsRead(q, actor, u, r)
             \/ \E r \in WsRole, k \in {"changeWs", "removeWs"} : ChangeWsRead(q, actor, u, k, r)
      PROVE  Parts'
  <2>1. request[q] = Idle
    BY <1>3 DEF AddRead, ChangeRead, RemoveRead, AddWsRead, ChangeWsRead, Begin
  <2>2. request' \in [Requests -> Request \cup {Idle}]
    BY MemberStepTypes DEF IInv, TypeOK
  <2>3. /\ Begin(q, request'[q])
        /\ request'[q].kind \notin TokenKinds
        /\ request'[q].kind # "idle"
    BY <1>3 DEF AddRead, ChangeRead, RemoveRead, AddWsRead, ChangeWsRead, Begin, TokenKinds, IInv, TypeOK
  <2>4. request'[q] \in Request
    BY <2>2, <2>3 DEF Idle
  <2>5. QED  BY <1>1, <2>3, <2>4, QuietStep
<1>4. QED  BY <1>2, <1>3 DEF MemberStep

LEMMA InvitationStepParts ==
  ASSUME IInv, NEW q \in Requests, InvitationStep(q)
  PROVE  Parts'
<1> USE DEF IInv, TypeOK
<1>1. ASSUME NEW actor \in Users, NEW offer \in Offer, InviteRead(q, actor, offer)
      PROVE  Parts'
  <2>1. [kind |-> "invite", offer |-> offer] \in Request
    BY DEF Request
  <2>2. QED  BY <1>1, <2>1, QuietStep DEF InviteRead, TokenKinds
<1>2. ASSUME NEW actor \in Users, NEW i \in Invitations, ResendRead(q, actor, i)
      PROVE  Parts'
  <2>1. [kind |-> "invite", offer |-> invitation[i].offer] \in Request
    BY <1>2, InvitationTypes DEF ResendRead, Request
  <2>2. QED  BY <1>2, <2>1, QuietStep DEF ResendRead, TokenKinds
<1>3. ASSUME NEW i \in Invitations,
             \/ \E actor \in Users : RevokeRead(q, actor, i)
             \/ PreviewRead(q, i) \/ AcceptRead(q, i)
      PROVE  Parts'
  <2>1. Status(i) = "PENDING" /\ UNCHANGED invitation
    BY <1>3 DEF RevokeRead, PreviewRead, AcceptRead
  <2>2. /\ Kind(q)' \in TokenKinds /\ request'[q].invitation = i
        /\ Kind(q)' = "accept" => ~Locked(i)
    BY <1>3 DEF RevokeRead, PreviewRead, AcceptRead, Begin, TokenKinds, Kind
  <2>3. \A p \in Requests \ {q} : request'[p] = request[p]
    BY <1>3 DEF RevokeRead, PreviewRead, AcceptRead, Begin
  <2>4. QED
    BY <2>1, <2>2, <2>3 DEF Parts, OnePending, AcceptanceHolds, RequestsNameRows, Kind, Status, Locked, TokenKinds
<1>4. ASSUME NEW i \in Invitations, Invite(q, i)
      PROVE  Parts'
  <2> DEFINE u == request[q].offer.user
             earlier(j) == Status(j) = "PENDING" /\ invitation[j].offer.user = u
  <2>1. \A p \in Requests : Kind(p)' \in TokenKinds => request'[p] = request[p] /\ p # q
    BY <1>4 DEF Invite, End, Kind, Idle, TokenKinds
  <2>2. \A p \in Requests : Kind(p) \in TokenKinds => request[p].invitation # i
    BY <1>4 DEF Invite, RequestsNameRows, TokenKinds
  <2>3. \A j \in Invitations \ {i} :
          /\ earlier(j) => Status(j)' = "REVOKED" /\ ~Locked(j)
          /\ ~earlier(j) => invitation'[j] = invitation[j]
    BY <1>4, InvitationTypes DEF Invite, Status, Invitation
  <2>4. invitation'[i] = [status |-> "PENDING", offer |-> request[q].offer, due |-> FALSE]
    BY <1>4 DEF Invite
  <2>5. OnePending'
    BY <2>3, <2>4 DEF OnePending, Status
  <2>6. AcceptanceHolds' /\ RequestsNameRows'
    <3>1. ASSUME NEW p \in Requests, Kind(p)' \in TokenKinds
          PROVE  /\ request'[p] = request[p] /\ request[p].invitation \in Invitations \ {i}
                 /\ Kind(p) = "accept" => ~earlier(request[p].invitation)
      BY <3>1, <2>1, <2>2, <2>3, RequestTypes DEF Kind, TokenKinds, Locked
    <3>2. \A j \in Invitations \ {i} : Status(j) # "ABSENT" => Status(j)' # "ABSENT"
      BY <2>3 DEF Status
    <3>3. RequestsNameRows'
      BY <3>1, <3>2 DEF RequestsNameRows, Kind, TokenKinds
    <3>4. AcceptanceHolds'
      BY <3>1, <2>3 DEF AcceptanceHolds, Kind, TokenKinds, Status
    <3>5. QED  BY <3>3, <3>4
  <2>7. QED  BY <2>5, <2>6 DEF Parts
<1>5. CASE Close(q) \/ Accept(q)
  <2>1. PICK i \in Invitations : i = request[q].invitation
    BY <1>5, RequestTypes DEF Close, Accept
  <2>2. Status(i)' \in {"REVOKED", "EXPIRED", "ACCEPTED"} /\ \A j \in Invitations \ {i} : invitation'[j] = invitation[j]
    <3>1. Status(i) # "ABSENT"
      BY <1>5, <2>1 DEF Close, Accept, RequestsNameRows
    <3>2. invitation[i] \in Invitation
      BY <2>1, <3>1, InvitationTypes
    <3>3. QED  BY <1>5, <2>1, <3>2 DEF Close, Accept, SetStatus, Status, Invitation
  <2>3. \A p \in Requests : Kind(p)' \in TokenKinds => request'[p] = request[p] /\ p # q
    BY <1>5 DEF Close, Accept, End, Kind, Idle, TokenKinds
  <2>4. \A p \in Requests : p # q /\ Kind(p) = "accept" => request[p].invitation # i
    BY <1>5, <2>1, RequestTypes DEF Close, Accept, Locked, AcceptanceHolds
  <2>5. OnePending'
    BY <2>2 DEF OnePending, Status
  <2>6. RequestsNameRows'
    BY <2>2, <2>3, RequestTypes DEF RequestsNameRows, Kind, Status, TokenKinds
  <2>7. AcceptanceHolds'
    BY <2>2, <2>3, <2>4, RequestTypes DEF AcceptanceHolds, Kind, Status, TokenKinds
  <2>8. QED  BY <2>5, <2>6, <2>7 DEF Parts
<1>6. QED
  BY <1>1, <1>2, <1>3, <1>4, <1>5 DEF InvitationStep

\* IInv holds at the start and is kept by every step.
LEMMA InitInvariant ==
  ASSUME Init
  PROVE  IInv
<1>1. TypeOK
  BY MaxRowsAssumption DEF Init, TypeOK, Membership, Rows
<1>2. \A i \in Invitations : Status(i) = "ABSENT"
  BY DEF Init, Status, Absent
<1>3. \A q \in Requests : Kind(q) = "idle"
  BY DEF Init, Kind, Idle
<1>4. QED  BY <1>1, <1>2, <1>3 DEF IInv, OnePending, AcceptanceHolds, RequestsNameRows

LEMMA NextInvariant ==
  ASSUME IInv, [Next]_vars
  PROVE  IInv'
<1>1. CASE UNCHANGED vars
  BY <1>1 DEF IInv, TypeOK, OnePending, AcceptanceHolds, RequestsNameRows, Kind, Status, vars
<1>2. ASSUME NEW u \in Users, CreateOrganization(u)
      PROVE  IInv'
  <2>1. "OWNER" \in OrgRole /\ "ADMIN" \in WsRole
    BY RolesAssumption
  <2>2. org[u] \in Membership(OrgRole) /\ ws[u] \in Membership(WsRole)
    BY DEF IInv, TypeOK
  <2>3. Room(org, u) /\ Room(ws, u)
    BY <1>2, MaxRowsAssumption DEF CreateOrganization, Room
  <2>4. TypeOK'
    BY <1>2, <2>1, <2>3, MembershipOps DEF CreateOrganization, IInv, TypeOK
  <2>5. QED
    BY <1>2, <2>4 DEF CreateOrganization, IInv, OnePending, AcceptanceHolds, RequestsNameRows, Kind, Status
<1>3. ASSUME NEW q \in Requests, MemberStep(q)
      PROVE  IInv'
  BY <1>3, MemberStepTypes, MemberStepParts DEF IInv, Parts
<1>4. ASSUME NEW q \in Requests, InvitationStep(q)
      PROVE  IInv'
  BY <1>4, InvitationStepTypes, InvitationStepParts DEF IInv, Parts, RequestsNameRows
<1>5. ASSUME NEW i \in Invitations, Due(i)
      PROVE  IInv'
  <2>1. invitation[i] \in Invitation
    BY <1>5, InvitationTypes DEF Due, IInv
  <2>2. invitation' \in [Invitations -> Invitation \cup {Absent}]
    BY <1>5, <2>1 DEF Due, IInv, TypeOK, Invitation
  <2>3. \A j \in Invitations : Status(j)' = Status(j) /\ invitation'[j].offer = invitation[j].offer
    BY <1>5, <2>1 DEF Due, IInv, TypeOK, Status, Invitation
  <2>4. TypeOK'
    BY <1>5, <2>2 DEF Due, IInv, TypeOK
  <2>5. OnePending'
    BY <2>3 DEF IInv, OnePending, Status
  <2>6. AcceptanceHolds' /\ RequestsNameRows'
    BY <1>5, <2>3, RequestTypes DEF Due, IInv, AcceptanceHolds, RequestsNameRows, Kind
  <2>7. QED  BY <2>4, <2>5, <2>6 DEF IInv
<1>6. QED
  BY <1>1, <1>2, <1>3, <1>4, <1>5 DEF Next

\* Types, the one PENDING invitation of an address, and the exclusive hold of an
\* invitation that is being accepted are invariant.
THEOREM GovernanceInvariant == Spec => []IInv
<1>1. Init => IInv
  BY InitInvariant
<1>2. IInv /\ [Next]_vars => IInv'
  BY NextInvariant
<1>3. QED  BY <1>1, <1>2, PTL DEF Spec

-----------------------------------------------------------------------------
(* The action properties.                                                  *)

\* Only a change or a removal takes an owner's role in a step that is no
\* acceptance, and both leave the last one.
LEMMA OwnerStep ==
  ASSUME TypeOK, Next, Owners # {}, ~(\E q \in Requests : Accepts(q))
  PROVE  Owners' # {}
<1>1. CASE UNCHANGED org
  BY <1>1 DEF Owners
<1>2. ASSUME NEW u \in Users, CreateOrganization(u)
      PROVE  Owners' # {}
  BY <1>2 DEF CreateOrganization, Owners, Enrol, TypeOK, Membership
<1>3. ASSUME NEW q \in Requests, Add(q), ~UNCHANGED org
      PROVE  Owners' # {}
  <2>1. PICK u \in Users : u = request[q].user
    BY <1>3, RequestTypes DEF Add
  <2>2. org[u].role = "NONE" /\ org' = Enrol(org, u, request[q].role)
    BY <1>3, <2>1 DEF Add
  <2>3. \A v \in Owners : org'[v] = org[v]
    BY <2>2, RolesAfter DEF Owners, TypeOK
  <2>4. QED  BY <2>3 DEF Owners
<1>4. ASSUME NEW q \in Requests, Change(q) \/ Remove(q)
      PROVE  Owners' # {}
  <2>1. PICK u \in Users : u = request[q].user
    BY <1>4, RequestTypes DEF Change, Remove
  <2>2. PICK r : org' = SetRole(org, u, r) /\ (r = "OWNER" \/ Owners # {u})
    BY <1>4, <2>1 DEF Change, Remove, LastOwner
  <2>3. org'[u].role = r /\ \A v \in Users \ {u} : org'[v] = org[v]
    BY <2>2, RolesAfter DEF TypeOK
  <2>4. QED  BY <2>2, <2>3 DEF Owners
<1>5. ASSUME NEW q \in Requests
      PROVE  ~Accept(q)
  BY DEF Accept, Accepts, End, TypeOK
<1>6. ASSUME NEW q \in Requests, MemberStep(q), ~UNCHANGED org
      PROVE  Add(q) \/ Change(q) \/ Remove(q)
  BY <1>6 DEF MemberStep, AddRead, ChangeRead, RemoveRead, AddWsRead, ChangeWsRead, RefuseOrg, AddWs, ChangeWs
<1>7. ASSUME NEW q \in Requests, InvitationStep(q)
      PROVE  UNCHANGED org
  BY <1>5, <1>7 DEF InvitationStep, InviteRead, ResendRead, RevokeRead, Invite, PreviewRead, AcceptRead, Close
<1>8. ASSUME NEW i \in Invitations, Due(i)
      PROVE  UNCHANGED org
  BY <1>8 DEF Due
<1>9. QED
  BY <1>1, <1>2, <1>3, <1>4, <1>6, <1>7, <1>8 DEF Next

\* Changes and removals by any number of requests at once leave an owner
\* (OrganizationMemberDetailView).
THEOREM OwnerIsKept == Spec => LastOwnerStays
<1>1. ASSUME IInv, [Next]_vars
      PROVE  [Owners # {} /\ ~(\E q \in Requests : Accepts(q)) => Owners' # {}]_vars
  BY <1>1, OwnerStep DEF IInv
<1>2. QED  BY <1>1, GovernanceInvariant, PTL DEF Spec, LastOwnerStays

\* A used, revoked or expired invitation does not become PENDING again.
LEMMA ClosedStaysClosed ==
  ASSUME IInv, Next, NEW i \in Invitations, Status(i) \notin {"ABSENT", "PENDING"}
  PROVE  invitation'[i].status # "PENDING"
<1>1. invitation[i] \in Invitation
  BY InvitationTypes DEF IInv
<1>2. CASE UNCHANGED invitation
  BY <1>2 DEF Status
<1>3. ASSUME NEW q \in Requests, NEW j \in Invitations, Invite(q, j)
      PROVE  invitation'[i].status # "PENDING"
  BY <1>3 DEF Invite, Status
<1>4. ASSUME NEW q \in Requests, Close(q) \/ Accept(q)
      PROVE  invitation'[i].status # "PENDING"
  BY <1>1, <1>4 DEF Close, Accept, SetStatus, Status, Invitation, IInv, TypeOK
<1>5. ASSUME NEW j \in Invitations, Due(j)
      PROVE  invitation'[i].status # "PENDING"
  BY <1>1, <1>5 DEF Due, Status, Invitation, IInv, TypeOK
<1>6. ASSUME NEW q \in Requests, MemberStep(q)
      PROVE  UNCHANGED invitation
  BY <1>6 DEF MemberStep, AddRead, ChangeRead, RemoveRead, AddWsRead, ChangeWsRead,
              Add, Change, Remove, RefuseOrg, AddWs, ChangeWs
<1>7. ASSUME NEW q \in Requests, InvitationStep(q), ~UNCHANGED invitation
      PROVE  Close(q) \/ Accept(q) \/ \E j \in Invitations : Invite(q, j)
  BY <1>7 DEF InvitationStep, InviteRead, ResendRead, RevokeRead, PreviewRead, AcceptRead
<1>8. ASSUME NEW u \in Users, CreateOrganization(u)
      PROVE  UNCHANGED invitation
  BY <1>8 DEF CreateOrganization
<1>9. QED
  BY <1>2, <1>3, <1>4, <1>5, <1>6, <1>7, <1>8 DEF Next

\* An invitation works at most once, and not after it was revoked or expired
\* (accept_invitation, resolve_invitation).
THEOREM InvitationsWorkOnce == Spec => InvitationWorksOnce
<1>1. ASSUME IInv, [Next]_vars
      PROVE  [/\ \A q \in Requests : Accepts(q) => Status(request[q].invitation) = "PENDING"
              /\ \A i \in Invitations :
                   Status(i) \notin {"ABSENT", "PENDING"} => invitation'[i].status # "PENDING"]_vars
  <2>1. \A q \in Requests : Accepts(q) => Status(request[q].invitation) = "PENDING"
    BY <1>1 DEF IInv, AcceptanceHolds, Accepts
  <2>2. QED  BY <1>1, <2>1, ClosedStaysClosed
<1>2. QED  BY <1>1, GovernanceInvariant, PTL DEF Spec, InvitationWorksOnce

\* Who is outside the organization after a step and has a role in its workspace
\* was so before, or was added by a request that saw a member.
LEMMA OutsiderStep ==
  ASSUME IInv, Next, NEW u \in Users, ~Outsider(u), org'[u].role = "NONE", ws'[u].role # "NONE"
  PROVE  \E q \in Requests : Kind(q) = "addWs" /\ request[q].user = u /\ request'[q] = Idle
<1>1. ASSUME NEW q \in Requests, AddWs(q)
      PROVE  \E p \in Requests : Kind(p) = "addWs" /\ request[p].user = u /\ request'[p] = Idle
  <2>1. PICK v \in Users : v = request[q].user
    BY <1>1, RequestTypes DEF AddWs, IInv
  <2>2. ws[u].role = "NONE" /\ ~UNCHANGED ws
    BY <1>1 DEF AddWs, Outsider
  <2>3. v = u
    BY <1>1, <2>1, <2>2, RolesAfter DEF AddWs, IInv, TypeOK
  <2>4. QED  BY <1>1, <2>1, <2>3 DEF AddWs, End, IInv, TypeOK
<1>2. ASSUME NEW q \in Requests, ChangeWs(q)
      PROVE  FALSE
  <2>1. PICK v \in Users : v = request[q].user
    BY <1>2, RequestTypes DEF ChangeWs, IInv
  <2>2. ws[u].role = "NONE" /\ ~UNCHANGED ws
    BY <1>2 DEF ChangeWs, Outsider
  <2>3. ws[v].role # "NONE" /\ \E r : ws' = SetRole(ws, v, r)
    BY <1>2, <2>1, <2>2 DEF ChangeWs, SameRow
  <2>4. QED  BY <2>2, <2>3, RolesAfter DEF IInv, TypeOK
<1>3. ASSUME NEW v \in Users, CreateOrganization(v)
      PROVE  FALSE
  BY <1>3, RolesAfter DEF CreateOrganization, IInv, TypeOK, Outsider
<1>4. ASSUME NEW q \in Requests, Add(q) \/ Change(q)
      PROVE  FALSE
  <2>1. PICK v \in Users : v = request[q].user
    BY <1>4, RequestTypes DEF Add, Change, IInv
  <2>2. request[q].role # "NONE" /\ ws' = ws /\ org[u].role # "NONE"
    BY <1>4, RequestTypes, RolesAssumption DEF Add, Change, Outsider, IInv
  <2>3. QED  BY <1>4, <2>1, <2>2, RolesAfter DEF Add, Change, IInv, TypeOK
<1>5. ASSUME NEW q \in Requests, Remove(q)
      PROVE  FALSE
  <2>1. PICK v \in Users : v = request[q].user
    BY <1>5, RequestTypes DEF Remove, IInv
  <2>2. org' = SetRole(org, v, "NONE") /\ ws' = SetRole(ws, v, "NONE")
    BY <1>5, <2>1 DEF Remove
  <2>3. QED  BY <2>1, <2>2, RolesAfter DEF IInv, TypeOK, Outsider
<1>6. ASSUME NEW q \in Requests, Accept(q)
      PROVE  FALSE
  <2>0. Status(request[q].invitation) = "PENDING"
    BY <1>6 DEF IInv, AcceptanceHolds, Accept
  <2>1. PICK offer \in Offer : offer = invitation[request[q].invitation].offer
    BY <1>6, <2>0, RequestTypes, InvitationTypes DEF Accept, IInv
  <2>2. offer.user \in Users /\ offer.role # "NONE"
    BY <2>1, RolesAssumption DEF Offer
  <2>3. org' = Grant(org, offer.user, offer.role) /\ (ws' = ws \/ ws' = Grant(ws, offer.user, offer.grant))
    BY <1>6, <2>1 DEF Accept
  <2>4. QED  BY <2>2, <2>3, RolesAfter DEF IInv, TypeOK, Outsider
<1>7. ASSUME NEW q \in Requests, MemberStep(q), ~UNCHANGED <<org, ws>>
      PROVE  Add(q) \/ Change(q) \/ Remove(q) \/ AddWs(q) \/ ChangeWs(q)
  BY <1>7 DEF MemberStep, AddRead, ChangeRead, RemoveRead, AddWsRead, ChangeWsRead, RefuseOrg
<1>8. ASSUME NEW q \in Requests, InvitationStep(q), ~UNCHANGED <<org, ws>>
      PROVE  Accept(q)
  BY <1>8 DEF InvitationStep, InviteRead, ResendRead, RevokeRead, Invite, PreviewRead, AcceptRead, Close
<1>9. ASSUME NEW i \in Invitations, Due(i)
      PROVE  UNCHANGED <<org, ws>>
  BY <1>9 DEF Due
<1>10. ~UNCHANGED <<org, ws>>
  BY DEF Outsider
<1>11. QED
  BY <1>1, <1>2, <1>3, <1>4, <1>5, <1>6, <1>7, <1>8, <1>9, <1>10 DEF Next

\* Removals, acceptances and changes at the same time leave no outsider with a
\* role in the workspace (OrganizationMemberDetailView.delete).
THEOREM OutsidersAreLate == Spec => OutsidersComeLate
<1>1. ASSUME IInv, [Next]_vars
      PROVE  [\A u \in Users :
                ~Outsider(u) /\ org'[u].role = "NONE" /\ ws'[u].role # "NONE"
                  => \E q \in Requests :
                       Kind(q) = "addWs" /\ request[q].user = u /\ request'[q] = Idle]_vars
  BY <1>1, OutsiderStep
<1>2. QED  BY <1>1, GovernanceInvariant, PTL DEF Spec, OutsidersComeLate

=============================================================================
