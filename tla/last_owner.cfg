SPECIFICATION Spec
CONSTANTS
  u1 = u1 u2 = u2 i1 = i1 i2 = i2 q1 = q1 q2 = q2
  Users <- TwoUsers
  Invitations <- OneInvitation
  Requests <- OneRequest
  OrgRole = {"OWNER", "ADMIN", "MEMBER", "AUDITOR"}
  WsRole = {"ADMIN", "VIEWER"}
  MaxRows = 1
CHECK_DEADLOCK FALSE
SYMMETRY Symmetry
INVARIANTS AlwaysAnOwner
