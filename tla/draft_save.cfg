SPECIFICATION Spec
CONSTANTS
  q1 = q1 q2 = q2 k1 = k1 k2 = k2 c1 = c1 c2 = c2
  Requests <- TwoRequests
  KnowledgeBases <- OneBase
  Contents <- TwoContents
  MaxLinks = 1
  MaxVersions = 1
  MaxRevision = 2
  MaxLosses = 1
SYMMETRY Symmetry
PROPERTIES DraftsKeepPublication
