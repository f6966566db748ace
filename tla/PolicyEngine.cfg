SPECIFICATION Spec
CONSTANTS
  n1 = n1
  n2 = n2
  d1 = d1
  d2 = d2
  PolicyNames <- MCPolicyNames
  Docs <- MCDocs
  MaxId = 3
  MaxVersion = 4
  MaxAudit = 6
  NoRow = NoRow
  NoDoc = NoDoc
SYMMETRY MCSymmetry
CHECK_DEADLOCK FALSE
INVARIANTS
  TypeOK
  AtMostOneActive
  RowsAgree
  ApprovalCoversCurrent
  TrailNamesActive
PROPERTIES
  TrailIsOwn
  StaysDeployed
  VersionsOnlyGrow
