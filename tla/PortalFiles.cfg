SPECIFICATION Spec
CONSTANTS
  q1 = q1
  q2 = q2
  q3 = q3
  q4 = q4
  c1 = c1
  c2 = c2
  Requests <- MCFour
  Candidates <- MCTwoCandidates
  MaxCases = 2
  MaxFaults = 1
  None = None
  Empty = Empty
  Torn = Torn
SYMMETRY MCSymmetry4
CHECK_DEADLOCK FALSE
INVARIANTS
  TypeOK
  SavesAreAtomic
  AuditAtMostOneBehind
  CasesFromConfirmed
PROPERTIES
  CreateMakesFirst
