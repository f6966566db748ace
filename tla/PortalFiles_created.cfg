SPECIFICATION Spec
CONSTANTS
  q1 = q1
  q2 = q2
  q3 = q3
  q4 = q4
  c1 = c1
  c2 = c2
  Requests <- MCThree
  Candidates <- MCOneCandidate
  MaxCases = 2
  MaxFaults = 1
  None = None
  Empty = Empty
  Torn = Torn
SYMMETRY MCSymmetry3
CHECK_DEADLOCK FALSE
INVARIANTS
  CreatedOnce
