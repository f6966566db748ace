SPECIFICATION FairSpec
CONSTANTS
  e1 = e1
  e2 = e2
  t1 = t1
  Events <- MCEvents
  Health = Health
  Bad = Bad
  Cap <- MCCap
  MaxFaults = 2
  Tasks <- MCTasks
  Own = t1
  Window = 2
  MaxRestarts = 1
  Cooldown = 1
  Period = 1
INVARIANTS
  TypeOK
  AcceptedKept
  PostedPerFault
  BudgetKept
PROPERTIES
  QueueDrains
