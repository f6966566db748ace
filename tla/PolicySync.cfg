SPECIFICATION FairSyncSpec
CONSTANTS
  n1 = n1
  n2 = n2
  d1 = d1
  d2 = d2
  a1 = a1
  a2 = a2
  h1 = h1
  PolicyNames <- MCPolicyNames
  Docs <- MCDocs
  Agents <- MCAgents
  Hosts <- MCHosts
  Host <- MCHost
  Nobody = Nobody
  MaxId = 2
  MaxVersion = 2
  MaxAudit = 2
  MaxFaults = 1
  NoRow = NoRow
  NoDoc = NoDoc
  Torn = Torn
ACTION_CONSTRAINT MCFirst
CHECK_DEADLOCK FALSE
INVARIANTS
  CacheNotOlder
PROPERTIES
  UpToDateIsSame
  NeverOlder
  Converges
