SPECIFICATION FairSpec
CONSTANTS
  Daemons = {1, 2, 3}
  Clients = {2, 3}
  Home <- MCHome
  GroupNames = {"g"}
  Start <- MCPair
  Kinds = {"join", "kill"}
  MaxRings = 4
  MaxRequests = 2
INVARIANTS Sound ViewsAndTablesAgree
PROPERTIES OwnKept GatherEnds
CHECK_DEADLOCK FALSE
