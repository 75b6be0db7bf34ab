SPECIFICATION ReliableSpec
CONSTANTS
  Daemons = {1, 2, 3}
  Clients = {2, 3}
  Home <- MCHome
  GroupNames = {"g"}
  Start <- MCPair
  Kinds = {"join", "data"}
  MaxRings = 3
  MaxRequests = 2
INVARIANTS NeverExits
CHECK_DEADLOCK FALSE
