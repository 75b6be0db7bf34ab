SPECIFICATION FairSpec
CONSTANTS
  Names = {1, 2}
  GroupNames = {"g"}
  MAX_SESSIONS = 2
  MAX_SESSION_MESSAGES = 1
  MAX_LOCAL_GROUP_MEMBERS = 1
  WATER_MARK = 1
  Units = 2
  MaxTake = 2
  RingSize = 2
  MaxConns = 3
  MaxRequests = 2
INVARIANTS Sound TablesAndMembersAgree StreamsAndKillsExact
PROPERTIES Settles
CHECK_DEADLOCK FALSE
