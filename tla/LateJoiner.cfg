SPECIFICATION FairSpec
CONSTANTS
  c1 = c1
  c2 = c2
  c3 = c3
  NotANumber = NotANumber
  Hole = Hole
  Replicas = {c1, c2}
  Founders = {c1}
  UserCommands <- ReadAndTypo
  MaxCommands <- FoundersOnlyTwo
  MaxSends <- FoundersOnlyTwo
INVARIANTS JoinerHasSuffix SentInOrderUntilDelivered SyncedBalanceIsCorrect
PROPERTIES OutstandingIsExecuted
CHECK_DEADLOCK FALSE
