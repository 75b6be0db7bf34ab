SPECIFICATION Spec
CONSTANTS
  c1 = c1
  c2 = c2
  c3 = c3
  NotANumber = NotANumber
  Hole = Hole
  Replicas = {c1, c2}
  Founders = {c1, c2}
  UserCommands <- OnlyDeposit
  MaxCommands <- One
  MaxSends <- Two
SYMMETRY Clients
INVARIANTS TypeOK LedgerInv FoundersAgree HistoryNumbersAgree
PROPERTY ImplementsAgreedAccount
CHECK_DEADLOCK FALSE
