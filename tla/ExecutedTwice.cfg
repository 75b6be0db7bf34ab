SPECIFICATION Spec
CONSTANTS
  c1 = c1
  c2 = c2
  c3 = c3
  NotANumber = NotANumber
  Hole = Hole
  Replicas = {c1}
  Founders = {c1}
  UserCommands <- OnlyDeposit
  MaxCommands <- One
  MaxSends <- Two
INVARIANT ExecutedAtMostOnce
CHECK_DEADLOCK FALSE
