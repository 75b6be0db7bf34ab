SPECIFICATION FairSpec
CONSTANTS
  MaxN = 3
  Loads <- MCLoads
  Slots = 4
  SeqGap = 1
  Window = 2
  Personal = 1
  PerSend = 2
  ArqModulus = 2
  RetransMax = 1
INVARIANTS Sound FlowControlExact
PROPERTIES ImplementsTotalOrder EverythingDelivered
