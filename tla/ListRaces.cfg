SPECIFICATION FairSpec
CONSTANTS
  Readers = {t1}
  Null = Null
  None = None
  MaxAdds = 3
  MaxInbox = 1
INVARIANTS RaceOutcomes
PROPERTIES CopyOutcomes NaiveReaderReturns
CHECK_DEADLOCK FALSE
