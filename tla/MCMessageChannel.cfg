SPECIFICATION FairSpec
CONSTANTS
  Base = 2
  WriterOrder = "little"
  ReaderOrder = "big"
  WriterMax = 6
  ReaderMax = 5
  Sizes <- EdgeSizes
  Window = 4
  MaxMessages = 3
INVARIANT ReaderInStep
INVARIANT LimitsAreKept
PROPERTY EverythingArrives
CHECK_DEADLOCK FALSE
