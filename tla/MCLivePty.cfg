SPECIFICATION FairSpec
\* A dropped LivePty does nothing any more.
CHECK_DEADLOCK FALSE
CONSTANTS
  PtySize = {small, large}
  MaxOutput = 3
  Capacity = 2
INVARIANTS
  TypeOK
  NothingLeft
  SizesAgree
PROPERTIES
  OutputComplete
  TerminateReturns
