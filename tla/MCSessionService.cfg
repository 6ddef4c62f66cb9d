\* Two connections over two sessions, one of which may be refused by the limit.
SPECIFICATION FairSpec
CONSTANTS
  c1 = c1
  c2 = c2
  n1 = n1
  n2 = n2
  Conn <- TwoConns
  Name <- TwoNames
  NoConn = NoConn
  MaxSessions = 1
  MaxSnapshotPanes = 1
  MaxPanes = 2
INVARIANTS
  TypeOK
  OneAttachment
  HolderReserved
  AnswersMatch
  ListEncodable
PROPERTIES
  LeaksOnlyInGreet
  OnlyHolderChangesPanes
  ImplementsAttachment
  ClientsAnswered
  ThreadsEnd
