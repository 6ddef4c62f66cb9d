\* Two daemon processes and two clients that give up and ask again; one finds what another left behind.
SPECIFICATION FairSpec
\* The system stops when every daemon process has ended.
CHECK_DEADLOCK FALSE
CONSTANTS
  Daemon = {d1, d2}
  Client = {k1, k2}
  NoEntry = NoEntry
  Foreign = Foreign
INVARIANTS
  TypeOK
  SequentialStartersSafe
  AtMostOnce
PROPERTIES
  StaleSocketRecovered
  ForeignPreserved
