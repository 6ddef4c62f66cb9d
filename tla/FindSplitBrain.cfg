\* Two starters over one endpoint.
SPECIFICATION Spec
\* The system stops when every daemon process has ended.
CHECK_DEADLOCK FALSE
CONSTANTS
  Daemon = {d1, d2, d3}
  Client = {k1, k2}
  NoEntry = NoEntry
  Foreign = Foreign
INVARIANT
  SingleDaemon
