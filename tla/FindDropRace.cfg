\* A daemon that returns from its accept loop, with another program of the user about.
SPECIFICATION Spec
\* The system stops when every daemon process has ended.
CHECK_DEADLOCK FALSE
CONSTANTS
  Daemon = {d1}
  Client = {k1}
  NoEntry = NoEntry
  Foreign = Foreign
PROPERTY
  DropKeepsSubstitute
