\* A client whose detach has returned.
SPECIFICATION Spec
CONSTANTS
  c1 = c1
  c2 = c2
  n1 = n1
  n2 = n2
  Conn <- TwoConns
  Name <- OneName
  NoConn = NoConn
  MaxSessions = 1
  MaxSnapshotPanes = 1
  MaxPanes = 2
INVARIANT
  DetachedIsReleased
