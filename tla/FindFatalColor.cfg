\* An invalid colour that stops the start without the number of its line.
SPECIFICATION Spec
\* A client ends, and the connection with it.
CHECK_DEADLOCK FALSE
CONSTANTS
  MaxFrameBytes = 55
  MaxListedSessions = 2
  MaxErrorBytes = 4
  MaxNameBytes = 2
  MaxInputBytes = 2
  MaxSnapshotPanes = 2
  SnapshotBytes = 6
  SessionNames <- MCNames
  Table <- MCTable
  Piece <- MCPiece
  Text <- MCText
  File <- MCFile
  Probe <- MCProbe
  Patience = 2
  MaxPanes = 3
  MaxLines = 2
  NamedColor <- MCNamedColor
  ThemeName = {"default", "nord"}
  DefaultTheme = "default"
INVARIANT
  NoColorIsFatal
