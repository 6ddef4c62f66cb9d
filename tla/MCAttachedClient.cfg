\* One client of each kind, two panes that fit a screen and a third that does not.
SPECIFICATION Spec
\* A client ends, and the connection with it.
CHECK_DEADLOCK FALSE
CONSTANTS
  MaxFrameBytes = 55
  MaxListedSessions = 2
  MaxErrorBytes = 4
  MaxNameBytes = 2
  MaxInputBytes = 2
  MaxSnapshotPanes = 2
  SnapshotBytes = 6
  SessionNames <- MCNames
  Table <- MCTable
  Piece <- MCPiece
  Text <- MCText
  File <- MCFile
  Probe <- MCProbe
  Patience = 3
  MaxPanes = 3
  MaxLines = 2
  NamedColor <- MCNamedColor
  ThemeName = {"default", "nord"}
  DefaultTheme = "default"
INVARIANTS
  TypeOK
  MessagesIntact
  OnlyPanesDoNotFit
  FramesExact
  ErrorNamesLine
  SettingsInOrder
PROPERTIES
  KeptWhileIdle
