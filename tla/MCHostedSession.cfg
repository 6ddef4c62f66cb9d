SPECIFICATION Spec
CONSTANTS
  U16Max = 7
  NoNode = NoNode
  DefaultRows = 6
  DefaultCols = 6
  Cols <- SmallCols
  Rows <- SmallRows
  MaxPaneId = 4
INVARIANTS
  TypeOK
  ResourcesMatch
  ScreenTiles
  PtysFit
PROPERTIES
  CloseNeverShrinks
  ImplementsPaneOrder
  NodesFollow
