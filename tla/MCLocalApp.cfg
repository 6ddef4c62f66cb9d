SPECIFICATION FairSpec
\* The loop ends when the user quits or a call fails.
CHECK_DEADLOCK FALSE
CONSTANTS
  MaxPaneId = 3
  MaxHistory = 2
  PageRows = 2
INVARIANTS
  TypeOK
  RoutedWhenShown
  ShellsMatch
PROPERTIES
  PanesLeaveForCause
  ViewFollowsKeys
  ExitedPanesClosed
