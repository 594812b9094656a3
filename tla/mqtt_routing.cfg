SPECIFICATION Spec
CONSTANTS
  Chars = {"l", "c", "r", "h"}
  NUL = "0"
  Registrations <- MCRegistrations
  LastCall <- MCLastCall
  RestartQueue = "restart"
  Retained <- MCRetained
  Sizes = {4, 5}
  QueueLen = 2
  MaxIds = 3
  MaxDrops = 1
  MaxRestarts = 1
CHECK_DEADLOCK FALSE
INVARIANTS RoutedByTopic InOrder TableFits
PROPERTIES UnroutedOnlyInGap BootCompletes
