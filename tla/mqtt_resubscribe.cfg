SPECIFICATION Spec
CONSTANTS
  Chars = {"l", "c", "r", "h"}
  NUL = "0"
  Registrations <- MCRegistrations
  LastCall <- MCLastCall
  RestartQueue = "restart"
  Retained <- MCRetained
  Sizes = {10}
  QueueLen = 1
  MaxIds = 1
  MaxDrops = 1
  MaxRestarts = 0
CHECK_DEADLOCK FALSE
INVARIANTS StillSubscribed
