SPECIFICATION StreamSpec
CONSTANTS
  BufLen = 140
  MaxPackets = 2
  MaxCut = 4
  Setups <- MCSetups
  AppRequests <- MCRequests
  Messages <- MCMessages
INVARIANTS
  RequestFits
  InStep
PROPERTIES
  AllReturned
CHECK_DEADLOCK FALSE
