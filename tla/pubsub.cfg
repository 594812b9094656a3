SPECIFICATION Spec
CONSTANTS
  MQTT_KEEPALIVE = 4
  MQTT_SOCKET_TIMEOUT = 3
  MaxGap = 1
  Answer = 1
  Backlog = 2
  MaxMessages = 4
  MAX_MSG_ID = 2
INVARIANTS
  StateTells
  BrokerHears
PROPERTIES
  NoFalseTimeout
  SilenceNoticed
