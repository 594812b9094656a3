SPECIFICATION Spec
CONSTANTS
  LedcChannels <- MCChannels
  Full = 2
  Shown <- MCShown
  ReadBack <- MCReadBack
  White <- MCWhite
  Hues <- MCHues
  HueSats <- MCHueSats
  MaxV = 2
  PulseStep = 1
  FadeStep = 1
  Count = 2
  SetLevels <- MCSetLevels
  HsvOps = {"OFF", "ON", "SET", "BRIGHT"}
  AnimOps = {"FADE", "FLASH", "PULSE", "RANDOM", "STOP"}
  Hurried = {}
  Settled = TRUE
INVARIANTS ExactFlashes LitIsAsked
PROPERTIES LightIsSteady
