SPECIFICATION Spec
CONSTANTS
  LedcChannels = {"grey"}
  Full = 1
  Shown <- MCGreyShown
  ReadBack <- MCGreyReadBack
  White = "white"
  Hues = {"white"}
  HueSats = {"white"}
  MaxV = 1
  PulseStep = 1
  FadeStep = 1
  Count = 1
  SetLevels = {1}
  HsvOps = {}
  AnimOps = {"FADE", "PULSE", "RANDOM", "STOP"}
  Hurried = {"loop", "anim"}
  Settled = FALSE
INVARIANTS TypeOK NoLockLeak StopLatency
PROPERTIES CommandsFinish AnimationEnds
