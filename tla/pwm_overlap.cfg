SPECIFICATION Spec
CONSTANTS
  Setters = {"hsv", "loop"}
  Getters = {"anim"}
  MaxDuty = 2
  Colours <- MCColours
  Dark <- MCDark
  Full <- MCFull
INVARIANTS TypeOK NothingPending LoneWriteShows LoneReadIsBetween
