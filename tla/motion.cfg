SPECIFICATION Spec
CONSTANTS
  Lights = {"kitchen", "bed"}
  Kitchen = "kitchen"
  TimesOfDay = {"DAY", "EVENING", "BED"}
  Threads = {1, 2}
  TimerIds = {"a", "b"}
  MaxBus = 2
  MaxOverlaps = 3
INVARIANTS NoStaleTimer SerialDeadline
PROPERTIES PulseFirst GoesDark
