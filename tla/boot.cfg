SPECIFICATION Spec
CONSTANTS
  MaxCommands = 1
  MaxLosses = 2
INVARIANTS BitFollowsStation HostKnown
PROPERTIES StaysUpOnceBooted NodeStaysUp
