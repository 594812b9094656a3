SPECIFICATION Spec
CONSTANTS
  MaxCommands = 1
  MaxFaults = 2
  Commands <- MCCommands
INVARIANTS
  SubackIsOwn
  SubscribedInLoop
PROPERTIES
  Obeyed
  Recovers
