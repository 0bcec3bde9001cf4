SPECIFICATION Spec
CONSTANTS
  a = a
  b = b
  knife = knife
  None = None
  NoName = NoName
  Recorders <- TwoRecorders
  Weapons <- OneWeapon
  FlushInterval = 2
  Copied = 1
  RingTicks = 2
  RingCmds = 2
  Breather = 1
  WriteMayFail = TRUE
  MaxTick = 4
  MaxCmd = 3
  Bounds <- AloneOrTwo
SYMMETRY Symmetry
INVARIANTS
  ReplayComplete
  NoChunkLeft
  CommandsMatch
\* The ticks and the recorders of an instance run out.
CHECK_DEADLOCK FALSE
