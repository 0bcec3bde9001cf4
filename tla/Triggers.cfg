SPECIFICATION TriggersSpec
CONSTANTS
  zone = zone
  push = push
  boost = boost
  teleport = teleport
  plain = plain
  Trigs <- All
  Kind <- Kinds
  Conds <- Conditions
  Delay <- Delays
  Cooldown <- Cooldowns
  CancelOnTp <- TheBoost
  Mortal <- ThePush
  Filtered <- ThePush
  Overlaps <- Overlapping
  MaxTime = 4
INVARIANTS
  EventsAreSymmetric
PROPERTIES
  PushCooldown
  TouchListFollowsPlayer
\* Time is bounded.
CHECK_DEADLOCK FALSE
