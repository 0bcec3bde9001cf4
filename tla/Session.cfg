SPECIFICATION Spec
CONSTANTS
  p = p
  q = q
  tick128 = tick128
  source = source
  slow = slow
  fast = fast
  NoUser = NoUser
  Unset = Unset
  Players <- TwoPlayers
  Modes <- TwoModes
  DefaultMode = tick128
  ApiModes <- TwoModes
  StyleOrder <- TwoStyles
  Conflicts <- Clash
  DefaultStyles <- NoStyles
  Rows <- InDatabase
  ApiPrefs <- InApi
  MaxJoins = 2
  MaxEvents = 2
INVARIANTS
  ChoiceKept
  NoConflicts
  RatingOfMode
\* Joins, commands and failures are bounded.
CHECK_DEADLOCK FALSE
