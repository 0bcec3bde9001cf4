SPECIFICATION LiveSpec
CONSTANTS
  p1 = p1
  m1 = m1
  m2 = m2
  r1 = r1
  None = None
  Players <- OnePlayer
  Maps <- TwoMaps
  Records <- OneRecord
  Approved <- OneMap
  Configured = TRUE
  Preempted = TRUE
  Codes <- AllCodes
  AnyTime = FALSE
  MaxOpens = 3
  MaxMaps = 2
  MaxJoins = 2
INVARIANTS
  OneHello
  PlayersKnown
  MapIsCurrent
PROPERTIES
  Connects
  SentIsAnswered
\* The model stops at its bounds.
CHECK_DEADLOCK FALSE
