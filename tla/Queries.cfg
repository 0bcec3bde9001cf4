SPECIFICATION QuerySpec
CONSTANTS
  api = api
  bare = bare
  p = p
  tick128 = tick128
  Plugins <- TheModes
  BuiltIn = tick128
  ApiModes <- KnownModes
  Users <- OnePlayer
  NoMap = NoMap
  Maps <- TwoMaps
  Version <- Good
  Descriptors <- Declared
  Entities <- Nothing
  BonusName <- Bonuses
  MaxCourses = 2
  MaxNum = 2
  MaxLoads = 2
  MaxRounds = 0
  MaxMishaps = 1
  MaxRequests = 1
INVARIANTS
  WaitsForAnAnswer
\* Maps, requests and failures are bounded.
CHECK_DEADLOCK FALSE
