SPECIFICATION Spec
CONSTANTS
  api = api
  old = old
  broken = broken
  tick128 = tick128
  css = css
  Plugins <- TheModes
  BuiltIn = tick128
  NoMap = NoMap
  Maps <- TheMaps
  Version <- Versions
  Descriptors <- Declared
  Entities <- Spawned
  BonusName <- Bonuses
  MaxCourses = 4
  MaxNum = 4
  MaxLoads = 2
  MaxRounds = 2
  MaxMishaps = 1
INVARIANTS
  IdsAreOfTheMap
  CountsMatchZones
  PluginsHaveIds
  NothingForgotten
\* Maps, rounds and failures are bounded.
CHECK_DEADLOCK FALSE
