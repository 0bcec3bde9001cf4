SPECIFICATION Spec
CONSTANTS
  p = p
  q = q
  tick128 = tick128
  source = source
  NoCourse = NoCourse
  Nobody = Nobody
  Players <- TwoPlayers
  Roaming <- OneRoams
  Mode <- Modes
  Wardrobe <- Styles
  CourseVels <- OneCourse
INVARIANTS
  GroundEventsHeard
  StartIsEarned
  OwnSettings
