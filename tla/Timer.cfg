SPECIFICATION Spec
CONSTANTS
  main = main
  None = None
  Empty = Empty
  Broken = Broken
  NoCourse = NoCourse
  Courses <- MainOnly
  CpCount <- MainCp
  StageNums <- MainStages
  MaxCp = 2
  StartOffsets <- WholeTicks
  StageCommand = TRUE
  MaxTime = 2
  MaxRuns = 2
  MaxReached = 4
INVARIANTS
  RunComplete
  RecorderFollowsTimer
  SubmissionsHaveReplays
PROPERTIES
  CompleteRunEnds
  KeepsContract
