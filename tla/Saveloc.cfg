SPECIFICATION SSpec
CONSTANTS
  main = main
  spawn = spawn
  field = field
  NoCourse = NoCourse
  NoUndo = NoUndo
  Courses <- OneCourse
  CpCount <- NoCps
  StageNums <- NoStages
  Positions <- Places
  StartPos <- spawn
  MaxCp = 0
  StartOffsets <- WholeTicks
  StageCommand = FALSE
  MaxTime = 0
  MaxRuns = 1
  MaxReached = 0
  Tas = TRUE
  MaxRecs = 1
INVARIANTS
  CourseKnown
