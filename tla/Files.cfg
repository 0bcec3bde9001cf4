SPECIFICATION FilesSpec
CONSTANTS
  r1 = r1
  r2 = r2
  t1 = t1
  t2 = t2
  Game = Game
  NoTask = NoTask
  Jobs <- TwoJobs
  ToFile <- TwoJobs
  Quiet <- Silent
  Long <- LongRuns
  Tasks <- TwoTasks
  Answered <- OneAnswer
  Chunk <- Chunks
INVARIANT
  StopWaits
PROPERTIES
  KeepsQueue
  WaitsReturn
  QueuedIsFinished
\* The game's thread ends with the unload.
CHECK_DEADLOCK FALSE
