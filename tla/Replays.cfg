SPECIFICATION ReplaysSpec
CONSTANTS
  r1 = r1
  r2 = r2
  r3 = r3
  m1 = m1
  m2 = m2
  main = main
  old = old
  wpn = wpn
  spd = spd
  p = p
  vnl = vnl
  m128 = m128
  Files <- AllFiles
  Header <- Headers
  OnDisk <- Saved
  MaxPer = 2
  MaxManual = 1
  MaxNow = 1
  MaxStops = 1
  Width = 8
  Plain <- OneField
  Motion <- OneMove
  Values <- TwoValues
  ZeroValue = 0
  Players <- OnePlayer
  NoPlayer = NoPlayer
  NoFile = NoFile
  NoCourse = NoCourse
  NoMode = NoMode
  Recording <- Recordings
  KnownCourses <- Known
  KnownModes <- Played
  Courses <- AllCourses
  Modes <- AllModes
  DefaultMode = m128
  Ages <- YoungAndOld
  Bounds <- LongOrTwice
INVARIANTS
  PlaybackIsRecording
  TimeIsRecorded
PROPERTIES
  FastestKept
CHECK_DEADLOCK FALSE
