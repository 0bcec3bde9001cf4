SPECIFICATION LiveSpec
CONSTANTS
  r1 = r1
  None = None
  Runs <- OneRun
  Results <- AllResults
  Styled = TRUE
  Leaves = TRUE
  MapChanges = TRUE
  Fails = {"insert"}
INVARIANTS
  InsertedOnce
  NamesAgree
  CollectedRunsAreSaved
PROPERTIES
  SubmissionsEnd
  LocalRunsAreInserted
\* The system stops once every run is finished.
CHECK_DEADLOCK FALSE
