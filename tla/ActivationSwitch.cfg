SPECIFICATION Spec
CONSTANTS
  r1 = r1
  r2 = r2
  FailureAction <- Actions
  Runs = {r1}
  Configs = {"A", "B"}
  Forced = FALSE
  ByHand = FALSE
  Meddling = {}
  HandRestarts = FALSE
  MaxDirs = 5
  MaxEdits = 2
  MaxFailures = 1
  MaxCrashes = 1
INVARIANTS
  TypeOK
  RestorableStart
  NeverOpen
PROPERTIES
  NothingLost
  HistoryIsStack
  RecordedMeansRunning
  FailedRunRestores
