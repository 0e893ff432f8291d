SPECIFICATION Spec
CONSTANTS
  r1 = r1
  r2 = r2
  FailureAction <- Actions
  Runs = {r1, r2}
  Configs = {"A", "B", "C"}
  Forced = FALSE
  ByHand = FALSE
  Meddling = {}
  HandRestarts = FALSE
  MaxDirs = 4
  MaxEdits = 1
  MaxFailures = 0
  MaxCrashes = 1
SYMMETRY Sym
INVARIANTS
  HistoryWellFounded
PROPERTIES
  NothingLost
  RecordsImmutable
