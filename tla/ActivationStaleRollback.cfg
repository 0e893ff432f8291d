SPECIFICATION Spec
CONSTANTS
  r1 = r1
  r2 = r2
  FailureAction <- Actions
  Runs = {r1, r2}
  Configs = {"A", "B"}
  Forced = FALSE
  ByHand = FALSE
  Meddling = {}
  HandRestarts = FALSE
  MaxDirs = 5
  MaxEdits = 0
  MaxFailures = 0
  MaxCrashes = 0
SYMMETRY Sym
PROPERTIES
  HistoryIsStack
