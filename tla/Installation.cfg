SPECIFICATION Spec
CONSTANTS
  r1 = r1
  v1 = v1
  v2 = v2
  A = A
  B = B
  Root = Root
  UnitOf <- SameUnit
  Runs = {r1}
  Releases = {v1, v2}
  Configs = {A, B}
  MaxDirs = 2
  MaxEdits = 1
  MaxFailures = 2
SYMMETRY Sym
INVARIANT ITypeOK
PROPERTIES CompletedInstall RollbackRestores DetachedFirst
