SPECIFICATION LSSpec
CONSTANTS
  m1 = m1
  m2 = m2
  m3 = m3
  m4 = m4
  Messages = {m1}
  LimitKeys <- Unparsed
  LocalLimit <- MCLocal
  Span <- MCSpan
  Size <- MCSize
  Capacity = 1
  Observe = FALSE
  SweepInterval = 1
  MaxRecipients = 1
  MaxClock = 5
  MaxLag = 0
  SaveInterval = 3
  ClockSkew = 1
  BadTexts = {"raw"}
  MaxBytes = 20
SYMMETRY Sym
INVARIANT SnapshotLoads
CHECK_DEADLOCK FALSE
