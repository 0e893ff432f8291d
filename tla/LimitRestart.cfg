SPECIFICATION LSSpec
CONSTANTS
  m1 = m1
  m2 = m2
  m3 = m3
  m4 = m4
  Messages = {m1, m2, m3}
  LimitKeys <- Senders
  LocalLimit <- MCLocal
  Span <- MCSpan
  Size <- MCSize
  Capacity = 1
  Observe = FALSE
  SweepInterval = 1
  MaxRecipients = 1
  MaxClock = 3
  MaxLag = 1
  SaveInterval = 1
  ClockSkew = 1
  BadTexts = {"login"}
  MaxBytes = 6
SYMMETRY Sym
INVARIANTS SaverTypeOK MemoryExact LimitsOutliveRestarts RefusalExplained LossBounded
PROPERTIES CleanStopKeepsAll
CHECK_DEADLOCK FALSE
