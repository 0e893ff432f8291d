SPECIFICATION Spec
CONSTANTS
  m1 = m1
  m2 = m2
  m3 = m3
  Messages = {m1, m2, m3}
  LimitKeys <- TwoKeys
  LocalLimit <- DayCap
  Span <- MCSpan
  Size <- MCSize
  Capacity = 1
  Observe = TRUE
  SweepInterval = 1
  MaxRecipients = 2
  MaxClock = 6
  MaxLag = 1
SYMMETRY Sym
INVARIANT CountsExact
CHECK_DEADLOCK FALSE
