SPECIFICATION Spec
CONSTANTS
  s1 = s1
  s2 = s2
  Sessions = {s1, s2}
  Configs <- Sharing
  Origins <- Few
  Senders <- FewSenders
  Recipients <- PlainOrNot
  Contents <- FewContents
  Limit = 2
  MaxGiven = 2
  MaxMail = 3
INVARIANTS MilterTypeOK SlotsConserved PlacesAreRecipients CountsDelivered DeliveredWithinLimit
PROPERTIES EnforcedRulesHold OnlyEnforcedRefuses
CHECK_DEADLOCK FALSE
