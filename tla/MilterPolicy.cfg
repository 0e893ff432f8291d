SPECIFICATION Spec
CONSTANTS
  s1 = s1
  s2 = s2
  Sessions = {s1}
  Configs <- AllModes
  Origins <- Everyone
  Senders <- AllSenders
  Recipients <- AllRecipients
  Contents <- AllContents
  Limit = 1
  MaxGiven = 2
  MaxMail = 1
PROPERTIES EnforcedRulesHold OnlyEnforcedRefuses OnlyEnforcedRefusesRecipient
CHECK_DEADLOCK FALSE
