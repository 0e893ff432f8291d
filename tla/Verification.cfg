SPECIFICATION FairSpec
CONSTANTS
  s1 = s1
  s2 = s2
  Sessions = {s1, s2}
  Configs <- ThreeSettings
  Mails <- FewMails
  Slack = 1
INVARIANTS VTypeOK PoolsConserved EndsInTime
PROPERTIES RightOrDefers EveryCheckEnds
