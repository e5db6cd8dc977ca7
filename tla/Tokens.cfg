CONSTANTS
  s1 = s1
  i1 = i1
  i2 = i2
  i3 = i3
  Senders = {s1}
  Instances = {i1, i2, i3}
  MaxAttempts = 2
  MaxTokens = 4
  MaxFaults = 2
SPECIFICATION FairSpec
INVARIANTS
  TokenTypeOK
  StaleOnlyAfterAChange
PROPERTIES
  SentFromItsInstance
  HealedByAnyAnswer
