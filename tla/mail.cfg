SPECIFICATION Spec
CONSTANTS
  p1 = p1
  p2 = p2
  Talkers = {p1, p2}
  s1 = s1
  s2 = s2
  Secrets = {s1, s2}
  NoSecret = NoSecret
  Limit <- Quotas
  GraphLimit = 300
  Percents <- Asked
  MaxRequests = 3
INVARIANTS
  TypeOK
  EncryptedOnly
  RetryNeverDuplicates
  OkMeansTaken
  RevokedHoldsNothing
  ProvenBeforeStored
  CapWithinCeiling
SYMMETRY Symmetry
CHECK_DEADLOCK FALSE
