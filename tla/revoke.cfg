SPECIFICATION Spec
CONSTANTS
  NJobs = 1
  NEmails = 1
  credA = credA
  credB = credB
  Creds = {credA, credB}
  NoCred = NoCred
  Cap <- NoCap
  AccountCap = 9
  Rates <- Unlimited
  Consumers = {c1}
  Invocations = {p1, p2}
  Ops = {"create", "retry", "revoke"}
  Outcomes = {"ok", "credential"}
  Faults = {"push"}
  TimelyRecovery = FALSE
  MaxClock = 2
  MaxDeliveries = 1
  TransientMax = 2
PROPERTIES
  SupersededForever
  CancelledStays
  RevokedNotUsed
SYMMETRY Symmetry
CHECK_DEADLOCK FALSE
