SPECIFICATION Spec
CONSTANTS
  NJobs = 1
  NEmails = 1
  credA = credA
  credB = credB
  Creds = {credA}
  NoCred = NoCred
  Cap <- NoCap1
  AccountCap = 9
  Rates <- Unlimited
  Consumers = {c1}
  Invocations = {p1}
  Ops = {"create", "cancel"}
  Outcomes = {"ok"}
  Faults = {}
  TimelyRecovery = TRUE
  MaxClock = 2
  MaxDeliveries = 1
  TransientMax = 2
PROPERTIES
  CancelIsFinal
SYMMETRY Symmetry
CHECK_DEADLOCK FALSE
