SPECIFICATION Spec
CONSTANTS
  NJobs = 1
  NEmails = 2
  credA = credA
  credB = credB
  Creds = {credA}
  NoCred = NoCred
  Cap <- NoCap1
  AccountCap = 9
  Rates <- OnePerDay
  Consumers = {c1,c2}
  Invocations = {p1, p2}
  Ops = {"create", "cron"}
  Outcomes = {"ok"}
  Faults = {}
  TimelyRecovery = TRUE
  MaxClock = 3
  MaxDeliveries = 1
  TransientMax = 2
INVARIANTS
  WithinJobLimit
SYMMETRY Symmetry
CHECK_DEADLOCK FALSE
