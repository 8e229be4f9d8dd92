SPECIFICATION FairSpec
CONSTANTS
  NJobs = 1
  NEmails = 2
  credA = credA
  credB = credB
  Creds = {credA}
  NoCred = NoCred
  Cap <- CapOne1
  AccountCap = 9
  Rates <- FreeOrOneThenTwo
  Consumers = {c1}
  Invocations = {p1}
  Ops = {"create", "cron", "rate"}
  Outcomes = {"ok"}
  Faults = {}
  TimelyRecovery = TRUE
  MaxClock = 4
  MaxDeliveries = 1
  TransientMax = 2
PROPERTIES
  StagedJobFinishes
CHECK_DEADLOCK FALSE
