SPECIFICATION FairSpec
CONSTANTS
  NJobs = 1
  NEmails = 1
  credA = credA
  credB = credB
  Creds = {credA}
  NoCred = NoCred
  Cap <- NoCap1
  AccountCap = 9
  Rates <- Unlimited
  Consumers = {c1}
  Invocations = {p1}
  Ops = {"create", "cron", "cancel", "retry", "delete", "redact", "edit", "rate"}
  Outcomes = {"ok", "credential", "transient"}
  Faults = {"push"}
  TimelyRecovery = FALSE
  MaxClock = 3
  MaxDeliveries = 1
  TransientMax = 2
PROPERTIES
  AckedIsOver
  WaitingMovesOn
  RedactedJobEnds
CHECK_DEADLOCK FALSE
