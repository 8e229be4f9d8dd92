SPECIFICATION Spec
CONSTANTS
  NJobs = 1
  NEmails = 2
  credA = credA
  credB = credB
  Creds = {credA}
  NoCred = NoCred
  Cap <- NoCap1
  AccountCap = 9
  Rates <- Unlimited
  Consumers = {c1, c2}
  Invocations = {p1}
  Ops = {"create", "cron", "cancel", "delete"}
  Outcomes = {"ok", "transient", "unknown_user"}
  Faults = {"push"}
  TimelyRecovery = TRUE
  MaxClock = 3
  MaxDeliveries = 2
  TransientMax = 2
INVARIANTS
  TypeOK
  OneMailPerClaim
  OneMailPerRecipient
  CountersMatchLog
  DoneLeavesNobody
PROPERTIES
  ImplementsMailDelivery
SYMMETRY Symmetry
CHECK_DEADLOCK FALSE
