SPECIFICATION Spec
CONSTANTS
  NJobs = 1
  NEmails = 1
  credA = credA
  credB = credB
  Creds = {credA}
  NoCred = NoCred
  Cap <- NoCap1
  AccountCap = 9
  Rates <- Unlimited
  Consumers = {c1, c2}
  Invocations = {p1}
  Ops = {"create", "cancel", "delete"}
  Outcomes = {"ok", "rejected"}
  Faults = {"push_taken", "throw", "redeliver", "ambiguous", "evict", "evict_request"}
  TimelyRecovery = FALSE
  MaxClock = 2
  MaxDeliveries = 2
  TransientMax = 2
INVARIANTS
  NeverOverstated
SYMMETRY Symmetry
CHECK_DEADLOCK FALSE
