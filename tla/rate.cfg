SPECIFICATION Spec
CONSTANTS
  consumer = consumer
  request = request
  Callers = {consumer, request}
  Capacity = 2
  RefillPerMinute = 2
  MinuteMs = 5
  MaxWaitMs <- MaxWait
  PollCapMs = 2
  FailedMs = 1
  MaxBehind = 1
  MaxTime = 8
INVARIANTS
  TypeOK
  RateKept
PROPERTIES
  LonerServed
CHECK_DEADLOCK FALSE
