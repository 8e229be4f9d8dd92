SPECIFICATION Spec
CONSTANTS
  Letters = {l1, l2}
  Posted = {l1}
  Files = {text}
  Extracted = {text}
  MaxFiles = 1
  Passes = {c1, c2}
  BackfillBatch = 1
  RedactBatch = 1
  DefaultKeep = 0
  Keeps = {0, 1}
INVARIANTS
  TypeOK
  RedactedLeavesNothing
  JobHasAllFiles
PROPERTIES
  RedactedStays
  FinishedIsRedacted
CHECK_DEADLOCK FALSE
