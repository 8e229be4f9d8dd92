SPECIFICATION Spec
CONSTANTS
  p1 = p1
  p2 = p2
  Procs = {p1, p2}
  Rows <- Register
  AreaType <- Branches
  Emails <- Mailboxes
  Addresses = {"friend"}
  ListNames = {"press"}
  MaxContacts = 1
  MaxPresets = 1
  MaxSteps = 5
  MaxVerdicts = 1
INVARIANTS
  TypeOK
  NoStrangers
  LocalFilterIsLocal
PROPERTIES
  NeverDeadOrExcluded
SYMMETRY Calls
CHECK_DEADLOCK FALSE
