SPECIFICATION FairSpec
CONSTANTS
  Parties = {p1}
  MinReservedMembers = 1
  maxRetries = 1
  MaxFaults = 2
  GroupLag = 1
  ResourceLag = 1
PROPERTY Completes
CHECK_DEADLOCK FALSE
