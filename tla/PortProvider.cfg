SPECIFICATION FairSpec
CONSTANTS
  a = a
  b = b
  Segments <- MCSegments
  Owners = {a, b}
  Tasks <- OneEach
  Count = 1
  MaxNotVerifiedPortAge = 2
  Delay = 1
  MayRestart = TRUE
INVARIANTS NoPortConflict AllocateFindsFree TablesAccurate
PROPERTY PortsComeBack
