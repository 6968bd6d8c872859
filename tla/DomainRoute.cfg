SPECIFICATION Spec
CONSTANTS
  s1 = s1
  s2 = s2
  d1 = d1
  d2 = d2
  SrcGateways <- OneSrc
  DstGateways <- TwoDst
  MaxNow = 2
  MaxFaults = 1
INVARIANTS RevisionNamesOneToken RollingIsSeamless
SYMMETRY DstSymmetry
CHECK_DEADLOCK FALSE
