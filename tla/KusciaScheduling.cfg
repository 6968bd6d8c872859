SPECIFICATION PluginSpec
CONSTANTS
  Pods = {a, b}
  Nodes = {n1, n2}
  Capacity = 1
  MinReservedPods = 2
  Lag = 1
  PatchMayTimeOut = TRUE
SYMMETRY Symmetry
INVARIANTS BoundOnlyGranted 
 
CHECK_DEADLOCK FALSE
