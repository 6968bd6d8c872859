SPECIFICATION FairSpec
CONSTANTS
  p = p
  s = s
  t = t
  ApiPods <- OneApiPod
  StaticPods <- TwoStaticPods
  AlwaysRestart <- TwoStaticPods
  Hosted <- Either
  WatchLag = 2
  MaxWrites = 3
  MaxRestarts = 1
  MaxErrors = 1
  MaxRemovals = 1
INVARIANTS SendNeverBlocks   OneStaticPodRuns
PROPERTIES   DeletedPodGoes
CHECK_DEADLOCK FALSE
