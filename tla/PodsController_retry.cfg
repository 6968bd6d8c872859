SPECIFICATION FairSpec
CONSTANTS
  p = p
  s = s
  t = t
  ApiPods <- OneApiPod
  StaticPods <- TwoStaticPods
  AlwaysRestart <- TwoStaticPods
  Hosted <- OnlyApi
  WatchLag = 2
  MaxWrites = 0
  MaxRestarts = 0
  MaxErrors = 1
  MaxRemovals = 0
PROPERTY FailedWorkIsRetried
CHECK_DEADLOCK FALSE
