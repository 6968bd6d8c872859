SPECIFICATION FairSpec
CONSTANTS
  a = a
  b = b
  p = p
  Tasks <- TwoTasks
  Partners <- OnePartner
  Specs <- MCSpecs
  maxBackoffLimit = 0
  maxRetries = 1
  MaxCommands = 1
  MaxFaults = 1
  JobLag = 2
  TaskLag = 1
INVARIANTS SucceededAllDone ParallelismBounded SuccessKept
PROPERTIES DependenciesFirst FinalPhase  Ends
CHECK_DEADLOCK FALSE
