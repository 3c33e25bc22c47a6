CONSTANTS
  j1 = j1
  j2 = j2
  j3 = j3
  j4 = j4
  j5 = j5
  Jobs <- MCJobs
  Signalled <- MCSignalled
  Concurrency = 2
  MaxPending = 2
SPECIFICATION FairSpec
INVARIANTS
  QueueIsSound
PROPERTIES
  FirstComeFirstServed
  ImplementsBoundedService
  NobodyIsForgotten
