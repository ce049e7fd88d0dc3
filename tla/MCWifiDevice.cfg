SPECIFICATION FairSpec
CONSTANTS
  t1 = t1
  t2 = t2
  Tasks <- MCTasks
  NoTask = NoTask
  Casts <- MCCasts
  MaxLive = 1
  PollLimit = 1
INVARIANTS
  StatusMatchesRadio
  DisableIsComplete
  NothingLeaks
  ActiveHasNetif
PROPERTY EveryCallReturns
