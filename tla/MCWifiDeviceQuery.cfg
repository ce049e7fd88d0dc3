SPECIFICATION Spec
CONSTANTS
  t1 = t1
  t2 = t2
  Tasks <- MCTasks
  NoTask = NoTask
  Casts <- Lone
  MaxLive = 2
  PollLimit = 2
INVARIANT HotspotQueryTellsMode
