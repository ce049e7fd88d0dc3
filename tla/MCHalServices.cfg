SPECIFICATION FairSpec
CONSTANTS
  t1 = t1
  t2 = t2
  t3 = t3
  Isr = isr
  \* the text of one printer goes out in two pieces
  MaxPieces = 2
  \* a partial first, a whole middle and a partial last sector
  SectorSize = 2
  Sectors = 3
  Capacity = 3
  MaxSize = 3
  MaxBytes = 5
  Tasks <- MCTasks
  Prios <- MCPrios
  Budgets <- MCBudgets
  Longest <- MCLongest
  BleTasks <- MCBleTasks
INVARIANTS
  TextIntact
  WriteIsExact
  OnlyUnrestoredIsLost
  FullUnlessFurther
  HostOnController
PROPERTY
  PrintsGoOn
CHECK_DEADLOCK FALSE
