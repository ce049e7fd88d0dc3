SPECIFICATION Spec
CONSTANTS
  Tasks = {t1, t2, t3}
  NoTask = NoTask
  MuxLimit = 4
  MaxNest = 2
SYMMETRY Symmetry
INVARIANTS TypeOK ExclusionUnlessSplit CountIsNesting
PROPERTY ImplementsRecLock
