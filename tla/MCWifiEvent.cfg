SPECIFICATION Spec
CONSTANTS
  Observers = {o1, o2, o3}
  Listening = {o1, o2}
  NULL = NULL
  Size = 2
  Senders = {loop, scan}
SYMMETRY Symmetry
INVARIANTS FaultOnlyByUnregister StayedHeardOnce
PROPERTY ImplementsSet
CHECK_DEADLOCK FALSE
