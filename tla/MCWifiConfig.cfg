SPECIFICATION Spec
CONSTANTS
  Tasks = {t1, t2}
  NoTask = NoTask
  Nets = {n1, n2}
  NoNet = NoNet
  MaxConfig = 2
  PollLimit = 1
SYMMETRY Symmetry
INVARIANTS EntriesWhole JoinsWhatItChecked
PROPERTY ImplementsTable
