SPECIFICATION FairSpec
CONSTANTS
  Scanners = {s1, s2}
  OnlyScanner = s1
  Readers = {r1}
  MaxIndex = 3
  MaxPending = 2
INVARIANTS ListIsFresh ScaningIsTrue
PROPERTY ScaningEnds
