\* Two words that share the lock table, and blocks of one and of two words.
CONSTANTS
  NWords = 2
  MaxThreads = 3
  MaxLocks = 2
  Lock = {l1, l2}
  NoLock = NoLock
SPECIFICATION HSpec
SYMMETRY LockSymmetry
INVARIANTS
  LocksetNamesHeldLock
  ReportIsJustified
