\* One word under every order of accesses, switches, locks and marks by three
\* threads, with a lock table that three locks overfill. No symmetry: it is
\* not sound for MarkingEnds.
CONSTANTS
  NWords = 1
  MaxThreads = 3
  MaxLocks = 2
  Lock = {l1, l2, l3}
  NoLock = NoLock
SPECIFICATION HSpec
INVARIANTS
  PhaseIsHistory
  LocklessFirstStoreCaught
PROPERTIES
  KeepsPromise
  MarkingEnds
