\* Twelve bytes: two blocks of less than a word beside each other, or one long
\* one; two instructions, the one stepped over and the one it goes to.
SPECIFICATION TrapSpec
CONSTANTS
  HeapBytes = 12
  Pc = {p1, p2}
  NoPc = NoPc
INVARIANTS
  ShadowIsHistory
  NoFalseAlarm
PROPERTIES
  Implements
  FreedNeverReached
