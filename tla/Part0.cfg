\* Two instructions, a heap of two words, runs under either tool in any order.
CONSTANTS
  Pc = {p1, p2}
  HeapBytes = 8
  Touch = {0, 3, 4}
  Sizes = {1, 8}
  MaxCount = 3
  None = None
SPECIFICATION Spec
INVARIANT Sealed
PROPERTIES
  StepsCounted
  FreedStaysShut
