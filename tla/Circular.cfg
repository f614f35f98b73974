\* A ring of four slots; the producer pushes at any point of a peek.
SPECIFICATION Spec
CONSTANTS
  Value = {a, b}
  CQ_N = 4
  Word = 16
INVARIANT PeekHolds
