\* Every pair of these messages, one in the middle of the other, in a buffer
\* that some of them overfill; every call on every memory of five bytes, with
\* words of two.  A ring of four slots.  Five keys, two of them in one chain for
\* ever; a table of one bucket grows to eight, or to sixteen under a count that
\* was garbage.
CONSTANTS
  Value = {a, b}
  CQ_N = 4
  Word = 16
  Key = {"a", "b", "c", "d", "e"}
  Val = {1, 2}
  Hash <- HashTwoBits
  Size = 1
  InitialUsed <- GarbageCounts
  Bits = 8
  BufSize = 7
  Character <- Characters
  Message <- Messages
  Format <- Formats
  MaxPrints <- Prints
  None = None
  N = 5
  Char = {0, 1, 255}
  IntArg = {0, 1, 257}
  WordBytes = 2
SPECIFICATION LSpec
INVARIANTS
  SlotsApart
  FitsWhole
  TornInPlace
  NumbersReadBack
  StringsMean
  ChecksumIsRemainder
PROPERTIES
  KeepsFifo
  KeepsMap
