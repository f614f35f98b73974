\* Five keys, two of them in one chain for ever; the count starts at garbage.
\* One insert into an empty table is enough.
CONSTANTS
  Key = {"a", "b", "c", "d", "e"}
  Val = {1, 2}
  Hash <- HashTwoBits
  Size = 1
  InitialUsed <- GarbageCounts
SPECIFICATION HtSpec
PROPERTY InsertedIsFound
