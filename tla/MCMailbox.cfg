\* Lists of up to two tags, known or not, some of no words, and a usual one;
\* nothing left over, or a message of this channel or of another.
CONSTANTS
  TagLists <- Lists
  Leftovers <- Left
  Depth = 2
SPECIFICATION Spec
INVARIANTS
  AnswerIsMine
PROPERTY Ends
