\* The programs of lab 20 that link, and every other program; each section pix
\* maps, one it does not, and the even neighbours of the odd ones.
CONSTANTS
  Section = {0, 1, 8, 126, 127, 142, 143, 512, 513, 514, 768}
  Request = {}
  Written = {2}
  MaxMark = 1
  AP_no_access = 0
SPECIFICATION PSpec
INVARIANT Confined
PROPERTIES
  KernelAnswers
  LabProgramsEnd
