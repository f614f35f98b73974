\* Three instruction addresses: one stepped over, one gone to, one not.
SPECIFICATION TSpec
CONSTANTS
  Pc = {p1, p2, p3}
  NoPc = NoPc
INVARIANTS
  UserSealed
  HandlersNeverFault
  CheckedHeapIsThere
PROPERTIES
  TracesEveryAccess
