\* An even and an odd section, an alias,
\* a private mapping; domains beside each other and the register's end; debug
\* registers with anything in them.
CONSTANTS
  Section = {0, 1}
  Request <- Requests
  Written = {1, 2, 14, 15}
  MaxMark = 2
  AP_no_access = 0
  Address = {0, 4}
  Client = {h1, h2}
  AtReset <- Resets
  None = None
SYMMETRY Symmetry
SPECIFICATION RSpec
INVARIANTS
  TlbAgrees
  BreaksAsAsked
  FaultsToldApart
PROPERTIES
  MappingsStable
  FieldsAgree
