\* Two places in the cache and two entries in the buffer for four lines and pages,
\* one branch table entry for each of two branches and another for none.
CONSTANTS
  Objects <- App
  Addr = {0, 2, 4, 6}
  Request = {1, 3, 4}
  Break = {5, 9}
  Growth <- Grow
  StartBrk = 6
  CACHE_SIZE = 4
  CACHE_BLOCK = 2
  PAGESIZE = 2
  DTBSIZE = 2
  MAPSIZE = 2
  TABLESIZE = 2
  MAXSIZE = 3
  MaxInsts = 6
  MaxCalls = 2
SPECIFICATION Spec
INVARIANTS
  ToolsAgree
  CacheExact
  DtbSound
