CONSTANTS
  Name = {n1, n2}
  SM = {s1, s2}
  MAX_NB_OPEN_FILES = 2
  MAX_NB_FILES = 2
  MAX_NB_PERMS = 3
  NB_CFS_FDS = 3
  Flags <- SomeFlags
  Wanted <- ReadOrAll
  NO_CFS_FORMAT = FALSE
SYMMETRY Symmetry
VIEW view
SPECIFICATION Spec
INVARIANTS
  TypeOK
  PoolPartition
  NoDangling
  OpenCounts
  BackendAgrees
  CreatorHeadsAcl
PROPERTIES
  ImplementsMonitor
