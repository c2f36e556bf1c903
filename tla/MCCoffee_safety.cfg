SPECIFICATION Spec
CONSTANTS
  Name = {a, b}
  COFFEE_SECTOR_COUNT = 3
  COFFEE_PAGES_PER_SECTOR = 4
  DYN_PAGES = 3
  LOG_PAGES = 2
  COFFEE_MAX_OPEN_FILES = 2
  COFFEE_FD_SET_SIZE = 3
  CrashInside = TRUE
SYMMETRY Symmetry
CONSTRAINT Whole
INVARIANTS
  TypeOK
  ScanFindsAll
  ExtentsDisjoint
  CacheAgrees
  OneFileOneLog
  HintsSound
PROPERTY ImplementsCfs
