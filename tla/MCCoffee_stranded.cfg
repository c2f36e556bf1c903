SPECIFICATION Spec
CONSTANTS
  Name = {a, b}
  COFFEE_SECTOR_COUNT = 3
  COFFEE_PAGES_PER_SECTOR = 4
  DYN_PAGES = 3
  LOG_PAGES = 2
  COFFEE_MAX_OPEN_FILES = 3
  COFFEE_FD_SET_SIZE = 2
  CrashInside = FALSE
SYMMETRY Symmetry
CONSTRAINT Whole
INVARIANT QuickSkipAsDocumented
