CONSTANTS
  Name = {n1}
  SM = {s1, s2}
  MAX_NB_OPEN_FILES = 1
  MAX_NB_FILES = 1
  MAX_NB_PERMS = 2
  NB_CFS_FDS = 1
  Flags <- DefinedFlags
  Wanted <- ReadOrAll
  NO_CFS_FORMAT = FALSE
SPECIFICATION Spec
INVARIANT OneCreator
