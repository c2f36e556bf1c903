CONSTANTS
  Name = {a, b}
  INIT_BUF_SIZE = 120
  MAX_NB_OPEN_FILES = 2
  Size = {1, 4}
SYMMETRY Symmetry
SPECIFICATION Spec
CONSTRAINT Whole
INVARIANT GivesFreeMemory
