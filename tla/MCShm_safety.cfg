CONSTANTS
  Name = {a, b}
  INIT_BUF_SIZE = 64
  MAX_NB_OPEN_FILES = 2
  Size = {0, 1, 4}
SYMMETRY Symmetry
SPECIFICATION Spec
CONSTRAINT Whole
INVARIANTS
  TypeOK
  BlocksReturn
  FreeUndoesMalloc
PROPERTY ImplementsCfs
  OpenKeepsList
