CONSTANTS
  Inode = {i1, i2}
  OUT_OF_BOUNDS = OUT_OF_BOUNDS
  NIL_INODE_NB = NIL_INODE_NB
  SM = {{0}, {1}}
  Perm = {{}, {0}, {0, 1, 2, 3, 4, 5, 6, 7}}
  Block = {{0}}
  NIL_BLOCK_NB = {1}
  MAX_NB_SM = 1
  MAX_NB_OPEN_FILES = 2
  ACL_LENGTH = 2
  MAX_NB_DATA_BLOCKS = 1
SYMMETRY Symmetry
VIEW view
SPECIFICATION Spec
INVARIANTS
  TypeOK
  BlocksOwned
  AccessIsCurrent
PROPERTY RightsOnlyByOwner
