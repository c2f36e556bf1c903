CONSTANTS
  SCHED_MAX_NB_THREADS = 3
  SM = {a, b}
  Entry = {e1}
  RETURN = RETURN
SPECIFICATION FairSpec
INVARIANTS
  TypeOK
  PoolPartition
  TailIsLast
  StatesMatchPlaces
  UniqueIds
PROPERTIES
  DoneIsFinal
  ImplementsFifo
  NoStarvation
