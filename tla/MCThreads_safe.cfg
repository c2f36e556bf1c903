CONSTANTS
  a = a
  foo = foo
  bar = bar
  SM = {a, foo, bar}
  Scheduler = Scheduler
  Main = Main
  Portal = {a, foo}
  Calls <- CallsIntoFoo
  Faulty = {}
  Answers <- Done
  MaxThreads = 3
  MaxWork = 2
SPECIFICATION FairSpec
INVARIANTS
  TypeOK
  WorksForOneThread
  FinishedLeavesNothing
PROPERTIES
  AllThreadsFinish
  EveryThreadRuns
