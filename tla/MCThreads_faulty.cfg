CONSTANTS
  a = a
  foo = foo
  bar = bar
  SM = {a, foo, bar}
  Scheduler = Scheduler
  Main = Main
  Portal = {a, foo, bar}
  Calls <- FoobarCalls
  Faulty = {bar}
  Answers <- Done
  MaxThreads = 2
  MaxWork = 4
SPECIFICATION Spec
INVARIANTS
  WorksForOneThread
  InnermostRuns
  FramesMatchCalls
PROPERTY DeadThreadsStayOut
