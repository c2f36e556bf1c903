------------------------------ MODULE MCThreads ------------------------------
(* Small instances of Threads for TLC: the modules a, foo and bar of        *)
(* sched/foobar.c, where a and foo call bar.                                *)
EXTENDS Threads, TLC
CONSTANTS a, foo, bar

\* a -> foo, a -> bar, foo -> bar
FoobarCalls == {<<a, foo>>, <<a, bar>>, <<foo, bar>>}

\* bar calls foo back: calls within one thread re-enter a module.
CallsIntoFoo == {<<a, foo>>, <<foo, bar>>, <<bar, foo>>}

\* The answers of faulty modules to the scheduler.
Done == {FALSE}
DoneOrBusy == BOOLEAN
=============================================================================
