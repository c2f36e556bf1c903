------------------------------ MODULE Scheduler ------------------------------
(***************************************************************************)
(* The scheduler SM (src/control_flow/sched/scheduler.c): a pool of thread *)
(* control blocks (TCBs) threaded through singly linked lists by their     *)
(* next pointers, a FIFO ready queue with a head and a tail pointer, a     *)
(* stack of done threads and the current thread.                           *)
(*                                                                         *)
(* The pointers are modelled as in the code: a TCB is an index in the pool,*)
(* NULL is 0, and a dequeued TCB keeps its stale next pointer.  There is   *)
(* one CPU and no preemption, so every call of the scheduler is one step.  *)
(* sm_id, which is written and printed but never read, is left out.        *)
(***************************************************************************)
EXTENDS Integers, FiniteSets, Sequences

CONSTANTS
  SCHED_MAX_NB_THREADS,   \* number of TCBs in the pool
  SM,                     \* the modules (their entry addresses)
  Entry,                  \* the logical entry points of a module
  RETURN                  \* the entry value 0xFFFF: resume where it yielded

ASSUME PoolAssumption == SCHED_MAX_NB_THREADS \in Nat \ {0}
ASSUME EntryAssumption == RETURN \notin Entry

VARIABLES
  tcb_pool,           \* the TCBs: [thr_id, pub_start, entry, state, next]
  free_tcb_list,      \* first free TCB
  ready_queue,        \* head of the ready queue
  ready_queue_tail,   \* last TCB of the ready queue
  done_queue,         \* first of the finished and killed TCBs
  cur_thr,            \* the TCB of the current thread
  thr_id_counter,     \* next thread id
  sched_running,      \* start_scheduling was entered and did not return
  init_done,          \* init_data_structures has run
  control             \* who has the CPU, see Control

vars == <<tcb_pool, free_tcb_list, ready_queue, ready_queue_tail, done_queue,
          cur_thr, thr_id_counter, sched_running, init_done, control>>

NULL == 0
Tcb == 1 .. SCHED_MAX_NB_THREADS
Pointer == Tcb \cup {NULL}
ThreadState == {"REGISTERED", "BUSY", "RUNNING", "READY", "FINISHED", "KILLED"}

(***************************************************************************)
(* "main": the main thread runs (unprotected code or a module it called);  *)
(* "thread": cur_thr runs; "final": the last thread is done and            *)
(* start_scheduling is about to continue; "exit": an EXIT loop was entered;*)
(* "undefined": a NULL cur_thr was dereferenced.                           *)
(***************************************************************************)
Control == {"main", "thread", "final", "exit", "undefined"}

TcbRecord == [thr_id : Nat, pub_start : SM \cup {NULL},
              entry : Entry \cup {RETURN, NULL}, state : ThreadState,
              next : Pointer]

TypeOK ==
  /\ tcb_pool \in [Tcb -> TcbRecord]
  /\ free_tcb_list \in Pointer
  /\ ready_queue \in Pointer
  /\ ready_queue_tail \in Pointer
  /\ done_queue \in Pointer
  /\ cur_thr \in Pointer
  /\ thr_id_counter \in Nat
  /\ sched_running \in BOOLEAN
  /\ init_done \in BOOLEAN
  /\ control \in Control

-----------------------------------------------------------------------------
(* The macros, as functions of the scheduler's data d.                      *)

Data == [pool |-> tcb_pool, free |-> free_tcb_list, head |-> ready_queue,
         tail |-> ready_queue_tail, done |-> done_queue, cur |-> cur_thr,
         counter |-> thr_id_counter]

\* ALLOC_TCB, for a non-empty free list: d.free is the TCB it takes.
ALLOC_TCB(d, sm, entry) ==
  [d EXCEPT !.free = d.pool[d.free].next,
            !.pool[d.free] = [thr_id |-> d.counter, pub_start |-> sm,
                              entry |-> entry, state |-> "REGISTERED",
                              next |-> NULL]]

\* Mutation: the appended TCB keeps its next pointer.
EnqueueKeepsNext(d, tcb) ==
  IF d.head = NULL
  THEN [d EXCEPT !.head = tcb, !.tail = tcb]
  ELSE [d EXCEPT !.pool[d.tail].next = tcb, !.tail = tcb]

\* Mutation: the TCB is put at the front of the queue.
EnqueueFront(d, tcb) ==
  [d EXCEPT !.pool[tcb].next = d.head, !.head = tcb,
            !.tail = IF d.head = NULL THEN tcb ELSE @]

READY_ENQUEUE(d, tcb) ==
  IF d.head = NULL
  THEN [d EXCEPT !.head = tcb, !.tail = tcb]
  ELSE [d EXCEPT !.pool = [@ EXCEPT ![d.tail].next = tcb, ![tcb].next = NULL],
                 !.tail = tcb]

\* Mutation: the tail is not reset when the last TCB is taken.
DequeueKeepsTail(d) ==
  IF d.head = NULL
  THEN [d EXCEPT !.cur = NULL]
  ELSE [d EXCEPT !.cur = d.head, !.head = d.pool[d.head].next]

\* READY_DEQUEUE(cur_thr): every use in the code dequeues into cur_thr.
READY_DEQUEUE(d) ==
  IF d.head = NULL
  THEN [d EXCEPT !.cur = NULL]
  ELSE LET next == d.pool[d.head].next
       IN  [d EXCEPT !.cur = d.head, !.head = next,
                     !.tail = IF next = NULL THEN NULL ELSE @]

\* Mutation: the loop over the pool runs one TCB too far.
InitialDataOverrun ==
  [pool |-> [t \in Tcb |-> [tcb_pool[t] EXCEPT !.next = t + 1]],
   free |-> 1, head |-> NULL, tail |-> NULL, done |-> NULL, cur |-> NULL,
   counter |-> 1]

InitialData ==
  [pool |-> [t \in Tcb |->
               [tcb_pool[t] EXCEPT
                  !.next = IF t = SCHED_MAX_NB_THREADS THEN NULL ELSE t + 1]],
   free |-> 1, head |-> NULL, tail |-> NULL, done |-> NULL, cur |-> NULL,
   counter |-> 1]

\* DO_INIT: the data an API function works on.
DO_INIT == IF init_done THEN Data ELSE InitialData

Become(d) ==
  /\ tcb_pool' = d.pool /\ free_tcb_list' = d.free
  /\ ready_queue' = d.head /\ ready_queue_tail' = d.tail
  /\ done_queue' = d.done /\ cur_thr' = d.cur /\ thr_id_counter' = d.counter

\* Mutation: the state of the dequeued thread is not set.
RunKeepsState(d) == Become(d) /\ control' = "thread"

\* Make the dequeued thread the running one and branch to it.
Run(d) ==
  /\ Become([d EXCEPT !.pool[d.cur].state = "RUNNING"])
  /\ control' = "thread"

-----------------------------------------------------------------------------
Init ==
  /\ tcb_pool = [t \in Tcb |-> [thr_id |-> 0, pub_start |-> NULL, entry |-> NULL,
                                state |-> "REGISTERED", next |-> NULL]]
  /\ free_tcb_list = NULL /\ ready_queue = NULL /\ ready_queue_tail = NULL
  /\ done_queue = NULL /\ cur_thr = NULL /\ thr_id_counter = 0
  /\ sched_running = FALSE /\ init_done = FALSE
  /\ control = "main"

\* Code that may call the scheduler is running.
Live == control \in {"main", "thread"}

\* initialize_scheduler and dump_scheduler
initialize_scheduler ==
  /\ Live
  /\ Become(DO_INIT)
  /\ init_done' = TRUE
  /\ sched_running' = (init_done /\ sched_running)
  /\ UNCHANGED control

\* Mutation: thr_id_counter is not incremented.
RegisterSameId(sm, entry) ==
  /\ Live
  /\ DO_INIT.free # NULL
  /\ Become(READY_ENQUEUE(ALLOC_TCB(DO_INIT, sm, entry), DO_INIT.free))
  /\ init_done' = TRUE
  /\ sched_running' = (init_done /\ sched_running)
  /\ UNCHANGED control

\* register_thread_portal: by the main thread, or by a running thread.
register_thread_portal(sm, entry) ==
  /\ Live
  /\ DO_INIT.free # NULL
  /\ LET d == ALLOC_TCB(DO_INIT, sm, entry)
     IN  Become(READY_ENQUEUE([d EXCEPT !.counter = @ + 1], DO_INIT.free))
  /\ init_done' = TRUE
  /\ sched_running' = (init_done /\ sched_running)
  /\ UNCHANGED control

\* ... ALLOC_TCB finds no free TCB: TCBs are never freed, so it exits.
register_exhausted ==
  /\ Live
  /\ DO_INIT.free = NULL
  /\ control' = "exit"
  /\ UNCHANGED <<tcb_pool, free_tcb_list, ready_queue, ready_queue_tail,
                 done_queue, cur_thr, thr_id_counter, sched_running, init_done>>

\* start_scheduling up to the call of the first thread.
start_scheduling ==
  /\ Live
  /\ ~ sched_running
  /\ DO_INIT.head # NULL
  /\ Run(READY_DEQUEUE(DO_INIT))
  /\ sched_running' = TRUE /\ init_done' = TRUE

\* ... no thread is registered: FAILURE, after sched_running was set.
start_nothing ==
  /\ Live
  /\ ~ sched_running
  /\ DO_INIT.head = NULL
  /\ Become(READY_DEQUEUE(DO_INIT))
  /\ sched_running' = TRUE /\ init_done' = TRUE
  /\ UNCHANGED control

\* ... the scheduler is already running: FAILURE.
start_again ==
  /\ Live
  /\ sched_running
  /\ UNCHANGED vars

\* start_scheduling after the first call has returned.
start_scheduling_return ==
  /\ control = "final"
  /\ sched_running' = FALSE
  /\ control' = "main"
  /\ UNCHANGED <<tcb_pool, free_tcb_list, ready_queue, ready_queue_tail,
                 done_queue, cur_thr, thr_id_counter, init_done>>

-----------------------------------------------------------------------------
(* The calls made by the current thread, from the assembly stubs.           *)

Scheduled == control = "thread" /\ sched_running

\* Mutation: the entry point is not replaced by 0xFFFF.
YieldKeepsEntry(sm) ==
  /\ Scheduled
  /\ LET d == [Data EXCEPT !.pool[cur_thr].pub_start = sm,
                           !.pool[cur_thr].state = "READY"]
     IN  Run(READY_DEQUEUE(READY_ENQUEUE(d, cur_thr)))
  /\ UNCHANGED <<sched_running, init_done>>

\* The current thread, suspended in module sm, goes to the back of the queue.
yield_get_next(sm) ==
  /\ Scheduled
  /\ LET d == [Data EXCEPT !.pool[cur_thr].pub_start = sm,
                           !.pool[cur_thr].entry = RETURN,
                           !.pool[cur_thr].state = "READY"]
     IN  Run(READY_DEQUEUE(READY_ENQUEUE(d, cur_thr)))
  /\ UNCHANGED <<sched_running, init_done>>

\* The portal was busy: the thread keeps its entry point and is tried later.
busy_get_next ==
  /\ Scheduled
  /\ LET d == [Data EXCEPT !.pool[cur_thr].state = "BUSY"]
     IN  Run(READY_DEQUEUE(READY_ENQUEUE(d, cur_thr)))
  /\ UNCHANGED <<sched_running, init_done>>

\* Mutation: the done thread is not linked to the ones before it.
DoneUnlinked(state) ==
  READY_DEQUEUE([Data EXCEPT !.pool[cur_thr].state = state, !.done = cur_thr])

\* DONE_GET_NEXT up to the dequeue
Done(state) ==
  READY_DEQUEUE([Data EXCEPT !.pool[cur_thr].state = state,
                             !.pool[cur_thr].next = done_queue,
                             !.done = cur_thr])

\* finish_get_next (FINISHED) and kill_get_next (KILLED)
done_get_next(state) ==
  /\ Scheduled
  /\ \/ ready_queue # NULL /\ Run(Done(state))
     \/ ready_queue = NULL /\ Become(Done(state)) /\ control' = "final"
  /\ UNCHANGED <<sched_running, init_done>>

\* yield when the scheduler does not run: back to the caller.
yield_not_running ==
  /\ control = "main" /\ ~ sched_running
  /\ UNCHANGED vars

\* A module returns (busy or not) to, or reports a violation to, a scheduler
\* that does not run: EXIT.
done_not_running ==
  /\ control = "main" /\ ~ sched_running
  /\ control' = "exit"
  /\ UNCHANGED <<tcb_pool, free_tcb_list, ready_queue, ready_queue_tail,
                 done_queue, cur_thr, thr_id_counter, sched_running, init_done>>

\* Any of the four when sched_running is set and there is no current thread:
\* the TCB at address NULL is written and read.  Nothing is known afterwards.
null_cur_thr ==
  /\ control = "main" /\ sched_running
  /\ control' = "undefined"
  /\ UNCHANGED <<tcb_pool, free_tcb_list, ready_queue, ready_queue_tail,
                 done_queue, cur_thr, thr_id_counter, sched_running, init_done>>

\* EXIT is an endless loop; an undefined execution is not followed further.
spin == control \in {"exit", "undefined"} /\ UNCHANGED vars

ThreadStep ==
  \/ \E sm \in SM : yield_get_next(sm)
  \/ busy_get_next
  \/ \E state \in {"FINISHED", "KILLED"} : done_get_next(state)

Next ==
  \/ initialize_scheduler
  \/ \E sm \in SM, entry \in Entry : register_thread_portal(sm, entry)
  \/ register_exhausted
  \/ start_scheduling \/ start_nothing \/ start_again
  \/ start_scheduling_return
  \/ ThreadStep
  \/ yield_not_running \/ done_not_running \/ null_cur_thr
  \/ spin

Spec == Init /\ [][Next]_vars

\* The CPU keeps executing: a thread cooperates (scheduler.h:13), that is, it
\* eventually yields, returns, or is stopped by a reported violation.
Fairness == WF_vars(ThreadStep) /\ WF_vars(start_scheduling_return)

FairSpec == Spec /\ Fairness

-----------------------------------------------------------------------------
(* The lists the pointers represent.                                        *)

\* The TCBs met on the way from first along the next pointers; NULL after the end.
Walk(first) ==
  LET w[n \in 0 .. SCHED_MAX_NB_THREADS] ==
        IF n = 0 THEN first
        ELSE IF w[n - 1] = NULL THEN NULL ELSE tcb_pool[w[n - 1]].next
  IN  w

\* The walk ends: a list that meets a TCB twice does not.
Ends(first) == Walk(first)[SCHED_MAX_NB_THREADS] = NULL

Elements(first) ==
  {Walk(first)[n] : n \in 0 .. SCHED_MAX_NB_THREADS} \ {NULL}

ListAt(first) ==
  LET w == Walk(first)
      length == Cardinality({n \in DOMAIN w : w[n] # NULL})
  IN  [i \in 1 .. length |-> w[i - 1]]

Ready == Elements(ready_queue)
Finished == Elements(done_queue)
Free == Elements(free_tcb_list)
Current == {cur_thr} \ {NULL}

-----------------------------------------------------------------------------
(* Safety properties.                                                       *)

\* No TCB is lost, shared or reached twice, although dequeued TCBs keep their
\* next pointer: after the initialisation the three lists end, and every TCB is
\* free, ready, done or current, and only one of these (scheduler.c:67, 76, 83).
PoolPartition ==
  init_done =>
    /\ Ends(ready_queue) /\ Ends(done_queue) /\ Ends(free_tcb_list)
    /\ Ready \cup Finished \cup Free \cup Current = Tcb
    /\ Ready \cap (Finished \cup Free \cup Current) = {}
    /\ Finished \cap (Free \cup Current) = {}
    /\ Free \cap Current = {}

\* The tail pointer READY_ENQUEUE appends to is the last TCB of the queue.
\* While the queue is empty the current TCB has no stale next pointer: the code
\* puts it back in an empty queue without clearing next (scheduler.c:134-138).
TailIsLast ==
  LET q == ListAt(ready_queue)
  IN  IF ready_queue # NULL
      THEN ready_queue_tail = q[Len(q)]
      ELSE /\ ready_queue_tail = NULL
           /\ cur_thr # NULL => tcb_pool[cur_thr].next = NULL

\* A TCB's state says where it is: only the current thread is RUNNING
\* (scheduler.c:34, 83), queued threads are REGISTERED, BUSY or READY, done ones
\* FINISHED or KILLED; and a queued thread is resumed at 0xFFFF if it has yielded
\* and started at its entry point if it never ran.  The comment on the queue
\* (scheduler.c:68) has REGISTERED and READY threads only, but busy_get_next
\* (335-336) queues BUSY ones, which "will be started later" (scheduler.c:28).
StatesMatchPlaces ==
  /\ control = "thread" => cur_thr # NULL
  /\ control \in {"main", "final"} => cur_thr = NULL
  /\ \A t \in Tcb : tcb_pool[t].state = "RUNNING" <=> t = cur_thr
  /\ \A t \in Ready :
       /\ tcb_pool[t].state \in {"REGISTERED", "BUSY", "READY"}
       /\ tcb_pool[t].state = "READY" => tcb_pool[t].entry = RETURN
       /\ tcb_pool[t].state = "REGISTERED" => tcb_pool[t].entry \in Entry
  /\ \A t \in Finished : tcb_pool[t].state \in {"FINISHED", "KILLED"}

\* Thread ids are never reused and never 0 (scheduler.h:101-104): modules compare
\* them to keep out other threads, even those of a killed one.
UniqueIds ==
  \A t \in Ready \cup Finished \cup Current :
    /\ tcb_pool[t].thr_id \in 1 .. thr_id_counter - 1
    /\ \A u \in Ready \cup Finished \cup Current :
         tcb_pool[t].thr_id = tcb_pool[u].thr_id => t = u

\* A done thread is done for good: no call makes it ready or current again, or
\* changes its id or its state.
DoneIsFinal ==
  [][\A t \in Finished :
       /\ t \in Finished' /\ cur_thr' # t
       /\ tcb_pool'[t].thr_id = tcb_pool[t].thr_id
       /\ tcb_pool'[t].state = tcb_pool[t].state]_vars

-----------------------------------------------------------------------------
(* Liveness.                                                                *)

\* Threads that cooperate do not starve each other: while the scheduler runs,
\* a queued thread gets the CPU (unless a registration exhausts the pool).
NoStarvation ==
  \A t \in Tcb :
    (control = "thread" /\ t \in Ready) ~> (cur_thr = t \/ control = "exit")

-----------------------------------------------------------------------------
(* The specification this module implements.                                *)

Thread(t) == [id |-> tcb_pool[t].thr_id, sm |-> tcb_pool[t].pub_start,
              entry |-> tcb_pool[t].entry]

ReadyThreads ==
  LET q == ListAt(ready_queue) IN [i \in DOMAIN q |-> Thread(q[i])]
RunningThread ==
  IF cur_thr = NULL THEN [id |-> 0, sm |-> NULL, entry |-> NULL] ELSE Thread(cur_thr)
EndedIds == {tcb_pool[t].thr_id : t \in Finished}
Registered == IF init_done THEN thr_id_counter - 1 ELSE 0
FifoMode == IF control = "main"
            THEN IF sched_running THEN "stuck" ELSE "idle"
            ELSE IF control = "thread" THEN "run" ELSE control

Fifo == INSTANCE FifoSched WITH
  MaxThreads <- SCHED_MAX_NB_THREADS, ready <- ReadyThreads,
  running <- RunningThread, ended <- EndedIds, count <- Registered,
  mode <- FifoMode

\* The scheduler implements the FIFO scheduler of FifoSched: thread ids, order,
\* where each thread is resumed, and what ends a thread.
ImplementsFifo == Fifo!Spec
=============================================================================
