------------------------------ MODULE FifoSched ------------------------------
(***************************************************************************)
(* What the scheduler promises to the modules (scheduler.h): threads are   *)
(* registered with fresh ids, run one at a time in FIFO order, go to the   *)
(* back of the queue when they yield or when their portal is busy, and     *)
(* leave for good when they are done.  Scheduler implements this module.   *)
(***************************************************************************)
EXTENDS Integers, Sequences

CONSTANTS
  MaxThreads,   \* threads that can be registered in a boot cycle
  SM, Entry, RETURN,
  NULL          \* no module, no entry

VARIABLES
  ready,    \* the threads that wait, as a sequence of [id, sm, entry]
  running,  \* the current thread, Nobody if there is none
  ended,    \* the ids of the threads that are done
  count,    \* threads registered so far
  mode      \* who has the CPU, see Mode

vars == <<ready, running, ended, count, mode>>

(***************************************************************************)
(* "idle": the main thread, and scheduling can be started; "stuck": the    *)
(* main thread, after it started a scheduler without threads; "run": the   *)
(* current thread; "final": back to start_scheduling; "exit": an endless   *)
(* loop; "undefined": the scheduler was called while stuck.                *)
(***************************************************************************)
Mode == {"idle", "stuck", "run", "final", "exit", "undefined"}

Nobody == [id |-> 0, sm |-> NULL, entry |-> NULL]

Init ==
  /\ ready = <<>> /\ running = Nobody /\ ended = {} /\ count = 0
  /\ mode = "idle"

CanCall == mode \in {"idle", "stuck", "run"}

Register(sm, entry) ==
  /\ CanCall
  /\ count < MaxThreads
  /\ count' = count + 1
  /\ ready' = Append(ready, [id |-> count', sm |-> sm, entry |-> entry])
  /\ UNCHANGED <<running, ended, mode>>

RegisterExhausted ==
  /\ CanCall
  /\ count = MaxThreads
  /\ mode' = "exit"
  /\ UNCHANGED <<ready, running, ended, count>>

Start ==
  /\ mode = "idle"
  /\ ready # <<>>
  /\ running' = Head(ready) /\ ready' = Tail(ready)
  /\ mode' = "run"
  /\ UNCHANGED <<ended, count>>

StartNothing ==
  /\ mode = "idle"
  /\ ready = <<>>
  /\ mode' = "stuck"
  /\ UNCHANGED <<ready, running, ended, count>>

\* The current thread goes to the back of the queue as thr.
Rotate(thr) ==
  /\ mode = "run"
  /\ running' = Head(Append(ready, thr))
  /\ ready' = Tail(Append(ready, thr))
  /\ UNCHANGED <<ended, count, mode>>

Yield(sm) == Rotate([running EXCEPT !.sm = sm, !.entry = RETURN])

Busy == Rotate(running)

\* The current thread has finished or is killed.
Done ==
  /\ mode = "run"
  /\ ended' = ended \cup {running.id}
  /\ \/ /\ ready # <<>>
        /\ running' = Head(ready) /\ ready' = Tail(ready)
        /\ UNCHANGED mode
     \/ /\ ready = <<>>
        /\ running' = Nobody /\ mode' = "final"
        /\ UNCHANGED ready
  /\ UNCHANGED count

Return ==
  /\ mode = "final"
  /\ mode' = "idle"
  /\ UNCHANGED <<ready, running, ended, count>>

Stop ==
  /\ \/ mode = "idle" /\ mode' = "exit"
     \/ mode = "stuck" /\ mode' = "undefined"
  /\ UNCHANGED <<ready, running, ended, count>>

ThreadStep == (\E sm \in SM : Yield(sm)) \/ Busy \/ Done

Next ==
  \/ \E sm \in SM, entry \in Entry : Register(sm, entry)
  \/ RegisterExhausted
  \/ Start \/ StartNothing \/ Return \/ Stop
  \/ ThreadStep

Spec == Init /\ [][Next]_vars
=============================================================================
