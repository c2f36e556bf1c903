------------------------- MODULE SchedulerRefinement -------------------------
(***************************************************************************)
(* The scheduler implements FifoSched, for every size of the pool: every   *)
(* call is the FIFO operation on the threads that the lists of TCBs stand  *)
(* for, or changes none of them.                                           *)
(***************************************************************************)
EXTENDS SchedulerProofs

-----------------------------------------------------------------------------
(* The threads a sequence of TCBs stands for.                               *)

ThreadIn(pool, t) ==
  [id |-> pool[t].thr_id, sm |-> pool[t].pub_start, entry |-> pool[t].entry]

View(pool, q) == [i \in 1 .. Len(q) |-> ThreadIn(pool, q[i])]

Ids(pool, dn) == {pool[t].thr_id : t \in Els(dn)}

\* A view depends on the threads of its TCBs only.
LEMMA ViewFrame ==
  ASSUME NEW p, NEW r, NEW q \in Seq(Tcb), SameThreads(p, r, Els(q))
  PROVE  View(p, q) = View(r, q) /\ Ids(p, q) = Ids(r, q)
<1>1. \A i \in 1 .. Len(q) : q[i] \in Els(q)
  BY DEF Els
<1>. QED BY <1>1 DEF View, Ids, ThreadIn, SameThreads

\* A TCB put behind the others is a thread put behind the others.
LEMMA ViewAppend ==
  ASSUME NEW p, NEW q \in Seq(Tcb), NEW t \in Tcb
  PROVE  View(p, Append(q, t)) = Append(View(p, q), ThreadIn(p, t))
<1>. DEFINE n == Len(q)
            r == Append(q, t)
<1>1. /\ n \in Nat /\ Len(r) = n + 1 /\ r[n + 1] = t
      /\ \A i \in 1 .. n : r[i] = q[i]
  OBVIOUS
<1>2. /\ View(p, q) = [i \in 1 .. n |-> ThreadIn(p, q[i])]
      /\ View(p, r) = [i \in 1 .. n + 1 |-> ThreadIn(p, r[i])]
  BY <1>1 DEF View
<1>. HIDE DEF n, r
<1>3. /\ Append(View(p, q), ThreadIn(p, t)) =
           [i \in 1 .. n + 1 |-> IF i = n + 1 THEN ThreadIn(p, t) ELSE View(p, q)[i]]
  BY <1>1, <1>2
<1>4. \A i \in 1 .. n + 1 :
        ThreadIn(p, r[i]) = IF i = n + 1 THEN ThreadIn(p, t) ELSE View(p, q)[i]
  BY <1>1, <1>2
<1>. QED BY <1>2, <1>3, <1>4 DEF r

\* The first TCB holds the first thread.
LEMMA ViewHead ==
  ASSUME NEW p, NEW q \in Seq(Tcb)
  PROVE  /\ View(p, q) = <<>> <=> q = <<>>
         /\ q # <<>> => /\ Head(View(p, q)) = ThreadIn(p, q[1])
                        /\ Tail(View(p, q)) = View(p, Tail(q))
<1>. DEFINE n == Len(q)
            v == View(p, q)
<1>1. n \in Nat /\ (q = <<>> <=> n = 0)
  OBVIOUS
<1>2. v = [i \in 1 .. n |-> ThreadIn(p, q[i])] /\ v \in Seq({ThreadIn(p, t) : t \in Tcb})
      /\ Len(v) = n
  BY <1>1 DEF View
<1>3. v = <<>> <=> q = <<>>
  BY <1>1, <1>2
<1>4. ASSUME q # <<>>
      PROVE  Head(v) = ThreadIn(p, q[1]) /\ Tail(v) = View(p, Tail(q))
  <2>1. n \in Nat \ {0}
    BY <1>1, <1>4
  <2>2. /\ Tail(q) \in Seq(Tcb) /\ Len(Tail(q)) = n - 1
        /\ \A i \in 1 .. n - 1 : Tail(q)[i] = q[i + 1]
    BY <1>4
  <2>. HIDE DEF n, v
  <2>3. Head(v) = ThreadIn(p, q[1])
    BY <1>2, <2>1
  <2>4. /\ Tail(v) = [i \in 1 .. n - 1 |-> v[i + 1]]
        /\ \A i \in 1 .. n - 1 : v[i + 1] = ThreadIn(p, q[i + 1])
    BY <1>2, <2>1
  <2>5. View(p, Tail(q)) = [i \in 1 .. n - 1 |-> ThreadIn(p, Tail(q)[i])]
    BY <2>2 DEF View
  <2>. QED BY <2>2, <2>3, <2>4, <2>5
<1>. QED BY <1>3, <1>4

-----------------------------------------------------------------------------
(* The state of the FIFO scheduler, from the lists.                         *)

\* The refinement mapping, in the data an API function works on.
Mapped ==
  \A q, f, dn :
    Lists(DO_INIT, q, f, dn, Current) =>
      /\ ReadyThreads = View(DO_INIT.pool, q)
      /\ EndedIds = Ids(DO_INIT.pool, dn)
      /\ Registered = DO_INIT.counter - 1

\* Before the initialisation there is nothing in the lists, and afterwards no
\* thread is lost.
LEMMA FifoView == TypeOK /\ ListInv /\ ThreadInv => Mapped
<1>1. SUFFICES ASSUME TypeOK, ListInv, ThreadInv, NEW q, NEW f, NEW dn,
                      Lists(DO_INIT, q, f, dn, Current)
               PROVE  /\ ReadyThreads = View(DO_INIT.pool, q)
                      /\ EndedIds = Ids(DO_INIT.pool, dn)
                      /\ Registered = DO_INIT.counter - 1
  BY DEF Mapped
<1>2. q \in Seq(Tcb)
  BY <1>1 DEF Lists, Chain
<1>3. CASE init_done
  <2>1. /\ DO_INIT = Data /\ Data.pool = tcb_pool /\ Data.counter = thr_id_counter
    BY <1>3 DEF DO_INIT, Data
  <2>2. ListAt(ready_queue) = q /\ Finished = Els(dn)
    BY <1>1, <2>1, ListViews
  <2>3. DOMAIN q = 1 .. Len(q)
    BY <1>2
  <2>. QED
    BY <1>3, <2>1, <2>2, <2>3
       DEF ReadyThreads, EndedIds, Registered, View, Ids, ThreadIn, Thread
<1>4. CASE ~ init_done
  <2>1. /\ ListAt(ready_queue) = <<>> /\ Finished = {}
    BY <1>1, <1>4, EmptyViews DEF ListInv, ThreadInv
  <2>2. /\ Chain(DO_INIT.pool, q, NULL) /\ Chain(DO_INIT.pool, dn, NULL)
        /\ DO_INIT.counter = 1
    BY <1>1, <1>4 DEF DO_INIT, InitialData, Lists
  <2>3. q = <<>> /\ Els(dn) = {}
    BY <2>2, ChainEls
  <2>4. View(DO_INIT.pool, q) = <<>>
    BY <1>2, <2>3, ViewHead
  <2>5. ReadyThreads = <<>>
    BY <2>1 DEF ReadyThreads
  <2>. QED BY <1>4, <2>1, <2>2, <2>3, <2>4, <2>5 DEF EndedIds, Ids, Registered
<1>. QED BY <1>3, <1>4

\* The mapping after a step that initialises.
LEMMA NextView ==
  ASSUME Mapped', init_done', NEW q, NEW f, NEW dn, Lists(Data', q, f, dn, Current')
  PROVE  /\ ReadyThreads' = View(tcb_pool', q)
         /\ EndedIds' = Ids(tcb_pool', dn)
         /\ Registered' = thr_id_counter' - 1
<1>1. DO_INIT' = Data' /\ Data'.pool = tcb_pool' /\ Data'.counter = thr_id_counter'
  BY DEF DO_INIT, Data
<1>. QED BY <1>1 DEF Mapped

\* The lists and the mapping before a step.
LEMMA NowView ==
  ASSUME TypeOK, ListInv, ThreadInv
  PROVE  \E q, f, dn :
           /\ Lists(DO_INIT, q, f, dn, Current)
           /\ Placed(DO_INIT.pool, DO_INIT.counter, cur_thr, q, f, dn)
           /\ q \in Seq(Tcb) /\ f \in Seq(Tcb) /\ dn \in Seq(Tcb)
           /\ Els(q) \subseteq Tcb \ Els(f) /\ Els(dn) \subseteq Tcb \ Els(f)
           /\ Els(f) \subseteq Tcb
           /\ ReadyThreads = View(DO_INIT.pool, q)
           /\ EndedIds = Ids(DO_INIT.pool, dn)
           /\ Registered = DO_INIT.counter - 1
<1>1. PICK q, f, dn : /\ Lists(DO_INIT, q, f, dn, Current)
                      /\ Placed(DO_INIT.pool, DO_INIT.counter, cur_thr, q, f, dn)
  BY DEF ThreadInv
<1>2. q \in Seq(Tcb) /\ f \in Seq(Tcb) /\ dn \in Seq(Tcb)
  BY <1>1 DEF Lists, Chain
<1>3. /\ Els(q) \subseteq Tcb \ Els(f) /\ Els(dn) \subseteq Tcb \ Els(f)
      /\ Els(f) \subseteq Tcb
  BY <1>1 DEF Lists, Disjoint
<1>4. /\ ReadyThreads = View(DO_INIT.pool, q)
      /\ EndedIds = Ids(DO_INIT.pool, dn)
      /\ Registered = DO_INIT.counter - 1
  BY <1>1, FifoView DEF Mapped
<1>. QED BY <1>1, <1>2, <1>3, <1>4

\* The current thread of the FIFO scheduler, by its TCB.
LEMMA RunningView ==
  RunningThread = IF cur_thr = NULL THEN [id |-> 0, sm |-> NULL, entry |-> NULL]
                                    ELSE ThreadIn(tcb_pool, cur_thr)
  BY DEF RunningThread, Thread, ThreadIn

\* The lists when a thread has been dispatched.
LEMMA RunLists ==
  ASSUME NEW pool, NEW counter, NEW q, NEW f, NEW dn, NEW cur,
         Runs(q, f, dn, cur, pool, counter)
  PROVE  Lists(Data', q, f, dn, Current')
<1>1. Lists(Data', q, f, dn, {cur}) /\ cur_thr' = cur /\ cur \in Tcb
  BY DEF Runs
<1>2. Current' = {cur}
  BY <1>1 DEF Current, NULL, Tcb
<1>. QED BY <1>1, <1>2

\* Dispatching the first of the threads in r.
LEMMA RunView ==
  ASSUME NEW pool, NEW counter, NEW r \in Seq(Tcb), r # <<>>, NEW f, NEW dn,
         Runs(Tail(r), f, dn, r[1], pool, counter), dn \in Seq(Tcb),
         ReadyThreads' = View(tcb_pool', Tail(r)),
         EndedIds' = Ids(tcb_pool', dn), Registered' = thr_id_counter' - 1
  PROVE  /\ ReadyThreads' = Tail(View(pool, r))
         /\ RunningThread' = Head(View(pool, r))
         /\ EndedIds' = Ids(pool, dn)
         /\ Registered' = counter - 1 /\ FifoMode' = "run"
<1>1. /\ cur_thr' = r[1] /\ r[1] \in Tcb /\ r[1] # NULL /\ control' = "thread"
      /\ SameThreads(tcb_pool', pool, Tcb) /\ thr_id_counter' = counter
      /\ Els(dn) \subseteq Tcb
  BY DEF Runs, NULL, Tcb, Lists
<1>2. Tail(r) \in Seq(Tcb) /\ Els(Tail(r)) \subseteq Tcb
  BY DEF Runs, Lists, Chain
<1>3. SameThreads(tcb_pool', pool, Els(Tail(r))) /\ SameThreads(tcb_pool', pool, Els(dn))
  BY <1>1, <1>2 DEF SameThreads
<1>4. /\ View(tcb_pool', Tail(r)) = View(pool, Tail(r))
      /\ Ids(tcb_pool', dn) = Ids(pool, dn)
  BY <1>2, <1>3, ViewFrame
<1>5. ThreadIn(tcb_pool', r[1]) = ThreadIn(pool, r[1])
  BY <1>1 DEF SameThreads, ThreadIn
<1>6. RunningThread' = ThreadIn(tcb_pool', r[1])
  BY <1>1 DEF RunningThread, Thread, ThreadIn
<1>7. FifoMode' = "run"
  BY <1>1 DEF FifoMode
<1>. QED BY <1>1, <1>4, <1>5, <1>6, <1>7, ViewHead

-----------------------------------------------------------------------------
(* The calls are the operations of FifoSched.                               *)

\* register_thread_portal is Register, in a queue of threads.
LEMMA RegisterRefines ==
  ASSUME TypeOK, ListInv, ThreadInv, Mapped', NEW sm \in SM, NEW entry \in Entry,
         register_thread_portal(sm, entry)
  PROVE  Fifo!Register(sm, entry)
<1>1. PICK q, f, dn :
        /\ Lists(DO_INIT, q, f, dn, Current)
        /\ Placed(DO_INIT.pool, DO_INIT.counter, cur_thr, q, f, dn)
        /\ q \in Seq(Tcb) /\ f \in Seq(Tcb) /\ dn \in Seq(Tcb)
        /\ Els(q) \subseteq Tcb \ Els(f) /\ Els(dn) \subseteq Tcb \ Els(f)
        /\ Els(f) \subseteq Tcb
        /\ ReadyThreads = View(DO_INIT.pool, q)
        /\ EndedIds = Ids(DO_INIT.pool, dn)
        /\ Registered = DO_INIT.counter - 1
  BY NowView
<1>2. PICK t \in Els(f) :
        /\ t \notin Current /\ f # <<>>
        /\ Lists(Data', Append(q, t), Tail(f), dn, Current) /\ Els(Tail(f)) = Els(f) \ {t}
        /\ cur_thr' = cur_thr /\ control' = control
        /\ thr_id_counter' = DO_INIT.counter + 1
        /\ tcb_pool'[t].thr_id = DO_INIT.counter
        /\ tcb_pool'[t].pub_start = sm /\ tcb_pool'[t].entry = entry
        /\ tcb_pool'[t].state = "REGISTERED"
        /\ SameThreads(tcb_pool', DO_INIT.pool, Tcb \ {t})
        /\ SameStates(tcb_pool', DO_INIT.pool, Tcb \ {t})
  BY <1>1, RegisterStep
<1>. DEFINE p == DO_INIT.pool
            counter == DO_INIT.counter
<1>3. /\ t \in Tcb /\ t \notin Els(q) /\ t \notin Els(dn) /\ t # cur_thr
      /\ counter \in Nat
  BY <1>1, <1>2 DEF Current, NULL, Tcb, Placed
<1>4. /\ init_done' /\ Live /\ sched_running' = (init_done /\ sched_running)
      /\ Current' = Current
  BY <1>2 DEF register_thread_portal, Current
<1>5. /\ ReadyThreads' = View(tcb_pool', Append(q, t))
      /\ EndedIds' = Ids(tcb_pool', dn)
      /\ Registered' = counter
  <2>1. Lists(Data', Append(q, t), Tail(f), dn, Current')
    BY <1>2, <1>4
  <2>2. /\ ReadyThreads' = View(tcb_pool', Append(q, t))
        /\ EndedIds' = Ids(tcb_pool', dn)
        /\ Registered' = thr_id_counter' - 1
    BY <1>4, <2>1, NextView
  <2>. QED BY <1>2, <1>3, <2>2
<1>. HIDE DEF p, counter
<1>6. /\ SameThreads(tcb_pool', p, Els(q)) /\ SameThreads(tcb_pool', p, Els(dn))
  BY <1>1, <1>2, <1>3 DEF SameThreads, p
<1>7. /\ View(tcb_pool', q) = ReadyThreads /\ Ids(tcb_pool', dn) = EndedIds
  BY <1>1, <1>6, ViewFrame DEF p
<1>8. ThreadIn(tcb_pool', t) = [id |-> counter, sm |-> sm, entry |-> entry]
  BY <1>2 DEF ThreadIn, counter
<1>9. ReadyThreads' = Append(ReadyThreads, [id |-> counter, sm |-> sm, entry |-> entry])
  BY <1>1, <1>3, <1>5, <1>7, <1>8, ViewAppend
<1>10. RunningThread' = RunningThread
  <2>1. cur_thr # NULL => cur_thr \in Tcb \ {t} /\ init_done
    BY <1>3 DEF TypeOK, Pointer, ListInv
  <2>2. cur_thr # NULL => ThreadIn(tcb_pool', cur_thr) = ThreadIn(tcb_pool, cur_thr)
    BY <1>2, <2>1 DEF ThreadIn, SameThreads, DO_INIT, Data
  <2>. QED BY <1>2, <2>2 DEF RunningThread, Thread, ThreadIn
<1>11. FifoMode' = FifoMode /\ FifoMode \in {"idle", "stuck", "run"}
  BY <1>2, <1>4 DEF FifoMode, Live, ThreadInv
<1>12. Registered < SCHED_MAX_NB_THREADS /\ Registered' = Registered + 1
  <2>1. Len(f) \in Nat \ {0}
    BY <1>1, <1>2
  <2>2. counter + Len(f) = SCHED_MAX_NB_THREADS + 1
    BY <1>1 DEF Placed, counter
  <2>3. SCHED_MAX_NB_THREADS \in Nat /\ Registered = counter - 1
    BY <1>1, PoolAssumption DEF counter
  <2>. QED BY <1>3, <1>5, <2>1, <2>2, <2>3
<1>. QED
  BY <1>5, <1>7, <1>9, <1>10, <1>11, <1>12 DEF Fifo!Register, Fifo!CanCall

\* No TCB is free when as many threads as TCBs have been registered.
LEMMA ExhaustedRefines ==
  ASSUME TypeOK, ListInv, ThreadInv, register_exhausted
  PROVE  Registered = SCHED_MAX_NB_THREADS
<1>1. PICK q, f, dn :
        /\ Lists(DO_INIT, q, f, dn, Current)
        /\ Placed(DO_INIT.pool, DO_INIT.counter, cur_thr, q, f, dn)
        /\ q \in Seq(Tcb) /\ f \in Seq(Tcb) /\ dn \in Seq(Tcb)
        /\ Els(q) \subseteq Tcb \ Els(f) /\ Els(dn) \subseteq Tcb \ Els(f)
        /\ Els(f) \subseteq Tcb
        /\ ReadyThreads = View(DO_INIT.pool, q)
        /\ EndedIds = Ids(DO_INIT.pool, dn)
        /\ Registered = DO_INIT.counter - 1
  BY NowView
<1>2. Chain(DO_INIT.pool, f, NULL)
  BY <1>1 DEF register_exhausted, Lists
<1>3. f = <<>>
  BY <1>2, ChainEls
<1>4. /\ DO_INIT.counter \in Nat /\ DO_INIT.counter + Len(f) = SCHED_MAX_NB_THREADS + 1
      /\ SCHED_MAX_NB_THREADS \in Nat
  BY <1>1, PoolAssumption DEF Placed
<1>. QED BY <1>1, <1>3, <1>4

\* start_scheduling is Start or StartNothing.
LEMMA StartRefines ==
  ASSUME TypeOK, ListInv, ThreadInv, Mapped'
  PROVE  /\ start_scheduling => Fifo!Start
         /\ start_nothing => Fifo!StartNothing
<1>. SUFFICES ASSUME start_scheduling \/ start_nothing
              PROVE  /\ start_scheduling => Fifo!Start
                     /\ start_nothing => Fifo!StartNothing
  OBVIOUS
<1>1. PICK q, f, dn :
        /\ Lists(DO_INIT, q, f, dn, Current)
        /\ Placed(DO_INIT.pool, DO_INIT.counter, cur_thr, q, f, dn)
        /\ q \in Seq(Tcb) /\ f \in Seq(Tcb) /\ dn \in Seq(Tcb)
        /\ Els(q) \subseteq Tcb \ Els(f) /\ Els(dn) \subseteq Tcb \ Els(f)
        /\ Els(f) \subseteq Tcb
        /\ ReadyThreads = View(DO_INIT.pool, q)
        /\ EndedIds = Ids(DO_INIT.pool, dn)
        /\ Registered = DO_INIT.counter - 1
  BY NowView
<1>2. /\ control = "main" /\ ~ sched_running /\ cur_thr = NULL /\ Current = {}
      /\ sched_running' /\ init_done'
  BY DEF start_scheduling, start_nothing, Live, ListInv, Current
<1>3. Lists(DO_INIT, q, f, dn, {})
  BY <1>1, <1>2
<1>4. FifoMode = "idle"
  BY <1>2 DEF FifoMode
<1>5. ASSUME start_scheduling PROVE Fifo!Start
  <2>1. q # <<>> /\ Runs(Tail(q), f, dn, q[1], DO_INIT.pool, DO_INIT.counter)
    BY <1>3, <1>5, StartStep
  <2>2. Lists(Data', Tail(q), f, dn, Current')
    BY <2>1, RunLists
  <2>3. /\ ReadyThreads' = View(tcb_pool', Tail(q))
        /\ EndedIds' = Ids(tcb_pool', dn)
        /\ Registered' = thr_id_counter' - 1
    BY <1>2, <2>2, NextView
  <2>4. /\ ReadyThreads' = Tail(ReadyThreads) /\ RunningThread' = Head(ReadyThreads)
        /\ EndedIds' = EndedIds /\ Registered' = Registered /\ FifoMode' = "run"
    BY <1>1, <2>1, <2>3, RunView
  <2>5. ReadyThreads # <<>>
    BY <1>1, <2>1, ViewHead
  <2>. QED BY <1>4, <2>4, <2>5 DEF Fifo!Start
<1>6. ASSUME start_nothing PROVE Fifo!StartNothing
  <2>1. /\ q = <<>> /\ cur_thr' = NULL /\ control' = control
        /\ Lists(Data', q, f, dn, {}) /\ tcb_pool' = DO_INIT.pool
        /\ thr_id_counter' = DO_INIT.counter
    BY <1>3, <1>6, StartStep
  <2>2. Lists(Data', q, f, dn, Current')
    BY <2>1 DEF Current
  <2>3. /\ ReadyThreads' = ReadyThreads /\ EndedIds' = EndedIds
        /\ Registered' = Registered
    BY <1>1, <1>2, <2>1, <2>2, NextView
  <2>4. ReadyThreads = <<>>
    BY <1>1, <2>1, ViewHead
  <2>5. RunningThread' = RunningThread /\ FifoMode' = "stuck"
    BY <1>2, <2>1 DEF RunningThread, FifoMode
  <2>. QED BY <1>4, <2>3, <2>4, <2>5 DEF Fifo!StartNothing
<1>. QED BY <1>5, <1>6

\* yield_get_next and busy_get_next put the current thread, as thr, behind the
\* others and dispatch the first: the operation Rotate.
LEMMA RotateRefines ==
  ASSUME TypeOK, ListInv, ThreadInv, Mapped', Scheduled, init_done',
         NEW q, NEW f, NEW dn, NEW pool, NEW thr,
         Lists(DO_INIT, q, f, dn, Current),
         q \in Seq(Tcb), dn \in Seq(Tcb),
         ReadyThreads = View(DO_INIT.pool, q), EndedIds = Ids(DO_INIT.pool, dn),
         Registered = DO_INIT.counter - 1,
         SameThreads(pool, tcb_pool, Tcb \ {cur_thr}), thr = ThreadIn(pool, cur_thr),
         LET r == Append(q, cur_thr)
         IN  Runs(Tail(r), f, dn, r[1], pool, thr_id_counter)
  PROVE  Fifo!Rotate(thr)
<1>. DEFINE r == Append(q, cur_thr)
<1>1. /\ cur_thr \in Tcb /\ DO_INIT.pool = tcb_pool /\ Current = {cur_thr}
      /\ DO_INIT.counter = thr_id_counter
  BY ScheduledData
<1>2. Els(q) \subseteq Tcb \ {cur_thr} /\ Els(dn) \subseteq Tcb \ {cur_thr}
  BY <1>1 DEF Lists, Disjoint
<1>3. r \in Seq(Tcb) /\ r # <<>>
  BY <1>1, ElsTailAppend
<1>4. Runs(Tail(r), f, dn, r[1], pool, thr_id_counter)
  OBVIOUS
<1>5. View(pool, q) = ReadyThreads /\ Ids(pool, dn) = EndedIds
  <2>1. SameThreads(pool, tcb_pool, Els(q)) /\ SameThreads(pool, tcb_pool, Els(dn))
    BY <1>2 DEF SameThreads
  <2>. QED BY <1>1, <2>1, ViewFrame
<1>6. View(pool, r) = Append(ReadyThreads, thr)
  BY <1>1, <1>5, ViewAppend
<1>. HIDE DEF r
<1>7. /\ ReadyThreads' = View(tcb_pool', Tail(r))
      /\ EndedIds' = Ids(tcb_pool', dn)
      /\ Registered' = thr_id_counter' - 1
  BY <1>4, RunLists, NextView
<1>8. /\ ReadyThreads' = Tail(View(pool, r)) /\ RunningThread' = Head(View(pool, r))
      /\ EndedIds' = EndedIds /\ Registered' = Registered /\ FifoMode' = "run"
  BY <1>1, <1>3, <1>4, <1>5, <1>7, RunView
<1>9. FifoMode = "run"
  BY DEF Scheduled, FifoMode
<1>. QED BY <1>6, <1>8, <1>9 DEF Fifo!Rotate

\* yield_get_next is Yield: the thread will be resumed in sm, where it yielded.
LEMMA YieldRefines ==
  ASSUME TypeOK, ListInv, ThreadInv, Mapped', NEW sm \in SM, yield_get_next(sm)
  PROVE  Fifo!Yield(sm)
<1>1. PICK q, f, dn :
        /\ Lists(DO_INIT, q, f, dn, Current)
        /\ Placed(DO_INIT.pool, DO_INIT.counter, cur_thr, q, f, dn)
        /\ q \in Seq(Tcb) /\ f \in Seq(Tcb) /\ dn \in Seq(Tcb)
        /\ Els(q) \subseteq Tcb \ Els(f) /\ Els(dn) \subseteq Tcb \ Els(f)
        /\ Els(f) \subseteq Tcb
        /\ ReadyThreads = View(DO_INIT.pool, q)
        /\ EndedIds = Ids(DO_INIT.pool, dn)
        /\ Registered = DO_INIT.counter - 1
  BY NowView
<1>2. Scheduled /\ init_done'
  BY ScheduledData DEF yield_get_next
<1>3. cur_thr # NULL /\ DO_INIT = Data /\ Current = {cur_thr}
  BY <1>2, ScheduledData
<1>4. PICK pool :
        /\ SameThreads(pool, tcb_pool, Tcb \ {cur_thr})
        /\ SameStates(pool, tcb_pool, Tcb \ {cur_thr})
        /\ pool[cur_thr].thr_id = tcb_pool[cur_thr].thr_id
        /\ pool[cur_thr].pub_start = sm /\ pool[cur_thr].entry = RETURN
        /\ pool[cur_thr].state = "READY"
        /\ LET r == Append(q, cur_thr)
           IN  Runs(Tail(r), f, dn, r[1], pool, thr_id_counter)
  BY <1>1, <1>3, YieldStep
<1>5. RunningThread = ThreadIn(tcb_pool, cur_thr)
  BY <1>3, RunningView
<1>. DEFINE thr == [RunningThread EXCEPT !.sm = sm, !.entry = RETURN]
<1>6. thr = ThreadIn(pool, cur_thr)
  <2>1. thr = [[RunningThread EXCEPT !.sm = sm] EXCEPT !.entry = RETURN]
    OBVIOUS
  <2>. HIDE DEF thr
  <2>2. [RunningThread EXCEPT !.sm = sm] =
          [id |-> tcb_pool[cur_thr].thr_id, sm |-> sm, entry |-> tcb_pool[cur_thr].entry]
    BY <1>5 DEF ThreadIn
  <2>3. thr = [id |-> tcb_pool[cur_thr].thr_id, sm |-> sm, entry |-> RETURN]
    BY <2>1, <2>2
  <2>. QED BY <1>4, <2>3 DEF ThreadIn
<1>. HIDE DEF thr
<1>7. Fifo!Rotate(thr)
  BY <1>1, <1>2, <1>4, <1>6, RotateRefines
<1>. QED BY <1>7 DEF thr, Fifo!Yield

\* busy_get_next is Busy: the thread keeps the call it wanted to make.
LEMMA BusyRefines ==
  ASSUME TypeOK, ListInv, ThreadInv, Mapped', busy_get_next
  PROVE  Fifo!Busy
<1>1. PICK q, f, dn :
        /\ Lists(DO_INIT, q, f, dn, Current)
        /\ Placed(DO_INIT.pool, DO_INIT.counter, cur_thr, q, f, dn)
        /\ q \in Seq(Tcb) /\ f \in Seq(Tcb) /\ dn \in Seq(Tcb)
        /\ Els(q) \subseteq Tcb \ Els(f) /\ Els(dn) \subseteq Tcb \ Els(f)
        /\ Els(f) \subseteq Tcb
        /\ ReadyThreads = View(DO_INIT.pool, q)
        /\ EndedIds = Ids(DO_INIT.pool, dn)
        /\ Registered = DO_INIT.counter - 1
  BY NowView
<1>2. Scheduled /\ init_done'
  BY ScheduledData DEF busy_get_next
<1>3. /\ cur_thr # NULL /\ cur_thr \in Tcb /\ DO_INIT = Data
      /\ Current = {cur_thr}
  BY <1>2, ScheduledData
<1>4. PICK pool :
        /\ SameThreads(pool, tcb_pool, Tcb)
        /\ SameStates(pool, tcb_pool, Tcb \ {cur_thr})
        /\ pool[cur_thr].state = "BUSY"
        /\ LET r == Append(q, cur_thr)
           IN  Runs(Tail(r), f, dn, r[1], pool, thr_id_counter)
  BY <1>1, <1>3, BusyStep
<1>5. RunningThread = ThreadIn(pool, cur_thr)
  BY <1>3, <1>4, RunningView DEF ThreadIn, SameThreads
<1>6. SameThreads(pool, tcb_pool, Tcb \ {cur_thr})
  BY <1>4 DEF SameThreads
<1>7. Fifo!Rotate(RunningThread)
  BY <1>1, <1>2, <1>4, <1>5, <1>6, RotateRefines
<1>. QED BY <1>7 DEF Fifo!Busy

\* done_get_next is Done: the id of the current thread is among the ended ones.
LEMMA DoneRefines ==
  ASSUME TypeOK, ListInv, ThreadInv, Mapped',
         NEW state \in {"FINISHED", "KILLED"}, done_get_next(state)
  PROVE  Fifo!Done
<1>1. PICK q, f, dn :
        /\ Lists(DO_INIT, q, f, dn, Current)
        /\ Placed(DO_INIT.pool, DO_INIT.counter, cur_thr, q, f, dn)
        /\ q \in Seq(Tcb) /\ f \in Seq(Tcb) /\ dn \in Seq(Tcb)
        /\ Els(q) \subseteq Tcb \ Els(f) /\ Els(dn) \subseteq Tcb \ Els(f)
        /\ Els(f) \subseteq Tcb
        /\ ReadyThreads = View(DO_INIT.pool, q)
        /\ EndedIds = Ids(DO_INIT.pool, dn)
        /\ Registered = DO_INIT.counter - 1
  BY NowView
<1>2. Scheduled /\ init_done'
  BY ScheduledData DEF done_get_next
<1>3. /\ cur_thr # NULL /\ cur_thr \in Tcb /\ DO_INIT = Data
      /\ Current = {cur_thr} /\ Data.pool = tcb_pool /\ Data.counter = thr_id_counter
  BY <1>2, ScheduledData
<1>. DEFINE top == <<cur_thr>> \o dn
<1>4. PICK pool :
        /\ SameThreads(pool, tcb_pool, Tcb)
        /\ SameStates(pool, tcb_pool, Tcb \ {cur_thr})
        /\ pool[cur_thr].state = state
        /\ \/ q # <<>> /\ Runs(Tail(q), f, top, q[1], pool, thr_id_counter)
           \/ /\ q = <<>> /\ cur_thr' = NULL /\ control' = "final"
              /\ Lists(Data', q, f, top, {}) /\ tcb_pool' = pool
              /\ thr_id_counter' = thr_id_counter
  BY <1>1, <1>3, DoneStep, ZenonT(60)
<1>5. top \in Seq(Tcb) /\ Els(top) = Els(dn) \cup {cur_thr} /\ Els(top) \subseteq Tcb
  <2>1. top \in Seq(Tcb)
    BY <1>1, <1>3
  <2>2. Els(top) = Els(dn) \cup {cur_thr}
    BY <1>1, <1>3, ElsPush
  <2>. QED BY <1>1, <1>3, <2>1, <2>2
<1>. HIDE DEF top
<1>6. RunningThread = ThreadIn(tcb_pool, cur_thr) /\ FifoMode = "run"
  BY <1>2, <1>3, RunningView DEF Scheduled, FifoMode
<1>7. Ids(pool, top) = EndedIds \cup {RunningThread.id} /\ View(pool, q) = ReadyThreads
  <2>1. \A t \in Els(top) : pool[t].thr_id = tcb_pool[t].thr_id
    BY <1>4, <1>5 DEF SameThreads
  <2>2. RunningThread.id = tcb_pool[cur_thr].thr_id
    BY <1>6 DEF ThreadIn
  <2>3. Ids(pool, top) = EndedIds \cup {RunningThread.id}
    BY <1>1, <1>3, <1>5, <2>1, <2>2 DEF Ids
  <2>4. SameThreads(pool, tcb_pool, Els(q))
    BY <1>1, <1>4 DEF SameThreads
  <2>. QED BY <1>1, <1>3, <2>3, <2>4, ViewFrame
<1>8. CASE q # <<>> /\ Runs(Tail(q), f, top, q[1], pool, thr_id_counter)
  <2>1. /\ ReadyThreads' = View(tcb_pool', Tail(q))
        /\ EndedIds' = Ids(tcb_pool', top)
        /\ Registered' = thr_id_counter' - 1
    BY <1>2, <1>8, RunLists, NextView
  <2>2. /\ ReadyThreads' = Tail(View(pool, q)) /\ RunningThread' = Head(View(pool, q))
        /\ EndedIds' = Ids(pool, top) /\ Registered' = thr_id_counter - 1
        /\ FifoMode' = "run"
    BY <1>1, <1>5, <1>8, <2>1, RunView
  <2>3. ReadyThreads # <<>>
    BY <1>1, <1>8, ViewHead
  <2>. QED BY <1>1, <1>3, <1>6, <1>7, <2>2, <2>3 DEF Fifo!Done
<1>9. CASE q = <<>> /\ cur_thr' = NULL /\ control' = "final"
           /\ Lists(Data', q, f, top, {}) /\ tcb_pool' = pool
           /\ thr_id_counter' = thr_id_counter
  <2>1. Lists(Data', q, f, top, Current')
    BY <1>9 DEF Current
  <2>2. /\ ReadyThreads' = View(pool, q) /\ EndedIds' = Ids(pool, top)
        /\ Registered' = thr_id_counter - 1
    BY <1>2, <1>9, <2>1, NextView
  <2>3. ReadyThreads = <<>>
    BY <1>1, <1>9, ViewHead
  <2>4. RunningThread' = [id |-> 0, sm |-> NULL, entry |-> NULL] /\ FifoMode' = "final"
    BY <1>9 DEF RunningThread, FifoMode
  <2>. QED BY <1>1, <1>3, <1>6, <1>7, <2>2, <2>3, <2>4 DEF Fifo!Done, Fifo!Nobody
<1>. QED BY <1>4, <1>8, <1>9

\* The calls that move no thread.
LEMMA StutterRefines ==
  ASSUME TypeOK, ListInv, ThreadInv, Mapped', initialize_scheduler
  PROVE  UNCHANGED Fifo!vars
<1>1. PICK q, f, dn :
        /\ Lists(DO_INIT, q, f, dn, Current)
        /\ Placed(DO_INIT.pool, DO_INIT.counter, cur_thr, q, f, dn)
        /\ q \in Seq(Tcb) /\ f \in Seq(Tcb) /\ dn \in Seq(Tcb)
        /\ Els(q) \subseteq Tcb \ Els(f) /\ Els(dn) \subseteq Tcb \ Els(f)
        /\ Els(f) \subseteq Tcb
        /\ ReadyThreads = View(DO_INIT.pool, q)
        /\ EndedIds = Ids(DO_INIT.pool, dn)
        /\ Registered = DO_INIT.counter - 1
  BY NowView
<1>2. /\ Become(DO_INIT) /\ init_done' /\ control' = control
      /\ sched_running' = (init_done /\ sched_running)
      /\ DO_INIT \in DataRecord /\ DO_INIT.cur = cur_thr
  BY InitInv DEF initialize_scheduler
<1>3. /\ Data' = DO_INIT /\ cur_thr' = cur_thr /\ tcb_pool' = DO_INIT.pool
      /\ thr_id_counter' = DO_INIT.counter
  BY <1>2, BecomeData DEF Become
<1>4. Current' = Current
  BY <1>3 DEF Current
<1>5. /\ ReadyThreads' = ReadyThreads /\ EndedIds' = EndedIds
      /\ Registered' = Registered
  BY <1>1, <1>2, <1>3, <1>4, NextView
<1>6. RunningThread' = RunningThread
  <2>1. cur_thr # NULL => DO_INIT.pool = tcb_pool
    BY DEF ListInv, DO_INIT, Data
  <2>. QED BY <1>3, <2>1 DEF RunningThread, Thread
<1>7. FifoMode' = FifoMode
  BY <1>2 DEF FifoMode, ThreadInv
<1>. QED BY <1>5, <1>6, <1>7 DEF Fifo!vars

\* The initial states and the steps of Scheduler are those of FifoSched: a call
\* that finds the scheduler running, or not running, changes nothing for a thread.
THEOREM SchedulerRefinesFifo == Spec => ImplementsFifo
<1>1. Init => Fifo!Init
  <2>. SUFFICES ASSUME Init
                PROVE  Fifo!Init
    OBVIOUS
  <2>1. /\ ListAt(ready_queue) = <<>> /\ Finished = {}
    BY EmptyViews DEF Init
  <2>2. ReadyThreads = <<>> /\ EndedIds = {}
    BY <2>1 DEF ReadyThreads, EndedIds
  <2>3. /\ RunningThread = [id |-> 0, sm |-> NULL, entry |-> NULL]
        /\ Registered = 0 /\ FifoMode = "idle"
    BY DEF Init, RunningThread, Registered, FifoMode
  <2>. QED BY <2>2, <2>3 DEF Fifo!Init, Fifo!Nobody
<1>2. TypeOK /\ ListInv /\ ThreadInv => Mapped
  BY FifoView
<1>3. ASSUME TypeOK, ListInv, ThreadInv, Mapped', [Next]_vars
      PROVE  [Fifo!Next]_(Fifo!vars)
  <2>. USE <1>3
  <2>1. CASE initialize_scheduler
    BY <2>1, StutterRefines
  <2>2. ASSUME NEW sm \in SM, NEW entry \in Entry, register_thread_portal(sm, entry)
        PROVE  [Fifo!Next]_(Fifo!vars)
    BY <2>2, RegisterRefines DEF Fifo!Next
  <2>3. CASE start_scheduling \/ start_nothing
    BY <2>3, StartRefines DEF Fifo!Next
  <2>4. ASSUME NEW sm \in SM, yield_get_next(sm)
        PROVE  [Fifo!Next]_(Fifo!vars)
    BY <2>4, YieldRefines DEF Fifo!Next, Fifo!ThreadStep
  <2>5. CASE busy_get_next
    BY <2>5, BusyRefines DEF Fifo!Next, Fifo!ThreadStep
  <2>6. ASSUME NEW state \in {"FINISHED", "KILLED"}, done_get_next(state)
        PROVE  [Fifo!Next]_(Fifo!vars)
    BY <2>6, DoneRefines DEF Fifo!Next, Fifo!ThreadStep
  <2>7. ASSUME UNCHANGED <<tcb_pool, ready_queue, done_queue, cur_thr,
                           thr_id_counter, init_done>>
        PROVE  UNCHANGED <<ReadyThreads, RunningThread, EndedIds, Registered>>
    BY <2>7
       DEF ReadyThreads, RunningThread, EndedIds, Registered, Thread, ListAt,
           Finished, Elements, Walk
  <2>8. CASE start_scheduling_return
    <3>1. UNCHANGED <<ReadyThreads, RunningThread, EndedIds, Registered>>
      BY <2>7, <2>8 DEF start_scheduling_return
    <3>2. FifoMode = "final" /\ FifoMode' = "idle"
      BY <2>8 DEF start_scheduling_return, FifoMode
    <3>. QED BY <3>1, <3>2 DEF Fifo!Next, Fifo!Return
  <2>9. CASE register_exhausted
    <3>1. UNCHANGED <<ReadyThreads, RunningThread, EndedIds, Registered>>
      BY <2>7, <2>9 DEF register_exhausted
    <3>2. FifoMode \in {"idle", "stuck", "run"} /\ FifoMode' = "exit"
      BY <2>9 DEF register_exhausted, Live, FifoMode
    <3>3. Registered = SCHED_MAX_NB_THREADS
      BY <2>9, ExhaustedRefines
    <3>. QED BY <3>1, <3>2, <3>3 DEF Fifo!Next, Fifo!RegisterExhausted, Fifo!CanCall
  <2>10. CASE done_not_running \/ null_cur_thr
    <3>1. UNCHANGED <<ReadyThreads, RunningThread, EndedIds, Registered>>
      BY <2>7, <2>10 DEF done_not_running, null_cur_thr
    <3>2. \/ FifoMode = "idle" /\ FifoMode' = "exit"
          \/ FifoMode = "stuck" /\ FifoMode' = "undefined"
      BY <2>10 DEF done_not_running, null_cur_thr, FifoMode
    <3>. QED BY <3>1, <3>2 DEF Fifo!Next, Fifo!Stop
  <2>11. CASE start_again \/ yield_not_running \/ spin \/ UNCHANGED vars
    <3>1. UNCHANGED vars
      BY <2>11 DEF start_again, yield_not_running, spin
    <3>2. UNCHANGED <<ReadyThreads, RunningThread, EndedIds, Registered>>
      BY <2>7, <3>1 DEF vars
    <3>3. FifoMode' = FifoMode
      BY <3>1 DEF vars, FifoMode
    <3>. QED BY <3>2, <3>3 DEF Fifo!vars
  <2>. QED
    BY <2>1, <2>2, <2>3, <2>4, <2>5, <2>6, <2>8, <2>9, <2>10, <2>11
       DEF Next, ThreadStep
<1>. QED
  BY <1>1, <1>2, <1>3, TypeCorrect, ListsCorrect, ThreadsPlaced, PTL
     DEF Spec, ImplementsFifo, Fifo!Spec
=============================================================================
