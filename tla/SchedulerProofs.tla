--------------------------- MODULE SchedulerProofs ---------------------------
(***************************************************************************)
(* Theorems about Scheduler, for every size of the pool and every set of   *)
(* modules and entry points: the types, the lists, and the states and ids  *)
(* of threads.  The invariant of the lists names the sequences that they   *)
(* represent; the macros are shown to map sequences to sequences, from     *)
(* which what the properties say with bounded walks follows.               *)
(***************************************************************************)
EXTENDS Scheduler, TLAPS, FiniteSetTheorems, LeastElements

-----------------------------------------------------------------------------
(* Type correctness: the macros take data to data.                          *)

DataRecord == [pool : [Tcb -> TcbRecord], free : Pointer, head : Pointer,
               tail : Pointer, done : Pointer, cur : Pointer, counter : Nat]

\* DO_INIT, whether or not it initialises, gives data.
LEMMA InitialDataType ==
  ASSUME TypeOK
  PROVE  Data \in DataRecord /\ DO_INIT \in DataRecord
<1>1. SCHED_MAX_NB_THREADS \in Nat /\ 1 \in Tcb
  BY PoolAssumption DEF Tcb
<1>2. \A t \in Tcb : t # SCHED_MAX_NB_THREADS => t + 1 \in Tcb
  BY <1>1 DEF Tcb
<1>3. Data \in DataRecord
  BY DEF Data, DataRecord, TypeOK
<1>4. InitialData.pool \in [Tcb -> TcbRecord]
  BY <1>1, <1>2 DEF InitialData, TypeOK, TcbRecord, Pointer
<1>5. InitialData \in DataRecord
  BY <1>1, <1>4 DEF InitialData, DataRecord, Pointer
<1>. QED
  BY <1>3, <1>5 DEF DO_INIT

\* Writing the state, the module, the entry point or the link of a TCB keeps the
\* type of the pool.
LEMMA SetFieldsType ==
  ASSUME NEW pool \in [Tcb -> TcbRecord], NEW t
  PROVE  /\ \A state \in ThreadState :
              [pool EXCEPT ![t].state = state] \in [Tcb -> TcbRecord]
         /\ \A sm \in SM :
              [pool EXCEPT ![t].pub_start = sm] \in [Tcb -> TcbRecord]
         /\ [pool EXCEPT ![t].entry = RETURN] \in [Tcb -> TcbRecord]
         /\ \A n \in Pointer :
              [pool EXCEPT ![t].next = n] \in [Tcb -> TcbRecord]
  BY DEF TcbRecord

\* READY_ENQUEUE gives data.
LEMMA EnqueueType ==
  ASSUME NEW d \in DataRecord, NEW tcb \in Pointer
  PROVE  READY_ENQUEUE(d, tcb) \in DataRecord
<1>1. NULL \in Pointer /\ d.pool \in [Tcb -> TcbRecord]
  BY DEF Pointer, DataRecord
<1>2. [d.pool EXCEPT ![d.tail].next = tcb, ![tcb].next = NULL] \in [Tcb -> TcbRecord]
  BY <1>1, SetFieldsType
<1>. QED
  BY <1>2 DEF READY_ENQUEUE, DataRecord

\* READY_DEQUEUE gives data.
LEMMA DequeueType ==
  ASSUME NEW d \in DataRecord
  PROVE  READY_DEQUEUE(d) \in DataRecord
<1>1. d.head # NULL => d.pool[d.head].next \in Pointer
  BY DEF DataRecord, Pointer, TcbRecord
<1>. QED
  BY <1>1 DEF READY_DEQUEUE, DataRecord, Pointer

\* ALLOC_TCB, on a non-empty free list, gives data.
LEMMA AllocType ==
  ASSUME NEW d \in DataRecord, d.free # NULL, NEW sm \in SM, NEW entry \in Entry
  PROVE  ALLOC_TCB(d, sm, entry) \in DataRecord
<1>1. d.free \in Tcb /\ d.pool[d.free].next \in Pointer
  BY DEF DataRecord, Pointer, TcbRecord
<1>2. [thr_id |-> d.counter, pub_start |-> sm, entry |-> entry,
       state |-> "REGISTERED", next |-> NULL] \in TcbRecord
  BY DEF DataRecord, TcbRecord, ThreadState, Pointer
<1>. QED
  BY <1>1, <1>2 DEF ALLOC_TCB, DataRecord

\* Become keeps the types of the variables it sets.
LEMMA BecomeType ==
  ASSUME NEW d \in DataRecord, Become(d)
  PROVE  /\ tcb_pool' \in [Tcb -> TcbRecord]
         /\ free_tcb_list' \in Pointer /\ ready_queue' \in Pointer
         /\ ready_queue_tail' \in Pointer /\ done_queue' \in Pointer
         /\ cur_thr' \in Pointer /\ thr_id_counter' \in Nat
  BY DEF Become, DataRecord

\* Running the dequeued thread.
LEMMA RunType ==
  ASSUME NEW d \in DataRecord, Run(d)
  PROVE  /\ tcb_pool' \in [Tcb -> TcbRecord]
         /\ free_tcb_list' \in Pointer /\ ready_queue' \in Pointer
         /\ ready_queue_tail' \in Pointer /\ done_queue' \in Pointer
         /\ cur_thr' \in Pointer /\ thr_id_counter' \in Nat
         /\ control' \in Control
<1>1. d.pool \in [Tcb -> TcbRecord] /\ "RUNNING" \in ThreadState
  BY DEF DataRecord, ThreadState
<1>2. [d EXCEPT !.pool[d.cur].state = "RUNNING"] \in DataRecord
  BY <1>1, SetFieldsType DEF DataRecord
<1>. QED
  BY <1>2, BecomeType DEF Run, Control

\* The data of yield_get_next, busy_get_next and done_get_next.
LEMMA GetNextType ==
  ASSUME TypeOK
  PROVE  /\ \A sm \in SM :
              READY_DEQUEUE(READY_ENQUEUE(
                [Data EXCEPT !.pool[cur_thr].pub_start = sm,
                             !.pool[cur_thr].entry = RETURN,
                             !.pool[cur_thr].state = "READY"], cur_thr)) \in DataRecord
         /\ READY_DEQUEUE(READY_ENQUEUE(
              [Data EXCEPT !.pool[cur_thr].state = "BUSY"], cur_thr)) \in DataRecord
         /\ \A state \in {"FINISHED", "KILLED"} : Done(state) \in DataRecord
<1>1. /\ Data \in DataRecord /\ Data.pool \in [Tcb -> TcbRecord]
      /\ cur_thr \in Pointer /\ done_queue \in Pointer
  BY InitialDataType DEF Data, TypeOK
<1>2. {"READY", "BUSY", "FINISHED", "KILLED"} \subseteq ThreadState
  BY DEF ThreadState
<1>3. ASSUME NEW sm \in SM
      PROVE  [Data EXCEPT !.pool[cur_thr].pub_start = sm,
                          !.pool[cur_thr].entry = RETURN,
                          !.pool[cur_thr].state = "READY"] \in DataRecord
  <2>1. [Data.pool EXCEPT ![cur_thr].pub_start = sm, ![cur_thr].entry = RETURN,
                          ![cur_thr].state = "READY"] \in [Tcb -> TcbRecord]
    BY <1>1, <1>2, SetFieldsType
  <2>. QED BY <1>1, <2>1 DEF DataRecord
<1>4. [Data EXCEPT !.pool[cur_thr].state = "BUSY"] \in DataRecord
  BY <1>1, <1>2, SetFieldsType DEF DataRecord
<1>5. ASSUME NEW state \in {"FINISHED", "KILLED"}
      PROVE  [Data EXCEPT !.pool[cur_thr].state = state,
                          !.pool[cur_thr].next = done_queue,
                          !.done = cur_thr] \in DataRecord
  <2>1. [Data.pool EXCEPT ![cur_thr].state = state,
                          ![cur_thr].next = done_queue] \in [Tcb -> TcbRecord]
    BY <1>1, <1>2, SetFieldsType
  <2>. QED BY <1>1, <2>1 DEF DataRecord
<1>. QED
  BY <1>1, <1>3, <1>4, <1>5, EnqueueType, DequeueType DEF Done

\* The initial state, before any DO_INIT, is type-correct.
LEMMA TypeInit ==
  Init => TypeOK
<1>1. [thr_id |-> 0, pub_start |-> NULL, entry |-> NULL,
       state |-> "REGISTERED", next |-> NULL] \in TcbRecord
  BY DEF TcbRecord, ThreadState, Pointer
<1>2. NULL \in Pointer /\ "main" \in Control
  BY DEF Pointer, Control
<1>3. Init => tcb_pool \in [Tcb -> TcbRecord]
  BY <1>1 DEF Init
<1>4. Init => thr_id_counter \in Nat
  BY DEF Init
<1>. QED
  BY <1>2, <1>3, <1>4 DEF Init, TypeOK

\* TypeOK of Scheduler holds in every reachable state: the macros of scheduler.c
\* never write a value outside its type, whatever the size of the pool.
THEOREM TypeCorrect == Spec => []TypeOK
<1>1. Init => TypeOK
  BY TypeInit
<1>2. ASSUME TypeOK, [Next]_vars
      PROVE  TypeOK'
  <2>. USE <1>2
  <2>1. DO_INIT \in DataRecord
    BY InitialDataType
  <2>2. CASE initialize_scheduler
    BY <2>1, <2>2, BecomeType DEF initialize_scheduler, TypeOK
  <2>3. ASSUME NEW sm \in SM, NEW entry \in Entry, register_thread_portal(sm, entry)
        PROVE  TypeOK'
    <3>. DEFINE d == ALLOC_TCB(DO_INIT, sm, entry)
    <3>1. d \in DataRecord /\ DO_INIT.free \in Pointer
      BY <2>1, <2>3, AllocType DEF register_thread_portal, DataRecord
    <3>2. [d EXCEPT !.counter = @ + 1] \in DataRecord
      BY <3>1 DEF DataRecord
    <3>3. READY_ENQUEUE([d EXCEPT !.counter = @ + 1], DO_INIT.free) \in DataRecord
      BY <3>1, <3>2, EnqueueType
    <3>. QED
      BY <2>3, <3>3, BecomeType DEF register_thread_portal, TypeOK
  <2>4. CASE start_scheduling
    BY <2>1, <2>4, DequeueType, RunType DEF start_scheduling, TypeOK
  <2>5. CASE start_nothing
    BY <2>1, <2>5, DequeueType, BecomeType DEF start_nothing, TypeOK
  <2>6. ASSUME NEW sm \in SM, yield_get_next(sm)
        PROVE  TypeOK'
    BY <2>6, GetNextType, RunType DEF yield_get_next, TypeOK
  <2>7. CASE busy_get_next
    BY <2>7, GetNextType, RunType DEF busy_get_next, TypeOK
  <2>8. ASSUME NEW state \in {"FINISHED", "KILLED"}, done_get_next(state)
        PROVE  TypeOK'
    BY <2>8, GetNextType, RunType, BecomeType DEF done_get_next, TypeOK, Control
  <2>9. CASE register_exhausted \/ start_again \/ start_scheduling_return
               \/ yield_not_running \/ done_not_running \/ null_cur_thr \/ spin
    BY <2>9 DEF register_exhausted, start_again, start_scheduling_return,
                yield_not_running, done_not_running, null_cur_thr, spin,
                vars, TypeOK, Control
  <2>10. CASE UNCHANGED vars
    BY <2>10 DEF vars, TypeOK
  <2>. QED
    BY <2>2, <2>3, <2>4, <2>5, <2>6, <2>7, <2>8, <2>9, <2>10 DEF Next, ThreadStep
<1>. QED
  BY <1>1, <1>2, PTL DEF Spec

-----------------------------------------------------------------------------
(* A list in the pool.                                                      *)

Els(s) == {s[i] : i \in 1 .. Len(s)}

\* From first, the next pointers visit the TCBs of s, once each, and end.
Chain(pool, s, first) ==
  /\ s \in Seq(Tcb)
  /\ \A i, j \in 1 .. Len(s) : s[i] = s[j] => i = j
  /\ first = IF Len(s) = 0 THEN NULL ELSE s[1]
  /\ \A i \in 1 .. Len(s) :
       pool[s[i]].next = IF i = Len(s) THEN NULL ELSE s[i + 1]

\* A list depends only on the next pointers of its TCBs.
LEMMA ChainFrame ==
  ASSUME NEW pool, NEW pool2, NEW s, NEW first, Chain(pool, s, first),
         \A t \in Els(s) : pool2[t].next = pool[t].next
  PROVE  Chain(pool2, s, first)
  BY DEF Chain, Els

\* A chain holds TCBs only: it is empty exactly when its first pointer is NULL,
\* and its last TCB points nowhere.
LEMMA ChainEls ==
  ASSUME NEW pool, NEW s, NEW first, Chain(pool, s, first)
  PROVE  /\ Els(s) \subseteq Tcb /\ NULL \notin Tcb
         /\ first = NULL <=> s = <<>>
         /\ s = <<>> <=> Els(s) = {}
         /\ s # <<>> => first \in Els(s) /\ s[Len(s)] \in Els(s)
                        /\ pool[s[Len(s)]].next = NULL
<1>1. s \in Seq(Tcb) /\ Len(s) \in Nat /\ \A i \in 1 .. Len(s) : s[i] \in Tcb
  BY DEF Chain
<1>2. NULL \notin Tcb
  BY DEF NULL, Tcb
<1>3. s = <<>> <=> Len(s) = 0
  BY <1>1
<1>4. first = NULL <=> s = <<>>
  BY <1>1, <1>2, <1>3 DEF Chain
<1>5. Els(s) \subseteq Tcb
  BY <1>1 DEF Els
<1>6. ASSUME s # <<>>
      PROVE  first \in Els(s) /\ s[Len(s)] \in Els(s) /\ pool[s[Len(s)]].next = NULL
  <2>1. 1 \in 1 .. Len(s) /\ Len(s) \in 1 .. Len(s)
    BY <1>1, <1>3, <1>6
  <2>. QED BY <1>3, <1>6, <2>1 DEF Chain, Els
<1>7. s = <<>> => Els(s) = {}
  BY <1>3 DEF Els
<1>. QED
  BY <1>2, <1>4, <1>5, <1>6, <1>7

\* Taking the first TCB.
LEMMA ChainTail ==
  ASSUME NEW pool, NEW s, NEW first, Chain(pool, s, first), first # NULL
  PROVE  /\ Chain(pool, Tail(s), pool[first].next)
         /\ Els(Tail(s)) = Els(s) \ {first}
         /\ Tail(s) # <<>> => Tail(s)[Len(Tail(s))] = s[Len(s)]
<1>1. s \in Seq(Tcb) /\ Len(s) \in Nat \ {0} /\ first = s[1]
  BY DEF Chain
<1>. DEFINE u == Tail(s)
            n == Len(s)
<1>2. /\ u \in Seq(Tcb) /\ Len(u) = n - 1
      /\ \A i \in 1 .. n - 1 : u[i] = s[i + 1]
  BY <1>1
<1>3. u # <<>> => n # 1 /\ u[Len(u)] = s[n]
  BY <1>1, <1>2
<1>4. /\ \A i, j \in 1 .. n : s[i] = s[j] => i = j
      /\ \A i \in 1 .. n : pool[s[i]].next = IF i = n THEN NULL ELSE s[i + 1]
  BY DEF Chain
<1>5. n \in Nat \ {0}
  BY <1>1
<1>. HIDE DEF u, n
<1>6. \A i \in 1 .. n - 1 : i \in 1 .. n /\ i + 1 \in 1 .. n
  BY <1>5
<1>7. ASSUME NEW i \in 1 .. n - 1, NEW j \in 1 .. n - 1, u[i] = u[j]
      PROVE  i = j
  <2>1. s[i + 1] = s[j + 1]
    BY <1>2, <1>7
  <2>2. i + 1 = j + 1
    BY <1>4, <1>6, <2>1
  <2>. QED BY <2>2
<1>8. pool[first].next = IF Len(u) = 0 THEN NULL ELSE u[1]
  <2>1. pool[first].next = IF 1 = n THEN NULL ELSE s[2]
    BY <1>1, <1>4, <1>5
  <2>2. n # 1 => u[1] = s[2]
    BY <1>2, <1>5
  <2>. QED BY <1>2, <1>5, <2>1, <2>2
<1>9. ASSUME NEW i \in 1 .. n - 1
      PROVE  pool[u[i]].next = IF i = n - 1 THEN NULL ELSE u[i + 1]
  <2>1. pool[u[i]].next = IF i + 1 = n THEN NULL ELSE s[(i + 1) + 1]
    BY <1>2, <1>4, <1>6
  <2>2. i # n - 1 => u[i + 1] = s[(i + 1) + 1]
    BY <1>2, <1>5
  <2>. QED BY <1>5, <2>1, <2>2
<1>10. Chain(pool, u, pool[first].next)
  BY <1>2, <1>7, <1>8, <1>9 DEF Chain
<1>11. Els(u) = Els(s) \ {first}
  <2>1. ASSUME NEW t \in Els(u) PROVE t \in Els(s) \ {first}
    <3>1. PICK i \in 1 .. n - 1 : t = s[i + 1]
      BY <1>2 DEF Els
    <3>2. i + 1 \in 1 .. n /\ i + 1 # 1 /\ 1 \in 1 .. n
      BY <1>5
    <3>. QED BY <1>1, <1>4, <3>1, <3>2 DEF Els, n
  <2>2. ASSUME NEW t \in Els(s) \ {first} PROVE t \in Els(u)
    <3>1. PICK i \in 1 .. n : t = s[i]
      BY DEF Els, n
    <3>2. i # 1 /\ i - 1 \in 1 .. n - 1 /\ s[(i - 1) + 1] = t
      BY <1>1, <1>5, <3>1
    <3>3. u[i - 1] = t
      BY <1>2, <3>2
    <3>. QED BY <1>2, <3>2, <3>3 DEF Els
  <2>. QED BY <2>1, <2>2
<1>. QED BY <1>3, <1>10, <1>11 DEF u, n

\* Putting a TCB that points to the first one in front.
LEMMA ChainPush ==
  ASSUME NEW pool, NEW s, NEW first, Chain(pool, s, first),
         NEW t \in Tcb, t \notin Els(s), pool[t].next = first
  PROVE  Chain(pool, <<t>> \o s, t) /\ Els(<<t>> \o s) = Els(s) \cup {t}
<1>1. s \in Seq(Tcb) /\ Len(s) \in Nat
  BY DEF Chain
<1>. DEFINE u == <<t>> \o s
<1>2. /\ u \in Seq(Tcb) /\ Len(u) = Len(s) + 1 /\ u[1] = t
      /\ \A i \in 1 .. Len(s) : u[i + 1] = s[i]
  BY <1>1
<1>. HIDE DEF u
<1>3. \A i \in 1 .. Len(u) : i = 1 \/ (i - 1 \in 1 .. Len(s) /\ u[i] = s[i - 1])
  BY <1>1, <1>2
<1>4. Chain(pool, u, t)
  <2>1. ASSUME NEW i \in 1 .. Len(u), NEW j \in 1 .. Len(u), u[i] = u[j]
        PROVE  i = j
    <3>1. \A k \in 1 .. Len(u) : u[k] = t => k = 1
      BY <1>3 DEF Els
    <3>2. i = 1 <=> j = 1
      BY <1>2, <2>1, <3>1
    <3>3. i # 1 => i - 1 = j - 1
      BY <1>3, <2>1, <3>2 DEF Chain
    <3>. QED BY <3>2, <3>3
  <2>2. ASSUME NEW i \in 1 .. Len(u)
        PROVE  pool[u[i]].next = IF i = Len(u) THEN NULL ELSE u[i + 1]
    <3>1. CASE i = 1
      BY <1>1, <1>2, <3>1 DEF Chain
    <3>2. CASE i # 1
      <4>1. i - 1 \in 1 .. Len(s) /\ u[i] = s[i - 1]
        BY <1>3, <3>2
      <4>2. i # Len(u) => i \in 1 .. Len(s) /\ u[i + 1] = s[i] /\ (i - 1) + 1 = i
        BY <1>1, <1>2, <4>1
      <4>. QED BY <1>1, <1>2, <4>1, <4>2 DEF Chain
    <3>. QED BY <3>1, <3>2
  <2>. QED BY <1>2, <2>1, <2>2 DEF Chain
<1>5. Els(u) = Els(s) \cup {t}
  <2>1. ASSUME NEW x \in Els(u) PROVE x \in Els(s) \cup {t}
    BY <1>2, <1>3 DEF Els
  <2>2. ASSUME NEW x \in Els(s) PROVE x \in Els(u)
    <3>1. PICK i \in 1 .. Len(s) : x = s[i]
      BY DEF Els
    <3>2. i + 1 \in 1 .. Len(u) /\ u[i + 1] = x
      BY <1>1, <1>2, <3>1
    <3>. QED BY <3>2 DEF Els
  <2>3. t \in Els(u)
    BY <1>1, <1>2 DEF Els
  <2>. QED BY <2>1, <2>2, <2>3
<1>. QED BY <1>4, <1>5 DEF u

\* Linking a TCB after the last one.
LEMMA ChainAppend ==
  ASSUME NEW pool, NEW pool2, NEW s, NEW first, Chain(pool, s, first),
         s # <<>>, NEW t \in Tcb, t \notin Els(s), NEW last, last = s[Len(s)],
         pool2[t].next = NULL, pool2[last].next = t,
         \A x \in Els(s) \ {last} : pool2[x].next = pool[x].next
  PROVE  Chain(pool2, Append(s, t), first) /\ Els(Append(s, t)) = Els(s) \cup {t}
<1>1. s \in Seq(Tcb) /\ Len(s) \in Nat \ {0}
  BY DEF Chain
<1>. DEFINE u == Append(s, t)
<1>2. /\ u \in Seq(Tcb) /\ Len(u) = Len(s) + 1 /\ u[Len(s) + 1] = t
      /\ \A i \in 1 .. Len(s) : u[i] = s[i]
  BY <1>1
<1>. HIDE DEF u
<1>3. \A i \in 1 .. Len(u) : i \in 1 .. Len(s) \/ i = Len(s) + 1
  BY <1>1, <1>2
<1>4. Chain(pool2, u, first)
  <2>1. ASSUME NEW i \in 1 .. Len(u), NEW j \in 1 .. Len(u), u[i] = u[j]
        PROVE  i = j
    BY <1>1, <1>2, <1>3, <2>1, SMTT(30) DEF Chain, Els
  <2>2. ASSUME NEW i \in 1 .. Len(u)
        PROVE  pool2[u[i]].next = IF i = Len(u) THEN NULL ELSE u[i + 1]
    <3>1. CASE i = Len(s) + 1
      BY <1>2, <3>1
    <3>2. CASE i = Len(s)
      BY <1>1, <1>2, <3>2
    <3>3. CASE i \in 1 .. Len(s) - 1
      <4>1. i \in 1 .. Len(s) /\ i + 1 \in 1 .. Len(s) /\ i # Len(s) /\ Len(s) \in 1 .. Len(s)
        BY <1>1, <3>3
      <4>2. s[i] \in Els(s) \ {s[Len(s)]}
        BY <4>1 DEF Chain, Els
      <4>. QED BY <1>1, <1>2, <4>1, <4>2 DEF Chain
    <3>. QED BY <1>1, <1>3, <3>1, <3>2, <3>3
  <2>3. first = u[1] /\ Len(u) # 0
    BY <1>1, <1>2 DEF Chain
  <2>. QED BY <1>2, <2>1, <2>2, <2>3 DEF Chain
<1>5. Els(u) = Els(s) \cup {t}
  <2>1. ASSUME NEW x \in Els(u) PROVE x \in Els(s) \cup {t}
    BY <1>2, <1>3 DEF Els
  <2>2. ASSUME NEW x \in Els(s) PROVE x \in Els(u)
    BY <1>1, <1>2 DEF Els
  <2>3. t \in Els(u)
    BY <1>1, <1>2 DEF Els
  <2>. QED BY <2>1, <2>2, <2>3
<1>. QED BY <1>4, <1>5 DEF u

-----------------------------------------------------------------------------
(* The three lists of the scheduler's data.                                 *)

Disjoint(A, B) == A \cap B = {}

\* The data d represents the ready queue q, the free list f and the done stack
\* dn; the TCBs in loose are in none of them, and there are no others.
Lists(d, q, f, dn, loose) ==
  /\ Chain(d.pool, q, d.head) /\ Chain(d.pool, f, d.free)
  /\ Chain(d.pool, dn, d.done)
  /\ d.tail = IF q = <<>> THEN NULL ELSE q[Len(q)]
  /\ Els(q) \cup Els(f) \cup Els(dn) \cup loose = Tcb
  /\ Disjoint(Els(q), Els(f)) /\ Disjoint(Els(q), Els(dn))
  /\ Disjoint(Els(f), Els(dn))
  /\ Disjoint(loose, Els(q)) /\ Disjoint(loose, Els(f))
  /\ Disjoint(loose, Els(dn))

WellFormed(d, loose) == \E q, f, dn : Lists(d, q, f, dn, loose)

\* Only the heads, the tail and the next pointers of listed TCBs matter: a
\* dequeued TCB may keep any stale pointer.
LEMMA ListsFrame ==
  ASSUME NEW d, NEW e, NEW q, NEW f, NEW dn, NEW loose,
         Lists(d, q, f, dn, loose),
         e.head = d.head, e.tail = d.tail, e.free = d.free, e.done = d.done,
         \A t \in Tcb \ loose : e.pool[t].next = d.pool[t].next
  PROVE  Lists(e, q, f, dn, loose)
<1>1. Els(q) \cup Els(f) \cup Els(dn) \subseteq Tcb \ loose
  BY DEF Lists, Disjoint
<1>2. /\ Chain(e.pool, q, e.head) /\ Chain(e.pool, f, e.free)
      /\ Chain(e.pool, dn, e.done)
  BY <1>1, ChainFrame DEF Lists
<1>. QED
  BY <1>2 DEF Lists

\* The same, whatever the lists are.
LEMMA WellFormedFrame ==
  ASSUME NEW d, NEW e, NEW loose, WellFormed(d, loose),
         e.head = d.head, e.tail = d.tail, e.free = d.free, e.done = d.done,
         \A t \in Tcb \ loose : e.pool[t].next = d.pool[t].next
  PROVE  WellFormed(e, loose)
<1>1. PICK q, f, dn : Lists(d, q, f, dn, loose)
  BY DEF WellFormed
<1>. QED
  BY <1>1, ListsFrame DEF WellFormed

\* READY_ENQUEUE of a loose TCB; in an empty queue its link must be clear.
LEMMA EnqueueLists ==
  ASSUME NEW d \in DataRecord, NEW q, NEW f, NEW dn, NEW loose,
         Lists(d, q, f, dn, loose),
         NEW t \in loose, d.head = NULL => d.pool[t].next = NULL
  PROVE  /\ Lists(READY_ENQUEUE(d, t), Append(q, t), f, dn, loose \ {t})
         /\ READY_ENQUEUE(d, t).head # NULL
<1>1. Lists(d, q, f, dn, loose)
  OBVIOUS
<1>2. /\ t \in Tcb /\ NULL \notin Tcb
      /\ t \notin Els(q) /\ t \notin Els(f) /\ t \notin Els(dn)
      /\ d.pool \in [Tcb -> TcbRecord]
  BY <1>1, ChainEls DEF Lists, Disjoint, DataRecord
<1>. DEFINE e == READY_ENQUEUE(d, t)
<1>3. CASE d.head = NULL
  <2>1. q = <<>> /\ Els(q) = {}
    BY <1>1, <1>3, ChainEls DEF Lists
  <2>2. /\ e.pool = d.pool /\ e.head = t /\ e.tail = t
        /\ e.free = d.free /\ e.done = d.done
    BY <1>3 DEF READY_ENQUEUE, DataRecord
  <2>3. /\ Chain(d.pool, <<t>> \o q, t)
        /\ Els(<<t>> \o q) = {t}
    <3>1. Chain(d.pool, q, d.head) /\ d.pool[t].next = d.head
      BY <1>1, <1>3 DEF Lists
    <3>2. /\ Chain(d.pool, <<t>> \o q, t)
          /\ Els(<<t>> \o q) = Els(q) \cup {t}
      BY <1>2, <3>1, ChainPush
    <3>. QED BY <2>1, <3>2
  <2>4. <<t>> \o q # <<>> /\ (<<t>> \o q)[Len(<<t>> \o q)] = t
    BY <2>1
  <2>5. Lists(e, <<t>> \o q, f, dn, loose \ {t})
    BY <1>1, <1>2, <2>1, <2>2, <2>3, <2>4 DEF Lists, Disjoint
  <2>6. Append(q, t) = <<t>> \o q
    BY <2>1
  <2>. QED BY <1>2, <2>2, <2>5, <2>6
<1>4. CASE d.head # NULL
  <2>1. /\ q # <<>> /\ q[Len(q)] \in Els(q) /\ d.tail = q[Len(q)]
        /\ d.tail \in Tcb /\ d.tail # t
    BY <1>1, <1>2, <1>4, ChainEls DEF Lists
  <2>2. /\ e.pool = [d.pool EXCEPT ![d.tail].next = t, ![t].next = NULL]
        /\ e.head = d.head /\ e.tail = t
        /\ e.free = d.free /\ e.done = d.done
    BY <1>4 DEF READY_ENQUEUE, DataRecord
  <2>3. /\ e.pool[t].next = NULL /\ e.pool[d.tail].next = t
        /\ \A u \in Tcb \ {t, d.tail} : e.pool[u].next = d.pool[u].next
    BY <1>2, <2>1, <2>2 DEF TcbRecord
  <2>4. /\ Els(q) \subseteq Tcb /\ Els(f) \subseteq Tcb /\ Els(dn) \subseteq Tcb
        /\ d.tail \notin Els(f) /\ d.tail \notin Els(dn)
    BY <1>1, <2>1 DEF Lists, Disjoint
  <2>5. Chain(e.pool, f, e.free) /\ Chain(e.pool, dn, e.done)
    BY <1>1, <1>2, <2>2, <2>3, <2>4, ChainFrame DEF Lists
  <2>6. \A x \in Els(q) \ {d.tail} : e.pool[x].next = d.pool[x].next
    BY <1>2, <2>1, <2>3, <2>4
  <2>7. Chain(e.pool, Append(q, t), d.head) /\ Els(Append(q, t)) = Els(q) \cup {t}
    <3>1. /\ Chain(d.pool, q, d.head) /\ q # <<>> /\ d.tail = q[Len(q)]
          /\ e.pool[t].next = NULL /\ e.pool[d.tail].next = t
      BY <1>1, <2>1, <2>3 DEF Lists
    <3>2. t \in Tcb /\ t \notin Els(q)
      BY <1>2
    <3>. HIDE DEF e
    <3>. QED BY <2>6, <3>1, <3>2, ChainAppend
  <2>8. Append(q, t) # <<>> /\ Append(q, t)[Len(Append(q, t))] = t
    <3>1. q \in Seq(Tcb)
      BY <1>1 DEF Lists, Chain
    <3>. QED BY <1>2, <3>1
  <2>9. Lists(e, Append(q, t), f, dn, loose \ {t})
    BY <1>1, <1>2, <2>2, <2>5, <2>7, <2>8 DEF Lists, Disjoint
  <2>. QED BY <1>4, <2>2, <2>9
<1>. QED BY <1>3, <1>4

\* The same, whatever the lists are.
LEMMA EnqueueWellFormed ==
  ASSUME NEW d \in DataRecord, NEW loose, WellFormed(d, loose),
         NEW t \in loose, d.head = NULL => d.pool[t].next = NULL
  PROVE  /\ WellFormed(READY_ENQUEUE(d, t), loose \ {t})
         /\ READY_ENQUEUE(d, t).head # NULL
<1>1. PICK q, f, dn : Lists(d, q, f, dn, loose)
  BY DEF WellFormed
<1>. QED
  BY <1>1, EnqueueLists DEF WellFormed

\* READY_DEQUEUE when no TCB is loose: the dequeued one, if any, becomes so.
LEMMA DequeueLists ==
  ASSUME NEW d \in DataRecord, NEW q, NEW f, NEW dn, Lists(d, q, f, dn, {})
  PROVE  LET e == READY_DEQUEUE(d)
         IN  /\ q = <<>> => e.cur = NULL /\ Lists(e, q, f, dn, {})
             /\ q # <<>> => e.cur = q[1] /\ Lists(e, Tail(q), f, dn, {e.cur})
             /\ e.cur = d.head /\ e.pool = d.pool
             /\ e.head = NULL /\ e.cur # NULL => e.pool[e.cur].next = NULL
<1>1. Lists(d, q, f, dn, {})
  OBVIOUS
<1>. DEFINE e == READY_DEQUEUE(d)
<1>2. NULL \notin Tcb
  BY <1>1, ChainEls DEF Lists
<1>3. CASE d.head = NULL
  <2>1. /\ e.pool = d.pool /\ e.head = d.head /\ e.tail = d.tail
        /\ e.free = d.free /\ e.done = d.done /\ e.cur = NULL
    BY <1>3 DEF READY_DEQUEUE, DataRecord
  <2>2. Lists(e, q, f, dn, {})
    BY <1>1, <2>1 DEF Lists
  <2>3. q = <<>>
    BY <1>1, <1>3, ChainEls DEF Lists
  <2>. QED BY <1>3, <2>1, <2>2, <2>3
<1>4. CASE d.head # NULL
  <2>1. /\ e.pool = d.pool /\ e.cur = d.head
        /\ e.head = d.pool[d.head].next
        /\ e.tail = IF e.head = NULL THEN NULL ELSE d.tail
        /\ e.free = d.free /\ e.done = d.done
    BY <1>4 DEF READY_DEQUEUE, DataRecord
  <2>2. /\ Chain(d.pool, Tail(q), e.head)
        /\ Els(Tail(q)) = Els(q) \ {d.head}
        /\ Tail(q) # <<>> => Tail(q)[Len(Tail(q))] = q[Len(q)]
    BY <1>1, <1>4, <2>1, ChainTail DEF Lists
  <2>3. /\ e.head = NULL <=> Tail(q) = <<>>
        /\ q # <<>> /\ d.head \in Els(q)
    BY <1>1, <1>4, <2>2, ChainEls DEF Lists
  <2>4. e.tail = IF Tail(q) = <<>> THEN NULL ELSE Tail(q)[Len(Tail(q))]
    BY <1>1, <2>1, <2>2, <2>3 DEF Lists
  <2>5. Lists(e, Tail(q), f, dn, {d.head})
    BY <1>1, <2>1, <2>2, <2>3, <2>4 DEF Lists, Disjoint
  <2>6. d.head = q[1]
    BY <1>1, <1>4 DEF Lists, Chain
  <2>7. d.pool[d.head].next = NULL <=> e.head = NULL
    BY <2>1
  <2>. QED BY <1>4, <2>1, <2>3, <2>5, <2>6, <2>7
<1>. QED BY <1>3, <1>4

\* The same, whatever the lists are.
LEMMA DequeueWellFormed ==
  ASSUME NEW d \in DataRecord, WellFormed(d, {})
  PROVE  LET e == READY_DEQUEUE(d)
         IN  /\ WellFormed(e, {e.cur} \ {NULL})
             /\ e.cur = d.head /\ e.pool = d.pool
             /\ e.head = NULL /\ e.cur # NULL => e.pool[e.cur].next = NULL
<1>1. PICK q, f, dn : Lists(d, q, f, dn, {})
  BY DEF WellFormed
<1>. DEFINE e == READY_DEQUEUE(d)
<1>2. /\ q = <<>> => e.cur = NULL /\ Lists(e, q, f, dn, {})
      /\ q # <<>> => e.cur = q[1] /\ Lists(e, Tail(q), f, dn, {e.cur})
      /\ e.cur = d.head /\ e.pool = d.pool
      /\ e.head = NULL /\ e.cur # NULL => e.pool[e.cur].next = NULL
  BY <1>1, DequeueLists
<1>3. q # <<>> => e.cur # NULL
  BY <1>1, <1>2, ChainEls DEF Lists
<1>. HIDE DEF e
<1>4. q = <<>> => {e.cur} \ {NULL} = {}
  BY <1>2
<1>5. q # <<>> => {e.cur} \ {NULL} = {e.cur}
  BY <1>3
<1>. QED BY <1>2, <1>4, <1>5 DEF WellFormed, e

\* ALLOC_TCB: a free TCB becomes loose, with a clear link.
LEMMA AllocLists ==
  ASSUME NEW d \in DataRecord, NEW q, NEW f, NEW dn, NEW loose,
         Lists(d, q, f, dn, loose), d.free # NULL, NEW sm, NEW entry
  PROVE  LET e == ALLOC_TCB(d, sm, entry)
         IN  /\ Lists(e, q, Tail(f), dn, loose \cup {d.free})
             /\ d.free \in Tcb \ loose /\ e.pool[d.free].next = NULL
             /\ e.cur = d.cur
<1>1. Lists(d, q, f, dn, loose)
  OBVIOUS
<1>. DEFINE e == ALLOC_TCB(d, sm, entry)
<1>2. /\ d.free \in Els(f) /\ d.free \in Tcb \ loose
      /\ d.pool \in [Tcb -> TcbRecord]
  BY <1>1, ChainEls DEF Lists, Disjoint, DataRecord
<1>3. /\ e.head = d.head /\ e.tail = d.tail /\ e.done = d.done /\ e.cur = d.cur
      /\ e.free = d.pool[d.free].next /\ e.pool[d.free].next = NULL
      /\ \A t \in Tcb \ {d.free} : e.pool[t] = d.pool[t]
  BY <1>2 DEF ALLOC_TCB, DataRecord
<1>4. Chain(d.pool, Tail(f), e.free) /\ Els(Tail(f)) = Els(f) \ {d.free}
  BY <1>1, <1>3, ChainTail DEF Lists
<1>5. Els(q) \cup Els(Tail(f)) \cup Els(dn) \subseteq Tcb \ {d.free}
  BY <1>1, <1>2, <1>4 DEF Lists, Disjoint
<1>6. /\ Chain(e.pool, q, e.head) /\ Chain(e.pool, Tail(f), e.free)
      /\ Chain(e.pool, dn, e.done)
  BY <1>1, <1>3, <1>4, <1>5, ChainFrame DEF Lists
<1>7. Lists(e, q, Tail(f), dn, loose \cup {d.free})
  BY <1>1, <1>2, <1>3, <1>4, <1>6 DEF Lists, Disjoint
<1>. QED BY <1>2, <1>3, <1>7

\* The same, whatever the lists are.
LEMMA AllocWellFormed ==
  ASSUME NEW d \in DataRecord, NEW loose, WellFormed(d, loose), d.free # NULL,
         NEW sm, NEW entry
  PROVE  LET e == ALLOC_TCB(d, sm, entry)
         IN  /\ WellFormed(e, loose \cup {d.free})
             /\ d.free \in Tcb \ loose /\ e.pool[d.free].next = NULL
             /\ e.cur = d.cur
<1>1. PICK q, f, dn : Lists(d, q, f, dn, loose)
  BY DEF WellFormed
<1>. QED
  BY <1>1, AllocLists DEF WellFormed

\* DONE_GET_NEXT: a loose TCB is put on the stack of done threads.
LEMMA DoneLists ==
  ASSUME NEW d \in DataRecord, NEW q, NEW f, NEW dn, NEW loose,
         Lists(d, q, f, dn, loose), NEW t \in loose,
         NEW state, NEW e,
         e = [d EXCEPT !.pool[t].state = state, !.pool[t].next = d.done, !.done = t]
  PROVE  Lists(e, q, f, <<t>> \o dn, loose \ {t})
<1>1. Lists(d, q, f, dn, loose)
  OBVIOUS
<1>2. /\ t \in Tcb /\ t \notin Els(q) /\ t \notin Els(f) /\ t \notin Els(dn)
      /\ d.pool \in [Tcb -> TcbRecord]
  BY <1>1 DEF Lists, Disjoint, DataRecord
<1>3. /\ e.head = d.head /\ e.tail = d.tail /\ e.free = d.free /\ e.done = t
      /\ e.pool[t].next = d.done
      /\ \A u \in Tcb \ {t} : e.pool[u] = d.pool[u]
  BY <1>2 DEF DataRecord, TcbRecord
<1>4. Els(q) \cup Els(f) \cup Els(dn) \subseteq Tcb \ {t}
  BY <1>1, <1>2 DEF Lists
<1>5. /\ Chain(e.pool, q, d.head) /\ Chain(e.pool, f, d.free)
      /\ Chain(e.pool, dn, d.done)
  BY <1>1, <1>3, <1>4, ChainFrame DEF Lists
<1>6. /\ Chain(e.pool, <<t>> \o dn, t)
      /\ Els(<<t>> \o dn) = Els(dn) \cup {t}
  <2>. DEFINE pool == e.pool
  <2>1. Chain(pool, dn, d.done) /\ pool[t].next = d.done
    BY <1>3, <1>5
  <2>. HIDE DEF pool
  <2>2. Chain(pool, <<t>> \o dn, t) /\ Els(<<t>> \o dn) = Els(dn) \cup {t}
    BY <1>2, <2>1, ChainPush
  <2>. QED BY <2>2 DEF pool
<1>. QED
  BY <1>1, <1>2, <1>3, <1>5, <1>6 DEF Lists, Disjoint

\* The same, whatever the lists are.
LEMMA DoneWellFormed ==
  ASSUME NEW d \in DataRecord, NEW loose, WellFormed(d, loose), NEW t \in loose,
         NEW state, NEW e,
         e = [d EXCEPT !.pool[t].state = state, !.pool[t].next = d.done, !.done = t]
  PROVE  WellFormed(e, loose \ {t})
<1>1. PICK q, f, dn : Lists(d, q, f, dn, loose)
  BY DEF WellFormed
<1>. QED
  BY <1>1, DoneLists DEF WellFormed

\* init_data_structures: the whole pool is free.
LEMMA InitialLists ==
  ASSUME TypeOK
  PROVE  \E f : Lists(InitialData, <<>>, f, <<>>, {}) /\ Len(f) = SCHED_MAX_NB_THREADS
<1>. DEFINE f == [i \in 1 .. SCHED_MAX_NB_THREADS |-> i]
            pool == InitialData.pool
<1>1. SCHED_MAX_NB_THREADS \in Nat \ {0} /\ Tcb = 1 .. SCHED_MAX_NB_THREADS
  BY PoolAssumption DEF Tcb
<1>2. /\ f \in Seq(Tcb) /\ Len(f) = SCHED_MAX_NB_THREADS
      /\ \A i \in Tcb : f[i] = i
  BY <1>1
<1>3. \A t \in Tcb : pool[t].next = IF t = SCHED_MAX_NB_THREADS THEN NULL ELSE t + 1
  BY DEF InitialData, TypeOK, TcbRecord
<1>4. /\ InitialData.free = 1 /\ InitialData.head = NULL
      /\ InitialData.tail = NULL /\ InitialData.done = NULL
  BY DEF InitialData
<1>. HIDE DEF f, pool
<1>5. \A t \in Tcb : t # SCHED_MAX_NB_THREADS => t + 1 \in Tcb
  BY <1>1
<1>6. Chain(pool, f, 1)
  BY <1>1, <1>2, <1>3, <1>5 DEF Chain
<1>7. Els(f) = Tcb
  BY <1>1, <1>2 DEF Els
<1>8. Chain(pool, <<>>, NULL) /\ Els(<<>>) = {}
  BY DEF Chain, Els
<1>9. Lists(InitialData, <<>>, f, <<>>, {})
  BY <1>4, <1>6, <1>7, <1>8 DEF Lists, Disjoint, pool
<1>. QED BY <1>2, <1>9

\* The same, whatever the lists are.
LEMMA InitialWellFormed ==
  ASSUME TypeOK
  PROVE  WellFormed(InitialData, {})
  BY InitialLists DEF WellFormed

\* The current TCB t goes to the back of the queue and the first one is taken.
LEMMA RotateWellFormed ==
  ASSUME NEW d \in DataRecord, NEW t \in Tcb, WellFormed(d, {t}),
         d.head = NULL => d.pool[t].next = NULL
  PROVE  LET e == READY_DEQUEUE(READY_ENQUEUE(d, t))
         IN  /\ e \in DataRecord /\ e.cur # NULL
             /\ WellFormed(e, {e.cur})
             /\ e.head = NULL => e.pool[e.cur].next = NULL
<1>. DEFINE r == READY_ENQUEUE(d, t)
            e == READY_DEQUEUE(r)
<1>1. r \in DataRecord /\ e \in DataRecord
  BY EnqueueType, DequeueType DEF Pointer
<1>2. WellFormed(r, {t} \ {t}) /\ r.head # NULL
  BY EnqueueWellFormed
<1>. HIDE DEF r
<1>3. {t} \ {t} = {}
  OBVIOUS
<1>4. /\ WellFormed(e, {e.cur} \ {NULL}) /\ e.cur = r.head
      /\ e.head = NULL /\ e.cur # NULL => e.pool[e.cur].next = NULL
  BY <1>1, <1>2, <1>3, DequeueWellFormed
<1>. HIDE DEF e
<1>5. e.cur # NULL /\ {e.cur} \ {NULL} = {e.cur}
  BY <1>2, <1>4
<1>. QED BY <1>1, <1>4, <1>5 DEF e, r

-----------------------------------------------------------------------------
(* The invariant.                                                           *)

\* What the lists rely on: only the current thread is out of the lists, it can
\* be put in an empty queue, and a dequeue happens only when it is in a list.
ListInv ==
  /\ WellFormed(DO_INIT, Current)
  /\ ~ init_done => cur_thr = NULL /\ ready_queue = NULL /\ ready_queue_tail = NULL
  /\ ready_queue = NULL /\ cur_thr # NULL => tcb_pool[cur_thr].next = NULL
  /\ control = "thread" => cur_thr # NULL /\ sched_running
  /\ control \in {"main", "final"} => cur_thr = NULL

\* After Become(d) the scheduler's variables are d.
LEMMA BecomeData ==
  ASSUME NEW d \in DataRecord, Become(d)
  PROVE  Data' = d
  BY DEF Become, Data, DataRecord

\* Run only changes a state field: a well-formed d stays well-formed.
LEMMA RunInv ==
  ASSUME NEW d \in DataRecord, Run(d), init_done', sched_running',
         d.cur # NULL, WellFormed(d, {d.cur}),
         d.head = NULL => d.pool[d.cur].next = NULL
  PROVE  ListInv'
<1>. DEFINE e == [d EXCEPT !.pool[d.cur].state = "RUNNING"]
<1>1. /\ d.cur \in Tcb /\ d.pool \in [Tcb -> TcbRecord]
      /\ "RUNNING" \in ThreadState
  BY DEF DataRecord, Pointer, ThreadState
<1>2. e \in DataRecord
  BY <1>1, SetFieldsType DEF DataRecord
<1>3. /\ e.head = d.head /\ e.tail = d.tail /\ e.free = d.free
      /\ e.done = d.done /\ e.cur = d.cur
      /\ \A t \in Tcb : e.pool[t].next = d.pool[t].next
  BY <1>1 DEF DataRecord, TcbRecord
<1>4. Become(e) /\ control' = "thread"
  BY DEF Run
<1>. HIDE DEF e
<1>5. Data' = e
  BY <1>2, <1>4, BecomeData
<1>6. WellFormed(e, {e.cur})
  BY <1>3, WellFormedFrame
<1>7. cur_thr' = e.cur /\ ready_queue' = e.head /\ tcb_pool' = e.pool
  BY <1>4 DEF Become
<1>8. WellFormed(Data', Current')
  BY <1>3, <1>5, <1>6, <1>7 DEF Current
<1>. QED
  BY <1>1, <1>3, <1>4, <1>7, <1>8 DEF ListInv, DO_INIT

\* Becoming a well-formed d whose current TCB is the loose one.
LEMMA BecomeInv ==
  ASSUME NEW d \in DataRecord, Become(d), init_done',
         WellFormed(d, {d.cur} \ {NULL}),
         d.head = NULL /\ d.cur # NULL => d.pool[d.cur].next = NULL,
         control' = "thread" => d.cur # NULL /\ sched_running',
         control' \in {"main", "final"} => d.cur = NULL
  PROVE  ListInv'
<1>1. Data' = d
  BY BecomeData
<1>2. cur_thr' = d.cur /\ ready_queue' = d.head /\ tcb_pool' = d.pool
  BY DEF Become
<1>. QED
  BY <1>1, <1>2 DEF ListInv, DO_INIT, Current

\* What the invariant says of the data an API function works on.
LEMMA InitInv ==
  ASSUME TypeOK, ListInv
  PROVE  /\ DO_INIT \in DataRecord /\ WellFormed(DO_INIT, {cur_thr} \ {NULL})
         /\ DO_INIT.cur = cur_thr
         /\ DO_INIT.head = NULL /\ cur_thr # NULL
              => DO_INIT.pool[cur_thr].next = NULL
         /\ control = "thread" => init_done /\ DO_INIT = Data
<1>1. DO_INIT.cur = cur_thr
  BY DEF ListInv, DO_INIT, Data, InitialData
<1>2. cur_thr # NULL => init_done
  BY DEF ListInv
<1>. QED
  BY <1>1, <1>2, InitialDataType DEF ListInv, DO_INIT, Data, Current

\* register_thread_portal breaks no list.
LEMMA RegisterInv ==
  ASSUME TypeOK, ListInv, NEW sm \in SM, NEW entry \in Entry,
         register_thread_portal(sm, entry)
  PROVE  ListInv'
<1>. DEFINE t == DO_INIT.free
            a == ALLOC_TCB(DO_INIT, sm, entry)
            c == [a EXCEPT !.counter = @ + 1]
            e == READY_ENQUEUE(c, t)
            X == {cur_thr} \ {NULL}
<1>1. /\ DO_INIT.free # NULL /\ Become(e) /\ init_done' /\ control' = control
      /\ sched_running' = (init_done /\ sched_running)
  BY DEF register_thread_portal
<1>2. /\ DO_INIT \in DataRecord /\ WellFormed(DO_INIT, X) /\ DO_INIT.cur = cur_thr
  BY InitInv
<1>3. a \in DataRecord
  BY <1>1, <1>2, AllocType
<1>4. /\ WellFormed(a, X \cup {t}) /\ t \in Tcb \ X
      /\ a.pool[t].next = NULL /\ a.cur = cur_thr
  BY <1>1, <1>2, AllocWellFormed
<1>. HIDE DEF a, t, X
<1>5. /\ c \in DataRecord /\ c.cur = cur_thr /\ c.pool = a.pool
      /\ c.head = a.head /\ c.tail = a.tail /\ c.free = a.free /\ c.done = a.done
  BY <1>3, <1>4 DEF DataRecord
<1>. HIDE DEF c
<1>6. WellFormed(c, X \cup {t})
  BY <1>4, <1>5, WellFormedFrame
<1>7. WellFormed(e, (X \cup {t}) \ {t}) /\ e.head # NULL
  <2>1. t \in X \cup {t} /\ (c.head = NULL => c.pool[t].next = NULL)
    BY <1>4, <1>5
  <2>. QED BY <1>5, <1>6, <2>1, EnqueueWellFormed
<1>8. (X \cup {t}) \ {t} = X
  BY <1>4
<1>9. e \in DataRecord /\ e.cur = cur_thr
  <2>1. e \in DataRecord
    BY <1>4, <1>5, EnqueueType DEF Pointer
  <2>2. e.cur = c.cur
    BY <1>5 DEF READY_ENQUEUE, DataRecord
  <2>. QED BY <1>5, <2>1, <2>2
<1>. HIDE DEF e
<1>10. WellFormed(e, {e.cur} \ {NULL})
  BY <1>7, <1>8, <1>9 DEF X
<1>11. control = "thread" => init_done
  BY InitInv
<1>. QED
  BY <1>1, <1>7, <1>9, <1>10, <1>11, BecomeInv DEF ListInv, e

\* start_scheduling, whether or not a thread is ready, breaks no list.
LEMMA StartInv ==
  ASSUME TypeOK, ListInv, start_scheduling \/ start_nothing
  PROVE  ListInv'
<1>. DEFINE e == READY_DEQUEUE(DO_INIT)
<1>1. control = "main" /\ ~ sched_running /\ cur_thr = NULL
  BY DEF start_scheduling, start_nothing, Live, ListInv
<1>2. DO_INIT \in DataRecord /\ WellFormed(DO_INIT, {})
  <2>1. {cur_thr} \ {NULL} = {}
    BY <1>1
  <2>. QED BY <2>1, InitInv
<1>3. /\ e \in DataRecord /\ WellFormed(e, {e.cur} \ {NULL})
      /\ e.cur = DO_INIT.head
      /\ e.head = NULL /\ e.cur # NULL => e.pool[e.cur].next = NULL
  BY <1>2, DequeueType, DequeueWellFormed
<1>4. CASE start_scheduling
  <2>1. DO_INIT.head # NULL /\ Run(e) /\ sched_running' /\ init_done'
    BY <1>4 DEF start_scheduling
  <2>. HIDE DEF e
  <2>2. e.cur # NULL /\ {e.cur} \ {NULL} = {e.cur}
    BY <1>3, <2>1
  <2>. QED BY <1>3, <2>1, <2>2, RunInv
<1>5. CASE start_nothing
  <2>1. DO_INIT.head = NULL /\ Become(e) /\ init_done' /\ control' = control
    BY <1>5 DEF start_nothing
  <2>. HIDE DEF e
  <2>. QED BY <1>1, <1>3, <2>1, BecomeInv
<1>. QED BY <1>4, <1>5

\* yield_get_next and busy_get_next change fields of the current TCB other than
\* its link, and rotate the queue.
LEMMA RotateInv ==
  ASSUME TypeOK, ListInv, Scheduled, UNCHANGED <<sched_running, init_done>>,
         NEW pool \in [Tcb -> TcbRecord],
         \A t \in Tcb : pool[t].next = tcb_pool[t].next,
         Run(READY_DEQUEUE(READY_ENQUEUE([Data EXCEPT !.pool = pool], cur_thr)))
  PROVE  ListInv'
<1>. DEFINE d == [Data EXCEPT !.pool = pool]
            e == READY_DEQUEUE(READY_ENQUEUE(d, cur_thr))
<1>1. /\ cur_thr \in Tcb /\ cur_thr # NULL /\ sched_running' /\ init_done'
      /\ Data \in DataRecord /\ WellFormed(Data, {cur_thr} \ {NULL})
      /\ Data.head = NULL => Data.pool[cur_thr].next = NULL
  BY InitInv DEF Scheduled, ListInv, TypeOK, Pointer
<1>2. /\ d \in DataRecord /\ d.head = Data.head /\ d.tail = Data.tail
      /\ d.free = Data.free /\ d.done = Data.done
      /\ d.pool = pool /\ Data.pool = tcb_pool
  BY <1>1 DEF DataRecord, Data
<1>. HIDE DEF d
<1>3. {cur_thr} \ {NULL} = {cur_thr}
  BY <1>1
<1>4. WellFormed(d, {cur_thr}) /\ (d.head = NULL => d.pool[cur_thr].next = NULL)
  BY <1>1, <1>2, <1>3, WellFormedFrame
<1>5. /\ e \in DataRecord /\ e.cur # NULL /\ WellFormed(e, {e.cur})
      /\ e.head = NULL => e.pool[e.cur].next = NULL
  BY <1>1, <1>2, <1>4, RotateWellFormed
<1>6. Run(e)
  BY DEF d
<1>. HIDE DEF e
<1>. QED BY <1>1, <1>5, <1>6, RunInv

\* Retiring a TCB, as done_get_next does, gives data with the same ready list.
LEMMA RetireType ==
  ASSUME NEW x \in DataRecord, NEW t \in Tcb, NEW state \in ThreadState,
         NEW n \in Pointer
  PROVE  LET d == [x EXCEPT !.pool[t].state = state, !.pool[t].next = n, !.done = t]
         IN  d \in DataRecord /\ d.head = x.head
<1>1. x.pool \in [Tcb -> TcbRecord] /\ t \in Pointer
  BY DEF DataRecord, Pointer
<1>2. [x.pool EXCEPT ![t].state = state, ![t].next = n] \in [Tcb -> TcbRecord]
  BY <1>1, SetFieldsType
<1>3. ASSUME NEW q \in [Tcb -> TcbRecord]
      PROVE  [x EXCEPT !.pool = q, !.done = t].head = x.head
  BY <1>1 DEF DataRecord
<1>4. [x EXCEPT !.pool[t].state = state, !.pool[t].next = n, !.done = t]
        = [x EXCEPT !.pool = [x.pool EXCEPT ![t].state = state, ![t].next = n],
                    !.done = t]
  BY <1>1, <1>2 DEF DataRecord
<1>5. [x EXCEPT !.pool[t].state = state, !.pool[t].next = n, !.done = t] \in DataRecord
  BY <1>1, <1>2 DEF DataRecord
<1>. QED BY <1>2, <1>3, <1>4, <1>5

\* Finishing or killing the current thread, done_get_next, breaks no list.
LEMMA DoneInv ==
  ASSUME TypeOK, ListInv, NEW state \in {"FINISHED", "KILLED"}, done_get_next(state)
  PROVE  ListInv'
<1>. DEFINE d == [Data EXCEPT !.pool[cur_thr].state = state,
                              !.pool[cur_thr].next = done_queue, !.done = cur_thr]
            e == READY_DEQUEUE(d)
<1>1. /\ cur_thr \in Tcb /\ cur_thr # NULL /\ sched_running' /\ init_done'
      /\ Data \in DataRecord /\ WellFormed(Data, {cur_thr} \ {NULL})
      /\ e = Done(state) /\ e \in DataRecord /\ Data.done = done_queue
  BY InitInv, GetNextType
     DEF done_get_next, Scheduled, ListInv, TypeOK, Pointer, Done, Data
<1>2. {cur_thr} \ {NULL} = {cur_thr} /\ {cur_thr} \ {cur_thr} = {}
  BY <1>1
<1>3. d = [Data EXCEPT !.pool[cur_thr].state = state,
                       !.pool[cur_thr].next = Data.done, !.done = cur_thr]
  BY <1>1
<1>5. d \in DataRecord /\ d.head = ready_queue
  <2>1. Data.head = ready_queue /\ Data.pool \in [Tcb -> TcbRecord]
        /\ done_queue \in Pointer /\ state \in ThreadState
    BY DEF Data, TypeOK, ThreadState
  <2>. QED BY <1>1, <2>1, RetireType, ZenonT(60)
<1>. HIDE DEF d
<1>4. WellFormed(d, {})
  <2>1. WellFormed(Data, {cur_thr}) /\ cur_thr \in {cur_thr}
    BY <1>1, <1>2
  <2>2. WellFormed(d, {cur_thr} \ {cur_thr})
    BY <1>1, <1>3, <2>1, DoneWellFormed
  <2>. QED BY <1>2, <2>2
<1>6. /\ WellFormed(e, {e.cur} \ {NULL}) /\ e.cur = ready_queue
      /\ e.head = NULL /\ e.cur # NULL => e.pool[e.cur].next = NULL
  BY <1>4, <1>5, DequeueWellFormed
<1>. HIDE DEF e
<1>7. \/ ready_queue # NULL /\ Run(e)
      \/ ready_queue = NULL /\ Become(e) /\ control' = "final"
  BY <1>1 DEF done_get_next
<1>8. CASE ready_queue # NULL
  <2>1. {e.cur} \ {NULL} = {e.cur}
    BY <1>6, <1>8
  <2>. QED BY <1>1, <1>6, <1>7, <1>8, <2>1, RunInv
<1>9. CASE ready_queue = NULL
  BY <1>1, <1>6, <1>7, <1>9, BecomeInv
<1>. QED BY <1>8, <1>9

\* ListInv is inductive: no call of the scheduler breaks a list, although it
\* leaves stale next pointers in dequeued TCBs.
THEOREM ListsCorrect == Spec => []ListInv
<1>1. Init => ListInv
  <2>1. Init => TypeOK
    BY TypeInit
  <2>. QED
    BY <2>1, InitialWellFormed DEF Init, ListInv, DO_INIT, Current
<1>2. ASSUME TypeOK, ListInv, [Next]_vars
      PROVE  ListInv'
  <2>. USE <1>2
  <2>1. CASE initialize_scheduler
    <3>1. Become(DO_INIT) /\ init_done' /\ control' = control
          /\ sched_running' = (init_done /\ sched_running)
      BY <2>1 DEF initialize_scheduler
    <3>. QED BY <3>1, InitInv, BecomeInv DEF ListInv
  <2>2. ASSUME NEW sm \in SM, NEW entry \in Entry, register_thread_portal(sm, entry)
        PROVE  ListInv'
    BY <2>2, RegisterInv
  <2>3. CASE start_scheduling \/ start_nothing
    BY <2>3, StartInv
  <2>4. ASSUME NEW sm \in SM, yield_get_next(sm)
        PROVE  ListInv'
    <3>. DEFINE pool == [tcb_pool EXCEPT ![cur_thr].pub_start = sm,
                           ![cur_thr].entry = RETURN, ![cur_thr].state = "READY"]
    <3>1. pool \in [Tcb -> TcbRecord]
      BY SetFieldsType DEF TypeOK, ThreadState
    <3>2. \A t \in Tcb : pool[t].next = tcb_pool[t].next
      BY DEF TypeOK, TcbRecord
    <3>3. [Data EXCEPT !.pool[cur_thr].pub_start = sm,
                       !.pool[cur_thr].entry = RETURN,
                       !.pool[cur_thr].state = "READY"] = [Data EXCEPT !.pool = pool]
      BY ZenonT(60) DEF Data
    <3>4. Run(READY_DEQUEUE(READY_ENQUEUE([Data EXCEPT !.pool = pool], cur_thr)))
      BY <2>4, <3>3 DEF yield_get_next
    <3>. HIDE DEF pool
    <3>. QED BY <2>4, <3>1, <3>2, <3>4, RotateInv DEF yield_get_next
  <2>5. CASE busy_get_next
    <3>. DEFINE pool == [tcb_pool EXCEPT ![cur_thr].state = "BUSY"]
    <3>1. pool \in [Tcb -> TcbRecord]
      BY SetFieldsType DEF TypeOK, ThreadState
    <3>2. \A t \in Tcb : pool[t].next = tcb_pool[t].next
      BY DEF TypeOK, TcbRecord
    <3>3. [Data EXCEPT !.pool[cur_thr].state = "BUSY"] = [Data EXCEPT !.pool = pool]
      BY DEF Data
    <3>4. Run(READY_DEQUEUE(READY_ENQUEUE([Data EXCEPT !.pool = pool], cur_thr)))
      BY <2>5, <3>3 DEF busy_get_next
    <3>. HIDE DEF pool
    <3>. QED BY <2>5, <3>1, <3>2, <3>4, RotateInv DEF busy_get_next
  <2>6. ASSUME NEW state \in {"FINISHED", "KILLED"}, done_get_next(state)
        PROVE  ListInv'
    BY <2>6, DoneInv
  <2>7. CASE start_scheduling_return
    <3>1. Data' = Data /\ InitialData' = InitialData
      BY <2>7 DEF start_scheduling_return, Data, InitialData
    <3>. QED
      BY <2>7, <3>1 DEF start_scheduling_return, ListInv, DO_INIT, Current
  <2>8. CASE register_exhausted \/ start_again \/ yield_not_running
               \/ done_not_running \/ null_cur_thr \/ spin \/ UNCHANGED vars
    <3>1. /\ UNCHANGED <<tcb_pool, free_tcb_list, ready_queue, ready_queue_tail,
                         done_queue, cur_thr, thr_id_counter, sched_running, init_done>>
          /\ control' = control \/ control' \in {"exit", "undefined"}
      BY <2>8 DEF register_exhausted, start_again, yield_not_running,
                  done_not_running, null_cur_thr, spin, vars
    <3>2. Data' = Data /\ InitialData' = InitialData
      BY <3>1 DEF Data, InitialData
    <3>. QED
      BY <3>1, <3>2 DEF ListInv, DO_INIT, Current
  <2>. QED
    BY <2>1, <2>2, <2>3, <2>4, <2>5, <2>6, <2>7, <2>8 DEF Next, ThreadStep
<1>. QED
  BY <1>1, <1>2, TypeCorrect, PTL DEF Spec

-----------------------------------------------------------------------------
(* From the sequences to what Walk meets.                                   *)

\* A list has at most as many TCBs as the pool.
LEMMA ChainLength ==
  ASSUME NEW pool, NEW s, NEW first, Chain(pool, s, first)
  PROVE  Len(s) <= SCHED_MAX_NB_THREADS
<1>. DEFINE n == Len(s)
<1>1. /\ n \in Nat /\ s \in [1 .. n -> Tcb]
      /\ \A i, j \in 1 .. n : s[i] = s[j] => i = j
  BY DEF Chain
<1>2. SCHED_MAX_NB_THREADS \in Nat /\ Tcb = 1 .. SCHED_MAX_NB_THREADS
  BY PoolAssumption DEF Tcb
<1>. HIDE DEF n
<1>3. IsFiniteSet(1 .. n) /\ Cardinality(1 .. n) = n
  BY <1>1, FS_Interval
<1>4. IsFiniteSet(Tcb) /\ Cardinality(Tcb) = SCHED_MAX_NB_THREADS
  BY <1>2, FS_Interval
<1>5. ASSUME SCHED_MAX_NB_THREADS < n
      PROVE  FALSE
  <2>1. \E i, j \in 1 .. n : i # j /\ s[i] = s[j]
    BY <1>1, <1>3, <1>4, <1>5, FS_PigeonHole
  <2>. QED BY <1>1, <2>1
<1>. QED BY <1>1, <1>2, <1>5 DEF n

\* Walk follows the list: a least step at which it leaves s cannot exist.
LEMMA WalkChain ==
  ASSUME NEW s, NEW first, Chain(tcb_pool, s, first)
  PROVE  /\ DOMAIN Walk(first) = 0 .. SCHED_MAX_NB_THREADS
         /\ \A n \in 0 .. SCHED_MAX_NB_THREADS :
              Walk(first)[n] = IF n < Len(s) THEN s[n + 1] ELSE NULL
<1>1. /\ Len(s) \in Nat /\ \A i \in 1 .. Len(s) : s[i] \in Tcb
      /\ NULL \notin Tcb /\ SCHED_MAX_NB_THREADS \in Nat
  BY PoolAssumption DEF Chain, NULL, Tcb
<1>. DEFINE Steps == 0 .. SCHED_MAX_NB_THREADS
            Def(w) == [k \in Steps |->
                         IF k = 0 THEN first
                         ELSE IF w[k - 1] = NULL THEN NULL ELSE tcb_pool[w[k - 1]].next]
            v == [k \in Steps |-> IF k < Len(s) THEN s[k + 1] ELSE NULL]
<1>2. first = v[0]
  BY <1>1 DEF Chain
<1>3. ASSUME NEW k \in Steps \ {0}
      PROVE  v[k] = IF v[k - 1] = NULL THEN NULL ELSE tcb_pool[v[k - 1]].next
  <2>1. k - 1 \in Steps /\ k \in Nat \ {0} /\ (k - 1) + 1 = k
    BY <1>1
  <2>2. v[k - 1] = IF k - 1 < Len(s) THEN s[k] ELSE NULL
    BY <2>1
  <2>3. CASE k - 1 < Len(s)
    <3>1. k \in 1 .. Len(s)
      BY <1>1, <2>1, <2>3
    <3>2. v[k - 1] = s[k] /\ s[k] # NULL
      BY <1>1, <2>2, <2>3, <3>1
    <3>3. tcb_pool[s[k]].next = IF k = Len(s) THEN NULL ELSE s[k + 1]
      BY <3>1 DEF Chain
    <3>. QED BY <1>1, <3>1, <3>2, <3>3
  <2>4. CASE ~ (k - 1 < Len(s))
    BY <1>1, <2>1, <2>2, <2>4
  <2>. QED BY <2>3, <2>4
<1>4. v = Def(v)
  BY <1>2, <1>3
<1>5. Walk(first) = CHOOSE w : w = Def(w)
  BY DEF Walk
<1>. HIDE DEF v, Def
<1>6. Walk(first) = Def(Walk(first))
  BY <1>4, <1>5
<1>. DEFINE w == Walk(first)
            T == {k \in Steps : w[k] # v[k]}
<1>7. \A k \in Steps : w[k] = IF k = 0 THEN first
                       ELSE IF w[k - 1] = NULL THEN NULL ELSE tcb_pool[w[k - 1]].next
  BY <1>6 DEF Def
<1>8. DOMAIN w = Steps
  BY <1>6 DEF Def
<1>. HIDE DEF w
<1>9. ASSUME T # {}
      PROVE  FALSE
  <2>. HIDE DEF T
  <2>1. PICK m \in T : \A k \in T : m <= k
    <3>1. T \subseteq Nat
      BY DEF T
    <3>. QED BY <1>9, <3>1, LeastElement
  <2>2. m # 0 /\ m \in Steps /\ w[m] # v[m]
    BY <1>1, <1>2, <1>7, <2>1 DEF T
  <2>3. m - 1 \in Steps /\ m - 1 \notin T
    BY <1>1, <2>1, <2>2
  <2>4. w[m - 1] = v[m - 1]
    BY <2>3 DEF T
  <2>. QED BY <1>3, <1>7, <2>2, <2>4
<1>. QED BY <1>9, <1>8 DEF v, w

\* What Scheduler's operators on lists give for a list that represents s.
LEMMA ListWalk ==
  ASSUME NEW s, NEW first, Chain(tcb_pool, s, first)
  PROVE  Ends(first) /\ Elements(first) = Els(s) /\ ListAt(first) = s
<1>. DEFINE w == Walk(first)
            n == Len(s)
            max == SCHED_MAX_NB_THREADS
<1>1. /\ n \in Nat /\ max \in Nat /\ n <= max
      /\ \A i \in 1 .. n : s[i] # NULL
  <2>1. n <= max
    BY ChainLength
  <2>. QED BY <2>1, PoolAssumption DEF Chain, NULL, Tcb
<1>10. s = [i \in 1 .. n |-> s[i]]
  BY DEF Chain
<1>2. \A k \in 0 .. max : w[k] = IF k < n THEN s[k + 1] ELSE NULL
  BY WalkChain
<1>3. DOMAIN w = 0 .. max
  BY WalkChain
<1>. HIDE DEF w, n, max
<1>4. Ends(first)
  BY <1>1, <1>2 DEF Ends, w, max
<1>5. {k \in 0 .. max : w[k] # NULL} = 0 .. n - 1
  <2>1. \A k \in 0 .. max : w[k] # NULL <=> k < n
    BY <1>1, <1>2
  <2>. QED BY <1>1, <2>1
<1>6. Cardinality({k \in DOMAIN w : w[k] # NULL}) = n
  <2>1. 0 \in Int /\ n - 1 \in Int /\ (n - 1) - 0 + 1 = n /\ (0 <= n - 1 \/ n = 0)
    BY <1>1
  <2>2. Cardinality(0 .. n - 1) = n
    BY <1>1, <2>1, FS_Interval
  <2>. QED BY <1>3, <1>5, <2>2
<1>7. [i \in 1 .. n |-> w[i - 1]] = s
  <2>1. \A i \in 1 .. n : w[i - 1] = s[i]
    BY <1>1, <1>2
  <2>. QED BY <1>10, <2>1
<1>8. ListAt(first) = s
  BY <1>6, <1>7 DEF ListAt, w
<1>9. Elements(first) = Els(s)
  <2>1. Elements(first) = {w[k] : k \in 0 .. max} \ {NULL}
    BY DEF Elements, w, max
  <2>2. Els(s) = {s[i] : i \in 1 .. n}
    BY DEF Els, n
  <2>3. ASSUME NEW k \in 0 .. max, w[k] # NULL
        PROVE  k + 1 \in 1 .. n /\ w[k] = s[k + 1]
    BY <1>1, <1>2, <2>3
  <2>4. ASSUME NEW i \in 1 .. n
        PROVE  i - 1 \in 0 .. max /\ w[i - 1] = s[i] /\ s[i] # NULL
    BY <1>1, <1>2
  <2>. QED BY <2>1, <2>2, <2>3, <2>4
<1>. QED BY <1>4, <1>8, <1>9

-----------------------------------------------------------------------------
(* The safety properties of Scheduler.                                      *)

\* PoolPartition of Scheduler holds in every reachable state: no sequence of
\* calls loses a TCB, shares one between two lists or makes a list cyclic.
THEOREM PartitionCorrect == Spec => []PoolPartition
<1>1. ListInv => PoolPartition
  <2>. SUFFICES ASSUME ListInv, init_done
                PROVE  PoolPartition
    BY DEF PoolPartition
  <2>1. PICK q, f, dn : Lists(Data, q, f, dn, Current)
    BY DEF ListInv, DO_INIT, WellFormed
  <2>2. /\ Chain(tcb_pool, q, ready_queue) /\ Chain(tcb_pool, f, free_tcb_list)
        /\ Chain(tcb_pool, dn, done_queue)
    BY <2>1 DEF Lists, Data
  <2>3. /\ Ends(ready_queue) /\ Ends(done_queue) /\ Ends(free_tcb_list)
        /\ Ready = Els(q) /\ Finished = Els(dn) /\ Free = Els(f)
    BY <2>2, ListWalk DEF Ready, Finished, Free
  <2>. QED
    BY <2>1, <2>3 DEF Lists, Disjoint, PoolPartition
<1>. QED
  BY <1>1, ListsCorrect, PTL

\* TailIsLast of Scheduler holds in every reachable state: READY_ENQUEUE always
\* appends to the last TCB, and never puts a stale link into an empty queue.
THEOREM TailCorrect == Spec => []TailIsLast
<1>1. ListInv => TailIsLast
  <2>. SUFFICES ASSUME ListInv
                PROVE  TailIsLast
    OBVIOUS
  <2>1. CASE ~ init_done
    BY <2>1 DEF ListInv, TailIsLast
  <2>2. CASE init_done
    <3>1. PICK q, f, dn : Lists(Data, q, f, dn, Current)
      BY <2>2 DEF ListInv, DO_INIT, WellFormed
    <3>2. /\ Chain(tcb_pool, q, ready_queue)
          /\ ready_queue_tail = IF q = <<>> THEN NULL ELSE q[Len(q)]
      BY <3>1 DEF Lists, Data
    <3>3. ListAt(ready_queue) = q /\ (ready_queue = NULL <=> q = <<>>)
      BY <3>2, ListWalk, ChainEls
    <3>. QED
      BY <3>2, <3>3 DEF ListInv, TailIsLast
  <2>. QED BY <2>1, <2>2
<1>. QED
  BY <1>1, ListsCorrect, PTL

-----------------------------------------------------------------------------
(* What the scheduler does to threads: where a TCB is and what its state,   *)
(* its entry and its thread id say agree, ids are unique, and a done thread *)
(* stays done.  On top of the lists, every call is described by the         *)
(* sequences it leads to.                                                   *)

-----------------------------------------------------------------------------
(* The steps, as changes of sequences and of the TCBs' contents.            *)

\* Which thread a TCB holds, and where it continues, is the same in both pools.
SameThreads(p, r, S) ==
  \A t \in S : /\ p[t].thr_id = r[t].thr_id
               /\ p[t].pub_start = r[t].pub_start
               /\ p[t].entry = r[t].entry

SameStates(p, r, S) == \A t \in S : p[t].state = r[t].state

\* The data of the scheduler is (q, f, dn) with cur, and cur runs.
Runs(q, f, dn, cur, pool, counter) ==
  /\ Lists(Data', q, f, dn, {cur})
  /\ cur_thr' = cur /\ cur \in Tcb /\ thr_id_counter' = counter
  /\ control' = "thread"
  /\ SameThreads(tcb_pool', pool, Tcb)
  /\ SameStates(tcb_pool', pool, Tcb \ {cur})
  /\ tcb_pool'[cur].state = "RUNNING"

\* Run makes the dequeued thread the running one and nothing else.
LEMMA RunStep ==
  ASSUME NEW d \in DataRecord, Run(d), NEW q, NEW f, NEW dn,
         d.cur # NULL, Lists(d, q, f, dn, {d.cur})
  PROVE  Runs(q, f, dn, d.cur, d.pool, d.counter)
<1>. DEFINE e == [d EXCEPT !.pool[d.cur].state = "RUNNING"]
<1>1. /\ d.cur \in Tcb /\ d.pool \in [Tcb -> TcbRecord]
      /\ "RUNNING" \in ThreadState
  BY DEF DataRecord, Pointer, ThreadState
<1>2. e \in DataRecord
  BY <1>1, SetFieldsType DEF DataRecord
<1>3. /\ e.head = d.head /\ e.tail = d.tail /\ e.free = d.free
      /\ e.done = d.done /\ e.cur = d.cur /\ e.counter = d.counter
      /\ e.pool = [d.pool EXCEPT ![d.cur].state = "RUNNING"]
  BY <1>1 DEF DataRecord
<1>4. /\ \A t \in Tcb : e.pool[t].next = d.pool[t].next
      /\ SameThreads(e.pool, d.pool, Tcb)
      /\ SameStates(e.pool, d.pool, Tcb \ {d.cur})
      /\ e.pool[d.cur].state = "RUNNING"
  BY <1>1, <1>3 DEF TcbRecord, SameThreads, SameStates
<1>5. Become(e) /\ control' = "thread"
  BY DEF Run
<1>. HIDE DEF e
<1>6. Data' = e
  BY <1>2, <1>5, BecomeData
<1>7. Lists(e, q, f, dn, {d.cur})
  <2>1. e.head = d.head /\ e.tail = d.tail /\ e.free = d.free /\ e.done = d.done
    BY <1>3
  <2>2. \A t \in Tcb \ {d.cur} : e.pool[t].next = d.pool[t].next
    BY <1>4
  <2>. QED BY <2>1, <2>2, ListsFrame
<1>8. cur_thr' = e.cur /\ tcb_pool' = e.pool /\ thr_id_counter' = e.counter
  BY <1>5 DEF Become
<1>. QED
  BY <1>1, <1>3, <1>4, <1>5, <1>6, <1>7, <1>8 DEF Runs

\* READY_ENQUEUE writes links only.
LEMMA EnqueueSame ==
  ASSUME NEW d \in DataRecord, NEW t \in Tcb
  PROVE  LET e == READY_ENQUEUE(d, t)
         IN  /\ SameThreads(e.pool, d.pool, Tcb) /\ SameStates(e.pool, d.pool, Tcb)
             /\ e.counter = d.counter /\ e.cur = d.cur
<1>. DEFINE e == READY_ENQUEUE(d, t)
<1>1. d.pool \in [Tcb -> TcbRecord]
  BY DEF DataRecord
<1>2. CASE d.head = NULL
  <2>1. e.pool = d.pool /\ e.counter = d.counter /\ e.cur = d.cur
    BY <1>2 DEF READY_ENQUEUE, DataRecord
  <2>. QED BY <2>1 DEF SameThreads, SameStates
<1>3. CASE d.head # NULL
  <2>1. /\ e.pool = [d.pool EXCEPT ![d.tail].next = t, ![t].next = NULL]
        /\ e.counter = d.counter /\ e.cur = d.cur
    BY <1>3 DEF READY_ENQUEUE, DataRecord
  <2>. HIDE DEF e
  <2>2. SameThreads(e.pool, d.pool, Tcb) /\ SameStates(e.pool, d.pool, Tcb)
    BY <1>1, <2>1 DEF TcbRecord, SameThreads, SameStates
  <2>. QED BY <2>1, <2>2 DEF e
<1>. QED BY <1>2, <1>3

\* Contents are the same through equal steps.
LEMMA SameTransitive ==
  ASSUME NEW p, NEW q, NEW r, NEW S
  PROVE  /\ SameThreads(p, q, S) /\ SameThreads(q, r, S) => SameThreads(p, r, S)
         /\ SameStates(p, q, S) /\ SameStates(q, r, S) => SameStates(p, r, S)
  BY DEF SameThreads, SameStates

\* What the current TCB is when the scheduler is called by a thread.
LEMMA ScheduledData ==
  ASSUME TypeOK, ListInv, Scheduled
  PROVE  /\ cur_thr \in Tcb /\ cur_thr # NULL /\ init_done /\ DO_INIT = Data
         /\ Data \in DataRecord /\ Data.pool = tcb_pool /\ Data.cur = cur_thr
         /\ Data.counter = thr_id_counter /\ Data.head = ready_queue
         /\ Data.done = done_queue
         /\ Current = {cur_thr}
         /\ Data.head = NULL => tcb_pool[cur_thr].next = NULL
<1>1. cur_thr \in Tcb /\ cur_thr # NULL /\ init_done /\ DO_INIT = Data
  BY InitInv DEF Scheduled, ListInv, TypeOK, Pointer
<1>2. /\ Data.pool = tcb_pool /\ Data.cur = cur_thr
      /\ Data.counter = thr_id_counter /\ Data.head = ready_queue
      /\ Data.done = done_queue
  BY DEF Data
<1>. QED
  BY <1>1, <1>2, InitialDataType DEF Current, ListInv

\* yield_get_next and busy_get_next: the current TCB, with its contents as in
\* pool, goes behind the ready ones, and the first of these runs.
LEMMA RotateStep ==
  ASSUME TypeOK, ListInv, Scheduled, NEW pool \in [Tcb -> TcbRecord],
         \A t \in Tcb : pool[t].next = tcb_pool[t].next,
         Run(READY_DEQUEUE(READY_ENQUEUE([Data EXCEPT !.pool = pool], cur_thr))),
         NEW q, NEW f, NEW dn, Lists(Data, q, f, dn, {cur_thr})
  PROVE  LET r == Append(q, cur_thr)
         IN  Runs(Tail(r), f, dn, r[1], pool, thr_id_counter)
<1>. DEFINE r == Append(q, cur_thr)
            d == [Data EXCEPT !.pool = pool]
            e1 == READY_ENQUEUE(d, cur_thr)
            e == READY_DEQUEUE(e1)
<1>1. /\ cur_thr \in Tcb /\ cur_thr # NULL
      /\ Data \in DataRecord /\ Data.pool = tcb_pool
      /\ Data.counter = thr_id_counter
      /\ Data.head = NULL => tcb_pool[cur_thr].next = NULL
  BY ScheduledData
<1>2. /\ d \in DataRecord /\ d.head = Data.head /\ d.tail = Data.tail
      /\ d.free = Data.free /\ d.done = Data.done
      /\ d.pool = pool /\ d.counter = Data.counter
  BY <1>1 DEF DataRecord
<1>. HIDE DEF d
<1>3. Lists(d, q, f, dn, {cur_thr})
  <2>1. \A t \in Tcb \ {cur_thr} : d.pool[t].next = Data.pool[t].next
    BY <1>1, <1>2
  <2>. QED BY <1>2, <2>1, ListsFrame
<1>4. d.head = NULL => d.pool[cur_thr].next = NULL
  BY <1>1, <1>2
<1>5. Lists(e1, r, f, dn, {})
  <2>1. cur_thr \in {cur_thr} /\ {cur_thr} \ {cur_thr} = {}
    OBVIOUS
  <2>2. Lists(e1, r, f, dn, {cur_thr} \ {cur_thr})
    BY <1>2, <1>3, <1>4, <2>1, EnqueueLists
  <2>. QED BY <2>1, <2>2
<1>6. /\ e1 \in DataRecord /\ e1.counter = thr_id_counter
      /\ SameThreads(e1.pool, pool, Tcb) /\ SameStates(e1.pool, pool, Tcb)
  BY <1>1, <1>2, EnqueueType, EnqueueSame DEF Pointer
<1>7. r # <<>> /\ r[1] \in Tcb
  <2>1. q \in Seq(Tcb)
    BY DEF Lists, Chain
  <2>2. r \in Seq(Tcb) /\ Len(r) = Len(q) + 1 /\ Len(q) \in Nat
    BY <1>1, <2>1
  <2>. HIDE DEF r
  <2>3. 1 \in 1 .. Len(r) /\ Len(r) # 0
    BY <2>2
  <2>. QED BY <2>2, <2>3
<1>. HIDE DEF e1, r
<1>8. /\ e.cur = r[1] /\ Lists(e, Tail(r), f, dn, {e.cur}) /\ e.pool = e1.pool
  BY <1>5, <1>6, <1>7, DequeueLists
<1>9. e \in DataRecord /\ e.counter = e1.counter
  BY <1>6, DequeueType DEF READY_DEQUEUE, DataRecord
<1>10. Run(e)
  BY DEF d, e1
<1>. HIDE DEF e
<1>11. e.cur # NULL
  BY <1>7, <1>8 DEF NULL, Tcb
<1>12. Runs(Tail(r), f, dn, e.cur, e.pool, e.counter)
  BY <1>8, <1>9, <1>10, <1>11, RunStep
<1>13. Runs(Tail(r), f, dn, r[1], pool, thr_id_counter)
  BY <1>6, <1>8, <1>9, <1>12 DEF Runs, SameThreads, SameStates
<1>. QED BY <1>13 DEF r

\* What a yield writes in the current TCB, before it is put in the queue.
LEMMA YieldStep ==
  ASSUME TypeOK, ListInv, NEW sm \in SM, yield_get_next(sm),
         NEW q, NEW f, NEW dn, Lists(Data, q, f, dn, {cur_thr})
  PROVE  \E pool :
           /\ SameThreads(pool, tcb_pool, Tcb \ {cur_thr})
           /\ SameStates(pool, tcb_pool, Tcb \ {cur_thr})
           /\ pool[cur_thr].thr_id = tcb_pool[cur_thr].thr_id
           /\ pool[cur_thr].pub_start = sm /\ pool[cur_thr].entry = RETURN
           /\ pool[cur_thr].state = "READY"
           /\ LET r == Append(q, cur_thr)
              IN  Runs(Tail(r), f, dn, r[1], pool, thr_id_counter)
<1>. DEFINE pool == [tcb_pool EXCEPT ![cur_thr].pub_start = sm,
                       ![cur_thr].entry = RETURN, ![cur_thr].state = "READY"]
<1>1. Scheduled /\ cur_thr \in Tcb
  BY ScheduledData DEF yield_get_next
<1>2. pool \in [Tcb -> TcbRecord]
  BY SetFieldsType DEF TypeOK, ThreadState
<1>3. /\ \A t \in Tcb : pool[t].next = tcb_pool[t].next
      /\ SameThreads(pool, tcb_pool, Tcb \ {cur_thr})
      /\ SameStates(pool, tcb_pool, Tcb \ {cur_thr})
      /\ pool[cur_thr].thr_id = tcb_pool[cur_thr].thr_id
      /\ pool[cur_thr].pub_start = sm /\ pool[cur_thr].entry = RETURN
      /\ pool[cur_thr].state = "READY"
  BY <1>1 DEF TypeOK, TcbRecord, SameThreads, SameStates
<1>4. Run(READY_DEQUEUE(READY_ENQUEUE([Data EXCEPT !.pool = pool], cur_thr)))
  <2>1. [Data EXCEPT !.pool[cur_thr].pub_start = sm,
                     !.pool[cur_thr].entry = RETURN,
                     !.pool[cur_thr].state = "READY"] = [Data EXCEPT !.pool = pool]
    BY ZenonT(60) DEF Data
  <2>. QED BY <2>1 DEF yield_get_next
<1>. HIDE DEF pool
<1>5. LET r == Append(q, cur_thr)
      IN  Runs(Tail(r), f, dn, r[1], pool, thr_id_counter)
  BY <1>1, <1>2, <1>3, <1>4, RotateStep
<1>. QED BY <1>3, <1>5

\* The same for a busy answer.
LEMMA BusyStep ==
  ASSUME TypeOK, ListInv, busy_get_next,
         NEW q, NEW f, NEW dn, Lists(Data, q, f, dn, {cur_thr})
  PROVE  \E pool :
           /\ SameThreads(pool, tcb_pool, Tcb)
           /\ SameStates(pool, tcb_pool, Tcb \ {cur_thr})
           /\ pool[cur_thr].state = "BUSY"
           /\ LET r == Append(q, cur_thr)
              IN  Runs(Tail(r), f, dn, r[1], pool, thr_id_counter)
<1>. DEFINE pool == [tcb_pool EXCEPT ![cur_thr].state = "BUSY"]
<1>1. Scheduled /\ cur_thr \in Tcb
  BY ScheduledData DEF busy_get_next
<1>2. pool \in [Tcb -> TcbRecord]
  BY SetFieldsType DEF TypeOK, ThreadState
<1>3. /\ \A t \in Tcb : pool[t].next = tcb_pool[t].next
      /\ SameThreads(pool, tcb_pool, Tcb)
      /\ SameStates(pool, tcb_pool, Tcb \ {cur_thr})
      /\ pool[cur_thr].state = "BUSY"
  BY <1>1 DEF TypeOK, TcbRecord, SameThreads, SameStates
<1>4. Run(READY_DEQUEUE(READY_ENQUEUE([Data EXCEPT !.pool = pool], cur_thr)))
  <2>1. [Data EXCEPT !.pool[cur_thr].state = "BUSY"] = [Data EXCEPT !.pool = pool]
    BY DEF Data
  <2>. QED BY <2>1 DEF busy_get_next
<1>. HIDE DEF pool
<1>5. LET r == Append(q, cur_thr)
      IN  Runs(Tail(r), f, dn, r[1], pool, thr_id_counter)
  BY <1>1, <1>2, <1>3, <1>4, RotateStep
<1>. QED BY <1>3, <1>5

\* done_get_next up to the dequeue: the current TCB is on top of the done ones,
\* and otherwise as it was, with the given state.
LEMMA DoneData ==
  ASSUME TypeOK, ListInv, Scheduled, NEW state \in {"FINISHED", "KILLED"},
         NEW q, NEW f, NEW dn, Lists(Data, q, f, dn, {cur_thr})
  PROVE  /\ Done(state) \in DataRecord /\ Done(state).counter = thr_id_counter
         /\ q # <<>> => /\ Done(state).cur = q[1] /\ Done(state).cur # NULL
                        /\ Lists(Done(state), Tail(q), f, <<cur_thr>> \o dn, {q[1]})
         /\ q = <<>> => /\ Done(state).cur = NULL
                        /\ Lists(Done(state), q, f, <<cur_thr>> \o dn, {})
         /\ SameThreads(Done(state).pool, tcb_pool, Tcb)
         /\ SameStates(Done(state).pool, tcb_pool, Tcb \ {cur_thr})
         /\ Done(state).pool[cur_thr].state = state
<1>. DEFINE d == [Data EXCEPT !.pool[cur_thr].state = state,
                              !.pool[cur_thr].next = done_queue, !.done = cur_thr]
            e == READY_DEQUEUE(d)
<1>1. /\ cur_thr \in Tcb /\ Data \in DataRecord /\ Data.pool = tcb_pool
      /\ Data.done = done_queue /\ Data.counter = thr_id_counter
      /\ tcb_pool \in [Tcb -> TcbRecord] /\ done_queue \in Pointer
      /\ state \in ThreadState
  BY ScheduledData DEF TypeOK, ThreadState
<1>2. d \in DataRecord
  BY <1>1, RetireType
<1>3. d = [Data EXCEPT !.pool[cur_thr].state = state,
                       !.pool[cur_thr].next = Data.done, !.done = cur_thr]
  BY <1>1
<1>4. d.counter = thr_id_counter /\ d.pool = [tcb_pool EXCEPT ![cur_thr].state = state,
                                                             ![cur_thr].next = done_queue]
  BY <1>1 DEF DataRecord
<1>. HIDE DEF d
<1>5. /\ SameThreads(d.pool, tcb_pool, Tcb)
      /\ SameStates(d.pool, tcb_pool, Tcb \ {cur_thr})
      /\ d.pool[cur_thr].state = state
  BY <1>1, <1>4 DEF TcbRecord, SameThreads, SameStates
<1>6. Lists(d, q, f, <<cur_thr>> \o dn, {})
  <2>1. cur_thr \in {cur_thr} /\ {cur_thr} \ {cur_thr} = {}
    OBVIOUS
  <2>2. Lists(d, q, f, <<cur_thr>> \o dn, {cur_thr} \ {cur_thr})
    BY <1>1, <1>3, <2>1, DoneLists
  <2>. QED BY <2>1, <2>2
<1>. DEFINE top == <<cur_thr>> \o dn
<1>. HIDE DEF top
<1>7. /\ q = <<>> => e.cur = NULL /\ Lists(e, q, f, top, {})
      /\ q # <<>> => e.cur = q[1] /\ Lists(e, Tail(q), f, top, {e.cur})
      /\ e.pool = d.pool
  BY <1>2, <1>6, DequeueLists DEF top
<1>8. e \in DataRecord /\ e.counter = d.counter
  BY <1>2, DequeueType DEF READY_DEQUEUE, DataRecord
<1>9. q # <<>> => q[1] # NULL
  <2>1. Chain(Data.pool, q, Data.head)
    BY DEF Lists
  <2>2. Data.head = NULL <=> q = <<>>
    BY <2>1, ChainEls
  <2>3. q # <<>> => Data.head = q[1]
    BY <2>1 DEF Chain
  <2>. QED BY <2>2, <2>3
<1>10. e = Done(state)
  BY DEF d, Done
<1>. QED BY <1>4, <1>5, <1>7, <1>8, <1>9, <1>10 DEF top

\* done_get_next: the first ready thread runs, or start_scheduling goes on.
LEMMA DoneStep ==
  ASSUME TypeOK, ListInv, NEW state \in {"FINISHED", "KILLED"}, done_get_next(state),
         NEW q, NEW f, NEW dn, Lists(Data, q, f, dn, {cur_thr})
  PROVE  LET top == <<cur_thr>> \o dn
         IN  \E pool :
               /\ SameThreads(pool, tcb_pool, Tcb)
               /\ SameStates(pool, tcb_pool, Tcb \ {cur_thr})
               /\ pool[cur_thr].state = state
               /\ \/ q # <<>> /\ Runs(Tail(q), f, top, q[1], pool, thr_id_counter)
                  \/ /\ q = <<>> /\ cur_thr' = NULL /\ control' = "final"
                     /\ Lists(Data', q, f, top, {}) /\ tcb_pool' = pool
                     /\ thr_id_counter' = thr_id_counter
<1>. DEFINE top == <<cur_thr>> \o dn
            e == Done(state)
<1>1. Scheduled
  BY DEF done_get_next
<1>2. /\ e \in DataRecord /\ e.counter = thr_id_counter
      /\ q # <<>> => e.cur = q[1] /\ e.cur # NULL /\ Lists(e, Tail(q), f, top, {q[1]})
      /\ q = <<>> => e.cur = NULL /\ Lists(e, q, f, top, {})
      /\ SameThreads(e.pool, tcb_pool, Tcb)
      /\ SameStates(e.pool, tcb_pool, Tcb \ {cur_thr})
      /\ e.pool[cur_thr].state = state
  BY <1>1, DoneData
<1>3. \/ ready_queue # NULL /\ Run(e)
      \/ ready_queue = NULL /\ Become(e) /\ control' = "final"
  BY DEF done_get_next
<1>4. ready_queue = NULL <=> q = <<>>
  <2>1. Chain(Data.pool, q, ready_queue)
    BY DEF Lists, Data
  <2>. QED BY <2>1, ChainEls
<1>. HIDE DEF e, top
<1>5. CASE q # <<>>
  <2>1. Runs(Tail(q), f, top, e.cur, e.pool, e.counter)
    BY <1>2, <1>3, <1>4, <1>5, RunStep
  <2>. QED BY <1>2, <1>5, <2>1 DEF top
<1>6. CASE q = <<>>
  <2>1. Become(e) /\ control' = "final"
    BY <1>3, <1>4, <1>6
  <2>2. Data' = e
    BY <1>2, <2>1, BecomeData
  <2>3. cur_thr' = e.cur /\ tcb_pool' = e.pool /\ thr_id_counter' = e.counter
    BY <2>1 DEF Become
  <2>. QED BY <1>2, <1>6, <2>1, <2>2, <2>3 DEF top
<1>. QED BY <1>5, <1>6

\* start_scheduling: the first ready thread runs, if there is one.
LEMMA StartStep ==
  ASSUME TypeOK, ListInv, start_scheduling \/ start_nothing,
         NEW q, NEW f, NEW dn, Lists(DO_INIT, q, f, dn, {})
  PROVE  /\ start_scheduling =>
              q # <<>> /\ Runs(Tail(q), f, dn, q[1], DO_INIT.pool, DO_INIT.counter)
         /\ start_nothing =>
              /\ q = <<>> /\ cur_thr' = NULL /\ control' = control
              /\ Lists(Data', q, f, dn, {}) /\ tcb_pool' = DO_INIT.pool
              /\ thr_id_counter' = DO_INIT.counter
<1>. DEFINE e == READY_DEQUEUE(DO_INIT)
<1>1. DO_INIT \in DataRecord
  BY InitInv
<1>2. /\ q = <<>> => e.cur = NULL /\ Lists(e, q, f, dn, {})
      /\ q # <<>> => e.cur = q[1] /\ Lists(e, Tail(q), f, dn, {e.cur})
      /\ e.pool = DO_INIT.pool /\ e.cur = DO_INIT.head
  BY <1>1, DequeueLists
<1>3. e \in DataRecord /\ e.counter = DO_INIT.counter
  BY <1>1, DequeueType DEF READY_DEQUEUE, DataRecord
<1>4. DO_INIT.head = NULL <=> q = <<>>
  <2>1. Chain(DO_INIT.pool, q, DO_INIT.head)
    BY DEF Lists
  <2>. QED BY <2>1, ChainEls
<1>5. /\ start_scheduling => Run(e) /\ DO_INIT.head # NULL
      /\ start_nothing => Become(e) /\ DO_INIT.head = NULL /\ control' = control
  BY DEF start_scheduling, start_nothing
<1>. HIDE DEF e
<1>6. ASSUME start_scheduling
      PROVE  q # <<>> /\ Runs(Tail(q), f, dn, q[1], DO_INIT.pool, DO_INIT.counter)
  <2>1. Runs(Tail(q), f, dn, e.cur, e.pool, e.counter)
    BY <1>2, <1>3, <1>4, <1>5, <1>6, RunStep
  <2>. QED BY <1>2, <1>3, <1>4, <1>5, <1>6, <2>1
<1>7. ASSUME start_nothing
      PROVE  /\ q = <<>> /\ cur_thr' = NULL /\ control' = control
             /\ Lists(Data', q, f, dn, {}) /\ tcb_pool' = DO_INIT.pool
             /\ thr_id_counter' = DO_INIT.counter
  <2>1. Become(e) /\ q = <<>>
    BY <1>4, <1>5, <1>7
  <2>2. Data' = e
    BY <1>3, <2>1, BecomeData
  <2>3. cur_thr' = e.cur /\ tcb_pool' = e.pool /\ thr_id_counter' = e.counter
    BY <2>1 DEF Become
  <2>. QED BY <1>2, <1>3, <1>5, <1>7, <2>1, <2>2, <2>3
<1>. QED BY <1>6, <1>7

\* register_thread_portal: a free TCB, with the next id, goes behind the ready ones.
LEMMA RegisterStep ==
  ASSUME TypeOK, ListInv, NEW sm \in SM, NEW entry \in Entry,
         register_thread_portal(sm, entry),
         NEW q, NEW f, NEW dn, Lists(DO_INIT, q, f, dn, Current)
  PROVE  \E t \in Els(f) :
           /\ t \notin Current /\ f # <<>>
           /\ Lists(Data', Append(q, t), Tail(f), dn, Current) /\ Els(Tail(f)) = Els(f) \ {t}
           /\ cur_thr' = cur_thr /\ control' = control
           /\ thr_id_counter' = DO_INIT.counter + 1
           /\ tcb_pool'[t].thr_id = DO_INIT.counter
           /\ tcb_pool'[t].pub_start = sm /\ tcb_pool'[t].entry = entry
           /\ tcb_pool'[t].state = "REGISTERED"
           /\ SameThreads(tcb_pool', DO_INIT.pool, Tcb \ {t})
           /\ SameStates(tcb_pool', DO_INIT.pool, Tcb \ {t})
<1>. DEFINE t == DO_INIT.free
            a == ALLOC_TCB(DO_INIT, sm, entry)
            c == [a EXCEPT !.counter = @ + 1]
            e == READY_ENQUEUE(c, t)
<1>1. DO_INIT.free # NULL /\ Become(e) /\ control' = control
  BY DEF register_thread_portal
<1>2. DO_INIT \in DataRecord /\ DO_INIT.cur = cur_thr
  BY InitInv
<1>3. a \in DataRecord
  BY <1>1, <1>2, AllocType
<1>4. /\ Lists(a, q, Tail(f), dn, Current \cup {t}) /\ t \in Tcb \ Current
      /\ a.pool[t].next = NULL /\ a.cur = cur_thr
  BY <1>1, <1>2, AllocLists
<1>5. /\ f # <<>> /\ t \in Els(f) /\ Els(Tail(f)) = Els(f) \ {t}
  <2>1. Chain(DO_INIT.pool, f, t)
    BY DEF Lists
  <2>. QED BY <1>1, <2>1, ChainEls, ChainTail
<1>6. /\ a.pool = [DO_INIT.pool EXCEPT ![t] =
                     [thr_id |-> DO_INIT.counter, pub_start |-> sm,
                      entry |-> entry, state |-> "REGISTERED", next |-> NULL]]
      /\ a.counter = DO_INIT.counter
  BY <1>2 DEF ALLOC_TCB, DataRecord
<1>7. /\ a.pool[t] = [thr_id |-> DO_INIT.counter, pub_start |-> sm,
                      entry |-> entry, state |-> "REGISTERED", next |-> NULL]
      /\ SameThreads(a.pool, DO_INIT.pool, Tcb \ {t})
      /\ SameStates(a.pool, DO_INIT.pool, Tcb \ {t})
  <2>1. DO_INIT.pool \in [Tcb -> TcbRecord] /\ t \in Tcb
    BY <1>2, <1>4 DEF DataRecord
  <2>. HIDE DEF a, t
  <2>. QED BY <1>6, <2>1 DEF SameThreads, SameStates
<1>. HIDE DEF a, t
<1>8. /\ c \in DataRecord /\ c.cur = cur_thr /\ c.pool = a.pool
      /\ c.head = a.head /\ c.tail = a.tail /\ c.free = a.free /\ c.done = a.done
      /\ c.counter = a.counter + 1
  BY <1>3, <1>4 DEF DataRecord
<1>. HIDE DEF c
<1>9. Lists(c, q, Tail(f), dn, Current \cup {t})
  BY <1>4, <1>8, ListsFrame
<1>10. Lists(e, Append(q, t), Tail(f), dn, Current)
  <2>1. t \in Current \cup {t} /\ (c.head = NULL => c.pool[t].next = NULL)
    BY <1>4, <1>8
  <2>2. (Current \cup {t}) \ {t} = Current
    BY <1>4
  <2>. DEFINE g == Tail(f)  X == Current \cup {t}
  <2>. HIDE DEF g, X
  <2>3. Lists(c, q, g, dn, X) /\ t \in X
    BY <1>9, <2>1 DEF g, X
  <2>4. Lists(e, Append(q, t), g, dn, X \ {t})
    BY <1>8, <2>1, <2>3, EnqueueLists
  <2>. QED BY <2>2, <2>4 DEF g, X
<1>11. /\ SameThreads(e.pool, c.pool, Tcb) /\ SameStates(e.pool, c.pool, Tcb)
       /\ e.counter = c.counter /\ e.cur = c.cur
  BY <1>4, <1>8, EnqueueSame
<1>12. e \in DataRecord
  BY <1>4, <1>8, EnqueueType DEF Pointer
<1>. HIDE DEF e
<1>13. Data' = e
  BY <1>1, <1>12, BecomeData
<1>14. cur_thr' = e.cur /\ tcb_pool' = e.pool /\ thr_id_counter' = e.counter
  BY <1>1 DEF Become
<1>15. /\ SameThreads(e.pool, DO_INIT.pool, Tcb \ {t})
       /\ SameStates(e.pool, DO_INIT.pool, Tcb \ {t})
       /\ e.pool[t].thr_id = DO_INIT.counter /\ e.pool[t].pub_start = sm
       /\ e.pool[t].entry = entry /\ e.pool[t].state = "REGISTERED"
  BY <1>4, <1>7, <1>8, <1>11 DEF SameThreads, SameStates
<1>. QED
  BY <1>1, <1>4, <1>5, <1>6, <1>8, <1>10, <1>11, <1>13, <1>14, <1>15

-----------------------------------------------------------------------------
(* The invariant.                                                           *)

\* The TCBs in pool are what their places say: those in q can be dispatched,
\* those in dn are done, cur runs, and those that are not in f have ids of their
\* own below counter, which counts the allocations.
Placed(pool, counter, cur, q, f, dn) ==
  /\ \A t \in Tcb : pool[t].state = "RUNNING" <=> t = cur
  /\ \A t \in Els(q) :
       /\ pool[t].state \in {"REGISTERED", "BUSY", "READY"}
       /\ pool[t].state = "READY" => pool[t].entry = RETURN
       /\ pool[t].state = "REGISTERED" => pool[t].entry \in Entry
  /\ \A t \in Els(dn) : pool[t].state \in {"FINISHED", "KILLED"}
  /\ \A t \in Tcb \ Els(f) : pool[t].thr_id \in 1 .. counter - 1
  /\ \A t, u \in Tcb \ Els(f) : pool[t].thr_id = pool[u].thr_id => t = u
  /\ counter \in Nat \ {0}
  /\ counter + Len(f) = SCHED_MAX_NB_THREADS + 1

ThreadInv ==
  /\ \E q, f, dn :
       /\ Lists(DO_INIT, q, f, dn, Current)
       /\ Placed(DO_INIT.pool, DO_INIT.counter, cur_thr, q, f, dn)
  /\ ~ init_done => done_queue = NULL /\ ~ sched_running

\* The elements of q behind the first, and with one more.
LEMMA ElsTailAppend ==
  ASSUME NEW q \in Seq(Tcb)
  PROVE  /\ q # <<>> => Els(Tail(q)) \subseteq Els(q) /\ q[1] \in Els(q)
         /\ \A t \in Tcb : /\ Append(q, t) \in Seq(Tcb) /\ Append(q, t) # <<>>
                           /\ Els(Append(q, t)) = Els(q) \cup {t}
<1>1. ASSUME q # <<>>
      PROVE  Els(Tail(q)) \subseteq Els(q) /\ q[1] \in Els(q)
  <2>1. /\ Len(q) \in Nat \ {0} /\ Len(Tail(q)) = Len(q) - 1
        /\ \A i \in 1 .. Len(Tail(q)) : Tail(q)[i] = q[i + 1]
    BY <1>1
  <2>2. \A i \in 1 .. Len(Tail(q)) : i + 1 \in 1 .. Len(q)
    BY <2>1
  <2>3. 1 \in 1 .. Len(q)
    BY <2>1
  <2>. QED BY <2>1, <2>2, <2>3 DEF Els
<1>2. ASSUME NEW t \in Tcb
      PROVE  /\ Append(q, t) \in Seq(Tcb) /\ Append(q, t) # <<>>
             /\ Els(Append(q, t)) = Els(q) \cup {t}
  <2>. DEFINE r == Append(q, t)
              n == Len(q)
  <2>1. /\ n \in Nat /\ Len(r) = n + 1 /\ r[n + 1] = t
        /\ \A i \in 1 .. n : r[i] = q[i]
    OBVIOUS
  <2>2. 1 .. n + 1 = (1 .. n) \cup {n + 1}
    BY <2>1
  <2>3. Els(r) = {r[i] : i \in (1 .. n) \cup {n + 1}}
    BY <2>1, <2>2 DEF Els
  <2>4. Els(q) = {q[i] : i \in 1 .. n}
    BY DEF Els
  <2>5. r \in Seq(Tcb) /\ r # <<>>
    BY <2>1
  <2>. HIDE DEF r, n
  <2>6. Els(r) = Els(q) \cup {t}
    BY <2>1, <2>3, <2>4
  <2>. QED BY <2>5, <2>6 DEF r
<1>. QED BY <1>1, <1>2

\* The elements of q and one more in front.
LEMMA ElsPush ==
  ASSUME NEW q \in Seq(Tcb), NEW t \in Tcb
  PROVE  Els(<<t>> \o q) = Els(q) \cup {t}
<1>. DEFINE r == <<t>> \o q
            n == Len(q)
<1>1. /\ n \in Nat /\ Len(r) = n + 1 /\ r[1] = t
      /\ \A i \in 1 .. n : r[i + 1] = q[i]
  OBVIOUS
<1>2. /\ Els(r) = {r[i] : i \in 1 .. n + 1} /\ Els(q) = {q[i] : i \in 1 .. n}
  BY <1>1 DEF Els
<1>. HIDE DEF r, n
<1>3. /\ \A i \in 1 .. n : i + 1 \in 1 .. n + 1
      /\ \A i \in 1 .. n + 1 : i = 1 \/ (i - 1 \in 1 .. n /\ r[i] = q[i - 1])
      /\ 1 \in 1 .. n + 1
  BY <1>1
<1>4. Els(r) \subseteq Els(q) \cup {t}
  BY <1>1, <1>2, <1>3
<1>5. Els(q) \subseteq Els(r) /\ t \in Els(r)
  BY <1>1, <1>2, <1>3
<1>. QED BY <1>4, <1>5 DEF r

\* Running the first of the threads that can be dispatched.
LEMMA RunPlaced ==
  ASSUME NEW pool, NEW counter, NEW r \in Seq(Tcb), NEW f, NEW dn, r # <<>>,
         Placed(pool, counter, NULL, r, f, dn),
         Runs(Tail(r), f, dn, r[1], pool, counter),
         init_done', sched_running'
  PROVE  ThreadInv'
<1>1. /\ Lists(Data', Tail(r), f, dn, {r[1]}) /\ r[1] \in Tcb /\ cur_thr' = r[1]
      /\ thr_id_counter' = counter
      /\ SameThreads(tcb_pool', pool, Tcb)
      /\ SameStates(tcb_pool', pool, Tcb \ {r[1]})
      /\ tcb_pool'[r[1]].state = "RUNNING"
  BY DEF Runs
<1>2. /\ r[1] \notin Els(Tail(r)) /\ r[1] \notin Els(dn)
      /\ Els(Tail(r)) \subseteq Els(r) /\ Els(Tail(r)) \subseteq Tcb
      /\ Els(dn) \subseteq Tcb /\ NULL \notin Tcb
  BY <1>1, ElsTailAppend DEF Lists, Disjoint, NULL, Tcb
<1>3. Placed(tcb_pool', counter, r[1], Tail(r), f, dn)
  <2>1. \A t \in Tcb : tcb_pool'[t].state = "RUNNING" <=> t = r[1]
    BY <1>1, <1>2 DEF Placed, SameStates
  <2>2. \A t \in Els(Tail(r)) :
          /\ tcb_pool'[t].state \in {"REGISTERED", "BUSY", "READY"}
          /\ tcb_pool'[t].state = "READY" => tcb_pool'[t].entry = RETURN
          /\ tcb_pool'[t].state = "REGISTERED" => tcb_pool'[t].entry \in Entry
    BY <1>1, <1>2 DEF Placed, SameStates, SameThreads
  <2>3. \A t \in Els(dn) : tcb_pool'[t].state \in {"FINISHED", "KILLED"}
    BY <1>1, <1>2 DEF Placed, SameStates
  <2>4. /\ \A t \in Tcb \ Els(f) : tcb_pool'[t].thr_id \in 1 .. counter - 1
        /\ \A t, u \in Tcb \ Els(f) :
             tcb_pool'[t].thr_id = tcb_pool'[u].thr_id => t = u
    BY <1>1 DEF Placed, SameThreads
  <2>. QED BY <2>1, <2>2, <2>3, <2>4 DEF Placed
<1>4. /\ DO_INIT' = Data' /\ Data'.pool = tcb_pool' /\ Data'.counter = counter
      /\ Current' = {r[1]}
  BY <1>1, <1>2 DEF DO_INIT, Data, Current
<1>. QED BY <1>1, <1>3, <1>4 DEF ThreadInv

\* The current thread is put behind the ready ones.
LEMMA RotatePlaced ==
  ASSUME NEW p, NEW pool, NEW counter, NEW cur \in Tcb, NEW q \in Seq(Tcb), NEW f, NEW dn,
         Placed(p, counter, cur, q, f, dn), cur \notin Els(q), cur \notin Els(dn),
         Els(q) \subseteq Tcb, Els(dn) \subseteq Tcb,
         SameThreads(pool, p, Tcb \ {cur}), SameStates(pool, p, Tcb \ {cur}),
         pool[cur].thr_id = p[cur].thr_id,
         \/ pool[cur].state = "READY" /\ pool[cur].entry = RETURN
         \/ pool[cur].state = "BUSY"
  PROVE  Placed(pool, counter, NULL, Append(q, cur), f, dn)
<1>1. NULL \notin Tcb
  BY DEF NULL, Tcb
<1>2. Els(Append(q, cur)) = Els(q) \cup {cur}
  BY ElsTailAppend
<1>3. \A t \in Tcb : pool[t].state = "RUNNING" <=> t = NULL
  BY <1>1 DEF Placed, SameStates
<1>4. \A t \in Els(q) \cup {cur} :
        /\ pool[t].state \in {"REGISTERED", "BUSY", "READY"}
        /\ pool[t].state = "READY" => pool[t].entry = RETURN
        /\ pool[t].state = "REGISTERED" => pool[t].entry \in Entry
  BY DEF Placed, SameStates, SameThreads
<1>5. \A t \in Els(dn) : pool[t].state \in {"FINISHED", "KILLED"}
  BY DEF Placed, SameStates
<1>6. /\ \A t \in Tcb \ Els(f) : pool[t].thr_id \in 1 .. counter - 1
      /\ \A t, u \in Tcb \ Els(f) : pool[t].thr_id = pool[u].thr_id => t = u
  <2>1. \A t \in Tcb : pool[t].thr_id = p[t].thr_id
    BY DEF SameThreads
  <2>. QED BY <2>1 DEF Placed
<1>. QED BY <1>2, <1>3, <1>4, <1>5, <1>6 DEF Placed

\* A change of lists and contents by which no thread is dispatched.
LEMMA StepPlaced ==
  ASSUME NEW q, NEW f, NEW dn, init_done',
         Lists(Data', q, f, dn, Current'),
         Placed(tcb_pool', thr_id_counter', cur_thr', q, f, dn)
  PROVE  ThreadInv'
<1>1. DO_INIT' = Data' /\ Data'.pool = tcb_pool' /\ Data'.counter = thr_id_counter'
  BY DEF DO_INIT, Data
<1>. QED BY <1>1 DEF ThreadInv

\* The lists of the data an API function works on, when a thread calls it.
LEMMA ScheduledInv ==
  ASSUME TypeOK, ListInv, ThreadInv, Scheduled
  PROVE  \E q, f, dn :
           /\ q \in Seq(Tcb) /\ Lists(Data, q, f, dn, {cur_thr})
           /\ Placed(tcb_pool, thr_id_counter, cur_thr, q, f, dn)
           /\ cur_thr \notin Els(q) /\ cur_thr \notin Els(dn)
           /\ Els(q) \subseteq Tcb /\ Els(dn) \subseteq Tcb
<1>1. PICK q, f, dn :
        /\ Lists(DO_INIT, q, f, dn, Current)
        /\ Placed(DO_INIT.pool, DO_INIT.counter, cur_thr, q, f, dn)
  BY DEF ThreadInv
<1>2. /\ DO_INIT = Data /\ Data.pool = tcb_pool /\ Data.counter = thr_id_counter
      /\ Current = {cur_thr}
  BY ScheduledData
<1>3. q \in Seq(Tcb)
  BY <1>1 DEF Lists, Chain
<1>4. /\ cur_thr \notin Els(q) /\ cur_thr \notin Els(dn)
      /\ Els(q) \subseteq Tcb /\ Els(dn) \subseteq Tcb
  BY <1>1, <1>2 DEF Lists, Disjoint
<1>. QED BY <1>1, <1>2, <1>3, <1>4

\* A yield keeps every thread at its place: the current one becomes READY, to be
\* resumed at 0xFFFF, and goes behind the others.
LEMMA YieldPlaced ==
  ASSUME TypeOK, ListInv, ThreadInv, NEW sm \in SM, yield_get_next(sm)
  PROVE  ThreadInv'
<1>1. Scheduled /\ cur_thr \in Tcb /\ init_done' /\ sched_running'
  BY ScheduledData DEF yield_get_next, Scheduled
<1>2. PICK q, f, dn :
        /\ q \in Seq(Tcb) /\ Lists(Data, q, f, dn, {cur_thr})
        /\ Placed(tcb_pool, thr_id_counter, cur_thr, q, f, dn)
        /\ cur_thr \notin Els(q) /\ cur_thr \notin Els(dn)
        /\ Els(q) \subseteq Tcb /\ Els(dn) \subseteq Tcb
  BY <1>1, ScheduledInv
<1>. DEFINE r == Append(q, cur_thr)
<1>3. PICK pool :
        /\ SameThreads(pool, tcb_pool, Tcb \ {cur_thr})
        /\ SameStates(pool, tcb_pool, Tcb \ {cur_thr})
        /\ pool[cur_thr].thr_id = tcb_pool[cur_thr].thr_id
        /\ pool[cur_thr].state = "READY" /\ pool[cur_thr].entry = RETURN
        /\ Runs(Tail(r), f, dn, r[1], pool, thr_id_counter)
  BY <1>1, <1>2, YieldStep
<1>4. Placed(pool, thr_id_counter, NULL, r, f, dn)
  BY <1>1, <1>2, <1>3, RotatePlaced
<1>5. r \in Seq(Tcb) /\ r # <<>>
  BY <1>1, <1>2, ElsTailAppend
<1>. HIDE DEF r
<1>. QED BY <1>1, <1>3, <1>4, <1>5, RunPlaced

\* A busy answer: the current thread becomes BUSY, with the entry it had.
LEMMA BusyPlaced ==
  ASSUME TypeOK, ListInv, ThreadInv, busy_get_next
  PROVE  ThreadInv'
<1>1. Scheduled /\ cur_thr \in Tcb /\ init_done' /\ sched_running'
  BY ScheduledData DEF busy_get_next, Scheduled
<1>2. PICK q, f, dn :
        /\ q \in Seq(Tcb) /\ Lists(Data, q, f, dn, {cur_thr})
        /\ Placed(tcb_pool, thr_id_counter, cur_thr, q, f, dn)
        /\ cur_thr \notin Els(q) /\ cur_thr \notin Els(dn)
        /\ Els(q) \subseteq Tcb /\ Els(dn) \subseteq Tcb
  BY <1>1, ScheduledInv
<1>. DEFINE r == Append(q, cur_thr)
<1>3. PICK pool :
        /\ SameThreads(pool, tcb_pool, Tcb \ {cur_thr})
        /\ SameStates(pool, tcb_pool, Tcb \ {cur_thr})
        /\ pool[cur_thr].thr_id = tcb_pool[cur_thr].thr_id
        /\ pool[cur_thr].state = "BUSY"
        /\ Runs(Tail(r), f, dn, r[1], pool, thr_id_counter)
  BY <1>1, <1>2, BusyStep DEF SameThreads
<1>4. Placed(pool, thr_id_counter, NULL, r, f, dn)
  BY <1>1, <1>2, <1>3, RotatePlaced
<1>5. r \in Seq(Tcb) /\ r # <<>>
  BY <1>1, <1>2, ElsTailAppend
<1>. HIDE DEF r
<1>. QED BY <1>1, <1>3, <1>4, <1>5, RunPlaced

\* A finished or killed thread goes to the done stack, as such.
LEMMA DonePlaced ==
  ASSUME TypeOK, ListInv, ThreadInv,
         NEW state \in {"FINISHED", "KILLED"}, done_get_next(state)
  PROVE  ThreadInv'
<1>1. Scheduled /\ init_done /\ cur_thr \in Tcb /\ init_done' /\ sched_running'
  BY ScheduledData DEF done_get_next, Scheduled
<1>2. PICK q, f, dn :
        /\ q \in Seq(Tcb) /\ Lists(Data, q, f, dn, {cur_thr})
        /\ Placed(tcb_pool, thr_id_counter, cur_thr, q, f, dn)
        /\ cur_thr \notin Els(q) /\ cur_thr \notin Els(dn)
        /\ Els(q) \subseteq Tcb /\ Els(dn) \subseteq Tcb
  BY <1>1, ScheduledInv
<1>. DEFINE top == <<cur_thr>> \o dn
<1>3. PICK pool :
        /\ SameThreads(pool, tcb_pool, Tcb)
        /\ SameStates(pool, tcb_pool, Tcb \ {cur_thr})
        /\ pool[cur_thr].state = state
        /\ \/ q # <<>> /\ Runs(Tail(q), f, top, q[1], pool, thr_id_counter)
           \/ /\ q = <<>> /\ cur_thr' = NULL /\ control' = "final"
              /\ Lists(Data', q, f, top, {}) /\ tcb_pool' = pool
              /\ thr_id_counter' = thr_id_counter
  BY <1>1, <1>2, DoneStep, ZenonT(60)
<1>4. Els(top) = Els(dn) \cup {cur_thr}
  <2>1. dn \in Seq(Tcb)
    BY <1>2 DEF Lists, Chain
  <2>. QED BY <1>1, <2>1, ElsPush
<1>. HIDE DEF top
<1>5. Placed(pool, thr_id_counter, NULL, q, f, top)
  <2>1. NULL \notin Tcb
    BY DEF NULL, Tcb
  <2>2. \A t \in Tcb : pool[t].state = "RUNNING" <=> t = NULL
    BY <1>2, <1>3, <2>1 DEF Placed, SameStates
  <2>3. \A t \in Els(q) :
          /\ pool[t].state \in {"REGISTERED", "BUSY", "READY"}
          /\ pool[t].state = "READY" => pool[t].entry = RETURN
          /\ pool[t].state = "REGISTERED" => pool[t].entry \in Entry
    BY <1>2, <1>3 DEF Placed, SameStates, SameThreads
  <2>4. \A t \in Els(top) : pool[t].state \in {"FINISHED", "KILLED"}
    BY <1>2, <1>3, <1>4 DEF Placed, SameStates
  <2>5. /\ \A t \in Tcb \ Els(f) : pool[t].thr_id \in 1 .. thr_id_counter - 1
        /\ \A t, u \in Tcb \ Els(f) : pool[t].thr_id = pool[u].thr_id => t = u
    BY <1>2, <1>3 DEF Placed, SameThreads
  <2>. QED BY <1>2, <2>2, <2>3, <2>4, <2>5 DEF Placed
<1>6. CASE q # <<>> /\ Runs(Tail(q), f, top, q[1], pool, thr_id_counter)
  BY <1>1, <1>2, <1>5, <1>6, RunPlaced
<1>7. CASE q = <<>> /\ cur_thr' = NULL /\ Lists(Data', q, f, top, {})
           /\ tcb_pool' = pool /\ thr_id_counter' = thr_id_counter
  <2>1. Current' = {}
    BY <1>7 DEF Current
  <2>. QED BY <1>1, <1>5, <1>7, <2>1, StepPlaced
<1>. QED BY <1>3, <1>6, <1>7

\* A registered thread has an id no other thread has had.
LEMMA RegisterPlaced ==
  ASSUME TypeOK, ListInv, ThreadInv, NEW sm \in SM, NEW entry \in Entry,
         register_thread_portal(sm, entry)
  PROVE  ThreadInv'
<1>1. PICK q, f, dn :
        /\ Lists(DO_INIT, q, f, dn, Current)
        /\ Placed(DO_INIT.pool, DO_INIT.counter, cur_thr, q, f, dn)
  BY DEF ThreadInv
<1>2. PICK t \in Els(f) :
        /\ t \notin Current /\ f # <<>>
        /\ Lists(Data', Append(q, t), Tail(f), dn, Current) /\ Els(Tail(f)) = Els(f) \ {t}
        /\ cur_thr' = cur_thr /\ control' = control
        /\ thr_id_counter' = DO_INIT.counter + 1
        /\ tcb_pool'[t].thr_id = DO_INIT.counter
        /\ tcb_pool'[t].pub_start = sm /\ tcb_pool'[t].entry = entry
        /\ tcb_pool'[t].state = "REGISTERED"
        /\ SameThreads(tcb_pool', DO_INIT.pool, Tcb \ {t})
        /\ SameStates(tcb_pool', DO_INIT.pool, Tcb \ {t})
  BY <1>1, RegisterStep
<1>. DEFINE counter == DO_INIT.counter  p == DO_INIT.pool
<1>3. /\ q \in Seq(Tcb) /\ f \in Seq(Tcb) /\ Els(f) \subseteq Tcb
      /\ Els(q) \subseteq Tcb \ Els(f) /\ Els(dn) \subseteq Tcb \ Els(f)
      /\ Current \subseteq Tcb \ Els(f) /\ NULL \notin Tcb
  <2>1. q \in Seq(Tcb) /\ f \in Seq(Tcb) /\ NULL \notin Tcb
    BY <1>1 DEF Lists, Chain, NULL, Tcb
  <2>. QED BY <1>1, <2>1 DEF Lists, Disjoint
<1>4. t \in Tcb /\ cur_thr # t /\ Els(Append(q, t)) = Els(q) \cup {t}
  BY <1>2, <1>3, ElsTailAppend DEF Current
<1>5. Placed(p, counter, cur_thr, q, f, dn)
  BY <1>1
<1>. HIDE DEF p, counter
<1>6. Placed(tcb_pool', counter + 1, cur_thr, Append(q, t), Tail(f), dn)
  <2>1. \A u \in Tcb : tcb_pool'[u].state = "RUNNING" <=> u = cur_thr
    BY <1>2, <1>4, <1>5 DEF Placed, SameStates, p
  <2>2. \A u \in Els(q) \cup {t} :
          /\ tcb_pool'[u].state \in {"REGISTERED", "BUSY", "READY"}
          /\ tcb_pool'[u].state = "READY" => tcb_pool'[u].entry = RETURN
          /\ tcb_pool'[u].state = "REGISTERED" => tcb_pool'[u].entry \in Entry
    BY <1>2, <1>3, <1>5 DEF Placed, SameStates, SameThreads, p
  <2>3. \A u \in Els(dn) : tcb_pool'[u].state \in {"FINISHED", "KILLED"}
    BY <1>2, <1>3, <1>5 DEF Placed, SameStates, p
  <2>4. counter \in Nat \ {0} /\ tcb_pool'[t].thr_id = counter
    BY <1>2, <1>5 DEF Placed, counter
  <2>5. \A u \in Tcb \ Els(f) : /\ tcb_pool'[u].thr_id = p[u].thr_id
                                /\ p[u].thr_id \in 1 .. counter - 1
    BY <1>2, <1>5 DEF Placed, SameThreads, p
  <2>6. Tcb \ Els(Tail(f)) = (Tcb \ Els(f)) \cup {t}
    BY <1>2, <1>4
  <2>7. \A u \in Tcb \ Els(Tail(f)) : tcb_pool'[u].thr_id \in 1 .. (counter + 1) - 1
    BY <2>4, <2>5, <2>6
  <2>8. ASSUME NEW u \in Tcb \ Els(Tail(f)), NEW v \in Tcb \ Els(Tail(f)),
               tcb_pool'[u].thr_id = tcb_pool'[v].thr_id
        PROVE  u = v
    <3>1. CASE u = t \/ v = t
      BY <2>4, <2>5, <2>6, <2>8, <3>1
    <3>2. CASE u # t /\ v # t
      BY <1>5, <2>5, <2>6, <2>8, <3>2 DEF Placed
    <3>. QED BY <3>1, <3>2
  <2>9. (counter + 1) + Len(Tail(f)) = SCHED_MAX_NB_THREADS + 1
    <3>1. Len(f) \in Nat \ {0} /\ Len(Tail(f)) = Len(f) - 1
      BY <1>2, <1>3
    <3>2. counter + Len(f) = SCHED_MAX_NB_THREADS + 1
      BY <1>5 DEF Placed
    <3>. QED BY <2>4, <3>1, <3>2
  <2>10. counter + 1 \in Nat \ {0}
    BY <2>4
  <2>. QED BY <1>4, <2>1, <2>2, <2>3, <2>7, <2>8, <2>9, <2>10 DEF Placed
<1>7. init_done' /\ Current' = Current
  BY <1>2 DEF register_thread_portal, Current
<1>. QED BY <1>2, <1>6, <1>7, StepPlaced DEF counter

\* start_scheduling: the first thread runs, or there is none and nothing moves.
LEMMA StartPlaced ==
  ASSUME TypeOK, ListInv, ThreadInv, start_scheduling \/ start_nothing
  PROVE  ThreadInv'
<1>1. /\ cur_thr = NULL /\ Current = {} /\ init_done' /\ sched_running'
  BY DEF start_scheduling, start_nothing, Live, ListInv, Current
<1>2. PICK q, f, dn :
        /\ Lists(DO_INIT, q, f, dn, {})
        /\ Placed(DO_INIT.pool, DO_INIT.counter, NULL, q, f, dn)
  BY <1>1 DEF ThreadInv
<1>3. q \in Seq(Tcb)
  BY <1>2 DEF Lists, Chain
<1>4. CASE start_scheduling
  <2>1. q # <<>> /\ Runs(Tail(q), f, dn, q[1], DO_INIT.pool, DO_INIT.counter)
    BY <1>2, <1>4, StartStep
  <2>. QED BY <1>1, <1>2, <1>3, <2>1, RunPlaced
<1>5. CASE start_nothing
  <2>1. /\ q = <<>> /\ cur_thr' = NULL /\ Lists(Data', q, f, dn, {})
        /\ tcb_pool' = DO_INIT.pool /\ thr_id_counter' = DO_INIT.counter
    BY <1>2, <1>5, StartStep
  <2>2. Current' = {}
    BY <2>1 DEF Current
  <2>. QED BY <1>1, <1>2, <2>1, <2>2, StepPlaced
<1>. QED BY <1>4, <1>5

\* init_data_structures: all TCBs are free, and no id has been given.
LEMMA InitPlaced ==
  ASSUME Init
  PROVE  ThreadInv
<1>1. TypeOK /\ DO_INIT = InitialData /\ Current = {} /\ cur_thr = NULL
  BY TypeInit DEF Init, DO_INIT, Current
<1>2. PICK f : Lists(InitialData, <<>>, f, <<>>, {}) /\ Len(f) = SCHED_MAX_NB_THREADS
  BY <1>1, InitialLists
<1>3. Els(<<>>) = {} /\ Els(f) = Tcb
  <2>1. Els(<<>>) = {}
    BY DEF Els
  <2>. QED BY <1>2, <2>1 DEF Lists
<1>4. \A t \in Tcb : InitialData.pool[t].state = "REGISTERED"
  BY <1>1 DEF Init, InitialData, TypeOK, TcbRecord
<1>5. NULL \notin Tcb /\ InitialData.counter = 1 /\ SCHED_MAX_NB_THREADS \in Nat
  BY PoolAssumption DEF NULL, Tcb, InitialData
<1>6. Placed(InitialData.pool, InitialData.counter, NULL, <<>>, f, <<>>)
  BY <1>2, <1>3, <1>4, <1>5 DEF Placed
<1>. QED BY <1>1, <1>2, <1>6 DEF ThreadInv, Init

\* ThreadInv is inductive: no call of the scheduler brings the place of a TCB, its
\* state and its thread's identity apart.
THEOREM ThreadsPlaced == Spec => []ThreadInv
<1>1. ASSUME TypeOK, ListInv, ThreadInv, [Next]_vars
      PROVE  ThreadInv'
  <2>. USE <1>1
  <2>1. CASE initialize_scheduler
    <3>1. /\ Become(DO_INIT) /\ init_done' /\ DO_INIT \in DataRecord
          /\ DO_INIT.cur = cur_thr
      BY <2>1, InitInv DEF initialize_scheduler
    <3>2. /\ Data' = DO_INIT /\ cur_thr' = cur_thr /\ tcb_pool' = DO_INIT.pool
          /\ thr_id_counter' = DO_INIT.counter
      BY <3>1, BecomeData DEF Become
    <3>3. Current' = Current
      BY <3>2 DEF Current
    <3>. QED BY <3>1, <3>2, <3>3, StepPlaced DEF ThreadInv
  <2>2. ASSUME NEW sm \in SM, NEW entry \in Entry, register_thread_portal(sm, entry)
        PROVE  ThreadInv'
    BY <2>2, RegisterPlaced
  <2>3. CASE start_scheduling \/ start_nothing
    BY <2>3, StartPlaced
  <2>4. ASSUME NEW sm \in SM, yield_get_next(sm)
        PROVE  ThreadInv'
    BY <2>4, YieldPlaced
  <2>5. CASE busy_get_next
    BY <2>5, BusyPlaced
  <2>6. ASSUME NEW state \in {"FINISHED", "KILLED"}, done_get_next(state)
        PROVE  ThreadInv'
    BY <2>6, DonePlaced
  <2>7. CASE \/ start_scheduling_return \/ register_exhausted \/ start_again
             \/ yield_not_running \/ done_not_running \/ null_cur_thr \/ spin
             \/ UNCHANGED vars
    <3>1. /\ UNCHANGED <<tcb_pool, free_tcb_list, ready_queue, ready_queue_tail,
                         done_queue, cur_thr, thr_id_counter, init_done>>
          /\ sched_running' \in {sched_running, FALSE}
      BY <2>7 DEF start_scheduling_return, register_exhausted, start_again,
                  yield_not_running, done_not_running, null_cur_thr, spin, vars
    <3>2. Data' = Data /\ InitialData' = InitialData
      BY <3>1 DEF Data, InitialData
    <3>3. DO_INIT' = DO_INIT /\ Current' = Current
      BY <3>1, <3>2 DEF DO_INIT, Current
    <3>4. PICK q, f, dn :
            /\ Lists(DO_INIT, q, f, dn, Current)
            /\ Placed(DO_INIT.pool, DO_INIT.counter, cur_thr, q, f, dn)
      BY DEF ThreadInv
    <3>5. /\ Lists(DO_INIT', q, f, dn, Current')
          /\ Placed(DO_INIT'.pool, DO_INIT'.counter, cur_thr', q, f, dn)
      BY <3>1, <3>3, <3>4
    <3>6. ~ init_done' => done_queue' = NULL /\ ~ sched_running'
      BY <3>1 DEF ThreadInv
    <3>. QED BY <3>5, <3>6 DEF ThreadInv
  <2>. QED
    BY <2>1, <2>2, <2>3, <2>4, <2>5, <2>6, <2>7 DEF Next, ThreadStep
<1>. QED
  BY <1>1, InitPlaced, TypeCorrect, ListsCorrect, PTL DEF Spec

-----------------------------------------------------------------------------
(* The safety properties of Scheduler.                                      *)

\* Whatever sequences the data represents, Scheduler's lists are these.
LEMMA ListViews ==
  \A q, f, dn :
    Lists(Data, q, f, dn, Current) =>
      /\ ListAt(ready_queue) = q /\ Ready = Els(q)
      /\ Finished = Els(dn)
      /\ Ready \cup Finished \cup Current = Tcb \ Els(f)
<1>1. SUFFICES ASSUME NEW q, NEW f, NEW dn, Lists(Data, q, f, dn, Current)
               PROVE  /\ ListAt(ready_queue) = q /\ Ready = Els(q)
                      /\ Finished = Els(dn)
                      /\ Ready \cup Finished \cup Current = Tcb \ Els(f)
  OBVIOUS
<1>2. Chain(tcb_pool, q, ready_queue) /\ Chain(tcb_pool, dn, done_queue)
  BY <1>1 DEF Lists, Data
<1>3. /\ ListAt(ready_queue) = q /\ Ready = Els(q)
      /\ Finished = Els(dn)
  BY <1>2, ListWalk DEF Ready, Finished
<1>. QED BY <1>1, <1>3 DEF Lists, Disjoint

\* Before the initialisation, the lists are empty.
LEMMA EmptyViews ==
  /\ ready_queue = NULL => ListAt(ready_queue) = <<>> /\ Ready = {}
  /\ done_queue = NULL => Finished = {}
<1>1. Chain(tcb_pool, <<>>, NULL) /\ Els(<<>>) = {}
  BY DEF Chain, Els
<1>. QED BY <1>1, ListWalk DEF Ready, Finished

\* StatesMatchPlaces of Scheduler holds in every reachable state: what dispatch
\* reads of a TCB, its state and its entry point, fits the list it is taken from.
THEOREM StatesCorrect == Spec => []StatesMatchPlaces
<1>1. TypeOK /\ ListInv /\ ThreadInv => StatesMatchPlaces
  <2>. SUFFICES ASSUME TypeOK, ListInv, ThreadInv
                PROVE  StatesMatchPlaces
    OBVIOUS
  <2>1. PICK q, f, dn :
          /\ Lists(DO_INIT, q, f, dn, Current)
          /\ Placed(DO_INIT.pool, DO_INIT.counter, cur_thr, q, f, dn)
    BY DEF ThreadInv
  <2>2. CASE init_done
    <3>1. DO_INIT = Data /\ Data.pool = tcb_pool
      BY <2>2 DEF DO_INIT, Data
    <3>2. Ready = Els(q) /\ Finished = Els(dn)
      BY <2>1, <3>1, ListViews
    <3>. QED BY <2>1, <3>1, <3>2 DEF StatesMatchPlaces, Placed, ListInv
  <2>3. CASE ~ init_done
    <3>1. Ready = {} /\ Finished = {}
      BY <2>3, EmptyViews DEF ListInv, ThreadInv
    <3>2. \A t \in Tcb : DO_INIT.pool[t].state = tcb_pool[t].state
      BY <2>3 DEF DO_INIT, InitialData, TypeOK, TcbRecord
    <3>. QED BY <2>1, <3>1, <3>2 DEF StatesMatchPlaces, Placed, ListInv
  <2>. QED BY <2>2, <2>3
<1>. QED
  BY <1>1, TypeCorrect, ListsCorrect, ThreadsPlaced, PTL

\* UniqueIds of Scheduler holds in every reachable state: an id is never given
\* twice, so a module that is owned by a thread, even a killed one, is entered by
\* no other.
THEOREM IdsCorrect == Spec => []UniqueIds
<1>1. ListInv /\ ThreadInv => UniqueIds
  <2>. SUFFICES ASSUME ListInv, ThreadInv
                PROVE  UniqueIds
    OBVIOUS
  <2>1. PICK q, f, dn :
          /\ Lists(DO_INIT, q, f, dn, Current)
          /\ Placed(DO_INIT.pool, DO_INIT.counter, cur_thr, q, f, dn)
    BY DEF ThreadInv
  <2>2. CASE init_done
    <3>1. DO_INIT = Data /\ Data.pool = tcb_pool /\ Data.counter = thr_id_counter
      BY <2>2 DEF DO_INIT, Data
    <3>2. Ready \cup Finished \cup Current = Tcb \ Els(f)
      BY <2>1, <3>1, ListViews
    <3>. QED BY <2>1, <3>1, <3>2 DEF UniqueIds, Placed
  <2>3. CASE ~ init_done
    <3>1. Ready = {} /\ Finished = {} /\ Current = {}
      BY <2>3, EmptyViews DEF ListInv, ThreadInv, Current
    <3>. QED BY <3>1 DEF UniqueIds
  <2>. QED BY <2>2, <2>3
<1>. QED
  BY <1>1, ListsCorrect, ThreadsPlaced, PTL

\* The lists after the step hold the done TCBs of dn, with their threads and states.
Keeps(dn) ==
  /\ \E q2, f2, dn2 : /\ Lists(Data', q2, f2, dn2, Current')
                      /\ Els(dn) \subseteq Els(dn2)
  /\ SameThreads(tcb_pool', tcb_pool, Els(dn))
  /\ SameStates(tcb_pool', tcb_pool, Els(dn))

\* Dispatching a thread keeps them.
LEMMA RunKeeps ==
  ASSUME NEW q, NEW f, NEW dn, NEW dn2, NEW cur, NEW pool, NEW counter,
         Runs(q, f, dn2, cur, pool, counter), Els(dn) \subseteq Els(dn2),
         SameThreads(pool, tcb_pool, Els(dn)), SameStates(pool, tcb_pool, Els(dn))
  PROVE  Keeps(dn)
<1>1. /\ Lists(Data', q, f, dn2, {cur}) /\ cur \in Tcb /\ cur_thr' = cur
      /\ SameThreads(tcb_pool', pool, Tcb)
      /\ SameStates(tcb_pool', pool, Tcb \ {cur})
  BY DEF Runs
<1>2. Current' = {cur}
  BY <1>1 DEF Current, NULL, Tcb
<1>3. Els(dn) \subseteq Tcb \ {cur}
  BY <1>1 DEF Lists, Disjoint
<1>4. /\ SameThreads(tcb_pool', tcb_pool, Els(dn))
      /\ SameStates(tcb_pool', tcb_pool, Els(dn))
  BY <1>1, <1>3 DEF SameThreads, SameStates
<1>. QED BY <1>1, <1>2, <1>4 DEF Keeps

\* Every call of the scheduler keeps the done TCBs.
LEMMA NextKeeps ==
  ASSUME TypeOK, ListInv, ThreadInv, [Next]_vars, init_done,
         NEW q, NEW f, NEW dn, Lists(Data, q, f, dn, Current)
  PROVE  Keeps(dn)
<1>1. /\ DO_INIT = Data /\ Data.pool = tcb_pool /\ Data.cur = cur_thr
      /\ Data \in DataRecord
  BY InitialDataType DEF DO_INIT, Data
<1>2. Els(dn) \subseteq Tcb /\ cur_thr \notin Els(dn) /\ Disjoint(Els(f), Els(dn))
  BY DEF Lists, Disjoint, Current, NULL, Tcb
<1>3. ASSUME UNCHANGED <<Data, tcb_pool, cur_thr>>
      PROVE  Keeps(dn)
  <2>1. Lists(Data', q, f, dn, Current')
    BY <1>3 DEF Current
  <2>. QED BY <1>3, <2>1 DEF Keeps, SameThreads, SameStates
<1>4. CASE initialize_scheduler
  <2>1. Become(Data)
    BY <1>1, <1>4 DEF initialize_scheduler
  <2>2. Data' = Data
    BY <1>1, <2>1, BecomeData
  <2>. QED BY <1>1, <1>3, <2>1, <2>2 DEF Become
<1>5. ASSUME NEW sm \in SM, NEW entry \in Entry, register_thread_portal(sm, entry)
      PROVE  Keeps(dn)
  <2>1. PICK t \in Els(f) :
          /\ Lists(Data', Append(q, t), Tail(f), dn, Current)
          /\ cur_thr' = cur_thr
          /\ SameThreads(tcb_pool', tcb_pool, Tcb \ {t})
          /\ SameStates(tcb_pool', tcb_pool, Tcb \ {t})
    BY <1>1, <1>5, RegisterStep
  <2>2. Current' = Current
    BY <2>1 DEF Current
  <2>3. Els(dn) \subseteq Tcb \ {t}
    BY <1>2 DEF Disjoint
  <2>. QED BY <2>1, <2>2, <2>3 DEF Keeps, SameThreads, SameStates
<1>6. CASE start_scheduling \/ start_nothing
  <2>1. Current = {}
    BY <1>6 DEF start_scheduling, start_nothing, Live, ListInv, Current
  <2>2. /\ start_scheduling => Runs(Tail(q), f, dn, q[1], tcb_pool, DO_INIT.counter)
        /\ start_nothing => /\ cur_thr' = NULL /\ Lists(Data', q, f, dn, {})
                            /\ tcb_pool' = tcb_pool
    BY <1>1, <1>6, <2>1, StartStep
  <2>3. ASSUME start_scheduling PROVE Keeps(dn)
    BY <2>2, <2>3, RunKeeps DEF SameThreads, SameStates
  <2>4. ASSUME start_nothing PROVE Keeps(dn)
    <3>1. Current' = {}
      BY <2>2, <2>4 DEF Current
    <3>. QED BY <2>2, <2>4, <3>1 DEF Keeps, SameThreads, SameStates
  <2>. QED BY <1>6, <2>3, <2>4
<1>7. ASSUME Scheduled
      PROVE  Current = {cur_thr} /\ Els(dn) \subseteq Tcb \ {cur_thr} /\ cur_thr \in Tcb
  BY <1>2, <1>7, ScheduledData
<1>8. ASSUME NEW sm \in SM, yield_get_next(sm)
      PROVE  Keeps(dn)
  <2>. DEFINE r == Append(q, cur_thr)
  <2>1. Scheduled
    BY <1>8 DEF yield_get_next
  <2>2. PICK pool :
          /\ SameThreads(pool, tcb_pool, Tcb \ {cur_thr})
          /\ SameStates(pool, tcb_pool, Tcb \ {cur_thr})
          /\ Runs(Tail(r), f, dn, r[1], pool, thr_id_counter)
    BY <1>7, <1>8, <2>1, YieldStep
  <2>3. SameThreads(pool, tcb_pool, Els(dn)) /\ SameStates(pool, tcb_pool, Els(dn))
    BY <1>7, <2>1, <2>2 DEF SameThreads, SameStates
  <2>. QED BY <2>2, <2>3, RunKeeps
<1>9. CASE busy_get_next
  <2>. DEFINE r == Append(q, cur_thr)
  <2>1. Scheduled
    BY <1>9 DEF busy_get_next
  <2>2. PICK pool :
          /\ SameThreads(pool, tcb_pool, Tcb)
          /\ SameStates(pool, tcb_pool, Tcb \ {cur_thr})
          /\ Runs(Tail(r), f, dn, r[1], pool, thr_id_counter)
    BY <1>7, <1>9, <2>1, BusyStep
  <2>3. SameThreads(pool, tcb_pool, Els(dn)) /\ SameStates(pool, tcb_pool, Els(dn))
    BY <1>7, <2>1, <2>2 DEF SameThreads, SameStates
  <2>. QED BY <2>2, <2>3, RunKeeps
<1>10. ASSUME NEW state \in {"FINISHED", "KILLED"}, done_get_next(state)
       PROVE  Keeps(dn)
  <2>. DEFINE top == <<cur_thr>> \o dn
  <2>1. Scheduled
    BY <1>10 DEF done_get_next
  <2>2. PICK pool :
          /\ SameThreads(pool, tcb_pool, Tcb)
          /\ SameStates(pool, tcb_pool, Tcb \ {cur_thr})
          /\ pool[cur_thr].state = state
          /\ \/ q # <<>> /\ Runs(Tail(q), f, top, q[1], pool, thr_id_counter)
             \/ /\ q = <<>> /\ cur_thr' = NULL /\ control' = "final"
                /\ Lists(Data', q, f, top, {}) /\ tcb_pool' = pool
                /\ thr_id_counter' = thr_id_counter
    BY <1>7, <1>10, <2>1, DoneStep, ZenonT(60)
  <2>3. SameThreads(pool, tcb_pool, Els(dn)) /\ SameStates(pool, tcb_pool, Els(dn))
    BY <1>7, <2>1, <2>2 DEF SameThreads, SameStates
  <2>4. Els(dn) \subseteq Els(top)
    <3>1. dn \in Seq(Tcb)
      BY DEF Lists, Chain
    <3>. QED BY <1>7, <2>1, <3>1, ElsPush
  <2>. HIDE DEF top
  <2>5. CASE Runs(Tail(q), f, top, q[1], pool, thr_id_counter)
    BY <2>3, <2>4, <2>5, RunKeeps
  <2>6. CASE cur_thr' = NULL /\ Lists(Data', q, f, top, {}) /\ tcb_pool' = pool
    <3>1. Current' = {}
      BY <2>6 DEF Current
    <3>. QED BY <2>3, <2>4, <2>6, <3>1 DEF Keeps
  <2>. QED BY <2>2, <2>5, <2>6
<1>11. CASE \/ start_scheduling_return \/ register_exhausted \/ start_again
            \/ yield_not_running \/ done_not_running \/ null_cur_thr \/ spin
            \/ UNCHANGED vars
  <2>1. UNCHANGED <<tcb_pool, free_tcb_list, ready_queue, ready_queue_tail,
                    done_queue, cur_thr, thr_id_counter>>
    BY <1>11 DEF start_scheduling_return, register_exhausted, start_again,
                 yield_not_running, done_not_running, null_cur_thr, spin, vars
  <2>2. Data' = Data
    BY <2>1 DEF Data
  <2>. QED BY <1>3, <2>1, <2>2
<1>. QED
  BY <1>4, <1>5, <1>6, <1>8, <1>9, <1>10, <1>11 DEF Next, ThreadStep

\* DoneIsFinal of Scheduler: no call dispatches a finished or killed thread again
\* or gives its TCB to another thread, although its next pointer is still used.
THEOREM DoneCorrect == Spec => DoneIsFinal
<1>. DEFINE A == \A t \in Finished :
                   /\ t \in Finished' /\ cur_thr' # t
                   /\ tcb_pool'[t].thr_id = tcb_pool[t].thr_id
                   /\ tcb_pool'[t].state = tcb_pool[t].state
            V == \A q, f, dn :
                   Lists(Data, q, f, dn, Current) =>
                     /\ ListAt(ready_queue) = q /\ Ready = Els(q)
                     /\ Finished = Els(dn)
                     /\ Ready \cup Finished \cup Current = Tcb \ Els(f)
<1>1. V
  BY ListViews
<1>2. ASSUME TypeOK, ListInv, ThreadInv, V', [Next]_vars
      PROVE  A
  <2>. SUFFICES ASSUME NEW t \in Finished
                PROVE  /\ t \in Finished' /\ cur_thr' # t
                       /\ tcb_pool'[t].thr_id = tcb_pool[t].thr_id
                       /\ tcb_pool'[t].state = tcb_pool[t].state
    OBVIOUS
  <2>1. init_done
    BY EmptyViews, <1>2 DEF ThreadInv
  <2>2. PICK q, f, dn : Lists(Data, q, f, dn, Current)
    BY <1>2, <2>1 DEF ThreadInv, DO_INIT
  <2>3. t \in Els(dn) /\ Els(dn) \subseteq Tcb
    BY <1>1, <2>2 DEF Lists
  <2>4. Keeps(dn)
    BY <1>2, <2>1, <2>2, NextKeeps
  <2>5. PICK q2, f2, dn2 : /\ Lists(Data', q2, f2, dn2, Current')
                           /\ Els(dn) \subseteq Els(dn2)
    BY <2>4 DEF Keeps
  <2>6. Finished' = Els(dn2)
    BY <1>2, <2>5
  <2>7. cur_thr' # t
    BY <2>3, <2>5 DEF Lists, Disjoint, Current, NULL, Tcb
  <2>. QED BY <2>3, <2>4, <2>5, <2>6, <2>7 DEF Keeps, SameThreads, SameStates
<1>. QED
  BY <1>1, <1>2, TypeCorrect, ListsCorrect, ThreadsPlaced, PTL DEF Spec, DoneIsFinal
=============================================================================
