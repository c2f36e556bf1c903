------------------------------- MODULE Threads -------------------------------
(***************************************************************************)
(* Logical threads that cross module boundaries: the assembly stubs that   *)
(* the compiler adds to every module (spm-compiler/asm_sm) and those of    *)
(* the scheduler (asm_sched), composed with the FIFO scheduler.            *)
(*                                                                         *)
(* Every module has a stack of its own, shared by all the threads that     *)
(* enter it, and checks on every entry that it works for one thread only.  *)
(* A busy module answers with a magic value; the caller's stub then yields *)
(* and retries the call.  A module's code is any sequence of calls along   *)
(* Calls, yields and a return; a module in Faulty may also jump elsewhere  *)
(* without its exit stub, as the modules of foobar.c do.                   *)
(*                                                                         *)
(* One CPU, no preemption: a step is one run of a stub, or one run of      *)
(* module code up to the next jump to a stub.                              *)
(***************************************************************************)
EXTENDS Integers, FiniteSets, Sequences

CONSTANTS
  SM,           \* the protected modules, without the scheduler
  Scheduler, Main,   \* the other two protection domains
  Portal,       \* the modules main registers as thread portals
  Calls,        \* <<s, t>>: code of module s calls an entry point of t
  Faulty,       \* modules that may leave without their exit stub
  Answers,      \* what they answer the scheduler: busy or not, see Jump
  MaxThreads,   \* threads registered in a boot cycle
  MaxWork       \* bound: calls and yields a thread makes, retries excluded

ASSUME DomainAssumption ==
  /\ Scheduler \notin SM /\ Main \notin SM /\ Scheduler # Main
  /\ Portal \subseteq SM /\ Faulty \subseteq SM /\ Calls \subseteq SM \X SM
  /\ Answers \subseteq BOOLEAN
ASSUME BoundAssumption == MaxThreads \in Nat \ {0} /\ MaxWork \in Nat

VARIABLES
  ready, running, ended, count, mode,   \* the scheduler, see FifoSched
  stack,      \* stack[s]: the frames of module s, the last one on top
  sm_thr,     \* sm_thr[s]: __sm_thr, the thread s works for
  cpu,        \* the protection domain that executes, and its registers
  work,       \* work[i]: calls and yields of thread i so far
  chain       \* history: chain[i] is the calls thread i is in, innermost last

schedVars == <<ready, running, ended, count, mode>>
vars == <<ready, running, ended, count, mode, stack, sm_thr, cpu, work, chain>>

RETURN == "return"                       \* r6 = 0xffff

Sched == INSTANCE FifoSched WITH
  Entry <- {"call"}, NULL <- Main

Domain == SM \cup {Scheduler, Main}
ThreadId == 0 .. MaxThreads              \* 0: the main thread
Current == running.id                    \* what get_cur_thr_id answers

(***************************************************************************)
(* A frame: "in" holds the return address of a caller (peer); "call" is    *)
(* what the exit stub pushes for a call to peer; "yield" and "retry" are   *)
(* what it pushes to call the scheduler, by the code or after a busy       *)
(* answer; "open" is what a jump without the stub leaves.  thr, the thread *)
(* that pushed the frame, and pos, the place in its chain of the call that *)
(* the frame belongs to, are history: the code does not record them.       *)
(***************************************************************************)
Frame == [kind : {"in", "call", "yield", "retry", "open"},
          peer : Domain, thr : ThreadId, pos : Nat]

(***************************************************************************)
(* "body": code of sm; "entry": the entry stub of sm, entered from from    *)
(* with r6 (a call, with an index out of bounds, with a return address     *)
(* that from does not own, or a return) and r8 (the callee was busy);      *)
(* "sched": the entry stub of the scheduler; "main": the main thread;      *)
(* "exit": an endless loop.                                                *)
(***************************************************************************)
Cpu == [at : {"body", "entry", "sched", "main", "exit"}, sm : Domain,
        from : Domain, r6 : {"call", "badidx", "badret", RETURN, "yield", "report"},
        busy : BOOLEAN]

Body(s) == [at |-> "body", sm |-> s, from |-> s, r6 |-> "call", busy |-> FALSE]
Enter(t, from, r6, busy) ==
  [at |-> "entry", sm |-> t, from |-> from, r6 |-> r6, busy |-> busy]
ToSched(from, r6, busy) ==
  [at |-> "sched", sm |-> Scheduler, from |-> from, r6 |-> r6, busy |-> busy]
InMain == [at |-> "main", sm |-> Main, from |-> Main, r6 |-> "call", busy |-> FALSE]
Exit == [InMain EXCEPT !.at = "exit"]

\* A return (or busy answer) of module s to the domain that called it.
ReturnTo(t, s, busy) ==
  CASE t = Scheduler -> ToSched(s, RETURN, busy)
    [] t = Main -> InMain
    [] OTHER -> Enter(t, s, RETURN, busy)

TypeOK ==
  /\ stack \in [SM -> Seq(Frame)]
  /\ sm_thr \in [SM -> ThreadId]
  /\ cpu \in Cpu
  /\ work \in [ThreadId -> 0 .. MaxWork]
  /\ chain \in [ThreadId -> Seq(SM)]
  /\ running.id \in ThreadId /\ ended \subseteq ThreadId \ {0}
  /\ mode \in Sched!Mode

Top(s) == stack[s][Len(stack[s])]
Pop(s) == [stack EXCEPT ![s] = SubSeq(@, 1, Len(@) - 1)]

\* The callee id on top of the stack of s, if s waits for a callee.
Callee(s) ==
  IF stack[s] = <<>> \/ Top(s).kind \in {"in", "open"} THEN {} ELSE {Top(s).peer}

\* "in" is the first frame of a new call, the others belong to the innermost one.
Push(stk, s, kind, peer) ==
  LET pos == Len(chain[Current]) + IF kind = "in" THEN 1 ELSE 0
  IN  [stk EXCEPT ![s] = Append(@, [kind |-> kind, peer |-> peer,
                                    thr |-> Current, pos |-> pos])]

Init ==
  /\ Sched!Init
  /\ stack = [s \in SM |-> <<>>]
  /\ sm_thr = [s \in SM |-> 0]
  /\ cpu = InMain
  /\ work = [i \in ThreadId |-> 0]
  /\ chain = [i \in ThreadId |-> <<>>]

-----------------------------------------------------------------------------
(* The main thread.                                                         *)

\* register_thread_portal and start_scheduling (main.c registers before it
\* starts; the other orders are in module Scheduler).
MainRegister(p) ==
  /\ cpu = InMain /\ mode = "idle"
  /\ Sched!Register(p, "call")
  /\ UNCHANGED <<stack, sm_thr, cpu, work, chain>>

\* __sched_br_next: branch to the current thread.
Dispatch ==
  cpu' = Enter(running'.sm, Scheduler, running'.entry, FALSE)

MainStart ==
  /\ cpu = InMain
  /\ Sched!Start
  /\ Dispatch
  /\ UNCHANGED <<stack, sm_thr, work, chain>>

\* __sched_final_ret: start_scheduling continues in the main thread.
MainResume ==
  /\ cpu = InMain
  /\ Sched!Return
  /\ UNCHANGED <<stack, sm_thr, cpu, work, chain>>

Spend == work[Current] < MaxWork /\ work' = [work EXCEPT ![Current] = @ + 1]

\* Unprotected code calls an entry point of t while no thread runs.
MainCall(t) ==
  /\ cpu = InMain /\ mode = "idle"
  /\ Spend
  /\ cpu' = Enter(t, Main, "call", FALSE)
  /\ UNCHANGED <<schedVars, stack, sm_thr, chain>>

-----------------------------------------------------------------------------
(* Module code.                                                             *)

Leave(i) == [chain EXCEPT ![i] = SubSeq(@, 1, Len(@) - 1)]

\* __sm_exit for a call of module t, or of yield().
CallOut(s, t) ==
  /\ cpu = Body(s) /\ <<s, t>> \in Calls
  /\ Spend
  /\ stack' = Push(stack, s, "call", t)
  /\ cpu' = Enter(t, s, "call", FALSE)
  /\ UNCHANGED <<schedVars, sm_thr, chain>>

YieldOut(s) ==
  /\ cpu = Body(s)
  /\ Spend
  /\ stack' = Push(stack, s, "yield", Scheduler)
  /\ cpu' = ToSched(s, "yield", FALSE)
  /\ UNCHANGED <<schedVars, sm_thr, chain>>

\* Mutation: the stack pointer is not saved.
ReturnFromUnsaved(s) ==
  /\ cpu = Body(s) /\ Top(s).kind = "in"
  /\ cpu' = ReturnTo(Top(s).peer, s, FALSE)
  /\ chain' = Leave(Current)
  /\ UNCHANGED <<schedVars, stack, sm_thr, work>>

\* The end of sm_entry: the function returned, back to the caller.
ReturnFrom(s) ==
  /\ cpu = Body(s) /\ Top(s).kind = "in"
  /\ stack' = Pop(s)
  /\ cpu' = ReturnTo(Top(s).peer, s, FALSE)
  /\ chain' = Leave(Current)
  /\ UNCHANGED <<schedVars, sm_thr, work>>

\* Faulty code, as in foobar.c: s returns to a module of its choice (busy or not),
\* calls with an index out of bounds or with a return address it does not own, or
\* returns to the scheduler with one of the Answers.
Jump(s) ==
  /\ cpu = Body(s) /\ s \in Faulty
  /\ Spend
  /\ stack' = Push(stack, s, "open", s)
  /\ \/ \E t \in SM \ {s}, busy \in BOOLEAN :
          cpu' = Enter(t, s, RETURN, busy) /\ chain' = Leave(Current)
     \/ \E busy \in Answers : cpu' = ToSched(s, RETURN, busy) /\ chain' = Leave(Current)
     \/ \E t \in SM \ {s}, r6 \in {"badidx", "badret"} :
          cpu' = Enter(t, s, r6, FALSE) /\ UNCHANGED chain
  /\ UNCHANGED <<schedVars, sm_thr>>

-----------------------------------------------------------------------------
(* sm_entry.s and sm_exit.s: control arrives at the entry of a module t.    *)

\* Mutation: the callee id is not compared.
RejectedNoCallee(t) ==
  \/ cpu.r6 \in {"badidx", "badret"}
  \/ cpu.r6 = RETURN /\ Callee(t) = {}
  \/ cpu.r6 = RETURN /\ cpu.from # Scheduler /\ sm_thr[t] # Current

\* The integrity checks (sm_entry.s:21-59) and a return for another thread.
Rejected(t) ==
  \/ cpu.r6 \in {"badidx", "badret"}
  \/ cpu.r6 = RETURN /\ cpu.from \notin Callee(t)
  \/ cpu.r6 = RETURN /\ cpu.from # Scheduler /\ sm_thr[t] # Current

\* Mutation: the stack is emptied when a violation is reported.
EntryViolationResets(t) ==
  /\ cpu.at = "entry" /\ cpu.sm = t
  /\ Rejected(t)
  /\ stack' = [stack EXCEPT ![t] = <<>>]
  /\ cpu' = ToSched(t, "report", FALSE)
  /\ UNCHANGED <<schedVars, sm_thr, work, chain>>

\* __entry_violation
EntryViolation(t) ==
  /\ cpu.at = "entry" /\ cpu.sm = t
  /\ Rejected(t)
  /\ cpu' = ToSched(t, "report", FALSE)
  /\ UNCHANGED <<schedVars, stack, sm_thr, work, chain>>

\* A call that is not rejected.
Called(t) == cpu.at = "entry" /\ cpu.sm = t /\ cpu.r6 = "call"

\* Mutations: the thread check is left out, or made on an empty stack only.
AcceptsAll(t) == TRUE
AcceptsEmptyOnly(t) == stack[t] = <<>>

\* The thread check: t is not in use, or works for the current thread.
Accepts(t) == stack[t] = <<>> \/ sm_thr[t] = Current

\* From an empty stack on, t works for the current thread.
EntryCall(t) ==
  /\ Called(t) /\ Accepts(t)
  /\ sm_thr' = [sm_thr EXCEPT ![t] = Current]
  /\ stack' = Push(stack, t, "in", cpu.from)
  /\ cpu' = Body(t)
  /\ chain' = [chain EXCEPT ![Current] = Append(@, t)]
  /\ UNCHANGED <<schedVars, work>>

\* t works for another thread: answer the magic value.
EntryBusy(t) ==
  /\ Called(t) /\ ~ Accepts(t)
  /\ cpu' = ReturnTo(cpu.from, t, TRUE)
  /\ UNCHANGED <<schedVars, stack, sm_thr, work, chain>>

Returned(t, kind) ==
  /\ cpu.at = "entry" /\ cpu.sm = t /\ cpu.r6 = RETURN
  /\ ~ Rejected(t) /\ Top(t).kind = kind

\* The callee has returned.
EntryReturn(t) ==
  /\ Returned(t, "call") /\ ~ cpu.busy
  /\ stack' = Pop(t)
  /\ cpu' = Body(t)
  /\ UNCHANGED <<schedVars, sm_thr, work, chain>>

\* do_yield: the callee was busy; yield, with the retry as return address.
EntryCalleeBusy(t) ==
  /\ Returned(t, "call") /\ cpu.busy
  /\ stack' = Push(stack, t, "retry", Scheduler)
  /\ cpu' = ToSched(t, "yield", FALSE)
  /\ UNCHANGED <<schedVars, sm_thr, work, chain>>

\* The scheduler resumes t where its code yielded ...
EntryResume(t) ==
  /\ Returned(t, "yield")
  /\ stack' = Pop(t)
  /\ cpu' = Body(t)
  /\ UNCHANGED <<schedVars, sm_thr, work, chain>>

\* ... or in __sm_retry_exit_call: the pushed call is made again.
EntryRetry(t) ==
  /\ Returned(t, "retry")
  /\ stack' = Pop(t)
  /\ cpu' = Enter(stack'[t][Len(stack'[t])].peer, t, "call", FALSE)
  /\ UNCHANGED <<schedVars, sm_thr, work, chain>>

-----------------------------------------------------------------------------
(* asm_sched/sm_entry.s: control arrives at the entry of the scheduler.     *)

AtSched(r6) == cpu.at = "sched" /\ cpu.r6 = r6

SchedYield ==
  /\ AtSched("yield") /\ mode = "run"
  /\ Sched!Yield(cpu.from)
  /\ Dispatch
  /\ UNCHANGED <<stack, sm_thr, work, chain>>

\* No thread runs: back to the caller.
SchedYieldIdle ==
  /\ AtSched("yield") /\ mode = "idle"
  /\ cpu' = Enter(cpu.from, Scheduler, RETURN, FALSE)
  /\ UNCHANGED <<schedVars, stack, sm_thr, work, chain>>

\* Mutation: the busy value is not looked at.
SchedBusyFinishes ==
  /\ AtSched(RETURN) /\ cpu.busy /\ mode = "run"
  /\ Sched!Done
  /\ IF mode' = "final" THEN cpu' = InMain ELSE Dispatch
  /\ UNCHANGED <<stack, sm_thr, work, chain>>

SchedBusy ==
  /\ AtSched(RETURN) /\ cpu.busy /\ mode = "run"
  /\ Sched!Busy
  /\ Dispatch
  /\ UNCHANGED <<stack, sm_thr, work, chain>>

\* Mutation: always branch to the next thread.
DispatchAlways == Dispatch

DispatchOrFinal == IF mode' = "final" THEN cpu' = InMain ELSE Dispatch

SchedFinish ==
  /\ AtSched(RETURN) /\ ~ cpu.busy /\ mode = "run"
  /\ Sched!Done
  /\ DispatchOrFinal
  /\ UNCHANGED <<stack, sm_thr, work, chain>>

SchedKill ==
  /\ AtSched("report") /\ mode = "run"
  /\ Sched!Done
  /\ DispatchOrFinal
  /\ UNCHANGED <<stack, sm_thr, work, chain>>

\* A violation or a return while no thread runs: EXIT.
SchedExit ==
  /\ cpu.at = "sched" /\ cpu.r6 # "yield" /\ mode = "idle"
  /\ Sched!Stop
  /\ cpu' = Exit
  /\ UNCHANGED <<stack, sm_thr, work, chain>>

\* main.c ends with EXIT; EXIT is an endless loop.
MainExit ==
  /\ cpu = InMain /\ mode = "idle"
  /\ cpu' = Exit
  /\ UNCHANGED <<schedVars, stack, sm_thr, work, chain>>

spin == cpu = Exit /\ UNCHANGED vars

ModuleStep ==
  \/ \E s, t \in SM : CallOut(s, t)
  \/ \E s \in SM : YieldOut(s) \/ ReturnFrom(s) \/ Jump(s)

StubStep ==
  \/ \E t \in SM : \/ EntryViolation(t) \/ EntryCall(t) \/ EntryBusy(t)
                   \/ EntryReturn(t) \/ EntryCalleeBusy(t)
                   \/ EntryResume(t) \/ EntryRetry(t)
  \/ SchedYield \/ SchedYieldIdle \/ SchedBusy \/ SchedFinish \/ SchedKill
  \/ SchedExit

Next ==
  \/ \E p \in Portal : MainRegister(p)
  \/ MainStart \/ MainResume \/ MainExit
  \/ \E t \in SM : MainCall(t)
  \/ ModuleStep
  \/ StubStep
  \/ spin

Spec == Init /\ [][Next]_vars

\* The CPU does not stop, and start_scheduling continues after the last thread.
\* Module code makes at most MaxWork calls and yields, so it returns in the end.
Fairness == WF_vars(ModuleStep \/ StubStep \/ MainResume)

FairSpec == Spec /\ Fairness

-----------------------------------------------------------------------------
(* Safety properties.                                                       *)

\* Monothreading (scheduler.h:10-12): all that is on a module's stack belongs to
\* one thread, the one the module remembers; and module code only ever executes
\* for the thread the scheduler considers current.
WorksForOneThread ==
  /\ \A s \in SM : \A k \in DOMAIN stack[s] : stack[s][k].thr = sm_thr[s]
  /\ cpu.at = "body" => sm_thr[cpu.sm] = Current

\* scheduler.h:10-12: "SMs themselves ensure monothreading", whatever other modules
\* do.  Not so if a faulty module answers busy to the scheduler in the middle of a
\* thread, which is resumed where it yielded last, perhaps in a module that works
\* for another thread by now.
MonothreadedAsDocumented ==
  \A s \in SM \ Faulty :
    /\ \A k \in DOMAIN stack[s] : stack[s][k].thr = sm_thr[s]
    /\ cpu = Body(s) => sm_thr[s] = Current

\* Control flow integrity: whatever the faulty modules that the thread calls do, a
\* correct module executes only as the innermost call of that thread: it was just
\* called, or the module it called last has left.  (The entry stub compares the
\* callee's id only, sm_entry.s:30-38; so this is about faulty modules that call no
\* others and cannot have been called twice.)
InnermostRuns ==
  cpu.at = "body" /\ cpu.sm \notin Faulty =>
    chain[Current] # <<>> /\ chain[Current][Len(chain[Current])] = cpu.sm

\* The stacks of the correct modules and the calls the threads are in agree, for
\* the suspended and the dead threads too: no return address is lost, left over or
\* used twice by busy answers, retries and violations.
FramesMatchCalls ==
  \A s \in SM \ Faulty, i \in ThreadId :
    Cardinality({k \in DOMAIN stack[s] : stack[s][k].kind = "in" /\ stack[s][k].thr = i})
      = Cardinality({k \in DOMAIN chain[i] : chain[i][k] = s})

\* A thread that finished has left every module (without faulty modules).
FinishedLeavesNothing ==
  /\ \A i \in ended : chain[i] = <<>>
  /\ \A s \in SM : stack[s] # <<>> => sm_thr[s] \notin ended

\* A module in which a dead thread was stopped is never entered, returned to or
\* taken over again (scheduler.h:170): its thread id does not come back.
DeadThreadsStayOut ==
  [][\A s \in SM :
       stack[s] # <<>> /\ sm_thr[s] \in ended =>
         stack'[s] = stack[s] /\ sm_thr'[s] = sm_thr[s]]_vars

-----------------------------------------------------------------------------
(* Liveness.                                                                *)

\* When calls are acyclic and no module is faulty, the busy answers resolve: every
\* call gets through, all threads finish, and start_scheduling returns.
AllThreadsFinish ==
  mode = "run" ~> (mode = "idle" /\ ended = 1 .. count)

\* A thread whose portal is busy is not lost: its portal's code runs later.
EveryThreadRuns ==
  \A i \in ThreadId :
    (mode = "run" /\ \E k \in DOMAIN ready : ready[k].id = i)
      ~> (cpu.at = "body" /\ Current = i)
=============================================================================
