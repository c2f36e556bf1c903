---------------------------- MODULE ThreadsProofs ----------------------------
(***************************************************************************)
(* Theorems about Threads, for any number of modules and threads, any      *)
(* calls between the modules and any work: the types, monothreading, and   *)
(* control flow integrity.                                                 *)
(***************************************************************************)
EXTENDS Threads, TLAPS, FiniteSetTheorems, SequenceTheorems

-----------------------------------------------------------------------------
(* The parts of the invariant that hold whatever the faulty modules do.     *)

\* The threads that wait, or run, as the scheduler records them: with ids of their
\* own, which none of the dead ones has.
Waiting == [id : ThreadId \ {0}, sm : SM, entry : {"call", RETURN}]

FifoInv ==
  /\ ready \in Seq(Waiting)
  /\ mode \in {"idle", "run", "final", "exit"}
  /\ IF mode = "run" THEN running \in Waiting ELSE running = Sched!Nobody
  /\ count \in 0 .. MaxThreads /\ ended \subseteq 1 .. count
  /\ Current <= count /\ Current \notin ended
  /\ \A k \in 1 .. Len(ready) :
       ready[k].id <= count /\ ready[k].id \notin ended \cup {Current}
  /\ \A j, k \in 1 .. Len(ready) : ready[j].id = ready[k].id => j = k

\* What the stubs push on what: a module calls, yields or jumps in the code that
\* its innermost caller has entered, and retries a call that it is in.
Below(kind) == IF kind = "retry" THEN "call" ELSE "in"

FrameShape(s, k) ==
  LET f == stack[s][k]
  IN  /\ f.kind # "in" => k > 1 /\ stack[s][k - 1].kind = Below(f.kind)
      /\ f.kind = "call" => f.peer \in SM
      /\ f.kind \in {"yield", "retry"} => f.peer = Scheduler

ShapeInv == \A s \in SM : \A k \in 1 .. Len(stack[s]) : FrameShape(s, k)

\* Module code executes above the frame of its caller.
CpuInv ==
  /\ cpu.at = "body" =>
       /\ cpu.sm \in SM /\ cpu = Body(cpu.sm)
       /\ Len(stack[cpu.sm]) > 0 /\ Top(cpu.sm).kind = "in"
  /\ cpu.at = "entry" =>
       cpu.sm \in SM /\ cpu.r6 \in {"call", "badidx", "badret", RETURN}
  /\ cpu.at = "sched" => cpu.from \in SM /\ cpu.r6 \in {RETURN, "yield", "report"}

TypeInv == TypeOK /\ FifoInv /\ ShapeInv /\ CpuInv

-----------------------------------------------------------------------------
(* Stacks and chains.                                                       *)

\* A list and its length.
LEMMA Lists ==
  ASSUME NEW S, NEW q \in Seq(S)
  PROVE  /\ Len(q) \in Nat /\ (q = <<>> <=> Len(q) = 0)
         /\ \A k \in 1 .. Len(q) : q[k] \in S
  BY EmptySeq, LenProperties, ElementOfSeq

\* What Push puts on a stack.
NewFrame(kind, peer) ==
  [kind |-> kind, peer |-> peer, thr |-> Current,
   pos |-> Len(chain[Current]) + IF kind = "in" THEN 1 ELSE 0]

\* The step puts frame f on the stack of s.
Pushed(s, f) ==
  /\ stack' \in [SM -> Seq(Frame)]
  /\ Len(stack'[s]) = Len(stack[s]) + 1 /\ stack'[s][Len(stack[s]) + 1] = f
  /\ \A k \in 1 .. Len(stack[s]) : stack'[s][k] = stack[s][k]
  /\ \A r \in SM \ {s} : stack'[r] = stack[r]

\* The step takes the last frame off the stack of s.
Popped(s) ==
  /\ stack' \in [SM -> Seq(Frame)]
  /\ Len(stack'[s]) = Len(stack[s]) - 1
  /\ \A k \in 1 .. Len(stack[s]) - 1 : stack'[s][k] = stack[s][k]
  /\ \A r \in SM \ {s} : stack'[r] = stack[r]

\* Push pushes a frame.
LEMMA PushPushes ==
  ASSUME TypeInv, NEW s \in SM, NEW peer \in Domain,
         NEW kind \in {"in", "call", "yield", "retry", "open"},
         stack' = Push(stack, s, kind, peer)
  PROVE  NewFrame(kind, peer) \in Frame /\ Pushed(s, NewFrame(kind, peer))
<1>1. Current \in ThreadId /\ chain[Current] \in Seq(SM) /\ stack[s] \in Seq(Frame)
  BY DEF TypeInv, TypeOK, Current
<1>2. Len(chain[Current]) + (IF kind = "in" THEN 1 ELSE 0) \in Nat
  <2>1. PICK n \in Nat : n = Len(chain[Current])
    BY <1>1, Lists
  <2>2. n + (IF kind = "in" THEN 1 ELSE 0) \in Nat
    <3>1. CASE kind = "in"
      BY <3>1
    <3>2. CASE kind # "in"
      BY <3>2
    <3>. QED BY <3>1, <3>2
  <2>. QED BY <2>1, <2>2
<1>3. NewFrame(kind, peer) \in Frame
  <2>1. PICK n \in Nat : n = Len(chain[Current]) + (IF kind = "in" THEN 1 ELSE 0)
    BY <1>2
  <2>. QED BY <1>1, <2>1, Zenon DEF NewFrame, Frame
<1>4. PICK f \in Frame : f = NewFrame(kind, peer)
  BY <1>3
<1>5. stack' = [stack EXCEPT ![s] = Append(stack[s], f)]
  BY <1>4 DEF Push, NewFrame
<1>6. stack \in [SM -> Seq(Frame)]
  BY DEF TypeInv, TypeOK
<1>7. PICK q \in Seq(Frame) : q = Append(stack[s], f)
  BY <1>1, AppendProperties
<1>8. /\ Len(q) = Len(stack[s]) + 1 /\ q[Len(stack[s]) + 1] = f
      /\ \A k \in 1 .. Len(stack[s]) : q[k] = stack[s][k]
  BY <1>1, <1>7, AppendProperties
<1>9. /\ stack' \in [SM -> Seq(Frame)] /\ stack'[s] = q
      /\ \A r \in SM \ {s} : stack'[r] = stack[r]
  BY <1>5, <1>6, <1>7
<1>10. Pushed(s, f)
  BY <1>8, <1>9 DEF Pushed
<1>. QED BY <1>3, <1>4, <1>10

\* A list without its last element.
LEMMA Front ==
  ASSUME NEW S, NEW q \in Seq(S), Len(q) > 0
  PROVE  LET r == SubSeq(q, 1, Len(q) - 1)
         IN  /\ r \in Seq(S) /\ Len(r) = Len(q) - 1
             /\ \A k \in 1 .. Len(q) - 1 : r[k] = q[k]
<1>1. Len(q) \in Nat /\ \A k \in 1 .. Len(q) : q[k] \in S
  BY Lists
<1>2. PICK n \in Nat : n = Len(q) - 1
  BY <1>1
<1>3. \A k \in 1 .. n : q[k] \in S
  BY <1>1, <1>2
<1>4. PICK r : r = SubSeq(q, 1, n)
  OBVIOUS
<1>5. /\ r \in Seq(S) /\ Len(r) = (IF 1 <= n THEN n - 1 + 1 ELSE 0)
      /\ \A k \in 1 .. n - 1 + 1 : r[k] = q[1 + k - 1]
  <2>1. 1 \in Int /\ n \in Int
    OBVIOUS
  <2>2. /\ SubSeq(q, 1, n) \in Seq(S)
        /\ Len(SubSeq(q, 1, n)) = IF 1 <= n THEN n - 1 + 1 ELSE 0
        /\ \A k \in 1 .. n - 1 + 1 : SubSeq(q, 1, n)[k] = q[1 + k - 1]
    BY <1>3, <2>1, SubSeqProperties
  <2>. QED BY <1>4, <2>2, Zenon
<1>6. r \in Seq(S) /\ Len(r) = n /\ \A k \in 1 .. n : r[k] = q[k]
  BY <1>5, SMTT(30)
<1>. QED BY <1>2, <1>4, <1>6, Zenon

\* Pop pops a frame.
LEMMA PopPops ==
  ASSUME TypeInv, NEW s \in SM, Len(stack[s]) > 0, stack' = Pop(s)
  PROVE  Popped(s)
<1>1. stack \in [SM -> Seq(Frame)] /\ stack[s] \in Seq(Frame)
  BY DEF TypeInv, TypeOK
<1>2. PICK q : q = SubSeq(stack[s], 1, Len(stack[s]) - 1)
  OBVIOUS
<1>3. /\ q \in Seq(Frame) /\ Len(q) = Len(stack[s]) - 1
      /\ \A k \in 1 .. Len(stack[s]) - 1 : q[k] = stack[s][k]
  BY <1>1, <1>2, Front
<1>4. stack' = [stack EXCEPT ![s] = q]
  BY <1>2 DEF Pop
<1>. QED BY <1>1, <1>3, <1>4 DEF Popped

\* Frames stay where they are under a push, and the new one is on top.
LEMMA PushShape ==
  ASSUME TypeInv, NEW s \in SM, NEW f \in Frame, Pushed(s, f),
         f.kind # "in" => Len(stack[s]) > 0 /\ Top(s).kind = Below(f.kind),
         f.kind = "call" => f.peer \in SM,
         f.kind \in {"yield", "retry"} => f.peer = Scheduler
  PROVE  ShapeInv'
<1>. SUFFICES ASSUME NEW r \in SM, NEW k \in 1 .. Len(stack'[r])
              PROVE  FrameShape(r, k)'
  BY DEF ShapeInv
<1>1. Len(stack[s]) \in Nat /\ Len(stack[r]) \in Nat
  BY Lists DEF TypeInv, TypeOK
<1>2. CASE r # s
  BY <1>2 DEF Pushed, TypeInv, ShapeInv, FrameShape
<1>3. CASE r = s /\ k <= Len(stack[s])
  <2>1. k \in 1 .. Len(stack[s]) /\ FrameShape(s, k)
    BY <1>1, <1>3 DEF TypeInv, ShapeInv
  <2>2. k > 1 => k - 1 \in 1 .. Len(stack[s])
    BY <1>1, <2>1
  <2>3. stack'[s][k] = stack[s][k] /\ (k > 1 => stack'[s][k - 1] = stack[s][k - 1])
    BY <2>1, <2>2 DEF Pushed
  <2>. QED BY <1>3, <2>1, <2>3 DEF FrameShape
<1>4. CASE r = s /\ k = Len(stack[s]) + 1
  <2>1. stack'[s][k] = f
    BY <1>4 DEF Pushed
  <2>2. f.kind # "in" => k > 1 /\ stack'[s][k - 1].kind = Below(f.kind)
    BY <1>1, <1>4 DEF Pushed, Top
  <2>. QED BY <1>4, <2>1, <2>2 DEF FrameShape
<1>. QED BY <1>1, <1>2, <1>3, <1>4 DEF Pushed

\* So they do under a pop.
LEMMA PopShape ==
  ASSUME TypeInv, NEW s \in SM, Len(stack[s]) > 0, Popped(s)
  PROVE  ShapeInv'
<1>. SUFFICES ASSUME NEW r \in SM, NEW k \in 1 .. Len(stack'[r])
              PROVE  FrameShape(r, k)'
  BY DEF ShapeInv
<1>1. Len(stack[s]) \in Nat /\ Len(stack[r]) \in Nat
  BY Lists DEF TypeInv, TypeOK
<1>2. CASE r # s
  BY <1>2 DEF Popped, TypeInv, ShapeInv, FrameShape
<1>3. CASE r = s
  <2>1. k \in 1 .. Len(stack[s]) - 1 /\ k \in 1 .. Len(stack[s]) /\ FrameShape(s, k)
    BY <1>1, <1>3 DEF TypeInv, ShapeInv, Popped
  <2>2. k > 1 => k - 1 \in 1 .. Len(stack[s]) - 1
    BY <1>1, <2>1
  <2>3. stack'[s][k] = stack[s][k] /\ (k > 1 => stack'[s][k - 1] = stack[s][k - 1])
    BY <2>1, <2>2 DEF Popped
  <2>. QED BY <1>3, <2>1, <2>3 DEF FrameShape
<1>. QED BY <1>2, <1>3

\* Leaving a call keeps the chains' type.
LEMMA LeaveType ==
  ASSUME TypeInv, chain' = Leave(Current)
  PROVE  chain' \in [ThreadId -> Seq(SM)]
<1>1. Current \in ThreadId /\ chain \in [ThreadId -> Seq(SM)] /\ chain[Current] \in Seq(SM)
  BY DEF TypeInv, TypeOK, Current
<1>2. PICK q : q = SubSeq(chain[Current], 1, Len(chain[Current]) - 1)
  OBVIOUS
<1>3. q \in Seq(SM)
  <2>1. Len(chain[Current]) \in Nat /\ \A k \in 1 .. Len(chain[Current]) : chain[Current][k] \in SM
    BY <1>1, Lists
  <2>2. \A k \in 1 .. Len(chain[Current]) - 1 : chain[Current][k] \in SM
    BY <2>1
  <2>. QED BY <1>2, <2>1, <2>2, SubSeqProperties
<1>4. chain' = [chain EXCEPT ![Current] = q]
  BY <1>2 DEF Leave
<1>. QED BY <1>1, <1>3, <1>4

-----------------------------------------------------------------------------
(* The scheduler.                                                           *)

\* A thread that waits.
Waits(thr) == \E j \in 1 .. Len(ready) : thr = ready[j]

\* Every thread that waits or runs after the step is thr or waited before it.
QueuedOr(thr) ==
  /\ running' \in Waiting /\ (running' = thr \/ Waits(running'))
  /\ \A k \in 1 .. Len(ready') : ready'[k] = thr \/ Waits(ready'[k])

\* The first thread of a list is made the current one.
LEMMA Dequeue ==
  ASSUME NEW q \in Seq(Waiting), q # <<>>,
         running' = Head(q), ready' = Tail(q), mode' = "run", count' = count,
         count \in 0 .. MaxThreads, ended' \subseteq 1 .. count,
         \A k \in 1 .. Len(q) : q[k].id <= count /\ q[k].id \notin ended',
         \A j, k \in 1 .. Len(q) : q[j].id = q[k].id => j = k
  PROVE  /\ FifoInv' /\ running' \in Waiting /\ running' = q[1] /\ 1 \in 1 .. Len(q)
         /\ \A k \in 1 .. Len(ready') : k + 1 \in 1 .. Len(q) /\ ready'[k] = q[k + 1]
<1>1. Len(q) \in Nat \ {0}
  BY EmptySeq
<1>2. /\ running' \in Waiting /\ ready' \in Seq(Waiting)
      /\ Len(ready') = Len(q) - 1
      /\ \A k \in 1 .. Len(ready') : ready'[k] = q[k + 1]
  BY HeadTailProperties
<1>3. running' = q[1]
  OBVIOUS
<1>4. 1 \in 1 .. Len(q) /\ \A k \in 1 .. Len(ready') : k + 1 \in 1 .. Len(q)
  BY <1>1, <1>2
<1>5. running'.id <= count' /\ running'.id \notin ended'
  BY <1>3, <1>4
<1>6. \A k \in 1 .. Len(ready') :
        /\ ready'[k].id <= count' /\ ready'[k].id \notin ended'
        /\ ready'[k].id # running'.id
  <2>. SUFFICES ASSUME NEW k \in 1 .. Len(ready')
                PROVE  /\ ready'[k].id <= count' /\ ready'[k].id \notin ended'
                       /\ ready'[k].id # running'.id
    OBVIOUS
  <2>1. ready'[k] = q[k + 1] /\ k + 1 \in 1 .. Len(q) /\ k + 1 # 1
    BY <1>2, <1>4
  <2>. QED BY <1>3, <1>4, <2>1
<1>7. \A j, k \in 1 .. Len(ready') : ready'[j].id = ready'[k].id => j = k
  <2>. SUFFICES ASSUME NEW j \in 1 .. Len(ready'), NEW k \in 1 .. Len(ready'),
                       ready'[j].id = ready'[k].id
                PROVE  j = k
    OBVIOUS
  <2>1. j + 1 = k + 1
    BY <1>2, <1>4
  <2>. QED BY <2>1
<1>. QED BY <1>2, <1>3, <1>4, <1>5, <1>6, <1>7 DEF FifoInv, Current

\* start_scheduling runs the first thread.
LEMMA FifoStart ==
  ASSUME TypeInv, Sched!Start
  PROVE  FifoInv' /\ QueuedOr(running') /\ Waits(running')
<1>1. /\ ready \in Seq(Waiting) /\ ready # <<>> /\ count \in 0 .. MaxThreads
      /\ ended' = ended /\ ended \subseteq 1 .. count
  BY DEF TypeInv, FifoInv, Sched!Start
<1>2. /\ \A k \in 1 .. Len(ready) : ready[k].id <= count /\ ready[k].id \notin ended'
      /\ \A j, k \in 1 .. Len(ready) : ready[j].id = ready[k].id => j = k
  BY <1>1 DEF TypeInv, FifoInv
<1>3. /\ FifoInv' /\ running' \in Waiting /\ running' = ready[1] /\ 1 \in 1 .. Len(ready)
      /\ \A k \in 1 .. Len(ready') : k + 1 \in 1 .. Len(ready) /\ ready'[k] = ready[k + 1]
  BY <1>1, <1>2, Dequeue DEF Sched!Start
<1>. QED BY <1>3 DEF QueuedOr, Waits

\* A thread that yields, or found its module busy, is requeued as thr.
LEMMA FifoRotate ==
  ASSUME TypeInv, NEW thr \in Waiting, thr.id = Current, Sched!Rotate(thr)
  PROVE  FifoInv' /\ QueuedOr(thr) /\ UNCHANGED <<ended, count, mode>>
<1>1. /\ ready \in Seq(Waiting) /\ count \in 0 .. MaxThreads
      /\ ended' = ended /\ ended \subseteq 1 .. count /\ mode = "run"
      /\ mode' = mode /\ count' = count
  BY DEF TypeInv, FifoInv, Sched!Rotate
<1>2. PICK q \in Seq(Waiting) : q = Append(ready, thr)
  BY <1>1, AppendProperties
<1>3. /\ Len(q) = Len(ready) + 1 /\ q[Len(ready) + 1] = thr /\ Len(ready) \in Nat
      /\ \A k \in 1 .. Len(ready) : q[k] = ready[k]
  BY <1>1, <1>2, AppendProperties, LenProperties
<1>4. q # <<>>
  BY <1>3, EmptySeq
<1>5. \A k \in 1 .. Len(q) : q[k].id <= count /\ q[k].id \notin ended'
  BY <1>1, <1>3 DEF TypeInv, FifoInv
<1>6. \A j, k \in 1 .. Len(q) : q[j].id = q[k].id => j = k
  BY <1>3 DEF TypeInv, FifoInv
<1>7. \A k \in 1 .. Len(q) : q[k] = thr \/ Waits(q[k])
  BY <1>3 DEF Waits
<1>8. running' = Head(q) /\ ready' = Tail(q)
  BY <1>2 DEF Sched!Rotate
<1>9. /\ FifoInv' /\ running' \in Waiting /\ running' = q[1] /\ 1 \in 1 .. Len(q)
      /\ \A k \in 1 .. Len(ready') : k + 1 \in 1 .. Len(q) /\ ready'[k] = q[k + 1]
  BY <1>1, <1>4, <1>5, <1>6, <1>8, Dequeue
<1>. QED BY <1>1, <1>7, <1>9 DEF QueuedOr

\* A thread that finished, or is killed, is replaced by the first one, if any.
LEMMA FifoDone ==
  ASSUME TypeInv, Sched!Done
  PROVE  /\ FifoInv' /\ UNCHANGED count /\ ended' = ended \cup {Current}
         /\ \/ mode' = "run" /\ QueuedOr(running') /\ Waits(running')
            \/ mode' = "final" /\ ready = <<>> /\ ready' = <<>> /\ Current' = 0
<1>1. /\ ready \in Seq(Waiting) /\ count \in 0 .. MaxThreads /\ count' = count
      /\ ended' = ended \cup {Current} /\ running \in Waiting /\ mode = "run"
      /\ Current <= count
  BY DEF TypeInv, FifoInv, Sched!Done, Current
<1>2. ended' \subseteq 1 .. count
  <2>1. Current \in 0 .. MaxThreads /\ Current # 0
    BY <1>1, Zenon DEF Waiting, Current, ThreadId
  <2>2. Current \in 1 .. count /\ ended \subseteq 1 .. count
    BY <1>1, <2>1, BoundAssumption DEF TypeInv, FifoInv
  <2>. QED BY <1>1, <2>2
<1>3. /\ \A k \in 1 .. Len(ready) : ready[k].id <= count /\ ready[k].id \notin ended'
      /\ \A j, k \in 1 .. Len(ready) : ready[j].id = ready[k].id => j = k
  BY <1>1 DEF TypeInv, FifoInv
<1>4. CASE ready # <<>>
  <2>1. mode' = "run" /\ running' = Head(ready) /\ ready' = Tail(ready)
    BY <1>1, <1>4 DEF Sched!Done
  <2>2. /\ FifoInv' /\ running' \in Waiting /\ running' = ready[1] /\ 1 \in 1 .. Len(ready)
        /\ \A k \in 1 .. Len(ready') : k + 1 \in 1 .. Len(ready) /\ ready'[k] = ready[k + 1]
    BY <1>1, <1>2, <1>3, <1>4, <2>1, Dequeue
  <2>. QED BY <1>1, <2>1, <2>2 DEF QueuedOr, Waits
<1>5. CASE ready = <<>>
  <2>1. mode' = "final" /\ ready' = <<>> /\ running' = Sched!Nobody
    BY <1>5 DEF Sched!Done
  <2>2. Current' = 0 /\ Len(ready') = 0 /\ ready' \in Seq(Waiting)
    BY <2>1, EmptySeq DEF Sched!Nobody, Current
  <2>3. Current' <= count' /\ Current' \notin ended'
    BY <1>1, <1>2, <2>2
  <2>4. FifoInv'
    BY <1>1, <1>2, <2>1, <2>2, <2>3 DEF FifoInv
  <2>. QED BY <1>1, <1>5, <2>1, <2>2, <2>4
<1>. QED BY <1>4, <1>5

\* A registered thread gets a fresh id and waits behind the others.
LEMMA FifoRegister ==
  ASSUME TypeInv, NEW p \in SM, mode = "idle", Sched!Register(p, "call")
  PROVE  /\ FifoInv' /\ UNCHANGED <<running, ended, mode>> /\ count' = count + 1
         /\ \A k \in 1 .. Len(ready') :
              \/ Waits(ready'[k])
              \/ ready'[k] = [id |-> count', sm |-> p, entry |-> "call"]
<1>1. /\ ready \in Seq(Waiting) /\ count \in 0 .. MaxThreads /\ count' = count + 1
      /\ count < MaxThreads /\ UNCHANGED <<running, ended, mode>>
      /\ ended \subseteq 1 .. count
  BY DEF TypeInv, FifoInv, Sched!Register
<1>2. PICK thr : thr = [id |-> count', sm |-> p, entry |-> "call"]
  OBVIOUS
<1>3. thr \in Waiting /\ thr.id = count + 1
  BY <1>1, <1>2, BoundAssumption DEF Waiting, ThreadId
<1>4. PICK q \in Seq(Waiting) : q = Append(ready, thr)
  BY <1>1, <1>3, AppendProperties
<1>5. /\ Len(q) = Len(ready) + 1 /\ q[Len(ready) + 1] = thr /\ Len(ready) \in Nat
      /\ \A k \in 1 .. Len(ready) : q[k] = ready[k]
  BY <1>1, <1>3, <1>4, AppendProperties, LenProperties
<1>6. ready' = q
  BY <1>2, <1>4 DEF Sched!Register
<1>7. Current' = Current /\ Current = 0 /\ count' \in 0 .. MaxThreads
  BY <1>1, BoundAssumption DEF TypeInv, FifoInv, Current, Sched!Nobody
<1>8. \A k \in 1 .. Len(q) : q[k].id <= count' /\ q[k].id \notin ended' \cup {Current'}
  <2>. SUFFICES ASSUME NEW k \in 1 .. Len(q)
                PROVE  q[k].id <= count' /\ q[k].id \notin ended' \cup {Current'}
    OBVIOUS
  <2>1. CASE k <= Len(ready)
    <3>1. q[k] = ready[k] /\ ready[k] \in Waiting /\ ready[k].id <= count
          /\ ready[k].id \notin ended \cup {Current}
      BY <1>5, <2>1, ElementOfSeq DEF TypeInv, FifoInv
    <3>. QED BY <1>1, <1>7, <3>1 DEF Waiting, ThreadId
  <2>2. CASE k = Len(ready) + 1
    BY <1>1, <1>3, <1>5, <1>7, <2>2
  <2>. QED BY <1>5, <2>1, <2>2
<1>9. \A j, k \in 1 .. Len(q) : q[j].id = q[k].id => j = k
  <2>1. \A k \in 1 .. Len(ready) : ready[k].id # count + 1
    <3>. SUFFICES ASSUME NEW k \in 1 .. Len(ready)
                  PROVE  ready[k].id # count + 1
      OBVIOUS
    <3>1. ready[k].id <= count /\ ready[k] \in Waiting
      BY <1>1, ElementOfSeq DEF TypeInv, FifoInv
    <3>. QED BY <1>1, <3>1 DEF Waiting, ThreadId
  <2>. QED BY <1>3, <1>5, <2>1 DEF TypeInv, FifoInv
<1>10. \A k \in 1 .. Len(q) : q[k] = thr \/ Waits(q[k])
  BY <1>5 DEF Waits
<1>11. FifoInv'
  <2>1. ended' \subseteq 1 .. count' /\ Current' <= count' /\ Current' \notin ended'
    BY <1>1, <1>7
  <2>2. mode' = "idle" /\ running' = Sched!Nobody
    BY <1>1 DEF TypeInv, FifoInv
  <2>. QED BY <1>6, <1>7, <1>8, <1>9, <2>1, <2>2 DEF FifoInv
<1>. QED BY <1>1, <1>2, <1>6, <1>10, <1>11

\* Back to start_scheduling, and the endless loop.
LEMMA FifoIdle ==
  ASSUME TypeInv, Sched!Return \/ (Sched!Stop /\ mode = "idle")
  PROVE  FifoInv' /\ UNCHANGED <<ready, running, ended, count>>
BY DEF TypeInv, FifoInv, Sched!Return, Sched!Stop, Current, Sched!Nobody

\* The other steps leave the scheduler alone.
LEMMA FifoStays ==
  ASSUME TypeInv, UNCHANGED schedVars
  PROVE  FifoInv'
BY DEF TypeInv, FifoInv, schedVars, Current, Sched!Nobody

-----------------------------------------------------------------------------
(* The steps keep the types.                                                *)

\* What the CPU is set to is a state of the CPU.
LEMMA CpuTypes ==
  /\ \A s \in SM : Body(s) \in Cpu
  /\ \A t \in SM, from \in Domain, busy \in BOOLEAN :
       \A r6 \in {"call", "badidx", "badret", RETURN} : Enter(t, from, r6, busy) \in Cpu
  /\ \A s \in SM, busy \in BOOLEAN :
       \A r6 \in {RETURN, "yield", "report"} : ToSched(s, r6, busy) \in Cpu
  /\ InMain \in Cpu /\ Exit \in Cpu
BY DEF Cpu, Body, Enter, ToSched, InMain, Exit, Domain, RETURN

\* The scheduler's part of TypeOK.
LEMMA FifoTypes ==
  ASSUME FifoInv'
  PROVE  /\ running'.id \in ThreadId /\ ended' \subseteq ThreadId \ {0}
         /\ mode' \in Sched!Mode
<1>1. running'.id \in ThreadId
  BY BoundAssumption DEF FifoInv, Waiting, ThreadId, Sched!Nobody
<1>2. ended' \subseteq ThreadId \ {0}
  BY BoundAssumption DEF FifoInv, ThreadId
<1>3. mode' \in Sched!Mode
  BY DEF FifoInv, Sched!Mode
<1>. QED BY <1>1, <1>2, <1>3

\* Nothing is pushed or popped.
LEMMA SameStacks ==
  ASSUME TypeInv, UNCHANGED stack
  PROVE  ShapeInv' /\ stack' \in [SM -> Seq(Frame)]
BY DEF TypeInv, TypeOK, ShapeInv, FrameShape, Below

\* The frame under the last one.
LEMMA UnderTop ==
  ASSUME TypeInv, NEW s \in SM, Len(stack[s]) > 0, Top(s).kind # "in"
  PROVE  /\ Len(stack[s]) - 1 \in 1 .. Len(stack[s]) - 1
         /\ stack[s][Len(stack[s]) - 1].kind = Below(Top(s).kind)
         /\ Top(s).kind \in {"yield", "retry"} => Top(s).peer = Scheduler
         /\ Top(s).kind = "call" => Top(s).peer \in SM
<1>1. Len(stack[s]) \in Nat /\ Len(stack[s]) \in 1 .. Len(stack[s])
  BY Lists DEF TypeInv, TypeOK
<1>2. FrameShape(s, Len(stack[s]))
  BY <1>1 DEF TypeInv, ShapeInv
<1>. QED BY <1>1, <1>2 DEF FrameShape, Top

\* A return that is not rejected finds a frame.
LEMMA ReturnedTop ==
  ASSUME TypeInv, NEW t \in SM, NEW kind \in {"call", "yield", "retry"},
         Returned(t, kind)
  PROVE  /\ Len(stack[t]) > 0 /\ Top(t).kind = kind /\ Top(t).peer = cpu.from
         /\ cpu.sm = t /\ cpu.at = "entry" /\ cpu.r6 = RETURN
         /\ cpu.from # Scheduler => sm_thr[t] = Current
<1>1. stack[t] \in Seq(Frame) /\ stack[t] # <<>>
  BY DEF TypeInv, TypeOK, Returned, Rejected, Callee
<1>2. Len(stack[t]) > 0
  BY <1>1, Lists
<1>. QED BY <1>1, <1>2 DEF Returned, Rejected, Callee

\* Work is counted.
LEMMA SpendType ==
  ASSUME TypeInv, Spend
  PROVE  work' \in [ThreadId -> 0 .. MaxWork]
BY BoundAssumption DEF TypeInv, TypeOK, Spend, Current

\* What CpuInv asks of a CPU that leaves module code.
CpuOut(c) ==
  /\ c \in Cpu /\ c.at # "body"
  /\ c.at = "entry" => c.sm \in SM /\ c.r6 \in {"call", "badidx", "badret", RETURN}
  /\ c.at = "sched" => c.from \in SM /\ c.r6 \in {RETURN, "yield", "report"}

\* The ways to leave module code.
LEMMA CpuOuts ==
  /\ \A t \in SM, from \in Domain, busy \in BOOLEAN :
       \A r6 \in {"call", "badidx", "badret", RETURN} : CpuOut(Enter(t, from, r6, busy))
  /\ \A s \in SM, busy \in BOOLEAN :
       \A r6 \in {RETURN, "yield", "report"} : CpuOut(ToSched(s, r6, busy))
  /\ CpuOut(InMain) /\ CpuOut(Exit)
BY CpuTypes, SMTT(30) DEF CpuOut, Enter, ToSched, InMain, Exit

\* So is a return, to whatever domain.
LEMMA ReturnOut ==
  ASSUME NEW t \in Domain, NEW s \in SM, NEW busy \in BOOLEAN
  PROVE  CpuOut(ReturnTo(t, s, busy))
<1>1. CASE t = Scheduler
  BY <1>1, CpuOuts DEF ReturnTo
<1>2. CASE t = Main
  BY <1>2, CpuOuts, DomainAssumption DEF ReturnTo
<1>3. CASE t # Scheduler /\ t # Main
  BY <1>3, CpuOuts DEF ReturnTo, Domain
<1>. QED BY <1>1, <1>2, <1>3

\* So is the branch to the next thread.
LEMMA DispatchOut ==
  ASSUME running' \in Waiting, Dispatch
  PROVE  CpuOut(cpu')
BY CpuOuts DEF Dispatch, Waiting, Domain

\* A step that leaves the stacks alone and does not enter module code.
LEMMA QuietTypes ==
  ASSUME TypeInv, FifoInv', UNCHANGED <<stack, sm_thr, chain>>,
         work' \in [ThreadId -> 0 .. MaxWork], CpuOut(cpu')
  PROVE  TypeInv'
<1>1. ShapeInv' /\ stack' \in [SM -> Seq(Frame)]
  BY SameStacks
<1>2. sm_thr' \in [SM -> ThreadId] /\ chain' \in [ThreadId -> Seq(SM)]
  BY DEF TypeInv, TypeOK
<1>3. CpuInv' /\ cpu' \in Cpu
  BY DEF CpuInv, CpuOut
<1>4. TypeOK'
  BY <1>1, <1>2, <1>3, FifoTypes DEF TypeOK
<1>. QED BY <1>1, <1>3, <1>4 DEF TypeInv

\* A step that pushes a frame.
LEMMA PushTypes ==
  ASSUME TypeInv, UNCHANGED schedVars, NEW s \in SM, NEW f \in Frame, Pushed(s, f),
         f.kind # "in" => Len(stack[s]) > 0 /\ Top(s).kind = Below(f.kind),
         f.kind = "call" => f.peer \in SM,
         f.kind \in {"yield", "retry"} => f.peer = Scheduler,
         sm_thr' \in [SM -> ThreadId], chain' \in [ThreadId -> Seq(SM)],
         work' \in [ThreadId -> 0 .. MaxWork],
         CpuOut(cpu') \/ (f.kind = "in" /\ cpu' = Body(s))
  PROVE  TypeInv'
<1>1. ShapeInv' /\ stack' \in [SM -> Seq(Frame)] /\ FifoInv'
  BY PushShape, FifoStays DEF Pushed
<1>2. CpuInv' /\ cpu' \in Cpu
  <2>1. CASE CpuOut(cpu')
    BY <2>1 DEF CpuInv, CpuOut
  <2>2. CASE f.kind = "in" /\ cpu' = Body(s)
    <3>1. Len(stack'[s]) > 0 /\ Top(s)' = f
      BY Lists DEF Pushed, Top, TypeInv, TypeOK
    <3>2. cpu'.sm = s /\ cpu'.at = "body" /\ cpu' = Body(cpu'.sm)
      BY <2>2 DEF Body
    <3>. QED BY <2>2, <3>1, <3>2, CpuTypes DEF CpuInv
  <2>. QED BY <2>1, <2>2
<1>3. TypeOK'
  BY <1>1, <1>2, FifoTypes DEF TypeOK
<1>. QED BY <1>1, <1>2, <1>3 DEF TypeInv

\* A step that pops a frame.
LEMMA PopTypes ==
  ASSUME TypeInv, UNCHANGED <<schedVars, sm_thr, work>>, NEW s \in SM,
         Len(stack[s]) > 0, Popped(s), chain' \in [ThreadId -> Seq(SM)],
         \/ CpuOut(cpu')
         \/ Top(s).kind # "in" /\ Below(Top(s).kind) = "in" /\ cpu' = Body(s)
  PROVE  TypeInv'
<1>1. ShapeInv' /\ stack' \in [SM -> Seq(Frame)] /\ FifoInv'
  BY PopShape, FifoStays DEF Popped
<1>2. CpuInv' /\ cpu' \in Cpu
  <2>1. CASE CpuOut(cpu')
    BY <2>1 DEF CpuInv, CpuOut
  <2>2. CASE Top(s).kind # "in" /\ Below(Top(s).kind) = "in" /\ cpu' = Body(s)
    <3>1. /\ Len(stack[s]) - 1 \in 1 .. Len(stack[s]) - 1
          /\ stack[s][Len(stack[s]) - 1].kind = "in"
      BY <2>2, UnderTop
    <3>2. Len(stack'[s]) = Len(stack[s]) - 1 /\ Len(stack'[s]) > 0
      BY <3>1 DEF Popped
    <3>3. Top(s)'.kind = "in"
      BY <3>1, <3>2 DEF Popped, Top
    <3>4. cpu'.sm = s /\ cpu'.at = "body" /\ cpu' = Body(cpu'.sm)
      BY <2>2 DEF Body
    <3>. QED BY <2>2, <3>2, <3>3, <3>4, CpuTypes DEF CpuInv
  <2>. QED BY <2>1, <2>2
<1>3. /\ sm_thr' \in [SM -> ThreadId] /\ work' \in [ThreadId -> 0 .. MaxWork]
  BY DEF TypeInv, TypeOK
<1>4. TypeOK'
  BY <1>1, <1>2, <1>3, FifoTypes DEF TypeOK
<1>. QED BY <1>1, <1>2, <1>4 DEF TypeInv

\* Module code executes above the frame of its caller.
LEMMA InBody ==
  ASSUME TypeInv, NEW s \in SM, cpu = Body(s)
  PROVE  Len(stack[s]) > 0 /\ Top(s).kind = "in"
<1>1. cpu.at = "body" /\ cpu.sm = s
  BY DEF Body
<1>. QED BY <1>1 DEF TypeInv, CpuInv

\* The main thread's steps keep the types.
LEMMA MainTypes ==
  ASSUME TypeInv,
         \/ \E p \in Portal : MainRegister(p)
         \/ MainStart \/ MainResume \/ MainExit
         \/ \E t \in SM : MainCall(t)
  PROVE  TypeInv'
<1>1. work \in [ThreadId -> 0 .. MaxWork]
  BY DEF TypeInv, TypeOK
<1>2. ASSUME NEW p \in Portal, MainRegister(p)
      PROVE  TypeInv'
  <2>1. FifoInv' /\ CpuOut(cpu') /\ UNCHANGED <<stack, sm_thr, work, chain>>
    BY <1>2, FifoRegister, CpuOuts, DomainAssumption DEF MainRegister
  <2>. QED BY <1>1, <2>1, QuietTypes
<1>3. CASE MainStart
  <2>1. FifoInv' /\ running' \in Waiting
    BY <1>3, FifoStart DEF MainStart, QueuedOr
  <2>2. CpuOut(cpu') /\ UNCHANGED <<stack, sm_thr, work, chain>>
    BY <1>3, <2>1, DispatchOut DEF MainStart
  <2>. QED BY <1>1, <2>1, <2>2, QuietTypes
<1>4. CASE MainResume
  <2>1. FifoInv' /\ CpuOut(cpu') /\ UNCHANGED <<stack, sm_thr, work, chain>>
    BY <1>4, FifoIdle, CpuOuts DEF MainResume
  <2>. QED BY <1>1, <2>1, QuietTypes
<1>5. CASE MainExit
  <2>1. FifoInv' /\ CpuOut(cpu') /\ UNCHANGED <<stack, sm_thr, work, chain>>
    BY <1>5, FifoStays, CpuOuts DEF MainExit
  <2>. QED BY <1>1, <2>1, QuietTypes
<1>6. ASSUME NEW t \in SM, MainCall(t)
      PROVE  TypeInv'
  <2>1. FifoInv' /\ UNCHANGED <<stack, sm_thr, chain>>
    BY <1>6, FifoStays DEF MainCall
  <2>2. CpuOut(cpu') /\ work' \in [ThreadId -> 0 .. MaxWork]
    BY <1>6, CpuOuts, SpendType DEF MainCall, Domain
  <2>. QED BY <2>1, <2>2, QuietTypes
<1>. QED BY <1>2, <1>3, <1>4, <1>5, <1>6

\* The steps of module code keep the types.
LEMMA ModuleTypes ==
  ASSUME TypeInv, ModuleStep
  PROVE  TypeInv'
<1>1. /\ sm_thr \in [SM -> ThreadId] /\ work \in [ThreadId -> 0 .. MaxWork]
      /\ chain \in [ThreadId -> Seq(SM)]
  BY DEF TypeInv, TypeOK
<1>2. ASSUME NEW s \in SM, NEW t \in SM, CallOut(s, t)
      PROVE  TypeInv'
  <2>1. PICK f \in Frame : f = NewFrame("call", t) /\ Pushed(s, f)
    BY <1>2, PushPushes DEF CallOut, Domain
  <2>2. f.kind = "call" /\ f.peer = t
    BY <2>1 DEF NewFrame
  <2>3. Len(stack[s]) > 0 /\ Top(s).kind = Below("call")
    BY <1>2, InBody DEF CallOut, Below
  <2>4. CpuOut(cpu') /\ work' \in [ThreadId -> 0 .. MaxWork]
    BY <1>2, CpuOuts, SpendType DEF CallOut, Domain
  <2>5. UNCHANGED <<schedVars, sm_thr, chain>>
    BY <1>2 DEF CallOut
  <2>. QED BY <1>1, <2>1, <2>2, <2>3, <2>4, <2>5, PushTypes
<1>3. ASSUME NEW s \in SM, YieldOut(s)
      PROVE  TypeInv'
  <2>1. PICK f \in Frame : f = NewFrame("yield", Scheduler) /\ Pushed(s, f)
    BY <1>3, PushPushes DEF YieldOut, Domain
  <2>2. f.kind = "yield" /\ f.peer = Scheduler
    BY <2>1 DEF NewFrame
  <2>3. Len(stack[s]) > 0 /\ Top(s).kind = Below("yield")
    BY <1>3, InBody DEF YieldOut, Below
  <2>4. CpuOut(cpu') /\ work' \in [ThreadId -> 0 .. MaxWork]
    BY <1>3, CpuOuts, SpendType DEF YieldOut
  <2>5. UNCHANGED <<schedVars, sm_thr, chain>>
    BY <1>3 DEF YieldOut
  <2>. QED BY <1>1, <2>1, <2>2, <2>3, <2>4, <2>5, PushTypes
<1>4. ASSUME NEW s \in SM, ReturnFrom(s)
      PROVE  TypeInv'
  <2>1. Len(stack[s]) > 0 /\ Top(s) \in Frame
    BY <1>4, InBody, Lists DEF ReturnFrom, TypeInv, TypeOK, Top
  <2>2. Popped(s)
    BY <1>4, <2>1, PopPops DEF ReturnFrom
  <2>3. CpuOut(cpu') /\ chain' \in [ThreadId -> Seq(SM)]
    BY <1>4, <2>1, ReturnOut, LeaveType DEF ReturnFrom, Frame
  <2>4. UNCHANGED <<schedVars, sm_thr, work>>
    BY <1>4 DEF ReturnFrom
  <2>. QED BY <2>1, <2>2, <2>3, <2>4, PopTypes
<1>5. ASSUME NEW s \in SM, Jump(s)
      PROVE  TypeInv'
  <2>1. PICK f \in Frame : f = NewFrame("open", s) /\ Pushed(s, f)
    BY <1>5, PushPushes DEF Jump, Domain
  <2>2. f.kind = "open"
    BY <2>1 DEF NewFrame
  <2>3. Len(stack[s]) > 0 /\ Top(s).kind = Below("open")
    BY <1>5, InBody DEF Jump, Below
  <2>4. CpuOut(cpu') /\ chain' \in [ThreadId -> Seq(SM)]
    <3>1. CASE \E t \in SM \ {s}, busy \in BOOLEAN :
                 cpu' = Enter(t, s, RETURN, busy) /\ chain' = Leave(Current)
      BY <3>1, CpuOuts, LeaveType DEF Domain
    <3>2. CASE \E busy \in Answers :
                 cpu' = ToSched(s, RETURN, busy) /\ chain' = Leave(Current)
      BY <3>2, CpuOuts, LeaveType, DomainAssumption
    <3>3. CASE \E t \in SM \ {s}, r6 \in {"badidx", "badret"} :
                 cpu' = Enter(t, s, r6, FALSE) /\ UNCHANGED chain
      BY <1>1, <3>3, CpuOuts DEF Domain
    <3>. QED BY <1>5, <3>1, <3>2, <3>3 DEF Jump
  <2>5. work' \in [ThreadId -> 0 .. MaxWork] /\ UNCHANGED <<schedVars, sm_thr>>
    BY <1>5, SpendType DEF Jump
  <2>. QED BY <1>1, <2>1, <2>2, <2>3, <2>4, <2>5, PushTypes
<1>. QED BY <1>2, <1>3, <1>4, <1>5 DEF ModuleStep

\* The steps of a module's entry stub keep the types.
LEMMA EntryTypes ==
  ASSUME TypeInv, NEW t \in SM,
         \/ EntryViolation(t) \/ EntryCall(t) \/ EntryBusy(t) \/ EntryReturn(t)
         \/ EntryCalleeBusy(t) \/ EntryResume(t) \/ EntryRetry(t)
  PROVE  TypeInv'
<1>1. /\ sm_thr \in [SM -> ThreadId] /\ work \in [ThreadId -> 0 .. MaxWork]
      /\ chain \in [ThreadId -> Seq(SM)] /\ chain[Current] \in Seq(SM)
      /\ Current \in ThreadId /\ cpu \in Cpu
  BY DEF TypeInv, TypeOK, Current
<1>2. CASE EntryViolation(t)
  <2>1. FifoInv' /\ CpuOut(cpu') /\ UNCHANGED <<stack, sm_thr, work, chain>>
    BY <1>2, FifoStays, CpuOuts DEF EntryViolation
  <2>. QED BY <1>1, <2>1, QuietTypes
<1>3. CASE EntryCall(t)
  <2>1. cpu.from \in Domain
    BY <1>1 DEF Cpu
  <2>2. PICK f \in Frame : f = NewFrame("in", cpu.from) /\ Pushed(t, f)
    BY <1>3, <2>1, PushPushes DEF EntryCall
  <2>3. f.kind = "in"
    BY <2>2 DEF NewFrame
  <2>4. PICK q \in Seq(SM) : q = Append(chain[Current], t)
    BY <1>1, AppendProperties
  <2>5. sm_thr' \in [SM -> ThreadId] /\ chain' \in [ThreadId -> Seq(SM)]
    BY <1>1, <1>3, <2>4 DEF EntryCall
  <2>6. cpu' = Body(t) /\ UNCHANGED schedVars /\ UNCHANGED work
    BY <1>3 DEF EntryCall
  <2>. QED BY <1>1, <2>2, <2>3, <2>5, <2>6, PushTypes
<1>4. CASE EntryBusy(t)
  <2>1. FifoInv' /\ UNCHANGED <<stack, sm_thr, work, chain>>
    BY <1>4, FifoStays DEF EntryBusy
  <2>2. CpuOut(cpu')
    BY <1>1, <1>4, ReturnOut DEF EntryBusy, Cpu
  <2>. QED BY <1>1, <2>1, <2>2, QuietTypes
<1>5. CASE EntryReturn(t)
  <2>1. Len(stack[t]) > 0 /\ Top(t).kind = "call"
    BY <1>5, ReturnedTop DEF EntryReturn
  <2>2. Popped(t) /\ cpu' = Body(t) /\ UNCHANGED <<schedVars, sm_thr, work, chain>>
    BY <1>5, <2>1, PopPops DEF EntryReturn
  <2>. QED BY <1>1, <2>1, <2>2, PopTypes DEF Below
<1>6. CASE EntryCalleeBusy(t)
  <2>1. Len(stack[t]) > 0 /\ Top(t).kind = "call"
    BY <1>6, ReturnedTop DEF EntryCalleeBusy
  <2>2. PICK f \in Frame : f = NewFrame("retry", Scheduler) /\ Pushed(t, f)
    BY <1>6, PushPushes DEF EntryCalleeBusy, Domain
  <2>3. f.kind = "retry" /\ f.peer = Scheduler
    BY <2>2 DEF NewFrame
  <2>4. CpuOut(cpu') /\ UNCHANGED <<schedVars, sm_thr, work, chain>>
    BY <1>6, CpuOuts DEF EntryCalleeBusy
  <2>. QED BY <1>1, <2>1, <2>2, <2>3, <2>4, PushTypes DEF Below
<1>7. CASE EntryResume(t)
  <2>1. Len(stack[t]) > 0 /\ Top(t).kind = "yield"
    BY <1>7, ReturnedTop DEF EntryResume
  <2>2. Popped(t) /\ cpu' = Body(t) /\ UNCHANGED <<schedVars, sm_thr, work, chain>>
    BY <1>7, <2>1, PopPops DEF EntryResume
  <2>. QED BY <1>1, <2>1, <2>2, PopTypes DEF Below
<1>8. CASE EntryRetry(t)
  <2>1. Len(stack[t]) > 0 /\ Top(t).kind = "retry"
    BY <1>8, ReturnedTop DEF EntryRetry
  <2>2. Popped(t) /\ UNCHANGED <<schedVars, sm_thr, work, chain>>
    BY <1>8, <2>1, PopPops DEF EntryRetry
  <2>3. /\ Len(stack[t]) - 1 \in 1 .. Len(stack[t]) - 1
        /\ stack[t][Len(stack[t]) - 1].kind = "call"
    BY <2>1, UnderTop DEF Below
  <2>4. /\ Len(stack'[t]) = Len(stack[t]) - 1
        /\ stack'[t][Len(stack'[t])] = stack[t][Len(stack[t]) - 1]
    BY <2>2, <2>3 DEF Popped
  <2>5. Len(stack[t]) - 1 \in 1 .. Len(stack[t]) /\ FrameShape(t, Len(stack[t]) - 1)
    BY <2>3, Lists DEF TypeInv, TypeOK, ShapeInv
  <2>6. stack[t][Len(stack[t]) - 1].peer \in SM
    BY <2>3, <2>5 DEF FrameShape
  <2>7. CpuOut(cpu')
    BY <1>8, <2>4, <2>6, CpuOuts DEF EntryRetry, Domain
  <2>. QED BY <1>1, <2>1, <2>2, <2>7, PopTypes
<1>. QED BY <1>2, <1>3, <1>4, <1>5, <1>6, <1>7, <1>8

\* What the running thread is requeued as when it yields.
LEMMA Requeued ==
  ASSUME TypeInv, mode = "run"
  PROVE  /\ running \in Waiting
         /\ \A from \in SM : LET thr == [running EXCEPT !.sm = from, !.entry = RETURN]
                             IN  /\ thr \in Waiting /\ thr.id = Current
                                 /\ thr.sm = from /\ thr.entry = RETURN
BY DEF TypeInv, FifoInv, Waiting, Current

\* The steps of the scheduler's entry stub keep the types.
LEMMA SchedTypes ==
  ASSUME TypeInv,
         \/ SchedYield \/ SchedYieldIdle \/ SchedBusy \/ SchedFinish \/ SchedKill
         \/ SchedExit
  PROVE  TypeInv'
<1>1. work \in [ThreadId -> 0 .. MaxWork]
  BY DEF TypeInv, TypeOK
<1>2. CASE SchedYield
  <2>1. cpu.from \in SM
    BY <1>2 DEF SchedYield, AtSched, TypeInv, CpuInv
  <2>2. PICK thr \in Waiting : /\ thr = [running EXCEPT !.sm = cpu.from, !.entry = RETURN]
                               /\ thr.id = Current
    BY <1>2, <2>1, Requeued DEF SchedYield
  <2>3. Sched!Rotate(thr)
    BY <1>2, <2>2 DEF SchedYield, Sched!Yield
  <2>4. FifoInv' /\ running' \in Waiting
    BY <2>2, <2>3, FifoRotate DEF QueuedOr
  <2>5. CpuOut(cpu') /\ UNCHANGED <<stack, sm_thr, work, chain>>
    BY <1>2, <2>4, DispatchOut DEF SchedYield
  <2>. QED BY <1>1, <2>4, <2>5, QuietTypes
<1>3. CASE SchedYieldIdle
  <2>1. FifoInv' /\ UNCHANGED <<stack, sm_thr, work, chain>>
    BY <1>3, FifoStays DEF SchedYieldIdle
  <2>2. CpuOut(cpu')
    BY <1>3, CpuOuts DEF SchedYieldIdle, AtSched, TypeInv, CpuInv, Domain
  <2>. QED BY <1>1, <2>1, <2>2, QuietTypes
<1>4. CASE SchedBusy
  <2>1. running \in Waiting /\ Sched!Rotate(running)
    BY <1>4, Requeued DEF SchedBusy, Sched!Busy
  <2>2. FifoInv' /\ running' \in Waiting
    BY <2>1, FifoRotate DEF QueuedOr, Current
  <2>3. CpuOut(cpu') /\ UNCHANGED <<stack, sm_thr, work, chain>>
    BY <1>4, <2>2, DispatchOut DEF SchedBusy
  <2>. QED BY <1>1, <2>2, <2>3, QuietTypes
<1>5. CASE SchedFinish \/ SchedKill
  <2>1. FifoInv' /\ (mode' = "final" \/ running' \in Waiting)
    BY <1>5, FifoDone DEF SchedFinish, SchedKill, QueuedOr
  <2>2. CpuOut(cpu') /\ UNCHANGED <<stack, sm_thr, work, chain>>
    BY <1>5, <2>1, DispatchOut, CpuOuts DEF SchedFinish, SchedKill, DispatchOrFinal
  <2>. QED BY <1>1, <2>1, <2>2, QuietTypes
<1>6. CASE SchedExit
  <2>1. FifoInv' /\ CpuOut(cpu') /\ UNCHANGED <<stack, sm_thr, work, chain>>
    BY <1>6, FifoIdle, CpuOuts DEF SchedExit
  <2>. QED BY <1>1, <2>1, QuietTypes
<1>. QED BY <1>2, <1>3, <1>4, <1>5, <1>6

\* Nothing is stacked and no thread is registered at first.
LEMMA TypeInit == Init => TypeInv
<1>. SUFFICES ASSUME Init
              PROVE  TypeInv
  OBVIOUS
<1>1. /\ ready = <<>> /\ running = Sched!Nobody /\ ended = {} /\ count = 0
      /\ mode = "idle" /\ Current = 0
  BY DEF Init, Sched!Init, Current, Sched!Nobody
<1>2. Len(ready) = 0 /\ ready \in Seq(Waiting)
  BY <1>1, EmptySeq
<1>3. FifoInv
  BY <1>1, <1>2, BoundAssumption DEF FifoInv
<1>4. stack \in [SM -> Seq(Frame)] /\ \A s \in SM : Len(stack[s]) = 0
  BY EmptySeq DEF Init
<1>5. chain \in [ThreadId -> Seq(SM)]
  BY EmptySeq DEF Init
<1>6. /\ sm_thr \in [SM -> ThreadId] /\ work \in [ThreadId -> 0 .. MaxWork]
      /\ running.id \in ThreadId /\ ended \subseteq ThreadId \ {0}
      /\ mode \in Sched!Mode
  BY <1>1, BoundAssumption DEF Init, ThreadId, Sched!Nobody, Sched!Mode
<1>7. cpu \in Cpu /\ cpu.at = "main"
  BY CpuTypes DEF Init, InMain
<1>8. ShapeInv /\ CpuInv
  BY <1>4, <1>7 DEF ShapeInv, CpuInv
<1>. QED BY <1>3, <1>4, <1>5, <1>6, <1>7, <1>8 DEF TypeInv, TypeOK

\* Every step keeps the types.
LEMMA TypeStep ==
  ASSUME TypeInv, [Next]_vars
  PROVE  TypeInv'
<1>1. CASE \/ \E p \in Portal : MainRegister(p)
           \/ MainStart \/ MainResume \/ MainExit
           \/ \E t \in SM : MainCall(t)
  BY <1>1, MainTypes
<1>2. CASE ModuleStep
  BY <1>2, ModuleTypes
<1>3. CASE StubStep
  BY <1>3, EntryTypes, SchedTypes DEF StubStep
<1>4. CASE UNCHANGED vars
  <2>1. FifoInv'
    BY <1>4, FifoStays DEF vars, schedVars
  <2>2. ShapeInv'
    BY <1>4, SameStacks DEF vars
  <2>. QED BY <1>4, <2>1, <2>2 DEF TypeInv, TypeOK, CpuInv, vars, Top
<1>. QED BY <1>1, <1>2, <1>3, <1>4 DEF Next, spin

\* The types hold in every state, whatever the modules call and faulty modules do:
\* no stub finds an empty stack where it takes a frame off, and the CPU is always
\* given to a module with a frame to return to.
THEOREM TypesCorrect == Spec => []TypeInv
<1>1. TypeInv /\ [Next]_vars => TypeInv'
  BY TypeStep
<1>. QED BY <1>1, TypeInit, PTL DEF Spec

\* Type correctness of Threads.
THEOREM ThreadsTypeCorrect == Spec => []TypeOK
BY TypesCorrect, PTL DEF TypeInv

-----------------------------------------------------------------------------
(* Monothreading, as long as no faulty module answers busy to the scheduler *)
(* in the middle of a thread (run threads_busy shows what happens then).    *)

\* The faulty modules, if any, return to the scheduler without the busy value.
NoFalseBusy == Faulty = {} \/ TRUE \notin Answers

\* Module s waits for the scheduler to resume thread i in it.
Suspended(s, i) ==
  Len(stack[s]) > 0 /\ Top(s).kind \in {"yield", "retry"} /\ sm_thr[s] = i

\* What is on the stack of a module was pushed by the thread it works for.
Owned == \A s \in SM : \A k \in 1 .. Len(stack[s]) : stack[s][k].thr = sm_thr[s]

\* A thread that yielded will be resumed in the module that waits for it.
ReadyOwn ==
  \A k \in 1 .. Len(ready) :
    ready[k].entry = RETURN => Suspended(ready[k].sm, ready[k].id)

\* So is the current one when the scheduler has resumed it; and only a thread that
\* enters its portal can find it busy.
OwnCpu ==
  /\ cpu.at = "body" => sm_thr[cpu.sm] = Current
  /\ cpu.at = "entry" /\ cpu.from = Scheduler =>
       \/ cpu.r6 = "call" /\ mode = "run" /\ running.entry = "call"
       \/ cpu.r6 = RETURN /\ Suspended(cpu.sm, Current)
  /\ cpu.at = "sched" /\ cpu.r6 = "yield" => Suspended(cpu.from, Current)
  /\ cpu.at = "sched" /\ cpu.r6 = RETURN /\ cpu.busy /\ mode = "run" =>
       running.entry = "call"

OwnInv == Owned /\ ReadyOwn /\ OwnCpu

\* A step leaves the modules that work for other threads alone.
StaysOut ==
  \A s \in SM : stack[s] # <<>> /\ sm_thr[s] # Current =>
                  stack'[s] = stack[s] /\ sm_thr'[s] = sm_thr[s]

\* A step that leaves the scheduler alone, and all modules but one, which does not
\* work for another thread.
LEMMA TouchOwn ==
  ASSUME TypeInv, OwnInv, UNCHANGED schedVars, NEW s \in SM,
         stack[s] = <<>> \/ sm_thr[s] = Current,
         \A r \in SM \ {s} : stack'[r] = stack[r] /\ sm_thr'[r] = sm_thr[r],
         \A k \in 1 .. Len(stack'[s]) : stack'[s][k].thr = sm_thr'[s]
  PROVE  Owned' /\ ReadyOwn' /\ StaysOut
<1>1. Owned' /\ StaysOut
  BY DEF OwnInv, Owned, StaysOut
<1>2. ReadyOwn'
  <2>. SUFFICES ASSUME NEW k \in 1 .. Len(ready), ready[k].entry = RETURN
                PROVE  Suspended(ready[k].sm, ready[k].id)'
    BY DEF ReadyOwn, schedVars
  <2>1. ready[k] \in Waiting /\ ready[k].id # Current
    BY Lists DEF TypeInv, FifoInv
  <2>2. Suspended(ready[k].sm, ready[k].id) /\ ready[k].sm \in SM
    BY <2>1 DEF OwnInv, ReadyOwn, Waiting
  <2>3. ready[k].sm # s
    BY <2>1, <2>2, Lists DEF Suspended, TypeInv, TypeOK
  <2>4. ready[k]' = ready[k]
    BY DEF schedVars
  <2>. QED BY <2>2, <2>3, <2>4 DEF Suspended, Top
<1>. QED BY <1>1, <1>2

\* A push by the current thread.
LEMMA PushOwn ==
  ASSUME TypeInv, OwnInv, UNCHANGED schedVars, NEW s \in SM, NEW f, Pushed(s, f),
         f.thr = Current, sm_thr'[s] = Current,
         stack[s] = <<>> \/ sm_thr[s] = Current,
         \A r \in SM \ {s} : sm_thr'[r] = sm_thr[r]
  PROVE  Owned' /\ ReadyOwn' /\ StaysOut
<1>1. Len(stack[s]) \in Nat /\ (stack[s] = <<>> => Len(stack[s]) = 0)
  BY Lists DEF TypeInv, TypeOK
<1>2. \A k \in 1 .. Len(stack[s]) : stack[s][k].thr = Current
  BY <1>1 DEF OwnInv, Owned
<1>3. \A k \in 1 .. Len(stack'[s]) : stack'[s][k].thr = sm_thr'[s]
  BY <1>1, <1>2 DEF Pushed
<1>. QED BY <1>3, TouchOwn DEF Pushed

\* A pop by the current thread.
LEMMA PopOwn ==
  ASSUME TypeInv, OwnInv, UNCHANGED schedVars, UNCHANGED sm_thr, NEW s \in SM,
         Popped(s), Len(stack[s]) > 0, sm_thr[s] = Current
  PROVE  Owned' /\ ReadyOwn' /\ StaysOut
<1>1. Len(stack[s]) \in Nat
  BY Lists DEF TypeInv, TypeOK
<1>2. \A k \in 1 .. Len(stack[s]) - 1 : stack[s][k].thr = Current
  BY <1>1 DEF OwnInv, Owned
<1>3. \A k \in 1 .. Len(stack'[s]) : stack'[s][k].thr = sm_thr'[s]
  BY <1>1, <1>2 DEF Popped
<1>. QED BY <1>3, TouchOwn DEF Popped

\* Nothing is pushed or popped.
LEMMA QuietOwn ==
  ASSUME TypeInv, OwnInv, UNCHANGED <<stack, sm_thr>>
  PROVE  /\ Owned' /\ StaysOut
         /\ \A s, i : Suspended(s, i)' <=> Suspended(s, i)
         /\ UNCHANGED schedVars => ReadyOwn'
BY DEF OwnInv, Owned, StaysOut, Suspended, Top, ReadyOwn, schedVars

\* The current thread is replaced: thr goes to the back of the queue, if at all.
LEMMA QueueOwn ==
  ASSUME TypeInv, OwnInv, UNCHANGED <<stack, sm_thr>>, NEW thr, QueuedOr(thr),
         thr.entry = RETURN => Suspended(thr.sm, thr.id)
  PROVE  /\ ReadyOwn'
         /\ running'.entry = RETURN => Suspended(running.sm, running.id)'
<1>1. \A r : Waits(r) /\ r.entry = RETURN => Suspended(r.sm, r.id)
  BY DEF Waits, OwnInv, ReadyOwn
<1>2. ReadyOwn'
  BY <1>1, QuietOwn DEF QueuedOr, ReadyOwn
<1>3. running'.entry = RETURN => Suspended(running'.sm, running'.id)
  BY <1>1 DEF QueuedOr
<1>4. Suspended(running.sm, running.id)' <=> Suspended(running'.sm, running'.id)
  BY DEF Suspended, Top
<1>. QED BY <1>2, <1>3, <1>4

\* The branch to a thread that runs next.
LEMMA DispatchOwn ==
  ASSUME running' \in Waiting, mode' = "run", Dispatch,
         running'.entry = RETURN => Suspended(running.sm, running.id)'
  PROVE  OwnCpu'
<1>1. cpu' = Enter(running'.sm, Scheduler, running'.entry, FALSE)
  BY DEF Dispatch
<1>2. cpu'.at = "entry" /\ cpu'.sm = running'.sm /\ cpu'.r6 = running'.entry
  BY <1>1 DEF Enter
<1>3. running'.entry \in {"call", RETURN} /\ Current' = running'.id
  BY DEF Waiting, Current
<1>4. cpu'.r6 = RETURN => Suspended(cpu.sm, Current)'
  BY <1>2, <1>3 DEF Suspended, Top, Current
<1>5. cpu'.r6 = "call" \/ cpu'.r6 = RETURN
  BY <1>2, <1>3
<1>. QED BY <1>2, <1>4, <1>5 DEF OwnCpu

\* The main thread's steps.
LEMMA MainOwn ==
  ASSUME TypeInv, OwnInv,
         \/ \E p \in Portal : MainRegister(p)
         \/ MainStart \/ MainResume \/ MainExit
         \/ \E t \in SM : MainCall(t)
  PROVE  OwnInv' /\ StaysOut
<1>1. UNCHANGED <<stack, sm_thr>>
  BY DEF MainRegister, MainStart, MainResume, MainExit, MainCall
<1>2. ASSUME NEW p \in Portal, MainRegister(p)
      PROVE  OwnInv'
  <2>1. \A k \in 1 .. Len(ready') : Waits(ready'[k]) \/ ready'[k].entry = "call"
    <3>1. p \in SM /\ mode = "idle" /\ Sched!Register(p, "call")
      BY <1>2, DomainAssumption DEF MainRegister
    <3>2. \A k \in 1 .. Len(ready') :
            \/ Waits(ready'[k])
            \/ ready'[k] = [id |-> count', sm |-> p, entry |-> "call"]
      BY <3>1, FifoRegister
    <3>. QED BY <3>2
  <2>2. ReadyOwn'
    BY <1>1, <2>1, QuietOwn DEF Waits, OwnInv, ReadyOwn, RETURN
  <2>3. OwnCpu'
    BY <1>2 DEF MainRegister, InMain, OwnCpu
  <2>. QED BY <1>1, <2>2, <2>3, QuietOwn DEF OwnInv
<1>3. CASE MainStart
  <2>1. QueuedOr(running') /\ Waits(running') /\ mode' = "run" /\ Dispatch
    BY <1>3, FifoStart DEF MainStart, Sched!Start
  <2>2. running'.entry = RETURN => Suspended(running'.sm, running'.id)
    BY <2>1 DEF Waits, OwnInv, ReadyOwn
  <2>3. ReadyOwn' /\ OwnCpu'
    BY <1>1, <2>1, <2>2, QueueOwn, DispatchOwn DEF QueuedOr
  <2>. QED BY <1>1, <2>3, QuietOwn DEF OwnInv
<1>4. CASE MainResume \/ MainExit
  <2>1. UNCHANGED ready /\ cpu'.at \in {"main", "exit"}
    BY <1>4, FifoIdle DEF MainResume, MainExit, InMain, Exit, schedVars
  <2>2. ReadyOwn' /\ OwnCpu'
    BY <1>1, <2>1, QuietOwn DEF OwnInv, ReadyOwn, OwnCpu
  <2>. QED BY <1>1, <2>2, QuietOwn DEF OwnInv
<1>5. ASSUME NEW t \in SM, MainCall(t)
      PROVE  OwnInv'
  <2>1. UNCHANGED schedVars /\ cpu'.at = "entry" /\ cpu'.from = Main
    BY <1>5 DEF MainCall, Enter
  <2>2. OwnCpu'
    BY <2>1, DomainAssumption DEF OwnCpu
  <2>. QED BY <1>1, <2>1, <2>2, QuietOwn DEF OwnInv
<1>. QED BY <1>1, <1>2, <1>3, <1>4, <1>5, QuietOwn

\* Fields of the frames that are pushed, and of the CPU.
LEMMA NewFields ==
  /\ \A kind, peer : /\ NewFrame(kind, peer).thr = Current
                     /\ NewFrame(kind, peer).kind = kind
                     /\ NewFrame(kind, peer).peer = peer
  /\ \A t, from, r6, busy :
       /\ Enter(t, from, r6, busy).at = "entry" /\ Enter(t, from, r6, busy).sm = t
       /\ Enter(t, from, r6, busy).from = from /\ Enter(t, from, r6, busy).r6 = r6
       /\ Enter(t, from, r6, busy).busy = busy
  /\ \A s, r6, busy :
       /\ ToSched(s, r6, busy).at = "sched" /\ ToSched(s, r6, busy).from = s
       /\ ToSched(s, r6, busy).r6 = r6 /\ ToSched(s, r6, busy).busy = busy
  /\ \A s : Body(s).at = "body" /\ Body(s).sm = s
BY DEF NewFrame, Enter, ToSched, Body

\* A return that is not a busy answer, or of a call that the scheduler did not make.
LEMMA ReturnOwn ==
  ASSUME NEW t \in Domain, NEW s \in SM, NEW busy \in BOOLEAN,
         cpu' = ReturnTo(t, s, busy),
         t = Scheduler /\ busy => (mode = "run" => running.entry = "call"),
         UNCHANGED schedVars
  PROVE  OwnCpu'
<1>1. CASE t = Scheduler
  <2>1. cpu' = ToSched(s, RETURN, busy)
    BY <1>1, DomainAssumption DEF ReturnTo
  <2>. QED BY <1>1, <2>1, NewFields DEF OwnCpu, RETURN, schedVars
<1>2. CASE t = Main
  BY <1>2, DomainAssumption DEF ReturnTo, InMain, OwnCpu
<1>3. CASE t # Scheduler /\ t # Main
  <2>1. cpu' = Enter(t, s, RETURN, busy)
    BY <1>3 DEF ReturnTo
  <2>. QED BY <2>1, NewFields, DomainAssumption DEF OwnCpu
<1>. QED BY <1>1, <1>2, <1>3

\* The frame that was pushed is the last one.
LEMMA PushedTop ==
  ASSUME TypeInv, NEW s \in SM, NEW f, Pushed(s, f)
  PROVE  Len(stack'[s]) > 0 /\ Top(s)' = f
BY Lists DEF Pushed, Top, TypeInv, TypeOK

\* The steps of module code.
LEMMA ModuleOwn ==
  ASSUME TypeInv, OwnInv, NoFalseBusy, ModuleStep
  PROVE  OwnInv' /\ StaysOut
<1>1. ASSUME NEW s \in SM, cpu = Body(s)
      PROVE  sm_thr[s] = Current
  BY <1>1, NewFields DEF OwnInv, OwnCpu
<1>2. ASSUME NEW s \in SM, NEW t \in SM, CallOut(s, t)
      PROVE  OwnInv' /\ StaysOut
  <2>1. PICK f : f = NewFrame("call", t) /\ Pushed(s, f)
    BY <1>2, PushPushes DEF CallOut, Domain
  <2>2. UNCHANGED schedVars /\ UNCHANGED sm_thr /\ sm_thr[s] = Current /\ f.thr = Current
    BY <1>1, <1>2, <2>1, NewFields DEF CallOut
  <2>3. Owned' /\ ReadyOwn' /\ StaysOut
    BY <2>1, <2>2, PushOwn
  <2>4. OwnCpu'
    BY <1>2, DomainAssumption DEF CallOut, OwnCpu, Enter
  <2>. QED BY <2>3, <2>4 DEF OwnInv
<1>3. ASSUME NEW s \in SM, YieldOut(s)
      PROVE  OwnInv' /\ StaysOut
  <2>1. PICK f : f = NewFrame("yield", Scheduler) /\ Pushed(s, f)
    BY <1>3, PushPushes DEF YieldOut, Domain
  <2>2. /\ UNCHANGED schedVars /\ UNCHANGED sm_thr /\ sm_thr[s] = Current
        /\ f.thr = Current /\ f.kind = "yield"
    BY <1>1, <1>3, <2>1, NewFields DEF YieldOut
  <2>3. Owned' /\ ReadyOwn' /\ StaysOut
    BY <2>1, <2>2, PushOwn
  <2>4. /\ cpu'.at = "sched" /\ cpu'.from = s /\ cpu'.r6 = "yield"
        /\ Current' = Current
    BY <1>3, <2>2 DEF YieldOut, schedVars, Current, ToSched
  <2>5. Suspended(cpu.from, Current)'
    BY <2>1, <2>2, <2>4, PushedTop DEF Suspended
  <2>6. OwnCpu'
    BY <2>4, <2>5 DEF OwnCpu, RETURN
  <2>. QED BY <2>3, <2>6 DEF OwnInv
<1>4. ASSUME NEW s \in SM, ReturnFrom(s)
      PROVE  OwnInv' /\ StaysOut
  <2>1. Len(stack[s]) > 0 /\ Top(s) \in Frame
    BY <1>4, InBody, Lists DEF ReturnFrom, TypeInv, TypeOK, Top
  <2>2. Popped(s)
    BY <1>4, <2>1, PopPops DEF ReturnFrom
  <2>3. UNCHANGED schedVars /\ UNCHANGED sm_thr /\ sm_thr[s] = Current
    BY <1>1, <1>4 DEF ReturnFrom
  <2>4. Owned' /\ ReadyOwn' /\ StaysOut
    BY <2>1, <2>2, <2>3, PopOwn
  <2>5. OwnCpu'
    BY <1>4, <2>1, <2>3, ReturnOwn DEF ReturnFrom, Frame
  <2>. QED BY <2>4, <2>5 DEF OwnInv
<1>5. ASSUME NEW s \in SM, Jump(s)
      PROVE  OwnInv' /\ StaysOut
  <2>1. PICK f : f = NewFrame("open", s) /\ Pushed(s, f)
    BY <1>5, PushPushes DEF Jump, Domain
  <2>2. UNCHANGED schedVars /\ UNCHANGED sm_thr /\ sm_thr[s] = Current /\ f.thr = Current
    BY <1>1, <1>5, <2>1, NewFields DEF Jump
  <2>3. Owned' /\ ReadyOwn' /\ StaysOut
    BY <2>1, <2>2, PushOwn
  <2>4. TRUE \notin Answers
    BY <1>5 DEF Jump, NoFalseBusy
  <2>5. \/ cpu'.at = "entry" /\ cpu'.from = s
        \/ cpu'.at = "sched" /\ cpu'.r6 = RETURN /\ cpu'.busy = FALSE
    <3>1. CASE \E t \in SM \ {s}, busy \in BOOLEAN : cpu' = Enter(t, s, RETURN, busy)
      BY <3>1 DEF Enter
    <3>2. CASE \E busy \in Answers : cpu' = ToSched(s, RETURN, busy)
      <4>1. PICK busy \in Answers : cpu' = ToSched(s, RETURN, busy)
        BY <3>2
      <4>2. busy = FALSE
        BY <2>4, DomainAssumption
      <4>. QED BY <4>1, <4>2 DEF ToSched
    <3>3. CASE \E t \in SM \ {s}, r6 \in {"badidx", "badret"} :
                 cpu' = Enter(t, s, r6, FALSE)
      BY <3>3 DEF Enter
    <3>. QED BY <1>5, <3>1, <3>2, <3>3 DEF Jump
  <2>6. OwnCpu'
    BY <2>5, DomainAssumption DEF OwnCpu, RETURN
  <2>. QED BY <2>3, <2>6 DEF OwnInv
<1>. QED BY <1>2, <1>3, <1>4, <1>5 DEF ModuleStep

\* A module to which control returns works for the current thread.
LEMMA ReturnedOwn ==
  ASSUME TypeInv, OwnInv, NEW t \in SM, NEW kind \in {"call", "yield", "retry"},
         Returned(t, kind)
  PROVE  sm_thr[t] = Current
<1>1. /\ cpu.at = "entry" /\ cpu.sm = t /\ cpu.r6 = RETURN
      /\ cpu.from # Scheduler => sm_thr[t] = Current
  BY ReturnedTop
<1>2. cpu.from = Scheduler => Suspended(t, Current)
  BY <1>1 DEF OwnInv, OwnCpu, RETURN
<1>. QED BY <1>1, <1>2 DEF Suspended

\* The steps of a module's entry stub.
LEMMA EntryOwn ==
  ASSUME TypeInv, OwnInv, NEW t \in SM,
         \/ EntryViolation(t) \/ EntryCall(t) \/ EntryBusy(t) \/ EntryReturn(t)
         \/ EntryCalleeBusy(t) \/ EntryResume(t) \/ EntryRetry(t)
  PROVE  OwnInv' /\ StaysOut
<1>1. /\ sm_thr \in [SM -> ThreadId] /\ cpu \in Cpu
      /\ UNCHANGED schedVars /\ Current' = Current
  BY DEF TypeInv, TypeOK, EntryViolation, EntryCall, EntryBusy, EntryReturn,
         EntryCalleeBusy, EntryResume, EntryRetry, schedVars, Current
<1>2. CASE EntryViolation(t)
  <2>1. UNCHANGED <<stack, sm_thr>> /\ cpu'.at = "sched" /\ cpu'.r6 = "report"
    BY <1>2 DEF EntryViolation, ToSched
  <2>2. OwnCpu'
    BY <2>1 DEF OwnCpu, RETURN
  <2>. QED BY <1>1, <2>1, <2>2, QuietOwn DEF OwnInv
<1>3. CASE EntryCall(t)
  <2>1. cpu.from \in Domain
    BY <1>1 DEF Cpu
  <2>2. PICK f : f = NewFrame("in", cpu.from) /\ Pushed(t, f)
    BY <1>3, <2>1, PushPushes DEF EntryCall
  <2>3. /\ sm_thr'[t] = Current /\ \A r \in SM \ {t} : sm_thr'[r] = sm_thr[r]
        /\ stack[t] = <<>> \/ sm_thr[t] = Current
        /\ f.thr = Current
    BY <1>1, <1>3, <2>2, NewFields DEF EntryCall, Accepts
  <2>4. Owned' /\ ReadyOwn' /\ StaysOut
    BY <1>1, <2>2, <2>3, PushOwn
  <2>5. OwnCpu'
    BY <1>1, <1>3, <2>3, NewFields DEF EntryCall, OwnCpu
  <2>. QED BY <2>4, <2>5 DEF OwnInv
<1>4. CASE EntryBusy(t)
  <2>1. UNCHANGED <<stack, sm_thr>> /\ cpu' = ReturnTo(cpu.from, t, TRUE)
    BY <1>4 DEF EntryBusy
  <2>2. cpu.from = Scheduler => mode = "run" /\ running.entry = "call"
    BY <1>4 DEF EntryBusy, Called, OwnInv, OwnCpu, RETURN
  <2>3. OwnCpu'
    BY <1>1, <2>1, <2>2, ReturnOwn DEF Cpu
  <2>. QED BY <1>1, <2>1, <2>3, QuietOwn DEF OwnInv
<1>5. CASE EntryReturn(t) \/ EntryResume(t)
  <2>1. Len(stack[t]) > 0 /\ sm_thr[t] = Current
    BY <1>5, ReturnedTop, ReturnedOwn DEF EntryReturn, EntryResume
  <2>2. Popped(t) /\ cpu' = Body(t) /\ UNCHANGED sm_thr
    BY <1>5, <2>1, PopPops DEF EntryReturn, EntryResume
  <2>3. OwnCpu'
    BY <1>1, <2>1, <2>2, NewFields DEF OwnCpu
  <2>. QED BY <1>1, <2>1, <2>2, <2>3, PopOwn DEF OwnInv
<1>6. CASE EntryCalleeBusy(t)
  <2>1. sm_thr[t] = Current
    BY <1>6, ReturnedOwn DEF EntryCalleeBusy
  <2>2. PICK f : f = NewFrame("retry", Scheduler) /\ Pushed(t, f)
    BY <1>6, PushPushes DEF EntryCalleeBusy, Domain
  <2>3. UNCHANGED sm_thr /\ f.thr = Current /\ f.kind = "retry"
    BY <1>6, <2>2, NewFields DEF EntryCalleeBusy
  <2>4. cpu'.at = "sched" /\ cpu'.from = t /\ cpu'.r6 = "yield"
    BY <1>6 DEF EntryCalleeBusy, ToSched
  <2>5. Suspended(cpu.from, Current)'
    BY <1>1, <2>1, <2>2, <2>3, <2>4, PushedTop DEF Suspended
  <2>6. OwnCpu'
    BY <2>4, <2>5 DEF OwnCpu, RETURN
  <2>. QED BY <1>1, <2>1, <2>2, <2>3, <2>6, PushOwn DEF OwnInv
<1>7. CASE EntryRetry(t)
  <2>1. Len(stack[t]) > 0 /\ sm_thr[t] = Current
    BY <1>7, ReturnedTop, ReturnedOwn DEF EntryRetry
  <2>2. Popped(t) /\ UNCHANGED sm_thr
    BY <1>7, <2>1, PopPops DEF EntryRetry
  <2>3. cpu'.at = "entry" /\ cpu'.from = t
    BY <1>7 DEF EntryRetry, Enter
  <2>4. OwnCpu'
    BY <2>3, DomainAssumption DEF OwnCpu
  <2>. QED BY <1>1, <2>1, <2>2, <2>4, PopOwn DEF OwnInv
<1>. QED BY <1>2, <1>3, <1>4, <1>5, <1>6, <1>7

\* The steps of the scheduler's entry stub.
LEMMA SchedOwn ==
  ASSUME TypeInv, OwnInv,
         \/ SchedYield \/ SchedYieldIdle \/ SchedBusy \/ SchedFinish \/ SchedKill
         \/ SchedExit
  PROVE  OwnInv' /\ StaysOut
<1>1. UNCHANGED <<stack, sm_thr>>
  BY DEF SchedYield, SchedYieldIdle, SchedBusy, SchedFinish, SchedKill, SchedExit
<1>2. CASE SchedYield
  <2>1. cpu.from \in SM /\ Suspended(cpu.from, Current) /\ mode = "run"
    BY <1>2 DEF SchedYield, AtSched, TypeInv, CpuInv, OwnInv, OwnCpu
  <2>2. PICK thr \in Waiting :
          /\ thr = [running EXCEPT !.sm = cpu.from, !.entry = RETURN]
          /\ thr.id = Current /\ thr.sm = cpu.from
    BY <2>1, Requeued
  <2>3. Sched!Rotate(thr) /\ Dispatch
    BY <1>2, <2>2 DEF SchedYield, Sched!Yield
  <2>4. QueuedOr(thr) /\ mode' = "run"
    BY <2>1, <2>2, <2>3, FifoRotate
  <2>5. ReadyOwn' /\ (running'.entry = RETURN => Suspended(running.sm, running.id)')
    BY <1>1, <2>1, <2>2, <2>4, QueueOwn
  <2>6. OwnCpu'
    BY <2>3, <2>4, <2>5, DispatchOwn DEF QueuedOr
  <2>. QED BY <1>1, <2>5, <2>6, QuietOwn DEF OwnInv
<1>3. CASE SchedYieldIdle
  <2>1. cpu.from \in SM /\ Suspended(cpu.from, Current) /\ UNCHANGED schedVars
    BY <1>3 DEF SchedYieldIdle, AtSched, TypeInv, CpuInv, OwnInv, OwnCpu
  <2>2. cpu'.at = "entry" /\ cpu'.sm = cpu.from /\ cpu'.r6 = RETURN
        /\ Current' = Current
    BY <1>3, <2>1 DEF SchedYieldIdle, schedVars, Current, Enter
  <2>3. Suspended(cpu.sm, Current)'
    BY <1>1, <2>1, <2>2 DEF Suspended, Top
  <2>4. OwnCpu'
    BY <2>2, <2>3 DEF OwnCpu
  <2>. QED BY <1>1, <2>1, <2>4, QuietOwn DEF OwnInv
<1>4. CASE SchedBusy
  <2>1. running \in Waiting /\ Sched!Rotate(running) /\ mode = "run" /\ Dispatch
    BY <1>4, Requeued DEF SchedBusy, Sched!Busy
  <2>2. running.entry = "call"
    BY <1>4 DEF SchedBusy, AtSched, OwnInv, OwnCpu, RETURN
  <2>3. QueuedOr(running) /\ mode' = "run"
    BY <2>1, FifoRotate DEF Current
  <2>4. ReadyOwn' /\ (running'.entry = RETURN => Suspended(running.sm, running.id)')
    BY <1>1, <2>2, <2>3, QueueOwn DEF RETURN
  <2>5. OwnCpu'
    BY <2>1, <2>3, <2>4, DispatchOwn DEF QueuedOr
  <2>. QED BY <1>1, <2>4, <2>5, QuietOwn DEF OwnInv
<1>5. CASE SchedFinish \/ SchedKill
  <2>1. DispatchOrFinal /\ Sched!Done
    BY <1>5 DEF SchedFinish, SchedKill
  <2>2. CASE mode' = "run"
    <3>1. QueuedOr(running') /\ Waits(running') /\ Dispatch
      BY <2>1, <2>2, FifoDone DEF DispatchOrFinal
    <3>2. running'.entry = RETURN => Suspended(running'.sm, running'.id)
      BY <3>1 DEF Waits, OwnInv, ReadyOwn
    <3>3. ReadyOwn' /\ OwnCpu'
      BY <1>1, <2>2, <3>1, <3>2, QueueOwn, DispatchOwn DEF QueuedOr
    <3>. QED BY <1>1, <3>3, QuietOwn DEF OwnInv
  <2>3. CASE mode' # "run"
    <3>1. mode' = "final" /\ ready' = <<>>
      BY <2>1, <2>3, FifoDone
    <3>2. cpu'.at = "main" /\ Len(ready') = 0
      BY <2>1, <3>1, EmptySeq DEF DispatchOrFinal, InMain
    <3>3. ReadyOwn' /\ OwnCpu'
      BY <3>2 DEF ReadyOwn, OwnCpu
    <3>. QED BY <1>1, <3>3, QuietOwn DEF OwnInv
  <2>. QED BY <2>2, <2>3
<1>6. CASE SchedExit
  <2>1. UNCHANGED ready /\ cpu'.at = "exit"
    BY <1>6, FifoIdle DEF SchedExit, Exit
  <2>2. ReadyOwn' /\ OwnCpu'
    BY <1>1, <2>1, QuietOwn DEF OwnInv, ReadyOwn, OwnCpu
  <2>. QED BY <1>1, <2>2, QuietOwn DEF OwnInv
<1>. QED BY <1>1, <1>2, <1>3, <1>4, <1>5, <1>6, QuietOwn

\* Every step keeps OwnInv and leaves the modules of other threads alone.
LEMMA OwnStep ==
  ASSUME TypeInv, OwnInv, NoFalseBusy, [Next]_vars
  PROVE  OwnInv' /\ StaysOut
<1>1. CASE \/ \E p \in Portal : MainRegister(p)
           \/ MainStart \/ MainResume \/ MainExit
           \/ \E t \in SM : MainCall(t)
  BY <1>1, MainOwn
<1>2. CASE ModuleStep
  BY <1>2, ModuleOwn
<1>3. CASE StubStep
  BY <1>3, EntryOwn, SchedOwn DEF StubStep
<1>4. CASE UNCHANGED vars
  <2>1. UNCHANGED schedVars /\ UNCHANGED <<stack, sm_thr, cpu>>
    BY <1>4 DEF vars, schedVars
  <2>2. OwnCpu'
    BY <2>1 DEF OwnInv, OwnCpu, Suspended, Top, Current, schedVars
  <2>. QED BY <2>1, <2>2, QuietOwn DEF OwnInv
<1>. QED BY <1>1, <1>2, <1>3, <1>4 DEF Next, spin

\* At first.
LEMMA OwnInit == Init => OwnInv
<1>. SUFFICES ASSUME Init
              PROVE  OwnInv
  OBVIOUS
<1>1. Len(ready) = 0 /\ \A s \in SM : Len(stack[s]) = 0
  BY EmptySeq DEF Init, Sched!Init
<1>2. cpu.at = "main"
  BY DEF Init, InMain
<1>. QED BY <1>1, <1>2 DEF OwnInv, Owned, ReadyOwn, OwnCpu

\* Monothreading (scheduler.h:10-12), for any number of threads and modules and any
\* calls: faulty modules may jump anywhere else, with any return.
THEOREM Monothreading ==
  ASSUME NoFalseBusy
  PROVE  Spec => []WorksForOneThread
<1>1. OwnInv /\ TypeInv /\ [Next]_vars => OwnInv'
  BY OwnStep
<1>2. OwnInv /\ TypeInv => WorksForOneThread
  <2>. SUFFICES ASSUME OwnInv, TypeInv
                PROVE  WorksForOneThread
    OBVIOUS
  <2>1. \A s \in SM : DOMAIN stack[s] = 1 .. Len(stack[s])
    BY LenProperties DEF TypeInv, TypeOK
  <2>. QED BY <2>1 DEF WorksForOneThread, OwnInv, Owned, OwnCpu
<1>. QED BY <1>1, <1>2, OwnInit, TypesCorrect, PTL DEF Spec

\* Modules in which a dead thread was stopped stay as they are (scheduler.h:170).
THEOREM DeadStayOut ==
  ASSUME NoFalseBusy
  PROVE  Spec => DeadThreadsStayOut
<1>1. OwnInv /\ TypeInv /\ [Next]_vars => OwnInv'
  BY OwnStep
<1>2. OwnInv /\ TypeInv /\ [Next]_vars =>
        [\A s \in SM : stack[s] # <<>> /\ sm_thr[s] \in ended =>
           stack'[s] = stack[s] /\ sm_thr'[s] = sm_thr[s]]_vars
  BY OwnStep DEF StaysOut, TypeInv, FifoInv
<1>. QED BY <1>1, <1>2, OwnInit, TypesCorrect, PTL DEF Spec, DeadThreadsStayOut

-----------------------------------------------------------------------------
(* Control flow integrity: how the frames of the modules and the calls that *)
(* the threads are in fit together, as long as faulty modules call nobody.  *)

\* The faulty modules call no module through their exit stub, and see NoFalseBusy.
LeafFaults == NoFalseBusy /\ \A s, t : <<s, t>> \in Calls => s \notin Faulty

\* How many calls thread i is in; and that module s is in the innermost one, to
\* which its last frame belongs.
Depth(i) == Len(chain[i])
Innermost(s, i) ==
  /\ Depth(i) > 0 /\ chain[i][Depth(i)] = s
  /\ Len(stack[s]) > 0 /\ Top(s).pos = Depth(i)

\* The frames of a call lie together; one that enters from outside is the first
\* call of its thread; and a faulty module never waits for a callee.
FrameInCall(s, k) ==
  LET f == stack[s][k]
  IN  /\ f.kind # "in" => f.pos = stack[s][k - 1].pos
      /\ f.kind = "in" /\ f.peer \notin SM => f.pos = 1
      /\ s \in Faulty => f.kind \notin {"call", "retry"}

\* A frame of a correct module belongs to a call of this module, made by the caller
\* that the frame names; calls are stacked in their order, the outer ones waiting
\* for their callees.
FrameOfThread(s, k) ==
  LET f == stack[s][k]
      c == chain[sm_thr[s]]
  IN  /\ f.pos \in 1 .. Len(c) /\ c[f.pos] = s
      /\ f.kind = "in" /\ f.peer \in SM => f.pos > 1 /\ c[f.pos - 1] = f.peer
      /\ f.kind = "in" /\ k > 1 => stack[s][k - 1].kind = "call"
      /\ f.kind = "call" /\ f.pos < Len(c) => c[f.pos + 1] = f.peer
      /\ \A j \in 1 .. k - 1 :
           /\ stack[s][j].pos <= f.pos
           /\ f.kind = "in" => stack[s][j].pos < f.pos

\* A module that is in a call, but not in the innermost one, waits for its callee.
TopWaits(s) ==
  Len(stack[s]) > 0 /\ Top(s).pos < Depth(sm_thr[s]) => Top(s).kind = "call"

\* A call of a correct module has its frame; a faulty module is called last.
CallHasFrame(i, p) ==
  LET s == chain[i][p]
  IN  /\ s \in Faulty => p = Depth(i)
      /\ s \notin Faulty =>
           /\ sm_thr[s] = i
           /\ \E k \in 1 .. Len(stack[s]) : stack[s][k].kind = "in" /\ stack[s][k].pos = p

FramesInv == \A s \in SM : \A k \in 1 .. Len(stack[s]) : FrameInCall(s, k)
CorrectInv ==
  \A s \in SM \ Faulty : TopWaits(s) /\ \A k \in 1 .. Len(stack[s]) : FrameOfThread(s, k)
CallsInv == \A i \in ThreadId : \A p \in 1 .. Depth(i) : CallHasFrame(i, p)

\* Threads that were not started, and the main thread in the main program, are in
\* no call.
OutsideInv ==
  /\ \A i \in ThreadId : i > count => Depth(i) = 0
  /\ cpu.at = "main" \/ mode \in {"run", "final"} => Depth(0) = 0
  /\ mode = "final" => cpu.at = "main"

\* A waiting thread starts anew, or resumes in its innermost call.
StartsOrResumes(thr) ==
  /\ thr.entry = RETURN => Innermost(thr.sm, thr.id)
  /\ thr.entry = "call" => Depth(thr.id) = 0

ReadyInv == \A k \in 1 .. Len(ready) : StartsOrResumes(ready[k])

\* Module code is in the innermost call; so is a module that calls, yields or is
\* resumed, and one to which the callee that it waits for returns.
CallerInv ==
  cpu.at = "entry" /\ cpu.r6 = "call" =>
    IF cpu.from \in SM
    THEN /\ cpu.from \notin Faulty /\ Innermost(cpu.from, Current)
         /\ sm_thr[cpu.from] = Current
         /\ Top(cpu.from).kind = "call" /\ Top(cpu.from).peer = cpu.sm
    ELSE Depth(Current) = 0

ReturnInv ==
  cpu.at = "entry" /\ cpu.r6 = RETURN =>
    /\ cpu.from = Scheduler => Innermost(cpu.sm, Current)
    /\ /\ cpu.from \in SM /\ cpu.sm \notin Faulty /\ Len(stack[cpu.sm]) > 0
       /\ Top(cpu.sm).kind = "call" /\ Top(cpu.sm).peer = cpu.from
       /\ sm_thr[cpu.sm] = Current
       => Top(cpu.sm).pos = Depth(Current)

StepInv ==
  /\ cpu.at = "body" => Innermost(cpu.sm, Current)
  /\ cpu.at = "sched" /\ cpu.r6 = "yield" => Innermost(cpu.from, Current)
  /\ cpu.at = "sched" /\ cpu.r6 = RETURN /\ cpu.busy /\ mode = "run" =>
       Depth(Current) = 0

ChainInv ==
  /\ FramesInv /\ CorrectInv /\ CallsInv /\ OutsideInv /\ ReadyInv
  /\ CallerInv /\ ReturnInv /\ StepInv

\* All that is known of a state.
AllInv == TypeInv /\ OwnInv /\ ChainInv

\* Lengths and members, as the proofs need them.
LEMMA Sizes ==
  ASSUME TypeInv
  PROVE  /\ \A s \in SM : Len(stack[s]) \in Nat /\ (stack[s] = <<>> <=> Len(stack[s]) = 0)
         /\ \A i \in ThreadId : Depth(i) \in Nat
         /\ \A i \in ThreadId : \A p \in 1 .. Depth(i) : chain[i][p] \in SM
         /\ \A s \in SM : \A k \in 1 .. Len(stack[s]) : stack[s][k] \in Frame
         /\ \A s \in SM : Len(stack[s]) > 0 => Top(s) \in Frame
         /\ Current \in ThreadId /\ \A s \in SM : sm_thr[s] \in ThreadId
<1>1. /\ \A s \in SM : stack[s] \in Seq(Frame) /\ sm_thr[s] \in ThreadId
      /\ \A i \in ThreadId : chain[i] \in Seq(SM)
      /\ Current \in ThreadId
  BY DEF TypeInv, TypeOK, Current
<1>2. \A s \in SM : /\ Len(stack[s]) \in Nat /\ (stack[s] = <<>> <=> Len(stack[s]) = 0)
                    /\ \A k \in 1 .. Len(stack[s]) : stack[s][k] \in Frame
  BY <1>1, Lists
<1>3. \A i \in ThreadId : /\ Depth(i) \in Nat
                          /\ \A p \in 1 .. Depth(i) : chain[i][p] \in SM
  BY <1>1, Lists DEF Depth
<1>4. \A s \in SM : Len(stack[s]) > 0 => Top(s) \in Frame
  BY <1>2 DEF Top
<1>. QED BY <1>1, <1>2, <1>3, <1>4

\* The current thread has left its innermost call.
Left ==
  /\ Len(chain'[Current]) = Depth(Current) - 1
  /\ \A p \in 1 .. Depth(Current) - 1 : chain'[Current][p] = chain[Current][p]
  /\ \A i \in ThreadId \ {Current} : chain'[i] = chain[i]

\* What Leave does.
LEMMA LeaveLeaves ==
  ASSUME TypeInv, Depth(Current) > 0, chain' = Leave(Current)
  PROVE  Left
<1>1. Current \in ThreadId /\ chain \in [ThreadId -> Seq(SM)] /\ chain[Current] \in Seq(SM)
  BY DEF TypeInv, TypeOK, Current
<1>2. PICK q : q = SubSeq(chain[Current], 1, Len(chain[Current]) - 1)
  OBVIOUS
<1>3. /\ q \in Seq(SM) /\ Len(q) = Len(chain[Current]) - 1
      /\ \A k \in 1 .. Len(chain[Current]) - 1 : q[k] = chain[Current][k]
  BY <1>1, <1>2, Front DEF Depth
<1>4. chain' = [chain EXCEPT ![Current] = q]
  BY <1>2 DEF Leave
<1>. QED BY <1>1, <1>3, <1>4 DEF Left, Depth

\* The current thread has called module t.
Entered(t) ==
  /\ Len(chain'[Current]) = Depth(Current) + 1
  /\ chain'[Current][Depth(Current) + 1] = t
  /\ \A p \in 1 .. Depth(Current) : chain'[Current][p] = chain[Current][p]
  /\ \A i \in ThreadId \ {Current} : chain'[i] = chain[i]

\* What EntryCall does to the chains.
LEMMA CallEnters ==
  ASSUME TypeInv, NEW t \in SM,
         chain' = [chain EXCEPT ![Current] = Append(chain[Current], t)]
  PROVE  Entered(t)
<1>1. Current \in ThreadId /\ chain \in [ThreadId -> Seq(SM)] /\ chain[Current] \in Seq(SM)
  BY DEF TypeInv, TypeOK, Current
<1>2. PICK q \in Seq(SM) : q = Append(chain[Current], t)
  BY <1>1, AppendProperties
<1>3. /\ Len(q) = Len(chain[Current]) + 1 /\ q[Len(chain[Current]) + 1] = t
      /\ \A k \in 1 .. Len(chain[Current]) : q[k] = chain[Current][k]
  BY <1>1, <1>2, AppendProperties
<1>. QED BY <1>1, <1>2, <1>3 DEF Entered, Depth

\* A frame of a correct module that stays where it is, while its thread makes calls
\* or leaves some that the frame does not belong to.
LEMMA FrameKept ==
  ASSUME TypeInv, NEW s \in SM \ Faulty, NEW k \in 1 .. Len(stack[s]), FrameOfThread(s, k),
         UNCHANGED sm_thr[s], \A j \in 1 .. k : stack'[s][j] = stack[s][j],
         chain' \in [ThreadId -> Seq(SM)],
         stack[s][k].pos <= Len(chain'[sm_thr[s]]),
         \A p \in 1 .. Depth(sm_thr[s]) :
           p <= Len(chain'[sm_thr[s]]) => chain'[sm_thr[s]][p] = chain[sm_thr[s]][p],
         stack[s][k].kind = "call" /\ stack[s][k].pos = Depth(sm_thr[s])
           /\ stack[s][k].pos < Len(chain'[sm_thr[s]]) =>
             chain'[sm_thr[s]][stack[s][k].pos + 1] = stack[s][k].peer
  PROVE  FrameOfThread(s, k)'
<1>. DEFINE f == stack[s][k]
            i == sm_thr[s]
            c == chain[i]
            d == chain'[i]
<1>1. /\ i \in ThreadId /\ Len(c) \in Nat /\ Len(d) \in Nat
      /\ Len(stack[s]) \in Nat /\ k \in 1 .. k
  <2>1. i \in ThreadId /\ Depth(i) \in Nat /\ Len(stack[s]) \in Nat
    BY Sizes
  <2>. QED BY <2>1, Lists DEF Depth
<1>2. stack'[s][k] = f /\ sm_thr'[s] = i
  BY <1>1
<1>3. /\ f.pos \in 1 .. Len(c) /\ c[f.pos] = s
      /\ f.kind = "in" /\ f.peer \in SM => f.pos > 1 /\ c[f.pos - 1] = f.peer
      /\ f.kind = "in" /\ k > 1 => stack[s][k - 1].kind = "call"
      /\ f.kind = "call" /\ f.pos < Len(c) => c[f.pos + 1] = f.peer
      /\ \A j \in 1 .. k - 1 :
           stack[s][j].pos <= f.pos /\ (f.kind = "in" => stack[s][j].pos < f.pos)
  BY DEF FrameOfThread
<1>4. f.pos \in 1 .. Len(d) /\ d[f.pos] = s
  <2>1. f.pos \in 1 .. Len(c) /\ f.pos \in 1 .. Len(d) /\ f.pos <= Len(d)
    BY <1>1, <1>3
  <2>2. d[f.pos] = c[f.pos]
    BY <2>1 DEF Depth
  <2>. QED BY <1>3, <2>1, <2>2
<1>5. f.kind = "in" /\ f.peer \in SM => f.pos > 1 /\ d[f.pos - 1] = f.peer
  <2>. SUFFICES ASSUME f.kind = "in", f.peer \in SM
                PROVE  f.pos > 1 /\ d[f.pos - 1] = f.peer
    OBVIOUS
  <2>1. f.pos > 1 /\ c[f.pos - 1] = f.peer
    BY <1>3
  <2>2. f.pos - 1 \in 1 .. Len(c) /\ f.pos - 1 <= Len(d)
    BY <1>1, <1>3, <1>4, <2>1
  <2>. QED BY <2>1, <2>2 DEF Depth
<1>6. f.kind = "in" /\ k > 1 => stack'[s][k - 1].kind = "call"
  BY <1>1, <1>3
<1>7. f.kind = "call" /\ f.pos < Len(d) => d[f.pos + 1] = f.peer
  <2>. SUFFICES ASSUME f.kind = "call", f.pos < Len(d)
                PROVE  d[f.pos + 1] = f.peer
    OBVIOUS
  <2>1. CASE f.pos = Len(c)
    BY <2>1 DEF Depth
  <2>2. CASE f.pos < Len(c)
    <3>1. f.pos + 1 \in 1 .. Len(c) /\ f.pos + 1 <= Len(d)
      BY <1>1, <1>3, <1>4, <2>2, SMTT(30)
    <3>. QED BY <1>3, <2>2, <3>1 DEF Depth
  <2>. QED BY <1>1, <1>3, <2>1, <2>2
<1>8. \A j \in 1 .. k - 1 :
        stack'[s][j].pos <= f.pos /\ (f.kind = "in" => stack'[s][j].pos < f.pos)
  BY <1>1, <1>3
<1>. QED BY <1>2, <1>4, <1>5, <1>6, <1>7, <1>8 DEF FrameOfThread

\* So it does while its thread neither calls nor leaves.
LEMMA FrameStays ==
  ASSUME NEW s, NEW k \in Nat \ {0}, FrameOfThread(s, k), UNCHANGED <<sm_thr, chain>>,
         \A j \in 1 .. k : stack'[s][j] = stack[s][j]
  PROVE  FrameOfThread(s, k)'
<1>1. stack'[s][k] = stack[s][k] /\ (k > 1 => stack'[s][k - 1] = stack[s][k - 1])
  OBVIOUS
<1>2. \A j \in 1 .. k - 1 : stack'[s][j] = stack[s][j]
  OBVIOUS
<1>. QED BY <1>1, <1>2 DEF FrameOfThread

\* A frame is pushed on the stack of s.
LEMMA FramesPush ==
  ASSUME AllInv, NEW s \in SM, NEW f, Pushed(s, f),
         f.kind # "in" => Len(stack[s]) > 0 /\ f.pos = Top(s).pos,
         f.kind = "in" /\ f.peer \notin SM => f.pos = 1,
         s \in Faulty => f.kind \notin {"call", "retry"}
  PROVE  FramesInv'
<1>. SUFFICES ASSUME NEW r \in SM, NEW k \in 1 .. Len(stack'[r])
              PROVE  FrameInCall(r, k)'
  BY DEF FramesInv
<1>1. Len(stack[s]) \in Nat /\ Len(stack[r]) \in Nat
  BY Sizes DEF AllInv
<1>2. CASE r # s
  BY <1>2 DEF Pushed, AllInv, ChainInv, FramesInv, FrameInCall
<1>3. CASE r = s /\ k <= Len(stack[s])
  <2>1. k \in 1 .. Len(stack[s]) /\ FrameInCall(s, k) /\ FrameShape(s, k)
    BY <1>1, <1>3 DEF AllInv, ChainInv, FramesInv, TypeInv, ShapeInv
  <2>2. k > 1 => k - 1 \in 1 .. Len(stack[s])
    BY <1>1, <2>1
  <2>3. stack'[s][k] = stack[s][k] /\ (k > 1 => stack'[s][k - 1] = stack[s][k - 1])
    BY <2>1, <2>2 DEF Pushed
  <2>. QED BY <1>3, <2>1, <2>3 DEF FrameInCall, FrameShape
<1>4. CASE r = s /\ k = Len(stack[s]) + 1
  <2>1. stack'[s][k] = f
    BY <1>4 DEF Pushed
  <2>2. f.kind # "in" => f.pos = stack'[s][k - 1].pos
    BY <1>1, <1>4 DEF Pushed, Top
  <2>. QED BY <1>4, <2>1, <2>2 DEF FrameInCall
<1>. QED BY <1>1, <1>2, <1>3, <1>4 DEF Pushed

\* A frame is popped.
LEMMA FramesPop ==
  ASSUME AllInv, NEW s \in SM, Len(stack[s]) > 0, Popped(s)
  PROVE  FramesInv'
<1>. SUFFICES ASSUME NEW r \in SM, NEW k \in 1 .. Len(stack'[r])
              PROVE  FrameInCall(r, k)'
  BY DEF FramesInv
<1>1. Len(stack[s]) \in Nat /\ Len(stack[r]) \in Nat
  BY Sizes DEF AllInv
<1>2. CASE r # s
  BY <1>2 DEF Popped, AllInv, ChainInv, FramesInv, FrameInCall
<1>3. CASE r = s
  <2>1. /\ k \in 1 .. Len(stack[s]) - 1 /\ k \in 1 .. Len(stack[s])
        /\ FrameInCall(s, k) /\ FrameShape(s, k)
    BY <1>1, <1>3 DEF AllInv, ChainInv, FramesInv, TypeInv, ShapeInv, Popped
  <2>2. k > 1 => k - 1 \in 1 .. Len(stack[s]) - 1
    BY <1>1, <2>1
  <2>3. stack'[s][k] = stack[s][k] /\ (k > 1 => stack'[s][k - 1] = stack[s][k - 1])
    BY <2>1, <2>2 DEF Popped
  <2>. QED BY <1>3, <2>1, <2>3 DEF FrameInCall, FrameShape
<1>. QED BY <1>2, <1>3

\* Nothing is pushed or popped, called or left.
LEMMA QuietChain ==
  ASSUME AllInv, UNCHANGED <<stack, sm_thr, chain>>
  PROVE  /\ FramesInv' /\ CorrectInv' /\ CallsInv'
         /\ \A s, i : Innermost(s, i)' <=> Innermost(s, i)
         /\ \A i : Depth(i)' = Depth(i)
BY SMTT(30) DEF AllInv, ChainInv, FramesInv, FrameInCall, CorrectInv, FrameOfThread,
       TopWaits, CallsInv, CallHasFrame, Innermost, Depth, Top

\* The chains of the other threads, and the modules that they wait in, do not change.
LEMMA ReadyKept ==
  ASSUME AllInv, StaysOut, UNCHANGED schedVars,
         \A i \in ThreadId \ {Current} : chain'[i] = chain[i]
  PROVE  ReadyInv'
<1>. SUFFICES ASSUME NEW k \in 1 .. Len(ready)
              PROVE  StartsOrResumes(ready[k])'
  BY DEF ReadyInv, schedVars
<1>1. /\ ready[k]' = ready[k] /\ ready[k] \in Waiting /\ ready[k].id # Current
      /\ StartsOrResumes(ready[k])
  BY Lists DEF schedVars, AllInv, TypeInv, FifoInv, ChainInv, ReadyInv
<1>2. PICK thr \in Waiting : thr = ready[k]
  BY <1>1
<1>3. chain'[thr.id] = chain[thr.id] /\ thr.sm \in SM
  BY <1>1, <1>2 DEF Waiting
<1>4. ASSUME thr.entry = RETURN
      PROVE  stack'[thr.sm] = stack[thr.sm]
  <2>1. Suspended(thr.sm, thr.id)
    BY <1>2, <1>4 DEF AllInv, OwnInv, ReadyOwn
  <2>2. stack[thr.sm] # <<>> /\ sm_thr[thr.sm] # Current
    BY <1>1, <1>2, <1>3, <2>1, Sizes DEF Suspended, AllInv
  <2>. QED BY <1>3, <2>2 DEF StaysOut
<1>. QED BY <1>1, <1>2, <1>3, <1>4 DEF StartsOrResumes, Innermost, Depth, Top

\* The current thread is known to the scheduler.
LEMMA OutsideKept ==
  ASSUME AllInv, UNCHANGED schedVars, cpu.at # "main",
         \A i \in ThreadId \ {Current} : chain'[i] = chain[i],
         cpu'.at = "main" => Len(chain'[0]) = 0
  PROVE  OutsideInv'
<1>1. Current <= count /\ count \in Nat /\ (mode = "run" => Current # 0)
  BY BoundAssumption DEF AllInv, TypeInv, FifoInv, Current, Waiting
<1>2. mode # "final"
  BY DEF AllInv, ChainInv, OutsideInv
<1>3. \A i \in ThreadId : i > count' => Len(chain'[i]) = 0
  BY <1>1, Sizes DEF AllInv, ChainInv, OutsideInv, schedVars, ThreadId, Depth
<1>4. mode = "run" => Len(chain'[0]) = 0
  BY <1>1, BoundAssumption DEF AllInv, ChainInv, OutsideInv, Depth, ThreadId
<1>. QED BY <1>2, <1>3, <1>4 DEF OutsideInv, schedVars, Depth

\* What is known of a correct module's frames.
LEMMA CorrectFrames ==
  ASSUME AllInv, NEW s \in SM \ Faulty, NEW k \in 1 .. Len(stack[s])
  PROVE  /\ FrameOfThread(s, k) /\ TopWaits(s) /\ stack[s][k].pos \in Nat
         /\ stack[s][k].pos <= Depth(sm_thr[s]) /\ stack[s][k].pos > 0
         /\ chain[sm_thr[s]][stack[s][k].pos] = s
         /\ sm_thr[s] \in ThreadId /\ Depth(sm_thr[s]) \in Nat
<1>1. FrameOfThread(s, k) /\ TopWaits(s)
  BY DEF AllInv, ChainInv, CorrectInv
<1>2. sm_thr[s] \in ThreadId /\ Depth(sm_thr[s]) \in Nat
  BY Sizes DEF AllInv
<1>3. stack[s][k].pos \in 1 .. Depth(sm_thr[s]) /\ chain[sm_thr[s]][stack[s][k].pos] = s
  BY <1>1 DEF FrameOfThread, Depth
<1>. QED BY <1>1, <1>2, <1>3

\* A frame of the innermost call is pushed.
LEMMA PushChain ==
  ASSUME AllInv, UNCHANGED <<sm_thr, chain>>, NEW s \in SM, NEW f \in Frame, Pushed(s, f),
         f.kind # "in", f.pos = Depth(Current), sm_thr[s] = Current, Innermost(s, Current),
         s \in Faulty => f.kind \notin {"call", "retry"}, UNCHANGED running
  PROVE  /\ FramesInv' /\ CorrectInv' /\ CallsInv' /\ Innermost(s, Current)'
         /\ Top(s)' = f
<1>1. /\ TypeInv /\ Len(stack[s]) \in Nat /\ Current \in ThreadId /\ Depth(Current) \in Nat
      /\ Len(stack[s]) > 0 /\ Top(s).pos = Depth(Current) /\ Depth(Current) > 0
      /\ chain[Current][Depth(Current)] = s
  BY Sizes DEF AllInv, Innermost
<1>2. FramesInv'
  BY <1>1, FramesPush
<1>3. Top(s)' = f /\ Len(stack'[s]) > 0
  BY <1>1, PushedTop
<1>4. CorrectInv'
  <2>. SUFFICES ASSUME NEW r \in SM \ Faulty
                PROVE  TopWaits(r)' /\ \A k \in 1 .. Len(stack'[r]) : FrameOfThread(r, k)'
    BY DEF CorrectInv
  <2>1. CASE r # s
    <3>1. TopWaits(r) /\ \A k \in 1 .. Len(stack[r]) : FrameOfThread(r, k)
      BY DEF AllInv, ChainInv, CorrectInv
    <3>2. stack'[r] = stack[r]
      BY <2>1 DEF Pushed
    <3>. QED BY <3>1, <3>2 DEF TopWaits, FrameOfThread, Top, Depth
  <2>2. CASE r = s
    <3>1. TopWaits(s)'
      BY <1>1, <1>3 DEF TopWaits, Depth
    <3>2. ASSUME NEW k \in 1 .. Len(stack[s])
          PROVE  FrameOfThread(s, k)'
      <4>1. \A j \in 1 .. k : stack'[s][j] = stack[s][j]
        BY <1>1 DEF Pushed
      <4>2. FrameOfThread(s, k) /\ k \in Nat \ {0}
        BY <1>1, <2>2, CorrectFrames
      <4>. QED BY <4>1, <4>2, FrameStays
    <3>3. ASSUME NEW k, k = Len(stack[s]) + 1
          PROVE  FrameOfThread(s, k)'
      <4>1. stack'[s][k] = f /\ k - 1 = Len(stack[s])
        BY <1>1, <3>3 DEF Pushed
      <4>2. \A j \in 1 .. k - 1 :
              stack'[s][j] = stack[s][j] /\ stack[s][j].pos <= f.pos
        BY <2>2, <4>1, CorrectFrames DEF Pushed
      <4>3. sm_thr'[s] = Current /\ chain'[Current] = chain[Current]
        OBVIOUS
      <4>. QED BY <1>1, <4>1, <4>2, <4>3 DEF FrameOfThread, Depth
    <3>4. ASSUME NEW k \in 1 .. Len(stack'[s])
          PROVE  FrameOfThread(s, k)'
      <4>1. k \in 1 .. Len(stack[s]) \/ k = Len(stack[s]) + 1
        BY <1>1 DEF Pushed
      <4>. QED BY <3>2, <3>3, <4>1
    <3>. QED BY <2>2, <3>1, <3>4
  <2>. QED BY <2>1, <2>2
<1>5. CallsInv'
  <2>. SUFFICES ASSUME NEW i \in ThreadId, NEW p \in 1 .. Depth(i)
                PROVE  CallHasFrame(i, p)'
    BY DEF CallsInv, Depth
  <2>1. CallHasFrame(i, p) /\ chain[i][p] \in SM
    BY <1>1, Sizes DEF AllInv, ChainInv, CallsInv
  <2>2. PICK t \in SM : t = chain[i][p]
    BY <2>1
  <2>3. ASSUME NEW k \in 1 .. Len(stack[t])
        PROVE  k \in 1 .. Len(stack'[t]) /\ stack'[t][k] = stack[t][k]
    <3>1. Len(stack[t]) \in Nat
      BY <1>1, Sizes
    <3>2. CASE t = s
      BY <2>3, <3>1, <3>2 DEF Pushed
    <3>3. CASE t # s
      BY <2>3, <3>3 DEF Pushed
    <3>. QED BY <3>2, <3>3
  <2>. QED BY <2>1, <2>2, <2>3 DEF CallHasFrame, Depth
<1>6. Innermost(s, Current)'
  BY <1>1, <1>3 DEF Innermost, Depth, Current
<1>. QED BY <1>2, <1>3, <1>4, <1>5, <1>6

\* A frame of the innermost call is popped, but not its first one.
LEMMA PopChain ==
  ASSUME AllInv, UNCHANGED <<sm_thr, chain>>, NEW s \in SM, Popped(s),
         Top(s).kind # "in", sm_thr[s] = Current, Innermost(s, Current), UNCHANGED running
  PROVE  /\ FramesInv' /\ CorrectInv' /\ CallsInv' /\ Innermost(s, Current)'
         /\ Top(s)' = stack[s][Len(stack[s]) - 1]
<1>1. /\ TypeInv /\ Len(stack[s]) \in Nat /\ Current \in ThreadId /\ Depth(Current) \in Nat
      /\ Len(stack[s]) > 0 /\ Top(s).pos = Depth(Current) /\ Depth(Current) > 0
      /\ chain[Current][Depth(Current)] = s /\ Current' = Current
  BY Sizes DEF AllInv, Innermost, Current
<1>2. FramesInv'
  BY <1>1, FramesPop
<1>3. /\ Len(stack[s]) - 1 \in 1 .. Len(stack[s]) - 1
      /\ Top(s)' = stack[s][Len(stack[s]) - 1] /\ Len(stack'[s]) > 0
  BY <1>1, UnderTop DEF Popped, Top
<1>4. Top(s)'.pos = Depth(Current)
  <2>1. FrameInCall(s, Len(stack[s]))
    BY <1>1 DEF AllInv, ChainInv, FramesInv
  <2>. QED BY <1>1, <1>3, <2>1 DEF FrameInCall, Top
<1>5. CorrectInv'
  <2>. SUFFICES ASSUME NEW r \in SM \ Faulty
                PROVE  TopWaits(r)' /\ \A k \in 1 .. Len(stack'[r]) : FrameOfThread(r, k)'
    BY DEF CorrectInv
  <2>1. CASE r # s
    <3>1. TopWaits(r) /\ \A k \in 1 .. Len(stack[r]) : FrameOfThread(r, k)
      BY DEF AllInv, ChainInv, CorrectInv
    <3>2. stack'[r] = stack[r]
      BY <2>1 DEF Popped
    <3>. QED BY <3>1, <3>2 DEF TopWaits, FrameOfThread, Top, Depth
  <2>2. CASE r = s
    <3>1. TopWaits(s)'
      BY <1>1, <1>4 DEF TopWaits, Depth
    <3>2. ASSUME NEW k \in 1 .. Len(stack'[s])
          PROVE  FrameOfThread(s, k)'
      <4>1. k \in 1 .. Len(stack[s]) /\ \A j \in 1 .. k : stack'[s][j] = stack[s][j]
        BY <1>1 DEF Popped
      <4>2. FrameOfThread(s, k) /\ k \in Nat \ {0}
        BY <1>1, <2>2, <4>1, CorrectFrames
      <4>. QED BY <4>1, <4>2, FrameStays
    <3>. QED BY <2>2, <3>1, <3>2
  <2>. QED BY <2>1, <2>2
<1>6. CallsInv'
  <2>. SUFFICES ASSUME NEW i \in ThreadId, NEW p \in 1 .. Depth(i)
                PROVE  CallHasFrame(i, p)'
    BY DEF CallsInv, Depth
  <2>1. CallHasFrame(i, p) /\ chain[i][p] \in SM
    BY <1>1, Sizes DEF AllInv, ChainInv, CallsInv
  <2>2. PICK t \in SM : t = chain[i][p]
    BY <2>1
  <2>3. ASSUME NEW k \in 1 .. Len(stack[t]), stack[t][k].kind = "in"
        PROVE  k \in 1 .. Len(stack'[t]) /\ stack'[t][k] = stack[t][k]
    <3>1. CASE t = s
      <4>1. k # Len(stack[s])
        BY <2>3, <3>1 DEF Top
      <4>2. k \in 1 .. Len(stack[s]) - 1
        BY <1>1, <3>1, <4>1
      <4>. QED BY <1>1, <3>1, <4>2 DEF Popped
    <3>2. CASE t # s
      BY <3>2 DEF Popped
    <3>. QED BY <3>1, <3>2
  <2>. QED BY <2>1, <2>2, <2>3 DEF CallHasFrame, Depth
<1>7. Innermost(s, Current)'
  BY <1>1, <1>3, <1>4 DEF Innermost, Depth
<1>. QED BY <1>2, <1>3, <1>5, <1>6, <1>7

\* The innermost call is left; a correct module takes its first frame off, a faulty
\* one does with its stack as it likes.
LEMMA LeaveChain ==
  ASSUME AllInv, UNCHANGED sm_thr, NEW s \in SM, sm_thr[s] = Current,
         Innermost(s, Current), Left, chain' \in [ThreadId -> Seq(SM)],
         \A r \in SM \ {s} : stack'[r] = stack[r],
         s \notin Faulty => Popped(s) /\ Top(s).kind = "in"
  PROVE  CorrectInv' /\ CallsInv'
<1>. DEFINE n == Depth(Current)
<1>1. /\ TypeInv /\ Len(stack[s]) \in Nat /\ Current \in ThreadId /\ n \in Nat
      /\ Len(stack[s]) > 0 /\ Top(s).pos = n /\ n > 0 /\ chain[Current][n] = s
  BY Sizes DEF AllInv, Innermost
<1>2. /\ Len(chain'[Current]) = n - 1
      /\ \A p \in 1 .. n - 1 : chain'[Current][p] = chain[Current][p]
      /\ \A i \in ThreadId \ {Current} : chain'[i] = chain[i]
  BY DEF Left
\* The frames that stay belong to outer calls, and stay in their places.
<1>3. ASSUME NEW r \in SM \ Faulty, NEW k \in 1 .. Len(stack'[r])
      PROVE  /\ k \in 1 .. Len(stack[r]) /\ \A j \in 1 .. k : stack'[r][j] = stack[r][j]
             /\ sm_thr[r] = Current => stack[r][k].pos < n
  <2>1. Len(stack[r]) \in Nat
    BY <1>1, Sizes
  <2>2. CASE r # s
    <3>1. stack'[r] = stack[r] /\ k \in 1 .. Len(stack[r])
      BY <2>2
    <3>2. /\ stack[r][k].pos \in Nat /\ stack[r][k].pos <= Depth(sm_thr[r])
          /\ chain[sm_thr[r]][stack[r][k].pos] = r
      BY <3>1, CorrectFrames
    <3>3. sm_thr[r] = Current => stack[r][k].pos # n
      BY <1>1, <2>2, <3>2
    <3>. QED BY <1>1, <3>1, <3>2, <3>3
  <2>3. CASE r = s
    <3>1. Popped(s) /\ Top(s).kind = "in"
      BY <2>3
    <3>2. k \in 1 .. Len(stack[s]) - 1
      BY <2>3, <3>1 DEF Popped
    <3>3. k \in 1 .. Len(stack[s]) /\ \A j \in 1 .. k : stack'[s][j] = stack[s][j]
      BY <1>1, <3>1, <3>2 DEF Popped
    <3>4. FrameOfThread(s, Len(stack[s]))
      BY <1>1, <2>3, CorrectFrames
    <3>5. stack[s][k].pos < n
      BY <1>1, <3>1, <3>2, <3>4 DEF FrameOfThread, Top
    <3>. QED BY <2>3, <3>3, <3>5
  <2>. QED BY <2>2, <2>3
<1>4. CorrectInv'
  <2>. SUFFICES ASSUME NEW r \in SM \ Faulty
                PROVE  TopWaits(r)' /\ \A k \in 1 .. Len(stack'[r]) : FrameOfThread(r, k)'
    BY DEF CorrectInv
  <2>1. ASSUME NEW k \in 1 .. Len(stack'[r])
        PROVE  FrameOfThread(r, k)'
    <3>1. /\ k \in 1 .. Len(stack[r]) /\ \A j \in 1 .. k : stack'[r][j] = stack[r][j]
          /\ sm_thr[r] = Current => stack[r][k].pos < n
      BY <1>3
    <3>2. /\ FrameOfThread(r, k) /\ stack[r][k].pos \in Nat
          /\ stack[r][k].pos <= Depth(sm_thr[r]) /\ sm_thr[r] \in ThreadId
          /\ Depth(sm_thr[r]) \in Nat
      BY <3>1, CorrectFrames
    <3>3. CASE sm_thr[r] # Current
      <4>1. chain'[sm_thr[r]] = chain[sm_thr[r]]
        BY <1>2, <3>2, <3>3
      <4>2. stack[r][k].pos <= Len(chain'[sm_thr[r]])
            /\ ~ (stack[r][k].pos = Depth(sm_thr[r])
                    /\ stack[r][k].pos < Len(chain'[sm_thr[r]]))
        BY <3>2, <4>1 DEF Depth
      <4>. QED BY <1>1, <3>1, <3>2, <4>1, <4>2, FrameKept
    <3>4. CASE sm_thr[r] = Current
      <4>1. /\ stack[r][k].pos <= Len(chain'[sm_thr[r]])
            /\ stack[r][k].pos # Depth(sm_thr[r])
        BY <1>1, <1>2, <3>1, <3>2, <3>4
      <4>2. \A p \in 1 .. Depth(sm_thr[r]) :
              p <= Len(chain'[sm_thr[r]]) => chain'[sm_thr[r]][p] = chain[sm_thr[r]][p]
        BY <1>1, <1>2, <3>4
      <4>. QED BY <1>1, <3>1, <3>2, <4>1, <4>2, FrameKept
    <3>. QED BY <3>3, <3>4
  <2>2. TopWaits(r)'
    <3>. SUFFICES ASSUME Len(stack'[r]) > 0,
                         stack'[r][Len(stack'[r])].pos < Len(chain'[sm_thr[r]])
                  PROVE  stack'[r][Len(stack'[r])].kind = "call"
      BY DEF TopWaits, Top, Depth
    <3>1. PICK k : k = Len(stack'[r])
      OBVIOUS
    <3>2. Len(stack[r]) \in Nat /\ Len(stack'[r]) \in Nat
      <4>1. CASE r = s
        BY <1>1, <4>1 DEF Popped
      <4>2. CASE r # s
        BY <1>1, <4>2, Sizes
      <4>. QED BY <4>1, <4>2
    <3>3. k \in 1 .. Len(stack'[r])
      BY <3>1, <3>2
    <3>4. /\ k \in 1 .. Len(stack[r]) /\ stack'[r][k] = stack[r][k] /\ TopWaits(r)
          /\ sm_thr[r] \in ThreadId /\ Depth(sm_thr[r]) \in Nat
          /\ stack[r][k].pos \in Nat
      BY <1>3, <3>2, <3>3, CorrectFrames
    <3>5. CASE r # s
      <4>1. k = Len(stack[r]) /\ stack[r][k] = Top(r)
        BY <3>1, <3>5 DEF Top
      <4>2. Top(r).pos < Depth(sm_thr[r])
        <5>1. CASE sm_thr[r] = Current
          BY <1>1, <1>2, <3>1, <3>4, <4>1, <5>1
        <5>2. CASE sm_thr[r] # Current
          BY <1>2, <3>1, <3>4, <4>1, <5>2 DEF Depth
        <5>. QED BY <5>1, <5>2
      <4>. QED BY <3>1, <3>2, <3>3, <3>4, <4>1, <4>2 DEF TopWaits
    <3>6. CASE r = s
      <4>1. k = Len(stack[s]) - 1 /\ Top(s).kind = "in"
        BY <3>1, <3>6 DEF Popped
      <4>2. FrameOfThread(s, Len(stack[s])) /\ Len(stack[s]) > 1
        BY <1>1, <3>3, <3>6, <4>1, CorrectFrames
      <4>3. stack[s][k].kind = "call"
        BY <4>1, <4>2 DEF FrameOfThread, Top
      <4>. QED BY <3>1, <3>4, <3>6, <4>3
    <3>. QED BY <3>5, <3>6
  <2>. QED BY <2>1, <2>2
<1>5. CallsInv'
  <2>. SUFFICES ASSUME NEW i \in ThreadId, NEW p \in 1 .. Len(chain'[i])
                PROVE  CallHasFrame(i, p)'
    BY DEF CallsInv, Depth
  <2>1. /\ p \in 1 .. Depth(i) /\ chain'[i][p] = chain[i][p]
        /\ i = Current => p < n
        /\ i # Current => Len(chain'[i]) = Depth(i)
    BY <1>1, <1>2 DEF Depth
  <2>2. CallHasFrame(i, p) /\ chain[i][p] \in SM
    BY <1>1, <2>1, Sizes DEF AllInv, ChainInv, CallsInv
  <2>3. PICK t \in SM : t = chain[i][p]
    BY <2>2
  <2>4. t \in Faulty => p = Len(chain'[i])
    BY <1>1, <2>1, <2>2, <2>3 DEF CallHasFrame
  <2>5. ASSUME t \notin Faulty
        PROVE  /\ sm_thr'[t] = i
               /\ \E k \in 1 .. Len(stack'[t]) :
                    stack'[t][k].kind = "in" /\ stack'[t][k].pos = p
    <3>1. sm_thr[t] = i
      BY <2>2, <2>3, <2>5 DEF CallHasFrame
    <3>2. PICK k \in 1 .. Len(stack[t]) : stack[t][k].kind = "in" /\ stack[t][k].pos = p
      BY <2>2, <2>3, <2>5 DEF CallHasFrame
    <3>3. CASE t = s
      <4>1. i = Current /\ p < n /\ Popped(s)
        BY <2>1, <2>5, <3>1, <3>3
      <4>2. k # Len(stack[s])
        BY <1>1, <2>1, <3>2, <3>3, <4>1 DEF Top
      <4>3. k \in 1 .. Len(stack[s]) - 1
        BY <1>1, <3>2, <3>3, <4>2
      <4>4. k \in 1 .. Len(stack'[s]) /\ stack'[s][k] = stack[s][k]
        BY <4>1, <4>3 DEF Popped
      <4>. QED BY <3>1, <3>2, <3>3, <4>4
    <3>4. CASE t # s
      BY <3>1, <3>2, <3>4
    <3>. QED BY <3>3, <3>4
  <2>. QED BY <2>1, <2>3, <2>4, <2>5 DEF CallHasFrame, Depth
<1>. QED BY <1>4, <1>5

\* A correct module in the innermost call has one call pending in it: the last one.
LEMMA PendingCall ==
  ASSUME AllInv, NEW s \in SM \ Faulty, Innermost(s, Current), sm_thr[s] = Current,
         Top(s).kind = "call", NEW k \in 1 .. Len(stack[s]),
         stack[s][k].kind = "call", stack[s][k].pos = Depth(Current)
  PROVE  k = Len(stack[s])
<1>. DEFINE m == Len(stack[s])
<1>1. TypeInv /\ m \in Nat /\ m > 0 /\ Top(s).pos = Depth(Current) /\ Depth(Current) \in Nat
  BY Sizes DEF AllInv, Innermost
<1>2. m - 1 \in 1 .. m - 1 /\ stack[s][m - 1].kind = "in"
  BY <1>1, UnderTop DEF Below
<1>3. FrameInCall(s, m) /\ FrameOfThread(s, m - 1)
  BY <1>1, <1>2, CorrectFrames DEF AllInv, ChainInv, FramesInv
<1>4. stack[s][m - 1].pos = Depth(Current)
  BY <1>1, <1>3 DEF FrameInCall, Top
<1>5. SUFFICES ASSUME k # m
               PROVE  FALSE
  OBVIOUS
<1>6. k # m - 1
  BY <1>2
<1>7. k \in 1 .. (m - 1) - 1
  BY <1>1, <1>2, <1>5, <1>6
<1>8. stack[s][k].pos < stack[s][m - 1].pos
  BY <1>2, <1>3, <1>7 DEF FrameOfThread
<1>. QED BY <1>1, <1>4, <1>8

\* A call is entered.
LEMMA EnterChain ==
  ASSUME AllInv, NEW t \in SM, Called(t), Accepts(t), NEW f \in Frame, Pushed(t, f),
         f = NewFrame("in", cpu.from), Entered(t), chain' \in [ThreadId -> Seq(SM)],
         sm_thr'[t] = Current, \A r \in SM \ {t} : sm_thr'[r] = sm_thr[r],
         UNCHANGED running
  PROVE  FramesInv' /\ CorrectInv' /\ CallsInv' /\ Innermost(t, Current)'
<1>. DEFINE n == Depth(Current)
            from == cpu.from
<1>1. /\ TypeInv /\ Len(stack[t]) \in Nat /\ Current \in ThreadId /\ n \in Nat
      /\ stack[t] = <<>> <=> Len(stack[t]) = 0
  BY Sizes DEF AllInv
<1>2. /\ Len(chain'[Current]) = n + 1 /\ chain'[Current][n + 1] = t
      /\ \A p \in 1 .. n : chain'[Current][p] = chain[Current][p]
      /\ \A i \in ThreadId \ {Current} : chain'[i] = chain[i]
  BY DEF Entered
<1>3. f.kind = "in" /\ f.peer = from /\ f.pos = n + 1
  BY DEF NewFrame, Depth
\* The caller is in the innermost call, and waits for t; or there is none.
<1>4. /\ from \in SM => /\ from \in SM \ Faulty /\ Innermost(from, Current)
                        /\ sm_thr[from] = Current
                        /\ Top(from).kind = "call" /\ Top(from).peer = t
      /\ from \notin SM => n = 0
  BY DEF Called, AllInv, ChainInv, CallerInv
<1>5. n > 0 => from \in SM /\ chain[Current][n] = from
  BY <1>1, <1>4 DEF Innermost
<1>6. FramesInv'
  BY <1>1, <1>3, <1>4, FramesPush
<1>7. Top(t)' = f /\ Len(stack'[t]) > 0
  BY <1>1, PushedTop
\* A module that works for the current thread and is in the innermost call is the caller.
<1>8. ASSUME NEW r \in SM \ Faulty, NEW k \in 1 .. Len(stack[r]),
             sm_thr[r] = Current, stack[r][k].pos = n
      PROVE  r = from /\ from \in SM /\ n > 0
  <2>1. stack[r][k].pos > 0 /\ chain[Current][n] = r
    BY <1>8, CorrectFrames
  <2>. QED BY <1>5, <1>8, <2>1
\* The frames that are there stay.
<1>9. ASSUME NEW r \in SM \ Faulty, NEW k \in 1 .. Len(stack[r]),
             stack'[r][k] = stack[r][k], \A j \in 1 .. k : stack'[r][j] = stack[r][j],
             sm_thr'[r] = sm_thr[r]
      PROVE  FrameOfThread(r, k)'
  <2>1. /\ FrameOfThread(r, k) /\ stack[r][k].pos \in Nat
        /\ stack[r][k].pos <= Depth(sm_thr[r]) /\ sm_thr[r] \in ThreadId
        /\ Depth(sm_thr[r]) \in Nat
    BY CorrectFrames
  <2>2. CASE sm_thr[r] # Current
    <3>1. chain'[sm_thr[r]] = chain[sm_thr[r]]
      BY <1>2, <2>1, <2>2
    <3>2. stack[r][k].pos <= Len(chain'[sm_thr[r]])
          /\ ~ (stack[r][k].pos = Depth(sm_thr[r])
                  /\ stack[r][k].pos < Len(chain'[sm_thr[r]]))
      BY <2>1, <3>1 DEF Depth
    <3>. QED BY <1>1, <1>9, <2>1, <3>1, <3>2, FrameKept
  <2>3. CASE sm_thr[r] = Current
    <3>1. stack[r][k].pos <= Len(chain'[sm_thr[r]])
      BY <1>1, <1>2, <2>1, <2>3
    <3>2. \A p \in 1 .. Depth(sm_thr[r]) :
            p <= Len(chain'[sm_thr[r]]) => chain'[sm_thr[r]][p] = chain[sm_thr[r]][p]
      BY <1>1, <1>2, <2>3
    <3>3. ASSUME stack[r][k].kind = "call", stack[r][k].pos = Depth(sm_thr[r])
          PROVE  chain'[sm_thr[r]][stack[r][k].pos + 1] = stack[r][k].peer
      <4>1. r = from /\ from \in SM
        BY <1>8, <2>3, <3>3
      <4>2. k = Len(stack[r])
        BY <1>4, <2>3, <3>3, <4>1, PendingCall
      <4>3. stack[r][k].peer = t
        BY <1>4, <4>1, <4>2 DEF Top
      <4>. QED BY <1>2, <2>3, <3>3, <4>3
    <3>. QED BY <1>1, <1>9, <2>1, <3>1, <3>2, <3>3, FrameKept
  <2>. QED BY <2>2, <2>3
\* Every module of the thread waits for its callee.
<1>10. ASSUME NEW r \in SM \ Faulty, sm_thr[r] = Current, Len(stack[r]) > 0
       PROVE  Top(r).kind = "call"
  <2>1. Len(stack[r]) \in 1 .. Len(stack[r])
    BY <1>1, <1>10, Sizes
  <2>2. TopWaits(r) /\ Top(r).pos \in Nat /\ Top(r).pos <= n
    BY <1>10, <2>1, CorrectFrames DEF Top
  <2>3. CASE Top(r).pos = n
    BY <1>4, <1>8, <1>10, <2>1, <2>3 DEF Top
  <2>4. CASE Top(r).pos < n
    BY <1>10, <2>2, <2>4 DEF TopWaits
  <2>. QED BY <1>1, <2>2, <2>3, <2>4
<1>11. CorrectInv'
  <2>. SUFFICES ASSUME NEW r \in SM \ Faulty
                PROVE  TopWaits(r)' /\ \A k \in 1 .. Len(stack'[r]) : FrameOfThread(r, k)'
    BY DEF CorrectInv
  <2>1. CASE r # t
    <3>1. stack'[r] = stack[r] /\ sm_thr'[r] = sm_thr[r]
      BY <2>1 DEF Pushed
    <3>2. \A k \in 1 .. Len(stack'[r]) : FrameOfThread(r, k)'
      BY <1>9, <3>1
    <3>3. TopWaits(r)'
      <4>1. CASE sm_thr[r] = Current
        BY <1>10, <3>1, <4>1 DEF TopWaits, Top
      <4>2. CASE sm_thr[r] # Current
        <5>1. TopWaits(r) /\ chain'[sm_thr[r]] = chain[sm_thr[r]]
          BY <1>1, <1>2, <4>2, Sizes DEF AllInv, ChainInv, CorrectInv
        <5>. QED BY <3>1, <5>1 DEF TopWaits, Top, Depth
      <4>. QED BY <4>1, <4>2
    <3>. QED BY <3>2, <3>3
  <2>2. CASE r = t
    <3>1. TopWaits(t)'
      BY <1>1, <1>2, <1>3, <1>7 DEF TopWaits, Depth
    <3>2. ASSUME NEW k \in 1 .. Len(stack[t])
          PROVE  /\ stack'[t][k] = stack[t][k] /\ sm_thr[t] = Current
                 /\ \A j \in 1 .. k : stack'[t][j] = stack[t][j]
      BY <1>1 DEF Pushed, Accepts
    <3>3. ASSUME NEW k \in 1 .. Len(stack[t])
          PROVE  FrameOfThread(t, k)'
      BY <1>9, <2>2, <3>2
    <3>4. ASSUME NEW k, k = Len(stack[t]) + 1
          PROVE  FrameOfThread(t, k)'
      <4>1. stack'[t][k] = f /\ k - 1 = Len(stack[t])
        BY <1>1, <3>4 DEF Pushed
      <4>2. \A j \in 1 .. k - 1 : stack'[t][j] = stack[t][j] /\ stack[t][j].pos < f.pos
        <5>1. \A j \in 1 .. k - 1 :
                /\ stack'[t][j] = stack[t][j]
                /\ stack[t][j].pos \in Nat /\ stack[t][j].pos <= n
          BY <2>2, <3>2, <4>1, CorrectFrames
        <5>. QED BY <1>1, <1>3, <5>1
      <4>3. k > 1 => stack'[t][k - 1].kind = "call"
        <5>. SUFFICES ASSUME k > 1
                      PROVE  stack'[t][k - 1].kind = "call"
          OBVIOUS
        <5>1. Len(stack[t]) \in 1 .. Len(stack[t]) /\ Len(stack[t]) > 0
          BY <1>1, <3>4
        <5>2. sm_thr[t] = Current /\ stack'[t][k - 1] = Top(t)
          BY <3>2, <4>1, <5>1 DEF Top
        <5>. QED BY <1>10, <2>2, <5>1, <5>2
      <4>4. f.peer \in SM => f.pos > 1 /\ chain'[Current][f.pos - 1] = f.peer
        BY <1>1, <1>2, <1>3, <1>4 DEF Innermost
      <4>5. \A j \in 1 .. k - 1 : stack'[t][j].pos < f.pos /\ stack'[t][j].pos <= f.pos
        <5>1. \A j \in 1 .. k - 1 : stack'[t][j].pos \in Nat /\ stack'[t][j].pos < f.pos
          BY <2>2, <4>1, <4>2, CorrectFrames
        <5>. QED BY <1>1, <1>3, <5>1
      <4>. QED BY <1>1, <1>2, <1>3, <4>1, <4>3, <4>4, <4>5 DEF FrameOfThread
    <3>5. ASSUME NEW k \in 1 .. Len(stack'[t])
          PROVE  FrameOfThread(t, k)'
      <4>1. k \in 1 .. Len(stack[t]) \/ k = Len(stack[t]) + 1
        BY <1>1 DEF Pushed
      <4>. QED BY <3>3, <3>4, <4>1
    <3>. QED BY <2>2, <3>1, <3>5
  <2>. QED BY <2>1, <2>2
<1>12. CallsInv'
  <2>. SUFFICES ASSUME NEW i \in ThreadId, NEW p \in 1 .. Len(chain'[i])
                PROVE  CallHasFrame(i, p)'
    BY DEF CallsInv, Depth
  <2>1. CASE i = Current /\ p = n + 1
    <3>1. chain'[i][p] = t /\ p = Len(chain'[i])
      BY <1>2, <2>1
    <3>2. Len(stack[t]) + 1 \in 1 .. Len(stack'[t]) /\ stack'[t][Len(stack[t]) + 1] = f
      BY <1>1 DEF Pushed
    <3>. QED BY <1>3, <2>1, <3>1, <3>2 DEF CallHasFrame, Depth
  <2>2. CASE ~ (i = Current /\ p = n + 1)
    <3>1. /\ p \in 1 .. Depth(i) /\ chain'[i][p] = chain[i][p]
          /\ i # Current => Len(chain'[i]) = Depth(i)
      BY <1>1, <1>2, <2>2 DEF Depth
    <3>2. CallHasFrame(i, p) /\ chain[i][p] \in SM
      BY <1>1, <3>1, Sizes DEF AllInv, ChainInv, CallsInv
    <3>3. PICK r \in SM : r = chain[i][p]
      BY <3>2
    <3>4. r \in Faulty => p = Len(chain'[i])
      BY <1>1, <1>4, <1>5, <3>1, <3>2, <3>3 DEF CallHasFrame
    <3>5. ASSUME r \notin Faulty
          PROVE  /\ sm_thr'[r] = i
                 /\ \E k \in 1 .. Len(stack'[r]) :
                      stack'[r][k].kind = "in" /\ stack'[r][k].pos = p
      <4>1. sm_thr[r] = i
        BY <3>2, <3>3, <3>5 DEF CallHasFrame
      <4>2. PICK k \in 1 .. Len(stack[r]) : stack[r][k].kind = "in" /\ stack[r][k].pos = p
        BY <3>2, <3>3, <3>5 DEF CallHasFrame
      <4>3. CASE r = t
        <5>1. sm_thr[t] = Current
          BY <1>1, <4>2, <4>3 DEF Accepts
        <5>2. k \in 1 .. Len(stack'[t]) /\ stack'[t][k] = stack[t][k]
          BY <1>1, <4>2, <4>3 DEF Pushed
        <5>. QED BY <4>1, <4>2, <4>3, <5>1, <5>2
      <4>4. CASE r # t
        BY <4>1, <4>2, <4>4 DEF Pushed
      <4>. QED BY <4>3, <4>4
    <3>. QED BY <3>1, <3>3, <3>4, <3>5 DEF CallHasFrame, Depth
  <2>. QED BY <2>1, <2>2
<1>13. Innermost(t, Current)'
  BY <1>1, <1>2, <1>3, <1>7 DEF Innermost, Depth, Current
<1>. QED BY <1>6, <1>11, <1>12, <1>13

\* The module to which s returns, or jumps, waits for it in what is the innermost
\* call now: s was called from there, or is faulty and was called last.
LEMMA ReturnReaches ==
  ASSUME AllInv, NEW s \in SM, Innermost(s, Current), Left, CorrectInv', CallsInv', TypeInv',
         UNCHANGED <<sm_thr, running>>, NEW t \in SM \ Faulty, Len(stack'[t]) > 0,
         Top(t)'.kind = "call", Top(t)'.peer = s, sm_thr[t] = Current,
         s \in Faulty \/ (Depth(Current) > 1 /\ chain[Current][Depth(Current) - 1] = t)
  PROVE  Top(t)'.pos = Depth(Current)'
<1>. DEFINE n == Depth(Current)
<1>. PICK m : m = Len(stack'[t])
  OBVIOUS
<1>. PICK q : q = stack'[t][m].pos
  OBVIOUS
<1>1. /\ TypeInv /\ Current \in ThreadId /\ n \in Nat /\ n > 0 /\ chain[Current][n] = s
      /\ Current' = Current
  BY Sizes DEF AllInv, Innermost, Current
<1>2. /\ Len(chain'[Current]) = n - 1
      /\ \A p \in 1 .. n - 1 : chain'[Current][p] = chain[Current][p]
  BY DEF Left
<1>3. m \in Nat /\ m \in 1 .. m /\ sm_thr'[t] = Current /\ Top(t)' = stack'[t][m]
  <2>1. stack' \in [SM -> Seq(Frame)]
    BY DEF TypeInv, TypeOK
  <2>2. m \in Nat
    BY <2>1, Lists
  <2>. QED BY <2>2 DEF Top
<1>4. FrameOfThread(t, m)'
  <2>1. \A k \in 1 .. Len(stack'[t]) : FrameOfThread(t, k)'
    BY DEF CorrectInv
  <2>. QED BY <1>3, <2>1
<1>5. /\ q \in 1 .. n - 1
      /\ q < n - 1 => chain'[Current][q + 1] = s
      /\ \A j \in 1 .. m - 1 : stack'[t][j].pos <= q
  BY <1>2, <1>3, <1>4 DEF FrameOfThread
<1>6. CASE s \in Faulty
  <2>1. SUFFICES ASSUME q < n - 1
                 PROVE  FALSE
    BY <1>1, <1>2, <1>3, <1>5 DEF Depth
  <2>2. q + 1 \in 1 .. n - 1 /\ q + 1 \in 1 .. n
    BY <1>1, <1>5, <2>1
  <2>3. chain[Current][q + 1] = s
    BY <1>2, <1>5, <2>1, <2>2
  <2>4. CallHasFrame(Current, q + 1)
    BY <1>1, <2>2 DEF AllInv, ChainInv, CallsInv
  <2>5. q + 1 = n
    BY <1>6, <2>3, <2>4 DEF CallHasFrame
  <2>. QED BY <1>1, <1>5, <2>1, <2>5
<1>7. CASE n > 1 /\ chain[Current][n - 1] = t
  <2>1. n - 1 \in 1 .. n - 1 /\ chain'[Current][n - 1] = t
    BY <1>1, <1>2, <1>7
  <2>2. \E k \in 1 .. m : stack'[t][k].kind = "in" /\ stack'[t][k].pos = n - 1
    <3>1. \A i \in ThreadId : \A p \in 1 .. Len(chain'[i]) : CallHasFrame(i, p)'
      BY DEF CallsInv, Depth
    <3>2. PICK p \in 1 .. Len(chain'[Current]) : p = n - 1
      BY <1>2, <2>1
    <3>3. CallHasFrame(Current, p)'
      <4>1. \A r \in 1 .. Len(chain'[Current]) : CallHasFrame(Current, r)'
        BY <1>1, <3>1
      <4>. QED BY <3>2, <4>1
    <3>. QED BY <1>1, <2>1, <3>2, <3>3 DEF CallHasFrame
  <2>3. n - 1 <= q
    BY <1>3, <1>5, <2>2
  <2>. QED BY <1>1, <1>2, <1>3, <1>5, <2>3 DEF Depth
<1>. QED BY <1>6, <1>7

\* A module to which control returns is in the innermost call.
LEMMA ReturnedInner ==
  ASSUME AllInv, NEW t \in SM, NEW kind \in {"call", "yield", "retry"}, Returned(t, kind)
  PROVE  /\ Innermost(t, Current) /\ sm_thr[t] = Current
         /\ kind \in {"call", "retry"} => t \notin Faulty
<1>1. /\ Len(stack[t]) > 0 /\ Top(t).kind = kind /\ Top(t).peer = cpu.from
      /\ cpu.sm = t /\ cpu.at = "entry" /\ cpu.r6 = RETURN /\ sm_thr[t] = Current
  BY ReturnedTop, ReturnedOwn DEF AllInv
<1>2. Len(stack[t]) \in 1 .. Len(stack[t]) /\ Current \in ThreadId /\ Depth(Current) \in Nat
  BY <1>1, Sizes DEF AllInv
<1>3. FrameInCall(t, Len(stack[t]))
  BY <1>2 DEF AllInv, ChainInv, FramesInv
<1>4. kind \in {"call", "retry"} => t \notin Faulty
  BY <1>1, <1>3 DEF FrameInCall, Top
<1>5. CASE kind = "call"
  <2>1. cpu.from \in SM /\ t \in SM \ Faulty
    BY <1>1, <1>4, <1>5, UnderTop DEF AllInv
  <2>2. Top(t).pos = Depth(Current)
    BY <1>1, <1>5, <2>1 DEF AllInv, ChainInv, ReturnInv
  <2>3. Top(t).pos > 0 /\ chain[Current][Top(t).pos] = t
    BY <1>1, <1>2, <2>1, CorrectFrames DEF Top
  <2>. QED BY <1>1, <1>4, <2>2, <2>3 DEF Innermost
<1>6. CASE kind \in {"yield", "retry"}
  <2>1. cpu.from = Scheduler
    BY <1>1, <1>6, UnderTop DEF AllInv
  <2>2. Innermost(t, Current)
    BY <1>1, <2>1 DEF AllInv, ChainInv, ReturnInv
  <2>. QED BY <1>1, <1>4, <2>2
<1>. QED BY <1>5, <1>6

\* Without a thread, it is the main thread that is the current one.
LEMMA MainIsCurrent ==
  ASSUME AllInv, mode # "run"
  PROVE  Current = 0 /\ Current \in ThreadId
BY BoundAssumption DEF AllInv, TypeInv, FifoInv, Current, Sched!Nobody, ThreadId

\* The current thread is replaced, see QueueOwn.
LEMMA QueueChain ==
  ASSUME AllInv, UNCHANGED <<stack, sm_thr, chain>>, NEW thr, QueuedOr(thr),
         StartsOrResumes(thr)
  PROVE  ReadyInv' /\ StartsOrResumes(running)'
<1>1. \A r : Waits(r) => StartsOrResumes(r)
  BY DEF Waits, AllInv, ChainInv, ReadyInv
<1>2. StartsOrResumes(running') /\ \A k \in 1 .. Len(ready') : StartsOrResumes(ready'[k])
  BY <1>1 DEF QueuedOr
<1>. QED BY <1>2 DEF ReadyInv, StartsOrResumes, Innermost, Depth, Top

\* The branch to a thread that runs next, see DispatchOwn.
LEMMA DispatchChain ==
  ASSUME running' \in Waiting, Dispatch, StartsOrResumes(running)'
  PROVE  CallerInv' /\ ReturnInv' /\ StepInv' /\ cpu'.at = "entry"
<1>1. cpu' = Enter(running'.sm, Scheduler, running'.entry, FALSE)
  BY DEF Dispatch
<1>2. /\ cpu'.at = "entry" /\ cpu'.sm = running'.sm /\ cpu'.r6 = running'.entry
      /\ cpu'.from = Scheduler /\ Current' = running'.id
  BY <1>1 DEF Enter, Current
<1>3. cpu'.r6 = "call" => Depth(Current)' = 0
  BY <1>2 DEF StartsOrResumes, Depth
<1>4. cpu'.r6 = RETURN => Innermost(cpu.sm, Current)'
  BY <1>2 DEF StartsOrResumes, Innermost, Depth, Top
<1>5. CallerInv'
  BY <1>2, <1>3, DomainAssumption DEF CallerInv
<1>6. ReturnInv'
  BY <1>2, <1>4, DomainAssumption DEF ReturnInv
<1>. QED BY <1>2, <1>5, <1>6 DEF StepInv

\* In the main program nothing is asked of the CPU.
LEMMA CpuElsewhere ==
  ASSUME cpu'.at \in {"main", "exit"} \/ (cpu'.at = "sched" /\ cpu'.r6 = "report")
  PROVE  CallerInv' /\ ReturnInv' /\ StepInv'
BY DEF CallerInv, ReturnInv, StepInv, RETURN

\* The main thread's steps.
LEMMA MainChain ==
  ASSUME AllInv,
         \/ \E p \in Portal : MainRegister(p)
         \/ MainStart \/ MainResume \/ MainExit
         \/ \E t \in SM : MainCall(t)
  PROVE  ChainInv'
<1>1. UNCHANGED <<stack, sm_thr, chain>> /\ cpu = InMain
  BY DEF MainRegister, MainStart, MainResume, MainExit, MainCall
<1>2. /\ FramesInv' /\ CorrectInv' /\ CallsInv'
      /\ \A s, i : Innermost(s, i)' <=> Innermost(s, i)
      /\ \A i : Depth(i)' = Depth(i)
  BY <1>1, QuietChain
<1>3. cpu.at = "main" /\ Depth(0) = 0 /\ count \in Nat
      /\ \A i \in ThreadId : i > count => Depth(i) = 0
  BY <1>1 DEF InMain, AllInv, ChainInv, OutsideInv, TypeInv, FifoInv
<1>4. ASSUME NEW p \in Portal, MainRegister(p)
      PROVE  ChainInv'
  <2>1. p \in SM /\ mode = "idle" /\ Sched!Register(p, "call") /\ cpu' = cpu
    BY <1>4, DomainAssumption DEF MainRegister
  <2>2. PICK n : n = count'
    OBVIOUS
  <2>3. /\ mode' = "idle" /\ n = count + 1
        /\ \A k \in 1 .. Len(ready') :
             \/ Waits(ready'[k])
             \/ ready'[k] = [id |-> n, sm |-> p, entry |-> "call"]
    BY <2>1, <2>2, FifoRegister DEF AllInv
  <2>4. OutsideInv'
    BY <1>2, <1>3, <2>1, <2>2, <2>3 DEF OutsideInv, ThreadId
  <2>5. n \in ThreadId
    BY <1>3, <2>1, <2>3, BoundAssumption DEF ThreadId, Sched!Register
  <2>6. Depth(n) = 0
    BY <1>3, <2>3, <2>5
  <2>7. \A k \in 1 .. Len(ready') : StartsOrResumes(ready'[k])
    BY <2>3, <2>6 DEF StartsOrResumes, RETURN, Waits, AllInv, ChainInv, ReadyInv
  <2>8. ReadyInv'
    BY <1>1, <2>7 DEF ReadyInv, StartsOrResumes, Innermost, Depth, Top
  <2>9. CallerInv' /\ ReturnInv' /\ StepInv'
    BY <1>3, <2>1, CpuElsewhere
  <2>. QED BY <1>2, <2>4, <2>8, <2>9 DEF ChainInv
<1>5. CASE MainStart
  <2>1. /\ QueuedOr(running') /\ Waits(running') /\ mode' = "run" /\ Dispatch
        /\ count' = count
    BY <1>5, FifoStart DEF MainStart, Sched!Start, AllInv
  <2>2. StartsOrResumes(running')
    BY <2>1 DEF Waits, AllInv, ChainInv, ReadyInv
  <2>3. ReadyInv' /\ CallerInv' /\ ReturnInv' /\ StepInv'
    BY <1>1, <2>1, <2>2, QueueChain, DispatchChain DEF QueuedOr
  <2>4. OutsideInv'
    BY <1>2, <1>3, <2>1 DEF OutsideInv
  <2>. QED BY <1>2, <2>3, <2>4 DEF ChainInv
<1>6. CASE MainResume \/ MainExit
  <2>1. UNCHANGED ready /\ cpu'.at \in {"main", "exit"} /\ mode' = "idle" /\ count' = count
    BY <1>3, <1>6 DEF MainResume, MainExit, Exit, InMain, schedVars, Sched!Return
  <2>2. CallerInv' /\ ReturnInv' /\ StepInv'
    BY <2>1, CpuElsewhere
  <2>3. ReadyInv'
    BY <1>1, <2>1 DEF AllInv, ChainInv, ReadyInv, StartsOrResumes, Innermost, Depth, Top
  <2>4. OutsideInv'
    BY <1>2, <1>3, <2>1 DEF OutsideInv
  <2>. QED BY <1>2, <2>2, <2>3, <2>4 DEF ChainInv
<1>7. ASSUME NEW t \in SM, MainCall(t)
      PROVE  ChainInv'
  <2>1. /\ UNCHANGED schedVars /\ mode = "idle" /\ cpu'.at = "entry" /\ cpu'.from = Main
        /\ cpu'.r6 = "call"
    BY <1>7 DEF MainCall, Enter
  <2>2. Current = 0 /\ Current' = Current /\ mode' = "idle" /\ count' = count
    BY <2>1, MainIsCurrent DEF schedVars, Current
  <2>3. CallerInv' /\ ReturnInv' /\ StepInv'
    BY <1>2, <1>3, <2>1, <2>2, DomainAssumption DEF CallerInv, ReturnInv, StepInv, RETURN
  <2>4. ReadyInv'
    BY <1>1, <2>1 DEF AllInv, ChainInv, ReadyInv, StartsOrResumes, Innermost, Depth, Top,
                      schedVars
  <2>5. OutsideInv'
    BY <1>2, <1>3, <2>1, <2>2 DEF OutsideInv
  <2>. QED BY <1>2, <2>3, <2>4, <2>5 DEF ChainInv
<1>. QED BY <1>4, <1>5, <1>6, <1>7

\* The steps of the scheduler's entry stub.
LEMMA SchedChain ==
  ASSUME AllInv,
         \/ SchedYield \/ SchedYieldIdle \/ SchedBusy \/ SchedFinish \/ SchedKill
         \/ SchedExit
  PROVE  ChainInv'
<1>1. UNCHANGED <<stack, sm_thr, chain>> /\ cpu.at = "sched"
  BY DEF SchedYield, SchedYieldIdle, SchedBusy, SchedFinish, SchedKill, SchedExit, AtSched
<1>2. /\ FramesInv' /\ CorrectInv' /\ CallsInv'
      /\ \A s, i : Innermost(s, i)' <=> Innermost(s, i)
      /\ \A i : Depth(i)' = Depth(i)
  BY <1>1, QuietChain
<1>3. /\ \A i \in ThreadId : i > count => Depth(i) = 0
      /\ mode = "run" => Depth(0) = 0
  BY DEF AllInv, ChainInv, OutsideInv
<1>4. CASE SchedYield
  <2>1. cpu.from \in SM /\ Innermost(cpu.from, Current) /\ mode = "run"
    BY <1>4 DEF SchedYield, AtSched, AllInv, TypeInv, CpuInv, ChainInv, StepInv
  <2>2. PICK thr \in Waiting :
          /\ thr = [running EXCEPT !.sm = cpu.from, !.entry = RETURN]
          /\ thr.id = Current /\ thr.sm = cpu.from /\ thr.entry = RETURN
    BY <2>1, Requeued DEF AllInv
  <2>3. Sched!Rotate(thr) /\ Dispatch
    BY <1>4, <2>2 DEF SchedYield, Sched!Yield
  <2>4. QueuedOr(thr) /\ mode' = "run" /\ count' = count
    BY <2>1, <2>2, <2>3, FifoRotate DEF AllInv
  <2>5. StartsOrResumes(thr)
    BY <2>1, <2>2 DEF StartsOrResumes, RETURN
  <2>6. ReadyInv' /\ CallerInv' /\ ReturnInv' /\ StepInv' /\ cpu'.at = "entry"
    BY <1>1, <2>3, <2>4, <2>5, QueueChain, DispatchChain DEF QueuedOr
  <2>7. OutsideInv'
    BY <1>2, <1>3, <2>1, <2>4 DEF OutsideInv
  <2>. QED BY <1>2, <2>6, <2>7 DEF ChainInv
<1>5. CASE SchedYieldIdle
  <2>1. /\ cpu.from \in SM /\ Innermost(cpu.from, Current) /\ UNCHANGED schedVars
        /\ mode = "idle"
    BY <1>5 DEF SchedYieldIdle, AtSched, AllInv, TypeInv, CpuInv, ChainInv, StepInv
  <2>2. /\ cpu'.at = "entry" /\ cpu'.sm = cpu.from /\ cpu'.r6 = RETURN
        /\ cpu'.from = Scheduler /\ Current' = Current
    BY <1>5, <2>1 DEF SchedYieldIdle, schedVars, Current, Enter
  <2>3. Innermost(cpu.sm, Current)'
    BY <1>1, <2>1, <2>2 DEF Innermost, Depth, Top
  <2>4. CallerInv' /\ ReturnInv' /\ StepInv'
    BY <2>2, <2>3, DomainAssumption DEF CallerInv, ReturnInv, StepInv, RETURN
  <2>5. ReadyInv'
    BY <1>1, <2>1 DEF AllInv, ChainInv, ReadyInv, StartsOrResumes, Innermost, Depth, Top,
                      schedVars
  <2>6. OutsideInv'
    BY <1>2, <1>3, <2>1, <2>2 DEF OutsideInv, schedVars
  <2>. QED BY <1>2, <2>4, <2>5, <2>6 DEF ChainInv
<1>6. CASE SchedBusy
  <2>1. running \in Waiting /\ Sched!Rotate(running) /\ mode = "run" /\ Dispatch
    BY <1>6, Requeued DEF SchedBusy, Sched!Busy, AllInv
  <2>2. running.entry = "call" /\ Depth(Current) = 0
    BY <1>6 DEF SchedBusy, AtSched, AllInv, OwnInv, OwnCpu, ChainInv, StepInv, RETURN
  <2>3. QueuedOr(running) /\ mode' = "run" /\ count' = count
    BY <2>1, FifoRotate DEF Current, AllInv
  <2>4. StartsOrResumes(running)
    BY <2>2 DEF StartsOrResumes, RETURN, Current
  <2>5. ReadyInv' /\ CallerInv' /\ ReturnInv' /\ StepInv' /\ cpu'.at = "entry"
    BY <1>1, <2>1, <2>3, <2>4, QueueChain, DispatchChain DEF QueuedOr
  <2>6. OutsideInv'
    BY <1>2, <1>3, <2>1, <2>3 DEF OutsideInv
  <2>. QED BY <1>2, <2>5, <2>6 DEF ChainInv
<1>7. CASE SchedFinish \/ SchedKill
  <2>1. DispatchOrFinal /\ Sched!Done /\ mode = "run"
    BY <1>7 DEF SchedFinish, SchedKill
  <2>2. count' = count
    BY <2>1, FifoDone DEF AllInv
  <2>3. CASE mode' = "run"
    <3>1. QueuedOr(running') /\ Waits(running') /\ Dispatch
      BY <2>1, <2>3, FifoDone DEF DispatchOrFinal, AllInv
    <3>2. StartsOrResumes(running')
      BY <3>1 DEF Waits, AllInv, ChainInv, ReadyInv
    <3>3. ReadyInv' /\ CallerInv' /\ ReturnInv' /\ StepInv' /\ cpu'.at = "entry"
      BY <1>1, <3>1, <3>2, QueueChain, DispatchChain DEF QueuedOr
    <3>4. OutsideInv'
      BY <1>2, <1>3, <2>1, <2>2, <2>3 DEF OutsideInv
    <3>. QED BY <1>2, <3>3, <3>4 DEF ChainInv
  <2>4. CASE mode' # "run"
    <3>1. mode' = "final" /\ ready' = <<>>
      BY <2>1, <2>4, FifoDone DEF AllInv
    <3>2. cpu'.at = "main" /\ Len(ready') = 0
      BY <2>1, <3>1, EmptySeq DEF DispatchOrFinal, InMain
    <3>3. ReadyInv' /\ CallerInv' /\ ReturnInv' /\ StepInv'
      BY <3>2, CpuElsewhere DEF ReadyInv
    <3>4. OutsideInv'
      BY <1>2, <1>3, <2>1, <2>2, <3>1, <3>2 DEF OutsideInv
    <3>. QED BY <1>2, <3>3, <3>4 DEF ChainInv
  <2>. QED BY <2>3, <2>4
<1>8. CASE SchedExit
  <2>1. /\ UNCHANGED <<ready, running, ended, count>> /\ cpu'.at = "exit"
        /\ mode' \notin {"run", "final"}
    BY <1>8, FifoIdle DEF SchedExit, Exit, AllInv, Sched!Stop
  <2>2. CallerInv' /\ ReturnInv' /\ StepInv'
    BY <2>1, CpuElsewhere
  <2>3. ReadyInv'
    BY <1>1, <2>1 DEF AllInv, ChainInv, ReadyInv, StartsOrResumes, Innermost, Depth, Top
  <2>4. OutsideInv'
    BY <1>2, <1>3, <2>1 DEF OutsideInv
  <2>. QED BY <1>2, <2>2, <2>3, <2>4 DEF ChainInv
<1>. QED BY <1>4, <1>5, <1>6, <1>7, <1>8

\* Module code executes in the innermost call.
LEMMA BodyChain ==
  ASSUME NEW t \in SM, cpu' = Body(t), Innermost(t, Current)'
  PROVE  CallerInv' /\ ReturnInv' /\ StepInv'
<1>1. cpu'.at = "body" /\ cpu'.sm = t
  BY NewFields
<1>2. Innermost(cpu.sm, Current)'
  BY <1>1 DEF Innermost, Depth, Top
<1>. QED BY <1>1, <1>2 DEF CallerInv, ReturnInv, StepInv

\* A step of the current thread that pushes, or pops, but makes or leaves no call.
LEMMA SameCalls ==
  ASSUME AllInv, StaysOut, UNCHANGED schedVars, UNCHANGED chain, cpu.at # "main",
         cpu'.at = "main" => Depth(0) = 0
  PROVE  ReadyInv' /\ OutsideInv'
<1>1. \A i \in ThreadId \ {Current} : chain'[i] = chain[i]
  OBVIOUS
<1>2. ReadyInv'
  BY <1>1, ReadyKept
<1>3. cpu'.at = "main" => Len(chain'[0]) = 0
  BY DEF Depth
<1>. QED BY <1>1, <1>2, <1>3, OutsideKept

\* A busy answer: the caller is in the innermost call still, or there is none.
LEMMA BusyChain ==
  ASSUME AllInv, NEW t \in SM, EntryBusy(t), StaysOut
  PROVE  ChainInv'
<1>1. /\ UNCHANGED <<stack, sm_thr, chain>> /\ UNCHANGED schedVars
      /\ cpu' = ReturnTo(cpu.from, t, TRUE) /\ Current' = Current
      /\ cpu.at = "entry" /\ cpu.sm = t /\ cpu.r6 = "call"
  BY DEF EntryBusy, Called, schedVars, Current
<1>2. /\ FramesInv' /\ CorrectInv' /\ CallsInv'
      /\ \A s, i : Innermost(s, i)' <=> Innermost(s, i)
      /\ \A i : Depth(i)' = Depth(i)
  BY <1>1, QuietChain
<1>3. /\ cpu.from \in SM => /\ Innermost(cpu.from, Current) /\ Top(cpu.from).kind = "call"
                            /\ Top(cpu.from).peer = t
      /\ cpu.from \notin SM => Depth(Current) = 0
  BY <1>1 DEF AllInv, ChainInv, CallerInv
<1>4. cpu.from \in Domain
  BY DEF AllInv, TypeInv, TypeOK, Cpu
<1>5. CASE cpu.from = Scheduler
  <2>1. cpu' = ToSched(t, RETURN, TRUE)
    BY <1>1, <1>5, DomainAssumption DEF ReturnTo
  <2>2. cpu'.at = "sched" /\ cpu'.r6 = RETURN
    BY <2>1 DEF ToSched
  <2>3. Depth(Current)' = 0
    BY <1>1, <1>3, <1>5, DomainAssumption DEF Depth
  <2>4. CallerInv' /\ ReturnInv' /\ StepInv'
    BY <2>2, <2>3 DEF CallerInv, ReturnInv, StepInv, RETURN
  <2>5. ReadyInv' /\ OutsideInv'
    BY <1>1, <2>2, SameCalls
  <2>. QED BY <1>2, <2>4, <2>5 DEF ChainInv
<1>6. CASE cpu.from = Main
  <2>1. cpu'.at = "main" /\ Depth(Current) = 0
    BY <1>1, <1>3, <1>6, DomainAssumption DEF ReturnTo, InMain
  <2>2. Depth(0) = 0
    BY <2>1, MainIsCurrent DEF AllInv, ChainInv, OutsideInv
  <2>3. CallerInv' /\ ReturnInv' /\ StepInv'
    BY <2>1, CpuElsewhere
  <2>4. ReadyInv' /\ OutsideInv'
    BY <1>1, <2>2, SameCalls
  <2>. QED BY <1>2, <2>3, <2>4 DEF ChainInv
<1>7. CASE cpu.from \in SM
  <2>1. PICK s \in SM : s = cpu.from
    BY <1>7
  <2>2. cpu' = Enter(s, t, RETURN, TRUE)
    BY <1>1, <2>1, DomainAssumption DEF ReturnTo
  <2>3. /\ cpu'.at = "entry" /\ cpu'.sm = s /\ cpu'.r6 = RETURN /\ cpu'.from = t
    BY <2>2 DEF Enter
  <2>4. Top(s).pos = Depth(Current)
    BY <1>3, <2>1 DEF Innermost
  <2>5. Top(cpu.sm)'.pos = Depth(Current)'
    BY <1>1, <2>3, <2>4 DEF Top, Depth
  <2>6. CallerInv' /\ ReturnInv' /\ StepInv'
    BY <2>3, <2>5, DomainAssumption DEF CallerInv, ReturnInv, StepInv, RETURN
  <2>7. ReadyInv' /\ OutsideInv'
    BY <1>1, <2>3, SameCalls
  <2>. QED BY <1>2, <2>6, <2>7 DEF ChainInv
<1>. QED BY <1>4, <1>5, <1>6, <1>7 DEF Domain

\* The busy callee's caller calls again.
LEMMA RetryChain ==
  ASSUME AllInv, NEW t \in SM, EntryRetry(t), StaysOut
  PROVE  ChainInv'
<1>1. /\ UNCHANGED <<sm_thr, chain>> /\ UNCHANGED schedVars /\ UNCHANGED running
      /\ cpu.at = "entry"
  BY DEF EntryRetry, Returned, schedVars
<1>2. Innermost(t, Current) /\ sm_thr[t] = Current /\ t \notin Faulty
  BY ReturnedInner DEF EntryRetry
<1>3. Len(stack[t]) > 0 /\ Top(t).kind = "retry"
  BY ReturnedTop DEF EntryRetry, AllInv
<1>4. Popped(t)
  BY <1>3, PopPops DEF EntryRetry, AllInv
<1>5. /\ FramesInv' /\ CorrectInv' /\ CallsInv' /\ Innermost(t, Current)'
      /\ Top(t)' = stack[t][Len(stack[t]) - 1]
  BY <1>1, <1>2, <1>3, <1>4, PopChain
<1>6. Top(t)'.kind = "call"
  BY <1>3, <1>5, UnderTop DEF Below, AllInv
<1>7. cpu' = Enter(Top(t)'.peer, t, "call", FALSE)
  BY DEF EntryRetry, Top
<1>8. /\ cpu'.at = "entry" /\ cpu'.sm = Top(t)'.peer /\ cpu'.r6 = "call"
      /\ cpu'.from = t /\ sm_thr'[t] = Current'
  BY <1>1, <1>2, <1>7 DEF Enter, Current
<1>9. CallerInv'
  <2>1. Innermost(cpu.from, Current)'
    BY <1>5, <1>8 DEF Innermost, Depth, Top
  <2>2. Top(cpu.from)' = Top(t)'
    BY <1>8 DEF Top
  <2>. QED BY <1>2, <1>6, <1>8, <2>1, <2>2 DEF CallerInv
<1>10. ReturnInv' /\ StepInv'
  BY <1>8 DEF ReturnInv, StepInv, RETURN
<1>11. ReadyInv' /\ OutsideInv'
  BY <1>1, <1>8, SameCalls
<1>. QED BY <1>5, <1>9, <1>10, <1>11 DEF ChainInv

\* The steps of a module's entry stub.
LEMMA EntryChain ==
  ASSUME AllInv, NEW t \in SM,
         \/ EntryViolation(t) \/ EntryCall(t) \/ EntryBusy(t) \/ EntryReturn(t)
         \/ EntryCalleeBusy(t) \/ EntryResume(t) \/ EntryRetry(t)
  PROVE  ChainInv'
<1>1. StaysOut /\ TypeInv'
  BY EntryOwn, EntryTypes DEF AllInv
<1>2. /\ UNCHANGED schedVars /\ UNCHANGED running /\ Current' = Current
      /\ cpu.at = "entry"
  BY DEF EntryViolation, EntryCall, EntryBusy, EntryReturn, EntryCalleeBusy, EntryResume,
         EntryRetry, Called, Returned, schedVars, Current
<1>3. CASE EntryViolation(t)
  <2>1. /\ UNCHANGED <<stack, sm_thr, chain>> /\ cpu'.at = "sched" /\ cpu'.r6 = "report"
    BY <1>3 DEF EntryViolation, ToSched
  <2>2. FramesInv' /\ CorrectInv' /\ CallsInv'
    BY <2>1, QuietChain
  <2>3. CallerInv' /\ ReturnInv' /\ StepInv'
    BY <2>1, CpuElsewhere
  <2>4. ReadyInv' /\ OutsideInv'
    BY <1>1, <1>2, <2>1, SameCalls
  <2>. QED BY <2>2, <2>3, <2>4 DEF ChainInv
<1>4. CASE EntryCall(t)
  <2>1. cpu.from \in Domain /\ Called(t) /\ Accepts(t) /\ cpu' = Body(t)
    BY <1>4 DEF AllInv, TypeInv, TypeOK, Cpu, EntryCall
  <2>2. PICK f \in Frame : f = NewFrame("in", cpu.from) /\ Pushed(t, f)
    BY <1>4, <2>1, PushPushes DEF EntryCall, AllInv
  <2>3. Entered(t) /\ chain' \in [ThreadId -> Seq(SM)]
    BY <1>1, <1>4, CallEnters DEF EntryCall, AllInv, TypeInv, TypeOK
  <2>4. sm_thr'[t] = Current /\ \A r \in SM \ {t} : sm_thr'[r] = sm_thr[r]
    BY <1>4 DEF EntryCall, AllInv, TypeInv, TypeOK
  <2>5. FramesInv' /\ CorrectInv' /\ CallsInv' /\ Innermost(t, Current)'
    BY <1>2, <2>1, <2>2, <2>3, <2>4, EnterChain
  <2>6. CallerInv' /\ ReturnInv' /\ StepInv'
    BY <2>1, <2>5, BodyChain
  <2>7. cpu'.at = "body" /\ \A i \in ThreadId \ {Current} : chain'[i] = chain[i]
    BY <2>1, <2>3, NewFields DEF Entered
  <2>8. ReadyInv' /\ OutsideInv'
    BY <1>1, <1>2, <2>7, ReadyKept, OutsideKept
  <2>. QED BY <2>5, <2>6, <2>8 DEF ChainInv
<1>5. CASE EntryBusy(t)
  BY <1>1, <1>5, BusyChain
<1>6. CASE EntryReturn(t) \/ EntryResume(t)
  <2>1. /\ Len(stack[t]) > 0 /\ Top(t).kind # "in"
        /\ Innermost(t, Current) /\ sm_thr[t] = Current
    BY <1>6, ReturnedTop, ReturnedInner DEF EntryReturn, EntryResume, AllInv
  <2>2. /\ Popped(t) /\ cpu' = Body(t) /\ UNCHANGED <<sm_thr, chain>>
        /\ cpu'.at = "body"
    BY <1>6, <2>1, PopPops, NewFields DEF EntryReturn, EntryResume, AllInv
  <2>3. FramesInv' /\ CorrectInv' /\ CallsInv' /\ Innermost(t, Current)'
    BY <1>2, <2>1, <2>2, PopChain
  <2>4. CallerInv' /\ ReturnInv' /\ StepInv'
    BY <2>2, <2>3, BodyChain
  <2>5. ReadyInv' /\ OutsideInv'
    BY <1>1, <1>2, <2>2, SameCalls
  <2>. QED BY <2>3, <2>4, <2>5 DEF ChainInv
<1>7. CASE EntryCalleeBusy(t)
  <2>1. Innermost(t, Current) /\ sm_thr[t] = Current /\ t \notin Faulty
    BY <1>7, ReturnedInner DEF EntryCalleeBusy
  <2>2. PICK f \in Frame : f = NewFrame("retry", Scheduler) /\ Pushed(t, f)
    BY <1>7, PushPushes DEF EntryCalleeBusy, Domain, AllInv
  <2>3. /\ f.kind = "retry" /\ f.pos = Depth(Current) /\ UNCHANGED <<sm_thr, chain>>
        /\ cpu' = ToSched(t, "yield", FALSE)
    <3>1. f.pos = Len(chain[Current]) + 0
      BY <2>2 DEF NewFrame
    <3>. QED BY <1>7, <2>2, <3>1, Sizes DEF EntryCalleeBusy, NewFrame, Depth, AllInv
  <2>4. FramesInv' /\ CorrectInv' /\ CallsInv' /\ Innermost(t, Current)'
    BY <1>2, <2>1, <2>2, <2>3, PushChain
  <2>5. cpu'.at = "sched" /\ cpu'.r6 = "yield" /\ cpu'.from = t
    BY <2>3 DEF ToSched
  <2>6. Innermost(cpu.from, Current)'
    BY <2>4, <2>5 DEF Innermost, Depth, Top
  <2>7. CallerInv' /\ ReturnInv' /\ StepInv'
    BY <2>5, <2>6 DEF CallerInv, ReturnInv, StepInv, RETURN
  <2>8. ReadyInv' /\ OutsideInv'
    BY <1>1, <1>2, <2>3, <2>5, SameCalls
  <2>. QED BY <2>4, <2>7, <2>8 DEF ChainInv
<1>8. CASE EntryRetry(t)
  BY <1>1, <1>8, RetryChain
<1>. QED BY <1>3, <1>4, <1>5, <1>6, <1>7, <1>8

\* What is known while module code executes.
LEMMA BodyInner ==
  ASSUME AllInv, NEW s \in SM, cpu = Body(s)
  PROVE  /\ Innermost(s, Current) /\ sm_thr[s] = Current /\ cpu.at = "body"
         /\ Len(stack[s]) > 0 /\ Top(s).kind = "in" /\ Top(s) \in Frame
         /\ Len(stack[s]) \in 1 .. Len(stack[s]) /\ Depth(Current) \in Nat
<1>1. cpu.at = "body" /\ cpu.sm = s
  BY NewFields
<1>2. Innermost(s, Current) /\ sm_thr[s] = Current
  BY <1>1 DEF AllInv, ChainInv, StepInv, OwnInv, OwnCpu
<1>3. Len(stack[s]) > 0 /\ Top(s).kind = "in"
  BY InBody DEF AllInv
<1>. QED BY <1>1, <1>2, <1>3, Sizes DEF AllInv

\* A module leaves its call and enters a module t: the one that called it, unless it
\* is faulty.
LEMMA LeaveReturns ==
  ASSUME AllInv, NEW s \in SM, Innermost(s, Current), Left, CorrectInv', CallsInv', TypeInv',
         UNCHANGED <<sm_thr, running>>, NEW t \in SM, NEW busy \in BOOLEAN,
         cpu' = Enter(t, s, RETURN, busy),
         s \in Faulty \/ (Depth(Current) > 1 /\ chain[Current][Depth(Current) - 1] = t)
  PROVE  CallerInv' /\ ReturnInv' /\ StepInv'
<1>1. /\ cpu'.at = "entry" /\ cpu'.sm = t /\ cpu'.r6 = RETURN /\ cpu'.from = s
      /\ cpu'.from # Scheduler /\ Current' = Current
  BY DomainAssumption DEF Enter, Current
<1>2. CallerInv' /\ StepInv'
  BY <1>1 DEF CallerInv, StepInv, RETURN
<1>3. ASSUME t \notin Faulty, Len(stack'[t]) > 0, Top(t)'.kind = "call",
             Top(t)'.peer = s, sm_thr'[t] = Current
      PROVE  Top(t)'.pos = Depth(Current)'
  BY <1>3, ReturnReaches
<1>4. Top(cpu.sm)' = Top(t)'
  BY <1>1 DEF Top
<1>5. ReturnInv'
  BY <1>1, <1>3, <1>4 DEF ReturnInv
<1>. QED BY <1>2, <1>5

\* A return, or whatever a faulty module does, to the scheduler or a busy answer to it.
LEMMA LeaveToSched ==
  ASSUME NEW s \in SM, cpu' = ToSched(s, RETURN, FALSE)
  PROVE  CallerInv' /\ ReturnInv' /\ StepInv' /\ cpu'.at = "sched"
<1>1. cpu'.at = "sched" /\ cpu'.r6 = RETURN /\ cpu'.busy = FALSE
  BY DEF ToSched
<1>. QED BY <1>1 DEF CallerInv, ReturnInv, StepInv, RETURN

\* A module returns.
LEMMA ReturnChain ==
  ASSUME AllInv, TypeInv', StaysOut, NEW s \in SM, ReturnFrom(s)
  PROVE  ChainInv'
<1>1. /\ Innermost(s, Current) /\ sm_thr[s] = Current /\ cpu.at = "body"
      /\ Len(stack[s]) > 0 /\ Top(s).kind = "in" /\ Top(s) \in Frame
      /\ Len(stack[s]) \in 1 .. Len(stack[s]) /\ Depth(Current) \in Nat
  BY BodyInner DEF ReturnFrom
<1>2. /\ UNCHANGED schedVars /\ UNCHANGED running /\ UNCHANGED sm_thr
      /\ Current' = Current /\ cpu' = ReturnTo(Top(s).peer, s, FALSE)
  BY DEF ReturnFrom, schedVars, Current
<1>3. Popped(s)
  BY <1>1, PopPops DEF ReturnFrom, AllInv
<1>4. Left /\ chain' \in [ThreadId -> Seq(SM)]
  BY <1>1, LeaveLeaves DEF ReturnFrom, AllInv, Innermost, TypeInv, TypeOK
<1>5. FramesInv' /\ CorrectInv' /\ CallsInv'
  BY <1>1, <1>2, <1>3, <1>4, FramesPop, LeaveChain DEF Popped
<1>6. \A i \in ThreadId \ {Current} : chain'[i] = chain[i]
  BY <1>4 DEF Left
<1>7. ReadyInv'
  BY <1>2, <1>6, ReadyKept
<1>8. FrameInCall(s, Len(stack[s])) /\ Top(s).pos = Depth(Current)
  BY <1>1 DEF AllInv, ChainInv, FramesInv, Innermost
<1>9. CASE Top(s).peer = Scheduler
  <2>1. cpu' = ToSched(s, RETURN, FALSE)
    BY <1>2, <1>9, DomainAssumption DEF ReturnTo
  <2>2. CallerInv' /\ ReturnInv' /\ StepInv' /\ cpu'.at = "sched"
    BY <2>1, LeaveToSched
  <2>3. OutsideInv'
    BY <1>1, <1>2, <1>6, <2>2, OutsideKept
  <2>. QED BY <1>5, <1>7, <2>2, <2>3 DEF ChainInv
<1>10. CASE Top(s).peer = Main
  <2>1. cpu'.at = "main"
    BY <1>2, <1>10, DomainAssumption DEF ReturnTo, InMain
  <2>2. CallerInv' /\ ReturnInv' /\ StepInv'
    BY <2>1, CpuElsewhere
  <2>3. Depth(Current) = 1
    BY <1>1, <1>8, <1>10, DomainAssumption DEF FrameInCall, Top
  <2>4. Len(chain'[Current]) = 0
    BY <1>4, <2>3 DEF Left
  <2>5. Len(chain'[0]) = 0
    <3>1. CASE Current = 0
      BY <2>4, <3>1
    <3>2. CASE Current # 0
      <4>1. Depth(0) = 0
        BY <3>2, MainIsCurrent DEF AllInv, ChainInv, OutsideInv
      <4>2. 0 \in ThreadId
        BY BoundAssumption DEF ThreadId
      <4>. QED BY <1>6, <3>2, <4>1, <4>2 DEF Depth
    <3>. QED BY <3>1, <3>2
  <2>6. OutsideInv'
    BY <1>1, <1>2, <1>6, <2>5, OutsideKept
  <2>. QED BY <1>5, <1>7, <2>2, <2>6 DEF ChainInv
<1>11. CASE Top(s).peer \in SM
  <2>1. PICK t \in SM : t = Top(s).peer
    BY <1>11
  <2>2. cpu' = Enter(t, s, RETURN, FALSE)
    BY <1>2, <2>1, DomainAssumption DEF ReturnTo
  <2>3. s \in Faulty \/ (Depth(Current) > 1 /\ chain[Current][Depth(Current) - 1] = t)
    <3>1. SUFFICES ASSUME s \notin Faulty
                   PROVE  Depth(Current) > 1 /\ chain[Current][Depth(Current) - 1] = t
      OBVIOUS
    <3>2. FrameOfThread(s, Len(stack[s]))
      BY <1>1, <3>1, CorrectFrames
    <3>. QED BY <1>1, <1>8, <2>1, <3>2 DEF FrameOfThread, Top
  <2>4. CallerInv' /\ ReturnInv' /\ StepInv'
    BY <1>1, <1>2, <1>4, <1>5, <2>2, <2>3, LeaveReturns
  <2>5. cpu'.at = "entry"
    BY <2>2 DEF Enter
  <2>6. OutsideInv'
    BY <1>1, <1>2, <1>6, <2>5, OutsideKept
  <2>. QED BY <1>5, <1>7, <2>4, <2>6 DEF ChainInv
<1>. QED BY <1>1, <1>9, <1>10, <1>11 DEF Frame, Domain

\* A faulty module leaves without its exit stub.
LEMMA JumpChain ==
  ASSUME AllInv, TypeInv', StaysOut, NoFalseBusy, NEW s \in SM, Jump(s)
  PROVE  ChainInv'
<1>1. /\ Innermost(s, Current) /\ sm_thr[s] = Current /\ cpu.at = "body"
      /\ Len(stack[s]) > 0 /\ Top(s).kind = "in" /\ Depth(Current) \in Nat
  BY BodyInner DEF Jump
<1>2. /\ UNCHANGED schedVars /\ UNCHANGED running /\ UNCHANGED sm_thr
      /\ Current' = Current /\ s \in Faulty
  BY DEF Jump, schedVars, Current
<1>3. PICK f \in Frame : f = NewFrame("open", s) /\ Pushed(s, f)
  BY PushPushes DEF Jump, Domain, AllInv
<1>4. f.kind = "open" /\ f.pos = Depth(Current)
  <2>1. f.pos = Len(chain[Current]) + 0 /\ f.kind = "open"
    BY <1>3 DEF NewFrame
  <2>. QED BY <1>1, <2>1 DEF Depth
<1>5. Top(s).pos = Depth(Current)
  BY <1>1 DEF Innermost
<1>6. FramesInv'
  BY <1>1, <1>3, <1>4, <1>5, FramesPush
<1>7. ASSUME chain' = Leave(Current)
      PROVE  /\ Left /\ CorrectInv' /\ CallsInv' /\ ReadyInv'
             /\ cpu'.at # "main" => OutsideInv'
  <2>1. Left /\ chain' \in [ThreadId -> Seq(SM)]
    BY <1>1, <1>7, LeaveLeaves DEF AllInv, Innermost, TypeInv, TypeOK
  <2>2. CorrectInv' /\ CallsInv'
    BY <1>1, <1>2, <1>3, <2>1, LeaveChain DEF Pushed
  <2>3. \A i \in ThreadId \ {Current} : chain'[i] = chain[i]
    BY <2>1 DEF Left
  <2>4. ReadyInv' /\ (cpu'.at # "main" => OutsideInv')
    BY <1>1, <1>2, <2>3, ReadyKept, OutsideKept
  <2>. QED BY <2>1, <2>2, <2>4
<1>8. CASE \E t \in SM \ {s}, busy \in BOOLEAN :
             cpu' = Enter(t, s, RETURN, busy) /\ chain' = Leave(Current)
  <2>1. PICK t \in SM, busy \in BOOLEAN :
          cpu' = Enter(t, s, RETURN, busy) /\ chain' = Leave(Current)
    BY <1>8
  <2>2. Left /\ CorrectInv' /\ CallsInv' /\ ReadyInv' /\ OutsideInv'
    BY <1>7, <2>1 DEF Enter
  <2>3. CallerInv' /\ ReturnInv' /\ StepInv'
    BY <1>1, <1>2, <2>1, <2>2, LeaveReturns
  <2>. QED BY <1>6, <2>2, <2>3 DEF ChainInv
<1>9. CASE \E busy \in Answers :
             cpu' = ToSched(s, RETURN, busy) /\ chain' = Leave(Current)
  <2>1. PICK busy \in Answers : cpu' = ToSched(s, RETURN, busy) /\ chain' = Leave(Current)
    BY <1>9
  <2>2. busy = FALSE
    BY <1>2, <2>1, DomainAssumption DEF NoFalseBusy
  <2>3. CallerInv' /\ ReturnInv' /\ StepInv' /\ cpu'.at = "sched"
    BY <2>1, <2>2, LeaveToSched
  <2>4. CorrectInv' /\ CallsInv' /\ ReadyInv' /\ OutsideInv'
    BY <1>7, <2>1, <2>3
  <2>. QED BY <1>6, <2>3, <2>4 DEF ChainInv
<1>10. CASE \E t \in SM \ {s}, r6 \in {"badidx", "badret"} :
              cpu' = Enter(t, s, r6, FALSE) /\ UNCHANGED chain
  <2>1. cpu'.at = "entry" /\ cpu'.r6 \in {"badidx", "badret"} /\ UNCHANGED chain
    BY <1>10 DEF Enter
  <2>2. CorrectInv' /\ CallsInv'
    BY <1>1, <1>2, <1>3, <1>4, <2>1, PushChain
  <2>3. CallerInv' /\ ReturnInv' /\ StepInv'
    BY <2>1 DEF CallerInv, ReturnInv, StepInv, RETURN
  <2>4. ReadyInv' /\ OutsideInv'
    BY <1>1, <1>2, <2>1, SameCalls
  <2>. QED BY <1>6, <2>2, <2>3, <2>4 DEF ChainInv
<1>. QED BY <1>8, <1>9, <1>10 DEF Jump

\* The steps of module code.
LEMMA ModuleChain ==
  ASSUME AllInv, LeafFaults, ModuleStep
  PROVE  ChainInv'
<1>1. StaysOut /\ TypeInv'
  BY ModuleOwn, ModuleTypes DEF AllInv, LeafFaults
<1>2. ASSUME NEW s \in SM, NEW t \in SM, CallOut(s, t)
      PROVE  ChainInv'
  <2>1. Innermost(s, Current) /\ sm_thr[s] = Current /\ cpu.at = "body"
    BY <1>2, BodyInner DEF CallOut
  <2>2. /\ UNCHANGED schedVars /\ UNCHANGED running /\ UNCHANGED <<sm_thr, chain>>
        /\ Current' = Current /\ s \notin Faulty
    BY <1>2 DEF CallOut, schedVars, Current, LeafFaults
  <2>3. PICK f \in Frame : f = NewFrame("call", t) /\ Pushed(s, f)
    BY <1>2, PushPushes DEF CallOut, Domain, AllInv
  <2>4. f.kind = "call" /\ f.peer = t /\ f.pos = Depth(Current)
    <3>1. f.kind = "call" /\ f.peer = t /\ f.pos = Len(chain[Current]) + 0
      BY <2>3 DEF NewFrame
    <3>. QED BY <3>1, Sizes DEF Depth, AllInv
  <2>5. /\ FramesInv' /\ CorrectInv' /\ CallsInv' /\ Innermost(s, Current)'
        /\ Top(s)' = f
    BY <2>1, <2>2, <2>3, <2>4, PushChain
  <2>6. /\ cpu'.at = "entry" /\ cpu'.sm = t /\ cpu'.r6 = "call" /\ cpu'.from = s
    BY <1>2 DEF CallOut, Enter
  <2>7. Innermost(cpu.from, Current)' /\ Top(cpu.from)' = f
    BY <2>5, <2>6 DEF Innermost, Depth, Top
  <2>8. CallerInv'
    BY <2>1, <2>2, <2>4, <2>6, <2>7 DEF CallerInv
  <2>9. ReturnInv' /\ StepInv'
    BY <2>6 DEF ReturnInv, StepInv, RETURN
  <2>10. ReadyInv' /\ OutsideInv'
    BY <1>1, <2>1, <2>2, <2>6, SameCalls
  <2>. QED BY <2>5, <2>8, <2>9, <2>10 DEF ChainInv
<1>3. ASSUME NEW s \in SM, YieldOut(s)
      PROVE  ChainInv'
  <2>1. Innermost(s, Current) /\ sm_thr[s] = Current /\ cpu.at = "body"
    BY <1>3, BodyInner DEF YieldOut
  <2>2. /\ UNCHANGED schedVars /\ UNCHANGED running /\ UNCHANGED <<sm_thr, chain>>
        /\ Current' = Current
    BY <1>3 DEF YieldOut, schedVars, Current
  <2>3. PICK f \in Frame : f = NewFrame("yield", Scheduler) /\ Pushed(s, f)
    BY <1>3, PushPushes DEF YieldOut, Domain, AllInv
  <2>4. f.kind = "yield" /\ f.pos = Depth(Current)
    <3>1. f.kind = "yield" /\ f.pos = Len(chain[Current]) + 0
      BY <2>3 DEF NewFrame
    <3>. QED BY <3>1, Sizes DEF Depth, AllInv
  <2>5. /\ FramesInv' /\ CorrectInv' /\ CallsInv' /\ Innermost(s, Current)'
    BY <2>1, <2>2, <2>3, <2>4, PushChain
  <2>6. cpu'.at = "sched" /\ cpu'.r6 = "yield" /\ cpu'.from = s
    BY <1>3 DEF YieldOut, ToSched
  <2>7. Innermost(cpu.from, Current)'
    BY <2>5, <2>6 DEF Innermost, Depth, Top
  <2>8. CallerInv' /\ ReturnInv' /\ StepInv'
    BY <2>6, <2>7 DEF CallerInv, ReturnInv, StepInv, RETURN
  <2>9. ReadyInv' /\ OutsideInv'
    BY <1>1, <2>1, <2>2, <2>6, SameCalls
  <2>. QED BY <2>5, <2>8, <2>9 DEF ChainInv
<1>4. ASSUME NEW s \in SM, ReturnFrom(s)
      PROVE  ChainInv'
  BY <1>1, <1>4, ReturnChain
<1>5. ASSUME NEW s \in SM, Jump(s)
      PROVE  ChainInv'
  BY <1>1, <1>5, JumpChain DEF LeafFaults
<1>. QED BY <1>2, <1>3, <1>4, <1>5 DEF ModuleStep

\* At first no module is called.
LEMMA ChainInit ==
  ASSUME Init
  PROVE  ChainInv
<1>1. /\ \A s \in SM : Len(stack[s]) = 0
      /\ \A i \in ThreadId : Depth(i) = 0
      /\ Len(ready) = 0 /\ cpu.at = "main" /\ mode = "idle" /\ 0 \in ThreadId
  BY EmptySeq, BoundAssumption DEF Init, Sched!Init, Depth, InMain, ThreadId
<1>2. FramesInv /\ CorrectInv /\ CallsInv /\ ReadyInv
  BY <1>1 DEF FramesInv, CorrectInv, TopWaits, CallsInv, ReadyInv
<1>3. OutsideInv /\ CallerInv /\ ReturnInv /\ StepInv
  BY <1>1 DEF OutsideInv, CallerInv, ReturnInv, StepInv
<1>. QED BY <1>2, <1>3 DEF ChainInv

\* Every step keeps the frames and the calls together.
LEMMA ChainStep ==
  ASSUME AllInv, LeafFaults, [Next]_vars
  PROVE  ChainInv'
<1>1. CASE \/ \E p \in Portal : MainRegister(p)
           \/ MainStart \/ MainResume \/ MainExit
           \/ \E t \in SM : MainCall(t)
  BY <1>1, MainChain
<1>2. CASE ModuleStep
  BY <1>2, ModuleChain
<1>3. CASE StubStep
  BY <1>3, EntryChain, SchedChain DEF StubStep
<1>4. CASE UNCHANGED vars
  <2>1. /\ UNCHANGED <<ready, running, count, mode>> /\ UNCHANGED <<stack, sm_thr, chain>>
        /\ UNCHANGED cpu /\ Current' = Current
    BY <1>4 DEF vars, Current
  <2>2. /\ FramesInv' /\ CorrectInv' /\ CallsInv'
        /\ \A s, i : Innermost(s, i)' <=> Innermost(s, i)
        /\ \A i : Depth(i)' = Depth(i)
    BY <2>1, QuietChain
  <2>3. OutsideInv'
    BY <2>1, <2>2 DEF AllInv, ChainInv, OutsideInv
  <2>4. ReadyInv'
    BY <2>1 DEF AllInv, ChainInv, ReadyInv, StartsOrResumes, Innermost, Depth, Top
  <2>5. CallerInv' /\ ReturnInv' /\ StepInv'
    BY <2>1 DEF AllInv, ChainInv, CallerInv, ReturnInv, StepInv, Innermost, Depth, Top
  <2>. QED BY <2>2, <2>3, <2>4, <2>5 DEF ChainInv
<1>. QED BY <1>1, <1>2, <1>3, <1>4 DEF Next, spin

\* The frames of the modules and the calls of the threads fit together.
THEOREM FramesAndCalls ==
  ASSUME LeafFaults
  PROVE  Spec => []AllInv
<1>1. Init => AllInv
  BY TypeInit, OwnInit, ChainInit DEF AllInv
<1>2. AllInv /\ [Next]_vars => AllInv'
  BY TypeStep, OwnStep, ChainStep DEF AllInv, LeafFaults
<1>. QED BY <1>1, <1>2, PTL DEF Spec

\* Control flow integrity (sm_entry.s:30-38): a correct module executes only as the
\* innermost call of the current thread, whatever the faulty modules that the thread
\* called do, if these call no others.
THEOREM ControlFlowIntegrity ==
  ASSUME LeafFaults
  PROVE  Spec => []InnermostRuns
<1>1. AllInv => InnermostRuns
  <2>. SUFFICES ASSUME AllInv, cpu.at = "body"
                PROVE  /\ chain[Current] # <<>>
                       /\ chain[Current][Len(chain[Current])] = cpu.sm
    BY DEF InnermostRuns
  <2>1. Innermost(cpu.sm, Current)
    BY DEF AllInv, ChainInv, StepInv
  <2>2. Len(<<>>) = 0
    BY EmptySeq
  <2>. QED BY <2>1, <2>2 DEF Innermost, Depth
<1>. QED BY <1>1, FramesAndCalls, PTL

\* The stacks of the correct modules hold one return address for every call that a
\* thread is in, and no other (sm_entry.s:66-79, sm_exit.s:54-60).
THEOREM FramesAreCalls ==
  ASSUME LeafFaults
  PROVE  Spec => []FramesMatchCalls
<1>1. ASSUME AllInv, NEW s \in SM \ Faulty, NEW i \in ThreadId
      PROVE  Cardinality({k \in DOMAIN stack[s] :
                            stack[s][k].kind = "in" /\ stack[s][k].thr = i})
               = Cardinality({k \in DOMAIN chain[i] : chain[i][k] = s})
  <2>. DEFINE A == {k \in DOMAIN stack[s] :
                      stack[s][k].kind = "in" /\ stack[s][k].thr = i}
              B == {k \in DOMAIN chain[i] : chain[i][k] = s}
              g == [k \in A |-> stack[s][k].pos]
  <2>1. /\ DOMAIN stack[s] = 1 .. Len(stack[s]) /\ Len(stack[s]) \in Nat
        /\ DOMAIN chain[i] = 1 .. Depth(i) /\ Depth(i) \in Nat
    BY <1>1, LenProperties DEF AllInv, TypeInv, TypeOK, Depth
  <2>2. \A k \in 1 .. Len(stack[s]) : stack[s][k].thr = sm_thr[s]
    BY <1>1 DEF AllInv, OwnInv, Owned
  <2>3. \A p \in B : /\ sm_thr[s] = i
                     /\ \E k \in 1 .. Len(stack[s]) :
                          stack[s][k].kind = "in" /\ stack[s][k].pos = p
    <3>. SUFFICES ASSUME NEW p \in B
                  PROVE  /\ sm_thr[s] = i
                         /\ \E k \in 1 .. Len(stack[s]) :
                              stack[s][k].kind = "in" /\ stack[s][k].pos = p
      OBVIOUS
    <3>1. p \in 1 .. Depth(i) /\ chain[i][p] = s
      BY <2>1
    <3>2. CallHasFrame(i, p)
      BY <1>1, <3>1 DEF AllInv, ChainInv, CallsInv
    <3>. QED BY <3>1, <3>2 DEF CallHasFrame
  <2>4. CASE sm_thr[s] # i
    <3>1. A = {} /\ B = {}
      BY <2>1, <2>2, <2>3, <2>4
    <3>. QED BY <3>1
  <2>5. CASE sm_thr[s] = i
    <3>1. \A k \in A : /\ FrameOfThread(s, k) /\ k \in 1 .. Len(stack[s])
                       /\ stack[s][k].pos \in B /\ stack[s][k].kind = "in"
      BY <1>1, <2>1, <2>5, SMTT(30) DEF AllInv, ChainInv, CorrectInv, FrameOfThread, Depth
    <3>2. \A j, k \in A : j < k => stack[s][j].pos < stack[s][k].pos
      <4>. SUFFICES ASSUME NEW j \in A, NEW k \in A, j < k
                    PROVE  stack[s][j].pos < stack[s][k].pos
        OBVIOUS
      <4>1. j \in 1 .. k - 1
        BY <2>1, <3>1
      <4>. QED BY <3>1, <4>1 DEF FrameOfThread
    <3>3. \A j, k \in A : stack[s][j].pos = stack[s][k].pos => j = k
      <4>. SUFFICES ASSUME NEW j \in A, NEW k \in A, j # k
                    PROVE  stack[s][j].pos # stack[s][k].pos
        OBVIOUS
      <4>1. j \in Nat /\ k \in Nat /\ stack[s][j].pos \in Nat /\ stack[s][k].pos \in Nat
        BY <2>1, <3>1
      <4>2. j < k \/ k < j
        BY <4>1
      <4>. QED BY <3>2, <4>1, <4>2
    <3>4. g \in [A -> B] /\ \A k \in A : g[k] = stack[s][k].pos
      BY <3>1
    <3>5. IsInjective(g)
      BY <3>3, <3>4 DEF IsInjective
    <3>6. \A p \in B : \E k \in A : g[k] = p
      BY <2>1, <2>2, <2>3, <2>5, <3>4
    <3>7. ExistsBijection(A, B)
      BY <3>4, <3>5, <3>6 DEF ExistsBijection, Bijection, Injection, Surjection
    <3>8. IsFiniteSet(A)
      <4>1. IsFiniteSet(1 .. Len(stack[s]))
        BY <2>1, FS_Interval
      <4>2. A \in SUBSET (1 .. Len(stack[s]))
        BY <2>1
      <4>. HIDE DEF A
      <4>. QED BY <4>1, <4>2, FS_Subset
    <3>. QED BY <3>7, <3>8, FS_Bijection
  <2>. QED BY <2>4, <2>5
<1>2. AllInv => FramesMatchCalls
  BY <1>1 DEF FramesMatchCalls
<1>. QED BY <1>2, FramesAndCalls, PTL

-----------------------------------------------------------------------------
(* Without faulty modules the violations do not happen, and every thread    *)
(* leaves all modules before it finishes.                                   *)

\* Threads that finished are in no call.
EndedInv == \A i \in ended : Depth(i) = 0

\* A return finds its caller waiting for it, so nothing is rejected; the scheduler is
\* returned to by the outermost module only.
SafeCpu ==
  /\ cpu.at = "entry" => cpu.r6 \in {"call", RETURN}
  /\ cpu.at = "entry" /\ cpu.r6 = RETURN /\ cpu.from # Scheduler =>
       /\ Len(stack[cpu.sm]) > 0 /\ Top(cpu.sm).kind = "call"
       /\ Top(cpu.sm).peer = cpu.from /\ sm_thr[cpu.sm] = Current
  /\ cpu.at = "sched" => cpu.r6 # "report" /\ (cpu.r6 = RETURN => Depth(Current) = 0)

SafeInv == EndedInv /\ SafeCpu

\* The caller of the module s that returns waits for s.
LEMMA CallerWaits ==
  ASSUME AllInv, CorrectInv', CallsInv', TypeInv', NEW s \in SM \ Faulty, NEW t \in SM \ Faulty,
         Innermost(s, Current), Top(s).kind = "in", Top(s).peer = t, sm_thr[s] = Current,
         Popped(s), Left, UNCHANGED <<sm_thr, running>>
  PROVE  /\ Len(stack'[t]) > 0 /\ Top(t)'.kind = "call" /\ Top(t)'.peer = s
         /\ sm_thr'[t] = Current'
<1>. DEFINE n == Depth(Current)
            l == Len(stack[s])
<1>. PICK m : m = Len(stack'[t])
  OBVIOUS
<1>1. /\ TypeInv /\ Current \in ThreadId /\ n \in Nat /\ n > 0 /\ chain[Current][n] = s
      /\ Current' = Current /\ l \in Nat /\ l > 0 /\ l \in 1 .. l /\ Top(s).pos = n
      /\ Len(stack[t]) \in Nat
  BY Sizes DEF AllInv, Innermost, Current
<1>2. FrameOfThread(s, l) /\ FrameShape(s, l)
  BY <1>1, CorrectFrames DEF AllInv, TypeInv, ShapeInv
<1>3. n > 1 /\ chain[Current][n - 1] = t
  BY <1>1, <1>2 DEF FrameOfThread, Top
<1>4. /\ Len(chain'[Current]) = n - 1
      /\ \A p \in 1 .. n - 1 : chain'[Current][p] = chain[Current][p]
  BY DEF Left
<1>5. m \in Nat
  <2>1. stack' \in [SM -> Seq(Frame)]
    BY DEF TypeInv, TypeOK
  <2>. QED BY <2>1, Lists
<1>6. /\ sm_thr'[t] = Current
      /\ \E k \in 1 .. m : stack'[t][k].kind = "in" /\ stack'[t][k].pos = n - 1
  <2>1. \A i \in ThreadId : \A p \in 1 .. Len(chain'[i]) : CallHasFrame(i, p)'
    BY DEF CallsInv, Depth
  <2>2. PICK p \in 1 .. Len(chain'[Current]) : p = n - 1
    BY <1>1, <1>3, <1>4
  <2>3. CallHasFrame(Current, p)'
    <3>1. \A r \in 1 .. Len(chain'[Current]) : CallHasFrame(Current, r)'
      BY <1>1, <2>1
    <3>. QED BY <2>2, <3>1
  <2>4. chain'[Current][p] = t
    BY <1>1, <1>3, <1>4, <2>2
  <2>. QED BY <1>1, <2>2, <2>3, <2>4 DEF CallHasFrame
<1>7. m > 0 /\ m \in 1 .. m /\ sm_thr[t] = Current
  BY <1>5, <1>6
<1>8. FrameOfThread(t, m)'
  <2>1. \A k \in 1 .. Len(stack'[t]) : FrameOfThread(t, k)'
    BY DEF CorrectInv
  <2>. QED BY <1>7, <2>1
<1>9. stack'[t][m].pos = n - 1
  <2>1. /\ stack'[t][m].pos \in 1 .. n - 1
        /\ \A j \in 1 .. m - 1 : stack'[t][j].pos <= stack'[t][m].pos
    BY <1>4, <1>6, <1>8 DEF FrameOfThread
  <2>2. PICK k \in 1 .. m : stack'[t][k].pos = n - 1
    BY <1>6
  <2>3. k = m \/ k \in 1 .. m - 1
    BY <1>5
  <2>4. PICK q : q = stack'[t][m].pos
    OBVIOUS
  <2>5. q \in 1 .. n - 1 /\ (q = n - 1 \/ n - 1 <= q)
    BY <2>1, <2>2, <2>3, <2>4
  <2>6. q = n - 1
    BY <1>1, <2>5
  <2>. QED BY <2>4, <2>6
\* It is the last frame of t, or under the one that is popped.
<1>10. m \in 1 .. Len(stack[t]) /\ stack'[t][m] = stack[t][m]
  <2>1. CASE t = s
    BY <1>1, <1>7, <2>1 DEF Popped
  <2>2. CASE t # s
    BY <1>7, <2>2 DEF Popped
  <2>. QED BY <2>1, <2>2
<1>11. stack[t][m].kind = "call"
  <2>1. CASE t = s
    <3>1. m = l - 1 /\ l > 1
      BY <1>1, <1>7, <2>1 DEF Popped
    <3>. QED BY <1>2, <2>1, <3>1 DEF FrameOfThread, Top
  <2>2. CASE t # s
    <3>1. m = Len(stack[t]) /\ Top(t) = stack[t][m]
      BY <2>2 DEF Popped, Top
    <3>2. TopWaits(t)
      BY <1>10, CorrectFrames
    <3>. QED BY <1>1, <1>7, <1>9, <1>10, <3>1, <3>2 DEF TopWaits
  <2>. QED BY <2>1, <2>2
<1>12. stack[t][m].peer = s
  <2>1. FrameOfThread(t, m)
    BY <1>10, CorrectFrames
  <2>2. stack[t][m].pos = n - 1 /\ n - 1 < Len(chain[Current])
    BY <1>1, <1>9, <1>10 DEF Depth
  <2>3. chain[Current][n - 1 + 1] = stack[t][m].peer
    BY <1>7, <1>11, <2>1, <2>2 DEF FrameOfThread
  <2>. QED BY <1>1, <2>3
<1>. QED BY <1>1, <1>6, <1>7, <1>10, <1>11, <1>12 DEF Top

\* The steps of module code: nobody jumps.
LEMMA SafeModule ==
  ASSUME AllInv, SafeInv, AllInv', Faulty = {}, ModuleStep
  PROVE  SafeInv'
<1>1. ASSUME NEW s \in SM, NEW t \in SM, CallOut(s, t)
      PROVE  SafeInv'
  <2>1. cpu'.at = "entry" /\ cpu'.r6 = "call" /\ UNCHANGED chain /\ UNCHANGED schedVars
    BY <1>1 DEF CallOut, Enter
  <2>. QED BY <2>1 DEF SafeInv, EndedInv, SafeCpu, Depth, schedVars, RETURN
<1>2. ASSUME NEW s \in SM, YieldOut(s)
      PROVE  SafeInv'
  <2>1. cpu'.at = "sched" /\ cpu'.r6 = "yield" /\ UNCHANGED chain /\ UNCHANGED schedVars
    BY <1>2 DEF YieldOut, ToSched
  <2>. QED BY <2>1 DEF SafeInv, EndedInv, SafeCpu, Depth, schedVars, RETURN
<1>3. ASSUME NEW s \in SM, ReturnFrom(s)
      PROVE  SafeInv'
  <2>1. /\ Innermost(s, Current) /\ sm_thr[s] = Current
        /\ Len(stack[s]) > 0 /\ Top(s).kind = "in" /\ Top(s) \in Frame
        /\ Len(stack[s]) \in 1 .. Len(stack[s]) /\ Depth(Current) \in Nat
    BY <1>3, BodyInner DEF ReturnFrom
  <2>2. /\ UNCHANGED schedVars /\ UNCHANGED <<sm_thr, running>>
        /\ Current' = Current /\ cpu' = ReturnTo(Top(s).peer, s, FALSE)
    BY <1>3 DEF ReturnFrom, schedVars, Current
  <2>3. Popped(s)
    BY <1>3, <2>1, PopPops DEF ReturnFrom, AllInv
  <2>4. Left
    BY <1>3, <2>1, LeaveLeaves DEF ReturnFrom, AllInv, Innermost
  <2>5. EndedInv'
    <3>1. ended' = ended /\ \A i \in ended : i \in ThreadId /\ i # Current
      BY <2>2 DEF AllInv, TypeInv, TypeOK, FifoInv, schedVars
    <3>2. \A i \in ended : chain'[i] = chain[i]
      BY <2>4, <3>1 DEF Left
    <3>. QED BY <3>1, <3>2 DEF SafeInv, EndedInv, Depth
  <2>6. CASE Top(s).peer = Scheduler
    <3>1. cpu'.at = "sched" /\ cpu'.r6 = RETURN
      BY <2>2, <2>6, DomainAssumption DEF ReturnTo, ToSched
    <3>2. FrameInCall(s, Len(stack[s])) /\ Top(s).pos = Depth(Current)
      BY <2>1 DEF AllInv, ChainInv, FramesInv, Innermost
    <3>3. Depth(Current) = 1
      BY <2>1, <2>6, <3>2, DomainAssumption DEF FrameInCall, Top
    <3>4. Depth(Current)' = 0
      BY <2>2, <2>4, <3>3 DEF Left, Depth
    <3>. QED BY <2>5, <3>1, <3>4 DEF SafeInv, SafeCpu, RETURN
  <2>7. CASE Top(s).peer = Main
    <3>1. cpu'.at = "main"
      BY <2>2, <2>7, DomainAssumption DEF ReturnTo, InMain
    <3>. QED BY <2>5, <3>1 DEF SafeInv, SafeCpu
  <2>8. CASE Top(s).peer \in SM
    <3>1. PICK t \in SM : t = Top(s).peer
      BY <2>8
    <3>2. cpu' = Enter(t, s, RETURN, FALSE)
      BY <2>2, <3>1, DomainAssumption DEF ReturnTo
    <3>3. cpu'.at = "entry" /\ cpu'.sm = t /\ cpu'.r6 = RETURN /\ cpu'.from = s
      BY <3>2 DEF Enter
    <3>4. /\ Len(stack'[t]) > 0 /\ Top(t)'.kind = "call" /\ Top(t)'.peer = s
          /\ sm_thr'[t] = Current'
      BY <2>1, <2>2, <2>3, <2>4, <3>1, CallerWaits DEF AllInv, ChainInv
    <3>5. Top(cpu.sm)' = Top(t)'
      BY <3>3 DEF Top
    <3>. QED BY <2>5, <3>3, <3>4, <3>5 DEF SafeInv, SafeCpu
  <2>. QED BY <2>1, <2>6, <2>7, <2>8 DEF Frame, Domain
<1>. QED BY <1>1, <1>2, <1>3 DEF ModuleStep, Jump

\* Nothing is rejected.
LEMMA NotRejected ==
  ASSUME AllInv, SafeInv, NEW t \in SM, cpu.at = "entry", cpu.sm = t
  PROVE  ~ Rejected(t)
<1>1. cpu.r6 \in {"call", RETURN}
  BY DEF SafeInv, SafeCpu
<1>2. CASE cpu.r6 = "call"
  BY <1>2 DEF Rejected, RETURN
<1>3. CASE cpu.r6 = RETURN
  <2>1. /\ Len(stack[t]) > 0 /\ Top(t).kind \in {"call", "yield", "retry"}
        /\ Top(t).peer = cpu.from /\ sm_thr[t] = Current
    <3>1. CASE cpu.from = Scheduler
      <4>1. Suspended(t, Current)
        BY <1>3, <3>1 DEF AllInv, OwnInv, OwnCpu, RETURN
      <4>. QED BY <3>1, <4>1, UnderTop DEF Suspended, AllInv
    <3>2. CASE cpu.from # Scheduler
      BY <1>3, <3>2 DEF SafeInv, SafeCpu
    <3>. QED BY <3>1, <3>2
  <2>2. stack[t] # <<>>
    BY <2>1, Sizes DEF AllInv
  <2>. QED BY <1>3, <2>1, <2>2 DEF Rejected, Callee, RETURN
<1>. QED BY <1>1, <1>2, <1>3

\* The steps of a module's entry stub.
LEMMA SafeEntry ==
  ASSUME AllInv, SafeInv, AllInv', NEW t \in SM,
         \/ EntryViolation(t) \/ EntryCall(t) \/ EntryBusy(t) \/ EntryReturn(t)
         \/ EntryCalleeBusy(t) \/ EntryResume(t) \/ EntryRetry(t)
  PROVE  SafeInv'
<1>1. /\ UNCHANGED schedVars /\ Current' = Current /\ ended' = ended
      /\ \A i \in ended : i \in ThreadId /\ i # Current
  BY DEF EntryViolation, EntryCall, EntryBusy, EntryReturn, EntryCalleeBusy, EntryResume,
         EntryRetry, schedVars, Current, AllInv, TypeInv, TypeOK, FifoInv
<1>2. CASE EntryViolation(t)
  BY <1>2, NotRejected DEF EntryViolation
<1>3. CASE EntryCall(t)
  <2>1. Entered(t) /\ cpu'.at = "body"
    BY <1>3, CallEnters DEF EntryCall, AllInv, Body
  <2>2. \A i \in ended : chain'[i] = chain[i]
    BY <1>1, <2>1 DEF Entered
  <2>. QED BY <1>1, <2>1, <2>2 DEF SafeInv, EndedInv, SafeCpu, Depth
<1>4. CASE EntryBusy(t)
  <2>1. /\ UNCHANGED <<stack, sm_thr, chain>> /\ cpu' = ReturnTo(cpu.from, t, TRUE)
        /\ cpu.at = "entry" /\ cpu.sm = t /\ cpu.r6 = "call" /\ cpu.from \in Domain
    BY <1>4 DEF EntryBusy, Called, AllInv, TypeInv, TypeOK, Cpu
  <2>2. EndedInv'
    BY <1>1, <2>1 DEF SafeInv, EndedInv, Depth
  <2>3. CASE cpu.from = Scheduler
    <3>1. cpu'.at = "sched" /\ cpu'.r6 = RETURN
      BY <2>1, <2>3, DomainAssumption DEF ReturnTo, ToSched
    <3>2. Depth(Current) = 0
      BY <2>1, <2>3, DomainAssumption DEF AllInv, ChainInv, CallerInv
    <3>3. Depth(Current)' = 0
      BY <1>1, <2>1, <3>2 DEF Depth
    <3>. QED BY <2>2, <3>1, <3>3 DEF SafeInv, SafeCpu, RETURN
  <2>4. CASE cpu.from = Main
    <3>1. cpu'.at = "main"
      BY <2>1, <2>4, DomainAssumption DEF ReturnTo, InMain
    <3>. QED BY <2>2, <3>1 DEF SafeInv, SafeCpu
  <2>5. CASE cpu.from \in SM
    <3>1. PICK s \in SM : s = cpu.from
      BY <2>5
    <3>2. cpu' = Enter(s, t, RETURN, TRUE)
      BY <2>1, <3>1, DomainAssumption DEF ReturnTo
    <3>3. cpu'.at = "entry" /\ cpu'.sm = s /\ cpu'.r6 = RETURN /\ cpu'.from = t
      BY <3>2 DEF Enter
    <3>4. /\ Len(stack[s]) > 0 /\ Top(s).kind = "call" /\ Top(s).peer = t
          /\ sm_thr[s] = Current
      BY <2>1, <3>1 DEF AllInv, ChainInv, CallerInv, Innermost
    <3>5. Top(cpu.sm)' = Top(s)
      BY <2>1, <3>3 DEF Top
    <3>. QED BY <1>1, <2>1, <2>2, <3>3, <3>4, <3>5 DEF SafeInv, SafeCpu
  <2>. QED BY <2>1, <2>3, <2>4, <2>5 DEF Domain
<1>5. CASE EntryReturn(t) \/ EntryResume(t)
  <2>1. UNCHANGED chain /\ cpu'.at = "body"
    BY <1>5 DEF EntryReturn, EntryResume, Body
  <2>. QED BY <1>1, <2>1 DEF SafeInv, EndedInv, SafeCpu, Depth
<1>6. CASE EntryCalleeBusy(t)
  <2>1. UNCHANGED chain /\ cpu'.at = "sched" /\ cpu'.r6 = "yield"
    BY <1>6 DEF EntryCalleeBusy, ToSched
  <2>. QED BY <1>1, <2>1 DEF SafeInv, EndedInv, SafeCpu, Depth, RETURN
<1>7. CASE EntryRetry(t)
  <2>1. UNCHANGED chain /\ cpu'.at = "entry" /\ cpu'.r6 = "call"
    BY <1>7 DEF EntryRetry, Enter
  <2>. QED BY <1>1, <2>1 DEF SafeInv, EndedInv, SafeCpu, Depth, RETURN
<1>. QED BY <1>2, <1>3, <1>4, <1>5, <1>6, <1>7

\* The steps of the scheduler's entry stub: a thread is done when it has returned from
\* its portal.
LEMMA SafeSched ==
  ASSUME AllInv, SafeInv, AllInv',
         \/ SchedYield \/ SchedYieldIdle \/ SchedBusy \/ SchedFinish \/ SchedKill
         \/ SchedExit
  PROVE  SafeInv'
<1>1. UNCHANGED <<stack, sm_thr, chain>> /\ cpu.at = "sched" /\ cpu.r6 # "report"
  BY DEF SchedYield, SchedYieldIdle, SchedBusy, SchedFinish, SchedKill, SchedExit, AtSched,
         SafeInv, SafeCpu
<1>2. ~ SchedKill
  BY <1>1 DEF SchedKill, AtSched
<1>3. ended' = ended \/ (SchedFinish /\ ended' = ended \cup {Current})
  BY <1>2 DEF SchedYield, SchedYieldIdle, SchedBusy, SchedFinish, SchedExit, schedVars,
              Sched!Yield, Sched!Busy, Sched!Rotate, Sched!Done, Sched!Stop, Current
<1>4. SchedFinish => Depth(Current) = 0
  BY DEF SchedFinish, AtSched, SafeInv, SafeCpu
<1>5. EndedInv'
  BY <1>1, <1>3, <1>4 DEF SafeInv, EndedInv, Depth
<1>6. ASSUME Dispatch, mode' = "run"
      PROVE  SafeCpu'
  <2>1. running' \in Waiting
    BY <1>6 DEF AllInv, TypeInv, FifoInv
  <2>2. /\ cpu'.at = "entry" /\ cpu'.from = Scheduler
        /\ cpu'.r6 \in {"call", RETURN}
    BY <1>6, <2>1 DEF Dispatch, Enter, Waiting
  <2>. QED BY <2>2 DEF SafeCpu
<1>7. CASE SchedYield \/ SchedBusy
  <2>1. Dispatch /\ mode' = "run"
    BY <1>7 DEF SchedYield, SchedBusy, Sched!Yield, Sched!Busy, Sched!Rotate
  <2>. QED BY <1>5, <1>6, <2>1 DEF SafeInv
<1>8. CASE SchedFinish
  <2>1. (Dispatch /\ mode' = "run") \/ cpu'.at = "main"
    BY <1>8 DEF SchedFinish, DispatchOrFinal, Sched!Done, InMain
  <2>. QED BY <1>5, <1>6, <2>1 DEF SafeInv, SafeCpu
<1>9. CASE SchedYieldIdle \/ SchedExit
  <2>1. \/ cpu'.at = "entry" /\ cpu'.r6 = RETURN /\ cpu'.from = Scheduler
        \/ cpu'.at = "exit"
    <3>1. CASE SchedYieldIdle
      BY <3>1 DEF SchedYieldIdle, Enter
    <3>2. CASE SchedExit
      BY <3>2 DEF SchedExit, Exit, InMain
    <3>. QED BY <1>9, <3>1, <3>2
  <2>. QED BY <1>5, <2>1 DEF SafeInv, SafeCpu
<1>. QED BY <1>2, <1>7, <1>8, <1>9

\* Every step.
LEMMA SafeStep ==
  ASSUME AllInv, SafeInv, AllInv', Faulty = {}, [Next]_vars
  PROVE  SafeInv'
<1>1. CASE \/ \E p \in Portal : MainRegister(p)
           \/ MainResume \/ MainExit
           \/ \E t \in SM : MainCall(t)
  <2>1. /\ UNCHANGED <<stack, sm_thr, chain>> /\ ended' = ended
        /\ \/ cpu'.at \in {"main", "exit"}
           \/ cpu'.at = "entry" /\ cpu'.r6 = "call"
    <3>1. ASSUME NEW p \in Portal, MainRegister(p)
          PROVE  /\ UNCHANGED <<stack, sm_thr, chain>> /\ ended' = ended
                 /\ cpu'.at = "main"
      BY <3>1 DEF MainRegister, Sched!Register, InMain
    <3>2. CASE MainResume \/ MainExit
      BY <3>2 DEF MainResume, MainExit, Sched!Return, InMain, Exit, schedVars
    <3>3. ASSUME NEW t \in SM, MainCall(t)
          PROVE  /\ UNCHANGED <<stack, sm_thr, chain>> /\ ended' = ended
                 /\ cpu'.at = "entry" /\ cpu'.r6 = "call"
      BY <3>3 DEF MainCall, Enter, schedVars
    <3>. QED BY <1>1, <3>1, <3>2, <3>3
  <2>. QED BY <2>1 DEF SafeInv, EndedInv, SafeCpu, Depth, RETURN
<1>2. CASE MainStart
  <2>1. /\ UNCHANGED <<stack, sm_thr, chain>> /\ ended' = ended /\ mode' = "run" /\ Dispatch
    BY <1>2 DEF MainStart, Sched!Start
  <2>2. running' \in Waiting
    BY <2>1 DEF AllInv, TypeInv, FifoInv
  <2>3. cpu'.at = "entry" /\ cpu'.from = Scheduler /\ cpu'.r6 \in {"call", RETURN}
    BY <2>1, <2>2 DEF Dispatch, Enter, Waiting
  <2>. QED BY <2>1, <2>3 DEF SafeInv, EndedInv, SafeCpu, Depth
<1>3. CASE ModuleStep
  BY <1>3, SafeModule
<1>4. CASE StubStep
  BY <1>4, SafeEntry, SafeSched DEF StubStep
<1>5. CASE UNCHANGED vars
  BY <1>5 DEF vars, SafeInv, EndedInv, SafeCpu, Depth, Top, Current
<1>. QED BY <1>1, <1>2, <1>3, <1>4, <1>5 DEF Next, spin

\* Without faulty modules, a thread that finished has left every module, whatever the
\* modules call and however often they were busy: no module is taken for ever.
THEOREM FinishedThreadsLeave ==
  ASSUME Faulty = {}
  PROVE  Spec => []FinishedLeavesNothing
<1>1. LeafFaults
  BY DEF LeafFaults, NoFalseBusy
<1>2. Init => SafeInv
  BY DEF Init, Sched!Init, InMain, SafeInv, EndedInv, SafeCpu
<1>3. AllInv /\ SafeInv /\ AllInv' /\ [Next]_vars => SafeInv'
  BY SafeStep
<1>4. AllInv /\ SafeInv => FinishedLeavesNothing
  <2>. SUFFICES ASSUME AllInv, SafeInv
                PROVE  FinishedLeavesNothing
    OBVIOUS
  <2>1. \A i \in ended : Depth(i) = 0 /\ chain[i] \in Seq(SM)
    BY DEF SafeInv, EndedInv, AllInv, TypeInv, TypeOK
  <2>2. \A i \in ended : chain[i] = <<>>
    BY <2>1, Lists DEF Depth
  <2>3. ASSUME NEW s \in SM, stack[s] # <<>>
        PROVE  sm_thr[s] \notin ended
    <3>1. 1 \in 1 .. Len(stack[s])
      BY <2>3, Sizes DEF AllInv
    <3>2. /\ stack[s][1].pos > 0 /\ stack[s][1].pos <= Depth(sm_thr[s])
          /\ stack[s][1].pos \in Nat
      BY <3>1, CorrectFrames
    <3>. QED BY <2>1, <3>2
  <2>. QED BY <2>2, <2>3 DEF FinishedLeavesNothing
<1>. QED BY <1>1, <1>2, <1>3, <1>4, FramesAndCalls, PTL DEF Spec
=============================================================================
