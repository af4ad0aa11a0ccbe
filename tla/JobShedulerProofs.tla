-------------------------- MODULE JobShedulerProofs --------------------------
(***************************************************************************)
(* The safety of JobSheduler for any number of workers, tasks, parallel_for *)
(* calls and indices: the counters agree with the threads, and so           *)
(* wait_till_done returns only when everything is done and fn is never      *)
(* called after the frame that holds it.                                    *)
(***************************************************************************)
EXTENDS JobSheduler, FiniteSetTheorems, TLAPS

\* The number of threads is finite, so every set of threads has a cardinality.
LEMMA ThreadsFinite == IsFiniteSet(Threads)
  BY WorkersAssumption, FS_AddElement DEF Threads

\* A subset of the threads: its size, and what adding or removing one thread does.
LEMMA CountThreads ==
  ASSUME NEW S \in SUBSET Threads, NEW t \in Threads
  PROVE  /\ Cardinality(S) \in Nat
         /\ t \in S => Cardinality(S) > 0
         /\ t \notin S => Cardinality(S \cup {t}) = Cardinality(S) + 1
         /\ t \in S => Cardinality(S \ {t}) = Cardinality(S) - 1
<1>1. IsFiniteSet(S)
  BY ThreadsFinite, FS_Subset
<1>2. Cardinality(S) \in Nat
  BY <1>1, FS_CardinalityType
<1>3. t \in S => Cardinality(S) > 0
  BY <1>1, <1>2, FS_EmptySet
<1> QED
  BY <1>1, <1>2, <1>3, FS_AddElement, FS_RemoveElement

\* The initial state satisfies the inductive invariant.
THEOREM InitInv == Init => IInv
<1> SUFFICES ASSUME Init PROVE IInv
  OBVIOUS
<1> USE NoJobAssumption, WorkersAssumption, MaxNAssumption DEF Init
<1>1. TypeOK
  <2>1. pc \in [Threads -> PushPc \cup RunPc \cup ParPc \cup MainPc \cup WorkerPc]
    BY DEF Threads, MainPc, WorkerPc
  <2>2. \A t \in Threads : pc[t] \in Pc(t)
    BY DEF Threads, Pc, MainPc, WorkerPc
  <2>3. calls \in [Calls -> State]
    <3>1. Idle \in State
      BY DEF Idle, State
    <3> QED
      BY <3>1
  <2>4. jobs \in Seq(Job)
    OBVIOUS
  <2> QED
    BY <2>1, <2>2, <2>3, <2>4 DEF TypeOK, DataOK, PcOK
<1>2. Running = {} /\ Counted = {} /\ Sleeping = {} /\ \A c \in Calls : InFlight(c) = {}
  BY DEF Running, Counted, Sleeping, InFlight, InSleep, Threads
<1>3. Accounting /\ sleepers = Cardinality(Sleeping)
  BY <1>2, FS_EmptySet DEF Accounting
<1>4. CtlInv
  <2> SUFFICES ASSUME NEW t \in Threads
      PROVE  pc[t] \in {"user", "loop"} /\ cur[t] = NoJob /\ par[t] = NoJob
             /\ pushing[t] = NoJob
    BY DEF CtlInv, CtlAt, PushPc, ParPc
  <2> QED
    OBVIOUS
<1>5. FreeInv
  <2> SUFFICES ASSUME NEW c \in Calls
      PROVE  /\ calls[c] = Idle
             /\ \A t \in Threads : par[t] # c /\ pushing[t] # Helper(c)
             /\ \A i \in DOMAIN jobs : jobs[i] # Helper(c)
    BY DEF FreeInv, FreeAt
  <2>1. NoJob # Helper(c) /\ NoJob # c
    BY DEF Job
  <2> QED
    BY <2>1
<1>6. ClaimInv
  <2>1. Cardinality({}) = 0
    BY FS_EmptySet
  <2>2. \A c \in Calls : calls[c].done = 0 /\ calls[c].next = 0 /\ calls[c].n = 0
    BY DEF Idle
  <2>3. \A c \in Calls : Cardinality(InFlight(c)) = 0
    BY <1>2, <2>1
  <2> QED
    BY <2>2, <2>3 DEF ClaimInv, ClaimAt, Smaller, Free
<1>7. EndInv /\ TaskInv
  BY DEF EndInv, TaskInv, Stopping, Threads
<1> QED
  BY <1>1, <1>3, <1>4, <1>5, <1>6, <1>7 DEF IInv

\* Counting one occurrence more in a function into the naturals.
LEMMA AddOne ==
  ASSUME NEW D, NEW f \in [D -> Nat], NEW i
  PROVE  [f EXCEPT ![i] = f[i] + 1] \in [D -> Nat]
<1>1. \A k \in D : [f EXCEPT ![i] = f[i] + 1][k] \in Nat
  OBVIOUS
<1> QED
  BY <1>1

\* The updates parallel_for makes keep a State block well formed.
LEMMA StateUpdates ==
  ASSUME NEW s \in State
  PROVE  /\ s.n \in 0..MaxN /\ s.next \in Nat /\ s.done \in Nat
         /\ [s EXCEPT !.next = s.next + 1] \in State
         /\ [s EXCEPT !.done = s.done + 1] \in State
         /\ [s EXCEPT !.alive = FALSE] \in State
         /\ \A i : [s EXCEPT !.ran[i] = s.ran[i] + 1] \in State
<1>1. s.n \in 0..MaxN /\ s.next \in Nat /\ s.done \in Nat
  BY DEF State
<1>2.  [s EXCEPT !.next = s.next + 1] \in State
  BY <1>1 DEF State
<1>3.  [s EXCEPT !.done = s.done + 1] \in State
  BY <1>1 DEF State
<1>4.  [s EXCEPT !.alive = FALSE] \in State
  BY <1>1 DEF State
<1>5. ASSUME NEW i PROVE [s EXCEPT !.ran[i] = s.ran[i] + 1] \in State
  <2>0. s.ran \in [0..(MaxN - 1) -> Nat]
    BY DEF State
  <2>1. [s.ran EXCEPT ![i] = s.ran[i] + 1] \in [0..(MaxN - 1) -> Nat]
    BY <2>0, AddOne
  <2> QED
    BY <2>1 DEF State
<1> QED
  BY <1>1, <1>2, <1>3, <1>4, <1>5

\* The operations of the work lambda and of the waiting caller on their block.
LEMMA CallsOK ==
  ASSUME DataOK, NEW t \in Threads, par[t] \in Calls,
         Claim(t) \/ CallFn(t) \/ CountDone(t) \/ ParLoad(t)
  PROVE  calls' \in [Calls -> State]
<1> USE DEF DataOK
<1>1. CASE Claim(t)
  BY <1>1, StateUpdates DEF Claim
<1>2. CASE CallFn(t)
  BY <1>2, StateUpdates, Zenon DEF CallFn
<1>3. CASE CountDone(t)
  BY <1>3, StateUpdates DEF CountDone
<1>4. CASE ParLoad(t)
  <2> DEFINE s == calls[par[t]]
  <2>1. calls' = [calls EXCEPT ![par[t]] = [s EXCEPT !.alive = FALSE]] \/ calls' = calls
    BY <1>4 DEF ParLoad
  <2>2. [s EXCEPT !.alive = FALSE] \in State
    BY StateUpdates
  <2> QED
    BY <2>1, <2>2
<1> QED
  BY <1>1, <1>2, <1>3, <1>4

\* What CtlInv says of one thread.
LEMMA CtlOf ==
  ASSUME CtlInv, NEW t \in Threads
  PROVE  /\ pc[t] \in {"notify", "finish"} => cur[t] \in Job /\ t \in Running
         /\ pc[t] \in ParPc => par[t] \in Calls
  BY NoJobAssumption DEF CtlInv, CtlAt, Running

\* Where a thread goes that finds the queue empty, or has finished a job.
LEMMA Targets ==
  ASSUME NEW t \in Threads
  PROVE  OnEmpty(t) \in Pc(t) /\ AfterJob(t) \in Pc(t)
<1>1. CASE t # Main
  <2>1. OnEmpty(t) = "spin" /\ AfterJob(t) = "loop"
    BY <1>1 DEF OnEmpty, AfterJob
  <2> QED
    BY <1>1, <2>1 DEF Pc, WorkerPc
<1>2. CASE t = Main /\ waitFor = NoJob
  BY <1>2 DEF OnEmpty, AfterJob, Pc, MainPc, RunPc
<1>3. CASE t = Main /\ waitFor # NoJob
  BY <1>3 DEF OnEmpty, AfterJob, Pc, MainPc
<1> QED
  BY <1>1, <1>2, <1>3

\* A thread that goes to a place of its role keeps the program counters typed.
LEMMA MoveOK ==
  ASSUME PcOK, NEW t \in Threads, NEW l \in Pc(t), Goto(t, l)
  PROVE  PcOK'
<1>1. l \in PushPc \cup RunPc \cup ParPc \cup MainPc \cup WorkerPc
  BY DEF Pc
<1> QED
  BY <1>1 DEF PcOK, Goto, Pc

LEMMA TypePush ==
  ASSUME IInv, NEW t \in Threads, PushStep(t)
  PROVE  TypeOK'
<1> USE DEF IInv, TypeOK, DataOK
<1>1. CASE PushPending(t)
  <2>1. \E l \in Pc(t) : Goto(t, l)
    BY <1>1 DEF PushPending, Pc, PushPc, RunPc, ParPc, MainPc, WorkerPc
  <2>2. DataOK'
    BY <1>1 DEF PushPending, shared
  <2> QED
    BY <2>1, <2>2, MoveOK DEF TypeOK
<1>2. CASE PushQueue(t)
  <2>1. \E l \in Pc(t) : Goto(t, l)
    BY <1>2 DEF PushQueue, Pc, PushPc, RunPc, ParPc, MainPc, WorkerPc
  <2>2. DataOK'
    BY <1>2 DEF PushQueue, shared, CtlInv, CtlAt, PushPc
  <2> QED
    BY <2>1, <2>2, MoveOK DEF TypeOK
<1>3. CASE PushEpoch(t)
  <2>1. \E l \in Pc(t) : Goto(t, l)
    BY <1>3 DEF PushEpoch, Pc, PushPc, RunPc, ParPc, MainPc, WorkerPc
  <2>2. DataOK'
    BY <1>3 DEF PushEpoch, shared
  <2> QED
    BY <2>1, <2>2, MoveOK DEF TypeOK
<1>4. CASE PushSleepers(t)
  <2>1. \E l \in Pc(t) : Goto(t, l)
    BY <1>4 DEF PushSleepers, AfterPush, CtlInv, CtlAt, Pc, PushPc, RunPc, ParPc, MainPc, WorkerPc
  <2>2. DataOK'
    BY <1>4 DEF PushSleepers, shared
  <2> QED
    BY <2>1, <2>2, MoveOK DEF TypeOK
<1>5. CASE PushNotify(t)
  <2> DEFINE l == AfterPush(t)
  <2>1. l \in {"user", "helpers"} /\ l \in Pc(t)
    BY <1>5 DEF PushNotify, CtlInv, CtlAt, AfterPush, Pc, ParPc, MainPc, PushPc
  <2>2. DataOK'
    BY <1>5 DEF PushNotify, shared
  <2>3. CASE Goto(t, l)
    BY <2>1, <2>2, <2>3, MoveOK DEF TypeOK
  <2>4. CASE \E w \in Asleep : pc' = [pc EXCEPT ![t] = l, ![w] = "sleep_wait"]
    <3>1. PICK w \in Workers : pc' = [pc EXCEPT ![t] = l, ![w] = "sleep_wait"]
      BY <2>4 DEF Asleep
    <3>2. w \in Threads /\ "sleep_wait" \in Pc(w)
      BY WorkersAssumption DEF Threads, Pc, WorkerPc
    <3>3. l \in ParPc \cup MainPc /\ "sleep_wait" \in WorkerPc
      BY <2>1 DEF ParPc, MainPc, WorkerPc
    <3> QED
      BY <2>1, <2>2, <3>1, <3>2, <3>3 DEF TypeOK, PcOK, Pc
  <2> QED
    BY <1>5, <2>3, <2>4 DEF PushNotify
<1> QED
  BY <1>1, <1>2, <1>3, <1>4, <1>5 DEF PushStep

LEMMA TypeJob ==
  ASSUME IInv, NEW t \in Threads, JobStep(t)
  PROVE  TypeOK'
<1> USE DEF IInv, TypeOK, DataOK, shared
<1>1. CASE TryLoad(t)
  <2>1. \E l \in Pc(t) : Goto(t, l)
    BY <1>1, Targets DEF TryLoad, Pc, RunPc
  <2>2. DataOK'
    BY <1>1 DEF TryLoad, shared
  <2> QED
    BY <2>1, <2>2, MoveOK DEF TypeOK
<1>2. CASE TryPop(t)
  <2>1. CASE jobs = <<>>
    <3>1. \E l \in Pc(t) : Goto(t, l)
      BY <1>2, <2>1, Targets DEF TryPop
    <3> QED
      BY <1>2, <2>1, <3>1, MoveOK DEF TryPop
  <2>2. CASE jobs # <<>>
    <3> DEFINE job == jobs[Len(jobs)]
    <3>1. job \in Job /\ Len(jobs) > 0
      BY <2>2
    <3>2. job.kind = "helper" => job.id \in Calls
      BY <3>1 DEF Job, Task, Helper
    <3>3. SubSeq(jobs, 1, Len(jobs) - 1) \in Seq(Job) /\ queued - 1 \in Nat
      BY <3>1 DEF Accounting
    <3>4. \E l \in Pc(t) : Goto(t, l)
      BY <1>2, <2>2 DEF TryPop, Pc, ParPc, RunPc
    <3> QED
      BY <1>2, <2>2, <3>1, <3>2, <3>3, <3>4, MoveOK DEF TryPop
  <2> QED
    BY <2>1, <2>2
<1>3. CASE BodyReturns(t)
  <2>1. \E l \in Pc(t) : Goto(t, l)
    BY <1>3 DEF BodyReturns, Pc, PushPc, RunPc, ParPc, MainPc, WorkerPc
  <2>2. DataOK'
    BY <1>3 DEF BodyReturns, shared
  <2> QED
    BY <2>1, <2>2, MoveOK DEF TypeOK
<1>4. CASE JobNotify(t)
  <2>1. \E l \in Pc(t) : Goto(t, l)
    BY <1>4 DEF JobNotify, Pc, PushPc, RunPc, ParPc, MainPc, WorkerPc
  <2>2. DataOK'
    BY <1>4 DEF JobNotify, shared
  <2> QED
    BY <2>1, <2>2, MoveOK DEF TypeOK
<1>5. CASE JobFinish(t)
  <2>1. t \in Running /\ Running \in SUBSET Threads /\ Counted \in SUBSET Threads
    BY <1>5, CtlOf DEF JobFinish, Running, Counted
  <2>2. pending - 1 \in Nat
    <3>1. Cardinality(Running) \in Nat /\ Cardinality(Running) > 0
      BY <2>1, CountThreads
    <3>2. Cardinality(Counted) \in Nat
      BY <2>1, CountThreads
    <3> QED
      BY <3>1, <3>2 DEF Accounting
  <2>3. AfterJob(t) \in Pc(t) /\ AfterJob(t) \in RunPc \cup MainPc \cup WorkerPc
    BY Targets DEF AfterJob, RunPc, MainPc, WorkerPc
  <2>4. "till_wait" \in Pc(Main) /\ "till_wait" \in MainPc
    BY DEF Pc, MainPc
  <2>5. PcOK'
    BY <1>5, <2>3, <2>4 DEF JobFinish, PcOK, Pc
  <2>6. DataOK'
    BY <1>5, <2>2 DEF JobFinish
  <2> QED
    BY <2>5, <2>6
<1> QED
  BY <1>1, <1>2, <1>3, <1>4, <1>5 DEF JobStep

LEMMA TypeParallel ==
  ASSUME IInv, NEW t \in Threads, ParallelStep(t)
  PROVE  TypeOK'
<1> USE DEF IInv, TypeOK, DataOK
<1>1. CASE PushHelpers(t)
  <2>1. \E l \in Pc(t) : Goto(t, l)
    BY <1>1 DEF PushHelpers, Pc, PushPc, RunPc, ParPc, MainPc, WorkerPc
  <2>2. DataOK'
    <3>1. par[t] \in Calls /\ Helper(par[t]) \in Job
      BY <1>1, CtlOf DEF PushHelpers, ParPc, Job
    <3>2. left[t] # 0 => left[t] - 1 \in Nat
      OBVIOUS
    <3>3. left' \in [Threads -> Nat] /\ pushing' \in [Threads -> Job \cup {NoJob}]
      BY <1>1, <3>1, <3>2 DEF PushHelpers
    <3> QED
      BY <1>1, <3>3 DEF PushHelpers, shared
  <2> QED
    BY <2>1, <2>2, MoveOK DEF TypeOK
<1>2. CASE Claim(t)
  <2>1. \E l \in Pc(t) : Goto(t, l)
    BY <1>2 DEF Claim, Pc, PushPc, RunPc, ParPc, MainPc, WorkerPc
  <2>2. DataOK'
    <3>1. par[t] \in Calls
      BY <1>2, CtlOf DEF Claim, ParPc
    <3>2. calls[par[t]].next \in Nat
      BY <3>1, StateUpdates
    <3>3. calls' \in [Calls -> State]
      BY <1>2, <3>1, CallsOK
    <3> QED
      BY <1>2, <3>2, <3>3 DEF Claim, shared
  <2> QED
    BY <2>1, <2>2, MoveOK DEF TypeOK
<1>3. CASE CallFn(t)
  <2>1. \E l \in Pc(t) : Goto(t, l)
    BY <1>3 DEF CallFn, Pc, PushPc, RunPc, ParPc, MainPc, WorkerPc
  <2>2. DataOK'
    <3>1. calls' \in [Calls -> State]
      BY <1>3, CtlOf, CallsOK DEF CallFn, ParPc
    <3> QED
      BY <1>3, <3>1 DEF CallFn, shared
  <2> QED
    BY <2>1, <2>2, MoveOK DEF TypeOK
<1>4. CASE CountDone(t)
  <2>1. "claim" \in Pc(t) /\ "claim" \in ParPc
    BY DEF Pc, ParPc
  <2>2. \A u \in Threads : "par_wait" \in Pc(u) /\ "par_wait" \in ParPc
    BY DEF Pc, ParPc
  <2>3. PcOK'
    BY <1>4, <2>1, <2>2 DEF CountDone, PcOK
  <2>4. DataOK'
    <3>1. calls' \in [Calls -> State]
      BY <1>4, CtlOf, CallsOK DEF CountDone, ParPc
    <3> QED
      BY <1>4, <3>1 DEF CountDone, shared
  <2> QED
    BY <2>3, <2>4
<1>5. CASE ParLoad(t)
  <2>1. \E l \in Pc(t) : Goto(t, l)
    BY <1>5 DEF ParLoad, Pc, PushPc, RunPc, ParPc, MainPc, WorkerPc
  <2>2. DataOK'
    <3>1. par[t] \in Calls
      BY <1>5, CtlOf DEF ParLoad, ParPc
    <3>2. calls[par[t]].done \in Nat
      BY <3>1, StateUpdates
    <3>3. calls' \in [Calls -> State]
      BY <1>5, <3>1, CallsOK
    <3> QED
      BY <1>5, <3>2, <3>3 DEF ParLoad, shared
  <2> QED
    BY <2>1, <2>2, MoveOK DEF TypeOK
<1>6. CASE ParWait(t)
  <2>1. \E l \in Pc(t) : Goto(t, l)
    BY <1>6 DEF ParWait, Pc, PushPc, RunPc, ParPc, MainPc, WorkerPc
  <2>2. DataOK'
    BY <1>6 DEF ParWait, shared
  <2> QED
    BY <2>1, <2>2, MoveOK DEF TypeOK
<1> QED
  BY <1>1, <1>2, <1>3, <1>4, <1>5, <1>6 DEF ParallelStep

LEMMA TypeStart ==
  ASSUME IInv, NEW t \in Threads, NEW c \in Calls, NEW n \in 2..MaxN, ParallelFor(t, c, n)
  PROVE  TypeOK'
<1>1. "helpers" \in Pc(t) /\ Goto(t, "helpers")
  BY DEF ParallelFor, Pc, ParPc
<1>2. [Idle EXCEPT !.n = n, !.alive = TRUE] \in State
  <2>1. n \in 0..MaxN
    BY MaxNAssumption
  <2>2. [i \in 0..(MaxN - 1) |-> 0] \in [0..(MaxN - 1) -> Nat]
    OBVIOUS
  <2> QED
    BY <2>1, <2>2 DEF Idle, State
<1>3. Smaller(NThreads, n - 1) \in Nat
  BY WorkersAssumption, MaxNAssumption, FS_CardinalityType DEF Smaller, NThreads
<1>4. DataOK'
  BY <1>2, <1>3 DEF ParallelFor, IInv, TypeOK, DataOK, shared
<1> QED
  BY <1>1, <1>4, MoveOK DEF IInv, TypeOK

LEMMA TypeWorker ==
  ASSUME IInv, NEW w \in Workers, WorkerStep(w)
  PROVE  TypeOK'
<1>0. w \in Threads /\ w # Main
  BY WorkersAssumption DEF Threads
<1> USE <1>0 DEF IInv, TypeOK, DataOK, shared
<1>1. CASE WorkerLoop(w)
  <2>1. \E l \in Pc(w) : Goto(w, l)
    BY <1>1 DEF WorkerLoop, Pc, PushPc, RunPc, ParPc, MainPc, WorkerPc
  <2>2. DataOK'
    BY <1>1 DEF WorkerLoop, shared
  <2> QED
    BY <2>1, <2>2, MoveOK DEF TypeOK
<1>2. CASE Spin(w)
  <2>1. \E l \in Pc(w) : Goto(w, l)
    BY <1>2 DEF Spin, Pc, PushPc, RunPc, ParPc, MainPc, WorkerPc
  <2>2. DataOK'
    BY <1>2 DEF Spin, shared
  <2> QED
    BY <2>1, <2>2, MoveOK DEF TypeOK
<1>3. CASE SleepCount(w)
  <2>1. \E l \in Pc(w) : Goto(w, l)
    BY <1>3 DEF SleepCount, Pc, PushPc, RunPc, ParPc, MainPc, WorkerPc
  <2>2. DataOK'
    BY <1>3 DEF SleepCount, shared
  <2> QED
    BY <2>1, <2>2, MoveOK DEF TypeOK
<1>4. CASE SleepEpoch(w)
  <2>1. \E l \in Pc(w) : Goto(w, l)
    BY <1>4 DEF SleepEpoch, Pc, PushPc, RunPc, ParPc, MainPc, WorkerPc
  <2>2. DataOK'
    BY <1>4 DEF SleepEpoch, shared
  <2> QED
    BY <2>1, <2>2, MoveOK DEF TypeOK
<1>5. CASE SleepQueued(w)
  <2>1. \E l \in Pc(w) : Goto(w, l)
    BY <1>5 DEF SleepQueued, Pc, PushPc, RunPc, ParPc, MainPc, WorkerPc
  <2>2. DataOK'
    BY <1>5 DEF SleepQueued, shared
  <2> QED
    BY <2>1, <2>2, MoveOK DEF TypeOK
<1>6. CASE SleepStopping(w)
  <2>1. \E l \in Pc(w) : Goto(w, l)
    BY <1>6 DEF SleepStopping, Pc, PushPc, RunPc, ParPc, MainPc, WorkerPc
  <2>2. DataOK'
    BY <1>6 DEF SleepStopping, shared
  <2> QED
    BY <2>1, <2>2, MoveOK DEF TypeOK
<1>7. CASE SleepWait(w)
  <2>1. \E l \in Pc(w) : Goto(w, l)
    BY <1>7 DEF SleepWait, Pc, PushPc, RunPc, ParPc, MainPc, WorkerPc
  <2>2. DataOK'
    BY <1>7 DEF SleepWait, shared
  <2> QED
    BY <2>1, <2>2, MoveOK DEF TypeOK
<1>8. CASE SleepLeave(w)
  <2>1. w \in Sleeping /\ Sleeping \in SUBSET Threads
    BY <1>8 DEF SleepLeave, Sleeping, InSleep, Threads
  <2>2. sleepers - 1 \in Nat
    BY <2>1, CountThreads DEF Sleeping
  <2>3. \E l \in Pc(w) : Goto(w, l)
    BY <1>8 DEF SleepLeave, Pc, WorkerPc
  <2> QED
    BY <1>8, <2>2, <2>3, MoveOK DEF SleepLeave
<1> QED
  BY <1>1, <1>2, <1>3, <1>4, <1>5, <1>6, <1>7, <1>8 DEF WorkerStep

LEMMA TypeMain ==
  ASSUME IInv, MainStep \/ UserStep
  PROVE  TypeOK'
<1>0. Main \in Threads
  BY DEF Threads
<1> USE <1>0 DEF IInv, TypeOK, DataOK, shared
<1>1. CASE TillLoad
  <2>1. \E l \in Pc(Main) : Goto(Main, l)
    BY <1>1 DEF TillLoad, Pc, PushPc, RunPc, ParPc, MainPc, WorkerPc
  <2>2. DataOK'
    BY <1>1 DEF TillLoad, shared
  <2> QED
    BY <2>1, <2>2, MoveOK DEF TypeOK
<1>2. CASE TillWait
  <2>1. \E l \in Pc(Main) : Goto(Main, l)
    BY <1>2 DEF TillWait, Pc, PushPc, RunPc, ParPc, MainPc, WorkerPc
  <2>2. DataOK'
    BY <1>2 DEF TillWait, shared
  <2> QED
    BY <2>1, <2>2, MoveOK DEF TypeOK
<1>3. CASE ForLoad
  <2>1. \E l \in Pc(Main) : Goto(Main, l)
    BY <1>3 DEF ForLoad, Pc, PushPc, RunPc, ParPc, MainPc, WorkerPc
  <2>2. DataOK'
    BY <1>3 DEF ForLoad, shared
  <2> QED
    BY <2>1, <2>2, MoveOK DEF TypeOK
<1>4. CASE DeinitEpoch
  <2>1. \E l \in Pc(Main) : Goto(Main, l)
    BY <1>4 DEF DeinitEpoch, Pc, PushPc, RunPc, ParPc, MainPc, WorkerPc
  <2>2. DataOK'
    BY <1>4 DEF DeinitEpoch, shared
  <2> QED
    BY <2>1, <2>2, MoveOK DEF TypeOK
<1>5. CASE DeinitNotify
  <2>1. "join" \in Pc(Main) /\ "join" \in MainPc
    BY DEF Pc, MainPc
  <2>2. \A u \in Workers : "sleep_wait" \in Pc(u) /\ "sleep_wait" \in WorkerPc
    BY WorkersAssumption DEF Pc, WorkerPc
  <2>3. PcOK'
    BY <1>5, <2>1, <2>2 DEF DeinitNotify, PcOK
  <2> QED
    BY <1>5, <2>3 DEF DeinitNotify
<1>6. CASE DeinitJoin
  <2>1. \E l \in Pc(Main) : Goto(Main, l)
    BY <1>6 DEF DeinitJoin, Pc, PushPc, RunPc, ParPc, MainPc, WorkerPc
  <2>2. DataOK'
    BY <1>6 DEF DeinitJoin, shared
  <2> QED
    BY <2>1, <2>2, MoveOK DEF TypeOK
<1>7. CASE UserWaitTillDone
  <2>1. \E l \in Pc(Main) : Goto(Main, l)
    BY <1>7 DEF UserWaitTillDone, Pc, PushPc, RunPc, ParPc, MainPc, WorkerPc
  <2>2. DataOK'
    BY <1>7 DEF UserWaitTillDone, shared
  <2> QED
    BY <2>1, <2>2, MoveOK DEF TypeOK
<1>8. CASE UserDeinit
  <2>1. \E l \in Pc(Main) : Goto(Main, l)
    BY <1>8 DEF UserDeinit, Pc, PushPc, RunPc, ParPc, MainPc, WorkerPc
  <2>2. DataOK'
    BY <1>8 DEF UserDeinit, shared
  <2> QED
    BY <2>1, <2>2, MoveOK DEF TypeOK
<1>9. CASE \E j \in Tasks : UserPush(j)
  <2>1. PICK j \in Tasks : UserPush(j)
    BY <1>9
  <2>2. "push_pending" \in Pc(Main) /\ Goto(Main, "push_pending")
    BY <2>1 DEF UserPush, Pc, PushPc
  <2> QED
    BY <2>1, <2>2, MoveOK DEF UserPush, Job
<1>10. CASE \E j \in Tasks : UserWaitFor(j)
  <2>1. PICK j \in Tasks : UserWaitFor(j)
    BY <1>10
  <2>2. "for_load" \in Pc(Main) /\ Goto(Main, "for_load")
    BY <2>1 DEF UserWaitFor, Pc, MainPc
  <2> QED
    BY <2>1, <2>2, MoveOK DEF UserWaitFor
<1> QED
  BY <1>1, <1>2, <1>3, <1>4, <1>5, <1>6, <1>7, <1>8, <1>9, <1>10 DEF MainStep, UserStep



\* One step of the thread t.
StepOf(t) ==
  \/ PushStep(t) \/ JobStep(t) \/ ParallelStep(t) \/ StartParallel(t)
  \/ t \in Workers /\ WorkerStep(t)
  \/ t = Main /\ (MainStep \/ UserStep)

\* Every step of the specification is the step of one thread, or changes nothing.
LEMMA StepCases ==
  ASSUME [Next]_vars
  PROVE  (\E t \in Threads : StepOf(t)) \/ UNCHANGED vars
<1> Main \in Threads /\ Workers \subseteq Threads
  BY DEF Threads
<1> QED
  BY DEF Next, StepOf, RunStep, Ended

\* What a step of one thread may do to another: at most wake it.
Woken(u) == \/ pc[u] = "asleep"      /\ pc'[u] = "sleep_wait"
            \/ pc[u] = "till_asleep" /\ pc'[u] = "till_wait"
            \/ pc[u] = "par_asleep"  /\ pc'[u] = "par_wait"

Frame(t) ==
  \A u \in Threads \ {t} :
    /\ cur'[u] = cur[u] /\ par'[u] = par[u] /\ pushing'[u] = pushing[u]
    /\ pc'[u] = pc[u] \/ Woken(u)

LEMMA FramePush ==
  ASSUME TypeOK, NEW t \in Threads, PushStep(t)
  PROVE  Frame(t)
<1> USE DEF TypeOK, DataOK, PcOK, Frame
<1>1. CASE PushPending(t)
  BY <1>1 DEF PushPending, Goto, shared
<1>2. CASE PushQueue(t)
  BY <1>2 DEF PushQueue, Goto, shared
<1>3. CASE PushEpoch(t)
  BY <1>3 DEF PushEpoch, Goto, shared
<1>4. CASE PushSleepers(t)
  BY <1>4 DEF PushSleepers, Goto, shared
<1>5. CASE PushNotify(t)
  <2>1. cur' = cur /\ par' = par /\ pushing' = pushing
    BY <1>5 DEF PushNotify
  <2>2. CASE Goto(t, AfterPush(t))
    BY <2>1, <2>2 DEF Goto
  <2>3. CASE \E w \in Asleep : pc' = [pc EXCEPT ![t] = AfterPush(t), ![w] = "sleep_wait"]
    BY <2>1, <2>3 DEF Asleep, Woken
  <2> QED
    BY <1>5, <2>2, <2>3 DEF PushNotify
<1> QED
  BY <1>1, <1>2, <1>3, <1>4, <1>5 DEF PushStep

LEMMA FrameJob ==
  ASSUME TypeOK, NEW t \in Threads, JobStep(t)
  PROVE  Frame(t)
<1> USE DEF TypeOK, DataOK, PcOK, Frame
<1>1. CASE TryLoad(t)
  BY <1>1 DEF TryLoad, Goto, shared
<1>2. CASE TryPop(t)
  BY <1>2 DEF TryPop, Goto, shared
<1>3. CASE BodyReturns(t)
  BY <1>3 DEF BodyReturns, Goto, shared
<1>4. CASE JobNotify(t)
  BY <1>4 DEF JobNotify, Goto, shared
<1>5. CASE JobFinish(t)
  BY <1>5 DEF JobFinish, Goto, shared, Woken
<1> QED
  BY <1>1, <1>2, <1>3, <1>4, <1>5 DEF JobStep

LEMMA FrameParallel ==
  ASSUME TypeOK, NEW t \in Threads, ParallelStep(t)
  PROVE  Frame(t)
<1> USE DEF TypeOK, DataOK, PcOK, Frame
<1>1. CASE PushHelpers(t)
  BY <1>1 DEF PushHelpers, Goto, shared
<1>2. CASE Claim(t)
  BY <1>2 DEF Claim, Goto, shared
<1>3. CASE CallFn(t)
  BY <1>3 DEF CallFn, Goto, shared
<1>4. CASE CountDone(t)
  BY <1>4 DEF CountDone, Goto, shared, Woken
<1>5. CASE ParLoad(t)
  BY <1>5 DEF ParLoad, Goto, shared
<1>6. CASE ParWait(t)
  BY <1>6 DEF ParWait, Goto, shared
<1> QED
  BY <1>1, <1>2, <1>3, <1>4, <1>5, <1>6 DEF ParallelStep

LEMMA FrameStart ==
  ASSUME TypeOK, NEW t \in Threads, StartParallel(t)
  PROVE  Frame(t)
  BY DEF TypeOK, DataOK, PcOK, Frame, StartParallel, ParallelFor, Goto

LEMMA FrameWorker ==
  ASSUME TypeOK, NEW w \in Workers, WorkerStep(w)
  PROVE  Frame(w)
<1> USE DEF TypeOK, DataOK, PcOK, Frame
<1>1. CASE WorkerLoop(w)
  BY <1>1 DEF WorkerLoop, Goto, shared
<1>2. CASE Spin(w)
  BY <1>2 DEF Spin, Goto, shared
<1>3. CASE SleepCount(w)
  BY <1>3 DEF SleepCount, Goto, shared
<1>4. CASE SleepEpoch(w)
  BY <1>4 DEF SleepEpoch, Goto, shared
<1>5. CASE SleepQueued(w)
  BY <1>5 DEF SleepQueued, Goto, shared
<1>6. CASE SleepStopping(w)
  BY <1>6 DEF SleepStopping, Goto, shared
<1>7. CASE SleepWait(w)
  BY <1>7 DEF SleepWait, Goto, shared
<1>8. CASE SleepLeave(w)
  BY <1>8 DEF SleepLeave, Goto, shared
<1> QED
  BY <1>1, <1>2, <1>3, <1>4, <1>5, <1>6, <1>7, <1>8 DEF WorkerStep

LEMMA FrameMain ==
  ASSUME TypeOK, MainStep
  PROVE  Frame(Main)
<1> USE DEF TypeOK, DataOK, PcOK, Frame
<1>1. CASE TillLoad
  BY <1>1 DEF TillLoad, Goto, shared
<1>2. CASE TillWait
  BY <1>2 DEF TillWait, Goto, shared
<1>3. CASE ForLoad
  BY <1>3 DEF ForLoad, Goto, shared
<1>4. CASE DeinitEpoch
  BY <1>4 DEF DeinitEpoch, Goto, shared
<1>5. CASE DeinitNotify
  BY <1>5 DEF DeinitNotify, Goto, shared, Woken
<1>6. CASE DeinitJoin
  BY <1>6 DEF DeinitJoin, Goto, shared
<1> QED
  BY <1>1, <1>2, <1>3, <1>4, <1>5, <1>6 DEF MainStep

LEMMA FrameUser ==
  ASSUME TypeOK, UserStep
  PROVE  Frame(Main)
  BY DEF TypeOK, DataOK, PcOK, Frame, UserStep, UserPush, UserWaitFor, UserWaitTillDone,
         UserDeinit, Goto

LEMMA FrameStep ==
  ASSUME TypeOK, NEW t \in Threads, StepOf(t)
  PROVE  Frame(t)
  BY FramePush, FrameJob, FrameParallel, FrameStart, FrameWorker, FrameMain, FrameUser
     DEF StepOf

\* Another thread stays where CtlInv allows it to be.
LEMMA CtlOthers ==
  ASSUME CtlInv, NEW t \in Threads, Frame(t), NEW u \in Threads \ {t}
  PROVE  CtlAt(u)'
<1>1. CtlAt(u)
  BY DEF CtlInv
<1>2. CASE pc'[u] = pc[u]
  BY <1>1, <1>2 DEF Frame, CtlAt
<1>3. CASE Woken(u)
  BY <1>1, <1>3 DEF Frame, CtlAt, Woken, MainPc, WorkerPc, ParPc, PushPc
<1> QED
  BY <1>2, <1>3 DEF Frame

\* Where each step leaves the thread that takes it.
LEMMA CtlPush ==
  ASSUME IInv, NEW t \in Threads, PushStep(t)
  PROVE  CtlAt(t)'
<1>0. CtlAt(t)
  BY DEF IInv, CtlInv
<1> USE <1>0 DEF IInv, TypeOK, DataOK, PcOK
<1>1. CASE PushPending(t)
  BY <1>1 DEF PushPending, Goto, shared, CtlAt, PushPc, ParPc, MainPc, WorkerPc
<1>2. CASE PushQueue(t)
  BY <1>2 DEF PushQueue, Goto, shared, CtlAt, PushPc, ParPc, MainPc, WorkerPc
<1>3. CASE PushEpoch(t)
  BY <1>3 DEF PushEpoch, Goto, shared, CtlAt, PushPc, ParPc, MainPc, WorkerPc
<1>4. CASE PushSleepers(t)
  BY <1>4 DEF PushSleepers, Goto, shared, CtlAt, PushPc, ParPc, MainPc, WorkerPc, AfterPush
<1>5. CASE PushNotify(t)
  <2>1. pc'[t] = AfterPush(t) /\ cur' = cur /\ par' = par /\ pushing' = pushing
    BY <1>5 DEF PushNotify, Goto, Asleep
  <2> QED
    BY <1>5, <2>1 DEF PushNotify, AfterPush, CtlAt, PushPc, ParPc, MainPc, WorkerPc
<1> QED
  BY <1>1, <1>2, <1>3, <1>4, <1>5 DEF PushStep

LEMMA CtlJob ==
  ASSUME IInv, NEW t \in Threads, JobStep(t)
  PROVE  CtlAt(t)'
<1>0. CtlAt(t)
  BY DEF IInv, CtlInv
<1> USE <1>0 DEF IInv, TypeOK, DataOK, PcOK
<1>1. CASE TryLoad(t)
  BY <1>1 DEF TryLoad, Goto, shared, CtlAt, PushPc, ParPc, MainPc, WorkerPc, OnEmpty
<1>2. CASE TryPop(t)
  <2>1. CASE jobs = <<>>
    BY <1>2, <2>1 DEF TryPop, OnEmpty, Goto, CtlAt, PushPc, ParPc, MainPc, WorkerPc
  <2>2. CASE jobs # <<>>
    <3> DEFINE job == jobs[Len(jobs)]
    <3>1. job \in Job
      BY <2>2
    <3>2. CASE job.kind = "helper"
      <4>1. job.id \in Calls
        BY <3>1, <3>2 DEF Job, Task, Helper
      <4>2. pc'[t] = "claim" /\ cur'[t] = job /\ par'[t] = job.id /\ pushing' = pushing
        BY <1>2, <2>2, <3>2 DEF TryPop, Goto
      <4> QED
        BY <1>2, <3>1, <4>1, <4>2 DEF TryPop, CtlAt, PushPc, ParPc, MainPc, WorkerPc
    <3>3. CASE job.kind # "helper"
      <4>1. job \in {Task(j) : j \in Tasks}
        BY <3>1, <3>3 DEF Job, Task, Helper
      <4>2. pc'[t] = "body" /\ cur'[t] = job /\ par' = par /\ pushing' = pushing
        BY <1>2, <2>2, <3>3 DEF TryPop, Goto
      <4> QED
        BY <1>2, <4>1, <4>2 DEF TryPop, CtlAt, PushPc, ParPc, MainPc, WorkerPc
    <3> QED
      BY <3>2, <3>3
  <2> QED
    BY <2>1, <2>2
<1>3. CASE BodyReturns(t)
  BY <1>3 DEF BodyReturns, Goto, shared, CtlAt, PushPc, ParPc, MainPc, WorkerPc, Job
<1>4. CASE JobNotify(t)
  BY <1>4 DEF JobNotify, Goto, shared, CtlAt, PushPc, ParPc, MainPc, WorkerPc
<1>5. CASE JobFinish(t)
  <2>1. pc'[t] = AfterJob(t) /\ cur'[t] = NoJob /\ par' = par /\ pushing' = pushing
    BY <1>5 DEF JobFinish
  <2> QED
    BY <1>5, <2>1 DEF JobFinish, AfterJob, CtlAt, PushPc, ParPc, MainPc, WorkerPc
<1> QED
  BY <1>1, <1>2, <1>3, <1>4, <1>5 DEF JobStep

LEMMA CtlParallel ==
  ASSUME IInv, NEW t \in Threads, ParallelStep(t)
  PROVE  CtlAt(t)'
<1>0. CtlAt(t)
  BY DEF IInv, CtlInv
<1> USE <1>0 DEF IInv, TypeOK, DataOK, PcOK
<1>1. CASE PushHelpers(t)
  <2>1. par[t] \in Calls /\ Helper(par[t]) \in Job
    BY <1>1 DEF PushHelpers, CtlAt, ParPc, Job
  <2>2. cur' = cur /\ par' = par /\ par[t] # NoJob
    BY <1>1, <2>1, NoJobAssumption DEF PushHelpers
  <2>3. \/ pc'[t] = "claim" /\ pushing' = pushing
        \/ pc'[t] = "push_pending" /\ pushing'[t] = Helper(par[t])
    BY <1>1 DEF PushHelpers, Goto
  <2> QED
    BY <1>1, <2>1, <2>2, <2>3 DEF PushHelpers, Job, CtlAt, PushPc, ParPc, MainPc, WorkerPc
<1>2. CASE Claim(t)
  <2>1. cur' = cur /\ pushing' = pushing /\ cur[t] \in Job
    BY <1>2 DEF Claim, CtlAt
  <2>2. CASE pc'[t] = "call" /\ par' = par
    BY <1>2, <2>1, <2>2 DEF Claim, CtlAt, PushPc, ParPc, MainPc, WorkerPc
  <2>3. CASE pc'[t] = "notify" /\ par'[t] = NoJob
    BY <1>2, <2>1, <2>3 DEF Claim, CtlAt, PushPc, ParPc, MainPc, WorkerPc
  <2>4. CASE pc'[t] = "par_load" /\ par' = par /\ cur[t].kind # "helper"
    <3>1. cur[t] \in {Task(j) : j \in Tasks}
      BY <2>1, <2>4 DEF Job, Task, Helper
    <3> QED
      BY <1>2, <2>1, <2>4, <3>1 DEF Claim, CtlAt, PushPc, ParPc, MainPc, WorkerPc
  <2> QED
    BY <1>2, <2>2, <2>3, <2>4 DEF Claim, Goto
<1>3. CASE CallFn(t)
  BY <1>3 DEF CallFn, Goto, shared, CtlAt, PushPc, ParPc, MainPc, WorkerPc
<1>4. CASE CountDone(t)
  BY <1>4 DEF CountDone, Goto, shared, CtlAt, PushPc, ParPc, MainPc, WorkerPc
<1>5. CASE ParLoad(t)
  BY <1>5 DEF ParLoad, Goto, shared, CtlAt, PushPc, ParPc, MainPc, WorkerPc, Job
<1>6. CASE ParWait(t)
  BY <1>6 DEF ParWait, Goto, shared, CtlAt, PushPc, ParPc, MainPc, WorkerPc
<1> QED
  BY <1>1, <1>2, <1>3, <1>4, <1>5, <1>6 DEF ParallelStep

LEMMA CtlStart ==
  ASSUME IInv, NEW t \in Threads, StartParallel(t)
  PROVE  CtlAt(t)'
<1>1. CtlAt(t)
  BY DEF IInv, CtlInv
<1>2. PICK c \in Calls, n \in 2..MaxN : ParallelFor(t, c, n)
  BY DEF StartParallel
<1> QED
  BY <1>1, <1>2 DEF IInv, TypeOK, DataOK, PcOK, ParallelFor, Goto, CtlAt, PushPc, ParPc, MainPc, WorkerPc

LEMMA CtlWorker ==
  ASSUME IInv, NEW t \in Workers, WorkerStep(t)
  PROVE  CtlAt(t)'
<1>0. CtlAt(t) /\ t \in Threads
  BY DEF IInv, CtlInv, Threads
<1> USE <1>0 DEF IInv, TypeOK, DataOK, PcOK
<1>1. CASE WorkerLoop(t)
  BY <1>1 DEF WorkerLoop, Goto, shared, CtlAt, PushPc, ParPc, MainPc, WorkerPc
<1>2. CASE Spin(t)
  BY <1>2 DEF Spin, Goto, shared, CtlAt, PushPc, ParPc, MainPc, WorkerPc
<1>3. CASE SleepCount(t)
  BY <1>3 DEF SleepCount, Goto, shared, CtlAt, PushPc, ParPc, MainPc, WorkerPc
<1>4. CASE SleepEpoch(t)
  BY <1>4 DEF SleepEpoch, Goto, shared, CtlAt, PushPc, ParPc, MainPc, WorkerPc
<1>5. CASE SleepQueued(t)
  BY <1>5 DEF SleepQueued, Goto, shared, CtlAt, PushPc, ParPc, MainPc, WorkerPc
<1>6. CASE SleepStopping(t)
  BY <1>6 DEF SleepStopping, Goto, shared, CtlAt, PushPc, ParPc, MainPc, WorkerPc
<1>7. CASE SleepWait(t)
  BY <1>7 DEF SleepWait, Goto, shared, CtlAt, PushPc, ParPc, MainPc, WorkerPc
<1>8. CASE SleepLeave(t)
  BY <1>8 DEF SleepLeave, Goto, shared, CtlAt, PushPc, ParPc, MainPc, WorkerPc
<1> QED
  BY <1>1, <1>2, <1>3, <1>4, <1>5, <1>6, <1>7, <1>8 DEF WorkerStep

LEMMA CtlMain ==
  ASSUME IInv, MainStep \/ UserStep
  PROVE  CtlAt(Main)'
<1>0. CtlAt(Main) /\ Main \in Threads
  BY DEF IInv, CtlInv, Threads
<1> USE <1>0 DEF IInv, TypeOK, DataOK, PcOK
<1>1. CASE TillLoad
  BY <1>1 DEF TillLoad, Goto, shared, CtlAt, PushPc, ParPc, MainPc, WorkerPc
<1>2. CASE TillWait
  BY <1>2 DEF TillWait, Goto, shared, CtlAt, PushPc, ParPc, MainPc, WorkerPc
<1>3. CASE ForLoad
  BY <1>3 DEF ForLoad, Goto, shared, CtlAt, PushPc, ParPc, MainPc, WorkerPc
<1>4. CASE DeinitEpoch
  BY <1>4 DEF DeinitEpoch, Goto, shared, CtlAt, PushPc, ParPc, MainPc, WorkerPc
<1>5. CASE DeinitNotify
  BY <1>5 DEF DeinitNotify, Goto, shared, CtlAt, PushPc, ParPc, MainPc, WorkerPc
<1>6. CASE DeinitJoin
  BY <1>6 DEF DeinitJoin, Goto, shared, CtlAt, PushPc, ParPc, MainPc, WorkerPc
<1>7. CASE UserWaitTillDone
  BY <1>7 DEF UserWaitTillDone, Goto, shared, CtlAt, PushPc, ParPc, MainPc, WorkerPc, AtUser
<1>8. CASE UserDeinit
  BY <1>8 DEF UserDeinit, Goto, shared, CtlAt, PushPc, ParPc, MainPc, WorkerPc
<1>9. CASE \E j \in Tasks : UserPush(j)
  BY <1>9 DEF UserPush, AtUser, Goto, Job, CtlAt, PushPc, ParPc, MainPc, WorkerPc
<1>10. CASE \E j \in Tasks : UserWaitFor(j)
  BY <1>10 DEF UserWaitFor, AtUser, Goto, CtlAt, PushPc, ParPc, MainPc, WorkerPc
<1> QED
  BY <1>1, <1>2, <1>3, <1>4, <1>5, <1>6, <1>7, <1>8, <1>9, <1>10 DEF MainStep, UserStep

\* The places of the threads stay consistent with the jobs they run.
LEMMA CtlStep ==
  ASSUME IInv, NEW t \in Threads, StepOf(t)
  PROVE  CtlInv'
<1>1. Frame(t)
  BY FrameStep DEF IInv
<1>2. CtlAt(t)'
  BY CtlPush, CtlJob, CtlParallel, CtlStart, CtlWorker, CtlMain DEF StepOf
<1>3. \A u \in Threads \ {t} : CtlAt(u)'
  BY <1>1, CtlOthers DEF IInv
<1> QED
  BY <1>2, <1>3 DEF CtlInv

\* No step breaks the types.
LEMMA TypeStep ==
  ASSUME IInv, NEW t \in Threads, StepOf(t)
  PROVE  TypeOK'
<1>1. CASE StartParallel(t)
  BY <1>1, TypeStart DEF StartParallel
<1> QED
  BY <1>1, TypePush, TypeJob, TypeParallel, TypeWorker, TypeMain DEF StepOf

\* Two sets of threads that agree on all threads but t differ in size by what
\* they say of t.
LEMMA CountOne ==
  ASSUME NEW S \in SUBSET Threads, NEW T \in SUBSET Threads, NEW t \in Threads,
         S \ {t} = T \ {t}
  PROVE  /\ Cardinality(S) \in Nat /\ Cardinality(T) \in Nat
         /\ t \in S /\ t \notin T => Cardinality(T) = Cardinality(S) - 1
         /\ t \notin S /\ t \in T => Cardinality(T) = Cardinality(S) + 1
         /\ (t \in S) = (t \in T) => Cardinality(T) = Cardinality(S)
<1>1. Cardinality(S) \in Nat /\ Cardinality(T) \in Nat
  BY CountThreads
<1>2. ASSUME t \in S, t \notin T PROVE Cardinality(T) = Cardinality(S) - 1
  <2>1. T = S \ {t}
    BY <1>2
  <2> QED
    BY <1>2, <2>1, CountThreads
<1>3. ASSUME t \notin S, t \in T PROVE Cardinality(T) = Cardinality(S) + 1
  <2>1. T = S \cup {t}
    BY <1>3
  <2> QED
    BY <1>3, <2>1, CountThreads
<1>4. ASSUME (t \in S) = (t \in T) PROVE Cardinality(T) = Cardinality(S)
  <2>1. T = S
    BY <1>4
  <2> QED
    BY <2>1
<1> QED
  BY <1>1, <1>2, <1>3, <1>4

\* How the size of a set of threads moves with a step of t: by one, up or down,
\* when t enters or leaves it.
Moves(S, T, t) ==
  /\ t \in S /\ t \notin T => Cardinality(T) = Cardinality(S) - 1
  /\ t \notin S /\ t \in T => Cardinality(T) = Cardinality(S) + 1
  /\ (t \in S) = (t \in T) => Cardinality(T) = Cardinality(S)

LEMMA FrameCounts ==
  ASSUME NEW t \in Threads, Frame(t)
  PROVE  /\ Cardinality(Running) \in Nat /\ Cardinality(Counted) \in Nat
         /\ Cardinality(Sleeping) \in Nat
         /\ Moves(Running, Running', t)
         /\ Moves(Counted, Counted', t)
         /\ Moves(Sleeping, Sleeping', t)
<1>1. /\ Running \in SUBSET Threads /\ Running' \in SUBSET Threads
      /\ Running \ {t} = Running' \ {t}
  BY DEF Running, Frame
<1>2. /\ Counted \in SUBSET Threads /\ Counted' \in SUBSET Threads
      /\ Counted \ {t} = Counted' \ {t}
  BY DEF Counted, Frame, Woken
<1>3. /\ Sleeping \in SUBSET Threads /\ Sleeping' \in SUBSET Threads
      /\ Sleeping \ {t} = Sleeping' \ {t}
  BY DEF Sleeping, Frame, Woken, InSleep, Threads
<1>4. Cardinality(Running) \in Nat /\ Moves(Running, Running', t)
  BY <1>1, CountOne DEF Moves
<1>5. Cardinality(Counted) \in Nat /\ Moves(Counted, Counted', t)
  BY <1>2, CountOne DEF Moves
<1>6. Cardinality(Sleeping) \in Nat /\ Moves(Sleeping, Sleeping', t)
  BY <1>3, CountOne DEF Moves
<1> QED
  BY <1>4, <1>5, <1>6

\* The facts about the counters, together.
Counts == Accounting /\ sleepers = Cardinality(Sleeping)

\* A step in which t enters or leaves none of the counted sets.
Still(t) ==
  /\ (t \in Running') = (t \in Running)
  /\ (t \in Counted') = (t \in Counted)
  /\ (t \in Sleeping') = (t \in Sleeping)

LEMMA StillCounts ==
  ASSUME Counts, NEW t \in Threads, Frame(t), Still(t),
         UNCHANGED <<jobs, queued, pending, sleepers>>
  PROVE  Counts'
<1>1. /\ Cardinality(Running') = Cardinality(Running)
      /\ Cardinality(Counted') = Cardinality(Counted)
      /\ Cardinality(Sleeping') = Cardinality(Sleeping)
  BY FrameCounts DEF Moves, Still
<1> QED
  BY <1>1 DEF Counts, Accounting

\* How each step moves the counters.
LEMMA CountPush ==
  ASSUME IInv, NEW t \in Threads, PushStep(t)
  PROVE  Counts'
<1>0. CtlAt(t) /\ Frame(t) /\ Counts /\ TypeOK
  BY FrameStep DEF StepOf, IInv, CtlInv, Counts
<1> USE <1>0 DEF TypeOK, DataOK, PcOK, Still, Running, Counted, Sleeping, InSleep, CtlAt, PushPc, ParPc, MainPc, WorkerPc
<1>1. CASE PushPending(t)
  <2>1. /\ (t \in Running') = (t \in Running)
        /\ t \notin Counted /\ t \in Counted'
        /\ (t \in Sleeping') = (t \in Sleeping)
    BY <1>1 DEF PushPending, Goto
  <2>2. /\ Cardinality(Running') = Cardinality(Running)
        /\ Cardinality(Counted') = Cardinality(Counted) + 1
        /\ Cardinality(Sleeping') = Cardinality(Sleeping)
    BY <2>1, FrameCounts DEF Moves
  <2> HIDE DEF Running, Counted, Sleeping
  <2> QED
    BY <1>1, <2>2, FrameCounts DEF PushPending, Counts, Accounting
<1>2. CASE PushQueue(t)
  <2>1. /\ (t \in Running') = (t \in Running)
        /\ t \in Counted /\ t \notin Counted'
        /\ (t \in Sleeping') = (t \in Sleeping)
    BY <1>2 DEF PushQueue, Goto
  <2>2. /\ Cardinality(Running') = Cardinality(Running)
        /\ Cardinality(Counted') = Cardinality(Counted) - 1
        /\ Cardinality(Sleeping') = Cardinality(Sleeping)
    BY <2>1, FrameCounts DEF Moves
  <2>3. Len(jobs') = Len(jobs) + 1
    BY <1>2 DEF PushQueue
  <2> HIDE DEF Running, Counted, Sleeping
  <2>4. queued' = queued + 1 /\ pending' = pending /\ sleepers' = sleepers
    BY <1>2 DEF PushQueue
  <2>5. Cardinality(Running) \in Nat /\ Cardinality(Counted) \in Nat
    BY FrameCounts
  <2>6. /\ queued = Len(jobs) /\ sleepers = Cardinality(Sleeping)
        /\ pending = Len(jobs) + Cardinality(Running) + Cardinality(Counted)
    BY DEF Counts, Accounting
  <2>7. Len(jobs) \in Nat
    BY <1>0 DEF IInv, TypeOK, DataOK
  <2> HIDE <1>0
  <2>8. /\ queued' = Len(jobs') /\ sleepers' = Cardinality(Sleeping')
        /\ pending' = Len(jobs') + Cardinality(Running') + Cardinality(Counted')
    BY <2>2, <2>3, <2>4, <2>5, <2>6, <2>7
  <2> QED
    BY <2>8 DEF Counts, Accounting
<1>3. CASE PushEpoch(t)
  <2>1. Still(t)
    BY <1>3 DEF PushEpoch, Goto
  <2> QED
    BY <1>3, <2>1, StillCounts DEF PushEpoch, shared
<1>4. CASE PushSleepers(t)
  <2>1. Still(t)
    BY <1>4 DEF PushSleepers, Goto, AfterPush
  <2> QED
    BY <1>4, <2>1, StillCounts DEF PushSleepers, shared
<1>5. CASE PushNotify(t)
  <2>1. pc'[t] = AfterPush(t) /\ cur' = cur
    BY <1>5 DEF PushNotify, Goto, Asleep
  <2>2. Still(t)
    BY <1>5, <2>1 DEF PushNotify, AfterPush
  <2> QED
    BY <1>5, <2>2, StillCounts DEF PushNotify, shared
<1> QED
  BY <1>1, <1>2, <1>3, <1>4, <1>5 DEF PushStep

LEMMA CountJob ==
  ASSUME IInv, NEW t \in Threads, JobStep(t)
  PROVE  Counts'
<1>0. CtlAt(t) /\ Frame(t) /\ Counts /\ TypeOK
  BY FrameStep DEF StepOf, IInv, CtlInv, Counts
<1> USE <1>0 DEF TypeOK, DataOK, PcOK, Still, Running, Counted, Sleeping, InSleep, CtlAt, PushPc, ParPc, MainPc, WorkerPc
<1>1. CASE TryLoad(t)
  <2>1. OnEmpty(t) \in {"spin", "till_load", "for_load"}
    BY DEF OnEmpty
  <2>2. Still(t)
    BY <1>1, <2>1 DEF TryLoad, Goto
  <2> QED
    BY <1>1, <2>2, StillCounts DEF TryLoad, shared
<1>2. CASE TryPop(t)
  <2>1. CASE jobs = <<>>
    <3>1. OnEmpty(t) \in {"spin", "till_load", "for_load"}
      BY DEF OnEmpty
    <3>2. Still(t)
      BY <1>2, <2>1, <3>1 DEF TryPop, Goto
    <3> QED
      BY <1>2, <2>1, <3>2, StillCounts DEF TryPop
  <2>2. CASE jobs # <<>>
    <3> DEFINE job == jobs[Len(jobs)]
    <3>1. job \in Job /\ job # NoJob /\ Len(jobs) > 0
      BY <2>2, NoJobAssumption
    <3>2. /\ cur[t] = NoJob /\ cur'[t] = job /\ pc'[t] \in {"claim", "body"}
          /\ Len(jobs') = Len(jobs) - 1 /\ queued' = queued - 1
          /\ pending' = pending /\ sleepers' = sleepers
      BY <1>2, <2>2, <3>1 DEF TryPop, Goto
    <3>3. /\ t \notin Running /\ t \in Running'
          /\ (t \in Counted') = (t \in Counted)
          /\ (t \in Sleeping') = (t \in Sleeping)
      BY <1>2, <3>1, <3>2 DEF TryPop
    <3>4. /\ Cardinality(Running') = Cardinality(Running) + 1
          /\ Cardinality(Counted') = Cardinality(Counted)
          /\ Cardinality(Sleeping') = Cardinality(Sleeping)
      BY <3>3, FrameCounts DEF Moves
    <3>5. Cardinality(Running) \in Nat /\ Cardinality(Counted) \in Nat
      BY FrameCounts
    <3>6. /\ Len(jobs) \in Nat /\ Len(jobs') = Len(jobs) - 1 /\ queued' = queued - 1
          /\ pending' = pending /\ sleepers' = sleepers
      BY <3>1, <3>2
    <3> HIDE <1>0 DEF Running, Counted, Sleeping, job, TypeOK
    <3>7. Counts
      BY <1>0
    <3> QED
      BY <3>4, <3>5, <3>6, <3>7 DEF Counts, Accounting
  <2> QED
    BY <2>1, <2>2
<1>3. CASE BodyReturns(t)
  <2>1. Still(t)
    BY <1>3 DEF BodyReturns, Goto
  <2> QED
    BY <1>3, <2>1, StillCounts DEF BodyReturns, shared
<1>4. CASE JobNotify(t)
  <2>1. Still(t)
    BY <1>4 DEF JobNotify, Goto
  <2> QED
    BY <1>4, <2>1, StillCounts DEF JobNotify, shared
<1>5. CASE JobFinish(t)
  <2>1. AfterJob(t) \in {"loop", "try", "for_load"}
    BY DEF AfterJob
  <2>2. /\ t \in Running /\ t \notin Running'
        /\ (t \in Counted') = (t \in Counted)
        /\ (t \in Sleeping') = (t \in Sleeping)
    BY <1>5, <2>1, NoJobAssumption DEF JobFinish
  <2>3. /\ Cardinality(Running') = Cardinality(Running) - 1
        /\ Cardinality(Counted') = Cardinality(Counted)
        /\ Cardinality(Sleeping') = Cardinality(Sleeping)
    BY <2>2, FrameCounts DEF Moves
  <2> HIDE DEF Running, Counted, Sleeping
  <2> QED
    BY <1>5, <2>3, FrameCounts DEF JobFinish, Counts, Accounting
<1> QED
  BY <1>1, <1>2, <1>3, <1>4, <1>5 DEF JobStep

LEMMA CountParallel ==
  ASSUME IInv, NEW t \in Threads, ParallelStep(t)
  PROVE  Counts'
<1>0. CtlAt(t) /\ Frame(t) /\ Counts /\ TypeOK
  BY FrameStep DEF StepOf, IInv, CtlInv, Counts
<1> USE <1>0 DEF TypeOK, DataOK, PcOK, Still, Running, Counted, Sleeping, InSleep, CtlAt, PushPc, ParPc, MainPc, WorkerPc
<1>1. CASE PushHelpers(t)
  <2>1. Still(t)
    BY <1>1 DEF PushHelpers, Goto
  <2> QED
    BY <1>1, <2>1, StillCounts DEF PushHelpers, shared
<1>2. CASE Claim(t)
  <2>1. Still(t)
    BY <1>2 DEF Claim, Goto
  <2> QED
    BY <1>2, <2>1, StillCounts DEF Claim, shared
<1>3. CASE CallFn(t)
  <2>1. Still(t)
    BY <1>3 DEF CallFn, Goto
  <2> QED
    BY <1>3, <2>1, StillCounts DEF CallFn, shared
<1>4. CASE CountDone(t)
  <2>1. Still(t)
    BY <1>4 DEF CountDone, Goto
  <2> QED
    BY <1>4, <2>1, StillCounts DEF CountDone, shared
<1>5. CASE ParLoad(t)
  <2>1. Still(t)
    BY <1>5 DEF ParLoad, Goto
  <2> QED
    BY <1>5, <2>1, StillCounts DEF ParLoad, shared
<1>6. CASE ParWait(t)
  <2>1. Still(t)
    BY <1>6 DEF ParWait, Goto
  <2> QED
    BY <1>6, <2>1, StillCounts DEF ParWait, shared
<1> QED
  BY <1>1, <1>2, <1>3, <1>4, <1>5, <1>6 DEF ParallelStep

LEMMA CountStart ==
  ASSUME IInv, NEW t \in Threads, StartParallel(t)
  PROVE  Counts'
<1>1. Frame(t) /\ TypeOK /\ Counts
  BY FrameStep DEF StepOf, IInv, Counts
<1>2. PICK c \in Calls, n \in 2..MaxN : ParallelFor(t, c, n)
  BY DEF StartParallel
<1>3. Still(t)
  BY <1>1, <1>2 DEF TypeOK, DataOK, PcOK, ParallelFor, Goto, Still, Running, Counted,
                    Sleeping, InSleep
<1> QED
  BY <1>1, <1>2, <1>3, StillCounts DEF ParallelFor, shared

LEMMA CountWorker ==
  ASSUME IInv, NEW t \in Workers, WorkerStep(t)
  PROVE  Counts'
<1>a. t \in Threads
  BY DEF Threads
<1>0. CtlAt(t) /\ Frame(t) /\ Counts /\ TypeOK
  BY <1>a, FrameStep DEF StepOf, IInv, CtlInv, Counts
<1> USE <1>0, <1>a DEF TypeOK, DataOK, PcOK, Still, Running, Counted, Sleeping, InSleep, CtlAt, PushPc, ParPc, MainPc, WorkerPc
<1>1. CASE WorkerLoop(t)
  <2>1. Still(t)
    BY <1>1 DEF WorkerLoop, Goto
  <2> QED
    BY <1>1, <2>1, StillCounts DEF WorkerLoop, shared
<1>2. CASE Spin(t)
  <2>1. Still(t)
    BY <1>2 DEF Spin, Goto
  <2> QED
    BY <1>2, <2>1, StillCounts DEF Spin, shared
<1>3. CASE SleepCount(t)
  <2>1. /\ (t \in Running') = (t \in Running)
        /\ (t \in Counted') = (t \in Counted)
        /\ t \notin Sleeping /\ t \in Sleeping'
    BY <1>3 DEF SleepCount, Goto
  <2>2. /\ Cardinality(Running') = Cardinality(Running)
        /\ Cardinality(Counted') = Cardinality(Counted)
        /\ Cardinality(Sleeping') = Cardinality(Sleeping) + 1
    BY <2>1, FrameCounts DEF Moves
  <2> HIDE DEF Running, Counted, Sleeping
  <2> QED
    BY <1>3, <2>2, FrameCounts DEF SleepCount, Counts, Accounting
<1>4. CASE SleepEpoch(t)
  <2>1. Still(t)
    BY <1>4 DEF SleepEpoch, Goto
  <2> QED
    BY <1>4, <2>1, StillCounts DEF SleepEpoch, shared
<1>5. CASE SleepQueued(t)
  <2>1. Still(t)
    BY <1>5 DEF SleepQueued, Goto
  <2> QED
    BY <1>5, <2>1, StillCounts DEF SleepQueued, shared
<1>6. CASE SleepStopping(t)
  <2>1. Still(t)
    BY <1>6 DEF SleepStopping, Goto
  <2> QED
    BY <1>6, <2>1, StillCounts DEF SleepStopping, shared
<1>7. CASE SleepWait(t)
  <2>1. Still(t)
    BY <1>7 DEF SleepWait, Goto
  <2> QED
    BY <1>7, <2>1, StillCounts DEF SleepWait, shared
<1>8. CASE SleepLeave(t)
  <2>1. /\ (t \in Running') = (t \in Running)
        /\ (t \in Counted') = (t \in Counted)
        /\ t \in Sleeping /\ t \notin Sleeping'
    BY <1>8 DEF SleepLeave, Goto
  <2>2. /\ Cardinality(Running') = Cardinality(Running)
        /\ Cardinality(Counted') = Cardinality(Counted)
        /\ Cardinality(Sleeping') = Cardinality(Sleeping) - 1
    BY <2>1, FrameCounts DEF Moves
  <2> HIDE DEF Running, Counted, Sleeping
  <2> QED
    BY <1>8, <2>2, FrameCounts DEF SleepLeave, Counts, Accounting
<1> QED
  BY <1>1, <1>2, <1>3, <1>4, <1>5, <1>6, <1>7, <1>8 DEF WorkerStep

LEMMA CountMain ==
  ASSUME IInv, MainStep \/ UserStep
  PROVE  Counts'
<1>0. CtlAt(Main) /\ Frame(Main) /\ Counts /\ TypeOK /\ Main \in Threads
  BY FrameStep DEF StepOf, IInv, CtlInv, Counts, Threads
<1> USE <1>0 DEF TypeOK, DataOK, PcOK, Still, Running, Counted, Sleeping, InSleep, CtlAt, PushPc, ParPc, MainPc, WorkerPc
<1>1. CASE TillLoad
  <2>1. Still(Main)
    BY <1>1 DEF TillLoad, Goto
  <2> QED
    BY <1>1, <2>1, StillCounts DEF TillLoad, shared
<1>2. CASE TillWait
  <2>1. Still(Main)
    BY <1>2 DEF TillWait, Goto
  <2> QED
    BY <1>2, <2>1, StillCounts DEF TillWait, shared
<1>3. CASE ForLoad
  <2>1. Still(Main)
    BY <1>3 DEF ForLoad, Goto
  <2> QED
    BY <1>3, <2>1, StillCounts DEF ForLoad, shared
<1>4. CASE DeinitEpoch
  <2>1. Still(Main)
    BY <1>4 DEF DeinitEpoch, Goto
  <2> QED
    BY <1>4, <2>1, StillCounts DEF DeinitEpoch, shared
<1>5. CASE DeinitNotify
  <2>1. Still(Main)
    BY <1>5 DEF DeinitNotify, Goto
  <2> QED
    BY <1>5, <2>1, StillCounts DEF DeinitNotify, shared
<1>6. CASE DeinitJoin
  <2>1. Len(jobs) = 0 /\ jobs = <<>>
    <3>1. pending = 0
      BY <1>6 DEF DeinitJoin, IInv, EndInv, Stopping
    <3>2. Cardinality(Running) \in Nat /\ Cardinality(Counted) \in Nat
      BY FrameCounts
    <3> HIDE DEF Running, Counted, Sleeping
    <3> QED
      BY <3>1, <3>2 DEF Counts, Accounting
  <2>2. Still(Main)
    BY <1>6 DEF DeinitJoin, Goto
  <2> QED
    BY <1>6, <2>1, <2>2, StillCounts DEF DeinitJoin
<1>7. CASE UserWaitTillDone
  <2>1. Still(Main)
    BY <1>7 DEF UserWaitTillDone, Goto, AtUser
  <2> QED
    BY <1>7, <2>1, StillCounts DEF UserWaitTillDone, shared
<1>8. CASE UserDeinit
  <2>1. Still(Main)
    BY <1>8 DEF UserDeinit, Goto
  <2> QED
    BY <1>8, <2>1, StillCounts DEF UserDeinit, shared
<1>9. CASE \E j \in Tasks : UserPush(j)
  <2>1. Still(Main)
    BY <1>9 DEF UserPush, Goto, AtUser
  <2> QED
    BY <1>9, <2>1, StillCounts DEF UserPush, shared
<1>10. CASE \E j \in Tasks : UserWaitFor(j)
  <2>1. Still(Main)
    BY <1>10 DEF UserWaitFor, Goto, AtUser
  <2> QED
    BY <1>10, <2>1, StillCounts DEF UserWaitFor, shared
<1> QED
  BY <1>1, <1>2, <1>3, <1>4, <1>5, <1>6, <1>7, <1>8, <1>9, <1>10 DEF MainStep, UserStep

LEMMA CountStep ==
  ASSUME IInv, NEW t \in Threads, StepOf(t)
  PROVE  Counts'
  BY CountPush, CountJob, CountParallel, CountStart, CountWorker, CountMain DEF StepOf

\* While pending is 0 nothing is queued, being queued or run.
LEMMA NothingPending ==
  ASSUME IInv, pending = 0
  PROVE  jobs = <<>> /\ Running = {} /\ Counted = {}
<1>1. /\ Cardinality(Running) \in Nat /\ Cardinality(Counted) \in Nat
      /\ Running \in SUBSET Threads /\ Counted \in SUBSET Threads
  <2>1. Running \in SUBSET Threads /\ Counted \in SUBSET Threads
    BY DEF Running, Counted
  <2>2. Main \in Threads
    BY DEF Threads
  <2> QED
    BY <2>1, <2>2, CountThreads
<1>2. Len(jobs) = 0 /\ Cardinality(Running) = 0 /\ Cardinality(Counted) = 0
  <2>1. Len(jobs) \in Nat
    BY DEF IInv, TypeOK, DataOK
  <2> QED
    BY <1>1, <2>1 DEF IInv, Accounting
<1>3. \A t \in Threads : t \notin Running /\ t \notin Counted
  <2> SUFFICES ASSUME NEW t \in Threads PROVE t \notin Running /\ t \notin Counted
    OBVIOUS
  <2>1. t \in Running => Cardinality(Running) > 0
    BY <1>1, CountThreads
  <2>2. t \in Counted => Cardinality(Counted) > 0
    BY <1>1, CountThreads
  <2> QED
    BY <1>2, <2>1, <2>2
<1>4. jobs = <<>>
  BY <1>2 DEF IInv, TypeOK, DataOK
<1> QED
  BY <1>1, <1>3, <1>4

\* Only a push and the end of a job move pending, and only deinit sets stopping.
LEMMA PendingPush ==
  ASSUME NEW t, PushStep(t)
  PROVE  (pending' = pending \/ PushPending(t) \/ JobFinish(t)) /\ stopping' = stopping
  BY DEF PushStep, shared, PushPending, PushQueue, PushEpoch, PushSleepers, PushNotify

LEMMA PendingJob ==
  ASSUME NEW t, JobStep(t)
  PROVE  (pending' = pending \/ PushPending(t) \/ JobFinish(t)) /\ stopping' = stopping
  BY DEF JobStep, shared, TryLoad, TryPop, BodyReturns, JobNotify, JobFinish

LEMMA PendingParallel ==
  ASSUME NEW t, ParallelStep(t)
  PROVE  (pending' = pending \/ PushPending(t) \/ JobFinish(t)) /\ stopping' = stopping
  BY DEF ParallelStep, shared, PushHelpers, Claim, CallFn, CountDone, ParLoad, ParWait

LEMMA PendingOthers ==
  ASSUME NEW t, StartParallel(t) \/ WorkerStep(t)
  PROVE  pending' = pending /\ stopping' = stopping
  BY DEF StartParallel, ParallelFor, WorkerStep, shared, WorkerLoop, Spin, SleepCount, SleepEpoch, SleepQueued, SleepStopping, SleepWait, SleepLeave

LEMMA PendingMain ==
  ASSUME MainStep \/ UserStep
  PROVE  pending' = pending /\ (stopping' = stopping \/ UserDeinit)
  BY DEF MainStep, UserStep, shared, TillLoad, TillWait, ForLoad, DeinitEpoch, DeinitNotify, DeinitJoin, UserWaitTillDone, UserDeinit, UserPush, UserWaitFor

\* How main gets to the places where nothing is pending, and stays there.
LEMMA MainPlaces ==
  ASSUME IInv, MainStep \/ UserStep
  PROVE  /\ pc'[Main] \in {"drained"} \cup Stopping =>
              pc[Main] \in {"drained"} \cup Stopping \/ pending = 0
         /\ pc[Main] \in Stopping => pc'[Main] \in Stopping
         /\ UserDeinit => pc'[Main] \in Stopping
  BY DEF IInv, TypeOK, PcOK, Threads, Goto, AtUser, Stopping, MainStep, UserStep, TillLoad, TillWait, ForLoad, DeinitEpoch, DeinitNotify, DeinitJoin, UserWaitTillDone, UserDeinit, UserPush, UserWaitFor

\* The other steps a thread takes lead to none of those places.
LEMMA OwnPlaces ==
  ASSUME IInv, NEW t \in Threads,
         PushStep(t) \/ JobStep(t) \/ ParallelStep(t) \/ StartParallel(t)
  PROVE  /\ pc'[t] \in Stopping \cup {"drained"} => FALSE
         /\ pc[t] \notin Stopping
<1> USE DEF IInv, TypeOK, PcOK, Goto, Stopping
<1>1. CASE PushStep(t)
  <2>1. AfterPush(t) \in {"user", "helpers"}
    BY DEF AfterPush
  <2>2. CASE PushNotify(t)
    <3>1. pc'[t] = AfterPush(t)
      BY <2>2 DEF PushNotify, Asleep
    <3> QED
      BY <2>1, <2>2, <3>1 DEF PushNotify
  <2> QED
    BY <1>1, <2>1, <2>2 DEF PushStep, PushPending, PushQueue, PushEpoch, PushSleepers
<1>2. CASE JobStep(t)
  <2>1. OnEmpty(t) \in {"spin", "till_load", "for_load"} /\ AfterJob(t) \in {"loop", "try", "for_load"}
    BY DEF OnEmpty, AfterJob
  <2> QED
    BY <1>2, <2>1 DEF JobStep, TryLoad, TryPop, BodyReturns, JobNotify, JobFinish
<1>3. CASE ParallelStep(t)
  BY <1>3 DEF ParallelStep, PushHelpers, Claim, CallFn, CountDone, ParLoad, ParWait
<1>4. CASE StartParallel(t)
  BY <1>4 DEF StartParallel, ParallelFor
<1> QED
  BY <1>1, <1>2, <1>3, <1>4

LEMMA EndStep ==
  ASSUME IInv, NEW t \in Threads, StepOf(t)
  PROVE  EndInv'
<1>0. Frame(t) /\ CtlAt(t) /\ EndInv
  BY FrameStep DEF IInv, CtlInv
<1>1. CASE t = Main /\ (MainStep \/ UserStep)
  BY <1>0, <1>1, PendingMain, MainPlaces DEF EndInv
<1>2. CASE t \in Workers /\ WorkerStep(t)
  <2>1. Main \in Threads \ {t}
    BY <1>2, WorkersAssumption DEF Threads
  <2>2. \/ pc'[Main] = pc[Main]
        \/ /\ pc'[Main] \in {"sleep_wait", "till_wait", "par_wait"}
           /\ pc[Main] \in {"asleep", "till_asleep", "par_asleep"}
    BY <1>0, <2>1 DEF Frame, Woken
  <2> QED
    BY <1>0, <1>2, <2>2, PendingOthers DEF EndInv, Stopping
<1>3. CASE PushStep(t) \/ JobStep(t) \/ ParallelStep(t) \/ StartParallel(t)
  <2>1. (pending' = pending \/ PushPending(t) \/ JobFinish(t)) /\ stopping' = stopping
    BY <1>3, PendingPush, PendingJob, PendingParallel, PendingOthers
  <2>2. CASE t = Main
    BY <1>0, <1>3, <2>1, <2>2, OwnPlaces DEF EndInv
  <2>3. CASE t # Main
    <3>1. Main \in Threads \ {t}
      BY <2>3 DEF Threads
    <3>2. \/ pc'[Main] = pc[Main]
          \/ /\ pc'[Main] \in {"sleep_wait", "till_wait", "par_wait"}
             /\ pc[Main] \in {"asleep", "till_asleep", "par_asleep"}
      BY <1>0, <3>1 DEF Frame, Woken
    <3>3. PushPending(t) \/ JobFinish(t) => cur[t] # NoJob
      BY <1>0, <2>3, NoJobAssumption, CtlOf DEF CtlAt, PushPending, JobFinish, PushPc, Job
    <3>4. pending = 0 => cur[t] = NoJob
      BY NothingPending DEF Running
    <3> QED
      BY <1>0, <2>1, <3>2, <3>3, <3>4 DEF EndInv, Stopping
  <2> QED
    BY <2>2, <2>3
<1> QED
  BY <1>1, <1>2, <1>3 DEF StepOf

Held(j) ==
  \/ \E i \in DOMAIN jobs : jobs[i] = Task(j)
  \/ \E t \in Threads : pushing[t] = Task(j)
  \/ \E t \in Threads : cur[t] = Task(j) /\ pc[t] # "finish"

\* A step that hands nothing on leaves every task where it is held.
LEMMA TaskSame ==
  ASSUME TaskInv, NEW t \in Threads, Frame(t), UNCHANGED <<notifier, jobs>>,
         pushing'[t] = pushing[t], cur'[t] = cur[t], pc'[t] # "finish"
  PROVE  TaskInv'
<1> SUFFICES ASSUME NEW j \in Tasks, Held(j) PROVE Held(j)'
  BY DEF TaskInv, Held
<1>1. ASSUME NEW i \in DOMAIN jobs, jobs[i] = Task(j) PROVE Held(j)'
  BY <1>1 DEF Held
<1>2. ASSUME NEW u \in Threads, pushing[u] = Task(j) PROVE Held(j)'
  <2>1. pushing'[u] = Task(j)
    BY <1>2 DEF Frame
  <2> QED
    BY <2>1 DEF Held
<1>3. ASSUME NEW u \in Threads, cur[u] = Task(j), pc[u] # "finish" PROVE Held(j)'
  <2>1. cur'[u] = Task(j) /\ pc'[u] # "finish"
    BY <1>3 DEF Frame, Woken
  <2> QED
    BY <2>1 DEF Held
<1> QED
  BY <1>1, <1>2, <1>3 DEF Held


\* A task stays held until its notifier is set.
LEMMA TaskPush ==
  ASSUME IInv, NEW t \in Threads, PushStep(t)
  PROVE  TaskInv'
<1>0. CtlAt(t) /\ Frame(t) /\ TaskInv /\ TypeOK
  BY FrameStep DEF StepOf, IInv, CtlInv
<1> USE <1>0 DEF TypeOK, DataOK, PcOK
<1>1. CASE PushPending(t)
  <2>1. /\ UNCHANGED <<notifier, jobs>> /\ pushing'[t] = pushing[t] /\ cur'[t] = cur[t]
        /\ pc'[t] # "finish"
    BY <1>1 DEF PushPending, Goto, shared
  <2> QED
    BY <2>1, TaskSame
<1>2. CASE PushQueue(t)
  <2> SUFFICES ASSUME NEW j \in Tasks, notifier'[j] = "unset" PROVE Held(j)'
    BY DEF TaskInv, Held
  <2>1. Held(j)
    BY <1>2 DEF PushQueue, TaskInv, Held
  <2>2. jobs' = Append(jobs, pushing[t]) /\ cur' = cur /\ pc'[t] = "push_epoch"
    BY <1>2 DEF PushQueue, Goto
  <2>3. /\ Len(jobs) + 1 \in DOMAIN jobs' /\ jobs'[Len(jobs) + 1] = pushing[t]
        /\ \A i \in DOMAIN jobs : i \in DOMAIN jobs' /\ jobs'[i] = jobs[i]
    BY <1>2, <2>2 DEF CtlAt, PushQueue
  <2>4. ASSUME NEW i \in DOMAIN jobs, jobs[i] = Task(j) PROVE Held(j)'
    BY <2>3, <2>4 DEF Held
  <2>5. ASSUME NEW u \in Threads, pushing[u] = Task(j) PROVE Held(j)'
    <3>1. CASE u = t
      BY <2>3, <2>5, <3>1 DEF Held
    <3>2. CASE u # t
      BY <2>5, <3>2 DEF Held, Frame
    <3> QED
      BY <3>1, <3>2
  <2>6. ASSUME NEW u \in Threads, cur[u] = Task(j), pc[u] # "finish" PROVE Held(j)'
    <3>1. cur'[u] = Task(j) /\ pc'[u] # "finish"
      BY <2>2, <2>6 DEF Frame, Woken
    <3> QED
      BY <3>1 DEF Held
  <2> QED
    BY <2>1, <2>4, <2>5, <2>6 DEF Held
<1>3. CASE PushEpoch(t)
  <2>1. /\ UNCHANGED <<notifier, jobs>> /\ pushing'[t] = pushing[t] /\ cur'[t] = cur[t]
        /\ pc'[t] # "finish"
    BY <1>3 DEF PushEpoch, Goto, shared
  <2> QED
    BY <2>1, TaskSame
<1>4. CASE PushSleepers(t)
  <2>1. /\ UNCHANGED <<notifier, jobs>> /\ pushing'[t] = pushing[t] /\ cur'[t] = cur[t]
        /\ pc'[t] # "finish"
    BY <1>4 DEF PushSleepers, Goto, shared, AfterPush
  <2> QED
    BY <2>1, TaskSame
<1>5. CASE PushNotify(t)
  <2>1. /\ UNCHANGED <<notifier, jobs>> /\ pushing'[t] = pushing[t] /\ cur'[t] = cur[t]
        /\ pc'[t] # "finish"
    BY <1>5 DEF PushNotify, Goto, shared, AfterPush, Asleep
  <2> QED
    BY <2>1, TaskSame
<1> QED
  BY <1>1, <1>2, <1>3, <1>4, <1>5 DEF PushStep

LEMMA TaskJob ==
  ASSUME IInv, NEW t \in Threads, JobStep(t)
  PROVE  TaskInv'
<1>0. CtlAt(t) /\ Frame(t) /\ TaskInv /\ TypeOK
  BY FrameStep DEF StepOf, IInv, CtlInv
<1> USE <1>0 DEF TypeOK, DataOK, PcOK
<1>1. CASE TryLoad(t)
  <2>1. /\ UNCHANGED <<notifier, jobs>> /\ pushing'[t] = pushing[t] /\ cur'[t] = cur[t]
        /\ pc'[t] # "finish"
    BY <1>1 DEF TryLoad, Goto, shared, OnEmpty
  <2> QED
    BY <2>1, TaskSame
<1>2. CASE TryPop(t)
  <2>1. CASE jobs = <<>>
    <3>1. OnEmpty(t) # "finish"
      BY DEF OnEmpty
    <3>2. /\ UNCHANGED <<notifier, jobs>> /\ pushing'[t] = pushing[t] /\ cur'[t] = cur[t]
          /\ pc'[t] # "finish"
      BY <1>2, <2>1, <3>1 DEF TryPop, Goto
    <3> QED
      BY <3>2, TaskSame
  <2>2. CASE jobs # <<>>
    <3>1. /\ jobs' = SubSeq(jobs, 1, Len(jobs) - 1) /\ notifier' = notifier
          /\ cur'[t] = jobs[Len(jobs)] /\ pc'[t] \in {"claim", "body"} /\ pushing' = pushing
          /\ cur[t] = NoJob
      BY <1>2, <2>2 DEF TryPop, Goto, CtlAt
    <3>2. \A i \in DOMAIN jobs : i = Len(jobs) \/ (i \in DOMAIN jobs' /\ jobs'[i] = jobs[i])
      BY <3>1
    <3> SUFFICES ASSUME NEW j \in Tasks, Held(j) PROVE Held(j)'
      BY <3>1 DEF TaskInv, Held
    <3>3. ASSUME NEW i \in DOMAIN jobs, jobs[i] = Task(j) PROVE Held(j)'
      <4>1. CASE i = Len(jobs)
        <5>1. cur'[t] = Task(j) /\ pc'[t] # "finish"
          BY <3>1, <3>3, <4>1
        <5> QED
          BY <5>1 DEF Held
      <4>2. CASE i \in DOMAIN jobs' /\ jobs'[i] = jobs[i]
        BY <3>3, <4>2 DEF Held
      <4> QED
        BY <3>2, <4>1, <4>2
    <3>4. ASSUME NEW u \in Threads, pushing[u] = Task(j) PROVE Held(j)'
      BY <3>1, <3>4 DEF Held
    <3>5. ASSUME NEW u \in Threads, cur[u] = Task(j), pc[u] # "finish" PROVE Held(j)'
      <4>1. u # t
        BY <3>1, <3>5, NoJobAssumption DEF Job
      <4>2. cur'[u] = Task(j) /\ pc'[u] # "finish"
        BY <3>5, <4>1 DEF Frame, Woken
      <4> QED
        BY <4>2 DEF Held
    <3> QED
      BY <3>3, <3>4, <3>5 DEF Held
  <2> QED
    BY <2>1, <2>2
<1>3. CASE BodyReturns(t)
  <2>1. /\ UNCHANGED <<notifier, jobs>> /\ pushing'[t] = pushing[t] /\ cur'[t] = cur[t]
        /\ pc'[t] # "finish"
    BY <1>3 DEF BodyReturns, Goto, shared
  <2> QED
    BY <2>1, TaskSame
<1>4. CASE JobNotify(t)
  <2> SUFFICES ASSUME NEW j \in Tasks, notifier'[j] = "unset" PROVE Held(j)'
    BY DEF TaskInv, Held
  <2>1. /\ jobs' = jobs /\ pushing' = pushing /\ cur' = cur
        /\ cur[t].kind = "task" => notifier' = [notifier EXCEPT ![cur[t].id] = "set"]
        /\ cur[t].kind # "task" => notifier' = notifier
    BY <1>4 DEF JobNotify, shared
  <2>2. notifier[j] = "unset" /\ cur[t] # Task(j)
    BY <2>1 DEF Task
  <2>3. ASSUME NEW u \in Threads, cur[u] = Task(j), pc[u] # "finish" PROVE Held(j)'
    <3>1. cur'[u] = Task(j) /\ pc'[u] # "finish"
      BY <2>2, <2>3 DEF Frame, Woken
    <3> QED
      BY <3>1 DEF Held
  <2> QED
    BY <2>1, <2>2, <2>3 DEF TaskInv, Held
<1>5. CASE JobFinish(t)
  <2> SUFFICES ASSUME NEW j \in Tasks, Held(j) PROVE Held(j)'
    BY <1>5 DEF JobFinish, TaskInv, Held
  <2>1. jobs' = jobs /\ pushing' = pushing /\ pc[t] = "finish"
    BY <1>5 DEF JobFinish
  <2>2. ASSUME NEW u \in Threads, cur[u] = Task(j), pc[u] # "finish" PROVE Held(j)'
    <3>1. cur'[u] = Task(j) /\ pc'[u] # "finish"
      BY <2>1, <2>2 DEF Frame, Woken
    <3> QED
      BY <3>1 DEF Held
  <2> QED
    BY <2>1, <2>2 DEF Held
<1> QED
  BY <1>1, <1>2, <1>3, <1>4, <1>5 DEF JobStep

LEMMA TaskParallel ==
  ASSUME IInv, NEW t \in Threads, ParallelStep(t)
  PROVE  TaskInv'
<1>0. CtlAt(t) /\ Frame(t) /\ TaskInv /\ TypeOK
  BY FrameStep DEF StepOf, IInv, CtlInv
<1> USE <1>0 DEF TypeOK, DataOK, PcOK
<1>1. CASE PushHelpers(t)
  <2> SUFFICES ASSUME NEW j \in Tasks, Held(j) PROVE Held(j)'
    BY <1>1 DEF PushHelpers, TaskInv, Held
  <2>1. /\ jobs' = jobs /\ cur' = cur /\ pc'[t] \in {"claim", "push_pending"}
        /\ pushing[t] = NoJob
    BY <1>1 DEF PushHelpers, shared, Goto, CtlAt
  <2>2. ASSUME NEW u \in Threads, pushing[u] = Task(j) PROVE Held(j)'
    <3>1. u # t
      BY <2>1, <2>2, NoJobAssumption DEF Job
    <3>2. pushing'[u] = Task(j)
      BY <2>2, <3>1 DEF Frame
    <3> QED
      BY <3>2 DEF Held
  <2>3. ASSUME NEW u \in Threads, cur[u] = Task(j), pc[u] # "finish" PROVE Held(j)'
    <3>1. cur'[u] = Task(j) /\ pc'[u] # "finish"
      BY <2>1, <2>3 DEF Frame, Woken
    <3> QED
      BY <3>1 DEF Held
  <2> QED
    BY <2>1, <2>2, <2>3 DEF Held
<1>2. CASE Claim(t)
  <2>1. /\ UNCHANGED <<notifier, jobs>> /\ pushing'[t] = pushing[t] /\ cur'[t] = cur[t]
        /\ pc'[t] # "finish"
    BY <1>2 DEF Claim, Goto, shared
  <2> QED
    BY <2>1, TaskSame
<1>3. CASE CallFn(t)
  <2>1. /\ UNCHANGED <<notifier, jobs>> /\ pushing'[t] = pushing[t] /\ cur'[t] = cur[t]
        /\ pc'[t] # "finish"
    BY <1>3 DEF CallFn, Goto, shared
  <2> QED
    BY <2>1, TaskSame
<1>4. CASE CountDone(t)
  <2>1. /\ UNCHANGED <<notifier, jobs>> /\ pushing'[t] = pushing[t] /\ cur'[t] = cur[t]
        /\ pc'[t] # "finish"
    BY <1>4 DEF CountDone, Goto, shared
  <2> QED
    BY <2>1, TaskSame
<1>5. CASE ParLoad(t)
  <2>1. /\ UNCHANGED <<notifier, jobs>> /\ pushing'[t] = pushing[t] /\ cur'[t] = cur[t]
        /\ pc'[t] # "finish"
    BY <1>5 DEF ParLoad, Goto, shared
  <2> QED
    BY <2>1, TaskSame
<1>6. CASE ParWait(t)
  <2>1. /\ UNCHANGED <<notifier, jobs>> /\ pushing'[t] = pushing[t] /\ cur'[t] = cur[t]
        /\ pc'[t] # "finish"
    BY <1>6 DEF ParWait, Goto, shared
  <2> QED
    BY <2>1, TaskSame
<1> QED
  BY <1>1, <1>2, <1>3, <1>4, <1>5, <1>6 DEF ParallelStep

LEMMA TaskStart ==
  ASSUME IInv, NEW t \in Threads, StartParallel(t)
  PROVE  TaskInv'
<1>1. Frame(t) /\ TypeOK /\ TaskInv
  BY FrameStep DEF StepOf, IInv
<1>2. PICK c \in Calls, n \in 2..MaxN : ParallelFor(t, c, n)
  BY DEF StartParallel
<1>3. /\ UNCHANGED <<notifier, jobs>> /\ pushing'[t] = pushing[t] /\ cur'[t] = cur[t]
      /\ pc'[t] # "finish"
  BY <1>1, <1>2 DEF TypeOK, PcOK, ParallelFor, Goto, shared
<1> QED
  BY <1>1, <1>3, TaskSame

LEMMA TaskWorker ==
  ASSUME IInv, NEW t \in Workers, WorkerStep(t)
  PROVE  TaskInv'
<1>a. t \in Threads
  BY DEF Threads
<1>0. CtlAt(t) /\ Frame(t) /\ TaskInv /\ TypeOK
  BY <1>a, FrameStep DEF StepOf, IInv, CtlInv
<1> USE <1>0, <1>a DEF TypeOK, DataOK, PcOK
<1>1. CASE WorkerLoop(t)
  <2>1. /\ UNCHANGED <<notifier, jobs>> /\ pushing'[t] = pushing[t] /\ cur'[t] = cur[t]
        /\ pc'[t] # "finish"
    BY <1>1 DEF WorkerLoop, Goto, shared
  <2> QED
    BY <2>1, TaskSame
<1>2. CASE Spin(t)
  <2>1. /\ UNCHANGED <<notifier, jobs>> /\ pushing'[t] = pushing[t] /\ cur'[t] = cur[t]
        /\ pc'[t] # "finish"
    BY <1>2 DEF Spin, Goto, shared
  <2> QED
    BY <2>1, TaskSame
<1>3. CASE SleepCount(t)
  <2>1. /\ UNCHANGED <<notifier, jobs>> /\ pushing'[t] = pushing[t] /\ cur'[t] = cur[t]
        /\ pc'[t] # "finish"
    BY <1>3 DEF SleepCount, Goto, shared
  <2> QED
    BY <2>1, TaskSame
<1>4. CASE SleepEpoch(t)
  <2>1. /\ UNCHANGED <<notifier, jobs>> /\ pushing'[t] = pushing[t] /\ cur'[t] = cur[t]
        /\ pc'[t] # "finish"
    BY <1>4 DEF SleepEpoch, Goto, shared
  <2> QED
    BY <2>1, TaskSame
<1>5. CASE SleepQueued(t)
  <2>1. /\ UNCHANGED <<notifier, jobs>> /\ pushing'[t] = pushing[t] /\ cur'[t] = cur[t]
        /\ pc'[t] # "finish"
    BY <1>5 DEF SleepQueued, Goto, shared
  <2> QED
    BY <2>1, TaskSame
<1>6. CASE SleepStopping(t)
  <2>1. /\ UNCHANGED <<notifier, jobs>> /\ pushing'[t] = pushing[t] /\ cur'[t] = cur[t]
        /\ pc'[t] # "finish"
    BY <1>6 DEF SleepStopping, Goto, shared
  <2> QED
    BY <2>1, TaskSame
<1>7. CASE SleepWait(t)
  <2>1. /\ UNCHANGED <<notifier, jobs>> /\ pushing'[t] = pushing[t] /\ cur'[t] = cur[t]
        /\ pc'[t] # "finish"
    BY <1>7 DEF SleepWait, Goto, shared
  <2> QED
    BY <2>1, TaskSame
<1>8. CASE SleepLeave(t)
  <2>1. /\ UNCHANGED <<notifier, jobs>> /\ pushing'[t] = pushing[t] /\ cur'[t] = cur[t]
        /\ pc'[t] # "finish"
    BY <1>8 DEF SleepLeave, Goto, shared
  <2> QED
    BY <2>1, TaskSame
<1> QED
  BY <1>1, <1>2, <1>3, <1>4, <1>5, <1>6, <1>7, <1>8 DEF WorkerStep

LEMMA TaskMain ==
  ASSUME IInv, MainStep \/ UserStep
  PROVE  TaskInv'
<1>0. CtlAt(Main) /\ Frame(Main) /\ TaskInv /\ TypeOK /\ Main \in Threads
  BY FrameStep DEF StepOf, IInv, CtlInv, Threads
<1> USE <1>0 DEF TypeOK, DataOK, PcOK
<1>1. CASE TillLoad
  <2>1. /\ UNCHANGED <<notifier, jobs>> /\ pushing'[Main] = pushing[Main] /\ cur'[Main] = cur[Main]
        /\ pc'[Main] # "finish"
    BY <1>1 DEF TillLoad, Goto, shared, AtUser
  <2> QED
    BY <2>1, TaskSame
<1>2. CASE TillWait
  <2>1. /\ UNCHANGED <<notifier, jobs>> /\ pushing'[Main] = pushing[Main] /\ cur'[Main] = cur[Main]
        /\ pc'[Main] # "finish"
    BY <1>2 DEF TillWait, Goto, shared, AtUser
  <2> QED
    BY <2>1, TaskSame
<1>3. CASE ForLoad
  <2>1. /\ UNCHANGED <<notifier, jobs>> /\ pushing'[Main] = pushing[Main] /\ cur'[Main] = cur[Main]
        /\ pc'[Main] # "finish"
    BY <1>3 DEF ForLoad, Goto, shared, AtUser
  <2> QED
    BY <2>1, TaskSame
<1>4. CASE DeinitEpoch
  <2>1. /\ UNCHANGED <<notifier, jobs>> /\ pushing'[Main] = pushing[Main] /\ cur'[Main] = cur[Main]
        /\ pc'[Main] # "finish"
    BY <1>4 DEF DeinitEpoch, Goto, shared, AtUser
  <2> QED
    BY <2>1, TaskSame
<1>5. CASE DeinitNotify
  <2>1. /\ UNCHANGED <<notifier, jobs>> /\ pushing'[Main] = pushing[Main] /\ cur'[Main] = cur[Main]
        /\ pc'[Main] # "finish"
    BY <1>5 DEF DeinitNotify, Goto, shared, AtUser
  <2> QED
    BY <2>1, TaskSame
<1>6. CASE DeinitJoin
  <2>1. jobs = <<>>
    <3>1. pending = 0
      BY <1>6 DEF DeinitJoin, IInv, EndInv, Stopping
    <3> QED
      BY <3>1, NothingPending
  <2>2. /\ UNCHANGED <<notifier, jobs>> /\ pushing'[Main] = pushing[Main] /\ cur'[Main] = cur[Main]
        /\ pc'[Main] # "finish"
    BY <1>6, <2>1 DEF DeinitJoin, Goto
  <2> QED
    BY <2>2, TaskSame
<1>7. CASE UserWaitTillDone
  <2>1. /\ UNCHANGED <<notifier, jobs>> /\ pushing'[Main] = pushing[Main] /\ cur'[Main] = cur[Main]
        /\ pc'[Main] # "finish"
    BY <1>7 DEF UserWaitTillDone, Goto, shared, AtUser
  <2> QED
    BY <2>1, TaskSame
<1>8. CASE UserDeinit
  <2>1. /\ UNCHANGED <<notifier, jobs>> /\ pushing'[Main] = pushing[Main] /\ cur'[Main] = cur[Main]
        /\ pc'[Main] # "finish"
    BY <1>8 DEF UserDeinit, Goto, shared, AtUser
  <2> QED
    BY <2>1, TaskSame
<1>9. CASE \E j \in Tasks : UserPush(j)
  <2>1. PICK k \in Tasks : UserPush(k)
    BY <1>9
  <2> SUFFICES ASSUME NEW j \in Tasks, notifier'[j] = "unset" PROVE Held(j)'
    BY DEF TaskInv, Held
  <2>2. /\ jobs' = jobs /\ cur' = cur /\ pc'[Main] = "push_pending" /\ pushing[Main] = NoJob
        /\ pushing'[Main] = Task(k) /\ notifier' = [notifier EXCEPT ![k] = "unset"]
    BY <2>1 DEF UserPush, AtUser, Goto, shared, CtlAt
  <2>3. CASE j = k
    BY <2>2, <2>3 DEF Held
  <2>4. CASE j # k
    <3>1. Held(j)
      BY <2>2, <2>4 DEF TaskInv, Held
    <3>2. ASSUME NEW u \in Threads, pushing[u] = Task(j) PROVE Held(j)'
      <4>1. u # Main
        BY <2>2, <3>2, NoJobAssumption DEF Job
      <4>2. pushing'[u] = Task(j)
        BY <3>2, <4>1 DEF Frame
      <4> QED
        BY <4>2 DEF Held
    <3>3. ASSUME NEW u \in Threads, cur[u] = Task(j), pc[u] # "finish" PROVE Held(j)'
      <4>1. cur'[u] = Task(j) /\ pc'[u] # "finish"
        BY <2>2, <3>3 DEF Frame, Woken
      <4> QED
        BY <4>1 DEF Held
    <3> QED
      BY <2>2, <3>1, <3>2, <3>3 DEF Held
  <2> QED
    BY <2>3, <2>4
<1>10. CASE \E j \in Tasks : UserWaitFor(j)
  <2>1. /\ UNCHANGED <<notifier, jobs>> /\ pushing'[Main] = pushing[Main] /\ cur'[Main] = cur[Main]
        /\ pc'[Main] # "finish"
    BY <1>10 DEF UserWaitFor, Goto, shared, AtUser
  <2> QED
    BY <2>1, TaskSame
<1> QED
  BY <1>1, <1>2, <1>3, <1>4, <1>5, <1>6, <1>7, <1>8, <1>9, <1>10 DEF MainStep, UserStep

LEMMA TaskStep ==
  ASSUME IInv, NEW t \in Threads, StepOf(t)
  PROVE  TaskInv'
  BY TaskPush, TaskJob, TaskParallel, TaskStart, TaskWorker, TaskMain DEF StepOf

\* The indices of a call that are being run move only with the thread that steps.
LEMMA FlightCounts ==
  ASSUME NEW t \in Threads, Frame(t), NEW c
  PROVE  Cardinality(InFlight(c)) \in Nat /\ Moves(InFlight(c), InFlight(c)', t)
<1>1. /\ InFlight(c) \in SUBSET Threads /\ InFlight(c)' \in SUBSET Threads
      /\ InFlight(c) \ {t} = InFlight(c)' \ {t}
  BY DEF InFlight, Frame, Woken
<1> QED
  BY <1>1, CountOne DEF Moves

\* A thread inside fn keeps its call from being over.
LEMMA InFlightAlive ==
  ASSUME IInv, NEW t \in Threads, pc[t] \in {"call", "count"}
  PROVE  /\ par[t] \in Calls /\ ~Free(par[t]) /\ calls[par[t]].alive
         /\ calls[par[t]].done < calls[par[t]].n
<1> DEFINE c == par[t]
<1>1. c \in Calls
  BY CtlOf DEF IInv, ParPc
<1>2. ~Free(c)
  BY <1>1 DEF IInv, FreeInv, FreeAt
<1>3. InFlight(c) \in SUBSET Threads /\ t \in InFlight(c)
  BY DEF InFlight
<1>4. Cardinality(InFlight(c)) \in Nat /\ Cardinality(InFlight(c)) > 0
  BY <1>3, CountThreads
<1>5. calls[c].n \in 0..MaxN /\ calls[c].next \in Nat /\ calls[c].done \in Nat
      /\ calls[c].alive \in BOOLEAN
  BY <1>1 DEF IInv, TypeOK, DataOK, State
<1>6. ClaimAt(c)
  BY <1>1 DEF IInv, ClaimInv
<1>7. calls[c].done < calls[c].n
  BY <1>4, <1>5, <1>6, MaxNAssumption DEF ClaimAt, Smaller
<1> QED
  BY <1>1, <1>2, <1>5, <1>6, <1>7 DEF ClaimAt

\* A step that leaves the State blocks and everything that names them alone.
LEMMA FreeKeep ==
  ASSUME FreeInv, NEW t \in Threads, Frame(t), calls' = calls,
         \A c \in Calls : Free(c) => par'[t] # c /\ pushing'[t] # Helper(c),
         \A c \in Calls : Free(c) => \A i \in DOMAIN jobs' : jobs'[i] # Helper(c)
  PROVE  FreeInv'
<1> SUFFICES ASSUME NEW c \in Calls, Free(c)
    PROVE  /\ calls[c]' = Idle
           /\ \A u \in Threads : par'[u] # c /\ pushing'[u] # Helper(c)
           /\ \A i \in DOMAIN jobs' : jobs'[i] # Helper(c)
  BY DEF FreeInv, FreeAt, Free, Idle
<1> QED
  BY DEF FreeInv, FreeAt, Frame

LEMMA ClaimKeep ==
  ASSUME NEW c \in Calls, ClaimAt(c), NEW t \in Threads, Frame(t), calls'[c] = calls[c],
         (t \in InFlight(c)') = (t \in InFlight(c))
  PROVE  ClaimAt(c)'
<1>1. Cardinality(InFlight(c)') = Cardinality(InFlight(c))
  BY FlightCounts DEF Moves
<1> QED
  BY <1>1 DEF ClaimAt, Free

ClaimFree == FreeInv /\ ClaimInv

LEMMA ParKeep ==
  ASSUME IInv, NEW t \in Threads, Frame(t), calls' = calls,
         pc[t] \notin {"call", "count"}, pc'[t] \notin {"call", "count"},
         \A c \in Calls : Free(c) => par'[t] # c /\ pushing'[t] # Helper(c),
         \A c \in Calls : Free(c) => \A i \in DOMAIN jobs' : jobs'[i] # Helper(c)
  PROVE  ClaimFree'
<1>1. FreeInv'
  BY FreeKeep DEF IInv
<1>2. ASSUME NEW c \in Calls PROVE ClaimAt(c)'
  <2>1. (t \in InFlight(c)') = (t \in InFlight(c))
    BY DEF InFlight
  <2> QED
    BY <2>1, ClaimKeep DEF IInv, ClaimInv
<1> QED
  BY <1>1, <1>2 DEF ClaimFree, ClaimInv

LEMMA ParQuiet ==
  ASSUME IInv, NEW t \in Threads, Frame(t), UNCHANGED <<calls, jobs>>,
         pc[t] \notin {"call", "count"}, pc'[t] \notin {"call", "count"},
         par'[t] = par[t] \/ par'[t] = NoJob, pushing'[t] = pushing[t] \/ pushing'[t] = NoJob
  PROVE  ClaimFree'
<1>1. \A c \in Calls : NoJob # Helper(c) /\ NoJob # c
  BY NoJobAssumption DEF Job
<1>2. \A c \in Calls : Free(c) => par'[t] # c /\ pushing'[t] # Helper(c)
  BY <1>1 DEF IInv, FreeInv, FreeAt
<1>3. \A c \in Calls : Free(c) => \A i \in DOMAIN jobs' : jobs'[i] # Helper(c)
  BY DEF IInv, FreeInv, FreeAt
<1> QED
  BY <1>2, <1>3, ParKeep

\* The State blocks under the steps of push.
LEMMA ParPush ==
  ASSUME IInv, NEW t \in Threads, PushStep(t)
  PROVE  ClaimFree'
<1>0. CtlAt(t) /\ Frame(t) /\ TypeOK
  BY FrameStep DEF StepOf, IInv, CtlInv
<1> USE <1>0 DEF TypeOK, DataOK, PcOK
<1>1. CASE PushPending(t)
  <2>1. /\ UNCHANGED <<calls, jobs>> /\ pushing'[t] = pushing[t] /\ par'[t] = par[t]
        /\ pc[t] \notin {"call", "count"} /\ pc'[t] \notin {"call", "count"}
    BY <1>1 DEF PushPending, Goto, shared
  <2> QED
    BY <2>1, ParQuiet
<1>2. CASE PushQueue(t)
  <2>1. /\ calls' = calls /\ par' = par /\ pushing'[t] = NoJob /\ jobs' = Append(jobs, pushing[t])
        /\ pc[t] = "push_queue" /\ pc'[t] = "push_epoch"
    BY <1>2 DEF PushQueue, Goto
  <2>2. ASSUME NEW c \in Calls, Free(c)
        PROVE  /\ par'[t] # c /\ pushing'[t] # Helper(c)
               /\ \A i \in DOMAIN jobs' : jobs'[i] # Helper(c)
    <3>1. /\ par[t] # c /\ pushing[t] # Helper(c)
          /\ \A i \in DOMAIN jobs : jobs[i] # Helper(c)
      BY <2>2 DEF IInv, FreeInv, FreeAt
    <3>2. \A i \in DOMAIN jobs' : jobs'[i] = pushing[t] \/ (i \in DOMAIN jobs /\ jobs'[i] = jobs[i])
      BY <2>1, <1>2 DEF PushQueue, CtlAt
    <3>3. NoJob # Helper(c)
      BY NoJobAssumption DEF Job
    <3> QED
      BY <2>1, <3>1, <3>2, <3>3
  <2> QED
    BY <2>1, <2>2, ParKeep
<1>3. CASE PushEpoch(t)
  <2>1. /\ UNCHANGED <<calls, jobs>> /\ pushing'[t] = pushing[t] /\ par'[t] = par[t]
        /\ pc[t] \notin {"call", "count"} /\ pc'[t] \notin {"call", "count"}
    BY <1>3 DEF PushEpoch, Goto, shared
  <2> QED
    BY <2>1, ParQuiet
<1>4. CASE PushSleepers(t)
  <2>1. /\ UNCHANGED <<calls, jobs>> /\ pushing'[t] = pushing[t] /\ par'[t] = par[t]
        /\ pc[t] \notin {"call", "count"} /\ pc'[t] \notin {"call", "count"}
    BY <1>4 DEF PushSleepers, Goto, shared, AfterPush
  <2> QED
    BY <2>1, ParQuiet
<1>5. CASE PushNotify(t)
  <2>1. /\ UNCHANGED <<calls, jobs>> /\ pushing'[t] = pushing[t] /\ par'[t] = par[t]
        /\ pc[t] \notin {"call", "count"} /\ pc'[t] \notin {"call", "count"}
    BY <1>5 DEF PushNotify, Goto, shared, AfterPush, Asleep
  <2> QED
    BY <2>1, ParQuiet
<1> QED
  BY <1>1, <1>2, <1>3, <1>4, <1>5 DEF PushStep

LEMMA ParJob ==
  ASSUME IInv, NEW t \in Threads, JobStep(t)
  PROVE  ClaimFree'
<1>0. CtlAt(t) /\ Frame(t) /\ TypeOK
  BY FrameStep DEF StepOf, IInv, CtlInv
<1> USE <1>0 DEF TypeOK, DataOK, PcOK
<1>1. CASE TryLoad(t)
  <2>1. /\ UNCHANGED <<calls, jobs>> /\ pushing'[t] = pushing[t] /\ par'[t] = par[t]
        /\ pc[t] \notin {"call", "count"} /\ pc'[t] \notin {"call", "count"}
    BY <1>1 DEF TryLoad, Goto, shared, OnEmpty
  <2> QED
    BY <2>1, ParQuiet
<1>2. CASE TryPop(t)
  <2>1. CASE jobs = <<>>
    <3>1. OnEmpty(t) \notin {"call", "count"}
      BY DEF OnEmpty
    <3>2. /\ UNCHANGED <<calls, jobs>> /\ pushing'[t] = pushing[t] /\ par'[t] = par[t]
          /\ pc[t] \notin {"call", "count"} /\ pc'[t] \notin {"call", "count"}
      BY <1>2, <2>1, <3>1 DEF TryPop, Goto
    <3> QED
      BY <3>2, ParQuiet
  <2>2. CASE jobs # <<>>
    <3> DEFINE job == jobs[Len(jobs)]
    <3>1. /\ calls' = calls /\ pushing' = pushing /\ jobs' = SubSeq(jobs, 1, Len(jobs) - 1)
          /\ pc[t] = "pop" /\ pc'[t] \in {"claim", "body"}
          /\ par'[t] = (IF job.kind = "helper" THEN job.id ELSE par[t])
      BY <1>2, <2>2 DEF TryPop, Goto
    <3>2. job \in Job /\ Len(jobs) \in DOMAIN jobs
      BY <2>2
    <3>3. ASSUME NEW c \in Calls, Free(c)
          PROVE  /\ par'[t] # c /\ pushing'[t] # Helper(c)
                 /\ \A i \in DOMAIN jobs' : jobs'[i] # Helper(c)
      <4>1. /\ par[t] # c /\ pushing[t] # Helper(c)
            /\ \A i \in DOMAIN jobs : jobs[i] # Helper(c)
        BY <3>3 DEF IInv, FreeInv, FreeAt
      <4>2. \A i \in DOMAIN jobs' : i \in DOMAIN jobs /\ jobs'[i] = jobs[i]
        BY <3>1
      <4>3. job.kind = "helper" => job = Helper(job.id)
        BY <3>2 DEF Job, Helper, Task
      <4> QED
        BY <3>1, <3>2, <4>1, <4>2, <4>3
    <3> QED
      BY <3>1, <3>3, ParKeep
  <2> QED
    BY <2>1, <2>2
<1>3. CASE BodyReturns(t)
  <2>1. /\ UNCHANGED <<calls, jobs>> /\ pushing'[t] = pushing[t] /\ par'[t] = par[t]
        /\ pc[t] \notin {"call", "count"} /\ pc'[t] \notin {"call", "count"}
    BY <1>3 DEF BodyReturns, Goto, shared
  <2> QED
    BY <2>1, ParQuiet
<1>4. CASE JobNotify(t)
  <2>1. /\ UNCHANGED <<calls, jobs>> /\ pushing'[t] = pushing[t] /\ par'[t] = par[t]
        /\ pc[t] \notin {"call", "count"} /\ pc'[t] \notin {"call", "count"}
    BY <1>4 DEF JobNotify, Goto, shared
  <2> QED
    BY <2>1, ParQuiet
<1>5. CASE JobFinish(t)
  <2>1. /\ UNCHANGED <<calls, jobs>> /\ pushing'[t] = pushing[t] /\ par'[t] = par[t]
        /\ pc[t] \notin {"call", "count"} /\ pc'[t] \notin {"call", "count"}
    BY <1>5 DEF JobFinish, Goto, shared, AfterJob
  <2> QED
    BY <2>1, ParQuiet
<1> QED
  BY <1>1, <1>2, <1>3, <1>4, <1>5 DEF JobStep

LEMMA ParWorker ==
  ASSUME IInv, NEW t \in Workers, WorkerStep(t)
  PROVE  ClaimFree'
<1>a. t \in Threads
  BY DEF Threads
<1>0. CtlAt(t) /\ Frame(t) /\ TypeOK
  BY <1>a, FrameStep DEF StepOf, IInv, CtlInv
<1> USE <1>0, <1>a DEF TypeOK, DataOK, PcOK
<1>1. CASE WorkerLoop(t)
  <2>1. /\ UNCHANGED <<calls, jobs>> /\ pushing'[t] = pushing[t] /\ par'[t] = par[t]
        /\ pc[t] \notin {"call", "count"} /\ pc'[t] \notin {"call", "count"}
    BY <1>1 DEF WorkerLoop, Goto, shared
  <2> QED
    BY <2>1, ParQuiet
<1>2. CASE Spin(t)
  <2>1. /\ UNCHANGED <<calls, jobs>> /\ pushing'[t] = pushing[t] /\ par'[t] = par[t]
        /\ pc[t] \notin {"call", "count"} /\ pc'[t] \notin {"call", "count"}
    BY <1>2 DEF Spin, Goto, shared
  <2> QED
    BY <2>1, ParQuiet
<1>3. CASE SleepCount(t)
  <2>1. /\ UNCHANGED <<calls, jobs>> /\ pushing'[t] = pushing[t] /\ par'[t] = par[t]
        /\ pc[t] \notin {"call", "count"} /\ pc'[t] \notin {"call", "count"}
    BY <1>3 DEF SleepCount, Goto, shared
  <2> QED
    BY <2>1, ParQuiet
<1>4. CASE SleepEpoch(t)
  <2>1. /\ UNCHANGED <<calls, jobs>> /\ pushing'[t] = pushing[t] /\ par'[t] = par[t]
        /\ pc[t] \notin {"call", "count"} /\ pc'[t] \notin {"call", "count"}
    BY <1>4 DEF SleepEpoch, Goto, shared
  <2> QED
    BY <2>1, ParQuiet
<1>5. CASE SleepQueued(t)
  <2>1. /\ UNCHANGED <<calls, jobs>> /\ pushing'[t] = pushing[t] /\ par'[t] = par[t]
        /\ pc[t] \notin {"call", "count"} /\ pc'[t] \notin {"call", "count"}
    BY <1>5 DEF SleepQueued, Goto, shared
  <2> QED
    BY <2>1, ParQuiet
<1>6. CASE SleepStopping(t)
  <2>1. /\ UNCHANGED <<calls, jobs>> /\ pushing'[t] = pushing[t] /\ par'[t] = par[t]
        /\ pc[t] \notin {"call", "count"} /\ pc'[t] \notin {"call", "count"}
    BY <1>6 DEF SleepStopping, Goto, shared
  <2> QED
    BY <2>1, ParQuiet
<1>7. CASE SleepWait(t)
  <2>1. /\ UNCHANGED <<calls, jobs>> /\ pushing'[t] = pushing[t] /\ par'[t] = par[t]
        /\ pc[t] \notin {"call", "count"} /\ pc'[t] \notin {"call", "count"}
    BY <1>7 DEF SleepWait, Goto, shared
  <2> QED
    BY <2>1, ParQuiet
<1>8. CASE SleepLeave(t)
  <2>1. /\ UNCHANGED <<calls, jobs>> /\ pushing'[t] = pushing[t] /\ par'[t] = par[t]
        /\ pc[t] \notin {"call", "count"} /\ pc'[t] \notin {"call", "count"}
    BY <1>8 DEF SleepLeave, Goto, shared
  <2> QED
    BY <2>1, ParQuiet
<1> QED
  BY <1>1, <1>2, <1>3, <1>4, <1>5, <1>6, <1>7, <1>8 DEF WorkerStep

LEMMA ParMain ==
  ASSUME IInv, MainStep \/ UserStep
  PROVE  ClaimFree'
<1>0. CtlAt(Main) /\ Frame(Main) /\ TypeOK /\ Main \in Threads
  BY FrameStep DEF StepOf, IInv, CtlInv, Threads
<1> USE <1>0 DEF TypeOK, DataOK, PcOK
<1>1. CASE TillLoad
  <2>1. /\ UNCHANGED <<calls, jobs>> /\ pushing'[Main] = pushing[Main] /\ par'[Main] = par[Main]
        /\ pc[Main] \notin {"call", "count"} /\ pc'[Main] \notin {"call", "count"}
    BY <1>1 DEF TillLoad, Goto, shared, AtUser
  <2> QED
    BY <2>1, ParQuiet
<1>2. CASE TillWait
  <2>1. /\ UNCHANGED <<calls, jobs>> /\ pushing'[Main] = pushing[Main] /\ par'[Main] = par[Main]
        /\ pc[Main] \notin {"call", "count"} /\ pc'[Main] \notin {"call", "count"}
    BY <1>2 DEF TillWait, Goto, shared, AtUser
  <2> QED
    BY <2>1, ParQuiet
<1>3. CASE ForLoad
  <2>1. /\ UNCHANGED <<calls, jobs>> /\ pushing'[Main] = pushing[Main] /\ par'[Main] = par[Main]
        /\ pc[Main] \notin {"call", "count"} /\ pc'[Main] \notin {"call", "count"}
    BY <1>3 DEF ForLoad, Goto, shared, AtUser
  <2> QED
    BY <2>1, ParQuiet
<1>4. CASE DeinitEpoch
  <2>1. /\ UNCHANGED <<calls, jobs>> /\ pushing'[Main] = pushing[Main] /\ par'[Main] = par[Main]
        /\ pc[Main] \notin {"call", "count"} /\ pc'[Main] \notin {"call", "count"}
    BY <1>4 DEF DeinitEpoch, Goto, shared, AtUser
  <2> QED
    BY <2>1, ParQuiet
<1>5. CASE DeinitNotify
  <2>1. /\ UNCHANGED <<calls, jobs>> /\ pushing'[Main] = pushing[Main] /\ par'[Main] = par[Main]
        /\ pc[Main] \notin {"call", "count"} /\ pc'[Main] \notin {"call", "count"}
    BY <1>5 DEF DeinitNotify, Goto, shared, AtUser
  <2> QED
    BY <2>1, ParQuiet
<1>6. CASE DeinitJoin
  <2>1. /\ calls' = calls /\ pushing' = pushing /\ par' = par /\ jobs' = <<>>
        /\ pc[Main] \notin {"call", "count"} /\ pc'[Main] \notin {"call", "count"}
    BY <1>6 DEF DeinitJoin, Goto
  <2>2. \A c \in Calls : Free(c) => par'[Main] # c /\ pushing'[Main] # Helper(c)
    BY <2>1 DEF IInv, FreeInv, FreeAt
  <2> QED
    BY <2>1, <2>2, ParKeep
<1>7. CASE UserWaitTillDone
  <2>1. /\ UNCHANGED <<calls, jobs>> /\ pushing'[Main] = pushing[Main] /\ par'[Main] = par[Main]
        /\ pc[Main] \notin {"call", "count"} /\ pc'[Main] \notin {"call", "count"}
    BY <1>7 DEF UserWaitTillDone, Goto, shared, AtUser
  <2> QED
    BY <2>1, ParQuiet
<1>8. CASE UserDeinit
  <2>1. /\ UNCHANGED <<calls, jobs>> /\ pushing'[Main] = pushing[Main] /\ par'[Main] = par[Main]
        /\ pc[Main] \notin {"call", "count"} /\ pc'[Main] \notin {"call", "count"}
    BY <1>8 DEF UserDeinit, Goto, shared, AtUser
  <2> QED
    BY <2>1, ParQuiet
<1>9. CASE \E j \in Tasks : UserPush(j)
  <2>1. PICK k \in Tasks : UserPush(k)
    BY <1>9
  <2>2. /\ UNCHANGED <<calls, jobs, par>> /\ pushing'[Main] = Task(k)
        /\ pc[Main] \notin {"call", "count"} /\ pc'[Main] \notin {"call", "count"}
    BY <2>1 DEF UserPush, AtUser, Goto, shared
  <2>3. \A c \in Calls : Free(c) => par'[Main] # c /\ pushing'[Main] # Helper(c)
    BY <2>2 DEF IInv, FreeInv, FreeAt, Task, Helper
  <2>4. \A c \in Calls : Free(c) => \A i \in DOMAIN jobs' : jobs'[i] # Helper(c)
    BY <2>2 DEF IInv, FreeInv, FreeAt
  <2> QED
    BY <2>2, <2>3, <2>4, ParKeep
<1>10. CASE \E j \in Tasks : UserWaitFor(j)
  <2>1. /\ UNCHANGED <<calls, jobs>> /\ pushing'[Main] = pushing[Main] /\ par'[Main] = par[Main]
        /\ pc[Main] \notin {"call", "count"} /\ pc'[Main] \notin {"call", "count"}
    BY <1>10 DEF UserWaitFor, Goto, shared, AtUser
  <2> QED
    BY <2>1, ParQuiet
<1> QED
  BY <1>1, <1>2, <1>3, <1>4, <1>5, <1>6, <1>7, <1>8, <1>9, <1>10 DEF MainStep, UserStep

\* A step of parallel_for on the block p = par[t] that keeps its n: the other
\* blocks, and what names a free block, stay as they are.
LEMMA ParOne ==
  ASSUME IInv, NEW t \in Threads, Frame(t), NEW p \in Calls, p = par[t], NEW s,
         s.n = calls[p].n, calls' = [calls EXCEPT ![p] = s],
         jobs' = jobs, pushing' = pushing, par'[t] \in {p, NoJob},
         ClaimAt(p)'
  PROVE  ClaimFree'
<1>1. \A c \in Calls : NoJob # c
  BY NoJobAssumption
<1>2. ~Free(p) /\ ~Free(p)'
  BY DEF IInv, FreeInv, FreeAt, Free, TypeOK, DataOK
<1>3. ASSUME NEW c \in Calls, c # p PROVE calls'[c] = calls[c]
  BY <1>3 DEF IInv, TypeOK, DataOK
<1>4. ASSUME NEW c \in Calls PROVE FreeAt(c)'
  <2>1. CASE c = p
    BY <1>2, <2>1 DEF FreeAt
  <2>2. CASE c # p
    <3>1. FreeAt(c) /\ calls'[c] = calls[c] /\ (Free(c)' => Free(c))
      BY <1>3, <2>2 DEF IInv, FreeInv, Free
    <3>2. Free(c) => \A u \in Threads : par'[u] # c
      BY <1>1, <2>2, <3>1 DEF FreeAt, Frame
    <3> QED
      BY <3>1, <3>2 DEF FreeAt
  <2> QED
    BY <2>1, <2>2
<1>5. ASSUME NEW c \in Calls PROVE ClaimAt(c)'
  <2>1. CASE c = p
    BY <2>1
  <2>2. CASE c # p
    <3>1. calls'[c] = calls[c] /\ ClaimAt(c)
      BY <1>3, <2>2 DEF IInv, ClaimInv
    <3>2. (t \in InFlight(c)') = (t \in InFlight(c))
      BY <1>1, <2>2 DEF InFlight
    <3> QED
      BY <3>1, <3>2, ClaimKeep
  <2> QED
    BY <2>1, <2>2
<1> QED
  BY <1>4, <1>5 DEF ClaimFree, FreeInv, ClaimInv

LEMMA ParParallel ==
  ASSUME IInv, NEW t \in Threads, ParallelStep(t)
  PROVE  ClaimFree'
<1>0. CtlAt(t) /\ Frame(t) /\ TypeOK
  BY FrameStep DEF StepOf, IInv, CtlInv
<1> USE <1>0 DEF TypeOK, DataOK, PcOK
<1>1. CASE PushHelpers(t)
  <2>1. /\ UNCHANGED <<calls, jobs, par>> /\ par[t] \in Calls
        /\ pushing'[t] \in {pushing[t], Helper(par[t])}
        /\ pc[t] \notin {"call", "count"} /\ pc'[t] \notin {"call", "count"}
    BY <1>1 DEF PushHelpers, Goto, shared, CtlAt, ParPc
  <2>2. \A c \in Calls : Free(c) => par'[t] # c /\ pushing'[t] # Helper(c)
    BY <2>1 DEF IInv, FreeInv, FreeAt, Helper
  <2>3. \A c \in Calls : Free(c) => \A i \in DOMAIN jobs' : jobs'[i] # Helper(c)
    BY <2>1 DEF IInv, FreeInv, FreeAt
  <2> QED
    BY <2>1, <2>2, <2>3, ParKeep
<1>2. CASE Claim(t)
  <2>1. PICK c \in Calls : c = par[t]
    BY <1>2 DEF Claim, CtlAt, ParPc
  <2>2. calls[c].n \in 0..MaxN /\ calls[c].next \in Nat /\ calls[c].done \in Nat /\ ClaimAt(c)
    BY <2>1, StateUpdates DEF IInv, ClaimInv
  <2>3. Cardinality(InFlight(c)) \in Nat /\ Moves(InFlight(c), InFlight(c)', t)
    BY FlightCounts
  <2> DEFINE s == [calls[c] EXCEPT !.next = calls[c].next + 1]
  <2>4. calls' = [calls EXCEPT ![c] = s] /\ jobs' = jobs /\ pushing' = pushing
    BY <1>2, <2>1 DEF Claim, shared
  <2>5. /\ s.n = calls[c].n /\ s.done = calls[c].done /\ s.next = calls[c].next + 1
        /\ s.alive = calls[c].alive /\ calls'[c] = s
    BY <2>1, <2>4 DEF State
  <2>6. CASE calls[c].next < calls[c].n
    <3>1. par' = par /\ pc'[t] = "call" /\ pc[t] = "claim"
      BY <1>2, <2>1, <2>6 DEF Claim, Goto
    <3>2. t \notin InFlight(c) /\ t \in InFlight(c)'
      BY <2>1, <3>1 DEF InFlight
    <3>3. Cardinality(InFlight(c)') = Cardinality(InFlight(c)) + 1
      BY <2>3, <3>2 DEF Moves
    <3>4. Smaller(s.next, s.n) = Smaller(calls[c].next, calls[c].n) + 1
      BY <2>2, <2>5, <2>6, MaxNAssumption DEF Smaller
    <3>5. ClaimAt(c)'
      <4> HIDE <1>0 DEF s, TypeOK, DataOK, PcOK
      <4>1. s.done + Cardinality(InFlight(c)') = Smaller(s.next, s.n)
        <5>1. calls[c].done + Cardinality(InFlight(c)) = Smaller(calls[c].next, calls[c].n)
          BY <2>2 DEF ClaimAt
        <5>2. /\ calls[c].done \in Nat /\ Cardinality(InFlight(c)) \in Nat
              /\ s.done = calls[c].done
          BY <2>2, <2>3, <2>5
        <5> QED
          BY <3>3, <3>4, <5>1, <5>2
      <4> QED
        BY <2>2, <2>5, <4>1 DEF ClaimAt, Free
    <3> HIDE DEF s
    <3> QED
      BY <2>1, <2>4, <2>5, <3>1, <3>5, ParOne
  <2>7. CASE ~(calls[c].next < calls[c].n)
    <3>1. par'[t] \in {c, NoJob} /\ pc'[t] \in {"notify", "par_load"} /\ pc[t] = "claim"
      BY <1>2, <2>1, <2>7 DEF Claim, Goto
    <3>2. t \notin InFlight(c) /\ t \notin InFlight(c)'
      BY <2>1, <3>1 DEF InFlight
    <3>3. Cardinality(InFlight(c)') = Cardinality(InFlight(c))
      BY <2>3, <3>2 DEF Moves
    <3>4. Smaller(s.next, s.n) = Smaller(calls[c].next, calls[c].n)
      BY <2>2, <2>5, <2>7, MaxNAssumption DEF Smaller
    <3>5. ClaimAt(c)'
      BY <2>2, <2>3, <2>5, <3>3, <3>4 DEF ClaimAt, Free
    <3> HIDE DEF s
    <3> QED
      BY <2>1, <2>4, <2>5, <3>1, <3>5, ParOne
  <2> QED
    BY <2>6, <2>7
<1>3. CASE CallFn(t)
  <2>1. PICK c \in Calls : c = par[t]
    BY <1>3 DEF CallFn, CtlAt, ParPc
  <2>2. calls[c].n \in 0..MaxN /\ calls[c].next \in Nat /\ calls[c].done \in Nat /\ ClaimAt(c)
    BY <2>1, StateUpdates DEF IInv, ClaimInv
  <2>3. Cardinality(InFlight(c)) \in Nat /\ Moves(InFlight(c), InFlight(c)', t)
    BY FlightCounts
  <2> DEFINE s == [calls[c] EXCEPT !.ran[seen[t]] = calls[c].ran[seen[t]] + 1]
  <2>4. /\ calls' = [calls EXCEPT ![c] = s] /\ jobs' = jobs /\ pushing' = pushing /\ par' = par
        /\ pc[t] = "call" /\ pc'[t] = "count"
    BY <1>3, <2>1, Zenon DEF CallFn, shared, Goto, TypeOK, PcOK
  <2>5. /\ s.n = calls[c].n /\ s.done = calls[c].done /\ s.next = calls[c].next
        /\ s.alive = calls[c].alive /\ calls'[c] = s
    BY <2>1, <2>4 DEF State
  <2>6. t \in InFlight(c) /\ t \in InFlight(c)'
    BY <2>1, <2>4 DEF InFlight
  <2>7. Cardinality(InFlight(c)') = Cardinality(InFlight(c))
    BY <2>3, <2>6 DEF Moves
  <2>8. ClaimAt(c)'
    BY <2>2, <2>3, <2>5, <2>7 DEF ClaimAt, Free
  <2> HIDE DEF s
  <2> QED
    BY <2>1, <2>4, <2>5, <2>8, ParOne
<1>4. CASE CountDone(t)
  <2>1. PICK c \in Calls : c = par[t]
    BY <1>4 DEF CountDone, CtlAt, ParPc
  <2>2. calls[c].n \in 0..MaxN /\ calls[c].next \in Nat /\ calls[c].done \in Nat /\ ClaimAt(c)
    BY <2>1, StateUpdates DEF IInv, ClaimInv
  <2>3. Cardinality(InFlight(c)) \in Nat /\ Moves(InFlight(c), InFlight(c)', t)
    BY FlightCounts
  <2> DEFINE s == [calls[c] EXCEPT !.done = calls[c].done + 1]
  <2>4. /\ calls' = [calls EXCEPT ![c] = s] /\ jobs' = jobs /\ pushing' = pushing /\ par' = par
        /\ pc[t] = "count" /\ pc'[t] = "claim"
    BY <1>4, <2>1 DEF CountDone, shared
  <2>5. /\ s.n = calls[c].n /\ s.done = calls[c].done + 1 /\ s.next = calls[c].next
        /\ s.alive = calls[c].alive /\ calls'[c] = s
    BY <2>1, <2>4 DEF State
  <2>6. t \in InFlight(c) /\ t \notin InFlight(c)'
    BY <2>1, <2>4 DEF InFlight
  <2>7. Cardinality(InFlight(c)') = Cardinality(InFlight(c)) - 1
    BY <2>3, <2>6 DEF Moves
  <2>8. calls[c].alive
    BY <2>1, <2>4, InFlightAlive
  <2>9. ClaimAt(c)'
    <3> HIDE <1>0 DEF s, TypeOK, DataOK, PcOK
    <3>1. s.done + Cardinality(InFlight(c)') = Smaller(s.next, s.n)
      <4>1. calls[c].done + Cardinality(InFlight(c)) = Smaller(calls[c].next, calls[c].n)
        BY <2>2 DEF ClaimAt
      <4>2. /\ calls[c].done \in Nat /\ Cardinality(InFlight(c)) \in Nat
            /\ s.done = calls[c].done + 1 /\ s.n = calls[c].n /\ s.next = calls[c].next
        BY <2>2, <2>3, <2>5
      <4> QED
        BY <2>7, <4>1, <4>2
    <3> QED
      BY <2>2, <2>5, <2>8, <3>1 DEF ClaimAt, Free
  <2> HIDE DEF s
  <2> QED
    BY <2>1, <2>4, <2>5, <2>9, ParOne
<1>5. CASE ParLoad(t)
  <2>1. PICK c \in Calls : c = par[t]
    BY <1>5 DEF ParLoad, CtlAt, ParPc
  <2>2. calls[c].n \in 0..MaxN /\ calls[c].next \in Nat /\ calls[c].done \in Nat /\ ClaimAt(c)
    BY <2>1, StateUpdates DEF IInv, ClaimInv
  <2>3. Cardinality(InFlight(c)) \in Nat /\ Moves(InFlight(c), InFlight(c)', t)
    BY FlightCounts
  <2> DEFINE s == [calls[c] EXCEPT !.alive = FALSE]
  <2>4. CASE calls[c].done = calls[c].n
    <3>1. /\ calls' = [calls EXCEPT ![c] = s] /\ jobs' = jobs /\ pushing' = pushing
          /\ par'[t] = NoJob /\ pc[t] = "par_load" /\ pc'[t] = "body"
      BY <1>5, <2>1, <2>4 DEF ParLoad, shared, Goto
    <3>2. s.n = calls[c].n /\ s.done = calls[c].done /\ s.next = calls[c].next /\ calls'[c] = s
      BY <2>1, <3>1 DEF State
    <3>3. t \notin InFlight(c) /\ t \notin InFlight(c)'
      BY <2>1, <3>1 DEF InFlight
    <3>4. Cardinality(InFlight(c)') = Cardinality(InFlight(c))
      BY <2>3, <3>3 DEF Moves
    <3>5. ClaimAt(c)'
      BY <2>2, <2>3, <2>4, <3>2, <3>4 DEF ClaimAt, Free
    <3> HIDE DEF s
    <3> QED
      BY <2>1, <3>1, <3>2, <3>5, ParOne
  <2>5. CASE calls[c].done # calls[c].n
    <3>1. /\ UNCHANGED <<calls, jobs>> /\ pushing'[t] = pushing[t] /\ par'[t] = par[t]
          /\ pc[t] \notin {"call", "count"} /\ pc'[t] \notin {"call", "count"}
      BY <1>5, <2>1, <2>5 DEF ParLoad, Goto, shared
    <3> QED
      BY <3>1, ParQuiet
  <2> QED
    BY <2>4, <2>5
<1>6. CASE ParWait(t)
  <2>1. /\ UNCHANGED <<calls, jobs>> /\ pushing'[t] = pushing[t] /\ par'[t] = par[t]
        /\ pc[t] \notin {"call", "count"} /\ pc'[t] \notin {"call", "count"}
    BY <1>6 DEF ParWait, Goto, shared
  <2> QED
    BY <2>1, ParQuiet
<1> QED
  BY <1>1, <1>2, <1>3, <1>4, <1>5, <1>6 DEF ParallelStep

LEMMA ParStart ==
  ASSUME IInv, NEW t \in Threads, StartParallel(t)
  PROVE  ClaimFree'
<1>1. Frame(t) /\ TypeOK
  BY FrameStep DEF StepOf, IInv
<1>2. PICK c \in Calls, n \in 2..MaxN : ParallelFor(t, c, n)
  BY DEF StartParallel
<1> DEFINE s == [Idle EXCEPT !.n = n, !.alive = TRUE]
<1>3. /\ calls' = [calls EXCEPT ![c] = s] /\ jobs' = jobs /\ pushing' = pushing
      /\ par'[t] = c /\ pc[t] = "body" /\ pc'[t] = "helpers" /\ Free(c)
  BY <1>1, <1>2 DEF ParallelFor, Goto, shared, TypeOK, DataOK, PcOK
<1>4. s.n = n /\ s.done = 0 /\ s.next = 0 /\ s.alive = TRUE /\ n # 0
  BY DEF Idle
<1>5. calls'[c] = s
  BY <1>1, <1>3 DEF TypeOK, DataOK
<1>6. calls[c] = Idle
  BY <1>3 DEF IInv, FreeInv, FreeAt
<1> HIDE DEF s
<1>7. ASSUME NEW d \in Calls PROVE FreeAt(d)'
  <2>1. CASE d = c
    BY <1>4, <1>5, <2>1 DEF FreeAt, Free
  <2>2. CASE d # c
    <3>1. calls'[d] = calls[d] /\ FreeAt(d)
      BY <1>1, <1>3, <2>2 DEF TypeOK, DataOK, IInv, FreeInv
    <3>2. Free(d) => \A u \in Threads : par'[u] # d
      BY <1>1, <1>3, <2>2, <3>1 DEF FreeAt, Frame
    <3> QED
      BY <1>3, <3>1, <3>2 DEF FreeAt, Free
  <2> QED
    BY <2>1, <2>2
<1>8. ASSUME NEW d \in Calls PROVE ClaimAt(d)'
  <2>0. ClaimAt(d)
    BY DEF IInv, ClaimInv
  <2>1. (t \in InFlight(d)') = (t \in InFlight(d))
    BY <1>3 DEF InFlight
  <2>2. CASE d = c
    <3>1. Cardinality(InFlight(c)) = 0
      <4>1. Cardinality(InFlight(c)) \in Nat
        BY <1>1, FlightCounts
      <4> QED
        BY <1>6, <2>0, <2>2, <4>1 DEF ClaimAt, Smaller, Idle
    <3>2. Cardinality(InFlight(c)') = 0
      BY <1>1, <2>1, <2>2, <3>1, FlightCounts DEF Moves
    <3> QED
      BY <1>4, <1>5, <2>2, <3>2 DEF ClaimAt, Smaller, Free
  <2>3. CASE d # c
    <3>1. calls'[d] = calls[d]
      BY <1>1, <1>3, <2>3 DEF TypeOK, DataOK
    <3> QED
      BY <1>1, <2>0, <2>1, <3>1, ClaimKeep
  <2> QED
    BY <2>2, <2>3
<1> QED
  BY <1>7, <1>8 DEF ClaimFree, FreeInv, ClaimInv

LEMMA ParStep ==
  ASSUME IInv, NEW t \in Threads, StepOf(t)
  PROVE  ClaimFree'
  BY ParPush, ParJob, ParParallel, ParStart, ParWorker, ParMain DEF StepOf

-----------------------------------------------------------------------------
\* Every step of the specification keeps the inductive invariant.
THEOREM StepInv == IInv /\ [Next]_vars => IInv'
<1> SUFFICES ASSUME IInv, [Next]_vars PROVE IInv'
  OBVIOUS
<1>1. ASSUME NEW t \in Threads, StepOf(t) PROVE IInv'
  BY <1>1, TypeStep, CtlStep, CountStep, EndStep, TaskStep, ParStep
     DEF IInv, Counts, ClaimFree
<1>2. CASE UNCHANGED vars
  <2>1. TypeOK'
    BY <1>2 DEF IInv, TypeOK, DataOK, PcOK, vars, shared, ctl
  <2>2. CtlInv'
    BY <1>2 DEF IInv, CtlInv, CtlAt, vars, shared, ctl
  <2>3. Accounting' /\ (sleepers = Cardinality(Sleeping))'
    BY <1>2 DEF IInv, Accounting, Running, Counted, Sleeping, vars, shared, ctl
  <2>4. EndInv' /\ TaskInv'
    BY <1>2 DEF IInv, EndInv, TaskInv, vars, shared, ctl
  <2>5. FreeInv' /\ ClaimInv'
    BY <1>2 DEF IInv, FreeInv, FreeAt, Free, ClaimInv, ClaimAt, InFlight, vars, shared, ctl
  <2> QED
    BY <2>1, <2>2, <2>3, <2>4, <2>5 DEF IInv
<1> QED
  BY <1>1, <1>2, StepCases

\* The inductive invariant holds in every reachable state.
THEOREM InvHolds == Spec => []IInv
  BY InitInv, StepInv, PTL DEF Spec

\* The types, with all four counters natural numbers: none of the unsigned
\* counters of the scheduler ever wraps below zero.
THEOREM TypeCorrect == Spec => []TypeOK
<1>1. IInv => TypeOK
  BY DEF IInv
<1> QED
  BY <1>1, InvHolds, PTL

\* pending and queued agree with the queue and the threads.
THEOREM AccountingHolds == Spec => []Accounting
<1>1. IInv => Accounting
  BY DEF IInv
<1> QED
  BY <1>1, InvHolds, PTL

\* wait_till_done returns only when every job pushed before has finished.
THEOREM WaitTillDoneSafe == Spec => []DrainedMeansDone
<1>1. IInv => DrainedMeansDone
  <2> SUFFICES ASSUME IInv, pc[Main] = "drained"
      PROVE  jobs = <<>> /\ Running = {} /\ \A j \in Tasks : notifier[j] # "unset"
    BY DEF DrainedMeansDone
  <2>1. pending = 0
    BY DEF IInv, EndInv
  <2>2. jobs = <<>> /\ Running = {}
    BY <2>1, NothingPending
  <2>3. \A t \in Threads : cur[t] = NoJob
    BY <2>2 DEF Running
  <2>4. \A t \in Threads : pushing[t] \in Job => cur[t] # NoJob \/ t = Main
    BY NoJobAssumption DEF IInv, CtlInv, CtlAt, PushPc, Job
  <2>5. pushing[Main] = NoJob
    BY DEF IInv, CtlInv, CtlAt, Threads
  <2>6. \A t \in Threads, j \in Tasks : pushing[t] # Task(j) /\ cur[t] # Task(j)
    BY <2>3, <2>4, <2>5, NoJobAssumption DEF Job
  <2> QED
    BY <2>2, <2>6 DEF IInv, TaskInv
<1> QED
  BY <1>1, InvHolds, PTL

\* Nothing is thrown away by the jobs.clear() of deinit.
THEOREM DeinitSafe == Spec => []NothingThrownAway
<1>1. IInv => NothingThrownAway
  BY NothingPending DEF NothingThrownAway, IInv, EndInv
<1> QED
  BY <1>1, InvHolds, PTL

\* fn is called only while the frame that holds it waits in parallel_for, for any
\* number of workers and of concurrent calls.
THEOREM FnSafe == Spec => []FnOutlivesUse
<1>1. IInv => FnOutlivesUse
  BY InFlightAlive DEF FnOutlivesUse
<1> QED
  BY <1>1, InvHolds, PTL

----------------------------------------------------------------------------
(* parallel_for calls fn once for each index, for any number of workers,    *)
(* concurrent calls and indices.  On top of the invariant above: an index   *)
(* that was handed out has been run, or exactly one thread is about to run  *)
(* it.                                                                      *)


Calling(t, c, i) == par[t] = c /\ pc[t] = "call" /\ seen[t] = i
Handed(c)        == Smaller(calls[c].next, calls[c].n)
Indices          == 0..(MaxN - 1)

\* One index of one call: run at most once, and not run only while it waits to be
\* handed out or one thread has it in hand.
IndexAt(c, i) ==
  /\ calls[c].ran[i] \in {0, 1}
  /\ \A t, u \in Threads : Calling(t, c, i) /\ Calling(u, c, i) => t = u
  /\ \A t \in Threads : Calling(t, c, i) => i < Handed(c) /\ calls[c].ran[i] = 0
  /\ calls[c].ran[i] = 1 => i < Handed(c)
  /\ calls[c].ran[i] = 0 /\ i < Handed(c) => \E t \in Threads : Calling(t, c, i)

IndexInv == \A c \in Calls, i \in Indices : IndexAt(c, i)

\* A thread changes only its own seen.
SeenFrame(t) == \A u \in Threads \ {t} : seen'[u] = seen[u]

LEMMA SeenStep ==
  ASSUME TypeOK, NEW t \in Threads, StepOf(t)
  PROVE  SeenFrame(t)
<1> USE DEF TypeOK, DataOK, SeenFrame
<1>1. CASE PushStep(t)
  BY <1>1 DEF PushStep, PushPending, PushQueue, PushEpoch, PushSleepers, PushNotify
<1>2. CASE JobStep(t)
  BY <1>2 DEF JobStep, TryLoad, TryPop, BodyReturns, JobNotify, JobFinish
<1>3. CASE ParallelStep(t)
  <2>1. seen' = seen \/ \E n : seen' = [seen EXCEPT ![t] = n]
    BY <1>3 DEF ParallelStep, PushHelpers, Claim, CallFn, CountDone, ParLoad, ParWait
  <2> QED
    BY <2>1
<1>4. CASE StartParallel(t)
  BY <1>4 DEF StartParallel, ParallelFor
<1>5. CASE t \in Workers /\ WorkerStep(t)
  BY <1>5 DEF WorkerStep, WorkerLoop, Spin, SleepCount, SleepEpoch, SleepQueued,
              SleepStopping, SleepWait, SleepLeave
<1>6. CASE t = Main /\ MainStep
  BY <1>6 DEF MainStep, TillLoad, TillWait, ForLoad, DeinitEpoch, DeinitNotify, DeinitJoin
<1>7. CASE t = Main /\ UserStep
  BY <1>7 DEF UserStep, UserPush, UserWaitFor, UserWaitTillDone, UserDeinit
<1> QED
  BY <1>1, <1>2, <1>3, <1>4, <1>5, <1>6, <1>7 DEF StepOf

\* The steps that neither start nor leave a call of fn.
Aside(t) == calls' = calls /\ pc[t] # "call" /\ pc'[t] # "call"

LEMMA AsideStep ==
  ASSUME IInv, NEW t \in Threads, StepOf(t)
  PROVE  Aside(t) \/ Claim(t) \/ CallFn(t) \/ CountDone(t) \/ ParLoad(t) \/ StartParallel(t)
<1> USE DEF IInv, TypeOK, PcOK, Aside
<1>1. CASE PushStep(t)
  <2>1. AfterPush(t) \in {"user", "helpers"}
    BY DEF AfterPush
  <2>2. CASE PushNotify(t)
    <3>1. pc'[t] = AfterPush(t) /\ calls' = calls /\ pc[t] = "push_notify"
      BY <2>2 DEF PushNotify, Asleep, Goto
    <3> QED
      BY <2>1, <3>1
  <2> QED
    BY <1>1, <2>1, <2>2 DEF PushStep, PushPending, PushQueue, PushEpoch, PushSleepers, Goto
<1>2. CASE JobStep(t)
  <2>1. OnEmpty(t) \in {"spin", "till_load", "for_load"} /\ AfterJob(t) \in {"loop", "try", "for_load"}
    BY DEF OnEmpty, AfterJob
  <2> QED
    BY <1>2, <2>1 DEF JobStep, TryLoad, TryPop, BodyReturns, JobNotify, JobFinish, Goto
<1>3. CASE ParallelStep(t)
  BY <1>3 DEF ParallelStep, PushHelpers, ParWait, Goto
<1>4. CASE t \in Workers /\ WorkerStep(t)
  BY <1>4 DEF WorkerStep, WorkerLoop, Spin, SleepCount, SleepEpoch, SleepQueued,
              SleepStopping, SleepWait, SleepLeave, Goto
<1>5. CASE t = Main /\ (MainStep \/ UserStep)
  BY <1>5 DEF MainStep, TillLoad, TillWait, ForLoad, DeinitEpoch, DeinitNotify, DeinitJoin,
              UserStep, UserPush, UserWaitFor, UserWaitTillDone, UserDeinit, AtUser, Goto
<1> QED
  BY <1>1, <1>2, <1>3, <1>4, <1>5 DEF StepOf

\* Who calls what, after a step of another thread.
LEMMA OthersCall ==
  ASSUME NEW t \in Threads, Frame(t), SeenFrame(t), NEW u \in Threads \ {t}, NEW c, NEW i
  PROVE  Calling(u, c, i)' <=> Calling(u, c, i)
BY DEF Frame, SeenFrame, Woken, Calling

\* An index whose calls, and whether it was handed out, are as before.
LEMMA IndexKeep ==
  ASSUME NEW t \in Threads, Frame(t), SeenFrame(t), NEW c \in Calls, NEW i \in Indices,
         IndexAt(c, i), Calling(t, c, i)' <=> Calling(t, c, i),
         calls'[c].ran[i] = calls[c].ran[i], (i < Handed(c))' <=> i < Handed(c)
  PROVE  IndexAt(c, i)'
<1>1. \A u \in Threads : Calling(u, c, i)' <=> Calling(u, c, i)
  BY OthersCall
<1> QED
  BY <1>1 DEF IndexAt

\* The block of a call as the invariant leaves it.
LEMMA Block ==
  ASSUME IInv, NEW c \in Calls
  PROVE  /\ calls[c].n \in 0..MaxN /\ calls[c].next \in Nat /\ calls[c].done \in Nat
         /\ calls[c].ran \in [Indices -> Nat] /\ calls[c] \in State
BY DEF IInv, TypeOK, DataOK, State, Indices

\* An index is handed out to the thread that will run it.
LEMMA IndexClaim ==
  ASSUME IInv, NEW t \in Threads, Frame(t), SeenFrame(t), Claim(t),
         NEW c \in Calls, NEW i \in Indices, IndexAt(c, i)
  PROVE  IndexAt(c, i)'
<1>1. PICK p \in Calls : p = par[t]
  BY DEF IInv, CtlInv, CtlAt, Claim, ParPc
<1>2. /\ calls \in [Calls -> State] /\ DOMAIN pc = Threads
      /\ seen \in [Threads -> Nat] /\ par \in [Threads -> Calls \cup {NoJob}] /\ i \in Nat
  BY MaxNAssumption DEF IInv, TypeOK, DataOK, PcOK, Indices
<1>3. /\ calls' = [calls EXCEPT ![p].next = calls[p].next + 1] /\ pc[t] = "claim"
      /\ par'[t] \in {p, NoJob} /\ NoJob \notin Calls
  BY <1>1, <1>2, NoJobAssumption DEF Claim, Goto
<1>4. ~Calling(t, c, i)
  BY <1>3 DEF Calling
<1>5. CASE c # p
  <2>1. calls'[c] = calls[c] /\ ~Calling(t, c, i)'
    BY <1>2, <1>3, <1>5 DEF Calling
  <2> QED
    BY <1>4, <2>1, IndexKeep DEF Handed
<1>6. CASE c = p
  <2>1. /\ calls'[c].n = calls[c].n /\ calls'[c].ran = calls[c].ran
        /\ calls'[c].next = calls[c].next + 1
    BY <1>2, <1>3, <1>6 DEF State
  <2>2. calls[c].n \in Nat /\ calls[c].next \in Nat
    BY Block, MaxNAssumption
  <2>3. CASE calls[c].next < calls[c].n
    <3>1. pc'[t] = "call" /\ seen'[t] = calls[c].next /\ par'[t] = c
      BY <1>1, <1>2, <1>6, <2>3 DEF Claim, Goto
    <3>2. Handed(c) = calls[c].next /\ Handed(c)' = calls[c].next + 1
      BY <2>1, <2>2, <2>3 DEF Handed, Smaller
    <3>3. CASE i # calls[c].next
      <4>1. ~Calling(t, c, i)'
        BY <3>1, <3>3 DEF Calling
      <4>2. (i < Handed(c))' <=> i < Handed(c)
        BY <1>2, <2>2, <3>2, <3>3
      <4> QED
        BY <1>4, <2>1, <4>1, <4>2, IndexKeep
    <3>4. CASE i = calls[c].next
      <4>1. ~(i < Handed(c)) /\ (i < Handed(c))'
        BY <1>2, <2>2, <3>2, <3>4
      <4>2. calls[c].ran[i] = 0 /\ \A u \in Threads : ~Calling(u, c, i)
        BY <4>1 DEF IndexAt
      <4>3. Calling(t, c, i)' /\ \A u \in Threads \ {t} : ~Calling(u, c, i)'
        BY <3>1, <3>4, <4>2, OthersCall DEF Calling
      <4> QED
        BY <2>1, <4>1, <4>2, <4>3 DEF IndexAt
    <3> QED
      BY <3>3, <3>4
  <2>4. CASE ~(calls[c].next < calls[c].n)
    <3>1. pc'[t] \in {"notify", "par_load"}
      BY <1>1, <1>2, <1>6, <2>4 DEF Claim, Goto
    <3>2. Handed(c)' = Handed(c)
      BY <2>1, <2>2, <2>4 DEF Handed, Smaller
    <3>3. ~Calling(t, c, i)'
      BY <3>1 DEF Calling
    <3> QED
      BY <1>4, <2>1, <3>2, <3>3, IndexKeep
  <2> QED
    BY <2>3, <2>4
<1> QED
  BY <1>5, <1>6

\* The one thread that has the index in hand runs it.
LEMMA IndexCall ==
  ASSUME IInv, NEW t \in Threads, Frame(t), SeenFrame(t), CallFn(t),
         NEW c \in Calls, NEW i \in Indices, IndexAt(c, i)
  PROVE  IndexAt(c, i)'
<1>1. PICK p \in Calls : p = par[t]
  BY DEF IInv, CtlInv, CtlAt, CallFn, ParPc
<1>2. calls \in [Calls -> State] /\ DOMAIN pc = Threads
  BY DEF IInv, TypeOK, DataOK, PcOK
<1>3. pc[t] = "call" /\ pc'[t] = "count"
  BY <1>2 DEF CallFn, Goto
<1> DEFINE s == [calls[p] EXCEPT !.ran[seen[t]] = calls[p].ran[seen[t]] + 1]
<1>4. calls' = [calls EXCEPT ![p] = s]
  BY <1>1, Zenon DEF CallFn
<1>5. /\ s.n = calls[p].n /\ s.next = calls[p].next
      /\ s.ran = [calls[p].ran EXCEPT ![seen[t]] = calls[p].ran[seen[t]] + 1]
  BY <1>2 DEF State
<1> HIDE DEF s
<1>6. ~Calling(t, c, i)'
  BY <1>3 DEF Calling
<1>7. CASE c = p /\ i = seen[t]
  <2>1. Calling(t, c, i)
    BY <1>1, <1>3, <1>7 DEF Calling
  <2>2. calls[c].ran[i] = 0 /\ i < Handed(c) /\ \A u \in Threads \ {t} : ~Calling(u, c, i)
    BY <2>1 DEF IndexAt
  <2>3. calls'[c].ran[i] = 1 /\ ((i < Handed(c))' <=> i < Handed(c))
    <3>1. calls'[c] = s
      BY <1>2, <1>4, <1>7
    <3> QED
      BY <1>5, <1>7, <2>2, <3>1, Block DEF Handed, Smaller
  <2>4. \A u \in Threads : ~Calling(u, c, i)'
    BY <1>6, <2>2, OthersCall
  <2> QED
    BY <2>2, <2>3, <2>4 DEF IndexAt
<1>8. CASE ~(c = p /\ i = seen[t])
  <2>1. ~Calling(t, c, i)
    BY <1>1, <1>8 DEF Calling
  <2>2. calls'[c].ran[i] = calls[c].ran[i] /\ ((i < Handed(c))' <=> i < Handed(c))
    <3>1. CASE c # p
      BY <1>2, <1>4, <3>1 DEF Handed
    <3>2. CASE c = p
      <4>1. calls'[c] = s /\ i # seen[t]
        BY <1>2, <1>4, <1>8, <3>2
      <4> QED
        BY <1>5, <3>2, <4>1, Block DEF Handed, Smaller
    <3> QED
      BY <3>1, <3>2
  <2> QED
    BY <1>6, <2>1, <2>2, IndexKeep
<1> QED
  BY <1>7, <1>8

\* Counting an index done and returning leave the indices alone.
LEMMA IndexReturn ==
  ASSUME IInv, NEW t \in Threads, Frame(t), SeenFrame(t), CountDone(t) \/ ParLoad(t),
         NEW c \in Calls, NEW i \in Indices, IndexAt(c, i)
  PROVE  IndexAt(c, i)'
<1>1. calls \in [Calls -> State] /\ DOMAIN pc = Threads /\ par[t] \in Calls
  BY DEF IInv, TypeOK, DataOK, PcOK, CtlInv, CtlAt, CountDone, ParLoad, ParPc
<1>2. ~Calling(t, c, i) /\ ~Calling(t, c, i)'
  BY <1>1 DEF Calling, CountDone, ParLoad, Goto
<1>3. /\ calls'[c].ran = calls[c].ran /\ calls'[c].next = calls[c].next
      /\ calls'[c].n = calls[c].n
  <2>1. PICK s : /\ s.ran = calls[par[t]].ran /\ s.next = calls[par[t]].next
                 /\ s.n = calls[par[t]].n /\ calls' = [calls EXCEPT ![par[t]] = s]
    <3>1. CASE CountDone(t)
      BY <1>1, <3>1 DEF CountDone, State
    <3>2. CASE ParLoad(t) /\ calls' = calls
      BY <1>1, <3>2
    <3>3. CASE ParLoad(t) /\ calls' # calls
      <4>1. calls' = [calls EXCEPT ![par[t]] = [calls[par[t]] EXCEPT !.alive = FALSE]]
        BY <3>3 DEF ParLoad
      <4> QED
        BY <1>1, <4>1 DEF State
    <3> QED
      BY <3>1, <3>2, <3>3
  <2> QED
    BY <1>1, <2>1
<1> QED
  BY <1>2, <1>3, IndexKeep DEF Handed, Smaller

\* A new call starts with no index handed out.
LEMMA IndexStart ==
  ASSUME IInv, NEW t \in Threads, Frame(t), SeenFrame(t), StartParallel(t),
         NEW c \in Calls, NEW i \in Indices, IndexAt(c, i)
  PROVE  IndexAt(c, i)'
<1>1. PICK p \in Calls, n \in 2..MaxN : ParallelFor(t, p, n)
  BY DEF StartParallel
<1>2. calls \in [Calls -> State] /\ DOMAIN pc = Threads /\ DOMAIN par = Threads
  BY DEF IInv, TypeOK, DataOK, PcOK
<1>3. /\ pc[t] = "body" /\ pc'[t] = "helpers" /\ Free(p)
      /\ calls' = [calls EXCEPT ![p] = [Idle EXCEPT !.n = n, !.alive = TRUE]]
  BY <1>1, <1>2 DEF ParallelFor, Goto
<1>4. ~Calling(t, c, i) /\ ~Calling(t, c, i)'
  BY <1>3 DEF Calling
<1>5. CASE c # p
  <2>1. calls'[c] = calls[c]
    BY <1>2, <1>3, <1>5
  <2> QED
    BY <1>4, <2>1, IndexKeep DEF Handed
<1>6. CASE c = p
  <2>1. calls[c] = Idle /\ calls'[c] = [Idle EXCEPT !.n = n, !.alive = TRUE]
    BY <1>2, <1>3, <1>6 DEF IInv, FreeInv, FreeAt
  <2>2. calls'[c].ran[i] = calls[c].ran[i] /\ ((i < Handed(c))' <=> i < Handed(c))
    BY <2>1 DEF Idle, Handed, Smaller, Indices
  <2> QED
    BY <1>4, <2>2, IndexKeep
<1> QED
  BY <1>5, <1>6

LEMMA IndexStep ==
  ASSUME IInv, IndexInv, [Next]_vars
  PROVE  IndexInv'
<1>1. ASSUME NEW t \in Threads, StepOf(t), NEW c \in Calls, NEW i \in Indices
      PROVE  IndexAt(c, i)'
  <2>1. IndexAt(c, i) /\ Frame(t) /\ SeenFrame(t)
    BY <1>1, FrameStep, SeenStep DEF IndexInv, IInv
  <2>2. CASE Aside(t)
    BY <2>1, <2>2, IndexKeep DEF Aside, Calling, Handed
  <2> QED
    BY <1>1, <2>1, <2>2, AsideStep, IndexClaim, IndexCall, IndexReturn, IndexStart
<1>2. CASE UNCHANGED vars
  BY <1>2 DEF IndexInv, IndexAt, Calling, Handed, vars, ctl
<1> QED
  BY <1>1, <1>2, StepCases DEF IndexInv, Indices

LEMMA IndexInit ==
  ASSUME Init
  PROVE  IndexInv
<1>1. /\ \A c \in Calls : calls[c] = Idle
      /\ \A t \in Threads : pc[t] # "call"
  BY DEF Init
<1>2. ASSUME NEW c \in Calls, NEW i \in Indices PROVE IndexAt(c, i)
  <2>1. calls[c].ran[i] = 0 /\ Handed(c) = 0 /\ ~(i < 0)
    BY <1>1, MaxNAssumption DEF Idle, Handed, Smaller, Indices
  <2> QED
    BY <1>1, <2>1 DEF IndexAt, Calling
<1> QED
  BY <1>2 DEF IndexInv

\* A call that has returned has no thread inside fn and has handed out every index.
LEMMA AllRan ==
  ASSUME IInv, IndexInv, NEW c \in Calls, ~Free(c), ~calls[c].alive,
         NEW i \in Indices, i < calls[c].n
  PROVE  calls[c].ran[i] = 1
<1>1. ClaimAt(c) /\ IndexAt(c, i) /\ i \in Nat /\ MaxN \in Nat
  BY MaxNAssumption DEF IInv, ClaimInv, IndexInv, Indices
<1>2. calls[c].n \in Nat /\ calls[c].next \in Nat
  BY <1>1, Block
<1>3. InFlight(c) \in SUBSET Threads
  BY DEF InFlight
<1>4. \A t \in Threads : Cardinality(InFlight(c)) \in Nat
                         /\ (t \in InFlight(c) => Cardinality(InFlight(c)) > 0)
  BY <1>3, CountThreads
<1>5. Main \in Threads
  BY DEF Threads
<1>6. Handed(c) = calls[c].n /\ Cardinality(InFlight(c)) = 0
  BY <1>1, <1>2, <1>4, <1>5 DEF ClaimAt, Handed, Smaller
<1>7. \A t \in Threads : ~Calling(t, c, i)
  BY <1>4, <1>6 DEF Calling, InFlight
<1> QED
  BY <1>1, <1>6, <1>7 DEF IndexAt

\* parallel_for calls fn exactly once for each index by the time it returns, and never
\* twice, for any number of workers, concurrent calls and indices.
THEOREM EachIndexRunsOnce == Spec => []EachIndexOnce
<1>1. Spec => []IndexInv
  BY InvHolds, IndexInit, IndexStep, PTL DEF Spec
<1>2. IInv /\ IndexInv => EachIndexOnce
  BY AllRan DEF EachIndexOnce, IndexInv, IndexAt, Indices
<1> QED
  BY <1>1, <1>2, InvHolds, PTL

=============================================================================
