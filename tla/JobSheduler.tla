----------------------------- MODULE JobSheduler -----------------------------
(***************************************************************************)
(* The job scheduler of utils/job_system.{hpp,cpp}: one shared LIFO queue, *)
(* the main thread that pushes batches and helps to run them, the workers  *)
(* that spin, sleep on work_epoch and stop, and parallel_for, which a      *)
(* running job calls and which pushes helper jobs of its own.              *)
(*                                                                         *)
(* One action is one atomic operation of the code (a load, a fetch_add, a  *)
(* critical section of job_queue, a futex wait or wake), so every          *)
(* interleaving of the threads between those operations is explored.       *)
(* Memory orders are modelled as sequentially consistent.                  *)
(***************************************************************************)
EXTENDS Integers, Sequences, FiniteSets

CONSTANTS
  Workers,   \* the worker threads init() starts, possibly none
  Main,      \* the thread that calls init, push, wait_* and deinit
  Tasks,     \* the jobs main may push, each at most once
  Calls,     \* the State blocks parallel_for may allocate, one per call
  MaxN,      \* largest n a job passes to parallel_for
  NoJob      \* "no job at hand"

Task(j)   == [kind |-> "task", id |-> j]
Helper(c) == [kind |-> "helper", id |-> c]
Job       == {Task(j) : j \in Tasks} \cup {Helper(c) : c \in Calls}

ASSUME WorkersAssumption == IsFiniteSet(Workers) /\ Main \notin Workers
ASSUME MaxNAssumption    == MaxN \in Nat
ASSUME NoJobAssumption   == NoJob \notin Job /\ NoJob \notin Calls /\ NoJob \notin Tasks

VARIABLES
  jobs,       \* JobSheduler::jobs, a stack, the back is the last element
  queued,     \* JobSheduler::queued
  pending,    \* JobSheduler::pending
  workEpoch,  \* JobSheduler::work_epoch
  sleepers,   \* JobSheduler::sleepers
  stopping,   \* JobSheduler::stopping
  notifier,   \* the notifier flag of each task
  calls,      \* the State block of each parallel_for call
  pc,         \* the next operation of each thread
  cur,        \* the job a thread runs, NoJob outside of run_job
  pushing,    \* the job a thread is pushing
  par,        \* the parallel_for call a thread works for, or NoJob
  left,       \* helpers the thread still has to push
  seen,       \* the value a thread loaded before it waits for a change
  waitFor     \* the task whose notifier main waits for, NoJob in wait_till_done

ctl    == <<pc, cur, pushing, par, left, seen, waitFor>>
shared == <<jobs, queued, pending, workEpoch, sleepers, stopping>>
vars   == <<shared, notifier, calls, ctl>>

Threads  == Workers \cup {Main}
NThreads == Cardinality(Workers)

\* A State block: alive is a fact about the caller's frame, where fn lives; ran
\* counts the calls of fn per index.
Idle     == [n |-> 0, next |-> 0, done |-> 0, alive |-> FALSE,
             ran |-> [i \in 0..(MaxN - 1) |-> 0]]
Free(c)  == calls[c].n = 0
Smaller(a, b) == IF a < b THEN a ELSE b

Init ==
  /\ jobs = <<>> /\ queued = 0 /\ pending = 0 /\ workEpoch = 0
  /\ sleepers = 0 /\ stopping = FALSE
  /\ notifier = [j \in Tasks |-> "unused"]
  /\ calls    = [c \in Calls |-> Idle]
  /\ pc       = [t \in Threads |-> IF t = Main THEN "user" ELSE "loop"]
  /\ cur      = [t \in Threads |-> NoJob]
  /\ pushing  = [t \in Threads |-> NoJob]
  /\ par      = [t \in Threads |-> NoJob]
  /\ left     = [t \in Threads |-> 0]
  /\ seen     = [t \in Threads |-> 0]
  /\ waitFor  = NoJob

Goto(t, l) == pc' = [pc EXCEPT ![t] = l]

\* main runs its own code, "drained" directly after a wait_till_done
AtUser == pc[Main] \in {"user", "drained"}

-----------------------------------------------------------------------------
(* The caller of the scheduler: main pushes tasks, waits, stops. *)

UserPush(j) ==
  /\ AtUser /\ notifier[j] = "unused"
  /\ notifier' = [notifier EXCEPT ![j] = "unset"]
  /\ pushing'  = [pushing EXCEPT ![Main] = Task(j)]
  /\ Goto(Main, "push_pending")
  /\ UNCHANGED <<shared, calls, cur, par, left, seen, waitFor>>

UserWaitTillDone ==
  /\ AtUser
  /\ Goto(Main, "try") /\ waitFor' = NoJob
  /\ UNCHANGED <<shared, notifier, calls, cur, pushing, par, left, seen>>

UserWaitFor(j) ==
  /\ AtUser /\ notifier[j] # "unused"
  /\ Goto(Main, "for_load") /\ waitFor' = j
  /\ UNCHANGED <<shared, notifier, calls, cur, pushing, par, left, seen>>

-----------------------------------------------------------------------------
(* push: count the job, queue it, move the epoch, wake a sleeper. *)

PushPending(t) ==
  /\ pc[t] = "push_pending"
  /\ pending' = pending + 1
  /\ Goto(t, "push_queue")
  /\ UNCHANGED <<jobs, queued, workEpoch, sleepers, stopping, notifier, calls,
                 cur, pushing, par, left, seen, waitFor>>

\* Mutant: queued is not raised with the push.
PushQueueUncounted(t) ==
  /\ pc[t] = "push_queue"
  /\ jobs' = Append(jobs, pushing[t]) /\ UNCHANGED queued
  /\ pushing' = [pushing EXCEPT ![t] = NoJob]
  /\ Goto(t, "push_epoch")
  /\ UNCHANGED <<pending, workEpoch, sleepers, stopping, notifier, calls,
                 cur, par, left, seen, waitFor>>

PushQueue(t) ==
  /\ pc[t] = "push_queue"
  /\ jobs' = Append(jobs, pushing[t]) /\ queued' = queued + 1
  /\ pushing' = [pushing EXCEPT ![t] = NoJob]
  /\ Goto(t, "push_epoch")
  /\ UNCHANGED <<pending, workEpoch, sleepers, stopping, notifier, calls,
                 cur, par, left, seen, waitFor>>

PushEpoch(t) ==
  /\ pc[t] = "push_epoch"
  /\ workEpoch' = workEpoch + 1
  /\ Goto(t, "push_sleepers")
  /\ UNCHANGED <<jobs, queued, pending, sleepers, stopping, notifier, calls,
                 cur, pushing, par, left, seen, waitFor>>

\* where push returns to: the user, or the helper loop of parallel_for
AfterPush(t) == IF par[t] = NoJob THEN "user" ELSE "helpers"

PushSleepers(t) ==
  /\ pc[t] = "push_sleepers"
  /\ Goto(t, IF sleepers # 0 THEN "push_notify" ELSE AfterPush(t))
  /\ UNCHANGED <<shared, notifier, calls, cur, pushing, par, left, seen, waitFor>>

Asleep == {w \in Workers : pc[w] = "asleep"}

\* notify_one wakes one of the workers blocked at this moment, if there is one
PushNotify(t) ==
  /\ pc[t] = "push_notify"
  /\ \/ Asleep = {} /\ Goto(t, AfterPush(t))
     \/ \E w \in Asleep :
          pc' = [pc EXCEPT ![t] = AfterPush(t), ![w] = "sleep_wait"]
  /\ UNCHANGED <<shared, notifier, calls, cur, pushing, par, left, seen, waitFor>>

-----------------------------------------------------------------------------
(* try_get_job and what each of its three callers does on an empty queue. *)

OnEmpty(t) == IF t # Main THEN "spin"
              ELSE IF waitFor = NoJob THEN "till_load" ELSE "for_load"

TryLoad(t) ==
  /\ pc[t] = "try"
  /\ Goto(t, IF queued = 0 THEN OnEmpty(t) ELSE "pop")
  /\ UNCHANGED <<shared, notifier, calls, cur, pushing, par, left, seen, waitFor>>

TryPop(t) ==
  /\ pc[t] = "pop"
  /\ IF jobs = <<>>
       THEN /\ Goto(t, OnEmpty(t))
            /\ UNCHANGED <<jobs, queued, cur, par>>
       ELSE LET job == jobs[Len(jobs)] IN
            /\ jobs' = SubSeq(jobs, 1, Len(jobs) - 1)
            /\ queued' = queued - 1
            /\ cur' = [cur EXCEPT ![t] = job]
            /\ IF job.kind = "helper"
                 THEN par' = [par EXCEPT ![t] = job.id] /\ Goto(t, "claim")
                 ELSE Goto(t, "body") /\ UNCHANGED par
  /\ UNCHANGED <<pending, workEpoch, sleepers, stopping, notifier, calls,
                 pushing, left, seen, waitFor>>

-----------------------------------------------------------------------------
(* run_job: the body, the notifier, the pending count. *)

BodyReturns(t) ==
  /\ pc[t] = "body"
  /\ Goto(t, "notify")
  /\ UNCHANGED <<shared, notifier, calls, cur, pushing, par, left, seen, waitFor>>

JobNotify(t) ==
  /\ pc[t] = "notify"
  /\ IF cur[t].kind = "task"
       THEN notifier' = [notifier EXCEPT ![cur[t].id] = "set"]
       ELSE UNCHANGED notifier
  /\ Goto(t, "finish")
  /\ UNCHANGED <<shared, calls, cur, pushing, par, left, seen, waitFor>>

AfterJob(t) == IF t # Main THEN "loop"
               ELSE IF waitFor = NoJob THEN "try" ELSE "for_load"

JobFinish(t) ==
  /\ pc[t] = "finish"
  /\ pending' = pending - 1
  /\ cur' = [cur EXCEPT ![t] = NoJob]
  /\ pc' = [u \in Threads |->
              CASE u = t                                        -> AfterJob(t)
                [] pending = 1 /\ u = Main /\ pc[u] = "till_asleep" -> "till_wait"
                [] OTHER                                        -> pc[u]]
  /\ UNCHANGED <<jobs, queued, workEpoch, sleepers, stopping, notifier, calls,
                 pushing, par, left, seen, waitFor>>

-----------------------------------------------------------------------------
(* wait_till_done and wait_for, main only. *)

\* Mutant: an empty queue is taken for the end, jobs still running or not.
TillLoadQueued ==
  /\ pc[Main] = "till_load"
  /\ Goto(Main, IF queued = 0 THEN "drained" ELSE "try")
  /\ UNCHANGED <<shared, notifier, calls, cur, pushing, par, left, seen, waitFor>>

TillLoad ==
  /\ pc[Main] = "till_load"
  /\ IF pending = 0
       THEN Goto(Main, "drained") /\ UNCHANGED seen
       ELSE Goto(Main, "till_wait") /\ seen' = [seen EXCEPT ![Main] = pending]
  /\ UNCHANGED <<shared, notifier, calls, cur, pushing, par, left, waitFor>>

TillWait ==
  /\ pc[Main] = "till_wait"
  /\ Goto(Main, IF pending # seen[Main] THEN "try" ELSE "till_asleep")
  /\ UNCHANGED <<shared, notifier, calls, cur, pushing, par, left, seen, waitFor>>

ForLoad ==
  /\ pc[Main] = "for_load"
  /\ IF notifier[waitFor] = "set"
       THEN Goto(Main, "user") /\ waitFor' = NoJob
       ELSE Goto(Main, "try") /\ UNCHANGED waitFor
  /\ UNCHANGED <<shared, notifier, calls, cur, pushing, par, left, seen>>

-----------------------------------------------------------------------------
(* parallel_for, called by the body of a task. *)

ParallelFor(t, c, n) ==
  /\ pc[t] = "body" /\ Workers # {} /\ n > 1
  /\ Free(c)
  /\ calls' = [calls EXCEPT ![c] = [Idle EXCEPT !.n = n, !.alive = TRUE]]
  /\ par'   = [par EXCEPT ![t] = c]
  /\ left'  = [left EXCEPT ![t] = Smaller(NThreads, n - 1)]
  /\ Goto(t, "helpers")
  /\ UNCHANGED <<shared, notifier, cur, pushing, seen, waitFor>>

PushHelpers(t) ==
  /\ pc[t] = "helpers"
  /\ IF left[t] = 0
       THEN Goto(t, "claim") /\ UNCHANGED <<pushing, left>>
       ELSE /\ left' = [left EXCEPT ![t] = @ - 1]
            /\ pushing' = [pushing EXCEPT ![t] = Helper(par[t])]
            /\ Goto(t, "push_pending")
  /\ UNCHANGED <<shared, notifier, calls, cur, par, seen, waitFor>>

\* Mutant: i > n instead of i >= n.
ClaimOneMore(t) ==
  /\ pc[t] = "claim"
  /\ LET c == par[t] IN
     /\ calls' = [calls EXCEPT ![c].next = @ + 1]
     /\ IF calls[c].next <= calls[c].n
          THEN /\ seen' = [seen EXCEPT ![t] = calls[c].next]
               /\ Goto(t, "call") /\ UNCHANGED par
          ELSE /\ UNCHANGED seen
               /\ IF cur[t].kind = "helper"
                    THEN par' = [par EXCEPT ![t] = NoJob] /\ Goto(t, "notify")
                    ELSE Goto(t, "par_load") /\ UNCHANGED par
  /\ UNCHANGED <<shared, notifier, cur, pushing, left, waitFor>>

\* the work lambda, run by the caller and by every helper job
Claim(t) ==
  /\ pc[t] = "claim"
  /\ LET c == par[t] IN
     /\ calls' = [calls EXCEPT ![c].next = @ + 1]
     /\ IF calls[c].next < calls[c].n
          THEN /\ seen' = [seen EXCEPT ![t] = calls[c].next]
               /\ Goto(t, "call") /\ UNCHANGED par
          ELSE /\ UNCHANGED seen
               /\ IF cur[t].kind = "helper"
                    THEN par' = [par EXCEPT ![t] = NoJob] /\ Goto(t, "notify")
                    ELSE Goto(t, "par_load") /\ UNCHANGED par
  /\ UNCHANGED <<shared, notifier, cur, pushing, left, waitFor>>

CallFn(t) ==
  /\ pc[t] = "call"
  /\ calls' = [calls EXCEPT ![par[t]].ran[seen[t]] = @ + 1]
  /\ Goto(t, "count")
  /\ UNCHANGED <<shared, notifier, cur, pushing, par, left, seen, waitFor>>

\* Mutant: the last index done does not wake the caller.
CountDoneSilent(t) ==
  /\ pc[t] = "count"
  /\ calls' = [calls EXCEPT ![par[t]].done = @ + 1]
  /\ Goto(t, "claim")
  /\ UNCHANGED <<shared, notifier, cur, pushing, par, left, seen, waitFor>>

CountDone(t) ==
  /\ pc[t] = "count"
  /\ LET c == par[t] IN
     /\ calls' = [calls EXCEPT ![c].done = @ + 1]
     /\ pc' = [u \in Threads |->
                 CASE u = t -> "claim"
                   [] /\ calls[c].done + 1 = calls[c].n
                      /\ pc[u] = "par_asleep" /\ par[u] = c -> "par_wait"
                   [] OTHER -> pc[u]]
  /\ UNCHANGED <<shared, notifier, cur, pushing, par, left, seen, waitFor>>

\* Mutant: the caller returns when every index is claimed instead of done.
ParLoadClaimed(t) ==
  /\ pc[t] = "par_load"
  /\ calls[par[t]].next >= calls[par[t]].n
  /\ calls' = [calls EXCEPT ![par[t]].alive = FALSE]
  /\ par' = [par EXCEPT ![t] = NoJob]
  /\ Goto(t, "body")
  /\ UNCHANGED <<shared, notifier, cur, pushing, left, seen, waitFor>>

\* the caller returns, and fn dies with its frame, once done = n
ParLoad(t) ==
  /\ pc[t] = "par_load"
  /\ LET c == par[t] IN
     IF calls[c].done = calls[c].n
       THEN /\ calls' = [calls EXCEPT ![c].alive = FALSE]
            /\ par' = [par EXCEPT ![t] = NoJob]
            /\ Goto(t, "body") /\ UNCHANGED seen
       ELSE /\ seen' = [seen EXCEPT ![t] = calls[c].done]
            /\ Goto(t, "par_wait") /\ UNCHANGED <<calls, par>>
  /\ UNCHANGED <<shared, notifier, cur, pushing, left, waitFor>>

ParWait(t) ==
  /\ pc[t] = "par_wait"
  /\ Goto(t, IF calls[par[t]].done # seen[t] THEN "par_load" ELSE "par_asleep")
  /\ UNCHANGED <<shared, notifier, calls, cur, pushing, par, left, seen, waitFor>>

-----------------------------------------------------------------------------
(* start_worker and sleep_until_work. *)

WorkerLoop(w) ==
  /\ pc[w] = "loop"
  /\ Goto(w, IF stopping THEN "exited" ELSE "try")
  /\ UNCHANGED <<shared, notifier, calls, cur, pushing, par, left, seen, waitFor>>

\* the spin loop ends on work, on stopping, or by running out of iterations
Spin(w) ==
  /\ pc[w] = "spin"
  /\ Goto(w, IF queued # 0 \/ stopping THEN "loop" ELSE "sleep_count")
  /\ UNCHANGED <<shared, notifier, calls, cur, pushing, par, left, seen, waitFor>>

SleepCount(w) ==
  /\ pc[w] = "sleep_count"
  /\ sleepers' = sleepers + 1
  /\ Goto(w, "sleep_epoch")
  /\ UNCHANGED <<jobs, queued, pending, workEpoch, stopping, notifier, calls,
                 cur, pushing, par, left, seen, waitFor>>

SleepEpoch(w) ==
  /\ pc[w] = "sleep_epoch"
  /\ seen' = [seen EXCEPT ![w] = workEpoch]
  /\ Goto(w, "sleep_queued")
  /\ UNCHANGED <<shared, notifier, calls, cur, pushing, par, left, waitFor>>

\* Mutant: the queue is not looked at again after sleepers was raised.
SleepQueuedBlind(w) ==
  /\ pc[w] = "sleep_queued"
  /\ Goto(w, "sleep_stopping")
  /\ UNCHANGED <<shared, notifier, calls, cur, pushing, par, left, seen, waitFor>>

SleepQueued(w) ==
  /\ pc[w] = "sleep_queued"
  /\ Goto(w, IF queued = 0 THEN "sleep_stopping" ELSE "sleep_leave")
  /\ UNCHANGED <<shared, notifier, calls, cur, pushing, par, left, seen, waitFor>>

SleepStopping(w) ==
  /\ pc[w] = "sleep_stopping"
  /\ Goto(w, IF stopping THEN "sleep_leave" ELSE "sleep_wait")
  /\ UNCHANGED <<shared, notifier, calls, cur, pushing, par, left, seen, waitFor>>

\* atomic::wait blocks only while the value is still the one passed in
SleepWait(w) ==
  /\ pc[w] = "sleep_wait"
  /\ Goto(w, IF workEpoch # seen[w] THEN "sleep_leave" ELSE "asleep")
  /\ UNCHANGED <<shared, notifier, calls, cur, pushing, par, left, seen, waitFor>>

SleepLeave(w) ==
  /\ pc[w] = "sleep_leave"
  /\ sleepers' = sleepers - 1
  /\ Goto(w, "loop")
  /\ UNCHANGED <<jobs, queued, pending, workEpoch, stopping, notifier, calls,
                 cur, pushing, par, left, seen, waitFor>>

-----------------------------------------------------------------------------
(* deinit, which main.cpp calls right after a wait_till_done. *)

\* Mutant: deinit without the wait_till_done before it.
UserDeinitEarly ==
  /\ AtUser
  /\ stopping' = TRUE
  /\ Goto(Main, "deinit_epoch")
  /\ UNCHANGED <<jobs, queued, pending, workEpoch, sleepers, notifier, calls,
                 cur, pushing, par, left, seen, waitFor>>

UserDeinit ==
  /\ pc[Main] = "drained"
  /\ stopping' = TRUE
  /\ Goto(Main, "deinit_epoch")
  /\ UNCHANGED <<jobs, queued, pending, workEpoch, sleepers, notifier, calls,
                 cur, pushing, par, left, seen, waitFor>>

DeinitEpoch ==
  /\ pc[Main] = "deinit_epoch"
  /\ workEpoch' = workEpoch + 1
  /\ Goto(Main, "deinit_notify")
  /\ UNCHANGED <<jobs, queued, pending, sleepers, stopping, notifier, calls,
                 cur, pushing, par, left, seen, waitFor>>

DeinitNotify ==
  /\ pc[Main] = "deinit_notify"
  /\ pc' = [u \in Threads |->
              CASE u = Main                             -> "join"
                [] u \in Workers /\ pc[u] = "asleep"    -> "sleep_wait"
                [] OTHER                                -> pc[u]]
  /\ UNCHANGED <<shared, notifier, calls, cur, pushing, par, left, seen, waitFor>>

DeinitJoin ==
  /\ pc[Main] = "join" /\ \A w \in Workers : pc[w] = "exited"
  /\ jobs' = <<>>
  /\ Goto(Main, "ended")
  /\ UNCHANGED <<queued, pending, workEpoch, sleepers, stopping, notifier, calls,
                 cur, pushing, par, left, seen, waitFor>>

-----------------------------------------------------------------------------
\* deinit has returned: nothing is left to do
Ended == pc[Main] = "ended" /\ UNCHANGED vars

PushStep(t)     == PushPending(t) \/ PushQueue(t) \/ PushEpoch(t) \/ PushSleepers(t)
                     \/ PushNotify(t)
JobStep(t)      == TryLoad(t) \/ TryPop(t) \/ BodyReturns(t) \/ JobNotify(t) \/ JobFinish(t)
ParallelStep(t) == PushHelpers(t) \/ Claim(t) \/ CallFn(t) \/ CountDone(t) \/ ParLoad(t)
                     \/ ParWait(t)
WorkerStep(w)   == WorkerLoop(w) \/ Spin(w) \/ SleepCount(w) \/ SleepEpoch(w)
                     \/ SleepQueued(w) \/ SleepStopping(w) \/ SleepWait(w) \/ SleepLeave(w)
MainStep        == TillLoad \/ TillWait \/ ForLoad \/ DeinitEpoch \/ DeinitNotify \/ DeinitJoin
UserStep        == (\E j \in Tasks : UserPush(j) \/ UserWaitFor(j))
                     \/ UserWaitTillDone \/ UserDeinit
StartParallel(t) == \E c \in Calls, n \in 2..MaxN : ParallelFor(t, c, n)

\* a step the thread takes because the scheduler's code is running
RunStep(t) == PushStep(t) \/ JobStep(t) \/ ParallelStep(t)

Next ==
  \/ UserStep \/ MainStep \/ Ended
  \/ \E t \in Threads : RunStep(t) \/ StartParallel(t)
  \/ \E w \in Workers : WorkerStep(w)

Spec == Init /\ [][Next]_vars

\* Every thread that can run keeps running (the OS schedules it) and every job
\* body returns. What main asks for next is its own choice and not fair.
Fairness ==
  /\ \A t \in Threads : WF_vars(RunStep(t))
  /\ \A w \in Workers : WF_vars(WorkerStep(w))
  /\ WF_vars(MainStep)

FairSpec == Spec /\ Fairness

-----------------------------------------------------------------------------
(* Types *)

PushPc == {"push_pending", "push_queue", "push_epoch", "push_sleepers", "push_notify"}
RunPc  == {"try", "pop", "body", "notify", "finish"}
ParPc  == {"helpers", "claim", "call", "count", "par_load", "par_wait", "par_asleep"}
MainPc == {"user", "drained", "till_load", "till_wait", "till_asleep", "for_load",
           "deinit_epoch", "deinit_notify", "join", "ended"}
WorkerPc == {"loop", "spin", "sleep_count", "sleep_epoch", "sleep_queued",
             "sleep_stopping", "sleep_wait", "asleep", "sleep_leave", "exited"}
Pc(t)  == PushPc \cup RunPc \cup ParPc \cup (IF t = Main THEN MainPc ELSE WorkerPc)

State == [n : 0..MaxN, next : Nat, done : Nat, alive : BOOLEAN,
          ran : [0..(MaxN - 1) -> Nat]]

DataOK ==
  /\ jobs \in Seq(Job)
  /\ queued \in Nat /\ pending \in Nat /\ workEpoch \in Nat
  /\ sleepers \in Nat /\ stopping \in BOOLEAN
  /\ notifier \in [Tasks -> {"unused", "unset", "set"}]
  /\ calls \in [Calls -> State]
  /\ cur \in [Threads -> Job \cup {NoJob}]
  /\ pushing \in [Threads -> Job \cup {NoJob}]
  /\ par \in [Threads -> Calls \cup {NoJob}]
  /\ left \in [Threads -> Nat]
  /\ seen \in [Threads -> Nat]
  /\ waitFor \in Tasks \cup {NoJob}

PcOK ==
  /\ pc \in [Threads -> PushPc \cup RunPc \cup ParPc \cup MainPc \cup WorkerPc]
  /\ \A t \in Threads : pc[t] \in Pc(t)

\* The shape of the scheduler's state: every counter is a natural number (the
\* u32 counters of job_system.hpp never wrap below zero) and every thread is
\* at a place its role has.
TypeOK == DataOK /\ PcOK

-----------------------------------------------------------------------------
(* Safety *)

Running == {t \in Threads : cur[t] # NoJob}
Counted == {t \in Threads : pc[t] = "push_queue"}

\* pending counts exactly the jobs that are being queued, are queued or run, and
\* queued is the length of the stack: the two counters wait_till_done and the
\* idle threads read without the lock never disagree with the truth.
Accounting ==
  /\ queued = Len(jobs)
  /\ pending = Len(jobs) + Cardinality(Running) + Cardinality(Counted)

\* When wait_till_done has returned and main has not pushed again, nothing is
\* queued, nothing runs and every task pushed has set its notifier. main.cpp
\* frees the IR context right after.
DrainedMeansDone ==
  pc[Main] = "drained" =>
    /\ jobs = <<>> /\ Running = {}
    /\ \A j \in Tasks : notifier[j] # "unset"

\* fn is a reference to a temporary in the frame of parallel_for's caller
\* (vectorizer.cpp passes a lambda): no thread calls it once that frame is gone,
\* however late the helper job was taken from the queue.
FnOutlivesUse == \A t \in Threads : pc[t] = "call" => calls[par[t]].alive

\* parallel_for calls fn at most once for each index, and exactly once for each
\* index below n by the time it returns.
EachIndexOnce ==
  \A c \in Calls : \A i \in 0..(MaxN - 1) :
    /\ calls[c].ran[i] <= 1
    /\ ~Free(c) /\ ~calls[c].alive /\ i < calls[c].n => calls[c].ran[i] = 1

\* deinit throws away what is still in the queue (jobs.clear()): with the
\* protocol of main.cpp there is nothing, and no worker is left inside a job.
NothingThrownAway == stopping => jobs = <<>> /\ Running = {}

-----------------------------------------------------------------------------
(* The inductive invariant behind the safety properties, see JobShedulerProofs. *)

InSleep == {"sleep_epoch", "sleep_queued", "sleep_stopping", "sleep_wait", "asleep",
            "sleep_leave"}

\* where a thread is tells whether it runs a job, and of which kind
CtlAt(t) ==
  /\ pc[t] \in {"body", "helpers", "par_load", "par_wait", "par_asleep"} =>
       cur[t] \in {Task(j) : j \in Tasks}
  /\ pc[t] \in {"notify", "finish", "claim", "call", "count"} => cur[t] \in Job
  /\ pc[t] \in {"try", "pop"} \cup MainPc \cup WorkerPc => cur[t] = NoJob
  /\ pc[t] \in PushPc =>
       IF par[t] = NoJob THEN t = Main /\ cur[t] = NoJob
                         ELSE cur[t] \in {Task(j) : j \in Tasks}
  /\ pc[t] \in ParPc => par[t] \in Calls
  /\ pc[t] \notin ParPc \cup PushPc => par[t] = NoJob
  /\ pc[t] \in {"push_pending", "push_queue"} => pushing[t] \in Job
  /\ pushing[t] = NoJob \/ pc[t] \in {"push_pending", "push_queue"}

CtlInv == \A t \in Threads : CtlAt(t)

Sleeping == {w \in Workers : pc[w] \in InSleep}
InFlight(c) == {t \in Threads : par[t] = c /\ pc[t] \in {"call", "count"}}

\* A State block nobody allocated yet is not used by anyone.
FreeAt(c) ==
  Free(c) =>
    /\ calls[c] = Idle
    /\ \A t \in Threads : par[t] # c /\ pushing[t] # Helper(c)
    /\ \A i \in DOMAIN jobs : jobs[i] # Helper(c)

FreeInv == \A c \in Calls : FreeAt(c)

\* The indices handed out are those done plus those being run, and the caller's
\* frame is gone only when all are done.
ClaimAt(c) ==
  /\ calls[c].done + Cardinality(InFlight(c)) = Smaller(calls[c].next, calls[c].n)
  /\ ~Free(c) /\ ~calls[c].alive => calls[c].done = calls[c].n

ClaimInv == \A c \in Calls : ClaimAt(c)

\* Once wait_till_done has returned, only a push starts anything again, and from
\* deinit on there is no push.
Stopping == {"deinit_epoch", "deinit_notify", "join", "ended"}

EndInv ==
  /\ pc[Main] \in {"drained"} \cup Stopping => pending = 0
  /\ stopping => pc[Main] \in Stopping

\* A task whose notifier is not set is being pushed, queued or run.
TaskInv ==
  \A j \in Tasks : notifier[j] = "unset" =>
    \/ \E i \in DOMAIN jobs : jobs[i] = Task(j)
    \/ \E t \in Threads : pushing[t] = Task(j)
    \/ \E t \in Threads : cur[t] = Task(j) /\ pc[t] # "finish"

IInv ==
  /\ TypeOK /\ CtlInv
  /\ Accounting /\ sleepers = Cardinality(Sleeping) /\ EndInv
  /\ TaskInv /\ FreeInv /\ ClaimInv

-----------------------------------------------------------------------------
(* Liveness *)

\* No wakeup is lost: a pushed task is run even if main never waits for it and
\* every worker was going to sleep when it was pushed.
EveryTaskRuns == \A j \in Tasks : notifier[j] = "unset" ~> notifier[j] = "set"

\* Every call of the scheduler that blocks comes back: wait_till_done and wait_for;
\* parallel_for, although its helpers may be queued behind other jobs or be taken by
\* nobody; deinit, although a worker may be falling asleep while it is called.
WaitsReturn ==
  /\ pc[Main] \in {"till_load", "for_load"} ~> AtUser
  /\ \A c \in Calls : calls[c].alive ~> ~calls[c].alive
  /\ stopping ~> pc[Main] = "ended"

=============================================================================
