----------------------------- MODULE ThreadPool -----------------------------
(***************************************************************************)
(* The worker pool of rate.cxx: a std::queue of tasks guarded by one       *)
(* std::mutex, a condition variable the workers sleep on, and a `stop'     *)
(* flag that the destructor raises before it joins every worker.           *)
(*                                                                         *)
(* The main thread constructs the pool, enqueues NumTasks requests in the  *)
(* order 1, 2, ..., NumTasks, and destroys the pool.  A critical section   *)
(* is two steps, taking the mutex and then using and releasing it, so that *)
(* every interleaving of the threads outside it is a behaviour.            *)
(***************************************************************************)
EXTENDS Naturals, Sequences

CONSTANTS
  Worker,      \* the threads of the pool (num_threads of them)
  Main,        \* the thread that owns the pool
  NoThread,    \* the value of `mutex' when nobody holds it
  NumTasks     \* how many requests main enqueues

ASSUME PoolAssumption ==
  /\ Worker # {}
  /\ Main \notin Worker
  /\ NoThread \notin Worker \cup {Main}
  /\ NumTasks \in Nat

VARIABLES
  mpc,         \* where main is
  wpc,         \* where each worker is
  mutex,       \* the holder of queue_mutex
  tasks,       \* the task queue
  stop,        \* the pool's stop flag
  cur,         \* the task each worker moved out of the queue, 0 when none
  submitted,   \* how many tasks main has pushed (its loop counter i)
  taken,       \* how many tasks the workers have popped (history)
  executed     \* how many times each task has run to its end (history)

vars == <<mpc, wpc, mutex, tasks, stop, cur, submitted, taken, executed>>

Task == 1 .. NumTasks

MainPC == {"ctor", "enqueue", "push", "notify", "stop", "notify_all",
           "join", "done"}

WorkerPC == {"unborn", "lock", "pred", "waiting", "run", "returned"}

TypeOK ==
  /\ mpc \in MainPC
  /\ wpc \in [Worker -> WorkerPC]
  /\ mutex \in Worker \cup {Main, NoThread}
  /\ tasks \in Seq(Nat)
  /\ stop \in BOOLEAN
  /\ cur \in [Worker -> Nat]
  /\ submitted \in 0 .. NumTasks
  /\ taken \in 0 .. NumTasks
  /\ executed \in [Task -> Nat]

Init ==
  /\ mpc = "ctor"
  /\ wpc = [w \in Worker |-> "unborn"]
  /\ mutex = NoThread
  /\ tasks = <<>>
  /\ stop = FALSE
  /\ cur = [w \in Worker |-> 0]
  /\ submitted = 0
  /\ taken = 0
  /\ executed = [t \in Task |-> 0]

(***************************************************************************)
(* The mutex and the condition variable.                                   *)
(***************************************************************************)

Acquire(p) == mutex = NoThread /\ mutex' = p

Release == mutex' = NoThread

Waiting == {w \in Worker : wpc[w] = "waiting"}

\* A woken worker has to take the mutex again before wait() re-evaluates its
\* predicate, which is also what a worker at the top of its loop does.
Wake(S) == wpc' = [w \in Worker |-> IF w \in S THEN "lock" ELSE wpc[w]]

-----------------------------------------------------------------------------
(***************************************************************************)
(* The main thread.                                                        *)
(***************************************************************************)

\* One turn of the constructor's loop: the new thread runs at once.
SpawnWorker(w) ==
  /\ mpc = "ctor"
  /\ wpc[w] = "unborn"
  /\ wpc' = [wpc EXCEPT ![w] = "lock"]
  /\ UNCHANGED <<mpc, mutex, tasks, stop, cur, submitted, taken, executed>>

EndConstructor ==
  /\ mpc = "ctor"
  /\ \A w \in Worker : wpc[w] # "unborn"
  /\ mpc' = "enqueue"
  /\ UNCHANGED <<wpc, mutex, tasks, stop, cur, submitted, taken, executed>>

\* Mutant of EnqueueLock: the loop of main runs once too often.
EnqueueLock_OneTooMany ==
  /\ mpc = "enqueue"
  /\ submitted <= NumTasks
  /\ Acquire(Main)
  /\ mpc' = "push"
  /\ UNCHANGED <<wpc, tasks, stop, cur, submitted, taken, executed>>

\* enqueue_task, in its three parts: lock, push and unlock, notify_one.
EnqueueLock ==
  /\ mpc = "enqueue"
  /\ submitted < NumTasks
  /\ Acquire(Main)
  /\ mpc' = "push"
  /\ UNCHANGED <<wpc, tasks, stop, cur, submitted, taken, executed>>

EnqueuePush ==
  /\ mpc = "push"
  /\ tasks' = Append(tasks, submitted + 1)
  /\ submitted' = submitted + 1
  /\ Release
  /\ mpc' = "notify"
  /\ UNCHANGED <<wpc, stop, cur, taken, executed>>

NotifyOne ==
  /\ mpc = "notify"
  /\ IF Waiting = {} THEN UNCHANGED wpc ELSE \E w \in Waiting : Wake({w})
  /\ mpc' = "enqueue"
  /\ UNCHANGED <<mutex, tasks, stop, cur, submitted, taken, executed>>

\* ~ThreadPool: lock, raise stop and unlock, notify_all, join every worker.
DestructorLock ==
  /\ mpc = "enqueue"
  /\ submitted = NumTasks
  /\ Acquire(Main)
  /\ mpc' = "stop"
  /\ UNCHANGED <<wpc, tasks, stop, cur, submitted, taken, executed>>

SetStop ==
  /\ mpc = "stop"
  /\ stop' = TRUE
  /\ Release
  /\ mpc' = "notify_all"
  /\ UNCHANGED <<wpc, tasks, cur, submitted, taken, executed>>

\* Mutant of NotifyAll: the destructor wakes one sleeper only.
NotifyAll_One ==
  /\ mpc = "notify_all"
  /\ IF Waiting = {} THEN UNCHANGED wpc ELSE \E w \in Waiting : Wake({w})
  /\ mpc' = "join"
  /\ UNCHANGED <<mutex, tasks, stop, cur, submitted, taken, executed>>

NotifyAll ==
  /\ mpc = "notify_all"
  /\ Wake(Waiting)
  /\ mpc' = "join"
  /\ UNCHANGED <<mutex, tasks, stop, cur, submitted, taken, executed>>

\* Mutant of Join: the destructor joins the first worker and leaves the rest.
Join_First ==
  /\ mpc = "join"
  /\ \E w \in Worker : wpc[w] = "returned"
  /\ mpc' = "done"
  /\ UNCHANGED <<wpc, mutex, tasks, stop, cur, submitted, taken, executed>>

Join ==
  /\ mpc = "join"
  /\ \A w \in Worker : wpc[w] = "returned"
  /\ mpc' = "done"
  /\ UNCHANGED <<wpc, mutex, tasks, stop, cur, submitted, taken, executed>>

\* main has returned: nothing is left to do.
Terminated == mpc = "done" /\ UNCHANGED vars

MainStep ==
  \/ \E w \in Worker : SpawnWorker(w)
  \/ EndConstructor
  \/ EnqueueLock \/ EnqueuePush \/ NotifyOne
  \/ DestructorLock \/ SetStop \/ NotifyAll \/ Join

-----------------------------------------------------------------------------
(***************************************************************************)
(* A worker: the body of worker_thread.                                    *)
(***************************************************************************)

WorkerLock(w) ==
  /\ wpc[w] = "lock"
  /\ Acquire(w)
  /\ wpc' = [wpc EXCEPT ![w] = "pred"]
  /\ UNCHANGED <<mpc, tasks, stop, cur, submitted, taken, executed>>

\* Mutant of WorkerWait: the predicate of wait() forgets `|| stop'.
WorkerWait_IgnoresStop(w) ==
  /\ wpc[w] = "pred"
  /\ tasks = <<>>
  /\ Release
  /\ wpc' = [wpc EXCEPT ![w] = "waiting"]
  /\ UNCHANGED <<mpc, tasks, stop, cur, submitted, taken, executed>>

\* wait() with a false predicate releases the mutex and blocks, atomically.
WorkerWait(w) ==
  /\ wpc[w] = "pred"
  /\ tasks = <<>> /\ ~stop
  /\ Release
  /\ wpc' = [wpc EXCEPT ![w] = "waiting"]
  /\ UNCHANGED <<mpc, tasks, stop, cur, submitted, taken, executed>>

\* Mutant of WorkerReturn: the early return leaves queue_mutex locked.
WorkerReturn_KeepsLock(w) ==
  /\ wpc[w] = "pred"
  /\ stop /\ tasks = <<>>
  /\ wpc' = [wpc EXCEPT ![w] = "returned"]
  /\ UNCHANGED <<mpc, mutex, tasks, stop, cur, submitted, taken, executed>>

\* Mutant of WorkerReturn: the test forgets `&& tasks.empty()'.
WorkerReturn_IgnoresQueue(w) ==
  /\ wpc[w] = "pred"
  /\ stop
  /\ Release
  /\ wpc' = [wpc EXCEPT ![w] = "returned"]
  /\ UNCHANGED <<mpc, tasks, stop, cur, submitted, taken, executed>>

WorkerReturn(w) ==
  /\ wpc[w] = "pred"
  /\ stop /\ tasks = <<>>
  /\ Release
  /\ wpc' = [wpc EXCEPT ![w] = "returned"]
  /\ UNCHANGED <<mpc, tasks, stop, cur, submitted, taken, executed>>

\* Mutant of WorkerTake: front() without pop().
WorkerTake_NoPop(w) ==
  /\ wpc[w] = "pred"
  /\ tasks # <<>>
  /\ taken < NumTasks
  /\ cur' = [cur EXCEPT ![w] = Head(tasks)]
  /\ taken' = taken + 1
  /\ Release
  /\ wpc' = [wpc EXCEPT ![w] = "run"]
  /\ UNCHANGED <<mpc, tasks, stop, submitted, executed>>

WorkerTake(w) ==
  /\ wpc[w] = "pred"
  /\ tasks # <<>>
  /\ cur' = [cur EXCEPT ![w] = Head(tasks)]
  /\ tasks' = Tail(tasks)
  /\ taken' = taken + 1
  /\ Release
  /\ wpc' = [wpc EXCEPT ![w] = "run"]
  /\ UNCHANGED <<mpc, stop, submitted, executed>>

\* Mutant of RunTask: the finished task stays in the worker's hands.
RunTask_Keeps(w) ==
  /\ wpc[w] = "run"
  /\ executed' = [executed EXCEPT ![cur[w]] = @ + 1]
  /\ wpc' = [wpc EXCEPT ![w] = "lock"]
  /\ UNCHANGED <<mpc, mutex, tasks, stop, cur, submitted, taken>>

\* The end of task(), which runs without the mutex.
RunTask(w) ==
  /\ wpc[w] = "run"
  /\ executed' = [executed EXCEPT ![cur[w]] = @ + 1]
  /\ cur' = [cur EXCEPT ![w] = 0]
  /\ wpc' = [wpc EXCEPT ![w] = "lock"]
  /\ UNCHANGED <<mpc, mutex, tasks, stop, submitted, taken>>

WorkerStep(w) ==
  WorkerLock(w) \/ WorkerWait(w) \/ WorkerReturn(w) \/ WorkerTake(w) \/ RunTask(w)

\* A condition variable may wake a thread that nobody notified.
SpuriousWake(w) ==
  /\ wpc[w] = "waiting"
  /\ Wake({w})
  /\ UNCHANGED <<mpc, mutex, tasks, stop, cur, submitted, taken, executed>>

Next ==
  \/ MainStep
  \/ \E w \in Worker : WorkerStep(w) \/ SpuriousWake(w)
  \/ Terminated

Spec == Init /\ [][Next]_vars

-----------------------------------------------------------------------------
(***************************************************************************)
(* Properties.                                                             *)
(***************************************************************************)

InCritical(p) ==
  IF p = Main THEN mpc \in {"push", "stop"} ELSE wpc[p] = "pred"

\* Mutual exclusion on the queue and the stop flag: a thread is between lock
\* and unlock exactly when it holds queue_mutex (rate.cxx:43-45,55-57,67-79).
\* It fails if wait() or an early return leaves the mutex locked.
MutexOwned ==
  \A p \in Worker \cup {Main} : InCritical(p) <=> mutex = p

\* Requests start in the order they were enqueued and none is lost or copied
\* in the queue: what is queued is exactly the pushed, not yet popped tasks,
\* oldest first (rate.cxx:56,77-78).
FifoQueue ==
  /\ taken <= submitted
  /\ tasks = [i \in 1 .. (submitted - taken) |-> taken + i]

\* A popped task is in the hands of one worker or has run once, never both,
\* never twice, and an unpopped one has not run (rate.cxx:77-82).
ExactlyOnce ==
  \A t \in Task :
    LET holders == {w \in Worker : cur[w] = t} IN
    /\ t > taken => executed[t] = 0 /\ holders = {}
    /\ t <= taken => \/ executed[t] = 1 /\ holders = {}
                     \/ executed[t] = 0 /\ \E w \in Worker : holders = {w}

\* No lost wakeup: queued work, or a raised stop flag, never coincides with
\* sleeping workers unless main is still about to notify (rate.cxx:46,58,70).
NoLostWakeup ==
  /\ tasks # <<>> => \/ mpc = "notify"
                     \/ \E w \in Worker : wpc[w] \in {"lock", "pred", "run"}
  /\ stop => mpc = "notify_all" \/ Waiting = {}

\* When the destructor has returned, every enqueued request has been executed
\* exactly once: stopping the pool drains its queue (rate.cxx:41-50,72-74).
DestructorDrains ==
  mpc = "done" => /\ \A t \in Task : executed[t] = 1
                  /\ \A w \in Worker : wpc[w] = "returned"

-----------------------------------------------------------------------------
(***************************************************************************)
(* The pool implements TaskPool: a worker is a slot, popping the queue     *)
(* starts a request, and the end of the destructor closes the pool.        *)
(***************************************************************************)
Abstract == INSTANCE TaskPool WITH
  Slot <- Worker,
  accepted <- submitted,
  started <- taken,
  slot <- cur,
  finished <- {t \in Task : executed[t] > 0},
  closed <- (mpc = "done")

\* Whatever the interleaving of locks, waits and notifications in
\* rate.cxx:34-84, the owner of the pool sees an ordered pool that runs every
\* request once and closes when all have finished.
ImplementsTaskPool == Abstract!Spec

=============================================================================
