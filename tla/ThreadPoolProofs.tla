-------------------------- MODULE ThreadPoolProofs --------------------------
(***************************************************************************)
(* The safety of ThreadPool for every set of workers and every number of   *)
(* tasks.  The invariants the runs check are not inductive by themselves:  *)
(* that the destructor drains the queue needs to know that a worker only   *)
(* returns from an empty queue that nobody can fill again, which needs the *)
(* phases of the main thread; IndInv adds them.                            *)
(*                                                                         *)
(* The last part carries them over to PooledSender, whose tasks may never  *)
(* return, and shows what a request without an answer does to its caller.  *)
(***************************************************************************)
EXTENDS PooledSender, SequenceTheorems, TLAPS

\* How main's position, the stop flag and the life of the workers go together.
Phases ==
  /\ stop <=> mpc \in {"notify_all", "join", "done"}
  /\ mpc = "push" => submitted < NumTasks
  /\ mpc = "ctor" => submitted = 0
  /\ mpc \in {"stop", "notify_all", "join", "done"} => submitted = NumTasks
  /\ \A w \in Worker : wpc[w] = "unborn" => mpc = "ctor"
  /\ \A w \in Worker : wpc[w] = "returned" => stop /\ tasks = <<>>
  /\ mpc = "done" => \A w \in Worker : wpc[w] = "returned"

\* A worker holds a task exactly while it runs it, a task that was popped and
\* has not run yet, and no two workers hold the same one.
Holding ==
  /\ \A w \in Worker : IF wpc[w] = "run"
                       THEN cur[w] \in 1 .. taken /\ executed[cur[w]] = 0
                       ELSE cur[w] = 0
  /\ \A v, w \in Worker : wpc[v] = "run" /\ cur[v] = cur[w] => v = w

\* A task has run once, is being run, or has not been popped.
Accounted ==
  \A t \in Task : /\ t > taken => executed[t] = 0
                  /\ t <= taken => \/ executed[t] = 1
                                   \/ \E w \in Worker : cur[w] = t

IndInv ==
  /\ TypeOK
  /\ MutexOwned
  /\ FifoQueue
  /\ Phases
  /\ Holding
  /\ Accounted
  /\ NoLostWakeup

-----------------------------------------------------------------------------
(***************************************************************************)
(* The queue as an interval of task numbers.                               *)
(***************************************************************************)

\* The numbers lo+1, lo+2, ..., hi in order form a sequence.
LEMMA IntervalSeq ==
  ASSUME NEW lo \in Nat, NEW hi \in Nat, lo <= hi
  PROVE  LET s == [i \in 1 .. (hi - lo) |-> lo + i]
         IN  s \in Seq(Nat) /\ Len(s) = hi - lo
<1> DEFINE s == [i \in 1 .. (hi - lo) |-> lo + i]
<1>1. hi - lo \in Nat
  OBVIOUS
<1>2. s \in [1 .. (hi - lo) -> Nat]
  OBVIOUS
<1>3. s \in Seq(Nat)
  BY <1>1, <1>2, SeqDef
<1>4. Len(s) = hi - lo
  BY <1>1, <1>3, LenProperties
<1> QED BY <1>3, <1>4

\* Pushing the next task number keeps the queue an interval.
LEMMA PushInterval ==
  ASSUME NEW lo \in Nat, NEW hi \in Nat, lo <= hi
  PROVE  Append([i \in 1 .. (hi - lo) |-> lo + i], hi + 1)
           = [i \in 1 .. (hi + 1 - lo) |-> lo + i]
<1> DEFINE s == [i \in 1 .. (hi - lo) |-> lo + i]
           a == Append(s, hi + 1)
           r == [i \in 1 .. (hi + 1 - lo) |-> lo + i]
<1>1. s \in Seq(Nat) /\ Len(s) = hi - lo
  BY IntervalSeq
<1>2. r \in Seq(Nat) /\ Len(r) = hi + 1 - lo
  BY IntervalSeq
<1>3. /\ a \in Seq(Nat)
      /\ Len(a) = Len(s) + 1
      /\ \A i \in 1 .. Len(s) : a[i] = s[i]
      /\ a[Len(s) + 1] = hi + 1
  BY <1>1, AppendProperties
<1>4. Len(a) = Len(r)
  BY <1>1, <1>2, <1>3
<1>5. \A i \in 1 .. Len(a) : a[i] = r[i]
  BY <1>1, <1>3
<1> QED BY <1>2, <1>3, <1>4, <1>5, SeqEqual

\* Popping takes the smallest number and leaves the rest of the interval.
LEMMA PopInterval ==
  ASSUME NEW lo \in Nat, NEW hi \in Nat, lo <= hi,
         [i \in 1 .. (hi - lo) |-> lo + i] # <<>>
  PROVE  LET s == [i \in 1 .. (hi - lo) |-> lo + i]
         IN  /\ lo < hi
             /\ Head(s) = lo + 1
             /\ Tail(s) = [i \in 1 .. (hi - (lo + 1)) |-> lo + 1 + i]
<1> DEFINE s == [i \in 1 .. (hi - lo) |-> lo + i]
           r == [i \in 1 .. (hi - (lo + 1)) |-> lo + 1 + i]
<1>1. s \in Seq(Nat) /\ Len(s) = hi - lo
  BY IntervalSeq
<1>2. Len(s) \in Nat \ {0}
  BY <1>1, EmptySeq
<1>3. lo < hi
  BY <1>1, <1>2
<1>4. r \in Seq(Nat) /\ Len(r) = hi - (lo + 1)
  BY <1>3, IntervalSeq
<1>5. /\ Tail(s) \in Seq(Nat)
      /\ Len(Tail(s)) = Len(s) - 1
      /\ \A i \in 1 .. Len(Tail(s)) : Tail(s)[i] = s[i + 1]
  BY <1>1, HeadTailProperties
<1>6. \A i \in 1 .. Len(Tail(s)) : Tail(s)[i] = r[i]
  BY <1>1, <1>3, <1>5
<1>7. Tail(s) = r
  BY <1>1, <1>4, <1>5, <1>6, SeqEqual
<1>8. Head(s) = lo + 1
  BY <1>1, <1>3
<1> QED BY <1>3, <1>7, <1>8

\* A queue of no tasks is the empty interval, and the other way round.
LEMMA EmptyInterval ==
  ASSUME NEW lo \in Nat, NEW hi \in Nat, lo <= hi
  PROVE  [i \in 1 .. (hi - lo) |-> lo + i] = <<>> <=> lo = hi
<1> DEFINE s == [i \in 1 .. (hi - lo) |-> lo + i]
<1>1. s \in Seq(Nat) /\ Len(s) = hi - lo
  BY IntervalSeq
<1>2. s = <<>> => lo = hi
  BY <1>1, EmptySeq
<1>3. lo = hi => s = <<>>
  BY <1>1, EmptySeq
<1> QED BY <1>2, <1>3

-----------------------------------------------------------------------------
(***************************************************************************)
(* IndInv is an inductive invariant.                                       *)
(***************************************************************************)

\* Before the constructor has started a worker nothing is queued or held
\* (rate.cxx:34).
LEMMA InitIndInv == Init => IndInv
<1> SUFFICES ASSUME Init PROVE IndInv
  OBVIOUS
<1> USE PoolAssumption DEF Init
<1>1. TypeOK
  <2>1. tasks \in Seq(Nat)
    BY EmptySeq
  <2>2. /\ wpc \in [Worker -> WorkerPC]
        /\ cur \in [Worker -> Nat]
        /\ executed \in [Task -> Nat]
    BY DEF WorkerPC
  <2>3. mpc \in MainPC /\ stop \in BOOLEAN
    BY DEF MainPC
  <2> QED BY <2>1, <2>2, <2>3 DEF TypeOK
<1>2. MutexOwned
  BY DEF MutexOwned, InCritical
<1>3. FifoQueue
  BY EmptyInterval DEF FifoQueue
<1>4. Phases
  BY DEF Phases
<1>5. Holding /\ Accounted
  BY DEF Holding, Accounted, Task
<1>6. NoLostWakeup
  BY DEF NoLostWakeup
<1> QED BY <1>1, <1>2, <1>3, <1>4, <1>5, <1>6 DEF IndInv

\* Actions of main and of the workers that touch neither the queue nor what
\* the workers hold leave the accounting of tasks alone.
LEMMA SameTasks ==
  ASSUME IndInv, UNCHANGED <<tasks, cur, submitted, taken, executed>>
  PROVE  FifoQueue' /\ Accounted'
BY DEF IndInv, FifoQueue, Accounted

\* Every step of main and of a worker keeps the invariant (rate.cxx:34-84).
LEMMA NextIndInv == IndInv /\ [Next]_vars => IndInv'
<1> SUFFICES ASSUME IndInv, [Next]_vars PROVE IndInv'
  OBVIOUS
<1> USE PoolAssumption DEF Task
<1>1. ASSUME NEW w \in Worker, SpawnWorker(w) PROVE IndInv'
  <2> USE <1>1 DEF SpawnWorker
  <2>1. TypeOK'
    BY DEF IndInv, TypeOK, WorkerPC
  <2>2. MutexOwned'
    BY DEF IndInv, TypeOK, MutexOwned, InCritical
  <2>3. Phases'
    BY DEF IndInv, TypeOK, Phases
  <2>4. Holding'
    BY DEF IndInv, TypeOK, Holding
  <2>5. NoLostWakeup'
    BY DEF IndInv, TypeOK, NoLostWakeup, Waiting
  <2> QED BY <2>1, <2>2, <2>3, <2>4, <2>5, SameTasks DEF IndInv
<1>2. ASSUME EndConstructor PROVE IndInv'
  <2> USE <1>2 DEF EndConstructor
  <2>1. TypeOK' /\ MutexOwned'
    BY DEF IndInv, TypeOK, MainPC, MutexOwned, InCritical
  <2>2. Phases' /\ Holding'
    BY DEF IndInv, TypeOK, Phases, Holding
  <2>3. NoLostWakeup'
    BY DEF IndInv, TypeOK, NoLostWakeup, Waiting
  <2> QED BY <2>1, <2>2, <2>3, SameTasks DEF IndInv
<1>3. ASSUME EnqueueLock PROVE IndInv'
  <2> USE <1>3 DEF EnqueueLock, Acquire
  <2>1. TypeOK' /\ MutexOwned'
    BY DEF IndInv, TypeOK, MainPC, MutexOwned, InCritical
  <2>2. Phases' /\ Holding'
    BY DEF IndInv, TypeOK, Phases, Holding
  <2>3. NoLostWakeup'
    BY DEF IndInv, TypeOK, NoLostWakeup, Waiting
  <2> QED BY <2>1, <2>2, <2>3, SameTasks DEF IndInv
<1>4. ASSUME EnqueuePush PROVE IndInv'
  <2> USE <1>4 DEF EnqueuePush, Release
  <2>1. submitted + 1 \in 0 .. NumTasks
    BY DEF IndInv, TypeOK, Phases
  <2>2. TypeOK'
    BY <2>1, AppendProperties DEF IndInv, TypeOK, MainPC
  <2>3. MutexOwned'
    BY DEF IndInv, TypeOK, MutexOwned, InCritical
  <2>4. FifoQueue'
    BY PushInterval DEF IndInv, TypeOK, FifoQueue
  <2>5. Phases'
    <3>1. \A w \in Worker : wpc[w] # "returned"
      BY DEF IndInv, TypeOK, Phases
    <3> QED BY <2>1, <3>1 DEF IndInv, TypeOK, Phases
  <2>6. Holding' /\ Accounted'
    BY DEF IndInv, TypeOK, Holding, Accounted
  <2>7. NoLostWakeup'
    BY DEF IndInv, TypeOK, Phases, NoLostWakeup, Waiting
  <2> QED BY <2>2, <2>3, <2>4, <2>5, <2>6, <2>7 DEF IndInv
<1>5. ASSUME NotifyOne PROVE IndInv'
  <2> USE <1>5 DEF NotifyOne, Wake
  <2>1. PICK S \in SUBSET Waiting :
          /\ wpc' = [w \in Worker |-> IF w \in S THEN "lock" ELSE wpc[w]]
          /\ S = {} => Waiting = {}
    <3>1. CASE Waiting = {}
      BY <3>1 DEF IndInv, TypeOK
    <3>2. CASE Waiting # {}
      <4>1. PICK v \in Waiting : Wake({v})
        BY <3>2
      <4> QED BY <4>1
    <3> QED BY <3>1, <3>2
  <2>2. \A w \in S : w \in Worker /\ wpc[w] = "waiting"
    BY DEF Waiting
  <2>3. TypeOK'
    BY <2>1 DEF IndInv, TypeOK, MainPC, WorkerPC
  <2>4. MutexOwned'
    BY <2>1, <2>2 DEF IndInv, TypeOK, MutexOwned, InCritical
  <2>5. Phases'
    BY <2>1, <2>2 DEF IndInv, TypeOK, Phases
  <2>6. Holding'
    BY <2>1, <2>2 DEF IndInv, TypeOK, Holding
  <2>7. NoLostWakeup'
    <3>1. PICK w \in Worker : S = {} \/ w \in S
      BY <2>2
    <3>2. tasks # <<>> => wpc'[w] \in {"lock", "pred", "run"}
      BY <2>1, <2>2, <3>1 DEF IndInv, TypeOK, Phases, WorkerPC, Waiting
    <3>3. ~stop
      BY DEF IndInv, TypeOK, Phases
    <3> QED BY <3>2, <3>3 DEF NoLostWakeup
  <2> QED BY <2>3, <2>4, <2>5, <2>6, <2>7, SameTasks DEF IndInv
<1>6. ASSUME DestructorLock PROVE IndInv'
  <2> USE <1>6 DEF DestructorLock, Acquire
  <2>1. TypeOK' /\ MutexOwned'
    BY DEF IndInv, TypeOK, MainPC, MutexOwned, InCritical
  <2>2. Phases' /\ Holding'
    BY DEF IndInv, TypeOK, Phases, Holding
  <2>3. NoLostWakeup'
    BY DEF IndInv, TypeOK, NoLostWakeup, Waiting
  <2> QED BY <2>1, <2>2, <2>3, SameTasks DEF IndInv
<1>7. ASSUME SetStop PROVE IndInv'
  <2> USE <1>7 DEF SetStop, Release
  <2>1. TypeOK' /\ MutexOwned'
    BY DEF IndInv, TypeOK, MainPC, MutexOwned, InCritical
  <2>2. Phases' /\ Holding'
    BY DEF IndInv, TypeOK, Phases, Holding
  <2>3. NoLostWakeup'
    BY DEF IndInv, TypeOK, NoLostWakeup, Waiting
  <2> QED BY <2>1, <2>2, <2>3, SameTasks DEF IndInv
<1>8. ASSUME NotifyAll PROVE IndInv'
  <2> USE <1>8 DEF NotifyAll, Wake
  <2>1. TypeOK'
    BY DEF IndInv, TypeOK, MainPC, WorkerPC
  <2>2. MutexOwned'
    BY DEF IndInv, TypeOK, MutexOwned, InCritical, Waiting
  <2>3. Phases' /\ Holding'
    BY DEF IndInv, TypeOK, Phases, Holding, Waiting
  <2>4. NoLostWakeup'
    BY DEF IndInv, TypeOK, NoLostWakeup, Waiting
  <2> QED BY <2>1, <2>2, <2>3, <2>4, SameTasks DEF IndInv
<1>9. ASSUME Join PROVE IndInv'
  <2> USE <1>9 DEF Join
  <2>1. TypeOK' /\ MutexOwned'
    BY DEF IndInv, TypeOK, MainPC, MutexOwned, InCritical
  <2>2. Phases' /\ Holding'
    BY DEF IndInv, TypeOK, Phases, Holding
  <2>3. NoLostWakeup'
    BY DEF IndInv, TypeOK, NoLostWakeup, Waiting
  <2> QED BY <2>1, <2>2, <2>3, SameTasks DEF IndInv
<1>10. ASSUME NEW w \in Worker, WorkerLock(w) PROVE IndInv'
  <2> USE <1>10 DEF WorkerLock, Acquire
  <2>1. TypeOK'
    BY DEF IndInv, TypeOK, WorkerPC
  <2>2. MutexOwned'
    BY DEF IndInv, TypeOK, MutexOwned, InCritical
  <2>3. Phases' /\ Holding'
    BY DEF IndInv, TypeOK, Phases, Holding
  <2>4. NoLostWakeup'
    BY DEF IndInv, TypeOK, NoLostWakeup, Waiting
  <2> QED BY <2>1, <2>2, <2>3, <2>4, SameTasks DEF IndInv
<1>11. ASSUME NEW w \in Worker, WorkerWait(w) PROVE IndInv'
  <2> USE <1>11 DEF WorkerWait, Release
  <2>1. TypeOK'
    BY DEF IndInv, TypeOK, WorkerPC
  <2>2. MutexOwned'
    BY DEF IndInv, TypeOK, MutexOwned, InCritical
  <2>3. Phases' /\ Holding'
    BY DEF IndInv, TypeOK, Phases, Holding
  <2>4. NoLostWakeup'
    BY DEF IndInv, TypeOK, NoLostWakeup, Waiting
  <2> QED BY <2>1, <2>2, <2>3, <2>4, SameTasks DEF IndInv
<1>12. ASSUME NEW w \in Worker, WorkerReturn(w) PROVE IndInv'
  <2> USE <1>12 DEF WorkerReturn, Release
  <2>1. TypeOK'
    BY DEF IndInv, TypeOK, WorkerPC
  <2>2. MutexOwned'
    BY DEF IndInv, TypeOK, MutexOwned, InCritical
  <2>3. Phases' /\ Holding'
    BY DEF IndInv, TypeOK, Phases, Holding
  <2>4. NoLostWakeup'
    BY DEF IndInv, TypeOK, NoLostWakeup, Waiting
  <2> QED BY <2>1, <2>2, <2>3, <2>4, SameTasks DEF IndInv
<1>13. ASSUME NEW w \in Worker, WorkerTake(w) PROVE IndInv'
  <2> USE <1>13 DEF WorkerTake, Release
  <2>1. /\ taken < submitted
        /\ Head(tasks) = taken + 1
        /\ tasks' = [i \in 1 .. (submitted - (taken + 1)) |-> taken + 1 + i]
    <3>1. taken \in Nat /\ submitted \in Nat /\ taken <= submitted
      BY DEF IndInv, TypeOK, FifoQueue
    <3>2. tasks = [i \in 1 .. (submitted - taken) |-> taken + i]
      BY DEF IndInv, FifoQueue
    <3>3. [i \in 1 .. (submitted - taken) |-> taken + i] # <<>>
      BY <3>2
    <3> HIDE <1>13
    <3>4. /\ taken < submitted
          /\ Head(tasks) = taken + 1
          /\ Tail(tasks) = [i \in 1 .. (submitted - (taken + 1)) |-> taken + 1 + i]
      BY <3>1, <3>2, <3>3, PopInterval
    <3> QED BY <1>13, <3>4
  <2>2. TypeOK'
    <3>1. tasks' \in Seq(Nat)
      BY HeadTailProperties DEF IndInv, TypeOK
    <3>2. taken' \in 0 .. NumTasks /\ cur' \in [Worker -> Nat]
      <4>1. taken' = taken + 1 /\ cur' = [cur EXCEPT ![w] = taken + 1]
        BY <2>1
      <4> HIDE <1>13
      <4> QED BY <2>1, <4>1 DEF IndInv, TypeOK
    <3>3. wpc' \in [Worker -> WorkerPC]
      BY DEF IndInv, TypeOK, WorkerPC
    <3>4. mutex' \in Worker \cup {Main, NoThread} /\ UNCHANGED <<mpc, stop, submitted, executed>>
      OBVIOUS
    <3> HIDE <1>13
    <3> QED BY <3>1, <3>2, <3>3, <3>4 DEF IndInv, TypeOK
  <2>3. MutexOwned'
    BY DEF IndInv, TypeOK, MutexOwned, InCritical
  <2>4. FifoQueue'
    <3>1. taken' = taken + 1 /\ submitted' = submitted
      OBVIOUS
    <3>2. tasks' = [i \in 1 .. (submitted' - taken') |-> taken' + i]
      BY <2>1, <3>1, Zenon
    <3>3. taken' <= submitted'
      BY <2>1, <3>1 DEF IndInv, TypeOK
    <3> QED BY <3>2, <3>3 DEF FifoQueue
  <2>5. Phases'
    BY DEF IndInv, TypeOK, Phases
  <2>6. Holding'
    <3>1. /\ \A v \in Worker : wpc'[v] = (IF v = w THEN "run" ELSE wpc[v])
          /\ \A v \in Worker : cur'[v] = (IF v = w THEN taken + 1 ELSE cur[v])
          /\ taken' = taken + 1 /\ executed' = executed
      BY <2>1 DEF IndInv, TypeOK
    <3>2. taken + 1 \in Task /\ executed[taken + 1] = 0
      BY <2>1 DEF IndInv, TypeOK, Accounted, Task
    <3> HIDE <1>13
    <3>3. taken \in Nat /\ \A v \in Worker : cur[v] \in 0 .. taken
      BY DEF IndInv, TypeOK, Holding
    <3>4. ASSUME NEW v \in Worker
          PROVE  IF wpc'[v] = "run" THEN cur'[v] \in 1 .. taken' /\ executed'[cur'[v]] = 0
                                    ELSE cur'[v] = 0
      <4>1. CASE v = w
        BY <3>1, <3>2, <3>3, <4>1
      <4>2. CASE v # w
        BY <3>1, <3>3, <4>2 DEF IndInv, Holding
      <4> QED BY <4>1, <4>2
    <3>5. \A u, v \in Worker : wpc'[u] = "run" /\ cur'[u] = cur'[v] => u = v
      BY <3>1, <3>3 DEF IndInv, Holding
    <3> QED BY <3>4, <3>5 DEF Holding
  <2>7. Accounted'
    <3> SUFFICES ASSUME NEW t \in Task
                 PROVE  /\ t > taken' => executed'[t] = 0
                        /\ t <= taken' => \/ executed'[t] = 1
                                          \/ \E v \in Worker : cur'[v] = t
      BY DEF Accounted
    <3>1. CASE t = taken + 1
      BY <2>1, <3>1 DEF IndInv, TypeOK
    <3>2. CASE t # taken + 1
      <4>1. cur[w] = 0
        BY DEF IndInv, Holding
      <4>2. t <= taken' => t <= taken
        BY <3>2 DEF IndInv, TypeOK
      <4>3. t > taken' => t > taken
        BY DEF IndInv, TypeOK
      <4> QED BY <4>1, <4>2, <4>3 DEF IndInv, TypeOK, Accounted
    <3> QED BY <3>1, <3>2
  <2>8. NoLostWakeup'
    BY DEF IndInv, TypeOK, NoLostWakeup, Waiting
  <2> QED BY <2>2, <2>3, <2>4, <2>5, <2>6, <2>7, <2>8 DEF IndInv
<1>14. ASSUME NEW w \in Worker, RunTask(w) PROVE IndInv'
  <2> USE <1>14 DEF RunTask
  <2>1. cur[w] \in 1 .. taken /\ cur[w] \in Task /\ executed[cur[w]] = 0
    BY DEF IndInv, TypeOK, Holding
  <2>2. TypeOK'
    BY <2>1 DEF IndInv, TypeOK, WorkerPC
  <2>3. MutexOwned'
    BY DEF IndInv, TypeOK, MutexOwned, InCritical
  <2>4. FifoQueue' /\ Phases'
    BY DEF IndInv, TypeOK, FifoQueue, Phases
  <2>5. Holding'
    BY <2>1 DEF IndInv, TypeOK, Holding
  <2>6. Accounted'
    BY <2>1 DEF IndInv, TypeOK, Holding, Accounted
  <2>7. NoLostWakeup'
    BY DEF IndInv, TypeOK, NoLostWakeup, Waiting
  <2> QED BY <2>2, <2>3, <2>4, <2>5, <2>6, <2>7 DEF IndInv
<1>15. ASSUME NEW w \in Worker, SpuriousWake(w) PROVE IndInv'
  <2> USE <1>15 DEF SpuriousWake, Wake
  <2>1. TypeOK'
    <3>1. wpc' \in [Worker -> WorkerPC]
      BY DEF IndInv, TypeOK, WorkerPC
    <3> QED BY <3>1 DEF IndInv, TypeOK
  <2>2. MutexOwned'
    BY DEF IndInv, TypeOK, MutexOwned, InCritical
  <2>3. Phases' /\ Holding'
    BY DEF IndInv, TypeOK, Phases, Holding
  <2>4. NoLostWakeup'
    BY DEF IndInv, TypeOK, NoLostWakeup, Waiting
  <2> QED BY <2>1, <2>2, <2>3, <2>4, SameTasks DEF IndInv
<1>16. CASE UNCHANGED vars
  <2> USE <1>16 DEF vars
  <2>1. TypeOK' /\ FifoQueue'
    BY DEF IndInv, TypeOK, FifoQueue
  <2>2. MutexOwned' /\ Phases'
    BY DEF IndInv, MutexOwned, InCritical, Phases
  <2>3. Holding' /\ Accounted'
    BY DEF IndInv, Holding, Accounted
  <2>4. NoLostWakeup'
    BY DEF IndInv, NoLostWakeup, Waiting
  <2> QED BY <2>1, <2>2, <2>3, <2>4 DEF IndInv
<1> QED
  BY <1>1, <1>2, <1>3, <1>4, <1>5, <1>6, <1>7, <1>8, <1>9, <1>10, <1>11, <1>12,
     <1>13, <1>14, <1>15, <1>16
  DEF Next, MainStep, WorkerStep, Terminated

-----------------------------------------------------------------------------
(***************************************************************************)
(* The theorems.                                                           *)
(***************************************************************************)

\* In every behaviour of the pool the inductive invariant holds.
THEOREM Invariance == Spec => []IndInv
<1> QED BY InitIndInv, NextIndInv, PTL DEF Spec

\* Every variable of the pool has its type in every state.
THEOREM TypeCorrect == Spec => []TypeOK
<1>1. IndInv => TypeOK
  BY DEF IndInv
<1> QED BY <1>1, Invariance, PTL

\* queue_mutex excludes: exactly its holder is between lock and unlock.
THEOREM MutualExclusion == Spec => []MutexOwned
<1>1. IndInv => MutexOwned
  BY DEF IndInv
<1> QED BY <1>1, Invariance, PTL

\* The queue holds the pushed and not yet popped tasks, oldest first.
THEOREM Fifo == Spec => []FifoQueue
<1>1. IndInv => FifoQueue
  BY DEF IndInv
<1> QED BY <1>1, Invariance, PTL

\* No task is lost, run twice, or held by two workers.
THEOREM RunsOnce == Spec => []ExactlyOnce
<1>1. IndInv => ExactlyOnce
  <2> SUFFICES ASSUME IndInv, NEW t \in Task
               PROVE  LET holders == {w \in Worker : cur[w] = t} IN
                      /\ t > taken => executed[t] = 0 /\ holders = {}
                      /\ t <= taken => \/ executed[t] = 1 /\ holders = {}
                                       \/ /\ executed[t] = 0
                                          /\ \E w \in Worker : holders = {w}
    BY DEF ExactlyOnce
  <2> USE PoolAssumption DEF Task
  <2>a. \A w \in Worker : cur[w] = t => /\ wpc[w] = "run"
                                       /\ t <= taken
                                       /\ executed[t] = 0
    BY DEF IndInv, TypeOK, Holding
  <2>1. t > taken => executed[t] = 0 /\ {w \in Worker : cur[w] = t} = {}
    <3>1. ASSUME t > taken PROVE executed[t] = 0
      BY <3>1 DEF IndInv, Accounted
    <3>2. ASSUME t > taken, NEW w \in Worker PROVE cur[w] # t
      BY <2>a, <3>2 DEF IndInv, TypeOK
    <3> QED BY <3>1, <3>2
  <2>2. ASSUME t <= taken, NEW w \in Worker, cur[w] = t
        PROVE  executed[t] = 0 /\ {v \in Worker : cur[v] = t} = {w}
    <3>1. executed[t] = 0 /\ wpc[w] = "run"
      BY <2>a, <2>2
    <3>2. \A v \in Worker : cur[v] = t => v = w
      BY <2>2, <3>1 DEF IndInv, Holding
    <3> QED BY <2>2, <3>1, <3>2
  <2>3. ASSUME t <= taken, \A w \in Worker : cur[w] # t
        PROVE  executed[t] = 1 /\ {w \in Worker : cur[w] = t} = {}
    BY <2>3 DEF IndInv, Accounted
  <2> QED BY <2>1, <2>2, <2>3
<1> QED BY <1>1, Invariance, PTL

\* Work is never left to sleeping workers that nobody will notify.
THEOREM NoWakeupLost == Spec => []NoLostWakeup
<1>1. IndInv => NoLostWakeup
  BY DEF IndInv
<1> QED BY <1>1, Invariance, PTL

\* Once ~ThreadPool has returned every enqueued task has run exactly once.
THEOREM Drained == Spec => []DestructorDrains
<1>1. IndInv => DestructorDrains
  <2> SUFFICES ASSUME IndInv, mpc = "done"
               PROVE  /\ \A t \in Task : executed[t] = 1
                      /\ \A w \in Worker : wpc[w] = "returned"
    BY DEF DestructorDrains
  <2> USE PoolAssumption DEF Task
  <2>1. \A w \in Worker : wpc[w] = "returned"
    BY DEF IndInv, Phases
  <2>2. tasks = <<>> /\ submitted = NumTasks
    <3>1. PICK w \in Worker : TRUE
      OBVIOUS
    <3> QED BY <2>1, <3>1 DEF IndInv, Phases
  <2>3. taken = NumTasks
    <3>1. taken \in Nat /\ submitted \in Nat /\ taken <= submitted
      BY DEF IndInv, TypeOK, FifoQueue
    <3>2. [i \in 1 .. (submitted - taken) |-> taken + i] = <<>>
      BY <2>2 DEF IndInv, FifoQueue
    <3> QED BY <2>2, <3>1, <3>2, EmptyInterval
  <2>4. \A w \in Worker : cur[w] = 0
    BY <2>1 DEF IndInv, Holding
  <2> QED BY <2>1, <2>3, <2>4 DEF IndInv, TypeOK, Accounted
<1> QED BY <1>1, Invariance, PTL

-----------------------------------------------------------------------------
(***************************************************************************)
(* Refinement: pushing accepts a request, popping starts it, running it to *)
(* its end finishes it, the last join closes the pool, and every other     *)
(* step is invisible.                                                      *)
(***************************************************************************)

\* The pool of rate.cxx implements the abstract TaskPool.
THEOREM Refinement == Spec => ImplementsTaskPool
<1> USE PoolAssumption DEF Task
<1>1. Init => Abstract!Init
  BY DEF Init, Abstract!Init
<1>2. IndInv /\ [Next]_vars => [Abstract!Next]_(Abstract!vars)
  <2> SUFFICES ASSUME IndInv, [Next]_vars
               PROVE  Abstract!Next \/ UNCHANGED Abstract!vars
    OBVIOUS
  <2>1. ASSUME EnqueuePush PROVE Abstract!Next
    <3>1. Abstract!Accept
      BY <2>1 DEF IndInv, Phases, EnqueuePush, Abstract!Accept
    <3> QED BY <3>1 DEF Abstract!Next
  <2>2. ASSUME NEW w \in Worker, WorkerTake(w) PROVE Abstract!Next
    <3>1. taken \in Nat /\ submitted \in Nat /\ taken <= submitted
      BY DEF IndInv, TypeOK, FifoQueue
    <3>2. tasks = [i \in 1 .. (submitted - taken) |-> taken + i]
      BY DEF IndInv, FifoQueue
    <3>3. [i \in 1 .. (submitted - taken) |-> taken + i] # <<>>
      BY <2>2, <3>2 DEF WorkerTake
    <3>4. taken < submitted /\ Head(tasks) = taken + 1
      BY <3>1, <3>2, <3>3, PopInterval
    <3>5. cur[w] = 0
      BY <2>2 DEF IndInv, Holding, WorkerTake
    <3>6. Abstract!Start(w)
      BY <2>2, <3>4, <3>5 DEF WorkerTake, Abstract!Start
    <3> QED BY <3>6 DEF Abstract!Next
  <2>3. ASSUME NEW w \in Worker, RunTask(w) PROVE Abstract!Next
    <3>1. /\ cur[w] \in 1 .. taken
          /\ cur[w] \in 1 .. NumTasks
          /\ executed[cur[w]] = 0
          /\ executed \in [1 .. NumTasks -> Nat]
      BY <2>3 DEF IndInv, TypeOK, Holding, RunTask
    <3>2. {t \in 1 .. NumTasks : executed'[t] > 0}
            = {t \in 1 .. NumTasks : executed[t] > 0} \cup {cur[w]}
      BY <2>3, <3>1 DEF RunTask
    <3>3. Abstract!Finish(w)
      BY <2>3, <3>1, <3>2 DEF RunTask, Abstract!Finish
    <3> QED BY <3>3 DEF Abstract!Next
  <2>4. ASSUME Join PROVE Abstract!Next
    <3>1. \A w \in Worker : wpc[w] = "returned"
      BY <2>4 DEF Join
    <3>2. tasks = <<>> /\ submitted = NumTasks
      <4>1. PICK w \in Worker : TRUE
        OBVIOUS
      <4> QED BY <2>4, <3>1, <4>1 DEF IndInv, Phases, Join
    <3>3. taken = NumTasks
      <4>1. taken \in Nat /\ submitted \in Nat /\ taken <= submitted
        BY DEF IndInv, TypeOK, FifoQueue
      <4>2. [i \in 1 .. (submitted - taken) |-> taken + i] = <<>>
        BY <3>2 DEF IndInv, FifoQueue
      <4> QED BY <3>2, <4>1, <4>2, EmptyInterval
    <3>4. \A w \in Worker : cur[w] = 0
      BY <3>1 DEF IndInv, Holding
    <3>5. \A t \in 1 .. NumTasks : executed[t] = 1
      BY <3>3, <3>4 DEF IndInv, TypeOK, Accounted
    <3>6. {t \in 1 .. NumTasks : executed[t] > 0} = 1 .. NumTasks
      BY <3>5
    <3>7. Abstract!Close
      BY <2>4, <3>6 DEF Join, Abstract!Close
    <3> QED BY <3>7 DEF Abstract!Next
  <2>5. ASSUME UNCHANGED <<submitted, taken, cur, executed>>, mpc # "done", mpc' # "done"
        PROVE  UNCHANGED Abstract!vars
    BY <2>5 DEF Abstract!vars
  <2>6. ASSUME UNCHANGED vars PROVE UNCHANGED Abstract!vars
    BY <2>6 DEF vars, Abstract!vars
  <2>7. ASSUME NEW w \in Worker,
               \/ WorkerLock(w) \/ WorkerWait(w) \/ WorkerReturn(w) \/ SpuriousWake(w)
        PROVE  UNCHANGED Abstract!vars
    BY <2>7 DEF WorkerLock, WorkerWait, WorkerReturn, SpuriousWake, Abstract!vars
  <2>8. ASSUME \/ \E w \in Worker : SpawnWorker(w)
               \/ EndConstructor \/ EnqueueLock \/ NotifyOne
               \/ DestructorLock \/ SetStop \/ NotifyAll
        PROVE  UNCHANGED Abstract!vars
    BY <2>5, <2>8 DEF SpawnWorker, EndConstructor, EnqueueLock, NotifyOne,
                      DestructorLock, SetStop, NotifyAll
  <2> QED
    BY <2>1, <2>2, <2>3, <2>4, <2>6, <2>7, <2>8
    DEF Next, MainStep, WorkerStep, Terminated
<1> QED
  BY <1>1, <1>2, Invariance, PTL DEF Spec, ImplementsTaskPool, Abstract!Spec

-----------------------------------------------------------------------------
(***************************************************************************)
(* The pooled sender.  The pool of rate3.cxx is that of rate.cxx, and its  *)
(* caller uses it in the same way: what the sender adds is that a request  *)
(* may never end, which only removes steps, and the message it prints.     *)
(***************************************************************************)

\* A step of the sender is a step of the pool, or prints the message and
\* leaves the pool alone (rate3.cxx:44-104,136-159).
LEMMA SenderStep == [SenderNext]_senderVars => [Next]_vars
<1>1. ASSUME CallerStep PROVE [Next]_vars
  BY <1>1 DEF CallerStep, Announce, Next
<1>2. ASSUME NEW w \in Worker, PoolThreadStep(w) PROVE Next
  <2>1. WorkerStep(w)
    BY <1>2 DEF PoolThreadStep, RequestEnds, WorkerStep
  <2> QED BY <2>1 DEF Next
<1>3. ASSUME NEW w \in Worker, SpuriousWake(w) PROVE Next
  BY <1>3 DEF Next
<1>4. ASSUME Terminated PROVE Next
  BY <1>4 DEF Next
<1>5. ASSUME UNCHANGED senderVars PROVE UNCHANGED vars
  BY <1>5 DEF senderVars
<1> QED BY <1>1, <1>2, <1>3, <1>4, <1>5 DEF SenderNext

\* Every behaviour of send_requests_concurrently is one of the pool, whatever
\* the server leaves without an answer (rate3.cxx:44-104,136-159).
THEOREM SenderUsesPool == SenderSpec => Spec
<1>1. SenderInit => Init
  BY DEF SenderInit
<1> QED BY <1>1, SenderStep, PTL DEF SenderSpec, Spec

\* Although its tasks may never return, the pool of rate3.cxx keeps what was
\* proved of the pool: queue_mutex excludes, requests start in order, none is
\* sent twice, no wakeup is lost (rate3.cxx:44-104).
THEOREM SenderSafe ==
  SenderSpec => [](/\ TypeOK /\ MutexOwned /\ FifoQueue /\ ExactlyOnce
                   /\ NoLostWakeup /\ DestructorDrains)
<1> QED BY SenderUsesPool, TypeCorrect, MutualExclusion, Fifo, RunsOnce,
           NoWakeupLost, Drained, PTL

\* The pool of rate3.cxx implements the abstract TaskPool as well.
THEOREM SenderRefinement == SenderSpec => ImplementsTaskPool
<1> QED BY SenderUsesPool, Refinement, PTL

\* A request without an answer has not ended, and the destructor, which is
\* entered after the message only, cannot have returned past it.
SilentInv ==
  /\ silent \subseteq Task
  /\ \A t \in silent : executed[t] = 0
  /\ announced => submitted = NumTasks
  /\ mpc \in {"stop", "notify_all", "join", "done"} => announced

\* No request has ended, and nothing was printed, when the function begins
\* (rate3.cxx:136-145).
LEMMA InitSilentInv == SenderInit => SilentInv
<1> SUFFICES ASSUME SenderInit PROVE SilentInv
  OBVIOUS
<1>1. silent \subseteq Task
  BY SenderAssumption DEF SenderInit
<1>2. \A t \in silent : executed[t] = 0
  BY <1>1 DEF SenderInit, Init
<1> QED BY <1>1, <1>2 DEF SenderInit, Init, SilentInv

\* A worker ends the request it holds, which is none of the silent ones, and
\* every other step of the pool leaves `executed' alone (rate3.cxx:78-104,125).
LEMMA NextSilentInv == IndInv /\ SilentInv /\ [SenderNext]_senderVars => SilentInv'
<1> SUFFICES ASSUME IndInv, SilentInv, [SenderNext]_senderVars
             PROVE  SilentInv'
  OBVIOUS
<1> USE PoolAssumption
<1>t. silent \subseteq Task /\ executed \in [Task -> Nat] /\ submitted \in 0 .. NumTasks
  BY DEF SilentInv, IndInv, TypeOK
<1>1. ASSUME MainStep, mpc' = "stop" => announced, UNCHANGED <<announced, silent>>
      PROVE  SilentInv'
  <2>1. executed' = executed
    BY <1>1 DEF MainStep, SpawnWorker, EndConstructor, EnqueueLock, EnqueuePush,
                NotifyOne, DestructorLock, SetStop, NotifyAll, Join
  <2>2. announced => submitted' = NumTasks
    <3>1. mpc = "push" => submitted < NumTasks
      BY DEF IndInv, Phases
    <3>2. mpc # "push" => submitted' = submitted
      BY <1>1 DEF MainStep, SpawnWorker, EndConstructor, EnqueueLock, EnqueuePush,
                  NotifyOne, DestructorLock, SetStop, NotifyAll, Join
    <3> QED BY <1>t, <3>1, <3>2 DEF SilentInv
  <2>3. mpc' \in {"notify_all", "join", "done"}
          => mpc \in {"stop", "notify_all", "join"}
    <3>1. \A w \in Worker : SpawnWorker(w) => mpc' = "ctor"
      BY DEF SpawnWorker
    <3> QED BY <1>1, <3>1
        DEF MainStep, EndConstructor, EnqueueLock, EnqueuePush,
            NotifyOne, DestructorLock, SetStop, NotifyAll, Join
  <2> QED BY <1>1, <2>1, <2>2, <2>3 DEF SilentInv
<1>2. ASSUME Announce PROVE SilentInv'
  BY <1>2 DEF Announce, vars, SilentInv
<1>3. ASSUME NEW w \in Worker, RequestEnds(w), UNCHANGED <<announced, silent>>
      PROVE  SilentInv'
  <2>1. cur[w] \notin silent /\ executed' = [executed EXCEPT ![cur[w]] = @ + 1]
    BY <1>3 DEF RequestEnds, RunTask
  <2>2. \A t \in silent : executed'[t] = 0
    BY <1>t, <2>1 DEF SilentInv
  <2>3. UNCHANGED <<mpc, submitted>>
    BY <1>3 DEF RequestEnds, RunTask
  <2> QED BY <1>3, <2>2, <2>3 DEF SilentInv
<1>4. ASSUME NEW w \in Worker,
             \/ WorkerLock(w) \/ WorkerWait(w) \/ WorkerReturn(w)
             \/ WorkerTake(w) \/ SpuriousWake(w),
             UNCHANGED <<announced, silent>>
      PROVE  SilentInv'
  <2>1. UNCHANGED <<mpc, submitted, executed>>
    BY <1>4 DEF WorkerLock, WorkerWait, WorkerReturn, WorkerTake, SpuriousWake
  <2> QED BY <1>4, <2>1 DEF SilentInv
<1>5. ASSUME UNCHANGED vars, UNCHANGED <<announced, silent>> PROVE SilentInv'
  BY <1>5 DEF vars, SilentInv
<1> QED BY <1>1, <1>2, <1>3, <1>4, <1>5
        DEF SenderNext, CallerStep, PoolThreadStep, Terminated, senderVars

\* A request without an answer is never over, and one is enough to keep
\* send_requests_concurrently from returning: the destructor waits in its
\* join (rate3.cxx:54-65,125).  This is the safety half of ReturnsIfAnswered.
THEOREM OneSilenceBlocks ==
  SenderSpec => [](/\ \A t \in silent : executed[t] = 0
                   /\ mpc = "done" => silent = {})
<1> DEFINE Blocked == /\ \A t \in silent : executed[t] = 0
                      /\ mpc = "done" => silent = {}
<1>1. SilentInv /\ DestructorDrains => Blocked
  BY DEF SilentInv, DestructorDrains
<1>2. SenderSpec => []IndInv
  BY SenderUsesPool, Invariance, PTL
<1>3. SenderSpec => []SilentInv
  BY InitSilentInv, NextSilentInv, <1>2, PTL DEF SenderSpec
<1>4. SenderSpec => []DestructorDrains
  BY SenderUsesPool, Drained, PTL
<1>5. SenderSpec => []Blocked
  BY <1>1, <1>3, <1>4, PTL
<1> QED BY <1>5 DEF Blocked

\* The message "All requests sent in" comes after every request was enqueued
\* and before the destructor is entered (rate3.cxx:54-65,148-159).  It does not say
\* that they have been sent, as the violation of AnnouncedMeansSent shows.
THEOREM AnnouncedBetween ==
  SenderSpec => [](/\ announced => submitted = NumTasks
                   /\ mpc \in {"stop", "notify_all", "join", "done"} => announced)
<1>1. SilentInv => /\ announced => submitted = NumTasks
                   /\ mpc \in {"stop", "notify_all", "join", "done"} => announced
  BY DEF SilentInv
<1>2. SenderSpec => []IndInv
  BY SenderUsesPool, Invariance, PTL
<1>3. SenderSpec => []SilentInv
  BY InitSilentInv, NextSilentInv, <1>2, PTL DEF SenderSpec
<1> QED BY <1>1, <1>3, PTL

=============================================================================
