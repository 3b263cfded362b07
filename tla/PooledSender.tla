---------------------------- MODULE PooledSender ----------------------------
(***************************************************************************)
(* send_requests_concurrently of rate3.cxx: the pool of module ThreadPool, *)
(* whose tasks send a request each, and the line "All requests sent in"    *)
(* that is printed before the pool goes out of scope.  send_request has no *)
(* timeout: when the server takes the request and says nothing, its thread *)
(* never comes back from read_until.                                       *)
(***************************************************************************)
EXTENDS ThreadPool, FiniteSets

CONSTANT Silences    \* the sets of requests to leave without an answer

ASSUME SenderAssumption == Silences \subseteq SUBSET Task

VARIABLES
  announced,         \* "All requests sent in" has been printed
  silent             \* the requests this server leaves without an answer

senderVars == <<vars, announced, silent>>

SenderInit == Init /\ announced = FALSE /\ silent \in Silences

\* Mutant of RequestEnds: an exception of send_request leaves the worker.
RequestEnds_Escapes(w) ==
  /\ wpc[w] = "run"
  /\ cur[w] \notin silent
  /\ executed' = [executed EXCEPT ![cur[w]] = @ + 1]
  /\ cur' = [cur EXCEPT ![w] = 0]
  /\ wpc' = [wpc EXCEPT ![w] = "returned"]
  /\ UNCHANGED <<mpc, mutex, tasks, stop, submitted, taken>>

\* send_request is over: the response has come, or an error that it catches.
RequestEnds(w) == cur[w] \notin silent /\ RunTask(w)

\* The line after the loop of enqueue_task, before the destructor.
Announce ==
  /\ mpc = "enqueue"
  /\ submitted = NumTasks
  /\ ~announced
  /\ announced' = TRUE
  /\ UNCHANGED <<vars, silent>>

\* What the caller's thread does in the pool's constructor, in enqueue_task
\* and, once the function returns, in the destructor.
CallerStep ==
  \/ MainStep /\ (mpc' = "stop" => announced) /\ UNCHANGED <<announced, silent>>
  \/ Announce

PoolThreadStep(w) ==
  /\ \/ WorkerLock(w) \/ WorkerWait(w) \/ WorkerReturn(w) \/ WorkerTake(w)
     \/ RequestEnds(w)
  /\ UNCHANGED <<announced, silent>>

SenderNext ==
  \/ CallerStep
  \/ \E w \in Worker :
       PoolThreadStep(w) \/ (SpuriousWake(w) /\ UNCHANGED <<announced, silent>>)
  \/ Terminated /\ UNCHANGED <<announced, silent>>

SenderSpec == SenderInit /\ [][SenderNext]_senderVars

(***************************************************************************)
(* Every thread that can run is eventually scheduled, and spurious wakeups *)
(* do not go on for ever.  Nothing is assumed of the mutex: a thread that  *)
(* waits for it may be overtaken any number of times.                      *)
(***************************************************************************)
FairSenderSpec ==
  /\ SenderSpec
  /\ WF_senderVars(CallerStep)
  /\ \A w \in Worker : WF_senderVars(PoolThreadStep(w))
  /\ <>[][\A w \in Worker : ~SpuriousWake(w)]_senderVars

-----------------------------------------------------------------------------
(***************************************************************************)
(* Properties.                                                             *)
(***************************************************************************)

\* While fewer requests are left without an answer than there are threads,
\* every other request is sent and ends: a thread stuck in read_until
\* (rate3.cxx:125) holds neither the queue nor its mutex.
OthersEnd ==
  \A t \in Task :
    Cardinality(silent) < Cardinality(Worker) /\ t \notin silent
      => <>(executed[t] = 1)

\* The function returns and main ends when the server answers everything
\* (rate3.cxx:54-65,136-159), and only then: one request without an answer
\* keeps the destructor in its join for ever.
ReturnsIfAnswered ==
  /\ silent = {} => <>(mpc = "done")
  /\ [](mpc = "done" => silent = {})

\* "All requests sent in: " (rate3.cxx:158): when the line is printed every
\* request has been sent.
AnnouncedMeansSent == announced => \A t \in Task : executed[t] = 1

=============================================================================
