----------------------------- MODULE FastClient -----------------------------
(***************************************************************************)
(* The load generator of fast_client.cxx.  main launches the requests in   *)
(* batches of REQUESTS_PER_SECOND, each as a std::async thread of its own, *)
(* keeps the futures in a vector, gives every batch at least a second,     *)
(* drops the futures that are ready, and at the end waits for the rest     *)
(* before curl_global_cleanup.                                             *)
(*                                                                         *)
(* THREAD_POOL_SIZE is used nowhere in the code and is left out.           *)
(*                                                                         *)
(* Time advances in whole seconds.  A request ends no later than its       *)
(* CURLOPT_TIMEOUT; nothing bounds how long launching a batch takes.       *)
(***************************************************************************)
EXTENDS Naturals, FiniteSets

CONSTANTS
  TOTAL_REQUESTS,
  REQUESTS_PER_SECOND,
  Timeout,              \* CURLOPT_TIMEOUT, in seconds
  ThreadLimits          \* the numbers of threads a system may grant the process

ClientAssumption ==
  /\ TOTAL_REQUESTS \in Nat
  /\ REQUESTS_PER_SECOND \in Nat \ {0}
  /\ Timeout \in Nat
  /\ ThreadLimits \subseteq Nat \ {0}

VARIABLES
  pc,               \* where main is
  request_counter,  \* the number of requests launched
  i,                \* the counter of the batch loop
  elapsed,          \* whole seconds since the batch began, at most 1
  state,            \* what became of each request
  age,              \* seconds since each running request started
  futures,          \* the requests whose future is in the vector
  curl,             \* libcurl's global state
  maxThreads        \* how many threads this system grants the process

vars == <<pc, request_counter, i, elapsed, state, age, futures, curl, maxThreads>>

Request == 0 .. (TOTAL_REQUESTS - 1)

Running == {r \in Request : state[r] = "running"}

TypeOK ==
  /\ pc \in {"init", "loop", "batch", "sleep", "clean", "wait", "cleanup", "done",
             "terminated"}
  /\ request_counter \in 0 .. TOTAL_REQUESTS
  /\ i \in 0 .. REQUESTS_PER_SECOND
  /\ elapsed \in 0 .. 1
  /\ state \in [Request -> {"unborn", "running", "ended"}]
  /\ age \in [Request -> 0 .. Timeout]
  /\ futures \subseteq Request
  /\ curl \in {"none", "ready", "cleaned"}
  /\ maxThreads \in ThreadLimits

Init ==
  /\ pc = "init"
  /\ request_counter = 0
  /\ i = 0
  /\ elapsed = 0
  /\ state = [r \in Request |-> "unborn"]
  /\ age = [r \in Request |-> 0]
  /\ futures = {}
  /\ curl = "none"
  /\ maxThreads \in ThreadLimits

-----------------------------------------------------------------------------
(***************************************************************************)
(* main and sendRequestsWithThreadPool.                                    *)
(***************************************************************************)

GlobalInit ==
  /\ pc = "init"
  /\ curl' = "ready"
  /\ pc' = "loop"
  /\ UNCHANGED <<request_counter, i, elapsed, state, age, futures, maxThreads>>

FirstTurn_Kept == i  \* mutated: i lives outside the loop
FirstTurn == 0

BeginBatch ==
  /\ pc = "loop"
  /\ request_counter < TOTAL_REQUESTS
  /\ i' = FirstTurn
  /\ elapsed' = 0
  /\ pc' = "batch"
  /\ UNCHANGED <<request_counter, state, age, futures, curl, maxThreads>>

\* Mutant of InBatch: one request too many in a batch.
InBatch_OneMore == i <= REQUESTS_PER_SECOND /\ request_counter < TOTAL_REQUESTS

\* The condition of the for loop and the break at its top.
InBatch == i < REQUESTS_PER_SECOND /\ request_counter < TOTAL_REQUESTS

Keep_Detached(r) == futures  \* mutated: the future is thrown away
Keep(r) == futures \cup {r}

\* std::async starts the thread at once.
Launch ==
  /\ pc = "batch"
  /\ InBatch
  /\ Cardinality(Running) < maxThreads
  /\ state' = [state EXCEPT ![request_counter] = "running"]
  /\ futures' = Keep(request_counter)
  /\ request_counter' = request_counter + 1
  /\ i' = i + 1
  /\ UNCHANGED <<pc, elapsed, age, curl, maxThreads>>

\* std::async throws when no thread can be started, and nothing catches it.
LaunchThrows ==
  /\ pc = "batch"
  /\ InBatch
  /\ Cardinality(Running) >= maxThreads
  /\ pc' = "terminated"
  /\ UNCHANGED <<request_counter, i, elapsed, state, age, futures, curl,
                 maxThreads>>

EndBatch ==
  /\ pc = "batch"
  /\ ~InBatch
  /\ pc' = "sleep"
  /\ UNCHANGED <<request_counter, i, elapsed, state, age, futures, curl,
                 maxThreads>>

SecondOver_AtOnce == TRUE  \* mutated: no sleep
SecondOver == elapsed >= 1

\* The batch has lasted a second, by sleeping for what was left of it.
EndSleep ==
  /\ pc = "sleep"
  /\ SecondOver
  /\ pc' = "clean"
  /\ UNCHANGED <<request_counter, i, elapsed, state, age, futures, curl,
                 maxThreads>>

\* erase(remove_if(...)): the futures that are ready go.
Clean ==
  /\ pc = "clean"
  /\ futures' = {r \in futures : state[r] # "ended"}
  /\ pc' = "loop"
  /\ UNCHANGED <<request_counter, i, elapsed, state, age, curl, maxThreads>>

EndLoop ==
  /\ pc = "loop"
  /\ request_counter >= TOTAL_REQUESTS
  /\ pc' = "wait"
  /\ UNCHANGED <<request_counter, i, elapsed, state, age, futures, curl,
                 maxThreads>>

\* wait() on every future left, then the vector goes out of scope.
WaitAll ==
  /\ pc = "wait"
  /\ \A r \in futures : state[r] = "ended"
  /\ futures' = {}
  /\ pc' = "cleanup"
  /\ UNCHANGED <<request_counter, i, elapsed, state, age, curl, maxThreads>>

GlobalCleanup ==
  /\ pc = "cleanup"
  /\ curl' = "cleaned"
  /\ pc' = "done"
  /\ UNCHANGED <<request_counter, i, elapsed, state, age, futures, maxThreads>>

-----------------------------------------------------------------------------
(***************************************************************************)
(* The request threads and the clock.                                      *)
(***************************************************************************)

\* sendRequest ends: with a response, with an error or the timeout, or because
\* curl_easy_init gave no handle; what it prints is left out.
RequestEnds(r) ==
  /\ state[r] = "running"
  /\ state' = [state EXCEPT ![r] = "ended"]
  /\ age' = [age EXCEPT ![r] = 0]
  /\ UNCHANGED <<pc, request_counter, i, elapsed, futures, curl, maxThreads>>

\* No request is let run beyond its timeout.
Tick ==
  /\ pc \notin {"done", "terminated"}
  /\ \A r \in Running : age[r] < Timeout
  /\ age' = [r \in Request |-> IF r \in Running THEN age[r] + 1 ELSE age[r]]
  /\ elapsed' = 1
  /\ UNCHANGED <<pc, request_counter, i, state, futures, curl, maxThreads>>

MainStep ==
  \/ GlobalInit \/ BeginBatch \/ Launch \/ LaunchThrows \/ EndBatch \/ EndSleep
  \/ Clean \/ EndLoop \/ WaitAll \/ GlobalCleanup

Terminated == pc \in {"done", "terminated"} /\ UNCHANGED vars

Next == MainStep \/ (\E r \in Request : RequestEnds(r)) \/ Tick \/ Terminated

Spec == Init /\ [][Next]_vars

-----------------------------------------------------------------------------
(***************************************************************************)
(* Properties.                                                             *)
(***************************************************************************)

\* curl_global_cleanup comes after the end of every request: dropping ready
\* futures at fast_client.cxx:87-90 never loses track of one that still runs,
\* so that the wait at lines 94-96 covers all of them, and no request was left
\* out by the batches.
CleanupLast == curl = "cleaned" => \A r \in Request : state[r] = "ended"

\* The sleep of fast_client.cxx:82-84 and the timeout of line 35 together
\* bound the load.  The requests in flight started within the last Timeout
\* seconds: in the batches begun in each of these Timeout + 1 seconds, and in
\* one batch that was begun before and launched slowly.
InFlightBounded == Cardinality(Running) <= REQUESTS_PER_SECOND * (Timeout + 2)

\* A system that grants that many threads never makes std::async throw
\* (fast_client.cxx:75).
EnoughThreads == maxThreads >= REQUESTS_PER_SECOND * (Timeout + 2)

=============================================================================
