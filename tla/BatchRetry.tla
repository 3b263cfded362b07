----------------------------- MODULE BatchRetry -----------------------------
(***************************************************************************)
(* The batch sender of test.cxx.  main fills a queue with requests, starts *)
(* a thread that runs processBatch, joins it and announces that all        *)
(* requests have been processed.  processBatch takes the queue and its     *)
(* mutex by reference, so the model lets any number of threads share them; *)
(* main starts one.  The mutex is held for a whole turn of the loop: the   *)
(* sends of the batch and the sleep that follows them.                     *)
(***************************************************************************)
EXTENDS Naturals, Sequences

CONSTANTS
  Worker,       \* the threads running processBatch
  NoWorker,     \* the value of a free queueMutex
  NumRequests,  \* how many requests main pushes
  BatchSize     \* batchSize

ASSUME BatchAssumption ==
  /\ Worker # {}
  /\ NoWorker \notin Worker
  /\ NumRequests \in Nat
  /\ BatchSize \in Nat \ {0}

VARIABLES
  mpc,          \* main: "fill", "join" or "done"
  pc,           \* where each worker is
  queueMutex,   \* the holder of queueMutex
  requestQueue, \* the waiting requests
  pushed,       \* how many requests main has pushed
  i,            \* the loop counter of each worker's batch
  request,      \* the request each worker is sending, 0 when none
  succeeded,    \* the requests sendRequest has returned true for (history)
  ahead         \* the requests that waited when a request was last put back
                \* and that have not been sent since (history)

vars == <<mpc, pc, queueMutex, requestQueue, pushed, i, request, succeeded, ahead>>

Request == 1 .. NumRequests

Queued == {requestQueue[k] : k \in DOMAIN requestQueue}

TypeOK ==
  /\ mpc \in {"fill", "join", "done"}
  /\ pc \in [Worker -> {"unborn", "lock", "test", "batch", "send", "sleep", "returned"}]
  /\ queueMutex \in Worker \cup {NoWorker}
  /\ requestQueue \in Seq(Request)
  /\ pushed \in 0 .. NumRequests
  /\ i \in [Worker -> 0 .. BatchSize]
  /\ request \in [Worker -> 0 .. NumRequests]
  /\ succeeded \subseteq Request
  /\ ahead \in [Request -> SUBSET Request]

Init ==
  /\ mpc = "fill"
  /\ pc = [w \in Worker |-> "unborn"]
  /\ queueMutex = NoWorker
  /\ requestQueue = <<>>
  /\ pushed = 0
  /\ i = [w \in Worker |-> 0]
  /\ request = [w \in Worker |-> 0]
  /\ succeeded = {}
  /\ ahead = [r \in Request |-> {}]

Goto(w, to) == pc' = [pc EXCEPT ![w] = to]

-----------------------------------------------------------------------------
(***************************************************************************)
(* main.                                                                   *)
(***************************************************************************)

Push ==
  /\ mpc = "fill"
  /\ pushed < NumRequests
  /\ pushed' = pushed + 1
  /\ requestQueue' = Append(requestQueue, pushed + 1)
  /\ UNCHANGED <<mpc, pc, queueMutex, i, request, succeeded, ahead>>

StartWorkers ==
  /\ mpc = "fill"
  /\ pushed = NumRequests
  /\ mpc' = "join"
  /\ pc' = [w \in Worker |-> "lock"]
  /\ UNCHANGED <<queueMutex, requestQueue, pushed, i, request, succeeded, ahead>>

\* worker.join(), then "All requests processed."
JoinWorkers ==
  /\ mpc = "join"
  /\ \A w \in Worker : pc[w] = "returned"
  /\ mpc' = "done"
  /\ UNCHANGED <<pc, queueMutex, requestQueue, pushed, i, request, succeeded, ahead>>

-----------------------------------------------------------------------------
(***************************************************************************)
(* processBatch.                                                           *)
(***************************************************************************)

\* The lock_guard at the top of the loop.
Lock(w) ==
  /\ pc[w] = "lock"
  /\ queueMutex = NoWorker
  /\ queueMutex' = w
  /\ Goto(w, "test")
  /\ UNCHANGED <<mpc, requestQueue, pushed, i, request, succeeded, ahead>>

NothingLeft_OneLeft == Len(requestQueue) <= 1  \* mutated: size() <= 1
NothingLeft == requestQueue = <<>>

AtTheEnd_Continues == "lock"                    \* mutated: continue, not break
AtTheEnd == "returned"

\* An empty queue ends the thread; the guard goes out of scope.
Leave(w) ==
  /\ pc[w] = "test"
  /\ NothingLeft
  /\ queueMutex' = NoWorker
  /\ Goto(w, AtTheEnd)
  /\ UNCHANGED <<mpc, requestQueue, pushed, i, request, succeeded, ahead>>

BeginBatch(w) ==
  /\ pc[w] = "test"
  /\ ~NothingLeft
  /\ i' = [i EXCEPT ![w] = 0]
  /\ Goto(w, "batch")
  /\ UNCHANGED <<mpc, queueMutex, requestQueue, pushed, request, succeeded, ahead>>

\* The condition of the for loop.
MoreToSend(w) == i[w] < BatchSize /\ requestQueue # <<>>

Popped_KeepsFront == requestQueue  \* mutated: front() without pop()
Popped == Tail(requestQueue)

Pop(w) ==
  /\ pc[w] = "batch"
  /\ MoreToSend(w)
  /\ request' = [request EXCEPT ![w] = Head(requestQueue)]
  /\ requestQueue' = Popped
  /\ ahead' = [r \in Request |-> ahead[r] \ {Head(requestQueue)}]
  /\ Goto(w, "send")
  /\ UNCHANGED <<mpc, queueMutex, pushed, i, succeeded>>

\* sendRequest returns true.
SendSucceeds(w) ==
  /\ pc[w] = "send"
  /\ succeeded' = succeeded \cup {request[w]}
  /\ request' = [request EXCEPT ![w] = 0]
  /\ i' = [i EXCEPT ![w] = @ + 1]
  /\ Goto(w, "batch")
  /\ UNCHANGED <<mpc, queueMutex, requestQueue, pushed, ahead>>

PutBack_Front(r) == <<r>> \o requestQueue  \* mutated: put back at the front
PutBack(r) == Append(requestQueue, r)

\* sendRequest returns false and the request goes to the back of the queue.
SendFails(w) ==
  /\ pc[w] = "send"
  /\ requestQueue' = PutBack(request[w])
  /\ ahead' = [ahead EXCEPT ![request[w]] = Queued]
  /\ request' = [request EXCEPT ![w] = 0]
  /\ i' = [i EXCEPT ![w] = @ + 1]
  /\ Goto(w, "batch")
  /\ UNCHANGED <<mpc, queueMutex, pushed, succeeded>>

EndBatch(w) ==
  /\ pc[w] = "batch"
  /\ ~MoreToSend(w)
  /\ Goto(w, "sleep")
  /\ UNCHANGED <<mpc, queueMutex, requestQueue, pushed, i, request, succeeded, ahead>>

\* The end of the interval, and with it of the scope of the lock_guard.
EndInterval(w) ==
  /\ pc[w] = "sleep"
  /\ queueMutex' = NoWorker
  /\ Goto(w, "lock")
  /\ UNCHANGED <<mpc, requestQueue, pushed, i, request, succeeded, ahead>>

MainStep == Push \/ StartWorkers \/ JoinWorkers

WorkerStep(w) ==
  \/ Lock(w) \/ Leave(w) \/ BeginBatch(w) \/ Pop(w)
  \/ SendSucceeds(w) \/ SendFails(w) \/ EndBatch(w) \/ EndInterval(w)

Terminated == mpc = "done" /\ UNCHANGED vars

Next == MainStep \/ (\E w \in Worker : WorkerStep(w)) \/ Terminated

Spec == Init /\ [][Next]_vars

-----------------------------------------------------------------------------
(***************************************************************************)
(* Properties.                                                             *)
(***************************************************************************)

Positions(r) == {k \in DOMAIN requestQueue : requestQueue[k] = r}

Senders(r) == {w \in Worker : request[w] = r}

\* Every pushed request is in exactly one place: once in the queue, with one
\* sender, or among those that succeeded, through any number of failures and
\* retries (test.cxx:36-42).
Conserved ==
  \A r \in 1 .. pushed :
    \/ r \in succeeded /\ Positions(r) = {} /\ Senders(r) = {}
    \/ r \notin succeeded /\ Senders(r) = {} /\ \E k \in Positions(r) : Positions(r) = {k}
    \/ r \notin succeeded /\ Positions(r) = {} /\ \E w \in Senders(r) : Senders(r) = {w}

\* "All requests processed." (test.cxx:70) is printed only when every request
\* has been sent successfully: an empty queue seen at test.cxx:30 hides no
\* request that is still being sent.
ProcessedMeansAll == mpc = "done" => succeeded = Request

\* A failed request is sent again only after every request that was waiting
\* when it failed has had its turn (test.cxx:42): no request starves another
\* by failing.
RetryWaitsItsTurn == \A w \in Worker : request[w] # 0 => ahead[request[w]] = {}

=============================================================================
