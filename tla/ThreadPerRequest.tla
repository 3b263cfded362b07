-------------------------- MODULE ThreadPerRequest --------------------------
(***************************************************************************)
(* send_requests_concurrently of rate2.cxx: a std::thread for every        *)
(* request, all joined before "All requests sent in" is printed.           *)
(***************************************************************************)
EXTENDS Naturals, FiniteSets

CONSTANTS
  NumRequests,  \* num_requests
  MaxThreads    \* how many threads the system lets the process start

RequestAssumption == NumRequests \in Nat /\ MaxThreads \in Nat

VARIABLES
  pc,        \* the function: "spawn", "join", "announced" or "terminated"
  spawned,   \* the loop counter: threads 1 .. spawned have been started
  joined,    \* threads 1 .. joined have been joined
  thread     \* each thread: "unborn", "connecting", "waiting" or "ended"

vars == <<pc, spawned, joined, thread>>

Request == 1 .. NumRequests

Live == {r \in Request : thread[r] \in {"connecting", "waiting"}}

TypeOK ==
  /\ pc \in {"spawn", "join", "announced", "terminated"}
  /\ spawned \in 0 .. NumRequests
  /\ joined \in 0 .. spawned
  /\ thread \in [Request -> {"unborn", "connecting", "waiting", "ended"}]
  /\ Cardinality(Live) <= MaxThreads

Init ==
  /\ pc = "spawn"
  /\ spawned = 0
  /\ joined = 0
  /\ thread = [r \in Request |-> "unborn"]

\* threads.emplace_back
Spawn ==
  /\ pc = "spawn"
  /\ spawned < NumRequests
  /\ Cardinality(Live) < MaxThreads
  /\ spawned' = spawned + 1
  /\ thread' = [thread EXCEPT ![spawned + 1] = "connecting"]
  /\ UNCHANGED <<pc, joined>>

\* The constructor of std::thread throws; the threads in the vector are
\* joinable when it is destroyed, which ends the process.
SpawnThrows ==
  /\ pc = "spawn"
  /\ spawned < NumRequests
  /\ Cardinality(Live) >= MaxThreads
  /\ pc' = "terminated"
  /\ UNCHANGED <<spawned, joined, thread>>

EndSpawn ==
  /\ pc = "spawn"
  /\ spawned = NumRequests
  /\ pc' = "join"
  /\ UNCHANGED <<spawned, joined, thread>>

Joinable_Detached == TRUE  \* mutated: detach() for join()
Joinable == thread[joined + 1] = "ended"

Join ==
  /\ pc = "join"
  /\ joined < spawned
  /\ Joinable
  /\ joined' = joined + 1
  /\ UNCHANGED <<pc, spawned, thread>>

Announce ==
  /\ pc = "join"
  /\ joined = spawned
  /\ pc' = "announced"
  /\ UNCHANGED <<spawned, joined, thread>>

\* send_request: connect and write, then wait for a line of the response.
SendRequest(r) ==
  /\ pc # "terminated"
  /\ thread[r] = "connecting"
  /\ thread' = [thread EXCEPT ![r] = "waiting"]
  /\ UNCHANGED <<pc, spawned, joined>>

\* The response has come.
Receive(r) ==
  /\ pc # "terminated"
  /\ thread[r] = "waiting"
  /\ thread' = [thread EXCEPT ![r] = "ended"]
  /\ UNCHANGED <<pc, spawned, joined>>

\* Resolving, connecting, writing or reading failed: caught and reported.
Fail(r) ==
  /\ pc # "terminated"
  /\ thread[r] \in {"connecting", "waiting"}
  /\ thread' = [thread EXCEPT ![r] = "ended"]
  /\ UNCHANGED <<pc, spawned, joined>>

FunctionStep == Spawn \/ SpawnThrows \/ EndSpawn \/ Join \/ Announce

ThreadStep(r) == SendRequest(r) \/ Receive(r) \/ Fail(r)

Over == pc \in {"announced", "terminated"} /\ UNCHANGED vars

Next == FunctionStep \/ (\E r \in Request : ThreadStep(r)) \/ Over

Spec == Init /\ [][Next]_vars

-----------------------------------------------------------------------------
(***************************************************************************)
(* Properties.                                                             *)
(***************************************************************************)

\* "All requests sent in: " (rate2.cxx:63) is true when it is printed: every
\* request has ended, in whatever order the threads did.
AnnouncedMeansEnded == pc = "announced" => \A r \in Request : thread[r] = "ended"

=============================================================================
