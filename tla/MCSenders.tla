------------------------------ MODULE MCSenders -----------------------------
(***************************************************************************)
(* The three senders that need no pool, for TLC: test.cxx (BatchRetry,     *)
(* extended), rate2.cxx and fast_client.cxx (instances).  They share       *)
(* nothing, so each behaviour runs one of them, chosen in the initial      *)
(* state, while the variables of the others stay as they are.              *)
(***************************************************************************)
EXTENDS BatchRetry, TLC

CONSTANTS w1, w2                                               \* test.cxx
CONSTANTS MaxThreads                                           \* rate2.cxx
CONSTANTS TOTAL_REQUESTS, REQUESTS_PER_SECOND, Timeout, ThreadLimits

VARIABLES program
VARIABLES tpc, spawned, joined, thread
VARIABLES cpc, request_counter, turn, elapsed, state, age, futures, curl, maxThreads

threadVars == <<tpc, spawned, joined, thread>>
clientVars == <<cpc, request_counter, turn, elapsed, state, age, futures, curl,
                maxThreads>>
sendersVars == <<program, vars, threadVars, clientVars>>

Threads == INSTANCE ThreadPerRequest WITH pc <- tpc
Client == INSTANCE FastClient WITH pc <- cpc, i <- turn

ASSUME SendersAssumption == Threads!RequestAssumption /\ Client!ClientAssumption

-----------------------------------------------------------------------------
SendersInit ==
  /\ program \in {"batch", "threads", "client"}
  /\ Init /\ Threads!Init /\ Client!Init
  /\ program # "client" => maxThreads = CHOOSE n \in ThreadLimits : TRUE

\* the variables of the programs that do not run
Idle(running) ==
  /\ IF running = "batch" THEN TRUE ELSE UNCHANGED vars
  /\ IF running = "threads" THEN TRUE ELSE UNCHANGED threadVars
  /\ IF running = "client" THEN TRUE ELSE UNCHANGED clientVars
  /\ UNCHANGED program

SendersNext ==
  \/ program = "batch" /\ Next /\ Idle("batch")
  \/ program = "threads" /\ Threads!Next /\ Idle("threads")
  \/ program = "client" /\ Client!Next /\ Idle("client")

\* What the fairness of each program is about, numbered: as one program runs at
\* a time, one condition per number states the fairness of all of them.
Run(n) ==
  \/ program = "batch" /\ (IF n = 1 THEN MainStep ELSE WorkerStep(<<w1, w2>>[n - 1]))
  \/ program = "threads" /\ CASE n = 1 -> Threads!FunctionStep
                               [] n = 2 -> \E r \in Request : Threads!ThreadStep(r)
                               [] n = 3 -> FALSE
  \/ program = "client" /\ CASE n = 1 -> Client!MainStep
                              [] n = 2 -> Client!Tick
                              [] n = 3 -> \E r \in Client!Request : Client!RequestEnds(r)

Fair(n) == Run(n) /\ Idle(program)

\* sendRequest of test.cxx fails by `rand() % 10 < 3', so a request that is
\* sent again and again succeeds with probability one: strong fairness.
Success(r) ==
  /\ program = "batch"
  /\ \E w \in Worker : request[w] = r /\ SendSucceeds(w)
  /\ Idle("batch")

SendersSpec ==
  /\ SendersInit /\ [][SendersNext]_sendersVars
  /\ \A n \in 1 .. 3 : WF_sendersVars(Fair(n))
  /\ \A r \in Request : SF_sendersVars(Success(r))

-----------------------------------------------------------------------------
\* The variables of every program keep their types, and no limit is passed.
SendersTypeOK == TypeOK /\ Threads!TypeOK /\ Client!TypeOK

\* What the senders say or do last is true of all requests, whatever failed on
\* the way: "All requests processed." (test.cxx:70) comes after every request
\* has succeeded, "All requests sent in: " (rate2.cxx:63) after every thread has
\* ended, curl_global_cleanup (fast_client.cxx:107) after every transfer.
LastMeansAll ==
  ProcessedMeansAll /\ Threads!AnnouncedMeansEnded /\ Client!CleanupLast

\* fast_client.cxx:35,82-84: pacing and timeout bound the requests in flight.
InFlightBounded == Client!InFlightBounded

\* Each sender ends: although sends fail (test.cxx:27-48), when every server
\* answers or closes (rate2.cxx:25-34), and whenever the system grants the
\* threads that pacing makes enough (fast_client.cxx:75).
AllEnd ==
  <>(\/ program = "batch" /\ mpc = "done"
     \/ program = "threads" /\ tpc \in {"announced", "terminated"}
     \/ program = "client" /\ (cpc = "done" \/ ~Client!EnoughThreads))

=============================================================================
