---------------------------- MODULE SendersProofs ---------------------------
(***************************************************************************)
(* The safety of the three senders of MCSenders, for every number of       *)
(* requests, threads and seconds, every set of workers and every batch     *)
(* size: test.cxx (BatchRetry), rate2.cxx (ThreadPerRequest) and           *)
(* fast_client.cxx (FastClient).                                           *)
(***************************************************************************)
EXTENDS MCSenders, SequenceTheorems, FiniteSetTheorems, TLAPS

-----------------------------------------------------------------------------
(***************************************************************************)
(* test.cxx.  The mutex is held for a whole turn, so at most one worker    *)
(* sends at a time; that the requests then stay together, and that a retry *)
(* waits its turn, are facts about the queue and what is taken from its    *)
(* front and put back at its end.                                          *)
(***************************************************************************)

\* queueMutex is held exactly from the test of the queue to the end of the
\* interval.
MutexHeld ==
  \A w \in Worker : pc[w] \in {"test", "batch", "send", "sleep"} <=> queueMutex = w

\* A worker has a request exactly while it sends it, and then the batch has
\* room for it.
Sending ==
  \A w \in Worker : IF pc[w] = "send"
                    THEN request[w] \in 1 .. pushed /\ i[w] < BatchSize
                    ELSE request[w] = 0

\* The workers run after main has filled the queue; one that has returned left
\* nothing to do for anybody.
Phases ==
  /\ mpc # "fill" => pushed = NumRequests
  /\ mpc = "fill" => \A w \in Worker : pc[w] = "unborn"
  /\ \A w \in Worker : pc[w] = "returned" =>
       requestQueue = <<>> /\ \A v \in Worker : pc[v] # "send"
  /\ mpc = "done" => \A w \in Worker : pc[w] = "returned"

\* The queue holds pushed requests, none of them twice, none that has
\* succeeded and none that is being sent.
QueueSound ==
  /\ \A k \in 1 .. Len(requestQueue) :
       /\ requestQueue[k] \in 1 .. pushed
       /\ requestQueue[k] \notin succeeded
       /\ \A w \in Worker : request[w] # requestQueue[k]
  /\ \A j, k \in 1 .. Len(requestQueue) : requestQueue[j] = requestQueue[k] => j = k

\* Nothing that is being sent has succeeded, and every pushed request is
\* somewhere.
Accounted ==
  /\ succeeded \subseteq 1 .. pushed
  /\ \A w \in Worker : request[w] \notin succeeded
  /\ \A r \in 1 .. pushed :
       \/ r \in succeeded
       \/ \E k \in 1 .. Len(requestQueue) : requestQueue[k] = r
       \/ \E w \in Worker : request[w] = r

\* What a waiting request has to wait for stands in front of it, and what does
\* not wait in the queue waits for nothing.
InFront ==
  /\ \A k \in 1 .. Len(requestQueue) : \A r \in ahead[requestQueue[k]] :
       \E j \in 1 .. k - 1 : requestQueue[j] = r
  /\ \A r \in Request :
       \/ ahead[r] = {}
       \/ \E k \in 1 .. Len(requestQueue) : requestQueue[k] = r

IndInv ==
  /\ TypeOK
  /\ MutexHeld
  /\ Sending
  /\ Phases
  /\ QueueSound
  /\ Accounted
  /\ InFront

-----------------------------------------------------------------------------
(***************************************************************************)
(* What pushing and popping do to the positions of a queue.                *)
(***************************************************************************)

\* push(): the positions so far keep their elements, the new one is the last.
LEMMA PushPositions ==
  ASSUME NEW S, NEW q \in Seq(S), NEW e \in S
  PROVE  /\ Append(q, e) \in Seq(S)
         /\ Len(q) \in Nat
         /\ Len(Append(q, e)) = Len(q) + 1
         /\ \A k \in 1 .. Len(q) : Append(q, e)[k] = q[k]
         /\ Append(q, e)[Len(q) + 1] = e
BY AppendProperties, LenProperties

\* front() and pop(): position k + 1 becomes position k.
LEMMA PopPositions ==
  ASSUME NEW S, NEW q \in Seq(S), q # <<>>
  PROVE  /\ Tail(q) \in Seq(S)
         /\ Len(q) \in Nat \ {0}
         /\ Len(Tail(q)) = Len(q) - 1
         /\ \A k \in 1 .. Len(q) - 1 : Tail(q)[k] = q[k + 1]
         /\ Head(q) = q[1]
         /\ Head(q) \in S
BY HeadTailProperties, EmptySeq, LenProperties

-----------------------------------------------------------------------------
(***************************************************************************)
(* IndInv is an inductive invariant.                                       *)
(***************************************************************************)

\* Before main has pushed anything (test.cxx:58) every part holds.
LEMMA InitIndInv == Init => IndInv
<1> SUFFICES ASSUME Init PROVE IndInv
  OBVIOUS
<1> USE BatchAssumption DEF Init
<1>1. TypeOK
  <2>1. requestQueue \in Seq(Request)
    BY EmptySeq
  <2>2. pc \in [Worker -> {"unborn", "lock", "test", "batch", "send", "sleep", "returned"}]
    OBVIOUS
  <2> QED BY <2>1, <2>2 DEF TypeOK
<1>2. MutexHeld /\ Sending /\ Phases
  BY DEF MutexHeld, Sending, Phases
<1>3. Len(requestQueue) = 0
  BY EmptySeq
<1>4. QueueSound /\ Accounted /\ InFront
  BY <1>3 DEF QueueSound, Accounted, InFront
<1> QED BY <1>1, <1>2, <1>4 DEF IndInv

\* Steps that move no request leave the queue's parts of the invariant alone.
LEMMA SameRequests ==
  ASSUME IndInv, UNCHANGED <<requestQueue, pushed, request, succeeded, ahead>>
  PROVE  QueueSound' /\ Accounted' /\ InFront'
BY DEF IndInv, QueueSound, Accounted, InFront

\* Every step of main and of a worker keeps the invariant (test.cxx:22-72).
LEMMA NextIndInv == IndInv /\ [Next]_vars => IndInv'
<1> SUFFICES ASSUME IndInv, [Next]_vars PROVE IndInv'
  OBVIOUS
<1> USE BatchAssumption
<1>1. ASSUME Push PROVE IndInv'
  <2> USE <1>1 DEF Push
  <2> DEFINE n == Len(requestQueue)
  <2>1. pushed \in Nat /\ pushed + 1 \in Request
    BY DEF IndInv, TypeOK, Request
  <2>2. /\ requestQueue' \in Seq(Request)
        /\ n \in Nat
        /\ Len(requestQueue') = n + 1
        /\ \A k \in 1 .. n : requestQueue'[k] = requestQueue[k]
        /\ requestQueue'[n + 1] = pushed + 1
    BY <2>1, PushPositions DEF IndInv, TypeOK
  <2>3. TypeOK'
    BY <2>1, <2>2 DEF IndInv, TypeOK, Request
  <2>4. MutexHeld' /\ Sending' /\ Phases'
    BY <2>1 DEF IndInv, TypeOK, MutexHeld, Sending, Phases, Request
  <2>5. \A w \in Worker : request[w] = 0
    BY DEF IndInv, Sending, Phases
  <2> HIDE DEF n
  <2>6. QueueSound'
    BY <2>1, <2>2, <2>5 DEF IndInv, QueueSound, Accounted, n
  <2>7. Accounted'
    BY <2>1, <2>2, <2>5 DEF IndInv, Accounted, n
  <2>8. ahead[pushed + 1] = {}
    BY <2>1 DEF IndInv, QueueSound, InFront
  <2>9. InFront'
    <3>1. ASSUME NEW k \in 1 .. n + 1, NEW x \in ahead[requestQueue'[k]]
          PROVE  \E j \in 1 .. k - 1 : requestQueue'[j] = x
      <4>1. k \in 1 .. n /\ requestQueue'[k] = requestQueue[k]
        BY <2>2, <2>8, <3>1
      <4>2. PICK j \in 1 .. k - 1 : requestQueue[j] = x
        BY <3>1, <4>1 DEF IndInv, InFront, n
      <4> QED BY <2>2, <4>1, <4>2
    <3>2. ASSUME NEW x \in Request, ahead[x] # {}
          PROVE  \E k \in 1 .. n + 1 : requestQueue'[k] = x
      <4>1. PICK k \in 1 .. n : requestQueue[k] = x
        BY <3>2 DEF IndInv, InFront, n
      <4> QED BY <2>2, <4>1
    <3> QED BY <2>2, <3>1, <3>2 DEF InFront
  <2> QED BY <2>3, <2>4, <2>6, <2>7, <2>9 DEF IndInv
<1>2. ASSUME StartWorkers PROVE IndInv'
  <2> USE <1>2 DEF StartWorkers
  <2>1. TypeOK'
    BY DEF IndInv, TypeOK
  <2>2. MutexHeld' /\ Sending' /\ Phases'
    BY DEF IndInv, TypeOK, MutexHeld, Sending, Phases
  <2> QED BY <2>1, <2>2, SameRequests DEF IndInv
<1>3. ASSUME JoinWorkers PROVE IndInv'
  <2> USE <1>3 DEF JoinWorkers
  <2>1. TypeOK'
    BY DEF IndInv, TypeOK
  <2>2. MutexHeld' /\ Sending' /\ Phases'
    BY DEF IndInv, TypeOK, MutexHeld, Sending, Phases
  <2> QED BY <2>1, <2>2, SameRequests DEF IndInv
<1>4. ASSUME NEW w \in Worker, Lock(w) PROVE IndInv'
  <2> USE <1>4 DEF Lock, Goto
  <2>1. TypeOK'
    BY DEF IndInv, TypeOK
  <2>2. MutexHeld' /\ Sending' /\ Phases'
    BY DEF IndInv, TypeOK, MutexHeld, Sending, Phases
  <2> QED BY <2>1, <2>2, SameRequests DEF IndInv
<1>5. ASSUME NEW w \in Worker, Leave(w) PROVE IndInv'
  <2> USE <1>5 DEF Leave, Goto, AtTheEnd, NothingLeft
  <2>1. TypeOK'
    BY DEF IndInv, TypeOK
  <2>2. MutexHeld' /\ Sending' /\ Phases'
    BY DEF IndInv, TypeOK, MutexHeld, Sending, Phases
  <2> QED BY <2>1, <2>2, SameRequests DEF IndInv
<1>6. ASSUME NEW w \in Worker, BeginBatch(w) PROVE IndInv'
  <2> USE <1>6 DEF BeginBatch, Goto, NothingLeft
  <2>1. TypeOK'
    BY DEF IndInv, TypeOK
  <2>2. MutexHeld' /\ Sending' /\ Phases'
    BY DEF IndInv, TypeOK, MutexHeld, Sending, Phases
  <2> QED BY <2>1, <2>2, SameRequests DEF IndInv
<1>7. ASSUME NEW w \in Worker, Pop(w) PROVE IndInv'
  <2> USE <1>7 DEF Pop, Goto, MoreToSend, Popped
  <2> DEFINE n == Len(requestQueue)
             r == Head(requestQueue)
  <2>1. /\ requestQueue' \in Seq(Request)
        /\ n \in Nat \ {0}
        /\ Len(requestQueue') = n - 1
        /\ \A k \in 1 .. n - 1 : requestQueue'[k] = requestQueue[k + 1]
        /\ r = requestQueue[1]
        /\ r \in Request
    BY PopPositions DEF IndInv, TypeOK
  <2>2. r \in 1 .. pushed /\ r \notin succeeded /\ r # 0
    BY <2>1 DEF IndInv, QueueSound
  <2> HIDE DEF n, r
  <2>3. request' = [request EXCEPT ![w] = r]
    BY DEF r
  <2>4. ahead' = [x \in Request |-> ahead[x] \ {r}]
    BY DEF r
  <2>5. TypeOK'
    BY <2>1, <2>3, <2>4 DEF IndInv, TypeOK, Request
  <2>6. MutexHeld' /\ Sending' /\ Phases'
    BY <2>2, <2>3 DEF IndInv, TypeOK, MutexHeld, Sending, Phases
  <2>7. QueueSound'
    <3>1. \A k \in 1 .. n - 1 : requestQueue'[k] # r
      BY <2>1 DEF IndInv, QueueSound, n
    <3>2. \A v \in Worker : request'[v] = request[v] \/ request'[v] = r
      BY <2>3 DEF IndInv, TypeOK
    <3> QED BY <2>1, <3>1, <3>2 DEF IndInv, QueueSound, n
  <2>8. Accounted'
    <3>1. \A v \in Worker : request'[v] = request[v] \/ request'[v] = r
      BY <2>3 DEF IndInv, TypeOK
    <3>2. request'[w] = r /\ request[w] = 0
      BY <2>3 DEF IndInv, TypeOK, Sending
    <3>3. ASSUME NEW x \in 1 .. pushed, x \notin succeeded
          PROVE  \/ \E k \in 1 .. n - 1 : requestQueue'[k] = x
                 \/ \E v \in Worker : request'[v] = x
      <4>1. CASE \E k \in 1 .. n : requestQueue[k] = x
        <5>1. PICK k \in 1 .. n : requestQueue[k] = x
          BY <4>1
        <5>2. CASE k = 1
          BY <2>1, <3>2, <5>1, <5>2
        <5>3. CASE k # 1
          <6>1. k - 1 \in 1 .. n - 1 /\ requestQueue'[k - 1] = x
            BY <2>1, <5>1, <5>3
          <6> QED BY <6>1
        <5> QED BY <5>2, <5>3
      <4>2. CASE \E v \in Worker : request[v] = x
        BY <3>2, <4>2, <2>3 DEF IndInv, TypeOK
      <4> QED BY <3>3, <4>1, <4>2 DEF IndInv, Accounted, n
    <3> QED BY <2>1, <2>2, <3>1, <3>3 DEF IndInv, Accounted
  <2>9. InFront'
    <3>1. ASSUME NEW k \in 1 .. n - 1, NEW x \in ahead'[requestQueue'[k]]
          PROVE  \E j \in 1 .. k - 1 : requestQueue'[j] = x
      <4>1. k + 1 \in 1 .. n /\ requestQueue'[k] = requestQueue[k + 1]
        BY <2>1
      <4>2. requestQueue[k + 1] \in Request
        BY <4>1, ElementOfSeq DEF IndInv, TypeOK, n
      <4>3. x \in ahead[requestQueue[k + 1]] /\ x # r
        <5>1. ahead'[requestQueue[k + 1]] = ahead[requestQueue[k + 1]] \ {r}
          BY <2>4, <4>2
        <5>2. x \in ahead'[requestQueue[k + 1]]
          BY <3>1, <4>1
        <5> QED BY <5>1, <5>2
      <4>4. PICK j \in 1 .. k : requestQueue[j] = x
        BY <4>1, <4>3, <2>1 DEF IndInv, InFront, n
      <4>5. j # 1
        BY <2>1, <4>3, <4>4
      <4>6. j - 1 \in 1 .. k - 1 /\ requestQueue'[j - 1] = x
        BY <2>1, <4>4, <4>5
      <4> QED BY <4>6
    <3>2. ASSUME NEW x \in Request, ahead'[x] # {}
          PROVE  \E k \in 1 .. n - 1 : requestQueue'[k] = x
      <4>1. ahead[x] # {} /\ ahead'[x] = ahead[x] \ {r}
        BY <2>4, <3>2
      <4>2. PICK k \in 1 .. n : requestQueue[k] = x
        BY <4>1 DEF IndInv, InFront, n
      <4>3. k # 1
        <5>1. SUFFICES ASSUME k = 1 PROVE FALSE
          OBVIOUS
        <5>2. ahead[x] = {}
          BY <2>1, <4>2, <5>1 DEF IndInv, InFront, n
        <5> QED BY <4>1, <5>2
      <4>4. k - 1 \in 1 .. n - 1 /\ requestQueue'[k - 1] = x
        BY <2>1, <4>2, <4>3
      <4> QED BY <4>4
    <3> QED BY <2>1, <3>1, <3>2 DEF InFront
  <2> QED BY <2>5, <2>6, <2>7, <2>8, <2>9 DEF IndInv
<1>8. ASSUME NEW w \in Worker, SendSucceeds(w) PROVE IndInv'
  <2> USE <1>8 DEF SendSucceeds, Goto
  <2>1. request[w] \in 1 .. pushed /\ request[w] # 0 /\ i[w] < BatchSize
    BY DEF IndInv, TypeOK, Sending
  <2>2. TypeOK'
    <3>1. i[w] + 1 \in 0 .. BatchSize
      BY <2>1 DEF IndInv, TypeOK
    <3>2. i' \in [Worker -> 0 .. BatchSize] /\ request' \in [Worker -> 0 .. NumRequests]
      BY <3>1 DEF IndInv, TypeOK
    <3>3. request[w] \in Request /\ succeeded \subseteq Request
      BY <2>1 DEF IndInv, TypeOK, Request
    <3>4. succeeded' \subseteq Request
      BY <3>3
    <3> QED BY <3>2, <3>4 DEF IndInv, TypeOK
  <2>3. MutexHeld' /\ Sending' /\ Phases'
    BY DEF IndInv, TypeOK, MutexHeld, Sending, Phases
  <2>4. \A v \in Worker : request'[v] = 0
    BY DEF IndInv, TypeOK, MutexHeld, Sending
  <2>5. QueueSound'
    BY <2>4 DEF IndInv, TypeOK, QueueSound
  <2>6. Accounted'
    <3>1. \A v \in Worker : v # w => request[v] = 0
      BY DEF IndInv, TypeOK, MutexHeld, Sending
    <3>2. \A v \in Worker : request'[v] \notin succeeded'
      <4>1. 0 \notin succeeded /\ request[w] # 0
        BY <2>1 DEF IndInv, TypeOK, Request
      <4>2. 0 \notin succeeded'
        BY <4>1
      <4> QED BY <2>4, <4>2
    <3>3. ASSUME NEW x \in 1 .. pushed, x \notin succeeded'
          PROVE  \E k \in 1 .. Len(requestQueue) : requestQueue[k] = x
      <4>1. x \notin succeeded /\ x # request[w] /\ x # 0
        BY <3>3
      <4> QED BY <3>1, <4>1 DEF IndInv, Accounted
    <3> QED BY <2>1, <3>2, <3>3 DEF IndInv, Accounted
  <2>7. InFront'
    BY DEF IndInv, InFront
  <2> QED BY <2>2, <2>3, <2>5, <2>6, <2>7 DEF IndInv
<1>9. ASSUME NEW w \in Worker, SendFails(w) PROVE IndInv'
  <2> USE <1>9 DEF SendFails, Goto, PutBack
  <2> DEFINE n == Len(requestQueue)
             r == request[w]
  <2>1. r \in 1 .. pushed /\ r \in Request /\ i[w] < BatchSize
    BY DEF IndInv, TypeOK, Sending, Request
  <2>2. /\ requestQueue' \in Seq(Request)
        /\ n \in Nat
        /\ Len(requestQueue') = n + 1
        /\ \A k \in 1 .. n : requestQueue'[k] = requestQueue[k]
        /\ requestQueue'[n + 1] = r
    BY <2>1, PushPositions DEF IndInv, TypeOK
  <2>3. Queued = {requestQueue[k] : k \in 1 .. n} /\ Queued \subseteq Request
    BY LenProperties DEF IndInv, TypeOK, Queued
  <2> HIDE DEF n
  <2>4. TypeOK'
    <3>1. i[w] + 1 \in 0 .. BatchSize
      BY <2>1 DEF IndInv, TypeOK
    <3>2. i' \in [Worker -> 0 .. BatchSize] /\ request' \in [Worker -> 0 .. NumRequests]
      BY <3>1 DEF IndInv, TypeOK
    <3>3. ahead' \in [Request -> SUBSET Request]
      BY <2>1, <2>3 DEF IndInv, TypeOK
    <3> QED BY <2>2, <3>2, <3>3 DEF IndInv, TypeOK
  <2>5. MutexHeld' /\ Sending' /\ Phases'
    <3>1. \A v \in Worker : pc[v] # "returned"
      BY DEF IndInv, Phases
    <3> QED BY <3>1 DEF IndInv, TypeOK, MutexHeld, Sending, Phases
  <2>6. /\ \A v \in Worker : request'[v] = 0
        /\ \A v \in Worker : v # w => request[v] = 0
    BY DEF IndInv, TypeOK, MutexHeld, Sending
  <2>7. r \notin succeeded /\ \A k \in 1 .. n : requestQueue[k] # r
    BY DEF IndInv, QueueSound, Accounted, n
  <2>8. QueueSound'
    BY <2>1, <2>2, <2>6, <2>7 DEF IndInv, QueueSound, n
  <2>9. Accounted'
    <3>1. ASSUME NEW x \in 1 .. pushed, x \notin succeeded
          PROVE  \E k \in 1 .. n + 1 : requestQueue'[k] = x
      <4>1. CASE x = r
        BY <2>2, <4>1
      <4>2. CASE x # r
        <5>1. PICK k \in 1 .. n : requestQueue[k] = x
          <6>1. x # 0 /\ \A v \in Worker : request[v] # x
            BY <2>6, <4>2
          <6> QED BY <3>1, <6>1 DEF IndInv, Accounted, n
        <5> QED BY <2>2, <5>1
      <4> QED BY <4>1, <4>2
    <3>2. \A v \in Worker : request'[v] \notin succeeded
      BY <2>6 DEF IndInv, TypeOK, Request
    <3> QED BY <2>2, <3>1, <3>2 DEF IndInv, Accounted
  <2>10. InFront'
    <3>1. \A x \in Request : ahead'[x] = IF x = r THEN Queued ELSE ahead[x]
      BY DEF IndInv, TypeOK
    <3>2. ASSUME NEW k \in 1 .. n + 1, NEW x \in ahead'[requestQueue'[k]]
          PROVE  \E j \in 1 .. k - 1 : requestQueue'[j] = x
      <4>1. CASE k = n + 1
        <5>1. PICK j \in 1 .. n : requestQueue[j] = x
          <6>1. ahead'[r] = Queued /\ x \in ahead'[r]
            BY <2>1, <2>2, <3>1, <3>2, <4>1
          <6> QED BY <2>3, <6>1
        <5> QED BY <2>2, <4>1, <5>1
      <4>2. CASE k # n + 1
        <5>1. k \in 1 .. n /\ requestQueue'[k] = requestQueue[k]
          BY <2>2, <4>2
        <5>2. requestQueue[k] \in Request
          BY <5>1, ElementOfSeq DEF IndInv, TypeOK, n
        <5>3. x \in ahead[requestQueue[k]]
          BY <2>7, <3>1, <3>2, <5>1, <5>2
        <5>4. PICK j \in 1 .. k - 1 : requestQueue[j] = x
          BY <5>1, <5>3 DEF IndInv, InFront, n
        <5> QED BY <2>2, <5>1, <5>4
      <4> QED BY <4>1, <4>2
    <3>3. ASSUME NEW x \in Request, ahead'[x] # {}
          PROVE  \E k \in 1 .. n + 1 : requestQueue'[k] = x
      <4>1. CASE x = r
        BY <2>2, <4>1
      <4>2. CASE x # r
        <5>1. PICK k \in 1 .. n : requestQueue[k] = x
          BY <3>1, <3>3, <4>2 DEF IndInv, InFront, n
        <5> QED BY <2>2, <5>1
      <4> QED BY <4>1, <4>2
    <3> QED BY <2>2, <3>2, <3>3 DEF InFront
  <2> QED BY <2>4, <2>5, <2>8, <2>9, <2>10 DEF IndInv
<1>10. ASSUME NEW w \in Worker, EndBatch(w) PROVE IndInv'
  <2> USE <1>10 DEF EndBatch, Goto
  <2>1. TypeOK'
    BY DEF IndInv, TypeOK
  <2>2. MutexHeld' /\ Sending' /\ Phases'
    BY DEF IndInv, TypeOK, MutexHeld, Sending, Phases
  <2> QED BY <2>1, <2>2, SameRequests DEF IndInv
<1>11. ASSUME NEW w \in Worker, EndInterval(w) PROVE IndInv'
  <2> USE <1>11 DEF EndInterval, Goto
  <2>1. TypeOK'
    BY DEF IndInv, TypeOK
  <2>2. MutexHeld' /\ Sending' /\ Phases'
    BY DEF IndInv, TypeOK, MutexHeld, Sending, Phases
  <2> QED BY <2>1, <2>2, SameRequests DEF IndInv
<1>12. CASE UNCHANGED vars
  BY <1>12 DEF vars, IndInv, TypeOK, MutexHeld, Sending, Phases, QueueSound, Accounted,
               InFront
<1> QED
  BY <1>1, <1>2, <1>3, <1>4, <1>5, <1>6, <1>7, <1>8, <1>9, <1>10, <1>11, <1>12
  DEF Next, MainStep, WorkerStep, Terminated

-----------------------------------------------------------------------------
(***************************************************************************)
(* What IndInv says of the properties.                                     *)
(***************************************************************************)

\* A request that is nowhere twice and somewhere once is in exactly one place.
LEMMA IndInvConserved == IndInv => Conserved
<1> SUFFICES ASSUME IndInv, NEW r \in 1 .. pushed
             PROVE  \/ r \in succeeded /\ Positions(r) = {} /\ Senders(r) = {}
                    \/ /\ r \notin succeeded /\ Senders(r) = {}
                       /\ \E k \in Positions(r) : Positions(r) = {k}
                    \/ /\ r \notin succeeded /\ Positions(r) = {}
                       /\ \E w \in Senders(r) : Senders(r) = {w}
  BY DEF Conserved
<1>1. DOMAIN requestQueue = 1 .. Len(requestQueue)
  BY LenProperties DEF IndInv, TypeOK
<1>2. CASE r \in succeeded
  BY <1>1, <1>2 DEF IndInv, QueueSound, Accounted, Positions, Senders
<1>3. CASE r \notin succeeded /\ \E k \in 1 .. Len(requestQueue) : requestQueue[k] = r
  <2>1. PICK k \in 1 .. Len(requestQueue) : requestQueue[k] = r
    BY <1>3
  <2>2. Positions(r) = {k}
    BY <1>1, <2>1 DEF IndInv, QueueSound, Positions
  <2>3. Senders(r) = {}
    BY <2>1 DEF IndInv, QueueSound, Senders
  <2> QED BY <1>3, <2>2, <2>3
<1>4. CASE r \notin succeeded /\ \E w \in Worker : request[w] = r
  <2>1. PICK w \in Worker : request[w] = r
    BY <1>4
  <2>2. r # 0
    BY DEF IndInv, TypeOK
  <2>3. Senders(r) = {w}
    BY <2>1, <2>2 DEF IndInv, MutexHeld, Sending, Senders
  <2>4. Positions(r) = {}
    BY <1>1, <2>1 DEF IndInv, QueueSound, Positions
  <2> QED BY <1>4, <2>3, <2>4
<1> QED BY <1>2, <1>3, <1>4 DEF IndInv, Accounted

\* Workers that have all returned left an empty queue and nobody sending.
LEMMA IndInvProcessed == IndInv => ProcessedMeansAll
<1> SUFFICES ASSUME IndInv, mpc = "done" PROVE succeeded = Request
  BY DEF ProcessedMeansAll
<1>1. PICK w \in Worker : pc[w] = "returned"
  BY BatchAssumption DEF IndInv, Phases
<1>2. requestQueue = <<>> /\ \A v \in Worker : request[v] = 0
  BY <1>1 DEF IndInv, Phases, Sending
<1>3. Len(requestQueue) = 0
  BY <1>2, EmptySeq
<1>4. pushed = NumRequests /\ NumRequests \in Nat
  BY BatchAssumption DEF IndInv, Phases
<1>5. ASSUME NEW r \in 1 .. pushed PROVE r \in succeeded
  <2>1. r # 0 /\ \A k \in 1 .. Len(requestQueue) : FALSE
    BY <1>3
  <2> QED BY <1>2, <2>1 DEF IndInv, Accounted
<1> QED BY <1>4, <1>5 DEF IndInv, TypeOK, Request

\* What is being sent is not in the queue, so it waits for nothing.
LEMMA IndInvWaits == IndInv => RetryWaitsItsTurn
<1> SUFFICES ASSUME IndInv, NEW w \in Worker, request[w] # 0
             PROVE  ahead[request[w]] = {}
  BY DEF RetryWaitsItsTurn
<1>1. request[w] \in Request
  BY DEF IndInv, TypeOK, Request
<1> QED BY <1>1 DEF IndInv, QueueSound, InFront

-----------------------------------------------------------------------------
\* The inductive invariant holds in every behaviour of the batch sender.
THEOREM Invariance == Spec => []IndInv
BY InitIndInv, NextIndInv, PTL DEF Spec

\* For any number of threads, requests and any batch size no request is lost,
\* doubled or sent by two threads at once, however often sends fail
\* (test.cxx:30-46).
THEOREM ConservedAlways == Spec => []Conserved
BY Invariance, IndInvConserved, PTL

\* A retried request is not sent before those that waited when it failed
\* (test.cxx:42).
THEOREM RetriesWait == Spec => []RetryWaitsItsTurn
BY Invariance, IndInvWaits, PTL

\* "All requests processed." (test.cxx:70) is true when it is printed.
THEOREM ProcessedIsTrue == Spec => []ProcessedMeansAll
BY Invariance, IndInvProcessed, PTL

-----------------------------------------------------------------------------
(***************************************************************************)
(* rate2.cxx and fast_client.cxx.                                          *)
(***************************************************************************)

\* rate2.cxx: threads are started for all requests before the first is joined,
\* and joined in order, so everything up to joined has ended.
ThreadsInv ==
  /\ Threads!TypeOK
  /\ tpc \in {"join", "announced"} => spawned = NumRequests
  /\ tpc = "announced" => joined = spawned
  /\ \A r \in 1 .. joined : thread[r] = "ended"

\* fast_client.cxx: the requests are started in order, and the future of one
\* that has not ended is in the vector.
Launched ==
  /\ \A r \in Client!Request : state[r] = "unborn" <=> r >= request_counter
  /\ Client!Running \subseteq futures

\* main waits for nothing once the last future has been waited for.
Finishing ==
  /\ cpc \in {"wait", "cleanup", "done"} => request_counter = TOTAL_REQUESTS
  /\ cpc \in {"cleanup", "done"} => Client!Running = {}
  /\ curl = "cleaned" => cpc = "done"

\* A batch that was cleaned up has lasted its second.
Rested ==
  /\ cpc = "clean" => elapsed = 1
  /\ cpc = "loop" /\ request_counter > 0 => elapsed = 1
  /\ cpc = "init" => request_counter = 0

\* How many requests have been started since a running one: those of the
\* current batch, a batch for each second it has run, and another one if
\* the current batch began in this second.
Paced ==
  \A r \in Client!Running :
    request_counter - r <= turn + REQUESTS_PER_SECOND * (age[r] + (1 - elapsed))

ClientInv ==
  /\ Client!TypeOK
  /\ Launched
  /\ Finishing
  /\ Rested
  /\ Paced

SendersInv == IndInv /\ ThreadsInv /\ ClientInv

-----------------------------------------------------------------------------
(***************************************************************************)
(* rate2.cxx.                                                              *)
(***************************************************************************)

\* One more thread is at most one more live thread.
LEMMA OneMoreLive ==
  ASSUME NEW S, IsFiniteSet(S), NEW x, NEW U, U \subseteq S \cup {x}
  PROVE  /\ IsFiniteSet(U)
         /\ Cardinality(U) \in Nat /\ Cardinality(S) \in Nat
         /\ Cardinality(U) <= Cardinality(S) + 1
<1>1. /\ IsFiniteSet(S \cup {x})
      /\ Cardinality(S) \in Nat
      /\ Cardinality(S \cup {x}) \in Nat
      /\ Cardinality(S \cup {x}) <= Cardinality(S) + 1
  <2>1. /\ IsFiniteSet(S \cup {x})
        /\ Cardinality(S \cup {x}) = IF x \in S THEN Cardinality(S) ELSE Cardinality(S) + 1
    BY FS_AddElement
  <2>2. Cardinality(S) \in Nat
    BY FS_CardinalityType
  <2> QED BY <2>1, <2>2
<1>2. IsFiniteSet(U) /\ Cardinality(U) <= Cardinality(S \cup {x})
  BY <1>1, FS_Subset
<1>3. Cardinality(U) \in Nat
  BY <1>2, FS_CardinalityType
<1> QED BY <1>1, <1>2, <1>3

\* The instances count as everybody does.
LEMMA SameCardinality ==
  ASSUME NEW S
  PROVE  Threads!Cardinality(S) = Cardinality(S) /\ Client!Cardinality(S) = Cardinality(S)
BY DEF Threads!Cardinality, Client!Cardinality, Cardinality

\* Nothing has been started yet.

LEMMA ThreadsInit == Threads!Init => ThreadsInv
<1> SUFFICES ASSUME Threads!Init PROVE ThreadsInv
  OBVIOUS
<1> USE SendersAssumption DEF Threads!RequestAssumption
<1>1. Threads!Live = {}
  BY DEF Threads!Init, Threads!Live
<1>2. Cardinality(Threads!Live) = 0
  BY <1>1, FS_EmptySet
<1>3. Threads!TypeOK
  BY <1>2, SameCardinality DEF Threads!Init, Threads!TypeOK
<1> QED BY <1>3 DEF Threads!Init, ThreadsInv

\* Every step of send_requests_concurrently and its threads (rate2.cxx:10-63).
LEMMA ThreadsNext == ThreadsInv /\ [Threads!Next]_threadVars => ThreadsInv'
<1> SUFFICES ASSUME ThreadsInv, [Threads!Next]_threadVars PROVE ThreadsInv'
  OBVIOUS
<1> USE SendersAssumption DEF Threads!RequestAssumption
<1>1. IsFiniteSet(Threads!Live)
  <2>1. IsFiniteSet(1 .. NumRequests)
    BY FS_Interval
  <2> QED BY <2>1, FS_Subset DEF Threads!Live, Threads!Request
<1>2. ASSUME thread' = thread PROVE Threads!Live' = Threads!Live
  BY <1>2 DEF Threads!Live
<1>3. CASE Threads!Spawn
  <2>1. spawned + 1 \in Threads!Request /\ spawned \in Nat
    BY <1>3 DEF Threads!Spawn, ThreadsInv, Threads!TypeOK, Threads!Request
  <2>2. \A r \in Threads!Request : thread'[r] = IF r = spawned + 1 THEN "connecting" ELSE thread[r]
    BY <1>3 DEF Threads!Spawn, ThreadsInv, Threads!TypeOK
  <2>3. Threads!Live' \subseteq Threads!Live \cup {spawned + 1}
    BY <2>2 DEF Threads!Live
  <2>4. Cardinality(Threads!Live') <= MaxThreads
    <3>1. /\ Cardinality(Threads!Live') \in Nat /\ Cardinality(Threads!Live) \in Nat
          /\ Cardinality(Threads!Live') <= Cardinality(Threads!Live) + 1
      BY <1>1, <2>3, OneMoreLive
    <3>2. Cardinality(Threads!Live) < MaxThreads
      BY <1>3, SameCardinality DEF Threads!Spawn
    <3> QED BY <3>1, <3>2
  <2>5. thread' \in [Threads!Request -> {"unborn", "connecting", "waiting", "ended"}]
    BY <1>3 DEF Threads!Spawn, ThreadsInv, Threads!TypeOK
  <2>6. Threads!TypeOK'
    BY <1>3, <2>1, <2>4, <2>5, SameCardinality
    DEF Threads!Spawn, ThreadsInv, Threads!TypeOK, Threads!Request
  <2>7. \A r \in 1 .. joined : r \in Threads!Request /\ r # spawned + 1
    BY <2>1 DEF ThreadsInv, Threads!TypeOK, Threads!Request
  <2> QED BY <1>3, <2>2, <2>6, <2>7 DEF Threads!Spawn, ThreadsInv
<1>4. CASE Threads!SpawnThrows \/ Threads!EndSpawn \/ Threads!Announce \/ UNCHANGED threadVars
  <2>1. thread' = thread
    BY <1>4 DEF Threads!SpawnThrows, Threads!EndSpawn, Threads!Announce, threadVars
  <2>2. Threads!TypeOK'
    BY <1>2, <1>4, <2>1
    DEF Threads!SpawnThrows, Threads!EndSpawn, Threads!Announce, threadVars, ThreadsInv,
        Threads!TypeOK
  <2> QED BY <1>4, <2>2
          DEF Threads!SpawnThrows, Threads!EndSpawn, Threads!Announce, threadVars, ThreadsInv
<1>5. CASE Threads!Join
  <2>1. /\ tpc' = tpc /\ spawned' = spawned /\ thread' = thread
        /\ joined' = joined + 1 /\ joined < spawned /\ thread[joined + 1] = "ended"
        /\ tpc = "join"
    BY <1>5 DEF Threads!Join, Threads!Joinable
  <2>2. joined \in Nat /\ spawned \in Nat
    BY DEF ThreadsInv, Threads!TypeOK
  <2>3. Threads!TypeOK'
    BY <1>2, <2>1, <2>2 DEF ThreadsInv, Threads!TypeOK
  <2>4. \A r \in 1 .. joined' : thread'[r] = "ended"
    BY <2>1, <2>2 DEF ThreadsInv
  <2> QED BY <2>1, <2>3, <2>4 DEF ThreadsInv
<1>6. ASSUME NEW r \in Threads!Request, Threads!ThreadStep(r) PROVE ThreadsInv'
  <2>1. PICK s \in {"waiting", "ended"} :
          /\ thread' = [thread EXCEPT ![r] = s]
          /\ thread[r] \in {"connecting", "waiting"}
          /\ tpc' = tpc /\ spawned' = spawned /\ joined' = joined
    BY <1>6 DEF Threads!ThreadStep, Threads!SendRequest, Threads!Receive, Threads!Fail
  <2>2. /\ thread' \in [Threads!Request -> {"unborn", "connecting", "waiting", "ended"}]
        /\ \A u \in Threads!Request : thread'[u] = IF u = r THEN s ELSE thread[u]
    BY <2>1 DEF ThreadsInv, Threads!TypeOK
  <2>3. Threads!Live' \subseteq Threads!Live
    BY <2>1, <2>2 DEF Threads!Live
  <2>4. Cardinality(Threads!Live') <= MaxThreads
    <3>1. /\ IsFiniteSet(Threads!Live')
          /\ Cardinality(Threads!Live') <= Cardinality(Threads!Live)
      BY <1>1, <2>3, FS_Subset
    <3>2. Cardinality(Threads!Live') \in Nat /\ Cardinality(Threads!Live) \in Nat
      BY <1>1, <3>1, FS_CardinalityType
    <3>3. Cardinality(Threads!Live) <= MaxThreads
      BY SameCardinality DEF ThreadsInv, Threads!TypeOK
    <3> QED BY <3>1, <3>2, <3>3
  <2>5. Threads!TypeOK'
    BY <2>1, <2>2, <2>4, SameCardinality DEF ThreadsInv, Threads!TypeOK
  <2>6. \A u \in 1 .. joined : u \in Threads!Request /\ thread[u] = "ended"
    BY DEF ThreadsInv, Threads!TypeOK, Threads!Request
  <2> QED BY <2>1, <2>2, <2>5, <2>6 DEF ThreadsInv
<1> QED
  BY <1>3, <1>4, <1>5, <1>6
  DEF Threads!Next, Threads!FunctionStep, Threads!Over, Threads!vars, threadVars

\* All threads are joined when the last one is, and joined means ended.
LEMMA ThreadsAnnounced == ThreadsInv => Threads!AnnouncedMeansEnded
BY DEF ThreadsInv, Threads!TypeOK, Threads!AnnouncedMeansEnded, Threads!Request

-----------------------------------------------------------------------------
(***************************************************************************)
(* fast_client.cxx.                                                        *)
(***************************************************************************)

\* The products that pacing needs.
LEMMA Products ==
  ASSUME NEW n \in Nat, NEW a \in Nat, NEW b \in Nat, a <= b
  PROVE  /\ n * a \in Nat /\ n * b \in Nat
         /\ n * (a + 1) = n * a + n
         /\ n * (a + 0) = n * a
         /\ n * a <= n * b
<1>1. PICK c \in Nat : b = a + c
  <2>1. b - a \in Nat /\ b = a + (b - a)
    OBVIOUS
  <2> QED BY <2>1
<1>2. n * a \in Nat /\ n * b \in Nat /\ n * c \in Nat
  OBVIOUS
<1>3. n * b = n * a + n * c
  BY <1>1
<1> QED BY <1>2, <1>3

\* Before curl_global_init nothing has been started (fast_client.cxx:60-67,101).
LEMMA ClientInit == Client!Init => ClientInv
<1> SUFFICES ASSUME Client!Init PROVE ClientInv
  OBVIOUS
<1> USE SendersAssumption DEF Client!ClientAssumption, Client!Init
<1>1. Client!TypeOK
  BY DEF Client!TypeOK
<1>2. Client!Running = {}
  BY DEF Client!Running
<1>3. Launched /\ Finishing /\ Rested /\ Paced
  BY <1>2 DEF Launched, Finishing, Rested, Paced, Client!Request
<1> QED BY <1>1, <1>3 DEF ClientInv

\* Steps of main that start no request and keep the ages (fast_client.cxx:67-107).
LEMMA ClientQuiet ==
  ASSUME ClientInv, UNCHANGED <<request_counter, state, age, maxThreads>>
  PROVE  Client!Running' = Client!Running
BY DEF Client!Running

\* Every step of main, of the request threads and of the clock.
LEMMA ClientNext == ClientInv /\ [Client!Next]_clientVars => ClientInv'
<1> SUFFICES ASSUME ClientInv, [Client!Next]_clientVars PROVE ClientInv'
  OBVIOUS
<1> USE SendersAssumption DEF Client!ClientAssumption
<1>1. CASE Client!GlobalInit \/ Client!EndBatch \/ Client!EndSleep \/ Client!LaunchThrows
           \/ Client!EndLoop \/ UNCHANGED clientVars
  <2> USE DEF Client!GlobalInit, Client!EndBatch, Client!EndSleep, Client!LaunchThrows,
              Client!EndLoop, clientVars
  <2>1. UNCHANGED <<request_counter, turn, elapsed, state, age, futures, maxThreads>>
    BY <1>1
  <2>2. Client!Running' = Client!Running
    BY <2>1, ClientQuiet
  <2>3. Client!TypeOK'
    BY <1>1, <2>1 DEF ClientInv, Client!TypeOK
  <2>4. Launched' /\ Paced'
    BY <2>1, <2>2 DEF ClientInv, Launched, Paced
  <2>5. Finishing'
    BY <1>1, <2>1, <2>2 DEF ClientInv, Client!TypeOK, Finishing
  <2>6. Rested'
    BY <1>1, <2>1 DEF ClientInv, Client!TypeOK, Rested, Client!SecondOver
  <2> QED BY <2>3, <2>4, <2>5, <2>6 DEF ClientInv
<1>2. CASE Client!Clean \/ Client!WaitAll \/ Client!GlobalCleanup
  <2> USE DEF Client!Clean, Client!WaitAll, Client!GlobalCleanup
  <2>1. UNCHANGED <<request_counter, turn, elapsed, state, age, maxThreads>>
    BY <1>2
  <2>2. Client!Running' = Client!Running
    BY <2>1, ClientQuiet
  <2>3. Client!TypeOK'
    BY <1>2, <2>1 DEF ClientInv, Client!TypeOK
  <2>4. Client!Running \subseteq futures'
    BY <1>2 DEF ClientInv, Launched, Client!Running
  <2>5. Launched' /\ Paced'
    BY <2>1, <2>2, <2>4 DEF ClientInv, Launched, Paced
  <2>6. Finishing'
    BY <1>2, <2>1, <2>2 DEF ClientInv, Client!TypeOK, Finishing, Launched, Client!Running
  <2>7. Rested'
    BY <1>2, <2>1 DEF ClientInv, Client!TypeOK, Rested
  <2> QED BY <2>3, <2>5, <2>6, <2>7 DEF ClientInv
<1>3. CASE Client!BeginBatch
  <2>1. /\ UNCHANGED <<request_counter, state, age, futures, curl, maxThreads>>
        /\ cpc = "loop" /\ cpc' = "batch" /\ turn' = 0 /\ elapsed' = 0
    BY <1>3 DEF Client!BeginBatch, Client!FirstTurn
  <2>2. Client!Running' = Client!Running
    BY <2>1, ClientQuiet
  <2>3. Client!TypeOK'
    BY <2>1 DEF ClientInv, Client!TypeOK
  <2>4. Launched' /\ Finishing' /\ Rested'
    BY <2>1, <2>2 DEF ClientInv, Client!TypeOK, Launched, Finishing, Rested
  <2>5. Paced'
    <3> SUFFICES ASSUME NEW r \in Client!Running
                 PROVE  request_counter - r <= 0 + REQUESTS_PER_SECOND * (age[r] + (1 - 0))
      BY <2>1, <2>2 DEF Paced
    <3>1. /\ r \in Nat /\ request_counter \in Nat /\ age[r] \in Nat
          /\ turn \in 0 .. REQUESTS_PER_SECOND
      BY DEF ClientInv, Client!TypeOK, Client!Running, Client!Request
    <3>2. request_counter > 0
      BY <3>1 DEF ClientInv, Launched, Client!Running
    <3>3. elapsed = 1
      BY <2>1, <3>2 DEF ClientInv, Rested
    <3>4. request_counter - r <= turn + REQUESTS_PER_SECOND * (age[r] + 0)
      BY <3>3 DEF ClientInv, Paced
    <3>5. REQUESTS_PER_SECOND * (age[r] + 1) = REQUESTS_PER_SECOND * (age[r] + 0) + REQUESTS_PER_SECOND
          /\ REQUESTS_PER_SECOND * (age[r] + 0) \in Nat
      BY <3>1, Products
    <3> QED BY <3>1, <3>4, <3>5
  <2> QED BY <2>3, <2>4, <2>5 DEF ClientInv
<1>4. CASE Client!Launch
  <2>1. /\ UNCHANGED <<cpc, elapsed, age, curl, maxThreads>>
        /\ cpc = "batch" /\ turn < REQUESTS_PER_SECOND /\ request_counter < TOTAL_REQUESTS
        /\ state' = [state EXCEPT ![request_counter] = "running"]
        /\ futures' = futures \cup {request_counter}
        /\ request_counter' = request_counter + 1
        /\ turn' = turn + 1
    BY <1>4 DEF Client!Launch, Client!InBatch, Client!Keep
  <2>2. request_counter \in Client!Request /\ request_counter \in Nat /\ turn \in Nat
    BY <2>1 DEF ClientInv, Client!TypeOK, Client!Request
  <2>3. \A r \in Client!Request : state'[r] = IF r = request_counter THEN "running" ELSE state[r]
    BY <2>1 DEF ClientInv, Client!TypeOK
  <2>4. Client!Running' = Client!Running \cup {request_counter}
    BY <2>2, <2>3 DEF Client!Running
  <2>5. Client!TypeOK'
    BY <2>1, <2>2 DEF ClientInv, Client!TypeOK, Client!Request
  <2>6. Launched'
    BY <2>1, <2>2, <2>3, <2>4 DEF ClientInv, Launched, Client!Request
  <2>7. Finishing' /\ Rested'
    BY <2>1 DEF ClientInv, Client!TypeOK, Finishing, Rested
  <2>8. Paced'
    <3> SUFFICES ASSUME NEW r \in Client!Running'
                 PROVE  (request_counter + 1) - r
                          <= (turn + 1) + REQUESTS_PER_SECOND * (age[r] + (1 - elapsed))
      BY <2>1 DEF Paced
    <3>1. r \in Nat /\ age[r] + (1 - elapsed) \in Nat
      BY <2>2, <2>4 DEF ClientInv, Client!TypeOK, Client!Running, Client!Request
    <3>2. REQUESTS_PER_SECOND * (age[r] + (1 - elapsed)) \in Nat
      BY <3>1, Products
    <3>3. CASE r \in Client!Running
      BY <2>2, <3>1, <3>2, <3>3 DEF ClientInv, Paced
    <3>4. CASE r = request_counter
      BY <2>2, <3>2, <3>4
    <3> QED BY <2>4, <3>3, <3>4
  <2> QED BY <2>5, <2>6, <2>7, <2>8 DEF ClientInv
<1>5. ASSUME NEW q \in Client!Request, Client!RequestEnds(q) PROVE ClientInv'
  <2>1. /\ UNCHANGED <<cpc, request_counter, turn, elapsed, futures, curl, maxThreads>>
        /\ state[q] = "running"
        /\ \A r \in Client!Request : state'[r] = IF r = q THEN "ended" ELSE state[r]
        /\ \A r \in Client!Request : age'[r] = IF r = q THEN 0 ELSE age[r]
    BY <1>5 DEF Client!RequestEnds, ClientInv, Client!TypeOK
  <2>2. Client!Running' = Client!Running \ {q}
    BY <2>1 DEF Client!Running
  <2>3. Client!TypeOK'
    BY <1>5 DEF Client!RequestEnds, ClientInv, Client!TypeOK
  <2>4. Launched' /\ Finishing' /\ Rested'
    BY <2>1, <2>2 DEF ClientInv, Client!TypeOK, Launched, Finishing, Rested
  <2>5. Paced'
    BY <2>1, <2>2 DEF ClientInv, Paced, Client!Running
  <2> QED BY <2>3, <2>4, <2>5 DEF ClientInv
<1>6. CASE Client!Tick
  <2>1. /\ UNCHANGED <<cpc, request_counter, turn, state, futures, curl, maxThreads>>
        /\ \A r \in Client!Running : age[r] < Timeout
        /\ age' = [r \in Client!Request |-> IF r \in Client!Running THEN age[r] + 1 ELSE age[r]]
        /\ elapsed' = 1
    BY <1>6 DEF Client!Tick
  <2>2. Client!Running' = Client!Running
    BY <2>1 DEF Client!Running
  <2>3. Client!TypeOK'
    <3>1. age' \in [Client!Request -> 0 .. Timeout]
      BY <2>1 DEF ClientInv, Client!TypeOK
    <3> QED BY <2>1, <3>1 DEF ClientInv, Client!TypeOK
  <2>4. Launched' /\ Finishing' /\ Rested'
    BY <2>1, <2>2 DEF ClientInv, Client!TypeOK, Launched, Finishing, Rested
  <2>5. Paced'
    <3> SUFFICES ASSUME NEW r \in Client!Running
                 PROVE  request_counter - r
                          <= turn + REQUESTS_PER_SECOND * (age'[r] + (1 - 1))
      BY <2>1, <2>2 DEF Paced
    <3>1. /\ r \in Client!Request /\ r \in Nat /\ request_counter \in Nat /\ turn \in Nat
          /\ age[r] \in Nat /\ elapsed \in 0 .. 1
      BY DEF ClientInv, Client!TypeOK, Client!Running, Client!Request
    <3>2. age'[r] = age[r] + 1
      BY <2>1, <3>1
    <3>3. /\ age[r] + (1 - elapsed) \in Nat /\ age[r] + 1 \in Nat
          /\ age[r] + (1 - elapsed) <= age[r] + 1
          /\ age'[r] + (1 - 1) = age[r] + 1
      BY <3>1, <3>2
    <3>4. /\ REQUESTS_PER_SECOND * (age[r] + (1 - elapsed)) \in Nat
          /\ REQUESTS_PER_SECOND * (age[r] + 1) \in Nat
          /\ REQUESTS_PER_SECOND * (age[r] + (1 - elapsed)) <= REQUESTS_PER_SECOND * (age[r] + 1)
      BY <3>3, Products
    <3>5. request_counter - r <= turn + REQUESTS_PER_SECOND * (age[r] + (1 - elapsed))
      BY DEF ClientInv, Paced
    <3>6. request_counter - r <= turn + REQUESTS_PER_SECOND * (age[r] + 1)
      BY <3>1, <3>4, <3>5
    <3> QED BY <3>3, <3>6
  <2> QED BY <2>3, <2>4, <2>5 DEF ClientInv
<1> QED
  BY <1>1, <1>2, <1>3, <1>4, <1>5, <1>6
  DEF Client!Next, Client!MainStep, Client!Terminated, Client!vars, clientVars

\* Nothing runs any more and nothing is left to start.
LEMMA ClientCleanup == ClientInv => Client!CleanupLast
<1> SUFFICES ASSUME ClientInv, curl = "cleaned", NEW r \in Client!Request
             PROVE  state[r] = "ended"
  BY DEF Client!CleanupLast
<1>1. request_counter = TOTAL_REQUESTS /\ Client!Running = {}
  BY DEF ClientInv, Finishing
<1>2. state[r] # "unborn"
  BY <1>1, SendersAssumption DEF ClientInv, Launched, Client!Request, Client!ClientAssumption
<1>3. state[r] # "running"
  BY <1>1 DEF Client!Running
<1> QED BY <1>2, <1>3 DEF ClientInv, Client!TypeOK

\* All that runs lies in an interval of that many numbers below the counter.
LEMMA ClientBounded == ClientInv => Client!InFlightBounded
<1> SUFFICES ASSUME ClientInv
             PROVE  Cardinality(Client!Running) <= REQUESTS_PER_SECOND * (Timeout + 2)
  BY SameCardinality DEF Client!InFlightBounded
<1> USE SendersAssumption DEF Client!ClientAssumption
<1> DEFINE B == REQUESTS_PER_SECOND * (Timeout + 2)
<1>1. /\ B = REQUESTS_PER_SECOND * (Timeout + 1) + REQUESTS_PER_SECOND
      /\ B \in Nat /\ REQUESTS_PER_SECOND * (Timeout + 1) \in Nat
  <2>1. Timeout + 1 \in Nat /\ Timeout + 2 \in Nat /\ Timeout + 2 = (Timeout + 1) + 1
    OBVIOUS
  <2> QED BY <2>1, Products
<1> HIDE DEF B
<1>2. request_counter \in Nat
  BY DEF ClientInv, Client!TypeOK
<1>3. Client!Running \subseteq (request_counter - B) .. (request_counter - 1)
  <2> SUFFICES ASSUME NEW r \in Client!Running
               PROVE  r \in (request_counter - B) .. (request_counter - 1)
    OBVIOUS
  <2>1. /\ r \in Nat /\ age[r] \in 0 .. Timeout /\ elapsed \in 0 .. 1
        /\ turn \in 0 .. REQUESTS_PER_SECOND
    BY DEF ClientInv, Client!TypeOK, Client!Running, Client!Request
  <2>2. /\ age[r] + (1 - elapsed) \in Nat /\ Timeout + 1 \in Nat
        /\ age[r] + (1 - elapsed) <= Timeout + 1
    BY <2>1
  <2>3. /\ REQUESTS_PER_SECOND * (age[r] + (1 - elapsed)) \in Nat
        /\ REQUESTS_PER_SECOND * (age[r] + (1 - elapsed)) <= REQUESTS_PER_SECOND * (Timeout + 1)
    BY <2>2, Products
  <2>4. request_counter - r <= turn + REQUESTS_PER_SECOND * (age[r] + (1 - elapsed))
    BY DEF ClientInv, Paced
  <2>5. request_counter - r <= B
    BY <1>1, <1>2, <2>1, <2>3, <2>4
  <2>6. r < request_counter
    BY <1>2, <2>1 DEF ClientInv, Launched, Client!Running
  <2> QED BY <1>1, <1>2, <2>1, <2>5, <2>6
<1>4. /\ IsFiniteSet((request_counter - B) .. (request_counter - 1))
      /\ Cardinality((request_counter - B) .. (request_counter - 1)) = B
  <2>1. request_counter - B \in Int /\ request_counter - 1 \in Int
    BY <1>1, <1>2
  <2>2. (request_counter - 1) - (request_counter - B) + 1 = B
    BY <1>1, <1>2
  <2>3. CASE B = 0
    <3>1. (request_counter - B) .. (request_counter - 1) = {}
      BY <1>2, <2>3
    <3> QED BY <2>3, <3>1, FS_EmptySet
  <2>4. CASE B # 0
    <3>1. request_counter - B <= request_counter - 1
      BY <1>1, <1>2, <2>4
    <3> QED BY <2>1, <2>2, <3>1, FS_Interval
  <2> QED BY <2>3, <2>4
<1>5. Cardinality(Client!Running) <= Cardinality((request_counter - B) .. (request_counter - 1))
  BY <1>3, <1>4, FS_Subset
<1> QED BY <1>4, <1>5 DEF B

-----------------------------------------------------------------------------
(***************************************************************************)
(* The three senders together.                                             *)
(***************************************************************************)

\* Each sender starts in its invariant, whichever of them runs.
LEMMA SendersInitInv == SendersInit => SendersInv
BY InitIndInv, ThreadsInit, ClientInit DEF SendersInit, SendersInv

\* A step of the group is a step or a stutter of each sender.
LEMMA SendersNextInv == SendersInv /\ [SendersNext]_sendersVars => SendersInv'
<1> SUFFICES ASSUME SendersInv, [SendersNext]_sendersVars PROVE SendersInv'
  OBVIOUS
<1>1. [Next]_vars /\ [Threads!Next]_threadVars /\ [Client!Next]_clientVars
  BY DEF SendersNext, Idle, sendersVars
<1> QED BY <1>1, NextIndInv, ThreadsNext, ClientNext DEF SendersInv

\* The invariant of every sender holds in every behaviour of the group.
THEOREM SendersInvariance == SendersSpec => []SendersInv
BY SendersInitInv, SendersNextInv, PTL DEF SendersSpec

\* The variables keep their types for any bounds: rate2.cxx never runs more
\* threads than the system grants, and no batch counter runs over.
THEOREM SendersTypeCorrect == SendersSpec => []SendersTypeOK
<1>1. SendersInv => SendersTypeOK
  BY DEF SendersInv, IndInv, ThreadsInv, ClientInv, SendersTypeOK
<1> QED BY <1>1, SendersInvariance, PTL

\* "All requests processed." (test.cxx:70), "All requests sent in: "
\* (rate2.cxx:63) and curl_global_cleanup (fast_client.cxx:107) come after the
\* last request, for any number of requests and any outcome of each.
THEOREM LastWordsTrue == SendersSpec => []LastMeansAll
<1>1. SendersInv => LastMeansAll
  BY IndInvProcessed, ThreadsAnnounced, ClientCleanup DEF SendersInv, LastMeansAll
<1> QED BY <1>1, SendersInvariance, PTL

\* Pacing and timeout bound the requests in flight by REQUESTS_PER_SECOND *
\* (Timeout + 2), whatever these are and however long the launching takes
\* (fast_client.cxx:35,82-84).
THEOREM LoadBounded == SendersSpec => []InFlightBounded
<1>1. SendersInv => InFlightBounded
  BY ClientBounded DEF SendersInv, InFlightBounded
<1> QED BY <1>1, SendersInvariance, PTL

=============================================================================
