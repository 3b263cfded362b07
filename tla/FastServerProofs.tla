-------------------------- MODULE FastServerProofs --------------------------
(***************************************************************************)
(* The ownership of sockets in FastServer for every set of connections,    *)
(* any pool and any limit on sockets.  A socket passes from the acceptor   *)
(* to the queue of the pool and from there to one thread; that no other    *)
(* part has it meanwhile needs to know that a connection waits to be       *)
(* accepted once and has no socket before that.                            *)
(***************************************************************************)
EXTENDS FastServer, SequenceTheorems, FiniteSetTheorems, TLAPS

\* A connection waits once, after its client has come, and has no socket yet.
BacklogSound ==
  /\ \A k \in 1 .. Len(backlog) :
       socket[backlog[k]] = "none" /\ client[backlog[k]] # "absent"
  /\ \A j, k \in 1 .. Len(backlog) : backlog[j] = backlog[k] => j = k
  /\ \A c \in Conn : client[c] = "absent" => socket[c] = "none"

\* A pool thread has a connection exactly while it runs a handler.
HandlersBusy == \A w \in Worker : wpc[w] = "idle" <=> handling[w] = NoConn

\* What the acceptor, the queue and the threads own is open.
OwnedOpen ==
  /\ accepting # NoConn => socket[accepting] = "open"
  /\ \A k \in 1 .. Len(poolQueue) : socket[poolQueue[k]] = "open"
  /\ \A w \in Worker : handling[w] # NoConn => socket[handling[w]] = "open"

\* No two of them own the same connection.
OwnersApart ==
  /\ \A k \in 1 .. Len(poolQueue) :
       poolQueue[k] # accepting /\ \A w \in Worker : handling[w] # poolQueue[k]
  /\ \A j, k \in 1 .. Len(poolQueue) : poolQueue[j] = poolQueue[k] => j = k
  /\ \A w \in Worker : handling[w] # NoConn =>
       /\ handling[w] # accepting
       /\ \A v \in Worker : handling[v] = handling[w] => v = w

\* What is open is owned.
OpenOwned ==
  \A c \in Conn : socket[c] = "open" =>
    \/ accepting = c
    \/ \E k \in 1 .. Len(poolQueue) : poolQueue[k] = c
    \/ \E w \in Worker : handling[w] = c

IndInv ==
  /\ TypeOK
  /\ IsFiniteSet(Open)
  /\ BacklogSound
  /\ HandlersBusy
  /\ OwnedOpen
  /\ OwnersApart
  /\ OpenOwned

-----------------------------------------------------------------------------
(***************************************************************************)
(* Queues and the set of open sockets.                                     *)
(***************************************************************************)

\* Positions after an element has been appended.
LEMMA Appended ==
  ASSUME NEW S, NEW q \in Seq(S), NEW e \in S
  PROVE  /\ Append(q, e) \in Seq(S)
         /\ Len(q) \in Nat
         /\ Len(Append(q, e)) = Len(q) + 1
         /\ \A k \in 1 .. Len(q) : Append(q, e)[k] = q[k] /\ q[k] \in S
         /\ Append(q, e)[Len(q) + 1] = e
BY AppendProperties, LenProperties

\* Positions after the first element has been taken.
LEMMA Taken ==
  ASSUME NEW S, NEW q \in Seq(S), q # <<>>
  PROVE  /\ Tail(q) \in Seq(S)
         /\ Len(q) \in Nat \ {0}
         /\ Len(Tail(q)) = Len(q) - 1
         /\ \A k \in 1 .. Len(q) - 1 : Tail(q)[k] = q[k + 1]
         /\ \A k \in 1 .. Len(q) : q[k] \in S
         /\ Head(q) = q[1]
         /\ Head(q) \in S
BY HeadTailProperties, EmptySeq, LenProperties

\* The elements of a sequence.
LEMMA Elements ==
  ASSUME NEW S, NEW q \in Seq(S)
  PROVE  Len(q) \in Nat /\ DOMAIN q = 1 .. Len(q) /\ \A k \in 1 .. Len(q) : q[k] \in S
BY LenProperties

\* Opening a socket while one is left keeps the limit.
LEMMA OpenOne ==
  ASSUME TypeOK, IsFiniteSet(Open), NEW c \in Conn, socket[c] # "open",
         Cardinality(Open) < maxSockets,
         socket' = [socket EXCEPT ![c] = "open"], maxSockets' = maxSockets
  PROVE  IsFiniteSet(Open') /\ Cardinality(Open') <= maxSockets'
<1>1. Open' = Open \cup {c} /\ c \notin Open
  BY DEF Open, TypeOK
<1>2. IsFiniteSet(Open') /\ Cardinality(Open') = Cardinality(Open) + 1
  BY <1>1, FS_AddElement
<1>3. Cardinality(Open) \in Nat /\ maxSockets \in Nat
  BY FS_CardinalityType, ServerAssumption DEF TypeOK
<1> QED BY <1>2, <1>3

\* Closing one does too.
LEMMA CloseOne ==
  ASSUME TypeOK, IsFiniteSet(Open), NEW c \in Conn,
         socket' = [socket EXCEPT ![c] = "closed"], maxSockets' = maxSockets
  PROVE  IsFiniteSet(Open') /\ Cardinality(Open') <= maxSockets'
<1>1. Open' \subseteq Open
  BY DEF Open, TypeOK
<1>2. IsFiniteSet(Open') /\ Cardinality(Open') <= Cardinality(Open)
  BY <1>1, FS_Subset
<1>3. Cardinality(Open) \in Nat /\ Cardinality(Open') \in Nat /\ maxSockets \in Nat
  BY <1>2, FS_CardinalityType, ServerAssumption DEF TypeOK
<1> QED BY <1>2, <1>3 DEF TypeOK

-----------------------------------------------------------------------------
(***************************************************************************)
(* IndInv is an inductive invariant.                                       *)
(***************************************************************************)

\* A server that has just started owns nothing (fast_server.cxx:42-45).
LEMMA InitIndInv == Init => IndInv
<1> SUFFICES ASSUME Init PROVE IndInv
  OBVIOUS
<1> USE ServerAssumption DEF Init
<1>1. Open = {} /\ IsFiniteSet(Open) /\ Cardinality(Open) = 0
  <2>1. Open = {}
    BY DEF Open
  <2> QED BY <2>1, FS_EmptySet
<1>2. <<>> \in Seq(Conn) /\ Len(<<>>) = 0
  BY EmptySeq
<1>3. maxSockets \in Nat
  OBVIOUS
<1>4. TypeOK
  <2>1. /\ sent \in [Conn -> BOOLEAN] /\ answered \in [Conn -> BOOLEAN]
        /\ terminated \in BOOLEAN
    OBVIOUS
  <2>2. Cardinality(Open) <= maxSockets
    BY <1>1, <1>3
  <2> QED BY <1>2, <2>1, <2>2 DEF TypeOK
<1>5. BacklogSound /\ HandlersBusy /\ OwnedOpen /\ OwnersApart /\ OpenOwned
  BY <1>2 DEF BacklogSound, HandlersBusy, OwnedOpen, OwnersApart, OpenOwned
<1> QED BY <1>1, <1>4, <1>5 DEF IndInv

\* Steps that leave sockets and owners alone keep what is said of them.
LEMMA SameOwners ==
  ASSUME IndInv, UNCHANGED <<accepting, poolQueue, handling, socket, maxSockets>>
  PROVE  /\ IsFiniteSet(Open') /\ Cardinality(Open') <= maxSockets'
         /\ OwnedOpen' /\ OwnersApart' /\ OpenOwned'
BY DEF IndInv, TypeOK, Open, OwnedOpen, OwnersApart, OpenOwned

\* Every step of a client, the acceptor or a thread keeps the invariant
\* (fast_server.cxx:20-55).
LEMMA NextIndInv == IndInv /\ [Next]_vars => IndInv'
<1> SUFFICES ASSUME IndInv, [Next]_vars PROVE IndInv'
  OBVIOUS
<1> USE ServerAssumption DEF environment
<1>1. ASSUME NEW c \in Conn, Connect(c) PROVE IndInv'
  <2> USE <1>1 DEF Connect
  <2>1. /\ backlog' \in Seq(Conn)
        /\ Len(backlog) \in Nat
        /\ Len(backlog') = Len(backlog) + 1
        /\ \A k \in 1 .. Len(backlog) : backlog'[k] = backlog[k] /\ backlog[k] \in Conn
        /\ backlog'[Len(backlog) + 1] = c
    BY Appended DEF IndInv, TypeOK
  <2>2. TypeOK'
    <3>1. client' \in [Conn -> {"absent", "connected", "gone"}]
      BY DEF IndInv, TypeOK
    <3>2. Cardinality(Open') <= maxSockets'
      BY SameOwners DEF IndInv
    <3> QED BY <2>1, <3>1, <3>2 DEF IndInv, TypeOK
  <2>3. BacklogSound'
    <3>1. \A d \in Conn : client'[d] = IF d = c THEN "connected" ELSE client[d]
      BY DEF IndInv, TypeOK
    <3>2. socket[c] = "none" /\ \A k \in 1 .. Len(backlog) : backlog[k] # c
      BY DEF IndInv, BacklogSound
    <3>3. ASSUME NEW k \in 1 .. Len(backlog) + 1
          PROVE  socket[backlog'[k]] = "none" /\ client'[backlog'[k]] # "absent"
      BY <2>1, <3>1, <3>2 DEF IndInv, BacklogSound
    <3>4. ASSUME NEW j \in 1 .. Len(backlog) + 1, NEW k \in 1 .. Len(backlog) + 1,
                 backlog'[j] = backlog'[k]
          PROVE  j = k
      BY <2>1, <3>2, <3>4 DEF IndInv, BacklogSound
    <3>5. \A d \in Conn : client'[d] = "absent" => socket[d] = "none"
      BY <3>1 DEF IndInv, BacklogSound
    <3> QED BY <2>1, <3>3, <3>4, <3>5 DEF BacklogSound
  <2>4. HandlersBusy'
    BY DEF IndInv, HandlersBusy
  <2> QED BY <2>2, <2>3, <2>4, SameOwners DEF IndInv
<1>2. ASSUME NEW c \in Conn, Send(c) \/ GoAway(c) PROVE IndInv'
  <2> USE <1>2 DEF Send, GoAway
  <2>1. TypeOK'
    <3>1. client' \in [Conn -> {"absent", "connected", "gone"}]
      BY DEF IndInv, TypeOK
    <3>2. sent' \in [Conn -> BOOLEAN]
      BY DEF IndInv, TypeOK
    <3>3. Cardinality(Open') <= maxSockets'
      BY SameOwners DEF IndInv
    <3>4. UNCHANGED <<answered, backlog, accepting, poolQueue, handling, wpc, socket,
                      terminated, silent, maxSockets>>
      OBVIOUS
    <3> HIDE <1>2
    <3> QED BY <3>1, <3>2, <3>3, <3>4 DEF IndInv, TypeOK
  <2>2. BacklogSound'
    BY Elements DEF IndInv, TypeOK, BacklogSound
  <2>3. HandlersBusy'
    BY DEF IndInv, HandlersBusy
  <2> QED BY <2>1, <2>2, <2>3, SameOwners DEF IndInv
<1>3. ASSUME Accept PROVE IndInv'
  <2> USE <1>3 DEF Accept
  <2> DEFINE c == Head(backlog)
             n == Len(backlog)
  <2>1. /\ backlog' \in Seq(Conn)
        /\ n \in Nat \ {0}
        /\ Len(backlog') = n - 1
        /\ \A k \in 1 .. n - 1 : backlog'[k] = backlog[k + 1]
        /\ \A k \in 1 .. n : backlog[k] \in Conn
        /\ c = backlog[1]
        /\ c \in Conn
    BY Taken DEF IndInv, TypeOK
  <2>2. socket[c] = "none" /\ client[c] # "absent"
    BY <2>1 DEF IndInv, BacklogSound
  <2>3. accepting' = c /\ socket' = [socket EXCEPT ![c] = "open"]
    OBVIOUS
  <2> HIDE DEF c, n
  <2>4. IsFiniteSet(Open') /\ Cardinality(Open') <= maxSockets'
    BY <2>1, <2>2, <2>3, OpenOne DEF IndInv, DescriptorLeft
  <2>5. TypeOK'
    BY <2>1, <2>3, <2>4 DEF IndInv, TypeOK
  <2>6. \A d \in Conn : socket'[d] = IF d = c THEN "open" ELSE socket[d]
    BY <2>3 DEF IndInv, TypeOK
  <2>7. BacklogSound'
    <3>1. \A k \in 1 .. n - 1 : k + 1 \in 1 .. n /\ backlog'[k] # c
      BY <2>1 DEF IndInv, BacklogSound, n
    <3> QED BY <2>1, <2>2, <2>6, <3>1 DEF IndInv, BacklogSound, n
  <2>8. HandlersBusy'
    BY DEF IndInv, HandlersBusy
  <2>9. OwnedOpen' /\ OwnersApart'
    BY <2>1, <2>2, <2>3, <2>6, Elements DEF IndInv, TypeOK, OwnedOpen, OwnersApart
  <2>10. OpenOwned'
    BY <2>3, <2>6 DEF IndInv, TypeOK, OpenOwned
  <2> QED BY <2>4, <2>5, <2>7, <2>8, <2>9, <2>10 DEF IndInv
<1>4. ASSUME AcceptThrows PROVE IndInv'
  <2> USE <1>4 DEF AcceptThrows
  <2>1. TypeOK'
    BY SameOwners DEF IndInv, TypeOK
  <2>2. BacklogSound' /\ HandlersBusy'
    BY DEF IndInv, BacklogSound, HandlersBusy
  <2> QED BY <2>1, <2>2, SameOwners DEF IndInv
<1>5. ASSUME Post PROVE IndInv'
  <2> USE <1>5 DEF Post, Accepted
  <2> DEFINE n == Len(poolQueue)
  <2>1. accepting \in Conn
    BY DEF IndInv, TypeOK
  <2>2. /\ poolQueue' \in Seq(Conn)
        /\ n \in Nat
        /\ Len(poolQueue') = n + 1
        /\ \A k \in 1 .. n : poolQueue'[k] = poolQueue[k] /\ poolQueue[k] \in Conn
        /\ poolQueue'[n + 1] = accepting
    BY <2>1, Appended DEF IndInv, TypeOK
  <2> HIDE DEF n
  <2>3. IsFiniteSet(Open') /\ TypeOK'
    BY <2>2 DEF IndInv, TypeOK, Open
  <2>4. BacklogSound' /\ HandlersBusy'
    BY DEF IndInv, BacklogSound, HandlersBusy
  <2>5. OwnedOpen'
    BY <2>2 DEF IndInv, OwnedOpen, n
  <2>6. OwnersApart'
    <3>1. /\ \A k \in 1 .. n : poolQueue[k] # accepting
          /\ \A w \in Worker : handling[w] # accepting
      BY <2>1 DEF IndInv, OwnersApart, n
    <3>2. ASSUME NEW k \in 1 .. n + 1
          PROVE  /\ poolQueue'[k] # accepting'
                 /\ \A w \in Worker : handling[w] # poolQueue'[k]
      BY <2>1, <2>2, <3>1 DEF IndInv, OwnersApart, n
    <3>3. ASSUME NEW j \in 1 .. n + 1, NEW k \in 1 .. n + 1, poolQueue'[j] = poolQueue'[k]
          PROVE  j = k
      BY <2>2, <3>1, <3>3 DEF IndInv, OwnersApart, n
    <3>4. ASSUME NEW w \in Worker, handling[w] # NoConn
          PROVE  /\ handling[w] # accepting'
                 /\ \A v \in Worker : handling[v] = handling[w] => v = w
      BY <3>4 DEF IndInv, OwnersApart
    <3> QED BY <2>2, <3>2, <3>3, <3>4 DEF OwnersApart
  <2>7. OpenOwned'
    <3>1. ASSUME NEW c \in Conn, socket[c] = "open", ~\E w \in Worker : handling[w] = c
          PROVE  \E k \in 1 .. n + 1 : poolQueue'[k] = c
      <4>1. CASE accepting = c
        BY <2>2, <4>1
      <4>2. CASE accepting # c
        <5>1. PICK k \in 1 .. n : poolQueue[k] = c
          BY <3>1, <4>2 DEF IndInv, OpenOwned, n
        <5> QED BY <2>2, <5>1
      <4> QED BY <4>1, <4>2
    <3> QED BY <2>2, <3>1 DEF OpenOwned
  <2> QED BY <2>3, <2>4, <2>5, <2>6, <2>7 DEF IndInv
<1>6. ASSUME NEW w \in Worker, Take(w) PROVE IndInv'
  <2> USE <1>6 DEF Take
  <2> DEFINE c == Head(poolQueue)
             n == Len(poolQueue)
  <2>1. /\ poolQueue' \in Seq(Conn)
        /\ n \in Nat \ {0}
        /\ Len(poolQueue') = n - 1
        /\ \A k \in 1 .. n - 1 : poolQueue'[k] = poolQueue[k + 1]
        /\ \A k \in 1 .. n : poolQueue[k] \in Conn
        /\ c = poolQueue[1]
        /\ c \in Conn
    BY Taken DEF IndInv, TypeOK
  <2>2. handling' = [handling EXCEPT ![w] = c]
    OBVIOUS
  <2> HIDE DEF c, n
  <2>3. /\ \A v \in Worker : handling'[v] = IF v = w THEN c ELSE handling[v]
        /\ handling[w] = NoConn
    BY <2>2 DEF IndInv, TypeOK, HandlersBusy
  <2>4. IsFiniteSet(Open') /\ TypeOK'
    BY <2>1, <2>2 DEF IndInv, TypeOK, Open
  <2>5. BacklogSound' /\ HandlersBusy'
    BY <2>1, <2>3 DEF IndInv, TypeOK, BacklogSound, HandlersBusy
  <2>6. \A k \in 1 .. n - 1 : k + 1 \in 1 .. n
    BY <2>1
  <2>7. OwnedOpen'
    BY <2>1, <2>3, <2>6 DEF IndInv, OwnedOpen, n
  <2>8. OwnersApart'
    <3>1. \A k \in 1 .. n - 1 : poolQueue'[k] # c
      BY <2>1, <2>6 DEF IndInv, OwnersApart, n
    <3>2. c # accepting /\ \A v \in Worker : handling[v] # c
      BY <2>1 DEF IndInv, OwnersApart, n
    <3> QED BY <2>1, <2>3, <2>6, <3>1, <3>2 DEF IndInv, TypeOK, OwnersApart, n
  <2>9. OpenOwned'
    <3>1. ASSUME NEW d \in Conn, socket[d] = "open", accepting # d
          PROVE  \/ \E k \in 1 .. n - 1 : poolQueue'[k] = d
                 \/ \E v \in Worker : handling'[v] = d
      <4>1. CASE \E v \in Worker : handling[v] = d
        BY <2>3, <4>1
      <4>2. CASE \E k \in 1 .. n : poolQueue[k] = d
        <5>1. PICK k \in 1 .. n : poolQueue[k] = d
          BY <4>2
        <5>2. CASE k = 1
          BY <2>1, <2>3, <5>1, <5>2
        <5>3. CASE k # 1
          <6>1. k - 1 \in 1 .. n - 1 /\ poolQueue'[k - 1] = d
            BY <2>1, <5>1, <5>3
          <6> QED BY <6>1
        <5> QED BY <5>2, <5>3
      <4> QED BY <3>1, <4>1, <4>2 DEF IndInv, OpenOwned, n
    <3> QED BY <2>1, <3>1 DEF OpenOwned
  <2> QED BY <2>4, <2>5, <2>7, <2>8, <2>9 DEF IndInv
<1>7. ASSUME NEW w \in Worker, Read(w) \/ ReadFails(w) \/ Write(w) PROVE IndInv'
  <2> USE <1>7 DEF Read, ReadFails, Write
  <2>1. handling[w] \in Conn
    BY DEF IndInv, TypeOK, HandlersBusy
  <2>2. TypeOK'
    <3>1. wpc' \in [Worker -> {"idle", "read", "write", "shutdown"}]
      BY DEF IndInv, TypeOK
    <3>2. answered' \in [Conn -> BOOLEAN]
      BY <2>1 DEF IndInv, TypeOK
    <3>3. Cardinality(Open') <= maxSockets'
      BY SameOwners DEF IndInv
    <3>4. UNCHANGED <<client, sent, backlog, accepting, poolQueue, handling, socket,
                      terminated, silent, maxSockets>>
      OBVIOUS
    <3> HIDE <1>7
    <3> QED BY <3>1, <3>2, <3>3, <3>4 DEF IndInv, TypeOK
  <2>3. BacklogSound' /\ HandlersBusy'
    BY DEF IndInv, TypeOK, BacklogSound, HandlersBusy
  <2> QED BY <2>2, <2>3, SameOwners DEF IndInv
<1>8. ASSUME NEW w \in Worker, ShutdownAndClose(w) \/ ShutdownThrows(w) PROVE IndInv'
  <2> USE <1>8 DEF ShutdownAndClose, ShutdownThrows, LastOwnerCloses, Return, Uncaught
  <2> DEFINE c == handling[w]
  <2>1. c \in Conn /\ c # NoConn
    BY DEF IndInv, TypeOK, HandlersBusy
  <2>2. socket' = [socket EXCEPT ![c] = "closed"] /\ socket[c] = "open"
    BY <2>1 DEF IndInv, OwnedOpen
  <2>3. IsFiniteSet(Open') /\ Cardinality(Open') <= maxSockets'
    BY <2>1, <2>2, CloseOne DEF IndInv
  <2>4. TypeOK'
    <3>1. /\ handling' \in [Worker -> Conn \cup {NoConn}]
          /\ wpc' \in [Worker -> {"idle", "read", "write", "shutdown"}]
      BY DEF IndInv, TypeOK
    <3>2. socket' \in [Conn -> {"none", "open", "closed"}]
      BY <2>2 DEF IndInv, TypeOK
    <3>3. terminated' \in BOOLEAN
      BY DEF IndInv, TypeOK
    <3>4. UNCHANGED <<client, sent, answered, backlog, accepting, poolQueue, silent, maxSockets>>
      OBVIOUS
    <3> HIDE <1>8
    <3> QED BY <2>3, <3>1, <3>2, <3>3, <3>4 DEF IndInv, TypeOK
  <2>5. /\ \A d \in Conn : socket'[d] = IF d = c THEN "closed" ELSE socket[d]
        /\ \A v \in Worker : handling'[v] = IF v = w THEN NoConn ELSE handling[v]
        /\ UNCHANGED <<client, backlog, accepting, poolQueue>>
    BY <2>2 DEF IndInv, TypeOK
  <2>6. HandlersBusy'
    BY DEF IndInv, TypeOK, HandlersBusy
  <2>7. /\ \A k \in 1 .. Len(backlog) : backlog[k] \in Conn
        /\ \A k \in 1 .. Len(poolQueue) : poolQueue[k] \in Conn
    BY Elements DEF IndInv, TypeOK
  <2>8. accepting # c /\ \A v \in Worker : v # w => handling[v] # c
    BY <2>1 DEF IndInv, OwnersApart
  <2>9. \A k \in 1 .. Len(poolQueue) : poolQueue[k] # c
    BY DEF IndInv, OwnersApart
  <2> HIDE <1>8
  <2> HIDE DEF c
  <2>10. BacklogSound'
    BY <2>1, <2>2, <2>5, <2>7 DEF IndInv, BacklogSound
  <2>11. OwnedOpen'
    BY <2>5, <2>7, <2>8, <2>9 DEF IndInv, TypeOK, OwnedOpen
  <2>12. OwnersApart'
    BY <2>5, <2>7 DEF IndInv, OwnersApart
  <2>13. OpenOwned'
    BY <2>1, <2>5, <2>8 DEF IndInv, OpenOwned, c
  <2> QED BY <2>3, <2>4, <2>6, <2>10, <2>11, <2>12, <2>13 DEF IndInv
<1>9. CASE UNCHANGED vars
  BY <1>9 DEF vars, IndInv, TypeOK, Open, BacklogSound, HandlersBusy, OwnedOpen,
              OwnersApart, OpenOwned
<1> QED
  BY <1>1, <1>2, <1>3, <1>4, <1>5, <1>6, <1>7, <1>8, <1>9
  DEF Next, ClientStep, AcceptorStep, WorkerStep

-----------------------------------------------------------------------------
\* Owners that are apart and at least one are exactly one.
LEMMA IndInvOneOwner == IndInv => OneOwner
<1> SUFFICES ASSUME IndInv, NEW c \in Conn
             PROVE  IF socket[c] = "open" THEN Cardinality(Owners(c)) = 1
                                          ELSE Owners(c) = {}
  BY DEF OneOwner
<1>1. /\ Len(poolQueue) \in Nat
      /\ DOMAIN poolQueue = 1 .. Len(poolQueue)
  BY Elements DEF IndInv, TypeOK
<1>2. c # NoConn
  BY ServerAssumption
<1>3. CASE socket[c] # "open"
  <2>1. accepting # c /\ \A w \in Worker : handling[w] # c
    BY <1>2, <1>3 DEF IndInv, OwnedOpen
  <2>2. \A k \in DOMAIN poolQueue : poolQueue[k] # c
    BY <1>1, <1>3 DEF IndInv, OwnedOpen
  <2> QED BY <1>3, <2>1, <2>2 DEF Owners
<1>4. ASSUME socket[c] = "open" PROVE \E o : Owners(c) = {o}
  <2>1. CASE accepting = c
    <3>1. /\ \A k \in DOMAIN poolQueue : poolQueue[k] # c
          /\ \A w \in Worker : handling[w] # c
      BY <1>1, <1>2, <2>1 DEF IndInv, OwnersApart
    <3>2. Owners(c) = {<<"acceptor", c>>}
      BY <2>1, <3>1 DEF Owners
    <3> QED BY <3>2
  <2>2. CASE \E k \in 1 .. Len(poolQueue) : poolQueue[k] = c
    <3>1. PICK k \in 1 .. Len(poolQueue) : poolQueue[k] = c
      BY <2>2
    <3>2. accepting # c /\ \A w \in Worker : handling[w] # c
      BY <3>1 DEF IndInv, OwnersApart
    <3>3. {j \in DOMAIN poolQueue : poolQueue[j] = c} = {k}
      BY <1>1, <3>1 DEF IndInv, OwnersApart
    <3>4. Owners(c) = {<<"queue", k>>}
      BY <3>2, <3>3 DEF Owners
    <3> QED BY <3>4
  <2>3. CASE \E w \in Worker : handling[w] = c
    <3>1. PICK w \in Worker : handling[w] = c
      BY <2>3
    <3>2. accepting # c /\ \A k \in DOMAIN poolQueue : poolQueue[k] # c
      BY <1>1, <1>2, <3>1 DEF IndInv, OwnersApart
    <3>3. {v \in Worker : handling[v] = c} = {w}
      BY <1>2, <3>1 DEF IndInv, OwnersApart
    <3>4. Owners(c) = {<<"worker", w>>}
      BY <3>2, <3>3 DEF Owners
    <3> QED BY <3>4
  <2> QED BY <1>4, <2>1, <2>2, <2>3 DEF IndInv, OpenOwned
<1>5. socket[c] = "open" => Cardinality(Owners(c)) = 1
  BY <1>4, FS_Singleton
<1> QED BY <1>3, <1>5

\* The inductive invariant holds in every behaviour of the server.
THEOREM Invariance == Spec => []IndInv
BY InitIndInv, NextIndInv, PTL DEF Spec

\* The server's variables keep their types, and it never has more sockets open
\* than the system lets it (fast_server.cxx:50).
THEOREM TypeCorrect == Spec => []TypeOK
<1>1. IndInv => TypeOK
  BY DEF IndInv
<1> QED BY Invariance, <1>1, PTL

\* On no path through the server, for any number of clients, threads and
\* sockets, is an open socket without an owner or with two
\* (fast_server.cxx:28-38,47-53).
THEOREM SocketsOwned == Spec => []OneOwner
BY Invariance, IndInvOneOwner, PTL

=============================================================================
