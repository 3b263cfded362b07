----------------------------- MODULE FastServer -----------------------------
(***************************************************************************)
(* The server of fast_server.cxx: one thread accepts connections and posts *)
(* each to a boost::asio::thread_pool, whose threads run handleClient: one *)
(* blocking read, one write, shutdown and close.  The clients are the      *)
(* environment: a client connects, may send its request and may go away;   *)
(* a silent one keeps its connection open and never sends.                 *)
(***************************************************************************)
EXTENDS Naturals, Sequences, FiniteSets

CONSTANTS
  Conn,        \* the connections of a run
  NoConn,      \* no connection
  Worker,      \* the threads of the pool
  Silences,    \* the sets of silent clients to look at
  SocketLimits \* how many sockets a system may let the server have open

ASSUME ServerAssumption ==
  /\ NoConn \notin Conn
  /\ Worker # {}
  /\ Silences \subseteq SUBSET Conn
  /\ SocketLimits \subseteq Nat

VARIABLES
  client,      \* each client: "absent", "connected" or "gone"
  sent,        \* its request has arrived at the server's socket
  answered,    \* it has been sent the response
  backlog,     \* connections that wait to be accepted
  accepting,   \* the connection the acceptor is about to post
  poolQueue,   \* the handlers posted to the pool and not yet running
  handling,    \* the connection each pool thread handles
  wpc,         \* where each pool thread is in handleClient
  socket,      \* the server's end of each connection
  terminated,  \* an exception has left the accepting thread
  silent,      \* the clients that send nothing
  maxSockets   \* how many sockets this system lets the server have open

vars == <<client, sent, answered, backlog, accepting, poolQueue, handling, wpc,
          socket, terminated, silent, maxSockets>>

\* What the clients and the server find and never change.
environment == <<silent, maxSockets>>

Open == {c \in Conn : socket[c] = "open"}

TypeOK ==
  /\ client \in [Conn -> {"absent", "connected", "gone"}]
  /\ sent \in [Conn -> BOOLEAN]
  /\ answered \in [Conn -> BOOLEAN]
  /\ backlog \in Seq(Conn)
  /\ accepting \in Conn \cup {NoConn}
  /\ poolQueue \in Seq(Conn)
  /\ handling \in [Worker -> Conn \cup {NoConn}]
  /\ wpc \in [Worker -> {"idle", "read", "write", "shutdown"}]
  /\ socket \in [Conn -> {"none", "open", "closed"}]
  /\ terminated \in BOOLEAN
  /\ silent \in Silences
  /\ maxSockets \in SocketLimits /\ Cardinality(Open) <= maxSockets

Init ==
  /\ client = [c \in Conn |-> "absent"]
  /\ sent = [c \in Conn |-> FALSE]
  /\ answered = [c \in Conn |-> FALSE]
  /\ backlog = <<>>
  /\ accepting = NoConn
  /\ poolQueue = <<>>
  /\ handling = [w \in Worker |-> NoConn]
  /\ wpc = [w \in Worker |-> "idle"]
  /\ socket = [c \in Conn |-> "none"]
  /\ terminated = FALSE
  /\ silent \in Silences
  /\ maxSockets \in SocketLimits

-----------------------------------------------------------------------------
(***************************************************************************)
(* The clients and the network.                                            *)
(***************************************************************************)

Connect(c) ==
  /\ client[c] = "absent"
  /\ client' = [client EXCEPT ![c] = "connected"]
  /\ backlog' = Append(backlog, c)
  /\ UNCHANGED <<sent, answered, accepting, poolQueue, handling, wpc, socket,
                 terminated, environment>>

Send(c) ==
  /\ client[c] = "connected"
  /\ c \notin silent /\ ~sent[c]
  /\ sent' = [sent EXCEPT ![c] = TRUE]
  /\ UNCHANGED <<client, answered, backlog, accepting, poolQueue, handling, wpc,
                 socket, terminated, environment>>

\* The client closes or resets its connection, or is lost.
GoAway(c) ==
  /\ client[c] = "connected"
  /\ c \notin silent
  /\ client' = [client EXCEPT ![c] = "gone"]
  /\ UNCHANGED <<sent, answered, backlog, accepting, poolQueue, handling, wpc,
                 socket, terminated, environment>>

-----------------------------------------------------------------------------
(***************************************************************************)
(* startServer.                                                            *)
(***************************************************************************)

\* The kernel has a descriptor left for the process.
DescriptorLeft == Cardinality(Open) < maxSockets

\* acceptor.accept(*socket)
Accept ==
  /\ ~terminated
  /\ accepting = NoConn
  /\ backlog # <<>>
  /\ DescriptorLeft
  /\ accepting' = Head(backlog)
  /\ backlog' = Tail(backlog)
  /\ socket' = [socket EXCEPT ![Head(backlog)] = "open"]
  /\ UNCHANGED <<client, sent, answered, poolQueue, handling, wpc, terminated,
                 environment>>

\* Out of descriptors: accept throws, whether a connection waits or not, the
\* exception leaves the thread's function and std::terminate ends the process.
AcceptThrows ==
  /\ ~terminated
  /\ accepting = NoConn
  /\ ~DescriptorLeft
  /\ terminated' = TRUE
  /\ UNCHANGED <<client, sent, answered, backlog, accepting, poolQueue, handling,
                 wpc, socket, environment>>

QueueTakes_IdleOnly == \E w \in Worker : wpc[w] = "idle"  \* mutated: waits for a thread
QueueTakes == TRUE

\* accept has returned, and not thrown: there is a connection to post.
Accepted_Unchecked == TRUE  \* mutated: a failed accept is posted all the same
Accepted == accepting # NoConn

\* boost::asio::post(pool, ...): the queue has no limit.
Post ==
  /\ ~terminated
  /\ Accepted
  /\ QueueTakes
  /\ poolQueue' = Append(poolQueue, accepting)
  /\ accepting' = NoConn
  /\ UNCHANGED <<client, sent, answered, backlog, handling, wpc, socket,
                 terminated, environment>>

-----------------------------------------------------------------------------
(***************************************************************************)
(* A pool thread: handleClient.                                            *)
(***************************************************************************)

Take(w) ==
  /\ ~terminated
  /\ wpc[w] = "idle"
  /\ poolQueue # <<>>
  /\ handling' = [handling EXCEPT ![w] = Head(poolQueue)]
  /\ poolQueue' = Tail(poolQueue)
  /\ wpc' = [wpc EXCEPT ![w] = "read"]
  /\ UNCHANGED <<client, sent, answered, backlog, accepting, socket, terminated,
                 environment>>

\* read_some returns once there is something to read ...
Read(w) ==
  /\ ~terminated
  /\ wpc[w] = "read"
  /\ sent[handling[w]]
  /\ wpc' = [wpc EXCEPT ![w] = "write"]
  /\ UNCHANGED <<client, sent, answered, backlog, accepting, poolQueue, handling,
                 socket, terminated, environment>>

\* ... or with end of file or an error, which a reset makes it report even
\* when the request had arrived; then nothing is written.
ReadFails(w) ==
  /\ ~terminated
  /\ wpc[w] = "read"
  /\ client[handling[w]] = "gone"
  /\ wpc' = [wpc EXCEPT ![w] = "shutdown"]
  /\ UNCHANGED <<client, sent, answered, backlog, accepting, poolQueue, handling,
                 socket, terminated, environment>>

\* The response; a failed write is not looked at.
Write(w) ==
  /\ ~terminated
  /\ wpc[w] = "write"
  /\ LET c == handling[w] IN
     answered' = [answered EXCEPT ![c] = client[c] = "connected"]
  /\ wpc' = [wpc EXCEPT ![w] = "shutdown"]
  /\ UNCHANGED <<client, sent, backlog, accepting, poolQueue, handling, socket,
                 terminated, environment>>

\* The handler returns and its thread is free for the next one.
Return(w) ==
  /\ handling' = [handling EXCEPT ![w] = NoConn]
  /\ wpc' = [wpc EXCEPT ![w] = "idle"]

ShutdownAndClose(w) ==
  /\ ~terminated
  /\ wpc[w] = "shutdown"
  /\ socket' = [socket EXCEPT ![handling[w]] = "closed"]
  /\ Return(w)
  /\ UNCHANGED <<client, sent, answered, backlog, accepting, poolQueue, terminated,
                 environment>>

LastOwnerCloses_Not(c) == socket  \* mutated: the handler does not own the socket
LastOwnerCloses(c) == [socket EXCEPT ![c] = "closed"]

Uncaught_Shutdown == TRUE  \* mutated: nothing catches the exception
Uncaught == FALSE

\* shutdown throws on a connection the client has reset; the exception is
\* caught, and the last shared_ptr closes the socket as the handler returns.
ShutdownThrows(w) ==
  /\ ~terminated
  /\ wpc[w] = "shutdown"
  /\ client[handling[w]] = "gone"
  /\ terminated' = Uncaught
  /\ socket' = LastOwnerCloses(handling[w])
  /\ Return(w)
  /\ UNCHANGED <<client, sent, answered, backlog, accepting, poolQueue, environment>>

ClientStep(c) == Connect(c) \/ Send(c) \/ GoAway(c)

AcceptorStep == Accept \/ AcceptThrows \/ Post

WorkerStep(w) ==
  \/ Take(w) \/ Read(w) \/ ReadFails(w) \/ Write(w)
  \/ ShutdownAndClose(w) \/ ShutdownThrows(w)

Next ==
  \/ \E c \in Conn : ClientStep(c)
  \/ AcceptorStep
  \/ \E w \in Worker : WorkerStep(w)

Spec == Init /\ [][Next]_vars

\* The server's threads are scheduled, and a client that is not silent sends.
FairSpec ==
  /\ Spec
  /\ WF_vars(AcceptorStep)
  /\ \A w \in Worker : WF_vars(WorkerStep(w))
  /\ \A c \in Conn : WF_vars(Send(c))

-----------------------------------------------------------------------------
(***************************************************************************)
(* Properties.                                                             *)
(***************************************************************************)

Owners(c) ==
  {<<"acceptor", a>> : a \in {accepting} \cap {c}}
  \cup {<<"queue", k>> : k \in {j \in DOMAIN poolQueue : poolQueue[j] = c}}
  \cup {<<"worker", w>> : w \in {v \in Worker : handling[v] = c}}

\* A connection's socket is open exactly while one part of the server owns
\* it: the acceptor, the queue of the pool or one pool thread.  No path
\* through handleClient, the exception included, leaks a socket or has two
\* threads work on one (fast_server.cxx:28-38,47-53).
OneOwner ==
  \A c \in Conn :
    IF socket[c] = "open" THEN Cardinality(Owners(c)) = 1 ELSE Owners(c) = {}

\* Descriptors for all connections, and one for the accept that waits for more.
Plenty == maxSockets > Cardinality(Conn)

\* However many handlers are stuck in their reads, a waiting connection is
\* accepted and handed to the pool as long as there are descriptors: the
\* acceptor depends on no pool thread (fast_server.cxx:50-53).
EveryoneAccepted ==
  \A c \in Conn :
    Plenty /\ client[c] = "connected" ~> socket[c] # "none" /\ accepting # c

Served(c) == answered[c] \/ client[c] = "gone"

\* With fewer silent clients than pool threads, and descriptors for all, every
\* client that sends its request and stays is answered: connections that
\* were reset cost no thread and no socket (fast_server.cxx:34-38).
EveryoneServed ==
  \A c \in Conn :
    sent[c] /\ Plenty /\ Cardinality(silent) < Cardinality(Worker) ~> Served(c)

\* "Read the HTTP request (non-blocking, ...)" (fast_server.cxx:25): a read that
\* does not block occupies no thread, so whatever other clients do, one that
\* sends its request and stays is answered.
ReadsDoNotBlock == \A c \in Conn : sent[c] /\ Plenty ~> Served(c)

=============================================================================
