------------------------------ MODULE Broadcast ------------------------------
(***************************************************************************)
(* The bidirectional stream of simple_service: each client has a thread    *)
(* that writes its messages and a main thread that reads the replies; the  *)
(* server runs one handler per stream.  The threads of a client share      *)
(* log_message and pid_str without a lock.                                 *)
(*                                                                         *)
(* gRPC is external: messages of a stream arrive in order and once, Read   *)
(* is false when the peer has half-closed (or, for a client, the handler   *)
(* has returned) and nothing is left to read, and a lost call fails both   *)
(* sides.  context.set_deadline comes after the call has been started, so  *)
(* no call has a deadline.  Only the number of messages in flight is kept: *)
(* all replies are the same.                                               *)
(***************************************************************************)
EXTENDS Naturals

CONSTANTS
  Client,
  NumMessages   \* length of the vector "messages" of the writer

BroadcastAssumption == NumMessages \in Nat

VARIABLES
  serving,   \* the server has read its file and listens
  call,      \* the call of each client: "none", "open", "failed"
  reader,    \* where its main thread is
  writer,    \* where its writer thread is
  sent,      \* the messages it has written
  closed,    \* WritesDone was called
  requests,  \* its messages on their way to the server
  replies,   \* the replies on their way to it
  got,       \* the replies it has read
  handler    \* where the handler of its stream is

clientVars == <<reader, writer, sent, closed, got>>
broadcastVars == <<serving, call, clientVars, requests, replies, handler>>

TypeOK ==
  /\ serving \in BOOLEAN
  /\ call \in [Client -> {"none", "open", "failed"}]
  /\ reader \in [Client -> {"start", "read", "assign", "report", "join", "finish",
                            "ok", "error"}]
  /\ writer \in [Client -> {"none", "name", "log", "send", "ended"}]
  /\ closed \in [Client -> BOOLEAN]
  /\ \A n \in {sent, requests, replies, got} : n \in [Client -> 0 .. NumMessages]
  /\ handler \in [Client -> {"none", "read", "write", "ended", "stalled"}]

Init ==
  /\ serving = FALSE
  /\ call = [c \in Client |-> "none"]
  /\ reader = [c \in Client |-> "start"]
  /\ writer = [c \in Client |-> "none"]
  /\ closed = [c \in Client |-> FALSE]
  /\ sent = [c \in Client |-> 0] /\ requests = sent /\ replies = sent /\ got = sent
  /\ handler = [c \in Client |-> "none"]

-----------------------------------------------------------------------------
(***************************************************************************)
(* The server: readFileContents, then RunServer.  A file it cannot open    *)
(* leaves file_content empty and the server starts all the same.           *)
(***************************************************************************)
RunServer ==
  /\ ~serving
  /\ serving' = TRUE
  /\ UNCHANGED <<call, clientVars, requests, replies, handler>>

\* one turn of the loop of Broadcast: Read, which waits for a message ...
HandlerRead(c) ==
  /\ handler[c] = "read"
  /\ \/ /\ requests[c] > 0
        /\ requests' = [requests EXCEPT ![c] = @ - 1]
        /\ handler' = [handler EXCEPT ![c] = "write"]
     \/ /\ requests[c] = 0
        /\ closed[c] \/ call[c] = "failed"
        /\ handler' = [handler EXCEPT ![c] = "ended"]
        /\ UNCHANGED requests
  /\ UNCHANGED <<serving, call, clientVars, replies>>

ReplyOnce == "ended"  \* mutated: one message per stream
AfterWrite == "read"

\* ... and Write, on the stream the message came from
HandlerWrite(c) ==
  /\ handler[c] = "write"
  /\ handler' = [handler EXCEPT ![c] = AfterWrite]
  /\ replies' = IF call[c] = "open" THEN [replies EXCEPT ![c] = @ + 1] ELSE replies
  /\ UNCHANGED <<serving, call, clientVars, requests>>

\* the handler's thread hangs
Stall(c) ==
  /\ handler[c] \in {"read", "write"}
  /\ handler' = [handler EXCEPT ![c] = "stalled"]
  /\ UNCHANGED <<serving, call, clientVars, requests, replies>>

\* the connection is lost, with all that is on its way
Lose(c) ==
  /\ call[c] = "open"
  /\ call' = [call EXCEPT ![c] = "failed"]
  /\ requests' = [requests EXCEPT ![c] = 0] /\ replies' = [replies EXCEPT ![c] = 0]
  /\ UNCHANGED <<serving, clientVars, handler>>

-----------------------------------------------------------------------------
(***************************************************************************)
(* The client's main thread.                                               *)
(***************************************************************************)
At(c, from, to) == reader[c] = from /\ reader' = [reader EXCEPT ![c] = to]

\* the call is started, then the writer thread
Start(c) ==
  /\ At(c, "start", "read")
  /\ call' = [call EXCEPT ![c] = IF serving THEN "open" ELSE "failed"]
  /\ handler' = [handler EXCEPT ![c] = IF serving THEN "read" ELSE @]
  /\ writer' = [writer EXCEPT ![c] = "name"]
  /\ UNCHANGED <<serving, sent, closed, requests, replies, got>>

Read(c) ==
  \/ /\ At(c, "read", "assign")
     /\ replies[c] > 0
     /\ replies' = [replies EXCEPT ![c] = @ - 1]
     /\ got' = [got EXCEPT ![c] = @ + 1]
     /\ UNCHANGED <<serving, call, writer, sent, closed, requests, handler>>
  \/ /\ At(c, "read", "join")
     /\ replies[c] = 0
     /\ call[c] = "failed" \/ handler[c] = "ended"
     /\ UNCHANGED <<serving, call, writer, sent, closed, requests, replies, got, handler>>

\* log_message is assigned (47); logged and shown (48-49)
Report(c) ==
  /\ At(c, "assign", "report") \/ At(c, "report", "read")
  /\ UNCHANGED <<serving, call, writer, sent, closed, requests, replies, got, handler>>

JoinAndFinish(c) ==
  /\ \/ At(c, "join", "finish") /\ writer[c] = "ended"
     \/ At(c, "finish", "ok") /\ call[c] = "open"
     \/ At(c, "finish", "error") /\ call[c] = "failed"
  /\ UNCHANGED <<serving, call, writer, sent, closed, requests, replies, got, handler>>

(***************************************************************************)
(* The client's writer thread: it assigns pid_str and log_message          *)
(* (31-32), logs and shows log_message (33-34), and only then sends.       *)
(***************************************************************************)
Name(c) ==
  /\ writer[c] \in {"name", "log"}
  /\ writer' = [writer EXCEPT ![c] = IF @ = "name" THEN "log" ELSE "send"]
  /\ UNCHANGED <<serving, call, reader, sent, closed, requests, replies, got, handler>>

SendEarly == {"log", "send"}  \* mutated: sends before it has logged
Sending == {"send"}

Send(c) ==
  /\ writer[c] \in Sending /\ sent[c] < NumMessages
  /\ sent' = [sent EXCEPT ![c] = @ + 1]
  /\ requests' = IF call[c] = "open" /\ handler[c] # "ended"
                 THEN [requests EXCEPT ![c] = @ + 1] ELSE requests
  /\ UNCHANGED <<serving, call, reader, writer, closed, replies, got, handler>>

ForgetWritesDone(c) == closed[c]  \* mutated: the stream is not half-closed
HalfClosed(c) == TRUE

WritesDone(c) ==
  /\ writer[c] = "send" /\ sent[c] = NumMessages
  /\ closed' = [closed EXCEPT ![c] = HalfClosed(c)]
  /\ writer' = [writer EXCEPT ![c] = "ended"]
  /\ UNCHANGED <<serving, call, reader, sent, requests, replies, got, handler>>

ServerStep(c) == HandlerRead(c) \/ HandlerWrite(c)
ReaderStep(c) == Start(c) \/ Read(c) \/ Report(c) \/ JoinAndFinish(c)
WriterStep(c) == Name(c) \/ Send(c) \/ WritesDone(c)

Next ==
  \/ RunServer
  \/ \E c \in Client :
       ServerStep(c) \/ ReaderStep(c) \/ WriterStep(c) \/ Stall(c) \/ Lose(c)

\* every thread runs; the server need not be started, and nothing has to fail
Fairness ==
  \A c \in Client : /\ WF_broadcastVars(ServerStep(c))
                    /\ WF_broadcastVars(ReaderStep(c))
                    /\ WF_broadcastVars(WriterStep(c))

Spec == Init /\ [][Next]_broadcastVars /\ Fairness

-----------------------------------------------------------------------------
(***************************************************************************)
(* The two threads of a client are never at log_message and pid_str at the *)
(* same time, and pid_str is set when the reader uses it, although no lock *)
(* orders them (simple_client.cxx:31-34 and 47-49): a reply exists only    *)
(* after a message has been sent, and the writer no longer touches them    *)
(* then.                                                                   *)
(***************************************************************************)
NoConflict ==
  \A c \in Client : reader[c] \in {"assign", "report"} => writer[c] \in {"send", "ended"}

(***************************************************************************)
(* A client that finishes with an OK status has read one reply for every   *)
(* message it wrote (simple_client.cxx:46-53, simple_server.cxx:57-69).    *)
(***************************************************************************)
OkMeansAnswered ==
  \A c \in Client : reader[c] = "ok" => got[c] = NumMessages

(***************************************************************************)
(* Every client returns unless the handler of its stream hangs: there is   *)
(* no deadline to end a call then (simple_client.cxx:26), but nothing else *)
(* keeps the two threads and the handler from ending each other's loops.   *)
(***************************************************************************)
Returned ==
  \A c \in Client : reader[c] \in {"ok", "error"} \/ handler[c] = "stalled"

ReturnsUnlessStalled == <>Returned

(***************************************************************************)
(* What the comment of simple_server.cxx:63 says: a received message is    *)
(* broadcast to all connected clients.  The code writes to the stream it   *)
(* was received from only.                                                 *)
(***************************************************************************)
BroadcastToAll ==
  [][\A c, d \in Client :
       (/\ call[c] = "open" /\ handler[c] = "write" /\ handler'[c] = "read"
        /\ call[d] = "open" /\ handler[d] # "ended")
         => replies'[d] = replies[d] + 1]_broadcastVars
=============================================================================
