------------------------------ MODULE SctpPair ------------------------------
(***************************************************************************)
(* client.cpp, which sends NUMBER_OF_MESSAGES over an SCTP association of  *)
(* two paths, and server.cpp, which receives for ever.  SIGINT closes the  *)
(* socket in both; the server's handler exits, the client's returns to     *)
(* whatever was running.                                                   *)
(*                                                                         *)
(* SCTP and the kernel are external: while a path between bound addresses  *)
(* is up, messages arrive once and in order, also after the sender's       *)
(* close; an association without a path may be lost.  open and the other   *)
(* calls give the lowest free descriptor.  The messages are all the same,  *)
(* so they are counted.                                                    *)
(***************************************************************************)
EXTENDS Integers

CONSTANTS
  NUMBER_OF_MESSAGES,
  MaxSignals,   \* SIGINTs to each program (a bound)
  MaxFailures   \* failures of paths (a bound)

SctpAssumption ==
  NUMBER_OF_MESSAGES \in Nat /\ MaxSignals \in Nat /\ MaxFailures \in Nat

VARIABLES
  pc,         \* where the client is
  sock,       \* its global sock, 0 until it is assigned
  fd,         \* what its descriptors 0 and 3 are
  i,          \* the counter of the send loop
  signals,    \* the SIGINTs it has had
  server,     \* where the server is
  bound,      \* the addresses the server is bound to
  up,         \* the paths that are up
  failures,   \* how many have failed
  assoc,      \* the association
  flying,     \* messages on their way
  received,   \* messages the server has received
  news,       \* notifications for the server
  early,      \* history: a SIGINT came before sock was assigned
  cut,        \* history: i when a SIGINT closed the socket
  apart       \* history: no path was up, or the server had stopped

clientVars == <<pc, sock, fd, i>>
signalVars == <<signals, early, cut>>
netVars == <<up, failures, apart>>
sctpVars == <<clientVars, signalVars, server, bound, netVars, assoc, flying, received,
              news>>

Path == {"primary", "secondary"}
Unassigned == {"socket", "assign", "assign -1"}  \* a handler, and sock still 0
Running == {"sigaction", "bind", "bindx", "options", "connect", "send"} \cup Unassigned
Ended == {"returned 0", "returned 1", "exit 2", "killed"}

TypeOK ==
  /\ pc \in Running \cup Ended
  /\ sock \in {-1, 0, 3}
  /\ fd \in [{0, 3} -> {"stdin", "socket", "closed"}]
  /\ i \in 0 .. NUMBER_OF_MESSAGES
  /\ signals \in 0 .. MaxSignals
  /\ server \in {"setup", "recv", "exited"}
  /\ bound \subseteq Path /\ up \subseteq Path
  /\ failures \in 0 .. MaxFailures
  /\ assoc \in {"none", "up", "closing", "lost"}
  /\ flying \in 0 .. NUMBER_OF_MESSAGES /\ received \in 0 .. NUMBER_OF_MESSAGES
  /\ news \in 0 .. 2
  /\ early \in BOOLEAN /\ apart \in BOOLEAN
  /\ cut \in 0 .. NUMBER_OF_MESSAGES

\* the arguments are two addresses: without them main prints the usage and ends
Init ==
  /\ pc = "sigaction" /\ sock = 0
  /\ fd = [f \in {0, 3} |-> IF f = 0 THEN "stdin" ELSE "closed"]
  /\ i = 0 /\ signals = 0
  /\ server = "setup" /\ bound = {} /\ up = Path /\ failures = 0
  /\ assoc = "none" /\ flying = 0 /\ received = 0 /\ news = 0
  /\ early = FALSE /\ cut = NUMBER_OF_MESSAGES /\ apart = FALSE

-----------------------------------------------------------------------------
(***************************************************************************)
(* The client.  Errors of socket, bind and the options are only printed.   *)
(***************************************************************************)
Usable == sock # -1 /\ fd[sock] = "socket"

\* close(f), and what the end of a socket means to the association
CloseSocket(f) ==
  /\ fd' = IF f = -1 THEN fd ELSE [fd EXCEPT ![f] = "closed"]
  /\ assoc' = IF f # -1 /\ fd[f] = "socket" /\ assoc = "up" THEN "closing" ELSE assoc

\* the process ends: the kernel closes what is open
ClientEnds(how) ==
  /\ pc' = how
  /\ fd' = [f \in {0, 3} |-> "closed"]
  /\ assoc' = IF assoc = "up" THEN "closing" ELSE assoc

Sigaction ==
  /\ pc = "sigaction" /\ pc' = "socket"
  /\ UNCHANGED <<sock, fd, i, assoc, flying, news>>

Socket ==
  /\ pc = "socket"
  /\ \/ pc' = "assign -1" /\ UNCHANGED fd
     \/ /\ pc' = "assign"
        /\ fd' = [fd EXCEPT ![IF fd[0] = "closed" THEN 0 ELSE 3] = "socket"]
  /\ UNCHANGED <<sock, i, assoc, flying, news>>

\* sock = socket(...): a signal may come between the call and the assignment; as
\* sock is still 0, it closes the new socket when that is on descriptor 0
Assign ==
  /\ \/ pc = "assign" /\ sock' = IF fd[3] = "socket" THEN 3 ELSE 0
     \/ pc = "assign -1" /\ sock' = -1
  /\ pc' = "bind"
  /\ UNCHANGED <<fd, i, assoc, flying, news>>

Bind ==
  /\ pc = "bind" /\ pc' = "bindx"
  /\ UNCHANGED <<sock, fd, i, assoc, flying, news>>

Bindx ==
  /\ pc = "bindx"
  /\ \/ Usable /\ pc' = "options" /\ UNCHANGED <<fd, assoc>>
     \/ ClientEnds("exit 2")
  /\ UNCHANGED <<sock, i, flying, news>>

Options ==
  /\ pc = "options" /\ pc' = "connect"
  /\ UNCHANGED <<sock, fd, i, assoc, flying, news>>

Connectx ==
  /\ pc = "connect"
  /\ \/ /\ Usable /\ server = "recv" /\ bound \cap up # {}
        /\ pc' = "send" /\ assoc' = "up" /\ news' = news + 1
        /\ UNCHANGED fd
     \/ ClientEnds("returned 1") /\ UNCHANGED news
  /\ UNCHANGED <<sock, i, flying>>

OneMore == i <= NUMBER_OF_MESSAGES  \* mutated: the loop runs once too often
MoreToSend == i < NUMBER_OF_MESSAGES

StopOnError == Usable /\ assoc = "up"  \* mutated: sends again until it succeeds
GoOn == TRUE

(***************************************************************************)
(* One turn of the loop.  The error of sctp_send is ignored; on a lost     *)
(* association it may come with SIGPIPE, which ends the program.           *)
(***************************************************************************)
Send ==
  /\ pc = "send" /\ MoreToSend
  /\ \/ /\ GoOn /\ i' = i + 1
        /\ flying' = IF Usable /\ assoc = "up" THEN flying + 1 ELSE flying
        /\ UNCHANGED <<pc, fd, assoc>>
     \/ /\ Usable /\ assoc = "lost"
        /\ ClientEnds("killed") /\ UNCHANGED <<i, flying>>
  /\ UNCHANGED <<sock, news>>

Close ==
  /\ pc = "send" /\ ~MoreToSend
  /\ ClientEnds("returned 0")
  /\ UNCHANGED <<sock, i, flying, news>>

ClientStep ==
  /\ \/ Sigaction \/ Socket \/ Assign \/ Bind \/ Bindx \/ Options \/ Connectx
     \/ Send \/ Close
  /\ UNCHANGED <<signalVars, server, bound, netVars, received>>

-----------------------------------------------------------------------------
HandlerForgets == CloseSocket(sock) /\ sock' = 0  \* mutated: sock is reset
HandlerIgnores == UNCHANGED <<fd, assoc, sock>>   \* mutated: nothing is closed

\* handle_signal of the client: closes whatever sock names, and returns
handle_signal == CloseSocket(sock) /\ UNCHANGED sock

\* before sigaction the signal kills
ClientSignal ==
  /\ pc \in Running /\ signals < MaxSignals
  /\ signals' = signals + 1
  /\ early' = (early \/ pc \in Unassigned)
  /\ cut' = IF pc # "sigaction" /\ Usable /\ cut = NUMBER_OF_MESSAGES THEN i ELSE cut
  /\ \/ pc = "sigaction" /\ ClientEnds("killed") /\ UNCHANGED sock
     \/ pc # "sigaction" /\ handle_signal /\ UNCHANGED pc
  /\ UNCHANGED <<i, server, bound, netVars, flying, received, news>>

-----------------------------------------------------------------------------
(***************************************************************************)
(* The server.  What fails of its setup is only printed, or not even that  *)
(* (sctp_bindx): it then receives on fewer addresses, or on none.          *)
(***************************************************************************)
SkipBindx(ok) == ok \cap {"primary"}  \* mutated: sctp_bindx is not called
BoundAddresses(ok) == ok

ServerSetup ==
  /\ server = "setup" /\ server' = "recv"
  /\ \E ok \in SUBSET Path : bound' = BoundAddresses(ok) /\ apart' = (apart \/ ok # Path)
  /\ UNCHANGED <<clientVars, signalVars, up, failures, assoc, flying, received, news>>

\* sctp_recvmsg gives a message ...
ReceiveMessage ==
  /\ flying > 0
  /\ flying' = flying - 1 /\ received' = received + 1
  /\ UNCHANGED news

\* ... or a notification, which is printed
print_notification ==
  /\ news > 0
  /\ news' = news - 1
  /\ UNCHANGED <<flying, received>>

Receive ==
  /\ server = "recv" /\ bound \cap up # {}
  /\ ReceiveMessage \/ print_notification
  /\ UNCHANGED <<clientVars, signalVars, server, bound, netVars, assoc>>

\* SIGINT ends the server, by its handler or for want of one
ServerSignal ==
  /\ server # "exited" /\ server' = "exited"
  /\ assoc' = IF assoc = "none" THEN assoc ELSE "lost"
  /\ flying' = 0 /\ apart' = TRUE
  /\ UNCHANGED <<clientVars, signalVars, bound, up, failures, received, news>>

-----------------------------------------------------------------------------
PathFails ==
  /\ failures < MaxFailures
  /\ \E p \in up : up' = up \ {p} /\ apart' = (apart \/ up = {p})
  /\ failures' = failures + 1
  /\ UNCHANGED <<clientVars, signalVars, server, bound, assoc, flying, received, news>>

PathReturns ==
  /\ up # Path /\ up' = Path
  /\ UNCHANGED <<clientVars, signalVars, server, bound, failures, apart, assoc, flying,
                 received, news>>

AssociationLost ==
  /\ assoc \in {"up", "closing"} /\ bound \cap up = {}
  /\ assoc' = "lost" /\ flying' = 0 /\ news' = news + 1
  /\ UNCHANGED <<clientVars, signalVars, server, bound, netVars, received>>

Next ==
  \/ ClientStep \/ ClientSignal
  \/ ServerSetup \/ Receive \/ ServerSignal
  \/ PathFails \/ PathReturns \/ AssociationLost

Spec ==
  /\ Init /\ [][Next]_sctpVars
  /\ WF_sctpVars(ClientStep) /\ WF_sctpVars(ServerSetup) /\ WF_sctpVars(Receive)

-----------------------------------------------------------------------------
(***************************************************************************)
(* The standard input is closed under the client only by a SIGINT that     *)
(* comes before sock is assigned (client.cpp:84-88 and 230): later ones,   *)
(* however many, close nothing but the socket.                             *)
(***************************************************************************)
StdinLostOnlyEarly == pc \in Running /\ fd[0] # "stdin" => early

(***************************************************************************)
(* The client goes on after a SIGINT, but it never sends with the closed   *)
(* descriptor: the server receives no more than had been sent when the     *)
(* socket was closed (client.cpp:206 and 230).                             *)
(***************************************************************************)
NothingAfterClose == received + flying <= cut

(***************************************************************************)
(* The client ends, whatever fails and whatever SIGINT closes under it:    *)
(* no error of its loop keeps it there (client.cpp:201-224).               *)
(***************************************************************************)
ClientTerminates == <>(pc \in Ended)

(***************************************************************************)
(* A transfer that ended with 0 without a SIGINT to a set-up client is     *)
(* received as a whole when the server was bound to both addresses and     *)
(* went on, and the two paths never failed together: one path is enough    *)
(* (client.cpp:157-165, server.cpp:89-98).                                 *)
(***************************************************************************)
OnePathIsEnough ==
  pc = "returned 0" /\ cut = NUMBER_OF_MESSAGES
    ~> (apart \/ received = NUMBER_OF_MESSAGES)
=============================================================================
