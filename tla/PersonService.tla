---------------------------- MODULE PersonService ----------------------------
(***************************************************************************)
(* The Thrift programs: a client that calls ping and getPerson over one    *)
(* connection, and a TSimpleServer, which serves one connection at a time  *)
(* until its client closes it.  The generated client sends and receives    *)
(* in turn with the sequence number 0; the generated processor calls the   *)
(* handler and answers.  The Thrift runtime is external: requests and      *)
(* replies of a connection arrive in order, and a broken connection is an  *)
(* exception, which ends a client and which the server outlives.           *)
(***************************************************************************)
EXTENDS Sequences

CONSTANTS Caller, NoCaller

VARIABLES
  caller,    \* where each client is
  backlog,   \* connections the server has not accepted
  current,   \* the connection it serves
  request,   \* the request on its way to the server
  reply,     \* the reply on its way to the client
  handled,   \* history: the calls handled for each client
  hung       \* clients that stay connected and say no more

personVars == <<caller, backlog, current, request, reply, handled, hung>>

Calls == <<"ping", "getPerson">>
Over == {"ok", "error"}

TypeOK ==
  /\ caller \in [Caller -> {"open", "send", "recv"} \cup Over]
  /\ backlog \in Seq(Caller)
  /\ current \in Caller \cup {NoCaller}
  /\ {request, reply} \subseteq [Caller -> {"none", "ping", "getPerson"}]
  /\ handled \in [Caller -> Seq({"ping", "getPerson"})]
  /\ hung \subseteq Caller

Init ==
  /\ caller = [c \in Caller |-> "open"]
  /\ backlog = << >> /\ current = NoCaller /\ hung = {}
  /\ request = [c \in Caller |-> "none"] /\ reply = request
  /\ handled = [c \in Caller |-> << >>]

-----------------------------------------------------------------------------
Goto(c, to) == c \notin hung /\ caller' = [caller EXCEPT ![c] = to]

Open(c) ==
  /\ caller[c] = "open"
  /\ Goto(c, "send")
  /\ backlog' = Append(backlog, c)
  /\ UNCHANGED <<current, request, reply, handled, hung>>

\* send_ping, then send_getPerson when the reply to ping has been read
SendCall(c) ==
  /\ caller[c] = "send"
  /\ Goto(c, "recv")
  /\ request' = [request EXCEPT ![c] = Calls[IF reply[c] = "ping" THEN 2 ELSE 1]]
  /\ reply' = [reply EXCEPT ![c] = "none"]
  /\ UNCHANGED <<backlog, current, handled, hung>>

\* recv_ping and recv_getPerson
Receive(c) ==
  /\ caller[c] = "recv" /\ reply[c] # "none"
  /\ Goto(c, IF reply[c] = "ping" THEN "send" ELSE "ok")
  /\ UNCHANGED <<backlog, current, request, reply, handled, hung>>

\* the connection breaks: an exception
Break(c) ==
  /\ caller[c] \in {"open", "send", "recv"}
  /\ Goto(c, "error")
  /\ UNCHANGED <<backlog, current, request, reply, handled, hung>>

Hang(c) ==
  /\ caller[c] \in {"send", "recv"} /\ c \notin hung
  /\ hung' = hung \cup {c}
  /\ UNCHANGED <<caller, backlog, current, request, reply, handled>>

-----------------------------------------------------------------------------
Accept ==
  /\ current = NoCaller /\ backlog # << >>
  /\ current' = Head(backlog) /\ backlog' = Tail(backlog)
  /\ UNCHANGED <<caller, request, reply, handled, hung>>

HandleTwice(c) == Append(Append(handled[c], request[c]), request[c])  \* mutated
Handle(c) == Append(handled[c], request[c])

\* dispatchCall, process_ping and process_getPerson with the handler they call
ProcessCall ==
  /\ current # NoCaller /\ request[current] # "none"
  /\ handled' = [handled EXCEPT ![current] = Handle(current)]
  /\ reply' = [reply EXCEPT ![current] = request[current]]
  /\ request' = [request EXCEPT ![current] = "none"]
  /\ UNCHANGED <<caller, backlog, current, hung>>

\* the client has closed the connection, or it broke
EndOfConnection ==
  /\ current # NoCaller /\ request[current] = "none" /\ caller[current] \in Over
  /\ current' = NoCaller
  /\ UNCHANGED <<caller, backlog, request, reply, handled, hung>>

CallerStep(c) == Open(c) \/ SendCall(c) \/ Receive(c)
ServerStep == Accept \/ ProcessCall \/ EndOfConnection

Next == ServerStep \/ \E c \in Caller : CallerStep(c) \/ Break(c) \/ Hang(c)

Spec ==
  /\ Init /\ [][Next]_personVars
  /\ WF_personVars(ServerStep) /\ \A c \in Caller : WF_personVars(CallerStep(c))

-----------------------------------------------------------------------------
(***************************************************************************)
(* A client that printed a person had each of its two calls handled once,  *)
(* ping first, whatever the other clients did (thrift-tests/client.cpp:    *)
(* 22-29).                                                                 *)
(***************************************************************************)
OkMeansHandled == \A c \in Caller : caller[c] = "ok" => handled[c] = Calls

(***************************************************************************)
(* Every client ends unless one hangs: the server serves one connection at *)
(* a time (thrift-tests/server.cpp:37-39), so one that is neither used nor *)
(* closed keeps all others waiting, and nothing else does.                 *)
(***************************************************************************)
AllOver == \A c \in Caller : caller[c] \in Over \/ hung # {}

CallersEnd == <>AllOver
=============================================================================
