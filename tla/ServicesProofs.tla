--------------------------- MODULE ServicesProofs ---------------------------
(***************************************************************************)
(* The safety of the programs that talk over a network, for every number   *)
(* of clients, messages, chunks, callers and signals: simple_service       *)
(* (Broadcast), file_service (FileDownload), thrift-tests (PersonService)  *)
(* and client.cpp with server.cpp (SctpPair).                              *)
(***************************************************************************)
EXTENDS Programs, SequenceTheorems, TLAPS

-----------------------------------------------------------------------------
(***************************************************************************)
(* simple_service.                                                         *)
(***************************************************************************)

\* the message the handler of a stream has read and not answered
InHand(c) == IF handler[c] = "write" THEN 1 ELSE 0

\* What is on its way, in hand or read was sent; nothing is missing while the
\* call is open and its handler runs.
StreamCounts ==
  \A c \in Client :
    /\ requests[c] + InHand(c) + replies[c] + got[c] <= sent[c]
    /\ call[c] = "open" /\ handler[c] # "stalled" =>
         requests[c] + InHand(c) + replies[c] + got[c] = sent[c]

\* The writer sends after it has logged, and half-closes after the last
\* message.
StreamWriter ==
  \A c \in Client :
    /\ writer[c] \in {"none", "name", "log"} => sent[c] = 0
    /\ closed[c] => writer[c] = "ended" /\ sent[c] = NumMessages
    /\ reader[c] \in {"assign", "report"} => got[c] > 0

\* A handler returns from an open call after the last message, and the reader
\* leaves its loop after the last reply.
StreamEnd ==
  \A c \in Client :
    /\ call[c] = "open" /\ handler[c] = "ended" => closed[c] /\ requests[c] = 0
    /\ call[c] = "open" /\ reader[c] \in {"join", "finish"} =>
         handler[c] = "ended" /\ replies[c] = 0
    /\ reader[c] = "ok" => got[c] = NumMessages
    /\ reader[c] = "start" => /\ call[c] = "none" /\ handler[c] = "none"
                              /\ writer[c] = "none"
    /\ reader[c] # "start" => call[c] # "none"
    /\ call[c] = "open" => handler[c] # "none"

StreamInv == Stream!TypeOK /\ StreamCounts /\ StreamWriter /\ StreamEnd

\* Before any client has called (simple_client.cxx:21-26).
LEMMA StreamInit == Stream!Init => StreamInv
<1> SUFFICES ASSUME Stream!Init PROVE StreamInv
  OBVIOUS
<1> USE ProgramsAssumption DEF Stream!Init, Stream!BroadcastAssumption
<1>1. Stream!TypeOK
  <2>1. sent \in [Client -> 0 .. NumMessages]
    OBVIOUS
  <2> QED BY <2>1 DEF Stream!TypeOK
<1>2. StreamCounts
  BY DEF StreamCounts, InHand
<1>3. StreamWriter /\ StreamEnd
  BY DEF StreamWriter, StreamEnd
<1> QED BY <1>1, <1>2, <1>3 DEF StreamInv

\* The numbers of a client, for arithmetic.
LEMMA StreamNumbers ==
  ASSUME StreamInv, NEW c \in Client
  PROVE  /\ sent[c] \in 0 .. NumMessages /\ requests[c] \in 0 .. NumMessages
         /\ replies[c] \in 0 .. NumMessages /\ got[c] \in 0 .. NumMessages
         /\ NumMessages \in Nat
BY ProgramsAssumption DEF StreamInv, Stream!TypeOK, Stream!BroadcastAssumption

\* Every step of the server, the two threads of a client and the connection.
LEMMA StreamNext == StreamInv /\ [Stream!Next]_streamVars => StreamInv'
<1> SUFFICES ASSUME StreamInv, [Stream!Next]_streamVars PROVE StreamInv'
  OBVIOUS
<1> USE ProgramsAssumption, StreamNumbers
    DEF Stream!BroadcastAssumption, Stream!clientVars
<1>1. CASE Stream!RunServer
  <2> USE <1>1 DEF Stream!RunServer
  <2>1. Stream!TypeOK'
    BY DEF StreamInv, Stream!TypeOK
  <2> QED BY <2>1 DEF StreamInv, StreamCounts, StreamWriter, StreamEnd, InHand
<1>2. ASSUME NEW c \in Client, Stream!HandlerRead(c) PROVE StreamInv'
  <2> USE <1>2 DEF Stream!HandlerRead
  <2>1. Stream!TypeOK'
    BY DEF StreamInv, Stream!TypeOK
  <2>2. StreamCounts'
    BY DEF StreamInv, Stream!TypeOK, StreamCounts, InHand
  <2>3. StreamWriter' /\ StreamEnd'
    BY DEF StreamInv, Stream!TypeOK, StreamWriter, StreamEnd
  <2> QED BY <2>1, <2>2, <2>3 DEF StreamInv
<1>3. ASSUME NEW c \in Client, Stream!HandlerWrite(c) PROVE StreamInv'
  <2> USE <1>3 DEF Stream!HandlerWrite, Stream!AfterWrite
  <2>1. replies[c] + 1 \in 0 .. NumMessages
    BY DEF StreamInv, StreamCounts, InHand
  <2>2. Stream!TypeOK'
    BY <2>1 DEF StreamInv, Stream!TypeOK
  <2>3. StreamCounts'
    BY DEF StreamInv, Stream!TypeOK, StreamCounts, InHand
  <2>4. StreamWriter' /\ StreamEnd'
    BY DEF StreamInv, Stream!TypeOK, StreamWriter, StreamEnd
  <2> QED BY <2>2, <2>3, <2>4 DEF StreamInv
<1>4. ASSUME NEW c \in Client, Stream!Stall(c) PROVE StreamInv'
  <2> USE <1>4 DEF Stream!Stall
  <2>1. Stream!TypeOK'
    BY DEF StreamInv, Stream!TypeOK
  <2>2. StreamCounts'
    BY DEF StreamInv, Stream!TypeOK, StreamCounts, InHand
  <2>3. StreamWriter' /\ StreamEnd'
    BY DEF StreamInv, Stream!TypeOK, StreamWriter, StreamEnd
  <2> QED BY <2>1, <2>2, <2>3 DEF StreamInv
<1>5. ASSUME NEW c \in Client, Stream!Lose(c) PROVE StreamInv'
  <2> USE <1>5 DEF Stream!Lose
  <2>1. Stream!TypeOK'
    BY DEF StreamInv, Stream!TypeOK
  <2>2. StreamCounts'
    BY DEF StreamInv, Stream!TypeOK, StreamCounts, InHand
  <2>3. StreamWriter' /\ StreamEnd'
    BY DEF StreamInv, Stream!TypeOK, StreamWriter, StreamEnd
  <2> QED BY <2>1, <2>2, <2>3 DEF StreamInv
<1>6. ASSUME NEW c \in Client, Stream!Start(c) PROVE StreamInv'
  <2> USE <1>6 DEF Stream!Start, Stream!At
  <2>1. Stream!TypeOK'
    BY DEF StreamInv, Stream!TypeOK
  <2>2. sent[c] = 0
    BY DEF StreamInv, StreamWriter, StreamEnd
  <2>a. requests[c] = 0 /\ replies[c] = 0 /\ got[c] = 0 /\ handler[c] = "none"
    <3>1. handler[c] = "none"
      BY DEF StreamInv, StreamEnd
    <3>2. InHand(c) = 0
      BY <3>1 DEF InHand
    <3>3. requests[c] + InHand(c) + replies[c] + got[c] <= sent[c]
      BY DEF StreamInv, StreamCounts
    <3> QED BY <2>2, <3>1, <3>2, <3>3, StreamNumbers
  <2>3. StreamCounts'
    <3>0. handler \in [Client -> {"none", "read", "write", "ended", "stalled"}]
      BY DEF StreamInv, Stream!TypeOK
    <3>a. handler'[c] # "write"
      BY <2>a, <3>0
    <3>1. /\ sent' = sent /\ requests' = requests /\ replies' = replies /\ got' = got
          /\ handler'[c] # "write"
      BY <3>a
    <3>2. \A d \in Client \ {c} : call'[d] = call[d] /\ handler'[d] = handler[d]
      BY DEF StreamInv, Stream!TypeOK
    <3> SUFFICES ASSUME NEW d \in Client
                 PROVE  /\ requests[d] + InHand(d)' + replies[d] + got[d] <= sent[d]
                        /\ call'[d] = "open" /\ handler'[d] # "stalled" =>
                             requests[d] + InHand(d)' + replies[d] + got[d] = sent[d]
      BY <3>1 DEF StreamCounts, InHand
    <3>3. CASE d = c
      BY <2>2, <2>a, <3>1, <3>3 DEF InHand
    <3>4. CASE d # c
      BY <3>2, <3>4 DEF StreamInv, StreamCounts, InHand
    <3> QED BY <3>3, <3>4
  <2>4. StreamWriter' /\ StreamEnd'
    BY <2>2 DEF StreamInv, Stream!TypeOK, StreamWriter, StreamEnd
  <2> QED BY <2>1, <2>3, <2>4 DEF StreamInv
<1>7. ASSUME NEW c \in Client, Stream!Read(c) PROVE StreamInv'
  <2> USE <1>7 DEF Stream!Read, Stream!At
  <2>1. replies[c] > 0 => got[c] + 1 \in 0 .. NumMessages
    BY DEF StreamInv, StreamCounts, InHand
  <2>2. Stream!TypeOK'
    BY <2>1 DEF StreamInv, Stream!TypeOK
  <2>3. StreamCounts'
    BY DEF StreamInv, Stream!TypeOK, StreamCounts, InHand
  <2>4. StreamWriter' /\ StreamEnd'
    BY DEF StreamInv, Stream!TypeOK, StreamWriter, StreamEnd
  <2> QED BY <2>2, <2>3, <2>4 DEF StreamInv
<1>8. ASSUME NEW c \in Client, Stream!Report(c) PROVE StreamInv'
  <2> USE <1>8 DEF Stream!Report, Stream!At
  <2>1. Stream!TypeOK'
    BY DEF StreamInv, Stream!TypeOK
  <2>2. StreamCounts'
    BY DEF StreamInv, Stream!TypeOK, StreamCounts, InHand
  <2>3. StreamWriter' /\ StreamEnd'
    BY DEF StreamInv, Stream!TypeOK, StreamWriter, StreamEnd
  <2> QED BY <2>1, <2>2, <2>3 DEF StreamInv
<1>9. ASSUME NEW c \in Client, Stream!JoinAndFinish(c) PROVE StreamInv'
  <2> USE <1>9 DEF Stream!JoinAndFinish, Stream!At
  <2>1. Stream!TypeOK'
    BY DEF StreamInv, Stream!TypeOK
  <2>2. StreamCounts'
    BY DEF StreamInv, Stream!TypeOK, StreamCounts, InHand
  <2>3. reader[c] = "finish" /\ call[c] = "open" => got[c] = NumMessages
    BY DEF StreamInv, StreamCounts, StreamEnd, StreamWriter, InHand
  <2>4. StreamWriter' /\ StreamEnd'
    BY <2>3 DEF StreamInv, Stream!TypeOK, StreamWriter, StreamEnd
  <2> QED BY <2>1, <2>2, <2>4 DEF StreamInv
<1>10. ASSUME NEW c \in Client, Stream!Name(c) PROVE StreamInv'
  <2> USE <1>10 DEF Stream!Name
  <2>1. Stream!TypeOK'
    BY DEF StreamInv, Stream!TypeOK
  <2>2. StreamCounts'
    BY DEF StreamInv, Stream!TypeOK, StreamCounts, InHand
  <2>3. StreamWriter' /\ StreamEnd'
    BY DEF StreamInv, Stream!TypeOK, StreamWriter, StreamEnd
  <2> QED BY <2>1, <2>2, <2>3 DEF StreamInv
<1>11. ASSUME NEW c \in Client, Stream!Send(c) PROVE StreamInv'
  <2> USE <1>11 DEF Stream!Send, Stream!Sending
  <2>1. /\ sent[c] + 1 \in 0 .. NumMessages /\ requests[c] + 1 \in 0 .. NumMessages
        /\ ~closed[c]
    BY DEF StreamInv, StreamCounts, StreamWriter, InHand
  <2>2. Stream!TypeOK'
    BY <2>1 DEF StreamInv, Stream!TypeOK
  <2>3. StreamCounts'
    BY <2>1 DEF StreamInv, Stream!TypeOK, StreamCounts, StreamEnd, InHand
  <2>4. StreamWriter' /\ StreamEnd'
    BY <2>1 DEF StreamInv, Stream!TypeOK, StreamWriter, StreamEnd
  <2> QED BY <2>2, <2>3, <2>4 DEF StreamInv
<1>12. ASSUME NEW c \in Client, Stream!WritesDone(c) PROVE StreamInv'
  <2> USE <1>12 DEF Stream!WritesDone, Stream!HalfClosed
  <2>1. Stream!TypeOK'
    BY DEF StreamInv, Stream!TypeOK
  <2>2. StreamCounts'
    BY DEF StreamInv, Stream!TypeOK, StreamCounts, InHand
  <2>3. StreamWriter' /\ StreamEnd'
    BY DEF StreamInv, Stream!TypeOK, StreamWriter, StreamEnd
  <2> QED BY <2>1, <2>2, <2>3 DEF StreamInv
<1>13. CASE UNCHANGED streamVars
  <2> USE <1>13 DEF streamVars
  <2>1. Stream!TypeOK'
    BY DEF StreamInv, Stream!TypeOK
  <2> QED BY <2>1 DEF StreamInv, StreamCounts, StreamWriter, StreamEnd, InHand
<1> QED
  BY <1>1, <1>2, <1>3, <1>4, <1>5, <1>6, <1>7, <1>8, <1>9, <1>10, <1>11, <1>12, <1>13
  DEF Stream!Next, Stream!ServerStep, Stream!ReaderStep, Stream!WriterStep

\* A reply was read, so a message was sent, so the writer has logged; and what
\* an OK status means.
LEMMA StreamSafe == StreamInv => Stream!NoConflict /\ Stream!OkMeansAnswered
<1> SUFFICES ASSUME StreamInv PROVE Stream!NoConflict /\ Stream!OkMeansAnswered
  OBVIOUS
<1>1. ASSUME NEW c \in Client, reader[c] \in {"assign", "report"}
      PROVE  writer[c] \in {"send", "ended"}
  <2>1. got[c] > 0 /\ sent[c] > 0
    BY <1>1, StreamNumbers DEF StreamInv, StreamWriter, StreamCounts, InHand
  <2> QED BY <2>1 DEF StreamInv, StreamWriter, Stream!TypeOK
<1>2. Stream!OkMeansAnswered
  BY DEF StreamInv, StreamEnd, Stream!OkMeansAnswered
<1> QED BY <1>1, <1>2 DEF Stream!NoConflict

-----------------------------------------------------------------------------
(***************************************************************************)
(* file_service.                                                           *)
(***************************************************************************)

\* Until the file is closed a good stream has stored all that was received; a
\* bad one stores nothing more, so that what is there stays a prefix.
DownloadInv ==
  /\ Download!TypeOK
  /\ stored \subseteq 1 .. bytes_received
  /\ Download!StoredIsPrefix
  /\ step \in {"start", "loop"} /\ good => stored = 1 .. bytes_received
  /\ status = "ok" => bytes_received = NumChunks
  /\ step = "success" => status = "ok"

\* Nothing has been received (file_client.cxx:19-33).
LEMMA DownloadInit == Download!Init => DownloadInv
BY ProgramsAssumption
DEF Download!DownloadAssumption, Download!Init, DownloadInv, Download!TypeOK,
    Download!StoredIsPrefix

\* Every step of GetFile and of the stream (file_client.cxx:19-50).
LEMMA DownloadNext == DownloadInv /\ [Download!Next]_downloadVars => DownloadInv'
<1> SUFFICES ASSUME DownloadInv, [Download!Next]_downloadVars PROVE DownloadInv'
  OBVIOUS
<1> USE ProgramsAssumption DEF Download!DownloadAssumption
<1>1. CASE Download!StreamEnds \/ Download!Open \/ Download!Finish \/ UNCHANGED downloadVars
  <2> USE <1>1 DEF Download!StreamEnds, Download!Open, Download!Finish, Download!Ok,
                   downloadVars
  <2>1. bytes_received' = bytes_received /\ good' = good /\ stored' = stored
    OBVIOUS
  <2>2. Download!StoredIsPrefix'
    BY <2>1 DEF DownloadInv, Download!StoredIsPrefix
  <2>3. Download!TypeOK'
    BY <2>1 DEF DownloadInv, Download!TypeOK
  <2>4. step' \in {"start", "loop"} => step \in {"start", "loop"}
    BY DEF DownloadInv, Download!TypeOK
  <2>5. status' = "ok" => bytes_received = NumChunks
    BY DEF DownloadInv
  <2>6. step' = "success" => status' = "ok"
    BY DEF DownloadInv, Download!TypeOK
  <2> QED BY <2>1, <2>2, <2>3, <2>4, <2>5, <2>6 DEF DownloadInv
<1>2. CASE Download!ReadChunk
  <2>1. PICK full \in BOOLEAN : Download!Write(full)
    BY <1>2 DEF Download!ReadChunk
  <2>2. /\ step = "loop" /\ step' = step /\ status' = status /\ status = "open"
        /\ bytes_received \in Nat /\ bytes_received < NumChunks
        /\ bytes_received' = bytes_received + 1
    BY <1>2 DEF Download!ReadChunk, DownloadInv, Download!TypeOK
  <2>3. CASE good /\ ~full
    <3>1. stored' = stored \cup {bytes_received + 1} /\ good' = TRUE
      BY <2>1, <2>3 DEF Download!Write
    <3>2. stored = 1 .. bytes_received
      BY <2>2, <2>3 DEF DownloadInv
    <3>3. stored' = 1 .. bytes_received'
      BY <2>2, <3>1, <3>2
    <3> QED BY <2>2, <3>1, <3>3
            DEF DownloadInv, Download!TypeOK, Download!StoredIsPrefix, Download!Chunk
  <2>4. CASE ~(good /\ ~full)
    <3>1. stored' = stored /\ good' = FALSE
      BY <2>1, <2>4 DEF Download!Write, DownloadInv, Download!TypeOK
    <3>2. Download!StoredIsPrefix'
      BY <3>1 DEF DownloadInv, Download!StoredIsPrefix
    <3>3. stored' \subseteq 1 .. bytes_received'
      BY <2>2, <3>1 DEF DownloadInv
    <3>4. Download!TypeOK'
      <4>1. bytes_received' \in 0 .. NumChunks /\ stored' \subseteq Download!Chunk
        BY <2>2, <3>1 DEF DownloadInv, Download!TypeOK
      <4>2. good' \in BOOLEAN
        BY <3>1
      <4>3. step' \in {"start", "loop", "finish", "success", "failed", "unopened"}
            /\ status' \in {"open", "ok", "error"}
        BY <2>2
      <4> QED BY <4>1, <4>2, <4>3 DEF Download!TypeOK
    <3> QED BY <2>2, <3>1, <3>2, <3>3, <3>4 DEF DownloadInv
  <2> QED BY <2>3, <2>4
<1>3. CASE Download!Close
  <2>1. /\ step' = "finish" /\ status' = status /\ good' = good
        /\ bytes_received' = bytes_received /\ bytes_received \in Nat
        /\ stored' \in {stored, stored \ {bytes_received}}
    BY <1>3 DEF Download!Close, DownloadInv, Download!TypeOK
  <2>2. Download!StoredIsPrefix'
    <3> SUFFICES ASSUME NEW k \in stored', NEW j \in 1 .. k PROVE j \in stored'
      BY DEF Download!StoredIsPrefix
    <3>1. k \in stored /\ k \in 1 .. bytes_received /\ j \in stored
      BY <2>1 DEF DownloadInv, Download!StoredIsPrefix
    <3>2. CASE stored' = stored
      BY <3>1, <3>2
    <3>3. CASE stored' = stored \ {bytes_received}
      <4>1. k # bytes_received
        BY <3>3
      <4>2. j # bytes_received
        BY <2>1, <3>1, <4>1
      <4> QED BY <3>1, <3>3, <4>2
    <3> QED BY <2>1, <3>2, <3>3
  <2> QED BY <2>1, <2>2 DEF DownloadInv, Download!TypeOK
<1> QED BY <1>1, <1>2, <1>3 DEF Download!Next

\* What the success and the file are worth.
LEMMA DownloadSafe == DownloadInv => Download!SuccessMeansReceived /\ Download!StoredIsPrefix
BY DEF DownloadInv, Download!SuccessMeansReceived

-----------------------------------------------------------------------------
(***************************************************************************)
(* thrift-tests.                                                           *)
(***************************************************************************)

\* How far the calls of a client are: what is on its way, and what has been
\* handled.
Exchange(c, rq, rp, h) == request[c] = rq /\ reply[c] = rp /\ handled[c] = h

PersonPhase(c) ==
  /\ \/ Exchange(c, "none", "none", << >>)
     \/ Exchange(c, "ping", "none", << >>) /\ caller[c] \in {"recv", "error"}
     \/ Exchange(c, "none", "ping", <<"ping">>)
     \/ Exchange(c, "getPerson", "none", <<"ping">>) /\ caller[c] \in {"recv", "error"}
     \/ Exchange(c, "none", "getPerson", <<"ping", "getPerson">>)
  /\ caller[c] = "open" => Exchange(c, "none", "none", << >>)
  /\ caller[c] = "send" => \/ Exchange(c, "none", "none", << >>)
                           \/ Exchange(c, "none", "ping", <<"ping">>)
  /\ caller[c] = "ok" => Exchange(c, "none", "getPerson", <<"ping", "getPerson">>)

PersonInv == Person!TypeOK /\ \A c \in Caller : PersonPhase(c)

\* Nobody has connected (thrift-tests/client.cpp:11-19).
LEMMA PersonInit == Person!Init => PersonInv
<1> SUFFICES ASSUME Person!Init PROVE PersonInv
  OBVIOUS
<1>1. << >> \in Seq(Caller) /\ << >> \in Seq({"ping", "getPerson"})
  BY EmptySeq
<1>2. Person!TypeOK
  BY <1>1 DEF Person!Init, Person!TypeOK
<1>3. \A c \in Caller : PersonPhase(c)
  BY DEF Person!Init, PersonPhase, Exchange
<1> QED BY <1>2, <1>3 DEF PersonInv

\* ping, then getPerson.
LEMMA SecondCall == Append(<<"ping">>, "getPerson") = <<"ping", "getPerson">>
<1> DEFINE S == {"ping", "getPerson"}
           s == Append(<<"ping">>, "getPerson")
           t == <<"ping", "getPerson">>
<1>1. <<"ping">> \in Seq(S) /\ Len(<<"ping">>) = 1 /\ <<"ping">>[1] = "ping"
  OBVIOUS
<1>2. t \in Seq(S) /\ Len(t) = 2 /\ t[1] = "ping" /\ t[2] = "getPerson"
  OBVIOUS
<1>3. s \in Seq(S) /\ Len(s) = 2 /\ s[1] = "ping" /\ s[2] = "getPerson"
  BY <1>1, AppendProperties
<1> HIDE DEF s, t
<1>4. \A k \in 1 .. Len(s) : s[k] = t[k]
  BY <1>2, <1>3
<1>5. s = t
  BY <1>2, <1>3, <1>4, SeqEqual
<1> QED BY <1>5 DEF s, t

\* A client whose variables a step leaves alone stays in its phase.
LEMMA PersonSame ==
  ASSUME PersonInv, NEW c \in Caller,
         caller'[c] = caller[c] \/ caller'[c] = "error",
         request'[c] = request[c], reply'[c] = reply[c], handled'[c] = handled[c]
  PROVE  PersonPhase(c)'
BY DEF PersonInv, PersonPhase, Exchange

\* Every step of a client and of the server (thrift-tests/client.cpp:17-32,
\* server.cpp:37-39).
LEMMA PersonNext == PersonInv /\ [Person!Next]_personVars => PersonInv'
<1> SUFFICES ASSUME PersonInv, [Person!Next]_personVars PROVE PersonInv'
  OBVIOUS
<1>1. ASSUME NEW c \in Caller, Person!Open(c) PROVE PersonInv'
  <2> USE <1>1 DEF Person!Open, Person!Goto
  <2>1. backlog' \in Seq(Caller)
    BY AppendProperties DEF PersonInv, Person!TypeOK
  <2>2. Person!TypeOK'
    BY <2>1 DEF PersonInv, Person!TypeOK
  <2>3. PersonPhase(c)'
    BY DEF PersonInv, Person!TypeOK, PersonPhase, Exchange
  <2>4. \A d \in Caller : d # c => caller'[d] = caller[d]
    BY DEF PersonInv, Person!TypeOK
  <2> QED BY <2>2, <2>3, <2>4, PersonSame DEF PersonInv
<1>2. ASSUME NEW c \in Caller, Person!SendCall(c) PROVE PersonInv'
  <2> USE <1>2 DEF Person!SendCall, Person!Goto
  <2>1. Person!Calls[1] = "ping" /\ Person!Calls[2] = "getPerson"
    BY DEF Person!Calls
  <2>2. /\ caller' = [caller EXCEPT ![c] = "recv"]
        /\ request' = [request EXCEPT ![c] = IF reply[c] = "ping" THEN "getPerson" ELSE "ping"]
        /\ reply' = [reply EXCEPT ![c] = "none"]
    BY <2>1
  <2>3. Person!TypeOK'
    BY <2>2 DEF PersonInv, Person!TypeOK
  <2>4. PersonPhase(c)'
    BY <2>2 DEF PersonInv, Person!TypeOK, PersonPhase, Exchange
  <2>5. \A d \in Caller : d # c => /\ caller'[d] = caller[d]
                                   /\ request'[d] = request[d] /\ reply'[d] = reply[d]
    BY <2>2 DEF PersonInv, Person!TypeOK
  <2> QED BY <2>3, <2>4, <2>5, PersonSame DEF PersonInv
<1>3. ASSUME NEW c \in Caller, Person!Receive(c) PROVE PersonInv'
  <2> USE <1>3 DEF Person!Receive, Person!Goto
  <2>1. Person!TypeOK'
    BY DEF PersonInv, Person!TypeOK, Person!Over
  <2>2. PersonPhase(c)'
    BY DEF PersonInv, Person!TypeOK, PersonPhase, Exchange
  <2>3. \A d \in Caller : d # c => caller'[d] = caller[d]
    BY DEF PersonInv, Person!TypeOK
  <2> QED BY <2>1, <2>2, <2>3, PersonSame DEF PersonInv
<1>4. ASSUME NEW c \in Caller, Person!Break(c) PROVE PersonInv'
  <2> USE <1>4 DEF Person!Break, Person!Goto
  <2>1. Person!TypeOK'
    BY DEF PersonInv, Person!TypeOK, Person!Over
  <2>2. \A d \in Caller : caller'[d] = caller[d] \/ caller'[d] = "error"
    BY DEF PersonInv, Person!TypeOK
  <2> QED BY <2>1, <2>2, PersonSame DEF PersonInv
<1>5. ASSUME NEW c \in Caller, Person!Hang(c) PROVE PersonInv'
  <2> USE <1>5 DEF Person!Hang
  <2>1. Person!TypeOK'
    BY DEF PersonInv, Person!TypeOK
  <2> QED BY <2>1, PersonSame DEF PersonInv
<1>6. CASE Person!Accept
  <2> USE <1>6 DEF Person!Accept
  <2>1. Head(backlog) \in Caller /\ Tail(backlog) \in Seq(Caller)
    BY HeadTailProperties DEF PersonInv, Person!TypeOK
  <2>2. Person!TypeOK'
    BY <2>1 DEF PersonInv, Person!TypeOK
  <2> QED BY <2>2, PersonSame DEF PersonInv
<1>7. CASE Person!ProcessCall
  <2>0. PICK c \in Caller : c = current
    BY <1>7 DEF Person!ProcessCall, PersonInv, Person!TypeOK
  <2>1. /\ c \in Caller /\ request[c] \in {"ping", "getPerson"}
        /\ UNCHANGED <<caller, backlog, current, hung>>
        /\ handled' = [handled EXCEPT ![c] = Append(handled[c], request[c])]
        /\ reply' = [reply EXCEPT ![c] = request[c]]
        /\ request' = [request EXCEPT ![c] = "none"]
    BY <1>7, <2>0 DEF Person!ProcessCall, Person!Handle, PersonInv, Person!TypeOK
  <2>2. handled[c] \in Seq({"ping", "getPerson"})
    BY <2>1 DEF PersonInv, Person!TypeOK
  <2>3. Append(handled[c], request[c]) \in Seq({"ping", "getPerson"})
    BY <2>1, <2>2, AppendProperties
  <2>4. Person!TypeOK'
    BY <2>1, <2>3 DEF PersonInv, Person!TypeOK
  <2>5. /\ request'[c] = "none" /\ reply'[c] = request[c]
        /\ handled'[c] = Append(handled[c], request[c])
    BY <2>1 DEF PersonInv, Person!TypeOK
  <2>6. /\ caller[c] \in {"recv", "error"}
        /\ \/ Exchange(c, "ping", "none", << >>)
           \/ Exchange(c, "getPerson", "none", <<"ping">>)
    BY <2>1 DEF PersonInv, PersonPhase, Exchange
  <2>7. CASE Exchange(c, "ping", "none", << >>)
    <3>1. Append(handled[c], request[c]) = <<"ping">>
      BY <2>7 DEF Exchange
    <3>2. Exchange(c, "none", "ping", <<"ping">>)'
      BY <2>5, <2>7, <3>1 DEF Exchange
    <3>3. PersonPhase(c)'
      BY <2>1, <2>6, <3>2 DEF PersonPhase
    <3> QED BY <3>3, <2>1, <2>4, PersonSame DEF PersonInv, Person!TypeOK
  <2>8. CASE Exchange(c, "getPerson", "none", <<"ping">>)
    <3>1. Append(handled[c], request[c]) = <<"ping", "getPerson">>
      BY <2>8, SecondCall DEF Exchange
    <3>2. Exchange(c, "none", "getPerson", <<"ping", "getPerson">>)'
      BY <2>5, <2>8, <3>1 DEF Exchange
    <3>3. PersonPhase(c)'
      BY <2>1, <2>6, <3>2 DEF PersonPhase
    <3> QED BY <3>3, <2>1, <2>4, PersonSame DEF PersonInv, Person!TypeOK
  <2> QED BY <2>6, <2>7, <2>8
<1>8. CASE Person!EndOfConnection \/ UNCHANGED personVars
  <2> USE <1>8 DEF Person!EndOfConnection, personVars
  <2>1. Person!TypeOK'
    BY DEF PersonInv, Person!TypeOK
  <2> QED BY <2>1, PersonSame DEF PersonInv
<1> QED
  BY <1>1, <1>2, <1>3, <1>4, <1>5, <1>6, <1>7, <1>8
  DEF Person!Next, Person!ServerStep, Person!CallerStep

\* A client that is through had its two calls handled.
LEMMA PersonSafe == PersonInv => Person!OkMeansHandled
BY DEF PersonInv, PersonPhase, Exchange, Person!OkMeansHandled, Person!Calls

-----------------------------------------------------------------------------
(***************************************************************************)
(* client.cpp and server.cpp.                                              *)
(***************************************************************************)

\* The client makes one socket, on the descriptor that is free, which is 0 only
\* when the standard input was closed; before the assignment sock names 0, so no
\* signal closes a socket on 3.
Descriptors ==
  /\ ~(fd[0] = "socket" /\ fd[3] = "socket")
  /\ pc \in {"sigaction", "socket"} => fd[0] # "socket" /\ fd[3] # "socket"
  /\ pc \in {"sigaction"} \cup Sctp!Unassigned => sock = 0
  /\ pc = "sigaction" => fd[0] = "stdin"
  /\ sock = 0 /\ pc \in Sctp!Running => pc \in {"sigaction"} \cup Sctp!Unassigned \/ early
  /\ pc = "assign" => fd[3] = "socket" \/ early
  /\ Sctp!StdinLostOnlyEarly

\* A SIGINT that closed the socket left none, and none is made afterwards.
Cut ==
  /\ received + flying <= i
  /\ received + flying <= cut
  /\ cut # NUMBER_OF_MESSAGES => /\ fd[0] # "socket" /\ fd[3] # "socket"
                                 /\ pc \notin {"sigaction", "socket"}

\* There is one association, of which the server is told twice at most.
Association ==
  /\ pc \in Sctp!Running \ {"send"} => assoc = "none"
  /\ news <= CASE assoc = "none" -> 0
               [] assoc \in {"up", "closing"} -> 1
               [] assoc = "lost" -> 2

SctpInv == Sctp!TypeOK /\ Descriptors /\ Cut /\ Association

\* Before the client has installed its handler (client.cpp:78-85).
LEMMA SctpInit == Sctp!Init => SctpInv
<1> SUFFICES ASSUME Sctp!Init PROVE SctpInv
  OBVIOUS
<1> USE ProgramsAssumption DEF Sctp!SctpAssumption, Sctp!Init
<1>1. Sctp!TypeOK
  <2>1. fd \in [{0, 3} -> {"stdin", "socket", "closed"}] /\ pc \in Sctp!Running
    BY DEF Sctp!Running
  <2>2. early \in BOOLEAN /\ apart \in BOOLEAN
    OBVIOUS
  <2>3. bound \subseteq Sctp!Path /\ up \subseteq Sctp!Path
    OBVIOUS
  <2>4. /\ sock \in {-1, 0, 3} /\ i \in 0 .. NUMBER_OF_MESSAGES
        /\ cut \in 0 .. NUMBER_OF_MESSAGES /\ signals \in 0 .. MaxSignals
        /\ failures \in 0 .. MaxFailures /\ flying \in 0 .. NUMBER_OF_MESSAGES
        /\ received \in 0 .. NUMBER_OF_MESSAGES /\ news \in 0 .. 2
    OBVIOUS
  <2>5. server \in {"setup", "recv", "exited"} /\ assoc \in {"none", "up", "closing", "lost"}
    OBVIOUS
  <2> HIDE DEF Sctp!Init
  <2> QED BY <2>1, <2>2, <2>3, <2>4, <2>5 DEF Sctp!TypeOK
<1>2. Descriptors
  BY DEF Descriptors, Sctp!StdinLostOnlyEarly
<1>3. Cut /\ Association
  BY DEF Cut, Association
<1> QED BY <1>1, <1>2, <1>3 DEF SctpInv

\* Every step of the client, its signals, the server and the paths.
LEMMA SctpNext == SctpInv /\ [Sctp!Next]_sctpVars => SctpInv'
<1> SUFFICES ASSUME SctpInv, [Sctp!Next]_sctpVars PROVE SctpInv'
  OBVIOUS
<1> USE ProgramsAssumption
    DEF Sctp!SctpAssumption, Sctp!clientVars, Sctp!signalVars, Sctp!netVars, Sctp!Unassigned
<1>1. ASSUME Sctp!Sigaction \/ Sctp!Bind \/ Sctp!Options,
             UNCHANGED <<Sctp!signalVars, server, bound, Sctp!netVars, received>>
      PROVE  SctpInv'
  <2> USE <1>1 DEF Sctp!Sigaction, Sctp!Bind, Sctp!Options
  <2>1. Sctp!TypeOK'
    BY DEF SctpInv, Sctp!TypeOK, Sctp!Running
  <2>2. Descriptors'
    BY DEF SctpInv, Descriptors, Sctp!StdinLostOnlyEarly, Sctp!Running
  <2>3. Cut'
    BY DEF SctpInv, Cut
  <2>4. Association'
    BY DEF SctpInv, Association, Sctp!Running
  <2> QED BY <2>1, <2>2, <2>3, <2>4 DEF SctpInv
<1>2. ASSUME Sctp!Socket,
             UNCHANGED <<Sctp!signalVars, server, bound, Sctp!netVars, received>>
      PROVE  SctpInv'
  <2> USE <1>2 DEF Sctp!Socket
  <2>1. Sctp!TypeOK'
    BY DEF SctpInv, Sctp!TypeOK, Sctp!Running
  <2>2. Descriptors'
    <3> USE DEF SctpInv, Sctp!TypeOK, Descriptors, Sctp!StdinLostOnlyEarly, Sctp!Running
    <3>1. CASE pc' = "assign -1" /\ UNCHANGED fd
      BY <3>1
    <3>2. CASE fd[0] = "closed" /\ pc' = "assign" /\ fd' = [fd EXCEPT ![0] = "socket"]
      BY <3>2
    <3>3. CASE fd[0] # "closed" /\ pc' = "assign" /\ fd' = [fd EXCEPT ![3] = "socket"]
      BY <3>3
    <3> QED BY <3>1, <3>2, <3>3
  <2>3. Cut'
    BY DEF SctpInv, Cut
  <2>4. Association'
    BY DEF SctpInv, Association, Sctp!Running
  <2> QED BY <2>1, <2>2, <2>3, <2>4 DEF SctpInv
<1>3. ASSUME Sctp!Assign,
             UNCHANGED <<Sctp!signalVars, server, bound, Sctp!netVars, received>>
      PROVE  SctpInv'
  <2> USE <1>3 DEF Sctp!Assign
  <2>1. sock' \in {-1, 0, 3} /\ (sock' = 0 => early)
    <3>1. CASE pc = "assign" /\ sock' = IF fd[3] = "socket" THEN 3 ELSE 0
      BY <3>1 DEF SctpInv, Descriptors
    <3>2. CASE pc = "assign -1" /\ sock' = -1
      <4> HIDE <1>3 DEF Sctp!Assign
      <4>1. sock' \in {-1, 0, 3}
        BY <3>2
      <4>2. -1 # 0
        OBVIOUS
      <4>3. sock' # 0
        BY <3>2, <4>2, Zenon
      <4> QED BY <4>1, <4>3
    <3> QED BY <3>1, <3>2
  <2> HIDE DEF Sctp!Assign
  <2>2. /\ pc \in Sctp!Unassigned /\ pc' = "bind"
        /\ UNCHANGED <<fd, i, assoc, flying, news>>
    BY DEF Sctp!Assign
  <2>3. Sctp!TypeOK'
    BY <2>1, <2>2 DEF SctpInv, Sctp!TypeOK, Sctp!Running
  <2>4. Descriptors'
    BY <2>1, <2>2 DEF SctpInv, Descriptors, Sctp!StdinLostOnlyEarly, Sctp!Running
  <2>5. Cut'
    BY <2>2 DEF SctpInv, Cut
  <2>6. Association'
    BY <2>2 DEF SctpInv, Association, Sctp!Running
  <2> QED BY <2>3, <2>4, <2>5, <2>6 DEF SctpInv
<1>4. ASSUME NEW how \in Sctp!Ended, Sctp!ClientEnds(how),
             UNCHANGED <<sock, i, flying, news, server, bound, Sctp!netVars, received>>,
             signals' \in 0 .. MaxSignals, early' \in BOOLEAN,
             cut' = cut
      PROVE  SctpInv'
  <2> USE <1>4 DEF Sctp!ClientEnds
  <2>1. how \notin Sctp!Running
    BY DEF Sctp!Ended, Sctp!Running
  <2>2. fd'[0] = "closed" /\ fd'[3] = "closed"
    OBVIOUS
  <2>3. Sctp!TypeOK'
    BY DEF SctpInv, Sctp!TypeOK
  <2>4. Descriptors'
    BY <2>1, <2>2 DEF SctpInv, Descriptors, Sctp!StdinLostOnlyEarly, Sctp!Running
  <2>5. Cut'
    BY <2>1, <2>2 DEF SctpInv, Cut, Sctp!Running
  <2>6. Association'
    BY <2>1 DEF SctpInv, Sctp!TypeOK, Association
  <2> QED BY <2>3, <2>4, <2>5, <2>6 DEF SctpInv
<1>5. ASSUME Sctp!Bindx \/ Sctp!Connectx \/ Sctp!Send \/ Sctp!Close,
             UNCHANGED <<Sctp!signalVars, server, bound, Sctp!netVars, received>>
      PROVE  SctpInv'
  <2>1. CASE pc = "bindx" /\ pc' = "options" /\ UNCHANGED <<sock, fd, i, assoc, flying, news>>
    <3>1. Sctp!TypeOK'
      BY <1>5, <2>1 DEF SctpInv, Sctp!TypeOK, Sctp!Running
    <3>2. Descriptors' /\ Cut' /\ Association'
      BY <1>5, <2>1
      DEF SctpInv, Descriptors, Cut, Association, Sctp!StdinLostOnlyEarly, Sctp!Running
    <3> QED BY <3>1, <3>2 DEF SctpInv
  <2>2. CASE /\ pc = "connect" /\ pc' = "send" /\ assoc' = "up" /\ news' = news + 1
             /\ UNCHANGED <<sock, fd, i, flying>>
    <3>1. news = 0
      BY <2>2 DEF SctpInv, Sctp!TypeOK, Association, Sctp!Running
    <3>2. Sctp!TypeOK'
      BY <1>5, <2>2, <3>1 DEF SctpInv, Sctp!TypeOK, Sctp!Running
    <3>3. Descriptors' /\ Cut'
      BY <1>5, <2>2 DEF SctpInv, Descriptors, Cut, Sctp!StdinLostOnlyEarly, Sctp!Running
    <3>4. Association'
      BY <2>2, <3>1 DEF Association
    <3> QED BY <3>2, <3>3, <3>4 DEF SctpInv
  <2>3. CASE /\ pc = "send" /\ i < NUMBER_OF_MESSAGES /\ i' = i + 1
             /\ flying' = IF Sctp!Usable /\ assoc = "up" THEN flying + 1 ELSE flying
             /\ UNCHANGED <<pc, fd, assoc, sock, news>>
    <3>1. /\ i \in Nat /\ received \in Nat /\ flying \in Nat /\ cut \in Nat
          /\ NUMBER_OF_MESSAGES \in Nat
      BY DEF SctpInv, Sctp!TypeOK
    <3>2. Sctp!Usable => cut = NUMBER_OF_MESSAGES
      BY DEF SctpInv, Sctp!TypeOK, Cut, Sctp!Usable
    <3>3. /\ received + flying' <= i' /\ received + flying' <= cut
          /\ flying' \in 0 .. NUMBER_OF_MESSAGES
      BY <2>3, <3>1, <3>2 DEF SctpInv, Cut
    <3>4. Sctp!TypeOK'
      BY <1>5, <2>3, <3>1, <3>3 DEF SctpInv, Sctp!TypeOK
    <3>5. Descriptors' /\ Association'
      BY <1>5, <2>3 DEF SctpInv, Descriptors, Association, Sctp!StdinLostOnlyEarly
    <3>6. Cut'
      BY <1>5, <2>3, <3>3 DEF SctpInv, Cut
    <3> QED BY <3>4, <3>5, <3>6 DEF SctpInv
  <2>4. CASE \E how \in Sctp!Ended : Sctp!ClientEnds(how) /\ UNCHANGED <<sock, i, flying, news>>
    BY <1>4, <1>5, <2>4 DEF SctpInv, Sctp!TypeOK
  <2> QED
    BY <1>5, <2>1, <2>2, <2>3, <2>4
    DEF Sctp!Bindx, Sctp!Connectx, Sctp!Send, Sctp!Close, Sctp!GoOn, Sctp!MoreToSend, Sctp!Ended
<1>6. CASE Sctp!ClientSignal
  <2>1. /\ pc \in Sctp!Running /\ signals' \in 0 .. MaxSignals
        /\ early' = (early \/ pc \in Sctp!Unassigned)
        /\ cut' = IF pc # "sigaction" /\ Sctp!Usable /\ cut = NUMBER_OF_MESSAGES
                  THEN i ELSE cut
        /\ UNCHANGED <<sock, i, server, bound, Sctp!netVars, flying, received, news>>
    <3>1. signals' = signals + 1 /\ signals < MaxSignals /\ signals \in 0 .. MaxSignals
      BY <1>6 DEF Sctp!ClientSignal, SctpInv, Sctp!TypeOK
    <3>2. signals' \in 0 .. MaxSignals
      BY <3>1
    <3> HIDE DEF Sctp!Unassigned
    <3> QED BY <1>6, <3>2 DEF Sctp!ClientSignal, Sctp!handle_signal
  <2>2. early' \in BOOLEAN /\ early \in BOOLEAN
    BY <2>1 DEF SctpInv, Sctp!TypeOK
  <2>3. CASE pc = "sigaction" /\ Sctp!ClientEnds("killed")
    BY <1>4, <2>1, <2>2, <2>3 DEF Sctp!Ended
  <2>4. CASE pc # "sigaction" /\ Sctp!CloseSocket(sock) /\ UNCHANGED pc
    <3>1. /\ fd' \in [{0, 3} -> {"stdin", "socket", "closed"}]
          /\ \A f \in {0, 3} : fd'[f] = IF f = sock THEN "closed" ELSE fd[f]
          /\ assoc' \in {assoc, "closing"} /\ (assoc # "up" => assoc' = assoc)
      BY <2>4 DEF Sctp!CloseSocket, SctpInv, Sctp!TypeOK
    <3>2. cut' \in 0 .. NUMBER_OF_MESSAGES
      BY <2>1 DEF SctpInv, Sctp!TypeOK
    <3>3. Sctp!TypeOK'
      BY <2>1, <2>2, <2>4, <3>1, <3>2 DEF SctpInv, Sctp!TypeOK
    <3>4. fd'[0] = (IF sock = 0 THEN "closed" ELSE fd[0])
          /\ fd'[3] = (IF sock = 3 THEN "closed" ELSE fd[3])
      BY <3>1
    <3>5. early => early'
      BY <2>1
    <3>6. sock = 0 => early'
      BY <2>1, <2>4 DEF SctpInv, Descriptors
    <3>7. Descriptors'
      <4>1. pc' = pc /\ sock' = sock
        BY <2>1, <2>4
      <4>2. fd'[0] # "stdin" => early'
        BY <2>1, <3>4, <3>5, <3>6 DEF SctpInv, Descriptors, Sctp!StdinLostOnlyEarly
      <4>3. ~(fd'[0] = "socket" /\ fd'[3] = "socket")
            /\ (pc \in {"sigaction", "socket"} => fd'[0] # "socket" /\ fd'[3] # "socket")
        BY <3>4 DEF SctpInv, Descriptors
      <4>4. pc \in {"sigaction"} \cup Sctp!Unassigned => sock = 0
        BY DEF SctpInv, Descriptors
      <4> QED BY <2>4, <3>6, <4>1, <4>2, <4>3, <4>4 DEF Descriptors, Sctp!StdinLostOnlyEarly
    <3>8. Cut'
      <4>1. CASE Sctp!Usable /\ cut = NUMBER_OF_MESSAGES
        <5>1. cut' = i /\ pc \notin {"sigaction", "socket"}
          BY <2>1, <2>4, <4>1 DEF Sctp!Usable, SctpInv, Sctp!TypeOK, Descriptors
        <5>2. fd'[0] # "socket" /\ fd'[3] # "socket"
          BY <3>4, <4>1 DEF Sctp!Usable, SctpInv, Sctp!TypeOK, Descriptors
        <5> QED BY <2>1, <2>4, <5>1, <5>2 DEF SctpInv, Cut
      <4>2. CASE ~(Sctp!Usable /\ cut = NUMBER_OF_MESSAGES)
        <5>1. cut' = cut
          BY <2>1, <4>2
        <5> QED BY <2>1, <2>4, <3>4, <5>1 DEF SctpInv, Cut
      <4> QED BY <4>1, <4>2
    <3>9. Association'
      BY <2>1, <2>4, <3>1 DEF SctpInv, Sctp!TypeOK, Association
    <3> QED BY <3>3, <3>7, <3>8, <3>9 DEF SctpInv
  <2> QED BY <1>6, <2>3, <2>4 DEF Sctp!ClientSignal, Sctp!handle_signal
<1>7. CASE Sctp!ServerSetup \/ Sctp!PathFails \/ Sctp!PathReturns \/ UNCHANGED sctpVars
  <2> USE <1>7 DEF Sctp!ServerSetup, Sctp!PathFails, Sctp!PathReturns, sctpVars,
                   Sctp!BoundAddresses
  <2>1. UNCHANGED <<pc, sock, fd, i, signals, early, cut, assoc, flying, received, news>>
    OBVIOUS
  <2>2. bound' \subseteq Sctp!Path /\ up' \subseteq Sctp!Path
    BY DEF SctpInv, Sctp!TypeOK
  <2>3. server' \in {"setup", "recv", "exited"} /\ failures' \in 0 .. MaxFailures
    BY DEF SctpInv, Sctp!TypeOK
  <2>4. apart' \in BOOLEAN
    BY DEF SctpInv, Sctp!TypeOK
  <2> HIDE <1>7
  <2>5. Sctp!TypeOK'
    BY <2>1, <2>2, <2>3, <2>4 DEF SctpInv, Sctp!TypeOK
  <2>6. Descriptors' /\ Cut' /\ Association'
    BY <2>1 DEF SctpInv, Descriptors, Cut, Association, Sctp!StdinLostOnlyEarly
  <2> QED BY <2>5, <2>6 DEF SctpInv
<1>8. CASE Sctp!Receive
  <2>1. /\ UNCHANGED <<pc, sock, fd, i, signals, early, cut, server, bound, up, failures,
                       apart, assoc>>
        /\ \/ /\ flying > 0 /\ flying' = flying - 1 /\ received' = received + 1
              /\ news' = news
           \/ /\ news > 0 /\ news' = news - 1
              /\ flying' = flying /\ received' = received
    BY <1>8 DEF Sctp!Receive, Sctp!ReceiveMessage, Sctp!print_notification
  <2>2. /\ flying \in Nat /\ received \in Nat /\ news \in 0 .. 2
        /\ i \in 0 .. NUMBER_OF_MESSAGES /\ NUMBER_OF_MESSAGES \in Nat
        /\ received + flying <= i
    BY DEF SctpInv, Sctp!TypeOK, Cut
  <2>3. /\ flying' \in 0 .. NUMBER_OF_MESSAGES /\ received' \in 0 .. NUMBER_OF_MESSAGES
        /\ received' + flying' = received + flying
        /\ news' \in 0 .. 2 /\ news' <= news
    BY <2>1, <2>2
  <2>4. Sctp!TypeOK'
    BY <2>1, <2>3 DEF SctpInv, Sctp!TypeOK
  <2>5. Descriptors' /\ Cut'
    BY <2>1, <2>3 DEF SctpInv, Descriptors, Cut, Sctp!StdinLostOnlyEarly
  <2>6. Association'
    BY <2>1, <2>2, <2>3 DEF SctpInv, Sctp!TypeOK, Association
  <2> QED BY <2>4, <2>5, <2>6 DEF SctpInv
<1>9. CASE Sctp!ServerSignal \/ Sctp!AssociationLost
  <2> USE <1>9 DEF Sctp!ServerSignal, Sctp!AssociationLost
  <2>1. /\ UNCHANGED <<pc, sock, fd, i, signals, early, cut, bound, up, failures, received>>
        /\ flying' = 0
        /\ server' \in {server, "exited"} /\ apart' \in {apart, TRUE}
        /\ \/ assoc' = assoc /\ assoc = "none" /\ news' = news
           \/ assoc # "none" /\ assoc' = "lost" /\ news' = news
           \/ assoc \in {"up", "closing"} /\ assoc' = "lost" /\ news' = news + 1
    OBVIOUS
  <2> HIDE <1>9
  <2>2. /\ received \in Nat /\ flying \in Nat /\ news \in 0 .. 2
        /\ (assoc \in {"up", "closing"} => news <= 1)
    BY DEF SctpInv, Sctp!TypeOK, Association
  <2>3. news' \in 0 .. 2
    BY <2>1, <2>2
  <2>4. Sctp!TypeOK'
    <3>1. apart' \in BOOLEAN
      BY <2>1 DEF SctpInv, Sctp!TypeOK
    <3>2. server' \in {"setup", "recv", "exited"} /\ assoc' \in {"none", "up", "closing", "lost"}
      BY <2>1 DEF SctpInv, Sctp!TypeOK
    <3>3. flying' \in 0 .. NUMBER_OF_MESSAGES
      BY <2>1
    <3>4. UNCHANGED <<pc, sock, fd, i, signals, early, cut, bound, up, failures, received>>
      BY <2>1
    <3> QED BY <2>3, <3>1, <3>2, <3>3, <3>4 DEF SctpInv, Sctp!TypeOK
  <2>5. Descriptors'
    BY <2>1 DEF SctpInv, Descriptors, Sctp!StdinLostOnlyEarly
  <2>7. Cut'
    BY <2>1, <2>2 DEF SctpInv, Cut, Sctp!TypeOK
  <2>6. Association'
    <3>1. pc' = pc /\ (assoc = "none" => assoc' = "none" /\ news' = news)
      BY <2>1
    <3>2. assoc # "none" => assoc' = "lost"
      BY <2>1
    <3>3. assoc = "none" => news <= 0
      BY DEF SctpInv, Association
    <3> QED BY <2>3, <3>1, <3>2, <3>3 DEF SctpInv, Association
  <2> QED BY <2>4, <2>5, <2>6, <2>7 DEF SctpInv
<1> QED
  BY <1>1, <1>2, <1>3, <1>5, <1>6, <1>7, <1>8, <1>9 DEF Sctp!Next, Sctp!ClientStep

\* What a SIGINT may do to the descriptors, and to the messages.
LEMMA SctpSafe == SctpInv => Sctp!StdinLostOnlyEarly /\ Sctp!NothingAfterClose
BY DEF SctpInv, Descriptors, Cut, Sctp!NothingAfterClose

-----------------------------------------------------------------------------
(***************************************************************************)
(* The programs together.                                                  *)
(***************************************************************************)
ServicesInv == StreamInv /\ DownloadInv /\ PersonInv /\ SctpInv

\* A step of the group is a step or a stutter of each program.
LEMMA ServicesStep ==
  [Next]_vars => /\ [Stream!Next]_streamVars /\ [Download!Next]_downloadVars
                 /\ [Person!Next]_personVars /\ [Sctp!Next]_sctpVars
BY DEF Next, Idle, vars

\* The invariant of every networked program holds in every behaviour.
THEOREM ServicesInvariance == Spec => []ServicesInv
<1>1. Init => ServicesInv
  BY StreamInit, DownloadInit, PersonInit, SctpInit DEF Init, ServicesInv
<1>2. ServicesInv /\ [Next]_vars => ServicesInv'
  BY ServicesStep, StreamNext, DownloadNext, PersonNext, SctpNext DEF ServicesInv
<1> QED BY <1>1, <1>2, PTL DEF Spec

\* The unlocked strings of simple_client.cxx:31-49 are never used by both
\* threads, for any number of clients and messages.
THEOREM ThreadsNeverMeet == Spec => []NoConflict
<1>1. ServicesInv => NoConflict
  BY StreamSafe DEF ServicesInv, NoConflict
<1> QED BY <1>1, ServicesInvariance, PTL

\* What the clients report as a success is one, for any number of messages,
\* chunks and callers (simple_client.cxx:53, file_client.cxx:46,
\* thrift-tests/client.cpp:28).
THEOREM SuccessIsTrue == Spec => []SuccessMeansDone
<1>1. ServicesInv => SuccessMeansDone
  BY StreamSafe, DownloadSafe, PersonSafe DEF ServicesInv, SuccessMeansDone
<1> QED BY <1>1, ServicesInvariance, PTL

\* SIGINT closes what it should, however many come and whenever they do
\* (client.cpp:84-88,206,230).
THEOREM SignalsSafe == Spec => []SignalsCloseTheSocket
<1>1. ServicesInv => SignalsCloseTheSocket
  BY SctpSafe DEF ServicesInv, SignalsCloseTheSocket
<1> QED BY <1>1, ServicesInvariance, PTL

=============================================================================
