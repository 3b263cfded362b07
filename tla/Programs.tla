------------------------------ MODULE Programs ------------------------------
(***************************************************************************)
(* The small programs of the repository side by side.  They share nothing, *)
(* so each behaviour runs one of them, chosen in the initial state, while  *)
(* the variables of the others stay as they are.                           *)
(***************************************************************************)
EXTENDS Naturals, Sequences

CONSTANTS Thread, Process, ProcessOf, Message, StrLen, Size, MaxCalls, Free, Zero
CONSTANTS watched_paths, Config, MaxSaves, MaxClock, None, NotADict, Torn, Missing
CONSTANTS Client, NumMessages, NumChunks, NUMBER_OF_MESSAGES, MaxSignals, MaxFailures
CONSTANTS Inputs, MaxIter, Argument, Garbage, Caller, NoCaller

VARIABLES program
VARIABLES segment, removed, m, op, at, dataIn, dataOut, calls, last, image, raced, quiet
VARIABLES file, mtime, clock, saves, editing, watching, modify, where, last_config,
          last_mtime, shown, unsafe, sameTick
VARIABLES serving, call, reader, writer, sent, closed, requests, replies, got, handler
VARIABLES step, status, bytes_received, good, stored
VARIABLES pc, sock, fd, i, signals, server, bound, up, failures, assoc, flying, received,
          news, early, cut, apart
VARIABLES l_num, ascNum, dscNum, num_iter, outcome, width
VARIABLES main, l_ptr, worker, read
VARIABLES caller, backlog, current, request, reply, handled, hung

shmVars == <<segment, removed, m, op, at, dataIn, dataOut, calls, last, image, raced,
             quiet>>
watcherVars == <<file, mtime, clock, saves, editing, watching, modify, where,
                 last_config, last_mtime, shown, unsafe, sameTick>>
streamVars == <<serving, call, reader, writer, sent, closed, requests, replies, got,
                handler>>
downloadVars == <<step, status, bytes_received, good, stored>>
sctpVars == <<pc, sock, fd, i, signals, server, bound, up, failures, assoc, flying,
              received, news, early, cut, apart>>
kaprekarVars == <<l_num, ascNum, dscNum, num_iter, outcome, width>>
detachedVars == <<main, l_ptr, worker, read>>
personVars == <<caller, backlog, current, request, reply, handled, hung>>
vars == <<program, shmVars, watcherVars, streamVars, downloadVars, sctpVars, kaprekarVars,
          detachedVars, personVars>>

Shm == INSTANCE SharedMemory
Watcher == INSTANCE ConfigWatcher
Stream == INSTANCE Broadcast
Download == INSTANCE FileDownload
Sctp == INSTANCE SctpPair
Kap == INSTANCE Kaprekar
Detached == INSTANCE DetachedThread
Person == INSTANCE PersonService

ASSUME ProgramsAssumption ==
  /\ Shm!SharedMemoryAssumption
  /\ Watcher!ConfigAssumption
  /\ Stream!BroadcastAssumption
  /\ Download!DownloadAssumption
  /\ Sctp!SctpAssumption
  /\ Kap!KaprekarAssumption

-----------------------------------------------------------------------------
Init ==
  /\ program \in {"shm", "watcher", "stream", "download", "sctp", "kaprekar", "detached",
                  "person"}
  /\ Shm!Init /\ Watcher!Init /\ Stream!Init /\ Download!Init /\ Sctp!Init /\ Kap!Init
  /\ Detached!Init /\ Person!Init
  /\ program # "watcher" => file = CHOOSE c \in Config : TRUE
  /\ program # "kaprekar" => l_num = 0

\* the variables of the programs that do not run
Idle(running) ==
  /\ IF running = "shm" THEN TRUE ELSE UNCHANGED shmVars
  /\ IF running = "watcher" THEN TRUE ELSE UNCHANGED watcherVars
  /\ IF running = "stream" THEN TRUE ELSE UNCHANGED streamVars
  /\ IF running = "download" THEN TRUE ELSE UNCHANGED downloadVars
  /\ IF running = "sctp" THEN TRUE ELSE UNCHANGED sctpVars
  /\ IF running = "kaprekar" THEN TRUE ELSE UNCHANGED kaprekarVars
  /\ IF running = "detached" THEN TRUE ELSE UNCHANGED detachedVars
  /\ IF running = "person" THEN TRUE ELSE UNCHANGED personVars
  /\ UNCHANGED program

Next ==
  \/ program = "shm" /\ Shm!Next /\ Idle("shm")
  \/ program = "watcher" /\ Watcher!Next /\ Idle("watcher")
  \/ program = "stream" /\ Stream!Next /\ Idle("stream")
  \/ program = "download" /\ Download!Next /\ Idle("download")
  \/ program = "sctp" /\ Sctp!Next /\ Idle("sctp")
  \/ program = "kaprekar" /\ Kap!Next /\ Idle("kaprekar")
  \/ program = "detached" /\ Detached!Next /\ Idle("detached")
  \/ program = "person" /\ Person!Next /\ Idle("person")

Spec == Init /\ [][Next]_vars

-----------------------------------------------------------------------------
\* The variables of every program keep their types.
TypeOK ==
  /\ Shm!TypeOK /\ Watcher!TypeOK /\ Stream!TypeOK /\ Download!TypeOK /\ Sctp!TypeOK
  /\ Kap!TypeOK /\ Detached!TypeOK /\ Person!TypeOK

\* SimpleSHM.h:34-51: threads of a process exclude each other, and a read that
\* meets no write gets the last message and the tail of longer earlier ones.
MailboxSafe == Shm!Exclusion /\ Shm!QuietReadIsWhole

\* SimpleSHM.h:50: who has read shuts the other threads of its process out.
ReaderShutsOut == Shm!ReaderShutsOut

\* config_handler.py:24-38,50,60: the printed lines replay the configuration,
\* and atomic saves of well-formed files never end the watcher.
WatcherSafe == Watcher!OutputReplays /\ Watcher!FailsOnlyUnsafe

\* config_handler.py:47-60: the watcher catches up with the file.
CatchesUp == program = "watcher" => Watcher!CatchesUp

\* simple_client.cxx:31-49: the threads never meet at the unlocked strings.
NoConflict == Stream!NoConflict

\* What a client of a service reports as a success is one: every message
\* answered (simple_client.cxx:53), every chunk received and none missing in
\* the middle of the file (file_client.cxx:46), both calls handled once
\* (thrift-tests/client.cpp:28).
SuccessMeansDone ==
  /\ Stream!OkMeansAnswered
  /\ Download!SuccessMeansReceived /\ Download!StoredIsPrefix
  /\ Person!OkMeansHandled

\* client.cpp:84-88,206,230: a SIGINT closes the socket and, before there is
\* one, at most the standard input; nothing is sent after it.
SignalsCloseTheSocket == Sctp!StdinLostOnlyEarly /\ Sctp!NothingAfterClose

\* client.cpp:157-165 and server.cpp:89-98: one of the two paths is enough.
OnePathIsEnough == program = "sctp" => Sctp!OnePathIsEnough

\* kaprekar.cxx:40-77: smallest and largest numbers, and at most seven turns.
KaprekarRoutine == Kap!SmallestAndLargest /\ Kap!SevenAreEnough

\* Each program ends, or its calls return, as its module says.
Terminates ==
  <>(\/ program = "shm" /\ Shm!AloneReturned
     \/ program = "stream" /\ Stream!Returned
     \/ program = "sctp" /\ pc \in Sctp!Ended
     \/ program = "kaprekar" /\ Kap!Ended
     \/ program = "detached" /\ Detached!Settled
     \/ program = "person" /\ Person!AllOver
     \/ program \in {"watcher", "download"})

=============================================================================
