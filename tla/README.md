# A verification project for MyCpp

MyCpp is a collection of small C++, C, Python and Lua programs around sending
and serving requests: three request senders and the thread pool two of them
share, a load generator and the server it loads, a batch sender with retries, a
rotating logger used by a gRPC client and server, and a number of demos (a
linked list, shared memory, SCTP, a configuration watcher, ...). There is no
common main program: a "component" below is one program or one class. Most of
them are concurrent, and what is hard about them is concurrency, failure paths
and limits.

The project consists of TLA+ modules that model the components from their
source, TLC configurations that check them on small instances, and TLAPS proofs
of the most important results for every instance. `PROJECT.json` is the
machine-readable index: components, runs, mutants (for every checked property
one plausible defect of the code that breaks it), the map from definitions to
source lines, findings, hazards and theorems.

    tlc -config MCPooledSender.cfg MCPooledSender # one run
    tlapm ThreadPoolProofs.tla                    # one of the *Proofs modules

## 1. Inventory

| Component | State | Operations | Interacts through | Hard because |
|---|---|---|---|---|
| `rate.cxx` pool | task queue, `stop`, `queue_mutex`, `condition`, worker threads | constructor, `enqueue_task`, `worker_thread`, destructor | mutex and condition variable | lost wakeups, shutdown with queued work, spurious wakeups |
| `rate3.cxx` sender | the same pool, requests in flight | `send_requests_concurrently`, `send_request` | pool, TCP | no timeout, message before the work is done |
| `rate2.cxx` sender | a thread per request | spawn, join, `send_request` | TCP | thread limit, order of ends |
| `test.cxx` batch sender | request queue, `queueMutex` | `processBatch`, `sendRequest`, `main` | shared queue | failed requests re-enter the queue |
| `fast_client.cxx` | futures, request counter, libcurl's global state | batches, `std::async`, clean-up, final wait | libcurl, clock | pacing against timeouts, thread limit, clean-up order |
| `fast_server.cxx` | listening socket, pool queue, handlers | accept loop, `handleClient` | boost thread pool, TCP | blocking reads, exceptions, descriptor limit |
| `Logger.h` | stream, `toFile`, `logMutex`, the files | constructor, two `log()` overloads, `rotateLogFile` | threads of a process; processes on one path | rotation by several processes, failing opens, renames and insertions, names made of the local time |
| `ListDemo.c` | heap nodes, `head`, `currentNode` | `insert`, `search`, `deleteNode`, `printList` | one thread | pointer surgery, re-used memory, the mark -1 |
| `kaprekar.cxx` | a number and a counter | digit operators, the loop | - | loops that need not end, inputs with few digits |
| `SimpleSHM.h`, `SHM_*` | a segment, a mutex per process | `read`, `write`, `remove` | shared memory | second lock in `read`, no mutual exclusion between processes, no terminator |
| `config_handler.py` | last configuration, last mtime | poll, inotify, compare | file system, editors | half-written files, coarse mtimes, a watch that stays on the old inode |
| `simple_service/` | a stream, two client threads, globals | `Broadcast` on both sides | gRPC, `Logger` | two threads on one stream and on unlocked strings, deadline set too late |
| `file_service/` | output file, byte count | `GetFile` | gRPC, file system | errors not looked at |
| `server.cpp`, `client.cpp` | an SCTP socket each | send loop, receive loop, signal handler | SCTP, signals | handler closes what the loop uses, descriptors are re-used, paths fail |
| `DetachableThreadDemo` | a buffer, a detached thread | create, delete | memory | the buffer dies before its reader, nobody joins |
| `SampleSystemCommand.cpp` | a string | `run_cmd`, retry loop | popen | retries for ever |
| `load_get.lua` | cursor, keys | SCAN loop | Redis | nothing: Redis runs a script as one step |
| `h2_*` | callbacks | library servers and clients | nghttp2 | errors in callbacks |
| `thrift-tests/` | a connection per client, one served at a time | `ping`, `getPerson` | Thrift | a client that stays keeps all others waiting |

What makes them correct: a pool runs every task once and stops only when it has
drained; a sender's final message is true; a client stays within the load it
promises and cleans up last; a server serves whoever asks; a logger loses no
line; a list stays a list; a mailbox delivers whole messages; a watcher prints
every change once; a reported success is one; whatever is closed or lost on the
way, a program ends. The vendored `simdjson.*`, the generated `gen-cpp/`,
build files and data generators carry no logic of this repository.

## 2. Modules

Each module's variables carry the names of the code's variables where there are
such; `pc`-like variables say where a thread is, and variables marked *history*
in their comments record something for a property and guard nothing. Operators
named `X_Something` are mutants of `X`: they state a plausible defect and are
used only to show that the properties notice it.

**`TaskPool`** is the abstract promise of a pool: requests are accepted in
order, started in order, finished once, and the pool closes when all have
finished.

**`ThreadPool`** is `rate.cxx`. A critical section is two steps (take the
mutex; use and release), so that every interleaving outside it is covered:
`EnqueueLock`, `EnqueuePush`, `NotifyOne` are `enqueue_task`;
`DestructorLock`, `SetStop`, `NotifyAll`, `Join` the destructor; `WorkerLock`,
`WorkerWait`, `WorkerReturn`, `WorkerTake`, `RunTask` the loop of
`worker_thread`. `condition.wait` releases the mutex and sleeps in one step, is
woken by a notification or spuriously, and tests its predicate again under the
mutex. **`ThreadPoolProofs`** holds the theorems.

**`PooledSender`** extends `ThreadPool` to `rate3.cxx`: the tasks are
`send_request`s, those in `silent` never come back from `read_until`, and
`Announce` is the message that precedes the destructor. As it stands the file
does not compile (line 68 is malformed); the class is otherwise that of
`rate.cxx`, which is what is modelled. **`ThreadPerRequest`** is `rate2.cxx`.

**`BatchRetry`** is `test.cxx`: `Lock` to `EndInterval` are the turn of the loop
of `processBatch`, with the mutex held through sends and sleep. `processBatch`
receives queue and mutex by reference; the model lets several threads share
them, `main` starts one.

**`FastClient`** is `fast_client.cxx` with time in seconds. A batch takes at
least a second and may take longer; a request ends at any time up to its
timeout. `LaunchThrows` is `std::async` at the thread limit, which is one of
`ThreadLimits`. `THREAD_POOL_SIZE` (line 8) is used nowhere in the code, although
the comments speak of a pool of that size: every request has a thread of its
own, and the bound that really holds is `InFlightBounded`. What a request prints is left out, hence so is whether it succeeded.

**`FastServer`** is `fast_server.cxx`. The clients are the environment: they
connect, send and go away as they like; those in `silent` stay and send nothing.
Who is silent and how many sockets the process may open is chosen at the start
from the constants `Silences` and `SocketLimits`. Without a descriptor left
`accept` throws, whether or not a connection waits. A reset makes the read fail or the
`shutdown` throw; the socket is then released by its last `shared_ptr`. Data
that stays unread when the server closes (a request longer than the buffer) is
not modelled.

**`Logger`** is `Logger.h`. The file system is part of the state: names map to
files, a file lives on under the streams that have it open, `rename` replaces,
`open` for appending creates or continues. Sizes are in bytes and lines have any
of the `Lengths`: `rotateLogFile` compares the bytes already in the file, without
those of the line to come. An insertion may fail, with any part of the line
written; badbit then makes the stream swallow this line and the later ones, until
a close, which tries what is left in the buffer once more. `clock` is the local
time in seconds; `getTimestamp` writes it with the widest unit first, so a text
is modelled by its place in the order of the texts. The local time moves on or is
set back (the end of summer time, a corrected clock), so that stamps may repeat or
sort before earlier ones. A rotation is three steps (stat, close and choose a
name; rename; open), since nothing but `logMutex` protects it and other processes
do not have that mutex. An open, a rename or an insertion may fail at any time;
`failed` remembers which kind did, and `setBack` that the clock went back, so that
the properties can say what depends on it. `order` is the order in which the
calls wrote, under the mutex, which need not be the order in which they were
made. The `tm` that `localtime` shares between the threads of a process is read under
`logMutex`, so that one Logger per process, as the programs have it, does not race
for it.

**`LinkedList`** is `ListDemo.c` on an explicit heap, one step per node in the
loops; `malloc` returns any free address, or NULL when there is none.
**`ValueList`** is the sequence it promises to be, and **`LinkedListProofs`**
holds the theorems. The branch of `deleteNode` for a node without `prev` is not
an action: `HasPrev` says that it is never taken, and is proved.

**`SharedMemory`** is `SimpleSHM.h` with its two callers. `memcpy` copies a cell
per step, so that two processes, which share the segment but not the mutex, can
tear a message. The mutex is error-checking: the second lock of `read` fails
with EDEADLK, which nobody looks at, and the mutex stays locked. `remove` may
come at any time; the segment then lives on until its last user detaches, and a
process that attaches afterwards crashes. Torn messages are allowed by the properties, which say what holds when
no write overlaps.

**`ConfigWatcher`** is `config_handler.py` beside an editor that saves in place
(torn in the middle), by moving the file away (missing in the middle, another
inode afterwards) or atomically. Loading a file and reading its modification
time are steps of their own. `sameTick` (history) marks the one case in which
the watcher may miss a change: the watch is on the old inode and the new
modification time equals the old one. `Interrupt` is KeyboardInterrupt and the
`finally` clause, whose `rm_watch` may raise when the watched inode is gone.

**`Broadcast`** is `simple_client.cxx` and `simple_server.cxx`: the client's
writer thread, its main thread, which reads, and the server's handler, on a
stream that may not come about, hang or be lost. gRPC is external.
**`FileDownload`** is `file_client.cxx`; chunks that can no longer be written
are dropped silently, as an `ofstream` does.

**`SctpPair`** is `client.cpp` and `server.cpp`. `Sigaction` to `Close` are the
client's `main`, in the order of its calls; its signal handler closes whatever
`sock` holds, which is descriptor 0 before the socket has been assigned (then
even a new socket that got descriptor 0 is closed and assigned all the same), and
returns. The server's handler exits. Two paths fail and come back; an
association without a path may be lost. **`PersonService`** is `thrift-tests/`:
one connection at a time, clients that break off or hang.

**`Kaprekar`** is `kaprekar.cxx`: its digit operators and the loop. `breakNum`
and `makeNum` are recursive functions of the number and of the length; `Sort` is
a descending arrangement of the digits, whichever algorithm finds it. Arguments
have at most nine digits (`KaprekarAssumption`): ten make numbers that can pass
the width of `unsigned`, which the model leaves out.
**`DetachedThread`** is `DetachableThreadDemo.cpp`, which does not compile as it
stands (line 15 passes a literal where `RunCmd` takes a non-const reference);
its evident intent is modelled, with a read of the deleted argument as a read of
anything, and with a thread function that has no `return` (line 16) as one that
ends the thread or crashes the process.

**Groups.** The `MC*` modules add symmetry and the constants that a
configuration file cannot write. `MCSenders` (the three senders without a pool)
and `Programs` (the eight small programs above) instantiate modules that share
nothing: each behaviour runs one of them, chosen in the initial state, while the
variables of the others keep their initial values. `Programs` leaves every
constant open, for the proofs; `MCPrograms` extends it with the sets of the run
and with fairness. The reachable states are the
disjoint union of those of the programs, and a property of the group that
conjoins one of each program says of each exactly what it would say alone. Their
fairness is shared likewise: `Run(n)` is the n-th process of whichever program
runs, and `WF(Fair(n))` for n = 1, 2, 3 is the weak fairness that each module
states for itself. Where a group property conjoins several, `PROJECT.json`
lists a mutant for it, and the other operators marked `mutated:` break the other
conjuncts when substituted in the same way.

## 3. Runs

| Run | Instance | Shows |
|---|---|---|
| `pool` | 3 workers, 4 tasks, any set of them unanswered | mutual exclusion, FIFO order, each task once, no lost wakeup, the destructor drains, refinement of `TaskPool`; the other requests end while a thread is left, and the sender returns exactly when all are answered |
| `sender_announce` | the same | *violated*: the message comes before the requests are sent |
| `senders` | `test.cxx`: 2 threads, 4 requests, batches of 2; `rate2.cxx`: 4 requests, 3 threads granted; `fast_client.cxx`: 9 requests, 2 a second, timeout 2 s, 3, 8 or 9 threads granted | retried requests are neither lost nor doubled and wait their turn; requests in flight are bounded; what each sender says or does last is true of all requests; each ends |
| `server` | 3 connections, 0 to 2 of them silent, 2 threads, 2 or 4 sockets | every open socket has one owner on every path; connections are accepted though every thread is stuck; who sends is answered while a thread is left |
| `server_blocked` | 4 sockets | *violated*: with 2 silent clients nobody else is served |
| `logger` | 2 processes, 3 threads, 3 calls with lines of 1 and 2 bytes, maximum 2 bytes, 3 seconds, failing opens, renames and insertions | rotation is serialised in a process; a line is lost only when a rename replaces a rotated file or after an open or an insertion failed; one process's files read in the order written while the clock is not set back, and pass the maximum by less than their last line |
| `logger_size` | 2 processes, lines as long as the maximum | *violated*: with two processes a file grows past the maximum |
| `logger_debug` | console logger at INFO | *violated*: DEBUG is printed |
| `list` | 4 addresses, values -1, 4, 5 | the chain is sound, nothing leaks, refinement of `ValueList` |
| `programs` | mailbox: 2 threads of one process and 1 of another, 2 calls each, messages of 1 and 2 cells; watcher: 3 saves, 3 configurations; stream: 3 messages; download: 3 chunks; SCTP: 3 messages, 2 signals to the client, 2 failures of paths; Kaprekar: 0 to 9999 and three numbers of five digits; the detached thread; 2 Thrift clients | see below |
| `broadcast_all` | 2 clients, 1 message | *violated*: a message is answered on its own stream only |
| `download_success` | 3 chunks | *violated*: a failed write is reported as a success |

What `programs` shows:

- `MailboxSafe`: threads of a process exclude each other, and a read that meets
  no write gets the last message, followed by the tail of longer earlier ones.
  `ReaderShutsOut`: after a `read` no other thread of the process gets the
  mutex until the reader writes; a thread that has its process to itself, as in
  the two programs, is not hurt (part of `Terminates`).
- `WatcherSafe`: the printed lines replay the configuration, and only saves that
  are not atomic or put a non-object in the middle of a path end the watcher.
  `CatchesUp`: it ends up with the file's contents, but for `sameTick`.
- `NoConflict`: the client's threads never meet at the strings they share
  without a lock, since a reply exists only after the writer has left them.
- `SuccessMeansDone`: an OK stream has one reply per message, a reported download
  received every chunk and stored a prefix, a printed person means two calls
  handled once each.
- `SignalsCloseTheSocket`: only a SIGINT before `sock` is assigned closes the
  standard input, and nothing is sent after a close. `OnePathIsEnough`: a
  transfer survives the loss of either path.
- `KaprekarRoutine`: the digit operators against the least and greatest number
  over all arrangements of the digits, and at most seven turns. Arguments of one
  or two digits always end in the exit for equal digits, some of five digits go
  round for ever.
- `Terminates`: each program ends or its calls return, with the exceptions its
  module states: a hanging handler (the deadline of `simple_client.cxx` is set
  after the call has started), a hanging Thrift client, a Kaprekar argument of
  more than four digits. The watcher and the download, whose server is external,
  promise no end.

Bounds. In each run there are more tasks than workers, more requests than one
batch, more lines than a file holds, more connections than sockets or values
that occur twice, so that every queue is empty and non-empty, every limit is
reached and every failure path is taken. Where the environment sets a limit
(threads, sockets, silent clients) a run looks at a supply that suffices and at
one that does not, by choosing it in the initial state. The in-flight bound of
`fast_client.cxx` is attained: with one less TLC finds a counterexample, so the
instance is large enough for the worst case (a batch launched slowly, followed
by full ones). In `logger` a file holds one line of two bytes, or one of one byte
and another, which passes the maximum if it has two; three calls rotate up to two
times, by threads of one process or of two, and three seconds let the clock go on,
go back and repeat a stamp. Without the condition on the clock TLC finds a log
that reads out of order, and the bound of one line is attained. The processes
start at any time, so one of them alone is part of the run. Every call passes the
level: one below it returns at once and only uses up a call. In `programs` two calls per thread are a `read` followed by another
call; a long message before a short one leaves a tail; three saves are a change,
its undoing and a change within a tick; two failures take down both paths; two
signals close the socket and come again.

`CHECK_DEADLOCK FALSE` is used where the program may really stop: `rate3.cxx`
waits for ever for an unanswered request, the server waits for clients that need
not come, the small programs end, wait for their peers or, in the mailbox, for a
mutex that is not given back.

Fairness. Threads that can run are scheduled (weak fairness per thread or
process); nothing is assumed about the order in which a mutex is granted.
Spurious wakeups do not go on for ever. Time passes (`FastClient`). A client of
`fast_server.cxx` that is not silent sends. Every server of `rate2.cxx` answers
or closes the connection. A request of `test.cxx` that is tried again and again
succeeds: `sendRequest` fails by `rand() % 10 < 3`, and strong fairness of each
request's success stands for probability one. The environment of the small
programs owes nothing: no editor has to save, no signal has to come, no path has
to return, no server has to be there, and clients may hang.

Findings. Six runs are violations: comments or messages of the code that the
code does not bear out, and a size limit that two processes on one log file do
not keep. `PROJECT.json` quotes the lines.

## 4. Proofs

`ThreadPoolProofs`: for every non-empty set of workers and every number of
tasks, the type invariant, mutual exclusion, FIFO order, exactly-once execution,
no lost wakeup, drained at destruction, and the refinement of `TaskPool`. The
only assumption is `PoolAssumption` (the threads are distinct, the number of
tasks is a natural number). The runs' invariants are not inductive. That the
destructor drains the queue needs to know that a worker returns only from an
empty queue that nobody will fill again, hence `Phases`: how main's position,
`stop`, `submitted` and the workers' lives go together. That no task runs twice
needs `Holding`: a worker holds a popped and not yet executed task exactly while
it runs it, and no two hold the same. `FifoQueue` describes the queue as an
interval of task numbers, and three lemmas say that pushing and popping keep it
one. The refinement maps popping to `Start`, `RunTask` to `Finish` and `Join` to
`Close`, everything else to a stutter or `Accept`.

The same module carries these results over to `PooledSender`: every step of the
sender of `rate3.cxx` is a step of the pool or prints the message
(`SenderStep`), so all of them hold although a request may never end. With
`SilentInv` it follows that one request without an answer is enough to keep the
destructor in its join (`OneSilenceBlocks`, the safety half of
`ReturnsIfAnswered`), and that the message is printed between the last
`enqueue_task` and the destructor (`AnnouncedBetween`). The further assumption is
`SenderAssumption` (what the server leaves unanswered are requests).

`LinkedListProofs`: for every finite set of addresses and every set of values,
the types, `Linked`, `HasPrev`, `NothingLeaks` and the refinement of `ValueList`.
`Linked` is local (neighbours mirror each other, no dangling link); it needs the
head to keep its mark and the walking pointer to stay on allocated nodes
(`Walking`). The other two talk about the whole chain. Their invariant says that
there is a sequence of nodes that leads from `currentNode` along `prev` to the
head and has every allocated node once (`AllChained`); `insert` puts a node in
front of it and `deleteNode` takes one out. `Linked` alone does not exclude a
ring of nodes beside the chain, which is why the sequence is needed. The
refinement also needs what the loops have done so far: `search` has passed no
node with the value it looks for (`Scanned`), so that what it finds is the latest
occurrence; what `printList` has shown and what is still in front of it make up
the whole (`Printed`). `Nodes` and `Shown` are defined by recursion; what they
yield is proved by considering the least number for which it would be wrong
(`LeastNumber`, from the library's well-foundedness of the natural numbers),
which replaces the induction theorems the provers cannot instantiate. Assumption:
`ListAssumption` (memory is finite, NULL is no address).

`SendersProofs`, on `test.cxx`: for every set of threads, number of requests and
batch size, `Conserved`, `RetryWaitsItsTurn` and that the final message is true. None of
them is inductive. That a request is in one place only needs that a worker has
one exactly while it sends it (`Sending`) under the mutex (`MutexHeld`), and that
the queue repeats nothing and holds nothing that is being sent (`QueueSound`).
That nothing waits for ever in a queue nobody reads needs `Phases`: a worker
returns only from an empty queue while nobody sends. `RetryWaitsItsTurn` follows
from a statement about positions, `InFront`: whatever a request has to wait for
stands in front of it in the queue. Assumption: `BatchAssumption`.

The same module, on the three senders together. `rate2.cxx` needs only that threads
are joined in order after all were started. For `fast_client.cxx` the load bound
`REQUESTS_PER_SECOND * (Timeout + 2)` is not inductive, since it does not say
when the running requests began. `Paced` does: since a running request was
started, no more requests have been started than those of the current batch, a
batch for each second the request has run and, if the current batch began in this
very second, one batch more. The running requests lie in an interval of that
length, which bounds their number. That libcurl is cleaned up last needs that
every running request has its future in the vector (`Launched`), which the
removal of finished futures keeps. Assumption: `SendersAssumption` (natural
numbers; at least one request a second and at least one thread).

`FastServerProofs`: for all connections, threads and socket limits, the types
and `OneOwner`. A socket passes from the acceptor to the queue to a thread; the
invariant says that what they own is open (`OwnedOpen`), that no two own the same
(`OwnersApart`), that what is open is owned (`OpenOwned`), and that what waits in
the backlog has no socket yet (`BacklogSound`), so that accepting it cannot give
it a second owner. The set of connections may be infinite; that of open sockets
is finite, which the cardinalities need. Assumption: `ServerAssumption`.

`LoggerProofs`: for all processes, threads, numbers of calls and sizes, the
types, `Serialised`, `NothingLost`, `ReadsInOrder` and `OneLineOver`. `NothingLost` is about
files that have a name; it follows from two statements that are inductive: what
was logged is in some file, named or not, on the console or dropped (`Kept`), and
every file keeps a name until a rename replaces one (`AllNamed`). That lines are
dropped only after a failed open or insertion (`DroppedByFailure`) needs
`StreamOpen`, and so where a rotation has the stream closed and which streams have
badbit set (`Lives`). A process alone on its path passes the maximum by less than
a line (theorem `OvershootAlone`) because its stream is the file at the path,
except between the rename and the open, and is below the maximum when the line is
written (`AloneKeeps`); with two processes none of this holds, which is the
violation of `logger_size`. `ReadsInOrder` is
also about a process alone on its path. It needs that no file has two names
(`OneName`), so that nothing is read twice; that, while the clock has not been set
back, the names of rotated files are not later than the clock (`Stamped`); and
that the stream is the file at the path and the name chosen for it not before an
earlier one (`AloneAtPath`), so that a rotation puts the file at the end of the
rotated ones. The whole log is a
concatenation defined by recursion over the names; what it yields after a step
comes from `Downward`, which considers the largest name for which it would be
wrong. Assumption: `LoggerAssumption`.

`ServicesProofs`: `NoConflict`, `SuccessMeansDone` and `SignalsCloseTheSocket`
for all clients and numbers of messages, chunks and signals. For the stream,
messages are counted: what is on its way to the server, in its hand, on its way
back and read adds up to what was sent while the call is open and the handler
does not hang (`StreamCounts`); since nothing is sent before the writer has left
the strings, no reply can make the reader touch them earlier. For the download
the stored chunks are a prefix whose length the byte count bounds. For the Thrift
service `PersonPhase` ties each client's position to the calls handled for it and
to what is on the connection. For SCTP, `Descriptors` says which of the two
descriptors the socket is and when it can be 0, `Cut` that a socket closed by the handler is not made
again, `Association` that there is one association only.

`MailboxProofs`: `MailboxSafe`, the action property `ReaderShutsOut` and
`WatcherSafe`, for all processes, threads, messages, segment sizes, paths and
configurations. `Locked` says that who copies, and who has read last, has the
mutex of its process, and that a crash takes all threads of a process; exclusion
and `ReaderShutsOut` follow. A whole read needs `Whole`: as long as no two writes
have overlapped, the segment is the image of whole writes but for the cells that
the one write under way has copied. For the watcher, that the output replays the
configuration is inductive with `Loadable`: what has been loaded can be compared,
and the file can be loaded unless a save was unsafe.

`KaprekarProofs`: `KaprekarRoutine` for every argument of at most nine digits,
and the type invariant of all of `Programs`, whose other parts come from the two
modules above and from the detached thread's steps.

- *Recursion.* The library says nothing of a recursive function but its
  definition. `Recursion` proves, from the well-foundedness of the natural
  numbers, that a function exists whose value at n comes from its value at a
  smaller number; `breakNum`, `placeVal` and the sums of `makeNum` are such
  functions and so satisfy their equations. `Upward` is the induction that the
  other lemmas use, over a set instead of a predicate.
- *Smallest and largest.* `ExchangeDigits`: a larger digit that moves to a higher
  place makes a larger number. `Largest`: every order of the digits becomes the
  rising one by such moves, from the last place down. `Smallest` follows by
  replacing every digit by what is missing to nine (`Complement`). That there is
  a descending arrangement for `Sort` to choose is a selection sort (`CanSort`).
- *Types.* n digits make less than the n-th place value (`Bounded`), and a number
  below it has at most n digits (`DigitCount`), so a difference never has more
  digits than what it comes from, and `dscNum - ascNum` does not wrap.
- *Seven turns.* What is left of four digits is 999 x + 90 y, where x is the
  difference of the outer and y that of the inner digits once sorted
  (`FourDigits`), and the digits of that number are known from x and y
  (`DifferenceDigits`): they are never all equal (`NeverRejected`), and the
  turns that are left, a table of seven rows, go down with every turn
  (`StepDown`, 54 pairs in nine cases). The inductive invariant `OnTheWay` adds
  the turns made to the turns left.

The three rest on `ProgramsAssumption`, the conjunction of what the modules
assume: bounds are natural numbers, every thread has a process, a message fits
into the segment, `Free` and `Zero` are no thread and no message, a configuration
gives a value to each watched path, an argument of `kaprekar.cxx` has at most
nine digits.

Model-checked only are the liveness properties (`OthersEnd`, `ReturnsIfAnswered`,
`AllEnd`, `EveryoneAccepted`, `EveryoneServed`, `CatchesUp`, `OnePathIsEnough`,
`Terminates`): fairness is out of the prover's reach. Of `ReturnsIfAnswered`, the
half that needs none is `OneSilenceBlocks`. Every invariant that a passing run
checks is stated by a theorem.

## 5. Plan

Done in this order: pool (checked, proved), logger, batch sender, load
generator, server, senders, list (checked, proved), mailbox, watcher, broadcast
stream, download, SCTP pair, Kaprekar, detached thread, Thrift service.

Proved in this order: pool, list, batch sender, server, logger, the senders
together, the services, the mailbox and the watcher, that a log reads in order,
that the pool's results hold for `rate3.cxx`, and last `Kaprekar`, which
completes the type invariant of `Programs`.

What could follow: `kaprekar.cxx` with arguments of ten digits, where the
arithmetic of `unsigned` wraps; the liveness properties, with a prover for
fairness.

A composition of `FastClient` with `FastServer` was considered and left out: the
two meet only in a connection that is accepted or not and answered or not, both
of which each module already leaves open for the other.

## 6. Not modelled

- The vendored `simdjson.h` and `simdjson.cpp`: a third-party parser of 174,000
  lines, 98% of the repository, which no program of the repository includes. The
  share of all lines that the modules stand for is small for this reason alone.
- The generated serialisation in `gen-cpp/` (what is modelled of it is the order
  of the calls in `PersonService.cpp`), and the bodies of third-party libraries
  (boost.asio, libcurl, gRPC, nghttp2, Thrift, Redis, SCTP), which are modelled
  by how the code uses them and marked external in the map.
- `SampleSystemCommand.cpp`: one thread that repeats `popen` until a line comes
  back; whatever is said of it restates its loop condition.
- `load_get.lua`: Redis runs a script as one step, so keys cannot change during
  the scan.
- `h2_*`: straight-line set-up of callbacks, whose order is the library's.
- The exit of `client.cpp` for wrong arguments (lines 58-61), the texts that
  `print_notification` of `server.cpp` prints, and in `DetachableThreadDemo.cpp`
  the write one past the array (line 52) and the `delete` of what `new[]` gave
  (line 55).
- Wire formats, formatting and console output, except where a property is about
  it; build files, deployments and the one-shot data generators.
