------------------------------- MODULE Logger -------------------------------
(***************************************************************************)
(* The rotating logger of Logger.h.  Several processes may each own a      *)
(* Logger on the same path (run_client.sh starts one simple_client after   *)
(* the other in one directory); the threads of a process share its Logger  *)
(* and its logMutex, and nothing orders the processes.                     *)
(*                                                                         *)
(* The file system is part of the state: a directory that maps the log     *)
(* path and the names made by rotation to files, and the files themselves, *)
(* which live on under a stream that has them open when their name goes.   *)
(* A line is an abstract record with a length in bytes, and the size of a  *)
(* file, which stat() reports, counts the bytes that reached it.  An       *)
(* insertion may fail half way (a full disk); the stream then swallows     *)
(* every later line until it is opened again.  The clock is the local one, *)
(* which may be set back.                                                  *)
(***************************************************************************)
EXTENDS Naturals, Sequences

CONSTANTS
  Proc,          \* processes, each with one Logger
  Thread,        \* all threads that call log()
  ProcOf,        \* the process of a thread
  NoThread,      \* the value of a mutex that nobody holds
  CurrentLevel,  \* the level every Logger is constructed with
  Levels,        \* the levels the threads log at
  LogsToFile,    \* FALSE: the Loggers are constructed with an empty path
  Lengths,       \* the lengths of the lines, in bytes
  MaxFileSize,   \* maxFileSize, in bytes
  MaxCalls,      \* bound on the number of calls of log()
  MaxClock       \* bound on the local time, in seconds

\* enum LogLevel, in the order of its declaration.
INFO == 0
WARNING == 1
ERROR == 2
DEBUG == 3

LogLevel == {INFO, WARNING, ERROR, DEBUG}

ASSUME LoggerAssumption ==
  /\ ProcOf \in [Thread -> Proc]
  /\ NoThread \notin Thread
  /\ CurrentLevel \in LogLevel /\ Levels \subseteq LogLevel
  /\ LogsToFile \in BOOLEAN
  /\ Lengths \subseteq Nat \ {0} /\ Lengths # {}
  /\ MaxFileSize \in Nat \ {0}
  /\ MaxCalls \in Nat /\ MaxClock \in Nat

VARIABLES
  life,      \* each process: its Logger is "new", "alive" or "gone"
  toFile,    \* toFile of each Logger
  stream,    \* the file each logFile writes to, 0 when it is closed
  stuck,     \* the line whose insertion set badbit on logFile, {} when good
  logMutex,  \* the holder of each Logger's mutex
  pc,        \* where each thread is in log()
  calls,     \* how many calls have been made
  line,      \* the line each thread is logging
  newName,   \* the name each thread's rotation has chosen
  clock,     \* the local time in seconds, the resolution of getTimestamp
  dir,       \* the file each name denotes, 0 when there is none
  files,     \* the whole lines in every file ever created
  size,      \* the bytes in every file, pieces of lines included
  console,   \* what went to std::cout
  order,     \* the lines in the order their calls ended (history)
  clobbered, \* a rename has replaced an earlier rotated file (history)
  setBack,   \* the local time has gone back (history)
  dropped,   \* lines whose insertion into logFile did not succeed (history)
  failed     \* which library calls have failed (history)

vars == <<life, toFile, stream, stuck, logMutex, pc, calls, line, newName, clock,
          dir, files, size, console, order, clobbered, setBack, dropped, failed>>

\* Names: the log path, and the path with a timestamp appended.
Path == MaxClock + 1
Stamp == 0 .. MaxClock
Name == Stamp \cup {Path}

Line == [nr : 1 .. MaxCalls, level : LogLevel, len : Lengths]

\* What line holds for a thread that is not in log().
NoLine == [nr |-> 0, level |-> CurrentLevel, len |-> 0]

TypeOK ==
  /\ life \in [Proc -> {"new", "alive", "gone"}]
  /\ toFile \in [Proc -> BOOLEAN]
  /\ stream \in [Proc -> 0 .. Len(files)]
  /\ stuck \in [Proc -> SUBSET Line]
  /\ logMutex \in [Proc -> Thread \cup {NoThread}]
  /\ pc \in [Thread -> {"idle", "lock", "console", "stat", "rename", "open", "write"}]
  /\ calls \in 0 .. MaxCalls
  /\ \A t \in Thread : pc[t] # "idle" => line[t] \in Line
  /\ newName \in [Thread -> Stamp]
  /\ clock \in Stamp
  /\ dir \in [Name -> 0 .. Len(files)]
  /\ \A f \in DOMAIN files : \A i \in DOMAIN files[f] : files[f][i] \in Line
  /\ DOMAIN size = DOMAIN files /\ \A f \in DOMAIN size : size[f] \in Nat
  /\ \A i \in DOMAIN console : console[i] \in Line
  /\ clobbered \in BOOLEAN /\ setBack \in BOOLEAN
  /\ failed \subseteq {"open", "rename", "write"}

Init ==
  /\ life = [p \in Proc |-> "new"]
  /\ toFile = [p \in Proc |-> LogsToFile]
  /\ stream = [p \in Proc |-> 0]
  /\ stuck = [p \in Proc |-> {}]
  /\ logMutex = [p \in Proc |-> NoThread]
  /\ pc = [t \in Thread |-> "idle"]
  /\ calls = 0
  /\ line = [t \in Thread |-> NoLine]
  /\ newName = [t \in Thread |-> 0]
  /\ clock = 0
  /\ dir = [n \in Name |-> 0]
  /\ files = <<>>
  /\ size = <<>>
  /\ console = <<>>
  /\ order = <<>>
  /\ clobbered = FALSE
  /\ setBack = FALSE
  /\ dropped = {}
  /\ failed = {}

-----------------------------------------------------------------------------
(***************************************************************************)
(* The file system.                                                        *)
(***************************************************************************)

\* Mutant of OpenAppend: std::ios::out, which empties an existing file.
OpenAppend_Truncates(p) ==
  /\ IF dir[Path] # 0
     THEN /\ files' = [files EXCEPT ![dir[Path]] = <<>>]
          /\ size' = [size EXCEPT ![dir[Path]] = 0]
          /\ UNCHANGED dir
     ELSE /\ files' = Append(files, <<>>)
          /\ size' = Append(size, 0)
          /\ dir' = [dir EXCEPT ![Path] = Len(files) + 1]
  /\ stream' = [stream EXCEPT ![p] = dir'[Path]]

\* logFile.open(logFilePath, std::ios::app): the file of that name, made if
\* there is none, without touching what it holds.
OpenAppend(p) ==
  /\ IF dir[Path] # 0
     THEN UNCHANGED <<dir, files, size>>
     ELSE /\ files' = Append(files, <<>>)
          /\ size' = Append(size, 0)
          /\ dir' = [dir EXCEPT ![Path] = Len(files) + 1]
  /\ stream' = [stream EXCEPT ![p] = dir'[Path]]

\* The first k bytes of a line, all of them or fewer, reach the end of a file.
Put(f, e, k) ==
  /\ size' = [size EXCEPT ![f] = @ + k]
  /\ files' = IF k = e.len THEN [files EXCEPT ![f] = Append(@, e)] ELSE files

\* logFile.close(): what a failed insertion has left in the buffer is tried once
\* more, and may again get out in part or not at all.
Close(p) ==
  /\ stream' = [stream EXCEPT ![p] = 0]
  /\ stuck' = [stuck EXCEPT ![p] = {}]
  /\ IF stuck[p] = {}
     THEN UNCHANGED <<files, size>>
     ELSE \E e \in stuck[p] : \E k \in 0 .. e.len : Put(stream[p], e, k)

-----------------------------------------------------------------------------
(***************************************************************************)
(* The life of a Logger.                                                   *)
(***************************************************************************)

\* The constructor; a file that cannot be opened falls back to the console.
Construct(p) ==
  /\ life[p] = "new"
  /\ life' = [life EXCEPT ![p] = "alive"]
  /\ \/ LogsToFile /\ OpenAppend(p) /\ UNCHANGED <<toFile, failed>>
     \/ /\ toFile' = [toFile EXCEPT ![p] = FALSE]
        /\ failed' = IF LogsToFile THEN failed \cup {"open"} ELSE failed
        /\ UNCHANGED <<stream, dir, files, size>>
  /\ UNCHANGED <<stuck, logMutex, pc, calls, line, newName, clock, console, order,
                 clobbered, setBack, dropped>>

\* The destructor, which runs when no thread of the process is logging.
Destroy(p) ==
  /\ life[p] = "alive"
  /\ \A t \in Thread : ProcOf[t] = p => pc[t] = "idle"
  /\ life' = [life EXCEPT ![p] = "gone"]
  /\ Close(p)
  /\ UNCHANGED <<toFile, logMutex, pc, calls, line, newName, clock, dir,
                 console, order, clobbered, setBack, dropped, failed>>

-----------------------------------------------------------------------------
(***************************************************************************)
(* A call of log().                                                        *)
(***************************************************************************)

Goto(t, to) == pc' = [pc EXCEPT ![t] = to]

\* The test at the top of the template log().
Passes(level) == level >= CurrentLevel

NewCall(t) ==
  /\ life[ProcOf[t]] = "alive"
  /\ pc[t] = "idle"
  /\ calls < MaxCalls
  /\ calls' = calls + 1
  /\ UNCHANGED <<life, toFile, stream, stuck, logMutex, newName, clock, dir, files,
                 size, console, order, clobbered, setBack, dropped, failed>>

\* Mutant of LogMessage: the line is not formed.
LogMessage_Unformed(t, level, len) ==
  /\ NewCall(t)
  /\ Goto(t, IF Passes(level) THEN "lock" ELSE "idle")
  /\ UNCHANGED line

\* log() of a message: nothing at all happens below the current level.
LogMessage(t, level, len) ==
  /\ NewCall(t)
  /\ IF Passes(level)
     THEN /\ line' = [line EXCEPT ![t] = [nr |-> calls', level |-> level, len |-> len]]
          /\ Goto(t, "lock")
     ELSE UNCHANGED <<line, pc>>

\* The overload for time_t does not look at the level.
LogTime(t, level, len) ==
  /\ NewCall(t)
  /\ line' = [line EXCEPT ![t] = [nr |-> calls', level |-> level, len |-> len]]
  /\ Goto(t, "lock")

lock_guard_None(t) == UNCHANGED logMutex  \* mutated: no lock_guard
lock_guard(t) ==
  /\ logMutex[ProcOf[t]] = NoThread
  /\ logMutex' = [logMutex EXCEPT ![ProcOf[t]] = t]

Lock(t) ==
  /\ pc[t] = "lock"
  /\ lock_guard(t)
  /\ Goto(t, IF toFile[ProcOf[t]] THEN "stat" ELSE "console")
  /\ UNCHANGED <<life, toFile, stream, stuck, calls, line, newName, clock, dir,
                 files, size, console, order, clobbered, setBack, dropped, failed>>

\* The end of log(): the lock_guard and the line go out of scope.
Return(t) ==
  /\ logMutex' = [logMutex EXCEPT ![ProcOf[t]] = NoThread]
  /\ line' = [line EXCEPT ![t] = NoLine]
  /\ Goto(t, "idle")

WriteConsole(t) ==
  /\ pc[t] = "console"
  /\ console' = Append(console, line[t])
  /\ order' = Append(order, line[t])
  /\ Return(t)
  /\ UNCHANGED <<life, toFile, stream, stuck, calls, newName, clock, dir,
                 files, size, clobbered, setBack, dropped, failed>>

\* Mutant of Full: strictly greater.
Full_TooLate == dir[Path] # 0 /\ size[dir[Path]] > MaxFileSize

\* stat() succeeds on the path and st_size >= maxFileSize: the bytes already
\* there, without those of the line to come.
Full == dir[Path] # 0 /\ size[dir[Path]] >= MaxFileSize

\* localtime and strftime with the widest unit first: the text sorts as the
\* local time does, so that it is modelled by its place in that order.
getTimestamp_DayFirst == MaxClock - clock  \* mutated: does not sort by time
getTimestamp == clock

\* rotateLogFile, first part: a full file is closed and its new name chosen.
CheckSize(t) ==
  /\ pc[t] = "stat"
  /\ IF Full
     THEN /\ Close(ProcOf[t])
          /\ newName' = [newName EXCEPT ![t] = getTimestamp]
          /\ Goto(t, "rename")
     ELSE UNCHANGED <<stream, stuck, newName, files, size>> /\ Goto(t, "write")
  /\ UNCHANGED <<life, toFile, logMutex, calls, line, clock, dir, console, order,
                 clobbered, setBack, dropped, failed>>

AfterRename_Forgotten == "write"  \* mutated: no new file is opened
AfterRename == "open"

\* std::rename: replaces whatever has the new name, fails when the path is
\* gone; its result is not looked at.
Rename(t) ==
  /\ pc[t] = "rename"
  /\ \/ /\ dir[Path] # 0
        /\ dir' = [dir EXCEPT ![newName[t]] = dir[Path], ![Path] = 0]
        /\ clobbered' = (clobbered \/ dir[newName[t]] # 0)
        /\ UNCHANGED failed
     \/ /\ failed' = failed \cup {"rename"}
        /\ UNCHANGED <<dir, clobbered>>
  /\ Goto(t, AfterRename)
  /\ UNCHANGED <<life, toFile, stream, stuck, logMutex, calls, line, newName,
                 clock, files, size, console, order, setBack, dropped>>

\* The new log file; a failure is reported and leaves the stream closed, and
\* toFile stays as it is.  The chosen name goes out of scope.
Reopen(t) ==
  /\ pc[t] = "open"
  /\ \/ OpenAppend(ProcOf[t]) /\ UNCHANGED failed
     \/ failed' = failed \cup {"open"} /\ UNCHANGED <<stream, dir, files, size>>
  /\ newName' = [newName EXCEPT ![t] = 0]
  /\ Goto(t, "write")
  /\ UNCHANGED <<life, toFile, stuck, logMutex, calls, line, clock, console,
                 order, clobbered, setBack, dropped>>

\* logFile << line into an open and good stream: the line gets out, or some of
\* it or nothing does and badbit is set, with the line left in the buffer.
Insert(p, e) ==
  \E k \in 0 .. e.len :
    /\ Put(stream[p], e, k)
    /\ IF k = e.len
       THEN UNCHANGED <<stuck, dropped, failed>>
       ELSE /\ stuck' = [stuck EXCEPT ![p] = {e}]
            /\ dropped' = dropped \cup {e}
            /\ failed' = failed \cup {"write"}

\* A closed stream, or one with badbit set, swallows the line.
Swallow(e) == dropped' = dropped \cup {e} /\ UNCHANGED <<files, size, stuck, failed>>

\* The end of log() on a file.
WriteFile(t) ==
  /\ pc[t] = "write"
  /\ LET p == ProcOf[t] IN
     IF stream[p] # 0 /\ stuck[p] = {} THEN Insert(p, line[t]) ELSE Swallow(line[t])
  /\ order' = Append(order, line[t])
  /\ Return(t)
  /\ UNCHANGED <<life, toFile, stream, calls, newName, clock, dir, console,
                 clobbered, setBack>>

\* The local time moves on, or is set back (the end of summer time, a corrected
\* clock).
Tick ==
  \E now \in Stamp \ {clock} :
    /\ clock' = now
    /\ setBack' = (setBack \/ now < clock)
    /\ UNCHANGED <<life, toFile, stream, stuck, logMutex, pc, calls, line, newName,
                   dir, files, size, console, order, clobbered, dropped, failed>>

\* Every Logger has been destroyed.
Finished == (\A p \in Proc : life[p] = "gone") /\ UNCHANGED vars

LogStep(t) ==
  \/ Lock(t) \/ WriteConsole(t) \/ CheckSize(t) \/ Rename(t) \/ Reopen(t)
  \/ WriteFile(t)

Next ==
  \/ \E p \in Proc : Construct(p) \/ Destroy(p)
  \/ \E t \in Thread, level \in Levels, len \in Lengths :
       LogMessage(t, level, len) \/ LogTime(t, level, len)
  \/ \E t \in Thread : LogStep(t)
  \/ Tick
  \/ Finished

Spec == Init /\ [][Next]_vars

-----------------------------------------------------------------------------
(***************************************************************************)
(* Properties.                                                             *)
(***************************************************************************)

Elements(s) == {s[i] : i \in DOMAIN s}

\* The files a reader of the directory can find.
Linked == {dir[n] : n \in Name} \ {0}

OnDisk == UNION {Elements(files[f]) : f \in Linked}

\* Every line whose log() call has ended can be found in the directory or on
\* the console, whatever threads and processes rotate at the same time and
\* even when a rename fails (Logger.h:68-73,124-140).  The ways to lose one are
\* named: a rotation chose a name already taken and replaced a rotated file, the
\* new file could not be opened, or an insertion failed (a full disk), and the
\* stream swallowed that line and those after it.
NothingLost ==
  /\ ~clobbered => Elements(order) \subseteq OnDisk \cup Elements(console) \cup dropped
  /\ dropped # {} => failed \cap {"open", "write"} # {}

\* logMutex serialises a process: only its holder is inside the locked part
\* of log(), so a rotation is never seen half done by another thread
\* (Logger.h:58,90).
Serialised ==
  \A t \in Thread : pc[t] \notin {"idle", "lock"} <=> logMutex[ProcOf[t]] = t

\* The rotated files in the order of their timestamps, then the current one.
Contents(n) == IF dir[n] # 0 THEN files[dir[n]] ELSE <<>>

WholeLog ==
  LET from[n \in Name] ==
        IF n = Path THEN Contents(Path) ELSE Contents(n) \o from[n + 1]
  IN  from[0]

\* At most one process has used the path so far.
Alone == \A p, q \in Proc : life[p] # "new" /\ life[q] # "new" => p = q

\* One process whose local clock has not been set back: reading the rotated
\* files by timestamp and then the current one gives every line in the order the
\* calls wrote them, as long as no rotation replaced a file and no insertion
\* failed (Logger.h:115-121,131-135).
ReadsInOrder ==
  (Alone /\ ~setBack /\ ~clobbered /\ dropped = {} /\ console = <<>>) =>
    WholeLog = order

\* "Maximum log file size in bytes (for rotation)" (Logger.h:25): while no
\* rename fails, no file, rotated or current, outgrows the maximum.
MaximumKept ==
  "rename" \notin failed => \A f \in DOMAIN size : size[f] <= MaxFileSize

\* The size is tested before the line is written and without its length
\* (Logger.h:127), so that a file may pass the maximum; with one process whose
\* renames and insertions succeed it does so by its last line only: without that
\* line every file, rotated or current, is below the maximum.
OneLineOver ==
  (Alone /\ failed \cap {"rename", "write"} = {}) =>
    \A f \in DOMAIN files :
      files[f] # <<>> => size[f] < MaxFileSize + files[f][Len(files[f])].len

\* "This debug message will not be printed (current level is INFO)."
\* (Logger.cxx:16): a Logger at level INFO prints no message of level DEBUG.
DebugSuppressed ==
  CurrentLevel = INFO => \A i \in DOMAIN console : console[i].level # DEBUG

=============================================================================
