---------------------------- MODULE SharedMemory ----------------------------
(***************************************************************************)
(* The mailbox of SimpleSHM.h, used by the programs SHM_Writer and         *)
(* SHM_Reader.  The segment is shared by all processes.  The mutex is a    *)
(* member of the static instance, so each process has one of its own; it   *)
(* is an error-checking mutex: locking it twice fails with EDEADLK, which  *)
(* the code ignores.  memcpy is not atomic: a cell is copied per step.     *)
(*                                                                         *)
(* A message is a model value; only its length and which of its bytes a    *)
(* cell holds matter, so a cell holds the message that was last copied     *)
(* over it.  All processes run in the directory of "shmfile", so that      *)
(* ftok gives them the same key.                                           *)
(***************************************************************************)
EXTENDS Naturals

CONSTANTS
  Thread,
  Process,
  ProcessOf,   \* the process each thread belongs to
  Message,
  StrLen,      \* strlen of each message
  Size,        \* cells of the segment, and the len every reader asks for
  MaxCalls,    \* calls of each thread (a bound)
  Free, Zero   \* an unlocked mutex; a cell nobody has written

SharedMemoryAssumption ==
  /\ ProcessOf \in [Thread -> Process]
  /\ Size \in Nat
  /\ StrLen \in [Message -> 1 .. Size]
  /\ MaxCalls \in Nat
  /\ Free \notin Thread
  /\ Zero \notin Message

VARIABLES
  segment,   \* the shared cells
  removed,   \* IPC_RMID has been done
  m,         \* the owner of each process's mutex
  op,        \* what each thread is doing
  at,        \* the cell its memcpy copies next
  dataIn,    \* the argument of its write
  dataOut,   \* the buffer of its read
  calls,     \* the calls it has begun
  last,      \* history: its last call
  image,     \* history: the segment had every write been one step
  raced,     \* history: two writes have overlapped
  quiet      \* history: the readers whose read no write has overlapped

shmVars == <<segment, removed, m, op, at, dataIn, dataOut, calls, last, image, raced,
             quiet>>

Cell == 1 .. Size
Copying(t) == op[t] \in {"write", "read"}
Writing == {t \in Thread : op[t] = "write"}

TypeOK ==
  /\ segment \in [Cell -> Message \cup {Zero}]
  /\ image \in [Cell -> Message \cup {Zero}]
  /\ removed \in BOOLEAN /\ raced \in BOOLEAN
  /\ m \in [Process -> Thread \cup {Free}]
  /\ op \in [Thread -> {"out", "write", "read", "crashed"}]
  /\ at \in [Thread -> 1 .. (Size + 1)]
  /\ dataIn \in [Thread -> Message \cup {Zero}]
  /\ dataOut \in [Thread -> [Cell -> Message \cup {Zero}]]
  /\ calls \in [Thread -> 0 .. MaxCalls]
  /\ last \in [Thread -> {"none", "write", "read"}]
  /\ quiet \subseteq Thread

Init ==
  /\ segment = [c \in Cell |-> Zero] /\ image = segment
  /\ removed = FALSE /\ raced = FALSE /\ quiet = {}
  /\ m = [p \in Process |-> Free]
  /\ op = [t \in Thread |-> "out"]
  /\ at = [t \in Thread |-> 1]
  /\ dataIn = [t \in Thread |-> Zero]
  /\ dataOut = [t \in Thread |-> segment]
  /\ calls = [t \in Thread |-> 0]
  /\ last = [t \in Thread |-> "none"]

-----------------------------------------------------------------------------
(***************************************************************************)
(* pthread_mutex_lock returns when the mutex is free, and at once, with an *)
(* ignored error, when the caller has it already; otherwise it waits.      *)
(***************************************************************************)
LockPlain(t) ==  \* mutated: an ordinary mutex
  m[ProcessOf[t]] = Free /\ m' = [m EXCEPT ![ProcessOf[t]] = t]

LockNever(t) ==  \* mutated: the lock does not wait
  m' = [m EXCEPT ![ProcessOf[t]] = t]

MutexLock(t) ==
  /\ m[ProcessOf[t]] \in {Free, t}
  /\ m' = [m EXCEPT ![ProcessOf[t]] = t]

\* unlocking a mutex of another thread only returns an error
MutexUnlock(t) ==
  m' = IF m[ProcessOf[t]] = t THEN [m EXCEPT ![ProcessOf[t]] = Free] ELSE m

(***************************************************************************)
(* lock, then shmat.  A removed segment is gone once nobody is attached;   *)
(* shmat then gives -1, which is used as an address: the process crashes.  *)
(***************************************************************************)
Enter(t, what) ==
  /\ op[t] = "out" /\ calls[t] < MaxCalls
  /\ MutexLock(t)
  /\ calls' = [calls EXCEPT ![t] = @ + 1]
  /\ last' = [last EXCEPT ![t] = what]
  /\ op' = IF removed /\ ~\E u \in Thread : Copying(u)
           THEN [u \in Thread |->
                   IF ProcessOf[u] = ProcessOf[t] THEN "crashed" ELSE op[u]]
           ELSE [op EXCEPT ![t] = what]

\* argument and buffer are the caller's: they are forgotten when the call returns
Return(t) ==
  /\ op' = [op EXCEPT ![t] = "out"]
  /\ at' = [at EXCEPT ![t] = 1]
  /\ dataIn' = [dataIn EXCEPT ![t] = Zero]
  /\ dataOut' = [dataOut EXCEPT ![t] = [c \in Cell |-> Zero]]

BeginWrite(t) ==
  /\ Enter(t, "write")
  /\ \E msg \in Message : dataIn' = [dataIn EXCEPT ![t] = msg]
  /\ raced' = (raced \/ Writing # {})
  /\ quiet' = {}
  /\ UNCHANGED <<segment, removed, at, dataOut, image>>

CopyLess(msg) == StrLen[msg] - 1  \* mutated: one byte less

\* memcpy(str, dataIn, strlen(dataIn)): the terminating 0 is not copied
CopyLength(msg) == StrLen[msg]

WriteCell(t) ==
  /\ op[t] = "write" /\ at[t] <= CopyLength(dataIn[t])
  /\ segment' = [segment EXCEPT ![at[t]] = dataIn[t]]
  /\ at' = [at EXCEPT ![t] = @ + 1]
  /\ UNCHANGED <<removed, m, op, dataIn, dataOut, calls, last, image, raced, quiet>>

EndWrite(t) ==
  /\ op[t] = "write" /\ at[t] > CopyLength(dataIn[t])
  /\ MutexUnlock(t)
  /\ Return(t)
  /\ image' = [c \in Cell |-> IF c <= StrLen[dataIn[t]] THEN dataIn[t] ELSE image[c]]
  /\ UNCHANGED <<segment, removed, calls, last, raced, quiet>>

BeginRead(t) ==
  /\ Enter(t, "read")
  /\ quiet' = IF Writing = {} THEN quiet \cup {t} ELSE quiet
  /\ UNCHANGED <<segment, removed, at, dataIn, dataOut, image, raced>>

ReadCell(t) ==
  /\ op[t] = "read" /\ at[t] <= Size
  /\ dataOut' = [dataOut EXCEPT ![t][at[t]] = segment[at[t]]]
  /\ at' = [at EXCEPT ![t] = @ + 1]
  /\ UNCHANGED <<segment, removed, m, op, dataIn, calls, last, image, raced, quiet>>

UnlockAfterRead(t) == MutexUnlock(t)  \* mutated: the mutex is given back

\* a second lock where an unlock is meant
LockAfterRead(t) == MutexLock(t)

EndRead(t) ==
  /\ op[t] = "read" /\ at[t] > Size
  /\ LockAfterRead(t)
  /\ Return(t)
  /\ quiet' = quiet \ {t}
  /\ UNCHANGED <<segment, removed, calls, last, image, raced>>

Remove ==
  /\ ~removed
  /\ removed' = TRUE
  /\ UNCHANGED <<segment, m, op, at, dataIn, dataOut, calls, last, image, raced, quiet>>

Step(t) ==
  \/ BeginWrite(t) \/ WriteCell(t) \/ EndWrite(t)
  \/ BeginRead(t) \/ ReadCell(t) \/ EndRead(t)

Next == Remove \/ \E t \in Thread : Step(t)

\* a thread goes on when it is not blocked; nobody has to remove the segment
Spec == Init /\ [][Next]_shmVars /\ \A t \in Thread : WF_shmVars(Step(t))

-----------------------------------------------------------------------------
(***************************************************************************)
(* Threads of one process never copy at the same time (the mutex of write  *)
(* and read, SimpleSHM.h:36 and 46).                                       *)
(***************************************************************************)
Exclusion ==
  \A t, u \in Thread :
    Copying(t) /\ Copying(u) /\ ProcessOf[t] = ProcessOf[u] => t = u

(***************************************************************************)
(* A read that no write has overlapped returns what the writes so far left *)
(* behind when no two of them overlapped: the last message, followed by    *)
(* the tail of longer earlier ones, since write copies no terminator       *)
(* (SimpleSHM.h:38 and 48).                                                *)
(***************************************************************************)
QuietReadIsWhole ==
  \A t \in Thread :
    op[t] = "read" /\ at[t] > Size /\ t \in quiet /\ ~raced => dataOut[t] = image

(***************************************************************************)
(* The calls of a thread that has its process to itself, as the two        *)
(* programs have, all return, the read that follows a read too: the second *)
(* lock of SimpleSHM.h:50 fails instead of blocking.                       *)
(***************************************************************************)
AloneReturned ==
  \A t \in Thread :
    (\A u \in Thread : ProcessOf[u] = ProcessOf[t] => u = t)
      => op[t] = "crashed" \/ (calls[t] = MaxCalls /\ op[t] = "out")

AloneReturns == <>AloneReturned

(***************************************************************************)
(* With more threads a read shuts the others out: once a thread has read,  *)
(* no other thread of its process begins a call before it writes, and if   *)
(* it never writes, none ever does (SimpleSHM.h:50).                       *)
(***************************************************************************)
ReaderShutsOut ==
  [][\A t, u \in Thread :
       (ProcessOf[t] = ProcessOf[u] /\ t # u /\ last[t] = "read")
         => calls'[u] = calls[u]]_shmVars
=============================================================================
