---------------------------- MODULE MailboxProofs ---------------------------
(***************************************************************************)
(* The safety of the programs that meet in memory and in a file, for every *)
(* number of processes, threads, cells, messages and configurations:       *)
(* SimpleSHM.h (SharedMemory) and config_handler.py (ConfigWatcher).       *)
(***************************************************************************)
EXTENDS Programs, TLAPS

-----------------------------------------------------------------------------
(***************************************************************************)
(* The mutexes of the mailbox.                                             *)
(***************************************************************************)

\* Who copies has the mutex of its process, and so has who has read last; a
\* crash takes the threads of a process together.
Locked ==
  /\ \A t \in Thread : Shm!Copying(t) => m[ProcessOf[t]] = t
  /\ \A t \in Thread : last[t] = "read" /\ op[t] # "crashed" => m[ProcessOf[t]] = t
  /\ \A t \in Thread : op[t] = "write" => last[t] = "write"
  /\ \A t, u \in Thread : op[t] = "crashed" /\ ProcessOf[t] = ProcessOf[u] => op[u] = "crashed"

\* A call starts at the first cell, and a write ends at its message's length.
Counters ==
  \A t \in Thread :
    /\ op[t] = "out" => at[t] = 1
    /\ op[t] = "write" => dataIn[t] \in Message /\ at[t] <= StrLen[dataIn[t]] + 1

\* As long as no two writes have overlapped, the segment is the image of whole
\* writes, but for the cells the one write under way has copied.
Whole ==
  ~raced =>
    /\ \A t, u \in Shm!Writing : t = u
    /\ Shm!Writing = {} => segment = image
    /\ \A t \in Shm!Writing : \A c \in Shm!Cell :
         segment[c] = IF c < at[t] THEN dataIn[t] ELSE image[c]

\* A read no write has overlapped has copied the image so far.
Quiet ==
  /\ Shm!Writing # {} => quiet = {}
  /\ ~raced => \A t \in quiet : op[t] = "read" =>
                 \A c \in Shm!Cell : c < at[t] => dataOut[t][c] = image[c]

ShmInv == Shm!TypeOK /\ Locked /\ Counters /\ Whole /\ Quiet

\* Nobody has called (SimpleSHM.h:14-32).
LEMMA ShmInit == Shm!Init => ShmInv
<1> SUFFICES ASSUME Shm!Init PROVE ShmInv
  OBVIOUS
<1> USE ProgramsAssumption DEF Shm!SharedMemoryAssumption, Shm!Init
<1>1. Shm!TypeOK
  <2>1. removed \in BOOLEAN /\ raced \in BOOLEAN
    OBVIOUS
  <2>2. segment \in [Shm!Cell -> Message \cup {Zero}] /\ 1 \in 1 .. (Size + 1)
    OBVIOUS
  <2> QED BY <2>1, <2>2 DEF Shm!TypeOK
<1>2. Shm!Writing = {}
  BY DEF Shm!Writing
<1>3. Locked /\ Counters
  BY DEF Locked, Counters, Shm!Copying
<1>4. Whole /\ Quiet
  BY <1>2 DEF Whole, Quiet
<1> QED BY <1>1, <1>3, <1>4 DEF ShmInv

\* The part of write and read up to their first copy (SimpleSHM.h:36-37,
\* 46-47): with the lock the call begins, or the process crashes.
LEMMA EnterKeeps ==
  ASSUME ShmInv, NEW t \in Thread, NEW what \in {"write", "read"}, Shm!Enter(t, what)
  PROVE  /\ op[t] = "out" /\ at[t] = 1
         /\ m' \in [Process -> Thread \cup {Free}]
         /\ op' \in [Thread -> {"out", "write", "read", "crashed"}]
         /\ calls' \in [Thread -> 0 .. MaxCalls]
         /\ last' \in [Thread -> {"none", "write", "read"}]
         /\ \A u \in Thread : u # t => last'[u] = last[u] /\ calls'[u] = calls[u]
         /\ \A u \in Thread : u # t => op'[u] \in {op[u], "crashed"}
         /\ op'[t] \in {what, "crashed"}
         /\ (\E u \in Thread : Shm!Copying(u)) =>
              op'[t] = what /\ \A u \in Thread : u # t => op'[u] = op[u]
         /\ Locked'
<1> USE ProgramsAssumption DEF Shm!SharedMemoryAssumption
<1>1. /\ op[t] = "out" /\ calls[t] < MaxCalls
      /\ m[ProcessOf[t]] \in {Free, t}
      /\ m' = [m EXCEPT ![ProcessOf[t]] = t]
      /\ calls' = [calls EXCEPT ![t] = @ + 1]
      /\ last' = [last EXCEPT ![t] = what]
  BY DEF Shm!Enter, Shm!MutexLock
<1>2. at[t] = 1
  BY <1>1 DEF ShmInv, Counters
<1>3. /\ m' \in [Process -> Thread \cup {Free}]
      /\ \A u \in Thread : m'[ProcessOf[u]] =
           IF ProcessOf[u] = ProcessOf[t] THEN t ELSE m[ProcessOf[u]]
  BY <1>1 DEF ShmInv, Shm!TypeOK
<1>4. /\ calls' \in [Thread -> 0 .. MaxCalls]
      /\ \A u \in Thread : u # t => calls'[u] = calls[u]
  BY <1>1 DEF ShmInv, Shm!TypeOK
<1>5. /\ last' \in [Thread -> {"none", "write", "read"}]
      /\ \A u \in Thread : last'[u] = IF u = t THEN what ELSE last[u]
  BY <1>1 DEF ShmInv, Shm!TypeOK
<1>6. ASSUME NEW u \in Thread, u # t, ProcessOf[u] = ProcessOf[t]
      PROVE  op[u] = "out" /\ last[u] # "read"
  BY <1>1, <1>6 DEF ShmInv, Shm!TypeOK, Locked, Shm!Copying
<1>7. CASE removed /\ ~\E u \in Thread : Shm!Copying(u)
  <2>1. op' = [u \in Thread |-> IF ProcessOf[u] = ProcessOf[t] THEN "crashed" ELSE op[u]]
    BY <1>7 DEF Shm!Enter
  <2>2. /\ op' \in [Thread -> {"out", "write", "read", "crashed"}]
        /\ \A u \in Thread : op'[u] = IF ProcessOf[u] = ProcessOf[t] THEN "crashed" ELSE op[u]
    BY <2>1 DEF ShmInv, Shm!TypeOK
  <2>3. Locked'
    BY <1>3, <1>5, <2>2 DEF ShmInv, Locked, Shm!Copying
  <2> QED BY <1>1, <1>2, <1>3, <1>4, <1>5, <1>7, <2>2, <2>3
<1>8. CASE ~(removed /\ ~\E u \in Thread : Shm!Copying(u))
  <2>1. op' = [op EXCEPT ![t] = what]
    BY <1>8 DEF Shm!Enter
  <2>2. /\ op' \in [Thread -> {"out", "write", "read", "crashed"}]
        /\ \A u \in Thread : op'[u] = IF u = t THEN what ELSE op[u]
    BY <2>1 DEF ShmInv, Shm!TypeOK
  <2>3. \A u \in Thread : ProcessOf[u] = ProcessOf[t] => op[u] # "crashed"
    BY <1>1 DEF ShmInv, Locked
  <2>4. Locked'
    BY <1>3, <1>5, <1>6, <2>2, <2>3 DEF ShmInv, Locked, Shm!Copying
  <2> QED BY <1>1, <1>2, <1>3, <1>4, <1>5, <2>2, <2>4
<1> QED BY <1>7, <1>8

\* The end of write and read: the call's variables are forgotten.
LEMMA ReturnKeeps ==
  ASSUME ShmInv, NEW t \in Thread, Shm!Return(t)
  PROVE  /\ op' \in [Thread -> {"out", "write", "read", "crashed"}]
         /\ at' \in [Thread -> 1 .. (Size + 1)]
         /\ dataIn' \in [Thread -> Message \cup {Zero}]
         /\ dataOut' \in [Thread -> [Shm!Cell -> Message \cup {Zero}]]
         /\ op'[t] = "out" /\ at'[t] = 1
         /\ \A u \in Thread : u # t => /\ op'[u] = op[u] /\ at'[u] = at[u]
                                       /\ dataIn'[u] = dataIn[u] /\ dataOut'[u] = dataOut[u]
<1> USE ProgramsAssumption DEF Shm!SharedMemoryAssumption, Shm!Return
<1>1. 1 \in 1 .. (Size + 1)
  OBVIOUS
<1>2. /\ op' \in [Thread -> {"out", "write", "read", "crashed"}]
      /\ op'[t] = "out" /\ \A u \in Thread : u # t => op'[u] = op[u]
  BY DEF ShmInv, Shm!TypeOK
<1>3. /\ at' \in [Thread -> 1 .. (Size + 1)]
      /\ at'[t] = 1 /\ \A u \in Thread : u # t => at'[u] = at[u]
  BY <1>1 DEF ShmInv, Shm!TypeOK
<1>4. /\ dataIn' \in [Thread -> Message \cup {Zero}]
      /\ \A u \in Thread : u # t => dataIn'[u] = dataIn[u]
  BY DEF ShmInv, Shm!TypeOK
<1>5. /\ dataOut' \in [Thread -> [Shm!Cell -> Message \cup {Zero}]]
      /\ \A u \in Thread : u # t => dataOut'[u] = dataOut[u]
  BY DEF ShmInv, Shm!TypeOK
<1> QED BY <1>2, <1>3, <1>4, <1>5

\* Every step of a call and the removal of the segment (SimpleSHM.h:34-58).
LEMMA ShmNext == ShmInv /\ [Shm!Next]_shmVars => ShmInv'
<1> SUFFICES ASSUME ShmInv, [Shm!Next]_shmVars PROVE ShmInv'
  OBVIOUS
<1> USE ProgramsAssumption DEF Shm!SharedMemoryAssumption
<1>1. ASSUME NEW t \in Thread, Shm!BeginWrite(t) PROVE ShmInv'
  <2>1. PICK msg \in Message : dataIn' = [dataIn EXCEPT ![t] = msg]
    BY <1>1 DEF Shm!BeginWrite
  <2>2. /\ Shm!Enter(t, "write")
        /\ raced' = (raced \/ Shm!Writing # {})
        /\ quiet' = {}
        /\ UNCHANGED <<segment, removed, at, dataOut, image>>
    BY <1>1 DEF Shm!BeginWrite
  <2>3. /\ op[t] = "out" /\ at[t] = 1
        /\ m' \in [Process -> Thread \cup {Free}]
        /\ op' \in [Thread -> {"out", "write", "read", "crashed"}]
        /\ calls' \in [Thread -> 0 .. MaxCalls]
        /\ last' \in [Thread -> {"none", "write", "read"}]
        /\ \A u \in Thread : u # t => op'[u] \in {op[u], "crashed"}
        /\ op'[t] \in {"write", "crashed"}
        /\ Locked'
    BY <2>2, EnterKeeps
  <2>4. /\ dataIn' \in [Thread -> Message \cup {Zero}]
        /\ dataIn'[t] = msg /\ \A u \in Thread : u # t => dataIn'[u] = dataIn[u]
    BY <2>1 DEF ShmInv, Shm!TypeOK
  <2>5. raced' \in BOOLEAN
    BY <2>2
  <2>6. Shm!TypeOK'
    BY <2>2, <2>3, <2>4, <2>5 DEF ShmInv, Shm!TypeOK
  <2>7. Counters'
    <3>1. 1 <= StrLen[msg] + 1
      OBVIOUS
    <3> QED BY <2>2, <2>3, <2>4, <3>1 DEF ShmInv, Counters
  <2>8. Whole'
    <3> SUFFICES ASSUME ~raced' PROVE /\ \A w, u \in Shm!Writing' : w = u
                                      /\ Shm!Writing' = {} => segment = image
                                      /\ \A w \in Shm!Writing' : \A c \in Shm!Cell :
                                           segment[c] = IF c < at[w] THEN dataIn'[w] ELSE image[c]
      BY <2>2 DEF Whole
    <3>1. ~raced /\ Shm!Writing = {}
      BY <2>2
    <3>2. segment = image
      BY <3>1 DEF ShmInv, Whole
    <3>3. \A u \in Shm!Writing' : u = t
      BY <2>3, <3>1 DEF Shm!Writing
    <3>4. \A c \in Shm!Cell : ~(c < 1)
      BY DEF Shm!Cell
    <3> QED BY <2>3, <3>2, <3>3, <3>4
  <2>9. Quiet'
    BY <2>2 DEF Quiet
  <2> QED BY <2>3, <2>6, <2>7, <2>8, <2>9 DEF ShmInv
<1>2. ASSUME NEW t \in Thread, Shm!WriteCell(t) PROVE ShmInv'
  <2>1. /\ op[t] = "write" /\ at[t] <= StrLen[dataIn[t]]
        /\ segment' = [segment EXCEPT ![at[t]] = dataIn[t]]
        /\ at' = [at EXCEPT ![t] = @ + 1]
        /\ UNCHANGED <<removed, m, op, dataIn, dataOut, calls, last, image, raced, quiet>>
    BY <1>2 DEF Shm!WriteCell, Shm!CopyLength
  <2>2. /\ dataIn[t] \in Message /\ StrLen[dataIn[t]] \in 1 .. Size
        /\ at[t] \in Shm!Cell /\ at[t] \in Nat
    BY <2>1 DEF ShmInv, Shm!TypeOK, Counters, Shm!Cell
  <2>3. /\ segment' \in [Shm!Cell -> Message \cup {Zero}]
        /\ \A c \in Shm!Cell : segment'[c] = IF c = at[t] THEN dataIn[t] ELSE segment[c]
    BY <2>1, <2>2 DEF ShmInv, Shm!TypeOK
  <2>4. /\ at' \in [Thread -> 1 .. (Size + 1)]
        /\ \A u \in Thread : at'[u] = IF u = t THEN at[t] + 1 ELSE at[u]
    BY <2>1, <2>2 DEF ShmInv, Shm!TypeOK, Shm!Cell
  <2>5. Shm!TypeOK'
    BY <2>1, <2>3, <2>4 DEF ShmInv, Shm!TypeOK
  <2>6. Locked'
    BY <2>1 DEF ShmInv, Locked, Shm!Copying
  <2>7. Counters'
    BY <2>1, <2>2, <2>4 DEF ShmInv, Counters
  <2>8. Shm!Writing' = Shm!Writing /\ t \in Shm!Writing
    BY <2>1 DEF Shm!Writing
  <2>9. Whole'
    <3> SUFFICES ASSUME ~raced
                 PROVE  /\ \A w, u \in Shm!Writing : w = u
                        /\ \A w \in Shm!Writing : \A c \in Shm!Cell :
                             segment'[c] = IF c < at'[w] THEN dataIn[w] ELSE image[c]
      BY <2>1, <2>8 DEF Whole
    <3>1. \A w \in Shm!Writing : w = t
      BY <2>8 DEF ShmInv, Whole
    <3>2. ASSUME NEW c \in Shm!Cell
          PROVE  segment'[c] = IF c < at[t] + 1 THEN dataIn[t] ELSE image[c]
      <4>1. segment[c] = IF c < at[t] THEN dataIn[t] ELSE image[c]
        BY <2>8 DEF ShmInv, Whole
      <4>2. c \in Nat
        BY DEF Shm!Cell
      <4> QED BY <2>2, <2>3, <4>1, <4>2
    <3> QED BY <2>4, <3>1, <3>2
  <2>10. Quiet'
    BY <2>1, <2>8 DEF ShmInv, Quiet
  <2> QED BY <2>5, <2>6, <2>7, <2>9, <2>10 DEF ShmInv
<1>3. ASSUME NEW t \in Thread, Shm!EndWrite(t) PROVE ShmInv'
  <2>1. /\ op[t] = "write" /\ at[t] > StrLen[dataIn[t]]
        /\ m' = IF m[ProcessOf[t]] = t THEN [m EXCEPT ![ProcessOf[t]] = Free] ELSE m
        /\ Shm!Return(t)
        /\ image' = [c \in Shm!Cell |-> IF c <= StrLen[dataIn[t]] THEN dataIn[t] ELSE image[c]]
        /\ UNCHANGED <<segment, removed, calls, last, raced, quiet>>
    BY <1>3 DEF Shm!EndWrite, Shm!CopyLength, Shm!MutexUnlock
  <2>2. /\ dataIn[t] \in Message /\ StrLen[dataIn[t]] \in 1 .. Size
        /\ at[t] \in Nat /\ at[t] = StrLen[dataIn[t]] + 1
        /\ m[ProcessOf[t]] = t
    BY <2>1 DEF ShmInv, Shm!TypeOK, Counters, Locked, Shm!Copying
  <2>3. /\ op' \in [Thread -> {"out", "write", "read", "crashed"}]
        /\ at' \in [Thread -> 1 .. (Size + 1)]
        /\ dataIn' \in [Thread -> Message \cup {Zero}]
        /\ dataOut' \in [Thread -> [Shm!Cell -> Message \cup {Zero}]]
        /\ op'[t] = "out" /\ at'[t] = 1
        /\ \A u \in Thread : u # t => /\ op'[u] = op[u] /\ at'[u] = at[u]
                                      /\ dataIn'[u] = dataIn[u] /\ dataOut'[u] = dataOut[u]
    BY <2>1, ReturnKeeps
  <2>4. /\ m' \in [Process -> Thread \cup {Free}]
        /\ \A u \in Thread : m'[ProcessOf[u]] =
             IF ProcessOf[u] = ProcessOf[t] THEN Free ELSE m[ProcessOf[u]]
    BY <2>1, <2>2 DEF ShmInv, Shm!TypeOK
  <2>5. image' \in [Shm!Cell -> Message \cup {Zero}]
    BY <2>1, <2>2 DEF ShmInv, Shm!TypeOK
  <2>6. Shm!TypeOK'
    BY <2>1, <2>3, <2>4, <2>5 DEF ShmInv, Shm!TypeOK
  <2>7. Locked'
    <3>1. ASSUME NEW u \in Thread, u # t, ProcessOf[u] = ProcessOf[t]
          PROVE  ~Shm!Copying(u) /\ last[u] # "read"
      <4>1. op[u] # "crashed" /\ m[ProcessOf[u]] # u
        BY <2>1, <2>2, <3>1 DEF ShmInv, Locked
      <4> QED BY <4>1 DEF ShmInv, Locked
    <3>2. last[t] # "read"
      BY <2>1 DEF ShmInv, Locked
    <3>3. \A u \in Thread : op[u] = "crashed" => ProcessOf[u] # ProcessOf[t]
      BY <2>1 DEF ShmInv, Locked
    <3>4. \A u \in Thread : Shm!Copying(u)' => m'[ProcessOf[u]] = u
      BY <2>3, <2>4, <3>1 DEF ShmInv, Locked, Shm!Copying
    <3>5. \A u \in Thread : last'[u] = "read" /\ op'[u] # "crashed" => m'[ProcessOf[u]] = u
      <4> SUFFICES ASSUME NEW u \in Thread, last[u] = "read", op'[u] # "crashed"
                   PROVE  m'[ProcessOf[u]] = u
        BY <2>1
      <4>1. u # t /\ op[u] # "crashed" /\ ProcessOf[u] # ProcessOf[t]
        BY <2>3, <3>1, <3>2
      <4> QED BY <2>4, <4>1 DEF ShmInv, Locked
    <3>6. \A u \in Thread : op'[u] = "write" => last'[u] = "write"
      BY <2>1, <2>3 DEF ShmInv, Locked
    <3>7. \A u, v \in Thread :
            op'[u] = "crashed" /\ ProcessOf[u] = ProcessOf[v] => op'[v] = "crashed"
      BY <2>3, <3>3 DEF ShmInv, Locked
    <3> QED BY <3>4, <3>5, <3>6, <3>7 DEF Locked
  <2>8. Counters'
    BY <2>3 DEF ShmInv, Counters
  <2>9. t \in Shm!Writing /\ \A u \in Shm!Writing' : u \in Shm!Writing /\ u # t
    BY <2>1, <2>3 DEF Shm!Writing
  <2>10. Whole'
    <3> SUFFICES ASSUME ~raced
                 PROVE  Shm!Writing' = {} /\ segment = image'
      BY <2>1 DEF Whole
    <3>1. Shm!Writing' = {}
      BY <2>9 DEF ShmInv, Whole
    <3>2. ASSUME NEW c \in Shm!Cell PROVE segment[c] = image'[c]
      <4>1. segment[c] = IF c < at[t] THEN dataIn[t] ELSE image[c]
        BY <2>9 DEF ShmInv, Whole
      <4>2. c \in Nat
        BY DEF Shm!Cell
      <4>3. image'[c] = IF c <= StrLen[dataIn[t]] THEN dataIn[t] ELSE image[c]
        BY <2>1
      <4> QED BY <2>2, <4>1, <4>2, <4>3
    <3> QED BY <2>5, <3>1, <3>2 DEF ShmInv, Shm!TypeOK
  <2>11. Quiet'
    BY <2>1, <2>9 DEF ShmInv, Quiet
  <2> QED BY <2>6, <2>7, <2>8, <2>10, <2>11 DEF ShmInv
<1>4. ASSUME NEW t \in Thread, Shm!BeginRead(t) PROVE ShmInv'
  <2>1. /\ Shm!Enter(t, "read")
        /\ quiet' = IF Shm!Writing = {} THEN quiet \cup {t} ELSE quiet
        /\ UNCHANGED <<segment, removed, at, dataIn, dataOut, image, raced>>
    BY <1>4 DEF Shm!BeginRead
  <2>2. /\ op[t] = "out" /\ at[t] = 1
        /\ m' \in [Process -> Thread \cup {Free}]
        /\ op' \in [Thread -> {"out", "write", "read", "crashed"}]
        /\ calls' \in [Thread -> 0 .. MaxCalls]
        /\ last' \in [Thread -> {"none", "write", "read"}]
        /\ \A u \in Thread : u # t => op'[u] \in {op[u], "crashed"}
        /\ op'[t] \in {"read", "crashed"}
        /\ (\E u \in Thread : Shm!Copying(u)) => \A u \in Thread : u # t => op'[u] = op[u]
        /\ Locked'
    BY <2>1, EnterKeeps
  <2>3. quiet' \subseteq Thread
    BY <2>1 DEF ShmInv, Shm!TypeOK
  <2>4. Shm!TypeOK'
    BY <2>1, <2>2, <2>3 DEF ShmInv, Shm!TypeOK
  <2>5. Counters'
    BY <2>1, <2>2 DEF ShmInv, Counters
  <2>6. Shm!Writing' = Shm!Writing
    <3>1. CASE Shm!Writing = {}
      BY <2>2, <3>1 DEF Shm!Writing
    <3>2. CASE Shm!Writing # {}
      <4>1. \E u \in Thread : Shm!Copying(u)
        BY <3>2 DEF Shm!Writing, Shm!Copying
      <4> QED BY <2>2, <4>1 DEF Shm!Writing
    <3> QED BY <3>1, <3>2
  <2>7. Whole'
    BY <2>1, <2>6 DEF ShmInv, Whole
  <2>8. Quiet'
    <3>1. Shm!Writing' # {} => quiet' = {}
      BY <2>1, <2>6 DEF ShmInv, Quiet
    <3>2. ASSUME ~raced, NEW u \in quiet', op'[u] = "read", NEW c \in Shm!Cell, c < at[u]
          PROVE  dataOut[u][c] = image[c]
      <4>1. u # t
        BY <2>2, <3>2 DEF Shm!Cell
      <4>2. u \in quiet /\ op[u] = "read"
        BY <2>1, <2>2, <2>3, <3>2, <4>1
      <4> QED BY <3>2, <4>2 DEF ShmInv, Quiet
    <3> QED BY <2>1, <3>1, <3>2 DEF Quiet
  <2> QED BY <2>2, <2>4, <2>5, <2>7, <2>8 DEF ShmInv
<1>5. ASSUME NEW t \in Thread, Shm!ReadCell(t) PROVE ShmInv'
  <2>1. /\ op[t] = "read" /\ at[t] <= Size
        /\ dataOut' = [dataOut EXCEPT ![t][at[t]] = segment[at[t]]]
        /\ at' = [at EXCEPT ![t] = @ + 1]
        /\ UNCHANGED <<segment, removed, m, op, dataIn, calls, last, image, raced, quiet>>
    BY <1>5 DEF Shm!ReadCell
  <2>2. at[t] \in Shm!Cell /\ at[t] \in Nat /\ segment[at[t]] \in Message \cup {Zero}
    BY <2>1 DEF ShmInv, Shm!TypeOK, Shm!Cell
  <2>3. /\ dataOut' \in [Thread -> [Shm!Cell -> Message \cup {Zero}]]
        /\ \A u \in Thread : u # t => dataOut'[u] = dataOut[u]
        /\ \A c \in Shm!Cell : dataOut'[t][c] = IF c = at[t] THEN segment[c] ELSE dataOut[t][c]
    BY <2>1, <2>2 DEF ShmInv, Shm!TypeOK
  <2>4. /\ at' \in [Thread -> 1 .. (Size + 1)]
        /\ \A u \in Thread : at'[u] = IF u = t THEN at[t] + 1 ELSE at[u]
    BY <2>1, <2>2 DEF ShmInv, Shm!TypeOK, Shm!Cell
  <2>5. Shm!TypeOK'
    BY <2>1, <2>3, <2>4 DEF ShmInv, Shm!TypeOK
  <2>6. Locked'
    BY <2>1 DEF ShmInv, Locked, Shm!Copying
  <2>7. Counters'
    BY <2>1, <2>4 DEF ShmInv, Counters
  <2>8. Shm!Writing' = Shm!Writing /\ t \notin Shm!Writing
    BY <2>1 DEF Shm!Writing
  <2>9. Whole'
    <3>1. \A u \in Shm!Writing : at'[u] = at[u]
      BY <2>4, <2>8 DEF Shm!Writing
    <3> QED BY <2>1, <2>8, <3>1 DEF ShmInv, Whole
  <2>10. Quiet'
    <3>1. ASSUME ~raced, NEW u \in quiet, op[u] = "read", NEW c \in Shm!Cell, c < at'[u]
          PROVE  dataOut'[u][c] = image[c]
      <4>1. u \in Thread /\ segment = image
        BY <3>1 DEF ShmInv, Shm!TypeOK, Quiet, Whole
      <4>2. CASE u # t
        BY <2>3, <2>4, <3>1, <4>1, <4>2 DEF ShmInv, Quiet
      <4>3. CASE u = t
        <5>1. c \in Nat /\ (c = at[t] \/ c < at[t])
          BY <2>2, <2>4, <3>1, <4>3 DEF Shm!Cell
        <5>2. c # at[t] => dataOut[t][c] = image[c]
          BY <3>1, <4>3, <5>1 DEF ShmInv, Quiet
        <5> QED BY <2>3, <4>1, <4>3, <5>2
      <4> QED BY <4>2, <4>3
    <3>2. Shm!Writing' # {} => quiet' = {}
      BY <2>1, <2>8 DEF ShmInv, Quiet
    <3> QED BY <2>1, <3>1, <3>2 DEF Quiet
  <2> QED BY <2>5, <2>6, <2>7, <2>9, <2>10 DEF ShmInv
<1>6. ASSUME NEW t \in Thread, Shm!EndRead(t) PROVE ShmInv'
  <2>1. /\ op[t] = "read"
        /\ m' = [m EXCEPT ![ProcessOf[t]] = t]
        /\ Shm!Return(t)
        /\ quiet' = quiet \ {t}
        /\ UNCHANGED <<segment, removed, calls, last, image, raced>>
    BY <1>6 DEF Shm!EndRead, Shm!LockAfterRead, Shm!MutexLock
  <2>2. m' = m
    BY <2>1 DEF ShmInv, Shm!TypeOK, Locked, Shm!Copying
  <2>3. /\ op' \in [Thread -> {"out", "write", "read", "crashed"}]
        /\ at' \in [Thread -> 1 .. (Size + 1)]
        /\ dataIn' \in [Thread -> Message \cup {Zero}]
        /\ dataOut' \in [Thread -> [Shm!Cell -> Message \cup {Zero}]]
        /\ op'[t] = "out" /\ at'[t] = 1
        /\ \A u \in Thread : u # t => /\ op'[u] = op[u] /\ at'[u] = at[u]
                                      /\ dataIn'[u] = dataIn[u] /\ dataOut'[u] = dataOut[u]
    BY <2>1, ReturnKeeps
  <2>4. Shm!TypeOK'
    BY <2>1, <2>2, <2>3 DEF ShmInv, Shm!TypeOK
  <2>5. Locked'
    <3>1. \A u \in Thread : op[u] = "crashed" => ProcessOf[u] # ProcessOf[t]
      BY <2>1 DEF ShmInv, Locked
    <3>2. m[ProcessOf[t]] = t
      BY <2>1 DEF ShmInv, Locked, Shm!Copying
    <3>3. \A u \in Thread : Shm!Copying(u)' => m'[ProcessOf[u]] = u
      BY <2>2, <2>3 DEF ShmInv, Locked, Shm!Copying
    <3>4. \A u \in Thread : last'[u] = "read" /\ op'[u] # "crashed" => m'[ProcessOf[u]] = u
      BY <2>1, <2>2, <2>3, <3>2 DEF ShmInv, Locked
    <3>5. \A u \in Thread : op'[u] = "write" => last'[u] = "write"
      BY <2>1, <2>3 DEF ShmInv, Locked
    <3>6. \A u, v \in Thread :
            op'[u] = "crashed" /\ ProcessOf[u] = ProcessOf[v] => op'[v] = "crashed"
      BY <2>3, <3>1 DEF ShmInv, Locked
    <3> QED BY <3>3, <3>4, <3>5, <3>6 DEF Locked
  <2>6. Counters'
    BY <2>3 DEF ShmInv, Counters
  <2>7. Shm!Writing' = Shm!Writing /\ \A u \in Shm!Writing : at'[u] = at[u] /\ dataIn'[u] = dataIn[u]
    BY <2>1, <2>3 DEF Shm!Writing
  <2>8. Whole'
    BY <2>1, <2>7 DEF ShmInv, Whole
  <2>9. Quiet'
    <3>1. \A u \in quiet' : u \in quiet /\ u \in Thread /\ u # t
      BY <2>1 DEF ShmInv, Shm!TypeOK
    <3> QED BY <2>1, <2>3, <2>7, <3>1 DEF ShmInv, Quiet
  <2> QED BY <2>4, <2>5, <2>6, <2>8, <2>9 DEF ShmInv
<1>7. CASE Shm!Remove \/ UNCHANGED shmVars
  <2> USE <1>7 DEF Shm!Remove, shmVars
  <2>1. UNCHANGED <<segment, m, op, at, dataIn, dataOut, calls, last, image, raced, quiet>>
    OBVIOUS
  <2>2. removed' \in BOOLEAN
    BY DEF ShmInv, Shm!TypeOK
  <2> HIDE <1>7
  <2>3. Shm!TypeOK'
    BY <2>1, <2>2 DEF ShmInv, Shm!TypeOK
  <2>4. Locked' /\ Counters'
    BY <2>1 DEF ShmInv, Locked, Counters, Shm!Copying
  <2>5. Shm!Writing' = Shm!Writing
    BY <2>1 DEF Shm!Writing
  <2>6. Whole' /\ Quiet'
    BY <2>1, <2>5 DEF ShmInv, Whole, Quiet
  <2> QED BY <2>3, <2>4, <2>6 DEF ShmInv
<1> QED BY <1>1, <1>2, <1>3, <1>4, <1>5, <1>6, <1>7 DEF Shm!Next, Shm!Step

\* Exclusion by the mutex, and the content of a quiet read.
LEMMA ShmSafe == ShmInv => Shm!Exclusion /\ Shm!QuietReadIsWhole
<1> SUFFICES ASSUME ShmInv PROVE Shm!Exclusion /\ Shm!QuietReadIsWhole
  OBVIOUS
<1>1. Shm!Exclusion
  BY DEF ShmInv, Locked, Shm!Exclusion
<1>2. ASSUME NEW t \in Thread, op[t] = "read", at[t] > Size, t \in quiet, ~raced
      PROVE  dataOut[t] = image
  <2>1. /\ dataOut[t] \in [Shm!Cell -> Message \cup {Zero}]
        /\ image \in [Shm!Cell -> Message \cup {Zero}]
    BY DEF ShmInv, Shm!TypeOK
  <2>2. \A c \in Shm!Cell : c < at[t]
    BY <1>2, ProgramsAssumption
    DEF ShmInv, Shm!TypeOK, Shm!Cell, Shm!SharedMemoryAssumption
  <2>3. \A c \in Shm!Cell : dataOut[t][c] = image[c]
    BY <1>2, <2>2 DEF ShmInv, Quiet
  <2> QED BY <2>1, <2>3
<1> QED BY <1>1, <1>2 DEF Shm!QuietReadIsWhole

\* A thread that has read keeps the mutex, so that no other one gets in.
LEMMA ShmShutsOut ==
  ASSUME ShmInv, [Shm!Next]_shmVars, NEW t \in Thread, NEW u \in Thread,
         ProcessOf[t] = ProcessOf[u], t # u, last[t] = "read"
  PROVE  calls'[u] = calls[u]
<1> USE ProgramsAssumption DEF Shm!SharedMemoryAssumption
<1>1. ASSUME NEW v \in Thread, NEW what \in {"write", "read"}, Shm!Enter(v, what)
      PROVE  calls'[u] = calls[u]
  <2>1. v # u
    <3>1. SUFFICES ASSUME v = u PROVE FALSE
      OBVIOUS
    <3>2. op[u] = "out" /\ m[ProcessOf[u]] \in {Free, u}
      BY <1>1, <3>1 DEF Shm!Enter, Shm!MutexLock
    <3>3. op[t] # "crashed"
      BY <3>2 DEF ShmInv, Locked
    <3>4. m[ProcessOf[t]] = t
      BY <3>3 DEF ShmInv, Locked
    <3> QED BY <3>2, <3>4
  <2> QED BY <1>1, <2>1, EnterKeeps
<1>2. CASE calls' = calls
  BY <1>2
<1> QED
  BY <1>1, <1>2
  DEF Shm!Next, Shm!Step, Shm!BeginWrite, Shm!WriteCell, Shm!EndWrite, Shm!BeginRead,
      Shm!ReadCell, Shm!EndRead, Shm!Remove, shmVars

-----------------------------------------------------------------------------
(***************************************************************************)
(* config_handler.py.                                                      *)
(***************************************************************************)

\* As long as no save was unsafe, the file and what was loaded can be loaded.
Loadable ==
  ~unsafe =>
    /\ file \in Config /\ \A p \in watched_paths : file[p] # NotADict
    /\ last_config # None => \A p \in watched_paths : last_config[p] # NotADict

WatcherInv == Watcher!TypeOK /\ Loadable /\ Watcher!OutputReplays /\ Watcher!FailsOnlyUnsafe

\* The watcher has loaded nothing yet (config_handler.py:40-46).
LEMMA WatcherInit == Watcher!Init => WatcherInv
<1> SUFFICES ASSUME Watcher!Init PROVE WatcherInv
  OBVIOUS
<1> USE ProgramsAssumption DEF Watcher!ConfigAssumption, Watcher!Init
<1>1. {editing, watching, modify, unsafe, sameTick} \subseteq BOOLEAN
  OBVIOUS
<1>2. Watcher!TypeOK
  BY <1>1 DEF Watcher!TypeOK
<1>3. Loadable /\ Watcher!OutputReplays /\ Watcher!FailsOnlyUnsafe
  BY DEF Loadable, Watcher!OutputReplays, Watcher!FailsOnlyUnsafe
<1> QED BY <1>2, <1>3 DEF WatcherInv

\* A configuration is a function on the watched paths.
LEMMA ConfigValues ==
  ASSUME NEW c \in Config
  PROVE  c \in [watched_paths -> Watcher!Values] /\ c # None /\ c # Torn /\ c # Missing
<1> USE ProgramsAssumption DEF Watcher!ConfigAssumption
<1>1. c = [p \in watched_paths |-> c[p]]
  OBVIOUS
<1>2. \A p \in watched_paths : c[p] \in Watcher!Values
  BY DEF Watcher!Values
<1> QED BY <1>1, <1>2

\* An editor touches the file (config_handler.py only reads it).
LEMMA TouchKeeps ==
  ASSUME WatcherInv, NEW content \in Config \cup {Torn, Missing}, NEW new \in BOOLEAN,
         Watcher!Touch(content, new), saves' \in 0 .. MaxSaves, editing' \in BOOLEAN
  PROVE  WatcherInv'
<1> USE ProgramsAssumption DEF Watcher!ConfigAssumption
<1>1. /\ file' = content
      /\ mtime' \in {mtime, clock}
      /\ unsafe' = (unsafe \/ content \in {Torn, Missing}
                           \/ \E p \in watched_paths : content[p] = NotADict)
      /\ UNCHANGED <<clock, where, last_config, last_mtime, shown>>
  BY DEF Watcher!Touch, Watcher!watcherVars
<1>2. {editing', watching', modify', unsafe', sameTick'} \subseteq BOOLEAN
  BY DEF Watcher!Touch, WatcherInv, Watcher!TypeOK
<1>3. Watcher!TypeOK'
  BY <1>1, <1>2 DEF WatcherInv, Watcher!TypeOK
<1>4. unsafe => unsafe'
  BY <1>1
<1>5. ~unsafe' => content \in Config /\ \A p \in watched_paths : content[p] # NotADict
  BY <1>1
<1>6. Loadable'
  BY <1>1, <1>4, <1>5 DEF WatcherInv, Loadable
<1>7. Watcher!OutputReplays' /\ Watcher!FailsOnlyUnsafe'
  BY <1>1, <1>4 DEF WatcherInv, Watcher!OutputReplays, Watcher!FailsOnlyUnsafe
<1> QED BY <1>3, <1>6, <1>7 DEF WatcherInv

\* The file is loaded and the changes are printed: after them the reader of
\* the output believes what the file holds (config_handler.py:24-38).
LEMMA LoadKeeps ==
  ASSUME WatcherInv, NEW next \in {"poll", "events"}, Watcher!LoadAndCheck(next),
         UNCHANGED <<file, mtime, clock, saves, editing, watching, modify, unsafe, sameTick,
                     last_mtime>>
  PROVE  WatcherInv'
<1> USE ProgramsAssumption DEF Watcher!ConfigAssumption
<1>1. CASE Watcher!LoadRaises /\ where' = "failed" /\ UNCHANGED <<last_config, shown>>
  <2>1. unsafe
    <3>1. SUFFICES ASSUME ~unsafe PROVE FALSE
      OBVIOUS
    <3>2. /\ file \in Config /\ \A p \in watched_paths : file[p] # NotADict
          /\ last_config # None => \A p \in watched_paths : last_config[p] # NotADict
      BY <3>1 DEF WatcherInv, Loadable
    <3> QED BY <1>1, <3>2 DEF Watcher!LoadRaises
  <2>2. Watcher!TypeOK'
    BY <1>1 DEF WatcherInv, Watcher!TypeOK
  <2>3. Loadable' /\ Watcher!OutputReplays'
    BY <1>1 DEF WatcherInv, Loadable, Watcher!OutputReplays
  <2> QED BY <2>1, <2>2, <2>3 DEF WatcherInv, Watcher!FailsOnlyUnsafe
<1>2. CASE ~Watcher!LoadRaises /\ where' = next /\ Watcher!check_for_changes
  <2>1. /\ file \in Config /\ last_config' = file /\ shown' = Watcher!Believed
    BY <1>2 DEF Watcher!LoadRaises, Watcher!check_for_changes
  <2>2. file \in [watched_paths -> Watcher!Values]
    BY <2>1, ConfigValues
  <2>3. Watcher!Believed = file
    <3>1. CASE last_config = None
      BY <3>1 DEF Watcher!Believed
    <3>2. CASE last_config # None
      <4>1. shown = last_config
        BY <3>2 DEF WatcherInv, Watcher!OutputReplays
      <4>2. ASSUME NEW p \in watched_paths
            PROVE  (IF \E c \in Watcher!changes : c[1] = p /\ c[2] = shown[p]
                    THEN file[p] ELSE shown[p]) = file[p]
        <5>1. CASE last_config[p] = file[p]
          BY <4>1, <5>1
        <5>2. CASE last_config[p] # file[p]
          <6> DEFINE e == <<p, last_config[p], file[p]>>
          <6>1. e \in Watcher!changes
            BY <3>2, <5>2 DEF Watcher!changes
          <6>2. e[1] = p /\ e[2] = shown[p]
            BY <4>1
          <6> HIDE DEF e
          <6> QED BY <6>1, <6>2
        <5> QED BY <5>1, <5>2
      <4> QED BY <2>2, <3>2, <4>2 DEF Watcher!Believed
    <3> QED BY <3>1, <3>2
  <2>4. Watcher!TypeOK'
    BY <1>2, <2>1, <2>2, <2>3 DEF WatcherInv, Watcher!TypeOK
  <2>5. Loadable'
    BY <2>1 DEF WatcherInv, Loadable
  <2>6. Watcher!OutputReplays' /\ Watcher!FailsOnlyUnsafe'
    BY <1>2, <2>1, <2>3 DEF WatcherInv, Watcher!OutputReplays, Watcher!FailsOnlyUnsafe
  <2> QED BY <2>4, <2>5, <2>6 DEF WatcherInv
<1> QED BY <1>1, <1>2 DEF Watcher!LoadAndCheck

\* Every step of the editors and of the watcher's loop (config_handler.py:44-70).
LEMMA WatcherNext == WatcherInv /\ [Watcher!Next]_watcherVars => WatcherInv'
<1> SUFFICES ASSUME WatcherInv, [Watcher!Next]_watcherVars PROVE WatcherInv'
  OBVIOUS
<1> USE ProgramsAssumption
    DEF Watcher!ConfigAssumption, Watcher!fileVars, Watcher!historyVars, Watcher!watcherVars
<1>1. CASE Watcher!BeginSave \/ Watcher!EndSave \/ Watcher!AtomicSave
  <2>1. saves' \in 0 .. MaxSaves
    <3>1. saves' = saves \/ (saves < MaxSaves /\ saves' = saves + 1)
      BY <1>1 DEF Watcher!BeginSave, Watcher!EndSave, Watcher!AtomicSave
    <3>2. saves \in 0 .. MaxSaves /\ MaxSaves \in Nat
      BY DEF WatcherInv, Watcher!TypeOK
    <3> HIDE <1>1
    <3> QED BY <3>1, <3>2
  <2>2. editing' \in BOOLEAN
    BY <1>1 DEF Watcher!BeginSave, Watcher!EndSave, Watcher!AtomicSave, WatcherInv,
                Watcher!TypeOK
  <2>3. \E content \in Config \cup {Torn, Missing}, new \in BOOLEAN : Watcher!Touch(content, new)
    BY <1>1 DEF Watcher!BeginSave, Watcher!EndSave, Watcher!AtomicSave
  <2> QED BY <2>1, <2>2, <2>3, TouchKeeps
<1>2. CASE Watcher!Tick \/ Watcher!Poll \/ Watcher!ReadEvents \/ Watcher!Interrupt
           \/ UNCHANGED watcherVars
  <2> USE <1>2 DEF Watcher!Tick, Watcher!Poll, Watcher!ReadEvents, Watcher!Interrupt,
                   watcherVars
  <2>1. UNCHANGED <<file, mtime, saves, editing, watching, unsafe, sameTick, last_config, shown>>
    OBVIOUS
  <2>2. modify' \in BOOLEAN
    BY DEF WatcherInv, Watcher!TypeOK
  <2>3. clock' \in 0 .. MaxClock /\ last_mtime' \in 0 .. MaxClock \cup {None}
    BY DEF WatcherInv, Watcher!TypeOK
  <2>4. /\ where' \in {"poll", "load", "events", "event", "failed", "stopped", "raised"}
        /\ where' = "failed" => where = "failed" \/ file = Missing
    BY DEF WatcherInv, Watcher!TypeOK, Watcher!Over
  <2> HIDE <1>2
  <2>5. Watcher!TypeOK'
    BY <2>1, <2>2, <2>3, <2>4 DEF WatcherInv, Watcher!TypeOK
  <2>6. file = Missing => unsafe
    BY ConfigValues DEF WatcherInv, Loadable
  <2>7. Loadable' /\ Watcher!OutputReplays' /\ Watcher!FailsOnlyUnsafe'
    BY <2>1, <2>4, <2>6
    DEF WatcherInv, Loadable, Watcher!OutputReplays, Watcher!FailsOnlyUnsafe
  <2> QED BY <2>5, <2>7 DEF WatcherInv
<1>3. CASE Watcher!PollLoad \/ Watcher!EventLoad
  BY <1>3, LoadKeeps DEF Watcher!PollLoad, Watcher!EventLoad
<1> QED BY <1>1, <1>2, <1>3 DEF Watcher!Next, Watcher!Watch

-----------------------------------------------------------------------------
(***************************************************************************)
(* The programs together.                                                  *)
(***************************************************************************)
MailboxInv == ShmInv /\ WatcherInv

\* A step of the group is a step or a stutter of each program.
LEMMA MailboxStep == [Next]_vars => [Shm!Next]_shmVars /\ [Watcher!Next]_watcherVars
BY DEF Next, Idle, vars

\* The invariants of the mailbox and of the watcher hold in every behaviour.
THEOREM MailboxInvariance == Spec => []MailboxInv
<1>1. Init => MailboxInv
  BY ShmInit, WatcherInit DEF Init, MailboxInv
<1>2. MailboxInv /\ [Next]_vars => MailboxInv'
  BY MailboxStep, ShmNext, WatcherNext DEF MailboxInv
<1> QED BY <1>1, <1>2, PTL DEF Spec

\* Threads of one process exclude each other, and a read that meets no write
\* is whole, for any threads, processes, messages and segment size
\* (SimpleSHM.h:34-51).
THEOREM MailboxIsSafe == Spec => []MailboxSafe
<1>1. MailboxInv => MailboxSafe
  BY ShmSafe DEF MailboxInv, MailboxSafe
<1> QED BY <1>1, MailboxInvariance, PTL

\* The second lock of SimpleSHM.h:50 keeps every other thread of the process
\* out for as long as the reader does not write.
THEOREM ReadersShutOut == Spec => ReaderShutsOut
<1>1. ASSUME MailboxInv, [Next]_vars
      PROVE  [\A t, u \in Thread :
                (ProcessOf[t] = ProcessOf[u] /\ t # u /\ last[t] = "read")
                  => calls'[u] = calls[u]]_(Shm!shmVars)
  BY <1>1, MailboxStep, ShmShutsOut DEF MailboxInv
<1> QED BY <1>1, MailboxInvariance, PTL DEF Spec, ReaderShutsOut, Shm!ReaderShutsOut

\* The printed lines replay the configuration, and atomic saves of well-formed
\* files never end the watcher, for any paths and configurations
\* (config_handler.py:24-38,50,60).
THEOREM WatcherIsSafe == Spec => []WatcherSafe
<1>1. MailboxInv => WatcherSafe
  BY DEF MailboxInv, WatcherInv, WatcherSafe
<1> QED BY <1>1, MailboxInvariance, PTL

=============================================================================
