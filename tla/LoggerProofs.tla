---------------------------- MODULE LoggerProofs ----------------------------
(***************************************************************************)
(* The safety of Logger for any processes, threads, levels, lengths and    *)
(* sizes and any number of calls.  Nothing is assumed about which opens,   *)
(* renames and insertions fail.  That a line stays where a reader finds it *)
(* needs that every file ever created keeps a name until a rename replaces *)
(* it; that none is dropped, that a stream is closed only within a         *)
(* rotation or after a failed open, and bad only after a failed insertion; *)
(* that one process overshoots by one line only, that it writes to the     *)
(* file whose size it has looked at; that its log reads in order, that     *)
(* rotations choose their names in the order they rename, which they do as *)
(* long as the local time does not go back.                                *)
(***************************************************************************)
EXTENDS Logger, SequenceTheorems, WellFoundedInduction, TLAPS

\* The files, each with its lines and its size.
FileTypes ==
  /\ files \in Seq(Seq(Line))
  /\ size \in Seq(Nat)
  /\ Len(size) = Len(files)

\* A line, or what line holds outside log().
AnyLine == [nr : 0 .. MaxCalls, level : LogLevel, len : Nat]

\* The types, those of the sequences and of the lines included.
Types ==
  /\ TypeOK
  /\ FileTypes
  /\ console \in Seq(Line)
  /\ order \in Seq(Line)
  /\ line \in [Thread -> AnyLine]

\* A call is made by a process whose Logger lives, the steps of a rotation by
\* one that logs to a file; the stream is closed before and after the life of
\* the Logger and in the middle of a rotation, and only an open one is bad.
Lives ==
  /\ \A t \in Thread : pc[t] # "idle" => life[ProcOf[t]] = "alive"
  /\ \A t \in Thread : pc[t] \in {"stat", "rename", "open", "write"} => toFile[ProcOf[t]]
  /\ \A t \in Thread : pc[t] \in {"rename", "open"} => stream[ProcOf[t]] = 0
  /\ \A p \in Proc : life[p] # "alive" => stream[p] = 0
  /\ \A p \in Proc : stream[p] = 0 => stuck[p] = {}

\* While no open has failed, a Logger that logs to a file and is not rotating
\* has its stream open.
StreamOpen ==
  "open" \notin failed =>
    \A p \in Proc :
      \/ life[p] # "alive" \/ ~toFile[p] \/ stream[p] # 0
      \/ \E t \in Thread : ProcOf[t] = p /\ pc[t] \in {"rename", "open"}

\* What has been logged is in some file, on the console or was dropped.
Kept ==
  \A e \in Elements(order) :
    \/ e \in Elements(console) \cup dropped
    \/ \E f \in 1 .. Len(files) : e \in Elements(files[f])

\* Lines are dropped after a failed open or insertion, and a stream is bad
\* after a failed insertion.
DroppedByFailure ==
  /\ dropped # {} => failed \cap {"open", "write"} # {}
  /\ \A p \in Proc : stuck[p] # {} => dropped # {} /\ "write" \in failed

\* Every file has a name until a rename replaces one.
AllNamed == ~clobbered => \A f \in 1 .. Len(files) : \E n \in Name : dir[n] = f

\* Without its last line a file is below the maximum.
Bounded(f) ==
  files[f] # <<>> => size[f] < MaxFileSize + files[f][Len(files[f])].len

\* A process alone on the path whose renames and insertions succeed writes to
\* the file at the path, finds it gone after its rename, and has room when it
\* writes.
AloneKeeps ==
  Alone /\ "rename" \notin failed /\ "write" \notin failed =>
    /\ \A p \in Proc : stream[p] # 0 => stream[p] = dir[Path]
    /\ \A t \in Thread : pc[t] = "open" => dir[Path] = 0
    /\ \A t \in Thread : pc[t] = "write" /\ stream[ProcOf[t]] # 0 =>
         size[stream[ProcOf[t]]] < MaxFileSize
    /\ \A f \in 1 .. Len(files) : Bounded(f)

IndInv ==
  /\ Types
  /\ Serialised
  /\ Lives
  /\ StreamOpen
  /\ Kept
  /\ DroppedByFailure
  /\ AllNamed
  /\ AloneKeeps

-----------------------------------------------------------------------------
(***************************************************************************)
(* Names, sequences and the file system.                                   *)
(***************************************************************************)

\* The path is a name and no timestamp.
LEMMA Names ==
  /\ Path \in Name /\ Stamp \subseteq Name /\ Path \notin Stamp /\ 0 \in Stamp
  /\ \A n \in Name : n = Path \/ n \in Stamp
BY LoggerAssumption DEF Path, Name, Stamp

\* Appending adds one element at the end.
LEMMA Appended ==
  ASSUME NEW S, NEW s \in Seq(S), NEW e \in S
  PROVE  /\ Append(s, e) \in Seq(S)
         /\ Len(s) \in Nat
         /\ Len(Append(s, e)) = Len(s) + 1
         /\ \A k \in 1 .. Len(s) : Append(s, e)[k] = s[k]
         /\ Append(s, e)[Len(s) + 1] = e
         /\ Elements(Append(s, e)) = Elements(s) \cup {e}
<1>1. /\ Append(s, e) \in Seq(S)
      /\ Len(s) \in Nat
      /\ Len(Append(s, e)) = Len(s) + 1
      /\ \A k \in 1 .. Len(s) : Append(s, e)[k] = s[k]
      /\ Append(s, e)[Len(s) + 1] = e
  BY AppendProperties, LenProperties
<1>2. DOMAIN s = 1 .. Len(s) /\ DOMAIN Append(s, e) = 1 .. Len(s) + 1
  BY <1>1, LenProperties
<1>3. Elements(Append(s, e)) \subseteq Elements(s) \cup {e}
  <2>1. SUFFICES ASSUME NEW k \in 1 .. Len(s) + 1
                 PROVE  Append(s, e)[k] \in Elements(s) \cup {e}
    BY <1>2 DEF Elements
  <2>2. CASE k = Len(s) + 1
    BY <1>1, <2>2
  <2>3. CASE k # Len(s) + 1
    <3>1. k \in 1 .. Len(s)
      BY <1>1, <2>3
    <3> QED BY <1>1, <1>2, <3>1 DEF Elements
  <2> QED BY <2>2, <2>3
<1>4. Elements(s) \cup {e} \subseteq Elements(Append(s, e))
  <2>1. e \in Elements(Append(s, e))
    <3>1. Len(s) + 1 \in 1 .. Len(s) + 1
      BY <1>1
    <3> QED BY <1>1, <1>2, <3>1 DEF Elements
  <2>2. ASSUME NEW k \in 1 .. Len(s) PROVE s[k] \in Elements(Append(s, e))
    <3>1. k \in 1 .. Len(s) + 1
      BY <1>1
    <3> QED BY <1>1, <1>2, <3>1 DEF Elements
  <2> QED BY <1>2, <2>1, <2>2 DEF Elements
<1> QED BY <1>1, <1>3, <1>4

\* What the types of the files say of their elements.
LEMMA FileTyping ==
  FileTypes => /\ DOMAIN files = 1 .. Len(files) /\ DOMAIN size = DOMAIN files
               /\ \A f \in DOMAIN size : size[f] \in Nat
               /\ \A f \in DOMAIN files : \A i \in DOMAIN files[f] : files[f][i] \in Line
BY LenProperties, ElementOfSeq DEF FileTypes

\* The same after a step.
LEMMA NextFileTyping ==
  (FileTypes => /\ DOMAIN files = 1 .. Len(files) /\ DOMAIN size = DOMAIN files
                /\ \A f \in DOMAIN size : size[f] \in Nat
                /\ \A f \in DOMAIN files : \A i \in DOMAIN files[f] : files[f][i] \in Line)'
BY FileTyping, PTL

\* A line has a length.
LEMMA LineLength == \A e \in Line : e.len \in Nat /\ e.len # 0 /\ e.len \in 0 .. e.len
<1> SUFFICES ASSUME NEW e \in Line PROVE e.len \in Nat /\ e.len # 0 /\ e.len \in 0 .. e.len
  OBVIOUS
<1>1. e.len \in Lengths
  BY DEF Line
<1>2. e.len \in Nat /\ e.len # 0
  BY <1>1, LoggerAssumption
<1> QED BY <1>2

\* A step has put k bytes of a line at the end of a file: the file has grown by
\* them, and by the line if it is whole.
Grown(f, e, k) ==
  /\ FileTypes' /\ Len(files') = Len(files)
  /\ \A g \in 1 .. Len(files) : Elements(files[g]) \subseteq Elements(files'[g])
  /\ \A g \in 1 .. Len(files) : g # f => files'[g] = files[g] /\ size'[g] = size[g]
  /\ size'[f] = size[f] + k /\ size[f] \in Nat
  /\ k = e.len => /\ e \in Elements(files'[f])
                  /\ files'[f] # <<>> /\ files'[f][Len(files'[f])] = e

\* Bytes written to a file (Logger.h:70,107).
LEMMA PutGrows ==
  ASSUME FileTypes, NEW f \in 1 .. Len(files), NEW e \in Line, NEW k \in 0 .. e.len,
         Put(f, e, k)
  PROVE  Grown(f, e, k)
<1>1. Len(files) \in Nat /\ Len(size) = Len(files) /\ files[f] \in Seq(Line) /\ size[f] \in Nat
  BY LenProperties, ElementOfSeq DEF FileTypes
<1>2. k \in Nat
  BY LineLength
<1>3. /\ size' \in Seq(Nat) /\ Len(size') = Len(size)
      /\ \A g \in 1 .. Len(files) : g # f => size'[g] = size[g]
      /\ size'[f] = size[f] + k
  <2>1. size[f] + k \in Nat /\ size' = [size EXCEPT ![f] = size[f] + k]
    BY <1>1, <1>2 DEF Put
  <2> QED BY <1>1, <2>1, ExceptSeq DEF FileTypes
<1>4. CASE k # e.len
  <2>1. files' = files
    BY <1>4 DEF Put
  <2>2. FileTypes'
    BY <1>1, <1>3, <2>1 DEF FileTypes
  <2> QED BY <1>1, <1>3, <1>4, <2>1, <2>2 DEF Grown
<1>5. CASE k = e.len
  <2>1. /\ Append(files[f], e) \in Seq(Line)
        /\ Len(files[f]) \in Nat
        /\ Len(Append(files[f], e)) = Len(files[f]) + 1
        /\ Append(files[f], e)[Len(files[f]) + 1] = e
        /\ Elements(Append(files[f], e)) = Elements(files[f]) \cup {e}
    BY <1>1, Appended
  <2>2. files' = [files EXCEPT ![f] = Append(files[f], e)]
    BY <1>5 DEF Put
  <2>3. /\ files' \in Seq(Seq(Line))
        /\ Len(files') = Len(files)
        /\ \A g \in 1 .. Len(files) : g # f => files'[g] = files[g]
        /\ files'[f] = Append(files[f], e)
    BY <1>1, <2>1, <2>2, ExceptSeq DEF FileTypes
  <2>4. FileTypes'
    BY <1>1, <1>3, <2>3 DEF FileTypes
  <2>5. files'[f] # <<>> /\ files'[f][Len(files'[f])] = e
    <3>1. Append(files[f], e) # <<>>
      BY <1>1, AppendProperties
    <3> QED BY <2>1, <2>3, <3>1
  <2>6. e \in Elements(files'[f])
    BY <2>1, <2>3
  <2>7. ASSUME NEW g \in 1 .. Len(files)
        PROVE  Elements(files[g]) \subseteq Elements(files'[g])
    BY <2>1, <2>3
  <2> QED BY <1>1, <1>3, <1>5, <2>3, <2>4, <2>5, <2>6, <2>7 DEF Grown
<1> QED BY <1>4, <1>5

\* Opening the path for appending: the stream is on the file at the path, every
\* file keeps its contents and every other name its file, and a file that is
\* new is empty.
LEMMA Opened ==
  ASSUME Types, NEW p \in Proc, OpenAppend(p)
  PROVE  /\ FileTypes'
         /\ Len(files) \in Nat /\ Len(files') \in Nat /\ Len(files) <= Len(files')
         /\ \A f \in 1 .. Len(files) : files'[f] = files[f] /\ size'[f] = size[f]
         /\ \A f \in 1 .. Len(files') : f \in 1 .. Len(files) \/ f = dir'[Path]
         /\ dir' \in [Name -> 0 .. Len(files')]
         /\ dir'[Path] \in 1 .. Len(files')
         /\ \A n \in Name : dir[n] # 0 => dir'[n] = dir[n]
         /\ dir[Path] = 0 => files'[dir'[Path]] = <<>> /\ size'[dir'[Path]] = 0
         /\ stream' \in [Proc -> 0 .. Len(files')]
         /\ stream'[p] = dir'[Path]
         /\ \A q \in Proc : q # p => stream'[q] = stream[q]
<1> USE Names
<1>1. Len(files) \in Nat /\ dir \in [Name -> 0 .. Len(files)]
      /\ stream \in [Proc -> 0 .. Len(files)] /\ Len(size) = Len(files)
  BY LenProperties DEF Types, TypeOK, FileTypes
<1>2. CASE dir[Path] # 0
  <2>1. /\ files' = files /\ size' = size /\ dir' = dir
        /\ stream' = [stream EXCEPT ![p] = dir'[Path]]
    BY <1>2 DEF OpenAppend
  <2>2. FileTypes'
    BY <2>1 DEF Types, FileTypes
  <2> QED BY <1>1, <1>2, <2>1, <2>2
<1>3. CASE dir[Path] = 0
  <2>1. /\ files' = Append(files, <<>>) /\ size' = Append(size, 0)
        /\ dir' = [dir EXCEPT ![Path] = Len(files) + 1]
        /\ stream' = [stream EXCEPT ![p] = dir'[Path]]
    BY <1>3 DEF OpenAppend
  <2>2. /\ files' \in Seq(Seq(Line))
        /\ Len(files') = Len(files) + 1
        /\ \A k \in 1 .. Len(files) : files'[k] = files[k]
        /\ files'[Len(files) + 1] = <<>>
    <3>1. <<>> \in Seq(Line)
      BY EmptySeq
    <3> QED BY <2>1, <3>1, Appended DEF Types, FileTypes
  <2>3. /\ size' \in Seq(Nat)
        /\ Len(size') = Len(size) + 1
        /\ \A k \in 1 .. Len(size) : size'[k] = size[k]
        /\ size'[Len(size) + 1] = 0
    BY <2>1, Appended DEF Types, FileTypes
  <2>4. FileTypes'
    BY <1>1, <2>2, <2>3 DEF FileTypes
  <2> QED BY <1>1, <1>3, <2>1, <2>2, <2>3, <2>4
<1> QED BY <1>2, <1>3

-----------------------------------------------------------------------------
(***************************************************************************)
(* IndInv is an inductive invariant.                                       *)
(***************************************************************************)

\* No Logger has been constructed and there is no file.
LEMMA InitIndInv == Init => IndInv
<1> SUFFICES ASSUME Init PROVE IndInv
  OBVIOUS
<1> USE LoggerAssumption, Names DEF Init
<1>1. /\ Len(files) = 0 /\ FileTypes
      /\ console \in Seq(Line) /\ order \in Seq(Line)
      /\ DOMAIN files = {} /\ DOMAIN console = {} /\ DOMAIN order = {}
  <2>1. Len(<<>>) = 0 /\ <<>> \in Seq(Seq(Line)) /\ <<>> \in Seq(Line) /\ <<>> \in Seq(Nat)
    BY EmptySeq
  <2>2. DOMAIN <<>> = 1 .. 0
    BY <2>1, LenProperties
  <2> QED BY <2>1, <2>2 DEF FileTypes
<1>2. Types
  <2>1. /\ toFile \in [Proc -> BOOLEAN] /\ clobbered \in BOOLEAN /\ setBack \in BOOLEAN
        /\ stuck \in [Proc -> SUBSET Line]
    OBVIOUS
  <2>2. /\ line \in [Thread -> AnyLine]
        /\ calls \in 0 .. MaxCalls
    BY DEF NoLine, AnyLine
  <2>3. /\ stream \in [Proc -> 0 .. Len(files)]
        /\ dir \in [Name -> 0 .. Len(files)]
        /\ newName \in [Thread -> Stamp] /\ clock \in Stamp
    BY <1>1
  <2>4. \A t \in Thread : pc[t] = "idle"
    OBVIOUS
  <2> QED BY <1>1, <2>1, <2>2, <2>3, <2>4, FileTyping DEF Types, TypeOK
<1>3. Serialised /\ Lives /\ StreamOpen
  BY DEF Serialised, Lives, StreamOpen
<1>4. Kept /\ DroppedByFailure /\ AllNamed /\ AloneKeeps
  BY <1>1 DEF Kept, DroppedByFailure, AllNamed, AloneKeeps, Elements
<1> QED BY <1>2, <1>3, <1>4 DEF IndInv

\* A process that was alone after a step was alone before it.
LEMMA AloneBefore ==
  ASSUME Types,
         \/ UNCHANGED life
         \/ \E p \in Proc : \/ life[p] = "new" /\ life' = [life EXCEPT ![p] = "alive"]
                            \/ life[p] = "alive" /\ life' = [life EXCEPT ![p] = "gone"],
         Alone'
  PROVE  Alone
BY DEF Types, TypeOK, Alone

\* Steps that write no file leave alone what the files hold.
LEMMA SameContents ==
  ASSUME IndInv, UNCHANGED <<stuck, dir, files, console, order, clobbered, dropped>>,
         failed \subseteq failed'
  PROVE  Kept' /\ AllNamed' /\ DroppedByFailure'
BY DEF IndInv, Kept, AllNamed, DroppedByFailure, Elements

\* Only one thread of a process is in the locked part of log().
LEMMA OneInside ==
  ASSUME Serialised, NEW t \in Thread, NEW u \in Thread, ProcOf[t] = ProcOf[u],
         pc[t] \notin {"idle", "lock"}, pc[u] \notin {"idle", "lock"}
  PROVE  t = u
BY DEF Serialised

\* Closing a stream (Logger.h:50,128): what is left in the buffer of a bad one may
\* still get into its file.
LEMMA Closed ==
  ASSUME IndInv, NEW p \in Proc, Close(p)
  PROVE  /\ FileTypes' /\ Len(files') = Len(files) /\ Len(files) \in Nat
         /\ \A g \in 1 .. Len(files) : Elements(files[g]) \subseteq Elements(files'[g])
         /\ stuck[p] = {} => files' = files /\ size' = size
         /\ "write" \notin failed => files' = files /\ size' = size
         /\ dropped = {} => files' = files
         /\ stream' \in [Proc -> 0 .. Len(files')]
         /\ stuck' \in [Proc -> SUBSET Line]
         /\ \A q \in Proc : stream'[q] = IF q = p THEN 0 ELSE stream[q]
         /\ \A q \in Proc : stuck'[q] = IF q = p THEN {} ELSE stuck[q]
         /\ dir \in [Name -> 0 .. Len(files')]
<1>1. Len(files) \in Nat /\ FileTypes
  BY LenProperties DEF IndInv, Types, FileTypes
<1>2. /\ FileTypes' /\ Len(files') = Len(files)
      /\ \A g \in 1 .. Len(files) : Elements(files[g]) \subseteq Elements(files'[g])
      /\ stuck[p] = {} => files' = files /\ size' = size
  <2>1. CASE stuck[p] = {}
    <3>1. files' = files /\ size' = size
      BY <2>1 DEF Close
    <3> QED BY <1>1, <3>1 DEF FileTypes
  <2>2. CASE stuck[p] # {}
    <3>0. PICK e \in stuck[p] : \E k \in 0 .. e.len : Put(stream[p], e, k)
      BY <2>2 DEF Close
    <3>1. PICK k \in 0 .. e.len : Put(stream[p], e, k)
      BY <3>0
    <3>2. e \in Line
      BY DEF IndInv, Types, TypeOK
    <3>3. stream[p] \in 1 .. Len(files)
      <4>1. stream[p] # 0 /\ stream[p] \in 0 .. Len(files)
        BY <2>2 DEF IndInv, Types, TypeOK, Lives
      <4> QED BY <1>1, <4>1
    <3>4. Grown(stream[p], e, k)
      BY <1>1, <3>1, <3>2, <3>3, PutGrows
    <3> QED BY <2>2, <3>4 DEF Grown
  <2> QED BY <2>1, <2>2
<1>3. /\ stream' \in [Proc -> 0 .. Len(files)]
      /\ stuck' \in [Proc -> SUBSET Line]
      /\ \A q \in Proc : stream'[q] = IF q = p THEN 0 ELSE stream[q]
      /\ \A q \in Proc : stuck'[q] = IF q = p THEN {} ELSE stuck[q]
  <2>1. stream' = [stream EXCEPT ![p] = 0] /\ stuck' = [stuck EXCEPT ![p] = {}]
    BY DEF Close
  <2>2. stream \in [Proc -> 0 .. Len(files)] /\ stuck \in [Proc -> SUBSET Line]
    BY DEF IndInv, Types, TypeOK
  <2> QED BY <1>1, <2>1, <2>2
<1>4. ("write" \notin failed => stuck[p] = {}) /\ (dropped = {} => stuck[p] = {})
  BY DEF IndInv, DroppedByFailure
<1>5. dir \in [Name -> 0 .. Len(files)]
  BY DEF IndInv, Types, TypeOK
<1> QED BY <1>1, <1>2, <1>3, <1>4, <1>5

\* Closing a stream loses nothing that was in a file (Logger.h:50,128).
LEMMA ClosedKeeps ==
  ASSUME IndInv, NEW p \in Proc, Close(p),
         UNCHANGED <<dir, console, order, clobbered, dropped, failed>>
  PROVE  Kept' /\ AllNamed' /\ DroppedByFailure'
<1>1. /\ Len(files') = Len(files)
      /\ \A g \in 1 .. Len(files) : Elements(files[g]) \subseteq Elements(files'[g])
      /\ \A q \in Proc : stuck'[q] = IF q = p THEN {} ELSE stuck[q]
  BY Closed
<1>2. Kept'
  BY <1>1 DEF IndInv, Kept
<1>3. AllNamed' /\ DroppedByFailure'
  BY <1>1 DEF IndInv, AllNamed, DroppedByFailure
<1> QED BY <1>2, <1>3

\* The constructor opens the path or falls back to the console (Logger.h:35-45).
LEMMA ConstructKeeps ==
  ASSUME IndInv, NEW p \in Proc, Construct(p)
  PROVE  IndInv'
<1> USE LoggerAssumption, Names
<1>1. /\ life[p] = "new" /\ life' = [life EXCEPT ![p] = "alive"]
      /\ UNCHANGED <<stuck, logMutex, pc, calls, line, newName, clock, console, order,
                     clobbered, setBack, dropped>>
  BY DEF Construct
<1>2. /\ \A q \in Proc : life'[q] = IF q = p THEN "alive" ELSE life[q]
      /\ life' \in [Proc -> {"new", "alive", "gone"}]
  BY <1>1 DEF IndInv, Types, TypeOK
<1>3. \A t \in Thread : ProcOf[t] = p => pc[t] = "idle"
  BY <1>1 DEF IndInv, Lives
<1>4. Serialised'
  BY <1>1 DEF IndInv, Serialised
<1>5. Alone' => Alone
  BY <1>1, AloneBefore DEF IndInv
<1>6. CASE LogsToFile /\ OpenAppend(p) /\ UNCHANGED <<toFile, failed>>
  <2>1. /\ FileTypes'
        /\ Len(files) \in Nat /\ Len(files') \in Nat /\ Len(files) <= Len(files')
        /\ \A f \in 1 .. Len(files) : files'[f] = files[f] /\ size'[f] = size[f]
        /\ \A f \in 1 .. Len(files') : f \in 1 .. Len(files) \/ f = dir'[Path]
        /\ dir' \in [Name -> 0 .. Len(files')]
        /\ dir'[Path] \in 1 .. Len(files')
        /\ \A n \in Name : dir[n] # 0 => dir'[n] = dir[n]
        /\ dir[Path] = 0 => files'[dir'[Path]] = <<>> /\ size'[dir'[Path]] = 0
        /\ stream' \in [Proc -> 0 .. Len(files')]
        /\ stream'[p] = dir'[Path]
        /\ \A q \in Proc : q # p => stream'[q] = stream[q]
    BY <1>6, Opened DEF IndInv
  <2> HIDE <1>6
  <2>2. toFile' = toFile /\ failed' = failed
    BY <1>6
  <2>3. Types'
    <3> QED BY <1>1, <1>2, <2>1, <2>2, NextFileTyping DEF IndInv, Types, TypeOK
  <2>4. \A q \in Proc : stream'[q] # stream[q] => q = p
    BY <2>1
  <2>5. stream'[p] # 0
    BY <2>1
  <2>6. Lives'
    BY <1>1, <1>2, <1>3, <2>2, <2>4 DEF IndInv, Lives
  <2>7. StreamOpen'
    BY <1>1, <1>2, <2>2, <2>4, <2>5 DEF IndInv, StreamOpen
  <2>8. Kept' /\ DroppedByFailure'
    <3>1. \A f \in 1 .. Len(files) : f \in 1 .. Len(files') /\ files'[f] = files[f]
      BY <2>1
    <3>2. order' = order /\ console' = console /\ dropped' = dropped /\ stuck' = stuck
      BY <1>1
    <3> QED BY <2>2, <3>1, <3>2 DEF IndInv, Kept, DroppedByFailure
  <2>9. AllNamed'
    <3>1. ASSUME ~clobbered', NEW f \in 1 .. Len(files')
          PROVE  \E n \in Name : dir'[n] = f
      <4>1. CASE f = dir'[Path]
        BY <4>1
      <4>2. CASE f \in 1 .. Len(files)
        <5>1. PICK n \in Name : dir[n] = f
          BY <1>1, <3>1, <4>2 DEF IndInv, AllNamed
        <5> QED BY <2>1, <4>2, <5>1
      <4> QED BY <2>1, <4>1, <4>2
    <3> QED BY <3>1 DEF AllNamed
  <2>10. AloneKeeps'
    <3>1. SUFFICES ASSUME Alone', "rename" \notin failed', "write" \notin failed'
                   PROVE  /\ \A q \in Proc : stream'[q] # 0 => stream'[q] = dir'[Path]
                          /\ \A t \in Thread : pc'[t] = "open" => dir'[Path] = 0
                          /\ \A t \in Thread : pc'[t] = "write" /\ stream'[ProcOf[t]] # 0 =>
                               size'[stream'[ProcOf[t]]] < MaxFileSize
                          /\ \A f \in 1 .. Len(files') : Bounded(f)'
      BY DEF AloneKeeps
    <3>2. \A q \in Proc : q # p => life[q] = "new" /\ stream'[q] = 0
      <4>1. \A q \in Proc : q # p => life'[q] = "new"
        BY <1>2, <3>1 DEF Alone
      <4> QED BY <1>2, <2>1, <4>1 DEF IndInv, Lives
    <3>3. \A t \in Thread : pc'[t] = "idle"
      BY <1>1, <1>3, <3>2 DEF IndInv, Lives
    <3>4. \A f \in 1 .. Len(files') : Bounded(f)'
      <4>1. \A f \in 1 .. Len(files) : Bounded(f)
        BY <1>5, <2>2, <3>1 DEF IndInv, AloneKeeps
      <4>3. dir[Path] # 0 => dir'[Path] \in 1 .. Len(files)
        BY <2>1 DEF IndInv, Types, TypeOK
      <4>4. ASSUME NEW f \in 1 .. Len(files') PROVE Bounded(f)'
        <5>1. CASE f \in 1 .. Len(files)
          BY <2>1, <4>1, <5>1 DEF Bounded
        <5>2. CASE f \notin 1 .. Len(files)
          <6>1. f = dir'[Path] /\ files'[f] = <<>>
            BY <2>1, <4>3, <5>2
          <6> QED BY <6>1 DEF Bounded
        <5> QED BY <5>1, <5>2
      <4> QED BY <4>4
    <3> QED BY <2>1, <3>2, <3>3, <3>4
  <2> QED BY <1>4, <2>3, <2>6, <2>7, <2>8, <2>9, <2>10 DEF IndInv
<1>7. CASE /\ toFile' = [toFile EXCEPT ![p] = FALSE]
           /\ failed' = IF LogsToFile THEN failed \cup {"open"} ELSE failed
           /\ UNCHANGED <<stream, dir, files, size>>
  <2>1. Types'
    BY <1>1, <1>2, <1>7 DEF IndInv, Types, TypeOK, FileTypes
  <2>2. Lives'
    BY <1>1, <1>2, <1>3, <1>7 DEF IndInv, Types, TypeOK, Lives
  <2>3. StreamOpen'
    BY <1>1, <1>2, <1>7 DEF IndInv, Types, TypeOK, StreamOpen
  <2>4. Kept' /\ AllNamed' /\ DroppedByFailure'
    BY <1>1, <1>7, SameContents
  <2>5. AloneKeeps'
    BY <1>1, <1>5, <1>7 DEF IndInv, AloneKeeps, Bounded
  <2> QED BY <1>4, <2>1, <2>2, <2>3, <2>4, <2>5 DEF IndInv
<1> QED BY <1>6, <1>7 DEF Construct

\* The destructor closes the stream of a process in which nobody logs.
LEMMA DestroyKeeps ==
  ASSUME IndInv, NEW p \in Proc, Destroy(p)
  PROVE  IndInv'
<1> USE LoggerAssumption, Names
<1>1. /\ life[p] = "alive" /\ life' = [life EXCEPT ![p] = "gone"]
      /\ Close(p)
      /\ \A t \in Thread : ProcOf[t] = p => pc[t] = "idle"
      /\ UNCHANGED <<toFile, logMutex, pc, calls, line, newName, clock, dir,
                     console, order, clobbered, setBack, dropped, failed>>
  BY DEF Destroy
<1>2. /\ \A q \in Proc : life'[q] = IF q = p THEN "gone" ELSE life[q]
      /\ \A q \in Proc : stream'[q] = IF q = p THEN 0 ELSE stream[q]
      /\ \A q \in Proc : stuck'[q] = IF q = p THEN {} ELSE stuck[q]
  BY <1>1, Closed DEF IndInv, Types, TypeOK
<1>3. Types'
  <2>1. life' \in [Proc -> {"new", "alive", "gone"}]
    BY <1>1 DEF IndInv, Types, TypeOK
  <2> QED BY <1>1, <2>1, Closed, NextFileTyping DEF IndInv, Types, TypeOK
<1>4. Serialised'
  BY <1>1 DEF IndInv, Serialised
<1>5. Lives' /\ StreamOpen'
  BY <1>1, <1>2 DEF IndInv, Lives, StreamOpen
<1>6. Kept' /\ AllNamed' /\ DroppedByFailure'
  BY <1>1, ClosedKeeps
<1>7. AloneKeeps'
  <2>1. Alone' => Alone
    BY <1>1, AloneBefore DEF IndInv
  <2>2. \A t \in Thread : pc[t] = "write" => stream'[ProcOf[t]] = stream[ProcOf[t]]
    BY <1>1, <1>2
  <2>3. "write" \notin failed => files' = files /\ size' = size
    BY <1>1, Closed
  <2>4. failed' = failed /\ dir' = dir /\ pc' = pc
    BY <1>1
  <2> HIDE <1>1
  <2> QED BY <1>2, <2>1, <2>2, <2>3, <2>4 DEF IndInv, AloneKeeps, Bounded
<1> QED BY <1>3, <1>4, <1>5, <1>6, <1>7 DEF IndInv

\* A call of log(), of a message or a time, at any level (Logger.h:54-57,88-89).
LEMMA CallKeeps ==
  ASSUME IndInv, NEW t \in Thread, NEW level \in Levels, NEW len \in Lengths,
         LogMessage(t, level, len) \/ LogTime(t, level, len)
  PROVE  IndInv'
<1> USE LoggerAssumption
<1>1. /\ life[ProcOf[t]] = "alive" /\ pc[t] = "idle"
      /\ calls < MaxCalls /\ calls' = calls + 1
      /\ UNCHANGED <<life, toFile, stream, stuck, logMutex, newName, clock, dir, files,
                     size, console, order, clobbered, setBack, dropped, failed>>
  BY DEF LogMessage, LogTime, NewCall
<1>2. \/ UNCHANGED <<line, pc>>
      \/ /\ line' = [line EXCEPT ![t] = [nr |-> calls + 1, level |-> level, len |-> len]]
         /\ pc' = [pc EXCEPT ![t] = "lock"]
  BY <1>1 DEF LogMessage, LogTime, Goto
<1>3. \A u \in Thread : pc'[u] = pc[u] \/ (u = t /\ pc'[u] = "lock")
  BY <1>2 DEF IndInv, Types, TypeOK
<1>4. Types'
  <2>1. calls + 1 \in 0 .. MaxCalls /\ [nr |-> calls + 1, level |-> level, len |-> len] \in Line
    BY <1>1 DEF IndInv, Types, TypeOK, Line
  <2>2. [nr |-> calls + 1, level |-> level, len |-> len] \in AnyLine
    BY <2>1 DEF AnyLine
  <2>3. /\ line' \in [Thread -> AnyLine]
        /\ pc' \in [Thread -> {"idle", "lock", "console", "stat", "rename", "open", "write"}]
    <3> DEFINE e == [nr |-> calls + 1, level |-> level, len |-> len]
    <3>1. line \in [Thread -> AnyLine] /\ e \in AnyLine
      BY <2>2 DEF IndInv, Types
    <3>2. line' = line \/ line' = [line EXCEPT ![t] = e]
      BY <1>2
    <3> HIDE DEF e
    <3>3. line' \in [Thread -> AnyLine]
      BY <3>1, <3>2
    <3>4. pc' \in [Thread -> {"idle", "lock", "console", "stat", "rename", "open", "write"}]
      BY <1>2 DEF IndInv, Types, TypeOK
    <3> QED BY <3>3, <3>4
  <2>4. \A u \in Thread : pc'[u] # "idle" => line'[u] \in Line
    BY <1>2, <2>1 DEF IndInv, Types, TypeOK
  <2> QED BY <1>1, <2>1, <2>3, <2>4 DEF IndInv, Types, TypeOK, FileTypes
<1>5. Serialised' /\ Lives'
  BY <1>1, <1>3 DEF IndInv, Serialised, Lives
<1>6. StreamOpen'
  <2>1. \A u \in Thread : pc[u] \in {"rename", "open"} => pc'[u] = pc[u]
    BY <1>1, <1>3
  <2> QED BY <1>1, <2>1 DEF IndInv, StreamOpen
<1>7. Kept' /\ AllNamed' /\ DroppedByFailure'
  BY <1>1, SameContents
<1>8. AloneKeeps'
  BY <1>1, <1>3 DEF IndInv, AloneKeeps, Alone, Bounded
<1> QED BY <1>4, <1>5, <1>6, <1>7, <1>8 DEF IndInv

\* The lock_guard (Logger.h:58,90).
LEMMA LockKeeps ==
  ASSUME IndInv, NEW t \in Thread, Lock(t)
  PROVE  IndInv'
<1> USE LoggerAssumption
<1>1. /\ pc[t] = "lock" /\ logMutex[ProcOf[t]] = NoThread
      /\ logMutex' = [logMutex EXCEPT ![ProcOf[t]] = t]
      /\ UNCHANGED <<life, toFile, stream, stuck, calls, line, newName, clock, dir,
                     files, size, console, order, clobbered, setBack, dropped, failed>>
  BY DEF Lock, lock_guard
<1>2. /\ pc' \in [Thread -> {"idle", "lock", "console", "stat", "rename", "open", "write"}]
      /\ \A u \in Thread : u # t => pc'[u] = pc[u]
      /\ pc'[t] \in {"console", "stat"}
      /\ pc'[t] = "stat" => toFile[ProcOf[t]]
  BY DEF Lock, Goto, IndInv, Types, TypeOK
<1>3. Types'
  <2>1. logMutex' \in [Proc -> Thread \cup {NoThread}]
    BY <1>1 DEF IndInv, Types, TypeOK
  <2>2. \A u \in Thread : pc'[u] # "idle" => line[u] \in Line
    BY <1>1, <1>2 DEF IndInv, Types, TypeOK
  <2> QED BY <1>1, <1>2, <2>1, <2>2 DEF IndInv, Types, TypeOK, FileTypes
<1>4. Serialised'
  <2>1. \A q \in Proc : logMutex'[q] = IF q = ProcOf[t] THEN t ELSE logMutex[q]
    BY <1>1 DEF IndInv, Types, TypeOK
  <2>2. \A u \in Thread : ProcOf[u] \in Proc /\ (u # t => pc'[u] = pc[u])
    BY <1>2
  <2>3. \A u \in Thread : ProcOf[u] = ProcOf[t] => pc[u] \in {"idle", "lock"}
    BY <1>1 DEF IndInv, Serialised
  <2> QED BY <1>2, <2>1, <2>2, <2>3 DEF IndInv, Serialised
<1>5. Lives'
  BY <1>1, <1>2 DEF IndInv, Lives
<1>6. StreamOpen'
  <2>1. \A u \in Thread : pc[u] \in {"rename", "open"} => pc'[u] = pc[u]
    BY <1>1, <1>2
  <2> QED BY <1>1, <2>1 DEF IndInv, StreamOpen
<1>7. Kept' /\ AllNamed' /\ DroppedByFailure'
  BY <1>1, SameContents
<1>8. AloneKeeps'
  BY <1>1, <1>2 DEF IndInv, AloneKeeps, Alone, Bounded
<1> QED BY <1>3, <1>4, <1>5, <1>6, <1>7, <1>8 DEF IndInv

\* What the end of a call does to the mutex and the thread.
LEMMA CallEnds ==
  ASSUME IndInv, NEW t \in Thread, pc[t] \notin {"idle", "lock"},
         Return(t)
  PROVE  /\ pc' \in [Thread -> {"idle", "lock", "console", "stat", "rename", "open", "write"}]
         /\ \A u \in Thread : pc'[u] = IF u = t THEN "idle" ELSE pc[u]
         /\ logMutex' \in [Proc -> Thread \cup {NoThread}]
         /\ line' \in [Thread -> AnyLine]
         /\ \A u \in Thread : pc'[u] # "idle" => line'[u] \in Line
         /\ Serialised'
<1> USE LoggerAssumption
<1>1. /\ pc' \in [Thread -> {"idle", "lock", "console", "stat", "rename", "open", "write"}]
      /\ \A u \in Thread : pc'[u] = IF u = t THEN "idle" ELSE pc[u]
      /\ logMutex' \in [Proc -> Thread \cup {NoThread}]
      /\ \A q \in Proc : logMutex'[q] = IF q = ProcOf[t] THEN NoThread ELSE logMutex[q]
  BY DEF IndInv, Types, TypeOK, Return, Goto
<1>2. Serialised'
  BY <1>1 DEF IndInv, Serialised
<1>3. /\ line' \in [Thread -> AnyLine]
      /\ \A u \in Thread : u # t => line'[u] = line[u]
  <2>1. NoLine \in AnyLine
    BY DEF NoLine, AnyLine
  <2> QED BY <2>1 DEF Return, IndInv, Types
<1>4. \A u \in Thread : pc'[u] # "idle" => line'[u] \in Line
  BY <1>1, <1>3 DEF IndInv, Types, TypeOK
<1> QED BY <1>1, <1>2, <1>3, <1>4

\* A line to the console (Logger.h:72,109).
LEMMA ConsoleKeeps ==
  ASSUME IndInv, NEW t \in Thread, WriteConsole(t)
  PROVE  IndInv'
<1> USE LoggerAssumption
<1>1. /\ pc[t] = "console"
      /\ console' = Append(console, line[t]) /\ order' = Append(order, line[t])
      /\ UNCHANGED <<life, toFile, stream, stuck, calls, newName, clock, dir, files,
                     size, clobbered, setBack, dropped, failed>>
  BY DEF WriteConsole
<1>2. /\ pc' \in [Thread -> {"idle", "lock", "console", "stat", "rename", "open", "write"}]
      /\ \A u \in Thread : pc'[u] = IF u = t THEN "idle" ELSE pc[u]
      /\ logMutex' \in [Proc -> Thread \cup {NoThread}]
      /\ line' \in [Thread -> AnyLine]
      /\ \A u \in Thread : pc'[u] # "idle" => line'[u] \in Line
      /\ Serialised'
  BY <1>1, CallEnds DEF WriteConsole
<1>3. line[t] \in Line
  BY <1>1 DEF IndInv, Types, TypeOK
<1>4. /\ console' \in Seq(Line) /\ Elements(console') = Elements(console) \cup {line[t]}
      /\ order' \in Seq(Line) /\ Elements(order') = Elements(order) \cup {line[t]}
  BY <1>1, <1>3, Appended DEF IndInv, Types
<1>5. Types'
  <2>1. \A k \in DOMAIN console' : console'[k] \in Line
    BY <1>4, LenProperties
  <2> QED BY <1>1, <1>2, <1>4, <2>1 DEF IndInv, Types, TypeOK, FileTypes
<1>6. Lives'
  BY <1>1, <1>2 DEF IndInv, Lives
<1>7. StreamOpen'
  <2>1. \A u \in Thread : pc[u] \in {"rename", "open"} => pc'[u] = pc[u]
    BY <1>1, <1>2
  <2> QED BY <1>1, <2>1 DEF IndInv, StreamOpen
<1>8. Kept'
  <2>1. files' = files /\ dropped' = dropped
    BY <1>1
  <2> QED BY <1>4, <2>1 DEF IndInv, Kept
<1>9. DroppedByFailure' /\ AllNamed'
  BY <1>1 DEF IndInv, DroppedByFailure, AllNamed
<1>10. AloneKeeps'
  BY <1>1, <1>2 DEF IndInv, AloneKeeps, Alone, Bounded
<1> QED BY <1>2, <1>5, <1>6, <1>7, <1>8, <1>9, <1>10 DEF IndInv

\* A thread that goes from one place in the locked part to another.
LEMMA StaysInside ==
  ASSUME IndInv, NEW t \in Thread, NEW to \in {"rename", "open", "write"},
         pc[t] \in {"stat", "rename", "open"}, Goto(t, to), UNCHANGED logMutex
  PROVE  /\ pc' \in [Thread -> {"idle", "lock", "console", "stat", "rename", "open", "write"}]
         /\ \A u \in Thread : pc'[u] = IF u = t THEN to ELSE pc[u]
         /\ Serialised'
         /\ \A u \in Thread : u # t /\ ProcOf[u] = ProcOf[t] => pc[u] \in {"idle", "lock"}
<1>1. /\ pc' \in [Thread -> {"idle", "lock", "console", "stat", "rename", "open", "write"}]
      /\ \A u \in Thread : pc'[u] = IF u = t THEN to ELSE pc[u]
  BY DEF IndInv, Types, TypeOK, Goto
<1>2. Serialised'
  BY <1>1 DEF IndInv, Serialised
<1>3. \A u \in Thread : u # t /\ ProcOf[u] = ProcOf[t] => pc[u] \in {"idle", "lock"}
  BY OneInside DEF IndInv
<1> QED BY <1>1, <1>2, <1>3

\* In a process that is alone on the path, one thread is in the locked part and
\* no other process has a stream or a thread that is logging.
LEMMA AloneInside ==
  ASSUME IndInv, Alone, NEW t \in Thread, pc[t] \notin {"idle", "lock"}
  PROVE  /\ \A u \in Thread : u # t => pc[u] \in {"idle", "lock"}
         /\ \A q \in Proc : q # ProcOf[t] => stream[q] = 0
<1> USE LoggerAssumption
<1>1. ProcOf[t] \in Proc /\ life[ProcOf[t]] = "alive"
  BY DEF IndInv, Lives
<1>2. \A q \in Proc : q # ProcOf[t] => life[q] = "new"
  BY <1>1 DEF Alone, IndInv, Types, TypeOK
<1>3. \A u \in Thread : pc[u] \notin {"idle", "lock"} => ProcOf[u] = ProcOf[t]
  BY <1>2 DEF IndInv, Lives
<1> QED BY <1>2, <1>3, OneInside DEF IndInv, Lives

\* The size is looked at, and a full file's stream is closed (Logger.h:124-128).
LEMMA CheckSizeKeeps ==
  ASSUME IndInv, NEW t \in Thread, CheckSize(t)
  PROVE  IndInv'
<1> USE LoggerAssumption, Names
<1> DEFINE p == ProcOf[t]
<1>1. /\ pc[t] = "stat" /\ p \in Proc
      /\ UNCHANGED <<life, toFile, logMutex, calls, line, clock, dir, console,
                     order, clobbered, setBack, dropped, failed>>
  BY DEF CheckSize
<1>2. PICK to \in {"rename", "write"} :
        /\ Goto(t, to)
        /\ to = "rename" => Close(p) /\ newName' = [newName EXCEPT ![t] = clock]
        /\ to = "write" => ~Full /\ UNCHANGED <<stream, stuck, newName, files, size>>
  BY DEF CheckSize, getTimestamp
<1>3. /\ pc' \in [Thread -> {"idle", "lock", "console", "stat", "rename", "open", "write"}]
      /\ \A u \in Thread : pc'[u] = IF u = t THEN to ELSE pc[u]
      /\ Serialised'
      /\ \A u \in Thread : u # t /\ ProcOf[u] = p => pc[u] \in {"idle", "lock"}
  BY <1>1, <1>2, StaysInside
<1>4. /\ stream' \in [Proc -> 0 .. Len(files')]
      /\ dir \in [Name -> 0 .. Len(files')]
      /\ stuck' \in [Proc -> SUBSET Line]
      /\ newName' \in [Thread -> Stamp]
      /\ FileTypes'
      /\ \A q \in Proc : stream'[q] = IF q = p /\ to = "rename" THEN 0 ELSE stream[q]
      /\ \A q \in Proc : stuck'[q] = IF q = p /\ to = "rename" THEN {} ELSE stuck[q]
      /\ "write" \notin failed => files' = files /\ size' = size
      /\ Kept' /\ AllNamed' /\ DroppedByFailure'
  <2>1. /\ stream \in [Proc -> 0 .. Len(files)] /\ dir \in [Name -> 0 .. Len(files)]
        /\ stuck \in [Proc -> SUBSET Line]
        /\ newName \in [Thread -> Stamp] /\ clock \in Stamp
        /\ FileTypes
    BY DEF IndInv, Types, TypeOK
  <2>2. CASE to = "rename"
    <3>1. newName' \in [Thread -> Stamp]
      BY <1>2, <2>1, <2>2
    <3>2. Kept' /\ AllNamed' /\ DroppedByFailure'
      BY <1>1, <1>2, <2>2, ClosedKeeps
    <3> QED BY <1>1, <1>2, <2>2, <3>1, <3>2, Closed
  <2>3. CASE to = "write"
    <3>1. UNCHANGED <<stream, stuck, newName, files, size>>
      BY <1>2, <2>3
    <3>2. FileTypes'
      BY <2>1, <3>1 DEF FileTypes
    <3>3. Kept' /\ AllNamed' /\ DroppedByFailure'
      BY <1>1, <3>1, SameContents
    <3> QED BY <2>1, <2>3, <3>1, <3>2, <3>3
  <2> QED BY <2>2, <2>3
<1> HIDE DEF p
<1>5. Types'
  <2>1. \A u \in Thread : pc'[u] # "idle" => line[u] \in Line
    BY <1>1, <1>3 DEF IndInv, Types, TypeOK
  <2> QED BY <1>1, <1>3, <1>4, <2>1, NextFileTyping DEF IndInv, Types, TypeOK
<1>6. Lives'
  BY <1>1, <1>3, <1>4 DEF IndInv, Lives, p
<1>7. StreamOpen'
  <2>1. \A u \in Thread : pc[u] \in {"rename", "open"} => pc'[u] = pc[u]
    BY <1>1, <1>3
  <2>2. stream'[p] # stream[p] => pc'[t] = "rename" /\ ProcOf[t] = p
    BY <1>1, <1>3, <1>4 DEF p
  <2>3. \A q \in Proc : q # p => stream'[q] = stream[q]
    BY <1>4
  <2> QED BY <1>1, <2>1, <2>2, <2>3 DEF IndInv, StreamOpen
<1>9. AloneKeeps'
  <2> SUFFICES ASSUME Alone, "rename" \notin failed, "write" \notin failed
               PROVE  AloneKeeps'
    BY <1>1 DEF AloneKeeps, Alone
  <2>0. files' = files /\ size' = size
    BY <1>4
  <2>1. \A q \in Proc : stream'[q] # 0 => stream'[q] = stream[q] /\ stream[q] = dir[Path]
    BY <1>4 DEF IndInv, AloneKeeps
  <2>2. \A u \in Thread : u # t => pc'[u] \in {"idle", "lock"}
    BY <1>1, <1>3, AloneInside
  <2>3. ASSUME pc'[t] = "write", stream'[p] # 0
        PROVE  size[stream'[p]] < MaxFileSize
    <3>1. to = "write" /\ ~Full
      BY <1>2, <1>3, <2>3
    <3>2. stream'[p] = dir[Path] /\ dir[Path] \in 1 .. Len(files)
      BY <1>1, <1>4, <2>1, <2>3 DEF IndInv, Types, TypeOK
    <3>3. size[dir[Path]] \in Nat
      BY <3>2, FileTyping DEF IndInv, Types
    <3> QED BY <3>1, <3>2, <3>3 DEF Full
  <2>4. \A f \in 1 .. Len(files) : Bounded(f)'
    BY <2>0 DEF IndInv, AloneKeeps, Bounded
  <2> QED BY <1>1, <1>2, <1>3, <2>0, <2>1, <2>2, <2>3, <2>4 DEF AloneKeeps, p
<1> QED BY <1>3, <1>4, <1>5, <1>6, <1>7, <1>9 DEF IndInv

\* The rename, which may fail (Logger.h:130-132).
LEMMA RenameKeeps ==
  ASSUME IndInv, NEW t \in Thread, Rename(t)
  PROVE  IndInv'
<1> USE LoggerAssumption, Names
<1>1. /\ pc[t] = "rename" /\ Goto(t, "open")
      /\ UNCHANGED <<life, toFile, stream, stuck, logMutex, calls, line, newName, clock,
                     files, size, console, order, setBack, dropped>>
      /\ failed \subseteq failed'
  BY DEF Rename, AfterRename
<1>2. /\ pc' \in [Thread -> {"idle", "lock", "console", "stat", "rename", "open", "write"}]
      /\ \A u \in Thread : pc'[u] = IF u = t THEN "open" ELSE pc[u]
      /\ Serialised'
      /\ \A u \in Thread : u # t /\ ProcOf[u] = ProcOf[t] => pc[u] \in {"idle", "lock"}
  BY <1>1, StaysInside
<1>3. \/ /\ dir[Path] # 0
         /\ dir' = [dir EXCEPT ![newName[t]] = dir[Path], ![Path] = 0]
         /\ clobbered' = (clobbered \/ dir[newName[t]] # 0)
         /\ failed' = failed
      \/ failed' = failed \cup {"rename"} /\ dir' = dir /\ clobbered' = clobbered
  BY DEF Rename
<1>4. newName[t] \in Stamp /\ newName[t] \in Name /\ newName[t] # Path
  BY DEF IndInv, Types, TypeOK
<1>5. /\ Len(files) \in Nat
      /\ dir' \in [Name -> 0 .. Len(files)]
  <2>1. Len(files) \in Nat /\ dir \in [Name -> 0 .. Len(files)]
    BY LenProperties DEF IndInv, Types, TypeOK, FileTypes
  <2>2. dir[Path] \in 0 .. Len(files) /\ 0 \in 0 .. Len(files)
    BY <2>1
  <2>3. dir' = dir \/ dir' = [dir EXCEPT ![newName[t]] = dir[Path], ![Path] = 0]
    BY <1>3
  <2> QED BY <2>1, <2>2, <2>3
<1>6. clobbered' \in BOOLEAN /\ failed' \subseteq {"open", "rename", "write"}
  BY <1>3 DEF IndInv, Types, TypeOK
<1>7. Types'
  <2>1. \A u \in Thread : pc'[u] # "idle" => line[u] \in Line
    BY <1>1, <1>2 DEF IndInv, Types, TypeOK
  <2> QED BY <1>1, <1>2, <1>5, <1>6, <2>1 DEF IndInv, Types, TypeOK, FileTypes
<1>8. Lives'
  BY <1>1, <1>2 DEF IndInv, Lives
<1>9. StreamOpen'
  <2>1. \A u \in Thread : pc[u] \in {"rename", "open"} => pc'[u] \in {"rename", "open"}
    BY <1>1, <1>2
  <2> QED BY <1>1, <2>1 DEF IndInv, StreamOpen
<1>10. Kept' /\ DroppedByFailure'
  BY <1>1 DEF IndInv, Kept, DroppedByFailure
<1>11. AllNamed'
  <2> SUFFICES ASSUME ~clobbered', NEW f \in 1 .. Len(files)
               PROVE  \E n \in Name : dir'[n] = f
    BY <1>1 DEF AllNamed
  <2>1. ~clobbered
    BY <1>3
  <2>2. PICK n \in Name : dir[n] = f
    BY <2>1 DEF IndInv, AllNamed
  <2>3. CASE dir' = dir
    BY <2>2, <2>3
  <2>4. CASE dir' # dir
    <3>1. /\ dir' = [dir EXCEPT ![newName[t]] = dir[Path], ![Path] = 0]
          /\ dir[newName[t]] = 0
      BY <1>3, <2>4
    <3>2. /\ dir'[newName[t]] = dir[Path]
          /\ \A m \in Name : m \notin {newName[t], Path} => dir'[m] = dir[m]
      BY <1>4, <3>1 DEF IndInv, Types, TypeOK
    <3>3. n # newName[t]
      BY <1>5, <2>2, <3>1
    <3> QED BY <1>4, <2>2, <3>2, <3>3
  <2> QED BY <2>3, <2>4
<1>12. AloneKeeps'
  <2> SUFFICES ASSUME Alone, "rename" \notin failed', "write" \notin failed'
               PROVE  AloneKeeps'
    BY <1>1 DEF AloneKeeps, Alone
  <2>1. dir' = [dir EXCEPT ![newName[t]] = dir[Path], ![Path] = 0]
    BY <1>3
  <2>2. dir'[Path] = 0
    BY <1>4, <2>1 DEF IndInv, Types, TypeOK
  <2>3. /\ \A u \in Thread : u # t => pc'[u] \in {"idle", "lock"}
        /\ pc'[t] = "open"
    BY <1>1, <1>2, AloneInside
  <2>4. \A q \in Proc : stream'[q] = 0
    BY <1>1, AloneInside DEF IndInv, Lives
  <2>5. \A f \in 1 .. Len(files) : Bounded(f)'
    BY <1>1 DEF IndInv, AloneKeeps, Bounded
  <2> QED BY <1>1, <2>2, <2>3, <2>4, <2>5 DEF AloneKeeps
<1> QED BY <1>2, <1>7, <1>8, <1>9, <1>10, <1>11, <1>12 DEF IndInv

\* The new file, which may not open (Logger.h:134-138).
LEMMA ReopenKeeps ==
  ASSUME IndInv, NEW t \in Thread, Reopen(t)
  PROVE  IndInv'
<1> USE LoggerAssumption, Names
<1> DEFINE p == ProcOf[t]
<1>1. /\ pc[t] = "open" /\ Goto(t, "write") /\ p \in Proc
      /\ newName' = [newName EXCEPT ![t] = 0]
      /\ UNCHANGED <<life, toFile, stuck, logMutex, calls, line, clock, console,
                     order, clobbered, setBack, dropped>>
  BY DEF Reopen
<1>2. /\ pc' \in [Thread -> {"idle", "lock", "console", "stat", "rename", "open", "write"}]
      /\ \A u \in Thread : pc'[u] = IF u = t THEN "write" ELSE pc[u]
      /\ Serialised'
      /\ \A u \in Thread : u # t /\ ProcOf[u] = p => pc[u] \in {"idle", "lock"}
  BY <1>1, StaysInside
<1>3. /\ \A u \in Thread : pc'[u] # "idle" => line[u] \in Line
      /\ newName' \in [Thread -> Stamp]
  BY <1>1, <1>2 DEF IndInv, Types, TypeOK
<1>4. CASE OpenAppend(p) /\ failed' = failed
  <2>1. /\ FileTypes'
        /\ Len(files) \in Nat /\ Len(files') \in Nat /\ Len(files) <= Len(files')
        /\ \A f \in 1 .. Len(files) : files'[f] = files[f] /\ size'[f] = size[f]
        /\ \A f \in 1 .. Len(files') : f \in 1 .. Len(files) \/ f = dir'[Path]
        /\ dir' \in [Name -> 0 .. Len(files')]
        /\ dir'[Path] \in 1 .. Len(files')
        /\ \A n \in Name : dir[n] # 0 => dir'[n] = dir[n]
        /\ dir[Path] = 0 => files'[dir'[Path]] = <<>> /\ size'[dir'[Path]] = 0
        /\ stream' \in [Proc -> 0 .. Len(files')]
        /\ stream'[p] = dir'[Path]
        /\ \A q \in Proc : q # p => stream'[q] = stream[q]
    BY <1>1, <1>4, Opened DEF IndInv
  <2>2. failed' = failed
    BY <1>4
  <2> HIDE DEF p
  <2>3. Types'
    <3> QED BY <1>1, <1>2, <1>3, <2>1, <2>2, NextFileTyping DEF IndInv, Types, TypeOK
  <2>4. \A q \in Proc : stream'[q] # stream[q] => q = p
    BY <2>1
  <2>5. stream'[p] # 0
    BY <2>1
  <2>6. Lives'
    BY <1>1, <1>2, <2>4 DEF IndInv, Lives, p
  <2>7. StreamOpen'
    <3>1. \A u \in Thread : pc[u] \in {"rename", "open"} /\ ProcOf[u] # p => pc'[u] = pc[u]
      BY <1>2 DEF p
    <3> QED BY <1>1, <2>2, <2>4, <2>5, <3>1 DEF IndInv, StreamOpen
  <2>8. Kept' /\ DroppedByFailure'
    <3>1. \A f \in 1 .. Len(files) : f \in 1 .. Len(files') /\ files'[f] = files[f]
      BY <2>1
    <3>2. order' = order /\ console' = console /\ dropped' = dropped /\ stuck' = stuck
      BY <1>1
    <3> QED BY <2>2, <3>1, <3>2 DEF IndInv, Kept, DroppedByFailure
  <2>9. AllNamed'
    <3>1. ASSUME ~clobbered', NEW f \in 1 .. Len(files')
          PROVE  \E n \in Name : dir'[n] = f
      <4>1. CASE f = dir'[Path]
        BY <4>1
      <4>2. CASE f \in 1 .. Len(files)
        <5>1. PICK n \in Name : dir[n] = f
          BY <1>1, <3>1, <4>2 DEF IndInv, AllNamed
        <5> QED BY <2>1, <4>2, <5>1
      <4> QED BY <2>1, <4>1, <4>2
    <3> QED BY <3>1 DEF AllNamed
  <2>10. AloneKeeps'
    <3> SUFFICES ASSUME Alone, "rename" \notin failed, "write" \notin failed
                 PROVE  AloneKeeps'
      BY <1>1, <2>2 DEF AloneKeeps, Alone
    <3>1. /\ \A u \in Thread : u # t => pc'[u] \in {"idle", "lock"}
          /\ \A q \in Proc : q # p => stream'[q] = 0
      BY <1>1, <1>2, <2>1, AloneInside DEF p
    <3>2. dir[Path] = 0
      BY <1>1 DEF IndInv, AloneKeeps
    <3>3. files'[dir'[Path]] = <<>> /\ size'[dir'[Path]] = 0
      BY <2>1, <3>2
    <3>4. \A f \in 1 .. Len(files) : Bounded(f)
      BY DEF IndInv, AloneKeeps
    <3>5. ASSUME NEW f \in 1 .. Len(files')
          PROVE  Bounded(f)'
      <4>1. CASE f \in 1 .. Len(files)
        BY <2>1, <3>4, <4>1 DEF Bounded
      <4>2. CASE f = dir'[Path]
        BY <3>3, <4>2 DEF Bounded
      <4> QED BY <2>1, <4>1, <4>2
    <3>6. ASSUME NEW u \in Thread, pc'[u] = "write"
          PROVE  size'[stream'[ProcOf[u]]] < MaxFileSize
      <4>1. u = t
        BY <3>1, <3>6
      <4> QED BY <2>1, <3>3, <4>1 DEF p
    <3>7. \A u \in Thread : pc'[u] # "open"
      BY <1>2, <3>1
    <3> QED BY <2>1, <3>1, <3>5, <3>6, <3>7 DEF AloneKeeps
  <2> QED BY <1>2, <2>3, <2>6, <2>7, <2>8, <2>9, <2>10 DEF IndInv
<1>5. CASE failed' = failed \cup {"open"} /\ UNCHANGED <<stream, dir, files, size>>
  <2>1. Types'
    BY <1>1, <1>2, <1>3, <1>5 DEF IndInv, Types, TypeOK, FileTypes
  <2>2. Lives' /\ StreamOpen'
    BY <1>1, <1>2, <1>5 DEF IndInv, Lives, StreamOpen
  <2>3. Kept' /\ AllNamed' /\ DroppedByFailure'
    BY <1>1, <1>5, SameContents
  <2>4. AloneKeeps'
    <3>1. stream[p] = 0
      BY <1>1 DEF IndInv, Lives
    <3> QED BY <1>1, <1>2, <1>5, <3>1 DEF IndInv, AloneKeeps, Alone, Bounded
  <2> QED BY <1>2, <2>1, <2>2, <2>3, <2>4 DEF IndInv
<1> QED BY <1>4, <1>5 DEF Reopen

\* A line to the file, whole or in part, or into a closed or bad stream
\* (Logger.h:70,107).
LEMMA WriteFileKeeps ==
  ASSUME IndInv, NEW t \in Thread, WriteFile(t)
  PROVE  IndInv'
<1> USE LoggerAssumption, Names
<1> DEFINE p == ProcOf[t]
<1>0. PICK f, e : f = stream[p] /\ e = line[t]
  OBVIOUS
<1>1. /\ pc[t] = "write" /\ p \in Proc
      /\ order' = Append(order, e)
      /\ UNCHANGED <<life, toFile, stream, calls, newName, clock, dir, console,
                     clobbered, setBack>>
  BY <1>0 DEF WriteFile
<1>2. /\ pc' \in [Thread -> {"idle", "lock", "console", "stat", "rename", "open", "write"}]
      /\ \A u \in Thread : pc'[u] = IF u = t THEN "idle" ELSE pc[u]
      /\ logMutex' \in [Proc -> Thread \cup {NoThread}]
      /\ line' \in [Thread -> AnyLine]
      /\ \A u \in Thread : pc'[u] # "idle" => line'[u] \in Line
      /\ Serialised'
  BY <1>1, CallEnds DEF WriteFile
<1>3. e \in Line
  BY <1>0, <1>1 DEF IndInv, Types, TypeOK
<1>4. order' \in Seq(Line) /\ Elements(order') = Elements(order) \cup {e}
  BY <1>1, <1>3, Appended DEF IndInv, Types
<1>5. /\ FileTypes /\ Len(files) \in Nat
      /\ stream \in [Proc -> 0 .. Len(files)] /\ dir \in [Name -> 0 .. Len(files)]
      /\ stuck \in [Proc -> SUBSET Line]
  BY LenProperties DEF IndInv, Types, TypeOK, FileTypes
<1>6. CASE f # 0 /\ stuck[p] = {}
  <2>1. PICK k \in 0 .. e.len :
          /\ Put(f, e, k)
          /\ IF k = e.len
             THEN UNCHANGED <<stuck, dropped, failed>>
             ELSE /\ stuck' = [stuck EXCEPT ![p] = {e}]
                  /\ dropped' = dropped \cup {e}
                  /\ failed' = failed \cup {"write"}
    BY <1>0, <1>6 DEF WriteFile, Insert
  <2>2. f \in 1 .. Len(files)
    BY <1>0, <1>1, <1>5, <1>6
  <2> HIDE DEF p
  <2>3. Grown(f, e, k)
    BY <1>3, <1>5, <2>1, <2>2, PutGrows
  <2>4. /\ k = e.len => stuck' = stuck /\ dropped' = dropped /\ failed' = failed
        /\ k # e.len => /\ stuck' = [stuck EXCEPT ![p] = {e}]
                        /\ dropped' = dropped \cup {e}
                        /\ failed' = failed \cup {"write"}
    BY <2>1
  <2>11. /\ stuck' \in [Proc -> SUBSET Line]
         /\ \A q \in Proc : q # p => stuck'[q] = stuck[q]
    <3>1. CASE k = e.len
      BY <1>5, <2>4, <3>1
    <3>2. CASE k # e.len
      <4>1. stuck' = [stuck EXCEPT ![p] = {e}] /\ {e} \in SUBSET Line
        BY <1>3, <2>4, <3>2
      <4> QED BY <1>1, <1>5, <4>1
    <3> QED BY <3>1, <3>2
  <2>12. /\ failed' = failed \/ failed' = failed \cup {"write"}
         /\ failed' \subseteq {"open", "rename", "write"}
    BY <2>4 DEF IndInv, Types, TypeOK
  <2>5. Types'
    <3>1. /\ stream' \in [Proc -> 0 .. Len(files')]
          /\ dir' \in [Name -> 0 .. Len(files')]
      BY <1>1, <1>5, <2>3 DEF Grown
    <3>2. FileTypes'
      BY <2>3 DEF Grown
    <3> QED BY <1>1, <1>2, <1>4, <2>11, <2>12, <3>1, <3>2, NextFileTyping DEF IndInv, Types, TypeOK
  <2>6. Lives'
    <3>1. stream'[p] # 0
      BY <1>0, <1>1, <1>6
    <3> QED BY <1>1, <1>2, <2>11, <3>1 DEF IndInv, Lives
  <2>7. StreamOpen'
    <3>1. \A u \in Thread : pc[u] \in {"rename", "open"} => pc'[u] = pc[u]
      BY <1>1, <1>2
    <3>2. "open" \notin failed' => "open" \notin failed
      BY <2>12
    <3> QED BY <1>1, <3>1, <3>2 DEF IndInv, StreamOpen
  <2>8. Kept'
    <3>1. e \in dropped' \/ e \in Elements(files'[f])
      BY <2>3, <2>4 DEF Grown
    <3>2. console' = console /\ dropped \subseteq dropped'
      BY <1>1, <2>4
    <3> QED BY <1>4, <2>2, <2>3, <3>1, <3>2 DEF IndInv, Kept, Grown
  <2>9. DroppedByFailure' /\ AllNamed'
    <3>1. AllNamed'
      BY <1>1, <2>3 DEF IndInv, AllNamed, Grown
    <3>2. CASE k = e.len
      BY <2>4, <3>1, <3>2 DEF IndInv, DroppedByFailure
    <3>3. CASE k # e.len
      BY <2>4, <3>1, <3>3 DEF DroppedByFailure
    <3> QED BY <3>1, <3>2, <3>3
  <2>10. AloneKeeps'
    <3> SUFFICES ASSUME Alone, "rename" \notin failed', "write" \notin failed'
                 PROVE  AloneKeeps'
      BY <1>1 DEF AloneKeeps, Alone
    <3>0. "rename" \notin failed /\ "write" \notin failed /\ k = e.len
      BY <2>4, <2>12
    <3>1. \A u \in Thread : pc'[u] \in {"idle", "lock"}
      BY <1>1, <1>2, AloneInside
    <3>2. size[f] < MaxFileSize
      BY <1>0, <1>1, <1>6, <3>0 DEF IndInv, AloneKeeps, p
    <3>3. \A g \in 1 .. Len(files) : Bounded(g)
      BY <3>0 DEF IndInv, AloneKeeps
    <3>4. Bounded(f)'
      <4>1. e.len \in Nat
        BY <1>3, LineLength
      <4>2. size'[f] < MaxFileSize + e.len
        BY <2>3, <3>0, <3>2, <4>1 DEF Grown
      <4> QED BY <2>3, <3>0, <4>2 DEF Bounded, Grown
    <3>5. \A g \in 1 .. Len(files') : Bounded(g)'
      <4>1. ASSUME NEW g \in 1 .. Len(files), g # f PROVE Bounded(g)'
        BY <2>3, <3>3, <4>1 DEF Bounded, Grown
      <4> QED BY <2>3, <3>4, <4>1 DEF Grown
    <3>6. \A q \in Proc : stream'[q] # 0 => stream'[q] = dir'[Path]
      BY <1>1, <3>0 DEF IndInv, AloneKeeps
    <3> QED BY <3>1, <3>5, <3>6 DEF AloneKeeps
  <2> QED BY <1>2, <2>5, <2>6, <2>7, <2>8, <2>9, <2>10 DEF IndInv
<1>7. CASE ~(f # 0 /\ stuck[p] = {})
  <2>1. dropped' = dropped \cup {e} /\ UNCHANGED <<files, size, stuck, failed>>
    BY <1>0, <1>7 DEF WriteFile, Swallow
  <2>2. Types'
    BY <1>1, <1>2, <1>4, <2>1 DEF IndInv, Types, TypeOK, FileTypes
  <2>3. Lives'
    BY <1>1, <1>2, <2>1 DEF IndInv, Lives
  <2>4. StreamOpen'
    <3>1. \A u \in Thread : pc[u] \in {"rename", "open"} => pc'[u] = pc[u]
      BY <1>1, <1>2
    <3> QED BY <1>1, <2>1, <3>1 DEF IndInv, StreamOpen
  <2>5. Kept'
    <3>1. console' = console
      BY <1>1
    <3> QED BY <1>4, <2>1, <3>1 DEF IndInv, Kept
  <2>6. DroppedByFailure'
    <3>1. life[p] = "alive" /\ toFile[p]
      BY <1>1 DEF IndInv, Lives
    <3>2. \A u \in Thread : ProcOf[u] = p => pc[u] \notin {"rename", "open"}
      BY <1>1, OneInside DEF IndInv
    <3>3. f = 0 => "open" \in failed
      BY <1>0, <1>1, <3>1, <3>2 DEF IndInv, StreamOpen
    <3>4. stuck[p] # {} => "write" \in failed
      BY <1>1 DEF IndInv, DroppedByFailure
    <3>5. failed \cap {"open", "write"} # {}
      BY <1>7, <3>3, <3>4
    <3> QED BY <2>1, <3>5 DEF IndInv, DroppedByFailure
  <2>7. AllNamed'
    BY <1>1, <2>1 DEF IndInv, AllNamed
  <2>8. AloneKeeps'
    BY <1>1, <1>2, <2>1 DEF IndInv, AloneKeeps, Alone, Bounded
  <2> QED BY <1>2, <2>2, <2>3, <2>4, <2>5, <2>6, <2>7, <2>8 DEF IndInv
<1> QED BY <1>6, <1>7

\* Every step keeps the invariant.
LEMMA NextIndInv == IndInv /\ [Next]_vars => IndInv'
<1> SUFFICES ASSUME IndInv, [Next]_vars PROVE IndInv'
  OBVIOUS
<1>1. ASSUME Tick PROVE IndInv'
  <2>1. /\ UNCHANGED <<life, toFile, stream, stuck, logMutex, pc, calls, line, newName, dir,
                       files, size, console, order, clobbered, dropped, failed>>
        /\ clock' \in Stamp /\ setBack' \in BOOLEAN
    BY <1>1 DEF Tick
  <2>2. Types'
    BY <2>1 DEF IndInv, Types, TypeOK, FileTypes
  <2>3. Serialised' /\ Lives' /\ StreamOpen'
    BY <2>1 DEF IndInv, Serialised, Lives, StreamOpen
  <2>4. AloneKeeps'
    BY <2>1 DEF IndInv, AloneKeeps, Alone, Bounded
  <2> QED BY <2>1, <2>2, <2>3, <2>4, SameContents DEF IndInv
<1>2. ASSUME UNCHANGED vars PROVE IndInv'
  <2> USE <1>2 DEF vars
  <2>1. Types'
    BY DEF IndInv, Types, TypeOK, FileTypes
  <2>2. Serialised' /\ Lives' /\ StreamOpen'
    BY DEF IndInv, Serialised, Lives, StreamOpen
  <2>3. AloneKeeps'
    BY DEF IndInv, AloneKeeps, Alone, Bounded
  <2> QED BY <2>1, <2>2, <2>3, SameContents DEF IndInv
<1> QED
  BY <1>1, <1>2, ConstructKeeps, DestroyKeeps, CallKeeps, LockKeeps, ConsoleKeeps,
     CheckSizeKeeps, RenameKeeps, ReopenKeeps, WriteFileKeeps
  DEF Next, LogStep, Finished

-----------------------------------------------------------------------------
\* Files that all have names can be found by a reader.
LEMMA IndInvNothingLost == IndInv => NothingLost
<1> SUFFICES ASSUME IndInv, ~clobbered
             PROVE  Elements(order) \subseteq OnDisk \cup Elements(console) \cup dropped
  BY DEF NothingLost, IndInv, DroppedByFailure
<1>1. ASSUME NEW f \in 1 .. Len(files) PROVE f \in Linked
  <2>1. PICK n \in Name : dir[n] = f
    BY DEF IndInv, AllNamed
  <2>2. f # 0
    OBVIOUS
  <2> QED BY <2>1, <2>2 DEF Linked
<1>2. \A f \in 1 .. Len(files) : Elements(files[f]) \subseteq OnDisk
  BY <1>1 DEF OnDisk
<1> QED BY <1>2 DEF IndInv, Kept

\* The files are those of the sequence.
LEMMA IndInvMaximum == IndInv => OneLineOver
<1> SUFFICES ASSUME IndInv, Alone, failed \cap {"rename", "write"} = {}, NEW f \in DOMAIN files
             PROVE  Bounded(f)
  BY DEF OneLineOver, Bounded
<1>1. DOMAIN files = 1 .. Len(files)
  BY FileTyping DEF IndInv, Types
<1> QED BY <1>1 DEF IndInv, AloneKeeps

\* The inductive invariant holds in every behaviour of the Loggers.
THEOREM Invariance == Spec => []IndInv
BY InitIndInv, NextIndInv, PTL DEF Spec

\* The Loggers' variables and the file system keep their types.
THEOREM TypeCorrect == Spec => []TypeOK
<1>1. IndInv => TypeOK
  BY DEF IndInv, Types
<1> QED BY Invariance, <1>1, PTL

\* No two threads of a process are in the locked part of log() at once
\* (Logger.h:58,90).
THEOREM LogSerialised == Spec => []Serialised
<1>1. IndInv => Serialised
  BY DEF IndInv
<1> QED BY Invariance, <1>1, PTL

\* For any processes on one path and any failures, a logged line is lost only
\* to a rotation that takes a name already in use, to a failed open or to a
\* failed insertion, after which a stream swallows what it is given
\* (Logger.h:68-73,105-110,124-140).
THEOREM LinesFound == Spec => []NothingLost
BY Invariance, IndInvNothingLost, PTL

\* A process alone on its path whose renames and insertions succeed passes the
\* maximum size of a file by its last line at most (Logger.h:127), for lines of
\* any lengths.
THEOREM OvershootAlone == Spec => []OneLineOver
BY Invariance, IndInvMaximum, PTL

-----------------------------------------------------------------------------
(***************************************************************************)
(* Reading the rotated files and then the current one.                     *)
(***************************************************************************)

\* What holds at the path, and at every timestamp if at the name after it,
\* holds at all names: the way a reader goes through the files of a rotated
\* log (Logger.h:131), backwards.
LEMMA Downward ==
  ASSUME NEW B, Path \in B, \A n \in Stamp : n + 1 \in B => n \in B
  PROVE  \A n \in Name : n \in B
<1> DEFINE D == {k \in 0 .. Path : Path - k \notin B}
           R == OpToRel(<, Nat)
<1>0. Path \in Nat /\ Name = 0 .. Path /\ Stamp = 0 .. Path - 1
  BY LoggerAssumption DEF Path, Name, Stamp
<1>1. D = {}
  <2> SUFFICES ASSUME D # {} PROVE FALSE
    OBVIOUS
  <2>1. D \subseteq Nat
    BY <1>0
  <2>2. IsWellFoundedOn(R, Nat)
    BY NatLessThanWellFounded
  <2>3. \A x, y \in Nat : x < y => <<x, y>> \in R
    BY DEF OpToRel
  <2>4. PICK k \in D : \A j \in D : ~(<<j, k>> \in R)
    <3> HIDE DEF D, R
    <3> QED BY <2>1, <2>2, WFMin
  <2>5. k \in 0 .. Path /\ Path - k \notin B
    OBVIOUS
  <2>6. k # 0
    <3>1. Path - 0 = Path
      BY <1>0
    <3> QED BY <2>5, <3>1
  <2>7. k - 1 \in 0 .. Path /\ k - 1 < k /\ k \in Nat /\ k - 1 \in Nat
    BY <1>0, <2>5, <2>6
  <2>8. k - 1 \notin D
    <3> HIDE DEF D, R
    <3> QED BY <2>3, <2>4, <2>7
  <2>9. Path - (k - 1) \in B
    BY <2>7, <2>8
  <2>10. Path - k \in Stamp /\ (Path - k) + 1 = Path - (k - 1)
    BY <1>0, <2>5, <2>6
  <2> QED BY <2>5, <2>9, <2>10
<1>2. ASSUME NEW n \in Name PROVE n \in B
  <2>1. Path - n \in 0 .. Path /\ Path - (Path - n) = n
    BY <1>0
  <2>2. Path - n \notin D
    BY <1>1
  <2> QED BY <2>1, <2>2
<1> QED BY <1>2

\* L is what a reader gets who starts at a name and reads the files c to the
\* end.
Reads(c, L) ==
  /\ c \in [Name -> Seq(Line)] /\ L \in [Name -> Seq(Line)]
  /\ L[Path] = c[Path]
  /\ \A n \in Stamp : L[n] = c[n] \o L[n + 1]

\* Behind every rotated file comes another name (Logger.h:131).
LEMMA NextName == \A n \in Stamp : n \in Name /\ n + 1 \in Name /\ n \in Int /\ n < Path
BY LoggerAssumption DEF Stamp, Name, Path

\* What WholeLog reads: from every name on, the file of that name and then the
\* rest, up to the current file at the path (Logger.h:131-135).
LEMMA LogIs ==
  Types => \E c, L : Reads(c, L) /\ (\A n \in Name : c[n] = Contents(n)) /\ WholeLog = L[0]
<1> SUFFICES ASSUME Types
             PROVE  \E c, L : Reads(c, L) /\ (\A n \in Name : c[n] = Contents(n)) /\ WholeLog = L[0]
  OBVIOUS
<1>0. Path \in Nat /\ Name = 0 .. Path /\ Stamp = 0 .. Path - 1
  BY LoggerAssumption DEF Path, Name, Stamp
<1>1. PICK c : c = [n \in Name |-> Contents(n)]
  OBVIOUS
<1>2. \A n \in Name : Contents(n) \in Seq(Line)
  <2> SUFFICES ASSUME NEW n \in Name PROVE Contents(n) \in Seq(Line)
    OBVIOUS
  <2>1. dir[n] \in 0 .. Len(files) /\ files \in Seq(Seq(Line)) /\ Len(files) \in Nat
    BY LenProperties DEF Types, TypeOK, FileTypes
  <2>2. dir[n] # 0 => files[dir[n]] \in Seq(Line)
    BY <2>1, ElementOfSeq
  <2> QED BY <2>2, EmptySeq DEF Contents
<1>3. c \in [Name -> Seq(Line)] /\ \A n \in Name : c[n] = Contents(n)
  BY <1>1, <1>2
<1> DEFINE Fun(f, m) == [n \in m .. Path |-> IF n = Path THEN Contents(Path)
                                             ELSE Contents(n) \o f[n + 1]]
           B == {m \in Name : \E f : f = Fun(f, m)}
<1>4. \A m \in Name : m \in B
  <2>1. Path \in B
    <3> DEFINE g == [n \in Path .. Path |-> Contents(Path)]
    <3>1. g = Fun(g, Path)
      <4>1. \A n \in Path .. Path : n = Path
        BY <1>0
      <4> QED BY <4>1
    <3> HIDE DEF Fun, g
    <3> QED BY <3>1, Names
  <2>2. ASSUME NEW m \in Stamp, m + 1 \in B PROVE m \in B
    <3>1. PICK f : f = Fun(f, m + 1)
      BY <2>2
    <3>2. /\ m \in Name /\ m \in Int /\ m # Path /\ m + 1 \in m + 1 .. Path
          /\ \A n \in m .. Path : n = m \/ (n \in m + 1 .. Path /\ n # m)
          /\ \A n \in m + 1 .. Path : n # Path => n + 1 \in m + 1 .. Path
          /\ \A n \in m + 1 .. Path : n \in m .. Path /\ n # m
          /\ \A n \in m .. Path : n # Path => n + 1 \in m .. Path /\ n + 1 # m
      BY <1>0
    <3> DEFINE g == [n \in m .. Path |-> IF n = m THEN Contents(m) \o f[m + 1] ELSE f[n]]
    <3>3. ASSUME NEW n \in m .. Path
          PROVE  g[n] = IF n = Path THEN Contents(Path) ELSE Contents(n) \o g[n + 1]
      <4> HIDE DEF Contents
      <4>1. CASE n = m
        BY <3>2, <4>1
      <4>2. CASE n # m
        <5>1. n \in m + 1 .. Path /\ g[n] = f[n]
          BY <3>2, <4>2
        <5>2. f[n] = IF n = Path THEN Contents(Path) ELSE Contents(n) \o f[n + 1]
          BY <3>1, <5>1
        <5>3. n # Path => g[n + 1] = f[n + 1]
          BY <3>2
        <5> QED BY <5>1, <5>2, <5>3
      <4> QED BY <4>1, <4>2
    <3>4. g = [n \in m .. Path |-> g[n]]
      OBVIOUS
    <3> HIDE DEF g
    <3>5. g = Fun(g, m)
      BY <3>3, <3>4
    <3> HIDE DEF Fun
    <3> QED BY <3>2, <3>5
  <2> HIDE DEF B
  <2> QED BY <2>1, <2>2, Downward
<1> DEFINE All(f) == [n \in Name |-> IF n = Path THEN Contents(Path)
                                     ELSE Contents(n) \o f[n + 1]]
<1>5. PICK L : L = CHOOSE f : f = All(f)
  OBVIOUS
<1>6. L = All(L)
  <2>1. 0 \in B
    <3> HIDE DEF B
    <3> QED BY <1>4, Names
  <2>2. PICK f : f = Fun(f, 0)
    BY <2>1
  <2>3. f = All(f)
    <3>1. f = [n \in 0 .. Path |-> f[n]]
      BY <2>2
    <3>2. \A n \in 0 .. Path : f[n] = IF n = Path THEN Contents(Path)
                                      ELSE Contents(n) \o f[n + 1]
      BY <2>2
    <3> QED BY <1>0, <3>1, <3>2
  <2> HIDE DEF All
  <2> QED BY <1>5, <2>3
<1>7. WholeLog = L[0]
  BY <1>5 DEF WholeLog
<1>8. /\ L[Path] = c[Path]
      /\ \A n \in Stamp : L[n] = c[n] \o L[n + 1]
  <2>1. \A n \in Stamp : n \in 0 .. Path /\ n # Path
    BY <1>0
  <2>2. Path \in 0 .. Path
    BY <1>0
  <2> QED BY <1>0, <1>3, <1>6, <2>1, <2>2
<1> HIDE DEF Fun, All
<1>9. \A n \in Name : L[n] \in Seq(Line)
  <2> DEFINE T == {n \in Name : L[n] \in Seq(Line)}
  <2>1. Path \in T
    BY <1>3, <1>8, Names
  <2>2. \A n \in Stamp : n + 1 \in T => n \in T
    <3> SUFFICES ASSUME NEW n \in Stamp, n + 1 \in T PROVE n \in T
      OBVIOUS
    <3>1. c[n] \in Seq(Line) /\ L[n + 1] \in Seq(Line) /\ n \in Name
      BY <1>3, NextName
    <3>2. c[n] \o L[n + 1] \in Seq(Line)
      BY <3>1, ConcatProperties
    <3> QED BY <1>8, <3>1, <3>2
  <2>3. \A n \in Name : n \in T
    <3> HIDE DEF T
    <3> QED BY <2>1, <2>2, Downward
  <2> QED BY <2>3
<1>10. L \in [Name -> Seq(Line)]
  <2>1. L = [n \in Name |-> L[n]]
    BY <1>6 DEF All
  <2> QED BY <1>9, <2>1
<1> QED BY <1>3, <1>7, <1>8, <1>10 DEF Reads

\* The same after a step of log() (Logger.h:56-140).
LEMMA NextLogIs ==
  (Types => \E c, L : Reads(c, L) /\ (\A n \in Name : c[n] = Contents(n)) /\ WholeLog = L[0])'
BY LogIs, PTL

\* Two logs that agree on the files before a name and on the rest from there are
\* the same: a rotation touches only the end of the log (Logger.h:132).
LEMMA SameReads ==
  ASSUME NEW c, NEW L, Reads(c, L), NEW d, NEW M, Reads(d, M), NEW k \in Name,
         \A n \in Stamp : n < k => c[n] = d[n], L[k] = M[k]
  PROVE  L[0] = M[0]
<1> DEFINE B == {n \in Name : n > k \/ L[n] = M[n]}
<1>0. Path \in Nat /\ Name = 0 .. Path /\ Stamp = 0 .. Path - 1
  BY LoggerAssumption DEF Path, Name, Stamp
<1>1. Path \in B
  BY <1>0
<1>2. ASSUME NEW n \in Stamp, n + 1 \in B PROVE n \in B
  <2>1. n \in Name
    BY <1>0
  <2>2. CASE n >= k
    BY <1>0, <2>1, <2>2
  <2>3. CASE n < k
    <3>1. L[n + 1] = M[n + 1]
      BY <1>0, <1>2, <2>3
    <3>2. L[n] = M[n]
      BY <2>3, <3>1 DEF Reads
    <3> QED BY <2>1, <3>2
  <2> QED BY <1>0, <2>2, <2>3
<1>3. 0 \in B
  <2>1. 0 \in Name
    BY <1>0
  <2> HIDE DEF B
  <2> QED BY <1>1, <1>2, <2>1, Downward
<1> QED BY <1>0, <1>3

\* Reading the files and then one line more is reading files that end with that
\* line (Logger.h:70,107).
LEMMA Regroup ==
  \A u, v, w \in Seq(Line) : (u \o v) \o w = u \o (v \o w)
<1> SUFFICES ASSUME NEW S
             PROVE  \A u, v, w \in Seq(S) : (u \o v) \o w = u \o (v \o w)
  OBVIOUS
<1> QED BY ConcatAssociative

\* A line at the end of the current file is a line at the end of the log
\* (Logger.h:70,107).
LEMMA AppendReads ==
  ASSUME NEW c, NEW L, Reads(c, L), NEW d, NEW M, Reads(d, M), NEW e \in Line,
         \A n \in Stamp : c[n] = d[n], d[Path] = Append(c[Path], e)
  PROVE  M[0] = Append(L[0], e)
<1> DEFINE B == {n \in Name : M[n] = Append(L[n], e)}
<1>1. Path \in B
  BY Names DEF Reads
<1>2. ASSUME NEW n \in Stamp, n + 1 \in B PROVE n \in B
  <2>1. n \in Name /\ n + 1 \in Name /\ M[n + 1] = Append(L[n + 1], e)
    BY <1>2, NextName
  <2>2. /\ c[n] \in Seq(Line) /\ L[n + 1] \in Seq(Line) /\ L[n] \in Seq(Line)
        /\ L[n] = c[n] \o L[n + 1] /\ M[n] = c[n] \o M[n + 1] /\ <<e>> \in Seq(Line)
    <3>1. /\ c[n] \in Seq(Line) /\ L[n + 1] \in Seq(Line) /\ L[n] \in Seq(Line)
          /\ L[n] = c[n] \o L[n + 1]
      BY <2>1 DEF Reads
    <3>2. M[n] = d[n] \o M[n + 1] /\ c[n] = d[n]
      BY DEF Reads
    <3> QED BY <3>1, <3>2
  <2>3. Append(L[n + 1], e) = L[n + 1] \o <<e>> /\ Append(L[n], e) = L[n] \o <<e>>
    <3>1. \A s \in Seq(Line) : Append(s, e) = s \o <<e>>
      BY AppendIsConcat
    <3> QED BY <2>2, <3>1
  <2>4. (c[n] \o L[n + 1]) \o <<e>> = c[n] \o (L[n + 1] \o <<e>>)
    <3>1. <<e>> \in Seq(Line)
      BY <2>2
    <3>2. c[n] \in Seq(Line) /\ L[n + 1] \in Seq(Line)
      BY <2>2
    <3> QED BY <3>1, <3>2, Regroup, Zenon
  <2>5. M[n] = Append(L[n], e)
    BY <2>1, <2>2, <2>3, <2>4
  <2> QED BY <2>1, <2>5
<1>3. 0 \in B
  <2> HIDE DEF B
  <2> QED BY <1>1, <1>2, Names, Downward
<1> QED BY <1>3

\* Behind the last rotated file comes the current one (Logger.h:131-135).
LEMMA EmptyTail ==
  ASSUME NEW c, NEW L, Reads(c, L), NEW m \in Stamp,
         \A n \in Stamp : n > m => c[n] = <<>>
  PROVE  L[m + 1] = c[Path]
<1> DEFINE B == {n \in Name : n <= m \/ L[n] = c[Path]}
<1>0. Path \in Nat /\ Name = 0 .. Path /\ Stamp = 0 .. Path - 1
  BY LoggerAssumption DEF Path, Name, Stamp
<1>1. Path \in B
  BY Names DEF Reads
<1>2. ASSUME NEW n \in Stamp, n + 1 \in B PROVE n \in B
  <2>1. n \in Name
    BY <1>0
  <2>2. CASE n <= m
    BY <2>1, <2>2
  <2>3. CASE n > m
    <3>1. L[n + 1] = c[Path] /\ c[Path] \in Seq(Line)
      BY <1>0, <1>2, <2>3 DEF Reads
    <3>2. L[n] = <<>> \o c[Path]
      BY <2>3, <3>1 DEF Reads
    <3>3. L[n] = c[Path]
      BY <3>1, <3>2, ConcatEmptySeq
    <3> QED BY <2>1, <3>3
  <2> QED BY <1>0, <2>2, <2>3
<1>3. m + 1 \in B
  <2>1. m + 1 \in Name
    BY <1>0
  <2> HIDE DEF B
  <2> QED BY <1>1, <1>2, <2>1, Downward
<1> QED BY <1>0, <1>3

\* Renaming the current file to the last name leaves the log as it was
\* (Logger.h:132).
LEMMA RotateReads ==
  ASSUME NEW c, NEW L, Reads(c, L), NEW d, NEW M, Reads(d, M), NEW m \in Stamp,
         \A n \in Stamp : n >= m => c[n] = <<>>,
         d[m] = c[Path], d[Path] = <<>>,
         \A n \in Stamp : n # m => d[n] = c[n]
  PROVE  M[0] = L[0]
<1>0. Path \in Nat /\ Name = 0 .. Path /\ Stamp = 0 .. Path - 1
  BY LoggerAssumption DEF Path, Name, Stamp
<1>1. \A n \in Stamp : n > m => c[n] = <<>> /\ d[n] = <<>>
  BY <1>0
<1>2. L[m + 1] = c[Path]
  BY <1>1, EmptyTail
<1>3. M[m + 1] = <<>>
  BY <1>1, EmptyTail
<1>4. c[m] = <<>> /\ c[Path] \in Seq(Line)
  BY <1>0 DEF Reads
<1>5. L[m] = <<>> \o c[Path] /\ M[m] = c[Path] \o <<>>
  BY <1>2, <1>3, <1>4 DEF Reads
<1>6. L[m] = M[m]
  BY <1>4, <1>5, ConcatEmptySeq
<1>7. \A n \in Stamp : n < m => c[n] = d[n]
  BY <1>0
<1>8. m \in Name
  BY <1>0
<1> QED BY <1>6, <1>7, <1>8, SameReads

-----------------------------------------------------------------------------
(***************************************************************************)
(* The invariant for the order of the log.                                 *)
(***************************************************************************)

\* No file has two names.
OneName == \A m, n \in Name : dir[m] # 0 /\ dir[m] = dir[n] => m = n

\* Until the local time goes back, timestamps lie in the past.
Stamped ==
  ~setBack =>
    /\ \A n \in Stamp : dir[n] # 0 => n <= clock
    /\ \A t \in Thread : newName[t] <= clock

\* A process alone on the path writes to the file at the path, and until the
\* local time goes back the name its rotation has chosen is not before those of
\* earlier rotations.
AloneAtPath ==
  Alone =>
    /\ \A p \in Proc : stream[p] # 0 => stream[p] = dir[Path]
    /\ \A t \in Thread : pc[t] = "rename" /\ ~setBack =>
         \A n \in Stamp : dir[n] # 0 => n <= newName[t]

\* The inductive invariant for the order of the log.
OrderInv == IndInv /\ OneName /\ Stamped /\ AloneAtPath /\ ReadsInOrder

\* Before the first Logger is constructed the log is empty (Logger.h:35-45).
LEMMA InitOrderInv == Init => OrderInv
<1> SUFFICES ASSUME Init PROVE OrderInv
  OBVIOUS
<1>1. IndInv
  BY InitIndInv
<1>2. /\ \A n \in Name : dir[n] = 0
      /\ \A t \in Thread : newName[t] = 0 /\ pc[t] = "idle"
      /\ \A p \in Proc : stream[p] = 0
      /\ clock = 0 /\ order = <<>>
  BY DEF Init
<1>3. OneName /\ Stamped /\ AloneAtPath
  BY <1>2, Names DEF OneName, Stamped, AloneAtPath
<1>4. WholeLog = <<>>
  <2>1. PICK c, L : Reads(c, L) /\ (\A n \in Name : c[n] = Contents(n)) /\ WholeLog = L[0]
    BY <1>1, LogIs DEF IndInv
  <2>2. \A n \in Name : c[n] = <<>>
    BY <1>2, <2>1 DEF Contents
  <2>3. 0 \in Stamp /\ 0 \in Name /\ Path \in Name /\ \A n \in Stamp : n \in Name
    BY Names
  <2>4. L[0 + 1] = c[Path]
    BY <2>1, <2>2, <2>3, EmptyTail
  <2>5. L[0] = <<>> \o <<>>
    BY <2>1, <2>2, <2>3, <2>4 DEF Reads
  <2> QED BY <2>1, <2>5
<1> QED BY <1>1, <1>2, <1>3, <1>4 DEF OrderInv, ReadsInOrder

\* A step that keeps what the files under the names hold keeps the log, even if
\* it opens a new file at the path (Logger.h:39,135).
LEMMA LogKept ==
  ASSUME Types, Types', \A n \in Name : Contents(n)' = Contents(n)
  PROVE  WholeLog' = WholeLog
<1>1. PICK c, L : Reads(c, L) /\ (\A n \in Name : c[n] = Contents(n)) /\ WholeLog = L[0]
  BY LogIs
<1>2. PICK d, M : Reads(d, M) /\ (\A n \in Name : d[n] = Contents(n)') /\ WholeLog' = M[0]
  BY NextLogIs DEF Reads
<1>3. \A n \in Name : c[n] = d[n]
  BY <1>1, <1>2
<1>4. L[Path] = M[Path] /\ Path \in Name /\ \A n \in Stamp : c[n] = d[n]
  BY <1>1, <1>2, <1>3, Names DEF Reads
<1> QED BY <1>1, <1>2, <1>4, SameReads

\* Steps that touch no names, and no files while no insertion has failed: the
\* clock, calls and returns, the size check with its choice of a name, a close,
\* failed opens and renames (Logger.h:48-58,127-132).
LEMMA Quiet ==
  ASSUME OrderInv, IndInv', Alone' => Alone,
         UNCHANGED <<dir, console, order, clobbered, dropped>>,
         files' = files \/ dropped # {},
         ~setBack' => ~setBack /\ clock <= clock',
         \A p \in Proc : stream'[p] = 0 \/ stream'[p] = stream[p],
         \A t \in Thread : \/ newName'[t] = clock
                           \/ newName'[t] = 0 /\ pc'[t] # "rename"
                           \/ newName'[t] = newName[t] /\ (pc'[t] = "rename" => pc[t] = "rename")
  PROVE  OrderInv'
<1>1. OneName'
  BY DEF OrderInv, OneName
<1>2. Stamped'
  <2>1. clock \in Nat
    BY LoggerAssumption DEF OrderInv, IndInv, Types, TypeOK, Stamp
  <2>2. \A n \in Stamp : n \in Nat
    BY LoggerAssumption DEF Stamp
  <2>3. \A t \in Thread : newName[t] \in Nat
    BY <2>2 DEF OrderInv, IndInv, Types, TypeOK
  <2>4. clock' \in Nat
    BY <2>2 DEF IndInv, Types, TypeOK
  <2> SUFFICES ASSUME ~setBack'
               PROVE  /\ \A n \in Stamp : dir'[n] # 0 => n <= clock'
                      /\ \A t \in Thread : newName'[t] <= clock'
    BY DEF Stamped
  <2>5. /\ clock <= clock'
        /\ \A n \in Stamp : dir[n] # 0 => n <= clock
        /\ \A t \in Thread : newName[t] <= clock
    BY DEF OrderInv, Stamped
  <2>6. \A n \in Stamp : dir'[n] # 0 => n <= clock'
    BY <2>1, <2>2, <2>4, <2>5
  <2>7. ASSUME NEW t \in Thread PROVE newName'[t] <= clock'
    <3>1. newName'[t] \in {clock, 0, newName[t]}
      OBVIOUS
    <3> QED BY <2>1, <2>3, <2>4, <2>5, <3>1
  <2> QED BY <2>6, <2>7
<1>3. AloneAtPath'
  BY DEF OrderInv, AloneAtPath, Stamped
<1>4. ASSUME files' = files PROVE WholeLog' = WholeLog
  <2>1. \A n \in Name : Contents(n)' = Contents(n)
    BY <1>4 DEF Contents
  <2> QED BY <2>1, LogKept DEF OrderInv, IndInv
<1>5. ReadsInOrder'
  <2>1. CASE dropped # {}
    BY <2>1 DEF ReadsInOrder
  <2>2. CASE files' = files
    BY <1>4, <2>2 DEF OrderInv, ReadsInOrder
  <2> QED BY <2>1, <2>2
<1> QED BY <1>1, <1>2, <1>3, <1>5 DEF OrderInv

\* Opening the path for appending makes at most an empty file
\* (Logger.h:39,135).
LEMMA OpenOrdered ==
  ASSUME OrderInv, IndInv', Alone' => Alone, NEW p \in Proc, OpenAppend(p),
         UNCHANGED <<console, order, clobbered, setBack, dropped, clock>>,
         \A t \in Thread : \/ newName'[t] = 0 /\ pc'[t] # "rename"
                           \/ newName'[t] = newName[t] /\ (pc'[t] = "rename" => pc[t] = "rename")
  PROVE  OrderInv'
<1>1. /\ Len(files) \in Nat /\ Len(files) <= Len(files')
      /\ \A f \in 1 .. Len(files) : files'[f] = files[f]
      /\ dir'[Path] \in 1 .. Len(files')
      /\ \A n \in Name : dir[n] # 0 => dir'[n] = dir[n]
      /\ dir[Path] = 0 => files'[dir'[Path]] = <<>>
      /\ stream'[p] = dir'[Path]
      /\ \A q \in Proc : q # p => stream'[q] = stream[q]
  BY Opened DEF OrderInv, IndInv
<1>2. \A n \in Name : dir[n] \in 0 .. Len(files)
  BY DEF OrderInv, IndInv, Types, TypeOK
<1>3. /\ \A n \in Stamp : dir'[n] = dir[n]
      /\ dir'[Path] = dir[Path] \/ (dir[Path] = 0 /\ dir'[Path] = Len(files) + 1)
  BY Names DEF OpenAppend, OrderInv, IndInv, Types, TypeOK
<1>4. OneName'
  <2> SUFFICES ASSUME NEW m \in Name, NEW n \in Name, dir'[m] # 0, dir'[m] = dir'[n]
               PROVE  m = n
    BY DEF OneName
  <2>1. \A k \in Name : dir'[k] = dir[k] \/ (k = Path /\ dir'[k] = Len(files) + 1)
    BY <1>3, Names
  <2>2. \A k \in Name : dir[k] # Len(files) + 1
    BY <1>1, <1>2
  <2> QED BY <2>1, <2>2 DEF OrderInv, OneName
<1>5. Stamped'
  <2>1. 0 <= clock
    BY LoggerAssumption DEF OrderInv, IndInv, Types, TypeOK, Stamp
  <2> QED BY <1>3, <2>1 DEF OrderInv, Stamped
<1>6. AloneAtPath'
  <2> SUFFICES ASSUME Alone, Alone'
               PROVE  /\ \A q \in Proc : stream'[q] # 0 => stream'[q] = dir'[Path]
                      /\ \A t \in Thread : pc'[t] = "rename" /\ ~setBack' =>
                           \A n \in Stamp : dir'[n] # 0 => n <= newName'[t]
    BY DEF AloneAtPath
  <2>1. ASSUME NEW q \in Proc, stream'[q] # 0 PROVE stream'[q] = dir'[Path]
    <3>1. CASE q = p
      BY <1>1, <3>1
    <3>2. CASE q # p
      <4>1. stream[q] # 0 /\ stream'[q] = stream[q] /\ stream[q] = dir[Path]
        BY <1>1, <2>1, <3>2 DEF OrderInv, AloneAtPath
      <4> QED BY <1>1, <4>1, Names
    <3> QED BY <3>1, <3>2
  <2>2. \A t \in Thread : pc'[t] = "rename" /\ ~setBack' =>
          \A n \in Stamp : dir'[n] # 0 => n <= newName'[t]
    BY <1>3 DEF OrderInv, AloneAtPath
  <2> QED BY <2>1, <2>2
<1>7. WholeLog' = WholeLog
  <2>1. ASSUME NEW n \in Name PROVE Contents(n)' = Contents(n)
    <3>1. CASE dir[n] # 0
      <4>1. dir'[n] = dir[n] /\ dir[n] \in 1 .. Len(files)
        BY <1>1, <1>2, <3>1
      <4>2. files'[dir[n]] = files[dir[n]]
        BY <1>1, <4>1
      <4> QED BY <3>1, <4>1, <4>2 DEF Contents
    <3>2. CASE dir[n] = 0 /\ n \in Stamp
      <4>1. dir'[n] = 0
        BY <1>3, <3>2
      <4> QED BY <3>2, <4>1 DEF Contents
    <3>3. CASE dir[n] = 0 /\ n = Path
      <4>1. files'[dir'[n]] = <<>>
        BY <1>1, <3>3
      <4> QED BY <3>3, <4>1 DEF Contents
    <3> QED BY <3>1, <3>2, <3>3, Names
  <2> QED BY <2>1, LogKept DEF OrderInv, IndInv
<1>8. ReadsInOrder'
  BY <1>7 DEF OrderInv, ReadsInOrder
<1> QED BY <1>4, <1>5, <1>6, <1>8 DEF OrderInv

\* The rename: alone on the path, the chosen name is behind those in use, so
\* the file stays the last but for the empty place at the path
\* (Logger.h:131-132).
LEMMA RenameOrdered ==
  ASSUME OrderInv, IndInv', NEW t \in Thread, Rename(t), dir[Path] # 0,
         dir' = [dir EXCEPT ![newName[t]] = dir[Path], ![Path] = 0],
         clobbered' = (clobbered \/ dir[newName[t]] # 0)
  PROVE  OrderInv'
<1> DEFINE m == newName[t]
<1>1. /\ pc[t] = "rename"
      /\ UNCHANGED <<life, stream, newName, clock, files, console, order, setBack, dropped>>
  BY DEF Rename
<1>2. /\ \A u \in Thread : u # t => pc'[u] = pc[u]
      /\ pc'[t] = "open"
  BY DEF Rename, AfterRename, Goto, OrderInv, IndInv, Types, TypeOK
<1>3. m \in Stamp /\ m # Path /\ Path \notin Stamp /\ Path \in Name
      /\ \A n \in Stamp : n \in Name /\ n # Path
  BY Names DEF OrderInv, IndInv, Types, TypeOK
<1>4. /\ dir'[m] = dir[Path] /\ dir'[Path] = 0
      /\ \A n \in Name : n # m /\ n # Path => dir'[n] = dir[n]
  BY <1>3 DEF OrderInv, IndInv, Types, TypeOK
<1>5. (Alone' => Alone) /\ (Alone => Alone')
  BY <1>1 DEF Alone
<1>6. OneName'
  <2> SUFFICES ASSUME NEW i \in Name, NEW j \in Name, dir'[i] # 0, dir'[i] = dir'[j]
               PROVE  i = j
    BY DEF OneName
  <2>1. i # Path /\ j # Path
    BY <1>4
  <2>2. \A k \in Name : k # m /\ k # Path => dir'[k] = dir[k] /\ dir[k] # dir[Path]
    BY <1>3, <1>4 DEF OrderInv, OneName
  <2> HIDE DEF m
  <2> QED BY <1>4, <2>1, <2>2 DEF OrderInv, OneName
<1>7. Stamped'
  <2>1. ~setBack => m <= clock
    BY DEF OrderInv, Stamped
  <2>2. \A n \in Stamp : n # m => dir'[n] = dir[n]
    BY <1>3, <1>4
  <2> HIDE DEF m
  <2> QED BY <1>1, <2>1, <2>2 DEF OrderInv, Stamped
<1>8. AloneAtPath'
  <2> SUFFICES ASSUME Alone
               PROVE  /\ \A q \in Proc : stream'[q] = 0
                      /\ \A u \in Thread : pc'[u] # "rename"
    BY <1>5 DEF AloneAtPath
  <2>1. /\ \A u \in Thread : u # t => pc[u] \in {"idle", "lock"}
        /\ \A q \in Proc : q # ProcOf[t] => stream[q] = 0
    BY <1>1, AloneInside DEF OrderInv
  <2>2. stream[ProcOf[t]] = 0
    BY <1>1 DEF OrderInv, IndInv, Lives
  <2> QED BY <1>1, <1>2, <2>1, <2>2
<1>9. ASSUME Alone, ~setBack, ~clobbered' PROVE WholeLog' = WholeLog
  <2>1. dir[m] = 0
    BY <1>9
  <2>2. \A n \in Stamp : dir[n] # 0 => n <= m
    BY <1>1, <1>9 DEF OrderInv, AloneAtPath
  <2>3. \A n \in Stamp : n >= m => dir[n] = 0
    <3>1. \A n \in Stamp : n \in Int
      BY NextName
    <3> HIDE DEF m
    <3>2. ASSUME NEW n \in Stamp, n >= m, dir[n] # 0 PROVE FALSE
      <4>1. n <= m /\ n \in Int /\ m \in Int
        BY <1>3, <2>2, <3>1, <3>2
      <4>2. n = m
        BY <3>2, <4>1
      <4> QED BY <2>1, <3>2, <4>2
    <3> QED BY <3>2
  <2>4. PICK c, L : Reads(c, L) /\ (\A n \in Name : c[n] = Contents(n)) /\ WholeLog = L[0]
    BY LogIs DEF OrderInv, IndInv
  <2>5. PICK d, M : Reads(d, M) /\ (\A n \in Name : d[n] = Contents(n)') /\ WholeLog' = M[0]
    BY NextLogIs DEF Reads, IndInv
  <2>6. \A n \in Stamp : n >= m => c[n] = <<>>
    BY <1>3, <2>3, <2>4 DEF Contents
  <2>7. d[m] = c[Path] /\ d[Path] = <<>>
    <3> HIDE DEF m
    <3>1. c[Path] = files[dir[Path]]
      BY <1>3, <2>4 DEF Contents
    <3>2. d[m] = files'[dir'[m]] /\ d[Path] = <<>>
      BY <1>3, <1>4, <2>5 DEF Contents
    <3> QED BY <1>1, <1>4, <3>1, <3>2
  <2>8. \A n \in Stamp : n # m => d[n] = c[n]
    <3> HIDE DEF m
    <3>1. ASSUME NEW n \in Stamp, n # m PROVE d[n] = c[n]
      <4>1. n \in Name /\ dir'[n] = dir[n] /\ files' = files
        BY <1>1, <1>3, <1>4, <3>1
      <4>2. Contents(n)' = Contents(n)
        BY <4>1 DEF Contents
      <4> QED BY <2>4, <2>5, <4>1, <4>2
    <3> QED BY <3>1
  <2> HIDE DEF m
  <2>9. M[0] = L[0]
    BY <1>3, <2>4, <2>5, <2>6, <2>7, <2>8, RotateReads
  <2> QED BY <2>4, <2>5, <2>9
<1>10. ReadsInOrder'
  BY <1>1, <1>5, <1>9 DEF OrderInv, ReadsInOrder
<1> QED BY <1>6, <1>7, <1>8, <1>10 DEF OrderInv

\* The line goes to the end of the file at the path, or does not get out whole
\* (Logger.h:70,107).
LEMMA WriteOrdered ==
  ASSUME OrderInv, IndInv', NEW t \in Thread, WriteFile(t)
  PROVE  OrderInv'
<1> DEFINE f == stream[ProcOf[t]]
<1>1. /\ pc[t] = "write" /\ order' = Append(order, line[t])
      /\ UNCHANGED <<life, stream, newName, clock, dir, console, clobbered, setBack>>
      /\ \/ /\ f # 0 /\ dropped' = dropped
            /\ files' = [files EXCEPT ![f] = Append(files[f], line[t])]
         \/ dropped' = dropped \cup {line[t]}
  BY DEF WriteFile, Insert, Swallow, Put
<1>2. \A u \in Thread : pc'[u] = "rename" => pc[u] = "rename"
  BY DEF WriteFile, Return, Goto, OrderInv, IndInv, Types, TypeOK
<1>3. OneName' /\ Stamped'
  BY <1>1 DEF OrderInv, OneName, Stamped
<1>4. AloneAtPath'
  BY <1>1, <1>2 DEF OrderInv, AloneAtPath, Alone
<1>5. ReadsInOrder'
  <2> SUFFICES ASSUME Alone, ~setBack, ~clobbered, dropped' = {}, console = <<>>
               PROVE  WholeLog' = order'
    BY <1>1 DEF ReadsInOrder, Alone
  <2>1. /\ f # 0 /\ dropped = {}
        /\ files' = [files EXCEPT ![f] = Append(files[f], line[t])]
    BY <1>1
  <2>2. f = dir[Path]
    BY <2>1, LoggerAssumption DEF OrderInv, AloneAtPath
  <2>3. WholeLog = order
    BY <2>1 DEF OrderInv, ReadsInOrder
  <2>4. line[t] \in Line
    BY <1>1 DEF OrderInv, IndInv, Types, TypeOK
  <2>5. Len(files) \in Nat /\ f \in 1 .. Len(files) /\ f \in DOMAIN files
    <3>1. Len(files) \in Nat /\ DOMAIN files = 1 .. Len(files)
      BY LenProperties DEF OrderInv, IndInv, Types, FileTypes
    <3>2. dir[Path] \in 0 .. Len(files)
      BY Names DEF OrderInv, IndInv, Types, TypeOK
    <3> HIDE DEF f
    <3> QED BY <2>1, <2>2, <3>1, <3>2
  <2> HIDE DEF f
  <2>6. /\ files'[f] = Append(files[f], line[t])
        /\ \A g \in 1 .. Len(files) : g # f => files'[g] = files[g]
    <3>1. DOMAIN files = 1 .. Len(files)
      BY FileTyping DEF OrderInv, IndInv, Types
    <3> QED BY <2>1, <2>5, <3>1
  <2>7. PICK c, L : Reads(c, L) /\ (\A n \in Name : c[n] = Contents(n)) /\ WholeLog = L[0]
    BY LogIs DEF OrderInv, IndInv
  <2>8. PICK d, M : Reads(d, M) /\ (\A n \in Name : d[n] = Contents(n)') /\ WholeLog' = M[0]
    BY NextLogIs DEF Reads, IndInv
  <2>9. ASSUME NEW n \in Stamp PROVE c[n] = d[n]
    <3>1. n \in Name /\ n # Path /\ Path \in Name
      BY Names
    <3>2. dir[n] # f /\ dir[n] \in 0 .. Len(files)
      BY <2>1, <2>2, <3>1 DEF OrderInv, OneName, IndInv, Types, TypeOK
    <3>3. dir[n] # 0 => files'[dir[n]] = files[dir[n]]
      BY <2>5, <2>6, <3>2
    <3> QED BY <1>1, <2>7, <2>8, <3>1, <3>3 DEF Contents
  <2>10. d[Path] = Append(c[Path], line[t])
    <3>1. c[Path] = files[f]
      BY <2>1, <2>2, <2>7, Names DEF Contents
    <3>2. d[Path] = files'[f]
      BY <1>1, <2>1, <2>2, <2>8, Names DEF Contents
    <3> QED BY <2>6, <3>1, <3>2
  <2>11. M[0] = Append(L[0], line[t])
    BY <2>4, <2>7, <2>8, <2>9, <2>10, AppendReads
  <2> QED BY <1>1, <2>3, <2>7, <2>8, <2>11
<1> QED BY <1>3, <1>4, <1>5 DEF OrderInv

\* Every step of the Loggers keeps the order of the log (Logger.h:35-140).
LEMMA NextOrderInv == OrderInv /\ [Next]_vars => OrderInv'
<1> SUFFICES ASSUME OrderInv, [Next]_vars PROVE OrderInv'
  OBVIOUS
<1>0. IndInv /\ IndInv'
  BY NextIndInv DEF OrderInv
<1> USE LoggerAssumption
<1>00. clock <= clock
  BY <1>0 DEF IndInv, Types, TypeOK, Stamp
<1>1. ASSUME NEW p \in Proc, Construct(p) PROVE OrderInv'
  <2>1. /\ life[p] = "new" /\ life' = [life EXCEPT ![p] = "alive"]
        /\ UNCHANGED <<pc, newName, clock, console, order, clobbered, setBack, dropped>>
    BY <1>1 DEF Construct
  <2>2. Alone' => Alone
    BY <1>0, <2>1, AloneBefore DEF IndInv
  <2>3. CASE OpenAppend(p)
    BY <1>0, <2>1, <2>2, <2>3, OpenOrdered
  <2>4. CASE UNCHANGED <<stream, dir, files>>
    BY <1>0, <1>00, <2>1, <2>2, <2>4, Quiet
  <2> QED BY <1>1, <2>3, <2>4 DEF Construct
<1>2. ASSUME NEW p \in Proc, Destroy(p) PROVE OrderInv'
  <2>1. /\ life[p] = "alive" /\ life' = [life EXCEPT ![p] = "gone"]
        /\ Close(p)
        /\ UNCHANGED <<pc, newName, clock, dir, console, order, clobbered, setBack, dropped>>
    BY <1>2 DEF Destroy
  <2>2. Alone' => Alone
    BY <1>0, <2>1, AloneBefore DEF IndInv
  <2>3. \A q \in Proc : stream'[q] = 0 \/ stream'[q] = stream[q]
    BY <1>0, <2>1, Closed
  <2>4. files' = files \/ dropped # {}
    BY <1>0, <2>1, Closed
  <2> QED BY <1>0, <1>00, <2>1, <2>2, <2>3, <2>4, Quiet
<1>3. ASSUME NEW t \in Thread, NEW level \in Levels, NEW len \in Lengths,
             LogMessage(t, level, len) \/ LogTime(t, level, len)
      PROVE  OrderInv'
  <2>1. UNCHANGED <<life, stream, newName, clock, dir, files, console, order, clobbered,
                    setBack, dropped>>
    BY <1>3 DEF LogMessage, LogTime, NewCall
  <2>2. \A u \in Thread : pc'[u] = "rename" => pc[u] = "rename"
    BY <1>0, <1>3 DEF LogMessage, LogTime, Goto, IndInv, Types, TypeOK
  <2>3. Alone' => Alone
    BY <2>1 DEF Alone
  <2> QED BY <1>0, <1>00, <2>1, <2>2, <2>3, Quiet
<1>4. ASSUME NEW t \in Thread, Lock(t) PROVE OrderInv'
  <2>1. UNCHANGED <<life, stream, newName, clock, dir, files, console, order, clobbered,
                    setBack, dropped>>
    BY <1>4 DEF Lock
  <2>2. \A u \in Thread : pc'[u] = "rename" => pc[u] = "rename"
    BY <1>0, <1>4 DEF Lock, Goto, IndInv, Types, TypeOK
  <2>3. Alone' => Alone
    BY <2>1 DEF Alone
  <2> QED BY <1>0, <1>00, <2>1, <2>2, <2>3, Quiet
<1>5. ASSUME NEW t \in Thread, WriteConsole(t) PROVE OrderInv'
  <2>1. /\ UNCHANGED <<life, stream, newName, clock, dir, files, clobbered, setBack, dropped>>
        /\ pc[t] = "console" /\ console' = Append(console, line[t])
    BY <1>5 DEF WriteConsole
  <2>2. \A u \in Thread : pc'[u] = "rename" => pc[u] = "rename"
    BY <1>0, <1>5 DEF WriteConsole, Return, Goto, IndInv, Types, TypeOK
  <2>3. OneName' /\ Stamped'
    BY <2>1 DEF OrderInv, OneName, Stamped
  <2>4. AloneAtPath'
    BY <2>1, <2>2 DEF OrderInv, AloneAtPath, Alone
  <2>5. console' # <<>>
    <3>1. line[t] \in Line /\ console \in Seq(Line)
      BY <1>0, <2>1 DEF IndInv, Types, TypeOK
    <3> QED BY <2>1, <3>1, AppendProperties
  <2> QED BY <1>0, <2>3, <2>4, <2>5 DEF OrderInv, ReadsInOrder
<1>6. ASSUME NEW t \in Thread, CheckSize(t) PROVE OrderInv'
  <2>1. UNCHANGED <<life, clock, dir, console, order, clobbered, setBack, dropped>>
    BY <1>6 DEF CheckSize
  <2>2. Alone' => Alone
    BY <2>1 DEF Alone
  <2>3. /\ \A q \in Proc : stream'[q] = 0 \/ stream'[q] = stream[q]
        /\ files' = files \/ dropped # {}
    <3>1. CASE Close(ProcOf[t])
      <4>1. ProcOf[t] \in Proc
        OBVIOUS
      <4> QED BY <1>0, <3>1, <4>1, Closed
    <3>2. CASE UNCHANGED <<stream, stuck, newName, files, size>>
      BY <3>2
    <3> QED BY <1>6, <3>1, <3>2 DEF CheckSize
  <2>4. \A u \in Thread : \/ newName'[u] = clock
                          \/ newName'[u] = newName[u] /\ (pc'[u] = "rename" => pc[u] = "rename")
    BY <1>0, <1>6 DEF CheckSize, Goto, getTimestamp, IndInv, Types, TypeOK
  <2> QED BY <1>0, <1>00, <2>1, <2>2, <2>3, <2>4, Quiet
<1>7. ASSUME NEW t \in Thread, Rename(t) PROVE OrderInv'
  <2>1. CASE /\ dir[Path] # 0
             /\ dir' = [dir EXCEPT ![newName[t]] = dir[Path], ![Path] = 0]
             /\ clobbered' = (clobbered \/ dir[newName[t]] # 0)
    BY <1>0, <1>7, <2>1, RenameOrdered
  <2>2. CASE UNCHANGED <<dir, clobbered>>
    <3>1. UNCHANGED <<life, stream, newName, clock, files, console, order, setBack, dropped>>
      BY <1>7 DEF Rename
    <3>2. \A u \in Thread : pc'[u] = "rename" => pc[u] = "rename"
      BY <1>0, <1>7 DEF Rename, AfterRename, Goto, IndInv, Types, TypeOK
    <3>3. Alone' => Alone
      BY <3>1 DEF Alone
    <3> QED BY <1>0, <1>00, <2>2, <3>1, <3>2, <3>3, Quiet
  <2> QED BY <1>7, <2>1, <2>2 DEF Rename
<1>8. ASSUME NEW t \in Thread, Reopen(t) PROVE OrderInv'
  <2>1. /\ UNCHANGED <<life, clock, console, order, clobbered, setBack, dropped>>
        /\ ProcOf[t] \in Proc
    BY <1>8 DEF Reopen
  <2>2. \A u \in Thread :
          \/ newName'[u] = 0 /\ pc'[u] # "rename"
          \/ newName'[u] = newName[u] /\ (pc'[u] = "rename" => pc[u] = "rename")
    BY <1>0, <1>8 DEF Reopen, Goto, IndInv, Types, TypeOK
  <2>3. Alone' => Alone
    BY <2>1 DEF Alone
  <2>4. CASE OpenAppend(ProcOf[t])
    BY <1>0, <2>1, <2>2, <2>3, <2>4, OpenOrdered
  <2>5. CASE UNCHANGED <<stream, dir, files>>
    BY <1>0, <1>00, <2>1, <2>2, <2>3, <2>5, Quiet
  <2> QED BY <1>8, <2>4, <2>5 DEF Reopen
<1>9. ASSUME NEW t \in Thread, WriteFile(t) PROVE OrderInv'
  BY <1>0, <1>9, WriteOrdered
<1>10. ASSUME Tick \/ UNCHANGED vars PROVE OrderInv'
  <2>1. /\ UNCHANGED <<life, stream, pc, newName, dir, files, console, order, clobbered, dropped>>
    BY <1>10 DEF Tick, vars
  <2>2. Alone' => Alone
    BY <2>1 DEF Alone
  <2>3. ~setBack' => ~setBack /\ clock <= clock'
    <3>1. clock \in Int /\ \A n \in Stamp : n \in Int
      BY <1>0 DEF IndInv, Types, TypeOK, Stamp
    <3>2. CASE Tick
      <4>1. PICK now \in Stamp : clock' = now /\ setBack' = (setBack \/ now < clock)
        BY <3>2 DEF Tick
      <4>2. ~setBack' => ~setBack /\ ~(now < clock)
        BY <4>1, Zenon
      <4>3. ~(now < clock) => clock <= clock'
        BY <3>1, <4>1
      <4> QED BY <4>2, <4>3
    <3>3. CASE UNCHANGED vars
      <4>1. setBack' = setBack /\ clock' = clock
        BY <3>3 DEF vars
      <4> QED BY <1>00, <4>1
    <3> QED BY <1>10, <3>2, <3>3
  <2> QED BY <1>0, <2>1, <2>2, <2>3, Quiet
<1> QED
  BY <1>1, <1>2, <1>3, <1>4, <1>5, <1>6, <1>7, <1>8, <1>9, <1>10 DEF Next, LogStep, Finished

\* For any number of threads, calls and rotations and whatever renames fail, the
\* log of a process alone on its path, read by timestamp and then the current
\* file, gives the lines in the order the calls wrote them, unless the local time
\* went back, two rotations fell into one second, or a failed open or insertion
\* kept lines out (Logger.h:115-121,131-135).
THEOREM LogReadsInOrder == Spec => []ReadsInOrder
<1>1. OrderInv => ReadsInOrder
  BY DEF OrderInv
<1> QED BY InitOrderInv, NextOrderInv, <1>1, PTL DEF Spec

=============================================================================
