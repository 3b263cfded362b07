---------------------------- MODULE FileDownload ----------------------------
(***************************************************************************)
(* GetFile of file_service/file_client.cxx: the chunks of a server stream  *)
(* are written to a local file whose errors nobody looks at.  The server   *)
(* and gRPC are external: the chunks arrive in order, and the stream ends  *)
(* with OK after the last one or with an error at any time.  An ofstream   *)
(* keeps its bad state: after a failed write it writes nothing more.       *)
(***************************************************************************)
EXTENDS Naturals

CONSTANT NumChunks

DownloadAssumption == NumChunks \in Nat

VARIABLES
  step,     \* where GetFile is
  status,   \* the status of the call
  bytes_received,  \* in chunks
  good,     \* the state of the ofstream
  stored    \* the chunks that are in the file

downloadVars == <<step, status, bytes_received, good, stored>>

Chunk == 1 .. NumChunks

TypeOK ==
  /\ step \in {"start", "loop", "finish", "success", "failed", "unopened"}
  /\ status \in {"open", "ok", "error"}
  /\ bytes_received \in 0 .. NumChunks
  /\ good \in BOOLEAN
  /\ stored \subseteq Chunk

Init ==
  /\ step = "start" /\ status = "open" /\ bytes_received = 0 /\ good = TRUE
  /\ stored = {}

-----------------------------------------------------------------------------
\* the server sent its last chunk, or the call broke
StreamEnds ==
  /\ status = "open"
  /\ \/ status' = "ok" /\ bytes_received = NumChunks
     \/ status' = "error"
  /\ UNCHANGED <<step, bytes_received, good, stored>>

\* the call is started before the output file is opened
Open ==
  /\ step = "start"
  /\ step' \in {"loop", "unopened"}
  /\ UNCHANGED <<status, bytes_received, good, stored>>

WriteAnyway(full) ==  \* mutated: output.clear() before the write
  /\ stored' = IF full THEN stored ELSE stored \cup {bytes_received + 1}
  /\ good' = ~full

\* output.write; a full disk may have room again later
Write(full) ==
  /\ stored' = IF good /\ ~full THEN stored \cup {bytes_received + 1} ELSE stored
  /\ good' = (good /\ ~full)

ReadChunk ==
  /\ step = "loop" /\ status = "open" /\ bytes_received < NumChunks
  /\ \E full \in BOOLEAN : Write(full)
  /\ bytes_received' = bytes_received + 1
  /\ UNCHANGED <<step, status>>

\* Read is false; close writes what is still buffered, if it can
Close ==
  /\ step = "loop" /\ status # "open"
  /\ step' = "finish"
  /\ stored' \in {stored, stored \ {bytes_received}}
  /\ UNCHANGED <<status, bytes_received, good>>

AnyStatus == {"ok", "error"}  \* mutated: the status is not looked at
Ok == {"ok"}

Finish ==
  /\ step = "finish"
  /\ step' = IF status \in Ok THEN "success" ELSE "failed"
  /\ UNCHANGED <<status, bytes_received, good, stored>>

Next == StreamEnds \/ Open \/ ReadChunk \/ Close \/ Finish

\* nothing makes the server go on: the call has no deadline
Spec == Init /\ [][Next]_downloadVars

-----------------------------------------------------------------------------
(***************************************************************************)
(* When the success is reported every chunk has been received              *)
(* (file_client.cxx:36-47).                                                *)
(***************************************************************************)
SuccessMeansReceived == step = "success" => bytes_received = NumChunks

(***************************************************************************)
(* Whatever writes fail, the file holds a prefix of what was sent, never   *)
(* one with a chunk missing in the middle (file_client.cxx:37).            *)
(***************************************************************************)
StoredIsPrefix == \A k \in stored : \A j \in 1 .. k : j \in stored

(***************************************************************************)
(* What "Successfully received file" (file_client.cxx:46) tells the user:  *)
(* the whole file is there.  A failed write of line 37 is not noticed.     *)
(***************************************************************************)
SuccessMeansStored == step = "success" => stored = Chunk
=============================================================================
