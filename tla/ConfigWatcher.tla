---------------------------- MODULE ConfigWatcher ----------------------------
(***************************************************************************)
(* config_handler.py: a loop that polls the modification time of the       *)
(* configuration file, waits a second for inotify events, and on either    *)
(* loads the file and prints what changed at the watched paths.            *)
(*                                                                         *)
(* A configuration is a function from the watched paths to values: None    *)
(* where a key is missing, NotADict where an inner key of the path holds   *)
(* something that has no get (get_value_from_path then raises).  While an  *)
(* editor saves, the file may be torn (truncated, half written: json.load  *)
(* raises) or missing (open and getmtime raise).  An exception ends the    *)
(* watcher.  Equal events that nobody has read are one event to inotify,   *)
(* so one pending MODIFY is all there can be.  Saves are bounded.          *)
(***************************************************************************)
EXTENDS Naturals

CONSTANTS
  watched_paths,
  Config,        \* the configurations an editor may save
  MaxSaves, MaxClock,  \* bounds: saves, ticks of the file system's clock
  None, NotADict, Torn, Missing

ConfigAssumption ==
  /\ \A c \in Config : c = [p \in watched_paths |-> c[p]]
  /\ {None, Torn, Missing} \cap Config = {}
  /\ MaxSaves \in Nat /\ MaxClock \in Nat

VARIABLES
  file,         \* what the file holds
  mtime,        \* its modification time
  clock,        \* the file system's clock, as coarse as its time stamps
  saves,        \* the saves begun
  editing,      \* an editor is in the middle of a save
  watching,     \* the watch is on the inode the name stands for
  modify,       \* a MODIFY event is pending
  where,        \* where the watcher is
  last_config, last_mtime,
  shown,        \* history: what somebody who read the output believes
  unsafe,       \* history: a save that was not one step, or a NotADict
  sameTick      \* history: an unwatched change within the resolution of mtime

fileVars == <<file, mtime, clock, saves, editing>>
historyVars == <<unsafe, sameTick>>
watcherVars == <<where, last_config, last_mtime, shown>>
configVars == <<fileVars, watching, modify, historyVars, watcherVars>>

Values == {None, NotADict} \cup UNION {{c[p] : p \in watched_paths} : c \in Config}

TypeOK ==
  /\ file \in Config \cup {Torn, Missing}
  /\ mtime \in 0 .. MaxClock /\ clock \in 0 .. MaxClock
  /\ saves \in 0 .. MaxSaves
  /\ {editing, watching, modify, unsafe, sameTick} \subseteq BOOLEAN
  /\ where \in {"poll", "load", "events", "event", "failed", "stopped", "raised"}
  /\ last_config \in Config \cup {None}
  /\ last_mtime \in 0 .. MaxClock \cup {None}
  /\ shown \in [watched_paths -> Values] \cup {None}

\* add_watch has succeeded: the file was there
Init ==
  /\ file \in Config
  /\ mtime = 0 /\ clock = 0 /\ saves = 0
  /\ editing = FALSE /\ watching = TRUE /\ modify = FALSE
  /\ where = "poll" /\ last_config = None /\ last_mtime = None /\ shown = None
  /\ unsafe = (\E p \in watched_paths : file[p] = NotADict)
  /\ sameTick = FALSE

-----------------------------------------------------------------------------
(***************************************************************************)
(* The editors.  A save in place truncates the file and writes it (two     *)
(* MODIFY events); one that moves the old file away leaves none until the  *)
(* new one is there; an atomic save renames a finished file over it.  The  *)
(* last two give the name a new inode, which nobody watches.               *)
(***************************************************************************)
Touch(content, newInode) ==
  /\ file' = content
  /\ mtime' = IF content = Missing THEN mtime ELSE clock
  /\ watching' = (watching /\ ~newInode)
  /\ modify' = (modify \/ watching')
  /\ sameTick' = (sameTick \/ (content # Missing /\ ~watching' /\ mtime = clock))
  /\ unsafe' = (unsafe \/ content \in {Torn, Missing}
                       \/ \E p \in watched_paths : content[p] = NotADict)
  /\ UNCHANGED <<clock, watcherVars>>

BeginSave ==
  /\ ~editing /\ saves < MaxSaves
  /\ editing' = TRUE /\ saves' = saves + 1
  /\ Touch(Torn, FALSE) \/ Touch(Missing, TRUE)

EndSave ==
  /\ editing
  /\ editing' = FALSE
  /\ \E c \in Config : Touch(c, file = Missing)
  /\ UNCHANGED saves

AtomicSave ==
  /\ ~editing /\ saves < MaxSaves
  /\ saves' = saves + 1
  /\ \E c \in Config : Touch(c, TRUE)
  /\ UNCHANGED editing

Tick ==
  /\ clock < MaxClock
  /\ clock' = clock + 1
  /\ UNCHANGED <<file, mtime, saves, editing, watching, modify, historyVars, watcherVars>>

-----------------------------------------------------------------------------
(***************************************************************************)
(* The watcher.                                                            *)
(***************************************************************************)
KeyErrors ==  \* mutated: a missing key is an error, as with data[key]
  file \in Config => \E p \in watched_paths : file[p] \in {None, NotADict}

\* load_json and get_value_from_path: when they do not give a value
LoadRaises ==
  file \in Config =>
    /\ last_config # None
    /\ \E p \in watched_paths : NotADict \in {last_config[p], file[p]}

changes ==
  IF last_config = None THEN {}
  ELSE {<<p, last_config[p], file[p]>> :
          p \in {q \in watched_paths : last_config[q] # file[q]}}

\* A line "old -> new" is believed by a reader for whom the path had the old
\* value; the first call prints nothing and only keeps the configuration.
Believed ==
  IF last_config = None THEN file
  ELSE [p \in watched_paths |->
          IF \E c \in changes : c[1] = p /\ c[2] = shown[p] THEN file[p] ELSE shown[p]]

KeepFirst ==  \* mutated: compares with the first configuration for ever
  last_config' = (IF last_config = None THEN file ELSE last_config) /\ shown' = Believed

\* check_for_changes and the printing of its result
check_for_changes == last_config' = file /\ shown' = Believed

LoadAndCheck(next) ==
  \/ LoadRaises /\ where' = "failed" /\ UNCHANGED <<last_config, shown>>
  \/ ~LoadRaises /\ where' = next /\ check_for_changes

\* the modification time is remembered before the file is read
Poll ==
  /\ where = "poll"
  /\ \/ file = Missing /\ where' = "failed" /\ UNCHANGED last_mtime
     \/ file # Missing /\ where' = (IF mtime = last_mtime THEN "events" ELSE "load")
                       /\ last_mtime' = mtime
  /\ UNCHANGED <<fileVars, watching, modify, historyVars, last_config, shown>>

PollLoad ==
  /\ where = "load"
  /\ LoadAndCheck("events")
  /\ UNCHANGED <<fileVars, watching, modify, historyVars, last_mtime>>

LoseEvent ==  \* mutated: goes back to the poll without handling the event
  /\ where = "events" /\ where' = "poll" /\ modify' = FALSE
  /\ UNCHANGED <<fileVars, watching, historyVars, last_config, last_mtime, shown>>

\* inotify.read(timeout=1000): the pending event, or none after a second
ReadEvents ==
  /\ where = "events"
  /\ where' = IF modify THEN "event" ELSE "poll"
  /\ modify' = FALSE
  /\ UNCHANGED <<fileVars, watching, historyVars, last_config, last_mtime, shown>>

EventLoad ==
  /\ where = "event"
  /\ LoadAndCheck("poll")
  /\ UNCHANGED <<fileVars, watching, modify, historyVars, last_mtime>>

Over == where \in {"failed", "stopped", "raised"}

\* The finally clause removes the watch: rm_watch raises when the kernel has
\* removed it already, with the inode that no name stands for any more.
Interrupt ==
  /\ ~Over
  /\ where' \in IF watching THEN {"stopped"} ELSE {"stopped", "raised"}
  /\ UNCHANGED <<fileVars, watching, modify, historyVars, last_config, last_mtime, shown>>

Watch == Poll \/ PollLoad \/ ReadEvents \/ EventLoad

Next == BeginSave \/ EndSave \/ AtomicSave \/ Tick \/ Watch \/ Interrupt

Spec == Init /\ [][Next]_configVars /\ WF_configVars(Watch)

-----------------------------------------------------------------------------
(***************************************************************************)
(* The watcher fails only after a save that was not atomic, or after one   *)
(* that put something without keys in the middle of a watched path: an     *)
(* atomic save of well-formed contents, keys missing or not, never ends    *)
(* it (the unguarded load_json of config_handler.py:50 and 60).            *)
(***************************************************************************)
FailsOnlyUnsafe == where = "failed" => unsafe

(***************************************************************************)
(* Who starts from the first configuration and follows the printed lines   *)
(* always knows the configuration that was last loaded: the two ways to    *)
(* load it, the poll and the event, print no change twice and leave none   *)
(* out (check_for_changes, config_handler.py:24-38).                       *)
(***************************************************************************)
OutputReplays == last_config # None => shown = last_config

(***************************************************************************)
(* When the saving ends with a whole file, the watcher has stopped or its  *)
(* last configuration becomes the file's and stays so, whatever it was     *)
(* doing when the changes came, unless a change that nobody watches any    *)
(* more came within the resolution of the time stamps                      *)
(* (config_handler.py:47-49 and 57).                                       *)
(***************************************************************************)
CatchesUp ==
  <>[](Over \/ editing \/ sameTick \/ last_config = file)
=============================================================================
