---------------------------- MODULE ConfigStore ----------------------------
(***************************************************************************)
(* How settings get into flash and back.  The pages on core 1 change the   *)
(* services' static configuration and set _save_requested; core 0 copies   *)
(* the configuration, writes the copy into the runtime map and back into   *)
(* the static configuration, clears the request, locks core 1 out and      *)
(* writes the map as one JSON file with a checksum.  At start-up the file  *)
(* is read and checked; if it cannot be, the file system is formatted and  *)
(* the default map written.                                                *)
(*                                                                         *)
(* Three settings stand for all: a scalar one; the sensitivities of the    *)
(* touch devices, stored as the bytes of a struct inside a JSON string;    *)
(* and the list of physical keys, which start-up extends.  LittleFS is     *)
(* not in the repository: it commits a file's new content when the file is *)
(* closed, and keeps the old one if a write has failed.                    *)
(***************************************************************************)
EXTENDS Naturals

CONSTANTS
  Value,         \* values of a setting
  Quoted,        \* those whose bytes end a JSON string or unbalance its braces
  Default,       \* the default of both settings
  None,          \* no file; and a string that was never written
  Wired,         \* keys that main.cpp registers at each start, 12
  MaxRestarts    \* bound on the restarts

ASSUME ValueAssumption == Quoted \subseteq Value /\ Default \in Value /\ None \notin Value
ASSUME WiredAssumption == Wired \in Nat \ {0} /\ MaxRestarts \in Nat

VARIABLES
  file,          \* the committed content of /config.bin
  runtime,       \* _runtime_map
  live,          \* static_config_ of the services
  copy,          \* the copy save_config_task works on
  requested,     \* _save_requested
  pc,            \* core 0: where it is in setup() or save_config_task()
  restarts,      \* history: restarts so far
  promised       \* history: the last press of "save" found core 0 outside of a
                 \* save, and no change, failed write or restart came after it

vars == <<file, runtime, live, copy, requested, pc, restarts, promised>>
settings == <<file, runtime, live, copy>>

Keys    == 0..(Wired * (MaxRestarts + 1))
Content == [value : Value, sens : Value \cup {None}, keys : Keys]
ASSUME NoneAssumption == None \notin Content

DefaultMap == [value |-> Default, sens |-> None, keys |-> 0]

\* a string that holds a quote is cut short, and the checksum then differs; one
\* whose braces do not balance keeps the parser from the end of its object.
\* ConfigFile shows it of the parser itself
Readable == {s \in Content : s.sens \notin Quoted}

Init ==
  /\ file = None /\ runtime = DefaultMap /\ live = DefaultMap /\ copy = None
  /\ requested = FALSE /\ pc = "read" /\ restarts = 0 /\ promised = FALSE

-----------------------------------------------------------------------------
(* Start-up: ConfigManager::initialize, then the services. *)
Read ==
  /\ pc = "read"
  /\ IF file \in Readable THEN runtime' = file /\ pc' = "load"
                          ELSE pc' = "format" /\ UNCHANGED runtime
  /\ UNCHANGED <<file, live, copy, requested, restarts, promised>>

Format ==
  /\ pc = "format" /\ pc' = "defaults" /\ file' = None
  /\ UNCHANGED <<runtime, live, copy, requested, restarts, promised>>

\* the save may fail; the defaults are used all the same
SaveDefaults ==
  /\ pc = "defaults" /\ pc' = "load" /\ runtime' = DefaultMap
  /\ file' \in {file, DefaultMap}
  /\ UNCHANGED <<live, copy, requested, restarts, promised>>

\* InputManager::init restores what the map says of 0 devices; then the devices
\* found on the buses and the wired keys are registered
Load ==
  /\ pc = "load" /\ pc' = "idle"
  /\ \E found \in BOOLEAN :
       live' = [value |-> runtime.value, sens |-> IF found THEN Default ELSE None,
                keys |-> runtime.keys + Wired]
  /\ UNCHANGED <<file, runtime, copy, requested, restarts, promised>>

-----------------------------------------------------------------------------
(* Core 1: the pages.  They run once start-up is over, and not while core 1 *)
(* is locked out.                                                          *)
PagesRun == pc \in {"idle", "write", "assign", "clear", "lock"}

Change ==
  /\ PagesRun
  /\ \E v \in Value : v # live.value /\ live' = [live EXCEPT !.value = v]
  /\ promised' = FALSE
  /\ UNCHANGED <<file, runtime, copy, requested, pc, restarts>>

Press ==
  /\ PagesRun /\ requested' = TRUE /\ promised' = (pc = "idle")
  /\ UNCHANGED <<settings, pc, restarts>>

-----------------------------------------------------------------------------
(* Core 0: task0 applies a sensitivity; save_config_task. *)
Apply ==
  /\ pc = "idle" /\ live.sens # None
  /\ \E v \in Value : v # live.sens /\ live' = [live EXCEPT !.sens = v]
  /\ promised' = FALSE
  /\ UNCHANGED <<file, runtime, copy, requested, pc, restarts>>

Copy ==
  /\ pc = "idle" /\ requested /\ pc' = "write" /\ copy' = live
  /\ UNCHANGED <<file, runtime, live, requested, restarts, promised>>

\* the map keeps its strings when there are no devices or keys to write
Written ==
  [value |-> copy.value,
   sens  |-> IF copy.sens # None THEN copy.sens ELSE runtime.sens,
   keys  |-> IF copy.keys # 0 THEN copy.keys ELSE runtime.keys]

Write ==
  /\ pc = "write" /\ pc' = "assign" /\ runtime' = Written
  /\ UNCHANGED <<file, live, copy, requested, restarts, promised>>

\* static_config_ = config, which undoes what a page has changed since the copy
Assign ==
  /\ pc = "assign" /\ pc' = "clear" /\ live' = copy /\ copy' = None
  /\ UNCHANGED <<file, runtime, requested, restarts, promised>>

Clear ==
  /\ pc = "clear" /\ pc' = "lock" /\ requested' = FALSE
  /\ UNCHANGED <<settings, restarts, promised>>

\* core 1 answers the lock-out from its interrupt, wherever it is
Lock ==
  /\ pc = "lock" /\ pc' = "flash"
  /\ UNCHANGED <<settings, requested, restarts, promised>>

\* one write and a close; a failed one is counted and not tried again
CommitDefaults ==          \* mutant: saves the default map
  /\ pc = "flash" /\ pc' = "idle" /\ file' = DefaultMap
  /\ UNCHANGED <<runtime, live, copy, requested, restarts, promised>>

CommitInParts ==           \* mutant: flushes the file while it is written
  /\ pc = "flash"
  /\ \/ file # None /\ file' = None /\ UNCHANGED pc
     \/ file = None /\ file' = runtime /\ pc' = "idle"
  /\ UNCHANGED <<runtime, live, copy, requested, restarts, promised>>

Commit ==
  /\ pc = "flash" /\ pc' = "idle" /\ file' = runtime
  /\ UNCHANGED <<runtime, live, copy, requested, restarts, promised>>

CommitFails ==
  /\ pc = "flash" /\ pc' = "idle" /\ promised' = FALSE
  /\ UNCHANGED <<settings, requested, restarts>>

-----------------------------------------------------------------------------
\* a power loss, a reset or the watchdog, at any moment; the maps stay empty until
\* they are read again
Restart ==
  /\ restarts < MaxRestarts /\ restarts' = restarts + 1
  /\ pc' = "read" /\ runtime' = DefaultMap /\ live' = DefaultMap /\ copy' = None
  /\ requested' = FALSE /\ promised' = FALSE
  /\ UNCHANGED file

SetUp == Read \/ Format \/ SaveDefaults \/ Load
Core0 == Copy \/ Write \/ Assign \/ Clear \/ Lock \/ Commit \/ CommitFails
Next  == SetUp \/ Change \/ Press \/ Apply \/ Core0 \/ Restart

Spec == Init /\ [][Next]_vars

-----------------------------------------------------------------------------
\* The maps are complete, and each start has added the wired keys at most once.
TypeOK ==
  /\ file \in Content \cup {None} /\ runtime \in Content /\ live \in Content
  /\ copy \in Content \cup {None} /\ requested \in BOOLEAN /\ promised \in BOOLEAN
  /\ pc \in {"read", "format", "defaults", "load", "idle",
             "write", "assign", "clear", "lock", "flash"}
  /\ restarts \in 0..MaxRestarts
  /\ live.keys <= Wired * (restarts + 1)

\* What the file must hold for the services' configuration to be saved.
Saved ==
  /\ file # None /\ file.value = live.value /\ file.keys = live.keys
  /\ live.sens # None => file.sens = live.sens

\* save_config_task: once a request is served, all the settings there were when
\* "save" was pressed are in flash, unless something changed or failed since.  It
\* takes the copy, the map, the write-back and the file to agree over six steps
\* that core 1 may come between.
RequestsServed == promised /\ pc = "idle" /\ ~ requested => Saved

\* config_save_streaming and initialize: saves are all or nothing, a restart at
\* any moment finds the last one, and only an unreadable file is given up.
Starting == pc \in {"read", "format", "defaults"}
Stored   == IF file = None THEN DefaultMap ELSE file
Store    == INSTANCE DurableStore
              WITH Default <- DefaultMap, stored <- Stored,
                   current <- IF Starting THEN Stored ELSE runtime
ImplementsStore == Store!Spec

=============================================================================
