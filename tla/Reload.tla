------------------------------- MODULE Reload -------------------------------
(***************************************************************************)
(* Changing the configuration of a running miner: base/io/Watcher.cpp,     *)
(* common/config/ConfigWatcher.cpp and ConfigLoader.cpp, and onNewConfig   *)
(* of core/Controller.cpp with its listener, net/Network.cpp.  The main    *)
(* loop runs one callback at a time, but the file may be edited between    *)
(* any two of its system calls.  An editor writes a file in place or       *)
(* replaces it: a watch is bound to the file that had the name then.       *)
(***************************************************************************)
EXTENDS Naturals

CONSTANTS
    Configs,        \* configurations finalize() accepts
    PoolsOf,        \* [Configs -> their pools]
    WatchOf,        \* [Configs -> the option `watch']
    Broken,         \* a file that is no configuration, or half written
    Absent,         \* no file
    MaxEdits        \* bound: edits of the file

ASSUME ReloadAssumption ==
    /\ MaxEdits \in Nat
    /\ WatchOf \in [Configs -> BOOLEAN]
    /\ Broken \notin Configs /\ Absent \notin Configs

VARIABLES
    file, inode,    \* what the file holds, and which file has the name
    watched,        \* the file the fs event is bound to, or 0
    event,          \* a change the kernel has reported
    timer,          \* m_timer is running
    watcher,        \* ConfigLoader::m_watcher exists
    rewatch,        \* the watch is about to be set again
    config,         \* d_ptr->config
    pools,          \* the pools m_strategy was made for
    loaded,         \* history: what the last reload read
    dropped,        \* history: the watch was set again without what has changed since
    unsaved,        \* history: a configuration was put that could not be saved
    edits

watchVars  == <<watched, event, timer, watcher, rewatch>>
reloadVars == <<file, inode, watchVars, config, pools, loaded, dropped, unsaved, edits>>

ReloadInit ==
    /\ file \in Configs
    /\ config = file /\ pools = PoolsOf[config] /\ loaded = file
    /\ inode = 1
    /\ watcher = WatchOf[config]
    /\ watched = IF watcher THEN inode ELSE 0
    /\ event = FALSE /\ timer = FALSE /\ rewatch = FALSE
    /\ dropped = FALSE /\ unsaved = FALSE
    /\ edits = 0

(* The kernel reports a change of the file that is watched. *)
Notify == event' = (event \/ watched = inode)

WriteInPlace ==
    /\ edits < MaxEdits /\ edits' = edits + 1
    /\ file # Absent
    /\ file' \in Configs \cup {Broken}
    /\ Notify
    /\ UNCHANGED <<inode, watched, timer, watcher, rewatch, config, pools, loaded, dropped, unsaved>>

Replace ==
    /\ edits < MaxEdits /\ edits' = edits + 1
    /\ file' \in Configs \cup {Absent}
    /\ inode' = inode + 1
    /\ event' = (event \/ (watched = inode /\ file # Absent))
    /\ UNCHANGED <<watched, timer, watcher, rewatch, config, pools, loaded, dropped, unsaved>>

(* Watcher::onFsEvent restarts the timer. *)
FsEvent ==
    /\ ~rewatch
    /\ event
    /\ event' = FALSE
    /\ timer' = TRUE
    /\ UNCHANGED <<file, inode, watched, watcher, rewatch, config, pools, loaded, dropped, unsaved, edits>>

(* Controller::onNewConfig, and Network::onConfigChanged: a new strategy, but
   only for other pools. *)
NewConfig(c) ==
    /\ config' = c
    /\ pools' = IF PoolsOf[c] # PoolsOf[config] THEN PoolsOf[c] ELSE pools

(* Watcher::reload: ConfigWatcher::onFileChanged reads the file, *)
Load ==
    /\ ~rewatch
    /\ timer
    /\ timer' = FALSE
    /\ loaded' = file
    /\ IF file \in Configs THEN NewConfig(file) /\ unsaved' = FALSE
                           ELSE UNCHANGED <<config, pools, unsaved>>
    /\ rewatch' = TRUE
    /\ UNCHANGED <<file, inode, watched, event, watcher, dropped, edits>>

(* Mutant of Rewatch: the watch is stopped, and not started. *)
RewatchStops ==
    /\ rewatch
    /\ rewatch' = FALSE
    /\ watched' = 0
    /\ event' = FALSE
    /\ dropped' = (file # loaded \/ file = Absent)
    /\ UNCHANGED <<file, inode, timer, watcher, config, pools, loaded, unsaved, edits>>

(* and the watch is set again, for the file that has the name now.  What was
   reported before is lost; an error of uv_fs_event_start is not looked at. *)
Rewatch ==
    /\ rewatch
    /\ rewatch' = FALSE
    /\ watched' = IF file = Absent THEN 0 ELSE inode
    /\ event' = FALSE
    /\ dropped' = (file # loaded \/ file = Absent)
    /\ UNCHANGED <<file, inode, timer, watcher, config, pools, loaded, unsaved, edits>>

(* ConfigLoader::reload: the API has got a configuration c.  It is saved, and
   then in force at once unless the watch is going to find it. *)
Put(c) ==
    /\ ~rewatch
    /\ \/ c \notin Configs /\ UNCHANGED reloadVars
       \/ /\ c \in Configs
          /\ file' = c
          /\ inode' = IF file = Absent THEN inode + 1 ELSE inode
          /\ event' = (event \/ (watched = inode /\ file # Absent))
          /\ IF WatchOf[c] /\ watcher THEN UNCHANGED <<config, pools>> ELSE NewConfig(c)
          /\ UNCHANGED <<watched, timer, watcher, rewatch, loaded, dropped, unsaved, edits>>
       \/ /\ c \in Configs
          /\ NewConfig(c)                   \* Json::save could not open the file
          /\ unsaved' = TRUE
          /\ UNCHANGED <<file, inode, watchVars, loaded, dropped, edits>>

Edit == WriteInPlace \/ Replace
ReloadNext == Edit \/ FsEvent \/ Load \/ Rewatch
-----------------------------------------------------------------------------
ReloadTypeOK ==
    /\ file \in Configs \cup {Broken, Absent} /\ loaded \in Configs \cup {Broken, Absent}
    /\ config \in Configs /\ pools \in {PoolsOf[c] : c \in Configs}
    /\ inode \in Nat /\ watched \in 0..inode
    /\ {event, timer, watcher, rewatch, dropped, unsaved} \subseteq BOOLEAN
    /\ edits \in 0..MaxEdits

(* The Network works for the pools of the configuration in force, although it
   makes a new strategy only when a reload changes them. *)
MinesConfiguredPools == pools = PoolsOf[config]

(* What the user writes into a watched file is in force in the end: unless the
   watch was set again after a change it had not read, or on no file. *)
ChangesArrive ==
    []<>(watcher /\ file \in Configs => config = file \/ dropped \/ unsaved)
=============================================================================
