---------------------------- MODULE ConfigStore -----------------------------
(***************************************************************************)
(* config.yml and everyone who reads or rewrites it: request handlers that *)
(* hold the write lock, writers that do not, the restore endpoint, an      *)
(* editor outside the program, the parsed-config cache, and the watcher    *)
(* that reloads the running configuration and debounces on the leading     *)
(* edge.  A version is a stat signature; no two contents share one.        *)
(***************************************************************************)
EXTENDS Integers, FiniteSets

CONSTANTS
  Handlers,      \* requests that load, change and save under config_write_lock
  Restorers,     \* POST /api/system/restore
  Outsiders,     \* seed_plex_enabled_libraries in a job, or a second process
  Watcher,       \* the watchdog thread
  Casts,         \* who takes part: each behaviour has one of these sets of processes
  DebounceInterval, \* ConfigFileHandler.debounce_interval, in ticks
  MaxTime, MaxHandEdits, MaxSaveFaults,   \* bounds
  NoProc, NoEntry

Writers == Handlers \cup Restorers
Savers  == Writers \cup Outsiders
Procs   == Savers \cup {Watcher}
Times   == 0..MaxTime

ASSUME ConfigAssumption ==
  /\ {DebounceInterval, MaxTime, MaxHandEdits, MaxSaveFaults} \subseteq Nat
  /\ DebounceInterval < MaxTime /\ NoProc \notin Procs
  /\ Handlers \cap Restorers = {} /\ Writers \cap Outsiders = {}
  /\ Watcher \notin Savers
  /\ Casts \subseteq SUBSET Procs

VARIABLES
  file,      \* config.yml: whose edits it has, whether it loads, its version, its last writer
  cache,     \* _config_cache: a config and the version it was parsed from
  lock,      \* _config_write_lock
  pc,        \* where each process stands
  seenAt,    \* the version a load stat'ed before reading
  got,       \* the config a load holds
  copy,      \* config.yml.pre-restore of each restore
  events,    \* file events the watchdog has not handled
  running,   \* the application's config, and the scheduler's
  now, lastModified, \* the clock, and when the handler last fired
  dropped,   \* history: an event was debounced since the last reload began
  editing,   \* the version an outside editor truncated, and the edits it puts back
  replaced,  \* history: what each restore replaced
  saved,     \* history: edits saved under the lock and not restored away
  lost,      \* history: those of them a writer without the lock erased, until
             \* a save under the lock brings them back
  handEdits, saveFaults   \* counted for the bounds

disk    == <<file, events, editing>>
loads   == <<cache, seenAt, got>>
watch   == <<running, lastModified, dropped>>
history == <<replaced, saved, lost>>
bounds  == <<handEdits, saveFaults>>
vars    == <<disk, loads, watch, history, bounds, lock, pc, copy, now>>

Fresh == [edits |-> {}, valid |-> TRUE, version |-> 0, by |-> NoProc]

Init ==
  /\ file = Fresh /\ running = Fresh
  /\ cache = NoEntry /\ lock = NoProc
  /\ \E cast \in Casts : pc = [p \in Procs |-> IF p \in cast THEN "idle" ELSE "done"]
  /\ seenAt = [p \in Procs |-> 0]
  /\ got = [p \in Procs |-> Fresh]
  /\ copy = [r \in Restorers |-> Fresh] /\ replaced = [r \in Restorers |-> Fresh]
  /\ events = 0 /\ dropped = FALSE
  /\ now = DebounceInterval + 1 /\ lastModified = 0
  /\ saved = {} /\ lost = {}
  /\ editing = NoEntry
  /\ handEdits = 0 /\ saveFaults = 0

Goto(p, label) == pc' = [pc EXCEPT ![p] = label]
Written(edits, valid, who) ==
  file' = [edits |-> edits, valid |-> valid, version |-> file.version + 1, by |-> who]

\* A watcher that hears of modifications, and not of a rename onto the file.
SlipNoMoveEvent(edits, valid, who) ==
  Written(edits, valid, who) /\ events' = events + (IF who = NoProc THEN 1 ELSE 0)
Replace(edits, valid, who) == Written(edits, valid, who) /\ events' = events + 1

---------------------------------------------------------------------------
(* load_config, by whichever process runs it.                              *)

Stat(p) ==
  /\ pc[p] = "load"
  /\ seenAt' = [seenAt EXCEPT ![p] = file.version]
  /\ Goto(p, "lookup")
  /\ UNCHANGED <<disk, cache, got, watch, history, bounds, lock, copy, now>>

SlipAnyEntry(p) == cache # NoEntry
Hit(p) == cache # NoEntry /\ cache.at = seenAt[p]

Lookup(p) ==
  /\ pc[p] = "lookup"
  /\ IF Hit(p)
       THEN /\ got' = [got EXCEPT ![p] = cache.config]
            /\ Goto(p, "loaded")
       ELSE Goto(p, "read") /\ UNCHANGED got
  /\ UNCHANGED <<disk, cache, seenAt, watch, history, bounds, lock, copy, now>>

SlipNeverReleased(p) == lock' = lock
Leave(p) == lock' = IF lock = p THEN NoProc ELSE lock

\* A file that does not parse or validate raises: the caller's work ends there.
Parse(p) ==
  /\ pc[p] = "read"
  /\ IF file.valid
       THEN /\ got' = [got EXCEPT ![p] = file]
            /\ Goto(p, "recheck")
            /\ UNCHANGED lock
       ELSE /\ Goto(p, IF p = Watcher THEN "idle" ELSE "failed")
            /\ Leave(p)
            /\ UNCHANGED got
  /\ UNCHANGED <<disk, cache, seenAt, watch, history, bounds, copy, now>>

Recheck(p) ==
  /\ pc[p] = "recheck"
  /\ Goto(p, IF file.version = seenAt[p] THEN "insert" ELSE "loaded")
  /\ UNCHANGED <<disk, loads, watch, history, bounds, lock, copy, now>>

Insert(p) ==
  /\ pc[p] = "insert"
  /\ cache' = [at |-> seenAt[p], config |-> got[p]]
  /\ Goto(p, "loaded")
  /\ UNCHANGED <<disk, seenAt, got, watch, history, bounds, lock, copy, now>>

Load(p) == Stat(p) \/ Lookup(p) \/ Parse(p) \/ Recheck(p) \/ Insert(p)

---------------------------------------------------------------------------
(* Writers: load, change, save.                                            *)

SlipNoLock(p) == TRUE
LockAllows(p) == lock = NoProc

\* A handler takes the lock before it loads; a restore copies before it saves.
Enter(p) ==
  /\ p \in Writers /\ pc[p] = "idle" /\ LockAllows(p)
  /\ lock' = p
  /\ Goto(p, IF p \in Restorers THEN "backup" ELSE "load")
  /\ UNCHANGED <<disk, loads, watch, history, bounds, copy, now>>

\* seed_plex_enabled_libraries, and a reset from the command line, just load.
EnterUnlocked(p) ==
  /\ p \in Outsiders /\ pc[p] = "idle"
  /\ Goto(p, "load")
  /\ UNCHANGED <<disk, loads, watch, history, bounds, lock, copy, now>>

SafetyCopy(r) ==
  /\ pc[r] = "backup"
  /\ copy' = [copy EXCEPT ![r] = file]
  /\ Goto(r, "loaded")
  /\ UNCHANGED <<disk, loads, watch, history, bounds, lock, now>>

\* What a saver writes: the backup's config, or what it loaded and its own edit.
Rewritten(p) == IF p \in Restorers THEN {} ELSE got[p].edits \cup {p}

\* os.replace: the whole document at once.
Save(p) ==
  /\ p \in Savers /\ pc[p] = "loaded"
  /\ Replace(Rewritten(p), TRUE, p) /\ UNCHANGED editing
  /\ Goto(p, "saved")
  /\ IF p \in Restorers
       THEN /\ replaced' = [replaced EXCEPT ![p] = file]
            /\ saved' = {} /\ lost' = {}
       ELSE /\ saved' = IF p \in Handlers THEN saved \cup {p} ELSE saved
            /\ lost' = IF p \in Outsiders THEN lost \cup (saved \ Rewritten(p))
                                          ELSE lost \ Rewritten(p)
            /\ UNCHANGED replaced
  /\ UNCHANGED <<loads, watch, bounds, lock, copy, now>>

\* The temporary file cannot be written or renamed: the request is refused.
SaveFails(p) ==
  /\ p \in Savers /\ pc[p] = "loaded"
  /\ saveFaults < MaxSaveFaults
  /\ saveFaults' = saveFaults + 1
  /\ Goto(p, "failed")
  /\ Leave(p)
  /\ UNCHANGED <<disk, loads, watch, history, handEdits, copy, now>>

\* clear_config_cache, then the answer and the lock's release.
Acknowledge(p) ==
  /\ pc[p] = "saved"
  /\ cache' = NoEntry
  /\ Goto(p, "done")
  /\ Leave(p)
  /\ UNCHANGED <<disk, seenAt, got, watch, history, bounds, copy, now>>

---------------------------------------------------------------------------
(* An editor outside the program rewrites the file in place: truncated,    *)
(* then written, which the watchdog sees as two events.                    *)

Truncate ==
  /\ handEdits < MaxHandEdits /\ editing = NoEntry /\ file.valid
  /\ handEdits' = handEdits + 1
  /\ editing' = [at |-> file.version + 1, edits |-> file.edits]
  /\ Replace({}, FALSE, NoProc)
  /\ UNCHANGED <<loads, watch, history, saveFaults, lock, pc, copy, now>>

\* A file replaced meanwhile is another inode: the editor's text goes nowhere.
FinishEdit ==
  /\ editing # NoEntry
  /\ editing' = NoEntry
  /\ IF file.version = editing.at
       THEN \E valid \in BOOLEAN : Replace(editing.edits, valid, NoProc)
       ELSE UNCHANGED <<file, events>>
  /\ UNCHANGED <<loads, watch, history, bounds, lock, pc, copy, now>>

---------------------------------------------------------------------------
(* The watcher.                                                            *)

Settled == now - lastModified > DebounceInterval

\* _maybe_trigger, and the first lines of _on_config_changed.
FileEvent ==
  /\ pc[Watcher] = "idle" /\ events > 0
  /\ events' = events - 1
  /\ IF Settled
       THEN /\ lastModified' = now
            /\ dropped' = FALSE
            /\ cache' = NoEntry
            /\ Goto(Watcher, "load")
       ELSE /\ dropped' = TRUE
            /\ UNCHANGED <<lastModified, cache, pc>>
  /\ UNCHANGED <<file, editing, seenAt, got, running, history, bounds, lock, copy, now>>

\* The swap of app.config and scheduler.config.
Reload ==
  /\ pc[Watcher] = "loaded"
  /\ running' = got[Watcher]
  /\ Goto(Watcher, "idle")
  /\ UNCHANGED <<disk, loads, lastModified, dropped, history, bounds, lock, copy, now>>

\* Time is read only where an event is handled, so it passes only while one waits.
Tick ==
  /\ now < MaxTime /\ events > 0 /\ pc[Watcher] = "idle"
  /\ now' = now + 1
  /\ UNCHANGED <<disk, loads, watch, history, bounds, lock, pc, copy>>

Step(p) ==
  \/ Load(p) \/ Enter(p) \/ EnterUnlocked(p) \/ Save(p) \/ SaveFails(p) \/ Acknowledge(p)
  \/ p \in Restorers /\ SafetyCopy(p)

Next ==
  \/ \E p \in Procs : Step(p)
  \/ Truncate \/ FinishEdit \/ FileEvent \/ Reload \/ Tick

\* The watchdog thread keeps running; nothing obliges anyone else to.
WatcherSteps == Load(Watcher) \/ FileEvent \/ Reload
Spec == Init /\ [][Next]_vars /\ WF_vars(WatcherSteps)

---------------------------------------------------------------------------

Configs == [edits : SUBSET Savers, valid : BOOLEAN, version : Nat,
            by : Savers \cup {NoProc}]

TypeOK ==
  /\ {file, running} \subseteq Configs
  /\ cache = NoEntry \/ cache \in [at : Nat, config : Configs]
  /\ lock = NoProc \/ (lock \in Writers /\ pc[lock] \notin {"idle", "done", "failed"})
  /\ pc \in [Procs -> {"idle", "backup", "load", "lookup", "read", "recheck",
                       "insert", "loaded", "saved", "done", "failed"}]
  /\ seenAt \in [Procs -> Nat] /\ got \in [Procs -> Configs]
  /\ {copy, replaced} \subseteq [Restorers -> Configs]
  /\ events \in Nat /\ {now, lastModified} \subseteq Times
  /\ dropped \in BOOLEAN /\ {saved, lost} \subseteq SUBSET Handlers
  /\ editing = NoEntry \/ editing \in [at : Nat, edits : SUBSET Savers]
  /\ handEdits \in 0..MaxHandEdits /\ saveFaults \in 0..MaxSaveFaults

\* The write lock is worth its name: whatever order handlers, restores and
\* hand edits come in, an edit saved under the lock is gone from the file only
\* when a writer that holds no lock saved what it had loaded before it.
LockedEditsSurvive == file.valid => saved \subseteq file.edits \cup lost

\* A load never answers with a config older than the file was when it began,
\* through the cache's hits, its fills and its clearings by other threads.
LoadIsCurrent ==
  \A p \in (Handlers \cup Outsiders) \cup {Watcher} :
    pc[p] = "loaded" => got[p].version >= seenAt[p]

\* config.yml.pre-restore is what the restore replaced, unless a writer
\* without the lock came between the copy and the save.
SafetyCopyIsExact ==
  \A r \in Restorers : pc[r] \in {"saved", "done"} =>
    copy[r] = replaced[r] \/ replaced[r].by \notin Writers

\* Both: what is saved under the write lock is lost neither to another save nor
\* to a restore, but to writers that take no lock.
LockGuardsEdits == LockedEditsSurvive /\ SafetyCopyIsExact

\* The observer may fail to start: the application then runs without it.
Watching == pc[Watcher] # "done"

\* A change of the file reaches the running configuration, is overtaken by a
\* file that does not load, or is debounced.
ReloadFollowsSave ==
  (Watching /\ file.valid /\ running # file) ~> (running = file \/ ~file.valid \/ dropped)

=============================================================================
