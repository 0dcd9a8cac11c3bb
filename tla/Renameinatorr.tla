--------------------------- MODULE Renameinatorr ----------------------------
(***************************************************************************)
(* Renameinatorr on one *arr instance, run after run: the batch of items   *)
(* without the cycle's tag gets the file and folder names the *arr wants   *)
(* for them.  The *arr does the renaming, as commands that run on beside   *)
(* refreshes of its own and its users' moves; the module waits, looks at   *)
(* what came of it, refreshes what drifted and tags.                       *)
(***************************************************************************)
EXTENDS Integers, Sequences, FiniteSets, Functions

CONSTANTS
  Media, Place,   \* the media, and the place of each in the *arr's listing
  FolderNames,    \* under the one root folder
  FirstFolder, WantedFolder,  \* of each item
  BatchSize,
  Batching,       \* enable_batching: every batch in one run, else the first
  RefreshFirst,   \* refresh_before_rename
  MaxRefreshes, MaxMoves,  \* bounds: others' refreshes, users' moves of a folder
  MaxNamingFaults,  \* bound: unread answers, lost requests, waits given up, runs that die
  Lost            \* no folder, or no file on record

RenameinatorrAssumption ==
  /\ IsFiniteSet(Media) /\ Place \in [Media -> Nat] /\ IsInjective(Place)
  /\ Lost \notin FolderNames \cup {"old", "new"}
  /\ {FirstFolder, WantedFolder} \subseteq [Media -> FolderNames] /\ IsInjective(FirstFolder)
  /\ BatchSize \in Nat \ {0} /\ {Batching, RefreshFirst} \subseteq BOOLEAN
  /\ {MaxRefreshes, MaxMoves, MaxNamingFaults} \subseteq Nat

VARIABLES
  onDisk,    \* where each item's file is, and its name: "old" or "new"
  onRecord, fileRecord,  \* the folder and the file the *arr has on record of it
  visited,   \* items with the cycle's tag
  renames, moves,  \* items in unfinished commands, of this run or earlier ones
  refreshes, \* running refreshes: whose, of which items, and what they read first
  namingAt, inHand,  \* the run's next step and what it holds in memory
  refreshedByOthers, movedByUsers, namingFaults,  \* counted for the bounds
  passed,    \* history: items that fitted before the batch and were found sound after it
  late,      \* history: items a stale refresh saved after that look
  othersMove, \* history: a user's move, or an earlier run's, may follow this run's listing
  merged     \* history: a folder was moved onto another all the same

arrState      == <<onDisk, onRecord, fileRecord, renames, moves, refreshes>>
namingCounts  == <<refreshedByOthers, movedByUsers, namingFaults>>
namingHistory == <<passed, late, othersMove, merged>>
namingVars    == <<arrState, visited, namingAt, inHand, namingCounts, namingHistory>>

NoCommand == [earlier |-> {}, ours |-> {}]
NoTargets == [i \in Media |-> Lost]
NoBatch   == [todo |-> <<>>, path |-> FirstFolder, taken |-> {}, rename |-> {},
              target |-> NoTargets, changes |-> {}, retry |-> {},
              before |-> [i \in Media |-> [files |-> {}, record |-> Lost]],
              sent |-> TRUE, skipped |-> FALSE, now |-> FirstFolder, drifted |-> {},
              after |-> [i \in Media |-> {}], healthy |-> TRUE]

NamingInit ==
  /\ onDisk = [i \in Media |-> [folder |-> FirstFolder[i], file |-> "old"]]
  /\ onRecord = FirstFolder /\ fileRecord = [i \in Media |-> "old"]
  /\ renames = NoCommand /\ moves = NoCommand /\ refreshes = {}
  /\ visited = {} /\ namingAt = "idle" /\ inHand = NoBatch
  /\ refreshedByOthers = 0 /\ movedByUsers = 0 /\ namingFaults = 0
  /\ passed = {} /\ late = {} /\ othersMove = FALSE /\ merged = FALSE

NamingFault ==
  /\ namingFaults < MaxNamingFaults /\ namingFaults' = namingFaults + 1
  /\ UNCHANGED <<refreshedByOthers, movedByUsers>>
NamingStep(from, to) == namingAt = from /\ namingAt' = to

---------------------------------------------------------------------------
(* The *arr works on its own.                                              *)

FilesIn(f) == {<<i, onDisk[i].file>> : i \in {j \in Media : onDisk[j].folder = f}}

\* What a refresh reads of an item: its path, and the file it finds there.
Looked(i) == [path |-> onRecord[i],
              record |-> IF onDisk[i].folder = onRecord[i] THEN onDisk[i].file ELSE Lost]
StartRefresh(who, items) ==
  refreshes' = refreshes \cup {[by |-> who, items |-> items, saw |-> [i \in items |-> Looked(i)]]}

OthersRefresh(i) ==
  /\ refreshedByOthers < MaxRefreshes /\ refreshedByOthers' = refreshedByOthers + 1
  /\ StartRefresh("others", {i})
  /\ UNCHANGED <<onDisk, onRecord, fileRecord, renames, moves, visited, namingAt,
                 inHand, movedByUsers, namingFaults, namingHistory>>

\* It saves what it read, which undoes a rename or move that came between.
RefreshSaves ==
  \E r \in refreshes :
    /\ refreshes' = refreshes \ {r}
    /\ onRecord' = [i \in Media |-> IF i \in r.items THEN r.saw[i].path ELSE onRecord[i]]
    /\ fileRecord' = [i \in Media |-> IF i \in r.items THEN r.saw[i].record ELSE fileRecord[i]]
    /\ late' = late \cup {i \in r.items : r.saw[i] # Looked(i)}
    /\ UNCHANGED <<onDisk, renames, moves, visited, namingAt, inHand, namingCounts,
                   passed, othersMove, merged>>

Drop(command, i, whose) == [command EXCEPT ![whose] = @ \ {i}]

\* One item of a rename command; the *arr logs what it could not rename.
RenameRuns ==
  \E whose \in DOMAIN NoCommand : \E i \in renames[whose] :
    /\ renames' = Drop(renames, i, whose)
    /\ \/ /\ onDisk[i].folder = onRecord[i]
          /\ onDisk' = [onDisk EXCEPT ![i].file = "new"]
          /\ fileRecord' = [fileRecord EXCEPT ![i] = "new"]
          /\ UNCHANGED namingCounts
       \/ onDisk[i].folder # onRecord[i] /\ UNCHANGED <<onDisk, fileRecord, namingCounts>>
       \/ NamingFault /\ UNCHANGED <<onDisk, fileRecord>>
    /\ UNCHANGED <<onRecord, moves, refreshes, visited, namingAt, inHand,
                   namingHistory>>

\* One item of a folder move: into a folder that is there, it merges the two.
MoveRuns ==
  \E whose \in DOMAIN NoCommand : \E i \in moves[whose] :
    /\ moves' = Drop(moves, i, whose)
    /\ \/ /\ onDisk[i].folder = onRecord[i]
          /\ onDisk' = [onDisk EXCEPT ![i].folder = WantedFolder[i]]
          /\ onRecord' = [onRecord EXCEPT ![i] = WantedFolder[i]]
          /\ merged' = (merged \/ (~othersMove
                                  /\ \E j \in Media \ {i} : onDisk[j].folder = WantedFolder[i]))
          /\ UNCHANGED namingCounts
       \/ onDisk[i].folder # onRecord[i] /\ UNCHANGED <<onDisk, onRecord, merged, namingCounts>>
       \/ NamingFault /\ UNCHANGED <<onDisk, onRecord, merged>>
    /\ UNCHANGED <<fileRecord, renames, refreshes, visited, namingAt, inHand, passed,
                   late, othersMove>>

\* In the *arr, to a folder that is free.
UserMoves(i, f) ==
  /\ movedByUsers < MaxMoves /\ movedByUsers' = movedByUsers + 1
  /\ onDisk[i].folder = onRecord[i] /\ \A j \in Media : onDisk[j].folder # f
  /\ onDisk' = [onDisk EXCEPT ![i].folder = f] /\ onRecord' = [onRecord EXCEPT ![i] = f]
  /\ othersMove' = TRUE
  /\ UNCHANGED <<fileRecord, renames, moves, refreshes, visited, namingAt, inHand,
                 refreshedByOthers, namingFaults, passed, late, merged>>

---------------------------------------------------------------------------
(* process_instance: the batches of a run.                                 *)

NothingElse == UNCHANGED <<arrState, visited, namingCounts, namingHistory>>

Untagged(t) == Media \ t

\* In the *arr's order, BatchSize at a time.
Rank(i, items) == Cardinality({j \in items : Place[j] <= Place[i]})
Chunks(items) ==
  LET n == (Cardinality(items) + BatchSize - 1) \div BatchSize
      chunk[k \in 1..n] ==
        {i \in items : Rank(i, items) \in (k - 1) * BatchSize + 1 .. k * BatchSize}
  IN  IF Batching \/ n = 0 THEN chunk ELSE <<chunk[1]>>

\* Once every item is tagged the tags are cleared and the cycle starts again.
AfterCycle(t) == IF Untagged(t) = {} THEN {} ELSE t

StartNaming ==
  /\ NamingStep("idle", "batch")
  /\ visited' = AfterCycle(visited)
  /\ inHand' = [NoBatch EXCEPT !.todo = Chunks(Untagged(visited')), !.path = onRecord,
                                !.taken = {onRecord[i] : i \in Media}]
  /\ othersMove' = (moves # NoCommand)
  /\ UNCHANGED <<arrState, namingCounts, passed, late, merged>>

\* An instance that stops leaves the rest of its batches to the next run.
StopNaming == namingAt' = "idle" /\ inHand' = NoBatch

RunEnds == namingAt = "batch" /\ inHand.todo = <<>> /\ StopNaming /\ NothingElse

\* What the run remembers from one batch to the next.
NextBatch ==
  [NoBatch EXCEPT !.todo = Tail(inHand.todo), !.path = inHand.path, !.taken = inHand.taken]

\* An item with a folder whose name could not be read waits for the next run.
TagBatch == visited' = visited \cup (Head(inHand.todo) \ inHand.retry)

RefreshBatch ==
  /\ namingAt = "batch" /\ inHand.todo # <<>> /\ RefreshFirst
  /\ namingAt' = "refreshing"
  /\ StartRefresh("run", Head(inHand.todo))
  /\ UNCHANGED <<onDisk, onRecord, fileRecord, renames, moves, visited, inHand,
                 namingCounts, namingHistory>>

OwnRefresh == {r \in refreshes : r.by = "run"}

\* It is gone when it has ended; a run that gives up waiting goes on all the same.
Disown == {IF r.by = "run" THEN [r EXCEPT !.by = "others"] ELSE r : r \in refreshes}

BatchRefreshed ==
  /\ NamingStep("refreshing", "plan")
  /\ \/ OwnRefresh = {} /\ UNCHANGED <<refreshes, namingCounts>>
     \/ OwnRefresh # {} /\ NamingFault /\ refreshes' = Disown
  /\ UNCHANGED <<onDisk, onRecord, fileRecord, renames, moves, visited, inHand,
                 namingHistory>>

SkipRefresh ==
  /\ NamingStep("batch", "plan") /\ inHand.todo # <<>> /\ ~RefreshFirst
  /\ UNCHANGED inHand /\ NothingElse

---------------------------------------------------------------------------
(* _plan_chunk.                                                            *)

\* plan_folder for a name that was read: the item's folder is where the run saw
\* it, and nothing there has the name.
MayMove(i) ==
  /\ WantedFolder[i] # inHand.path[i]
  /\ \E j \in Media : onDisk[j].folder = inHand.path[i]
  /\ \A j \in Media : onDisk[j].folder # WantedFolder[i]

SlipNoClaim(i, items) == {}
\* The folders no item may be moved into: those in use, and those promised to the
\* items that come before it in the *arr's order.
Claimed(i, items) ==
  inHand.taken \cup {WantedFolder[j] : j \in {k \in items : MayMove(k) /\ Place[k] < Place[i]}}

\* plan_folders
Planned(items) == {i \in items : MayMove(i) /\ WantedFolder[i] \notin Claimed(i, items)}

\* Names and previews may be unreadable: an item without its name is looked at
\* again, one without its preview has nothing to rename.
PlanChunk ==
  /\ namingAt = "plan"
  /\ \E nameless, unseen \in SUBSET Head(inHand.todo) :
       LET plan  == Planned(Head(inHand.todo) \ nameless)
           files == {i \in Head(inHand.todo) \ unseen : fileRecord[i] = "old"}
       IN  /\ IF nameless \cup unseen = {} THEN UNCHANGED namingCounts ELSE NamingFault
           /\ nameless # Head(inHand.todo)
           /\ inHand' = [inHand EXCEPT
                !.taken = @ \cup {WantedFolder[i] : i \in plan},
                !.target = [i \in Media |-> IF i \in plan THEN WantedFolder[i] ELSE Lost],
                !.rename = files, !.changes = files \cup plan, !.retry = nameless]
           /\ namingAt' = "planned"
  /\ UNCHANGED <<arrState, visited, namingHistory>>

\* No folder name could be read, or not the root folder.
PlanFails ==
  /\ namingAt = "plan" /\ NamingFault /\ StopNaming
  /\ UNCHANGED <<arrState, visited, namingHistory>>

Cancelled ==
  /\ namingAt \in {"batch", "planned"} /\ inHand.todo # <<>> /\ StopNaming /\ NothingElse

NothingToDo ==
  /\ NamingStep("planned", "tag") /\ inHand.changes = {} /\ UNCHANGED inHand /\ NothingElse

---------------------------------------------------------------------------
(* _apply_changes.                                                         *)

\* An item whose files cannot be read is left alone.
Snapshot ==
  /\ NamingStep("planned", "quiet") /\ inHand.changes # {}
  /\ \E unread \in SUBSET inHand.changes :
       /\ IF unread = {} THEN UNCHANGED namingCounts ELSE NamingFault
       /\ inHand' = [inHand EXCEPT !.changes = @ \ unread, !.rename = @ \ unread,
                    !.retry = @ \cup unread,
                    !.target = [i \in Media |-> IF i \in unread THEN Lost ELSE @[i]],
                    !.before = [i \in Media |-> [files |-> FilesIn(inHand.path[i]),
                                                 record |-> fileRecord[i]]]]
  /\ UNCHANGED <<arrState, visited, namingHistory>>

NoRefresh == refreshes = {}

\* wait_for_refreshes: one poll that finds none is enough; one may start after it.
QuietBeforeRename ==
  NamingStep("quiet", "rename") /\ NoRefresh /\ UNCHANGED inHand /\ NothingElse

NeverQuiet ==
  /\ namingAt = "quiet" /\ refreshes # {} /\ NamingFault /\ StopNaming
  /\ UNCHANGED <<arrState, visited, namingHistory>>

\* The commands that were listed before the run's own are not waited for.
Queued(command, items) == [earlier |-> command.earlier \cup command.ours, ours |-> items]

\* A request that failed may have reached the *arr.
RenameFiles ==
  /\ namingAt = "rename"
  /\ IF inHand.rename = {}
       THEN namingAt' = "moving" /\ UNCHANGED <<inHand, renames, namingCounts>>
       ELSE /\ namingAt' = "renaming"
            /\ \/ /\ renames' = Queued(renames, inHand.rename)
                  /\ UNCHANGED <<inHand, namingCounts>>
               \/ /\ NamingFault /\ inHand' = [inHand EXCEPT !.sent = FALSE]
                  /\ \E items \in {{}, inHand.rename} : renames' = Queued(renames, items)
  /\ UNCHANGED <<onDisk, onRecord, fileRecord, moves, refreshes, visited,
                 namingHistory>>

SlipNoWait(command) == TRUE
Finished(command) == command.ours = {}

RenamesFinish ==
  /\ NamingStep("renaming", "moving") /\ Finished(renames) /\ UNCHANGED inHand /\ NothingElse

\* Still running when the wait is over, aborted, or unreadable: the run stops,
\* and the commands go on without it.
GiveUpWaiting ==
  /\ namingAt \in {"renaming", "movingFolders"} /\ NamingFault /\ StopNaming
  /\ renames' = Queued(renames, {}) /\ moves' = Queued(moves, {})
  /\ UNCHANGED <<onDisk, onRecord, fileRecord, refreshes, visited, namingHistory>>

Moving == {i \in Media : inHand.target[i] # Lost}

NoMoves == NamingStep("moving", "paths") /\ Moving = {} /\ UNCHANGED inHand /\ NothingElse

MoveFolders ==
  /\ NamingStep("moving", "movingFolders") /\ Moving # {} /\ NoRefresh
  /\ \/ /\ moves' = Queued(moves, Moving)
        /\ UNCHANGED <<inHand, namingCounts>>
     \/ /\ NamingFault /\ inHand' = [inHand EXCEPT !.sent = FALSE]
        /\ \E items \in {{}, Moving} : moves' = Queued(moves, items)
  /\ UNCHANGED <<onDisk, onRecord, fileRecord, renames, refreshes, visited,
                 namingHistory>>

MovesSkipped ==
  /\ NamingStep("moving", "paths") /\ Moving # {} /\ ~NoRefresh /\ NamingFault
  /\ inHand' = [inHand EXCEPT !.skipped = TRUE, !.target = NoTargets]
  /\ UNCHANGED <<arrState, visited, namingHistory>>

MovesFinish ==
  /\ NamingStep("movingFolders", "paths") /\ Finished(moves) /\ UNCHANGED inHand /\ NothingElse

---------------------------------------------------------------------------
(* _verify, and the batch's end.                                           *)

\* get_all_media: where each item is now.
ReadPaths ==
  /\ NamingStep("paths", "check")
  /\ inHand' = [inHand EXCEPT !.now = onRecord]
  /\ passed' = passed \ inHand.changes /\ late' = late \ inHand.changes
  /\ UNCHANGED <<arrState, visited, namingCounts, othersMove, merged>>

\* check_files: what came of item i, its files listed where it is and was.
After(i) == FilesIn(inHand.now[i])
Behind(i) == IF inHand.now[i] = inHand.path[i] THEN {} ELSE FilesIn(inHand.path[i])
NewName(i) == <<i, "new">>
Renamed(i) == i \in inHand.rename /\ NewName(i) \in After(i) /\ <<i, "old">> \notin After(i)
Missing(i) ==
  {f \in inHand.before[i].files :
     /\ f \notin After(i) \cup Behind(i)
     /\ ~(f = <<i, "old">> /\ i \in inHand.rename /\ NewName(i) \in After(i) \cup Behind(i))}
Expected(i) ==
  IF Renamed(i) /\ inHand.before[i].record = "old" THEN "new" ELSE inHand.before[i].record
SlipTrustsRecords(i) == FALSE
Drifted(i)  == fileRecord[i] # Expected(i)

SlipIgnoresBehind(i) == Missing(i) = {}
FilesSound(i) == Missing(i) = {} /\ Behind(i) = {}

\* The check compares with the snapshot only: it cannot tell of an item whose record
\* did not fit its file even then.
Fitted(i) == <<i, inHand.before[i].record>> \in inHand.before[i].files

\* Files that went missing or were left behind make the batch unhealthy; records
\* that do not fit sound files are refreshed.
CheckBatch ==
  /\ namingAt = "check"
  /\ \E unread \in SUBSET inHand.changes :
       LET sound   == {i \in inHand.changes \ unread : FilesSound(i)}
           drifted == {i \in sound : Drifted(i)}
       IN  /\ IF unread = {} THEN UNCHANGED namingCounts ELSE NamingFault
           /\ inHand' = [inHand EXCEPT !.retry = @ \cup unread, !.drifted = drifted,
                        !.after = [i \in Media |-> After(i)],
                        !.healthy = (sound = inHand.changes)]
           /\ passed' = passed \cup {i \in sound \ drifted : Fitted(i)}
           /\ namingAt' = IF drifted = {} THEN "tag" ELSE "refreshDrifted"
  /\ UNCHANGED <<arrState, visited, late, othersMove, merged>>

RefreshDrifted ==
  /\ NamingStep("refreshDrifted", "awaitDrifted")
  /\ StartRefresh("run", inHand.drifted)
  /\ UNCHANGED <<onDisk, onRecord, fileRecord, renames, moves, visited, inHand,
                 namingCounts, namingHistory>>

\* The *arr has every file that should be on record, or the batch is unhealthy.
DriftedRefreshed ==
  /\ NamingStep("awaitDrifted", "tag") /\ OwnRefresh = {}
  /\ LET lost == {i \in inHand.drifted : Expected(i) # Lost /\ fileRecord[i] # Expected(i)
                                      /\ <<i, Expected(i)>> \in inHand.after[i]}
     IN  /\ inHand' = [inHand EXCEPT !.healthy = @ /\ lost = {}]
         /\ passed' = passed \cup {i \in inHand.drifted \ lost : Fitted(i)}
  /\ UNCHANGED <<arrState, visited, namingCounts, late, othersMove, merged>>

DriftedUnknown ==
  /\ NamingStep("awaitDrifted", "tag") /\ NamingFault
  /\ refreshes' = Disown
  /\ inHand' = [inHand EXCEPT !.healthy = FALSE]
  /\ UNCHANGED <<onDisk, onRecord, fileRecord, renames, moves, visited, namingHistory>>

\* A batch whose requests all went out is tagged, a healthy one goes on to the next.
Tag ==
  /\ namingAt = "tag"
  /\ IF inHand.sent /\ ~inHand.skipped
       THEN TagBatch /\ UNCHANGED namingCounts
       ELSE UNCHANGED <<visited, namingCounts>>
  /\ IF inHand.healthy /\ inHand.sent /\ ~inHand.skipped
       THEN namingAt' = "batch" /\ inHand' = NextBatch
       ELSE StopNaming
  /\ UNCHANGED <<arrState, namingHistory>>

\* The process ends, or an exception does the run.
NamingDies ==
  /\ namingAt # "idle" /\ NamingFault /\ StopNaming
  /\ refreshes' = Disown /\ renames' = Queued(renames, {}) /\ moves' = Queued(moves, {})
  /\ UNCHANGED <<onDisk, onRecord, fileRecord, visited, namingHistory>>

NamingSteps ==
  \/ StartNaming \/ RunEnds \/ RefreshBatch \/ BatchRefreshed \/ SkipRefresh \/ PlanChunk
  \/ NothingToDo \/ Snapshot
  \/ QuietBeforeRename \/ RenameFiles \/ RenamesFinish \/ NoMoves \/ MoveFolders \/ MovesFinish
  \/ ReadPaths \/ CheckBatch \/ RefreshDrifted \/ DriftedRefreshed \/ Tag

NamingNext ==
  \/ NamingSteps \/ PlanFails \/ Cancelled \/ NeverQuiet \/ GiveUpWaiting \/ MovesSkipped
  \/ DriftedUnknown \/ NamingDies
  \/ RefreshSaves \/ RenameRuns \/ MoveRuns
  \/ \E i \in Media : OthersRefresh(i) \/ \E f \in FolderNames : UserMoves(i, f)

NamingSpec == NamingInit /\ [][NamingNext]_namingVars

---------------------------------------------------------------------------

Memory == [todo : Seq(SUBSET Media), path : [Media -> FolderNames],
           taken : SUBSET FolderNames, rename : SUBSET Media,
           target : [Media -> FolderNames \cup {Lost}],
           changes : SUBSET Media, retry : SUBSET Media, before : [Media ->
             [files : SUBSET (Media \X {"old", "new"}), record : {"old", "new", Lost}]],
           sent : BOOLEAN, skipped : BOOLEAN, now : [Media -> FolderNames],
           drifted : SUBSET Media, after : [Media -> SUBSET (Media \X {"old", "new"})],
           healthy : BOOLEAN]

Refreshes ==
  UNION {[by : {"run", "others"}, items : {items},
          saw : [items -> [path : FolderNames, record : {"old", "new", Lost}]]] :
           items \in SUBSET Media}

NamingTypeOK ==
  /\ onDisk \in [Media -> [folder : FolderNames, file : {"old", "new"}]]
  /\ onRecord \in [Media -> FolderNames] /\ fileRecord \in [Media -> {"old", "new", Lost}]
  /\ {visited, passed, late} \subseteq SUBSET Media
  /\ {renames, moves} \subseteq [earlier : SUBSET Media, ours : SUBSET Media]
  /\ refreshes \subseteq Refreshes
  /\ namingAt \in {"idle", "batch", "refreshing", "plan", "planned", "quiet", "rename",
                   "renaming", "moving", "movingFolders", "paths", "check", "refreshDrifted",
                   "awaitDrifted", "tag"}
  /\ inHand \in Memory
  /\ {othersMove, merged} \subseteq BOOLEAN
  /\ refreshedByOthers \in 0..MaxRefreshes /\ movedByUsers \in 0..MaxMoves
  /\ namingFaults \in 0..MaxNamingFaults

\* What the run found sound is sound: the *arr has the item's file on record where
\* and as it is on disk, whatever refreshes ran beside its renames and moves, unless
\* one of them saved what it had read before the run's last look.
PassedIsSound ==
  \A i \in passed \ late : onRecord[i] = onDisk[i].folder /\ fileRecord[i] = onDisk[i].file

\* An item tagged as visited has its new file name, unless a fault or a user's move
\* came: the tag waits for what the run asked of the *arr for the item.
TaggedIsRenamed ==
  namingFaults = 0 /\ movedByUsers = 0 => \A i \in visited : onDisk[i].file = "new"

\* No folder is moved onto another item's, unless a user's move, or one left from an
\* earlier run, came after the run had listed the folders.
NeverMerges == ~merged

\* The three together: what the runs leave of the files, folders and tags.
FilesAreSafe == PassedIsSound /\ TaggedIsRenamed /\ NeverMerges

=============================================================================
