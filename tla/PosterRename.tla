---------------------------- MODULE PosterRename ----------------------------
(***************************************************************************)
(* Poster Renamerr on its kometa path, for one movie whose poster is among *)
(* the sources: the scheduled run and a webhook's ad-hoc run rebuild one   *)
(* poster_cache, match the movie against it, and copy the poster into the  *)
(* folder the movie has.  The movie's folder may be renamed at any time.   *)
(***************************************************************************)
EXTENDS Integers

CONSTANTS
  Folders,        \* the names the movie's folder may have
  FirstFolder,    \* the one it has at first
  MaxMoves,       \* bound: renames of that folder
  MaxNameFaults,  \* bound: failed file operations and crashes
  MaxIntrusions   \* bound: wipes and per-folder refreshes of poster_cache

Renamers == {"run", "adhoc"}   \* PosterRenamerr.run, run_poster_rename_adhoc
Absent   == "none"
Whole    == "whole"            \* a file with all its bytes
Cut      == "cut"              \* a file whose writer died
Nothing  == [folder |-> Absent, previous |-> Absent]

PosterRenameAssumption ==
  /\ FirstFolder \in Folders /\ Absent \notin Folders
  /\ {MaxMoves, MaxNameFaults, MaxIntrusions} \subseteq Nat

VARIABLES
  nameAt,      \* where each runner stands
  lock,        \* the owner of _POSTER_CACHE_REBUILD_LOCK
  cache,       \* poster_cache has the movie's poster
  refreshing,  \* sync_gdrive's refresh is between its delete and its insert
  arrFolder,   \* the folder the movie has in Radarr
  nameRow,     \* its media_cache row
  seen,        \* the row as each runner took it to rename_file
  disk,        \* the poster in each folder; a runner's name while it is written
  tmp,         \* the temporary file in each folder, named by the process id
  moves, nameFaults, intrusions,
  nameBlame    \* history: what has happened that the code does not repair

nameFiles  == <<disk, tmp>>
budgets    == <<moves, nameFaults, intrusions>>
renameVars == <<nameAt, lock, cache, refreshing, arrFolder, nameRow, seen, nameFiles,
                budgets, nameBlame>>

RenameInit ==
  /\ nameAt = [r \in Renamers |-> "idle"] /\ lock = Absent
  /\ cache = TRUE /\ refreshing = FALSE
  /\ arrFolder = FirstFolder
  /\ nameRow = [folder |-> FirstFolder, status |-> "new", renamed |-> Absent]
  /\ seen = [r \in Renamers |-> Nothing]
  /\ disk = [f \in Folders |-> Absent] /\ tmp = [f \in Folders |-> Absent]
  /\ moves = 0 /\ nameFaults = 0 /\ intrusions = 0 /\ nameBlame = {}

Goto(r, to)           == nameAt' = [nameAt EXCEPT ![r] = to]
NameStep(r, from, to) == nameAt[r] = from /\ Goto(r, to)

\* The ad-hoc run holds the lock to its end, the scheduled run has let it go.
SlipKeepsLock(r) ==
  Goto(r, "idle") /\ seen' = [seen EXCEPT ![r] = Nothing] /\ UNCHANGED lock
Ends(r) ==
  /\ Goto(r, "idle") /\ seen' = [seen EXCEPT ![r] = Nothing]
  /\ lock' = IF lock = r THEN Absent ELSE lock

---------------------------------------------------------------------------
(* The cache: clear and merge, and those who empty it besides.             *)

\* The webhook job first updates the movie's row from Radarr.
Start(r) ==
  /\ NameStep(r, "idle", "rebuild")
  /\ nameRow' = IF r = "adhoc" THEN [nameRow EXCEPT !.folder = arrFolder] ELSE nameRow
  /\ UNCHANGED <<lock, cache, refreshing, arrFolder, seen, nameFiles, budgets,
                 nameBlame>>

SlipNoLock == TRUE
LockIsFree == lock = Absent

ClearCache(r) ==
  /\ NameStep(r, "rebuild", "merge") /\ LockIsFree
  /\ lock' = r /\ cache' = FALSE
  /\ UNCHANGED <<refreshing, arrFolder, nameRow, seen, nameFiles, budgets, nameBlame>>

\* The scheduled run gives the lock up to sync with the arrs.
Merge(r) ==
  /\ NameStep(r, "merge", IF r = "run" THEN "sync" ELSE "match")
  /\ cache' = TRUE
  /\ lock' = IF r = "run" THEN Absent ELSE lock
  /\ UNCHANGED <<refreshing, arrFolder, nameRow, seen, nameFiles, budgets, nameBlame>>

SyncArrs ==
  /\ NameStep("run", "sync", "relock")
  /\ nameRow' = [nameRow EXCEPT !.folder = arrFolder]
  /\ UNCHANGED <<lock, cache, refreshing, arrFolder, seen, nameFiles, budgets,
                 nameBlame>>

Relock ==
  /\ NameStep("run", "relock", "match") /\ LockIsFree
  /\ lock' = "run"
  /\ UNCHANGED <<cache, refreshing, arrFolder, nameRow, seen, nameFiles, budgets,
                 nameBlame>>

\* POST /system/db/poster-cache/clear, which takes the lock too.
Wipe ==
  /\ intrusions < MaxIntrusions /\ LockIsFree
  /\ intrusions' = intrusions + 1 /\ cache' = FALSE
  /\ nameBlame' = nameBlame \cup {"intrusion"}
  /\ UNCHANGED <<nameAt, lock, refreshing, arrFolder, nameRow, seen, nameFiles, moves,
                 nameFaults>>

\* A folder's sync refreshes its rows in two statements, without the lock.
RefreshDeletes ==
  /\ intrusions < MaxIntrusions /\ ~refreshing
  /\ intrusions' = intrusions + 1 /\ cache' = FALSE /\ refreshing' = TRUE
  /\ nameBlame' = nameBlame \cup {"intrusion"}
  /\ UNCHANGED <<nameAt, lock, arrFolder, nameRow, seen, nameFiles, moves, nameFaults>>

RefreshInserts ==
  /\ refreshing /\ refreshing' = FALSE /\ cache' = TRUE
  /\ UNCHANGED <<nameAt, lock, arrFolder, nameRow, seen, nameFiles, budgets, nameBlame>>

---------------------------------------------------------------------------
(* Matching, and what is to be staged.                                     *)

\* The movie is matched if its poster is in the cache just now.
Match(r) ==
  /\ nameAt[r] = "match"
  /\ nameRow' = [nameRow EXCEPT !.status = IF cache THEN "matched" ELSE "unmatched"]
  /\ IF r = "run"
       THEN Goto(r, "choose") /\ lock' = Absent /\ UNCHANGED seen
       ELSE IF cache THEN Goto(r, "take") /\ UNCHANGED <<lock, seen>> ELSE Ends(r)
  /\ UNCHANGED <<cache, refreshing, arrFolder, nameFiles, budgets, nameBlame>>

SlipExistsOnly ==
  nameRow.renamed = Absent \/ disk[nameRow.renamed] = Absent
NeedsStaging ==
  nameRow.renamed = Absent \/ disk[nameRow.renamed] = Absent \/ nameRow.renamed # nameRow.folder

Taken(r) ==
  seen' = [seen EXCEPT ![r] = [folder |-> nameRow.folder, previous |-> nameRow.renamed]]

\* get_matched_assets; the ad-hoc run takes every match.
Choose ==
  /\ nameAt["run"] = "choose"
  /\ IF nameRow.status = "matched" /\ NeedsStaging
       THEN Taken("run") /\ Goto("run", "write") /\ UNCHANGED lock
       ELSE Ends("run")
  /\ UNCHANGED <<cache, refreshing, arrFolder, nameRow, nameFiles, budgets, nameBlame>>

Take ==
  /\ NameStep("adhoc", "take", "write") /\ Taken("adhoc")
  /\ UNCHANGED <<lock, cache, refreshing, arrFolder, nameRow, nameFiles, budgets,
                 nameBlame>>

---------------------------------------------------------------------------
(* rename_file.                                                            *)

Renaming(r) == nameAt[r] \in {"write", "compare", "open", "copy", "replace", "supersede"}
Target(r)   == seen[r].folder

\* The row is told of the new path before there is a file at it.
WriteRow(r) ==
  /\ NameStep(r, "write", "compare")
  /\ nameRow' = [nameRow EXCEPT !.renamed = Target(r)]
  /\ nameBlame' = nameBlame \cup IF \A q \in Renamers : Renaming(q) THEN {"overlap"} ELSE {}
  /\ UNCHANGED <<lock, cache, refreshing, arrFolder, seen, nameFiles, budgets>>

CompareBytes(r) ==
  /\ NameStep(r, "compare", IF disk[Target(r)] = Whole THEN "supersede" ELSE "open")
  /\ UNCHANGED <<lock, cache, refreshing, arrFolder, nameRow, seen, nameFiles, budgets,
                 nameBlame>>

\* Both runners are one process: their temporary files have one name.
SlipInPlace(r) ==
  /\ disk' = [disk EXCEPT ![Target(r)] = r] /\ tmp' = [tmp EXCEPT ![Target(r)] = r]
Opened(r) ==
  /\ tmp' = [tmp EXCEPT ![Target(r)] = r] /\ UNCHANGED disk

Open(r) ==
  /\ NameStep(r, "open", "copy") /\ Opened(r)
  /\ UNCHANGED <<lock, cache, refreshing, arrFolder, nameRow, seen, budgets, nameBlame>>

\* The bytes r has opened, wherever the file is by now, become b.
Written(r, b) ==
  /\ disk' = [f \in Folders |-> IF disk[f] = r THEN b ELSE disk[f]]
  /\ tmp'  = [f \in Folders |-> IF tmp[f] = r THEN b ELSE tmp[f]]

Copy(r) ==
  /\ NameStep(r, "copy", "replace") /\ Written(r, Whole)
  /\ UNCHANGED <<lock, cache, refreshing, arrFolder, nameRow, seen, budgets, nameBlame>>

\* os.replace fails when the other runner has moved the temporary file away.
Replace(r) ==
  /\ nameAt[r] = "replace"
  /\ IF tmp[Target(r)] = Absent
       THEN Ends(r) /\ UNCHANGED nameFiles
       ELSE /\ disk' = [disk EXCEPT ![Target(r)] = tmp[Target(r)]]
            /\ tmp' = [tmp EXCEPT ![Target(r)] = Absent]
            /\ Goto(r, "supersede") /\ UNCHANGED <<lock, seen>>
  /\ UNCHANGED <<cache, refreshing, arrFolder, nameRow, budgets, nameBlame>>

FileOpFails(r) ==
  /\ nameAt[r] \in {"open", "copy"} /\ nameFaults < MaxNameFaults
  /\ nameFaults' = nameFaults + 1 /\ nameBlame' = nameBlame \cup {"fileOp"}
  /\ disk' = [f \in Folders |-> IF disk[f] = r THEN Cut ELSE disk[f]]
  /\ tmp' = [tmp EXCEPT ![Target(r)] = Absent]
  /\ Ends(r)
  /\ UNCHANGED <<cache, refreshing, arrFolder, nameRow, moves, intrusions>>

SlipAfterWrite(r) == nameRow.renamed
Previous(r)       == seen[r].previous

RemoveSuperseded(r) ==
  /\ nameAt[r] = "supersede" /\ Ends(r)
  /\ LET p == Previous(r) IN
       disk' = IF p \in {Absent, Target(r)} THEN disk ELSE [disk EXCEPT ![p] = Absent]
  /\ UNCHANGED <<cache, refreshing, arrFolder, nameRow, tmp, budgets, nameBlame>>

---------------------------------------------------------------------------

MoveFolder ==
  /\ moves < MaxMoves /\ moves' = moves + 1
  /\ \E f \in Folders \ {arrFolder} : arrFolder' = f
  /\ UNCHANGED <<nameAt, lock, cache, refreshing, nameRow, seen, nameFiles, nameFaults,
                 intrusions, nameBlame>>

\* The process ends and starts again; the database and the disk stay.
RenamerCrash ==
  /\ nameFaults < MaxNameFaults /\ nameFaults' = nameFaults + 1
  /\ nameBlame' = nameBlame \cup {"crash"}
  /\ nameAt' = [r \in Renamers |-> "idle"] /\ lock' = Absent /\ refreshing' = FALSE
  /\ disk' = [f \in Folders |-> IF disk[f] \in Renamers THEN Cut ELSE disk[f]]
  /\ tmp' = [f \in Folders |-> Absent]
  /\ seen' = [r \in Renamers |-> Nothing]
  /\ UNCHANGED <<cache, arrFolder, nameRow, moves, intrusions>>

NameSteps(r) ==
  \/ ClearCache(r) \/ Merge(r) \/ Match(r)
  \/ WriteRow(r) \/ CompareBytes(r) \/ Open(r) \/ Copy(r) \/ Replace(r) \/ RemoveSuperseded(r)
RenameRunSteps   == NameSteps("run") \/ Start("run") \/ SyncArrs \/ Relock \/ Choose
RenameAdhocSteps == NameSteps("adhoc") \/ Take

RenameNext ==
  \/ RenameRunSteps \/ RenameAdhocSteps \/ Start("adhoc")
  \/ \E r \in Renamers : FileOpFails(r)
  \/ Wipe \/ RefreshDeletes \/ RefreshInserts \/ MoveFolder \/ RenamerCrash

\* The schedule brings the run back; a lock that keeps becoming free is taken.
RenameFairness ==
  /\ SF_renameVars(RenameRunSteps) /\ WF_renameVars(RenameAdhocSteps)
  /\ WF_renameVars(RefreshInserts)
RenameSpec     == RenameInit /\ [][RenameNext]_renameVars /\ RenameFairness

---------------------------------------------------------------------------

RenameTypeOK ==
  /\ nameAt \in [Renamers -> {"idle", "rebuild", "merge", "sync", "relock", "match", "choose",
                              "take", "write", "compare", "open", "copy", "replace",
                              "supersede"}]
  /\ lock \in Renamers \cup {Absent} /\ {cache, refreshing} \subseteq BOOLEAN
  /\ arrFolder \in Folders
  /\ nameRow \in [folder : Folders, status : {"new", "matched", "unmatched"},
              renamed : Folders \cup {Absent}]
  /\ seen \in [Renamers -> [folder : Folders \cup {Absent}, previous : Folders \cup {Absent}]]
  /\ disk \in [Folders -> {Absent, Whole, Cut} \cup Renamers]
  /\ tmp \in [Folders -> {Absent, Whole} \cup Renamers]
  /\ moves \in 0..MaxMoves /\ nameFaults \in 0..MaxNameFaults
  /\ intrusions \in 0..MaxIntrusions
  /\ nameBlame \subseteq {"intrusion", "overlap", "fileOp", "crash"}
  /\ \A r \in Renamers : nameAt[r] = "idle" => lock # r

\* The two runs never match against each other's half-built cache: a movie
\* with a poster is recorded as unmatched only after a wipe or a folder's
\* refresh fell between a merge and its match.
UnmatchedOnlyByIntrusion == nameRow.status = "unmatched" => "intrusion" \in nameBlame

\* After a rename no poster is left where the row does not point, unless a
\* file operation failed, the process died, or both runs renamed at once.
StrandedOnlyByFaults ==
  (\A r \in Renamers : ~Renaming(r)) =>
    \A f \in Folders :
      disk[f] # Absent /\ f # nameRow.renamed => nameBlame \ {"intrusion"} # {}

\* An interrupted copy leaves no truncated poster at its path: only two
\* copies that shared their temporary file can.
TruncatedOnlyByOverlap ==
  \A f \in Folders : disk[f] = Cut => "overlap" \in nameBlame

\* The three together: what the renames leave on record and on the disk.
DiskIsSound == UnmatchedOnlyByIntrusion /\ StrandedOnlyByFaults /\ TruncatedOnlyByOverlap

Followed == disk[arrFolder] # Absent /\ nameRow.renamed = arrFolder

\* Whatever failed and however the folder was renamed, the scheduled runs
\* bring the poster to the folder the movie has, and the row says so.
PosterFollowsFolder == []<>Followed

=============================================================================
