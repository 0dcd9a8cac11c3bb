--------------------------- MODULE PosterSelfHeal ---------------------------
(***************************************************************************)
(* Poster Self-Heal on one Drive folder and its local twin: posters whose  *)
(* name has drifted from the library's are proposed for a rename,          *)
(* poster_heal_review, and renamed by an unattended run or by requests     *)
(* from the review page, which share apply_proposal but no lock.  The CL2K *)
(* maker saves posters to both folders; the lock it shares with renames    *)
(* spans one rclone command, not the listing before it.  Local posters are *)
(* found through poster_cache, which a rescan empties and fills again.     *)
(***************************************************************************)
EXTENDS Integers, FiniteSets

CONSTANTS
  Names,      \* file names
  NewName,    \* the name the library wants for each drifted one
  Requests,        \* the review page's requests
  AutoApply,       \* auto_apply
  MaxDismissals,  \* bound
  MaxSaves,       \* bound: posters the maker writes
  MaxHealFaults   \* bound: rclone, disk and listing errors, crashes

Drifted == DOMAIN NewName

PosterSelfHealAssumption ==
  /\ Names # {} /\ Drifted \subseteq Names /\ \A n \in Drifted : NewName[n] \in Names \ Drifted
  /\ "run" \notin Requests /\ AutoApply \in BOOLEAN
  /\ MaxDismissals \in Nat /\ MaxSaves \in Nat /\ MaxHealFaults \in Nat

\* A review's key, poster_file: a path for a local poster, else the bare name.
ReviewKeys   == [name : Names, local : BOOLEAN]
Actors == {"run"} \cup Requests
Open   == {"proposed", "failed"}

VARIABLES
  drive, local,  \* the names in the folder and in its local twin
  cached,        \* the local names poster_cache has
  rescanning,    \* a rescan has deleted the rows and not yet inserted them all
  review,        \* the status of each key's row
  healAt, key,       \* each actor's next step and the row it is at
  rowGone,       \* the requests whose row was deleted under them
  todo,          \* what the run has still to look at
  snapshot,      \* what was dismissed when it began
  saving,        \* what the maker has written and not yet recorded
  dismissals, saves, healFaults,  \* counted for the bounds
  settled,       \* history: names dismissed when the run turned to the poster
  raced,         \* history: who was given the name it listed as free by another writer
  overwrote,     \* history: a rename destroyed a poster, and no other was to blame
  defied,        \* history: names the run renamed though they were settled
  gap, kept, made  \* history: a run began during a rescan; local names a rename left;
                   \* names the maker has written

files     == <<drive, local>>
cacheRows == <<cached, rescanning, saving>>
plan      == <<todo, snapshot>>
counts    == <<dismissals, saves, healFaults>>
excuses   == <<gap, kept, made>>
history   == <<raced, overwrote, defied, excuses>>
healVars  == <<files, cacheRows, review, healAt, key, rowGone, plan, counts, settled, history>>

NoKey == [name |-> CHOOSE n \in Names : TRUE, local |-> FALSE]
On(n, isLocal) == [name |-> n, local |-> isLocal]

HealInit ==
  /\ drive \in {Drifted, Names} /\ local \in SUBSET Drifted
  /\ cached = local /\ rescanning = FALSE /\ saving = {}
  /\ review = [k \in ReviewKeys |-> "none"]
  /\ healAt = [a \in Actors |-> "idle"] /\ key = [a \in Actors |-> NoKey] /\ rowGone = {}
  /\ todo = {} /\ snapshot = {} /\ dismissals = 0 /\ saves = 0 /\ healFaults = 0
  /\ settled = {} /\ raced = {} /\ overwrote = FALSE /\ defied = {}
  /\ gap = FALSE /\ kept = {} /\ made = {}

HealGoes(a, to) ==
  /\ healAt' = [healAt EXCEPT ![a] = to]
  /\ key' = IF to \in {"idle", "next"} THEN [key EXCEPT ![a] = NoKey] ELSE key
Step(a, from, to) == healAt[a] = from /\ HealGoes(a, to)
Fault == healFaults < MaxHealFaults /\ healFaults' = healFaults + 1
              /\ UNCHANGED <<dismissals, saves>>
Dismissed == {k \in ReviewKeys : review[k] = "dismissed"}

---------------------------------------------------------------------------
(* The run, up to a proposal.                                              *)

\* In the middle of a rescan some rows are missing.
ScanLocal ==
  /\ Step("run", "idle", "drive")
  /\ \E found \in IF rescanning THEN SUBSET local ELSE {cached} :
       todo' = {On(n, TRUE) : n \in found}
  /\ gap' = (gap \/ rescanning)
  /\ UNCHANGED <<files, cacheRows, review, rowGone, snapshot, counts, settled, raced,
                 overwrote, defied, kept, made>>

\* A listing that fails yields nothing.
ScanDrive ==
  /\ Step("run", "drive", "prune")
  /\ \/ todo' = todo \cup {On(n, FALSE) : n \in {m \in drive : On(m, TRUE) \notin todo}}
     \/ UNCHANGED todo
  /\ UNCHANGED <<files, cacheRows, review, rowGone, snapshot, counts, settled, history>>

\* is_already_healed
SlipNeverHealed(k) == FALSE
AlreadyHealed(k) ==
  /\ k.local /\ k.name \in Drifted
  /\ k.name \notin local /\ NewName[k.name] \in local

PruneReviews ==
  /\ Step("run", "prune", "next")
  /\ LET stale == {k \in ReviewKeys : review[k] \in Open /\ AlreadyHealed(k)} IN
     /\ review' = [k \in ReviewKeys |-> IF k \in stale THEN "none" ELSE review[k]]
     /\ rowGone' = rowGone \cup {r \in Requests : healAt[r] # "idle" /\ key[r] \in stale}
  /\ snapshot' = IF AutoApply THEN Dismissed ELSE {}
  /\ UNCHANGED <<files, cacheRows, todo, counts, settled, history>>

\* A poster whose name is right is left alone.
TakeNext ==
  /\ healAt["run"] = "next" /\ todo # {}
  /\ \E k \in todo :
       /\ todo' = todo \ {k}
       /\ IF k.name \in Drifted
            THEN /\ healAt' = [healAt EXCEPT !["run"] = IF AutoApply THEN "check" ELSE "propose"]
                 /\ key' = [key EXCEPT !["run"] = k]
            ELSE UNCHANGED <<healAt, key>>
       /\ settled' = {k.name} \cap {d.name : d \in Dismissed}
  /\ UNCHANGED <<files, cacheRows, review, rowGone, snapshot, counts, history>>

\* The snapshot first, then is_dismissed.
SlipSnapshotOnly(k) == k \in snapshot
IsDismissed(k) == k \in snapshot \cup Dismissed

Check ==
  /\ healAt["run"] = "check"
  /\ healAt' = [healAt EXCEPT !["run"] = IF IsDismissed(key["run"]) THEN "propose" ELSE "list"]
  /\ UNCHANGED <<files, cacheRows, review, key, rowGone, plan, counts, settled, history>>

RunDone ==
  /\ Step("run", "next", "idle") /\ todo = {} /\ snapshot' = {} /\ settled' = {}
  /\ UNCHANGED <<files, cacheRows, review, rowGone, todo, counts, history>>

---------------------------------------------------------------------------
(* apply_proposal, by the run or for a request.                            *)

\* apply_review; a row may be asked for twice.
Apply(r, k) ==
  /\ healAt[r] = "idle" /\ healAt' = [healAt EXCEPT ![r] = "list"] /\ review[k] \in Open
  /\ key' = [key EXCEPT ![r] = k] /\ rowGone' = rowGone \ {r}
  /\ UNCHANGED <<files, cacheRows, review, plan, counts, settled, history>>

\* The listing before a rename is strict: a failure fails the rename.
SlipReadsAsFree == "move"
ListingFailed == "failed"
Wanted(a) == NewName[key[a].name]

List(a) ==
  /\ healAt[a] = "list"
  /\ \/ /\ healAt' = [healAt EXCEPT ![a] = IF Wanted(a) \in drive THEN "failed" ELSE "move"]
        /\ UNCHANGED counts
     \/ Fault /\ healAt' = [healAt EXCEPT ![a] = ListingFailed]
  /\ UNCHANGED <<files, cacheRows, review, key, rowGone, plan, settled, history>>

\* Whoever has listed this name as free and has yet to rename.
Moving(a)     == healAt[a] = "move"
Waiting(name) == {a \in Actors : Moving(a) /\ Wanted(a) = name}

\* rclone overwrites what has the new name and fails without the old one.
RcloneMoves(a) ==
  LET n == key[a].name new == Wanted(a) IN
  /\ n \in drive /\ drive' = (drive \ {n}) \cup {new}
  /\ overwrote' = (overwrote \/ (new \in drive /\ a \notin raced))
  /\ raced' = (raced \cup Waiting(new)) \ {a}
  /\ defied' = IF a = "run" /\ n \in settled THEN defied \cup {n} ELSE defied

\* It may fail, and its answer may be late or lost after the rename.
Move(a) ==
  /\ Moving(a)
  /\ \/ /\ RcloneMoves(a) /\ UNCHANGED counts
        /\ healAt' = [healAt EXCEPT ![a] = IF key[a].local THEN "local" ELSE "applied"]
     \/ RcloneMoves(a) /\ Fault /\ healAt' = [healAt EXCEPT ![a] = "failed"]
     \/ /\ Fault \/ (key[a].name \notin drive /\ UNCHANGED counts)
        /\ healAt' = [healAt EXCEPT ![a] = "failed"]
        /\ raced' = raced \ {a} /\ UNCHANGED <<drive, overwrote, defied>>
  /\ UNCHANGED <<local, cacheRows, review, key, rowGone, plan, settled, excuses>>

\* Best effort: missing, taken or failing, the local copy is left as it is.
MoveLocal(a) ==
  /\ Step(a, "local", "applied")
  /\ LET n == key[a].name new == Wanted(a) IN
     /\ \/ /\ local' = IF n \in local /\ new \notin local THEN (local \ {n}) \cup {new} ELSE local
           /\ UNCHANGED counts
        \/ Fault /\ UNCHANGED local
     /\ kept' = kept \cup ({n} \cap local')
  /\ UNCHANGED <<drive, cacheRows, review, rowGone, plan, settled, raced, overwrote, defied,
                 gap, made>>

---------------------------------------------------------------------------
(* What is written of it.                                                  *)

\* upsert: what is resolved keeps its status.
Upserted(k, new) ==
  [review EXCEPT ![k] = IF @ \in {"applied", "dismissed"} THEN @ ELSE new]

Propose ==
  /\ Step("run", "propose", "next")
  /\ review' = Upserted(key["run"], "proposed")
  /\ UNCHANGED <<files, cacheRows, rowGone, plan, counts, settled, history>>

RunApplied ==
  /\ Step("run", "applied", "drop")
  /\ review' = Upserted(key["run"], "applied")
  /\ UNCHANGED <<files, cacheRows, rowGone, plan, counts, settled, history>>

RunFailed ==
  /\ Step("run", "failed", "mark")
  /\ review' = Upserted(key["run"], "proposed")
  /\ UNCHANGED <<files, cacheRows, rowGone, plan, counts, settled, history>>

\* mark_failed overrides an applied row, never a dismissed one.
Failed(s) == IF s = "dismissed" THEN s ELSE "failed"

MarkFailed ==
  /\ Step("run", "mark", "next")
  /\ review' = [review EXCEPT ![key["run"]] = Failed(@)]
  /\ UNCHANGED <<files, cacheRows, rowGone, plan, counts, settled, history>>

\* set_status, whatever the row has become since it was read.
ApiApplied(r) ==
  /\ Step(r, "applied", "drop")
  /\ review' = IF r \in rowGone THEN review ELSE [review EXCEPT ![key[r]] = "applied"]
  /\ UNCHANGED <<files, cacheRows, rowGone, plan, counts, settled, history>>

ApiFailed(r) ==
  /\ Step(r, "failed", "idle")
  /\ UNCHANGED <<files, cacheRows, review, rowGone, plan, counts, settled, history>>

\* drop_stale_row, of a local poster.
Drop(a) ==
  /\ Step(a, "drop", IF a = "run" THEN "next" ELSE "idle")
  /\ cached' = IF key[a].local THEN cached \ {key[a].name} ELSE cached
  /\ UNCHANGED <<files, rescanning, saving, review, rowGone, plan, counts, settled, history>>

---------------------------------------------------------------------------
(* The others.                                                             *)

\* dismiss_review: a row of any status.
Dismiss(k) ==
  /\ dismissals < MaxDismissals /\ dismissals' = dismissals + 1
  /\ review[k] \notin {"none", "dismissed"}
  /\ review' = [review EXCEPT ![k] = "dismissed"]
  /\ UNCHANGED <<files, cacheRows, healAt, key, rowGone, plan, saves, healFaults, settled,
                 history>>

\* The maker writes a poster to the local folder, then its row.  It may give a
\* drifted name again, which only the title it is asked for decides.
MakerSaves(n) ==
  /\ saves < MaxSaves /\ saves' = saves + 1
  /\ local' = local \cup {n} /\ saving' = saving \cup {n} /\ made' = made \cup {n}
  /\ UNCHANGED <<drive, cached, rescanning, review, healAt, key, rowGone, plan, dismissals,
                 healFaults, settled, raced, overwrote, defied, gap, kept>>

MakerRecords(n) ==
  /\ n \in saving /\ saving' = saving \ {n} /\ cached' = cached \cup {n}
  /\ UNCHANGED <<files, rescanning, review, healAt, key, rowGone, plan, counts, settled, history>>

\* upload_file, at once or deferred: what has the name on the Drive is replaced.
MakerUploads(n) ==
  /\ saves < MaxSaves /\ saves' = saves + 1
  /\ drive' = drive \cup {n} /\ raced' = raced \cup Waiting(n) /\ made' = made \cup {n}
  /\ UNCHANGED <<local, cacheRows, review, healAt, key, rowGone, plan, dismissals, healFaults,
                 settled, overwrote, defied, gap, kept>>

\* Poster Renamerr clears the table and merges what it finds; a crash between the
\* two is made up for by its next run.
RescanDeletes ==
  /\ ~rescanning /\ rescanning' = TRUE /\ cached' = {}
  /\ UNCHANGED <<files, saving, review, healAt, key, rowGone, plan, counts, settled, history>>

RescanInserts ==
  /\ rescanning /\ rescanning' = FALSE /\ cached' = local
  /\ UNCHANGED <<files, saving, review, healAt, key, rowGone, plan, counts, settled, history>>

HealCrash ==
  /\ Fault
  /\ healAt' = [a \in Actors |-> "idle"] /\ key' = [a \in Actors |-> NoKey]
  /\ todo' = {} /\ snapshot' = {} /\ settled' = {} /\ saving' = {} /\ raced' = {}
  /\ UNCHANGED <<files, cached, rescanning, review, rowGone, overwrote, defied, excuses>>

ApplySteps(a) == List(a) \/ Move(a) \/ MoveLocal(a) \/ Drop(a)
RunSteps ==
  \/ ScanLocal \/ ScanDrive \/ PruneReviews \/ TakeNext \/ Check \/ RunDone
  \/ ApplySteps("run") \/ Propose \/ RunApplied \/ RunFailed \/ MarkFailed
ApiSteps(r) == ApplySteps(r) \/ ApiApplied(r) \/ ApiFailed(r)

HealNext ==
  \/ RunSteps \/ RescanDeletes \/ RescanInserts \/ HealCrash
  \/ \E r \in Requests : ApiSteps(r) \/ \E k \in ReviewKeys : Apply(r, k)
  \/ \E k \in ReviewKeys : Dismiss(k)
  \/ \E n \in Names : MakerSaves(n) \/ MakerRecords(n) \/ MakerUploads(n)

ScanAll == ScanLocal /\ todo' = {On(n, TRUE) : n \in local}

\* Runs are scheduled and go on, as requests and rescans do; not every run begins
\* before a rescan has got to the posters.
HealFairness ==
  /\ WF_healVars(RunSteps) /\ SF_healVars(ScanAll)
  /\ \A r \in Requests : WF_healVars(ApiSteps(r))
  /\ WF_healVars(RescanInserts) /\ WF_healVars(RescanDeletes)

HealSpec == HealInit /\ [][HealNext]_healVars /\ HealFairness

---------------------------------------------------------------------------

HealTypeOK ==
  /\ {drive, local, cached, saving, settled, defied, kept, made} \subseteq SUBSET Names
  /\ review \in [ReviewKeys -> {"none", "proposed", "applied", "failed", "dismissed"}]
  /\ healAt \in [Actors -> {"idle", "drive", "prune", "next", "check", "list", "move", "local",
                        "propose", "applied", "failed", "mark", "drop"}]
  /\ key \in [Actors -> ReviewKeys] /\ todo \subseteq ReviewKeys /\ snapshot \subseteq ReviewKeys
  /\ rowGone \subseteq Requests /\ raced \subseteq Actors
  /\ {rescanning, gap, overwrote} \subseteq BOOLEAN
  /\ dismissals \in 0..MaxDismissals /\ saves \in 0..MaxSaves /\ healFaults \in 0..MaxHealFaults

\* However listings and renames fail, and whatever is saved beside them, a rename
\* destroys no poster but one that another rename or an upload has put under the
\* new name since this rename's own listing found it free.
NothingOverwritten == ~overwrote

\* The run renames no poster dismissed before it turned to it, under its path or
\* its bare name, unless the maker has written that name anew or a run looked for
\* local posters in the middle of a rescan.
DismissalsHold == ~gap => defied \subseteq made

\* A poster whose rename happened has no open row, and one still to be renamed is
\* shown or dismissed; where runs do not apply, a rename that left its local twin
\* hides it, and a name made again stays hidden.
Shown ==
  \A n \in Drifted : LET s == review[On(n, TRUE)] IN
    /\ n \notin local /\ NewName[n] \in local => s \notin Open
    /\ n \in local => s \in Open \cup {"dismissed"} \/ (~AutoApply /\ n \in kept \cup made)

\* The review queue comes to tell the truth about the local posters.
ReviewsSettle == <>[]Shown

=============================================================================
