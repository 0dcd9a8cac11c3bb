--------------------------- MODULE Upgradinatorr ----------------------------
(***************************************************************************)
(* The search rotation of Upgradinatorr over one unattended Lidarr         *)
(* instance in season_album mode, run after run: tags and commands at the  *)
(* *arr, and the three tables that carry a run's unfinished business to    *)
(* the next, upgradinatorr_inflight, _progress and _grabs.  Sonarr's       *)
(* seasons and Radarr's movies take the same steps.                        *)
(***************************************************************************)
EXTENDS Integers, Sequences, FiniteSets, SequencesExt

CONSTANTS
  Items,       \* the media in the *arr's order
  AlbumsOf,    \* the albums of media; none: the item itself is searched
  Budget,      \* searches a run may make
  Grabs,       \* bound: downloads the searches start
  MaxUpsets,   \* bound: searches that fail, crashes and errors together
  None

UnitsOf(i)  == IF AlbumsOf[i] = {} THEN {i} ELSE AlbumsOf[i]
Leaf(u)     == u \in DOMAIN AlbumsOf
Units       == UNION {UnitsOf(i) : i \in ToSet(Items)}

UpgradinatorrAssumption ==
  /\ Budget \in Nat \ {0} /\ MaxUpsets \in Nat
  /\ Items \in Seq(DOMAIN AlbumsOf) /\ IsInjective(Items)
  /\ \A i \in DOMAIN AlbumsOf : AlbumsOf[i] \cap DOMAIN AlbumsOf = {}
  /\ None \notin Units /\ None \notin Grabs

VARIABLES
  at,        \* the run's next step
  run,       \* what the run holds in memory
  inflight, progress, pending,  \* the three tables
  tagged,    \* items with the checked tag
  search,    \* the *arr's last search command of each unit
  made,      \* the download that command started, if any
  download,  \* each download: not started, going, or over
  failures, blame,      \* counted for the bounds: failed searches, what went wrong
  searched,             \* history: units searched to the end in this rotation, or let go
  reported, piled,      \* history: grabs reported; a search was put on a running one
  forgotten             \* history: grabs of searches whose history could not be read,
                        \* or pruned

tables  == <<inflight, progress, pending>>
arr     == <<search, made, download, failures>>
history == <<searched, reported, piled, forgotten>>
vars    == <<at, run, tables, tagged, arr, blame, history>>

NoRun == [row |-> None, running |-> FALSE, blocked |-> {}, batch |-> {}, item |-> None,
          todo |-> {}, tried |-> {}, flawed |-> FALSE, left |-> Budget, deferred |-> None,
          grabs |-> {}, resolved |-> {}]

Init ==
  /\ at = "idle" /\ run = NoRun
  /\ inflight = None /\ progress = {} /\ pending = {} /\ tagged = {}
  /\ search = [u \in Units |-> "none"] /\ made = [u \in Units |-> None]
  /\ download = [g \in Grabs |-> "none"]
  /\ failures = 0 /\ blame = {}
  /\ searched = {} /\ reported = {} /\ piled = FALSE
  /\ forgotten = {}

MoreUpsets == failures + Cardinality(blame) < MaxUpsets
Fault(f)   == MoreUpsets /\ blame' = blame \cup {f}
Step(from, to) == at = from /\ at' = to

---------------------------------------------------------------------------
(* The *arr works on its own.                                              *)

Running == {u \in Units : search[u] = "running"}
Unused  == {g \in Grabs : download[g] = "none"}
Holding == {u \in Units : made[u] # None /\ download[made[u]] = "going"}

SearchEnds(u) ==
  /\ u \in Running
  /\ \/ /\ search' = [search EXCEPT ![u] = "completed"]
        /\ searched' = searched \cup {u}
        /\ \/ UNCHANGED <<made, download>>
           \/ \E g \in Unused : /\ made' = [made EXCEPT ![u] = g]
                                /\ download' = [download EXCEPT ![g] = "going"]
        /\ UNCHANGED failures
     \/ /\ MoreUpsets /\ failures' = failures + 1
        /\ search' = [search EXCEPT ![u] = "failed"]
        /\ UNCHANGED <<made, download, searched>>
  /\ UNCHANGED <<at, run, tables, tagged, blame, reported, piled, forgotten>>

\* Imported, or failed for good: its history says so.
DownloadEnds(g) ==
  /\ download[g] = "going"
  /\ download' = [download EXCEPT ![g] = "over"]
  /\ UNCHANGED <<at, run, tables, tagged, search, made, failures, blame, history>>

---------------------------------------------------------------------------
(* process_instance up to its searches.                                    *)

\* The in-flight row is read first.  Then grabs of two weeks are pruned, and those
\* that are done with collected: imported, failed, or not imported after one week.
\* Between two runs any time may pass, so each may be as old; and the *arr's
\* history may be unreadable, or tell in part: the others stay pending.
Collect ==
  /\ Step("idle", "gather")
  /\ \/ /\ \E old \in SUBSET pending, resolved \in SUBSET pending :
             /\ pending' = pending \ old /\ forgotten' = forgotten \cup old
             /\ run' = [NoRun EXCEPT !.row = inflight, !.resolved = resolved \ old]
        /\ UNCHANGED blame
     \/ Fault("lostTrack") /\ run' = NoRun /\ UNCHANGED <<pending, forgotten>>
  /\ UNCHANGED <<inflight, progress, tagged, arr, searched, reported, piled>>

\* filter_media: what is tagged, or blocked with all its albums, is left out.
Candidates(checked, blocked) ==
  {i \in ToSet(Items) : i \notin checked /\ UnitsOf(i) \ blocked # {}}

SlipNoReset(batch, blocked) == FALSE
RotationComplete(batch, blocked) == batch = {} /\ blocked = {}

\* An unreadable queue blocks nothing; so does one whose rows are old.
Gather ==
  /\ at = "gather"
  /\ \E blocked \in {Holding, {}} :
       LET batch == Candidates(tagged, blocked) IN
       /\ run' = [run EXCEPT !.batch = batch, !.blocked = blocked]
       /\ IF RotationComplete(batch, blocked)
            THEN at' = "clear" /\ tagged' = {} /\ searched' = {}
            ELSE at' = "resume" /\ UNCHANGED <<tagged, searched>>
  /\ UNCHANGED <<tables, arr, blame, reported, piled, forgotten>>

\* The media cannot be read: only what earlier grabs became is reported.
GatherFails ==
  /\ Step("gather", "report")
  /\ UNCHANGED <<run, tables, tagged, arr, blame, history>>

\* The unattended reset goes on when the progress rows cannot be cleared.
ClearProgress ==
  /\ Step("clear", "resume")
  /\ run' = [run EXCEPT !.batch = Candidates(tagged, run.blocked)]
  /\ \/ progress' = {} /\ UNCHANGED blame
     \/ Fault("progressKept") /\ UNCHANGED progress
  /\ UNCHANGED <<inflight, pending, tagged, arr, history>>

\* The download the history tells of, where it can be read before the search and
\* after; where it cannot, the run goes on without.
SlipForgets(u) == {}
GrabsSince(u) == {made[u]} \ {None}

Captured(u, grabs) ==
  \/ grabs = GrabsSince(u) /\ UNCHANGED forgotten
  \/ grabs = {} /\ forgotten' = forgotten \cup ({made[u]} \ {None})

\* _resume_inflight.  Without a row, and after a failed search, whose unit is an
\* ordinary candidate, there is nothing to do.
RowState == IF run.row = None THEN "no row" ELSE search[run.row]

ResumeNothing ==
  /\ Step("resume", "gate") /\ RowState \in {"no row", "failed"}
  /\ UNCHANGED <<run, tables, tagged, arr, blame, history>>

\* The command runs, or the *arr cannot say: nothing new is searched.
StillRunning ==
  /\ Step("resume", "gate") /\ run.row # None
  /\ run' = [run EXCEPT !.batch = {}, !.running = TRUE]
  /\ UNCHANGED <<tables, tagged, arr, blame, history>>

\* It counts as the run's own: a leaf is tagged, an album recorded.
Resume(u) ==
  /\ Step("resume", "gate")
  /\ \E grabs \in {GrabsSince(u), {}} :
       /\ Captured(u, grabs)
       /\ run' = [run EXCEPT !.grabs = @ \cup grabs, !.batch = @ \ {u},
                             !.tried = {i \in ToSet(Items) : u \in UnitsOf(i)}]
  /\ IF Leaf(u) THEN tagged' = tagged \cup {u} /\ UNCHANGED progress
                ELSE progress' = progress \cup {u} /\ UNCHANGED tagged
  /\ searched' = searched \cup {u}
  /\ UNCHANGED <<inflight, pending, arr, reported, piled>>

ResumeDone == RowState = "completed" /\ Resume(run.row) /\ UNCHANGED blame

\* Six hours after its start a search counts as done, whatever it does.
GiveUp == RowState = "running" /\ Resume(run.row) /\ Fault("lostTrack")

OpenGate == Step("gate", "next") /\ UNCHANGED <<run, tables, tagged, arr, blame, history>>

\* Three searches are queued already, or the command list cannot be read.
CloseGate ==
  /\ Step("gate", "record")
  /\ UNCHANGED <<run, tables, tagged, arr, blame, history>>

---------------------------------------------------------------------------
(* The searches.                                                           *)

\* The batch keeps the *arr's order.
Position(i)     == CHOOSE k \in DOMAIN Items : Items[k] = i
First(batch) == CHOOSE i \in batch : \A j \in batch : Position(i) <= Position(j)

NextItem ==
  /\ at = "next" /\ run.batch # {}
  /\ LET i == First(run.batch)
         todo == UnitsOf(i) \ (run.blocked \cup progress)
     IN  /\ run' = [run EXCEPT !.batch = @ \ {i}, !.item = i, !.todo = todo, !.tried = @ \cup {i},
                              !.flawed = FALSE]
         /\ at' = IF todo = {} THEN "tag" ELSE "search"
  /\ UNCHANGED <<tables, tagged, arr, blame, history>>

NoneLeft ==
  /\ Step("next", "record") /\ run.batch = {}
  /\ UNCHANGED <<run, tables, tagged, arr, blame, history>>

\* The run is cancelled, or has made as many grabs as it may.
StopEarly ==
  /\ Step("next", "record") /\ run.batch # {}
  /\ UNCHANGED <<run, tables, tagged, arr, blame, history>>

Unit == CHOOSE u \in run.todo : TRUE

\* The budget ends the run at an album, untagged; the item ends with its albums.
AfterSearch(left, todo) ==
  CASE left = 0 -> "record" [] left > 0 /\ todo = {} -> "tag" [] OTHER -> "search"

\* What is left of the run's plan once a search has been answered.
Counted(u, failed, grabs) ==
  LET todo == run.todo \ {u} IN
  /\ at' = IF Leaf(u) /\ run.left > 1 THEN "next" ELSE AfterSearch(run.left - 1, todo)
  /\ run' = [run EXCEPT !.todo = todo, !.left = @ - 1, !.flawed = @ \/ failed,
                        !.grabs = @ \cup grabs]

StartSearch ==
  /\ at = "search"
  /\ search' = [search EXCEPT ![Unit] = "running"] /\ made' = [made EXCEPT ![Unit] = None]
  /\ piled' = (piled \/ Running # {})
  /\ \/ at' = "wait" /\ UNCHANGED <<run, blame>>
     \/ Fault("lostTrack") /\ Counted(Unit, TRUE, {})
  /\ UNCHANGED <<tables, tagged, download, failures, searched, reported, forgotten>>

\* wait_for_command_result, and what the loop makes of it.
SearchCompleted ==
  /\ at = "wait" /\ search[Unit] = "completed"
  /\ \E grabs \in {GrabsSince(Unit), {}} : Captured(Unit, grabs) /\ Counted(Unit, FALSE, grabs)
  /\ IF Leaf(Unit) THEN tagged' = tagged \cup {Unit} /\ UNCHANGED progress
                   ELSE progress' = progress \cup {Unit} /\ UNCHANGED tagged
  /\ UNCHANGED <<inflight, pending, arr, blame, searched, reported, piled>>

SearchFailed ==
  /\ at = "wait" /\ search[Unit] = "failed"
  /\ Counted(Unit, TRUE, {})
  /\ UNCHANGED <<tables, tagged, arr, blame, history>>

\* Still queued or running when the wait is over, or the *arr cannot be reached.
SearchDeferred ==
  /\ Step("wait", "record")
  /\ run' = [run EXCEPT !.deferred = Unit]
  /\ UNCHANGED <<tables, tagged, arr, blame, history>>

SlipTagsAnyway == TRUE
MayTag == ~run.flawed

TagParent ==
  /\ at = "tag"
  /\ IF MayTag
       THEN /\ at' = "untrack" /\ tagged' = tagged \cup {run.item}
            /\ searched' = searched \cup (UnitsOf(run.item) \cap run.blocked)
       ELSE at' = "next" /\ UNCHANGED <<tagged, searched>>
  /\ UNCHANGED <<run, tables, arr, blame, reported, piled, forgotten>>

ClearForMedia ==
  /\ Step("untrack", "next")
  /\ progress' = progress \ UnitsOf(run.item)
  /\ UNCHANGED <<run, inflight, pending, tagged, arr, blame, history>>

---------------------------------------------------------------------------
(* The end of the run.  What it holds is forgotten where it is of no more  *)
(* use.                                                                    *)

\* Of what the run has searched, the queue shows what is new in it, or undated.
InQueue == {g \in Grabs : download[g] = "going"
                         /\ \E i \in run.tried : \E u \in UnitsOf(i) : made[u] = g}

RecordGrabs ==
  /\ Step("record", "save")
  /\ \E queued \in SUBSET InQueue : pending' = pending \cup run.grabs \cup queued
  /\ run' = [NoRun EXCEPT !.running = run.running, !.deferred = run.deferred,
                          !.resolved = run.resolved]
  /\ UNCHANGED <<inflight, progress, tagged, arr, blame, history>>

SlipAlwaysClears == run.deferred

\* Stage the search this run left, else clear the one it finished.
RowToKeep ==
  IF run.deferred # None THEN run.deferred ELSE IF run.running THEN inflight ELSE None

SaveInflight ==
  /\ Step("save", "report")
  /\ inflight' = RowToKeep
  /\ run' = [NoRun EXCEPT !.resolved = run.resolved]
  /\ UNCHANGED <<progress, pending, tagged, arr, blame, history>>

PrintOutput ==
  /\ Step("report", "settle")
  /\ reported' = reported \cup run.resolved
  /\ UNCHANGED <<run, tables, tagged, arr, blame, searched, piled, forgotten>>

\* Settling may fail: the grabs are reported again.
SettleReported ==
  /\ Step("settle", "idle")
  /\ run' = NoRun
  /\ pending' \in {pending, pending \ run.resolved}
  /\ UNCHANGED <<inflight, progress, tagged, arr, blame, history>>

\* An exception out of process_instance, or the end of the process: what the
\* run held in memory is gone.
RunDies ==
  /\ at # "idle" /\ at' = "idle" /\ run' = NoRun
  /\ Fault(IF at = "clear" THEN "progressKept" ELSE "lostTrack")
  /\ UNCHANGED <<tables, tagged, arr, history>>

RunSteps ==
  \/ Collect \/ Gather \/ ClearProgress \/ ResumeNothing \/ ResumeDone \/ NextItem \/ NoneLeft
  \/ StartSearch \/ SearchCompleted \/ SearchFailed \/ TagParent \/ ClearForMedia
  \/ RecordGrabs \/ SaveInflight \/ PrintOutput \/ SettleReported

Resumes == ResumeNothing \/ ResumeDone

Next ==
  \/ RunSteps \/ GatherFails \/ StillRunning \/ GiveUp \/ OpenGate \/ CloseGate \/ StopEarly
  \/ SearchDeferred \/ RunDies
  \/ \E u \in Units : SearchEnds(u)
  \/ \E g \in Grabs : DownloadEnds(g)

\* Runs are scheduled again and go on; the *arr ends what it does, can now and
\* then be read, and is not always busy; not every run is cancelled.
Fairness ==
  /\ WF_vars(RunSteps)
  /\ SF_vars(Gather) /\ SF_vars(OpenGate) /\ SF_vars(NextItem) /\ SF_vars(Resumes)
  /\ \A u \in Units : WF_vars(SearchEnds(u))
  /\ \A g \in Grabs : WF_vars(DownloadEnds(g))

Spec == Init /\ [][Next]_vars /\ Fairness

---------------------------------------------------------------------------

TypeOK ==
  /\ at \in {"idle", "gather", "clear", "resume", "gate", "next", "search", "wait", "tag",
             "untrack", "record", "save", "report", "settle"}
  /\ run \in [row : Units \cup {None}, running : BOOLEAN, blocked : SUBSET Units,
              batch : SUBSET ToSet(Items), item : ToSet(Items) \cup {None},
              todo : SUBSET Units, tried : SUBSET ToSet(Items), flawed : BOOLEAN, left : 0..Budget,
              deferred : Units \cup {None}, grabs : SUBSET Grabs, resolved : SUBSET Grabs]
  /\ inflight \in Units \cup {None} /\ progress \subseteq Units /\ pending \subseteq Grabs
  /\ tagged \subseteq ToSet(Items)
  /\ search \in [Units -> {"none", "running", "completed", "failed"}]
  /\ made \in [Units -> Grabs \cup {None}]
  /\ download \in [Grabs -> {"none", "going", "over"}]

\* Runs never pile a search on one that is still running, however often a run
\* stops watching, unless a run died, the tables could not be read, an answer
\* got lost or a search ran for more than six hours.
OneSearchAtATime == piled => "lostTrack" \in blame

\* A checked tag is true: in this rotation every album of the item has been
\* searched to the end, but those whose download was waiting when the rest were
\* done and those resumed from an earlier run (whose search may be from before a
\* reset, or was given up), unless the reset could not clear the progress.
TaggedMeansSearched ==
  "progressKept" \notin blame => \A i \in tagged : UnitsOf(i) \subseteq searched

\* Between runs every download a search made is on record, reported, or that of
\* the search in flight, unless the history could not be read when its search was
\* over, or its record was pruned at the age of two weeks (faults of the run as a
\* whole apart); what a run forgets as settled has been reported.
GrabsKept ==
  /\ at = "idle" /\ "lostTrack" \notin blame =>
       \A g \in Grabs \ Unused :
         g \in pending \cup reported \cup forgotten \/ (inflight # None /\ made[inflight] = g)
  /\ at = "settle" => run.resolved \subseteq reported

\* The three together: what the rotation promises.
RotationIsSound == OneSearchAtATime /\ TaggedMeansSearched /\ GrabsKept

\* The rotation goes on: every unit is searched again and again.
RotationGoesOn == \A u \in Units : []<>(search[u] = "running")

=============================================================================
