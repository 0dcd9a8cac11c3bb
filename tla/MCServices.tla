------------------------------- MODULE MCServices -----------------------------
(***************************************************************************)
(* The models of the process, its worker threads and the tables that jobs  *)
(* and requests share without a lock, side by side for one run of TLC.     *)
(* They share no state: `focus` names the one whose steps a behaviour      *)
(* takes, the others stay in their initial states.  The process and the    *)
(* tables are those modules themselves, for their theorems are about the   *)
(* properties checked here; further configurations of the tables are       *)
(* instances on the same variables.                                        *)
(***************************************************************************)
EXTENDS Application, SharedTables, TLC

VARIABLES
  focus,
  \* WakeUp
  jobEvent, pending, unsignaled, thread, stopping, enqueued, errors

wakeVars == <<jobEvent, pending, unsignaled, thread, stopping, enqueued, errors>>
mcVars   == <<focus, vars, wakeVars, syncVars, mapVars, healVars>>

Wake == INSTANCE WakeUp WITH
          Pools   <- {"webhook", "background"},
          Threads <- {"w1", "b1"},
          PoolOf  <- [t \in {"w1", "b1"} |-> IF t = "b1" THEN "background" ELSE "webhook"],
          MaxJobs <- 2, MaxErrors <- 1

\* A refresh beside Poster Cleanarr's sweep, over two changes; and, of this instance,
\* that sweep beside Poster Renamerr's, over one change and a fault.
FaultySync == INSTANCE MediaSync WITH MaxFilmChanges <- 1, MaxSyncFaults <- 1

\* One job over two changes and a fault; and two jobs over one change.
Walkers == INSTANCE PlexMapping WITH Jobs <- {"a", "b"}, MaxItemChanges <- 1, MaxMapFaults <- 0

\* Runs that apply on their own; runs that do not; and two posters after one name
\* ("a" and "b" are alike), for a run and a request and, for safety only, for the two
\* requests of a crowd.  All but the first begin with the new name free.
MCNewName == "a" :> "x"
Proposer == INSTANCE PosterSelfHeal WITH AutoApply <- FALSE, MaxDismissals <- 0
Rivals   == INSTANCE PosterSelfHeal WITH
              Names <- {"a", "b", "x"}, NewName <- ("a" :> "x" @@ "b" :> "x"),
              MaxDismissals <- 0, MaxSaves <- 0
Crowd    == INSTANCE PosterSelfHeal WITH
              Names <- {"a", "b", "x"}, NewName <- ("a" :> "x" @@ "b" :> "x"),
              Requests <- {"api", "api2"}, AutoApply <- FALSE,
              MaxDismissals <- 0, MaxSaves <- 0, MaxHealFaults <- 0

ASSUME /\ ApplicationAssumption /\ Wake!WakeUpAssumption /\ SharedTablesAssumption
       /\ FaultySync!MediaSyncAssumption /\ Walkers!PlexMappingAssumption
       /\ Proposer!PosterSelfHealAssumption /\ Rivals!PosterSelfHealAssumption
       /\ Crowd!PosterSelfHealAssumption

ServicesInit ==
  /\ focus \in {"application", "wakeUp", "sync", "faultySync", "walker", "walkers",
                "healer", "proposer", "rivals", "crowd"}
  /\ Init /\ Wake!Init
  /\ SyncInit /\ "f1" \in library /\ (focus # "sync" => library = {"f1"})
  /\ IF focus = "walkers" THEN Walkers!MapInit
     ELSE MapInit /\ (focus = "walker" \/ plex = [k \in {1, 2} |-> "none"])
  /\ IF focus = "rivals" THEN Rivals!HealInit /\ drive = {"a", "b"} /\ local # {"b"}
     ELSE IF focus = "crowd" THEN Crowd!HealInit /\ drive = {"a", "b"} /\ local = {}
     ELSE HealInit /\ (focus = "healer" \/ drive = {"a"})
                   /\ (focus \in {"healer", "proposer"} \/ local = {})

InApp        == focus = "application" /\ UNCHANGED <<focus, wakeVars, syncVars, mapVars, healVars>>
InWake       == focus = "wakeUp" /\ UNCHANGED <<focus, vars, syncVars, mapVars, healVars>>
InSync       == focus = "sync" /\ UNCHANGED <<focus, vars, wakeVars, mapVars, healVars>>
InFaultySync == focus = "faultySync" /\ UNCHANGED <<focus, vars, wakeVars, mapVars, healVars>>
InWalker     == focus = "walker" /\ UNCHANGED <<focus, vars, wakeVars, syncVars, healVars>>
InWalkers    == focus = "walkers" /\ UNCHANGED <<focus, vars, wakeVars, syncVars, healVars>>
InHealer     == focus = "healer" /\ UNCHANGED <<focus, vars, wakeVars, syncVars, mapVars>>
InProposer   == focus = "proposer" /\ UNCHANGED <<focus, vars, wakeVars, syncVars, mapVars>>
InRivals     == focus = "rivals" /\ UNCHANGED <<focus, vars, wakeVars, syncVars, mapVars>>
InCrowd      == focus = "crowd" /\ UNCHANGED <<focus, vars, wakeVars, syncVars, mapVars>>

\* Who is not at work in a configuration of MediaSync.
Off(s) == syncAt'[s] = "idle"

\* The maker writes a poster where nothing fails or is dismissed; where runs do not
\* apply, it adds one to the local folder.  Rivals meet a fault without local twins.
OneHitch   == saves' = 0 \/ (healFaults' = 0 /\ dismissals' = 0)
LocalSaves == saves' # saves => local' # local
NoTwins    == local' = {} \/ healFaults' = 0

ServicesNext ==
  \/ InApp /\ Next
  \/ InWake /\ Wake!Next
  \/ InSync /\ SyncNext /\ Off("renamerr")
  \/ InFaultySync /\ FaultySync!SyncNext /\ Off("refresh")
  \/ InWalker /\ MapNext
  \/ InWalkers /\ Walkers!MapNext
  \/ InHealer /\ HealNext /\ OneHitch
  \/ InProposer /\ Proposer!HealNext /\ OneHitch /\ LocalSaves
  \/ InRivals /\ Rivals!HealNext /\ NoTwins
  \/ InCrowd /\ Crowd!HealNext

\* Each model's own fairness.  focus never changes, so that one condition can
\* stand for a process of each model; its steps change no variable but theirs.
ServicesFairness ==
  /\ WF_mcVars(\/ InApp /\ MainSteps
               \/ InWake /\ Wake!ThreadSteps("w1")
               \/ InSync /\ SyncSteps("refresh")
               \/ InFaultySync /\ FaultySync!SyncSteps("cleanarr")
               \/ InWalker /\ JobSteps("a")
               \/ InWalkers /\ Walkers!JobSteps("a")
               \/ InHealer /\ RunSteps
               \/ InProposer /\ Proposer!RunSteps
               \/ InRivals /\ Rivals!RunSteps)
  /\ WF_mcVars(\/ InApp /\ ServerSteps
               \/ InWake /\ Wake!ThreadSteps("b1")
               \/ InSync /\ SyncSteps("cleanarr")
               \/ InFaultySync /\ FaultySync!SyncSteps("renamerr")
               \/ InWalkers /\ Walkers!JobSteps("b")
               \/ InHealer /\ ApiSteps("api")
               \/ InProposer /\ Proposer!ApiSteps("api")
               \/ InRivals /\ Rivals!ApiSteps("api"))
  /\ WF_<<vars, syncVars, healVars>>(
        \/ InApp /\ CleanerSteps("thread")
        \/ InSync /\ HookUpserts
        \/ InFaultySync /\ FaultySync!HookUpserts
        \/ InHealer /\ RescanInserts
        \/ InProposer /\ Proposer!RescanInserts
        \/ InRivals /\ Rivals!RescanInserts)
  /\ WF_<<vars, healVars>>(
        \/ InApp /\ CleanerSteps("atexit")
        \/ InHealer /\ RescanDeletes
        \/ InProposer /\ Proposer!RescanDeletes
        \/ InRivals /\ Rivals!RescanDeletes)
  /\ SF_<<syncVars, mapVars, healVars>>(
        \/ InSync /\ FetchFilms("refresh")
        \/ InFaultySync /\ FaultySync!FetchFilms("cleanarr")
        \/ InWalker /\ FetchItems("a")
        \/ InWalkers /\ Walkers!FetchItems("a")
        \/ InHealer /\ ScanAll
        \/ InProposer /\ Proposer!ScanAll
        \/ InRivals /\ Rivals!ScanAll)
  /\ SF_<<syncVars, mapVars>>(
        \/ InSync /\ FetchFilms("cleanarr")
        \/ InFaultySync /\ FaultySync!FetchFilms("renamerr")
        \/ InWalkers /\ Walkers!FetchItems("b"))

ServicesSpec == ServicesInit /\ [][ServicesNext]_mcVars /\ ServicesFairness

---------------------------------------------------------------------------

\* The variables of every model have their types, cleanup's lock is free when
\* nobody is in it, and a worker thread ends only with its pool.
ServicesTypeOK ==
  CASE focus = "application"           -> TypeOK
    [] focus = "wakeUp"                -> Wake!TypeOK
    [] focus \in {"sync", "faultySync"} -> SyncTypeOK
    [] focus = "walker"                -> MapTypeOK
    [] focus = "walkers"               -> Walkers!MapTypeOK
    [] focus \in {"healer", "proposer"} -> HealTypeOK
    [] focus = "rivals"                -> Rivals!HealTypeOK
    [] focus = "crowd"                 -> Crowd!HealTypeOK

\* A committed job is started unless its pool stops.
JobsAreStarted == Wake!JobsAreStarted

\* When nothing changes any more the cached rows become the *arr's, every film
\* comes to point to an item of its own in Plex, and the review queue to tell what
\* is left to rename.
TablesSettle ==
  <>[](CASE focus \in {"sync", "faultySync"} -> CaughtUp
         [] focus \in {"walker", "walkers"} -> Mapped
         [] focus = "healer" -> Shown
         [] focus = "proposer" -> Proposer!Shown
         [] focus = "rivals" -> Rivals!Shown
         [] OTHER -> TRUE)

=============================================================================
