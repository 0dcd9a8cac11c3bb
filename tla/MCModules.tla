----------------------------- MODULE MCModules -----------------------------
(***************************************************************************)
(* The models of the modules that work unattended on the library, side by  *)
(* side for one run of TLC.  They share no state: `focus` names the one    *)
(* whose steps a behaviour takes, the others stay in their initial states. *)
(* All are those modules themselves, for their theorems are about the      *)
(* properties checked here; further configurations of each are instances   *)
(* on the same variables.                                                  *)
(***************************************************************************)
EXTENDS PosterRename, PosterUpload, Upgradinatorr

VARIABLE focus

mcVars == <<focus, renameVars, uploadVars, vars>>

\* The servers of the plex path, both with a library "Movies"; an artist with two
\* albums, and a movie.
MCCopiesOf  == <<{"one", "uhd"}, {"other"}>>
MCLibraryOf == "one" :> "Movies" @@ "uhd" :> "4K" @@ "other" :> "Movies"
MCItems     == <<"band">>
MCAlbumsOf  == "band" :> {"a1", "a2"} @@ "film" :> {}

\* Two runs beside a fault, and beside an intrusion: each excuses what the other
\* is not to excuse.
Intruded == INSTANCE PosterRename WITH MaxNameFaults <- 0, MaxIntrusions <- 1

\* The scheduled run beside a webhook's over one server, with two copies of the
\* movie in one library.
Runs == INSTANCE PosterUpload WITH
  Instances <- 1, CopiesOf <- <<{"one", "other"}>>, Runners <- {"run", "adhoc"}, MaxFaults <- 1

Movie == INSTANCE Upgradinatorr WITH Items <- <<"film">>, Budget <- 1

ASSUME /\ PosterRenameAssumption /\ Intruded!PosterRenameAssumption
       /\ PosterUploadAssumption /\ Runs!PosterUploadAssumption
       /\ UpgradinatorrAssumption /\ Movie!UpgradinatorrAssumption

ModulesInit ==
  /\ focus \in {"rename", "intruded", "servers", "runs", "albums", "movie"}
  /\ RenameInit
  /\ IF focus = "runs" THEN Runs!UploadInit ELSE UploadInit
  /\ IF focus = "movie" THEN Movie!Init ELSE Init

InRename   == focus = "rename" /\ UNCHANGED <<focus, uploadVars, vars>>
InIntruded == focus = "intruded" /\ UNCHANGED <<focus, uploadVars, vars>>
InServers  == focus = "servers" /\ UNCHANGED <<focus, renameVars, vars>>
InRuns     == focus = "runs" /\ UNCHANGED <<focus, renameVars, vars>>
InAlbums   == focus = "albums" /\ UNCHANGED <<focus, renameVars, uploadVars>>
InMovie    == focus = "movie" /\ UNCHANGED <<focus, renameVars, uploadVars>>

ModulesNext ==
  \/ InRename /\ RenameNext
  \/ InIntruded /\ Intruded!RenameNext
  \/ InServers /\ UploadNext
  \/ InRuns /\ Runs!UploadNext
  \/ InAlbums /\ Next
  \/ InMovie /\ Movie!Next

\* Each model's own fairness.  focus never changes, so that one condition can
\* stand for a process of each model; its steps change no variable but theirs.
ModulesFairness ==
  /\ SF_<<renameVars, vars>>(
        \/ InRename /\ RenameRunSteps
        \/ InIntruded /\ Intruded!RenameRunSteps
        \/ InAlbums /\ Gather
        \/ InMovie /\ Movie!Gather)
  /\ SF_vars(\/ InAlbums /\ OpenGate
             \/ InMovie /\ Movie!OpenGate)
  /\ SF_vars(\/ InAlbums /\ NextItem
             \/ InMovie /\ Movie!NextItem)
  /\ SF_vars(\/ InAlbums /\ Resumes
             \/ InMovie /\ Movie!Resumes)
  /\ WF_mcVars(\/ InRename /\ RenameAdhocSteps
               \/ InIntruded /\ Intruded!RenameAdhocSteps
               \/ InServers /\ RunnerSteps("run")
               \/ InRuns /\ Runs!RunnerSteps("run")
               \/ InAlbums /\ RunSteps
               \/ InMovie /\ Movie!RunSteps)
  /\ WF_mcVars(\/ InRename /\ RefreshInserts
               \/ InIntruded /\ Intruded!RefreshInserts
               \/ InServers /\ RunsAgain
               \/ InRuns /\ Runs!RunsAgain
               \/ InAlbums /\ SearchEnds("a1")
               \/ InMovie /\ Movie!SearchEnds("film"))
  /\ WF_<<uploadVars, vars>>(
        \/ InRuns /\ Runs!RunnerSteps("adhoc")
        \/ InAlbums /\ SearchEnds("a2"))
  /\ WF_vars(\/ InAlbums /\ DownloadEnds("g1")
             \/ InMovie /\ Movie!DownloadEnds("g1"))

ModulesSpec == ModulesInit /\ [][ModulesNext]_mcVars /\ ModulesFairness

---------------------------------------------------------------------------

\* The variables of the model at work have their types.
ModulesTypeOK ==
  CASE focus = "rename"   -> RenameTypeOK
    [] focus = "intruded" -> Intruded!RenameTypeOK
    [] focus = "servers"  -> UploadTypeOK
    [] focus = "runs"     -> Runs!UploadTypeOK
    [] focus = "albums"   -> TypeOK
    [] focus = "movie"    -> Movie!TypeOK

\* The poster comes to the folder the movie has, and every library name that holds
\* the movie comes to show it.
PostersAllArrive ==
  []<>(CASE focus \in {"rename", "intruded"} -> Followed
         [] focus \in {"servers", "runs"} -> Shown
         [] OTHER -> TRUE)

\* Every unit is searched again and again.
RotationsGoOn ==
  /\ []<>(focus = "albums" => search["a1"] = "running")
  /\ []<>(CASE focus = "albums" -> search["a2"] = "running"
            [] focus = "movie" -> search["film"] = "running"
            [] OTHER -> TRUE)

=============================================================================
