------------------------------- MODULE MCWork -------------------------------
(***************************************************************************)
(* The scheduler, the calendar of DateRange, Renameinatorr and Poster      *)
(* Cleanarr's bloat pass side by side for one run of TLC.  They share no   *)
(* state: `focus` names the one whose steps a behaviour takes, the others  *)
(* stay in their initial states.  All are those modules themselves, for    *)
(* their theorems are about the properties checked here; one configuration *)
(* of Renameinatorr more is an instance on the same variables.             *)
(***************************************************************************)
EXTENDS DateRange, Scheduler, Renameinatorr, PosterBloat, TLC

VARIABLE focus

workVars == <<focus, calendar, vars, namingVars, passVars>>

\* In one configuration the plain schedule, the profile and the block of a module
\* fall in the same minute, in the other each is due in a minute of its own.
MCConfigs ==
  LET modules == {"module", "upgradinatorr"} IN
  { [schedule |-> "module" :> {0, 1} @@ "upgradinatorr" :> {0},
     profiles |-> "profile" :> {0, 1},
     blocks   |-> [m \in modules |-> "block" :> {1}]],
    [schedule |-> [m \in modules |-> {}],
     profiles |-> "profile" :> {1},
     blocks   |-> [m \in modules |-> "block" :> {0}]] }

\* One batch per run, both of whose items want the same folder; and two batches in
\* one run, refreshed first, the first wanting the folder of the second.
MCPlace        == "m1" :> 1 @@ "m2" :> 2
MCFirstFolder  == "m1" :> "a" @@ "m2" :> "b"
MCWantedFolder == "m1" :> "c" @@ "m2" :> "c"
Batches == INSTANCE Renameinatorr WITH
  WantedFolder <- ("m1" :> "b" @@ "m2" :> "c"),
  BatchSize <- 1, Batching <- TRUE, RefreshFirst <- TRUE

ASSUME /\ SchedulerAssumption /\ PosterBloatAssumption
       /\ RenameinatorrAssumption /\ Batches!RenameinatorrAssumption

OneSpan  == CHOOSE s \in Spans : TRUE
OneStart == CHOOSE c \in MCConfigs : TRUE

WorkInit ==
  /\ focus \in {"range", "ticks", "batches", "batch", "bloat"}
  /\ CalendarInit /\ Init /\ NamingInit /\ PassInit
  /\ focus # "range" => span = OneSpan
  /\ focus # "ticks" => config = OneStart
  /\ focus # "bloat" => settings = CHOOSE k \in Settings : ~k.ignoreRunning
  /\ running /\ uses \in {"thumb" :> "i1" @@ "art" :> a : a \in {"i2", "none"}}
  /\ focus # "bloat" => uses["art"] = "none"

InRange   == focus = "range" /\ UNCHANGED <<focus, vars, namingVars, passVars>>
InTicks   == focus = "ticks" /\ UNCHANGED <<focus, calendar, namingVars, passVars>>
InBatches == focus = "batches" /\ UNCHANGED <<focus, calendar, vars, passVars>>
InBatch   == focus = "batch" /\ UNCHANGED <<focus, calendar, vars, passVars>>
InBloat   == focus = "bloat" /\ UNCHANGED <<focus, calendar, vars, namingVars>>

WorkNext ==
  \/ InRange /\ CalendarNext
  \/ InTicks /\ Step
  \/ InBatches /\ Batches!NamingNext
  \/ InBatch /\ NamingNext
  \/ InBloat /\ PassNext

WorkSpec == WorkInit /\ [][WorkNext]_workVars

---------------------------------------------------------------------------

\* The variables of the model at work have their types, and the module in a tick's
\* hand is not one the tick found disabled.
WorkTypeOK ==
  CASE focus = "ticks"   -> TypeOK
    [] focus = "batches" -> Batches!NamingTypeOK
    [] focus = "batch"   -> NamingTypeOK
    [] focus = "bloat"   -> PassTypeOK
    [] OTHER             -> TRUE

=============================================================================
