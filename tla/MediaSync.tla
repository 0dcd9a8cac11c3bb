----------------------------- MODULE MediaSync ------------------------------
(***************************************************************************)
(* The cached rows of one *arr instance, media_cache, and who lives by     *)
(* them: jobs that sync the whole instance, webhooks that upsert one film, *)
(* and sweeps that remove every poster of a film without a row.  Each job  *)
(* fetches, then reads and writes rows one statement at a time; no lock    *)
(* keeps two of them apart.                                                *)
(***************************************************************************)
EXTENDS Integers, FiniteSets

CONSTANTS
  Films,
  Refreshes, Cleanarrs, Renamerrs,  \* jobs that sync the instance; the last two sweep then
  MaxFilmChanges,  \* bound: films that come and go
  MaxSyncFaults,   \* bound: database errors and crashes
  None

MediaSyncAssumption == MaxFilmChanges \in Nat /\ MaxSyncFaults \in Nat /\ None \notin Films

Syncers == Refreshes \cup Cleanarrs \cup Renamerrs

VARIABLES
  library,   \* the films the *arr has
  cache,     \* films with a row
  posters,   \* films with a poster among the assets
  syncAt, syncHeld,  \* each job's next step and what it holds in memory
  hook,      \* the film a webhook is at
  syncChanges, syncFaults,    \* counted for the bounds
  wronged,   \* history: posters swept of films that had been there since the sweep's fetch,
             \* by whom, and whether its sync had gone through
  stolen     \* history: rows a sync deleted of films the *arr had

syncVars == <<library, cache, posters, syncAt, syncHeld, hook, syncChanges, syncFaults, wronged,
              stolen>>

NothingHeld == [todo |-> {}, drop |-> {}, titles |-> {}, since |-> {}, synced |-> FALSE]
SyncHold(s, h) == syncHeld' = [syncHeld EXCEPT ![s] = h]
SyncGoes(s, from, to) == syncAt[s] = from /\ syncAt' = [syncAt EXCEPT ![s] = to]

SyncInit ==
  /\ library \in SUBSET Films \ {{}} /\ cache = library /\ posters = Films
  /\ syncAt = [s \in Syncers |-> "idle"] /\ syncHeld = [s \in Syncers |-> NothingHeld]
  /\ hook = None /\ syncChanges = 0 /\ syncFaults = 0 /\ wronged = {} /\ stolen = {}

---------------------------------------------------------------------------
(* The *arr and its webhooks.                                              *)

FilmsChange ==
  /\ syncChanges < MaxFilmChanges /\ syncChanges' = syncChanges + 1
  /\ \/ \E f \in Films \ library : library' = library \cup {f} /\ UNCHANGED syncHeld
     \/ \E f \in library :
          /\ library' = library \ {f}
          /\ syncHeld' = [s \in Syncers |-> [syncHeld[s] EXCEPT !.since = @ \ {f}]]
  /\ UNCHANGED <<cache, posters, syncAt, hook, syncFaults, wronged, stolen>>

\* The webhook job reads its film from the *arr ...
HookReads ==
  /\ hook = None /\ hook' \in library
  /\ UNCHANGED <<library, cache, posters, syncAt, syncHeld, syncChanges, syncFaults, wronged,
                 stolen>>

\* ... writes the row, and Poster Renamerr stages the poster.
HookUpserts ==
  /\ hook # None /\ hook' = None
  /\ cache' = cache \cup {hook} /\ posters' = posters \cup {hook}
  /\ UNCHANGED <<library, syncAt, syncHeld, syncChanges, syncFaults, wronged, stolen>>

---------------------------------------------------------------------------
(* _sync_single_arr_instance.                                              *)

\* Whether a job sweeps after its sync, done or failed: resync_media sends Poster
\* Cleanarr home, Poster Renamerr does not look at the results.
SlipTrustsAnyway(s, ok) == s \notin Refreshes
Sweeps(s, ok) == s \in Renamerrs \/ (s \in Cleanarrs /\ ok)

Ends(s, ok) ==
  /\ syncAt' = [syncAt EXCEPT ![s] = IF Sweeps(s, ok) THEN "titles" ELSE "idle"]
  /\ SyncHold(s, IF Sweeps(s, ok)
                   THEN [NothingHeld EXCEPT !.since = syncHeld[s].since, !.synced = ok]
                   ELSE NothingHeld)

FetchFilms(s) ==
  /\ SyncGoes(s, "idle", "rows") /\ library # {}
  /\ SyncHold(s, [NothingHeld EXCEPT !.todo = library, !.since = library])
  /\ UNCHANGED <<library, cache, posters, hook, syncChanges, syncFaults, wronged, stolen>>

\* Unreachable, or nothing came: a failure, and nothing is pruned.
FetchFilmsFails(s) ==
  /\ SyncGoes(s, "idle", "titles") /\ Sweeps(s, FALSE)
  /\ SyncHold(s, [NothingHeld EXCEPT !.since = library])
  /\ UNCHANGED <<library, cache, posters, hook, syncChanges, syncFaults, wronged, stolen>>

\* sync_for_instance: the rows that are to go are those read here.
ReadFilmRows(s) ==
  /\ SyncGoes(s, "rows", "upsert")
  /\ SyncHold(s, [syncHeld[s] EXCEPT !.drop = cache \ syncHeld[s].todo])
  /\ UNCHANGED <<library, cache, posters, hook, syncChanges, syncFaults, wronged, stolen>>

Upsert(s) ==
  /\ syncAt[s] = "upsert"
  /\ \E f \in syncHeld[s].todo :
       /\ cache' = cache \cup {f}
       /\ SyncHold(s, [syncHeld[s] EXCEPT !.todo = @ \ {f}])
       /\ syncAt' = [syncAt EXCEPT ![s] = IF syncHeld[s].todo = {f} THEN "prune" ELSE "upsert"]
  /\ UNCHANGED <<library, posters, hook, syncChanges, syncFaults, wronged, stolen>>

Prune(s) ==
  /\ syncAt[s] = "prune"
  /\ \E f \in syncHeld[s].drop :
       /\ cache' = cache \ {f}
       /\ SyncHold(s, [syncHeld[s] EXCEPT !.drop = @ \ {f}])
       /\ stolen' = IF f \in library THEN stolen \cup {f} ELSE stolen
  /\ UNCHANGED <<library, posters, syncAt, hook, syncChanges, syncFaults, wronged>>

SyncDone(s) ==
  /\ syncAt[s] = "prune" /\ syncHeld[s].drop = {}
  /\ Ends(s, TRUE)
  /\ UNCHANGED <<library, cache, posters, hook, syncChanges, syncFaults, wronged, stolen>>

\* DatabaseSyncError: what was written stays.
SyncFails(s) ==
  /\ syncFaults < MaxSyncFaults /\ syncFaults' = syncFaults + 1
  /\ syncAt[s] \in {"rows", "upsert", "prune"}
  /\ Ends(s, FALSE)
  /\ UNCHANGED <<library, cache, posters, hook, syncChanges, wronged, stolen>>

---------------------------------------------------------------------------
(* _run_orphan_pass.                                                       *)

\* An empty comparison set is not trusted.
ReadTitles(s) ==
  /\ syncAt[s] = "titles"
  /\ IF cache = {} THEN /\ syncAt' = [syncAt EXCEPT ![s] = "idle"] /\ SyncHold(s, NothingHeld)
                   ELSE /\ syncAt' = [syncAt EXCEPT ![s] = "walk"]
                        /\ SyncHold(s, [syncHeld[s] EXCEPT !.titles = cache])
  /\ UNCHANGED <<library, cache, posters, hook, syncChanges, syncFaults, wronged, stolen>>

\* _scan_orphan_assets
Walk(s) ==
  /\ SyncGoes(s, "walk", "remove")
  /\ SyncHold(s, [syncHeld[s] EXCEPT !.todo = posters \ syncHeld[s].titles, !.titles = {}])
  /\ UNCHANGED <<library, cache, posters, hook, syncChanges, syncFaults, wronged, stolen>>

\* _execute_orphan_mode
Remove(s) ==
  /\ syncAt[s] = "remove"
  /\ \E f \in syncHeld[s].todo :
       /\ posters' = posters \ {f}
       /\ SyncHold(s, [syncHeld[s] EXCEPT !.todo = @ \ {f}])
       /\ wronged' = IF f \notin syncHeld[s].since THEN wronged
                     ELSE wronged \cup {[film |-> f, by |-> s, synced |-> syncHeld[s].synced]}
  /\ UNCHANGED <<library, cache, syncAt, hook, syncChanges, syncFaults, stolen>>

SweepDone(s) ==
  /\ SyncGoes(s, "remove", "idle") /\ syncHeld[s].todo = {}
  /\ SyncHold(s, NothingHeld)
  /\ UNCHANGED <<library, cache, posters, hook, syncChanges, syncFaults, wronged, stolen>>

\* The process ends; what its jobs held is gone.
SyncCrash ==
  /\ syncFaults < MaxSyncFaults /\ syncFaults' = syncFaults + 1
  /\ syncAt' = [s \in Syncers |-> "idle"] /\ syncHeld' = [s \in Syncers |-> NothingHeld]
  /\ hook' = None
  /\ UNCHANGED <<library, cache, posters, syncChanges, wronged, stolen>>

SyncSteps(s) ==
  ReadFilmRows(s) \/ Upsert(s) \/ Prune(s) \/ SyncDone(s)
    \/ ReadTitles(s) \/ Walk(s) \/ Remove(s) \/ SweepDone(s)

SyncNext ==
  \/ FilmsChange \/ HookReads \/ HookUpserts \/ SyncCrash
  \/ \E s \in Syncers : FetchFilms(s) \/ FetchFilmsFails(s) \/ SyncFails(s) \/ SyncSteps(s)

\* Jobs go on, are scheduled again, and the *arr can be read now and then.
SyncFairness ==
  /\ \A s \in Syncers : WF_syncVars(SyncSteps(s)) /\ SF_syncVars(FetchFilms(s))
  /\ WF_syncVars(HookUpserts)

SyncSpec == SyncInit /\ [][SyncNext]_syncVars /\ SyncFairness

---------------------------------------------------------------------------

SyncTypeOK ==
  /\ library \subseteq Films /\ cache \subseteq Films /\ posters \subseteq Films
  /\ syncAt \in [Syncers -> {"idle", "rows", "upsert", "prune", "titles", "walk", "remove"}]
  /\ syncHeld \in [Syncers -> [todo : SUBSET Films, drop : SUBSET Films,
                               titles : SUBSET Films, since : SUBSET Films,
                               synced : BOOLEAN]]
  /\ hook \in Films \cup {None}
  /\ wronged \subseteq [film : Films, by : Syncers, synced : BOOLEAN] /\ stolen \subseteq Films

\* A sweep removes no poster of a film the *arr has had since the sweep's own fetch,
\* unless another sync, which had fetched before the film came, deleted its row: a
\* sweep goes by a cache it has refreshed.  Only Poster Renamerr's may have failed to.
SweptOnlyIfStolen ==
  \A w \in wronged : w.film \in stolen \/ (w.by \in Renamerrs /\ ~w.synced)

\* The same of every sweep, without an exception.
OrphansAreOrphans == wronged = {}

CaughtUp == cache = library \/ library = {}

\* Whatever syncs and webhooks overlap, when the films stop coming and going the
\* rows become the films and stay so, but the last film's row is never pruned.
CacheCatchesUp == <>[]CaughtUp

=============================================================================
