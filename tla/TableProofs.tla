---------------------------- MODULE TableProofs -----------------------------
(***************************************************************************)
(* What SharedTables promises of every number of jobs, films, items and    *)
(* posters, and however many changes, faults and dismissals: sweeps go by  *)
(* rows they have refreshed, links between the caches point to the film    *)
(* they are of, and renames spare other posters and what was dismissed.    *)
(***************************************************************************)
EXTENDS SharedTables, FiniteSetTheorems, TLAPS

---------------------------------------------------------------------------
(* media_cache: syncs and sweeps.                                          *)

\* What a job knows of the films that have been there since its fetch: it has them
\* in hand or has written their rows, and these are read for its sweep, but for the
\* rows another sync took away.
Knows(s) ==
  LET h == syncHeld[s] IN
  /\ h.since \subseteq library
  /\ syncAt[s] = "rows" => h.since \subseteq h.todo
  /\ syncAt[s] = "upsert" => h.since \subseteq h.todo \cup cache \cup stolen
  /\ syncAt[s] = "prune" => h.since \subseteq cache \cup stolen
  /\ syncAt[s] = "titles" /\ h.synced => h.since \subseteq cache \cup stolen
  /\ syncAt[s] = "walk" /\ h.synced => h.since \subseteq h.titles \cup stolen
  /\ syncAt[s] = "remove" /\ h.synced => h.todo \cap h.since \subseteq stolen
  /\ syncAt[s] \in {"titles", "walk", "remove"} => h.synced \/ s \in Renamerrs

SyncInv == SyncTypeOK /\ (\A s \in Syncers : Knows(s)) /\ SweptOnlyIfStolen

Held == [todo : SUBSET Films, drop : SUBSET Films, titles : SUBSET Films,
         since : SUBSET Films, synced : BOOLEAN]

LEMMA SyncStarts == SyncInit => SyncInv
BY DEF SyncInit, SyncInv, SyncTypeOK, Knows, SweptOnlyIfStolen, NothingHeld, Held

\* A job's own step, which takes it to another place with other things in hand, is
\* sound if no row of a film the *arr has goes unnoticed.
LEMMA JobStep ==
  ASSUME SyncInv, NEW s \in Syncers,
         NEW to \in {"idle", "rows", "upsert", "prune", "titles", "walk", "remove"},
         NEW h \in Held,
         syncAt' = [syncAt EXCEPT ![s] = to], syncHeld' = [syncHeld EXCEPT ![s] = h],
         library' = library, hook' = hook,
         cache' \subseteq Films, posters' \subseteq Films,
         stolen \subseteq stolen', stolen' \subseteq Films,
         \A f \in (cache \ cache') \cap library : f \in stolen',
         wronged' \subseteq wronged \cup
           [film : {f \in Films : h.synced => f \in stolen}, by : {s}, synced : {h.synced}],
         wronged' = wronged \/ h.synced \/ s \in Renamerrs,
         Knows(s)'
  PROVE  SyncInv'
<1>1. syncAt'[s] = to /\ syncHeld'[s] = h
  BY DEF SyncInv, SyncTypeOK, Held
<1>2. ASSUME NEW q \in Syncers, q # s  PROVE  Knows(q)'
  <2>1. syncAt'[q] = syncAt[q] /\ syncHeld'[q] = syncHeld[q]
    BY <1>2 DEF SyncInv, SyncTypeOK
  <2>2. Knows(q)
    BY DEF SyncInv
  <2> QED BY <2>1, <2>2 DEF Knows, SyncInv, SyncTypeOK, Held
<1>3. SyncTypeOK'
  <2>1. syncAt' \in [Syncers -> {"idle", "rows", "upsert", "prune", "titles", "walk", "remove"}]
    BY DEF SyncInv, SyncTypeOK
  <2>2. syncHeld' \in [Syncers -> Held]
    BY DEF SyncInv, SyncTypeOK, Held
  <2>3. wronged' \subseteq [film : Films, by : Syncers, synced : BOOLEAN]
    BY DEF SyncInv, SyncTypeOK, Held
  <2> QED BY <2>1, <2>2, <2>3 DEF SyncInv, SyncTypeOK, Held
<1>4. SweptOnlyIfStolen'
  BY DEF SyncInv, SweptOnlyIfStolen, Held
<1> QED BY <1>2, <1>3, <1>4 DEF SyncInv

\* The same for a step that loses no row and sweeps nothing.
LEMMA QuietStep ==
  ASSUME SyncInv, NEW s \in Syncers,
         NEW to \in {"idle", "rows", "upsert", "prune", "titles", "walk", "remove"},
         NEW h \in Held,
         syncAt' = [syncAt EXCEPT ![s] = to], syncHeld' = [syncHeld EXCEPT ![s] = h],
         UNCHANGED <<library, cache, posters, hook, wronged, stolen>>,
         Knows(s)'
  PROVE  SyncInv'
BY JobStep DEF SyncInv, SyncTypeOK

LEMMA SyncChanges ==
  ASSUME SyncInv, FilmsChange \/ HookReads \/ HookUpserts \/ SyncCrash
  PROVE  SyncInv'
<1>1. CASE FilmsChange
  <2>1. CASE \E f \in Films \ library : library' = library \cup {f} /\ UNCHANGED syncHeld
    BY <1>1, <2>1 DEF FilmsChange, SyncInv, SyncTypeOK, Knows, SweptOnlyIfStolen, Held
  <2>2. CASE \E f \in library :
               /\ library' = library \ {f}
               /\ syncHeld' = [q \in Syncers |-> [syncHeld[q] EXCEPT !.since = @ \ {f}]]
    <3>1. PICK f \in library :
               /\ library' = library \ {f}
               /\ syncHeld' = [q \in Syncers |-> [syncHeld[q] EXCEPT !.since = @ \ {f}]]
      BY <2>2
    <3>2. UNCHANGED <<cache, posters, syncAt, hook, wronged, stolen>>
      BY <1>1 DEF FilmsChange
    <3>3. \A q \in Syncers : /\ syncHeld'[q] \in Held
                             /\ syncHeld'[q] = [syncHeld[q] EXCEPT !.since = @ \ {f}]
      BY <3>1 DEF SyncInv, SyncTypeOK, Held
    <3>4. syncHeld' \in [Syncers -> Held]
      BY <3>1, <3>3
    <3>5. ASSUME NEW q \in Syncers  PROVE  Knows(q)'
      <4>1. Knows(q)
        BY DEF SyncInv
      <4>2. syncHeld[q] \in Held
        BY DEF SyncInv, SyncTypeOK, Held
      <4> QED BY <3>1, <3>2, <3>3, <4>1, <4>2 DEF Knows, Held
    <3> QED BY <3>1, <3>2, <3>4, <3>5 DEF SyncInv, SyncTypeOK, SweptOnlyIfStolen, Held
  <2> QED BY <1>1, <2>1, <2>2 DEF FilmsChange
<1>2. CASE HookReads
  BY <1>2 DEF HookReads, SyncInv, SyncTypeOK, Knows, SweptOnlyIfStolen, Held
<1>3. CASE HookUpserts
  BY <1>3 DEF HookUpserts, SyncInv, SyncTypeOK, Knows, SweptOnlyIfStolen, Held
<1>4. CASE SyncCrash
  BY <1>4 DEF SyncCrash, SyncInv, SyncTypeOK, Knows, SweptOnlyIfStolen, Held, NothingHeld
<1> QED BY <1>1, <1>2, <1>3, <1>4

LEMMA HeldIsHeld ==
  ASSUME SyncInv, NEW s \in Syncers
  PROVE  syncHeld[s] \in Held /\ NothingHeld \in Held /\ Knows(s)
BY DEF SyncInv, SyncTypeOK, Held, NothingHeld

\* _sync_single_arr_instance up to its end.
LEMMA SyncWorks ==
  ASSUME SyncInv, NEW s \in Syncers,
         FetchFilms(s) \/ FetchFilmsFails(s) \/ ReadFilmRows(s) \/ Upsert(s) \/ Prune(s)
  PROVE  SyncInv'
<1> USE HeldIsHeld
<1>1. CASE FetchFilms(s)
  <2> DEFINE h == [NothingHeld EXCEPT !.todo = library, !.since = library]
  <2>1. h \in Held /\ syncAt'[s] = "rows" /\ syncHeld'[s] = h
    BY <1>1 DEF FetchFilms, SyncGoes, SyncHold, SyncInv, SyncTypeOK, Held, NothingHeld
  <2>2. Knows(s)'
    BY <1>1, <2>1 DEF FetchFilms, Knows, NothingHeld
  <2> QED BY <1>1, <2>1, <2>2, QuietStep DEF FetchFilms, SyncGoes, SyncHold
<1>2. CASE FetchFilmsFails(s)
  <2> DEFINE h == [NothingHeld EXCEPT !.since = library]
  <2>1. h \in Held /\ syncAt'[s] = "titles" /\ syncHeld'[s] = h
    BY <1>2 DEF FetchFilmsFails, SyncGoes, SyncHold, SyncInv, SyncTypeOK, Held, NothingHeld
  <2>2. Knows(s)'
    BY <1>2, <2>1 DEF FetchFilmsFails, Sweeps, Knows, NothingHeld
  <2> QED BY <1>2, <2>1, <2>2, QuietStep DEF FetchFilmsFails, SyncGoes, SyncHold
<1>3. CASE ReadFilmRows(s)
  <2> DEFINE h == [syncHeld[s] EXCEPT !.drop = cache \ syncHeld[s].todo]
  <2>1. h \in Held /\ syncAt'[s] = "upsert" /\ syncHeld'[s] = h
    BY <1>3 DEF ReadFilmRows, SyncGoes, SyncHold, SyncInv, SyncTypeOK, Held
  <2>2. Knows(s)'
    BY <1>3, <2>1 DEF ReadFilmRows, SyncGoes, Knows, Held
  <2> QED BY <1>3, <2>1, <2>2, QuietStep DEF ReadFilmRows, SyncGoes, SyncHold
<1>4. CASE Upsert(s)
  <2>1. PICK f \in syncHeld[s].todo :
          /\ cache' = cache \cup {f}
          /\ SyncHold(s, [syncHeld[s] EXCEPT !.todo = @ \ {f}])
          /\ syncAt' = [syncAt EXCEPT ![s] = IF syncHeld[s].todo = {f} THEN "prune" ELSE "upsert"]
    BY <1>4 DEF Upsert
  <2> DEFINE h  == [syncHeld[s] EXCEPT !.todo = @ \ {f}]
             to == IF syncHeld[s].todo = {f} THEN "prune" ELSE "upsert"
  <2>2. h \in Held /\ syncAt'[s] = to /\ syncHeld'[s] = h /\ f \in Films
    BY <2>1 DEF SyncHold, SyncInv, SyncTypeOK, Held
  <2>3. Knows(s)'
    BY <1>4, <2>1, <2>2 DEF Upsert, Knows, Held
  <2> HIDE DEF h, to
  <2>4. cache' \subseteq Films /\ posters' \subseteq Films /\ stolen' \subseteq Films
    BY <1>4, <2>1, <2>2 DEF Upsert, SyncInv, SyncTypeOK
  <2>5. to \in {"prune", "upsert"} /\ syncAt' = [syncAt EXCEPT ![s] = to]
        /\ syncHeld' = [syncHeld EXCEPT ![s] = h]
    BY <2>1 DEF to, h, SyncHold
  <2> QED BY <1>4, <2>1, <2>2, <2>3, <2>4, <2>5, JobStep DEF Upsert
<1>5. CASE Prune(s)
  <2>1. PICK f \in syncHeld[s].drop :
          /\ cache' = cache \ {f}
          /\ SyncHold(s, [syncHeld[s] EXCEPT !.drop = @ \ {f}])
          /\ stolen' = IF f \in library THEN stolen \cup {f} ELSE stolen
    BY <1>5 DEF Prune
  <2> DEFINE h == [syncHeld[s] EXCEPT !.drop = @ \ {f}]
  <2>2. h \in Held /\ syncAt'[s] = "prune" /\ syncHeld'[s] = h /\ f \in Films
    BY <1>5, <2>1 DEF Prune, SyncHold, SyncInv, SyncTypeOK, Held
  <2>3. Knows(s)'
    BY <1>5, <2>1, <2>2 DEF Prune, Knows, Held
  <2> HIDE DEF h
  <2>4. cache' \subseteq Films /\ posters' \subseteq Films /\ stolen' \subseteq Films
    BY <1>5, <2>1, <2>2 DEF Prune, SyncInv, SyncTypeOK
  <2>5. syncAt' = [syncAt EXCEPT ![s] = "prune"] /\ syncHeld' = [syncHeld EXCEPT ![s] = h]
    BY <1>5, <2>1 DEF h, Prune, SyncHold, SyncInv, SyncTypeOK
  <2> QED BY <1>5, <2>1, <2>2, <2>3, <2>4, <2>5, JobStep DEF Prune
<1> QED BY <1>1, <1>2, <1>3, <1>4, <1>5

\* Its end, done or failed.
LEMMA SyncEnds ==
  ASSUME SyncInv, NEW s \in Syncers, SyncDone(s) \/ SyncFails(s)
  PROVE  SyncInv'
<1> USE HeldIsHeld
<1>1. PICK ok \in BOOLEAN : Ends(s, ok) /\ (ok => syncAt[s] = "prune")
  BY DEF SyncDone, SyncFails
<1> DEFINE to == IF Sweeps(s, ok) THEN "titles" ELSE "idle"
           h  == IF Sweeps(s, ok)
                   THEN [NothingHeld EXCEPT !.since = syncHeld[s].since, !.synced = ok]
                   ELSE NothingHeld
<1>2. h \in Held /\ to \in {"titles", "idle"}
  BY DEF Held, NothingHeld
<1>3. syncAt' = [syncAt EXCEPT ![s] = to] /\ syncHeld' = [syncHeld EXCEPT ![s] = h]
  BY <1>1 DEF Ends, SyncHold
<1>4. syncAt'[s] = to /\ syncHeld'[s] = h
  BY <1>3 DEF SyncInv, SyncTypeOK
<1>5. UNCHANGED <<library, cache, posters, hook, wronged, stolen>>
  BY DEF SyncDone, SyncFails
<1>6. Knows(s)'
  <2>1. CASE Sweeps(s, ok)
    <3>1. syncAt'[s] = "titles" /\ syncHeld'[s].since = syncHeld[s].since
          /\ syncHeld'[s].synced = ok
      BY <1>4, <2>1 DEF NothingHeld
    <3>2. ~ok => s \in Renamerrs
      BY <2>1 DEF Sweeps
    <3> QED BY <1>1, <1>5, <3>1, <3>2 DEF Knows
  <2>2. CASE ~Sweeps(s, ok)
    BY <1>4, <2>2 DEF Knows, NothingHeld
  <2> QED BY <2>1, <2>2
<1> HIDE DEF to, h
<1> QED BY <1>2, <1>3, <1>5, <1>6, QuietStep

\* _run_orphan_pass
LEMMA SweepWorks ==
  ASSUME SyncInv, NEW s \in Syncers,
         ReadTitles(s) \/ Walk(s) \/ Remove(s) \/ SweepDone(s)
  PROVE  SyncInv'
<1> USE HeldIsHeld
<1>1. CASE ReadTitles(s)
  <2> DEFINE to == IF cache = {} THEN "idle" ELSE "walk"
             h  == IF cache = {} THEN NothingHeld ELSE [syncHeld[s] EXCEPT !.titles = cache]
  <2>1. h \in Held /\ to \in {"idle", "walk"}
    BY DEF SyncInv, SyncTypeOK, Held
  <2>2. syncAt' = [syncAt EXCEPT ![s] = to] /\ syncHeld' = [syncHeld EXCEPT ![s] = h]
    BY <1>1 DEF ReadTitles, SyncHold
  <2>3. syncAt'[s] = to /\ syncHeld'[s] = h
    BY <2>2 DEF SyncInv, SyncTypeOK
  <2>4. Knows(s)'
    BY <1>1, <2>3 DEF ReadTitles, Knows, NothingHeld, Held
  <2> HIDE DEF to, h
  <2> QED BY <1>1, <2>1, <2>2, <2>4, QuietStep DEF ReadTitles
<1>2. CASE Walk(s)
  <2> DEFINE h == [syncHeld[s] EXCEPT !.todo = posters \ syncHeld[s].titles, !.titles = {}]
  <2>1. h \in Held /\ syncAt'[s] = "remove" /\ syncHeld'[s] = h
    BY <1>2 DEF Walk, SyncGoes, SyncHold, SyncInv, SyncTypeOK, Held
  <2>2. Knows(s)'
    BY <1>2, <2>1 DEF Walk, SyncGoes, Knows, Held
  <2> QED BY <1>2, <2>1, <2>2, QuietStep DEF Walk, SyncGoes, SyncHold
<1>3. CASE Remove(s)
  <2>1. PICK f \in syncHeld[s].todo :
          /\ posters' = posters \ {f}
          /\ SyncHold(s, [syncHeld[s] EXCEPT !.todo = @ \ {f}])
          /\ wronged' = IF f \notin syncHeld[s].since THEN wronged
               ELSE wronged \cup {[film |-> f, by |-> s, synced |-> syncHeld[s].synced]}
    BY <1>3 DEF Remove
  <2> DEFINE h == [syncHeld[s] EXCEPT !.todo = @ \ {f}]
  <2>2. h \in Held /\ syncAt'[s] = "remove" /\ syncHeld'[s] = h /\ f \in Films
        /\ h.synced = syncHeld[s].synced
    BY <1>3, <2>1 DEF Remove, SyncHold, SyncInv, SyncTypeOK, Held
  <2>3. Knows(s)'
    BY <1>3, <2>1, <2>2 DEF Remove, Knows, Held
  <2> HIDE DEF h
  <2>4. cache' \subseteq Films /\ posters' \subseteq Films /\ stolen' \subseteq Films
    BY <1>3, <2>1 DEF Remove, SyncInv, SyncTypeOK
  <2>5. syncAt' = [syncAt EXCEPT ![s] = "remove"] /\ syncHeld' = [syncHeld EXCEPT ![s] = h]
    BY <1>3, <2>1 DEF h, Remove, SyncHold, SyncInv, SyncTypeOK
  <2>6. h.synced /\ f \in syncHeld[s].since => f \in stolen
    BY <1>3, <2>1, <2>2 DEF Remove, Knows, Held
  <2>7. wronged' \subseteq wronged \cup
           [film : {g \in Films : h.synced => g \in stolen}, by : {s}, synced : {h.synced}]
    BY <2>1, <2>2, <2>6
  <2>8. wronged' = wronged \/ h.synced \/ s \in Renamerrs
    BY <1>3, <2>2 DEF Remove, Knows
  <2>9. UNCHANGED <<library, cache, hook, stolen>>
    BY <1>3 DEF Remove
  <2> QED BY <2>2, <2>3, <2>4, <2>5, <2>7, <2>8, <2>9, JobStep
<1>4. CASE SweepDone(s)
  <2>1. syncAt'[s] = "idle" /\ syncHeld'[s] = NothingHeld
    BY <1>4 DEF SweepDone, SyncGoes, SyncHold, SyncInv, SyncTypeOK
  <2>2. Knows(s)'
    BY <2>1 DEF Knows, NothingHeld
  <2> QED BY <1>4, <2>2, QuietStep DEF SweepDone, SyncGoes, SyncHold
<1> QED BY <1>1, <1>2, <1>3, <1>4

LEMMA SyncKept == SyncInv /\ [SyncNext]_syncVars => SyncInv'
<1> SUFFICES ASSUME SyncInv, [SyncNext]_syncVars  PROVE SyncInv'
  OBVIOUS
<1>1. CASE UNCHANGED syncVars
  BY <1>1 DEF syncVars, SyncInv, SyncTypeOK, Knows, SweptOnlyIfStolen
<1>2. ASSUME NEW s \in Syncers,
             FetchFilms(s) \/ FetchFilmsFails(s) \/ SyncFails(s) \/ SyncSteps(s)
      PROVE  SyncInv'
  BY <1>2, SyncWorks, SyncEnds, SweepWorks DEF SyncSteps
<1> QED BY <1>1, <1>2, SyncChanges DEF SyncNext

\* media_cache's jobs keep their types.
THEOREM SyncTypes == SyncSpec => []SyncTypeOK
BY SyncStarts, SyncKept, PTL DEF SyncSpec, SyncInv

\* A sweep removes no poster of a film the *arr has had since the sweep's own fetch,
\* unless another sync deleted the film's row or Poster Renamerr's own sync failed.
THEOREM SweepsGoByRefreshedRows == SyncSpec => []SweptOnlyIfStolen
BY SyncStarts, SyncKept, PTL DEF SyncSpec, SyncInv

---------------------------------------------------------------------------
(* plex_media_cache and the link to it.                                    *)

Snapshots == [Keys -> [id : Nat, film : Movies \cup {NoMovie}]]
Plans     == UNION {[D -> Nat] : D \in SUBSET Movies}
Read      == [fresh : [Keys -> Movies \cup {NoMovie}], drop : SUBSET Keys,
              rows : Snapshots, plan : Plans]

\* Rows of a table as it is or was: a key without a row has no film, ids tell keys
\* apart, and none is greater than the greatest given.
Numbered(r) ==
  /\ \A k \in Keys : r[k] = NoRow \/ (r[k].id \in 1..lastId /\ r[k].film \in Movies)
  /\ \A k, q \in Keys : r[k] # NoRow /\ rows[q] # NoRow /\ r[k].id = rows[q].id => k = q

\* An item that was not rematched has had one film all along, wherever it is noted.
OneFilm(k) ==
  \E g \in Movies \cup {NoMovie} :
    /\ plex[k] \in {g, Gone} /\ rows[k].film \in {g, NoMovie}
    /\ \A j \in Jobs : mapHeld[j].fresh[k] \in {g, NoMovie}
                       /\ mapHeld[j].rows[k].film \in {g, NoMovie}

\* An id stands for a film's own item.
Right(f, id) == \A k \in Keys : rows[k] # NoRow /\ id = rows[k].id
                                  => rows[k].film = f \/ k \in rematched

MapInv ==
  /\ MapTypeOK /\ lastId \in Nat
  /\ mapHeld \in [Jobs -> Read]
  /\ Numbered(rows) /\ \A j \in Jobs : Numbered(mapHeld[j].rows)
  /\ \A k \in Keys : k \notin rematched => OneFilm(k)
  /\ MappingIsTrue
  /\ \A j \in Jobs : \A f \in DOMAIN mapHeld[j].plan :
       mapHeld[j].plan[f] \in 1..lastId /\ Right(f, mapHeld[j].plan[f])

LEMMA NothingIsRead == NothingRead \in Read /\ DOMAIN NothingRead.plan = {}
<1>1. NoRows \in Snapshots
  BY DEF NoRows, NoRow, Snapshots
<1>2. <<>> \in [{} -> Nat] /\ DOMAIN <<>> = {}
  OBVIOUS
<1>3. <<>> \in Plans
  BY <1>2 DEF Plans
<1> QED BY <1>1, <1>2, <1>3 DEF NothingRead, Read

LEMMA MapStarts == PlexMappingAssumption /\ MapInit => MapInv
<1> SUFFICES ASSUME PlexMappingAssumption, MapInit  PROVE MapInv
  OBVIOUS
<1>1. MapTypeOK /\ lastId \in Nat
  BY DEF PlexMappingAssumption, MapInit, MapTypeOK, NoRows, NoRow
<1>2. mapHeld \in [Jobs -> Read]
  BY NothingIsRead DEF MapInit
<1>3. \A j \in Jobs : mapHeld[j] = NothingRead
  BY DEF MapInit
<1>4. \A k \in Keys : rows[k] = NoRow
  BY DEF MapInit, NoRows
<1>5. \A j \in Jobs, k \in Keys : mapHeld[j].rows[k] = NoRow /\ mapHeld[j].fresh[k] = NoMovie
  BY <1>3 DEF NothingRead, NoRows
<1>6. Numbered(rows) /\ \A j \in Jobs : Numbered(mapHeld[j].rows)
  BY <1>4, <1>5 DEF Numbered
<1>7. ASSUME NEW k \in Keys  PROVE OneFilm(k)
  <2>1. plex[k] \in Movies \cup {NoMovie}
    BY DEF MapInit
  <2> QED BY <2>1, <1>4, <1>5 DEF OneFilm, NoRow
<1>8. MappingIsTrue
  BY <1>4 DEF MappingIsTrue
<1> QED BY <1>1, <1>2, <1>3, <1>6, <1>7, <1>8, NothingIsRead DEF MapInv

\* Plex's items change: what has been noted of one that keeps its film stays true.
LEMMA ItemsChangeKeeps ==
  ASSUME PlexMappingAssumption, MapInv, ItemsChange
  PROVE  MapInv'
<1>1. PICK k \in Keys, f \in Movies \cup {Gone} :
         /\ plex[k] \notin {Gone, f} /\ (f = Gone => plex[k] # NoMovie)
         /\ plex' = [plex EXCEPT ![k] = f]
         /\ rematched' = IF Gone # f /\ plex[k] # NoMovie THEN rematched \cup {k} ELSE rematched
  BY DEF ItemsChange
<1>2. UNCHANGED <<rows, lastId, mapping, mapAt, mapHeld>>
  BY DEF ItemsChange
<1>3. MapTypeOK'
  BY <1>1, <1>2 DEF MapInv, MapTypeOK
<1>4. ASSUME NEW q \in Keys, q \notin rematched'  PROVE OneFilm(q)'
  <2>1. OneFilm(q) /\ plex[q] \in Movies \cup {NoMovie, Gone}
    BY <1>1, <1>4 DEF MapInv, MapTypeOK
  <2>2. CASE q # k
    <3>1. plex'[q] = plex[q]
      BY <1>1, <2>2 DEF MapInv, MapTypeOK
    <3> QED BY <1>2, <2>1, <3>1 DEF OneFilm
  <2>3. CASE q = k
    <3>1. plex'[q] = f
      BY <1>1, <2>3 DEF MapInv, MapTypeOK
    <3>2. PICK g \in Movies \cup {NoMovie} :
            /\ plex[q] \in {g, Gone} /\ rows[q].film \in {g, NoMovie}
            /\ \A j \in Jobs : mapHeld[j].fresh[q] \in {g, NoMovie}
                               /\ mapHeld[j].rows[q].film \in {g, NoMovie}
      BY <2>1 DEF OneFilm
    <3>3. plex[q] = g
      BY <1>1, <2>3, <3>2
    <3>4. CASE f = Gone
      BY <1>2, <3>1, <3>2, <3>4 DEF OneFilm
    <3>5. CASE f # Gone
      <4>1. g = NoMovie
        BY <1>1, <1>4, <2>3, <3>3, <3>5
      <4>2. f \in Movies
        BY <3>5
      <4> QED BY <1>2, <3>1, <3>2, <4>1, <4>2 DEF OneFilm
    <3> QED BY <3>4, <3>5
  <2> QED BY <2>2, <2>3
<1>5. rematched \subseteq rematched'
  BY <1>1
<1>6. MappingIsTrue'
  BY <1>2, <1>5 DEF MapInv, MappingIsTrue
<1>7. Numbered(rows)' /\ \A j \in Jobs : Numbered(mapHeld[j].rows)'
  BY <1>2 DEF MapInv, Numbered
<1>8. \A j \in Jobs : \A m \in DOMAIN mapHeld'[j].plan :
        mapHeld'[j].plan[m] \in 1..lastId' /\ Right(m, mapHeld[j].plan[m])'
  BY <1>2, <1>5 DEF MapInv, Right
<1> QED BY <1>2, <1>3, <1>4, <1>6, <1>7, <1>8 DEF MapInv

\* A job that reads, plans or starts anew, and the tables as they are.
LEMMA HoldKeeps ==
  ASSUME MapInv, NEW j \in Jobs, NEW h \in Read,
         mapHeld' = [mapHeld EXCEPT ![j] = h],
         mapAt' \in [Jobs -> {"idle", "rows", "upsert", "delete", "valid", "match", "write"}],
         UNCHANGED <<plex, rows, lastId, mapping, rematched>>,
         Numbered(h.rows),
         \A k \in Keys : h.fresh[k] \in {NoMovie, mapHeld[j].fresh[k], plex[k]} \ {Gone},
         \A k \in Keys : h.rows[k].film \in {NoMovie, rows[k].film},
         \A f \in DOMAIN h.plan : h.plan[f] \in 1..lastId /\ Right(f, h.plan[f])
  PROVE  MapInv'
<1>1. MapTypeOK' /\ lastId' \in Nat /\ MappingIsTrue'
  BY DEF MapInv, MapTypeOK, MappingIsTrue
<1>2. mapHeld' \in [Jobs -> Read]
  BY DEF MapInv
<1>3. /\ mapHeld'[j] = h
      /\ \A i \in Jobs : i # j => mapHeld'[i] = mapHeld[i]
  BY DEF MapInv
<1>4. Numbered(rows)'
  BY DEF MapInv, Numbered
<1>5. ASSUME NEW i \in Jobs  PROVE Numbered(mapHeld[i].rows)'
  <2>1. CASE i = j
    BY <1>3, <2>1 DEF Numbered
  <2>2. CASE i # j
    BY <1>3, <2>2 DEF MapInv, Numbered
  <2> QED BY <2>1, <2>2
<1>6. ASSUME NEW k \in Keys, k \notin rematched'  PROVE OneFilm(k)'
  <2>1. PICK g \in Movies \cup {NoMovie} :
          /\ plex[k] \in {g, Gone} /\ rows[k].film \in {g, NoMovie}
          /\ \A i \in Jobs : mapHeld[i].fresh[k] \in {g, NoMovie}
                             /\ mapHeld[i].rows[k].film \in {g, NoMovie}
    BY <1>6 DEF MapInv, OneFilm
  <2>2. h.fresh[k] \in {g, NoMovie} /\ h.rows[k].film \in {g, NoMovie}
    BY <2>1
  <2>3. \A i \in Jobs : mapHeld'[i].fresh[k] \in {g, NoMovie}
                        /\ mapHeld'[i].rows[k].film \in {g, NoMovie}
    BY <1>3, <2>1, <2>2
  <2> QED BY <2>1, <2>3 DEF OneFilm
<1>7. ASSUME NEW i \in Jobs, NEW f \in DOMAIN mapHeld'[i].plan
      PROVE  mapHeld'[i].plan[f] \in 1..lastId' /\ Right(f, mapHeld[i].plan[f])'
  <2>1. mapHeld'[i].plan[f] \in 1..lastId /\ Right(f, mapHeld'[i].plan[f])
    BY <1>3, <1>7 DEF MapInv
  <2> QED BY <2>1 DEF Right
<1> QED BY <1>1, <1>2, <1>4, <1>5, <1>6, <1>7 DEF MapInv

LEMMA WalkerReads ==
  ASSUME PlexMappingAssumption, MapInv, NEW j \in Jobs,
         FetchItems(j) \/ FetchItemsFails(j) \/ ReadItemRows(j)
  PROVE  MapInv'
<1>1. mapHeld[j] \in Read /\ Numbered(mapHeld[j].rows)
  BY DEF MapInv
<1>2. Numbered(NothingRead.rows) /\ \A k \in Keys : NothingRead.rows[k].film = NoMovie
                                                    /\ NothingRead.fresh[k] = NoMovie
  BY DEF Numbered, NothingRead, NoRows, NoRow
<1>3. CASE FetchItems(j)
  <2> DEFINE h == [NothingRead EXCEPT !.fresh = Library]
  <2>1. Library \in [Keys -> Movies \cup {NoMovie}]
    BY DEF Library, MapInv, MapTypeOK
  <2>2. h \in Read /\ h.fresh = Library /\ h.rows = NothingRead.rows /\ h.plan = NothingRead.plan
    BY <2>1, NothingIsRead DEF Read
  <2>3. \A k \in Keys : Library[k] \in {NoMovie, mapHeld[j].fresh[k], plex[k]} \ {Gone}
    BY DEF Library, PlexMappingAssumption
  <2>4. /\ mapHeld' = [mapHeld EXCEPT ![j] = h]
        /\ mapAt' \in [Jobs -> {"idle", "rows", "upsert", "delete", "valid", "match", "write"}]
        /\ UNCHANGED <<plex, rows, lastId, mapping, rematched>>
    BY <1>3 DEF FetchItems, MapGoes, MapHold, MapInv, MapTypeOK
  <2>5. /\ Numbered(h.rows) /\ DOMAIN h.plan = {}
        /\ \A k \in Keys : h.rows[k].film \in {NoMovie, rows[k].film}
    BY <1>2, <2>2, NothingIsRead
  <2>6. \A k \in Keys : h.fresh[k] \in {NoMovie, mapHeld[j].fresh[k], plex[k]} \ {Gone}
    BY <2>2, <2>3
  <2>7. \A f \in DOMAIN h.plan : h.plan[f] \in 1..lastId /\ Right(f, h.plan[f])
    BY <2>5
  <2> HIDE DEF h
  <2> QED BY <2>2, <2>4, <2>5, <2>6, <2>7, HoldKeeps
<1>4. CASE FetchItemsFails(j)
  <2>1. /\ mapAt' \in [Jobs -> {"idle", "rows", "upsert", "delete", "valid", "match", "write"}]
        /\ UNCHANGED <<plex, rows, lastId, mapping, mapHeld, rematched>>
    BY <1>4 DEF FetchItemsFails, MapGoes, MapInv, MapTypeOK
  <2> QED BY <2>1 DEF MapInv, MapTypeOK, Numbered, OneFilm, MappingIsTrue, Right
<1>5. CASE ReadItemRows(j)
  <2>1. PICK drop \in SUBSET Keys : mapHeld' = [mapHeld EXCEPT ![j] = [mapHeld[j] EXCEPT !.drop = drop]]
    <3>1. {k \in Cached(rows) : mapHeld[j].fresh[k] = NoMovie} \in SUBSET Keys
      BY DEF Cached
    <3> QED BY <1>5, <3>1 DEF ReadItemRows, MapHold
  <2>2. /\ mapAt' \in [Jobs -> {"idle", "rows", "upsert", "delete", "valid", "match", "write"}]
        /\ UNCHANGED <<plex, rows, lastId, mapping, rematched>>
    BY <1>5 DEF ReadItemRows, MapGoes, MapInv, MapTypeOK
  <2>3. mapHeld' \in [Jobs -> Read]
    BY <1>1, <2>1 DEF MapInv, Read
  <2>4. \A i \in Jobs : /\ mapHeld'[i].fresh = mapHeld[i].fresh
                        /\ mapHeld'[i].rows = mapHeld[i].rows
                        /\ mapHeld'[i].plan = mapHeld[i].plan
    BY <1>1, <2>1 DEF MapInv, Read
  <2>5. MapTypeOK' /\ lastId' \in Nat /\ MappingIsTrue' /\ Numbered(rows)'
    BY <2>2 DEF MapInv, MapTypeOK, MappingIsTrue, Numbered
  <2>6. \A i \in Jobs : Numbered(mapHeld[i].rows)'
    BY <2>2, <2>4 DEF MapInv, Numbered
  <2>7. \A k \in Keys : k \notin rematched' => OneFilm(k)'
    BY <2>2, <2>4 DEF MapInv, OneFilm
  <2>8. \A i \in Jobs : \A f \in DOMAIN mapHeld'[i].plan :
          mapHeld'[i].plan[f] \in 1..lastId' /\ Right(f, mapHeld[i].plan[f])'
    BY <2>2, <2>4 DEF MapInv, Right
  <2> QED BY <2>3, <2>5, <2>6, <2>7, <2>8 DEF MapInv
<1> QED BY <1>3, <1>4, <1>5

\* Numbers of a finite set, counted from the least: greater ones have greater counts.
LEMMA CountsRise ==
  ASSUME NEW N, IsFiniteSet(N), N \subseteq Int
  PROVE  /\ Cardinality(N) \in Nat
         /\ \A k \in N : Cardinality({p \in N : p <= k}) \in 1..Cardinality(N)
         /\ \A k, q \in N : Cardinality({p \in N : p <= k}) = Cardinality({p \in N : p <= q})
                              => k = q
<1> DEFINE UpTo(k) == {p \in N : p <= k}
<1>1. \A k : UpTo(k) \in SUBSET N
  OBVIOUS
<1>2. ASSUME NEW k \in N
      PROVE  IsFiniteSet(UpTo(k)) /\ Cardinality(UpTo(k)) \in 1..Cardinality(N)
  <2>1. IsFiniteSet(UpTo(k)) /\ Cardinality(UpTo(k)) <= Cardinality(N)
    BY <1>1, FS_Subset
  <2>2. Cardinality(N) \in Nat /\ Cardinality(UpTo(k)) \in Nat
    BY <2>1, FS_CardinalityType
  <2>3. k \in UpTo(k)
    OBVIOUS
  <2>4. Cardinality(UpTo(k)) # 0
    BY <2>1, <2>3, FS_EmptySet
  <2> HIDE DEF UpTo
  <2> QED BY <2>1, <2>2, <2>4
<1>3. ASSUME NEW k \in N, NEW q \in N, Cardinality(UpTo(k)) = Cardinality(UpTo(q)), k < q
      PROVE  FALSE
  <2>1. UpTo(k) \in SUBSET UpTo(q)
    <3>1. \A p \in N : p <= k => p <= q
      BY <1>3
    <3> QED BY <3>1
  <2>2. UpTo(k) = UpTo(q)
    BY <1>2, <1>3, <2>1, FS_Subset
  <2>3. q \in UpTo(q) /\ q \notin UpTo(k)
    BY <1>3
  <2> QED BY <2>2, <2>3
<1>4. Cardinality(N) \in Nat
  BY FS_CardinalityType
<1>5. ASSUME NEW k \in N, NEW q \in N, Cardinality(UpTo(k)) = Cardinality(UpTo(q))
      PROVE  k = q
  <2>1. ~(k < q) /\ ~(q < k)
    BY <1>3, <1>5
  <2> QED BY <2>1
<1> QED BY <1>2, <1>4, <1>5

\* The ids of the rows a walk writes: those the keys have, and new ones.
LEMMA NewIds ==
  ASSUME PlexMappingAssumption, MapInv, NEW fresh
  PROVE  /\ Cardinality(NewKeys(fresh)) \in Nat
         /\ \A k \in Keys : rows[k] # NoRow => IdFor(k, fresh) = rows[k].id
         /\ \A k \in NewKeys(fresh) :
              IdFor(k, fresh) \in (lastId + 1)..(lastId + Cardinality(NewKeys(fresh)))
         /\ \A k, q \in NewKeys(fresh) : IdFor(k, fresh) = IdFor(q, fresh) => k = q
<1> DEFINE N == NewKeys(fresh)
           C(k) == Cardinality({p \in N : p <= k})
<1>1. N \in SUBSET Keys /\ \A k \in N : rows[k] = NoRow
  BY DEF NewKeys
<1>2. IsFiniteSet(N) /\ N \subseteq Int
  BY <1>1, FS_Subset DEF PlexMappingAssumption
<1>3. \A k \in N : IdFor(k, fresh) = lastId + C(k)
  BY <1>1 DEF IdFor
<1>4. \A k \in Keys : rows[k] # NoRow => IdFor(k, fresh) = rows[k].id
  BY DEF IdFor
<1> HIDE DEF N
<1>5. /\ Cardinality(N) \in Nat
      /\ \A k \in N : C(k) \in 1..Cardinality(N)
      /\ \A k, q \in N : C(k) = C(q) => k = q
  BY <1>2, CountsRise
<1>6. lastId \in Nat
  BY DEF MapInv
<1> HIDE DEF C
<1>7. \A k \in N : IdFor(k, fresh) \in (lastId + 1)..(lastId + Cardinality(N))
  BY <1>3, <1>5, <1>6
<1>8. ASSUME NEW k \in N, NEW q \in N, IdFor(k, fresh) = IdFor(q, fresh)
      PROVE  k = q
  <2>1. C(k) = C(q)
    BY <1>3, <1>5, <1>6, <1>8
  <2> QED BY <1>5, <2>1
<1> QED BY <1>4, <1>5, <1>7, <1>8 DEF N

\* A walk writes its rows: keys keep their ids and films, and new ids are new to
\* every mapping, plan and snapshot.
LEMMA UpsertKeeps ==
  ASSUME PlexMappingAssumption, MapInv, NEW j \in Jobs, UpsertChunk(j)
  PROVE  MapInv'
<1> DEFINE fresh == mapHeld[j].fresh
           c     == Cardinality(NewKeys(fresh))
<1>1. /\ fresh \in [Keys -> Movies \cup {NoMovie}] /\ lastId \in Nat
      /\ rows \in [Keys -> [id : 0..lastId, film : Movies \cup {NoMovie}]]
  BY DEF MapInv, MapTypeOK, Read
<1>2. /\ c \in Nat
      /\ \A k \in Keys : rows[k] # NoRow => IdFor(k, fresh) = rows[k].id
      /\ \A k \in NewKeys(fresh) : IdFor(k, fresh) \in (lastId + 1)..(lastId + c)
      /\ \A k, q \in NewKeys(fresh) : IdFor(k, fresh) = IdFor(q, fresh) => k = q
  BY NewIds
<1>3. /\ rows' = [k \in Keys |-> IF fresh[k] = NoMovie THEN rows[k]
                                 ELSE [id |-> IdFor(k, fresh), film |-> fresh[k]]]
      /\ lastId' = lastId + c
      /\ mapAt' = [mapAt EXCEPT ![j] = "delete"]
      /\ UNCHANGED <<plex, mapping, mapHeld, mapChanges, mapFaults, rematched>>
  BY DEF UpsertChunk, MapGoes
<1> HIDE DEF c, fresh
<1>4. lastId' \in Nat /\ 0..lastId \subseteq 0..lastId' /\ 1..lastId \subseteq 1..lastId'
  BY <1>1, <1>2, <1>3
\* The three kinds of rows there are afterwards.
<1>5. ASSUME NEW k \in Keys
      PROVE  \/ rows'[k] = rows[k]
             \/ /\ rows[k] # NoRow /\ rows'[k].id = rows[k].id /\ rows'[k].film = fresh[k]
                /\ rows'[k] \in [id : {rows[k].id}, film : Movies] /\ fresh[k] \in Movies
             \/ /\ rows[k] = NoRow /\ k \in NewKeys(fresh) /\ rows'[k].film = fresh[k]
                /\ rows'[k].id = IdFor(k, fresh)
                /\ rows'[k] \in [id : {IdFor(k, fresh)}, film : Movies] /\ fresh[k] \in Movies
  <2>1. CASE fresh[k] = NoMovie
    BY <1>3, <2>1
  <2>2. CASE fresh[k] # NoMovie
    <3>1. fresh[k] \in Movies /\ rows'[k] = [id |-> IdFor(k, fresh), film |-> fresh[k]]
      BY <1>1, <1>3, <2>2
    <3>2. rows[k] = NoRow => k \in NewKeys(fresh)
      BY <2>2 DEF NewKeys
    <3> QED BY <1>2, <3>1, <3>2
  <2> QED BY <2>1, <2>2
<1>6. ASSUME NEW k \in Keys
      PROVE  rows'[k] \in [id : 0..lastId', film : Movies \cup {NoMovie}]
  <2>1. rows[k] \in [id : 0..lastId', film : Movies \cup {NoMovie}]
    BY <1>1, <1>4
  <2>2. \A q \in NewKeys(fresh) : IdFor(q, fresh) \in 0..lastId'
    BY <1>1, <1>2, <1>3
  <2>3. rows[k].id \in 0..lastId'
    BY <2>1
  <2> QED BY <1>5, <2>1, <2>2, <2>3
<1>7. MapTypeOK'
  <2>1. rows' \in [Keys -> [id : 0..lastId', film : Movies \cup {NoMovie}]]
    BY <1>3, <1>6
  <2>2. mapping' \in [Movies -> 0..lastId']
    BY <1>3, <1>4 DEF MapInv, MapTypeOK
  <2> QED BY <1>3, <2>1, <2>2 DEF MapInv, MapTypeOK
\* A snapshot, or the table itself, and the rows after the write.
<1>8. ASSUME NEW r, Numbered(r), NEW k \in Keys, NEW q \in Keys,
             r[k] # NoRow, rows'[q] # NoRow, r[k].id = rows'[q].id
      PROVE  k = q
  <2>1. r[k].id \in 1..lastId
    BY <1>8 DEF Numbered
  <2>2. CASE rows[q] # NoRow
    <3>1. rows'[q].id = rows[q].id
      BY <1>5, <2>2
    <3> QED BY <1>8, <2>2, <3>1 DEF Numbered
  <2>3. CASE rows[q] = NoRow
    <3>1. q \in NewKeys(fresh) /\ rows'[q].id = IdFor(q, fresh)
      BY <1>5, <1>8, <2>3
    <3> QED BY <1>1, <1>2, <1>8, <2>1, <3>1
  <2> QED BY <2>2, <2>3
<1>9. \A i \in Jobs : Numbered(mapHeld[i].rows)'
  BY <1>3, <1>4, <1>8 DEF MapInv, Numbered
<1>10. Numbered(rows)'
  <2>1. ASSUME NEW k \in Keys
        PROVE  rows'[k] = NoRow \/ (rows'[k].id \in 1..lastId' /\ rows'[k].film \in Movies)
    <3>1. rows[k] = NoRow \/ (rows[k].id \in 1..lastId' /\ rows[k].film \in Movies)
      BY <1>4 DEF MapInv, Numbered
    <3>2. \A q \in NewKeys(fresh) : IdFor(q, fresh) \in 1..lastId'
      BY <1>1, <1>2, <1>3
    <3> QED BY <1>5, <3>1, <3>2
  <2>2. ASSUME NEW k \in Keys, NEW q \in Keys, rows'[k] # NoRow, rows'[q] # NoRow,
               rows'[k].id = rows'[q].id
        PROVE  k = q
    <3>1. CASE rows[k] # NoRow
      <4>1. rows[k].id = rows'[q].id
        BY <1>5, <2>2, <3>1
      <4> QED BY <1>8, <2>2, <3>1, <4>1 DEF MapInv
    <3>2. CASE rows[q] # NoRow
      <4>1. rows[q].id = rows'[k].id
        BY <1>5, <2>2, <3>2
      <4> QED BY <1>8, <2>2, <3>2, <4>1 DEF MapInv
    <3>3. CASE rows[k] = NoRow /\ rows[q] = NoRow
      BY <1>2, <1>5, <2>2, <3>3
    <3> QED BY <3>1, <3>2, <3>3
  <2> QED BY <2>1, <2>2 DEF Numbered
<1>11. ASSUME NEW k \in Keys, k \notin rematched'  PROVE OneFilm(k)'
  <2>1. PICK g \in Movies \cup {NoMovie} :
          /\ plex[k] \in {g, Gone} /\ rows[k].film \in {g, NoMovie}
          /\ \A i \in Jobs : mapHeld[i].fresh[k] \in {g, NoMovie}
                             /\ mapHeld[i].rows[k].film \in {g, NoMovie}
    BY <1>3, <1>11 DEF MapInv, OneFilm
  <2>2. rows'[k].film \in {g, NoMovie}
    BY <1>5, <2>1 DEF fresh
  <2> QED BY <1>3, <2>1, <2>2 DEF OneFilm
\* What stood for a film's own item still does.
<1>12. ASSUME NEW f \in Movies, NEW id \in 0..lastId, Right(f, id)
       PROVE  Right(f, id)'
  <2> SUFFICES ASSUME NEW k \in Keys, rows'[k] # NoRow, id = rows'[k].id, k \notin rematched
               PROVE  rows'[k].film = f
    BY <1>3 DEF Right
  <2>1. k \notin NewKeys(fresh) \/ rows[k] # NoRow
    BY <1>1, <1>2, <1>5
  <2>2. rows[k] # NoRow /\ id = rows[k].id
    BY <1>5, <2>1
  <2>3. rows[k].film = f
    BY <1>12, <2>2 DEF Right
  <2>4. rows'[k].film = rows[k].film
    <3>1. PICK g \in Movies \cup {NoMovie} :
            rows[k].film \in {g, NoMovie} /\ fresh[k] \in {g, NoMovie}
      BY DEF MapInv, OneFilm, fresh
    <3>2. rows[k].film \in Movies
      BY <2>2 DEF MapInv, Numbered
    <3> QED BY <1>5, <2>2, <3>1, <3>2 DEF PlexMappingAssumption
  <2> QED BY <2>3, <2>4
<1>13. MappingIsTrue'
  <2>1. \A f \in Movies : mapping[f] \in 0..lastId /\ Right(f, mapping[f])
    BY DEF MapInv, MapTypeOK, MappingIsTrue, Right
  <2>2. \A f \in Movies : Right(f, mapping[f])'
    <3>1. ASSUME NEW f \in Movies  PROVE Right(f, mapping[f])'
      <4>1. \A k \in Keys : rows'[k] # NoRow /\ mapping[f] = rows'[k].id
                              => rows'[k].film = f \/ k \in rematched'
        BY <1>12, <2>1 DEF Right
      <4> QED BY <1>3, <4>1 DEF Right
    <3> QED BY <3>1
  <2> QED BY <2>2 DEF MappingIsTrue, Right
<1>14. ASSUME NEW i \in Jobs, NEW f \in DOMAIN mapHeld'[i].plan
       PROVE  mapHeld'[i].plan[f] \in 1..lastId' /\ Right(f, mapHeld[i].plan[f])'
  <2>1. mapHeld'[i].plan[f] \in 1..lastId /\ Right(f, mapHeld[i].plan[f]) /\ f \in Movies
    BY <1>3, <1>14 DEF MapInv, Read, Plans
  <2>2. \A k \in Keys : rows'[k] # NoRow /\ mapHeld[i].plan[f] = rows'[k].id
                          => rows'[k].film = f \/ k \in rematched'
    BY <1>1, <1>3, <1>12, <2>1 DEF Right
  <2> QED BY <1>3, <1>4, <2>1, <2>2 DEF Right
<1>15. mapHeld' \in [Jobs -> Read]
  BY <1>3 DEF MapInv
<1> QED BY <1>4, <1>7, <1>9, <1>10, <1>11, <1>13, <1>14, <1>15 DEF MapInv

\* A walk removes rows: there is less to be wrong.
LEMMA DeleteKeeps ==
  ASSUME PlexMappingAssumption, MapInv, NEW j \in Jobs, DeleteChunk(j)
  PROVE  MapInv'
<1>1. /\ \A k \in Keys : rows'[k] \in {rows[k], NoRow}
      /\ rows' \in [Keys -> [id : 0..lastId, film : Movies \cup {NoMovie}]]
      /\ UNCHANGED <<plex, lastId, mapping, rematched>>
      /\ mapHeld' = [mapHeld EXCEPT ![j] = NothingRead]
      /\ mapAt' \in [Jobs -> {"idle", "rows", "upsert", "delete", "valid", "match", "write"}]
  BY DEF DeleteChunk, MapGoes, MapHold, MapInv, MapTypeOK, NoRow
<1>2. MapTypeOK' /\ lastId' \in Nat
  BY <1>1 DEF MapInv, MapTypeOK
<1>3. /\ mapHeld' \in [Jobs -> Read] /\ mapHeld'[j] = NothingRead
      /\ \A i \in Jobs : i # j => mapHeld'[i] = mapHeld[i]
  BY <1>1, NothingIsRead DEF MapInv
<1>4. /\ \A k \in Keys : NothingRead.rows[k] = NoRow /\ NoRow.film = NoMovie
                         /\ NothingRead.fresh[k] = NoMovie
      /\ DOMAIN NothingRead.plan = {}
  BY NothingIsRead DEF NothingRead, NoRows, NoRow
<1>5. Numbered(rows)'
  BY <1>1 DEF MapInv, Numbered
<1>6. ASSUME NEW i \in Jobs  PROVE Numbered(mapHeld[i].rows)'
  <2>1. CASE i = j
    BY <1>3, <1>4, <2>1 DEF Numbered
  <2>2. CASE i # j
    <3>1. Numbered(mapHeld[i].rows)
      BY DEF MapInv
    <3> QED BY <1>1, <1>3, <2>2, <3>1 DEF Numbered
  <2> QED BY <2>1, <2>2
<1>7. ASSUME NEW k \in Keys, k \notin rematched'  PROVE OneFilm(k)'
  <2>1. PICK g \in Movies \cup {NoMovie} :
          /\ plex[k] \in {g, Gone} /\ rows[k].film \in {g, NoMovie}
          /\ \A i \in Jobs : mapHeld[i].fresh[k] \in {g, NoMovie}
                             /\ mapHeld[i].rows[k].film \in {g, NoMovie}
    BY <1>1, <1>7 DEF MapInv, OneFilm
  <2>2. rows'[k].film \in {g, NoMovie}
    BY <1>1, <1>4, <2>1
  <2>3. \A i \in Jobs : mapHeld'[i].fresh[k] \in {g, NoMovie}
                        /\ mapHeld'[i].rows[k].film \in {g, NoMovie}
    BY <1>3, <1>4, <2>1
  <2> QED BY <1>1, <2>1, <2>2, <2>3 DEF OneFilm
<1>8. MappingIsTrue'
  BY <1>1 DEF MapInv, MappingIsTrue
<1>9. ASSUME NEW i \in Jobs, NEW f \in DOMAIN mapHeld'[i].plan
      PROVE  mapHeld'[i].plan[f] \in 1..lastId' /\ Right(f, mapHeld[i].plan[f])'
  <2>1. i # j /\ mapHeld'[i] = mapHeld[i]
    BY <1>3, <1>4, <1>9
  <2>2. mapHeld[i].plan[f] \in 1..lastId /\ Right(f, mapHeld[i].plan[f])
    BY <1>9, <2>1 DEF MapInv
  <2> QED BY <1>1, <2>1, <2>2 DEF Right
<1> QED BY <1>2, <1>3, <1>5, <1>6, <1>7, <1>8, <1>9 DEF MapInv

\* The mapping's own reads: the rows, then each film's match among them.
LEMMA MapperReads ==
  ASSUME PlexMappingAssumption, MapInv, NEW j \in Jobs, ReadPlexRows(j) \/ Match(j)
  PROVE  MapInv'
<1>1. /\ DOMAIN NothingRead.plan = {} /\ NothingRead \in Read /\ Numbered(NothingRead.rows)
      /\ \A k \in Keys : NothingRead.rows[k].film = NoMovie /\ NothingRead.fresh[k] = NoMovie
  BY NothingIsRead DEF NothingRead, NoRows, NoRow, Numbered
<1>2. CASE ReadPlexRows(j)
  <2> DEFINE h == [NothingRead EXCEPT !.rows = rows]
  <2>1. rows \in Snapshots
    BY DEF MapInv, MapTypeOK, Snapshots
  <2>2. h \in Read /\ h.rows = rows /\ h.fresh = NothingRead.fresh /\ h.plan = NothingRead.plan
    BY <1>1, <2>1 DEF Read
  <2>3. /\ mapHeld' = [mapHeld EXCEPT ![j] = h]
        /\ mapAt' \in [Jobs -> {"idle", "rows", "upsert", "delete", "valid", "match", "write"}]
        /\ UNCHANGED <<plex, rows, lastId, mapping, rematched>>
    BY <1>2 DEF ReadPlexRows, MapGoes, MapHold, MapInv, MapTypeOK
  <2>4. /\ Numbered(h.rows) /\ DOMAIN h.plan = {}
        /\ \A k \in Keys : h.rows[k].film \in {NoMovie, rows[k].film}
        /\ \A k \in Keys : h.fresh[k] \in {NoMovie, mapHeld[j].fresh[k], plex[k]} \ {Gone}
    BY <1>1, <2>2 DEF MapInv, PlexMappingAssumption
  <2>5. \A f \in DOMAIN h.plan : h.plan[f] \in 1..lastId /\ Right(f, h.plan[f])
    BY <2>4
  <2> HIDE DEF h
  <2> QED BY <2>2, <2>3, <2>4, <2>5, HoldKeeps
<1>3. CASE Match(j)
  <2> DEFINE r        == mapHeld[j].rows
             Found(f) == {r[k].id : k \in {q \in Cached(r) : r[q].film = f}}
  <2>1. PICK chosen \in [{f \in Movies : NeedsMapping(f, r) /\ Found(f) # {}} -> IdsOf(r)] :
          /\ \A f \in DOMAIN chosen : chosen[f] \in Found(f)
          /\ MapHold(j, [NothingRead EXCEPT !.plan = chosen])
    BY <1>3 DEF Match
  <2> DEFINE h == [NothingRead EXCEPT !.plan = chosen]
  <2>2. Numbered(r) /\ r \in Snapshots
    BY DEF MapInv, Read
  <2>3. IdsOf(r) \in SUBSET Nat
    BY <2>2 DEF IdsOf, Cached, Snapshots
  <2>4. chosen \in Plans
    <3>1. DOMAIN chosen \in SUBSET Movies /\ chosen \in [DOMAIN chosen -> Nat]
      BY <2>1, <2>3
    <3> QED BY <3>1 DEF Plans
  <2>5. h \in Read /\ h.rows = NothingRead.rows /\ h.fresh = NothingRead.fresh /\ h.plan = chosen
    BY <1>1, <2>4 DEF Read
  <2>6. /\ mapHeld' = [mapHeld EXCEPT ![j] = h]
        /\ mapAt' \in [Jobs -> {"idle", "rows", "upsert", "delete", "valid", "match", "write"}]
        /\ UNCHANGED <<plex, rows, lastId, mapping, rematched>>
    BY <1>3, <2>1 DEF Match, MapGoes, MapHold, MapInv, MapTypeOK
  <2>7. /\ Numbered(h.rows)
        /\ \A k \in Keys : h.rows[k].film \in {NoMovie, rows[k].film}
        /\ \A k \in Keys : h.fresh[k] \in {NoMovie, mapHeld[j].fresh[k], plex[k]} \ {Gone}
    BY <1>1, <2>5 DEF PlexMappingAssumption
  <2>8. ASSUME NEW f \in DOMAIN h.plan
        PROVE  h.plan[f] \in 1..lastId /\ Right(f, h.plan[f])
    <3>1. f \in Movies /\ chosen[f] \in Found(f)
      BY <2>1, <2>5, <2>8
    <3>2. PICK q \in Keys : r[q] # NoRow /\ r[q].film = f /\ chosen[f] = r[q].id
      BY <3>1 DEF Cached
    <3>3. chosen[f] \in 1..lastId
      BY <2>2, <3>2 DEF Numbered
    <3>4. ASSUME NEW k \in Keys, rows[k] # NoRow, chosen[f] = rows[k].id, k \notin rematched
          PROVE  rows[k].film = f
      <4>1. k = q
        BY <2>2, <3>2, <3>4 DEF Numbered
      <4>2. PICK g \in Movies \cup {NoMovie} :
              rows[k].film \in {g, NoMovie} /\ r[k].film \in {g, NoMovie}
        BY <3>4 DEF MapInv, OneFilm
      <4>3. rows[k].film \in Movies
        BY <3>4 DEF MapInv, Numbered
      <4> QED BY <3>1, <3>2, <4>1, <4>2, <4>3 DEF PlexMappingAssumption
    <3> QED BY <2>5, <3>3, <3>4 DEF Right
  <2> HIDE DEF h, r, Found
  <2> QED BY <2>5, <2>6, <2>7, <2>8, HoldKeeps
<1> QED BY <1>2, <1>3

\* The planned links are written, or are lost with the job.
LEMMA WriteKeeps ==
  ASSUME PlexMappingAssumption, MapInv, NEW j \in Jobs, WriteMappings(j) \/ Dies(j)
  PROVE  MapInv'
<1>1. /\ DOMAIN NothingRead.plan = {} /\ NothingRead \in Read /\ Numbered(NothingRead.rows)
      /\ \A k \in Keys : NothingRead.rows[k].film = NoMovie /\ NothingRead.fresh[k] = NoMovie
  BY NothingIsRead DEF NothingRead, NoRows, NoRow, Numbered
<1>2. /\ mapHeld' = [mapHeld EXCEPT ![j] = NothingRead]
      /\ mapAt' \in [Jobs -> {"idle", "rows", "upsert", "delete", "valid", "match", "write"}]
      /\ UNCHANGED <<plex, rows, lastId, rematched>>
  BY DEF WriteMappings, Dies, MapGoes, MapHold, MapInv, MapTypeOK
<1>3. CASE Dies(j)
  <2>1. UNCHANGED mapping
    BY <1>3 DEF Dies
  <2>2. /\ \A k \in Keys : NothingRead.fresh[k] \in {NoMovie, mapHeld[j].fresh[k], plex[k]} \ {Gone}
        /\ \A k \in Keys : NothingRead.rows[k].film \in {NoMovie, rows[k].film}
        /\ \A f \in DOMAIN NothingRead.plan :
             NothingRead.plan[f] \in 1..lastId /\ Right(f, NothingRead.plan[f])
    BY <1>1 DEF PlexMappingAssumption
  <2> QED BY <1>1, <1>2, <2>1, <2>2, HoldKeeps
<1>4. CASE WriteMappings(j)
  <2>1. mapping' = [f \in Movies |-> IF f \in DOMAIN mapHeld[j].plan THEN mapHeld[j].plan[f]
                                                                    ELSE mapping[f]]
    BY <1>4 DEF WriteMappings
  <2>2. \A f \in Movies : mapping'[f] \in 0..lastId /\ Right(f, mapping'[f])
    <3>1. ASSUME NEW f \in Movies  PROVE mapping'[f] \in 0..lastId /\ Right(f, mapping'[f])
      <4>1. CASE f \in DOMAIN mapHeld[j].plan
        BY <2>1, <4>1 DEF MapInv
      <4>2. CASE f \notin DOMAIN mapHeld[j].plan
        BY <2>1, <4>2 DEF MapInv, MapTypeOK, MappingIsTrue, Right
      <4> QED BY <4>1, <4>2
    <3> QED BY <3>1
  <2>3. MapTypeOK' /\ lastId' \in Nat
    BY <1>2, <2>1, <2>2 DEF MapInv, MapTypeOK
  <2>4. MappingIsTrue'
    BY <1>2, <2>2 DEF MappingIsTrue, Right
  <2>5. /\ mapHeld' \in [Jobs -> Read] /\ mapHeld'[j] = NothingRead
        /\ \A i \in Jobs : i # j => mapHeld'[i] = mapHeld[i]
    BY <1>1, <1>2 DEF MapInv
  <2>6. Numbered(rows)'
    BY <1>2 DEF MapInv, Numbered
  <2>7. ASSUME NEW i \in Jobs  PROVE Numbered(mapHeld[i].rows)'
    <3>1. mapHeld'[i].rows \in {NothingRead.rows, mapHeld[i].rows}
      BY <2>5
    <3>2. Numbered(mapHeld'[i].rows)
      BY <1>1, <3>1 DEF MapInv
    <3> QED BY <1>2, <3>2 DEF Numbered
  <2>8. ASSUME NEW k \in Keys, k \notin rematched'  PROVE OneFilm(k)'
    <3>1. PICK g \in Movies \cup {NoMovie} :
            /\ plex[k] \in {g, Gone} /\ rows[k].film \in {g, NoMovie}
            /\ \A i \in Jobs : mapHeld[i].fresh[k] \in {g, NoMovie}
                               /\ mapHeld[i].rows[k].film \in {g, NoMovie}
      BY <1>2, <2>8 DEF MapInv, OneFilm
    <3>2. \A i \in Jobs : mapHeld'[i].fresh[k] \in {g, NoMovie}
                          /\ mapHeld'[i].rows[k].film \in {g, NoMovie}
      BY <1>1, <2>5, <3>1
    <3> QED BY <1>2, <3>1, <3>2 DEF OneFilm
  <2>9. ASSUME NEW i \in Jobs, NEW f \in DOMAIN mapHeld'[i].plan
        PROVE  mapHeld'[i].plan[f] \in 1..lastId' /\ Right(f, mapHeld[i].plan[f])'
    <3>1. i # j /\ mapHeld'[i] = mapHeld[i]
      BY <1>1, <2>5, <2>9
    <3>2. mapHeld[i].plan[f] \in 1..lastId /\ Right(f, mapHeld[i].plan[f])
      BY <2>9, <3>1 DEF MapInv
    <3> QED BY <1>2, <3>1, <3>2 DEF Right
  <2> QED BY <2>3, <2>4, <2>5, <2>6, <2>7, <2>8, <2>9 DEF MapInv
<1> QED BY <1>3, <1>4

LEMMA MapInvHolds == PlexMappingAssumption /\ MapSpec => []MapInv
<1> SUFFICES ASSUME PlexMappingAssumption  PROVE MapSpec => []MapInv
  OBVIOUS
<1>1. MapInit => MapInv
  BY MapStarts
<1>2. MapInv /\ [MapNext]_mapVars => MapInv'
  <2> SUFFICES ASSUME MapInv, [MapNext]_mapVars  PROVE MapInv'
    OBVIOUS
  <2>1. CASE ItemsChange
    BY <2>1, ItemsChangeKeeps
  <2>2. ASSUME NEW j \in Jobs, FetchItems(j) \/ FetchItemsFails(j) \/ JobSteps(j) \/ Dies(j)
        PROVE  MapInv'
    BY <2>2, WalkerReads, UpsertKeeps, DeleteKeeps, MapperReads, WriteKeeps DEF JobSteps
  <2>3. CASE UNCHANGED mapVars
    BY <2>3 DEF mapVars, MapInv, MapTypeOK, Numbered, OneFilm, MappingIsTrue, Right
  <2> QED BY <2>1, <2>2, <2>3 DEF MapNext
<1> QED BY <1>1, <1>2, PTL DEF MapSpec

\* The cached items, their links and the walks' steps stay of their types: no row
\* and no link has an id that was never given.
THEOREM MapTypes == PlexMappingAssumption /\ MapSpec => []MapTypeOK
<1>1. MapInv => MapTypeOK
  BY DEF MapInv
<1> QED BY <1>1, MapInvHolds, PTL

\* The link a mapping run writes is to an item of its own film, however many walks
\* and runs overlap: a key's id is its alone for good, since no id is given twice.
THEOREM LinksAreTrue == PlexMappingAssumption /\ MapSpec => []MappingIsTrue
<1>1. MapInv => MappingIsTrue
  BY DEF MapInv
<1> QED BY <1>1, MapInvHolds, PTL

\* Both caches at once: sweeps lose no poster they were not told to lose, and links
\* lead to the film they are of.
THEOREM CachesStayTrue == PlexMappingAssumption /\ CachesSpec => []CachesAreTrue
<1>1. SweptOnlyIfStolen /\ MappingIsTrue => CachesAreTrue
  BY DEF CachesAreTrue
<1> QED BY <1>1, SweepsGoByRefreshedRows, LinksAreTrue, PTL DEF CachesSpec

---------------------------------------------------------------------------
(* poster_cache, the posters and their reviews.                            *)

Busy  == {"check", "list", "move", "local", "propose", "applied", "failed", "mark", "drop"}
AtNow == Busy \cup {"idle", "drive", "prune", "next"}

\* The drifted posters still on the Drive that the maker has not written anew.
Old == (Drifted \cap drive) \ made

\* Such a poster is known by its path if it is there locally and by its bare name if
\* it is not, unless a rescan hid it.
Sound(k) ==
  k.name \in Old =>
    \/ k.local <=> k.name \in local
    \/ ~k.local /\ gap

KeysAreSound ==
  /\ \A a \in Actors : healAt[a] \in Busy => key[a].name \in Drifted /\ Sound(key[a])
  /\ \A k \in ReviewKeys : review[k] # "none" => k.name \in Drifted /\ Sound(k)
  /\ \A k \in todo : Sound(k)

\* What the rows of poster_cache miss or have too much is no longer on the Drive or
\* written anew.
CacheIsSound ==
  /\ saving \subseteq made
  /\ \A n \in Old : /\ n \in cached => n \in local
                    /\ n \in local /\ ~rescanning => n \in cached
  /\ healAt["run"] = "drive" =>
       \A n \in Old : n \in local => On(n, TRUE) \in todo \/ gap

\* The new name is free when a rename begins, but for who was given it since, and the
\* old one gone or written anew when the rename is done.
MovesAreSound ==
  \A a \in Actors :
    /\ Moving(a) => Wanted(a) \notin drive \/ a \in raced
    /\ healAt[a] \in {"local", "applied", "drop"} => key[a].name \notin Old

\* The run has seen what was dismissed before it turned to the poster.
RunSees ==
  LET n == key["run"].name IN
  /\ healAt["run"] = "check" /\ n \in settled \cap Old =>
       review[key["run"]] = "dismissed" \/ gap
  /\ healAt["run"] \in {"list", "move"} /\ n \in settled \cap Old => gap

HealInv ==
  /\ HealTypeOK /\ KeysAreSound /\ CacheIsSound /\ MovesAreSound /\ RunSees
  /\ NothingOverwritten /\ DismissalsHold

LEMMA HealStarts == PosterSelfHealAssumption /\ HealInit => HealInv
<1> SUFFICES ASSUME PosterSelfHealAssumption, HealInit  PROVE HealInv
  OBVIOUS
<1>1. NoKey \in ReviewKeys
  BY DEF PosterSelfHealAssumption, NoKey, ReviewKeys
<1>2. HealTypeOK
  <2>1. drive \subseteq Names /\ local \subseteq Names /\ cached \subseteq Names
    BY DEF PosterSelfHealAssumption, HealInit
  <2>2. /\ review \in [ReviewKeys -> {"none", "proposed", "applied", "failed", "dismissed"}]
        /\ healAt \in [Actors -> {"idle"}] /\ key \in [Actors -> ReviewKeys]
        /\ todo = {} /\ snapshot = {}
    BY <1>1 DEF HealInit
  <2>3. /\ {rescanning, gap, overwrote} \subseteq BOOLEAN /\ rowGone = {} /\ raced = {}
        /\ saving = {} /\ settled = {} /\ defied = {} /\ kept = {} /\ made = {}
    BY DEF HealInit
  <2>4. dismissals \in 0..MaxDismissals /\ saves \in 0..MaxSaves /\ healFaults \in 0..MaxHealFaults
    BY DEF PosterSelfHealAssumption, HealInit
  <2> QED BY <2>1, <2>2, <2>3, <2>4 DEF HealTypeOK
<1>3. /\ \A a \in Actors : healAt[a] = "idle"
      /\ \A k \in ReviewKeys : review[k] = "none"
      /\ todo = {} /\ cached = local /\ saving = {} /\ ~overwrote /\ defied = {}
  BY DEF HealInit
<1>4. KeysAreSound
  BY <1>3 DEF KeysAreSound, Busy
<1>5. CacheIsSound /\ MovesAreSound /\ RunSees
  BY <1>3 DEF CacheIsSound, MovesAreSound, Moving, RunSees, Actors
<1> QED BY <1>2, <1>3, <1>4, <1>5 DEF HealInv, NothingOverwritten, DismissalsHold

\* Scans fill the run's list by what is cached and what the Drive has.
LEMMA ScanLocalKeeps ==
  ASSUME PosterSelfHealAssumption, HealInv, ScanLocal
  PROVE  HealInv'
<1>1. /\ healAt["run"] = "idle" /\ healAt' = [healAt EXCEPT !["run"] = "drive"] /\ key' = key
      /\ gap' = (gap \/ rescanning)
      /\ UNCHANGED <<drive, local, cached, rescanning, saving, review, rowGone, snapshot,
                     dismissals, saves, healFaults, settled, raced, overwrote, defied, kept, made>>
  BY DEF ScanLocal, Step, HealGoes, files, cacheRows, counts
<1>2. PICK found \in (IF rescanning THEN SUBSET local ELSE {cached}) :
        todo' = {On(n, TRUE) : n \in found}
  BY DEF ScanLocal
<1>3. found \subseteq Names /\ \A n \in found : n \in Old => n \in local
  <2>1. local \subseteq Names /\ cached \subseteq Names
    BY DEF HealInv, HealTypeOK
  <2>2. found \subseteq local \/ found = cached
    BY <1>2
  <2>3. \A n \in Old : n \in cached => n \in local
    BY DEF HealInv, CacheIsSound
  <2> QED BY <2>1, <2>2, <2>3
<1>4. \A n \in Names : On(n, TRUE) \in ReviewKeys /\ On(n, TRUE).name = n /\ On(n, TRUE).local
  BY DEF On, ReviewKeys
<1>5. /\ \A k \in todo' : k \in ReviewKeys /\ k.local /\ k.name \in found
      /\ \A n \in found : On(n, TRUE) \in todo'
  BY <1>2, <1>3, <1>4
<1>6. HealTypeOK'
  <2>1. gap \in BOOLEAN /\ rescanning \in BOOLEAN
    BY DEF HealInv, HealTypeOK
  <2>2. gap' \in BOOLEAN
    BY <1>1, <2>1
  <2> QED BY <1>1, <1>5, <2>2 DEF HealInv, HealTypeOK, Actors
<1>7. KeysAreSound'
  <2>1. \A k \in todo' : Sound(k)'
    BY <1>1, <1>3, <1>5 DEF Sound, Old
  <2>2. \A k : Sound(k) => Sound(k)'
    BY <1>1 DEF Sound, Old
  <2>3. \A a \in Actors : healAt'[a] \in Busy => healAt[a] \in Busy
    BY <1>1 DEF HealInv, HealTypeOK, Busy
  <2> QED BY <1>1, <2>1, <2>2, <2>3 DEF HealInv, KeysAreSound
<1>8. CacheIsSound'
  <2>1. ASSUME NEW n \in Old, n \in local', ~gap'
        PROVE  On(n, TRUE) \in todo'
    BY <1>1, <1>2, <1>5, <2>1 DEF HealInv, CacheIsSound
  <2>2. Old' = Old
    BY <1>1 DEF Old
  <2> QED BY <1>1, <2>1, <2>2 DEF HealInv, CacheIsSound
<1>9. MovesAreSound' /\ RunSees'
  BY <1>1 DEF HealInv, HealTypeOK, MovesAreSound, Moving, Wanted, Old, RunSees, Actors
<1> QED BY <1>1, <1>6, <1>7, <1>8, <1>9 DEF HealInv, NothingOverwritten, DismissalsHold

LEMMA ScanDriveKeeps ==
  ASSUME PosterSelfHealAssumption, HealInv, ScanDrive
  PROVE  HealInv'
<1>1. /\ healAt["run"] = "drive" /\ healAt' = [healAt EXCEPT !["run"] = "prune"] /\ key' = key
      /\ UNCHANGED <<drive, local, cached, rescanning, saving, review, rowGone, snapshot,
                     dismissals, saves, healFaults, settled, raced, overwrote, defied, gap,
                     kept, made>>
  BY DEF ScanDrive, Step, HealGoes, files, cacheRows, counts, history, excuses
<1>2. ASSUME NEW k \in todo'  PROVE k \in ReviewKeys /\ Sound(k)'
  <2>1. CASE k \in todo
    BY <1>1, <2>1 DEF HealInv, HealTypeOK, KeysAreSound, Sound, Old
  <2>2. CASE k \notin todo
    <3>1. PICK m \in drive : On(m, TRUE) \notin todo /\ k = On(m, FALSE)
      BY <1>2, <2>2 DEF ScanDrive
    <3>2. k \in ReviewKeys /\ k.name = m /\ ~k.local
      BY <3>1 DEF HealInv, HealTypeOK, On, ReviewKeys
    <3> QED BY <1>1, <3>1, <3>2 DEF HealInv, CacheIsSound, Sound, Old
  <2> QED BY <2>1, <2>2
<1>3. HealTypeOK'
  <2>1. todo' \subseteq ReviewKeys
    BY <1>2
  <2> QED BY <1>1, <2>1 DEF HealInv, HealTypeOK, Actors
<1>4. KeysAreSound'
  <2>1. \A k : Sound(k) => Sound(k)'
    BY <1>1 DEF Sound, Old
  <2>2. \A a \in Actors : healAt'[a] \in Busy => healAt[a] \in Busy
    BY <1>1 DEF HealInv, HealTypeOK, Busy
  <2> QED BY <1>1, <1>2, <2>1, <2>2 DEF HealInv, KeysAreSound
<1>5. CacheIsSound' /\ MovesAreSound' /\ RunSees'
  BY <1>1 DEF HealInv, HealTypeOK, CacheIsSound, MovesAreSound, Moving, Wanted, Old, RunSees, Actors
<1> QED BY <1>1, <1>3, <1>4, <1>5 DEF HealInv, NothingOverwritten, DismissalsHold

\* The run's bookkeeping between posters.
LEMMA PruneKeeps ==
  ASSUME PosterSelfHealAssumption, HealInv, PruneReviews \/ RunDone
  PROVE  HealInv'
<1>1. /\ UNCHANGED <<drive, local, cached, rescanning, saving, todo, dismissals, saves,
                     healFaults, raced, overwrote, defied, gap, kept, made>>
      /\ \E to \in {"next", "idle"} : healAt' = [healAt EXCEPT !["run"] = to]
      /\ key' \in {key, [key EXCEPT !["run"] = NoKey]}
  BY DEF PruneReviews, RunDone, Step, HealGoes, files, cacheRows, counts, history, excuses
<1>2. NoKey \in ReviewKeys
  BY DEF PosterSelfHealAssumption, NoKey, ReviewKeys
<1>3. /\ healAt'["run"] \in {"next", "idle"}
      /\ \A r \in Actors \ {"run"} : healAt'[r] = healAt[r] /\ key'[r] = key[r]
      /\ healAt' \in [Actors -> AtNow] /\ key' \in [Actors -> ReviewKeys]
  BY <1>1, <1>2 DEF HealInv, HealTypeOK, Actors, AtNow, Busy
<1>4. /\ review' \in [ReviewKeys -> {"none", "proposed", "applied", "failed", "dismissed"}]
      /\ \A k \in ReviewKeys : review'[k] \in {review[k], "none"}
      /\ rowGone' \subseteq Requests /\ snapshot' \subseteq ReviewKeys /\ settled' \subseteq Names
  <2>1. CASE PruneReviews
    BY <2>1 DEF PruneReviews, HealInv, HealTypeOK, Dismissed
  <2>2. CASE RunDone
    BY <2>2 DEF RunDone, HealInv, HealTypeOK
  <2> QED BY <2>1, <2>2
<1>5. HealTypeOK'
  BY <1>1, <1>3, <1>4 DEF HealInv, HealTypeOK, AtNow, Busy
<1>6. KeysAreSound'
  <2>1. \A k : Sound(k) => Sound(k)'
    BY <1>1 DEF Sound, Old
  <2>2. \A a \in Actors : healAt'[a] \in Busy => healAt[a] \in Busy /\ key'[a] = key[a]
    BY <1>3 DEF Actors, Busy
  <2>3. \A a \in Actors : healAt'[a] \in Busy => key'[a].name \in Drifted /\ Sound(key'[a])
    BY <2>2 DEF HealInv, KeysAreSound
  <2>4. \A a \in Actors : healAt'[a] \in Busy => key'[a].name \in Drifted /\ Sound(key[a])'
    BY <1>1, <2>3 DEF Sound, Old
  <2> QED BY <1>1, <1>4, <2>1, <2>4 DEF HealInv, KeysAreSound
<1>7. CacheIsSound' /\ MovesAreSound' /\ RunSees'
  BY <1>1, <1>3 DEF HealInv, CacheIsSound, MovesAreSound, Moving, Wanted, Old, RunSees, Actors
<1> QED BY <1>1, <1>5, <1>6, <1>7 DEF HealInv, NothingOverwritten, DismissalsHold

\* The run turns to a poster: if one of its two keys was dismissed, it is this one,
\* for the other is of no poster there is.
LEMMA TakeNextKeeps ==
  ASSUME PosterSelfHealAssumption, HealInv, TakeNext
  PROVE  HealInv'
<1>1. PICK k \in todo :
        /\ todo' = todo \ {k}
        /\ IF k.name \in Drifted
             THEN /\ healAt' = [healAt EXCEPT !["run"] = IF AutoApply THEN "check" ELSE "propose"]
                  /\ key' = [key EXCEPT !["run"] = k]
             ELSE UNCHANGED <<healAt, key>>
        /\ settled' = {k.name} \cap {d.name : d \in Dismissed}
  BY DEF TakeNext
<1>2. /\ healAt["run"] = "next"
      /\ UNCHANGED <<drive, local, cached, rescanning, saving, review, rowGone, snapshot,
                     dismissals, saves, healFaults, raced, overwrote, defied, gap, kept, made>>
  BY DEF TakeNext, files, cacheRows, counts, history, excuses
<1>3. k \in ReviewKeys /\ Sound(k)
  BY DEF HealInv, HealTypeOK, KeysAreSound
<1>4. healAt' \in [Actors -> AtNow] /\ key' \in [Actors -> ReviewKeys]
  BY <1>1, <1>3 DEF HealInv, HealTypeOK, AtNow, Busy
<1>5. /\ \A r \in Actors \ {"run"} : healAt'[r] = healAt[r] /\ key'[r] = key[r]
      /\ \/ healAt'["run"] \in {"check", "propose"} /\ k.name \in Drifted /\ key'["run"] = k
         \/ healAt'["run"] = "next"
  BY <1>1, <1>2 DEF HealInv, HealTypeOK, Actors
<1>6. HealTypeOK'
  <2>1. settled' \subseteq Names /\ todo' \subseteq ReviewKeys
    BY <1>1, <1>3 DEF HealInv, HealTypeOK, ReviewKeys
  <2> QED BY <1>2, <1>4, <2>1 DEF HealInv, HealTypeOK, AtNow, Busy
<1>7. KeysAreSound'
  <2>1. \A q : Sound(q) => Sound(q)'
    BY <1>2 DEF Sound, Old
  <2>2. \A a \in Actors : healAt'[a] \in Busy =>
          \/ key'[a] = k /\ k.name \in Drifted
          \/ healAt[a] \in Busy /\ key'[a] = key[a]
    BY <1>5 DEF Actors, Busy
  <2>3. \A a \in Actors : healAt'[a] \in Busy => key'[a].name \in Drifted /\ Sound(key'[a])
    BY <1>3, <2>2 DEF HealInv, KeysAreSound
  <2>4. \A a \in Actors : healAt'[a] \in Busy => key'[a].name \in Drifted /\ Sound(key[a])'
    BY <1>2, <2>3 DEF Sound, Old
  <2> QED BY <1>1, <1>2, <2>1, <2>4 DEF HealInv, KeysAreSound
<1>8. CacheIsSound' /\ MovesAreSound'
  BY <1>2, <1>5 DEF HealInv, CacheIsSound, MovesAreSound, Moving, Wanted, Old, Actors
<1>9. ASSUME healAt'["run"] = "check", k.name \in settled' \cap Old
      PROVE  review[k] = "dismissed" \/ gap
  <2>1. PICK d \in ReviewKeys : review[d] = "dismissed" /\ d.name = k.name
    BY <1>1, <1>9 DEF Dismissed
  <2>2. Sound(d) /\ d.name \in Drifted
    BY <2>1 DEF HealInv, KeysAreSound
  <2>3. CASE d.local <=> k.local
    <3>1. d = k
      BY <1>3, <2>1, <2>3 DEF ReviewKeys
    <3> QED BY <2>1, <3>1
  <2>4. CASE ~(d.local <=> k.local)
    BY <1>3, <1>9, <2>1, <2>2, <2>4 DEF Sound
  <2> QED BY <2>3, <2>4
<1>10. RunSees'
  BY <1>2, <1>5, <1>9 DEF RunSees, Old
<1> QED BY <1>2, <1>6, <1>7, <1>8, <1>10 DEF HealInv, NothingOverwritten, DismissalsHold

LEMMA CheckKeeps ==
  ASSUME PosterSelfHealAssumption, HealInv, Check
  PROVE  HealInv'
<1>1. /\ healAt["run"] = "check"
      /\ healAt' = [healAt EXCEPT !["run"] = IF IsDismissed(key["run"]) THEN "propose" ELSE "list"]
      /\ UNCHANGED <<drive, local, cached, rescanning, saving, review, key, rowGone, todo,
                     snapshot, dismissals, saves, healFaults, settled, raced, overwrote, defied, gap,
                     kept, made>>
  BY DEF Check, files, cacheRows, plan, counts, history, excuses
<1>2. healAt' \in [Actors -> AtNow]
  BY <1>1 DEF HealInv, HealTypeOK, AtNow, Busy
<1>3. /\ healAt'["run"] \in {"propose", "list"}
      /\ \A r \in Actors \ {"run"} : healAt'[r] = healAt[r]
      /\ healAt'["run"] = "list" => ~IsDismissed(key["run"])
  BY <1>1 DEF HealInv, HealTypeOK, Actors
<1>4. HealTypeOK'
  BY <1>1, <1>2 DEF HealInv, HealTypeOK, AtNow, Busy
<1>5. KeysAreSound'
  <2>1. \A k : Sound(k) => Sound(k)'
    BY <1>1 DEF Sound, Old
  <2>2. \A a \in Actors : healAt'[a] \in Busy => healAt[a] \in Busy
    BY <1>1, <1>3 DEF Actors, Busy
  <2> QED BY <1>1, <2>1, <2>2 DEF HealInv, KeysAreSound
<1>6. CacheIsSound' /\ MovesAreSound'
  BY <1>1, <1>3 DEF HealInv, CacheIsSound, MovesAreSound, Moving, Wanted, Old, Actors
<1>7. RunSees'
  <2>1. review[key["run"]] = "dismissed" => IsDismissed(key["run"])
    BY DEF HealInv, HealTypeOK, IsDismissed, Dismissed, Actors
  <2> QED BY <1>1, <1>3, <2>1 DEF HealInv, RunSees, Old
<1> QED BY <1>1, <1>4, <1>5, <1>6, <1>7 DEF HealInv, NothingOverwritten, DismissalsHold

\* A request takes up an open review.
LEMMA ApplyKeeps ==
  ASSUME PosterSelfHealAssumption, HealInv, NEW r \in Requests, NEW k \in ReviewKeys, Apply(r, k)
  PROVE  HealInv'
<1>1. /\ healAt' = [healAt EXCEPT ![r] = "list"] /\ key' = [key EXCEPT ![r] = k]
      /\ review[k] \in Open /\ rowGone' = rowGone \ {r} /\ healAt[r] = "idle"
      /\ UNCHANGED <<drive, local, cached, rescanning, saving, review, todo, snapshot,
                     dismissals, saves, healFaults, settled, raced, overwrote, defied, gap,
                     kept, made>>
  BY DEF Apply, files, cacheRows, plan, counts, history, excuses
<1>2. /\ healAt' \in [Actors -> AtNow] /\ key' \in [Actors -> ReviewKeys]
      /\ healAt'[r] = "list" /\ key'[r] = k
      /\ \A a \in Actors \ {r} : healAt'[a] = healAt[a] /\ key'[a] = key[a]
      /\ "run" \in Actors \ {r}
  BY <1>1 DEF HealInv, HealTypeOK, AtNow, Busy, Actors, PosterSelfHealAssumption
<1>3. HealTypeOK'
  BY <1>1, <1>2 DEF HealInv, HealTypeOK, AtNow, Busy
<1>4. KeysAreSound'
  <2>1. \A q : Sound(q) => Sound(q)'
    BY <1>1 DEF Sound, Old
  <2>2. k.name \in Drifted /\ Sound(k)
    BY <1>1 DEF HealInv, KeysAreSound, Open
  <2>3. \A a \in Actors : healAt'[a] \in Busy => key'[a].name \in Drifted /\ Sound(key'[a])
    BY <1>2, <2>2 DEF HealInv, KeysAreSound
  <2>4. \A a \in Actors : healAt'[a] \in Busy => key'[a].name \in Drifted /\ Sound(key[a])'
    BY <1>1, <2>3 DEF Sound, Old
  <2> QED BY <1>1, <2>1, <2>4 DEF HealInv, KeysAreSound
<1>5. CacheIsSound' /\ RunSees'
  BY <1>1, <1>2 DEF HealInv, CacheIsSound, RunSees, Old
<1>6. MovesAreSound'
  BY <1>1, <1>2 DEF HealInv, MovesAreSound, Moving, Wanted, Old
<1> QED BY <1>1, <1>3, <1>4, <1>5, <1>6 DEF HealInv, NothingOverwritten, DismissalsHold

\* The listing before a rename: only a free name goes on to it.
LEMMA ListKeeps ==
  ASSUME PosterSelfHealAssumption, HealInv, NEW a \in Actors, List(a)
  PROVE  HealInv'
<1>1. /\ healAt[a] = "list"
      /\ UNCHANGED <<drive, local, cached, rescanning, saving, review, key, rowGone, todo,
                     snapshot, dismissals, saves, settled, raced, overwrote, defied, gap, kept, made>>
  BY DEF List, Fault, files, cacheRows, plan, counts, history, excuses
<1>2. PICK to \in {"failed", "move"} :
        /\ healAt' = [healAt EXCEPT ![a] = to]
        /\ to = "move" => Wanted(a) \notin drive
  BY DEF List, ListingFailed
<1>3. /\ healAt' \in [Actors -> AtNow] /\ healAt'[a] = to
      /\ \A b \in Actors \ {a} : healAt'[b] = healAt[b]
  BY <1>2 DEF HealInv, HealTypeOK, AtNow, Busy
<1>4. healFaults' \in 0..MaxHealFaults
  BY DEF List, Fault, counts, HealInv, HealTypeOK, PosterSelfHealAssumption
<1>5. HealTypeOK'
  BY <1>1, <1>3, <1>4 DEF HealInv, HealTypeOK, AtNow, Busy
<1>6. KeysAreSound'
  <2>1. \A k : Sound(k) => Sound(k)'
    BY <1>1 DEF Sound, Old
  <2>2. \A b \in Actors : healAt'[b] \in Busy => healAt[b] \in Busy
    BY <1>1, <1>3 DEF Actors, Busy
  <2> QED BY <1>1, <2>1, <2>2 DEF HealInv, KeysAreSound
<1>7. CacheIsSound'
  <2>1. healAt'["run"] = "drive" => healAt["run"] = "drive"
    BY <1>3 DEF Actors
  <2> QED BY <1>1, <2>1 DEF HealInv, CacheIsSound, Old
<1>8. MovesAreSound'
  BY <1>1, <1>2, <1>3 DEF HealInv, MovesAreSound, Moving, Wanted, Old
<1>9. RunSees'
  <2>1. healAt'["run"] = "check" => healAt["run"] = "check"
    BY <1>3 DEF Actors
  <2>2. healAt'["run"] \in {"list", "move"} => healAt["run"] \in {"list", "move"}
    BY <1>1, <1>3 DEF Actors
  <2> QED BY <1>1, <2>1, <2>2 DEF HealInv, RunSees, Old
<1> QED BY <1>1, <1>5, <1>6, <1>7, <1>8, <1>9 DEF HealInv, NothingOverwritten, DismissalsHold

\* A rename whose answer is that it was done, or late.
LEMMA RenameKeeps ==
  ASSUME PosterSelfHealAssumption, HealInv, NEW a \in Actors, Moving(a), RcloneMoves(a),
         NEW to \in {"local", "applied", "failed"}, healAt' = [healAt EXCEPT ![a] = to],
         healFaults' \in 0..MaxHealFaults,
         UNCHANGED <<local, cached, rescanning, saving, review, key, rowGone, todo,
                     snapshot, dismissals, saves, settled, gap, kept, made>>
  PROVE  HealInv'
<1> DEFINE n   == key[a].name
           new == Wanted(a)
<1>1. healAt[a] = "move" /\ n \in Drifted
  BY DEF Moving, HealInv, KeysAreSound, Busy
<1>2. new \in Names \ Drifted
  BY <1>1 DEF PosterSelfHealAssumption, Wanted
<1>3. /\ n \in drive /\ drive' = (drive \ {n}) \cup {new}
      /\ overwrote' = (overwrote \/ (new \in drive /\ a \notin raced))
      /\ raced' = (raced \cup Waiting(new)) \ {a}
      /\ defied' = IF a = "run" /\ n \in settled THEN defied \cup {n} ELSE defied
  BY DEF RcloneMoves
<1>4. /\ healAt' \in [Actors -> AtNow] /\ healAt'[a] = to
      /\ \A b \in Actors \ {a} : healAt'[b] = healAt[b]
  BY DEF HealInv, HealTypeOK, AtNow, Busy
<1>5. Old' = Old \ {n}
  BY <1>2, <1>3 DEF Old
<1>6. HealTypeOK'
  <2>1. drive' \subseteq Names /\ defied' \subseteq Names /\ raced' \subseteq Actors
    BY <1>1, <1>2, <1>3 DEF HealInv, HealTypeOK, Waiting, PosterSelfHealAssumption
  <2>2. overwrote \in BOOLEAN
    BY DEF HealInv, HealTypeOK
  <2>3. overwrote' \in BOOLEAN
    BY <1>3, <2>2
  <2> QED BY <1>4, <2>1, <2>3 DEF HealInv, HealTypeOK, AtNow, Busy
<1>7. KeysAreSound'
  <2>1. \A k : Sound(k) => Sound(k)'
    BY <1>5 DEF Sound
  <2>2. \A b \in Actors : healAt'[b] \in Busy => healAt[b] \in Busy
    BY <1>1, <1>4 DEF Busy
  <2> QED BY <2>1, <2>2 DEF HealInv, KeysAreSound
<1>8. CacheIsSound'
  <2>1. healAt'["run"] = "drive" => healAt["run"] = "drive"
    BY <1>4 DEF Actors
  <2> QED BY <1>5, <2>1 DEF HealInv, CacheIsSound
<1>9. MovesAreSound'
  <2>1. ASSUME NEW b \in Actors, healAt'[b] = "move"
        PROVE  Wanted(b) \notin drive' \/ b \in raced'
    <3>1. b # a /\ healAt[b] = "move"
      BY <1>4, <2>1
    <3>2. Wanted(b) \notin drive \/ b \in raced
      BY <3>1 DEF HealInv, MovesAreSound, Moving
    <3>3. Wanted(b) = new => b \in Waiting(new)
      BY <3>1 DEF Waiting, Moving
    <3> QED BY <1>3, <3>1, <3>2, <3>3
  <2>2. ASSUME NEW b \in Actors, healAt'[b] \in {"local", "applied", "drop"}
        PROVE  key[b].name \notin Old'
    <3>1. CASE b = a
      BY <1>5, <3>1
    <3>2. CASE b # a
      BY <1>4, <1>5, <2>2, <3>2 DEF HealInv, MovesAreSound
    <3> QED BY <3>1, <3>2
  <2>3. \A b \in Actors : Wanted(b)' = Wanted(b)
    BY DEF Wanted
  <2> QED BY <2>1, <2>2, <2>3 DEF MovesAreSound, Moving
<1>10. RunSees'
  <2>1. ASSUME healAt'["run"] \in {"check", "list", "move"}
        PROVE  healAt["run"] = healAt'["run"]
    BY <1>4, <2>1 DEF Actors
  <2> QED BY <1>5, <2>1 DEF HealInv, RunSees
<1>11. NothingOverwritten'
  <2>1. new \in drive => a \in raced
    BY DEF HealInv, MovesAreSound
  <2> QED BY <1>3, <2>1 DEF HealInv, NothingOverwritten
<1>12. DismissalsHold'
  <2>1. a = "run" /\ n \in settled => n \in made \/ gap
    BY <1>1, <1>3 DEF HealInv, RunSees, Old
  <2> QED BY <1>3, <2>1 DEF HealInv, DismissalsHold
<1> QED BY <1>6, <1>7, <1>8, <1>9, <1>10, <1>11, <1>12 DEF HealInv

LEMMA MoveKeeps ==
  ASSUME PosterSelfHealAssumption, HealInv, NEW a \in Actors, Move(a)
  PROVE  HealInv'
<1>1. /\ healAt[a] = "move"
      /\ UNCHANGED <<local, cached, rescanning, saving, review, key, rowGone, todo,
                     snapshot, dismissals, saves, settled, gap, kept, made>>
  BY DEF Move, Moving, Fault, cacheRows, plan, counts, excuses
<1>2. healFaults' \in 0..MaxHealFaults
  BY DEF Move, Fault, counts, HealInv, HealTypeOK, PosterSelfHealAssumption
<1>3. CASE /\ RcloneMoves(a)
           /\ healAt' = [healAt EXCEPT ![a] = IF key[a].local THEN "local" ELSE "applied"]
  BY <1>1, <1>2, <1>3, RenameKeeps DEF Moving
<1>4. CASE RcloneMoves(a) /\ healAt' = [healAt EXCEPT ![a] = "failed"]
  BY <1>1, <1>2, <1>4, RenameKeeps DEF Moving
<1>5. CASE /\ healAt' = [healAt EXCEPT ![a] = "failed"] /\ raced' = raced \ {a}
           /\ UNCHANGED <<drive, overwrote, defied>>
  <2>1. /\ healAt' \in [Actors -> AtNow] /\ healAt'[a] = "failed"
        /\ \A b \in Actors \ {a} : healAt'[b] = healAt[b]
    BY <1>5 DEF HealInv, HealTypeOK, AtNow, Busy
  <2>2. HealTypeOK'
    BY <1>1, <1>2, <1>5, <2>1 DEF HealInv, HealTypeOK, AtNow, Busy
  <2>3. KeysAreSound'
    <3>1. \A k : Sound(k) => Sound(k)'
      BY <1>1, <1>5 DEF Sound, Old
    <3>2. \A b \in Actors : healAt'[b] \in Busy => healAt[b] \in Busy
      BY <1>1, <2>1 DEF Busy
    <3> QED BY <1>1, <3>1, <3>2 DEF HealInv, KeysAreSound
  <2>4. MovesAreSound'
    BY <1>1, <1>5, <2>1 DEF HealInv, MovesAreSound, Moving, Wanted, Old
  <2>5. CacheIsSound' /\ RunSees'
    BY <1>1, <1>5, <2>1 DEF HealInv, CacheIsSound, RunSees, Old, Actors
  <2> QED BY <1>1, <1>5, <2>2, <2>3, <2>4, <2>5 DEF HealInv, NothingOverwritten, DismissalsHold
<1> QED BY <1>3, <1>4, <1>5 DEF Move

\* The local copy of a poster already renamed on the Drive.
LEMMA MoveLocalKeeps ==
  ASSUME PosterSelfHealAssumption, HealInv, NEW a \in Actors, MoveLocal(a)
  PROVE  HealInv'
<1> DEFINE n   == key[a].name
           new == Wanted(a)
<1>1. /\ healAt[a] = "local" /\ healAt' = [healAt EXCEPT ![a] = "applied"] /\ key' = key
      /\ UNCHANGED <<drive, cached, rescanning, saving, review, rowGone, todo, snapshot,
                     dismissals, saves, settled, raced, overwrote, defied, gap, made>>
  BY DEF MoveLocal, Step, HealGoes, Fault, cacheRows, plan, counts
<1>2. n \in Drifted /\ n \notin Old
  BY <1>1 DEF HealInv, KeysAreSound, MovesAreSound, Busy
<1>3. new \in Names \ Drifted
  BY <1>2 DEF PosterSelfHealAssumption, Wanted
<1>4. /\ local' \in {local, (local \ {n}) \cup {new}}
      /\ healFaults' \in 0..MaxHealFaults /\ kept' = kept \cup ({n} \cap local')
  BY DEF MoveLocal, Fault, counts, HealInv, HealTypeOK, PosterSelfHealAssumption
<1>5. Old' = Old /\ \A m \in Old : m \in local' <=> m \in local
  BY <1>1, <1>2, <1>3, <1>4 DEF Old
<1>6. /\ healAt' \in [Actors -> AtNow] /\ healAt'[a] = "applied"
      /\ \A b \in Actors \ {a} : healAt'[b] = healAt[b]
  BY <1>1 DEF HealInv, HealTypeOK, AtNow, Busy
<1>7. HealTypeOK'
  <2>1. local' \subseteq Names
    BY <1>3, <1>4 DEF HealInv, HealTypeOK
  <2>2. kept' \subseteq Names
    BY <1>4, <2>1 DEF HealInv, HealTypeOK
  <2> QED BY <1>1, <1>4, <1>6, <2>1, <2>2 DEF HealInv, HealTypeOK, AtNow, Busy
<1>8. KeysAreSound'
  <2>1. \A k : Sound(k) => Sound(k)'
    BY <1>1, <1>5 DEF Sound
  <2>2. \A b \in Actors : healAt'[b] \in Busy => healAt[b] \in Busy
    BY <1>1, <1>6 DEF Busy
  <2> QED BY <1>1, <2>1, <2>2 DEF HealInv, KeysAreSound
<1>9. CacheIsSound'
  <2>1. healAt'["run"] = "drive" => healAt["run"] = "drive"
    BY <1>6 DEF Actors
  <2> QED BY <1>1, <1>5, <2>1 DEF HealInv, CacheIsSound
<1>10. MovesAreSound'
  BY <1>1, <1>2, <1>5, <1>6 DEF HealInv, MovesAreSound, Moving, Wanted
<1>11. RunSees'
  <2>1. healAt'["run"] \in {"check", "list", "move"} => healAt["run"] = healAt'["run"]
    BY <1>6 DEF Actors
  <2> QED BY <1>1, <1>5, <2>1 DEF HealInv, RunSees
<1> QED BY <1>1, <1>7, <1>8, <1>9, <1>10, <1>11 DEF HealInv, NothingOverwritten, DismissalsHold

\* What is written to the reviews: of a poster the run or the request has, and a
\* dismissed one stays so, but where its poster is renamed.
LEMMA ReviewWritten ==
  ASSUME PosterSelfHealAssumption, HealInv, NEW a \in Actors,
         healAt[a] \in {"propose", "applied", "failed", "mark"},
         NEW to \in {"drop", "mark", "next", "idle"},
         to = "drop" => healAt[a] = "applied",
         healAt' = [healAt EXCEPT ![a] = to],
         key' \in {key, [key EXCEPT ![a] = NoKey]}, to = "drop" => key' = key,
         to = "mark" => key' = key,
         NEW s \in {"none", "proposed", "applied", "failed", "dismissed"},
         review' \in {review, [review EXCEPT ![key[a]] = s]},
         review[key[a]] = "dismissed" => s = "dismissed" \/ healAt[a] = "applied",
         UNCHANGED <<drive, local, cached, rescanning, saving, rowGone, todo, snapshot,
                     dismissals, saves, healFaults, settled, raced, overwrote, defied, gap,
                     kept, made>>
  PROVE  HealInv'
<1>1. NoKey \in ReviewKeys
  BY DEF PosterSelfHealAssumption, NoKey, ReviewKeys
<1>2. key[a] \in ReviewKeys /\ key[a].name \in Drifted /\ Sound(key[a])
  BY DEF HealInv, HealTypeOK, KeysAreSound, Busy
<1>3. /\ healAt' \in [Actors -> AtNow] /\ key' \in [Actors -> ReviewKeys] /\ healAt'[a] = to
      /\ \A b \in Actors \ {a} : healAt'[b] = healAt[b] /\ key'[b] = key[b]
      /\ healAt'[a] \in Busy => key'[a] = key[a]
  BY <1>1 DEF HealInv, HealTypeOK, AtNow, Busy
<1>4. review' \in [ReviewKeys -> {"none", "proposed", "applied", "failed", "dismissed"}]
  BY DEF HealInv, HealTypeOK
<1>5. HealTypeOK'
  BY <1>3, <1>4 DEF HealInv, HealTypeOK, AtNow, Busy
<1>6. \A k : Sound(k) => Sound(k)'
  BY DEF Sound, Old
<1>7. KeysAreSound'
  <2>1. \A b \in Actors : healAt'[b] \in Busy => healAt[b] \in Busy /\ key'[b] = key[b]
    BY <1>3 DEF Busy
  <2>2. \A b \in Actors : healAt'[b] \in Busy => key'[b].name \in Drifted /\ Sound(key[b])'
    <3>1. ASSUME NEW b \in Actors, healAt'[b] \in Busy
          PROVE  key'[b].name \in Drifted /\ Sound(key'[b])
      BY <2>1, <3>1 DEF HealInv, KeysAreSound
    <3> QED BY <3>1 DEF Sound, Old
  <2>3. \A k \in ReviewKeys : review'[k] # "none" => review[k] # "none" \/ k = key[a]
    BY <1>2 DEF HealInv, HealTypeOK
  <2>4. \A k \in ReviewKeys : review'[k] # "none" => k.name \in Drifted /\ Sound(k)'
    BY <1>2, <1>6, <2>3 DEF HealInv, KeysAreSound
  <2> QED BY <1>6, <2>2, <2>4 DEF HealInv, KeysAreSound
<1>8. CacheIsSound'
  <2>1. healAt'["run"] = "drive" => healAt["run"] = "drive"
    BY <1>3 DEF Actors
  <2> QED BY <2>1 DEF HealInv, CacheIsSound, Old
<1>9. MovesAreSound'
  <2>1. ASSUME NEW b \in Actors, healAt'[b] \in {"move", "local", "applied", "drop"}
        PROVE  /\ key'[b] = key[b]
               /\ healAt[b] = healAt'[b]
                    \/ (healAt'[b] = "drop" /\ healAt[b] = "applied")
    BY <1>3, <2>1 DEF Busy
  <2> QED BY <2>1 DEF HealInv, MovesAreSound, Moving, Wanted, Old
<1>10. RunSees'
  <2>1. ASSUME healAt'["run"] \in {"check", "list", "move"}
        PROVE  /\ a # "run" /\ healAt["run"] = healAt'["run"] /\ key'["run"] = key["run"]
               /\ key["run"] \in ReviewKeys
    BY <1>3, <2>1 DEF Actors, HealInv, HealTypeOK
  <2>2. ASSUME healAt["run"] = "check", key["run"].name \in settled \cap Old,
               review[key["run"]] = "dismissed", key["run"] \in ReviewKeys
        PROVE  review'[key["run"]] = "dismissed"
    <3>1. CASE key["run"] = key[a]
      <4>1. healAt[a] # "applied"
        BY <2>2, <3>1 DEF HealInv, MovesAreSound
      <4> QED BY <2>2, <3>1, <4>1 DEF HealInv, HealTypeOK
    <3>2. CASE key["run"] # key[a]
      BY <2>2, <3>2 DEF HealInv, HealTypeOK
    <3> QED BY <3>1, <3>2
  <2> QED BY <2>1, <2>2 DEF HealInv, RunSees, Old
<1> QED BY <1>5, <1>7, <1>8, <1>9, <1>10 DEF HealInv, NothingOverwritten, DismissalsHold

LEMMA ReviewsKept ==
  ASSUME PosterSelfHealAssumption, HealInv,
         \/ Propose \/ RunApplied \/ RunFailed \/ MarkFailed
         \/ \E r \in Requests : ApiApplied(r) \/ ApiFailed(r)
  PROVE  HealInv'
<1>1. "run" \in Actors /\ Requests \subseteq Actors
  BY DEF Actors
<1>2. /\ key["run"] \in ReviewKeys
      /\ review[key["run"]] \in {"none", "proposed", "applied", "failed", "dismissed"}
  BY <1>1 DEF HealInv, HealTypeOK
<1> DEFINE was    == review[key["run"]]
           Up(st) == IF was \in {"applied", "dismissed"} THEN was ELSE st
<1>3. ASSUME NEW st \in {"proposed", "applied"}
      PROVE  /\ Upserted(key["run"], st) = [review EXCEPT ![key["run"]] = Up(st)]
             /\ Up(st) \in {"none", "proposed", "applied", "failed", "dismissed"}
             /\ was = "dismissed" => Up(st) = "dismissed"
  BY <1>2 DEF Upserted, HealInv, HealTypeOK
<1> HIDE DEF Up
<1>4. CASE Propose
  <2>1. /\ healAt["run"] = "propose" /\ healAt' = [healAt EXCEPT !["run"] = "next"]
        /\ key' \in {key, [key EXCEPT !["run"] = NoKey]}
        /\ review' = Upserted(key["run"], "proposed")
        /\ UNCHANGED <<drive, local, cached, rescanning, saving, rowGone, todo, snapshot,
                       dismissals, saves, healFaults, settled, raced, overwrote, defied, gap,
                       kept, made>>
    BY <1>4 DEF Propose, Step, HealGoes, files, cacheRows, plan, counts, history, excuses
  <2> QED BY <1>1, <1>3, <2>1, ReviewWritten
<1>5. CASE RunApplied
  <2>1. /\ healAt["run"] = "applied" /\ healAt' = [healAt EXCEPT !["run"] = "drop"]
        /\ key' = key
        /\ review' = Upserted(key["run"], "applied")
        /\ UNCHANGED <<drive, local, cached, rescanning, saving, rowGone, todo, snapshot,
                       dismissals, saves, healFaults, settled, raced, overwrote, defied, gap,
                       kept, made>>
    BY <1>5 DEF RunApplied, Step, HealGoes, files, cacheRows, plan, counts, history, excuses
  <2> QED BY <1>1, <1>3, <2>1, ReviewWritten
<1>6. CASE RunFailed
  <2>1. /\ healAt["run"] = "failed" /\ healAt' = [healAt EXCEPT !["run"] = "mark"]
        /\ key' = key
        /\ review' = Upserted(key["run"], "proposed")
        /\ UNCHANGED <<drive, local, cached, rescanning, saving, rowGone, todo, snapshot,
                       dismissals, saves, healFaults, settled, raced, overwrote, defied, gap,
                       kept, made>>
    BY <1>6 DEF RunFailed, Step, HealGoes, files, cacheRows, plan, counts, history, excuses
  <2> QED BY <1>1, <1>3, <2>1, ReviewWritten
<1>7. CASE MarkFailed
  <2> DEFINE f == Failed(was)
  <2>1. /\ healAt["run"] = "mark" /\ healAt' = [healAt EXCEPT !["run"] = "next"]
        /\ key' \in {key, [key EXCEPT !["run"] = NoKey]}
        /\ review' = [review EXCEPT ![key["run"]] = f]
        /\ UNCHANGED <<drive, local, cached, rescanning, saving, rowGone, todo, snapshot,
                       dismissals, saves, healFaults, settled, raced, overwrote, defied, gap,
                       kept, made>>
    BY <1>2, <1>7 DEF MarkFailed, Step, HealGoes, files, cacheRows, plan, counts, history,
       excuses, HealInv, HealTypeOK
  <2>2. f \in {"none", "proposed", "applied", "failed", "dismissed"}
        /\ (was = "dismissed" => f = "dismissed")
    BY <1>2 DEF Failed
  <2> HIDE DEF f
  <2> QED BY <1>1, <2>1, <2>2, ReviewWritten
<1>8. ASSUME NEW r \in Requests, ApiApplied(r)  PROVE HealInv'
  <2>1. /\ healAt[r] = "applied" /\ healAt' = [healAt EXCEPT ![r] = "drop"]
        /\ key' = key
        /\ review' \in {review, [review EXCEPT ![key[r]] = "applied"]}
        /\ UNCHANGED <<drive, local, cached, rescanning, saving, rowGone, todo, snapshot,
                       dismissals, saves, healFaults, settled, raced, overwrote, defied, gap,
                       kept, made>>
    BY <1>8 DEF ApiApplied, Step, HealGoes, files, cacheRows, plan, counts, history, excuses
  <2> QED BY <1>1, <2>1, ReviewWritten
<1>9. ASSUME NEW r \in Requests, ApiFailed(r)  PROVE HealInv'
  <2>1. /\ healAt[r] = "failed" /\ healAt' = [healAt EXCEPT ![r] = "idle"]
        /\ key' \in {key, [key EXCEPT ![r] = NoKey]} /\ review' = review
        /\ UNCHANGED <<drive, local, cached, rescanning, saving, rowGone, todo, snapshot,
                       dismissals, saves, healFaults, settled, raced, overwrote, defied, gap,
                       kept, made>>
    BY <1>9 DEF ApiFailed, Step, HealGoes, files, cacheRows, plan, counts, history, excuses
  <2> QED BY <1>1, <2>1, ReviewWritten
<1> QED BY <1>4, <1>5, <1>6, <1>7, <1>8, <1>9

\* The renamed poster's row leaves the cache.
LEMMA DropKeeps ==
  ASSUME PosterSelfHealAssumption, HealInv, NEW a \in Actors, Drop(a)
  PROVE  HealInv'
<1>1. PICK to \in {"next", "idle"} :
        healAt' = [healAt EXCEPT ![a] = to] /\ key' \in {key, [key EXCEPT ![a] = NoKey]}
  BY DEF Drop, Step, HealGoes
<1>2. /\ healAt[a] = "drop"
      /\ UNCHANGED <<drive, local, rescanning, saving, review, rowGone, todo, snapshot,
                     dismissals, saves, healFaults, settled, raced, overwrote, defied, gap,
                     kept, made>>
  BY DEF Drop, Step, files, plan, counts, history, excuses
<1>3. NoKey \in ReviewKeys
  BY DEF PosterSelfHealAssumption, NoKey, ReviewKeys
<1>4. /\ healAt' \in [Actors -> AtNow] /\ key' \in [Actors -> ReviewKeys]
      /\ healAt'[a] = to
      /\ \A b \in Actors \ {a} : healAt'[b] = healAt[b] /\ key'[b] = key[b]
  BY <1>1, <1>3 DEF HealInv, HealTypeOK, AtNow, Busy
<1>5. cached' \subseteq cached /\ \A n \in Old : n \in cached' <=> n \in cached
  <2>1. key[a].name \notin Old
    BY <1>2 DEF HealInv, MovesAreSound
  <2> QED BY <2>1 DEF Drop
<1>6. HealTypeOK'
  BY <1>2, <1>4, <1>5 DEF HealInv, HealTypeOK, AtNow, Busy
<1>7. KeysAreSound'
  <2>1. \A k : Sound(k) => Sound(k)'
    BY <1>2 DEF Sound, Old
  <2>2. \A b \in Actors : healAt'[b] \in Busy => healAt[b] \in Busy /\ key'[b] = key[b]
    BY <1>4 DEF Busy
  <2>3. \A b \in Actors : healAt'[b] \in Busy => key'[b].name \in Drifted /\ Sound(key'[b])
    BY <2>2 DEF HealInv, KeysAreSound
  <2>4. \A b \in Actors : healAt'[b] \in Busy => key'[b].name \in Drifted /\ Sound(key[b])'
    BY <1>2, <2>3 DEF Sound, Old
  <2> QED BY <1>2, <2>1, <2>4 DEF HealInv, KeysAreSound
<1>8. CacheIsSound'
  <2>1. healAt'["run"] = "drive" => healAt["run"] = "drive"
    BY <1>4 DEF Actors
  <2> QED BY <1>2, <1>5, <2>1 DEF HealInv, CacheIsSound, Old
<1>9. MovesAreSound' /\ RunSees'
  <2>1. ASSUME NEW b \in Actors, healAt'[b] \in {"check", "list", "move", "local", "applied", "drop"}
        PROVE  healAt[b] = healAt'[b] /\ key'[b] = key[b]
    BY <1>4, <2>1
  <2> QED BY <1>2, <2>1 DEF HealInv, MovesAreSound, Moving, Wanted, RunSees, Old, Actors
<1> QED BY <1>2, <1>6, <1>7, <1>8, <1>9 DEF HealInv, NothingOverwritten, DismissalsHold

\* The dismissals of the review page, and the rescans.
LEMMA OthersKeep ==
  ASSUME PosterSelfHealAssumption, HealInv,
         (\E k \in ReviewKeys : Dismiss(k)) \/ RescanDeletes \/ RescanInserts
  PROVE  HealInv'
<1>1. UNCHANGED <<drive, local, saving, healAt, key, rowGone, todo, snapshot, saves, healFaults,
                  settled, raced, overwrote, defied, gap, kept, made>>
  BY DEF Dismiss, cacheRows, RescanDeletes, RescanInserts, files, plan, counts, history, excuses
<1>2. \A k : Sound(k) => Sound(k)'
  BY <1>1 DEF Sound, Old
<1>3. CASE \E k \in ReviewKeys : Dismiss(k)
  <2>1. PICK k \in ReviewKeys :
          /\ review[k] # "none" /\ review' = [review EXCEPT ![k] = "dismissed"]
          /\ UNCHANGED <<cached, rescanning>> /\ dismissals' \in 0..MaxDismissals
    <3>1. PICK k \in ReviewKeys : Dismiss(k)
      BY <1>3
    <3>2. dismissals' \in 0..MaxDismissals
      BY <3>1 DEF Dismiss, HealInv, HealTypeOK, PosterSelfHealAssumption
    <3> QED BY <3>1, <3>2 DEF Dismiss, cacheRows
  <2>2. /\ review' \in [ReviewKeys -> {"none", "proposed", "applied", "failed", "dismissed"}]
        /\ \A q \in ReviewKeys : review'[q] = review[q]
                                 \/ (review[q] # "none" /\ review'[q] = "dismissed")
    BY <2>1 DEF HealInv, HealTypeOK
  <2>3. HealTypeOK'
    BY <1>1, <2>1, <2>2 DEF HealInv, HealTypeOK
  <2>4. KeysAreSound'
    BY <1>1, <1>2, <2>2 DEF HealInv, KeysAreSound
  <2>5. CacheIsSound' /\ MovesAreSound'
    BY <1>1, <2>1 DEF HealInv, CacheIsSound, MovesAreSound, Moving, Wanted, Old
  <2>6. RunSees'
    <3>1. key["run"] \in ReviewKeys
      BY DEF HealInv, HealTypeOK, Actors
    <3> QED BY <1>1, <2>2, <3>1 DEF HealInv, RunSees, Old
  <2> QED BY <1>1, <2>3, <2>4, <2>5, <2>6 DEF HealInv, NothingOverwritten, DismissalsHold
<1>4. CASE RescanDeletes \/ RescanInserts
  <2>1. /\ cached' \subseteq Names /\ rescanning' \in BOOLEAN /\ UNCHANGED <<review, dismissals>>
        /\ \/ rescanning' /\ cached' = {}
           \/ cached' = local
    BY <1>4 DEF RescanDeletes, RescanInserts, counts, HealInv, HealTypeOK
  <2>2. HealTypeOK'
    BY <1>1, <2>1 DEF HealInv, HealTypeOK
  <2>3. KeysAreSound'
    BY <1>1, <1>2, <2>1 DEF HealInv, KeysAreSound
  <2>4. CacheIsSound' /\ MovesAreSound' /\ RunSees'
    BY <1>1, <2>1 DEF HealInv, CacheIsSound, MovesAreSound, Moving, Wanted, RunSees, Old
  <2> QED BY <1>1, <2>2, <2>3, <2>4 DEF HealInv, NothingOverwritten, DismissalsHold
<1> QED BY <1>3, <1>4

\* The maker's posters: what it writes anew is no longer among the old ones.
LEMMA MakerKeeps ==
  ASSUME PosterSelfHealAssumption, HealInv, NEW n \in Names,
         MakerSaves(n) \/ MakerRecords(n) \/ MakerUploads(n)
  PROVE  HealInv'
<1>1. UNCHANGED <<rescanning, review, healAt, key, rowGone, todo, snapshot, dismissals,
                  healFaults, settled, overwrote, defied, gap, kept>>
  BY DEF MakerSaves, MakerRecords, MakerUploads, cacheRows, plan, counts, history, excuses
<1>2. /\ made \subseteq made' /\ saving' \subseteq made' /\ raced \subseteq raced'
      /\ {drive', local', cached', saving', made'} \subseteq SUBSET Names
      /\ raced' \subseteq Actors /\ saves' \in 0..MaxSaves
  <2>1. CASE MakerSaves(n)
    BY <2>1 DEF MakerSaves, HealInv, HealTypeOK, CacheIsSound, PosterSelfHealAssumption
  <2>2. CASE MakerRecords(n)
    BY <2>2 DEF MakerRecords, files, counts, history, excuses, HealInv, HealTypeOK, CacheIsSound
  <2>3. CASE MakerUploads(n)
    BY <2>3 DEF MakerUploads, cacheRows, Waiting, HealInv, HealTypeOK, CacheIsSound,
       PosterSelfHealAssumption
  <2> QED BY <2>1, <2>2, <2>3
<1>3. \A m \in Old' : /\ m \in Old /\ (m \in local' <=> m \in local)
                      /\ m \in cached' <=> m \in cached
  <2>1. CASE MakerSaves(n)
    BY <2>1 DEF MakerSaves, Old
  <2>2. CASE MakerRecords(n)
    BY <2>2 DEF MakerRecords, files, history, excuses, Old, HealInv, CacheIsSound
  <2>3. CASE MakerUploads(n)
    BY <2>3 DEF MakerUploads, cacheRows, Old
  <2> QED BY <2>1, <2>2, <2>3
<1>4. HealTypeOK'
  BY <1>1, <1>2 DEF HealInv, HealTypeOK
<1>5. KeysAreSound'
  <2>1. \A k : Sound(k) => Sound(k)'
    BY <1>1, <1>3 DEF Sound
  <2> QED BY <1>1, <2>1 DEF HealInv, KeysAreSound
<1>6. CacheIsSound'
  BY <1>1, <1>2, <1>3 DEF HealInv, CacheIsSound
<1>7. MovesAreSound'
  <2>1. \A a \in Actors : Moving(a) /\ Wanted(a) \in drive' => Wanted(a) \in drive \/ a \in raced'
    <3>1. CASE drive' = drive
      BY <3>1
    <3>2. CASE MakerUploads(n)
      BY <3>2 DEF MakerUploads, Waiting
    <3> QED BY <3>1, <3>2 DEF MakerSaves, MakerRecords, files
  <2> QED BY <1>1, <1>2, <1>3, <2>1 DEF HealInv, MovesAreSound, Moving, Wanted
<1>8. RunSees'
  BY <1>1, <1>3 DEF HealInv, RunSees
<1> QED BY <1>1, <1>2, <1>4, <1>5, <1>6, <1>7, <1>8 DEF HealInv, NothingOverwritten, DismissalsHold

LEMMA HealCrashKeeps ==
  ASSUME PosterSelfHealAssumption, HealInv, HealCrash
  PROVE  HealInv'
<1>1. NoKey \in ReviewKeys
  BY DEF PosterSelfHealAssumption, NoKey, ReviewKeys
<1>2. /\ \A a \in Actors : healAt'[a] = "idle"
      /\ todo' = {} /\ snapshot' = {} /\ settled' = {} /\ saving' = {} /\ raced' = {}
      /\ UNCHANGED <<drive, local, cached, rescanning, review, rowGone, dismissals, saves,
                     overwrote, defied, gap, kept, made>>
  BY DEF HealCrash, Fault, files, excuses
<1>3. HealTypeOK'
  <2>1. healFaults' \in 0..MaxHealFaults
    BY DEF HealCrash, Fault, HealInv, HealTypeOK, PosterSelfHealAssumption
  <2>2. healAt' \in [Actors -> {"idle"}] /\ key' \in [Actors -> ReviewKeys]
    BY <1>1 DEF HealCrash
  <2> QED BY <1>2, <2>1, <2>2 DEF HealInv, HealTypeOK
<1>4. KeysAreSound'
  <2>1. \A k : Sound(k) => Sound(k)'
    BY <1>2 DEF Sound, Old
  <2> QED BY <1>2, <2>1 DEF HealInv, KeysAreSound, Busy
<1>5. CacheIsSound' /\ MovesAreSound' /\ RunSees'
  BY <1>2 DEF HealInv, CacheIsSound, MovesAreSound, Moving, RunSees, Old, Actors
<1> QED BY <1>2, <1>3, <1>4, <1>5 DEF HealInv, NothingOverwritten, DismissalsHold

LEMMA HealInvHolds == PosterSelfHealAssumption /\ HealSpec => []HealInv
<1> SUFFICES ASSUME PosterSelfHealAssumption  PROVE HealSpec => []HealInv
  OBVIOUS
<1>1. HealInit => HealInv
  BY HealStarts
<1>2. HealInv /\ [HealNext]_healVars => HealInv'
  <2> SUFFICES ASSUME HealInv, [HealNext]_healVars  PROVE HealInv'
    OBVIOUS
  <2>1. "run" \in Actors /\ Requests \subseteq Actors
    BY DEF Actors
  <2>2. ASSUME NEW a \in Actors, ApplySteps(a)  PROVE HealInv'
    BY <2>2, ListKeeps, MoveKeeps, MoveLocalKeeps, DropKeeps DEF ApplySteps
  <2>3. CASE RunSteps
    BY <2>1, <2>2, <2>3, ScanLocalKeeps, ScanDriveKeeps, PruneKeeps, TakeNextKeeps, CheckKeeps,
       ReviewsKept DEF RunSteps
  <2>4. ASSUME NEW r \in Requests, ApiSteps(r)  PROVE HealInv'
    BY <2>1, <2>2, <2>4, ReviewsKept DEF ApiSteps
  <2>5. ASSUME NEW k \in ReviewKeys, Dismiss(k) \/ \E r \in Requests : Apply(r, k)
        PROVE  HealInv'
    BY <2>5, ApplyKeeps, OthersKeep
  <2>6. CASE RescanDeletes \/ RescanInserts \/ HealCrash
    BY <2>6, OthersKeep, HealCrashKeeps
  <2>7. CASE \E n \in Names : MakerSaves(n) \/ MakerRecords(n) \/ MakerUploads(n)
    BY <2>7, MakerKeeps
  <2>8. CASE UNCHANGED healVars
    <3>1. UNCHANGED <<drive, local, cached, rescanning, saving, review, healAt, key, rowGone, todo,
                      snapshot, dismissals, saves, healFaults, settled, raced, overwrote, defied, gap,
                     kept, made>>
      BY <2>8 DEF healVars, files, cacheRows, plan, counts, history, excuses
    <3>2. \A k : Sound(k) => Sound(k)'
      BY <3>1 DEF Sound, Old
    <3>3. HealTypeOK' /\ CacheIsSound' /\ MovesAreSound' /\ RunSees'
      BY <3>1 DEF HealInv, HealTypeOK, CacheIsSound, MovesAreSound, Moving, Wanted, RunSees, Old
    <3>4. KeysAreSound'
      BY <3>1, <3>2 DEF HealInv, KeysAreSound
    <3> QED BY <3>1, <3>3, <3>4 DEF HealInv, NothingOverwritten, DismissalsHold
  <2> QED BY <2>3, <2>4, <2>5, <2>6, <2>7, <2>8 DEF HealNext
<1> QED BY <1>1, <1>2, PTL DEF HealSpec

\* The folders, the caches and the reviews stay of their types.
THEOREM HealTypes == PosterSelfHealAssumption /\ HealSpec => []HealTypeOK
<1>1. HealInv => HealTypeOK
  BY DEF HealInv
<1> QED BY <1>1, HealInvHolds, PTL

\* For every folder, any number of requests and of posters the maker writes, and
\* however often things fail: a rename destroys another poster only if a rename or an
\* upload put it under the new name after this rename listed that name as free, and a
\* run renames a poster that was dismissed under either of its keys only where the
\* maker wrote the name anew or a run looked for local posters during a rescan.
THEOREM RenamesStaySafe == PosterSelfHealAssumption /\ HealSpec => []RenamesAreSafe
<1>1. HealInv => RenamesAreSafe
  BY DEF HealInv, RenamesAreSafe
<1> QED BY <1>1, HealInvHolds, PTL

=============================================================================
