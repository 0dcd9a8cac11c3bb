---------------------------- MODULE PlexMapping -----------------------------
(***************************************************************************)
(* The cached items of one Plex library, plex_media_cache, and the link    *)
(* from a film's row in media_cache to the Plex item that shows it,        *)
(* plex_mapping_id.  Jobs that walk the library and then map the films run *)
(* side by side, each reading tables whole and writing later.              *)
(***************************************************************************)
EXTENDS Integers, FiniteSets

CONSTANTS
  Movies,       \* films with a row in media_cache
  Keys,        \* rating keys of Plex items
  Jobs,        \* jobs that walk and map
  MaxItemChanges,  \* bound: items that come, go or are matched anew
  MaxMapFaults,   \* bound: crashes and database errors
  NoMovie, Gone   \* the film of a key Plex has not given yet, and of a removed item

PlexMappingAssumption ==
  /\ Keys \subseteq Int /\ IsFiniteSet(Keys)
  /\ MaxItemChanges \in Nat /\ MaxMapFaults \in Nat
  /\ NoMovie # Gone /\ {NoMovie, Gone} \cap Movies = {}

VARIABLES
  plex,      \* the film of each item Plex has
  rows,      \* the cached item of each key: its id and film
  lastId,    \* the greatest id a row has had: AUTOINCREMENT
  mapping,   \* the id each film's row points to, 0 for none
  mapAt, mapHeld,  \* each job's next step and what it has read
  mapChanges, mapFaults,    \* counted for the bounds
  rematched  \* history: items whose film was changed

mapVars == <<plex, rows, lastId, mapping, mapAt, mapHeld, mapChanges, mapFaults, rematched>>

NoRow   == [id |-> 0, film |-> NoMovie]
NoRows  == [k \in Keys |-> NoRow]
Cached(r)  == {k \in Keys : r[k] # NoRow}
IdsOf(r)   == {r[k].id : k \in Cached(r)}
NothingRead == [fresh |-> [k \in Keys |-> NoMovie], drop |-> {}, rows |-> NoRows, plan |-> <<>>]
MapHold(j, h) == mapHeld' = [mapHeld EXCEPT ![j] = h]
MapGoes(j, from, to) == mapAt[j] = from /\ mapAt' = [mapAt EXCEPT ![j] = to]

MapInit ==
  /\ plex \in [Keys -> Movies \cup {NoMovie}]
  /\ rows = NoRows /\ lastId = 0 /\ mapping = [f \in Movies |-> 0]
  /\ mapAt = [j \in Jobs |-> "idle"] /\ mapHeld = [j \in Jobs |-> NothingRead]
  /\ mapChanges = 0 /\ mapFaults = 0 /\ rematched = {}

\* An item comes, goes for good, or is given another film by "fix match".
ItemsChange ==
  /\ mapChanges < MaxItemChanges /\ mapChanges' = mapChanges + 1
  /\ \E k \in Keys, f \in Movies \cup {Gone} :
       /\ plex[k] \notin {Gone, f} /\ (f = Gone => plex[k] # NoMovie)
       /\ plex' = [plex EXCEPT ![k] = f]
       /\ rematched' = IF Gone # f /\ plex[k] # NoMovie THEN rematched \cup {k} ELSE rematched
  /\ UNCHANGED <<rows, lastId, mapping, mapAt, mapHeld, mapFaults>>

---------------------------------------------------------------------------
(* The walk: _sync_single_plex_instance and sync_for_library.              *)

Library == [k \in Keys |-> IF plex[k] = Gone THEN NoMovie ELSE plex[k]]

FetchItems(j) ==
  /\ MapGoes(j, "idle", "rows")
  /\ Library # [k \in Keys |-> NoMovie] /\ MapHold(j, [NothingRead EXCEPT !.fresh = Library])
  /\ UNCHANGED <<plex, rows, lastId, mapping, mapChanges, mapFaults, rematched>>

\* A walk that fails is only logged; one that finds nothing changes nothing.
FetchItemsFails(j) ==
  /\ MapGoes(j, "idle", "valid") /\ UNCHANGED mapHeld
  /\ UNCHANGED <<plex, rows, lastId, mapping, mapChanges, mapFaults, rematched>>

ReadItemRows(j) ==
  /\ MapGoes(j, "rows", "upsert")
  /\ MapHold(j, [mapHeld[j] EXCEPT !.drop = {k \in Cached(rows) : mapHeld[j].fresh[k] = NoMovie}])
  /\ UNCHANGED <<plex, rows, lastId, mapping, mapChanges, mapFaults, rematched>>

NewKeys(fresh) == {k \in Keys : fresh[k] # NoMovie /\ rows[k] = NoRow}

\* A key that has a row keeps its id; a new one gets the next.
SlipReusesIds(k, fresh) ==
  IF rows[k] # NoRow THEN rows[k].id
  ELSE CHOOSE n \in 1..(lastId + 1) :
         n \notin IdsOf(rows) /\ \A m \in 1..(n - 1) : m \in IdsOf(rows)
IdFor(k, fresh) ==
  IF rows[k] # NoRow THEN rows[k].id
  ELSE lastId + Cardinality({q \in NewKeys(fresh) : q <= k})

UpsertChunk(j) ==
  /\ MapGoes(j, "upsert", "delete")
  /\ LET fresh == mapHeld[j].fresh IN
     /\ rows' = [k \in Keys |-> IF fresh[k] = NoMovie THEN rows[k]
                                ELSE [id |-> IdFor(k, fresh), film |-> fresh[k]]]
     /\ lastId' = lastId + Cardinality(NewKeys(fresh))
  /\ UNCHANGED <<plex, mapping, mapHeld, mapChanges, mapFaults, rematched>>

DeleteChunk(j) ==
  /\ MapGoes(j, "delete", "valid")
  /\ rows' = [k \in Keys |-> IF k \in mapHeld[j].drop THEN NoRow ELSE rows[k]]
  /\ MapHold(j, NothingRead)
  /\ UNCHANGED <<plex, lastId, mapping, mapChanges, mapFaults, rematched>>

---------------------------------------------------------------------------
(* update_media_plex_mappings.                                             *)

ReadPlexRows(j) ==
  /\ MapGoes(j, "valid", "match")
  /\ MapHold(j, [NothingRead EXCEPT !.rows = rows])
  /\ UNCHANGED <<plex, rows, lastId, mapping, mapChanges, mapFaults, rematched>>

\* Ids of copies: rows that share their film with another.
Ambiguous(r) == {r[k].id : k \in {q \in Cached(r) :
                   \E p \in Cached(r) \ {q} : r[p].film = r[q].film}}

SlipMapsOnce(f, r) == mapping[f] = 0
NeedsMapping(f, r) == mapping[f] \notin IdsOf(r) \/ mapping[f] \in Ambiguous(r)

\* The films' rows are read after the Plex rows; a film without a match keeps
\* what it points to.  Paths tell copies apart: either may be the one.
Match(j) ==
  /\ MapGoes(j, "match", "write")
  /\ LET r == mapHeld[j].rows
         Found(f) == {r[k].id : k \in {q \in Cached(r) : r[q].film = f}}
     IN \E plan \in [{f \in Movies : NeedsMapping(f, r) /\ Found(f) # {}} -> IdsOf(r)] :
          /\ \A f \in DOMAIN plan : plan[f] \in Found(f)
          /\ MapHold(j, [NothingRead EXCEPT !.plan = plan])
  /\ UNCHANGED <<plex, rows, lastId, mapping, mapChanges, mapFaults, rematched>>

WriteMappings(j) ==
  /\ MapGoes(j, "write", "idle")
  /\ mapping' = [f \in Movies |-> IF f \in DOMAIN mapHeld[j].plan THEN mapHeld[j].plan[f]
                                                                ELSE mapping[f]]
  /\ MapHold(j, NothingRead)
  /\ UNCHANGED <<plex, rows, lastId, mapChanges, mapFaults, rematched>>

\* A database error, which costs the job what it had to do, or a crash.
Dies(j) ==
  /\ mapFaults < MaxMapFaults /\ mapFaults' = mapFaults + 1 /\ mapAt[j] # "idle"
  /\ mapAt' = [mapAt EXCEPT ![j] = "idle"] /\ MapHold(j, NothingRead)
  /\ UNCHANGED <<plex, rows, lastId, mapping, mapChanges, rematched>>

JobSteps(j) ==
  \/ ReadItemRows(j) \/ UpsertChunk(j) \/ DeleteChunk(j)
  \/ ReadPlexRows(j) \/ Match(j) \/ WriteMappings(j)

MapNext ==
  \/ ItemsChange
  \/ \E j \in Jobs : FetchItems(j) \/ FetchItemsFails(j) \/ JobSteps(j) \/ Dies(j)

\* Jobs go on and come again; Plex can be walked now and then.
MapFairness == \A j \in Jobs : WF_mapVars(JobSteps(j)) /\ SF_mapVars(FetchItems(j))

MapSpec == MapInit /\ [][MapNext]_mapVars /\ MapFairness

---------------------------------------------------------------------------

MapTypeOK ==
  /\ plex \in [Keys -> Movies \cup {NoMovie, Gone}]
  /\ rows \in [Keys -> [id : 0..lastId, film : Movies \cup {NoMovie}]]
  /\ mapping \in [Movies -> 0..lastId]
  /\ mapAt \in [Jobs -> {"idle", "rows", "upsert", "delete", "valid", "match", "write"}]
  /\ rematched \subseteq Keys

\* A film never points to the Plex item of another film, whatever walks and
\* mappings overlap, but where the item was given another film: the mapping of a
\* valid id is not looked at again.
MappingIsTrue ==
  \A f \in Movies, k \in Keys :
    rows[k] # NoRow /\ mapping[f] = rows[k].id => rows[k].film = f \/ k \in rematched

Mapped ==
  \A f \in Movies : (\E k \in Keys : plex[k] = f) =>
    \E k \in Keys : rows[k] # NoRow /\ rows[k].id = mapping[f] /\ (plex[k] = f \/ k \in rematched)

\* When the items stop changing, every film Plex has comes to point to an item of
\* its own, or still to one that was given another film: a valid id is kept.
MappingsArrive == <>[]Mapped

=============================================================================
