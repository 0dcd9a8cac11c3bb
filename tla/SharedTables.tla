---------------------------- MODULE SharedTables ----------------------------
(***************************************************************************)
(* The tables that jobs and requests read and write side by side without a *)
(* lock: media_cache and its link to plex_media_cache, and poster_cache    *)
(* with poster_heal_review.  What is promised of them together.            *)
(***************************************************************************)
EXTENDS MediaSync, PlexMapping, PosterSelfHeal

SharedTablesAssumption ==
  MediaSyncAssumption /\ PlexMappingAssumption /\ PosterSelfHealAssumption

\* The jobs on the two caches, whose runs are apart: a sync of the films beside the
\* walks and mappings of a library.
CachesSpec == SyncSpec /\ MapSpec

\* A sweep loses no poster of a film the *arr has had since the fetch of the sweep's
\* own sync, unless an overlapping sync deleted the film's row or the sweep is one
\* of Poster Renamerr's, whose sync failed; and no film points to another film's
\* Plex item, rematched items apart.
CachesAreTrue == SweptOnlyIfStolen /\ MappingIsTrue

\* No rename destroys another poster unless another rename or an upload has put it
\* there since the name was listed as free, and no run renames a poster dismissed
\* before, unless its name was made anew or a run looked in the middle of a rescan.
RenamesAreSafe == NothingOverwritten /\ DismissalsHold

=============================================================================
