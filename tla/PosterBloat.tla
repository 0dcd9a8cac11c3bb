----------------------------- MODULE PosterBloat -----------------------------
(***************************************************************************)
(* Poster Cleanarr's bloat pass over the images of one item in Plex's      *)
(* Metadata directory: a run judges by a copy of Plex's database and then  *)
(* moves or removes, one by one, what the copy does not use, a run in      *)
(* mode restore or clear deals with what was moved, and requests from the  *)
(* page delete single images.  Plex goes on meanwhile; what it commits is  *)
(* in its write-ahead log until a checkpoint.  The queue keeps two runs    *)
(* apart, not a run and a request.                                         *)
(***************************************************************************)
EXTENDS Integers, FiniteSets

CONSTANTS
  Images,    \* files under Uploads, named by their content
  Columns,   \* the columns of Plex's database that name an image
  MaxPicks,  \* bound: changes of what Plex uses
  MaxPassFaults, \* bound: disk, network and database errors, crashes
  NoImage

PosterBloatAssumption == NoImage \notin Images /\ {MaxPicks, MaxPassFaults} \subseteq Nat

Modes   == {"report", "move", "remove"}
Settings == [local : BOOLEAN, reuse : BOOLEAN, ignoreRunning : BOOLEAN]
Uses    == [Columns -> Images \cup {NoImage}]
UsedIn(db) == {db[c] : c \in Columns} \ {NoImage}

VARIABLES
  settings,   \* local_db, use_existing_db and ignore_running
  uses, main, \* what Plex's database names, and its file without the log
  running,    \* Plex runs: the log is beside the file
  images,     \* the images in Metadata
  hasRestore, kept,  \* the restore directory is there, and what is in it
  copy,       \* the working copy: there, whole, younger than DB_MAX_AGE_HOURS
  passAt, mode, inUse, left, failed,  \* the run
  deleting,   \* the image a request has found unused
  picks, passFaults,  \* counted for the bounds
  sinceCopy, sinceStart,  \* history: used all along since the copy, the run's start
  behind,     \* history: the copy was taken without what the log had
  raced,      \* history: Plex took an image a request had found unused
  wronged,    \* history: what used images were lost to
  owed        \* history: moved, and neither put back nor cleared

plexVars    == <<uses, main, running>>
imageFiles  == <<images, hasRestore, kept>>
passRun     == <<passAt, mode, inUse, left, failed>>
since       == <<sinceCopy, sinceStart>>
passHistory == <<behind, raced, wronged, owed>>
passVars    == <<settings, plexVars, imageFiles, copy, passRun, deleting, picks,
                 passFaults, since, passHistory>>

NoCopy ==
  [uses |-> [c \in Columns |-> NoImage], there |-> FALSE, whole |-> FALSE, young |-> FALSE]
Used == UsedIn(uses)

PassInit ==
  /\ settings \in {k \in Settings : k.ignoreRunning => k.local}
  /\ uses \in Uses /\ main = uses /\ running \in BOOLEAN
  /\ images = Images /\ hasRestore = FALSE /\ kept = {} /\ copy = NoCopy
  /\ passAt = "idle" /\ mode = "report" /\ inUse = {} /\ left = {} /\ failed = FALSE
  /\ deleting = NoImage /\ picks = 0 /\ passFaults = 0
  /\ sinceCopy = {} /\ sinceStart = {}
  /\ behind = FALSE /\ raced = FALSE /\ wronged = {} /\ owed = {}

Fault == passFaults < MaxPassFaults /\ passFaults' = passFaults + 1
Rests == passAt' = "idle" /\ inUse' = {} /\ left' = {} /\ failed' = FALSE /\ mode' = "report"
Goes(to) == passAt' = to /\ UNCHANGED <<mode, inUse, left, failed>>

---------------------------------------------------------------------------
(* Plex.                                                                   *)

\* Chosen in Plex, or uploaded to it, which writes the file if it is not there.
Pick(c, i) ==
  /\ running /\ picks < MaxPicks /\ picks' = picks + 1
  /\ uses' = [uses EXCEPT ![c] = i] /\ images' = images \cup {i}
  /\ sinceCopy' = sinceCopy \cap UsedIn(uses') /\ sinceStart' = sinceStart \cap UsedIn(uses')
  /\ raced' = (raced \/ i = deleting)
  /\ UNCHANGED <<settings, main, running, hasRestore, kept, copy, passRun, deleting,
                 passFaults, behind, wronged, owed>>

\* set_plex_metadata_active uploads a file that is there.
SetActive(c, i) == i \in images /\ Pick(c, i)

Checkpoint ==
  /\ running /\ main' = uses
  /\ UNCHANGED <<settings, uses, running, imageFiles, copy, passRun, deleting, picks,
                 passFaults, since, passHistory>>

StartsOrStops ==
  /\ running' = ~running /\ main' = uses
  /\ UNCHANGED <<settings, uses, imageFiles, copy, passRun, deleting, picks, passFaults,
                 since, passHistory>>

---------------------------------------------------------------------------
(* The database a run judges by.                                           *)

\* _check_db_age, where use_existing_db asks for it.
SlipAlwaysReuses == copy.there /\ copy.young
MayReuse == settings.reuse /\ copy.there /\ copy.young

\* run: no mode that judges starts beside a restore directory, nor without Plex
\* where the database is to come from it.
Begin(m) ==
  /\ passAt = "idle" /\ ~hasRestore /\ (settings.local \/ running) /\ mode' = m
  /\ passAt' = IF MayReuse THEN "query" ELSE IF settings.local THEN "check" ELSE "download"
  /\ sinceStart' = Used
  /\ UNCHANGED <<settings, plexVars, imageFiles, copy, inUse, left, failed, deleting,
                 picks, passFaults, sinceCopy, passHistory>>

\* _check_plex_running
SlipNoCheck == TRUE
MayCopy == ~running \/ settings.ignoreRunning

CheckRunning ==
  /\ passAt = "check" /\ IF MayCopy THEN Goes("copy") ELSE Rests
  /\ UNCHANGED <<settings, plexVars, imageFiles, copy, deleting, picks, passFaults,
                 since, passHistory>>

Copied(db, young) == copy' = [uses |-> db, there |-> TRUE, whole |-> TRUE, young |-> young]
Torn(db) == copy' = [uses |-> db, there |-> TRUE, whole |-> FALSE, young |-> TRUE]

\* copy2 takes the file without its log, over the old copy, and its time with it.
CopyLocal ==
  /\ passAt = "copy"
  /\ \/ /\ Goes("query") /\ UNCHANGED passFaults
        /\ \E young \in BOOLEAN : Copied(main, young)
        /\ sinceCopy' = Used /\ behind' = (main # uses)
     \/ Fault /\ Rests /\ (Torn(main) \/ UNCHANGED copy) /\ UNCHANGED <<sinceCopy, behind>>
  /\ UNCHANGED <<settings, plexVars, imageFiles, deleting, picks, sinceStart, raced,
                 wronged, owed>>

\* A download that stops short is moved into place all the same.
Download ==
  /\ passAt = "download"
  /\ \/ /\ running /\ Goes("query") /\ Copied(uses, TRUE) /\ UNCHANGED passFaults
        /\ sinceCopy' = Used /\ behind' = FALSE
     \/ running /\ Fault /\ Goes("query") /\ Torn(uses) /\ UNCHANGED <<sinceCopy, behind>>
     \/ running /\ Fault /\ Rests /\ UNCHANGED <<copy, sinceCopy, behind>>
     \/ ~running /\ Rests /\ UNCHANGED <<copy, passFaults, sinceCopy, behind>>
  /\ UNCHANGED <<settings, plexVars, imageFiles, deleting, picks, sinceStart, raced,
                 wronged, owed>>

CopyAges ==
  /\ copy.young /\ copy' = [copy EXCEPT !.young = FALSE]
  /\ UNCHANGED <<settings, plexVars, imageFiles, passRun, deleting, picks, passFaults,
                 since, passHistory>>

---------------------------------------------------------------------------
(* The pass itself.                                                        *)

\* get_in_use_hashes: a read that fails on the way leaves nothing of the others.
SlipPartial(collected, broken) == collected
Protected(collected, broken) == IF broken THEN {} ELSE collected

Query ==
  /\ passAt = "query" /\ passAt' = "scan"
  /\ \/ copy.whole /\ inUse' = Protected(UsedIn(copy.uses), FALSE) /\ UNCHANGED passFaults
     \/ /\ IF copy.whole THEN Fault ELSE UNCHANGED passFaults
        /\ \E collected \in SUBSET UsedIn(copy.uses) : inUse' = Protected(collected, TRUE)
  /\ UNCHANGED <<settings, plexVars, imageFiles, copy, mode, left, failed, deleting,
                 picks, since, passHistory>>

SlipNoGuard == FALSE
ReadsAsFailed == inUse = {}

\* Targets, excluded libraries and overlays_only leave some of the bloat out.
Scan ==
  /\ passAt = "scan"
  /\ IF ReadsAsFailed \/ mode = "report" THEN Rests
     ELSE /\ passAt' = "each" /\ left' \in SUBSET (images \ inUse) /\ inUse' = {}
          /\ UNCHANGED <<mode, failed>>
  /\ UNCHANGED <<settings, plexVars, imageFiles, copy, deleting, picks, passFaults,
                 since, passHistory>>

Blamed(i) ==
  wronged' = wronged \cup
    IF i \notin Used THEN {}
    ELSE {w \in {"misread", "stale"} :
           IF w = "misread" THEN i \in sinceCopy /\ ~behind ELSE i \in sinceStart}

\* A move makes the directory before it finds that it cannot move.
Handle(i) ==
  /\ passAt = "each" /\ i \in left /\ left' = left \ {i}
  /\ hasRestore' = (hasRestore \/ mode = "move")
  /\ \/ /\ i \in images /\ images' = images \ {i} /\ UNCHANGED passFaults
        /\ kept' = IF mode = "move" THEN kept \cup {i} ELSE kept
        /\ owed' = IF mode = "move" THEN owed \cup {i} ELSE owed
        /\ Blamed(i)
     \/ /\ IF i \in images THEN Fault ELSE UNCHANGED passFaults
        /\ UNCHANGED <<images, kept, owed, wronged>>
  /\ UNCHANGED <<settings, plexVars, copy, passAt, mode, inUse, failed, deleting, picks,
                 since, behind, raced>>

\* Done, or cancelled between two files.
EndsPass ==
  /\ passAt = "each" /\ Rests
  /\ UNCHANGED <<settings, plexVars, imageFiles, copy, deleting, picks, passFaults,
                 since, passHistory>>

---------------------------------------------------------------------------
(* Modes restore and clear.                                                *)

\* A directory without a file is left as it is.
BeginRestore ==
  /\ passAt = "idle" /\ hasRestore /\ kept # {}
  /\ passAt' = "restore" /\ left' = kept
  /\ UNCHANGED <<settings, plexVars, imageFiles, copy, mode, inUse, failed, deleting,
                 picks, passFaults, since, passHistory>>

PutBack(i) ==
  /\ passAt = "restore" /\ i \in left /\ left' = left \ {i}
  /\ \/ /\ images' = images \cup {i} /\ kept' = kept \ {i} /\ owed' = owed \ {i}
        /\ UNCHANGED <<passFaults, failed>>
     \/ Fault /\ failed' = TRUE /\ UNCHANGED <<images, kept, owed>>
  /\ UNCHANGED <<settings, plexVars, hasRestore, copy, passAt, mode, inUse, deleting,
                 picks, since, behind, raced, wronged>>

SlipDespiteFailures == TRUE
MayDropRestore == ~failed

EndRestore ==
  /\ passAt = "restore" /\ left = {} /\ Rests
  /\ \/ MayDropRestore /\ hasRestore' = FALSE /\ kept' = {} /\ UNCHANGED passFaults
     \/ ~MayDropRestore /\ UNCHANGED <<hasRestore, kept, passFaults>>
     \/ MayDropRestore /\ Fault /\ UNCHANGED <<hasRestore, kept>>
  /\ UNCHANGED <<settings, plexVars, images, copy, deleting, picks, since, passHistory>>

ClearRestore ==
  /\ passAt = "idle" /\ hasRestore
  /\ \/ hasRestore' = FALSE /\ kept' = {} /\ UNCHANGED passFaults
     \/ Fault /\ kept' \in SUBSET kept /\ UNCHANGED hasRestore
  /\ owed' = owed \cap kept'
  /\ UNCHANGED <<settings, plexVars, images, copy, passRun, deleting, picks, since,
                 behind, raced, wronged>>

---------------------------------------------------------------------------
(* Requests of the page, and crashes.                                      *)

\* variant_in_use reads the live database, with its log; a read that fails
\* refuses the request.
SlipReadsFile(i) == i \in UsedIn(main)
VariantInUse(i) == i \in Used

DeleteVariant(i) ==
  /\ deleting = NoImage /\ ~VariantInUse(i) /\ deleting' = i /\ raced' = FALSE
  /\ UNCHANGED <<settings, plexVars, imageFiles, copy, passRun, picks, passFaults,
                 since, behind, wronged, owed>>

RemoveVariant ==
  /\ deleting # NoImage /\ deleting' = NoImage
  /\ \/ /\ images' = images \ {deleting} /\ UNCHANGED passFaults
        /\ wronged' = IF deleting \in Used /\ ~raced THEN wronged \cup {"deleted"} ELSE wronged
     \/ Fault /\ UNCHANGED <<images, wronged>>
  /\ UNCHANGED <<settings, plexVars, hasRestore, kept, copy, passRun, picks, since,
                 behind, raced, owed>>

PassCrash ==
  /\ Fault /\ Rests /\ deleting' = NoImage
  /\ UNCHANGED copy \/ (passAt = "copy" /\ Torn(main))
  /\ UNCHANGED <<settings, plexVars, imageFiles, picks, since, passHistory>>

PassNext ==
  \/ \E c \in Columns, i \in Images : Pick(c, i) \/ SetActive(c, i)
  \/ Checkpoint \/ StartsOrStops \/ CopyAges
  \/ \E m \in Modes : Begin(m)
  \/ CheckRunning \/ CopyLocal \/ Download \/ Query \/ Scan \/ EndsPass
  \/ BeginRestore \/ EndRestore \/ ClearRestore \/ RemoveVariant \/ PassCrash
  \/ \E i \in Images : Handle(i) \/ PutBack(i) \/ DeleteVariant(i)

PassSpec == PassInit /\ [][PassNext]_passVars

---------------------------------------------------------------------------

PassTypeOK ==
  /\ settings \in Settings
  /\ {uses, main} \subseteq Uses
  /\ copy \in [uses : Uses, there : BOOLEAN, whole : BOOLEAN, young : BOOLEAN]
  /\ {running, hasRestore, failed, behind, raced} \subseteq BOOLEAN
  /\ {images, kept, inUse, left, sinceCopy, sinceStart, owed} \subseteq SUBSET Images
  /\ passAt \in {"idle", "check", "copy", "download", "query", "scan", "each", "restore"}
  /\ mode \in Modes /\ deleting \in Images \cup {NoImage}
  /\ picks \in 0..MaxPicks /\ passFaults \in 0..MaxPassFaults
  /\ wronged \subseteq {"misread", "stale", "deleted"}

\* However reads, copies and downloads fail, a run takes no image that Plex has used
\* since the copy was taken with its log, and none it has used since the run began
\* unless a setting lets an older state of the database judge; a request deletes
\* none that Plex did not take up in between.
InUseIsSpared ==
  /\ wronged \cap {"misread", "deleted"} = {}
  /\ "stale" \in wronged => settings.reuse \/ (settings.local /\ settings.ignoreRunning)

\* A moved image is in the restore directory until it is put back or cleared, however
\* restores fail or end early.
MovedIsKept == owed \subseteq kept

\* The two together: what the pass and the requests leave of the images.
ImagesAreSafe == InUseIsSpared /\ MovedIsKept

=============================================================================
