---------------------------- MODULE PosterUpload ----------------------------
(***************************************************************************)
(* Poster Renamerr on its plex path, for one movie: the scheduled run and  *)
(* a webhook's ad-hoc run each copy the poster to a staging directory of   *)
(* their own, upload it to the copies of the movie, server by server, and  *)
(* record in the movie's one row which bytes went where: by the bare names *)
(* of the libraries, whichever server or copy it was.  The record decides  *)
(* what later runs skip.                                                   *)
(***************************************************************************)
EXTENDS Integers

CONSTANTS
  Instances,     \* the Plex servers with add_posters, in the order 1, 2, ...
  CopiesOf,      \* the copies of the movie each may come to hold
  LibraryOf,     \* the name of the library a copy is in
  Runners,       \* "run" and "adhoc", or one of them
  MaxVersions,   \* bound: contents of the source file
  MaxFaults      \* bound: servers that do not answer, uploads and writes that fail

PosterUploadAssumption ==
  /\ Instances \in Nat \ {0} /\ DOMAIN CopiesOf = 1..Instances
  /\ Runners \subseteq {"run", "adhoc"}
  /\ MaxVersions \in Nat \ {0} /\ MaxFaults \in Nat

Copies == UNION {CopiesOf[i] : i \in 1..Instances}
Names(S) == {LibraryOf[c] : c \in S}
NoVersion == 0
Nobody == "nobody"

VARIABLES
  stands,   \* where each runner stands
  turn,     \* the instance it is at
  source,   \* the version of the source file
  held,     \* the copies there are
  plex,     \* the version each copy shows, None for Plex's own
  staged,   \* the version in each runner's staging directory
  row,      \* the movie's row
  asset,    \* the row as each runner read it for this instance
  took,     \* the source hash it computed, and what it has uploaded
  faults,
  overlapping, \* history: the run at work began while the other was
  stale        \* history: the record may name bytes that were not uploaded

local == <<stands, turn, asset, took>>
uploadVars == <<local, source, held, plex, staged, row, faults,
                overlapping, stale>>

Row == [renamed : Runners \cup {Nobody}, hash : 0..MaxVersions, mtimeOf : Runners \cup {Nobody},
        libs : SUBSET Names(Copies), sourceHash : 0..MaxVersions]
NoRow == [renamed |-> Nobody, hash |-> NoVersion, mtimeOf |-> Nobody, libs |-> {},
          sourceHash |-> NoVersion]
NoWork == [sourceHash |-> NoVersion, to |-> {}, reset |-> FALSE]

UploadInit ==
  /\ stands = [r \in Runners |-> "idle"] /\ turn = [r \in Runners |-> 1]
  /\ source = 1 /\ held = CopiesOf[1]
  /\ plex = [c \in Copies |-> NoVersion]
  /\ staged = [r \in Runners |-> NoVersion]
  /\ row = NoRow
  /\ asset = [r \in Runners |-> NoRow] /\ took = [r \in Runners |-> NoWork]
  /\ faults = 0 /\ overlapping = FALSE /\ stale = FALSE

Moves(r, from, to) == stands[r] = from /\ stands' = [stands EXCEPT ![r] = to]

---------------------------------------------------------------------------
(* Poster Renamerr: what is staged.                                        *)

\* _is_unchanged_upload: only the scheduled run asks.
SlipHashOnly ==
  row.sourceHash = source /\ row.libs # {}
UnchangedUpload ==
  row.sourceHash = source /\ row.libs # {} /\ Names(held) \subseteq row.libs

Skip ==
  /\ "run" \in Runners /\ stands["run"] = "idle" /\ UnchangedUpload
  /\ UNCHANGED uploadVars

Stage(r) ==
  /\ ~(r = "run" /\ UnchangedUpload)
  /\ Moves(r, "idle", "read")
  /\ turn' = [turn EXCEPT ![r] = 1]
  /\ staged' = [staged EXCEPT ![r] = source]
  /\ row' = [row EXCEPT !.renamed = r, !.mtimeOf = IF @ = r THEN Nobody ELSE @]
  /\ overlapping' = \E q \in Runners \ {r} : stands[q] # "idle"
  /\ stale' = (stale \/ overlapping')
  /\ UNCHANGED <<asset, took, source, held, plex, faults>>

---------------------------------------------------------------------------
(* PosterUploader, one instance after the other.                           *)

After(r) ==
  /\ asset' = [asset EXCEPT ![r] = NoRow] /\ took' = [took EXCEPT ![r] = NoWork]
  /\ IF turn[r] < Instances
       THEN stands' = [stands EXCEPT ![r] = "read"] /\ turn' = [turn EXCEPT ![r] = @ + 1]
       ELSE stands' = [stands EXCEPT ![r] = "clean"] /\ UNCHANGED turn

NotConnected(r) ==
  /\ stands[r] = "read" /\ faults < MaxFaults
  /\ faults' = faults + 1 /\ After(r)
  /\ UNCHANGED <<source, held, plex, staged, row, overlapping, stale>>

\* The row is read anew for every instance.
ReadAsset(r) ==
  /\ Moves(r, "read", "compare")
  /\ asset' = [asset EXCEPT ![r] = row]
  /\ UNCHANGED <<turn, took, source, held, plex, staged, row, faults, overlapping, stale>>

\* The file is the one the row names: the other run may have renamed it, and
\* removed it.
File(r) == IF asset[r].renamed = Nobody THEN NoVersion ELSE staged[asset[r].renamed]
Targets(r) == CopiesOf[turn[r]] \cap held

Unreadable(r) ==
  /\ stands[r] = "compare" /\ (File(r) = NoVersion \/ Targets(r) = {})
  /\ After(r)
  /\ UNCHANGED <<source, held, plex, staged, row, faults, overlapping, stale>>

SameBytes(r) == asset[r].mtimeOf = asset[r].renamed \/ File(r) = asset[r].hash

\* Copies in libraries the record does not name, of this server or another.
Owed(r) == {c \in Targets(r) : LibraryOf[c] \notin asset[r].libs}

\* The webhook's uploader also asks Plex which copies show no upload.
Blank(r) == IF r = "adhoc" THEN {c \in Targets(r) : plex[c] = NoVersion} ELSE {}

\* The raw source is hashed here, not when it was copied; Plex may not tell of
\* every copy.
Compare(r) ==
  /\ File(r) # NoVersion /\ Targets(r) # {}
  /\ Moves(r, "compare", "upload")
  /\ \E blank \in SUBSET Blank(r) :
       took' = [took EXCEPT ![r] =
                  [sourceHash |-> source,
                   to    |-> IF SameBytes(r) THEN Owed(r) \cup blank ELSE Targets(r),
                   reset |-> ~SameBytes(r)]]
  /\ stale' = (stale \/ File(r) # source)
  /\ UNCHANGED <<turn, asset, source, held, plex, staged, row, faults, overlapping>>

\* Nothing owed: the mtime path leaves the row alone, the hash path renews it.
NothingOwed(r) ==
  /\ stands[r] = "upload" /\ took[r].to = {}
  /\ row' = IF asset[r].mtimeOf = asset[r].renamed THEN row
            ELSE [row EXCEPT !.mtimeOf = asset[r].renamed, !.libs = asset[r].libs,
                             !.hash = asset[r].hash, !.sourceHash = took[r].sourceHash]
  /\ After(r)
  /\ UNCHANGED <<source, held, plex, staged, faults, overlapping, stale>>

\* The copies that took it; a refusal is a fault.
Upload(r) ==
  /\ took[r].to # {} /\ Moves(r, "upload", "record")
  /\ \E done \in SUBSET took[r].to :
       LET refused == took[r].to \ done IN
       /\ IF File(r) = NoVersion
            THEN done = {} /\ UNCHANGED faults
            ELSE /\ refused # {} => faults < MaxFaults
                 /\ faults' = IF refused # {} THEN faults + 1 ELSE faults
       /\ plex' = [c \in Copies |-> IF c \in done THEN File(r) ELSE plex[c]]
       /\ took' = [took EXCEPT ![r].to = done]
  /\ UNCHANGED <<turn, asset, source, held, staged, row, overlapping, stale>>

\* Bytes that are new start the set of covered names afresh.
SlipKeepsCovered(r) == asset[r].libs \cup Names(took[r].to)
Covered(r) ==
  (IF took[r].reset THEN {} ELSE asset[r].libs) \cup Names(took[r].to)

\* New bytes that the source still had when they were compared, uploaded by a run
\* on its own, end what earlier races left.
Renews(r) == took[r].reset /\ ~overlapping /\ File(r) = took[r].sourceHash

Record(r) ==
  /\ stands[r] = "record" /\ took[r].to # {}
  /\ row' = [row EXCEPT !.hash = IF took[r].reset THEN File(r) ELSE asset[r].hash,
                        !.mtimeOf = asset[r].renamed,
                        !.libs = Covered(r), !.sourceHash = took[r].sourceHash]
  /\ stale' = (stale /\ ~Renews(r))
  /\ After(r)
  /\ UNCHANGED <<source, held, plex, staged, faults, overlapping>>

\* Nothing was uploaded, or the write of the row failed and was logged.
NotRecorded(r) ==
  /\ stands[r] = "record"
  /\ took[r].to # {} => faults < MaxFaults
  /\ faults' = IF took[r].to # {} THEN faults + 1 ELSE faults
  /\ After(r)
  /\ UNCHANGED <<source, held, plex, staged, row, overlapping, stale>>

\* The next directory has another name: whoever still reads this one has none.
RemoveStaging(r) ==
  /\ Moves(r, "clean", "idle")
  /\ turn' = [turn EXCEPT ![r] = 1]
  /\ staged' = [staged EXCEPT ![r] = NoVersion]
  /\ asset' = [q \in Runners |-> IF asset[q].renamed = r
                                 THEN [asset[q] EXCEPT !.renamed = Nobody] ELSE asset[q]]
  /\ UNCHANGED <<took, source, held, plex, row, faults, overlapping, stale>>

---------------------------------------------------------------------------
(* The drive and the library move on.                                      *)

SourceChanges ==
  /\ source < MaxVersions /\ source' = source + 1
  /\ UNCHANGED <<local, held, plex, staged, row, faults, overlapping, stale>>

LibraryGainsMovie ==
  /\ \E c \in Copies \ held : held' = held \cup {c}
  /\ UNCHANGED <<local, source, plex, staged, row, faults, overlapping, stale>>

RunnerSteps(r) ==
  \/ ReadAsset(r) \/ Unreadable(r) \/ Compare(r) \/ NothingOwed(r)
  \/ Upload(r) \/ Record(r) \/ NotRecorded(r) \/ RemoveStaging(r)

UploadNext ==
  \/ Skip
  \/ \E r \in Runners : RunnerSteps(r) \/ Stage(r) \/ NotConnected(r)
  \/ SourceChanges \/ LibraryGainsMovie

\* The schedule starts the run again and again; a run that has begun goes on.
RunsAgain == "run" \in Runners /\ Stage("run")
UploadFairness == (\A r \in Runners : WF_uploadVars(RunnerSteps(r))) /\ WF_uploadVars(RunsAgain)
UploadSpec == UploadInit /\ [][UploadNext]_uploadVars /\ UploadFairness

---------------------------------------------------------------------------

UploadTypeOK ==
  /\ stands \in [Runners -> {"idle", "read", "compare", "upload", "record", "clean"}]
  /\ turn \in [Runners -> 1..Instances]
  /\ source \in 1..MaxVersions /\ held \subseteq Copies
  /\ plex \in [Copies -> 0..MaxVersions] /\ staged \in [Runners -> 0..MaxVersions]
  /\ row \in Row /\ asset \in [Runners -> Row]
  /\ took \in [Runners -> [sourceHash : 0..MaxVersions, to : SUBSET Copies, reset : BOOLEAN]]
  /\ faults \in 0..MaxFaults /\ overlapping \in BOOLEAN /\ stale \in BOOLEAN

Quiet == \A r \in DOMAIN stands : stands[r] = "idle"

\* Of every library name that holds the movie, some copy shows the source's poster:
\* what a record of names can tell.  Where no two copies share a name, every copy
\* does.
Shown ==
  stale \/ \A c \in held : \E d \in held : LibraryOf[d] = LibraryOf[c] /\ plex[d] = source

\* What the scheduled run skips is what Plex shows: through servers that do not
\* answer, uploads that fail in some copies and rows not written, the record never
\* names a library for bytes that no copy in a library of that name got.  The one
\* excuse is a record written by overlapping runs, or after the source changed
\* between its copy and its hash, until new bytes are recorded by a run alone.
SkippedOnlyIfShown == (Quiet /\ UnchangedUpload) => Shown

\* Every library name that holds the movie, also one that gained it later, comes
\* to show the source's poster.
PostersArrive == []<>Shown

=============================================================================
