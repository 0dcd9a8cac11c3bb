---------------------------- MODULE PosterProofs ----------------------------
(***************************************************************************)
(* What the modules that handle posters promise for every number of        *)
(* servers, libraries, folders and images, and however many faults:        *)
(* PosterUpload, that what the scheduled run skips is what Plex shows;     *)
(* PosterRename, that the two runs keep out of each other's cache and      *)
(* leave no poster behind; PosterBloat, that images in use are spared.     *)
(***************************************************************************)
EXTENDS PosterUpload, PosterRename, PosterBloat, TLAPS

---------------------------------------------------------------------------
(* PosterUpload.                                                           *)

Working == {"compare", "upload", "record"}

\* Versions only grow: nothing in hand or in Plex is newer than the source.
NoneNewer ==
  /\ \A r \in Runners : staged[r] <= source
  /\ \A c \in Copies : plex[c] <= source
  /\ row.hash <= source /\ \A r \in Runners : asset[r].hash <= source

\* A run that does not overlap another works alone, on a file of its own that the
\* row names; an mtime the row vouches for is that of the bytes it names.
Alone ==
  /\ \A r, q \in Runners : stands[r] # "idle" /\ stands[q] # "idle" => r = q
  /\ \A r \in Runners : stands[r] # "idle" =>
       staged[r] # NoVersion /\ row.renamed = r /\ row.hash <= staged[r]
  /\ row.mtimeOf = row.renamed /\ row.renamed # Nobody /\ staged[row.renamed] # NoVersion =>
       row.hash = staged[row.renamed]

\* Its knowledge between its read of the row and its write.
Informed ==
  \A r \in Runners :
    /\ stands[r] \in Working => asset[r] = row
    /\ stands[r] \in {"upload", "record"} =>
         took[r].to \subseteq held /\ (~took[r].reset => row.hash = staged[r])
    /\ stands[r] = "upload" /\ took[r].reset => took[r].to # {}
    /\ stands[r] = "record" => \A c \in took[r].to : plex[c] = staged[r]

Solo == Alone /\ Informed

\* A copy that shows bytes no older than these, in a library of this name.
Shows(n, h) == \E d \in held : LibraryOf[d] = n /\ plex[d] >= h

\* The record that is not stale: of each name it claims, some copy shows bytes no
\* older than those it names, and these are the source's whose hash it has.
Recorded ==
  /\ row.hash = row.sourceHash
  /\ \A n \in row.libs : Shows(n, row.hash)

Hashed == \A r \in Runners : stands[r] \in {"upload", "record"} => took[r].sourceHash = staged[r]

UploadInv ==
  /\ UploadTypeOK /\ NoneNewer
  /\ overlapping => stale
  /\ ~overlapping => Solo
  /\ ~stale => Recorded /\ Hashed

---------------------------------------------------------------------------
(* Types.                                                                  *)

Places == {"idle", "read", "compare", "upload", "record", "clean"}
Works  == [sourceHash : 0..MaxVersions, to : SUBSET Copies, reset : BOOLEAN]

\* A runner goes on to its next instance, or to the end.
LEMMA AfterFields ==
  ASSUME PosterUploadAssumption, UploadTypeOK, NEW r \in Runners, After(r)
  PROVE  /\ stands' = [stands EXCEPT ![r] = stands'[r]] /\ stands'[r] \in {"read", "clean"}
         /\ stands' \in [Runners -> Places] /\ turn' \in [Runners -> 1..Instances]
         /\ asset' = [asset EXCEPT ![r] = NoRow] /\ asset' \in [Runners -> Row]
         /\ took' = [took EXCEPT ![r] = NoWork] /\ took' \in [Runners -> Works]
<1>1. NoRow \in Row /\ NoWork \in Works
  BY DEF PosterUploadAssumption, NoRow, Row, NoWork, Works, NoVersion
<1>2. CASE turn[r] < Instances
  <2>1. turn[r] + 1 \in 1..Instances
    BY <1>2 DEF PosterUploadAssumption, UploadTypeOK
  <2>2. stands' = [stands EXCEPT ![r] = "read"] /\ turn' = [turn EXCEPT ![r] = turn[r] + 1]
    BY <1>2 DEF After
  <2> QED
    BY <1>1, <2>1, <2>2 DEF UploadTypeOK, After, Places, Works
<1>3. CASE ~(turn[r] < Instances)
  BY <1>1, <1>3 DEF PosterUploadAssumption, UploadTypeOK, After, Places, Works
<1> QED
  BY <1>2, <1>3

\* The file a runner finds under the row it read.
LEMMA FileTyped ==
  ASSUME PosterUploadAssumption, UploadTypeOK, NEW r \in Runners
  PROVE  File(r) \in 0..MaxVersions
<1>1. asset[r].renamed \in Runners \cup {Nobody} /\ 0 \in 0..MaxVersions
  BY DEF PosterUploadAssumption, UploadTypeOK, Row
<1>2. asset[r].renamed # Nobody => staged[asset[r].renamed] \in 0..MaxVersions
  BY <1>1 DEF UploadTypeOK
<1> QED
  BY <1>1, <1>2 DEF File, NoVersion

LEMMA TypesKeep == PosterUploadAssumption /\ UploadTypeOK /\ [UploadNext]_uploadVars => UploadTypeOK'
<1> SUFFICES ASSUME PosterUploadAssumption, UploadTypeOK, [UploadNext]_uploadVars PROVE UploadTypeOK'
  OBVIOUS
<1>0. /\ stands \in [Runners -> Places] /\ turn \in [Runners -> 1..Instances]
      /\ 1 \in 1..Instances /\ source \in 0..MaxVersions /\ 0 \in 0..MaxVersions
      /\ row \in Row /\ asset \in [Runners -> Row] /\ took \in [Runners -> Works]
      /\ staged \in [Runners -> 0..MaxVersions] /\ plex \in [Copies -> 0..MaxVersions]
      /\ MaxFaults \in Nat /\ faults \in 0..MaxFaults
  BY DEF PosterUploadAssumption, UploadTypeOK, Places, Works
<1>1. ASSUME NEW r \in Runners, Stage(r) PROVE UploadTypeOK'
  <2>1. row' \in Row
    BY <1>0, <1>1 DEF Stage, Row
  <2> QED
    BY <1>0, <1>1, <2>1 DEF Stage, Moves, UploadTypeOK, Places, Works
<1>2. ASSUME NEW r \in Runners, NotConnected(r) PROVE UploadTypeOK'
  BY <1>0, <1>2, AfterFields DEF NotConnected, UploadTypeOK, Places, Works
<1>3. ASSUME NEW r \in Runners, ReadAsset(r) PROVE UploadTypeOK'
  BY <1>0, <1>3 DEF ReadAsset, Moves, UploadTypeOK, Places, Works
<1>4. ASSUME NEW r \in Runners, Unreadable(r) PROVE UploadTypeOK'
  BY <1>0, <1>4, AfterFields DEF Unreadable, UploadTypeOK, Places, Works
<1>5. ASSUME NEW r \in Runners, Compare(r) PROVE UploadTypeOK'
  <2>1. Owed(r) \subseteq Copies /\ Targets(r) \subseteq Copies /\ Blank(r) \subseteq Copies
    BY <1>0 DEF Owed, Blank, Targets, UploadTypeOK
  <2>2. took' \in [Runners -> Works]
    BY <1>0, <1>5, <2>1 DEF Compare, Works
  <2> QED
    BY <1>0, <1>5, <2>2 DEF Compare, Moves, UploadTypeOK, Places, Works
<1>6. ASSUME NEW r \in Runners, NothingOwed(r) PROVE UploadTypeOK'
  <2>1. asset[r] \in Row /\ took[r] \in Works
    BY <1>0
  <2>2. row' \in Row
    BY <1>0, <1>6, <2>1 DEF NothingOwed, Row, Works
  <2> QED
    BY <1>0, <1>6, <2>2, AfterFields DEF NothingOwed, UploadTypeOK, Places, Works
<1>7. ASSUME NEW r \in Runners, Upload(r) PROVE UploadTypeOK'
  <2>1. PICK done \in SUBSET took[r].to :
          /\ faults' \in {faults, faults + 1} /\ (faults' # faults => faults < MaxFaults)
          /\ plex' = [c \in Copies |-> IF c \in done THEN File(r) ELSE plex[c]]
          /\ took' = [took EXCEPT ![r].to = done]
    BY <1>7 DEF Upload
  <2>2. done \in SUBSET Copies
    BY <1>0 DEF Works
  <2>3. plex' \in [Copies -> 0..MaxVersions] /\ faults' \in 0..MaxFaults
    BY <1>0, <2>1, FileTyped
  <2>4. took' \in [Runners -> Works]
    <3>1. [took[r] EXCEPT !.to = done] \in Works
      BY <1>0, <2>2 DEF Works
    <3> QED
      BY <1>0, <2>1, <3>1
  <2> QED
    BY <1>0, <1>7, <2>3, <2>4 DEF Upload, Moves, UploadTypeOK, Places, Works
<1>8. ASSUME NEW r \in Runners, Record(r) PROVE UploadTypeOK'
  <2>1. asset[r] \in Row /\ took[r] \in Works /\ Covered(r) \subseteq Names(Copies)
    BY <1>0 DEF Covered, Names, Row, Works
  <2>2. row' \in Row
    BY <1>0, <1>8, <2>1, FileTyped DEF Record, Row, Works
  <2> QED
    BY <1>0, <1>8, <2>2, AfterFields DEF Record, UploadTypeOK, Places, Works
<1>9. ASSUME NEW r \in Runners, NotRecorded(r) PROVE UploadTypeOK'
  BY <1>0, <1>9, AfterFields DEF NotRecorded, UploadTypeOK, Places, Works
<1>10. ASSUME NEW r \in Runners, RemoveStaging(r) PROVE UploadTypeOK'
  <2>1. asset' \in [Runners -> Row]
    <3>1. \A q \in Runners : [asset[q] EXCEPT !.renamed = Nobody] \in Row
      BY <1>0 DEF Row
    <3> QED
      BY <1>0, <1>10, <3>1 DEF RemoveStaging
  <2> QED
    BY <1>0, <1>10, <2>1 DEF RemoveStaging, Moves, UploadTypeOK, Places, Works, NoVersion
<1>11. CASE SourceChanges
  BY <1>0, <1>11 DEF SourceChanges, local, UploadTypeOK, PosterUploadAssumption
<1>12. CASE LibraryGainsMovie
  BY <1>0, <1>12 DEF LibraryGainsMovie, local, UploadTypeOK
<1>13. CASE Skip \/ UNCHANGED uploadVars
  BY <1>13 DEF Skip, uploadVars, local, UploadTypeOK
<1> QED
  BY <1>1, <1>2, <1>3, <1>4, <1>5, <1>6, <1>7, <1>8, <1>9, <1>10, <1>11, <1>12, <1>13
  DEF UploadNext, RunnerSteps

---------------------------------------------------------------------------
(* Versions.                                                               *)

Versions == /\ source \in Nat /\ row.hash \in Nat /\ row.sourceHash \in Nat
            /\ \A r \in Runners : staged[r] \in Nat /\ asset[r].hash \in Nat
            /\ \A c \in Copies : plex[c] \in Nat

LEMMA VersionsAreNumbers == PosterUploadAssumption /\ UploadTypeOK => Versions
<1> SUFFICES ASSUME PosterUploadAssumption, UploadTypeOK PROVE Versions
  OBVIOUS
<1>1. 0..MaxVersions \subseteq Nat /\ 1..MaxVersions \subseteq Nat
  BY DEF PosterUploadAssumption
<1>2. row \in Row /\ \A r \in Runners : asset[r] \in Row
  BY DEF UploadTypeOK
<1>3. row.hash \in Nat /\ row.sourceHash \in Nat /\ \A r \in Runners : asset[r].hash \in Nat
  BY <1>1, <1>2 DEF Row
<1> QED
  BY <1>1, <1>3 DEF UploadTypeOK, Versions

LEMMA FileIsNotNewer ==
  ASSUME PosterUploadAssumption, UploadTypeOK, NoneNewer, NEW r \in Runners
  PROVE  File(r) <= source
<1>1. asset[r].renamed \in Runners \cup {Nobody}
  BY DEF UploadTypeOK, Row
<1>2. 0 <= source
  BY VersionsAreNumbers DEF Versions
<1> QED
  BY <1>1, <1>2 DEF File, NoneNewer, NoVersion

LEMMA VersionsKeep ==
  PosterUploadAssumption /\ UploadTypeOK /\ NoneNewer /\ [UploadNext]_uploadVars => NoneNewer'
<1> SUFFICES ASSUME PosterUploadAssumption, UploadTypeOK, NoneNewer, [UploadNext]_uploadVars
             PROVE  NoneNewer'
  OBVIOUS
<1>0. Versions /\ source <= source /\ 0 <= source /\ row \in Row
      /\ (\A r \in Runners : asset[r] \in Row) /\ NoRow.hash = 0
  BY VersionsAreNumbers DEF Versions, UploadTypeOK, NoRow, NoVersion
<1>1. ASSUME NEW r \in Runners, Stage(r) PROVE NoneNewer'
  <2>1. row'.hash = row.hash
    BY <1>0, <1>1 DEF Stage, Row
  <2>2. \A q \in Runners : staged'[q] \in {staged[q], source}
    BY <1>1 DEF Stage, UploadTypeOK
  <2> QED
    BY <1>0, <1>1, <2>1, <2>2 DEF Stage, NoneNewer
<1>2. ASSUME NEW r \in Runners, After(r), UNCHANGED <<source, plex, staged>>,
             row'.hash \in {row.hash, asset[r].hash, File(r)}
      PROVE  NoneNewer'
  <2>1. row'.hash <= source
    BY <1>0, <1>2, FileIsNotNewer DEF NoneNewer
  <2>2. \A q \in Runners : asset'[q].hash \in {asset[q].hash, 0}
    BY <1>0, <1>2, AfterFields DEF UploadTypeOK
  <2> QED
    BY <1>0, <1>2, <2>1, <2>2 DEF NoneNewer
<1>3. ASSUME NEW r \in Runners, NotConnected(r) \/ Unreadable(r) \/ NotRecorded(r)
      PROVE  NoneNewer'
  BY <1>2, <1>3 DEF NotConnected, Unreadable, NotRecorded
<1>4. ASSUME NEW r \in Runners, NothingOwed(r) PROVE NoneNewer'
  <2>1. row'.hash \in {row.hash, asset[r].hash}
    BY <1>0, <1>4 DEF NothingOwed, Row
  <2> QED
    BY <1>2, <1>4, <2>1 DEF NothingOwed
<1>5. ASSUME NEW r \in Runners, Record(r) PROVE NoneNewer'
  <2>1. row'.hash \in {asset[r].hash, File(r)}
    BY <1>0, <1>5 DEF Record, Row
  <2> QED
    BY <1>2, <1>5, <2>1 DEF Record
<1>6. ASSUME NEW r \in Runners, ReadAsset(r) PROVE NoneNewer'
  BY <1>6 DEF ReadAsset, NoneNewer, UploadTypeOK
<1>7. ASSUME NEW r \in Runners, Compare(r) PROVE NoneNewer'
  BY <1>7 DEF Compare, NoneNewer
<1>8. ASSUME NEW r \in Runners, Upload(r) PROVE NoneNewer'
  <2>1. \A c \in Copies : plex'[c] \in {plex[c], File(r)}
    BY <1>8 DEF Upload
  <2> QED
    BY <1>8, <2>1, FileIsNotNewer DEF Upload, NoneNewer
<1>9. ASSUME NEW r \in Runners, RemoveStaging(r) PROVE NoneNewer'
  <2>1. \A q \in Runners : staged'[q] \in {staged[q], 0}
    BY <1>9 DEF RemoveStaging, UploadTypeOK, NoVersion
  <2>2. \A q \in Runners : asset'[q].hash = asset[q].hash
    BY <1>0, <1>9 DEF RemoveStaging, Row
  <2> QED
    BY <1>0, <1>9, <2>1, <2>2 DEF RemoveStaging, NoneNewer
<1>10. CASE SourceChanges
  <2>1. source' = source + 1 /\ UNCHANGED <<staged, plex, row, asset>>
    BY <1>10 DEF SourceChanges, local
  <2>2. \A n \in Nat : n <= source => n <= source'
    BY <1>0, <2>1 DEF Versions
  <2> QED
    BY <1>0, <2>1, <2>2 DEF NoneNewer, Versions
<1>11. CASE LibraryGainsMovie \/ Skip \/ UNCHANGED uploadVars
  BY <1>11 DEF LibraryGainsMovie, Skip, uploadVars, local, NoneNewer
<1> QED
  BY <1>1, <1>3, <1>4, <1>5, <1>6, <1>7, <1>8, <1>9, <1>10, <1>11 DEF UploadNext, RunnerSteps

---------------------------------------------------------------------------
(* A run on its own.                                                       *)

\* In a runner's steps past its read every other runner rests, and the file is
\* the runner's own.
LEMMA OwnFile ==
  ASSUME PosterUploadAssumption, UploadTypeOK, Solo, NEW r \in Runners, stands[r] # "idle"
  PROVE  /\ \A q \in Runners : q # r => stands[q] = "idle"
         /\ row.renamed = r /\ row.renamed # Nobody /\ staged[r] # NoVersion /\ row.hash <= staged[r]
         /\ stands[r] \in Working => asset[r] = row /\ File(r) = staged[r]
<1>1. r # Nobody
  BY DEF PosterUploadAssumption, Nobody
<1> QED
  BY <1>1 DEF Solo, Alone, Informed, File

\* A runner goes on, with the row renewed or as it was.
LEMMA AfterKeeps ==
  ASSUME PosterUploadAssumption, UploadTypeOK, Versions, Solo, NEW r \in Runners, stands[r] # "idle",
         After(r), UNCHANGED staged, row'.renamed = row.renamed,
         row' = row \/ row'.hash = staged[r]
  PROVE  Solo'
<1>1. /\ \A q \in Runners : q # r => stands[q] = "idle" /\ stands'[q] = "idle"
      /\ stands'[r] \in {"read", "clean"}
  BY OwnFile, AfterFields DEF UploadTypeOK
<1>2. staged[r] <= staged[r]
  BY DEF Versions
<1>3. Alone'
  <2>1. CASE row' = row
    BY <1>1, <2>1, OwnFile DEF Solo, Alone
  <2>2. CASE row'.hash = staged[r]
    BY <1>1, <1>2, <2>2, OwnFile DEF Alone
  <2> QED
    BY <2>1, <2>2
<1>4. Informed'
  BY <1>1 DEF Informed, Working
<1> QED
  BY <1>3, <1>4 DEF Solo

\* A step of one runner while the others rest keeps what is known of them.
LEMMA OneMoves ==
  ASSUME NEW r \in Runners, NEW to \in Places \ {"idle"}, UploadTypeOK, stands' = [stands EXCEPT ![r] = to],
         \A q \in Runners : q # r => stands[q] = "idle",
         staged'[r] # NoVersion, row'.renamed = r, row'.hash <= staged'[r],
         row'.mtimeOf = r => row'.hash = staged'[r]
  PROVE  /\ \A q \in Runners : q # r => stands'[q] = "idle"
         /\ stands'[r] = to /\ Alone'
  BY DEF UploadTypeOK, Alone, Places

\* What a runner that compares takes in hand.
LEMMA Compared ==
  ASSUME PosterUploadAssumption, UploadTypeOK, NEW r \in Runners, Compare(r)
  PROVE  /\ took'[r].sourceHash = source /\ took'[r].reset = ~SameBytes(r)
         /\ took'[r].to \subseteq held /\ (took'[r].reset => took'[r].to # {})
<1>1. PICK blank \in SUBSET Blank(r) :
        took' = [took EXCEPT ![r] =
                   [sourceHash |-> source,
                    to |-> IF SameBytes(r) THEN Owed(r) \cup blank ELSE Targets(r),
                    reset |-> ~SameBytes(r)]]
  BY DEF Compare
<1>2. Owed(r) \cup blank \subseteq held /\ Targets(r) \subseteq held /\ Targets(r) # {}
  BY DEF Compare, Owed, Blank, Targets
<1>3. took'[r] = [sourceHash |-> source,
                  to |-> IF SameBytes(r) THEN Owed(r) \cup blank ELSE Targets(r),
                  reset |-> ~SameBytes(r)]
  BY <1>1 DEF UploadTypeOK
<1>4. /\ took'[r].sourceHash = source /\ took'[r].reset = ~SameBytes(r)
      /\ took'[r].to = IF SameBytes(r) THEN Owed(r) \cup blank ELSE Targets(r)
  BY <1>3
<1> QED
  BY <1>2, <1>4

\* What a runner that has uploaded has in hand.
LEMMA Uploaded ==
  ASSUME PosterUploadAssumption, UploadTypeOK, NEW r \in Runners, Upload(r)
  PROVE  /\ took'[r].sourceHash = took[r].sourceHash /\ took'[r].reset = took[r].reset
         /\ took'[r].to \subseteq took[r].to
         /\ \A c \in Copies : plex'[c] = IF c \in took'[r].to THEN File(r) ELSE plex[c]
<1>1. PICK done \in SUBSET took[r].to :
        /\ plex' = [c \in Copies |-> IF c \in done THEN File(r) ELSE plex[c]]
        /\ took' = [took EXCEPT ![r].to = done]
  BY DEF Upload
<1>2. took[r] \in Works
  BY DEF UploadTypeOK, Works
<1>3. /\ took'[r].sourceHash = took[r].sourceHash /\ took'[r].reset = took[r].reset
      /\ took'[r].to = done
  BY <1>1, <1>2 DEF Works, UploadTypeOK
<1> QED
  BY <1>1, <1>3

LEMMA SoloKeeps ==
  PosterUploadAssumption /\ UploadTypeOK /\ NoneNewer /\ (~overlapping => Solo)
    /\ [UploadNext]_uploadVars /\ ~overlapping' => Solo'
<1> SUFFICES ASSUME PosterUploadAssumption, UploadTypeOK, NoneNewer, ~overlapping => Solo,
                    [UploadNext]_uploadVars, ~overlapping'
             PROVE  Solo'
  OBVIOUS
<1>0. /\ Versions /\ row \in Row
      /\ \A r \in Runners : r # Nobody /\ asset[r] \in Row /\ took[r] \in Works
      /\ {"read", "compare", "upload", "record", "clean"} \subseteq Places \ {"idle"}
  BY VersionsAreNumbers DEF UploadTypeOK, Works, PosterUploadAssumption, Nobody, Places
<1>1. ASSUME NEW r \in Runners, Stage(r) PROVE Solo'
  <2>1. \A q \in Runners : q # r => stands[q] = "idle"
    BY <1>1 DEF Stage
  <2>2. /\ staged'[r] = source /\ source # NoVersion
        /\ row'.renamed = r /\ row'.mtimeOf # r /\ row'.hash = row.hash
    BY <1>0, <1>1 DEF Stage, Row, UploadTypeOK, NoVersion, PosterUploadAssumption
  <2>3. (\A q \in Runners : q # r => stands'[q] = "idle") /\ stands'[r] = "read" /\ Alone'
    BY <1>0, <1>1, <2>1, <2>2, OneMoves DEF Stage, Moves, NoneNewer
  <2> QED
    BY <2>3 DEF Solo, Informed, Working
<1>2. ASSUME NEW r \in Runners, NotConnected(r) \/ Unreadable(r) \/ NotRecorded(r)
      PROVE  Solo'
  <2>1. stands[r] # "idle" /\ After(r) /\ UNCHANGED <<staged, row, overlapping>>
    BY <1>2 DEF NotConnected, Unreadable, NotRecorded
  <2> QED
    BY <1>0, <2>1, AfterKeeps
<1>3. ASSUME NEW r \in Runners, ReadAsset(r) PROVE Solo'
  <2>1. /\ stands[r] # "idle" /\ asset'[r] = row
        /\ UNCHANGED <<plex, staged, row, took, overlapping>> /\ Solo
    BY <1>3 DEF ReadAsset, Moves, UploadTypeOK
  <2>2. row.mtimeOf = r => row.hash = staged[r]
    BY <2>1, OwnFile DEF Solo, Alone
  <2>3. (\A q \in Runners : q # r => stands'[q] = "idle") /\ stands'[r] = "compare" /\ Alone'
    BY <1>0, <1>3, <2>1, <2>2, OwnFile, OneMoves DEF ReadAsset, Moves
  <2> QED
    BY <2>1, <2>3 DEF Solo, Informed, Working
<1>4. ASSUME NEW r \in Runners, Compare(r) PROVE Solo'
  <2>1. stands[r] = "compare" /\ UNCHANGED <<held, plex, staged, row, asset, overlapping>> /\ Solo
    BY <1>4 DEF Compare, Moves
  <2>2. asset[r] = row /\ File(r) = staged[r] /\ row.renamed = r /\ staged[r] # NoVersion
    BY <2>1, OwnFile DEF Working
  <2>3. row.mtimeOf = r => row.hash = staged[r]
    BY <1>0, <2>1, <2>2 DEF Solo, Alone
  <2>4. (\A q \in Runners : q # r => stands'[q] = "idle") /\ stands'[r] = "upload" /\ Alone'
    BY <1>0, <1>4, <2>1, <2>3, OwnFile, OneMoves DEF Compare, Moves
  <2>5. ~took'[r].reset => row.hash = staged[r]
    BY <1>4, <2>2, <2>3, Compared DEF SameBytes
  <2>6. Informed'
    BY <1>4, <2>1, <2>2, <2>4, <2>5, Compared DEF Informed, Working
  <2> QED
    BY <2>4, <2>6 DEF Solo
<1>5. ASSUME NEW r \in Runners, NothingOwed(r) PROVE Solo'
  <2>1. stands[r] = "upload" /\ took[r].to = {} /\ After(r) /\ UNCHANGED <<staged, overlapping>> /\ Solo
    BY <1>5 DEF NothingOwed
  <2>2. asset[r] = row /\ row.hash = staged[r]
    BY <1>0, <2>1 DEF Solo, Informed, Working
  <2>3. row'.renamed = row.renamed /\ row'.hash = staged[r]
    BY <1>0, <1>5, <2>2 DEF NothingOwed, Row
  <2> QED
    BY <1>0, <2>1, <2>3, AfterKeeps
<1>6. ASSUME NEW r \in Runners, Upload(r) PROVE Solo'
  <2>1. stands[r] = "upload" /\ UNCHANGED <<held, asset, staged, row, overlapping>> /\ Solo
    BY <1>6 DEF Upload, Moves
  <2>2. row.mtimeOf = r => row.hash = staged[r]
    BY <2>1, OwnFile DEF Solo, Alone
  <2>3. (\A q \in Runners : q # r => stands'[q] = "idle") /\ stands'[r] = "record" /\ Alone'
    BY <1>0, <1>6, <2>1, <2>2, OwnFile, OneMoves DEF Upload, Moves
  <2>4. File(r) = staged[r]
    BY <2>1, OwnFile DEF Working
  <2>5. took[r].to \subseteq held /\ held \subseteq Copies /\ asset[r] = row
        /\ (~took[r].reset => row.hash = staged[r])
    BY <2>1 DEF Solo, Informed, Working, UploadTypeOK
  <2>6. /\ took'[r].to \subseteq held' /\ took'[r].reset = took[r].reset
        /\ \A c \in took'[r].to : plex'[c] = staged[r]
    BY <1>6, <2>1, <2>4, <2>5, Uploaded
  <2>7. Informed'
    BY <2>1, <2>3, <2>5, <2>6 DEF Informed, Working
  <2> QED
    BY <2>3, <2>7 DEF Solo
<1>7. ASSUME NEW r \in Runners, Record(r) PROVE Solo'
  <2>1. stands[r] = "record" /\ After(r) /\ UNCHANGED <<staged, overlapping>> /\ Solo
    BY <1>7 DEF Record
  <2>2. asset[r] = row /\ File(r) = staged[r] /\ (~took[r].reset => row.hash = staged[r])
    BY <1>0, <2>1, OwnFile DEF Solo, Informed, Working
  <2>3. row'.renamed = row.renamed /\ row'.hash = staged[r]
    BY <1>0, <1>7, <2>2 DEF Record, Row
  <2> QED
    BY <1>0, <2>1, <2>3, AfterKeeps
<1>8. ASSUME NEW r \in Runners, RemoveStaging(r) PROVE Solo'
  <2>1. /\ stands[r] # "idle" /\ staged'[r] = NoVersion /\ row' = row /\ overlapping' = overlapping
        /\ \A q \in Runners : stands'[q] = IF q = r THEN "idle" ELSE stands[q]
    BY <1>8 DEF RemoveStaging, Moves, UploadTypeOK
  <2>2. row.renamed = r /\ \A q \in Runners : stands'[q] = "idle"
    BY <1>0, <2>1, OwnFile
  <2> QED
    BY <1>0, <2>1, <2>2 DEF Solo, Alone, Informed, Working
<1>9. CASE SourceChanges \/ LibraryGainsMovie
  <2>1. /\ UNCHANGED <<stands, asset, took, plex, staged, row, overlapping>>
        /\ held \subseteq held'
    BY <1>9 DEF SourceChanges, LibraryGainsMovie, local
  <2> QED
    BY <2>1 DEF Solo, Alone, Informed
<1>10. CASE Skip \/ UNCHANGED uploadVars
  BY <1>10 DEF Skip, uploadVars, local, Solo, Alone, Informed
<1> QED
  BY <1>1, <1>2, <1>3, <1>4, <1>5, <1>6, <1>7, <1>8, <1>9, <1>10 DEF UploadNext, RunnerSteps

---------------------------------------------------------------------------
(* The record.                                                             *)

\* A record written by runs that overlap is stale.
LEMMA OverlapIsStale ==
  [UploadNext]_uploadVars /\ (overlapping => stale) => (overlapping => stale)'
<1> SUFFICES ASSUME [UploadNext]_uploadVars, overlapping => stale, overlapping' PROVE stale'
  OBVIOUS
<1>1. ASSUME NEW r \in Runners, RunnerSteps(r) \/ Stage(r) \/ NotConnected(r) PROVE stale'
  BY <1>1 DEF RunnerSteps, ReadAsset, Unreadable, Compare, NothingOwed, Upload, Record, Renews,
              NotRecorded, RemoveStaging, Stage, NotConnected
<1>2. CASE SourceChanges \/ LibraryGainsMovie \/ Skip \/ UNCHANGED uploadVars
  <2>1. UNCHANGED <<overlapping, stale>>
    BY <1>2 DEF SourceChanges, LibraryGainsMovie, Skip, uploadVars
  <2> QED
    BY <2>1
<1> QED
  BY <1>1, <1>2 DEF UploadNext

LEMMA SoundKeeps ==
  ASSUME PosterUploadAssumption, UploadInv, [UploadNext]_uploadVars, ~stale'
  PROVE  Recorded' /\ Hashed'
<1>0. /\ UploadTypeOK /\ Versions /\ row \in Row
      /\ ~stale => Solo /\ Recorded /\ Hashed
      /\ \A r \in Runners : asset[r] \in Row /\ took[r] \in Works
  BY VersionsAreNumbers DEF UploadInv, UploadTypeOK, Works
<1>1. ASSUME NEW r \in Runners, Stage(r) PROVE Recorded' /\ Hashed'
  <2>1. ~stale /\ \A q \in Runners : q # r => stands[q] = "idle"
    BY <1>1 DEF Stage
  <2>2. /\ row'.hash = row.hash /\ row'.sourceHash = row.sourceHash /\ row'.libs = row.libs
        /\ UNCHANGED <<held, plex>>
    BY <1>0, <1>1 DEF Stage, Row
  <2>3. \A q \in Runners : stands'[q] \notin {"upload", "record"}
    BY <1>1, <2>1 DEF Stage, Moves, UploadTypeOK
  <2> QED
    BY <1>0, <2>1, <2>2, <2>3 DEF Recorded, Shows, Hashed
<1>2. ASSUME NEW r \in Runners, Solo, stands[r] # "idle", After(r) PROVE Hashed'
  BY <1>0, <1>2, OwnFile, AfterFields DEF Hashed, UploadTypeOK
<1>3. ASSUME NEW r \in Runners, NotConnected(r) \/ Unreadable(r) \/ NotRecorded(r)
      PROVE  Recorded' /\ Hashed'
  <2>1. ~stale /\ stands[r] # "idle" /\ After(r) /\ UNCHANGED <<held, plex, row>>
    BY <1>3 DEF NotConnected, Unreadable, NotRecorded
  <2> QED
    BY <1>0, <1>2, <2>1 DEF Recorded, Shows
<1>4. ASSUME NEW r \in Runners, ReadAsset(r) \/ RemoveStaging(r) PROVE Recorded' /\ Hashed'
  <2>1. ~stale /\ stands[r] # "idle" /\ UNCHANGED <<held, plex, row, took>>
    BY <1>4 DEF ReadAsset, RemoveStaging, Moves
  <2>2. \A q \in Runners : stands'[q] \notin {"upload", "record"}
    BY <1>0, <1>4, <2>1, OwnFile DEF ReadAsset, RemoveStaging, Moves, UploadTypeOK
  <2> QED
    BY <1>0, <2>1, <2>2 DEF Recorded, Shows, Hashed
<1>5. ASSUME NEW r \in Runners, Compare(r) PROVE Recorded' /\ Hashed'
  <2>0. ~stale /\ File(r) = source
    BY <1>5 DEF Compare
  <2>1. /\ ~stale /\ File(r) = source /\ stands[r] = "compare"
        /\ UNCHANGED <<held, plex, staged, row>>
        /\ \A q \in Runners : q # r => stands'[q] = stands[q]
    BY <1>0, <1>5, <2>0 DEF Compare, Moves, UploadTypeOK
  <2>2. File(r) = staged[r] /\ \A q \in Runners : q # r => stands[q] = "idle"
    BY <1>0, <2>1, OwnFile DEF Working
  <2>3. Hashed'
    BY <1>0, <1>5, <2>1, <2>2, Compared DEF Hashed
  <2> QED
    BY <1>0, <2>1, <2>3 DEF Recorded, Shows
<1>6. ASSUME NEW r \in Runners, NothingOwed(r) PROVE Recorded' /\ Hashed'
  <2>1. ~stale /\ stands[r] = "upload" /\ took[r].to = {} /\ After(r) /\ UNCHANGED <<held, plex, staged>>
    BY <1>6 DEF NothingOwed
  <2>2. asset[r] = row /\ row.hash = staged[r] /\ took[r].sourceHash = staged[r]
    BY <1>0, <2>1 DEF Solo, Informed, Hashed, Working
  <2>3. row'.hash = row.hash /\ row'.sourceHash = row.hash /\ row'.libs = row.libs
    BY <1>0, <1>6, <2>2 DEF NothingOwed, Row, Recorded
  <2> QED
    BY <1>0, <1>2, <2>1, <2>3 DEF Recorded, Shows
<1>7. ASSUME NEW r \in Runners, Upload(r) PROVE Recorded' /\ Hashed'
  <2>0. ~stale
    BY <1>7 DEF Upload
  <2>1. /\ ~stale /\ stands[r] = "upload" /\ UNCHANGED <<held, staged, row>>
        /\ stands'[r] = "record"
        /\ \A q \in Runners : q # r => stands'[q] = stands[q]
    BY <1>0, <1>7, <2>0 DEF Upload, Moves, UploadTypeOK
  <2>2. /\ File(r) = staged[r] /\ row.hash <= staged[r]
        /\ \A q \in Runners : q # r => stands[q] = "idle"
    BY <1>0, <2>1, OwnFile DEF Working
  <2>3. \A c \in Copies : plex'[c] = plex[c] \/ plex'[c] >= row.hash
    BY <1>0, <1>7, <2>2, Uploaded DEF Versions
  <2>4. \A n \in row.libs : Shows(n, row.hash)'
    <3> SUFFICES ASSUME NEW n \in row.libs PROVE Shows(n, row.hash)'
      OBVIOUS
    <3>1. PICK d \in held : LibraryOf[d] = n /\ plex[d] >= row.hash
      BY <1>0, <2>1 DEF Recorded, Shows
    <3>2. d \in Copies /\ plex'[d] >= row.hash
      BY <1>0, <2>3, <3>1 DEF UploadTypeOK
    <3> QED
      BY <2>1, <3>1, <3>2 DEF Shows
  <2>5. Hashed'
    BY <1>0, <1>7, <2>1, <2>2, Uploaded DEF Hashed
  <2> QED
    BY <1>0, <2>1, <2>4, <2>5 DEF Recorded
<1>8. ASSUME NEW r \in Runners, Record(r) PROVE Recorded' /\ Hashed'
  <2>1. /\ stands[r] = "record" /\ After(r) /\ UNCHANGED <<held, plex, staged>>
        /\ ~stale \/ Renews(r)
    BY <1>8 DEF Record
  <2>2. Solo
    BY <1>0, <2>1 DEF UploadInv, Renews
  <2>3. /\ asset[r] = row /\ File(r) = staged[r] /\ (~took[r].reset => row.hash = staged[r])
        /\ took[r].to \subseteq held /\ \A c \in took[r].to : plex[c] = staged[r]
    BY <1>0, <2>1, <2>2, OwnFile DEF Solo, Informed, Working
  <2>4. took[r].sourceHash = staged[r]
    BY <1>0, <2>1, <2>3 DEF Hashed, Renews
  <2>5. row'.hash = staged[r] /\ row'.sourceHash = staged[r] /\ row'.libs = Covered(r)
    BY <1>0, <1>8, <2>3, <2>4 DEF Record, Row
  <2>6. \A n \in Covered(r) : Shows(n, staged[r])
    <3>1. ASSUME NEW n \in Names(took[r].to) PROVE Shows(n, staged[r])
      <4>1. staged[r] >= staged[r]
        BY <1>0 DEF Versions
      <4> QED
        BY <2>3, <3>1, <4>1 DEF Names, Shows
    <3>2. ASSUME ~took[r].reset, NEW n \in row.libs PROVE Shows(n, staged[r])
      BY <1>0, <2>1, <2>3, <3>2 DEF Recorded, Renews
    <3> QED
      BY <2>3, <3>1, <3>2 DEF Covered
  <2>7. \A n \in row'.libs : Shows(n, row.hash)'
    BY <2>1, <2>5, <2>6 DEF Shows
  <2>8. Hashed'
    BY <1>2, <2>1, <2>2
  <2> QED
    BY <2>5, <2>7, <2>8 DEF Recorded
<1>9. CASE SourceChanges \/ LibraryGainsMovie \/ Skip \/ UNCHANGED uploadVars
  <2>1. UNCHANGED <<stands, took, plex, staged, row, stale>> /\ held \subseteq held'
    BY <1>9 DEF SourceChanges, LibraryGainsMovie, Skip, uploadVars, local
  <2> QED
    BY <1>0, <2>1 DEF Recorded, Shows, Hashed
<1> QED
  BY <1>1, <1>3, <1>4, <1>5, <1>6, <1>7, <1>8, <1>9 DEF UploadNext, RunnerSteps

---------------------------------------------------------------------------

LEMMA UploadStart == PosterUploadAssumption /\ UploadInit => UploadInv
<1> SUFFICES ASSUME PosterUploadAssumption, UploadInit PROVE UploadInv
  OBVIOUS
<1>1. UploadTypeOK
  <2>1. NoRow \in Row /\ NoWork \in Works /\ 1 \in 1..Instances /\ 1 \in 1..MaxVersions
        /\ 0 \in 0..MaxFaults /\ 0 \in 0..MaxVersions
    BY DEF PosterUploadAssumption, NoRow, Row, NoWork, Works, NoVersion
  <2>2. CopiesOf[1] \subseteq Copies
    BY <2>1 DEF Copies
  <2> QED
    BY <2>1, <2>2 DEF UploadInit, UploadTypeOK, Works, NoVersion
<1>2. NoneNewer
  BY DEF UploadInit, NoneNewer, NoRow, NoVersion
<1>3. Solo /\ Recorded /\ Hashed
  BY DEF UploadInit, Solo, Alone, Recorded, Informed, Hashed, NoRow, NoVersion, Working
<1> QED
  BY <1>1, <1>2, <1>3 DEF UploadInv, UploadInit

LEMMA UploadKeeps ==
  ASSUME PosterUploadAssumption
  PROVE  UploadSpec => []UploadInv
<1>1. UploadInit => UploadInv
  BY UploadStart
<1>2. UploadInv /\ [UploadNext]_uploadVars => UploadInv'
  <2> SUFFICES ASSUME UploadInv, [UploadNext]_uploadVars PROVE UploadInv'
    OBVIOUS
  <2>1. UploadTypeOK' /\ NoneNewer'
    BY TypesKeep, VersionsKeep DEF UploadInv
  <2>2. (overlapping => stale)' /\ (~overlapping' => Solo')
    BY OverlapIsStale, SoloKeeps DEF UploadInv
  <2>3. ~stale' => Recorded' /\ Hashed'
    BY SoundKeeps
  <2> QED
    BY <2>1, <2>2, <2>3 DEF UploadInv
<1> QED
  BY <1>1, <1>2, PTL DEF UploadSpec

\* Every variable of the uploader keeps its type.
THEOREM UploadTypes ==
  ASSUME PosterUploadAssumption
  PROVE  UploadSpec => []UploadTypeOK
<1>1. UploadInv => UploadTypeOK
  BY DEF UploadInv
<1> QED
  BY <1>1, UploadKeeps, PTL

\* For every number of servers and copies, however they share library names, and
\* through servers that do not answer, uploads refused and rows not written: what
\* the scheduled run skips is shown by a copy in every library name that holds the
\* movie, unless the record was written by overlapping runs, or after the source
\* changed between its copy and its hash, and not renewed since.
THEOREM SkippedIsShown ==
  ASSUME PosterUploadAssumption
  PROVE  UploadSpec => []SkippedOnlyIfShown
<1>1. UploadInv => SkippedOnlyIfShown
  <2> SUFFICES ASSUME UploadInv, ~stale, UnchangedUpload, NEW c \in held
               PROVE  \E d \in held : LibraryOf[d] = LibraryOf[c] /\ plex[d] = source
    BY DEF SkippedOnlyIfShown, Shown
  <2>1. Versions /\ LibraryOf[c] \in row.libs /\ held \subseteq Copies
    BY VersionsAreNumbers DEF UploadInv, UploadTypeOK, UnchangedUpload, Names
  <2>2. PICK d \in held : LibraryOf[d] = LibraryOf[c] /\ plex[d] >= source
    BY <2>1 DEF UploadInv, Recorded, Shows, UnchangedUpload
  <2>3. plex[d] <= source /\ plex[d] \in Nat /\ source \in Nat
    BY <2>1 DEF UploadInv, NoneNewer, Versions
  <2> QED
    BY <2>2, <2>3
<1> QED
  BY <1>1, UploadKeeps, PTL

\* Where no two copies are in libraries of one name, the record of names is one of
\* copies: what the scheduled run skips, every copy shows.
THEOREM SkippedIsShownByAll ==
  ASSUME PosterUploadAssumption, \A c, d \in Copies : LibraryOf[c] = LibraryOf[d] => c = d
  PROVE  UploadSpec => [](Quiet /\ UnchangedUpload /\ ~stale => \A c \in held : plex[c] = source)
<1>1. UploadTypeOK /\ SkippedOnlyIfShown =>
        (Quiet /\ UnchangedUpload /\ ~stale => \A c \in held : plex[c] = source)
  BY DEF SkippedOnlyIfShown, Shown, UploadTypeOK
<1> QED
  BY <1>1, SkippedIsShown, UploadTypes, PTL

---------------------------------------------------------------------------
(* PosterRename: the cache under its lock.                                 *)

\* Who rebuilds or matches holds the lock, and once merged the cache stays filled
\* until it is matched, intrusions and another's rebuild apart.
CacheInv ==
  /\ \A r \in Renamers : nameAt[r] \in {"merge", "match"} => lock = r
  /\ nameAt["run"] \in {"sync", "relock", "match"} \/ nameAt["adhoc"] = "match" =>
       cache \/ "intrusion" \in nameBlame \/ \E q \in Renamers : nameAt[q] = "merge"
  /\ UnmatchedOnlyByIntrusion

Writing(r) == nameAt[r] \in {"compare", "open", "copy", "replace", "supersede"}

\* Runs whose renames did not overlap write one at a time, each through a temporary
\* file of its own; faults apart, the row leads to the one poster there is, but for
\* the one a run is about to remove.
FilesInv ==
  /\ \A r \in Renamers : Renaming(r) => Target(r) \in Folders
  /\ "overlap" \notin nameBlame => ~\A r \in Renamers : Writing(r)
  /\ \A f \in Folders, r \in Renamers : tmp[f] = r => nameAt[r] = "copy" /\ f = Target(r)
  /\ "overlap" \notin nameBlame => \A f \in Folders : disk[f] \in {Absent, Whole}
  /\ nameBlame \subseteq {"intrusion"} =>
       /\ \A f \in Folders : disk[f] # Absent =>
            f = nameRow.renamed \/ \E r \in Renamers : Writing(r) /\ f = Previous(r)
       /\ \A r \in Renamers : Writing(r) => nameRow.renamed = Target(r)
       /\ \A r \in Renamers : nameAt[r] = "write" => nameRow.renamed = Previous(r)
       /\ \A r \in Renamers : nameAt[r] \in {"copy", "replace"} => tmp[Target(r)] # Absent

RenameInv == RenameTypeOK /\ CacheInv /\ FilesInv

NamePlaces == {"idle", "rebuild", "merge", "sync", "relock", "match", "choose", "take",
               "write", "compare", "open", "copy", "replace", "supersede"}

LEMMA RenameStarts == PosterRenameAssumption /\ RenameInit => RenameInv
<1> SUFFICES ASSUME PosterRenameAssumption, RenameInit  PROVE RenameInv
  OBVIOUS
<1>1. /\ \A r \in Renamers : nameAt[r] = "idle"
      /\ \A f \in Folders : disk[f] = Absent /\ tmp[f] = Absent
  BY DEF RenameInit
<1>2. RenameTypeOK
  <2>1. nameAt \in [Renamers -> {"idle"}] /\ lock = Absent /\ {cache, refreshing} \subseteq BOOLEAN
    BY DEF RenameInit
  <2>2. seen \in [Renamers -> [folder : {Absent}, previous : {Absent}]]
    BY DEF RenameInit, Nothing
  <2>3. disk \in [Folders -> {Absent}] /\ tmp \in [Folders -> {Absent}] /\ arrFolder \in Folders
        /\ nameRow \in [folder : Folders, status : {"new"}, renamed : {Absent}]
    BY DEF RenameInit, PosterRenameAssumption
  <2>4. moves \in 0..MaxMoves /\ nameFaults \in 0..MaxNameFaults /\ nameBlame = {}
        /\ intrusions \in 0..MaxIntrusions
    BY DEF RenameInit, PosterRenameAssumption
  <2>5. \A r \in Renamers : lock # r
    BY <2>1 DEF Renamers, Absent
  <2> QED BY <2>1, <2>2, <2>3, <2>4, <2>5 DEF RenameTypeOK
<1>3. CacheInv
  BY <1>1 DEF RenameInit, CacheInv, UnmatchedOnlyByIntrusion, Renamers
<1>4. FilesInv
  BY <1>1 DEF FilesInv, Writing, Renaming, Renamers, Absent
<1> QED BY <1>2, <1>3, <1>4 DEF RenameInv

\* What of a step the renames do not notice: the files, the row's path and the runs
\* that rename are as they were.
LEMMA FilesUnmoved ==
  ASSUME FilesInv, UNCHANGED <<disk, tmp>>, nameRow'.renamed = nameRow.renamed,
         nameBlame' \in {nameBlame, nameBlame \cup {"intrusion"}},
         \A r \in Renamers : Renaming(r) \/ Renaming(r)' =>
           nameAt'[r] = nameAt[r] /\ seen'[r] = seen[r]
  PROVE  FilesInv'
<1>1. \A r \in Renamers : /\ Writing(r)' <=> Writing(r)
                          /\ Renaming(r)' <=> Renaming(r)
                          /\ Renaming(r) => nameAt'[r] = nameAt[r] /\ Target(r)' = Target(r)
                                            /\ Previous(r)' = Previous(r)
  BY DEF Renaming, Writing, Target, Previous
<1>2. /\ "overlap" \in nameBlame' <=> "overlap" \in nameBlame
      /\ nameBlame' \subseteq {"intrusion"} => nameBlame \subseteq {"intrusion"}
  OBVIOUS
<1>3. \A r \in Renamers : Renaming(r)' => Target(r)' \in Folders
  BY <1>1 DEF FilesInv
<1>4. "overlap" \notin nameBlame' => ~\A r \in Renamers : Writing(r)'
  BY <1>1, <1>2 DEF FilesInv
<1>5. \A f \in Folders, r \in Renamers : tmp'[f] = r => nameAt'[r] = "copy" /\ f = Target(r)'
  BY <1>1 DEF FilesInv, Renaming
<1>6. "overlap" \notin nameBlame' => \A f \in Folders : disk'[f] \in {Absent, Whole}
  BY <1>2 DEF FilesInv
<1>7. ASSUME nameBlame' \subseteq {"intrusion"}
      PROVE  /\ \A f \in Folders : disk'[f] # Absent =>
                  f = nameRow'.renamed \/ \E r \in Renamers : Writing(r)' /\ f = Previous(r)'
             /\ \A r \in Renamers : Writing(r)' => nameRow'.renamed = Target(r)'
             /\ \A r \in Renamers : nameAt'[r] = "write" => nameRow'.renamed = Previous(r)'
             /\ \A r \in Renamers : nameAt'[r] \in {"copy", "replace"} => tmp'[Target(r)'] # Absent
  <2>1. \A r \in Renamers : Writing(r) => Renaming(r)
    BY DEF Writing, Renaming
  <2>2. \A r \in Renamers : nameAt'[r] \in {"write", "copy", "replace"} =>
          Renaming(r) /\ nameAt'[r] = nameAt[r]
    BY <1>1 DEF Renaming
  <2> QED BY <1>1, <1>2, <1>7, <2>1, <2>2 DEF FilesInv
<1> QED BY <1>3, <1>4, <1>5, <1>6, <1>7 DEF FilesInv

\* A step of one runner's, and what it leaves of the other.
LEMMA OneSteps ==
  ASSUME RenameTypeOK, NEW r \in Renamers, NEW to \in NamePlaces, Goto(r, to)
  PROVE  /\ nameAt' \in [Renamers -> NamePlaces] /\ nameAt'[r] = to
         /\ \A q \in Renamers \ {r} : nameAt'[q] = nameAt[q]
BY DEF RenameTypeOK, NamePlaces, Goto


\* What a runner's step leaves of the other runner.
LEMMA OtherSteps ==
  ASSUME RenameTypeOK, NEW r \in Renamers, NEW to \in NamePlaces, Goto(r, to),
         seen' = seen \/ seen' = [seen EXCEPT ![r] = Nothing] \/ Taken(r)
  PROVE  \A q \in Renamers \ {r} :
           /\ nameAt'[q] = nameAt[q] /\ Target(q)' = Target(q) /\ Previous(q)' = Previous(q)
           /\ (Writing(q)' <=> Writing(q)) /\ (Renaming(q)' <=> Renaming(q))
<1>1. \A q \in Renamers \ {r} : nameAt'[q] = nameAt[q] /\ seen'[q] = seen[q]
  BY OneSteps DEF RenameTypeOK, Taken
<1> QED BY <1>1 DEF Target, Previous, Writing, Renaming

\* The cache's part of a step that neither fills it nor empties it.
LEMMA CacheUnmoved ==
  ASSUME CacheInv, NEW r \in Renamers, nameAt[r] # "merge",
         nameAt'[r] \notin {"merge", "match", "sync", "relock"},
         \A q \in Renamers \ {r} : nameAt'[q] = nameAt[q],
         cache' = cache, nameRow'.status = nameRow.status, nameBlame \subseteq nameBlame',
         lock' = lock \/ (lock = r /\ lock' = Absent)
  PROVE  CacheInv'
<1>1. \A q \in Renamers : nameAt'[q] \in {"merge", "match"} => q # r /\ nameAt[q] \in {"merge", "match"}
  OBVIOUS
<1>2. \A q \in Renamers : nameAt'[q] \in {"merge", "match"} => lock' = q
  BY <1>1 DEF CacheInv
<1>3. nameAt'["run"] \in {"sync", "relock", "match"} \/ nameAt'["adhoc"] = "match" =>
        cache' \/ "intrusion" \in nameBlame' \/ \E q \in Renamers : nameAt'[q] = "merge"
  <2>1. "run" \in Renamers /\ "adhoc" \in Renamers
    BY DEF Renamers
  <2>2. \A q \in Renamers : nameAt[q] = "merge" => nameAt'[q] = "merge"
    OBVIOUS
  <2>3. /\ nameAt'["run"] \in {"sync", "relock", "match"} => nameAt["run"] \in {"sync", "relock", "match"}
        /\ nameAt'["adhoc"] = "match" => nameAt["adhoc"] = "match"
    BY <2>1
  <2> QED BY <2>2, <2>3 DEF CacheInv
<1>4. UnmatchedOnlyByIntrusion'
  BY DEF CacheInv, UnmatchedOnlyByIntrusion
<1> QED BY <1>2, <1>3, <1>4 DEF CacheInv

\* A rebuild finds the lock free and holds it through its merge and its match.
LEMMA CacheMoves ==
  ASSUME RenameTypeOK, CacheInv, NEW r \in Renamers,
         ClearCache(r) \/ Merge(r) \/ (r = "run" /\ Relock)
  PROVE  CacheInv'
<1>1. \A q \in Renamers : nameAt[q] \in {"merge", "match"} => q = r
  <2>1. lock \in {Absent, r}
    BY DEF CacheInv, ClearCache, Merge, Relock, LockIsFree, NameStep
  <2>2. \A q \in Renamers : q # Absent
    BY DEF Renamers, Absent
  <2> QED BY <2>1, <2>2 DEF CacheInv
<1>2. CASE ClearCache(r)
  <2>1. nameAt'[r] = "merge" /\ \A q \in Renamers \ {r} : nameAt'[q] = nameAt[q]
    BY <1>2, OneSteps DEF ClearCache, NameStep, NamePlaces
  <2>2. lock' = r /\ nameRow' = nameRow /\ nameBlame' = nameBlame
    BY <1>2 DEF ClearCache
  <2> QED BY <1>1, <2>1, <2>2 DEF CacheInv, UnmatchedOnlyByIntrusion
<1>3. CASE Merge(r)
  <2>1. nameAt'[r] = (IF r = "run" THEN "sync" ELSE "match")
        /\ \A q \in Renamers \ {r} : nameAt'[q] = nameAt[q]
    BY <1>3, OneSteps DEF Merge, NameStep, NamePlaces
  <2>2. /\ cache' = TRUE /\ (r # "run" => lock' = lock)
        /\ nameRow' = nameRow /\ nameBlame' = nameBlame /\ nameAt[r] = "merge"
    BY <1>3 DEF Merge, NameStep
  <2> QED BY <1>1, <2>1, <2>2 DEF CacheInv, UnmatchedOnlyByIntrusion
<1>4. CASE r = "run" /\ Relock
  <2>1. nameAt'[r] = "match" /\ \A q \in Renamers \ {r} : nameAt'[q] = nameAt[q]
    BY <1>4, OneSteps DEF Relock, NameStep, NamePlaces
  <2>2. /\ lock' = r /\ cache' = cache /\ nameRow' = nameRow /\ nameBlame' = nameBlame
        /\ nameAt[r] = "relock"
    BY <1>4 DEF Relock, NameStep
  <2>3. \A q \in Renamers : nameAt[q] # "merge" /\ nameAt[q] # "match"
    BY <1>1, <2>2
  <2>4. cache' \/ "intrusion" \in nameBlame'
    BY <1>4, <2>2, <2>3 DEF CacheInv
  <2>5. \A q \in Renamers : nameAt'[q] \in {"merge", "match"} => lock' = q
    BY <2>1, <2>2, <2>3
  <2> QED BY <2>2, <2>4, <2>5 DEF CacheInv, UnmatchedOnlyByIntrusion
<1> QED BY <1>2, <1>3, <1>4

\* A match that finds the cache empty finds it emptied by an intrusion.
LEMMA CacheMatched ==
  ASSUME RenameTypeOK, CacheInv, NEW r \in Renamers, Match(r)
  PROVE  CacheInv'
<1>1. nameAt[r] = "match" /\ lock = r /\ cache' = cache /\ nameBlame' = nameBlame
  BY DEF Match, CacheInv
<1>2. \A q \in Renamers : nameAt[q] \in {"merge", "match"} => q = r
  BY <1>1 DEF CacheInv
<1>3. nameAt'[r] \in {"choose", "take", "idle"} /\ \A q \in Renamers \ {r} : nameAt'[q] = nameAt[q]
  <2>1. Goto(r, "choose") \/ Goto(r, "take") \/ Goto(r, "idle")
    BY DEF Match, Ends
  <2> QED BY <2>1, OneSteps DEF NamePlaces
<1>4. cache \/ "intrusion" \in nameBlame
  <2>1. \A q \in Renamers : nameAt[q] # "merge"
    BY <1>1, <1>2
  <2>2. r = "run" \/ r = "adhoc"
    BY DEF Renamers
  <2>3. nameAt["run"] \in {"sync", "relock", "match"} \/ nameAt["adhoc"] = "match"
    BY <1>1, <2>2
  <2> QED BY <2>1, <2>3 DEF CacheInv
<1>5. nameRow'.status = "unmatched" => "intrusion" \in nameBlame'
  <2>1. nameRow'.status = IF cache THEN "matched" ELSE "unmatched"
    BY DEF Match, RenameTypeOK
  <2> QED BY <1>1, <1>4, <2>1
<1>6. \A q \in Renamers : nameAt'[q] \notin {"merge", "match"}
  BY <1>2, <1>3
<1> QED BY <1>1, <1>4, <1>5, <1>6 DEF CacheInv, UnmatchedOnlyByIntrusion

\* The files, one step of rename_file at a time.
LEMMA FilesChosen ==
  ASSUME PosterRenameAssumption, RenameTypeOK, FilesInv, NEW r \in Renamers,
         nameAt[r] \in {"choose", "take"}, Goto(r, "write"), Taken(r),
         UNCHANGED <<nameRow, disk, tmp, nameBlame>>
  PROVE  FilesInv'
<1>1. nameAt'[r] = "write" /\ ~Writing(r) /\ ~Writing(r)'
  BY OneSteps DEF NamePlaces, Writing
<1>2. Target(r)' = nameRow.folder /\ Previous(r)' = nameRow.renamed /\ nameRow.folder \in Folders
  BY DEF Taken, Target, Previous, RenameTypeOK
<1>3. \A q \in Renamers \ {r} :
        /\ nameAt'[q] = nameAt[q] /\ Target(q)' = Target(q) /\ Previous(q)' = Previous(q)
        /\ (Writing(q)' <=> Writing(q)) /\ (Renaming(q)' <=> Renaming(q))
  BY OtherSteps DEF NamePlaces
<1>4. \A q \in Renamers : Renaming(q)' => Target(q)' \in Folders
  BY <1>2, <1>3 DEF FilesInv
<1>5. \A q \in Renamers : Writing(q)' <=> Writing(q)
  BY <1>1, <1>3
<1>6. \A f \in Folders, q \in Renamers : tmp'[f] = q => nameAt'[q] = "copy" /\ f = Target(q)'
  <2> SUFFICES ASSUME NEW f \in Folders, NEW q \in Renamers, tmp'[f] = q
               PROVE  nameAt'[q] = "copy" /\ f = Target(q)'
    OBVIOUS
  <2>1. nameAt[q] = "copy" /\ f = Target(q)
    BY DEF FilesInv
  <2>2. q # r
    BY <2>1
  <2> QED BY <1>3, <2>1, <2>2
<1>7. ASSUME nameBlame' \subseteq {"intrusion"}
      PROVE  /\ \A f \in Folders : disk'[f] # Absent =>
                  f = nameRow'.renamed \/ \E q \in Renamers : Writing(q)' /\ f = Previous(q)'
             /\ \A q \in Renamers : Writing(q)' => nameRow'.renamed = Target(q)'
             /\ \A q \in Renamers : nameAt'[q] = "write" => nameRow'.renamed = Previous(q)'
             /\ \A q \in Renamers : nameAt'[q] \in {"copy", "replace"} => tmp'[Target(q)'] # Absent
  <2>1. \A f \in Folders : disk[f] # Absent =>
          f = nameRow.renamed \/ \E q \in Renamers : Writing(q) /\ f = Previous(q)
    BY <1>7 DEF FilesInv
  <2>2. \A f \in Folders : disk'[f] # Absent =>
          f = nameRow'.renamed \/ \E q \in Renamers : Writing(q)' /\ f = Previous(q)'
    <3> SUFFICES ASSUME NEW f \in Folders, disk'[f] # Absent, f # nameRow'.renamed
                 PROVE  \E q \in Renamers : Writing(q)' /\ f = Previous(q)'
      OBVIOUS
    <3>1. PICK q \in Renamers : Writing(q) /\ f = Previous(q)
      BY <2>1
    <3>2. q # r
      BY <1>1, <3>1
    <3> QED BY <1>3, <3>1, <3>2
  <2>3. \A q \in Renamers : Writing(q)' => nameRow'.renamed = Target(q)'
    BY <1>1, <1>3, <1>7 DEF FilesInv
  <2>4. \A q \in Renamers : nameAt'[q] = "write" => nameRow'.renamed = Previous(q)'
    BY <1>2, <1>3, <1>7 DEF FilesInv
  <2>5. \A q \in Renamers : nameAt'[q] \in {"copy", "replace"} => tmp'[Target(q)'] # Absent
    BY <1>1, <1>3, <1>7 DEF FilesInv
  <2> QED BY <2>2, <2>3, <2>4, <2>5
<1>8. "overlap" \notin nameBlame' => ~\A q \in Renamers : Writing(q)'
  BY <1>5 DEF FilesInv
<1>9. "overlap" \notin nameBlame' => \A f \in Folders : disk'[f] \in {Absent, Whole}
  BY DEF FilesInv
<1> QED BY <1>4, <1>6, <1>7, <1>8, <1>9 DEF FilesInv

\* The path a run writes to the row is where its poster will be, and the path it took
\* from the row is where the poster was.
LEMMA FilesRecorded ==
  ASSUME PosterRenameAssumption, RenameTypeOK, FilesInv, NEW r \in Renamers, WriteRow(r)
  PROVE  FilesInv'
<1>1. nameAt[r] = "write" /\ nameAt'[r] = "compare" /\ Writing(r)' /\ ~Writing(r)
      /\ Renaming(r) /\ Renaming(r)'
  BY OneSteps DEF WriteRow, NameStep, NamePlaces, Writing, Renaming
<1>2. Target(r)' = Target(r) /\ Previous(r)' = Previous(r) /\ nameRow'.renamed = Target(r)
      /\ disk' = disk /\ tmp' = tmp
  BY DEF WriteRow, Target, Previous, nameFiles, RenameTypeOK
<1>3. \A q \in Renamers \ {r} :
        /\ nameAt'[q] = nameAt[q] /\ Target(q)' = Target(q) /\ Previous(q)' = Previous(q)
        /\ (Writing(q)' <=> Writing(q)) /\ (Renaming(q)' <=> Renaming(q))
  BY OtherSteps DEF NamePlaces, WriteRow, NameStep
<1>4. /\ nameBlame \subseteq nameBlame'
      /\ "overlap" \notin nameBlame' => \A q \in Renamers \ {r} : ~Renaming(q)
  <2>1. nameBlame' = nameBlame \cup IF \A q \in Renamers : Renaming(q) THEN {"overlap"} ELSE {}
    BY DEF WriteRow
  <2>2. (\A q \in Renamers : Renaming(q)) <=> \A q \in Renamers \ {r} : Renaming(q)
    BY <1>1
  <2>3. \A q, w \in Renamers \ {r} : q = w
    BY DEF Renamers
  <2> QED BY <2>1, <2>2, <2>3
<1>5. \A q \in Renamers : Writing(q) => Renaming(q)
  BY DEF Writing, Renaming
<1>6. \A q \in Renamers : Renaming(q)' => Target(q)' \in Folders
  BY <1>1, <1>2, <1>3 DEF FilesInv
<1>7. "overlap" \notin nameBlame' => ~\A q \in Renamers : Writing(q)'
  <2>1. Renamers \ {r} # {}
    BY DEF Renamers
  <2> QED BY <1>3, <1>4, <1>5, <2>1
<1>8. \A f \in Folders, q \in Renamers : tmp'[f] = q => nameAt'[q] = "copy" /\ f = Target(q)'
  <2> SUFFICES ASSUME NEW f \in Folders, NEW q \in Renamers, tmp[f] = q
               PROVE  nameAt'[q] = "copy" /\ f = Target(q)'
    BY <1>2
  <2>1. nameAt[q] = "copy" /\ f = Target(q)
    BY DEF FilesInv
  <2> QED BY <1>1, <1>3, <2>1
<1>9. "overlap" \notin nameBlame' => \A f \in Folders : disk'[f] \in {Absent, Whole}
  BY <1>2, <1>4 DEF FilesInv
<1>10. ASSUME nameBlame' \subseteq {"intrusion"}
       PROVE  /\ \A f \in Folders : disk'[f] # Absent =>
                   f = nameRow'.renamed \/ \E q \in Renamers : Writing(q)' /\ f = Previous(q)'
              /\ \A q \in Renamers : Writing(q)' => nameRow'.renamed = Target(q)'
              /\ \A q \in Renamers : nameAt'[q] = "write" => nameRow'.renamed = Previous(q)'
              /\ \A q \in Renamers : nameAt'[q] \in {"copy", "replace"} => tmp'[Target(q)'] # Absent
  <2>1. nameBlame \subseteq {"intrusion"} /\ \A q \in Renamers \ {r} : ~Renaming(q)
    BY <1>4, <1>10
  <2>2. nameRow.renamed = Previous(r)
    BY <1>1, <2>1 DEF FilesInv
  <2>3. \A f \in Folders : disk[f] # Absent => f = Previous(r)
    BY <1>1, <1>5, <2>1, <2>2 DEF FilesInv
  <2>4. \A q \in Renamers \ {r} : ~Writing(q)' /\ nameAt'[q] \notin {"write", "copy", "replace"}
    BY <1>3, <1>5, <2>1 DEF Renaming
  <2> QED BY <1>1, <1>2, <2>3, <2>4
<1> QED BY <1>6, <1>7, <1>8, <1>9, <1>10 DEF FilesInv

\* A run that goes on writing: the temporary file it has open is its own, and what it
\* puts in place is at its target.
LEMMA FilesWritten ==
  ASSUME RenameTypeOK, FilesInv, NEW r \in Renamers, Writing(r),
         NEW to \in {"open", "copy", "replace", "supersede"}, Goto(r, to),
         UNCHANGED <<seen, nameRow, nameBlame>>,
         \A f \in Folders, q \in Renamers : tmp'[f] = q =>
           (q # r /\ tmp[f] = q) \/ (q = r /\ to = "copy" /\ f = Target(r)),
         "overlap" \notin nameBlame => \A f \in Folders : disk'[f] \in {Absent, Whole},
         \A f \in Folders : disk'[f] # Absent => disk[f] # Absent \/ f = Target(r),
         nameBlame \subseteq {"intrusion"} /\ to \in {"copy", "replace"} =>
           tmp'[Target(r)] # Absent
  PROVE  FilesInv'
<1>1. nameAt'[r] = to /\ Writing(r)' /\ Renaming(r) /\ Renaming(r)'
      /\ Target(r)' = Target(r) /\ Previous(r)' = Previous(r)
  BY OneSteps DEF NamePlaces, Writing, Renaming, Target, Previous
<1>2. \A q \in Renamers \ {r} :
        /\ nameAt'[q] = nameAt[q] /\ Target(q)' = Target(q) /\ Previous(q)' = Previous(q)
        /\ (Writing(q)' <=> Writing(q)) /\ (Renaming(q)' <=> Renaming(q))
  BY OtherSteps DEF NamePlaces
<1>3. \A q \in Renamers : Renaming(q)' => Target(q)' \in Folders
  BY <1>1, <1>2 DEF FilesInv
<1>4. "overlap" \notin nameBlame' => ~\A q \in Renamers : Writing(q)'
  BY <1>1, <1>2 DEF FilesInv
<1>5. \A f \in Folders, q \in Renamers : tmp'[f] = q => nameAt'[q] = "copy" /\ f = Target(q)'
  <2> SUFFICES ASSUME NEW f \in Folders, NEW q \in Renamers, tmp'[f] = q
               PROVE  nameAt'[q] = "copy" /\ f = Target(q)'
    OBVIOUS
  <2>1. CASE q # r /\ tmp[f] = q
    BY <1>2, <2>1 DEF FilesInv
  <2>2. CASE q = r /\ to = "copy" /\ f = Target(r)
    BY <1>1, <2>2
  <2> QED BY <2>1, <2>2
<1>6. ASSUME nameBlame' \subseteq {"intrusion"}
      PROVE  /\ \A f \in Folders : disk'[f] # Absent =>
                  f = nameRow'.renamed \/ \E q \in Renamers : Writing(q)' /\ f = Previous(q)'
             /\ \A q \in Renamers : Writing(q)' => nameRow'.renamed = Target(q)'
             /\ \A q \in Renamers : nameAt'[q] = "write" => nameRow'.renamed = Previous(q)'
             /\ \A q \in Renamers : nameAt'[q] \in {"copy", "replace"} => tmp'[Target(q)'] # Absent
  <2>1. \A q \in Renamers \ {r} : ~Writing(q)
    <3>1. ~\A q \in Renamers : Writing(q)
      BY <1>6 DEF FilesInv
    <3>2. \A q, w \in Renamers \ {r} : q = w
      BY DEF Renamers
    <3> QED BY <3>1, <3>2
  <2>2. nameRow.renamed = Target(r)
    BY <1>6 DEF FilesInv
  <2>3. \A f \in Folders : disk[f] # Absent => f = nameRow.renamed \/ f = Previous(r)
    BY <1>6, <2>1 DEF FilesInv
  <2>4. \A q \in Renamers : nameAt'[q] = "write" => nameRow'.renamed = Previous(q)'
    <3>1. \A q \in Renamers : nameAt'[q] = "write" => q # r
      BY <1>1
    <3> QED BY <1>2, <1>6, <3>1 DEF FilesInv
  <2>5. \A q \in Renamers : nameAt'[q] \in {"copy", "replace"} => tmp'[Target(q)'] # Absent
    <3>1. \A q \in Renamers \ {r} : nameAt'[q] \notin {"copy", "replace"}
      BY <1>2, <2>1 DEF Writing
    <3> QED BY <1>1, <1>6, <3>1
  <2>6. \A f \in Folders : disk'[f] # Absent => f = nameRow'.renamed \/ f = Previous(r)'
    BY <1>1, <2>2, <2>3
  <2>7. \A q \in Renamers : Writing(q)' => nameRow'.renamed = Target(q)'
    BY <1>1, <1>2, <2>1, <2>2
  <2> QED BY <1>1, <2>4, <2>5, <2>6, <2>7
<1>7. "overlap" \notin nameBlame' => \A f \in Folders : disk'[f] \in {Absent, Whole}
  OBVIOUS
<1> QED BY <1>3, <1>4, <1>5, <1>6, <1>7 DEF FilesInv

\* A run that ends: it leaves no temporary file open, and no poster but the row's
\* unless a fault is on record.
LEMMA FilesLeft ==
  ASSUME RenameTypeOK, FilesInv, NEW r \in Renamers, Writing(r), Ends(r),
         nameRow' = nameRow, nameBlame' \in {nameBlame, nameBlame \cup {"fileOp"}},
         \A f \in Folders, q \in Renamers : tmp'[f] = q => q # r /\ tmp[f] = q,
         "overlap" \notin nameBlame => \A f \in Folders : disk'[f] \in {Absent, Whole},
         nameBlame' \subseteq {"intrusion"} =>
           \A f \in Folders : disk'[f] # Absent => disk[f] # Absent /\ f \in {Target(r)} \cup
             {g \in Folders : g # Previous(r)}
  PROVE  FilesInv'
<1>1. nameAt'[r] = "idle" /\ ~Writing(r)' /\ ~Renaming(r)' /\ Renaming(r)
  BY OneSteps DEF NamePlaces, Writing, Renaming, Ends
<1>2. \A q \in Renamers \ {r} :
        /\ nameAt'[q] = nameAt[q] /\ Target(q)' = Target(q) /\ Previous(q)' = Previous(q)
        /\ (Writing(q)' <=> Writing(q)) /\ (Renaming(q)' <=> Renaming(q))
  BY OtherSteps DEF NamePlaces, Ends
<1>3. \A q \in Renamers : Renaming(q)' => Target(q)' \in Folders
  BY <1>1, <1>2 DEF FilesInv
<1>4. ~\A q \in Renamers : Writing(q)'
  BY <1>1
<1>5. \A f \in Folders, q \in Renamers : tmp'[f] = q => nameAt'[q] = "copy" /\ f = Target(q)'
  BY <1>2 DEF FilesInv
<1>6. "overlap" \notin nameBlame' => \A f \in Folders : disk'[f] \in {Absent, Whole}
  OBVIOUS
<1>7. ASSUME nameBlame' \subseteq {"intrusion"}
      PROVE  /\ \A f \in Folders : disk'[f] # Absent =>
                  f = nameRow'.renamed \/ \E q \in Renamers : Writing(q)' /\ f = Previous(q)'
             /\ \A q \in Renamers : Writing(q)' => nameRow'.renamed = Target(q)'
             /\ \A q \in Renamers : nameAt'[q] = "write" => nameRow'.renamed = Previous(q)'
             /\ \A q \in Renamers : nameAt'[q] \in {"copy", "replace"} => tmp'[Target(q)'] # Absent
  <2>1. nameBlame \subseteq {"intrusion"}
    BY <1>7
  <2>2. \A q \in Renamers \ {r} : ~Writing(q)
    <3>1. ~\A q \in Renamers : Writing(q)
      BY <2>1 DEF FilesInv
    <3>2. \A q, w \in Renamers \ {r} : q = w
      BY DEF Renamers
    <3> QED BY <3>1, <3>2
  <2>3. nameRow.renamed = Target(r)
    BY <2>1 DEF FilesInv
  <2>4. \A f \in Folders : disk[f] # Absent => f = nameRow.renamed \/ f = Previous(r)
    BY <2>1, <2>2 DEF FilesInv
  <2>5. \A f \in Folders : disk'[f] # Absent => f = nameRow'.renamed
    <3> SUFFICES ASSUME NEW f \in Folders, disk'[f] # Absent  PROVE f = nameRow.renamed
      OBVIOUS
    <3>1. disk[f] # Absent /\ (f = Target(r) \/ f # Previous(r))
      BY <1>7
    <3> QED BY <2>3, <2>4, <3>1
  <2>6. \A q \in Renamers : nameAt'[q] = "write" => nameRow'.renamed = Previous(q)'
    <3>1. \A q \in Renamers : nameAt'[q] = "write" => q # r
      BY <1>1
    <3> QED BY <1>2, <2>1, <3>1 DEF FilesInv
  <2>7. \A q \in Renamers : ~Writing(q)' /\ nameAt'[q] \notin {"copy", "replace"}
    BY <1>1, <1>2, <2>2 DEF Writing
  <2> QED BY <2>5, <2>6, <2>7
<1> QED BY <1>3, <1>4, <1>5, <1>6, <1>7 DEF FilesInv

\* The types, kept by every step.
LEMMA PlacesKept ==
  ASSUME RenameTypeOK, NEW r \in Renamers, NEW to \in NamePlaces, Goto(r, to),
         \/ to # "idle" /\ lock' \in {lock, Absent, r}
         \/ Ends(r)
  PROVE  /\ nameAt' \in [Renamers -> NamePlaces] /\ lock' \in Renamers \cup {Absent}
         /\ \A q \in Renamers : nameAt'[q] = "idle" => lock' # q
<1>1. nameAt' \in [Renamers -> NamePlaces] /\ nameAt'[r] = to
      /\ \A q \in Renamers \ {r} : nameAt'[q] = nameAt[q]
  BY OneSteps
<1>2. lock \in Renamers \cup {Absent} /\ \A q \in Renamers : q # Absent /\ (nameAt[q] = "idle" => lock # q)
  BY DEF RenameTypeOK, Renamers, Absent
<1>3. CASE to # "idle" /\ lock' \in {lock, Absent, r}
  BY <1>1, <1>2, <1>3
<1>4. CASE Ends(r)
  <2>1. lock' = IF lock = r THEN Absent ELSE lock
    BY <1>4 DEF Ends
  <2> QED BY <1>1, <1>2, <2>1
<1> QED BY <1>3, <1>4

LEMMA TypesUnmoved ==
  ASSUME RenameTypeOK,
         nameAt' \in [Renamers -> NamePlaces], lock' \in Renamers \cup {Absent},
         \A q \in Renamers : nameAt'[q] = "idle" => lock' # q,
         UNCHANGED <<arrFolder, budgets>>, {cache', refreshing'} \subseteq BOOLEAN,
         nameRow' \in [folder : Folders, status : {"new", "matched", "unmatched"},
                       renamed : Folders \cup {Absent}],
         seen' \in [Renamers -> [folder : Folders \cup {Absent},
                                 previous : Folders \cup {Absent}]],
         disk' \in [Folders -> {Absent, Whole, Cut} \cup Renamers],
         tmp' \in [Folders -> {Absent, Whole} \cup Renamers],
         nameBlame' \in {nameBlame, nameBlame \cup {"overlap"}}
  PROVE  RenameTypeOK'
<1>1. UNCHANGED <<arrFolder, moves, nameFaults, intrusions>>
      /\ nameBlame' \subseteq {"intrusion", "overlap", "fileOp", "crash"}
  BY DEF budgets, RenameTypeOK
<1> QED BY <1>1 DEF RenameTypeOK, NamePlaces

LEMMA CacheTypes ==
  ASSUME RenameTypeOK, NEW r \in Renamers,
         Start(r) \/ ClearCache(r) \/ Merge(r) \/ Match(r) \/ (r = "run" /\ (SyncArrs \/ Relock))
  PROVE  RenameTypeOK'
<1>1. UNCHANGED <<arrFolder, budgets, disk, tmp, nameBlame>>
  BY DEF Start, ClearCache, Merge, Match, SyncArrs, Relock, nameFiles
<1>2. {cache', refreshing'} \subseteq BOOLEAN
  BY DEF Start, ClearCache, Merge, Match, SyncArrs, Relock, RenameTypeOK
<1>3. nameRow' \in [folder : Folders, status : {"new", "matched", "unmatched"},
                    renamed : Folders \cup {Absent}]
  <2>1. nameRow' = nameRow \/ nameRow' = [nameRow EXCEPT !.folder = arrFolder]
        \/ nameRow' = [nameRow EXCEPT !.status = IF cache THEN "matched" ELSE "unmatched"]
    BY DEF Start, ClearCache, Merge, Match, SyncArrs, Relock
  <2> QED BY <2>1 DEF RenameTypeOK
<1>4. seen' = seen \/ seen' = [seen EXCEPT ![r] = Nothing]
  BY DEF Start, ClearCache, Merge, Match, SyncArrs, Relock, Ends
<1>5. seen' \in [Renamers -> [folder : Folders \cup {Absent}, previous : Folders \cup {Absent}]]
  BY <1>4 DEF RenameTypeOK, Nothing
<1>6. \E to \in NamePlaces :
        Goto(r, to) /\ ((to # "idle" /\ lock' \in {lock, Absent, r}) \/ Ends(r))
  <2>1. CASE Start(r)
    BY <2>1 DEF Start, NameStep, NamePlaces
  <2>2. CASE ClearCache(r)
    BY <2>2 DEF ClearCache, NameStep, NamePlaces
  <2>3. CASE Merge(r)
    <3>1. Goto(r, IF r = "run" THEN "sync" ELSE "match") /\ lock' \in {lock, Absent}
      BY <2>3 DEF Merge, NameStep
    <3> QED BY <3>1 DEF NamePlaces
  <2>4. CASE Match(r)
    <3>1. \/ (Goto(r, "choose") \/ Goto(r, "take")) /\ lock' \in {lock, Absent}
          \/ Ends(r)
      BY <2>4 DEF Match
    <3>2. Ends(r) => Goto(r, "idle")
      BY DEF Ends
    <3> QED BY <3>1, <3>2 DEF NamePlaces
  <2>5. CASE r = "run" /\ SyncArrs
    BY <2>5 DEF SyncArrs, NameStep, NamePlaces
  <2>6. CASE r = "run" /\ Relock
    BY <2>6 DEF Relock, NameStep, NamePlaces
  <2> QED BY <2>1, <2>2, <2>3, <2>4, <2>5, <2>6
<1>7. /\ nameAt' \in [Renamers -> NamePlaces] /\ lock' \in Renamers \cup {Absent}
      /\ \A q \in Renamers : nameAt'[q] = "idle" => lock' # q
  BY <1>6, PlacesKept
<1> QED BY <1>1, <1>2, <1>3, <1>5, <1>7, TypesUnmoved DEF RenameTypeOK

LEMMA WrittenTypes ==
  ASSUME RenameTypeOK, NEW r \in Renamers, Written(r, Whole)
  PROVE  /\ disk' \in [Folders -> {Absent, Whole, Cut} \cup Renamers]
         /\ tmp' \in [Folders -> {Absent, Whole} \cup Renamers]
BY DEF RenameTypeOK, Written

LEMMA FileTypes ==
  ASSUME PosterRenameAssumption, RenameTypeOK, FilesInv, NEW r \in Renamers,
         \/ r = "run" /\ Choose
         \/ r = "adhoc" /\ Take
         \/ WriteRow(r) \/ CompareBytes(r) \/ Open(r) \/ Copy(r) \/ Replace(r)
         \/ RemoveSuperseded(r)
  PROVE  RenameTypeOK'
<1>1. UNCHANGED <<cache, refreshing, arrFolder, budgets>>
      /\ nameBlame' \in {nameBlame, nameBlame \cup {"overlap"}}
  BY DEF Choose, Take, WriteRow, CompareBytes, Open, Copy, Replace, RemoveSuperseded
<1>2. nameRow' \in [folder : Folders, status : {"new", "matched", "unmatched"},
                    renamed : Folders \cup {Absent}]
  <2>1. nameRow' = nameRow \/ (WriteRow(r) /\ nameRow' = [nameRow EXCEPT !.renamed = Target(r)])
    BY DEF Choose, Take, WriteRow, CompareBytes, Open, Copy, Replace, RemoveSuperseded
  <2>2. WriteRow(r) => Target(r) \in Folders
    BY DEF WriteRow, NameStep, FilesInv, Renaming
  <2> QED BY <2>1, <2>2 DEF RenameTypeOK
<1>3. seen' \in [Renamers -> [folder : Folders \cup {Absent}, previous : Folders \cup {Absent}]]
  <2>1. seen' = seen \/ seen' = [seen EXCEPT ![r] = Nothing] \/ Taken(r)
    BY DEF Choose, Take, WriteRow, CompareBytes, Open, Copy, Replace, RemoveSuperseded, Ends
  <2> QED BY <2>1 DEF RenameTypeOK, Nothing, Taken
<1>4. /\ disk' \in [Folders -> {Absent, Whole, Cut} \cup Renamers]
      /\ tmp' \in [Folders -> {Absent, Whole} \cup Renamers]
  <2>1. CASE UNCHANGED <<disk, tmp>>
    BY <2>1 DEF RenameTypeOK
  <2>2. CASE Open(r)
    BY <2>2 DEF Open, Opened, RenameTypeOK
  <2>3. CASE Copy(r)
    BY <2>3, WrittenTypes DEF Copy
  <2>4. CASE Replace(r) /\ tmp[Target(r)] # Absent
    <3>1. Target(r) \in Folders
      BY <2>4 DEF Replace, FilesInv, Renaming
    <3>2. disk' = [disk EXCEPT ![Target(r)] = tmp[Target(r)]] /\ tmp' = [tmp EXCEPT ![Target(r)] = Absent]
      BY <2>4 DEF Replace
    <3> QED BY <3>1, <3>2 DEF RenameTypeOK
  <2>5. CASE RemoveSuperseded(r)
    <3>1. tmp' = tmp /\ (disk' = disk \/ disk' = [disk EXCEPT ![Previous(r)] = Absent])
      BY <2>5 DEF RemoveSuperseded
    <3> QED BY <3>1 DEF RenameTypeOK
  <2> QED
    BY <2>1, <2>2, <2>3, <2>4, <2>5 DEF Choose, Take, WriteRow, CompareBytes, Replace, nameFiles
<1>5. \E to \in NamePlaces : Goto(r, to) /\ ((to # "idle" /\ lock' \in {lock, Absent, r}) \/ Ends(r))
  <2>1. Ends(r) => Goto(r, "idle")
    BY DEF Ends
  <2>2. CASE r = "run" /\ Choose
    BY <2>1, <2>2 DEF Choose, NamePlaces
  <2>3. CASE r = "adhoc" /\ Take
    BY <2>3 DEF Take, NameStep, NamePlaces
  <2>4. CASE WriteRow(r)
    BY <2>4 DEF WriteRow, NameStep, NamePlaces
  <2>5. CASE CompareBytes(r)
    <3>1. Goto(r, IF disk[Target(r)] = Whole THEN "supersede" ELSE "open") /\ lock' = lock
      BY <2>5 DEF CompareBytes, NameStep
    <3> QED BY <3>1 DEF NamePlaces
  <2>6. CASE Open(r) \/ Copy(r)
    BY <2>6 DEF Open, Copy, NameStep, NamePlaces
  <2>7. CASE Replace(r)
    BY <2>1, <2>7 DEF Replace, NamePlaces
  <2>8. CASE RemoveSuperseded(r)
    BY <2>1, <2>8 DEF RemoveSuperseded, NamePlaces
  <2> QED BY <2>2, <2>3, <2>4, <2>5, <2>6, <2>7, <2>8
<1>6. /\ nameAt' \in [Renamers -> NamePlaces] /\ lock' \in Renamers \cup {Absent}
      /\ \A q \in Renamers : nameAt'[q] = "idle" => lock' # q
  BY <1>5, PlacesKept
<1> QED BY <1>1, <1>2, <1>3, <1>4, <1>6, TypesUnmoved DEF RenameTypeOK

\* What a step of rename_file does to the files and to the row.
LEMMA FileSteps ==
  ASSUME PosterRenameAssumption, RenameTypeOK, FilesInv, NEW r \in Renamers,
         WriteRow(r) \/ CompareBytes(r) \/ Open(r) \/ Copy(r) \/ Replace(r) \/ RemoveSuperseded(r)
  PROVE  FilesInv'
<1>1. Writing(r) => Target(r) \in Folders
  BY DEF FilesInv, Writing, Renaming
<1>2. \A f \in Folders, q \in Renamers : tmp[f] = q => nameAt[q] = "copy" /\ f = Target(q)
  BY DEF FilesInv
<1>3. Whole \notin Renamers /\ Absent \notin Renamers /\ Absent # Whole
  BY DEF Renamers, Whole, Absent
<1>4. CASE WriteRow(r)
  BY <1>4, FilesRecorded
<1>5. CASE CompareBytes(r)
  <2>1. nameAt[r] = "compare" /\ Writing(r) /\ UNCHANGED <<seen, nameRow, nameBlame, disk, tmp>>
    BY <1>5 DEF CompareBytes, NameStep, Writing, nameFiles
  <2>2. PICK to \in {"open", "copy", "replace", "supersede"} :
          Goto(r, to) /\ to \notin {"copy", "replace"}
    <3>1. Goto(r, IF disk[Target(r)] = Whole THEN "supersede" ELSE "open")
      BY <1>5 DEF CompareBytes, NameStep
    <3> QED BY <3>1
  <2>3. \A f \in Folders, q \in Renamers : tmp'[f] = q => q # r /\ tmp[f] = q
    BY <1>2, <2>1
  <2>4. "overlap" \notin nameBlame => \A f \in Folders : disk'[f] \in {Absent, Whole}
    BY <2>1 DEF FilesInv
  <2> QED BY <2>1, <2>2, <2>3, <2>4, FilesWritten
<1>6. CASE Open(r)
  <2>1. /\ nameAt[r] = "open" /\ Writing(r) /\ Goto(r, "copy")
        /\ UNCHANGED <<seen, nameRow, nameBlame, disk>>
        /\ tmp' = [tmp EXCEPT ![Target(r)] = r]
    BY <1>6 DEF Open, Opened, NameStep, Writing
  <2>2. \A f \in Folders, q \in Renamers : tmp'[f] = q =>
          (q # r /\ tmp[f] = q) \/ (q = r /\ f = Target(r))
    <3> SUFFICES ASSUME NEW f \in Folders, NEW q \in Renamers, tmp'[f] = q
                 PROVE  (q # r /\ tmp[f] = q) \/ (q = r /\ f = Target(r))
      OBVIOUS
    <3>1. CASE f = Target(r)
      BY <2>1, <3>1 DEF RenameTypeOK
    <3>2. CASE f # Target(r)
      BY <1>2, <2>1, <3>2 DEF RenameTypeOK
    <3> QED BY <3>1, <3>2
  <2>3. "overlap" \notin nameBlame => \A f \in Folders : disk'[f] \in {Absent, Whole}
    BY <2>1 DEF FilesInv
  <2>4. tmp'[Target(r)] # Absent
    BY <1>1, <1>3, <2>1 DEF RenameTypeOK
  <2> QED BY <2>1, <2>2, <2>3, <2>4, FilesWritten
<1>7. CASE Copy(r)
  <2>1. /\ nameAt[r] = "copy" /\ Writing(r) /\ Goto(r, "replace")
        /\ UNCHANGED <<seen, nameRow, nameBlame>>
        /\ \A f \in Folders : /\ disk'[f] = IF disk[f] = r THEN Whole ELSE disk[f]
                              /\ tmp'[f] = IF tmp[f] = r THEN Whole ELSE tmp[f]
    BY <1>7 DEF Copy, Written, NameStep, Writing
  <2>2. \A f \in Folders, q \in Renamers : tmp'[f] = q => q # r /\ tmp[f] = q
    BY <1>3, <2>1
  <2>3. "overlap" \notin nameBlame => \A f \in Folders : disk'[f] \in {Absent, Whole}
    BY <2>1 DEF FilesInv
  <2>4. \A f \in Folders : disk'[f] # Absent => disk[f] # Absent
    BY <1>3, <2>1
  <2>5. nameBlame \subseteq {"intrusion"} => tmp'[Target(r)] # Absent
    <3>1. nameBlame \subseteq {"intrusion"} => tmp[Target(r)] # Absent
      BY <2>1 DEF FilesInv
    <3> QED BY <1>1, <1>3, <2>1, <3>1
  <2> QED BY <2>1, <2>2, <2>3, <2>4, <2>5, FilesWritten
<1>8. CASE Replace(r) /\ tmp[Target(r)] # Absent
  <2>1. /\ nameAt[r] = "replace" /\ Writing(r) /\ Goto(r, "supersede")
        /\ UNCHANGED <<seen, nameRow, nameBlame>>
        /\ disk' = [disk EXCEPT ![Target(r)] = tmp[Target(r)]]
        /\ tmp' = [tmp EXCEPT ![Target(r)] = Absent]
    BY <1>8 DEF Replace, Writing
  <2>2. \A f \in Folders, q \in Renamers : tmp'[f] = q => q # r /\ tmp[f] = q
    <3> SUFFICES ASSUME NEW f \in Folders, NEW q \in Renamers, tmp'[f] = q
                 PROVE  q # r /\ tmp[f] = q
      OBVIOUS
    <3>1. tmp[f] = q
      BY <1>3, <2>1 DEF RenameTypeOK
    <3> QED BY <1>2, <2>1, <3>1
  <2>3. "overlap" \notin nameBlame => tmp[Target(r)] = Whole
    <3> SUFFICES ASSUME "overlap" \notin nameBlame, tmp[Target(r)] # Whole  PROVE FALSE
      OBVIOUS
    <3>1. tmp[Target(r)] \in Renamers
      BY <1>1, <1>8, <2>1 DEF RenameTypeOK
    <3>2. nameAt[tmp[Target(r)]] = "copy" /\ tmp[Target(r)] # r
      BY <1>1, <1>2, <2>1, <3>1
    <3>3. \A q \in Renamers : q = r \/ q = tmp[Target(r)]
      BY <3>1, <3>2 DEF Renamers
    <3>4. \A q \in Renamers : Writing(q)
      BY <2>1, <3>2, <3>3 DEF Writing
    <3> QED BY <3>4 DEF FilesInv
  <2>4. "overlap" \notin nameBlame => \A f \in Folders : disk'[f] \in {Absent, Whole}
    BY <2>1, <2>3 DEF FilesInv, RenameTypeOK
  <2>5. \A f \in Folders : disk'[f] # Absent => disk[f] # Absent \/ f = Target(r)
    BY <2>1 DEF RenameTypeOK
  <2> QED BY <2>1, <2>2, <2>4, <2>5, FilesWritten
<1>9. CASE Replace(r) /\ tmp[Target(r)] = Absent
  <2>1. /\ nameAt[r] = "replace" /\ Writing(r) /\ Ends(r) /\ UNCHANGED <<nameRow, nameBlame, disk, tmp>>
    BY <1>9 DEF Replace, Writing, nameFiles
  <2>2. \A f \in Folders, q \in Renamers : tmp'[f] = q => q # r /\ tmp[f] = q
    BY <1>2, <2>1
  <2>3. ~(nameBlame \subseteq {"intrusion"})
    BY <1>9, <2>1 DEF FilesInv
  <2>4. "overlap" \notin nameBlame => \A f \in Folders : disk'[f] \in {Absent, Whole}
    BY <2>1 DEF FilesInv
  <2> QED BY <2>1, <2>2, <2>3, <2>4, FilesLeft
<1>10. CASE RemoveSuperseded(r)
  <2>1. /\ nameAt[r] = "supersede" /\ Writing(r) /\ Ends(r) /\ UNCHANGED <<nameRow, nameBlame, tmp>>
        /\ disk' = IF Previous(r) \in {Absent, Target(r)} THEN disk
                   ELSE [disk EXCEPT ![Previous(r)] = Absent]
    BY <1>10 DEF RemoveSuperseded, Writing
  <2>2. \A f \in Folders, q \in Renamers : tmp'[f] = q => q # r /\ tmp[f] = q
    BY <1>2, <2>1
  <2>3. \A f \in Folders : disk'[f] \in {disk[f], Absent}
    BY <2>1 DEF RenameTypeOK
  <2>4. "overlap" \notin nameBlame => \A f \in Folders : disk'[f] \in {Absent, Whole}
    BY <2>3 DEF FilesInv
  <2>5. \A f \in Folders : disk'[f] # Absent =>
          disk[f] # Absent /\ f \in {Target(r)} \cup {g \in Folders : g # Previous(r)}
    <3> SUFFICES ASSUME NEW f \in Folders, disk'[f] # Absent
                 PROVE  disk[f] # Absent /\ (f = Target(r) \/ f # Previous(r))
      OBVIOUS
    <3>1. f # Absent
      BY DEF PosterRenameAssumption
    <3> QED BY <2>1, <3>1 DEF RenameTypeOK
  <2> QED BY <2>1, <2>2, <2>4, <2>5, FilesLeft
<1> QED BY <1>4, <1>5, <1>6, <1>7, <1>8, <1>9, <1>10

\* What the renames do not notice of the cache's steps.
LEMMA FilesIgnoreCache ==
  ASSUME RenameTypeOK, FilesInv, NEW r \in Renamers,
         Start(r) \/ ClearCache(r) \/ Merge(r) \/ Match(r) \/ (r = "run" /\ (SyncArrs \/ Relock))
  PROVE  FilesInv'
<1>1. UNCHANGED <<disk, tmp, nameBlame>>
  BY DEF Start, ClearCache, Merge, Match, SyncArrs, Relock, nameFiles
<1>2. nameRow'.renamed = nameRow.renamed
  <2>1. nameRow' = nameRow \/ nameRow' = [nameRow EXCEPT !.folder = arrFolder]
        \/ nameRow' = [nameRow EXCEPT !.status = IF cache THEN "matched" ELSE "unmatched"]
    BY DEF Start, ClearCache, Merge, Match, SyncArrs, Relock
  <2> QED BY <2>1 DEF RenameTypeOK
<1>3. /\ nameAt[r] \in {"idle", "rebuild", "merge", "match", "sync", "relock"}
      /\ \E to \in {"rebuild", "merge", "match", "sync", "relock", "choose", "take", "idle"} : Goto(r, to)
  <2>1. CASE Start(r) \/ ClearCache(r) \/ (r = "run" /\ (SyncArrs \/ Relock))
    BY <2>1 DEF Start, ClearCache, SyncArrs, Relock, NameStep
  <2>2. CASE Merge(r)
    <3>1. nameAt[r] = "merge" /\ Goto(r, IF r = "run" THEN "sync" ELSE "match")
      BY <2>2 DEF Merge, NameStep
    <3> QED BY <3>1
  <2>3. CASE Match(r)
    BY <2>3 DEF Match, Ends
  <2> QED BY <2>1, <2>2, <2>3
<1>4. ~Renaming(r) /\ ~Renaming(r)'
  BY <1>3, OneSteps DEF Renaming, NamePlaces
<1>5. seen' = seen \/ seen' = [seen EXCEPT ![r] = Nothing]
  BY DEF Start, ClearCache, Merge, Match, SyncArrs, Relock, Ends
<1>6. \A q \in Renamers \ {r} : nameAt'[q] = nameAt[q] /\ seen'[q] = seen[q]
  BY <1>3, <1>5, OneSteps DEF RenameTypeOK, NamePlaces
<1>7. \A q \in Renamers : Renaming(q) \/ Renaming(q)' => nameAt'[q] = nameAt[q] /\ seen'[q] = seen[q]
  BY <1>4, <1>6
<1> QED BY <1>1, <1>2, <1>7, FilesUnmoved

\* A failed copy or a crash leaves a cut file only where it lies in place of the
\* poster, which a temporary file is not.
LEMMA FilesAfterFault ==
  ASSUME PosterRenameAssumption, RenameInv,
         (\E r \in Renamers : FileOpFails(r)) \/ RenamerCrash
  PROVE  RenameInv'
<1>1. RenameTypeOK /\ CacheInv /\ FilesInv
  BY DEF RenameInv
<1>2. \A q \in Renamers : q # Absent /\ q # Whole /\ q # Cut
  BY DEF Renamers, Absent, Whole, Cut
<1>3. nameFaults' \in 0..MaxNameFaults /\ UNCHANGED <<cache, arrFolder, nameRow, moves, intrusions>>
      /\ nameBlame' \in {nameBlame \cup {"fileOp"}, nameBlame \cup {"crash"}}
  BY <1>1 DEF FileOpFails, RenamerCrash, RenameTypeOK, PosterRenameAssumption
<1>4. CASE RenamerCrash
  <2>1. /\ \A q \in Renamers : nameAt'[q] = "idle"
        /\ nameAt' \in [Renamers -> {"idle"}] /\ lock' = Absent /\ refreshing' = FALSE
        /\ seen' \in [Renamers -> {Nothing}]
        /\ disk' = [f \in Folders |-> IF disk[f] \in Renamers THEN Cut ELSE disk[f]]
        /\ tmp' \in [Folders -> {Absent}] /\ nameBlame' = nameBlame \cup {"crash"}
    BY <1>4 DEF RenamerCrash
  <2>2. disk' \in [Folders -> {Absent, Whole, Cut} \cup Renamers]
    BY <1>1, <2>1 DEF RenameTypeOK
  <2>3. seen' \in [Renamers -> [folder : Folders \cup {Absent}, previous : Folders \cup {Absent}]]
    BY <2>1 DEF Nothing
  <2>4. RenameTypeOK'
    <3>1. nameAt' \in [Renamers -> NamePlaces] /\ \A q \in Renamers : nameAt'[q] = "idle" => lock' # q
      BY <1>2, <2>1 DEF NamePlaces
    <3>2. nameBlame' \subseteq {"intrusion", "overlap", "fileOp", "crash"}
      BY <1>1, <1>3 DEF RenameTypeOK
    <3>3. /\ {cache', refreshing'} \subseteq BOOLEAN /\ arrFolder' \in Folders
          /\ nameRow' \in [folder : Folders, status : {"new", "matched", "unmatched"},
                           renamed : Folders \cup {Absent}]
          /\ moves' \in 0..MaxMoves /\ intrusions' \in 0..MaxIntrusions
      BY <1>1, <1>3, <2>1 DEF RenameTypeOK
    <3>4. tmp' \in [Folders -> {Absent, Whole} \cup Renamers]
      BY <2>1
    <3> QED BY <1>3, <2>1, <2>2, <2>3, <3>1, <3>2, <3>3, <3>4 DEF RenameTypeOK, NamePlaces
  <2>5. CacheInv'
    BY <1>1, <1>3, <2>1 DEF CacheInv, UnmatchedOnlyByIntrusion, Renamers
  <2>6. \A f \in Folders, q \in Renamers : tmp'[f] # q
    BY <1>2, <2>1
  <2>7. "overlap" \notin nameBlame' => \A f \in Folders : disk'[f] \in {Absent, Whole}
    BY <1>1, <1>2, <2>1 DEF FilesInv
  <2>8. \A q \in Renamers : ~Renaming(q)' /\ ~Writing(q)'
    BY <2>1 DEF Renaming, Writing
  <2>9. FilesInv'
    BY <2>1, <2>6, <2>7, <2>8 DEF FilesInv, Renamers
  <2> QED BY <2>4, <2>5, <2>9 DEF RenameInv
<1>5. ASSUME NEW r \in Renamers, FileOpFails(r)  PROVE RenameInv'
  <2>1. /\ nameAt[r] \in {"open", "copy"} /\ Writing(r) /\ Ends(r) /\ Goto(r, "idle")
        /\ refreshing' = refreshing /\ nameBlame' = nameBlame \cup {"fileOp"}
        /\ disk' = [f \in Folders |-> IF disk[f] = r THEN Cut ELSE disk[f]]
        /\ tmp' = [tmp EXCEPT ![Target(r)] = Absent]
    BY <1>5 DEF FileOpFails, Ends, Writing
  <2>2. nameAt'[r] = "idle" /\ \A q \in Renamers \ {r} : nameAt'[q] = nameAt[q]
    BY <1>1, <2>1, OneSteps DEF NamePlaces
  <2>3. RenameTypeOK'
    <3>1. /\ nameAt' \in [Renamers -> NamePlaces] /\ lock' \in Renamers \cup {Absent}
          /\ \A q \in Renamers : nameAt'[q] = "idle" => lock' # q
      BY <1>1, <2>1, PlacesKept DEF NamePlaces
    <3>2. seen' \in [Renamers -> [folder : Folders \cup {Absent}, previous : Folders \cup {Absent}]]
      BY <1>1, <2>1 DEF Ends, Nothing, RenameTypeOK
    <3>3. /\ disk' \in [Folders -> {Absent, Whole, Cut} \cup Renamers]
          /\ tmp' \in [Folders -> {Absent, Whole} \cup Renamers]
      BY <1>1, <2>1 DEF RenameTypeOK
    <3>4. nameBlame' \subseteq {"intrusion", "overlap", "fileOp", "crash"}
      BY <1>1, <2>1 DEF RenameTypeOK
    <3>5. /\ {cache', refreshing'} \subseteq BOOLEAN /\ arrFolder' \in Folders
          /\ nameRow' \in [folder : Folders, status : {"new", "matched", "unmatched"},
                           renamed : Folders \cup {Absent}]
          /\ moves' \in 0..MaxMoves /\ intrusions' \in 0..MaxIntrusions
      BY <1>1, <1>3, <2>1 DEF RenameTypeOK
    <3> QED BY <1>3, <3>1, <3>2, <3>3, <3>4, <3>5 DEF RenameTypeOK, NamePlaces
  <2>4. CacheInv'
    <3>1. lock' = lock \/ (lock = r /\ lock' = Absent)
      BY <2>1 DEF Ends
    <3> QED BY <1>1, <1>3, <2>1, <2>2, <3>1, CacheUnmoved
  <2>5. FilesInv'
    <3>1. \A f \in Folders, q \in Renamers : tmp[f] = q => nameAt[q] = "copy" /\ f = Target(q)
      BY <1>1 DEF FilesInv
    <3>2. \A f \in Folders, q \in Renamers : tmp'[f] = q => q # r /\ tmp[f] = q
      <4> SUFFICES ASSUME NEW f \in Folders, NEW q \in Renamers, tmp'[f] = q
                   PROVE  q # r /\ tmp[f] = q
        OBVIOUS
      <4>1. f # Target(r) /\ tmp[f] = q
        BY <1>1, <1>2, <2>1 DEF RenameTypeOK
      <4> QED BY <3>1, <4>1
    <3>3. "overlap" \notin nameBlame => \A f \in Folders : disk'[f] \in {Absent, Whole}
      BY <1>1, <1>2, <2>1 DEF FilesInv
    <3>4. ~(nameBlame' \subseteq {"intrusion"})
      BY <2>1
    <3>5. nameRow' = nameRow /\ nameBlame' \in {nameBlame, nameBlame \cup {"fileOp"}}
      BY <1>3, <2>1
    <3> QED BY <1>1, <2>1, <3>2, <3>3, <3>4, <3>5, FilesLeft
  <2> QED BY <2>3, <2>4, <2>5 DEF RenameInv
<1> QED BY <1>4, <1>5

\* Those who touch the cache or the folder from outside.
LEMMA OutsideSteps ==
  ASSUME PosterRenameAssumption, RenameInv,
         Wipe \/ RefreshDeletes \/ RefreshInserts \/ MoveFolder \/ UNCHANGED renameVars
  PROVE  RenameInv'
<1>1. RenameTypeOK /\ CacheInv /\ FilesInv
  BY DEF RenameInv
<1>2. /\ UNCHANGED <<nameAt, lock, nameRow, seen, disk, tmp, nameFaults>>
      /\ nameBlame' \in {nameBlame, nameBlame \cup {"intrusion"}}
      /\ cache' = cache \/ cache' = TRUE \/ "intrusion" \in nameBlame'
  BY DEF Wipe, RefreshDeletes, RefreshInserts, MoveFolder, renameVars, nameFiles, budgets
<1>3. RenameTypeOK'
  <2>1. {cache', refreshing'} \subseteq BOOLEAN
    <3>1. cache' \in {cache, TRUE, FALSE} /\ refreshing' \in {refreshing, TRUE, FALSE}
      BY DEF Wipe, RefreshDeletes, RefreshInserts, MoveFolder, renameVars
    <3> QED BY <1>1, <3>1 DEF RenameTypeOK
  <2>2. arrFolder' \in Folders
    BY <1>1 DEF Wipe, RefreshDeletes, RefreshInserts, MoveFolder, renameVars, RenameTypeOK
  <2>3. moves' \in 0..MaxMoves /\ intrusions' \in 0..MaxIntrusions
    <3>1. moves \in 0..MaxMoves /\ intrusions \in 0..MaxIntrusions
          /\ MaxMoves \in Nat /\ MaxIntrusions \in Nat
      BY <1>1 DEF RenameTypeOK, PosterRenameAssumption
    <3>2. /\ moves' = moves \/ (moves < MaxMoves /\ moves' = moves + 1)
          /\ intrusions' = intrusions
             \/ (intrusions < MaxIntrusions /\ intrusions' = intrusions + 1)
      BY DEF Wipe, RefreshDeletes, RefreshInserts, MoveFolder, renameVars, budgets
    <3> QED BY <3>1, <3>2
  <2> QED BY <1>1, <1>2, <2>1, <2>2, <2>3 DEF RenameTypeOK
<1>4. CacheInv'
  BY <1>1, <1>2 DEF CacheInv, UnmatchedOnlyByIntrusion
<1>5. FilesInv'
  BY <1>1, <1>2, FilesUnmoved
<1> QED BY <1>3, <1>4, <1>5 DEF RenameInv

\* One step of either run's.
LEMMA RunnerKeepsRename ==
  ASSUME PosterRenameAssumption, RenameInv, NEW r \in Renamers,
         \/ NameSteps(r) \/ Start(r)
         \/ r = "run" /\ (SyncArrs \/ Relock \/ Choose)
         \/ r = "adhoc" /\ Take
  PROVE  RenameInv'
<1>1. RenameTypeOK /\ CacheInv /\ FilesInv
  BY DEF RenameInv
<1>2. CASE Start(r) \/ (r = "run" /\ SyncArrs)
  <2>1. RenameTypeOK' /\ FilesInv'
    BY <1>1, <1>2, CacheTypes, FilesIgnoreCache
  <2>2. /\ cache' = cache /\ lock' = lock /\ nameBlame' = nameBlame
        /\ nameRow' = nameRow \/ nameRow' = [nameRow EXCEPT !.folder = arrFolder]
    BY <1>2 DEF Start, SyncArrs
  <2>3. nameRow'.status = nameRow.status
    BY <1>1, <2>2 DEF RenameTypeOK
  <2>4. CASE Start(r)
    <3>1. nameAt[r] = "idle" /\ nameAt'[r] = "rebuild" /\ \A q \in Renamers \ {r} : nameAt'[q] = nameAt[q]
      BY <1>1, <2>4, OneSteps DEF Start, NameStep, NamePlaces
    <3>2. CacheInv'
      BY <1>1, <2>2, <2>3, <3>1, CacheUnmoved
    <3> QED BY <2>1, <3>2 DEF RenameInv
  <2>5. CASE r = "run" /\ SyncArrs
    <3>1. nameAt["run"] = "sync" /\ nameAt'["run"] = "relock" /\ nameAt'["adhoc"] = nameAt["adhoc"]
      BY <1>1, <2>5, OneSteps DEF SyncArrs, NameStep, NamePlaces, Renamers
    <3>2. \A q \in Renamers : q = "run" \/ q = "adhoc"
      BY DEF Renamers
    <3>3. \A q \in Renamers : nameAt'[q] \in {"merge", "match"} => lock' = q
      BY <1>1, <2>2, <3>1, <3>2 DEF CacheInv
    <3>4. cache' \/ "intrusion" \in nameBlame' \/ \E q \in Renamers : nameAt'[q] = "merge"
      BY <1>1, <2>2, <3>1, <3>2 DEF CacheInv
    <3>5. CacheInv'
      BY <1>1, <2>2, <2>3, <3>3, <3>4 DEF CacheInv, UnmatchedOnlyByIntrusion
    <3> QED BY <2>1, <3>5 DEF RenameInv
  <2> QED BY <1>2, <2>4, <2>5
<1>3. CASE ClearCache(r) \/ Merge(r) \/ Match(r) \/ (r = "run" /\ Relock)
  <2>1. RenameTypeOK' /\ FilesInv'
    BY <1>1, <1>3, CacheTypes, FilesIgnoreCache
  <2>2. CacheInv'
    BY <1>1, <1>3, CacheMoves, CacheMatched
  <2> QED BY <2>1, <2>2 DEF RenameInv
<1>4. CASE (r = "run" /\ Choose) \/ (r = "adhoc" /\ Take)
  <2>1. RenameTypeOK'
    BY <1>1, <1>4, FileTypes
  <2>2. /\ nameAt[r] \in {"choose", "take"} /\ UNCHANGED <<cache, nameRow, disk, tmp, nameBlame>>
        /\ \/ Taken(r) /\ Goto(r, "write") /\ lock' = lock
           \/ Ends(r) /\ Goto(r, "idle")
    BY <1>4 DEF Choose, Take, NameStep, nameFiles, Ends
  <2>3. nameAt'[r] \in {"write", "idle"} /\ \A q \in Renamers \ {r} : nameAt'[q] = nameAt[q]
    BY <1>1, <2>2, OneSteps DEF NamePlaces
  <2>4. CacheInv'
    <3>1. lock' = lock \/ (lock = r /\ lock' = Absent)
      BY <2>2 DEF Ends
    <3> QED BY <1>1, <2>2, <2>3, <3>1, CacheUnmoved
  <2>5. CASE Taken(r) /\ Goto(r, "write")
    <3>1. FilesInv'
      BY <1>1, <2>2, <2>5, FilesChosen
    <3> QED BY <2>1, <2>4, <3>1 DEF RenameInv
  <2>6. CASE Ends(r) /\ Goto(r, "idle")
    <3>1. nameAt'[r] = "idle"
      BY <1>1, <2>6, OneSteps DEF NamePlaces
    <3>2. \A q \in Renamers \ {r} : seen'[q] = seen[q]
      BY <1>1, <2>6 DEF Ends, RenameTypeOK
    <3>3. \A q \in Renamers : Renaming(q) \/ Renaming(q)' => nameAt'[q] = nameAt[q] /\ seen'[q] = seen[q]
      BY <2>2, <2>3, <3>1, <3>2 DEF Renaming
    <3>4. FilesInv'
      BY <1>1, <2>2, <3>3, FilesUnmoved
    <3> QED BY <2>1, <2>4, <3>4 DEF RenameInv
  <2> QED BY <2>2, <2>5, <2>6
<1>5. CASE WriteRow(r) \/ CompareBytes(r) \/ Open(r) \/ Copy(r) \/ Replace(r) \/ RemoveSuperseded(r)
  <2>1. RenameTypeOK' /\ FilesInv'
    BY <1>1, <1>5, FileTypes, FileSteps
  <2>2. Renaming(r)
    BY <1>5 DEF WriteRow, CompareBytes, Open, Copy, Replace, RemoveSuperseded, NameStep, Renaming
  <2>3. /\ cache' = cache /\ nameBlame \subseteq nameBlame'
        /\ lock' = lock \/ (lock = r /\ lock' = Absent)
        /\ nameRow' = nameRow \/ nameRow' = [nameRow EXCEPT !.renamed = Target(r)]
    BY <1>5 DEF WriteRow, CompareBytes, Open, Copy, Replace, RemoveSuperseded, Ends
  <2>4. \E to \in {"compare", "open", "copy", "replace", "supersede", "idle"} : Goto(r, to)
    <3>1. CASE CompareBytes(r)
      <4>1. Goto(r, IF disk[Target(r)] = Whole THEN "supersede" ELSE "open")
        BY <3>1 DEF CompareBytes, NameStep
      <4> QED BY <4>1
    <3>2. CASE WriteRow(r) \/ Open(r) \/ Copy(r)
      BY <3>2 DEF WriteRow, Open, Copy, NameStep
    <3>3. CASE Replace(r) \/ RemoveSuperseded(r)
      BY <3>3 DEF Replace, RemoveSuperseded, Ends
    <3> QED BY <1>5, <3>1, <3>2, <3>3
  <2>5. /\ nameAt'[r] \in {"compare", "open", "copy", "replace", "supersede", "idle"}
        /\ \A q \in Renamers \ {r} : nameAt'[q] = nameAt[q]
    BY <1>1, <2>4, OneSteps DEF NamePlaces
  <2>6. nameRow'.status = nameRow.status /\ nameAt[r] # "merge"
    BY <1>1, <2>2, <2>3 DEF RenameTypeOK, Renaming
  <2>7. CacheInv'
    BY <1>1, <2>3, <2>5, <2>6, CacheUnmoved
  <2> QED BY <2>1, <2>7 DEF RenameInv
<1> QED BY <1>2, <1>3, <1>4, <1>5 DEF NameSteps

LEMMA RenameKeeps ==
  PosterRenameAssumption /\ RenameInv /\ [RenameNext]_renameVars => RenameInv'
<1> SUFFICES ASSUME PosterRenameAssumption, RenameInv, [RenameNext]_renameVars  PROVE RenameInv'
  OBVIOUS
<1>1. "run" \in Renamers /\ "adhoc" \in Renamers
  BY DEF Renamers
<1>2. CASE RenameRunSteps
  BY <1>1, <1>2, RunnerKeepsRename DEF RenameRunSteps
<1>3. CASE RenameAdhocSteps \/ Start("adhoc")
  BY <1>1, <1>3, RunnerKeepsRename DEF RenameAdhocSteps
<1>4. CASE (\E r \in Renamers : FileOpFails(r)) \/ RenamerCrash
  BY <1>4, FilesAfterFault
<1>5. CASE Wipe \/ RefreshDeletes \/ RefreshInserts \/ MoveFolder \/ UNCHANGED renameVars
  BY <1>5, OutsideSteps
<1> QED BY <1>2, <1>3, <1>4, <1>5 DEF RenameNext

LEMMA RenameInvariant == PosterRenameAssumption /\ RenameSpec => []RenameInv
<1> SUFFICES ASSUME PosterRenameAssumption  PROVE RenameSpec => []RenameInv
  OBVIOUS
<1>1. RenameInit => RenameInv
  BY RenameStarts
<1>2. RenameInv /\ [RenameNext]_renameVars => RenameInv'
  BY RenameKeeps
<1> QED BY <1>1, <1>2, PTL DEF RenameSpec

\* The variables of Poster Renamerr keep their types; no run ends holding the lock.
THEOREM RenameTypes == PosterRenameAssumption /\ RenameSpec => []RenameTypeOK
<1>1. RenameInv => RenameTypeOK
  BY DEF RenameInv
<1> QED BY <1>1, RenameInvariant, PTL

\* However often the movie's folder is renamed, and whichever steps of the two runs,
\* failed copies and crashes fall between which: a movie with a poster is recorded as
\* unmatched only after an intrusion, no poster is left behind where the row does not
\* point but by a fault or two runs that renamed at once, and only those cut one short.
THEOREM RenamedIsSound == PosterRenameAssumption /\ RenameSpec => []DiskIsSound
<1>1. RenameInv => DiskIsSound
  <2> SUFFICES ASSUME RenameInv  PROVE DiskIsSound
    OBVIOUS
  <2>1. RenameTypeOK /\ CacheInv /\ FilesInv
    BY DEF RenameInv
  <2>2. UnmatchedOnlyByIntrusion
    BY <2>1 DEF CacheInv
  <2>3. StrandedOnlyByFaults
    <3> SUFFICES ASSUME \A r \in Renamers : ~Renaming(r), NEW f \in Folders,
                        disk[f] # Absent, f # nameRow.renamed, nameBlame \ {"intrusion"} = {}
                 PROVE  FALSE
      BY DEF StrandedOnlyByFaults
    <3>1. nameBlame \subseteq {"intrusion"} /\ \A r \in Renamers : ~Writing(r)
      BY DEF Writing, Renaming
    <3> QED BY <2>1, <3>1 DEF FilesInv
  <2>4. TruncatedOnlyByOverlap
    <3>1. Cut # Absent /\ Cut # Whole
      BY DEF Cut, Absent, Whole
    <3> QED BY <2>1, <3>1 DEF FilesInv, TruncatedOnlyByOverlap
  <2> QED BY <2>2, <2>3, <2>4 DEF DiskIsSound
<1> QED BY <1>1, RenameInvariant, PTL

---------------------------------------------------------------------------
(* PosterBloat: what a run may judge by.                                   *)

\* The database: what has been in use all along is in use, and without Plex the file
\* says all there is to say.
PlexInv ==
  /\ settings.ignoreRunning => settings.local
  /\ sinceStart \subseteq Used /\ sinceCopy \subseteq Used
  /\ ~running => main = uses

\* A whole copy, and what is read of it, names every image in use since it was taken,
\* unless it was taken without the log.
CopyInv ==
  /\ copy.whole => behind \/ sinceCopy \subseteq UsedIn(copy.uses)
  /\ passAt = "scan" => inUse = {} \/ behind \/ sinceCopy \subseteq inUse
  /\ passAt = "each" => behind \/ sinceCopy \cap left = {}

\* A run judges by a copy of its own, taken while Plex's file was whole.
OwnCopy == ~settings.reuse /\ ~settings.ignoreRunning
StartInv ==
  OwnCopy =>
    /\ passAt = "copy" => sinceStart \subseteq UsedIn(main)
    /\ passAt = "query" /\ copy.whole => sinceStart \subseteq UsedIn(copy.uses)
    /\ passAt = "scan" => inUse = {} \/ sinceStart \subseteq inUse
    /\ passAt = "each" => sinceStart \cap left = {}

\* A restore has in hand all that is kept, until one fails; a request has found its
\* image unused.
RestoreInv ==
  /\ passAt = "restore" /\ ~failed => kept \subseteq left
  /\ deleting # NoImage /\ deleting \in Used => raced

PassInv == PassTypeOK /\ PlexInv /\ CopyInv /\ StartInv /\ RestoreInv /\ ImagesAreSafe

PassPlaces == {"idle", "check", "copy", "download", "query", "scan", "each", "restore"}

CopyStates == [uses : Uses, there : BOOLEAN, whole : BOOLEAN, young : BOOLEAN]

LEMMA UsedAreImages == ASSUME NEW db \in Uses  PROVE UsedIn(db) \subseteq Images
BY DEF Uses, UsedIn

LEMMA UsedByPick ==
  ASSUME NEW db \in Uses, NEW c \in Columns, NEW i \in Images
  PROVE  /\ [db EXCEPT ![c] = i] \in Uses
         /\ UsedIn([db EXCEPT ![c] = i]) \subseteq UsedIn(db) \cup {i}
BY DEF Uses, UsedIn

\* PassTypeOK, one variable at a time.
LEMMA PassTypesAre ==
  ASSUME PassTypeOK
  PROVE  /\ settings \in Settings /\ uses \in Uses /\ main \in Uses
         /\ copy \in CopyStates /\ running \in BOOLEAN /\ hasRestore \in BOOLEAN /\ failed \in BOOLEAN
         /\ behind \in BOOLEAN /\ raced \in BOOLEAN
         /\ images \subseteq Images /\ kept \subseteq Images /\ inUse \subseteq Images
         /\ left \subseteq Images /\ sinceCopy \subseteq Images /\ sinceStart \subseteq Images
         /\ owed \subseteq Images
         /\ passAt \in PassPlaces /\ mode \in Modes /\ deleting \in Images \cup {NoImage}
         /\ picks \in 0..MaxPicks /\ passFaults \in 0..MaxPassFaults
         /\ wronged \subseteq {"misread", "stale", "deleted"}
BY DEF PassTypeOK, PassPlaces, CopyStates

LEMMA PassTypesNext ==
  ASSUME settings' \in Settings, uses' \in Uses, main' \in Uses,
         copy' \in CopyStates, running' \in BOOLEAN, hasRestore' \in BOOLEAN, failed' \in BOOLEAN,
         behind' \in BOOLEAN, raced' \in BOOLEAN,
         images' \subseteq Images, kept' \subseteq Images, inUse' \subseteq Images,
         left' \subseteq Images, sinceCopy' \subseteq Images, sinceStart' \subseteq Images,
         owed' \subseteq Images,
         passAt' \in PassPlaces, mode' \in Modes, deleting' \in Images \cup {NoImage},
         picks' \in 0..MaxPicks, passFaults' \in 0..MaxPassFaults,
         wronged' \subseteq {"misread", "stale", "deleted"}
  PROVE  PassTypeOK'
BY DEF PassTypeOK, PassPlaces, CopyStates

LEMMA PassStarts == PosterBloatAssumption /\ PassInit => PassInv
<1> SUFFICES ASSUME PosterBloatAssumption, PassInit  PROVE PassInv
  OBVIOUS
<1>1. PassTypeOK
  <2>1. copy \in CopyStates
    BY DEF PassInit, NoCopy, Uses, CopyStates
  <2>2. /\ settings \in Settings /\ uses \in Uses /\ main \in Uses /\ running \in BOOLEAN
        /\ picks \in 0..MaxPicks /\ passFaults \in 0..MaxPassFaults
        /\ passAt \in PassPlaces /\ mode \in Modes /\ images = Images
    BY DEF PassInit, PosterBloatAssumption, PassPlaces, Modes
  <2>3. /\ hasRestore = FALSE /\ failed = FALSE /\ behind = FALSE /\ raced = FALSE
        /\ kept = {} /\ inUse = {} /\ left = {} /\ sinceCopy = {} /\ sinceStart = {} /\ owed = {}
        /\ wronged = {} /\ deleting = NoImage
    BY DEF PassInit
  <2> QED BY <2>1, <2>2, <2>3 DEF PassTypeOK, PassPlaces, CopyStates
<1>2. PlexInv /\ CopyInv /\ StartInv /\ RestoreInv /\ ImagesAreSafe
  BY DEF PassInit, PlexInv, CopyInv, StartInv, RestoreInv, NoCopy, ImagesAreSafe, InUseIsSpared,
         MovedIsKept
<1> QED BY <1>1, <1>2 DEF PassInv

\* Plex: what it goes on using it uses, and nothing of the run moves.
LEMMA PlexKeepsPass ==
  ASSUME PosterBloatAssumption, PassInv,
         \/ \E c \in Columns, i \in Images : Pick(c, i) \/ SetActive(c, i)
         \/ Checkpoint \/ StartsOrStops
  PROVE  PassInv'
<1>1. PassTypeOK /\ PlexInv /\ CopyInv /\ StartInv /\ RestoreInv /\ ImagesAreSafe
  BY DEF PassInv
<1>2. /\ UNCHANGED <<settings, hasRestore, kept, copy, passRun, deleting, passFaults, behind,
                     wronged, owed>>
      /\ sinceCopy' \subseteq sinceCopy /\ sinceStart' \subseteq sinceStart
  BY DEF Pick, SetActive, Checkpoint, StartsOrStops, imageFiles, since, passHistory
<1>3. CASE Checkpoint \/ StartsOrStops
  <2>1. /\ UNCHANGED <<uses, images, picks, raced, sinceCopy, sinceStart>> /\ main' = uses
        /\ running' \in {running, ~running}
    BY <1>3 DEF Checkpoint, StartsOrStops, imageFiles, since, passHistory
  <2>2. PassTypeOK'
    BY <1>1, <1>2, <2>1, PassTypesAre, PassTypesNext DEF passRun
  <2>3. PlexInv'
    BY <1>1, <1>2, <2>1 DEF PlexInv, Used
  <2>4. CopyInv' /\ RestoreInv' /\ ImagesAreSafe'
    BY <1>1, <1>2, <2>1 DEF CopyInv, RestoreInv, ImagesAreSafe, InUseIsSpared, MovedIsKept, Used,
                            passRun
  <2>5. StartInv'
    <3>1. sinceStart' \subseteq UsedIn(main')
      BY <1>1, <2>1 DEF PlexInv, Used
    <3> QED BY <1>1, <1>2, <2>1, <3>1 DEF StartInv, OwnCopy, passRun
  <2> QED BY <2>2, <2>3, <2>4, <2>5 DEF PassInv
<1>4. ASSUME NEW c \in Columns, NEW i \in Images, Pick(c, i)  PROVE PassInv'
  <2>1. /\ UNCHANGED <<main, running>> /\ running
        /\ picks < MaxPicks /\ picks' = picks + 1 /\ images' = images \cup {i}
        /\ uses' = [uses EXCEPT ![c] = i] /\ raced' = (raced \/ i = deleting)
        /\ sinceCopy' = sinceCopy \cap Used' /\ sinceStart' = sinceStart \cap Used'
    BY <1>4 DEF Pick, Used
  <2>2. uses' \in Uses /\ Used' \subseteq Used \cup {i}
    BY <1>1, <2>1, PassTypesAre, UsedByPick DEF Used
  <2>3. PassTypeOK'
    <3>1. picks' \in 0..MaxPicks
      BY <1>1, <2>1, PassTypesAre DEF PosterBloatAssumption
    <3>2. images' \subseteq Images /\ sinceCopy' \subseteq Images /\ sinceStart' \subseteq Images
      BY <1>1, <1>2, <2>1, PassTypesAre
    <3>3. raced' \in BOOLEAN
      BY <2>1
    <3> QED BY <1>1, <1>2, <2>1, <2>2, <3>1, <3>2, <3>3, PassTypesAre, PassTypesNext DEF passRun
  <2>4. PlexInv'
    BY <1>1, <1>2, <2>1 DEF PlexInv
  <2>5. CopyInv' /\ StartInv'
    BY <1>1, <1>2, <2>1 DEF CopyInv, StartInv, OwnCopy, passRun
  <2>6. RestoreInv' /\ ImagesAreSafe'
    BY <1>1, <1>2, <2>1, <2>2 DEF RestoreInv, ImagesAreSafe, InUseIsSpared, MovedIsKept, passRun
  <2> QED BY <2>3, <2>4, <2>5, <2>6 DEF PassInv
<1> QED BY <1>3, <1>4 DEF SetActive

\* A fault the bound allows.
LEMMA FaultIsCounted ==
  ASSUME PosterBloatAssumption, passFaults \in 0..MaxPassFaults, Fault \/ UNCHANGED passFaults
  PROVE  passFaults' \in 0..MaxPassFaults
BY DEF PosterBloatAssumption, Fault

\* What of the run's way to its copy leaves all else alone.
LEMMA JudgeTypes ==
  ASSUME PosterBloatAssumption, PassTypeOK,
         UNCHANGED <<settings, plexVars, imageFiles, deleting, picks, raced, wronged, owed>>,
         Fault \/ UNCHANGED passFaults,
         copy' = copy \/ copy' \in CopyStates,
         passAt' \in PassPlaces, mode' \in Modes, inUse' \subseteq Images, left' \subseteq Images,
         failed' \in BOOLEAN, sinceCopy' \subseteq Images, sinceStart' \subseteq Images,
         behind' \in BOOLEAN
  PROVE  PassTypeOK'
<1>1. passFaults' \in 0..MaxPassFaults
  BY FaultIsCounted, PassTypesAre
<1>2. copy' \in CopyStates
  BY PassTypesAre
<1>3. UNCHANGED <<settings, uses, main, running, images, hasRestore, kept, deleting, picks,
                  raced, wronged, owed>>
  BY DEF plexVars, imageFiles
<1> QED BY <1>1, <1>2, <1>3, PassTypesAre, PassTypesNext

\* A run's beginning, and its check for a Plex that runs.
LEMMA BeginKeepsPass ==
  ASSUME PosterBloatAssumption, PassInv, (\E m \in Modes : Begin(m)) \/ CheckRunning \/ CopyAges
  PROVE  PassInv'
<1>1. PassTypeOK /\ PlexInv /\ CopyInv /\ StartInv /\ RestoreInv /\ ImagesAreSafe
  BY DEF PassInv
<1>2. UNCHANGED <<settings, plexVars, imageFiles, deleting, picks, passFaults, sinceCopy, behind,
                  raced, wronged, owed>>
  BY DEF Begin, CheckRunning, CopyAges, since, passHistory
<1>3. UNCHANGED <<uses, main, running, images, hasRestore, kept>>
  BY <1>2 DEF plexVars, imageFiles
<1>4. Used \subseteq Images
  BY <1>1, PassTypesAre, UsedAreImages DEF Used
<1>5. ImagesAreSafe'
  BY <1>1, <1>2, <1>3 DEF ImagesAreSafe, InUseIsSpared, MovedIsKept
<1>6. ASSUME NEW m \in Modes, Begin(m)  PROVE PassInv'
  <2>1. /\ passAt' = IF MayReuse THEN "query" ELSE IF settings.local THEN "check" ELSE "download"
        /\ mode' = m /\ sinceStart' = Used
        /\ UNCHANGED <<copy, inUse, left, failed>>
    BY <1>6 DEF Begin
  <2>2. passAt' \in {"query", "check", "download"} /\ (OwnCopy => passAt' \in {"check", "download"})
    BY <2>1 DEF MayReuse, OwnCopy
  <2>3. PassTypeOK'
    BY <1>1, <1>2, <1>4, <2>1, <2>2, JudgeTypes, PassTypesAre DEF PassPlaces
  <2>4. PlexInv' /\ CopyInv' /\ StartInv' /\ RestoreInv'
    BY <1>1, <1>2, <1>3, <2>1, <2>2 DEF PlexInv, CopyInv, StartInv, RestoreInv, OwnCopy, Used
  <2> QED BY <1>5, <2>3, <2>4 DEF PassInv
<1>7. CASE CheckRunning
  <2>1. /\ UNCHANGED <<copy, sinceStart>>
        /\ IF MayCopy THEN Goes("copy") ELSE Rests
    BY <1>7 DEF CheckRunning, since
  <2>2. /\ passAt' \in {"copy", "idle"} /\ mode' \in {mode, "report"}
        /\ inUse' \in {inUse, {}} /\ left' \in {left, {}} /\ failed' \in {failed, FALSE}
        /\ passAt' = "copy" => MayCopy
    BY <2>1 DEF Goes, Rests
  <2>3. PassTypeOK'
    BY <1>1, <1>2, <2>1, <2>2, JudgeTypes, PassTypesAre DEF PassPlaces, Modes
  <2>4. PlexInv' /\ CopyInv' /\ RestoreInv'
    BY <1>1, <1>2, <1>3, <2>1, <2>2 DEF PlexInv, CopyInv, RestoreInv, Used
  <2>5. StartInv'
    <3>1. OwnCopy /\ passAt' = "copy" => sinceStart \subseteq UsedIn(main)
      BY <1>1, <2>2 DEF OwnCopy, MayCopy, PlexInv, Used
    <3> QED BY <1>2, <1>3, <2>1, <2>2, <3>1 DEF StartInv, OwnCopy
  <2> QED BY <1>5, <2>3, <2>4, <2>5 DEF PassInv
<1>8. CASE CopyAges
  <2>1. /\ UNCHANGED <<passAt, mode, inUse, left, failed, sinceStart>>
        /\ copy' = [copy EXCEPT !.young = FALSE] /\ copy.young
    BY <1>8 DEF CopyAges, passRun, since
  <2>2. copy' \in CopyStates /\ copy'.uses = copy.uses /\ copy'.whole = copy.whole
    BY <1>1, <2>1, PassTypesAre DEF CopyStates
  <2>3. PassTypeOK'
    BY <1>1, <1>2, <2>1, <2>2, JudgeTypes, PassTypesAre
  <2>4. PlexInv' /\ CopyInv' /\ StartInv' /\ RestoreInv'
    BY <1>1, <1>2, <1>3, <2>1, <2>2 DEF PlexInv, CopyInv, StartInv, RestoreInv, OwnCopy, Used
  <2> QED BY <1>5, <2>3, <2>4 DEF PassInv
<1> QED BY <1>6, <1>7, <1>8

LEMMA CopiesAreCopies ==
  ASSUME NEW db \in Uses, NEW young \in BOOLEAN
  PROVE  /\ Copied(db, young) => copy' \in CopyStates /\ copy'.whole /\ copy'.uses = db
         /\ Torn(db) => copy' \in CopyStates /\ ~copy'.whole
<1>1. ASSUME Copied(db, young)  PROVE copy' \in CopyStates /\ copy'.whole = TRUE /\ copy'.uses = db
  <2>1. copy' = [uses |-> db, there |-> TRUE, whole |-> TRUE, young |-> young]
    BY <1>1 DEF Copied
  <2> QED BY <2>1 DEF CopyStates
<1>2. ASSUME Torn(db)  PROVE copy' \in CopyStates /\ copy'.whole = FALSE
  <2>1. copy' = [uses |-> db, there |-> TRUE, whole |-> FALSE, young |-> TRUE]
    BY <1>2 DEF Torn
  <2> QED BY <2>1 DEF CopyStates
<1> QED BY <1>1, <1>2

\* The copy: torn, or of what Plex uses but for what the log has beside a file copied
\* while Plex runs.
LEMMA CopyKeepsPass ==
  ASSUME PosterBloatAssumption, PassInv, CopyLocal \/ Download
  PROVE  PassInv'
<1>1. PassTypeOK /\ PlexInv /\ CopyInv /\ StartInv /\ RestoreInv /\ ImagesAreSafe
  BY DEF PassInv
<1>2. UNCHANGED <<settings, plexVars, imageFiles, deleting, picks, sinceStart, raced, wronged,
                  owed>>
  BY DEF CopyLocal, Download
<1>3. UNCHANGED <<uses, main, running, images, hasRestore, kept>>
  BY <1>2 DEF plexVars, imageFiles
<1>4. uses \in Uses /\ main \in Uses /\ Used \subseteq Images
  BY <1>1, PassTypesAre, UsedAreImages DEF Used
<1>5. passAt \in {"copy", "download"} /\ (CopyLocal => passAt = "copy")
  BY DEF CopyLocal, Download
<1>6. passAt' \in {"query", "idle"} /\ mode' \in {mode, "report"}
      /\ inUse' \in {inUse, {}} /\ left' \in {left, {}} /\ failed' \in {failed, FALSE}
      /\ (Fault \/ UNCHANGED passFaults)
  BY DEF CopyLocal, Download, Goes, Rests
<1>7. \/ /\ copy' = copy \/ (copy' \in CopyStates /\ ~copy'.whole)
         /\ UNCHANGED <<sinceCopy, behind>> /\ (passAt' = "query" => ~copy'.whole)
      \/ /\ CopyLocal /\ copy' \in CopyStates /\ copy'.uses = main
         /\ sinceCopy' = Used /\ behind' = (main # uses)
      \/ /\ Download /\ copy' \in CopyStates /\ copy'.uses = uses
         /\ sinceCopy' = Used /\ behind' = FALSE
  <2>1. CASE CopyLocal
    BY <1>4, <2>1, CopiesAreCopies DEF CopyLocal, Rests
  <2>2. CASE Download
    BY <1>4, <2>2, CopiesAreCopies DEF Download, Rests
  <2> QED BY <2>1, <2>2
<1>8. PassTypeOK'
  <2>1. copy' = copy \/ copy' \in CopyStates
    BY <1>7
  <2>2. sinceCopy' \subseteq Images /\ behind' \in BOOLEAN
    BY <1>1, <1>4, <1>7, PassTypesAre
  <2>3. passAt' \in PassPlaces /\ mode' \in Modes /\ inUse' \subseteq Images /\ left' \subseteq Images
        /\ failed' \in BOOLEAN /\ sinceStart' \subseteq Images
    BY <1>1, <1>2, <1>6, PassTypesAre DEF PassPlaces, Modes
  <2> QED BY <1>1, <1>2, <1>6, <2>1, <2>2, <2>3, JudgeTypes
<1>9. PlexInv'
  BY <1>1, <1>2, <1>3, <1>7 DEF PlexInv, Used
<1>10. CopyInv'
  <2>1. copy'.whole => behind' \/ sinceCopy' \subseteq UsedIn(copy'.uses)
    BY <1>1, <1>7 DEF CopyInv, Used
  <2> QED BY <1>6, <2>1 DEF CopyInv
<1>11. StartInv'
  <2> SUFFICES ASSUME OwnCopy', passAt' = "query", copy'.whole
               PROVE  sinceStart' \subseteq UsedIn(copy'.uses)
    BY <1>6 DEF StartInv
  <2>1. OwnCopy
    BY <1>2 DEF OwnCopy
  <2>2. CASE CopyLocal /\ copy'.uses = main
    BY <1>1, <1>2, <1>5, <2>1, <2>2 DEF StartInv
  <2>3. CASE copy'.uses = uses
    BY <1>1, <1>2, <2>3 DEF PlexInv, Used
  <2> QED BY <1>7, <2>2, <2>3
<1>12. RestoreInv' /\ ImagesAreSafe'
  BY <1>1, <1>2, <1>3, <1>6 DEF RestoreInv, ImagesAreSafe, InUseIsSpared, MovedIsKept, Used
<1> QED BY <1>8, <1>9, <1>10, <1>11, <1>12 DEF PassInv

\* What is read of the copy, and what of the images it leaves to be taken.
LEMMA ReadKeepsPass ==
  ASSUME PosterBloatAssumption, PassInv, Query \/ Scan \/ EndsPass
  PROVE  PassInv'
<1>1. PassTypeOK /\ PlexInv /\ CopyInv /\ StartInv /\ RestoreInv /\ ImagesAreSafe
  BY DEF PassInv
<1>2. UNCHANGED <<settings, plexVars, imageFiles, copy, deleting, picks, sinceCopy, sinceStart,
                  behind, raced, wronged, owed>> /\ (Fault \/ UNCHANGED passFaults)
  BY DEF Query, Scan, EndsPass, since, passHistory
<1>3. UNCHANGED <<uses, main, running, images, hasRestore, kept>>
  BY <1>2 DEF plexVars, imageFiles
<1>4. PlexInv' /\ ImagesAreSafe'
  BY <1>1, <1>2, <1>3 DEF PlexInv, Used, ImagesAreSafe, InUseIsSpared, MovedIsKept
<1>5. CASE Query
  <2>1. /\ passAt = "query" /\ passAt' = "scan" /\ UNCHANGED <<mode, left, failed>>
        /\ inUse' = {} \/ (copy.whole /\ inUse' = UsedIn(copy.uses))
    BY <1>5 DEF Query, Protected
  <2>2. UsedIn(copy.uses) \subseteq Images
    <3>1. copy.uses \in Uses
      BY <1>1, PassTypesAre DEF CopyStates
    <3> QED BY <3>1, UsedAreImages
  <2>3. PassTypeOK'
    BY <1>1, <1>2, <2>1, <2>2, JudgeTypes, PassTypesAre DEF PassPlaces
  <2>4. CopyInv' /\ StartInv' /\ RestoreInv'
    BY <1>1, <1>2, <1>3, <2>1 DEF CopyInv, StartInv, OwnCopy, RestoreInv, Used
  <2> QED BY <1>4, <2>3, <2>4 DEF PassInv
<1>6. CASE Scan /\ passAt' = "each"
  <2>1. /\ passAt = "scan" /\ left' \subseteq images \ inUse /\ inUse' = {} /\ inUse # {}
        /\ UNCHANGED <<mode, failed>>
    BY <1>6 DEF Scan, ReadsAsFailed, Rests
  <2>2. PassTypeOK'
    BY <1>1, <1>2, <1>6, <2>1, JudgeTypes, PassTypesAre DEF PassPlaces
  <2>3. CopyInv' /\ StartInv' /\ RestoreInv'
    BY <1>1, <1>2, <1>3, <1>6, <2>1 DEF CopyInv, StartInv, OwnCopy, RestoreInv, Used
  <2> QED BY <1>4, <2>2, <2>3 DEF PassInv
<1>7. CASE Rests
  <2>1. PassTypeOK'
    BY <1>1, <1>2, <1>7, JudgeTypes, PassTypesAre DEF Rests, PassPlaces, Modes
  <2>2. CopyInv' /\ StartInv' /\ RestoreInv'
    BY <1>1, <1>2, <1>3, <1>7 DEF Rests, CopyInv, StartInv, OwnCopy, RestoreInv, Used
  <2> QED BY <1>4, <2>1, <2>2 DEF PassInv
<1>8. Scan => passAt' = "each" \/ Rests
  BY DEF Scan
<1> QED BY <1>5, <1>6, <1>7, <1>8 DEF EndsPass

\* A run takes one image: none in use since its copy or its start but where the copy
\* may be behind.
LEMMA HandleKeepsPass ==
  ASSUME PosterBloatAssumption, PassInv, NEW i \in Images, Handle(i)
  PROVE  PassInv'
<1>1. PassTypeOK /\ PlexInv /\ CopyInv /\ StartInv /\ RestoreInv /\ ImagesAreSafe
  BY DEF PassInv
<1>2. /\ passAt = "each" /\ i \in left /\ left' = left \ {i}
      /\ UNCHANGED <<settings, uses, main, running, copy, passAt, mode, inUse, failed, deleting,
                     picks, sinceCopy, sinceStart, behind, raced>>
      /\ hasRestore' = (hasRestore \/ mode = "move")
  BY DEF Handle, plexVars, since
<1>3. /\ images' \in {images, images \ {i}} /\ kept' \in {kept, kept \cup {i}}
      /\ owed' = owed \/ (owed' = owed \cup {i} /\ kept' = kept \cup {i})
      /\ kept \subseteq kept' /\ (Fault \/ UNCHANGED passFaults)
      /\ wronged' = wronged \/ Blamed(i)
  BY DEF Handle
<1>4. wronged' \subseteq wronged \cup {"stale"} /\ ("stale" \in wronged' \ wronged => i \in sinceStart)
  <2>1. ~(i \in sinceCopy /\ ~behind)
    BY <1>1, <1>2 DEF CopyInv
  <2> QED BY <1>3, <2>1 DEF Blamed
<1>5. PassTypeOK'
  <2>1. passFaults' \in 0..MaxPassFaults
    BY <1>1, <1>3, FaultIsCounted, PassTypesAre
  <2>2. hasRestore' \in BOOLEAN
    BY <1>2
  <2>3. /\ images' \subseteq Images /\ kept' \subseteq Images /\ owed' \subseteq Images
        /\ left' \subseteq Images /\ wronged' \subseteq {"misread", "stale", "deleted"}
    BY <1>1, <1>2, <1>3, <1>4, PassTypesAre
  <2> QED BY <1>1, <1>2, <2>1, <2>2, <2>3, PassTypesAre, PassTypesNext
<1>6. PlexInv' /\ CopyInv' /\ StartInv' /\ RestoreInv'
  BY <1>1, <1>2 DEF PlexInv, CopyInv, StartInv, OwnCopy, RestoreInv, Used
<1>7. ImagesAreSafe'
  <2>1. wronged' \cap {"misread", "deleted"} = {}
    BY <1>1, <1>4 DEF ImagesAreSafe, InUseIsSpared
  <2>2. "stale" \in wronged' => settings.reuse \/ (settings.local /\ settings.ignoreRunning)
    <3> SUFFICES ASSUME "stale" \in wronged' \ wronged
                 PROVE  settings.reuse \/ (settings.local /\ settings.ignoreRunning)
      BY <1>1 DEF ImagesAreSafe, InUseIsSpared
    <3>1. ~OwnCopy
      BY <1>1, <1>2, <1>4 DEF StartInv
    <3>2. settings.reuse \/ settings.ignoreRunning
      BY <3>1 DEF OwnCopy
    <3> QED BY <1>1, <3>2 DEF PlexInv
  <2>3. owed' \subseteq kept'
    BY <1>1, <1>3 DEF ImagesAreSafe, MovedIsKept
  <2> QED BY <1>2, <2>1, <2>2, <2>3 DEF ImagesAreSafe, InUseIsSpared, MovedIsKept
<1> QED BY <1>5, <1>6, <1>7 DEF PassInv

\* Restore and clear: the directory goes only when it holds nothing, or nobody wants it.
LEMMA RestoreKeepsPass ==
  ASSUME PosterBloatAssumption, PassInv,
         BeginRestore \/ (\E i \in Images : PutBack(i)) \/ EndRestore \/ ClearRestore
  PROVE  PassInv'
<1>1. PassTypeOK /\ PlexInv /\ CopyInv /\ StartInv /\ RestoreInv /\ ImagesAreSafe
  BY DEF PassInv
<1>2. /\ UNCHANGED <<settings, uses, main, running, copy, deleting, picks, sinceCopy, sinceStart,
                     behind, raced, wronged>>
      /\ (Fault \/ UNCHANGED passFaults)
  BY DEF BeginRestore, PutBack, EndRestore, ClearRestore, plexVars, imageFiles, since, passHistory
<1>3. passFaults' \in 0..MaxPassFaults
  BY <1>1, <1>2, FaultIsCounted, PassTypesAre
<1>4. images \subseteq Images /\ kept \subseteq Images /\ owed \subseteq kept
  BY <1>1, PassTypesAre DEF ImagesAreSafe, MovedIsKept
<1>5. /\ passAt' \in {"restore", "idle"} /\ mode' \in {mode, "report"} /\ inUse' \in {inUse, {}}
      /\ left' \in {left, kept, {}} \/ left' \subseteq left
      /\ failed' \in {failed, TRUE, FALSE}
  <2>1. CASE BeginRestore
    BY <2>1 DEF BeginRestore
  <2>2. CASE \E i \in Images : PutBack(i)
    <3>1. PICK i \in Images : PutBack(i)
      BY <2>2
    <3> QED BY <3>1 DEF PutBack
  <2>3. CASE EndRestore
    BY <2>3 DEF EndRestore, Rests
  <2>4. CASE ClearRestore
    BY <2>4 DEF ClearRestore, passRun
  <2> QED BY <2>1, <2>2, <2>3, <2>4
<1>6. /\ images' \subseteq Images /\ kept' \subseteq kept /\ owed' \subseteq kept'
      /\ (passAt' = "restore" /\ ~failed' => kept' \subseteq left')
  <2>1. CASE BeginRestore
    BY <1>4, <2>1 DEF BeginRestore, imageFiles, passHistory
  <2>2. CASE \E i \in Images : PutBack(i)
    <3>1. PICK i \in Images : PutBack(i)
      BY <2>2
    <3>2. CASE images' = images \cup {i} /\ kept' = kept \ {i} /\ owed' = owed \ {i} /\ failed' = failed
      BY <1>1, <1>4, <3>1, <3>2 DEF PutBack, RestoreInv
    <3>3. CASE failed' = TRUE /\ UNCHANGED <<images, kept, owed>>
      BY <1>4, <3>3
    <3> QED BY <3>1, <3>2, <3>3 DEF PutBack
  <2>3. CASE EndRestore
    <3>1. passAt = "restore" /\ left = {} /\ passAt' = "idle" /\ UNCHANGED <<images, owed>>
          /\ (kept' = kept \/ (~failed /\ kept' = {}))
      BY <2>3 DEF EndRestore, Rests, MayDropRestore, passHistory
    <3>2. ~failed => kept = {}
      BY <1>1, <3>1 DEF RestoreInv
    <3> QED BY <1>4, <3>1, <3>2
  <2>4. CASE ClearRestore
    <3>1. kept' \subseteq kept /\ owed' = owed \cap kept' /\ images' = images
      BY <2>4 DEF ClearRestore
    <3>2. passAt' = "idle"
      BY <2>4 DEF ClearRestore, passRun
    <3> QED BY <1>4, <3>1, <3>2
  <2> QED BY <2>1, <2>2, <2>3, <2>4
<1>7. hasRestore' \in {hasRestore, FALSE}
  BY DEF BeginRestore, PutBack, EndRestore, ClearRestore, imageFiles
<1>8. PassTypeOK'
  <2>1. /\ hasRestore' \in BOOLEAN /\ failed' \in BOOLEAN /\ passAt' \in PassPlaces /\ mode' \in Modes
        /\ inUse' \subseteq Images /\ left' \subseteq Images
    BY <1>1, <1>4, <1>5, <1>7, PassTypesAre DEF PassPlaces, Modes
  <2>2. kept' \subseteq Images /\ owed' \subseteq Images
    BY <1>4, <1>6
  <2> QED BY <1>1, <1>2, <1>3, <1>6, <2>1, <2>2, PassTypesAre, PassTypesNext
<1>9. PlexInv' /\ CopyInv' /\ StartInv' /\ RestoreInv' /\ ImagesAreSafe'
  BY <1>1, <1>2, <1>5, <1>6
     DEF PlexInv, CopyInv, StartInv, OwnCopy, RestoreInv, Used, ImagesAreSafe, InUseIsSpared, MovedIsKept
<1> QED BY <1>8, <1>9 DEF PassInv

\* The page's requests, and a crash of the process.
LEMMA RequestKeepsPass ==
  ASSUME PosterBloatAssumption, PassInv,
         (\E i \in Images : DeleteVariant(i)) \/ RemoveVariant \/ PassCrash
  PROVE  PassInv'
<1>1. PassTypeOK /\ PlexInv /\ CopyInv /\ StartInv /\ RestoreInv /\ ImagesAreSafe
  BY DEF PassInv
<1>2. /\ UNCHANGED <<settings, uses, main, running, hasRestore, kept, picks, sinceCopy, sinceStart,
                     behind, owed>>
      /\ (Fault \/ UNCHANGED passFaults)
  BY DEF DeleteVariant, RemoveVariant, PassCrash, plexVars, imageFiles, since, passHistory
<1>3. passFaults' \in 0..MaxPassFaults
  BY <1>1, <1>2, FaultIsCounted, PassTypesAre
<1>4. PlexInv'
  BY <1>1, <1>2 DEF PlexInv, Used
<1>5. ASSUME NEW i \in Images, DeleteVariant(i)  PROVE PassInv'
  <2>1. /\ UNCHANGED <<images, copy, passAt, mode, inUse, left, failed, wronged>>
        /\ deleting' = i /\ raced' = FALSE /\ i \notin Used
    BY <1>5 DEF DeleteVariant, VariantInUse, imageFiles, passRun
  <2>2. PassTypeOK'
    BY <1>1, <1>2, <1>3, <2>1, PassTypesAre, PassTypesNext
  <2>3. CopyInv' /\ StartInv' /\ RestoreInv' /\ ImagesAreSafe'
    BY <1>1, <1>2, <2>1
       DEF CopyInv, StartInv, OwnCopy, RestoreInv, Used, ImagesAreSafe, InUseIsSpared, MovedIsKept
  <2> QED BY <1>4, <2>2, <2>3 DEF PassInv
<1>6. CASE RemoveVariant
  <2>1. /\ UNCHANGED <<copy, passAt, mode, inUse, left, failed, raced>>
        /\ images' \in {images, images \ {deleting}} /\ deleting # NoImage /\ deleting' = NoImage
        /\ wronged' = wronged \/
             wronged' = IF deleting \in Used /\ ~raced THEN wronged \cup {"deleted"} ELSE wronged
    BY <1>6 DEF RemoveVariant, passRun
  <2>2. wronged' = wronged
    BY <1>1, <2>1 DEF RestoreInv
  <2>3. PassTypeOK'
    <3>1. images' \subseteq Images
      BY <1>1, <2>1, PassTypesAre
    <3> QED BY <1>1, <1>2, <1>3, <2>1, <2>2, <3>1, PassTypesAre, PassTypesNext
  <2>4. CopyInv' /\ StartInv' /\ RestoreInv' /\ ImagesAreSafe'
    BY <1>1, <1>2, <2>1, <2>2
       DEF CopyInv, StartInv, OwnCopy, RestoreInv, Used, ImagesAreSafe, InUseIsSpared, MovedIsKept
  <2> QED BY <1>4, <2>3, <2>4 DEF PassInv
<1>7. CASE PassCrash
  <2>1. /\ UNCHANGED <<images, raced, wronged>> /\ Rests /\ deleting' = NoImage
        /\ copy' = copy \/ Torn(main)
    BY <1>7 DEF PassCrash, imageFiles, passHistory
  <2>2. copy' = copy \/ (copy' \in CopyStates /\ copy'.whole = FALSE)
    BY <1>1, <2>1, CopiesAreCopies, PassTypesAre
  <2>3. PassTypeOK'
    <3>1. copy' \in CopyStates
      BY <1>1, <2>2, PassTypesAre
    <3>2. /\ passAt' \in PassPlaces /\ mode' \in Modes /\ inUse' \subseteq Images /\ left' \subseteq Images
          /\ failed' \in BOOLEAN
      BY <2>1 DEF Rests, PassPlaces, Modes
    <3> QED BY <1>1, <1>2, <1>3, <2>1, <3>1, <3>2, PassTypesAre, PassTypesNext
  <2>4. CopyInv' /\ StartInv' /\ RestoreInv' /\ ImagesAreSafe'
    BY <1>1, <1>2, <2>1, <2>2
       DEF Rests, CopyInv, StartInv, OwnCopy, RestoreInv, Used, ImagesAreSafe, InUseIsSpared,
           MovedIsKept
  <2> QED BY <1>4, <2>3, <2>4 DEF PassInv
<1> QED BY <1>5, <1>6, <1>7

LEMMA PassKeeps == PosterBloatAssumption /\ PassInv /\ [PassNext]_passVars => PassInv'
<1> SUFFICES ASSUME PosterBloatAssumption, PassInv, [PassNext]_passVars  PROVE PassInv'
  OBVIOUS
<1>1. CASE (\E c \in Columns, i \in Images : Pick(c, i) \/ SetActive(c, i))
           \/ Checkpoint \/ StartsOrStops
  BY <1>1, PlexKeepsPass
<1>2. CASE (\E m \in Modes : Begin(m)) \/ CheckRunning \/ CopyAges
  BY <1>2, BeginKeepsPass
<1>3. CASE CopyLocal \/ Download
  BY <1>3, CopyKeepsPass
<1>4. CASE Query \/ Scan \/ EndsPass
  BY <1>4, ReadKeepsPass
<1>5. CASE \E i \in Images : Handle(i)
  BY <1>5, HandleKeepsPass
<1>6. CASE BeginRestore \/ (\E i \in Images : PutBack(i)) \/ EndRestore \/ ClearRestore
  BY <1>6, RestoreKeepsPass
<1>7. CASE (\E i \in Images : DeleteVariant(i)) \/ RemoveVariant \/ PassCrash
  BY <1>7, RequestKeepsPass
<1>8. CASE UNCHANGED passVars
  <2>1. UNCHANGED <<settings, uses, main, running, images, hasRestore, kept, copy, passAt, mode, inUse,
                    left, failed, deleting, picks, passFaults, sinceCopy, sinceStart, behind,
                    raced, wronged, owed>>
    BY <1>8 DEF passVars, plexVars, imageFiles, passRun, since, passHistory
  <2>2. PassTypeOK'
    BY <2>1, PassTypesAre, PassTypesNext DEF PassInv
  <2> QED
    BY <2>1, <2>2 DEF PassInv, PlexInv, CopyInv, StartInv, OwnCopy, RestoreInv, Used, ImagesAreSafe,
                      InUseIsSpared, MovedIsKept
<1> QED BY <1>1, <1>2, <1>3, <1>4, <1>5, <1>6, <1>7, <1>8 DEF PassNext

LEMMA PassInvariant == PosterBloatAssumption /\ PassSpec => []PassInv
<1> SUFFICES ASSUME PosterBloatAssumption  PROVE PassSpec => []PassInv
  OBVIOUS
<1>1. PassInit => PassInv
  BY PassStarts
<1>2. PassInv /\ [PassNext]_passVars => PassInv'
  BY PassKeeps
<1> QED BY <1>1, <1>2, PTL DEF PassSpec

\* The variables of the bloat pass keep their types.
THEOREM PassTypes == PosterBloatAssumption /\ PassSpec => []PassTypeOK
<1>1. PassInv => PassTypeOK
  BY DEF PassInv
<1> QED BY <1>1, PassInvariant, PTL

\* For every number of images and columns, and however many reads, copies, moves and
\* restores fail: no run takes an image in use since its copy was taken whole, or since
\* it began where it judges by a copy of its own; no request deletes one in use; and
\* what was moved stays in the restore directory until it is put back or cleared.
THEOREM ImagesStaySafe == PosterBloatAssumption /\ PassSpec => []ImagesAreSafe
<1>1. PassInv => ImagesAreSafe
  BY DEF PassInv
<1> QED BY <1>1, PassInvariant, PTL

=============================================================================
