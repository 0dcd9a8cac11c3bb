------------------------- MODULE ConfigStoreProofs --------------------------
(***************************************************************************)
(* The configuration store for every number of handlers, restores,         *)
(* writers without the lock, edits by hand and failed saves.               *)
(***************************************************************************)
EXTENDS ConfigStore, TLAPS

Labels == {"idle", "backup", "load", "lookup", "read", "recheck",
           "insert", "loaded", "saved", "done", "failed"}
AtRest == {"idle", "done", "failed"}
Entry  == [at : Nat, config : Configs]

---------------------------------------------------------------------------
(* The inductive invariant.                                                *)

\* TypeOK in the parts that steps change together.
DiskOK   == /\ file \in Configs /\ events \in Nat
            /\ editing = NoEntry \/ editing \in [at : Nat, edits : SUBSET Savers]
LoadsOK  == /\ cache = NoEntry \/ cache \in Entry
            /\ seenAt \in [Procs -> Nat] /\ got \in [Procs -> Configs]
WatchOK  == running \in Configs /\ lastModified \in Times /\ dropped \in BOOLEAN
PastOK   == /\ replaced \in [Restorers -> Configs] /\ copy \in [Restorers -> Configs]
            /\ saved \subseteq Handlers /\ lost \subseteq Handlers
BoundsOK == now \in Times /\ handEdits \in 0..MaxHandEdits /\ saveFaults \in 0..MaxSaveFaults
PcOK     == pc \in [Procs -> Labels]
LockOK   == lock = NoProc \/ (lock \in Writers /\ pc[lock] \notin AtRest)

LEMMA TypeParts ==
  TypeOK <=> DiskOK /\ LoadsOK /\ WatchOK /\ PastOK /\ BoundsOK /\ PcOK /\ LockOK
BY DEF TypeOK, DiskOK, LoadsOK, WatchOK, PastOK, BoundsOK, PcOK, LockOK, Entry, Labels, AtRest

LEMMA TypePartsNext ==
  TypeOK' <=> DiskOK' /\ LoadsOK' /\ WatchOK' /\ PastOK' /\ BoundsOK' /\ PcOK' /\ LockOK'
BY TypeParts, PTL

\* Whoever holds the write lock is alone between its start and its end, and a
\* restore loads nothing.
Excludes   == \A p \in Writers : pc[p] \notin AtRest => lock = p
NeverLoads == \A r \in Restorers : seenAt[r] = 0 /\ pc[r] \in AtRest \cup {"backup", "loaded", "saved"}

\* The configs somebody may still use.
InPlay(c) ==
  \/ c = file
  \/ \E p \in Procs : c = got[p]
  \/ cache # NoEntry /\ c = cache.config

\* A version names one content, and the newest is the file's.
OneContent ==
  \A c \in Configs : InPlay(c) =>
    c.version <= file.version /\ (c.version = file.version => c = file)

\* Only what loaded is handed out, and the cache has what its version names.
Sound ==
  /\ \A p \in Procs : got[p].valid
  /\ cache # NoEntry => cache.config.valid /\ cache.config.version = cache.at

HasGot == {"recheck", "insert", "loaded"}

\* A load in progress: it has seen no future, and what it holds is no older
\* than what it saw; what it is about to cache is exactly that.
Fresher ==
  \A p \in Procs :
    /\ seenAt[p] <= file.version
    /\ pc[p] \in HasGot => got[p].version >= seenAt[p]
    /\ pc[p] = "insert" => got[p].version = seenAt[p]

Covers(edits) == saved \subseteq edits \cup lost

\* What the lock holder is about to write back keeps what was saved under the
\* lock, and so does anything the cache may still answer it with.
Kept ==
  /\ file.valid => Covers(file.edits)
  /\ editing # NoEntry => /\ editing.at <= file.version
                          /\ file.version = editing.at => Covers(editing.edits)
  /\ \A h \in Handlers :
       /\ pc[h] = "lookup" =>
            \A c \in Configs : InPlay(c) /\ c.version = seenAt[h] /\ c.valid => Covers(c.edits)
       /\ pc[h] \in HasGot => Covers(got[h].edits)

Copied ==
  \A r \in Restorers :
    /\ pc[r] = "loaded" => copy[r] = file \/ file.by \notin Writers
    /\ pc[r] \in {"saved", "done"} => copy[r] = replaced[r] \/ replaced[r].by \notin Writers

StoreInv ==
  /\ TypeOK /\ Excludes /\ NeverLoads
  /\ OneContent /\ Sound /\ Fresher
  /\ Kept /\ Copied

LEMMA InitStoreInv == Init => StoreInv
<1> SUFFICES ASSUME Init PROVE StoreInv OBVIOUS
<1> USE DEF Init
<1>1. Fresh \in Configs /\ Fresh.valid /\ Fresh.version = 0 /\ Fresh.edits = {} BY DEF Fresh, Configs
<1> HIDE DEF Fresh
<1>2. pc \in [Procs -> {"idle", "done"}] BY DEF Init
<1>3. \A p \in Procs : got[p] = Fresh /\ seenAt[p] = 0 OBVIOUS
<1>a. DiskOK /\ LoadsOK /\ PastOK BY <1>1 DEF DiskOK, LoadsOK, PastOK
<1>c. /\ MaxTime \in Nat /\ DebounceInterval \in Nat /\ DebounceInterval < MaxTime
      /\ MaxHandEdits \in Nat /\ MaxSaveFaults \in Nat
  BY ConfigAssumption
<1>d. now \in Times /\ lastModified \in Times BY <1>c DEF Times
<1>e. handEdits \in 0..MaxHandEdits /\ saveFaults \in 0..MaxSaveFaults BY <1>c
<1>f. dropped \in BOOLEAN OBVIOUS
<1>b. WatchOK /\ BoundsOK BY <1>1, <1>d, <1>e, <1>f DEF WatchOK, BoundsOK
<1>4. DiskOK /\ LoadsOK /\ WatchOK /\ PastOK /\ BoundsOK BY <1>a, <1>b
<1>5. PcOK BY <1>2 DEF PcOK, Labels
<1>6. LockOK BY DEF LockOK
<1>7. TypeOK BY <1>4, <1>5, <1>6, TypeParts
<1>8. \A p \in Procs : pc[p] \in {"idle", "done"} BY <1>2
<1>9. Excludes BY <1>8 DEF Excludes, AtRest, Writers, Savers, Procs
<1>10. NeverLoads BY <1>3, <1>8 DEF NeverLoads, AtRest, Writers, Savers, Procs
<1>11. OneContent BY <1>1, <1>3 DEF OneContent, InPlay
<1>12. Sound BY <1>1, <1>3 DEF Sound
<1>13. Fresher BY <1>1, <1>3 DEF Fresher
<1>14. Kept BY DEF Kept, Covers
<1>15. Copied BY <1>8 DEF Copied, Writers, Savers, Procs
<1> QED BY <1>7, <1>9, <1>10, <1>11, <1>12, <1>13, <1>14, <1>15 DEF StoreInv

---------------------------------------------------------------------------
(* What each part of the invariant needs to know of a step.                *)

\* One process moves; it holds the lock throughout, takes it, leaves it, or
\* has no use for it.
LEMMA LockMoves ==
  ASSUME TypeOK, Excludes, NEW p \in Procs, NEW l \in Labels,
         pc' = [pc EXCEPT ![p] = l],
         \/ UNCHANGED lock /\ pc[p] \notin AtRest /\ l \notin AtRest
         \/ UNCHANGED lock /\ p \notin Writers
         \/ Leave(p) /\ l \in AtRest
         \/ lock = NoProc /\ lock' = p /\ p \in Writers /\ l \notin AtRest
  PROVE  PcOK' /\ LockOK' /\ Excludes'
<1>1. PcOK /\ LockOK BY TypeParts
<1>2. PcOK' BY <1>1 DEF PcOK
<1>3. /\ pc'[p] = l /\ \A q \in Procs \ {p} : pc'[q] = pc[q]
      /\ Writers \subseteq Procs /\ NoProc \notin Procs
  BY <1>1, ConfigAssumption DEF PcOK, Writers, Savers, Procs
<1>4. LockOK' BY <1>1, <1>3 DEF LockOK, Leave
<1>5. Excludes' BY <1>1, <1>3 DEF LockOK, Excludes, Leave
<1> QED BY <1>2, <1>4, <1>5

LEMMA ContentMoves ==
  ASSUME TypeOK, OneContent,
         file' = file \/ (file' \in Configs /\ file'.version = file.version + 1),
         \A c \in Configs : InPlay(c)' => c = file' \/ InPlay(c)
  PROVE  OneContent'
<1>1. file \in Configs /\ \A c \in Configs : c.version \in Nat BY DEF TypeOK, Configs
<1>2. ASSUME NEW c \in Configs, InPlay(c)'
      PROVE  c.version <= file'.version /\ (c.version = file'.version => c = file')
  <2>1. CASE c = file' BY <1>1, <2>1
  <2>2. CASE InPlay(c)
    <3>1. c.version <= file.version /\ (c.version = file.version => c = file)
      BY <2>2 DEF OneContent
    <3> QED BY <1>1, <3>1
  <2> QED BY <1>2, <2>1, <2>2
<1> QED BY <1>2 DEF OneContent

\* A step that leaves the file and the history alone.
LEMMA KeptRests ==
  ASSUME OneContent, Kept, UNCHANGED <<file, saved, lost, editing>>,
         \A c \in Configs : InPlay(c)' => InPlay(c),
         \A h \in Handlers :
           /\ pc'[h] = "lookup" => \/ pc[h] = "lookup" /\ seenAt'[h] = seenAt[h]
                                   \/ seenAt'[h] = file.version
           /\ pc'[h] \in HasGot => \/ pc[h] \in HasGot /\ got'[h] = got[h]
                                   \/ Covers(got[h].edits)'
  PROVE  Kept'
<1>1. \A e : Covers(e)' <=> Covers(e) BY DEF Covers
<1>2. ASSUME NEW h \in Handlers, pc'[h] = "lookup",
             NEW c \in Configs, InPlay(c)', c.version = seenAt'[h], c.valid
      PROVE  Covers(c.edits)'
  <2>1. InPlay(c) BY <1>2
  <2>2. CASE pc[h] = "lookup" /\ seenAt'[h] = seenAt[h] BY <1>1, <1>2, <2>1, <2>2 DEF Kept
  <2>3. CASE seenAt'[h] = file.version BY <1>1, <1>2, <2>1, <2>3 DEF Kept, OneContent
  <2> QED BY <1>2, <2>2, <2>3
<1>3. ASSUME NEW h \in Handlers, pc'[h] \in HasGot PROVE Covers(got[h].edits)'
  BY <1>3 DEF Kept, Covers
<1>4. /\ file'.valid => Covers(file.edits)'
      /\ editing' # NoEntry => /\ editing'.at <= file'.version
                               /\ file'.version = editing'.at => Covers(editing.edits)'
  BY DEF Kept, Covers
<1> QED BY <1>2, <1>3, <1>4 DEF Kept

LEMMA CopiedRests ==
  ASSUME Copied, UNCHANGED <<copy, replaced>>,
         \A r \in Restorers :
           /\ pc'[r] = "loaded" => pc[r] = "loaded" /\ (file' = file \/ file'.by \notin Writers)
           /\ pc'[r] \in {"saved", "done"} => pc[r] \in {"saved", "done"}
  PROVE  Copied'
BY DEF Copied

\* A step that leaves the file's contents, the history and the loads alone:
\* only positions, the lock and the cache's emptying.
LEMMA Rests ==
  ASSUME StoreInv, UNCHANGED <<file, editing, seenAt, got, history>>,
         cache' = cache \/ cache' = NoEntry,
         PcOK', LockOK', Excludes', WatchOK', BoundsOK', events' \in Nat,
         copy' \in [Restorers -> Configs],
         \A r \in Restorers : pc'[r] \in AtRest \cup {"backup", "loaded", "saved"},
         \A p \in Procs : /\ pc'[p] \in HasGot => pc[p] \in HasGot \/ p \in Restorers
                          /\ pc'[p] = "insert" => pc[p] = "insert"
                          /\ pc'[p] = "lookup" => pc[p] = "lookup",
         Copied'
  PROVE  StoreInv'
<1> USE DEF StoreInv, history
<1>1. DiskOK /\ LoadsOK /\ PastOK BY TypeParts
<1>2. DiskOK' /\ LoadsOK' /\ PastOK' BY <1>1 DEF DiskOK, LoadsOK, PastOK
<1>3. TypeOK' BY <1>2, TypePartsNext
<1>4. \A c \in Configs : InPlay(c)' => InPlay(c) BY DEF InPlay
<1>5. OneContent' BY <1>4, ContentMoves
<1>6. Sound' BY DEF Sound
<1>7. Handlers \subseteq Procs /\ Restorers \subseteq Procs /\ Handlers \cap Restorers = {}
  BY ConfigAssumption DEF Procs, Savers, Writers
<1>8. Fresher'
  <2> SUFFICES ASSUME NEW p \in Procs
               PROVE  /\ seenAt[p] <= file.version
                      /\ pc'[p] \in HasGot => got[p].version >= seenAt[p]
                      /\ pc'[p] = "insert" => got[p].version = seenAt[p]
    BY DEF Fresher
  <2>1. CASE p \in Restorers
    BY <1>1, <2>1 DEF Fresher, NeverLoads, LoadsOK, Configs, AtRest
  <2>2. CASE p \notin Restorers BY <2>2 DEF Fresher
  <2> QED BY <2>1, <2>2
<1>9. Kept' BY <1>4, <1>7, KeptRests
<1>10. NeverLoads' BY DEF NeverLoads
<1> QED BY <1>3, <1>5, <1>6, <1>8, <1>9, <1>10

---------------------------------------------------------------------------
(* load_config.                                                            *)

\* Whoever loads is no restore, and holds the lock if it needs one.
LEMMA Loader ==
  ASSUME StoreInv, NEW p \in Procs, pc[p] \in {"load", "lookup", "read", "recheck", "insert"}
  PROVE  p \notin Restorers /\ pc[p] \notin AtRest
BY DEF StoreInv, NeverLoads, AtRest

\* A load's step keeps its place, its lock and everything about other processes.
LEMMA LoadRests ==
  ASSUME StoreInv, NEW p \in Procs, pc[p] \in {"load", "lookup", "read", "recheck", "insert"},
         NEW l \in Labels, l \notin AtRest \cup {"backup"}, pc' = [pc EXCEPT ![p] = l],
         UNCHANGED <<disk, watch, history, bounds, lock, copy, now>>,
         LoadsOK', Sound',
         \A c \in Configs : InPlay(c)' => InPlay(c),
         \A q \in Procs \ {p} : seenAt'[q] = seenAt[q] /\ got'[q] = got[q],
         seenAt'[p] <= file.version,
         l \in HasGot => got'[p].version >= seenAt'[p],
         l = "insert" => got'[p].version = seenAt'[p],
         l = "lookup" => seenAt'[p] = file.version,
         l \in HasGot => (pc[p] \in HasGot /\ got'[p] = got[p]) \/ (p \in Handlers => Covers(got[p].edits)')
  PROVE  StoreInv'
<1> USE DEF StoreInv, disk, watch, history, bounds
<1>1. p \notin Restorers /\ pc[p] \notin AtRest BY Loader
<1>2. PcOK' /\ LockOK' /\ Excludes' BY <1>1, LockMoves
<1>3. DiskOK /\ WatchOK /\ PastOK /\ BoundsOK /\ PcOK BY TypeParts
<1>4. DiskOK' /\ WatchOK' /\ PastOK' /\ BoundsOK'
  BY <1>3 DEF DiskOK, WatchOK, PastOK, BoundsOK
<1>5. TypeOK' BY <1>2, <1>4, TypePartsNext
<1>6. pc'[p] = l /\ \A q \in Procs \ {p} : pc'[q] = pc[q] BY <1>3 DEF PcOK
<1>7. Handlers \subseteq Procs /\ Restorers \subseteq Procs BY DEF Procs, Savers, Writers
<1>8. NeverLoads' BY <1>1, <1>6, <1>7 DEF NeverLoads
<1>9. OneContent' BY ContentMoves
<1>10. Fresher' BY <1>6 DEF Fresher
<1>11. Kept'
  <2>1. ASSUME NEW h \in Handlers
        PROVE  /\ pc'[h] = "lookup" => \/ pc[h] = "lookup" /\ seenAt'[h] = seenAt[h]
                                       \/ seenAt'[h] = file.version
               /\ pc'[h] \in HasGot => \/ pc[h] \in HasGot /\ got'[h] = got[h]
                                       \/ Covers(got[h].edits)'
    <3>1. CASE h = p BY <1>6, <3>1
    <3>2. CASE h # p BY <1>6, <1>7, <3>2
    <3> QED BY <3>1, <3>2
  <2> QED BY <2>1, KeptRests
<1>12. Copied'
  <2>1. \A r \in Restorers : pc'[r] = pc[r] BY <1>1, <1>6, <1>7
  <2> QED BY <2>1, CopiedRests
<1> QED BY <1>2, <1>5, <1>8, <1>9, <1>10, <1>11, <1>12

LEMMA StatKeeps ==
  ASSUME StoreInv, NEW p \in Procs, Stat(p) PROVE StoreInv'
<1>1. /\ pc[p] = "load" /\ pc' = [pc EXCEPT ![p] = "lookup"]
      /\ seenAt' = [seenAt EXCEPT ![p] = file.version]
      /\ UNCHANGED <<disk, cache, got, watch, history, bounds, lock, copy, now>>
  BY DEF Stat, Goto
<1>2. LoadsOK /\ file.version \in Nat BY TypeParts DEF StoreInv, DiskOK, Configs
<1>3. seenAt'[p] = file.version /\ \A q \in Procs \ {p} : seenAt'[q] = seenAt[q]
  BY <1>1, <1>2 DEF LoadsOK
<1>4. LoadsOK' BY <1>1, <1>2 DEF LoadsOK
<1>5. Sound' BY <1>1 DEF StoreInv, Sound
<1>6. \A c \in Configs : InPlay(c)' => InPlay(c) BY <1>1 DEF InPlay, disk
<1>7. "lookup" \in Labels /\ "lookup" \notin AtRest \cup {"backup"} /\ "lookup" \notin HasGot
  BY DEF Labels, AtRest, HasGot
<1>8. UNCHANGED <<disk, watch, history, bounds, lock, copy, now>> /\ UNCHANGED got BY <1>1
<1>9. seenAt'[p] <= file.version BY <1>2, <1>3
<1> QED BY <1>1, <1>3, <1>4, <1>5, <1>6, <1>7, <1>8, <1>9, LoadRests

LEMMA LookupKeeps ==
  ASSUME StoreInv, NEW p \in Procs, Lookup(p) PROVE StoreInv'
<1>1. pc[p] = "lookup" /\ UNCHANGED <<disk, cache, seenAt, watch, history, bounds, lock, copy, now>>
  BY DEF Lookup
<1>2. LoadsOK /\ DiskOK BY TypeParts DEF StoreInv
<1>3. seenAt[p] <= file.version BY DEF StoreInv, Fresher
<1>4. CASE Hit(p)
  <2>1. /\ pc' = [pc EXCEPT ![p] = "loaded"] /\ got' = [got EXCEPT ![p] = cache.config]
        /\ cache # NoEntry /\ cache.at = seenAt[p]
    BY <1>4 DEF Lookup, Goto, Hit
  <2>2. cache.config \in Configs /\ seenAt[p] \in Nat BY <1>2, <2>1 DEF LoadsOK, Entry
  <2>3. cache.config.valid /\ cache.config.version = seenAt[p] BY <2>1 DEF StoreInv, Sound
  <2>4. got'[p] = cache.config /\ \A q \in Procs \ {p} : got'[q] = got[q]
    BY <1>2, <2>1 DEF LoadsOK
  <2>5. LoadsOK' BY <1>1, <1>2, <2>1, <2>2 DEF LoadsOK
  <2>6. Sound' BY <1>1, <2>3, <2>4 DEF StoreInv, Sound
  <2>7. \A c \in Configs : InPlay(c)' => InPlay(c)
    BY <1>1, <2>1, <2>4 DEF InPlay, disk
  <2>8. p \in Handlers => Covers(cache.config.edits)
    BY <1>1, <2>1, <2>2, <2>3 DEF StoreInv, Kept, InPlay
  <2>9. p \in Handlers => Covers(got[p].edits)'
    BY <1>1, <2>4, <2>8 DEF Covers, history
  <2>10. "loaded" \in Labels /\ "loaded" \notin AtRest \cup {"backup"}
    BY DEF Labels, AtRest
  <2>11. UNCHANGED <<disk, watch, history, bounds, lock, copy, now>> /\ UNCHANGED seenAt BY <1>1
  <2>12. got'[p].version >= seenAt'[p] BY <2>2, <2>3, <2>4, <2>11
  <2> QED BY <1>1, <1>3, <2>1, <2>4, <2>5, <2>6, <2>7, <2>9, <2>10, <2>11, <2>12, LoadRests
<1>5. CASE ~Hit(p)
  <2>1. pc' = [pc EXCEPT ![p] = "read"] /\ UNCHANGED got BY <1>5 DEF Lookup, Goto
  <2>2. LoadsOK' BY <1>1, <1>2, <2>1 DEF LoadsOK
  <2>3. Sound' BY <1>1, <2>1 DEF StoreInv, Sound
  <2>4. \A c \in Configs : InPlay(c)' => InPlay(c) BY <1>1, <2>1 DEF InPlay, disk
  <2> QED BY <1>1, <1>3, <2>1, <2>2, <2>3, <2>4, LoadRests DEF Labels, AtRest, HasGot
<1> QED BY <1>4, <1>5

LEMMA RecheckKeeps ==
  ASSUME StoreInv, NEW p \in Procs, Recheck(p) PROVE StoreInv'
<1> DEFINE l == IF file.version = seenAt[p] THEN "insert" ELSE "loaded"
<1>1. /\ pc[p] = "recheck" /\ pc' = [pc EXCEPT ![p] = l]
      /\ UNCHANGED <<disk, loads, watch, history, bounds, lock, copy, now>>
  BY DEF Recheck, Goto
<1>2. UNCHANGED <<disk, watch, history, bounds, lock, copy, now>> /\ UNCHANGED <<cache, seenAt, got>>
  BY <1>1 DEF loads
<1>3. LoadsOK /\ DiskOK BY TypeParts DEF StoreInv
<1>4. LoadsOK' BY <1>2, <1>3 DEF LoadsOK
<1>5. Sound' BY <1>2 DEF StoreInv, Sound
<1>6. \A c \in Configs : InPlay(c)' => InPlay(c) BY <1>2 DEF InPlay, disk
<1>7. seenAt[p] <= file.version /\ got[p].version >= seenAt[p]
  BY <1>1 DEF StoreInv, Fresher, HasGot
<1>8. l = "insert" => got[p].version = seenAt[p]
  <2>1. got[p].version <= file.version
    BY <1>3 DEF StoreInv, OneContent, InPlay, LoadsOK
  <2>2. got[p].version \in Nat /\ seenAt[p] \in Nat /\ file.version \in Nat
    BY <1>3 DEF LoadsOK, DiskOK, Configs
  <2> QED BY <1>7, <2>1, <2>2
<1>9. l \in Labels /\ l \notin AtRest \cup {"backup"} /\ l # "lookup" /\ pc[p] \in HasGot
  BY <1>1 DEF Labels, AtRest, HasGot
<1> HIDE DEF l
<1> QED BY <1>1, <1>2, <1>4, <1>5, <1>6, <1>7, <1>8, <1>9, LoadRests

LEMMA InsertKeeps ==
  ASSUME StoreInv, NEW p \in Procs, Insert(p) PROVE StoreInv'
<1>1. /\ pc[p] = "insert" /\ pc' = [pc EXCEPT ![p] = "loaded"]
      /\ cache' = [at |-> seenAt[p], config |-> got[p]] /\ UNCHANGED <<seenAt, got>>
      /\ UNCHANGED <<disk, watch, history, bounds, lock, copy, now>>
  BY DEF Insert, Goto
<1>2. LoadsOK /\ DiskOK BY TypeParts DEF StoreInv
<1>3. got[p] \in Configs /\ seenAt[p] \in Nat BY <1>2 DEF LoadsOK
<1>4. LoadsOK' BY <1>1, <1>2, <1>3 DEF LoadsOK, Entry
<1>5. seenAt[p] <= file.version /\ got[p].version = seenAt[p] /\ got[p].version >= seenAt[p]
  BY <1>1 DEF StoreInv, Fresher, HasGot
<1>6. cache'.at = seenAt[p] /\ cache'.config = got[p] BY <1>1
<1>7. Sound' BY <1>1, <1>5, <1>6 DEF StoreInv, Sound
<1>8. \A c \in Configs : InPlay(c)' => InPlay(c) BY <1>1, <1>6 DEF InPlay, disk
<1>9. /\ "loaded" \in Labels /\ "loaded" \notin AtRest \cup {"backup"} /\ pc[p] \in HasGot
  BY <1>1 DEF Labels, AtRest, HasGot
<1> QED BY <1>1, <1>4, <1>5, <1>7, <1>8, <1>9, LoadRests

LEMMA ParseKeeps ==
  ASSUME StoreInv, NEW p \in Procs, Parse(p) PROVE StoreInv'
<1>1. pc[p] = "read" /\ UNCHANGED <<disk, cache, seenAt, watch, history, bounds, copy, now>>
  BY DEF Parse
<1>2. LoadsOK /\ DiskOK /\ PcOK /\ WatchOK /\ PastOK /\ BoundsOK BY TypeParts DEF StoreInv
<1>3. p \notin Restorers /\ pc[p] \notin AtRest BY <1>1, Loader
<1>4. CASE file.valid
  <2>1. /\ pc' = [pc EXCEPT ![p] = "recheck"] /\ got' = [got EXCEPT ![p] = file] /\ UNCHANGED lock
    BY <1>4 DEF Parse, Goto
  <2>2. UNCHANGED <<disk, watch, history, bounds, lock, copy, now>> /\ UNCHANGED <<cache, seenAt>>
    BY <1>1, <2>1
  <2>3. got'[p] = file /\ \A q \in Procs \ {p} : got'[q] = got[q] BY <1>2, <2>1 DEF LoadsOK
  <2>4. LoadsOK' BY <1>2, <2>1, <2>2 DEF LoadsOK, DiskOK
  <2>5. Sound' BY <1>4, <2>2, <2>3 DEF StoreInv, Sound
  <2>6. \A c \in Configs : InPlay(c)' => InPlay(c) BY <2>2, <2>3 DEF InPlay, disk
  <2>7. file.version \in Nat /\ seenAt[p] \in Nat /\ seenAt[p] <= file.version
    BY <1>2 DEF StoreInv, Fresher, LoadsOK, DiskOK, Configs
  <2>8. got'[p].version >= seenAt'[p] /\ seenAt'[p] <= file.version BY <2>2, <2>3, <2>7
  <2>9. Covers(got[p].edits)' BY <1>4, <2>2, <2>3 DEF StoreInv, Kept, Covers, history
  <2>10. "recheck" \in Labels /\ "recheck" \notin AtRest \cup {"backup"} BY DEF Labels, AtRest
  <2> QED BY <1>1, <2>1, <2>2, <2>3, <2>4, <2>5, <2>6, <2>8, <2>9, <2>10, LoadRests
<1>5. CASE ~file.valid
  <2> DEFINE l == IF p = Watcher THEN "idle" ELSE "failed"
  <2>1. pc' = [pc EXCEPT ![p] = l] /\ Leave(p) /\ UNCHANGED got BY <1>5 DEF Parse, Goto
  <2>2. l \in Labels /\ l \in AtRest /\ l \notin HasGot /\ l # "insert" /\ l # "lookup"
    BY DEF Labels, AtRest, HasGot
  <2> HIDE DEF l
  <2>3. pc'[p] = l /\ \A q \in Procs \ {p} : pc'[q] = pc[q] BY <1>2, <2>1 DEF PcOK
  <2>4. PcOK' /\ LockOK' /\ Excludes' BY <2>1, <2>2, LockMoves DEF StoreInv
  <2>5. UNCHANGED <<file, editing, seenAt, got, history>> /\ UNCHANGED cache /\ events' \in Nat
    BY <1>1, <1>2, <2>1 DEF disk, DiskOK
  <2>6. WatchOK' /\ BoundsOK' /\ copy' \in [Restorers -> Configs]
    BY <1>1, <1>2 DEF WatchOK, BoundsOK, PastOK, watch, bounds
  <2>7. \A r \in Restorers : pc'[r] = pc[r] BY <1>3, <2>3 DEF Procs, Savers, Writers
  <2>8. \A r \in Restorers : pc'[r] \in AtRest \cup {"backup", "loaded", "saved"}
    BY <2>7 DEF StoreInv, NeverLoads
  <2>9. Copied' BY <1>1, <2>5, <2>7, CopiedRests DEF StoreInv, history
  <2>10. \A q \in Procs : /\ pc'[q] \in HasGot => pc[q] \in HasGot
                          /\ pc'[q] = "insert" => pc[q] = "insert"
                          /\ pc'[q] = "lookup" => pc[q] = "lookup"
    BY <2>2, <2>3
  <2> QED BY <2>4, <2>5, <2>6, <2>8, <2>9, <2>10, Rests
<1> QED BY <1>4, <1>5

LEMMA LoadKeeps ==
  ASSUME StoreInv, NEW p \in Procs, Load(p) PROVE StoreInv'
BY StatKeeps, LookupKeeps, ParseKeeps, RecheckKeeps, InsertKeeps DEF Load

---------------------------------------------------------------------------
(* The start and the end of a writer's work, and the watcher's.            *)

\* One process moves between positions; nothing is loaded or written.
LEMMA MoveRests ==
  ASSUME StoreInv, NEW p \in Procs, NEW l \in Labels, pc' = [pc EXCEPT ![p] = l],
         \/ UNCHANGED lock /\ pc[p] \notin AtRest /\ l \notin AtRest
         \/ UNCHANGED lock /\ p \notin Writers
         \/ Leave(p) /\ l \in AtRest
         \/ lock = NoProc /\ lock' = p /\ p \in Writers /\ l \notin AtRest,
         UNCHANGED <<file, editing, seenAt, got, history>>,
         cache' = cache \/ cache' = NoEntry,
         WatchOK', BoundsOK', events' \in Nat,
         copy' \in [Restorers -> Configs],
         l \notin HasGot \/ p \in Restorers, l # "insert", l # "lookup",
         p \in Restorers => l \in AtRest \cup {"backup", "loaded", "saved"},
         \A r \in Restorers \ {p} : copy'[r] = copy[r],
         p \in Restorers =>
           /\ l = "loaded" => copy'[p] = file
           /\ l \in {"saved", "done"} => pc[p] \in {"saved", "done"} /\ copy'[p] = copy[p]
  PROVE  StoreInv'
<1>1. PcOK BY TypeParts DEF StoreInv
<1>2. pc'[p] = l /\ \A q \in Procs \ {p} : pc'[q] = pc[q] BY <1>1 DEF PcOK
<1>3. PcOK' /\ LockOK' /\ Excludes' BY LockMoves DEF StoreInv
<1>4. Restorers \subseteq Procs BY DEF Procs, Savers, Writers
<1>5. \A r \in Restorers : pc'[r] \in AtRest \cup {"backup", "loaded", "saved"}
  BY <1>2, <1>4 DEF StoreInv, NeverLoads
<1>6. \A q \in Procs : /\ pc'[q] \in HasGot => pc[q] \in HasGot \/ q \in Restorers
                       /\ pc'[q] = "insert" => pc[q] = "insert"
                       /\ pc'[q] = "lookup" => pc[q] = "lookup"
  BY <1>2
<1>7. Copied'
  <2> SUFFICES ASSUME NEW r \in Restorers
               PROVE  /\ pc'[r] = "loaded" => copy'[r] = file \/ file.by \notin Writers
                      /\ pc'[r] \in {"saved", "done"} =>
                           copy'[r] = replaced[r] \/ replaced[r].by \notin Writers
    BY DEF Copied, history
  <2>1. CASE r = p BY <1>2, <2>1 DEF StoreInv, Copied
  <2>2. CASE r # p BY <1>2, <1>4, <2>2 DEF StoreInv, Copied
  <2> QED BY <2>1, <2>2
<1> QED BY <1>3, <1>5, <1>6, <1>7, Rests

LEMMA WriterKeeps ==
  ASSUME StoreInv, NEW p \in Procs,
         Enter(p) \/ EnterUnlocked(p) \/ (p \in Restorers /\ SafetyCopy(p))
         \/ SaveFails(p) \/ Acknowledge(p)
  PROVE  StoreInv'
<1>1. LoadsOK /\ DiskOK /\ PcOK /\ WatchOK /\ PastOK /\ BoundsOK BY TypeParts DEF StoreInv
<1> USE DEF disk, loads, watch, history, bounds
<1>2. CASE Enter(p)
  <2> DEFINE l == IF p \in Restorers THEN "backup" ELSE "load"
  <2>1. /\ p \in Writers /\ lock = NoProc /\ lock' = p /\ pc' = [pc EXCEPT ![p] = l]
        /\ UNCHANGED <<disk, loads, watch, history, bounds, copy, now>>
    BY <1>2 DEF Enter, LockAllows, Goto
  <2>2. /\ l \in Labels /\ l \notin AtRest /\ l \notin HasGot /\ l # "insert" /\ l # "lookup"
        /\ l # "loaded" /\ l \notin {"saved", "done"} /\ (p \in Restorers => l = "backup")
    BY DEF Labels, AtRest, HasGot
  <2> HIDE DEF l
  <2>3. WatchOK' /\ BoundsOK' BY <1>1, <2>1 DEF WatchOK, BoundsOK
  <2>4. events' \in Nat /\ copy' \in [Restorers -> Configs] BY <1>1, <2>1 DEF DiskOK, PastOK
  <2> QED BY <2>1, <2>2, <2>3, <2>4, MoveRests
<1>3. CASE EnterUnlocked(p)
  <2>1. /\ p \in Outsiders /\ pc' = [pc EXCEPT ![p] = "load"]
        /\ UNCHANGED <<disk, loads, watch, history, bounds, lock, copy, now>>
    BY <1>3 DEF EnterUnlocked, Goto
  <2>2. p \notin Writers /\ p \notin Restorers BY <2>1, ConfigAssumption DEF Writers
  <2>3. WatchOK' /\ BoundsOK' BY <1>1, <2>1 DEF WatchOK, BoundsOK
  <2>4. events' \in Nat /\ copy' \in [Restorers -> Configs] BY <1>1, <2>1 DEF DiskOK, PastOK
  <2>5. "load" \in Labels /\ "load" \notin HasGot BY DEF Labels, HasGot
  <2> QED BY <2>1, <2>2, <2>3, <2>4, <2>5, MoveRests
<1>4. CASE p \in Restorers /\ SafetyCopy(p)
  <2>1. /\ pc[p] = "backup" /\ copy' = [copy EXCEPT ![p] = file] /\ pc' = [pc EXCEPT ![p] = "loaded"]
        /\ UNCHANGED <<disk, loads, watch, history, bounds, lock, now>>
    BY <1>4 DEF SafetyCopy, Goto
  <2>2. /\ copy' \in [Restorers -> Configs] /\ copy'[p] = file
        /\ \A r \in Restorers \ {p} : copy'[r] = copy[r]
    BY <1>1, <1>4, <2>1 DEF PastOK, DiskOK
  <2>3. WatchOK' /\ BoundsOK' BY <1>1, <2>1 DEF WatchOK, BoundsOK
  <2>4. events' \in Nat BY <1>1, <2>1 DEF DiskOK
  <2>5. "loaded" \in Labels /\ "loaded" \notin AtRest /\ pc[p] \notin AtRest
    BY <2>1 DEF Labels, AtRest
  <2> QED BY <1>4, <2>1, <2>2, <2>3, <2>4, <2>5, MoveRests
<1>5. CASE SaveFails(p)
  <2>1. /\ pc' = [pc EXCEPT ![p] = "failed"] /\ Leave(p)
        /\ saveFaults < MaxSaveFaults /\ saveFaults' = saveFaults + 1
        /\ UNCHANGED <<disk, loads, watch, history, handEdits, copy, now>>
    BY <1>5 DEF SaveFails, Goto
  <2>2. WatchOK' BY <1>1, <2>1 DEF WatchOK
  <2>3. BoundsOK' BY <1>1, <2>1, ConfigAssumption DEF BoundsOK
  <2>4. events' \in Nat /\ copy' \in [Restorers -> Configs] BY <1>1, <2>1 DEF DiskOK, PastOK
  <2>5. "failed" \in Labels /\ "failed" \in AtRest /\ "failed" \notin HasGot
    BY DEF Labels, AtRest, HasGot
  <2> QED BY <2>1, <2>2, <2>3, <2>4, <2>5, MoveRests
<1>6. CASE Acknowledge(p)
  <2>1. /\ pc[p] = "saved" /\ cache' = NoEntry /\ pc' = [pc EXCEPT ![p] = "done"] /\ Leave(p)
        /\ UNCHANGED <<disk, seenAt, got, watch, history, bounds, copy, now>>
    BY <1>6 DEF Acknowledge, Goto
  <2>2. WatchOK' /\ BoundsOK' BY <1>1, <2>1 DEF WatchOK, BoundsOK
  <2>3. events' \in Nat /\ copy' \in [Restorers -> Configs] BY <1>1, <2>1 DEF DiskOK, PastOK
  <2>4. "done" \in Labels /\ "done" \in AtRest /\ "done" \notin HasGot BY DEF Labels, AtRest, HasGot
  <2> QED BY <2>1, <2>2, <2>3, <2>4, MoveRests
<1> QED BY <1>2, <1>3, <1>4, <1>5, <1>6

LEMMA WatcherKeeps ==
  ASSUME StoreInv, FileEvent \/ Reload \/ Tick PROVE StoreInv'
<1>1. LoadsOK /\ DiskOK /\ PcOK /\ WatchOK /\ PastOK /\ BoundsOK /\ LockOK
  BY TypeParts DEF StoreInv
<1>2. Watcher \in Procs /\ Watcher \notin Writers /\ Watcher \notin Restorers
  BY ConfigAssumption DEF Procs, Savers, Writers
<1> USE DEF disk, loads, watch, history, bounds
<1>3. CASE FileEvent /\ Settled
  <2>1. /\ events > 0 /\ events' = events - 1 /\ lastModified' = now /\ dropped' = FALSE
        /\ cache' = NoEntry /\ pc' = [pc EXCEPT ![Watcher] = "load"]
        /\ UNCHANGED <<file, editing, seenAt, got, running, history, bounds, lock, copy, now>>
    BY <1>3 DEF FileEvent, Goto
  <2>2. events' \in Nat BY <1>1, <2>1 DEF DiskOK
  <2>3. WatchOK' /\ BoundsOK' BY <1>1, <2>1 DEF WatchOK, BoundsOK
  <2>4. copy' \in [Restorers -> Configs] BY <1>1, <2>1 DEF PastOK
  <2>5. "load" \in Labels /\ "load" \notin HasGot BY DEF Labels, HasGot
  <2> QED BY <1>2, <2>1, <2>2, <2>3, <2>4, <2>5, MoveRests
<1>4. CASE Reload
  <2>1. /\ running' = got[Watcher] /\ pc' = [pc EXCEPT ![Watcher] = "idle"]
        /\ UNCHANGED <<disk, loads, lastModified, dropped, history, bounds, lock, copy, now>>
    BY <1>4 DEF Reload, Goto
  <2>2. WatchOK' /\ BoundsOK' BY <1>1, <1>2, <2>1 DEF WatchOK, BoundsOK, LoadsOK
  <2>3. events' \in Nat /\ copy' \in [Restorers -> Configs] BY <1>1, <2>1 DEF DiskOK, PastOK
  <2>4. "idle" \in Labels /\ "idle" \notin HasGot BY DEF Labels, HasGot
  <2> QED BY <1>2, <2>1, <2>2, <2>3, <2>4, MoveRests
<1>5. CASE Tick \/ (FileEvent /\ ~Settled)
  <2>1. /\ UNCHANGED <<file, editing, seenAt, got, cache, pc, lock, copy, running, lastModified>>
        /\ UNCHANGED <<history, bounds>>
    BY <1>5 DEF Tick, FileEvent
  <2>2. events' \in Nat BY <1>1, <1>5 DEF Tick, FileEvent, DiskOK
  <2>3. dropped' \in BOOLEAN BY <1>1, <1>5 DEF Tick, FileEvent, WatchOK
  <2>4. now' \in Times BY <1>1, <1>5, ConfigAssumption DEF Tick, FileEvent, BoundsOK, Times
  <2>5. WatchOK' /\ BoundsOK' BY <1>1, <2>1, <2>3, <2>4 DEF WatchOK, BoundsOK
  <2>6. PcOK' /\ LockOK' /\ Excludes' BY <1>1, <2>1 DEF PcOK, LockOK, StoreInv, Excludes
  <2>7. Copied' BY <2>1 DEF StoreInv, Copied
  <2>8. copy' \in [Restorers -> Configs] BY <1>1, <2>1 DEF PastOK
  <2>9. \A r \in Restorers : pc'[r] \in AtRest \cup {"backup", "loaded", "saved"}
    BY <2>1 DEF StoreInv, NeverLoads
  <2> QED BY <2>1, <2>2, <2>5, <2>6, <2>7, <2>8, <2>9, Rests
<1> QED BY <1>3, <1>4, <1>5

---------------------------------------------------------------------------
(* The file is replaced.                                                   *)

\* The loads in progress do not notice.
LEMMA FileMoves ==
  ASSUME StoreInv, NEW edits \in SUBSET Savers, NEW valid \in BOOLEAN, NEW who \in Savers \cup {NoProc},
         Replace(edits, valid, who), UNCHANGED <<loads, watch, now>>,
         \A p \in Procs : pc'[p] = pc[p] \/ (pc[p] = "loaded" /\ pc'[p] = "saved"),
         editing' = NoEntry \/ editing' = editing \/ editing' \in [at : Nat, edits : SUBSET Savers]
  PROVE  /\ file' = [edits |-> edits, valid |-> valid, version |-> file.version + 1, by |-> who]
         /\ DiskOK' /\ LoadsOK' /\ WatchOK' /\ NeverLoads'
         /\ OneContent' /\ Sound' /\ Fresher'
         /\ \A c \in Configs : InPlay(c)' => c = file' \/ InPlay(c)
<1>1. LoadsOK /\ DiskOK /\ WatchOK BY TypeParts DEF StoreInv
<1> USE DEF loads, watch
<1>2. file' = [edits |-> edits, valid |-> valid, version |-> file.version + 1, by |-> who]
      /\ events' = events + 1
  BY DEF Replace, Written
<1>3. file.version \in Nat BY <1>1 DEF DiskOK, Configs
<1>4. file' \in Configs /\ file'.version = file.version + 1 BY <1>2, <1>3 DEF Configs
<1>5. DiskOK' BY <1>1, <1>2, <1>4 DEF DiskOK
<1>6. LoadsOK' BY <1>1 DEF LoadsOK
<1>7. WatchOK' BY <1>1 DEF WatchOK
<1>8. Restorers \subseteq Procs BY DEF Procs, Savers, Writers
<1>9. NeverLoads' BY <1>8 DEF StoreInv, NeverLoads
<1>10. \A c \in Configs : InPlay(c)' => c = file' \/ InPlay(c) BY DEF InPlay
<1>11. OneContent' BY <1>4, <1>10, ContentMoves DEF StoreInv
<1>12. Sound' BY DEF StoreInv, Sound
<1>13. Fresher'
  <2> SUFFICES ASSUME NEW p \in Procs
               PROVE  /\ seenAt[p] <= file'.version
                      /\ pc'[p] \in HasGot => got[p].version >= seenAt[p]
                      /\ pc'[p] = "insert" => got[p].version = seenAt[p]
    BY DEF Fresher
  <2>1. seenAt[p] \in Nat /\ seenAt[p] <= file.version BY <1>1 DEF LoadsOK, StoreInv, Fresher
  <2>2. seenAt[p] <= file'.version BY <1>3, <1>4, <2>1
  <2>3. pc'[p] \in HasGot => pc'[p] = pc[p] BY DEF HasGot
  <2> QED BY <2>2, <2>3 DEF StoreInv, Fresher, HasGot
<1> QED BY <1>2, <1>5, <1>6, <1>7, <1>9, <1>10, <1>11, <1>12, <1>13

\* Nor do the handlers, as long as the history only grows.
LEMMA HandlersKeep ==
  ASSUME StoreInv, UNCHANGED <<loads, saved>>, lost \subseteq lost',
         file'.version = file.version + 1,
         \A c \in Configs : InPlay(c)' => c = file' \/ InPlay(c),
         \A h \in Handlers : pc'[h] = pc[h]
  PROVE  \A h \in Handlers :
           /\ pc'[h] = "lookup" =>
                \A c \in Configs : InPlay(c)' /\ c.version = seenAt'[h] /\ c.valid => Covers(c.edits)'
           /\ pc'[h] \in HasGot => Covers(got[h].edits)'
<1>1. LoadsOK /\ DiskOK BY TypeParts DEF StoreInv
<1>2. Handlers \subseteq Procs BY DEF Procs, Savers, Writers
<1>3. UNCHANGED <<cache, seenAt, got>> BY DEF loads
<1>4. ASSUME NEW h \in Handlers, pc[h] = "lookup",
             NEW c \in Configs, InPlay(c)', c.version = seenAt[h], c.valid
      PROVE  Covers(c.edits)'
  <2>1. seenAt[h] \in Nat /\ file.version \in Nat /\ seenAt[h] <= file.version
    BY <1>1, <1>2 DEF LoadsOK, DiskOK, Configs, StoreInv, Fresher
  <2>2. c # file' BY <1>4, <2>1
  <2>3. InPlay(c) BY <1>4, <2>2
  <2>4. Covers(c.edits) BY <1>4, <2>3 DEF StoreInv, Kept
  <2> QED BY <2>4 DEF Covers
<1>5. ASSUME NEW h \in Handlers, pc[h] \in HasGot PROVE Covers(got[h].edits)'
  BY <1>3, <1>5 DEF StoreInv, Kept, Covers
<1> QED BY <1>3, <1>4, <1>5

LEMMA SaveKeeps ==
  ASSUME StoreInv, NEW p \in Procs, Save(p) PROVE StoreInv'
<1>1. /\ p \in Savers /\ pc[p] = "loaded" /\ Replace(Rewritten(p), TRUE, p) /\ UNCHANGED editing
      /\ pc' = [pc EXCEPT ![p] = "saved"]
      /\ UNCHANGED <<loads, watch, bounds, lock, copy, now>>
  BY DEF Save, Goto
<1>2. LoadsOK /\ DiskOK /\ PcOK /\ WatchOK /\ PastOK /\ BoundsOK BY TypeParts DEF StoreInv
<1>3. got[p].edits \subseteq Savers BY <1>2 DEF LoadsOK, Configs
<1>4. Rewritten(p) \in SUBSET Savers BY <1>1, <1>3 DEF Rewritten
<1>5. pc'[p] = "saved" /\ \A q \in Procs \ {p} : pc'[q] = pc[q] BY <1>1, <1>2 DEF PcOK
<1>6. \A q \in Procs : pc'[q] = pc[q] \/ (pc[q] = "loaded" /\ pc'[q] = "saved") BY <1>1, <1>5
<1>7. /\ file' = [edits |-> Rewritten(p), valid |-> TRUE, version |-> file.version + 1, by |-> p]
      /\ DiskOK' /\ LoadsOK' /\ WatchOK' /\ NeverLoads' /\ OneContent' /\ Sound' /\ Fresher'
      /\ \A c \in Configs : InPlay(c)' => c = file' \/ InPlay(c)
  BY <1>1, <1>4, <1>6, FileMoves
<1>8. BoundsOK' BY <1>1, <1>2 DEF BoundsOK, bounds
<1>9. PcOK' /\ LockOK' /\ Excludes'
  <2>1. "loaded" \notin AtRest /\ "saved" \in Labels /\ "saved" \notin AtRest BY DEF Labels, AtRest
  <2> QED BY <1>1, <2>1, LockMoves DEF StoreInv
<1>10. /\ Handlers \subseteq Procs /\ Restorers \subseteq Procs /\ Handlers \cap Restorers = {}
       /\ Writers = Handlers \cup Restorers /\ Writers \cap Outsiders = {}
       /\ Savers = Writers \cup Outsiders
  BY ConfigAssumption DEF Procs, Savers, Writers
<1>11. ASSUME p \in Writers, NEW q \in Writers, q # p PROVE pc[q] \in AtRest
  <2>1. lock = p BY <1>1, <1>11 DEF StoreInv, Excludes, AtRest
  <2> QED BY <1>11, <2>1 DEF StoreInv, Excludes
<1>12. /\ file'.edits = Rewritten(p) /\ file'.by = p /\ file'.version = file.version + 1
  BY <1>7
<1>13. Copied'
  <2> SUFFICES ASSUME NEW r \in Restorers
               PROVE  /\ pc'[r] = "loaded" => copy[r] = file' \/ file'.by \notin Writers
                      /\ pc'[r] \in {"saved", "done"} =>
                           copy[r] = replaced'[r] \/ replaced'[r].by \notin Writers
    BY <1>1 DEF Copied
  <2>1. CASE r = p
    <3>1. replaced' = [replaced EXCEPT ![p] = file] BY <2>1 DEF Save
    <3>2. replaced'[r] = file BY <1>2, <2>1, <3>1 DEF PastOK
    <3> QED BY <1>1, <1>5, <2>1, <3>2 DEF StoreInv, Copied
  <2>2. CASE r # p
    <3>1. replaced'[r] = replaced[r]
      <4>1. p \in Restorers => replaced' = [replaced EXCEPT ![p] = file] BY DEF Save
      <4>2. p \notin Restorers => replaced' = replaced BY DEF Save
      <4> QED BY <1>2, <2>2, <4>1, <4>2 DEF PastOK
    <3>2. pc'[r] = pc[r] BY <1>5, <1>10, <2>2
    <3>3. p \in Writers => pc[r] # "loaded" BY <1>10, <1>11, <2>2 DEF AtRest
    <3> QED BY <1>12, <3>1, <3>2, <3>3 DEF StoreInv, Copied
  <2> QED BY <2>1, <2>2
<1>14. PastOK'
  <2>1. CASE p \in Restorers
    <3>1. replaced' = [replaced EXCEPT ![p] = file] /\ saved' = {} /\ lost' = {}
      BY <2>1 DEF Save
    <3> QED BY <1>1, <1>2, <3>1 DEF PastOK, DiskOK
  <2>2. CASE p \notin Restorers
    <3>1. /\ UNCHANGED replaced /\ (saved' = saved \/ (p \in Handlers /\ saved' = saved \cup {p}))
          /\ lost' \subseteq lost \cup saved
      BY <2>2 DEF Save
    <3> QED BY <1>1, <1>2, <3>1 DEF PastOK
  <2> QED BY <2>1, <2>2
<1>15. Kept'
  <2>1. editing' # NoEntry => /\ editing'.at <= file'.version
                              /\ file'.version # editing'.at
    <3> SUFFICES ASSUME editing # NoEntry
                 PROVE  editing.at <= file'.version /\ file'.version # editing.at
      BY <1>1
    <3>1. editing.at <= file.version BY DEF StoreInv, Kept
    <3>2. editing.at \in Nat /\ file.version \in Nat BY <1>2 DEF DiskOK, Configs
    <3> QED BY <1>12, <3>1, <3>2
  <2>2. CASE p \in Restorers
    <3>1. saved' = {} BY <2>2 DEF Save
    <3> QED BY <2>1, <3>1 DEF Kept, Covers
  <2>3. CASE p \in Handlers
    <3>1. saved' = saved \cup {p} /\ lost' = lost \ Rewritten(p) /\ Rewritten(p) = got[p].edits \cup {p}
      BY <1>10, <2>3 DEF Save, Rewritten
    <3>2. Covers(got[p].edits) BY <1>1, <2>3 DEF StoreInv, Kept, HasGot
    <3>3. Covers(file.edits)' BY <1>12, <3>1, <3>2 DEF Covers
    <3>4. \A h \in Handlers : pc'[h] # "lookup" /\ pc'[h] \notin HasGot
      BY <1>5, <1>10, <1>11, <2>3 DEF AtRest, HasGot
    <3> QED BY <2>1, <3>3, <3>4 DEF Kept
  <2>4. CASE p \in Outsiders
    <3>1. saved' = saved /\ lost' = lost \cup (saved \ Rewritten(p))
      BY <1>10, <2>4 DEF Save
    <3>2. Covers(file.edits)' BY <1>12, <3>1 DEF Covers
    <3>3. \A h \in Handlers : pc'[h] = pc[h] BY <1>5, <1>10, <2>4
    <3>4. \A h \in Handlers :
            /\ pc'[h] = "lookup" =>
                 \A c \in Configs : InPlay(c)' /\ c.version = seenAt'[h] /\ c.valid => Covers(c.edits)'
            /\ pc'[h] \in HasGot => Covers(got[h].edits)'
      BY <1>1, <1>7, <1>10, <3>1, <3>3, HandlersKeep
    <3> QED BY <2>1, <3>2, <3>4 DEF Kept
  <2> QED BY <1>1, <1>10, <2>2, <2>3, <2>4
<1>16. TypeOK' BY <1>7, <1>8, <1>9, <1>14, TypePartsNext
<1> QED BY <1>7, <1>9, <1>13, <1>15, <1>16 DEF StoreInv

\* An editor's step, on a file that is there.
LEMMA EditKeeps ==
  ASSUME StoreInv, NEW edits \in SUBSET Savers, NEW valid \in BOOLEAN,
         Replace(edits, valid, NoProc),
         UNCHANGED <<loads, watch, history, saveFaults, lock, pc, copy, now>>,
         handEdits' \in 0..MaxHandEdits,
         editing' = NoEntry \/ editing' = [at |-> file.version + 1, edits |-> file.edits],
         valid => Covers(edits), editing' # NoEntry => Covers(file.edits)
  PROVE  StoreInv'
<1>1. LoadsOK /\ DiskOK /\ PcOK /\ WatchOK /\ PastOK /\ BoundsOK /\ LockOK
  BY TypeParts DEF StoreInv
<1>2. file.version \in Nat /\ file.edits \in SUBSET Savers BY <1>1 DEF DiskOK, Configs
<1>3. editing' = NoEntry \/ editing' \in [at : Nat, edits : SUBSET Savers] BY <1>2
<1>4. /\ file' = [edits |-> edits, valid |-> valid, version |-> file.version + 1, by |-> NoProc]
      /\ DiskOK' /\ LoadsOK' /\ WatchOK' /\ NeverLoads' /\ OneContent' /\ Sound' /\ Fresher'
      /\ \A c \in Configs : InPlay(c)' => c = file' \/ InPlay(c)
  BY <1>3, FileMoves
<1>5. /\ file'.edits = edits /\ file'.valid = valid /\ file'.by = NoProc
      /\ file'.version = file.version + 1
  BY <1>4
<1> USE DEF loads, history
<1>6. BoundsOK' /\ PcOK' /\ LockOK' /\ PastOK' /\ Excludes'
  BY <1>1 DEF BoundsOK, PcOK, LockOK, PastOK, StoreInv, Excludes
<1>7. TypeOK' BY <1>4, <1>6, TypePartsNext
<1>8. NoProc \notin Writers BY ConfigAssumption DEF Procs, Savers, Writers
<1>9. Copied' BY <1>5, <1>8 DEF StoreInv, Copied
<1>10. file'.valid => Covers(file.edits)' BY <1>5 DEF Covers
<1>11. editing' # NoEntry => /\ editing'.at <= file'.version
                             /\ file'.version = editing'.at => Covers(editing.edits)'
  BY <1>2, <1>5 DEF Covers
<1>12. \A h \in Handlers :
         /\ pc'[h] = "lookup" =>
              \A c \in Configs : InPlay(c)' /\ c.version = seenAt'[h] /\ c.valid => Covers(c.edits)'
         /\ pc'[h] \in HasGot => Covers(got[h].edits)'
  BY <1>4, HandlersKeep
<1>13. Kept' BY <1>10, <1>11, <1>12 DEF Kept
<1> QED BY <1>4, <1>6, <1>7, <1>9, <1>13 DEF StoreInv

LEMMA HandKeeps ==
  ASSUME StoreInv, Truncate \/ FinishEdit PROVE StoreInv'
<1>1. LoadsOK /\ DiskOK /\ PcOK /\ WatchOK /\ PastOK /\ BoundsOK /\ LockOK
  BY TypeParts DEF StoreInv
<1>2. CASE Truncate
  <2>1. /\ handEdits < MaxHandEdits /\ file.valid /\ handEdits' = handEdits + 1
        /\ editing' = [at |-> file.version + 1, edits |-> file.edits]
        /\ Replace({}, FALSE, NoProc)
        /\ UNCHANGED <<loads, watch, history, saveFaults, lock, pc, copy, now>>
    BY <1>2 DEF Truncate
  <2>2. handEdits' \in 0..MaxHandEdits BY <1>1, <2>1, ConfigAssumption DEF BoundsOK
  <2>3. Covers(file.edits) BY <2>1 DEF StoreInv, Kept
  <2> QED BY <2>1, <2>2, <2>3, EditKeeps
<1>3. CASE FinishEdit /\ file.version = editing.at
  <2>1. /\ editing # NoEntry /\ editing' = NoEntry
        /\ UNCHANGED <<loads, watch, history, bounds, lock, pc, copy, now>>
    BY <1>3 DEF FinishEdit
  <2>2. PICK valid \in BOOLEAN : Replace(editing.edits, valid, NoProc) BY <1>3 DEF FinishEdit
  <2>3. editing.edits \in SUBSET Savers /\ Covers(editing.edits)
    BY <1>1, <1>3, <2>1 DEF DiskOK, StoreInv, Kept
  <2>4. handEdits' \in 0..MaxHandEdits /\ UNCHANGED saveFaults
    BY <1>1, <2>1 DEF BoundsOK, bounds
  <2>5. UNCHANGED <<loads, watch, history, saveFaults, lock, pc, copy, now>> BY <2>1, <2>4
  <2> QED BY <2>1, <2>2, <2>3, <2>4, <2>5, EditKeeps
<1>4. CASE FinishEdit /\ file.version # editing.at
  <2> USE DEF loads, watch, history, bounds
  <2>1. /\ editing' = NoEntry /\ UNCHANGED <<file, events>>
        /\ UNCHANGED <<cache, seenAt, got, running, lastModified, dropped, replaced, saved, lost,
                       handEdits, saveFaults, lock, pc, copy, now>>
    BY <1>4 DEF FinishEdit
  <2>2. DiskOK' /\ LoadsOK' /\ WatchOK' BY <1>1, <2>1 DEF DiskOK, LoadsOK, WatchOK
  <2>3. BoundsOK' /\ PcOK' /\ LockOK' /\ PastOK'
    BY <1>1, <2>1 DEF BoundsOK, PcOK, LockOK, PastOK
  <2>4. TypeOK' BY <2>2, <2>3, TypePartsNext
  <2>5. Excludes' /\ NeverLoads' /\ Sound' /\ Fresher' /\ Copied'
    BY <2>1 DEF StoreInv, Excludes, NeverLoads, Sound, Fresher, Copied
  <2>6. OneContent' BY <2>1 DEF StoreInv, OneContent, InPlay
  <2>7. Kept' BY <2>1 DEF StoreInv, Kept, Covers, InPlay
  <2> QED BY <2>4, <2>5, <2>6, <2>7 DEF StoreInv
<1> QED BY <1>2, <1>3, <1>4

---------------------------------------------------------------------------
(* The theorems.                                                           *)

LEMMA StepStoreInv == StoreInv /\ [Next]_vars => StoreInv'
<1> SUFFICES ASSUME StoreInv, [Next]_vars PROVE StoreInv' OBVIOUS
<1>1. ASSUME NEW p \in Procs, Step(p) PROVE StoreInv'
  BY <1>1, LoadKeeps, WriterKeeps, SaveKeeps DEF Step
<1>2. CASE UNCHANGED vars
  <2> USE <1>2 DEF vars, disk, loads, watch, history, bounds
  <2>1. TypeOK' BY DEF StoreInv, TypeOK
  <2>2. Excludes' /\ NeverLoads' /\ Sound' /\ Fresher' /\ Copied'
    BY DEF StoreInv, Excludes, NeverLoads, Sound, Fresher, Copied
  <2>3. OneContent' BY DEF StoreInv, OneContent, InPlay
  <2>4. Kept' BY DEF StoreInv, Kept, Covers, InPlay
  <2> QED BY <2>1, <2>2, <2>3, <2>4 DEF StoreInv
<1> QED BY <1>1, <1>2, HandKeeps, WatcherKeeps DEF Next

\* Every file, cache entry, load and copy has its type throughout, and the
\* write lock is held only by a request that is at work.
THEOREM StoreTypes == Spec => []TypeOK
<1>1. StoreInv => TypeOK BY DEF StoreInv
<1> QED BY <1>1, InitStoreInv, StepStoreInv, PTL DEF Spec

\* What was saved under the write lock is in the file, or was erased by a
\* writer that takes no lock; and a restore's safety copy is what it replaced,
\* unless such a writer, or an editor, came between the two.
THEOREM LockKeepsEdits == Spec => []LockGuardsEdits
<1>1. StoreInv => LockedEditsSurvive BY DEF StoreInv, Kept, Covers, LockedEditsSurvive
<1>2. StoreInv => SafetyCopyIsExact BY DEF StoreInv, Copied, SafetyCopyIsExact
<1>3. StoreInv => LockGuardsEdits BY <1>1, <1>2 DEF LockGuardsEdits
<1> QED BY <1>3, InitStoreInv, StepStoreInv, PTL DEF Spec

\* A load answers with a config no older than the file was when it began,
\* whether it read the file or hit the cache, and whatever other threads
\* fill or clear the cache with meanwhile.
THEOREM CacheIsCurrent == Spec => []LoadIsCurrent
<1>1. StoreInv => LoadIsCurrent
  BY DEF StoreInv, Fresher, HasGot, LoadIsCurrent, Procs, Savers, Writers
<1> QED BY <1>1, InitStoreInv, StepStoreInv, PTL DEF Spec

=============================================================================
