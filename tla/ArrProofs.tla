----------------------------- MODULE ArrProofs ------------------------------
(***************************************************************************)
(* What the two modules that work on the *arr's media promise for every    *)
(* list of media, number of runs, failed requests and interleaving.  Of    *)
(* Upgradinatorr's rotation: one search at a time, tags that stand for     *)
(* searches, and no download forgotten.  Of Renameinatorr's batches: what  *)
(* is found sound is sound, what is tagged is renamed, no folder is merged.*)
(***************************************************************************)
EXTENDS Upgradinatorr, Renameinatorr, WellFoundedInduction, FiniteSetTheorems, TLAPS

\* Where the run stands, its item, its plan and its budget agree.
PlanAgrees ==
  /\ at \in {"search", "wait"} => run.todo # {} /\ run.todo \subseteq UnitsOf(run.item)
  /\ at = "tag" => run.todo = {}
  /\ at \in {"search", "wait", "tag", "untrack"} => run.item \in ToSet(Items)
  /\ run.left = 0 => at = "record"

\* What a run holds in memory of its searches and grabs is empty but between the
\* step that puts it there and the one that records it.
Kept ==
  /\ run.deferred # None => at \in {"record", "save"}
  /\ run.running => /\ at \in {"gate", "next", "record", "save"}
                    /\ run.batch = {} /\ run.deferred = None
  /\ run.grabs # {} => at \in {"gate", "next", "search", "wait", "tag", "untrack", "record"}
  /\ at = "settle" => run.resolved \subseteq reported

\* The one unit whose search may be running: the one the run waits for, the row
\* of the table, or what the run will put there.
Watched ==
  CASE at = "wait" -> Unit
    [] at \in {"idle", "gather", "clear", "resume", "report", "settle"} -> inflight
    [] OTHER -> RowToKeep

\* While no run loses track nothing runs but that unit, and its download is the only
\* one that is neither in the run's hands, nor on record, nor forgotten.
Quieted ==
  /\ at \in {"gather", "clear", "resume"} => run.row = inflight
  /\ Running \subseteq {Watched} /\ ~piled
  /\ \A g \in Grabs \ Unused :
       \/ g \in pending \cup reported \cup forgotten \cup run.grabs
       \/ Watched # None /\ made[Watched] = g

Quiet == "lostTrack" \notin blame => Quieted

\* Only a search that completed has made a download.
MadeByCompleted == \A u \in Units : search[u] # "completed" => made[u] = None

\* What progress and tags stand for has been searched in this rotation or let go,
\* and so has the item in hand, its plan and its blocked albums apart.
WaitedFor == at = "wait" /\ search[Unit] = "completed" => Unit \in searched

Rotated ==
  "progressKept" \notin blame =>
    /\ at # "clear" => progress \subseteq searched
    /\ at \in {"search", "wait", "tag"} /\ ~run.flawed =>
         UnitsOf(run.item) \ (run.blocked \cup run.todo) \subseteq searched
    /\ \A i \in tagged : UnitsOf(i) \subseteq searched

RotationInv ==
  TypeOK /\ PlanAgrees /\ Kept /\ Quiet /\ MadeByCompleted /\ WaitedFor /\ Rotated

---------------------------------------------------------------------------
(* The batch, the units and the run's record.                              *)

LEMMA LeastExists ==
  ASSUME NEW T, T \subseteq Nat, T # {}
  PROVE  \E x \in T : \A y \in T : x <= y
<1>1. PICK x \in T : \A y \in T : ~ (<<y, x>> \in OpToRel(<, Nat))
  BY WFMin, NatLessThanWellFounded, Zenon
<1>2. ASSUME NEW y \in T PROVE x <= y
  <2>1. ~ (<<y, x>> \in OpToRel(<, Nat)) /\ x \in Nat /\ y \in Nat
    BY <1>1, <1>2
  <2> QED
    BY <2>1 DEF OpToRel
<1> QED
  BY <1>2

\* The first item of a batch is one of its items.
LEMMA FirstOfBatch ==
  ASSUME UpgradinatorrAssumption, NEW batch \in SUBSET ToSet(Items), batch # {}
  PROVE  First(batch) \in batch
<1>1. \A i \in batch : Position(i) \in Nat
  <2> TAKE i \in batch
  <2>1. \E k \in DOMAIN Items : Items[k] = i
    BY DEF ToSet
  <2>2. Position(i) \in DOMAIN Items
    BY <2>1 DEF Position
  <2> QED
    BY <2>2 DEF UpgradinatorrAssumption
<1> DEFINE T == {Position(i) : i \in batch}
<1>2. T \subseteq Nat /\ T # {}
  BY <1>1
<1>3. PICK x \in T : \A y \in T : x <= y
  BY <1>2, LeastExists
<1>4. PICK i \in batch : x = Position(i)
  OBVIOUS
<1>5. \A j \in batch : Position(i) <= Position(j)
  BY <1>3, <1>4
<1> QED
  BY <1>5 DEF First

LEMMA UnitsOfItem ==
  ASSUME UpgradinatorrAssumption, NEW i \in ToSet(Items)
  PROVE  /\ UnitsOf(i) \subseteq Units
         /\ \A u \in UnitsOf(i) : Leaf(u) => u \in ToSet(Items) /\ UnitsOf(u) = {u}
<1>1. UnitsOf(i) \subseteq Units
  BY DEF Units
<1>2. ASSUME NEW u \in UnitsOf(i), Leaf(u) PROVE u \in ToSet(Items) /\ UnitsOf(u) = {u}
  <2>1. i \in DOMAIN AlbumsOf /\ u \in DOMAIN AlbumsOf
    BY <1>2 DEF UpgradinatorrAssumption, Leaf, ToSet
  <2>2. AlbumsOf[i] = {}
    BY <1>2, <2>1 DEF UpgradinatorrAssumption, UnitsOf
  <2>3. u = i
    BY <1>2, <2>2 DEF UnitsOf
  <2> QED
    BY <2>1, <2>2, <2>3 DEF UnitsOf
<1> QED
  BY <1>1, <1>2

LEMMA UnitFacts ==
  ASSUME UpgradinatorrAssumption, NEW u \in Units
  PROVE  u # None /\ (Leaf(u) => u \in ToSet(Items) /\ UnitsOf(u) = {u})
<1>1. PICK i \in ToSet(Items) : u \in UnitsOf(i)
  BY DEF Units
<1> QED
  BY <1>1, UnitsOfItem DEF UpgradinatorrAssumption

\* The unit the run searches or waits for is one it has planned.
LEMMA UnitPlanned ==
  ASSUME UpgradinatorrAssumption, PlanAgrees, at \in {"search", "wait"}
  PROVE  /\ Unit \in run.todo /\ Unit \in UnitsOf(run.item) /\ Unit \in Units /\ Unit # None
         /\ run.item \in ToSet(Items)
<1>1. run.todo # {} /\ run.todo \subseteq UnitsOf(run.item) /\ run.item \in ToSet(Items)
  BY DEF PlanAgrees
<1>2. Unit \in run.todo
  BY <1>1 DEF Unit
<1> QED
  BY <1>1, <1>2, UnitsOfItem, UnitFacts

Runs == [row : Units \cup {None}, running : BOOLEAN, blocked : SUBSET Units,
         batch : SUBSET ToSet(Items), item : ToSet(Items) \cup {None},
         todo : SUBSET Units, tried : SUBSET ToSet(Items), flawed : BOOLEAN, left : 0..Budget,
         deferred : Units \cup {None}, grabs : SUBSET Grabs, resolved : SUBSET Grabs]

LEMMA NoRunFields ==
  ASSUME UpgradinatorrAssumption
  PROVE  /\ NoRun \in Runs
         /\ NoRun.row = None /\ NoRun.running = FALSE /\ NoRun.batch = {} /\ NoRun.todo = {}
         /\ NoRun.left = Budget /\ NoRun.deferred = None /\ NoRun.grabs = {}
         /\ NoRun.resolved = {} /\ Budget # 0
<1>1. Budget \in 0..Budget /\ Budget # 0
  BY DEF UpgradinatorrAssumption
<1> QED
  BY <1>1 DEF NoRun, Runs

\* What a search's answer leaves of the run's plan.
LEMMA CountedFields ==
  ASSUME UpgradinatorrAssumption, TypeOK, PlanAgrees, at \in {"search", "wait"},
         NEW failed \in BOOLEAN, NEW grabs \in SUBSET Grabs, Counted(Unit, failed, grabs)
  PROVE  /\ run' \in Runs /\ at' \in {"next", "record", "tag", "search"}
         /\ run'.row = run.row /\ run'.running = run.running /\ run'.batch = run.batch
         /\ run'.item = run.item /\ run'.blocked = run.blocked
         /\ run'.deferred = run.deferred /\ run'.resolved = run.resolved
         /\ run'.todo = run.todo \ {Unit} /\ run'.flawed = (run.flawed \/ failed)
         /\ run'.grabs = run.grabs \cup grabs
         /\ at' = "tag" => run'.todo = {}
         /\ at' = "search" => run'.todo # {}
         /\ run'.left = 0 => at' = "record"
<1> DEFINE todo == run.todo \ {Unit}
<1>1. run \in Runs /\ Unit \in Units
  BY UnitPlanned DEF TypeOK, Runs
<1>2. run.left \in 1..Budget /\ run.left - 1 \in 0..Budget
  BY <1>1 DEF Runs, PlanAgrees, UpgradinatorrAssumption
<1>3. /\ run' = [run EXCEPT !.todo = todo, !.left = run.left - 1,
                            !.flawed = run.flawed \/ failed,
                            !.grabs = run.grabs \cup grabs]
      /\ at' = IF Leaf(Unit) /\ run.left > 1 THEN "next"
               ELSE AfterSearch(run.left - 1, todo)
  BY DEF Counted
<1>4. /\ (run.flawed \/ failed) \in BOOLEAN /\ todo \in SUBSET Units
      /\ run.grabs \cup grabs \in SUBSET Grabs
  BY <1>1 DEF Runs
<1>5. /\ run' \in Runs
      /\ run'.row = run.row /\ run'.running = run.running /\ run'.batch = run.batch
      /\ run'.item = run.item /\ run'.blocked = run.blocked
      /\ run'.deferred = run.deferred /\ run'.resolved = run.resolved
      /\ run'.todo = todo /\ run'.flawed = (run.flawed \/ failed)
      /\ run'.grabs = run.grabs \cup grabs
      /\ run'.left = run.left - 1
  BY <1>1, <1>2, <1>3, <1>4 DEF Runs
<1>6. /\ at' \in {"next", "record", "tag", "search"}
      /\ at' = "tag" => todo = {} /\ run.left - 1 > 0
      /\ at' = "search" => todo # {} /\ run.left - 1 > 0
      /\ run.left - 1 = 0 => at' = "record"
  BY <1>2, <1>3 DEF AfterSearch
<1> QED
  BY <1>5, <1>6

\* The answer of a search that completed: what the run makes of its download.
LEMMA CompletedFields ==
  ASSUME UpgradinatorrAssumption, TypeOK, PlanAgrees, SearchCompleted
  PROVE  \E grabs \in SUBSET Grabs :
           Counted(Unit, FALSE, grabs) /\ Captured(Unit, grabs)
<1>1. PICK grabs \in {GrabsSince(Unit), {}} : Captured(Unit, grabs) /\ Counted(Unit, FALSE, grabs)
  BY DEF SearchCompleted
<1>2. GrabsSince(Unit) \subseteq Grabs
  BY UnitPlanned DEF SearchCompleted, GrabsSince, TypeOK
<1> QED
  BY <1>1, <1>2

\* What is captured, or what is not, accounts for the unit's download.
LEMMA CapturedHeld ==
  ASSUME NEW u, NEW grabs, Captured(u, grabs)
  PROVE  made[u] \in grabs \cup forgotten' \cup {None} /\ forgotten \subseteq forgotten'
BY DEF Captured, GrabsSince

LEMMA CollectFields ==
  ASSUME UpgradinatorrAssumption, TypeOK, Collect
  PROVE  /\ run' \in Runs /\ run'.running = FALSE /\ run'.deferred = None
         /\ run'.grabs = {} /\ run'.left # 0 /\ pending' \subseteq pending
         /\ pending \cup forgotten = pending' \cup forgotten'
         /\ "lostTrack" \notin blame' => UNCHANGED blame /\ run'.row = inflight
<1>1. CASE /\ \E old \in SUBSET pending, resolved \in SUBSET pending :
                /\ pending' = pending \ old /\ forgotten' = forgotten \cup old
                /\ run' = [NoRun EXCEPT !.row = inflight, !.resolved = resolved \ old]
           /\ UNCHANGED blame
  <2>1. PICK old \in SUBSET pending, resolved \in SUBSET pending :
          /\ pending' = pending \ old /\ forgotten' = forgotten \cup old
          /\ run' = [NoRun EXCEPT !.row = inflight, !.resolved = resolved \ old]
    BY <1>1
  <2>2. resolved \ old \in SUBSET Grabs /\ inflight \in Units \cup {None}
    BY <2>1 DEF TypeOK
  <2>3. pending' \subseteq pending /\ pending \cup forgotten = pending' \cup forgotten'
    BY <2>1
  <2> QED
    BY <1>1, <2>1, <2>2, <2>3, NoRunFields DEF Runs
<1>2. CASE Fault("lostTrack") /\ run' = NoRun /\ UNCHANGED <<pending, forgotten>>
  BY <1>2, NoRunFields DEF Fault
<1> QED
  BY <1>1, <1>2 DEF Collect

LEMMA GatherFields ==
  ASSUME UpgradinatorrAssumption, TypeOK, Gather
  PROVE  /\ run' \in Runs
         /\ run'.row = run.row /\ run'.running = run.running /\ run'.deferred = run.deferred
         /\ run'.grabs = run.grabs /\ run'.left = run.left
         /\ at' \in {"clear", "resume"}
         /\ tagged' = tagged \/ tagged' = {}
         /\ at' = "resume" => UNCHANGED <<tagged, searched>>
         /\ at' = "clear" => tagged' = {}
<1>1. PICK blocked \in {Holding, {}} :
        run' = [run EXCEPT !.batch = Candidates(tagged, blocked), !.blocked = blocked]
  BY DEF Gather
<1>2. blocked \in SUBSET Units /\ Candidates(tagged, blocked) \in SUBSET ToSet(Items)
  BY <1>1 DEF Holding, Candidates
<1> QED
  BY <1>1, <1>2 DEF Gather, TypeOK, Runs

LEMMA ClearFields ==
  ASSUME UpgradinatorrAssumption, TypeOK, ClearProgress
  PROVE  /\ run' \in Runs
         /\ run'.row = run.row /\ run'.running = run.running /\ run'.deferred = run.deferred
         /\ run'.grabs = run.grabs /\ run'.left = run.left
         /\ "progressKept" \notin blame' => progress' = {} /\ UNCHANGED blame
<1>1. Candidates(tagged, run.blocked) \in SUBSET ToSet(Items)
  BY DEF Candidates
<1> QED
  BY <1>1 DEF ClearProgress, Fault, TypeOK, Runs

LEMMA StillRunningFields ==
  ASSUME UpgradinatorrAssumption, TypeOK, StillRunning
  PROVE  /\ run' \in Runs
         /\ run'.row = run.row /\ run'.running = TRUE /\ run'.deferred = run.deferred
         /\ run'.grabs = run.grabs /\ run'.left = run.left /\ run'.batch = {}
  BY DEF StillRunning, TypeOK, Runs

LEMMA ResumeFields ==
  ASSUME UpgradinatorrAssumption, TypeOK, NEW u \in Units, Resume(u)
  PROVE  /\ run' \in Runs
         /\ run'.row = run.row /\ run'.running = run.running /\ run'.deferred = run.deferred
         /\ run'.left = run.left /\ run'.batch = run.batch \ {u}
         /\ run.grabs \subseteq run'.grabs /\ forgotten \subseteq forgotten'
         /\ made[u] \in run'.grabs \cup forgotten' \cup {None}
<1> DEFINE tried == {i \in ToSet(Items) : u \in UnitsOf(i)}
<1>1. PICK grabs \in {GrabsSince(u), {}} :
        /\ Captured(u, grabs)
        /\ run' = [run EXCEPT !.grabs = run.grabs \cup grabs, !.batch = run.batch \ {u},
                              !.tried = tried]
  BY DEF Resume
<1>2. grabs \subseteq Grabs /\ tried \in SUBSET ToSet(Items)
  BY <1>1 DEF GrabsSince, TypeOK
<1>3. run \in Runs
  BY DEF TypeOK, Runs
<1> HIDE DEF tried
<1>4. /\ run' \in Runs
      /\ run'.row = run.row /\ run'.running = run.running /\ run'.deferred = run.deferred
      /\ run'.left = run.left /\ run'.batch = run.batch \ {u}
      /\ run'.grabs = run.grabs \cup grabs
  BY <1>1, <1>2, <1>3 DEF Runs
<1> QED
  BY <1>1, <1>4, CapturedHeld

LEMMA NextItemFields ==
  ASSUME UpgradinatorrAssumption, TypeOK, NextItem
  PROVE  /\ run' \in Runs /\ run.batch # {}
         /\ run'.row = run.row /\ run'.running = run.running /\ run'.deferred = run.deferred
         /\ run'.grabs = run.grabs /\ run'.left = run.left /\ run'.blocked = run.blocked
         /\ run'.item \in ToSet(Items)
         /\ run'.todo = UnitsOf(run'.item) \ (run.blocked \cup progress)
         /\ at' = IF run'.todo = {} THEN "tag" ELSE "search"
<1> DEFINE i == First(run.batch)
           todo == UnitsOf(i) \ (run.blocked \cup progress)
<1>1. run.batch # {} /\ run.batch \in SUBSET ToSet(Items)
  BY DEF NextItem, TypeOK
<1>2. i \in ToSet(Items)
  BY <1>1, FirstOfBatch
<1>3. todo \in SUBSET Units
  BY <1>2, UnitsOfItem
<1>4. /\ run' = [run EXCEPT !.batch = run.batch \ {i}, !.item = i, !.todo = todo,
                            !.tried = run.tried \cup {i}, !.flawed = FALSE]
      /\ at' = IF todo = {} THEN "tag" ELSE "search"
  BY DEF NextItem
<1>5. run \in Runs
  BY DEF TypeOK, Runs
<1> HIDE DEF i, todo
<1>6. /\ run' \in Runs
      /\ run'.row = run.row /\ run'.running = run.running /\ run'.deferred = run.deferred
      /\ run'.grabs = run.grabs /\ run'.left = run.left /\ run'.blocked = run.blocked
      /\ run'.item = i /\ run'.todo = todo
  BY <1>1, <1>2, <1>3, <1>4, <1>5 DEF Runs
<1> QED
  BY <1>1, <1>2, <1>4, <1>6 DEF todo

LEMMA DeferredFields ==
  ASSUME UpgradinatorrAssumption, TypeOK, PlanAgrees, SearchDeferred
  PROVE  /\ run' \in Runs
         /\ run'.row = run.row /\ run'.running = run.running /\ run'.deferred = Unit
         /\ run'.grabs = run.grabs /\ run'.left = run.left /\ run'.batch = run.batch
         /\ Unit \in Units
  BY UnitPlanned DEF SearchDeferred, Step, TypeOK, Runs

LEMMA RecordFields ==
  ASSUME UpgradinatorrAssumption, TypeOK, RecordGrabs
  PROVE  /\ run' \in Runs
         /\ run'.running = run.running /\ run'.deferred = run.deferred
         /\ run'.grabs = {} /\ run'.left # 0 /\ run'.batch = {}
         /\ pending' \subseteq Grabs /\ pending \cup run.grabs \subseteq pending'
<1>1. PICK queued \in SUBSET InQueue : pending' = pending \cup run.grabs \cup queued
  BY DEF RecordGrabs
<1>2. pending' \subseteq Grabs /\ pending \cup run.grabs \subseteq pending'
  BY <1>1 DEF InQueue, TypeOK
<1> QED
  BY <1>2, NoRunFields DEF RecordGrabs, TypeOK, Runs

LEMMA SaveFields ==
  ASSUME UpgradinatorrAssumption, TypeOK, SaveInflight
  PROVE  /\ run' \in Runs
         /\ run'.running = FALSE /\ run'.deferred = None
         /\ run'.grabs = {} /\ run'.left # 0
  BY NoRunFields DEF SaveInflight, TypeOK, Runs

---------------------------------------------------------------------------
(* Types.                                                                  *)

Places == {"idle", "gather", "clear", "resume", "gate", "next", "search", "wait", "tag",
           "untrack", "record", "save", "report", "settle"}

TablesTyped ==
  /\ inflight \in Units \cup {None} /\ progress \subseteq Units /\ pending \subseteq Grabs
  /\ tagged \subseteq ToSet(Items)
ArrTyped ==
  /\ search \in [Units -> {"none", "running", "completed", "failed"}]
  /\ made \in [Units -> Grabs \cup {None}]
  /\ download \in [Grabs -> {"none", "going", "over"}]

LEMMA TypesAre == TypeOK <=> at \in Places /\ run \in Runs /\ TablesTyped /\ ArrTyped
BY DEF TypeOK, Places, Runs, TablesTyped, ArrTyped

LEMMA StepPlanned ==
  UpgradinatorrAssumption /\ TypeOK /\ PlanAgrees /\ [Next]_vars => TypeOK' /\ PlanAgrees'
<1> SUFFICES ASSUME UpgradinatorrAssumption, TypeOK, PlanAgrees, [Next]_vars
             PROVE  TypeOK' /\ PlanAgrees'
  OBVIOUS
<1>0. at \in Places /\ run \in Runs /\ TablesTyped /\ ArrTyped
  BY TypesAre
<1>00. (at' \in Places /\ run' \in Runs /\ TablesTyped' /\ ArrTyped') => TypeOK'
  BY DEF TypeOK, Places, Runs, TablesTyped, ArrTyped
<1> USE DEF Step
<1>1. CASE Collect
  BY <1>0, <1>00, <1>1, CollectFields
  DEF Collect, PlanAgrees, Places, TablesTyped, ArrTyped, tables, arr, history
<1>2. CASE Gather
  BY <1>0, <1>00, <1>2, GatherFields
  DEF Gather, PlanAgrees, Places, TablesTyped, ArrTyped, tables, arr
<1>3. CASE ClearProgress
  BY <1>0, <1>00, <1>3, ClearFields
  DEF ClearProgress, PlanAgrees, Places, TablesTyped, ArrTyped, arr, history
<1>4. CASE ResumeNothing
  BY <1>0, <1>00, <1>4
  DEF ResumeNothing, PlanAgrees, Places, TablesTyped, ArrTyped, tables, arr, history
<1>5. ASSUME NEW u \in Units, Resume(u) PROVE TypeOK' /\ PlanAgrees'
  <2>1. TablesTyped'
    BY <1>0, <1>5, UnitFacts DEF Resume, TablesTyped
  <2> QED
    BY <1>0, <1>00, <1>5, <2>1, ResumeFields DEF Resume, PlanAgrees, Places, ArrTyped, arr
<1>6. CASE ResumeDone \/ GiveUp
  <2>1. run.row \in Units
    BY <1>0, <1>6 DEF ResumeDone, GiveUp, RowState, Runs
  <2> QED
    BY <1>5, <1>6, <2>1 DEF ResumeDone, GiveUp
<1>7. CASE NextItem
  <2>1. run'.todo \subseteq UnitsOf(run'.item)
    BY <1>7, NextItemFields
  <2> QED
    BY <1>0, <1>00, <1>7, <2>1, NextItemFields
    DEF NextItem, PlanAgrees, Places, TablesTyped, ArrTyped, tables, arr, history
<1>8. CASE NoneLeft \/ StopEarly \/ OpenGate \/ CloseGate \/ GatherFails
  BY <1>0, <1>00, <1>8
  DEF NoneLeft, StopEarly, OpenGate, CloseGate, GatherFails, PlanAgrees, Places, TablesTyped,
      ArrTyped, tables, arr, history
<1>9. ASSUME NEW failed \in BOOLEAN, NEW grabs \in SUBSET Grabs,
             Counted(Unit, failed, grabs), at \in {"search", "wait"}, TablesTyped', ArrTyped'
      PROVE  TypeOK' /\ PlanAgrees'
  BY <1>0, <1>00, <1>9, CountedFields, UnitPlanned DEF PlanAgrees, Places
<1>10. CASE StartSearch
  <2>1. TablesTyped' /\ ArrTyped'
    BY <1>0, <1>10, UnitPlanned DEF StartSearch, TablesTyped, ArrTyped, tables
  <2>2. CASE Counted(Unit, TRUE, {})
    BY <1>9, <1>10, <2>1, <2>2 DEF StartSearch
  <2>3. CASE at' = "wait" /\ UNCHANGED run
    BY <1>0, <1>00, <1>10, <2>1, <2>3 DEF StartSearch, PlanAgrees, Places
  <2> QED
    BY <1>10, <2>2, <2>3 DEF StartSearch
<1>11. CASE SearchCompleted
  <2>1. TablesTyped' /\ ArrTyped'
    BY <1>0, <1>11, UnitPlanned, UnitFacts DEF SearchCompleted, TablesTyped, ArrTyped, arr
  <2> QED
    BY <1>9, <1>11, <2>1, CompletedFields DEF SearchCompleted
<1>12. CASE SearchFailed
  <2>1. TablesTyped' /\ ArrTyped'
    BY <1>0, <1>12 DEF SearchFailed, TablesTyped, ArrTyped, tables, arr
  <2> QED
    BY <1>9, <1>12, <2>1 DEF SearchFailed
<1>13. CASE SearchDeferred
  BY <1>0, <1>00, <1>13, DeferredFields
  DEF SearchDeferred, PlanAgrees, Places, TablesTyped, ArrTyped, tables, arr, history
<1>14. CASE TagParent
  <2>1. TablesTyped' /\ ArrTyped'
    BY <1>0, <1>14 DEF TagParent, PlanAgrees, TablesTyped, ArrTyped, tables, arr
  <2> QED
    BY <1>0, <1>00, <1>14, <2>1 DEF TagParent, PlanAgrees, Places
<1>15. CASE ClearForMedia
  BY <1>0, <1>00, <1>15
  DEF ClearForMedia, PlanAgrees, Places, TablesTyped, ArrTyped, arr, history
<1>16. CASE RecordGrabs
  <2>1. TablesTyped' /\ ArrTyped'
    BY <1>0, <1>16, RecordFields DEF RecordGrabs, TablesTyped, ArrTyped, arr
  <2> QED
    BY <1>0, <1>00, <1>16, <2>1, RecordFields DEF RecordGrabs, PlanAgrees, Places
<1>17. CASE SaveInflight
  <2>1. TablesTyped' /\ ArrTyped'
    BY <1>0, <1>17 DEF SaveInflight, RowToKeep, TablesTyped, ArrTyped, arr, Runs
  <2> QED
    BY <1>0, <1>00, <1>17, <2>1, SaveFields DEF SaveInflight, PlanAgrees, Places
<1>18. CASE PrintOutput
  BY <1>0, <1>00, <1>18 DEF PrintOutput, PlanAgrees, Places, TablesTyped, ArrTyped, tables, arr
<1>19. CASE SettleReported
  BY <1>0, <1>00, <1>19, NoRunFields
  DEF SettleReported, PlanAgrees, Places, TablesTyped, ArrTyped, arr, history
<1>20. CASE StillRunning
  BY <1>0, <1>00, <1>20, StillRunningFields
  DEF StillRunning, PlanAgrees, Places, TablesTyped, ArrTyped, tables, arr, history
<1>21. CASE RunDies
  BY <1>0, <1>00, <1>21, NoRunFields
  DEF RunDies, PlanAgrees, Places, TablesTyped, ArrTyped, tables, arr, history
<1>22. ASSUME NEW u \in Units, SearchEnds(u) PROVE TypeOK' /\ PlanAgrees'
  <2>1. TablesTyped'
    BY <1>0, <1>22 DEF SearchEnds, TablesTyped, tables
  <2>2. ArrTyped'
    BY <1>0, <1>22 DEF SearchEnds, ArrTyped, Unused
  <2> QED
    BY <1>0, <1>00, <1>22, <2>1, <2>2 DEF SearchEnds, PlanAgrees
<1>23. ASSUME NEW g \in Grabs, DownloadEnds(g) PROVE TypeOK' /\ PlanAgrees'
  BY <1>0, <1>00, <1>23
  DEF DownloadEnds, PlanAgrees, TablesTyped, ArrTyped, tables, history
<1>24. CASE UNCHANGED vars
  BY <1>24 DEF vars, tables, arr, history, TypeOK, PlanAgrees
<1> QED
  BY <1>1, <1>2, <1>3, <1>4, <1>6, <1>7, <1>8, <1>10, <1>11, <1>12, <1>13, <1>14, <1>15,
     <1>16, <1>17, <1>18, <1>19, <1>20, <1>21, <1>22, <1>23, <1>24
  DEF Next, RunSteps

---------------------------------------------------------------------------
(* What is kept in memory.                                                 *)

LEMMA StepKept ==
  UpgradinatorrAssumption /\ TypeOK /\ PlanAgrees /\ Kept /\ [Next]_vars => Kept'
<1> SUFFICES ASSUME UpgradinatorrAssumption, TypeOK, PlanAgrees, Kept, [Next]_vars
             PROVE  Kept'
  OBVIOUS
<1> USE DEF Step, Kept
<1>1. CASE Collect
  BY <1>1, CollectFields DEF Collect
<1>2. CASE Gather
  BY <1>2, GatherFields DEF Gather
<1>3. CASE ClearProgress
  BY <1>3, ClearFields DEF ClearProgress
<1>4. CASE ResumeNothing \/ NoneLeft \/ StopEarly \/ OpenGate \/ CloseGate \/ GatherFails
  BY <1>4
  DEF ResumeNothing, NoneLeft, StopEarly, OpenGate, CloseGate, GatherFails, history
<1>5. CASE ResumeDone \/ GiveUp
  <2>1. run.row \in Units /\ Resume(run.row)
    BY <1>5, TypesAre DEF ResumeDone, GiveUp, RowState, Runs
  <2> QED
    BY <2>1, ResumeFields DEF Resume
<1>6. CASE StillRunning
  BY <1>6, StillRunningFields DEF StillRunning
<1>7. CASE NextItem
  BY <1>7, NextItemFields DEF NextItem
<1>8. ASSUME NEW failed \in BOOLEAN, NEW grabs \in SUBSET Grabs,
             Counted(Unit, failed, grabs), at \in {"search", "wait"}
      PROVE  Kept'
  BY <1>8, CountedFields
<1>9. CASE StartSearch
  BY <1>8, <1>9 DEF StartSearch
<1>10. CASE SearchCompleted \/ SearchFailed
  BY <1>8, <1>10, CompletedFields DEF SearchCompleted, SearchFailed
<1>11. CASE SearchDeferred
  BY <1>11, DeferredFields DEF SearchDeferred
<1>12. CASE TagParent \/ ClearForMedia
  BY <1>12 DEF TagParent, ClearForMedia, history
<1>13. CASE RecordGrabs
  BY <1>13, RecordFields DEF RecordGrabs
<1>14. CASE SaveInflight
  BY <1>14, SaveFields DEF SaveInflight
<1>15. CASE PrintOutput
  BY <1>15 DEF PrintOutput
<1>16. CASE SettleReported \/ RunDies
  BY <1>16, NoRunFields DEF SettleReported, RunDies
<1>17. ASSUME NEW u \in Units, SearchEnds(u) PROVE Kept'
  BY <1>17 DEF SearchEnds
<1>18. ASSUME NEW g \in Grabs, DownloadEnds(g) PROVE Kept'
  BY <1>18 DEF DownloadEnds, history
<1>19. CASE UNCHANGED vars
  BY <1>19 DEF vars, history
<1> QED
  BY <1>1, <1>2, <1>3, <1>4, <1>5, <1>6, <1>7, <1>9, <1>10, <1>11, <1>12, <1>13, <1>14,
     <1>15, <1>16, <1>17, <1>18, <1>19
  DEF Next, RunSteps

---------------------------------------------------------------------------
(* The *arr: a step of its own, or one of the run's.                       *)

\* Every step but a search's start and its end leaves commands and downloads as
\* they are, ends of downloads apart.
LEMMA ArrSteps ==
  ASSUME UpgradinatorrAssumption, TypeOK, PlanAgrees, [Next]_vars
  PROVE  \/ UNCHANGED <<search, made, download>>
         \/ StartSearch
         \/ \E u \in Units : SearchEnds(u)
         \/ \E g \in Grabs : DownloadEnds(g)
BY DEF Next, RunSteps, Collect, Gather, ClearProgress, ResumeNothing, ResumeDone, Resume,
  GiveUp, StillRunning, NextItem, NoneLeft, StopEarly, OpenGate, CloseGate, GatherFails,
  SearchCompleted, SearchFailed, SearchDeferred, TagParent, ClearForMedia, RecordGrabs,
  SaveInflight, PrintOutput, SettleReported, RunDies, vars, arr

LEMMA StepMade ==
  UpgradinatorrAssumption /\ TypeOK /\ PlanAgrees /\ MadeByCompleted /\ [Next]_vars
    => MadeByCompleted'
<1> SUFFICES ASSUME UpgradinatorrAssumption, TypeOK, PlanAgrees, MadeByCompleted, [Next]_vars
             PROVE  MadeByCompleted'
  OBVIOUS
<1> USE DEF MadeByCompleted
<1>0. ArrTyped
  BY TypesAre
<1>1. CASE UNCHANGED <<search, made, download>>
  BY <1>1
<1>2. CASE StartSearch
  BY <1>0, <1>2, UnitPlanned DEF StartSearch, ArrTyped
<1>3. ASSUME NEW u \in Units, SearchEnds(u) PROVE MadeByCompleted'
  BY <1>0, <1>3 DEF SearchEnds, ArrTyped, Running
<1>4. ASSUME NEW g \in Grabs, DownloadEnds(g) PROVE MadeByCompleted'
  BY <1>4 DEF DownloadEnds
<1> QED
  BY <1>1, <1>2, <1>3, <1>4, ArrSteps

LEMMA StepWaited ==
  UpgradinatorrAssumption /\ TypeOK /\ PlanAgrees /\ WaitedFor /\ [Next]_vars => WaitedFor'
<1> SUFFICES ASSUME UpgradinatorrAssumption, TypeOK, PlanAgrees, WaitedFor, [Next]_vars
             PROVE  WaitedFor'
  OBVIOUS
<1>0. ArrTyped
  BY TypesAre
<1>1. CASE StartSearch
  <2>1. ASSUME at' = "wait" PROVE UNCHANGED run /\ search'[Unit] = "running"
    <3>1. ~ Counted(Unit, TRUE, {})
      BY <1>1, <2>1, CountedFields DEF StartSearch
    <3> QED
      BY <1>0, <1>1, <3>1, UnitPlanned DEF StartSearch, ArrTyped
  <2>2. UNCHANGED run => Unit' = Unit
    BY DEF Unit
  <2> QED
    BY <2>1, <2>2 DEF WaitedFor
<1>2. ASSUME NEW u \in Units, SearchEnds(u) PROVE WaitedFor'
  <2>1. UNCHANGED <<at, run>> /\ Unit' = Unit
    BY <1>2 DEF SearchEnds, Unit
  <2>2. at = "wait" => Unit \in Units
    BY UnitPlanned
  <2> QED
    BY <1>0, <1>2, <2>1, <2>2 DEF SearchEnds, ArrTyped, WaitedFor
<1>3. CASE UNCHANGED <<at, run, search, searched>>
  <2>1. Unit' = Unit
    BY <1>3 DEF Unit
  <2> QED
    BY <1>3, <2>1 DEF WaitedFor
<1>4. CASE at' # "wait"
  BY <1>4 DEF WaitedFor
<1>5. \/ StartSearch \/ (\E u \in Units : SearchEnds(u))
      \/ UNCHANGED <<at, run, search, searched>> \/ at' # "wait"
  <2>1. CASE \E g \in Grabs : DownloadEnds(g)
    BY <2>1 DEF DownloadEnds, history
  <2>2. CASE SearchCompleted \/ SearchFailed
    BY <2>2, CountedFields, CompletedFields DEF SearchCompleted, SearchFailed
  <2> QED
    BY <2>1, <2>2
    DEF Next, RunSteps, Collect, Gather, ClearProgress, ResumeNothing, ResumeDone, Resume,
      GiveUp, StillRunning, NextItem, NoneLeft, StopEarly, OpenGate, CloseGate, GatherFails,
      SearchDeferred, TagParent, ClearForMedia, RecordGrabs,
      SaveInflight, PrintOutput, SettleReported, RunDies, Step, vars, arr, history
<1> QED
  BY <1>1, <1>2, <1>3, <1>4, <1>5

---------------------------------------------------------------------------
(* What tags stand for.                                                    *)

LEMMA BlameGrows ==
  ASSUME UpgradinatorrAssumption, TypeOK, PlanAgrees, [Next]_vars
  PROVE  blame \subseteq blame'
BY DEF Next, RunSteps, Collect, Gather, ClearProgress, ResumeNothing, ResumeDone, Resume,
  GiveUp, StillRunning, NextItem, NoneLeft, StopEarly, OpenGate, CloseGate, GatherFails,
  StartSearch, SearchCompleted, SearchFailed, SearchDeferred, TagParent, ClearForMedia,
  RecordGrabs, SaveInflight, PrintOutput, SettleReported, RunDies, SearchEnds, DownloadEnds,
  Fault, vars, arr, history

LEMMA StepRotated ==
  /\ UpgradinatorrAssumption /\ TypeOK /\ PlanAgrees /\ WaitedFor /\ Rotated
  /\ [Next]_vars
  => Rotated'
<1> SUFFICES ASSUME UpgradinatorrAssumption, TypeOK, PlanAgrees, WaitedFor, Rotated, [Next]_vars,
                    "progressKept" \notin blame'
             PROVE  Rotated'
  BY DEF Rotated
<1>0. /\ at # "clear" => progress \subseteq searched
      /\ at \in {"search", "wait", "tag"} /\ ~run.flawed =>
           UnitsOf(run.item) \ (run.blocked \cup run.todo) \subseteq searched
      /\ \A i \in tagged : UnitsOf(i) \subseteq searched
  BY BlameGrows DEF Rotated
<1> USE DEF Step, Rotated
<1>1. CASE Collect
  BY <1>0, <1>1 DEF Collect, history, tables
<1>2. CASE Gather
  <2>1. CASE at' = "resume"
    BY <1>0, <1>2, <2>1, GatherFields DEF Gather, tables
  <2>2. CASE at' = "clear"
    BY <1>2, <2>2, GatherFields
  <2> QED
    BY <1>2, <2>1, <2>2, GatherFields
<1>3. CASE ClearProgress
  BY <1>0, <1>3, ClearFields DEF ClearProgress, history
<1>4. CASE ResumeNothing \/ NoneLeft \/ StopEarly \/ OpenGate \/ CloseGate \/ GatherFails
  BY <1>0, <1>4
  DEF ResumeNothing, NoneLeft, StopEarly, OpenGate, CloseGate, GatherFails, history, tables
<1>5. CASE ResumeDone \/ GiveUp
  <2>1. run.row \in Units /\ Resume(run.row)
    BY <1>5, TypesAre DEF ResumeDone, GiveUp, RowState, Runs
  <2>2. at = "resume" /\ at' = "gate" /\ searched' = searched \cup {run.row}
    BY <2>1 DEF Resume
  <2>3. run' \in Runs
    BY <2>1, ResumeFields
  <2>4. CASE Leaf(run.row)
    <3>1. UnitsOf(run.row) = {run.row}
      BY <2>1, <2>4, UnitFacts
    <3> QED
      BY <1>0, <2>1, <2>2, <2>3, <2>4, <3>1 DEF Resume
  <2>5. CASE ~Leaf(run.row)
    BY <1>0, <2>1, <2>2, <2>3, <2>5 DEF Resume
  <2> QED
    BY <2>4, <2>5
<1>6. CASE StillRunning
  BY <1>0, <1>6 DEF StillRunning, history, tables
<1>7. CASE NextItem
  BY <1>0, <1>7, NextItemFields DEF NextItem, history, tables
<1>8. CASE StartSearch
  <2>1. UNCHANGED <<searched, progress, tagged>> /\ at = "search"
    BY <1>8 DEF StartSearch, tables
  <2>2. CASE at' = "wait" /\ UNCHANGED run
    BY <1>0, <2>1, <2>2
  <2>3. CASE Counted(Unit, TRUE, {})
    BY <1>0, <2>1, <2>3, CountedFields
  <2> QED
    BY <1>8, <2>2, <2>3 DEF StartSearch
<1>9. CASE SearchCompleted
  <2>1. /\ UNCHANGED searched /\ at = "wait" /\ Unit \in searched
        /\ Unit \in Units /\ \E grabs \in SUBSET Grabs : Counted(Unit, FALSE, grabs)
    BY <1>9, UnitPlanned, CompletedFields DEF SearchCompleted, WaitedFor
  <2>2. ~run'.flawed => UnitsOf(run'.item) \ (run'.blocked \cup run'.todo) \subseteq searched'
    BY <1>0, <2>1, CountedFields
  <2>3. progress' \subseteq searched' /\ \A i \in tagged' : UnitsOf(i) \subseteq searched'
    <3>1. CASE Leaf(Unit)
      <4>1. UnitsOf(Unit) = {Unit}
        BY <2>1, <3>1, UnitFacts
      <4> QED
        BY <1>0, <1>9, <2>1, <3>1, <4>1 DEF SearchCompleted
    <3>2. CASE ~Leaf(Unit)
      BY <1>0, <1>9, <2>1, <3>2 DEF SearchCompleted
    <3> QED
      BY <3>1, <3>2
  <2> QED
    BY <2>2, <2>3
<1>10. CASE SearchFailed
  <2>1. UNCHANGED <<searched, progress, tagged>> /\ at = "wait" /\ Counted(Unit, TRUE, {})
    BY <1>10 DEF SearchFailed, tables, history
  <2> QED
    BY <1>0, <2>1, CountedFields
<1>11. CASE SearchDeferred
  BY <1>0, <1>11 DEF SearchDeferred, tables, history
<1>12. CASE TagParent
  <2>1. CASE MayTag
    <3>1. UnitsOf(run.item) \subseteq searched'
      BY <1>0, <1>12, <2>1 DEF TagParent, MayTag, PlanAgrees
    <3> QED
      BY <1>0, <1>12, <2>1, <3>1 DEF TagParent, tables
  <2>2. CASE ~MayTag
    BY <1>0, <1>12, <2>2 DEF TagParent, tables
  <2> QED
    BY <2>1, <2>2
<1>13. CASE ClearForMedia
  BY <1>0, <1>13 DEF ClearForMedia, history
<1>14. CASE RecordGrabs \/ SaveInflight \/ PrintOutput \/ SettleReported
  BY <1>0, <1>14
  DEF RecordGrabs, SaveInflight, PrintOutput, SettleReported, tables, history
<1>15. CASE RunDies
  <2>1. at # "clear"
    BY <1>15 DEF RunDies, Fault
  <2> QED
    BY <1>0, <1>15, <2>1 DEF RunDies, tables, history
<1>16. ASSUME NEW u \in Units, SearchEnds(u) PROVE Rotated'
  BY <1>0, <1>16 DEF SearchEnds, tables
<1>17. ASSUME NEW g \in Grabs, DownloadEnds(g) PROVE Rotated'
  BY <1>0, <1>17 DEF DownloadEnds, history, tables
<1>18. CASE UNCHANGED vars
  BY <1>0, <1>18 DEF vars, history, tables
<1> QED
  BY <1>1, <1>2, <1>3, <1>4, <1>5, <1>6, <1>7, <1>8, <1>9, <1>10, <1>11, <1>12, <1>13,
     <1>14, <1>15, <1>16, <1>17, <1>18
  DEF Next, RunSteps

---------------------------------------------------------------------------
(* One search at a time, and every download accounted for.                 *)

\* The run goes on and watches what it watched.
LEMMA WatchesOn ==
  ASSUME Quieted, UNCHANGED <<search, made, download, piled>>, Watched' = Watched,
         pending \cup reported \cup forgotten \cup run.grabs
           \subseteq pending' \cup reported' \cup forgotten' \cup run'.grabs,
         at' \in {"gather", "clear", "resume"} => run'.row = inflight'
  PROVE  Quieted'
BY DEF Quieted, Running, Unused

\* What the run watched has ended, and the run holds its download.
LEMMA WatchesNothing ==
  ASSUME Quieted, None \notin Units \cup Grabs, UNCHANGED <<search, made, download, piled>>,
         Watched' = None,
         Watched # None => /\ search[Watched] # "running"
                           /\ made[Watched] \in run'.grabs \cup forgotten' \cup {None},
         pending \cup reported \cup forgotten \cup run.grabs
           \subseteq pending' \cup reported' \cup forgotten' \cup run'.grabs,
         at' \notin {"gather", "clear", "resume"}
  PROVE  Quieted'
<1>1. Running = {} /\ Running' = {}
  BY DEF Quieted, Running
<1>2. Unused' = Unused
  BY DEF Unused
<1>3. ASSUME NEW g \in Grabs \ Unused
      PROVE  g \in pending' \cup reported' \cup forgotten' \cup run'.grabs
  BY <1>3 DEF Quieted
<1> QED
  BY <1>1, <1>2, <1>3 DEF Quieted

LEMMA StepQuiet ==
  /\ UpgradinatorrAssumption /\ TypeOK /\ PlanAgrees /\ Kept /\ MadeByCompleted /\ Quiet
  /\ [Next]_vars
  => Quiet'
<1> SUFFICES ASSUME UpgradinatorrAssumption, TypeOK, PlanAgrees, Kept, MadeByCompleted, Quiet,
                    [Next]_vars, "lostTrack" \notin blame'
             PROVE  Quieted'
  BY DEF Quiet
<1>0. /\ Quieted /\ run \in Runs /\ ArrTyped /\ TablesTyped
      /\ None \notin Units \cup Grabs /\ None \notin Grabs
  BY BlameGrows, TypesAre DEF Quiet, UpgradinatorrAssumption
<1>00. ~Fault("lostTrack")
  BY DEF Fault
<1> USE DEF Step
<1>1. CASE Collect
  <2>1. Watched' = Watched
    BY <1>1 DEF Collect, Watched, tables
  <2> QED
    BY <1>0, <1>1, <2>1, CollectFields, WatchesOn DEF Collect, Kept, tables, arr, history
<1>2. CASE Gather
  <2>1. Watched' = Watched
    BY <1>2 DEF Gather, Watched, tables
  <2> QED
    BY <1>0, <1>2, <2>1, GatherFields, WatchesOn DEF Gather, Quieted, tables, arr
<1>3. CASE ClearProgress
  <2>1. Watched' = Watched
    BY <1>3 DEF ClearProgress, Watched
  <2> QED
    BY <1>0, <1>3, <2>1, ClearFields, WatchesOn DEF ClearProgress, Quieted, arr, history
<1>4. CASE NoneLeft \/ StopEarly \/ OpenGate \/ CloseGate \/ GatherFails
  <2>1. Watched' = Watched
    BY <1>4
    DEF NoneLeft, StopEarly, OpenGate, CloseGate, GatherFails, Watched, RowToKeep, tables
  <2> QED
    BY <1>0, <1>4, <2>1, WatchesOn
    DEF NoneLeft, StopEarly, OpenGate, CloseGate, GatherFails, tables, arr, history
<1>5. CASE ResumeNothing
  <2>0. /\ at = "resume" /\ at' = "gate" /\ UNCHANGED <<run, inflight>>
        /\ run.deferred = None /\ run.running = FALSE /\ run.row = inflight
    BY <1>0, <1>5 DEF ResumeNothing, Kept, Quieted, tables, Runs
  <2>1. Watched = run.row /\ Watched' = None
    BY <2>0 DEF Watched, RowToKeep
  <2>2. run.row # None => search[run.row] = "failed" /\ run.row \in Units
    BY <1>0, <1>5 DEF ResumeNothing, RowState, Runs, ArrTyped
  <2>3. run.row # None => made[run.row] = None
    BY <2>2 DEF MadeByCompleted
  <2> QED
    BY <1>0, <1>5, <2>1, <2>2, <2>3, WatchesNothing
    DEF ResumeNothing, tables, arr, history
<1>6. CASE ResumeDone
  <2>1. run.row \in Units /\ Resume(run.row) /\ search[run.row] = "completed"
    BY <1>0, <1>6 DEF ResumeDone, RowState, Runs
  <2>2. Watched = run.row /\ Watched' = None
    BY <1>0, <2>1, ResumeFields DEF Resume, Watched, Kept, Quieted, RowToKeep
  <2>3. made[run.row] \in run'.grabs \cup forgotten' \cup {None}
    BY <2>1, ResumeFields
  <2> QED
    BY <1>0, <2>1, <2>2, <2>3, ResumeFields, WatchesNothing DEF Resume, arr
<1>7. CASE GiveUp
  BY <1>00, <1>7 DEF GiveUp
<1>8. CASE StillRunning
  <2>1. Watched' = Watched
    BY <1>8, StillRunningFields DEF StillRunning, Watched, Kept, RowToKeep, tables
  <2> QED
    BY <1>0, <1>8, <2>1, StillRunningFields, WatchesOn
    DEF StillRunning, tables, arr, history
<1>9. CASE NextItem
  <2>1. at = "next" /\ at' \in {"tag", "search"} /\ UNCHANGED inflight
    BY <1>9, NextItemFields DEF NextItem, tables
  <2>2. Watched' = Watched
    BY <2>1, <1>9, NextItemFields DEF Watched, RowToKeep
  <2> QED
    BY <1>0, <1>9, <2>1, <2>2, NextItemFields, WatchesOn DEF NextItem, tables, arr, history
<1>10. CASE StartSearch
  <2>1. /\ at = "search" /\ at' = "wait" /\ UNCHANGED <<run, tables, download, reported, forgotten>>
        /\ search' = [search EXCEPT ![Unit] = "running"]
        /\ made' = [made EXCEPT ![Unit] = None] /\ piled' = (piled \/ Running # {})
    BY <1>00, <1>10 DEF StartSearch
  <2>2. Watched = None
    BY <2>1 DEF Watched, Kept, RowToKeep
  <2>3. Unit' = Unit /\ Watched' = Unit
    BY <2>1 DEF Watched, Unit
  <2>4. Running = {} /\ ~piled
    BY <1>0, <2>2, UnitFacts DEF Quieted, Running
  <2>5. Running' \subseteq {Unit} /\ ~piled'
    BY <1>0, <2>1, <2>4 DEF Running, ArrTyped
  <2>6. ASSUME NEW g \in Grabs \ Unused'
        PROVE  g \in pending' \cup reported' \cup forgotten' \cup run'.grabs
    BY <1>0, <2>1, <2>2 DEF Quieted, Unused, tables
  <2> QED
    BY <2>1, <2>3, <2>5, <2>6 DEF Quieted
<1>11. ASSUME NEW failed \in BOOLEAN, NEW grabs \in SUBSET Grabs,
              Counted(Unit, failed, grabs), at = "wait",
              UNCHANGED <<search, made, download, piled, pending, reported, inflight>>,
              forgotten \subseteq forgotten',
              search[Unit] # "running", made[Unit] \in grabs \cup forgotten' \cup {None}
       PROVE  Quieted'
  <2>1. /\ at' \in {"next", "record", "tag", "search"}
        /\ run'.running = run.running /\ run'.deferred = run.deferred
        /\ run'.grabs = run.grabs \cup grabs
    BY <1>11, CountedFields
  <2>2. Watched = Unit /\ Watched' = None
    BY <1>11, <2>1 DEF Watched, Kept, RowToKeep
  <2> QED
    BY <1>0, <1>11, <2>1, <2>2, WatchesNothing
<1>12. CASE SearchCompleted
  <2>1. /\ at = "wait" /\ search[Unit] = "completed"
        /\ UNCHANGED <<search, made, download, piled, pending, reported, inflight>>
    BY <1>12 DEF SearchCompleted, arr
  <2>2. PICK grabs \in SUBSET Grabs : Counted(Unit, FALSE, grabs) /\ Captured(Unit, grabs)
    BY <1>12, CompletedFields
  <2>3. made[Unit] \in grabs \cup forgotten' \cup {None} /\ forgotten \subseteq forgotten'
    BY <2>2, CapturedHeld
  <2> QED
    BY <1>11, <2>1, <2>2, <2>3
<1>13. CASE SearchFailed
  <2>1. Counted(Unit, TRUE, {}) /\ at = "wait" /\ search[Unit] = "failed"
    BY <1>13 DEF SearchFailed
  <2>2. made[Unit] = None
    BY <2>1, UnitPlanned DEF MadeByCompleted
  <2> QED
    BY <1>11, <1>13, <2>1, <2>2 DEF SearchFailed, tables, arr, history
<1>14. CASE SearchDeferred
  <2>1. Watched = Unit /\ Watched' = Unit
    BY <1>14, DeferredFields, UnitPlanned DEF SearchDeferred, Watched, RowToKeep
  <2> QED
    BY <1>0, <1>14, <2>1, DeferredFields, WatchesOn DEF SearchDeferred, tables, arr, history
<1>15. CASE TagParent \/ ClearForMedia
  <2>1. Watched' = Watched
    BY <1>15 DEF TagParent, ClearForMedia, Watched, RowToKeep, tables
  <2> QED
    BY <1>0, <1>15, <2>1, WatchesOn DEF TagParent, ClearForMedia, tables, arr, history
<1>16. CASE RecordGrabs
  <2>1. Watched' = Watched
    BY <1>16, RecordFields DEF RecordGrabs, Watched, RowToKeep
  <2> QED
    BY <1>0, <1>16, <2>1, RecordFields, WatchesOn DEF RecordGrabs, arr, history
<1>17. CASE SaveInflight
  <2>1. Watched' = Watched /\ run.grabs = {}
    BY <1>17 DEF SaveInflight, Watched, Kept
  <2> QED
    BY <1>0, <1>17, <2>1, SaveFields, WatchesOn DEF SaveInflight, arr, history
<1>18. CASE PrintOutput
  <2>1. Watched' = Watched
    BY <1>18 DEF PrintOutput, Watched, tables
  <2> QED
    BY <1>0, <1>18, <2>1, WatchesOn DEF PrintOutput, tables, arr
<1>19. CASE SettleReported
  <2>1. Watched' = Watched /\ run.grabs = {} /\ run.resolved \subseteq reported
    BY <1>19 DEF SettleReported, Watched, Kept
  <2> QED
    BY <1>0, <1>19, <2>1, WatchesOn DEF SettleReported, arr, history
<1>20. CASE RunDies
  <2>1. at = "clear" /\ at' = "idle" /\ UNCHANGED <<tables, arr, history>> /\ run' = NoRun
    BY <1>00, <1>20 DEF RunDies
  <2>2. Watched' = Watched /\ run.grabs = {}
    BY <2>1 DEF Watched, Kept, tables
  <2> QED
    BY <1>0, <2>1, <2>2, WatchesOn DEF tables, arr, history
<1>21. ASSUME NEW u \in Units, SearchEnds(u) PROVE Quieted'
  <2>1. UNCHANGED <<at, run, inflight, pending, reported, forgotten, piled>>
    BY <1>21 DEF SearchEnds, tables
  <2>2. Watched' = Watched
    BY <2>1 DEF Watched, Unit, RowToKeep
  <2>3. u = Watched /\ u # None /\ made[u] = None
    BY <1>0, <1>21, UnitFacts DEF SearchEnds, Quieted, Running, MadeByCompleted
  <2>4. Running' \subseteq {u}
    BY <1>0, <1>21, <2>3 DEF SearchEnds, Quieted, Running, ArrTyped
  <2>5. ASSUME NEW g \in Grabs \ Unused'
        PROVE  g \in pending \cup reported \cup forgotten \cup run.grabs \/ made'[u] = g
    <3>1. CASE g \in Unused
      BY <1>0, <1>21, <2>5, <3>1 DEF SearchEnds, Unused, ArrTyped
    <3>2. CASE g \notin Unused
      BY <1>0, <2>3, <3>2 DEF Quieted
    <3> QED
      BY <3>1, <3>2
  <2> QED
    BY <1>0, <2>1, <2>2, <2>3, <2>4, <2>5 DEF Quieted
<1>22. ASSUME NEW g \in Grabs, DownloadEnds(g) PROVE Quieted'
  <2>1. UNCHANGED <<at, run, inflight, pending, reported, forgotten, piled, search, made>>
    BY <1>22 DEF DownloadEnds, tables, history
  <2>2. Watched' = Watched /\ Running' = Running
    BY <2>1 DEF Watched, Unit, RowToKeep, Running
  <2>3. Unused' = Unused
    BY <1>0, <1>22 DEF DownloadEnds, Unused, ArrTyped
  <2> QED
    BY <1>0, <2>1, <2>2, <2>3 DEF Quieted
<1>23. CASE UNCHANGED vars
  <2>1. Watched' = Watched
    BY <1>23 DEF vars, tables, Watched, Unit, RowToKeep
  <2> QED
    BY <1>0, <1>23, <2>1, WatchesOn DEF vars, tables, arr, history, Quieted
<1> QED
  BY <1>1, <1>2, <1>3, <1>4, <1>5, <1>6, <1>7, <1>8, <1>9, <1>10, <1>12, <1>13, <1>14,
     <1>15, <1>16, <1>17, <1>18, <1>19, <1>20, <1>21, <1>22, <1>23
  DEF Next, RunSteps

---------------------------------------------------------------------------
(* The theorems.                                                           *)

LEMMA InitRotation == UpgradinatorrAssumption /\ Init => RotationInv
<1> SUFFICES ASSUME UpgradinatorrAssumption, Init PROVE RotationInv
  OBVIOUS
<1>1. at = "idle" /\ run = NoRun
  BY DEF Init
<1>2. TypeOK
  BY <1>1, NoRunFields, TypesAre DEF Init, Places, TablesTyped, ArrTyped
<1>3. PlanAgrees /\ Kept
  BY <1>1, NoRunFields DEF PlanAgrees, Kept
<1>4. Quiet /\ MadeByCompleted
  BY <1>1 DEF Init, Quiet, Quieted, Running, Unused, MadeByCompleted
<1>5. WaitedFor /\ Rotated
  BY <1>1 DEF Init, WaitedFor, Rotated
<1> QED
  BY <1>2, <1>3, <1>4, <1>5 DEF RotationInv

LEMMA StepRotation == UpgradinatorrAssumption /\ RotationInv /\ [Next]_vars => RotationInv'
<1> SUFFICES ASSUME UpgradinatorrAssumption, RotationInv, [Next]_vars PROVE RotationInv'
  OBVIOUS
<1>1. /\ TypeOK /\ PlanAgrees /\ Kept /\ Quiet /\ MadeByCompleted /\ WaitedFor /\ Rotated
  BY DEF RotationInv
<1>2. TypeOK' /\ PlanAgrees' /\ Kept'
  BY <1>1, StepPlanned, StepKept
<1>3. Quiet' /\ MadeByCompleted'
  BY <1>1, StepQuiet, StepMade
<1>4. WaitedFor' /\ Rotated'
  BY <1>1, StepWaited, StepRotated
<1> QED
  BY <1>2, <1>3, <1>4 DEF RotationInv

LEMMA RotationKeeps == ASSUME UpgradinatorrAssumption PROVE Spec => []RotationInv
<1>1. Init => RotationInv
  BY InitRotation
<1>2. RotationInv /\ [Next]_vars => RotationInv'
  BY StepRotation
<1> QED
  BY <1>1, <1>2, PTL DEF Spec

\* The run, its three tables and the *arr keep their types.
THEOREM RotationTypes == ASSUME UpgradinatorrAssumption PROVE Spec => []TypeOK
<1>1. RotationInv => TypeOK
  BY DEF RotationInv
<1> QED
  BY <1>1, RotationKeeps, PTL

\* No search is put on a running one while no run loses track; a checked tag stands for
\* what was searched in this rotation or let go; and every download a search made is on
\* record until it is reported, unless the history could not be read when its search
\* was over or its record was pruned.
THEOREM RotationPromise == ASSUME UpgradinatorrAssumption PROVE Spec => []RotationIsSound
<1>1. RotationInv => RotationIsSound
  <2> SUFFICES ASSUME RotationInv PROVE RotationIsSound
    OBVIOUS
  <2>1. OneSearchAtATime
    BY DEF RotationInv, Quiet, Quieted, OneSearchAtATime
  <2>2. TaggedMeansSearched
    BY DEF RotationInv, Rotated, TaggedMeansSearched
  <2>3. GrabsKept
    <3>1. at = "idle" => Watched = inflight /\ run.grabs = {}
      BY DEF RotationInv, Watched, Kept
    <3> QED
      BY <3>1 DEF RotationInv, Quiet, Quieted, Kept, GrabsKept
  <2> QED
    BY <2>1, <2>2, <2>3 DEF RotationIsSound
<1> QED
  BY <1>1, RotationKeeps, PTL

---------------------------------------------------------------------------
(* Renameinatorr: the inductive invariant.                                 *)

\* What the run has found sound, and what it is about to: the *arr's folder of it is
\* the one the run looked in or the one it is in, and a drifted record is one the
\* run's own refresh is about to put right.
NowKnown ==
  namingAt = "check" =>
    \A i \in inHand.changes \ late : onRecord[i] \in {inHand.now[i], onDisk[i].folder}
DriftedFound ==
  namingAt \in {"refreshDrifted", "awaitDrifted"} =>
    \A i \in inHand.drifted \ late : Fitted(i) => onRecord[i] = onDisk[i].folder
DriftedRead ==
  namingAt = "awaitDrifted" =>
    \A i \in inHand.drifted \ late :
      Fitted(i) => fileRecord[i] = onDisk[i].file \/ \E r \in OwnRefresh : i \in r.items
SoundInv == PassedIsSound /\ NowKnown /\ DriftedFound /\ DriftedRead

\* Where nothing failed and no user moved a folder: an item with its old name is as it
\* was at first, in the *arr and in all that any refresh has read, and none moves it.
Undisturbed == namingFaults = 0 /\ movedByUsers = 0
HasNewName(i) == onDisk[i].file = "new"
AsAtFirst(i) ==
  /\ onDisk[i].folder = FirstFolder[i] /\ onRecord[i] = FirstFolder[i] /\ fileRecord[i] = "old"
  /\ i \notin moves.ours \cup moves.earlier
  /\ \A r \in refreshes : i \in r.items =>
       r.saw[i].path = FirstFolder[i] /\ r.saw[i].record = "old"

\* The batch in hand, what is planned for it, and what of it has its new name: all the
\* run has not queued, then all that is not waited for, then all.
InBatchNow == Head(inHand.todo)
HasBatch == namingAt \notin {"idle", "batch"} => inHand.todo # <<>>
PlanIsOfBatch ==
  /\ namingAt \in {"planned", "quiet", "rename", "renaming", "moving"} =>
       Moving \subseteq InBatchNow
  /\ namingAt = "planned" => inHand.rename \subseteq inHand.changes
ItemsRenamed ==  \* an item with its old name is as at first, and untagged
  /\ \A i \in Media : HasNewName(i) \/ AsAtFirst(i)
  /\ \A i \in visited : HasNewName(i)
BatchRenamed ==
  /\ namingAt \in {"planned", "quiet", "rename"} =>
       \A i \in InBatchNow \ inHand.rename : HasNewName(i)
  /\ namingAt = "renaming" => \A i \in InBatchNow \ renames.ours : HasNewName(i)
  /\ namingAt \in {"moving", "movingFolders", "paths", "check", "refreshDrifted",
                   "awaitDrifted", "tag"} => \A i \in InBatchNow : HasNewName(i)
TagInv == PlanIsOfBatch /\ (Undisturbed => ItemsRenamed /\ BatchRenamed)

\* Where nobody else moves folders, a folder to be moved has a name of its own to go
\* to, which no item has.
Pending ==
  moves.earlier \cup moves.ours \cup
    IF namingAt \in {"planned", "quiet", "rename", "renaming", "moving"} THEN Moving ELSE {}
MovesDone ==
  /\ namingAt # "idle" => moves.earlier = {}
  /\ namingAt \notin {"idle", "movingFolders"} => moves.ours = {}
RoomToMove ==
  /\ \A i \in Pending : \A j \in Media \ {i} : onDisk[j].folder # WantedFolder[i]
  /\ \A i, j \in Pending : i # j => WantedFolder[i] # WantedFolder[j]
MoveInv == NeverMerges /\ (~othersMove => MovesDone /\ RoomToMove)

NamingInv == NamingTypeOK /\ HasBatch /\ SoundInv /\ TagInv /\ MoveInv

---------------------------------------------------------------------------
(* Renameinatorr: the types.                                               *)

\* The steps of a run.
NamingPlaces ==
  {"idle", "batch", "refreshing", "plan", "planned", "quiet", "rename", "renaming",
   "moving", "movingFolders", "paths", "check", "refreshDrifted", "awaitDrifted", "tag"}

Commands == [earlier : SUBSET Media, ours : SUBSET Media]

\* The *arr's state and the run's, each by its type.
ArrMediaTyped ==
  /\ onDisk \in [Media -> [folder : FolderNames, file : {"old", "new"}]]
  /\ onRecord \in [Media -> FolderNames] /\ fileRecord \in [Media -> {"old", "new", Lost}]
  /\ renames \in Commands /\ moves \in Commands /\ refreshes \subseteq Refreshes
RunTyped ==
  /\ visited \in SUBSET Media /\ namingAt \in NamingPlaces /\ inHand \in Memory
CountsTyped ==
  /\ refreshedByOthers \in 0..MaxRefreshes /\ movedByUsers \in 0..MaxMoves
  /\ namingFaults \in 0..MaxNamingFaults
HistoryTyped ==
  /\ passed \in SUBSET Media /\ late \in SUBSET Media
  /\ othersMove \in BOOLEAN /\ merged \in BOOLEAN

LEMMA NamingTypesAre ==
  NamingTypeOK <=> ArrMediaTyped /\ RunTyped /\ CountsTyped /\ HistoryTyped
  BY DEF NamingTypeOK, ArrMediaTyped, RunTyped, CountsTyped, HistoryTyped, NamingPlaces, Commands

LEMMA NoBatchTyped == ASSUME RenameinatorrAssumption PROVE NoBatch \in Memory
  BY DEF RenameinatorrAssumption, NoBatch, NoTargets, Memory

LEMMA ChunksTyped ==
  ASSUME RenameinatorrAssumption, NEW items \in SUBSET Media
  PROVE  Chunks(items) \in Seq(SUBSET Media)
<1> DEFINE n == (Cardinality(items) + BatchSize - 1) \div BatchSize
           chunk == [k \in 1..n |->
             {i \in items : Rank(i, items) \in (k - 1) * BatchSize + 1 .. k * BatchSize}]
<1>1. IsFiniteSet(items) /\ BatchSize \in Nat \ {0}
  BY FS_Subset DEF RenameinatorrAssumption
<1>2. Cardinality(items) \in Nat
  BY <1>1, FS_CardinalityType
<1>3. Cardinality(items) + BatchSize - 1 \in Nat
  BY <1>1, <1>2
<1>4. n \in Nat
  BY <1>1, <1>3
<1>5. chunk \in [1..n -> SUBSET Media]
  OBVIOUS
<1> HIDE DEF n
<1>6. chunk \in Seq(SUBSET Media)
  BY <1>4, <1>5
<1>7. n # 0 => <<chunk[1]>> \in Seq(SUBSET Media)
  BY <1>4, <1>5
<1>8. Chunks(items) = IF Batching \/ n = 0 THEN chunk ELSE <<chunk[1]>>
  BY DEF Chunks, n
<1> QED
  BY <1>6, <1>7, <1>8

LEMMA FilesInTyped ==
  ASSUME ArrMediaTyped, NEW f \in FolderNames
  PROVE  FilesIn(f) \subseteq Media \X {"old", "new"}
  BY DEF ArrMediaTyped, FilesIn

LEMMA RefreshTyped ==
  ASSUME ArrMediaTyped, NEW items \in SUBSET Media, NEW who \in {"run", "others"},
         StartRefresh(who, items)
  PROVE  refreshes' \subseteq Refreshes
<1>1. \A i \in items : Looked(i) \in [path : FolderNames, record : {"old", "new", Lost}]
  BY DEF ArrMediaTyped, Looked
<1> DEFINE r == [by |-> who, items |-> items, saw |-> [i \in items |-> Looked(i)]]
<1>2. r \in [by : {"run", "others"}, items : {items},
             saw : [items -> [path : FolderNames, record : {"old", "new", Lost}]]]
  BY <1>1
<1>3. r \in Refreshes
  BY <1>2 DEF Refreshes
<1> QED
  BY <1>3 DEF StartRefresh, ArrMediaTyped

LEMMA DisownTyped ==
  ASSUME ArrMediaTyped
  PROVE  Disown \subseteq Refreshes
<1> SUFFICES ASSUME NEW r \in refreshes
             PROVE  (IF r.by = "run" THEN [r EXCEPT !.by = "others"] ELSE r) \in Refreshes
  BY DEF Disown
<1>1. PICK items \in SUBSET Media :
        r \in [by : {"run", "others"}, items : {items},
              saw : [items -> [path : FolderNames, record : {"old", "new", Lost}]]]
  BY DEF ArrMediaTyped, Refreshes
<1>2. [r EXCEPT !.by = "others"] \in [by : {"run", "others"}, items : {items},
              saw : [items -> [path : FolderNames, record : {"old", "new", Lost}]]]
  BY <1>1
<1> QED
  BY <1>1, <1>2 DEF Refreshes

LEMMA QueuedTyped ==
  ASSUME NEW c \in Commands, NEW items \in SUBSET Media
  PROVE  Queued(c, items) \in Commands
  BY DEF Commands, Queued

(* What the run holds in memory keeps its type, whatever a step puts there. *)

LEMMA HandFlagged ==
  ASSUME NEW h \in Memory, NEW b \in BOOLEAN
  PROVE  /\ [h EXCEPT !.sent = b] \in Memory /\ [h EXCEPT !.sent = b].todo = h.todo
         /\ [h EXCEPT !.healthy = b] \in Memory /\ [h EXCEPT !.healthy = b].todo = h.todo
         /\ [h EXCEPT !.skipped = b, !.target = NoTargets] \in Memory
         /\ [h EXCEPT !.skipped = b, !.target = NoTargets].todo = h.todo
  BY DEF Memory, NoTargets

LEMMA HandRead ==
  ASSUME NEW h \in Memory, NEW now \in [Media -> FolderNames]
  PROVE  [h EXCEPT !.now = now] \in Memory /\ [h EXCEPT !.now = now].todo = h.todo
  BY DEF Memory

LEMMA NextBatchTyped ==
  ASSUME RenameinatorrAssumption, inHand \in Memory, inHand.todo # <<>>
  PROVE  NextBatch \in Memory /\ Head(inHand.todo) \in SUBSET Media
<1>1. inHand.todo \in Seq(SUBSET Media) /\ inHand.path \in [Media -> FolderNames]
      /\ inHand.taken \in SUBSET FolderNames
  BY DEF Memory
<1>2. Tail(inHand.todo) \in Seq(SUBSET Media) /\ Head(inHand.todo) \in SUBSET Media
  BY <1>1
<1>3. NextBatch = [NoBatch EXCEPT !.todo = Tail(inHand.todo), !.path = inHand.path,
                                  !.taken = inHand.taken]
  BY DEF NextBatch
<1> HIDE DEF NextBatch
<1> QED
  BY <1>1, <1>2, <1>3, NoBatchTyped DEF Memory

LEMMA StepNamingTypes ==
  ASSUME RenameinatorrAssumption, NamingTypeOK, HasBatch, [NamingNext]_namingVars
  PROVE  NamingTypeOK' /\ HasBatch'
<1> SUFFICES (ArrMediaTyped /\ RunTyped /\ CountsTyped /\ HistoryTyped)' /\ HasBatch'
  BY DEF NamingTypeOK, ArrMediaTyped, RunTyped, CountsTyped, HistoryTyped, NamingPlaces, Commands
<1>0. ArrMediaTyped /\ RunTyped /\ CountsTyped /\ HistoryTyped
  BY NamingTypesAre
<1> USE DEF NamingStep, NothingElse
<1>1. CASE UNCHANGED namingVars
  BY <1>0, <1>1 DEF namingVars, arrState, namingCounts, namingHistory, ArrMediaTyped, RunTyped,
    CountsTyped, HistoryTyped, HasBatch
<1>2. CASE StartNaming
  <2>1. visited' \in SUBSET Media /\ Untagged(visited') \in SUBSET Media
    BY <1>0, <1>2 DEF StartNaming, AfterCycle, Untagged, RunTyped
  <2>2. inHand' = [NoBatch EXCEPT !.todo = Chunks(Untagged(visited')), !.path = onRecord,
                                  !.taken = {onRecord[i] : i \in Media}]
    BY <1>2 DEF StartNaming
  <2>3. Chunks(Untagged(visited')) \in Seq(SUBSET Media)
    BY <2>1, ChunksTyped
  <2>4. onRecord \in [Media -> FolderNames] /\ {onRecord[i] : i \in Media} \in SUBSET FolderNames
    BY <1>0 DEF ArrMediaTyped
  <2>5. inHand' \in Memory
    BY <2>2, <2>3, <2>4, NoBatchTyped DEF Memory
  <2> QED
    BY <1>0, <1>2, <2>1, <2>5 DEF StartNaming, arrState, namingCounts, ArrMediaTyped, RunTyped,
      CountsTyped, HistoryTyped, HasBatch, NamingPlaces
<1>3. CASE RunEnds \/ Cancelled
  BY <1>0, <1>3, NoBatchTyped DEF RunEnds, Cancelled, StopNaming, arrState, namingCounts,
    namingHistory, ArrMediaTyped, RunTyped, CountsTyped, HistoryTyped, HasBatch, NamingPlaces
<1>4. CASE RefreshBatch
  <2>1. Head(inHand.todo) \in SUBSET Media
    BY <1>0, <1>4, NextBatchTyped DEF RefreshBatch, RunTyped
  <2>2. refreshes' \subseteq Refreshes
    BY <1>0, <1>4, <2>1, RefreshTyped DEF RefreshBatch
  <2> QED
    BY <1>0, <1>4, <2>2 DEF RefreshBatch, namingCounts, namingHistory, ArrMediaTyped, RunTyped,
      CountsTyped, HistoryTyped, HasBatch, NamingPlaces
<1>5. CASE BatchRefreshed
  <2>1. refreshes' \subseteq Refreshes
    BY <1>0, <1>5, DisownTyped DEF BatchRefreshed, ArrMediaTyped
  <2>2. CountsTyped'
    BY <1>0, <1>5 DEF BatchRefreshed, NamingFault, namingCounts, CountsTyped,
      RenameinatorrAssumption
  <2> QED
    BY <1>0, <1>5, <2>1, <2>2 DEF BatchRefreshed, namingHistory, ArrMediaTyped, RunTyped,
      HistoryTyped, HasBatch, NamingPlaces
<1>6. CASE \/ SkipRefresh \/ NothingToDo \/ QuietBeforeRename \/ RenamesFinish \/ NoMoves
           \/ MovesFinish
  BY <1>0, <1>6 DEF SkipRefresh, NothingToDo, QuietBeforeRename, RenamesFinish, NoMoves,
    MovesFinish, arrState, namingCounts, namingHistory, ArrMediaTyped, RunTyped, CountsTyped,
    HistoryTyped, HasBatch, NamingPlaces
<1>7. CASE PlanChunk
  <2>1. Head(inHand.todo) \in SUBSET Media
    BY <1>0, <1>7, NextBatchTyped DEF PlanChunk, RunTyped, HasBatch
  <2>2. PICK nameless, unseen \in SUBSET Head(inHand.todo) :
          LET plan  == Planned(Head(inHand.todo) \ nameless)
              files == {i \in Head(inHand.todo) \ unseen : fileRecord[i] = "old"}
          IN  /\ IF nameless \cup unseen = {} THEN UNCHANGED namingCounts ELSE NamingFault
              /\ inHand' = [inHand EXCEPT
                   !.taken = @ \cup {WantedFolder[i] : i \in plan},
                   !.target = [i \in Media |-> IF i \in plan THEN WantedFolder[i] ELSE Lost],
                   !.rename = files, !.changes = files \cup plan, !.retry = nameless]
              /\ namingAt' = "planned"
    BY <1>7 DEF PlanChunk
  <2> DEFINE plan  == Planned(Head(inHand.todo) \ nameless)
             files == {i \in Head(inHand.todo) \ unseen : fileRecord[i] = "old"}
             target == [i \in Media |-> IF i \in plan THEN WantedFolder[i] ELSE Lost]
             taken == inHand.taken \cup {WantedFolder[i] : i \in plan}
  <2>3. plan \in SUBSET Media /\ files \in SUBSET Media /\ nameless \in SUBSET Media
    BY <2>1 DEF Planned
  <2>4. target \in [Media -> FolderNames \cup {Lost}]
    <3> HIDE DEF plan
    <3> QED
      BY <2>3 DEF RenameinatorrAssumption
  <2>5. taken \in SUBSET FolderNames
    <3> HIDE DEF plan
    <3> QED
      BY <1>0, <2>3 DEF RunTyped, Memory, RenameinatorrAssumption
  <2>6. inHand' = [inHand EXCEPT !.taken = taken, !.target = target, !.rename = files,
                                 !.changes = files \cup plan, !.retry = nameless]
    BY <2>2
  <2>7. inHand' \in Memory /\ inHand'.todo = inHand.todo
    <3>1. files \cup plan \in SUBSET Media
      BY <2>3
    <3>2. inHand \in Memory
      BY <1>0 DEF RunTyped
    <3> HIDE DEF plan, files, target, taken
    <3> QED
      BY <2>3, <2>4, <2>5, <2>6, <3>1, <3>2 DEF Memory
  <2>8. CountsTyped'
    BY <1>0, <2>2 DEF NamingFault, namingCounts, CountsTyped, RenameinatorrAssumption
  <2> QED
    BY <1>0, <1>7, <2>2, <2>7, <2>8 DEF PlanChunk, arrState, namingHistory, ArrMediaTyped,
      RunTyped, HistoryTyped, HasBatch, NamingPlaces
<1>8. CASE PlanFails \/ NeverQuiet
  <2>1. CountsTyped'
    BY <1>0, <1>8 DEF PlanFails, NeverQuiet, NamingFault, CountsTyped, RenameinatorrAssumption
  <2> QED
    BY <1>0, <1>8, <2>1, NoBatchTyped DEF PlanFails, NeverQuiet, StopNaming, arrState,
      namingHistory, ArrMediaTyped, RunTyped, HistoryTyped, HasBatch, NamingPlaces
<1>9. CASE Snapshot
  <2>1. PICK unread \in SUBSET inHand.changes :
       /\ IF unread = {} THEN UNCHANGED namingCounts ELSE NamingFault
       /\ inHand' = [inHand EXCEPT !.changes = @ \ unread, !.rename = @ \ unread,
                    !.retry = @ \cup unread,
                    !.target = [i \in Media |-> IF i \in unread THEN Lost ELSE @[i]],
                    !.before = [i \in Media |-> [files |-> FilesIn(inHand.path[i]),
                                                 record |-> fileRecord[i]]]]
    BY <1>9 DEF Snapshot
  <2> DEFINE target == [i \in Media |-> IF i \in unread THEN Lost ELSE inHand.target[i]]
             before == [i \in Media |-> [files |-> FilesIn(inHand.path[i]),
                                         record |-> fileRecord[i]]]
  <2>2. /\ inHand.changes \ unread \in SUBSET Media /\ inHand.rename \ unread \in SUBSET Media
        /\ inHand.retry \cup unread \in SUBSET Media
        /\ target \in [Media -> FolderNames \cup {Lost}]
        /\ inHand.path \in [Media -> FolderNames]
    BY <1>0, <2>1 DEF RunTyped, Memory
  <2>3. before \in [Media -> [files : SUBSET (Media \X {"old", "new"}),
                              record : {"old", "new", Lost}]]
    BY <1>0, <2>2, FilesInTyped DEF ArrMediaTyped
  <2>4. inHand' = [inHand EXCEPT !.changes = inHand.changes \ unread,
                     !.rename = inHand.rename \ unread, !.retry = inHand.retry \cup unread,
                     !.target = target, !.before = before]
    BY <1>0, <2>1 DEF RunTyped, Memory
  <2>5. inHand' \in Memory /\ inHand'.todo = inHand.todo
    <3>1. inHand \in Memory
      BY <1>0 DEF RunTyped
    <3> HIDE DEF target, before
    <3> QED
      BY <3>1, <2>2, <2>3, <2>4 DEF Memory
  <2>6. CountsTyped'
    BY <1>0, <2>1 DEF NamingFault, namingCounts, CountsTyped, RenameinatorrAssumption
  <2> QED
    BY <1>0, <1>9, <2>5, <2>6 DEF Snapshot, arrState, namingHistory, ArrMediaTyped,
      RunTyped, HistoryTyped, HasBatch, NamingPlaces
<1>10. CASE RenameFiles
  <2>1. CountsTyped'
    BY <1>0, <1>10 DEF RenameFiles, NamingFault, namingCounts, CountsTyped,
      RenameinatorrAssumption
  <2>2. inHand' \in Memory /\ inHand'.todo = inHand.todo
    BY <1>0, <1>10, HandFlagged DEF RenameFiles, RunTyped
  <2>3. renames' \in Commands
    <3>1. inHand.rename \in SUBSET Media /\ {} \in SUBSET Media /\ renames \in Commands
      BY <1>0 DEF RunTyped, Memory, ArrMediaTyped
    <3> QED
      BY <1>10, <3>1, QueuedTyped DEF RenameFiles
  <2> QED
    BY <1>0, <1>10, <2>1, <2>2, <2>3 DEF RenameFiles, namingHistory, ArrMediaTyped,
      RunTyped, HistoryTyped, HasBatch, NamingPlaces
<1>11. CASE GiveUpWaiting
  <2>1. CountsTyped'
    BY <1>0, <1>11 DEF GiveUpWaiting, NamingFault, CountsTyped, RenameinatorrAssumption
  <2>2. renames' \in Commands /\ moves' \in Commands
    BY <1>0, <1>11, QueuedTyped DEF GiveUpWaiting, ArrMediaTyped
  <2> QED
    BY <1>0, <1>11, <2>1, <2>2, NoBatchTyped DEF GiveUpWaiting, StopNaming, namingHistory,
      ArrMediaTyped, RunTyped, HistoryTyped, HasBatch, NamingPlaces
<1>12. CASE MoveFolders
  <2>1. CountsTyped'
    BY <1>0, <1>12 DEF MoveFolders, NamingFault, namingCounts, CountsTyped,
      RenameinatorrAssumption
  <2>2. inHand' \in Memory /\ inHand'.todo = inHand.todo
    BY <1>0, <1>12, HandFlagged DEF MoveFolders, RunTyped
  <2>3. moves' \in Commands
    <3>1. Moving \in SUBSET Media /\ {} \in SUBSET Media /\ moves \in Commands
      BY <1>0 DEF Moving, ArrMediaTyped
    <3> QED
      BY <1>12, <3>1, QueuedTyped DEF MoveFolders
  <2> QED
    BY <1>0, <1>12, <2>1, <2>2, <2>3 DEF MoveFolders, namingHistory, ArrMediaTyped,
      RunTyped, HistoryTyped, HasBatch, NamingPlaces
<1>13. CASE MovesSkipped
  <2>1. CountsTyped'
    BY <1>0, <1>13 DEF MovesSkipped, NamingFault, CountsTyped, RenameinatorrAssumption
  <2>3. inHand' \in Memory /\ inHand'.todo = inHand.todo
    BY <1>0, <1>13, HandFlagged DEF MovesSkipped, RunTyped
  <2> QED
    BY <1>0, <1>13, <2>1, <2>3 DEF MovesSkipped, arrState, namingHistory, ArrMediaTyped,
      RunTyped, HistoryTyped, HasBatch, NamingPlaces
<1>14. CASE ReadPaths
  <2>1. inHand' \in Memory /\ inHand'.todo = inHand.todo
    BY <1>0, <1>14, HandRead DEF ReadPaths, RunTyped, ArrMediaTyped
  <2> QED
    BY <1>0, <1>14, <2>1 DEF ReadPaths, arrState, namingCounts, ArrMediaTyped, RunTyped,
      CountsTyped, HistoryTyped, HasBatch, NamingPlaces
<1>15. CASE CheckBatch
  <2>1. PICK unread \in SUBSET inHand.changes :
       LET sound   == {i \in inHand.changes \ unread : FilesSound(i)}
           drifted == {i \in sound : Drifted(i)}
       IN  /\ IF unread = {} THEN UNCHANGED namingCounts ELSE NamingFault
           /\ inHand' = [inHand EXCEPT !.retry = @ \cup unread, !.drifted = drifted,
                        !.after = [i \in Media |-> After(i)],
                        !.healthy = (sound = inHand.changes)]
           /\ passed' = passed \cup {i \in sound \ drifted : Fitted(i)}
           /\ namingAt' = IF drifted = {} THEN "tag" ELSE "refreshDrifted"
    BY <1>15 DEF CheckBatch
  <2> DEFINE sound   == {i \in inHand.changes \ unread : FilesSound(i)}
             drifted == {i \in sound : Drifted(i)}
             after   == [i \in Media |-> After(i)]
             fine    == sound = inHand.changes
  <2>2. /\ inHand.changes \in SUBSET Media /\ inHand.retry \cup unread \in SUBSET Media
        /\ inHand.now \in [Media -> FolderNames]
    BY <1>0, <2>1 DEF RunTyped, Memory
  <2>3. drifted \in SUBSET Media /\ sound \in SUBSET Media /\ fine \in BOOLEAN
    BY <2>2
  <2>4. after \in [Media -> SUBSET (Media \X {"old", "new"})]
    BY <1>0, <2>2, FilesInTyped DEF After
  <2>5. inHand' = [inHand EXCEPT !.retry = inHand.retry \cup unread, !.drifted = drifted,
                                 !.after = after, !.healthy = fine]
    BY <1>0, <2>1 DEF RunTyped, Memory
  <2>6. inHand' \in Memory /\ inHand'.todo = inHand.todo
    <3>1. inHand \in Memory
      BY <1>0 DEF RunTyped
    <3> HIDE DEF drifted, after, fine
    <3> QED
      BY <3>1, <2>2, <2>3, <2>4, <2>5 DEF Memory
  <2>7. CountsTyped'
    BY <1>0, <2>1 DEF NamingFault, namingCounts, CountsTyped, RenameinatorrAssumption
  <2>8. passed' \in SUBSET Media /\ namingAt' \in {"tag", "refreshDrifted"}
    BY <1>0, <2>1, <2>3 DEF HistoryTyped
  <2> QED
    BY <1>0, <1>15, <2>6, <2>7, <2>8 DEF CheckBatch, arrState, ArrMediaTyped,
      RunTyped, HistoryTyped, HasBatch, NamingPlaces
<1>16. CASE RefreshDrifted
  <2>1. refreshes' \subseteq Refreshes
    BY <1>0, <1>16, RefreshTyped DEF RefreshDrifted, RunTyped, Memory
  <2> QED
    BY <1>0, <1>16, <2>1 DEF RefreshDrifted, namingCounts, namingHistory, ArrMediaTyped, RunTyped,
      CountsTyped, HistoryTyped, HasBatch, NamingPlaces
<1>17. CASE DriftedRefreshed
  <2>1. PICK fine \in BOOLEAN : inHand' = [inHand EXCEPT !.healthy = fine]
    <3> DEFINE lost == {i \in inHand.drifted : Expected(i) # Lost /\ fileRecord[i] # Expected(i)
                                      /\ <<i, Expected(i)>> \in inHand.after[i]}
               fine == inHand.healthy /\ lost = {}
    <3>1. inHand' = [inHand EXCEPT !.healthy = fine]
      BY <1>17 DEF DriftedRefreshed
    <3>2. fine \in BOOLEAN
      OBVIOUS
    <3> QED
      BY <3>1, <3>2
  <2>2. inHand' \in Memory /\ inHand'.todo = inHand.todo
    BY <1>0, <2>1, HandFlagged DEF RunTyped
  <2>3. passed' \in SUBSET Media
    BY <1>0, <1>17 DEF DriftedRefreshed, RunTyped, Memory, HistoryTyped
  <2> QED
    BY <1>0, <1>17, <2>2, <2>3 DEF DriftedRefreshed, arrState, namingCounts, ArrMediaTyped,
      RunTyped, CountsTyped, HistoryTyped, HasBatch, NamingPlaces
<1>18. CASE DriftedUnknown
  <2>1. CountsTyped'
    BY <1>0, <1>18 DEF DriftedUnknown, NamingFault, CountsTyped, RenameinatorrAssumption
  <2>2. inHand' \in Memory /\ inHand'.todo = inHand.todo
    BY <1>0, <1>18, HandFlagged DEF DriftedUnknown, RunTyped
  <2>3. refreshes' \subseteq Refreshes
    BY <1>0, <1>18, DisownTyped DEF DriftedUnknown
  <2> QED
    BY <1>0, <1>18, <2>1, <2>2, <2>3 DEF DriftedUnknown, namingHistory, ArrMediaTyped,
      RunTyped, HistoryTyped, HasBatch, NamingPlaces
<1>19. CASE Tag
  <2>1. NextBatch \in Memory /\ Head(inHand.todo) \in SUBSET Media
    BY <1>0, <1>19, NextBatchTyped DEF Tag, RunTyped, HasBatch
  <2>2. visited' \in SUBSET Media /\ UNCHANGED namingCounts
    BY <1>0, <1>19, <2>1 DEF Tag, TagBatch, RunTyped, namingCounts
  <2>3. inHand' \in Memory /\ namingAt' \in {"batch", "idle"}
    BY <1>19, <2>1, NoBatchTyped DEF Tag, StopNaming
  <2> QED
    BY <1>0, <1>19, <2>2, <2>3 DEF Tag, arrState, namingCounts, namingHistory, ArrMediaTyped,
      RunTyped, CountsTyped, HistoryTyped, HasBatch, NamingPlaces
<1>20. CASE NamingDies
  <2>1. CountsTyped'
    BY <1>0, <1>20 DEF NamingDies, NamingFault, CountsTyped, RenameinatorrAssumption
  <2>2. renames' \in Commands /\ moves' \in Commands
    BY <1>0, <1>20, QueuedTyped DEF NamingDies, ArrMediaTyped
  <2>3. refreshes' \subseteq Refreshes
    BY <1>0, <1>20, DisownTyped DEF NamingDies
  <2> QED
    BY <1>0, <1>20, <2>1, <2>2, <2>3, NoBatchTyped DEF NamingDies, StopNaming, namingHistory,
      ArrMediaTyped, RunTyped, HistoryTyped, HasBatch, NamingPlaces
<1>21. CASE RefreshSaves
  <2>1. PICK r \in refreshes :
    /\ refreshes' = refreshes \ {r}
    /\ onRecord' = [i \in Media |-> IF i \in r.items THEN r.saw[i].path ELSE onRecord[i]]
    /\ fileRecord' = [i \in Media |-> IF i \in r.items THEN r.saw[i].record ELSE fileRecord[i]]
    /\ late' = late \cup {i \in r.items : r.saw[i] # Looked(i)}
    BY <1>21 DEF RefreshSaves
  <2>2. /\ r.items \in SUBSET Media
        /\ r.saw \in [r.items -> [path : FolderNames, record : {"old", "new", Lost}]]
    BY <1>0 DEF ArrMediaTyped, Refreshes
  <2>3. ArrMediaTyped' /\ late' \in SUBSET Media
    BY <1>0, <1>21, <2>1, <2>2 DEF RefreshSaves, ArrMediaTyped, HistoryTyped
  <2> QED
    BY <1>0, <1>21, <2>3 DEF RefreshSaves, namingCounts, RunTyped, CountsTyped, HistoryTyped,
      HasBatch
<1>22. CASE RenameRuns
  <2>1. CountsTyped'
    BY <1>0, <1>22 DEF RenameRuns, NamingFault, namingCounts, CountsTyped, RenameinatorrAssumption
  <2>2. ArrMediaTyped'
    BY <1>0, <1>22 DEF RenameRuns, ArrMediaTyped, Commands, Drop, NoCommand
  <2> QED
    BY <1>0, <1>22, <2>1, <2>2 DEF RenameRuns, namingHistory, RunTyped, HistoryTyped, HasBatch
<1>23. CASE MoveRuns
  <2>1. CountsTyped'
    BY <1>0, <1>23 DEF MoveRuns, NamingFault, namingCounts, CountsTyped, RenameinatorrAssumption
  <2>2. ArrMediaTyped'
    <3>1. moves' \in Commands
      BY <1>0, <1>23 DEF MoveRuns, ArrMediaTyped, Commands, Drop, NoCommand
    <3>2. WantedFolder \in [Media -> FolderNames] /\ moves.ours \subseteq Media
          /\ moves.earlier \subseteq Media /\ DOMAIN NoCommand = {"earlier", "ours"}
      BY <1>0 DEF RenameinatorrAssumption, ArrMediaTyped, Commands, NoCommand
    <3>3. /\ onDisk' \in [Media -> [folder : FolderNames, file : {"old", "new"}]]
          /\ onRecord' \in [Media -> FolderNames]
      BY <1>0, <1>23, <3>2 DEF MoveRuns, ArrMediaTyped
    <3> QED
      BY <1>0, <1>23, <3>1, <3>3 DEF MoveRuns, ArrMediaTyped
  <2>3. merged' \in BOOLEAN
    BY <1>0, <1>23 DEF MoveRuns, HistoryTyped
  <2> QED
    BY <1>0, <1>23, <2>1, <2>2, <2>3 DEF MoveRuns, RunTyped, HistoryTyped, HasBatch
<1>24. ASSUME NEW i \in Media, OthersRefresh(i)
       PROVE  (ArrMediaTyped /\ RunTyped /\ CountsTyped /\ HistoryTyped)' /\ HasBatch'
  <2>1. refreshes' \subseteq Refreshes
    BY <1>0, <1>24, RefreshTyped DEF OthersRefresh
  <2> QED
    BY <1>0, <1>24, <2>1 DEF OthersRefresh, namingHistory, ArrMediaTyped, RunTyped, CountsTyped,
      HistoryTyped, HasBatch, RenameinatorrAssumption
<1>25. ASSUME NEW i \in Media, NEW f \in FolderNames, UserMoves(i, f)
       PROVE  (ArrMediaTyped /\ RunTyped /\ CountsTyped /\ HistoryTyped)' /\ HasBatch'
  <2>1. ArrMediaTyped'
    <3>1. onDisk' \in [Media -> [folder : FolderNames, file : {"old", "new"}]]
      BY <1>0, <1>25 DEF UserMoves, ArrMediaTyped
    <3> QED
      BY <1>0, <1>25, <3>1 DEF UserMoves, ArrMediaTyped
  <2>2. CountsTyped'
    BY <1>0, <1>25 DEF UserMoves, CountsTyped, RenameinatorrAssumption
  <2> QED
    BY <1>0, <1>25, <2>1, <2>2 DEF UserMoves, RunTyped, HistoryTyped, HasBatch
<1> QED
  BY <1>1, <1>2, <1>3, <1>4, <1>5, <1>6, <1>7, <1>8, <1>9, <1>10, <1>11, <1>12, <1>13, <1>14,
     <1>15, <1>16, <1>17, <1>18, <1>19, <1>20, <1>21, <1>22, <1>23, <1>24, <1>25
  DEF NamingNext, NamingSteps

---------------------------------------------------------------------------
(* Renameinatorr: what is found sound.                                     *)

\* The files of an item that the check finds sound, of which it knew the file, are in
\* the folder the run looked in, and their names are the ones it expects on record.
LEMMA SoundIsKnown ==
  ASSUME NamingTypeOK, NEW i \in Media, FilesSound(i), Fitted(i)
  PROVE  onDisk[i].folder = inHand.now[i] /\ onDisk[i].file = Expected(i)
<1> DEFINE rec == inHand.before[i].record
<1>1. onDisk[i].file \in {"old", "new"} /\ rec \in {"old", "new", Lost}
  BY DEF NamingTypeOK, Memory
<1>2. \A name : <<i, name>> \in After(i)
                  <=> onDisk[i].folder = inHand.now[i] /\ name = onDisk[i].file
  BY DEF After, FilesIn
<1>3. Behind(i) = {} /\ Missing(i) = {} /\ <<i, rec>> \in inHand.before[i].files
  BY DEF FilesSound, Fitted
<1>4. \/ <<i, rec>> \in After(i)
      \/ rec = "old" /\ i \in inHand.rename /\ NewName(i) \in After(i)
  BY <1>3 DEF Missing
<1>5. CASE <<i, rec>> \in After(i)
  <2>1. onDisk[i].folder = inHand.now[i] /\ rec = onDisk[i].file
    BY <1>2, <1>5
  <2>2. rec = "old" => ~Renamed(i)
    BY <1>5 DEF Renamed
  <2>3. Expected(i) = rec
    BY <2>2 DEF Expected
  <2> QED
    BY <2>1, <2>3
<1>6. CASE rec = "old" /\ i \in inHand.rename /\ NewName(i) \in After(i)
  <2>1. onDisk[i].folder = inHand.now[i] /\ onDisk[i].file = "new"
    BY <1>2, <1>6 DEF NewName
  <2>2. <<i, "old">> \notin After(i)
    BY <1>2, <2>1
  <2>3. Renamed(i) /\ rec = "old"
    BY <1>6, <2>2 DEF Renamed
  <2>4. Expected(i) = "new"
    BY <2>3 DEF Expected
  <2> QED
    BY <2>1, <2>4
<1> QED
  BY <1>4, <1>5, <1>6

LEMMA StepSound ==
  ASSUME RenameinatorrAssumption, NamingTypeOK, SoundInv, [NamingNext]_namingVars
  PROVE  SoundInv'
<1>0. /\ passed \subseteq Media /\ late \subseteq Media /\ inHand.changes \subseteq Media
      /\ inHand.drifted \subseteq Media /\ inHand \in Memory
      /\ onDisk \in [Media -> [folder : FolderNames, file : {"old", "new"}]]
  BY DEF NamingTypeOK, Memory
<1> DEFINE Looking == {"check", "refreshDrifted", "awaitDrifted"}
<1>1. ASSUME onDisk' = onDisk, onRecord' = onRecord, fileRecord' = fileRecord, passed' = passed,
             late' = late, namingAt' \notin Looking
      PROVE  SoundInv'
  BY <1>1 DEF SoundInv, PassedIsSound, NowKnown, DriftedFound, DriftedRead
<1>2. ASSUME onDisk' = onDisk, onRecord' = onRecord, fileRecord' = fileRecord, passed' = passed,
             late' = late, namingAt' = namingAt, inHand' = inHand, refreshes \subseteq refreshes'
      PROVE  SoundInv'
  BY <1>2 DEF SoundInv, PassedIsSound, NowKnown, DriftedFound, DriftedRead, Fitted, OwnRefresh
<1>3. CASE UNCHANGED namingVars
  BY <1>2, <1>3 DEF namingVars, arrState, namingHistory
<1>4. CASE \/ StartNaming \/ RunEnds \/ RefreshBatch \/ BatchRefreshed \/ SkipRefresh \/ PlanChunk
           \/ NothingToDo \/ Snapshot \/ QuietBeforeRename \/ RenameFiles \/ RenamesFinish
           \/ NoMoves \/ MoveFolders \/ MovesFinish \/ Tag
  BY <1>1, <1>4 DEF StartNaming, RunEnds, RefreshBatch, BatchRefreshed, SkipRefresh, PlanChunk,
    NothingToDo, Snapshot, QuietBeforeRename, RenameFiles, RenamesFinish, NoMoves, MoveFolders,
    MovesFinish, Tag, StopNaming, NamingStep, NothingElse, arrState, namingHistory
<1>5. CASE \/ PlanFails \/ Cancelled \/ NeverQuiet \/ GiveUpWaiting \/ MovesSkipped
           \/ DriftedUnknown \/ NamingDies
  BY <1>1, <1>5 DEF PlanFails, Cancelled, NeverQuiet, GiveUpWaiting, MovesSkipped,
    DriftedUnknown, NamingDies, StopNaming, NamingStep, NothingElse, arrState, namingHistory
<1>6. ASSUME NEW i \in Media, OthersRefresh(i) PROVE SoundInv'
  BY <1>2, <1>6 DEF OthersRefresh, StartRefresh, namingHistory
<1>7. CASE ReadPaths
  <2>1. namingAt' = "check" /\ inHand'.now = onRecord /\ onRecord' = onRecord
    BY <1>0, <1>7 DEF ReadPaths, NamingStep, arrState, Memory
  <2>2. inHand'.changes = inHand.changes
    BY <1>0, <1>7 DEF ReadPaths, Memory
  <2>3. PassedIsSound'
    BY <1>7 DEF ReadPaths, SoundInv, PassedIsSound, arrState
  <2>4. NowKnown'
    BY <2>1, <2>2 DEF NowKnown
  <2> QED
    BY <2>1, <2>3, <2>4 DEF SoundInv, DriftedFound, DriftedRead
<1>8. CASE CheckBatch
  <2>1. PICK unread \in SUBSET inHand.changes :
       LET sound   == {i \in inHand.changes \ unread : FilesSound(i)}
           drifted == {i \in sound : Drifted(i)}
       IN  /\ inHand' = [inHand EXCEPT !.retry = @ \cup unread, !.drifted = drifted,
                        !.after = [i \in Media |-> After(i)],
                        !.healthy = (sound = inHand.changes)]
           /\ passed' = passed \cup {i \in sound \ drifted : Fitted(i)}
           /\ namingAt' = IF drifted = {} THEN "tag" ELSE "refreshDrifted"
    BY <1>8 DEF CheckBatch
  <2>2. UNCHANGED <<onDisk, onRecord, fileRecord, late>> /\ namingAt = "check"
    BY <1>8 DEF CheckBatch, arrState
  <2> DEFINE sound == {i \in inHand.changes \ unread : FilesSound(i)}
             drifted == {i \in sound : Drifted(i)}
  <2>3. inHand'.drifted = drifted /\ inHand'.before = inHand.before
    BY <1>0, <2>1 DEF Memory
  <2>4. ASSUME NEW i \in sound \ late, Fitted(i)
        PROVE  onRecord[i] = onDisk[i].folder /\ onDisk[i].file = Expected(i)
    <3>1. i \in Media /\ i \in inHand.changes \ late /\ FilesSound(i)
      BY <1>0, <2>4
    <3>2. onDisk[i].folder = inHand.now[i] /\ onDisk[i].file = Expected(i)
      BY <2>4, <3>1, SoundIsKnown
    <3>3. onRecord[i] \in {inHand.now[i], onDisk[i].folder}
      BY <2>2, <3>1 DEF SoundInv, NowKnown
    <3> QED
      BY <3>2, <3>3
  <2>5. PassedIsSound'
    <3> SUFFICES ASSUME NEW i \in passed' \ late
                 PROVE  onRecord[i] = onDisk[i].folder /\ fileRecord[i] = onDisk[i].file
      BY <2>2 DEF PassedIsSound
    <3>1. CASE i \in passed
      BY <3>1 DEF SoundInv, PassedIsSound
    <3>2. CASE i \in sound \ drifted /\ Fitted(i)
      <4>1. fileRecord[i] = Expected(i)
        BY <3>2 DEF Drifted
      <4> QED
        BY <2>4, <3>2, <4>1
    <3> QED
      BY <2>1, <3>1, <3>2
  <2>6. NowKnown' /\ DriftedRead' /\ namingAt' \in {"tag", "refreshDrifted"}
    BY <2>1 DEF NowKnown, DriftedRead
  <2>7. DriftedFound'
    <3> SUFFICES ASSUME NEW i \in drifted \ late, Fitted(i)'
                 PROVE  onRecord[i] = onDisk[i].folder
      BY <2>2, <2>3 DEF DriftedFound
    <3>1. Fitted(i)
      BY <2>3 DEF Fitted
    <3> QED
      BY <2>4, <3>1
  <2> QED
    BY <2>5, <2>6, <2>7 DEF SoundInv
<1>9. CASE RefreshDrifted
  <2>1. /\ UNCHANGED <<onDisk, onRecord, fileRecord, inHand, passed, late>>
        /\ namingAt = "refreshDrifted" /\ namingAt' = "awaitDrifted"
    BY <1>9 DEF RefreshDrifted, NamingStep, namingHistory
  <2>2. \E r \in OwnRefresh' : r.items = inHand.drifted
    <3> DEFINE own == [by |-> "run", items |-> inHand.drifted,
                       saw |-> [i \in inHand.drifted |-> Looked(i)]]
    <3>1. own \in refreshes'
      BY <1>9 DEF RefreshDrifted, StartRefresh
    <3>2. own.by = "run" /\ own.items = inHand.drifted
      OBVIOUS
    <3> HIDE DEF own
    <3> QED
      BY <3>1, <3>2 DEF OwnRefresh
  <2> QED
    BY <2>1, <2>2 DEF SoundInv, PassedIsSound, NowKnown, DriftedFound, DriftedRead, Fitted
<1>10. CASE DriftedRefreshed
  <2>1. /\ UNCHANGED <<onDisk, onRecord, fileRecord, late>> /\ OwnRefresh = {}
        /\ namingAt = "awaitDrifted" /\ namingAt' = "tag"
        /\ passed' \subseteq passed \cup {i \in inHand.drifted : Fitted(i)}
    BY <1>10 DEF DriftedRefreshed, NamingStep, arrState
  <2>2. \A i \in inHand.drifted \ late :
          Fitted(i) => onRecord[i] = onDisk[i].folder /\ fileRecord[i] = onDisk[i].file
    BY <2>1 DEF SoundInv, DriftedFound, DriftedRead
  <2> QED
    BY <2>1, <2>2 DEF SoundInv, PassedIsSound, NowKnown, DriftedFound, DriftedRead
<1>11. CASE RefreshSaves
  <2>1. PICK r \in refreshes :
    /\ refreshes' = refreshes \ {r}
    /\ onRecord' = [i \in Media |-> IF i \in r.items THEN r.saw[i].path ELSE onRecord[i]]
    /\ fileRecord' = [i \in Media |-> IF i \in r.items THEN r.saw[i].record ELSE fileRecord[i]]
    /\ late' = late \cup {i \in r.items : r.saw[i] # Looked(i)}
    BY <1>11 DEF RefreshSaves
  <2>2. UNCHANGED <<onDisk, namingAt, inHand, passed>>
    BY <1>11 DEF RefreshSaves
  <2>3. ASSUME NEW i \in Media \ late', i \in r.items
        PROVE  /\ onRecord'[i] = onRecord[i]
               /\ fileRecord'[i] = IF onDisk[i].folder = onRecord[i] THEN onDisk[i].file ELSE Lost
    BY <2>1, <2>3 DEF Looked
  <2>4. ASSUME NEW i \in Media \ late', i \notin r.items
        PROVE  onRecord'[i] = onRecord[i] /\ fileRecord'[i] = fileRecord[i]
    BY <2>1, <2>4
  <2>5. PassedIsSound'
    BY <1>0, <2>1, <2>2, <2>3, <2>4 DEF SoundInv, PassedIsSound
  <2>6. NowKnown'
    BY <1>0, <2>1, <2>2, <2>3, <2>4 DEF SoundInv, NowKnown
  <2>7. DriftedFound'
    BY <1>0, <2>1, <2>2, <2>3, <2>4 DEF SoundInv, DriftedFound, Fitted
  <2>8. DriftedRead'
    <3> SUFFICES ASSUME namingAt = "awaitDrifted", NEW i \in inHand.drifted \ late', Fitted(i)
                 PROVE  fileRecord'[i] = onDisk[i].file \/ \E q \in OwnRefresh' : i \in q.items
      BY <2>2 DEF DriftedRead, Fitted
    <3>1. i \in Media \ late' /\ i \notin late /\ onRecord[i] = onDisk[i].folder
      BY <1>0, <2>1 DEF SoundInv, DriftedFound
    <3>2. CASE i \in r.items
      BY <2>3, <3>1, <3>2
    <3>3. CASE i \notin r.items
      <4>1. fileRecord[i] = onDisk[i].file \/ \E q \in OwnRefresh : i \in q.items
        BY <3>1 DEF SoundInv, DriftedRead
      <4>2. \A q \in OwnRefresh : i \in q.items => q \in OwnRefresh'
        BY <2>1, <3>3 DEF OwnRefresh
      <4> QED
        BY <2>4, <3>1, <3>3, <4>1, <4>2
    <3> QED
      BY <3>2, <3>3
  <2> QED
    BY <2>5, <2>6, <2>7, <2>8 DEF SoundInv
<1>12. CASE RenameRuns
  <2>1. UNCHANGED <<onRecord, refreshes, namingAt, inHand, passed, late>>
    BY <1>12 DEF RenameRuns, namingHistory
  <2>2. \A j \in Media : /\ onDisk'[j].folder = onDisk[j].folder
                         /\ \/ onDisk'[j].file = onDisk[j].file /\ fileRecord'[j] = fileRecord[j]
                            \/ onDisk'[j].file = "new" /\ fileRecord'[j] = "new"
    BY <1>0, <1>12 DEF RenameRuns, NamingTypeOK
  <2> QED
    BY <1>0, <2>1, <2>2 DEF SoundInv, PassedIsSound, NowKnown, DriftedFound, DriftedRead, Fitted,
      OwnRefresh
<1>13. CASE MoveRuns \/ \E i \in Media, f \in FolderNames : UserMoves(i, f)
  <2>1. UNCHANGED <<fileRecord, refreshes, namingAt, inHand, passed, late>>
    BY <1>13 DEF MoveRuns, UserMoves
  <2>2. \A j \in Media :
          /\ onDisk'[j].file = onDisk[j].file
          /\ \/ onDisk'[j].folder = onDisk[j].folder /\ onRecord'[j] = onRecord[j]
             \/ onRecord'[j] = onDisk'[j].folder
    <3>1. CASE MoveRuns
      BY <1>0, <3>1 DEF MoveRuns, NamingTypeOK
    <3>2. CASE \E i \in Media, f \in FolderNames : UserMoves(i, f)
      BY <1>0, <3>2 DEF UserMoves, NamingTypeOK
    <3> QED
      BY <1>13, <3>1, <3>2
  <2> QED
    BY <1>0, <2>1, <2>2 DEF SoundInv, PassedIsSound, NowKnown, DriftedFound, DriftedRead, Fitted,
      OwnRefresh
<1> QED
  BY <1>3, <1>4, <1>5, <1>6, <1>7, <1>8, <1>9, <1>10, <1>11, <1>12, <1>13
  DEF NamingNext, NamingSteps

---------------------------------------------------------------------------
(* Renameinatorr: what is tagged is renamed.                               *)

\* A rename or a move takes one item out of its command.
LEMMA OneRenamed ==
  ASSUME NamingTypeOK, RenameRuns
  PROVE  \E j \in Media :
           /\ renames'.ours \subseteq renames.ours /\ renames.ours \ renames'.ours \subseteq {j}
           /\ \/ /\ onDisk[j].folder = onRecord[j]
                 /\ onDisk' = [onDisk EXCEPT ![j].file = "new"]
                 /\ fileRecord' = [fileRecord EXCEPT ![j] = "new"]
              \/ onDisk[j].folder # onRecord[j] /\ UNCHANGED <<onDisk, fileRecord>>
              \/ NamingFault
<1>1. PICK whose \in DOMAIN NoCommand : \E j \in renames[whose] :
        /\ renames' = Drop(renames, j, whose)
        /\ \/ /\ onDisk[j].folder = onRecord[j]
              /\ onDisk' = [onDisk EXCEPT ![j].file = "new"]
              /\ fileRecord' = [fileRecord EXCEPT ![j] = "new"]
           \/ onDisk[j].folder # onRecord[j] /\ UNCHANGED <<onDisk, fileRecord>>
           \/ NamingFault
  BY DEF RenameRuns
<1>2. renames \in Commands /\ whose \in {"earlier", "ours"}
  BY DEF NamingTypeOK, Commands, NoCommand
<1>3. \A j \in renames[whose] : j \in Media
  BY <1>2 DEF Commands
<1>4. \A j \in renames[whose] : renames' = Drop(renames, j, whose) =>
        renames'.ours \subseteq renames.ours /\ renames.ours \ renames'.ours \subseteq {j}
  BY <1>2 DEF Commands, Drop
<1> QED
  BY <1>1, <1>3, <1>4

LEMMA OneMoved ==
  ASSUME NamingTypeOK, MoveRuns
  PROVE  \E j \in moves.ours \cup moves.earlier :
           /\ j \in Media /\ moves'.ours \subseteq moves.ours
           /\ moves'.earlier \subseteq moves.earlier
           /\ \/ /\ onDisk[j].folder = onRecord[j]
                 /\ onDisk' = [onDisk EXCEPT ![j].folder = WantedFolder[j]]
                 /\ onRecord' = [onRecord EXCEPT ![j] = WantedFolder[j]]
                 /\ merged' = (merged \/ (~othersMove
                                 /\ \E i \in Media \ {j} : onDisk[i].folder = WantedFolder[j]))
              \/ UNCHANGED <<onDisk, onRecord, merged>>
<1>1. PICK whose \in DOMAIN NoCommand : \E j \in moves[whose] :
        /\ moves' = Drop(moves, j, whose)
        /\ \/ /\ onDisk[j].folder = onRecord[j]
              /\ onDisk' = [onDisk EXCEPT ![j].folder = WantedFolder[j]]
              /\ onRecord' = [onRecord EXCEPT ![j] = WantedFolder[j]]
              /\ merged' = (merged \/ (~othersMove
                              /\ \E i \in Media \ {j} : onDisk[i].folder = WantedFolder[j]))
           \/ UNCHANGED <<onDisk, onRecord, merged>>
  BY DEF MoveRuns
<1>2. moves \in Commands /\ whose \in {"earlier", "ours"}
  BY DEF NamingTypeOK, Commands, NoCommand
<1>3. \A j \in moves[whose] : j \in Media /\ j \in moves.ours \cup moves.earlier
  BY <1>2 DEF Commands
<1>4. \A j \in moves[whose] : moves' = Drop(moves, j, whose) =>
        moves'.ours \subseteq moves.ours /\ moves'.earlier \subseteq moves.earlier
  BY <1>2 DEF Commands, Drop
<1> QED
  BY <1>1, <1>3, <1>4

LEMMA FaultDisturbs ==
  ASSUME RenameinatorrAssumption, NamingTypeOK, [NamingNext]_namingVars, Undisturbed'
  PROVE  Undisturbed /\ ~NamingFault /\ \A i \in Media, f \in FolderNames : ~UserMoves(i, f)
<1>1. namingFaults \in Nat /\ movedByUsers \in Nat
  BY DEF NamingTypeOK, RenameinatorrAssumption
<1>2. NamingFault => namingFaults' # 0
  BY <1>1 DEF NamingFault
<1>3. \A i \in Media, f \in FolderNames : UserMoves(i, f) => movedByUsers' # 0
  BY <1>1 DEF UserMoves
<1>4. UNCHANGED <<namingFaults, movedByUsers>>
  BY <1>2, <1>3 DEF Undisturbed, NamingNext, NamingSteps, StartNaming, RunEnds, RefreshBatch,
    BatchRefreshed, SkipRefresh, PlanChunk, NothingToDo, Snapshot, QuietBeforeRename, RenameFiles,
    RenamesFinish, NoMoves, MoveFolders, MovesFinish, ReadPaths, CheckBatch, RefreshDrifted,
    DriftedRefreshed, Tag, PlanFails, Cancelled, NeverQuiet, GiveUpWaiting, MovesSkipped,
    DriftedUnknown, NamingDies, RefreshSaves, RenameRuns, MoveRuns, OthersRefresh,
    NothingElse, namingCounts, namingVars
<1> QED
  BY <1>2, <1>3, <1>4 DEF Undisturbed

LEMMA NamesStay ==
  ASSUME NamingTypeOK, [NamingNext]_namingVars, NEW i \in Media, HasNewName(i)
  PROVE  HasNewName(i)'
<1>0. onDisk \in [Media -> [folder : FolderNames, file : {"old", "new"}]]
  BY DEF NamingTypeOK
<1>1. CASE onDisk' = onDisk
  BY <1>1 DEF HasNewName
<1>2. CASE RenameRuns
  BY <1>0, <1>2 DEF RenameRuns, HasNewName
<1>3. CASE MoveRuns
  BY <1>0, <1>3 DEF MoveRuns, HasNewName
<1>4. ASSUME NEW j \in Media, NEW f \in FolderNames, UserMoves(j, f) PROVE HasNewName(i)'
  BY <1>0, <1>4 DEF UserMoves, HasNewName
<1> QED
  BY <1>1, <1>2, <1>3, <1>4 DEF NamingNext, NamingSteps, StartNaming, RunEnds, RefreshBatch,
    BatchRefreshed, SkipRefresh, PlanChunk, NothingToDo, Snapshot, QuietBeforeRename, RenameFiles,
    RenamesFinish, NoMoves, MoveFolders, MovesFinish, ReadPaths, CheckBatch, RefreshDrifted,
    DriftedRefreshed, Tag, PlanFails, Cancelled, NeverQuiet, GiveUpWaiting, MovesSkipped,
    DriftedUnknown, NamingDies, RefreshSaves, OthersRefresh,
    NothingElse, arrState, namingVars

LEMMA StepPlanIsOfBatch ==
  ASSUME RenameinatorrAssumption, NamingTypeOK, HasBatch, PlanIsOfBatch, [NamingNext]_namingVars
  PROVE  PlanIsOfBatch'
<1>0. inHand \in Memory
  BY DEF NamingTypeOK
<1> DEFINE Planning == {"planned", "quiet", "rename", "renaming", "moving"}
<1>1. ASSUME namingAt' \notin Planning PROVE PlanIsOfBatch'
  BY <1>1 DEF PlanIsOfBatch
<1>2. ASSUME namingAt \in Planning, namingAt' \in Planning, namingAt' # "planned",
             inHand'.todo = inHand.todo, inHand'.target = inHand.target
      PROVE  PlanIsOfBatch'
  BY <1>2 DEF PlanIsOfBatch, Moving, InBatchNow
<1>3. ASSUME namingAt' = namingAt, inHand' = inHand PROVE PlanIsOfBatch'
  BY <1>3 DEF PlanIsOfBatch, Moving, InBatchNow
<1>4. CASE UNCHANGED namingVars
  BY <1>3, <1>4 DEF namingVars
<1>5. CASE \/ StartNaming \/ RunEnds \/ RefreshBatch \/ BatchRefreshed \/ SkipRefresh
           \/ NothingToDo \/ NoMoves \/ MoveFolders \/ MovesFinish \/ ReadPaths \/ CheckBatch
           \/ RefreshDrifted \/ DriftedRefreshed \/ Tag
  BY <1>1, <1>5 DEF StartNaming, RunEnds, RefreshBatch, BatchRefreshed, SkipRefresh,
    NothingToDo, NoMoves, MoveFolders, MovesFinish, ReadPaths, CheckBatch,
    RefreshDrifted, DriftedRefreshed, Tag, StopNaming, NamingStep
<1>6. CASE \/ PlanFails \/ Cancelled \/ NeverQuiet \/ GiveUpWaiting \/ MovesSkipped
           \/ DriftedUnknown \/ NamingDies
  BY <1>1, <1>6 DEF PlanFails, Cancelled, NeverQuiet, GiveUpWaiting, MovesSkipped,
    DriftedUnknown, NamingDies, StopNaming, NamingStep
<1>7. CASE \/ RefreshSaves \/ RenameRuns \/ MoveRuns
           \/ \E i \in Media : OthersRefresh(i) \/ \E f \in FolderNames : UserMoves(i, f)
  BY <1>3, <1>7 DEF RefreshSaves, RenameRuns, MoveRuns, OthersRefresh, UserMoves
<1>8. CASE QuietBeforeRename \/ RenameFiles \/ RenamesFinish
  <2>1. inHand'.todo = inHand.todo /\ inHand'.target = inHand.target
    BY <1>0, <1>8 DEF QuietBeforeRename, RenameFiles, RenamesFinish, Memory
  <2> QED
    BY <1>2, <1>8, <2>1 DEF QuietBeforeRename, RenameFiles, RenamesFinish, NamingStep
<1>9. CASE PlanChunk
  <2>1. PICK nameless, unseen \in SUBSET Head(inHand.todo) :
          LET plan  == Planned(Head(inHand.todo) \ nameless)
              files == {i \in Head(inHand.todo) \ unseen : fileRecord[i] = "old"}
          IN  inHand' = [inHand EXCEPT
                   !.taken = @ \cup {WantedFolder[i] : i \in plan},
                   !.target = [i \in Media |-> IF i \in plan THEN WantedFolder[i] ELSE Lost],
                   !.rename = files, !.changes = files \cup plan, !.retry = nameless]
    BY <1>9 DEF PlanChunk
  <2> DEFINE plan == Planned(Head(inHand.todo) \ nameless)
  <2>2. /\ inHand'.todo = inHand.todo /\ inHand'.rename \subseteq inHand'.changes
        /\ inHand'.target = [i \in Media |-> IF i \in plan THEN WantedFolder[i] ELSE Lost]
    BY <1>0, <2>1 DEF Memory
  <2>3. plan \subseteq Head(inHand.todo)
    BY DEF Planned
  <2>4. Moving' \subseteq InBatchNow'
    <3> HIDE DEF plan
    <3> QED
      BY <2>2, <2>3 DEF Moving, InBatchNow
  <2> QED
    BY <2>2, <2>4 DEF PlanIsOfBatch
<1>10. CASE Snapshot
  <2>1. /\ inHand'.todo = inHand.todo /\ namingAt = "planned" /\ namingAt' = "quiet"
        /\ \A i \in Media : inHand'.target[i] # Lost => inHand.target[i] # Lost
    BY <1>0, <1>10 DEF Snapshot, NamingStep, Memory
  <2> QED
    BY <2>1 DEF PlanIsOfBatch, Moving, InBatchNow
<1> QED
  BY <1>4, <1>5, <1>6, <1>7, <1>8, <1>9, <1>10 DEF NamingNext, NamingSteps

\* A refresh reads an item with its old name as it was at first.
LEMMA FirstIsRead ==
  ASSUME NamingTypeOK, NEW i \in Media, AsAtFirst(i), ~HasNewName(i), NEW who,
         NEW items \in SUBSET Media, StartRefresh(who, items),
         UNCHANGED <<onDisk, onRecord, fileRecord, moves>>
  PROVE  AsAtFirst(i)'
<1> DEFINE q == [by |-> who, items |-> items, saw |-> [j \in items |-> Looked(j)]]
<1>1. onDisk[i].file = "old"
  BY DEF NamingTypeOK, HasNewName
<1>2. Looked(i).path = FirstFolder[i] /\ Looked(i).record = "old"
  BY <1>1 DEF AsAtFirst, Looked
<1>3. q.items = items /\ \A j \in items : q.saw[j] = Looked(j)
  OBVIOUS
<1>4. refreshes' = refreshes \cup {q}
  BY DEF StartRefresh
<1>5. i \in q.items => q.saw[i].path = FirstFolder[i] /\ q.saw[i].record = "old"
  BY <1>2, <1>3
<1> HIDE DEF q
<1> QED
  BY <1>4, <1>5 DEF AsAtFirst

LEMMA StepItems ==
  ASSUME RenameinatorrAssumption, NamingTypeOK, HasBatch, PlanIsOfBatch, ItemsRenamed,
         BatchRenamed, [NamingNext]_namingVars, Undisturbed'
  PROVE  ItemsRenamed'
<1>0. /\ visited \subseteq Media /\ inHand \in Memory /\ ~NamingFault
      /\ onDisk \in [Media -> [folder : FolderNames, file : {"old", "new"}]]
      /\ moves \in Commands
  BY FaultDisturbs DEF NamingTypeOK, Commands
<1>00. inHand.todo # <<>> => InBatchNow \subseteq Media
  BY <1>0, NextBatchTyped DEF InBatchNow
<1>1. ASSUME UNCHANGED <<onDisk, onRecord, fileRecord, moves, refreshes>>,
             visited' \subseteq visited
      PROVE  ItemsRenamed'
  BY <1>1 DEF ItemsRenamed, HasNewName, AsAtFirst
<1>2. ASSUME UNCHANGED <<onDisk, onRecord, fileRecord, moves, visited>>, NEW who,
             NEW items \in SUBSET Media, StartRefresh(who, items)
      PROVE  ItemsRenamed'
  <2>1. \A i \in Media : HasNewName(i)' <=> HasNewName(i)
    BY <1>2 DEF HasNewName
  <2>2. \A i \in Media : AsAtFirst(i) /\ ~HasNewName(i) => AsAtFirst(i)'
    BY <1>2, FirstIsRead
  <2> QED
    BY <1>0, <1>2, <2>1, <2>2 DEF ItemsRenamed
<1>3. CASE UNCHANGED namingVars
  BY <1>1, <1>3 DEF namingVars, arrState
<1>4. CASE \/ RunEnds \/ BatchRefreshed \/ SkipRefresh \/ PlanChunk
           \/ NothingToDo \/ Snapshot \/ QuietBeforeRename \/ RenameFiles \/ RenamesFinish
           \/ NoMoves \/ MovesFinish \/ ReadPaths \/ CheckBatch \/ DriftedRefreshed \/ Cancelled
  BY <1>0, <1>1, <1>4 DEF RunEnds, BatchRefreshed, SkipRefresh, PlanChunk,
    NothingToDo, Snapshot, QuietBeforeRename, RenameFiles, RenamesFinish, NoMoves,
    MovesFinish, ReadPaths, CheckBatch, DriftedRefreshed, Cancelled, NothingElse, arrState
<1>5. ~PlanFails /\ ~NeverQuiet /\ ~GiveUpWaiting /\ ~MovesSkipped /\ ~DriftedUnknown /\ ~NamingDies
  BY <1>0 DEF PlanFails, NeverQuiet, GiveUpWaiting, MovesSkipped, DriftedUnknown, NamingDies
<1>6. CASE StartNaming
  BY <1>1, <1>6 DEF StartNaming, AfterCycle, arrState
<1>7. CASE RefreshBatch
  BY <1>00, <1>2, <1>7 DEF RefreshBatch, InBatchNow
<1>8. CASE RefreshDrifted
  <2>1. inHand.drifted \in SUBSET Media
    BY <1>0 DEF Memory
  <2> QED
    BY <1>2, <1>8, <2>1 DEF RefreshDrifted
<1>9. ASSUME NEW i \in Media, OthersRefresh(i) PROVE ItemsRenamed'
  BY <1>2, <1>9 DEF OthersRefresh
<1>10. CASE MoveFolders
  <2>1. /\ UNCHANGED <<onDisk, onRecord, fileRecord, refreshes, visited>>
        /\ moves' = Queued(moves, Moving) /\ namingAt = "moving"
    BY <1>0, <1>10 DEF MoveFolders, NamingStep
  <2>2. \A i \in Moving : HasNewName(i)
    BY <2>1 DEF PlanIsOfBatch, BatchRenamed
  <2>3. \A i \in Media : i \notin moves.ours \cup moves.earlier \cup Moving
                          => i \notin moves'.ours \cup moves'.earlier
    BY <2>1 DEF Queued
  <2>4. \A i \in Media : HasNewName(i)' <=> HasNewName(i)
    BY <2>1 DEF HasNewName
  <2> QED
    BY <1>0, <2>1, <2>2, <2>3, <2>4 DEF ItemsRenamed, AsAtFirst
<1>11. CASE Tag
  <2>1. /\ UNCHANGED <<onDisk, onRecord, fileRecord, moves, refreshes>>
        /\ visited' \subseteq visited \cup InBatchNow /\ \A i \in InBatchNow : HasNewName(i)
    BY <1>11 DEF Tag, TagBatch, InBatchNow, arrState, BatchRenamed
  <2> QED
    BY <2>1 DEF ItemsRenamed, HasNewName, AsAtFirst
<1>12. CASE RefreshSaves
  <2>1. PICK r \in refreshes :
    /\ refreshes' = refreshes \ {r}
    /\ onRecord' = [i \in Media |-> IF i \in r.items THEN r.saw[i].path ELSE onRecord[i]]
    /\ fileRecord' = [i \in Media |-> IF i \in r.items THEN r.saw[i].record ELSE fileRecord[i]]
    BY <1>12 DEF RefreshSaves
  <2>2. UNCHANGED <<onDisk, moves, visited>>
    BY <1>12 DEF RefreshSaves
  <2>3. \A i \in Media : AsAtFirst(i) => AsAtFirst(i)'
    BY <2>1, <2>2 DEF AsAtFirst
  <2>4. \A i \in Media : HasNewName(i)' <=> HasNewName(i)
    BY <2>2 DEF HasNewName
  <2> QED
    BY <1>0, <2>2, <2>3, <2>4 DEF ItemsRenamed
<1>13. CASE RenameRuns
  <2>1. PICK j \in Media :
          \/ /\ onDisk' = [onDisk EXCEPT ![j].file = "new"]
             /\ fileRecord' = [fileRecord EXCEPT ![j] = "new"]
          \/ UNCHANGED <<onDisk, fileRecord>>
    BY <1>0, <1>13, OneRenamed
  <2>2. /\ UNCHANGED <<onRecord, moves, refreshes, visited>>
        /\ fileRecord \in [Media -> {"old", "new", Lost}]
    BY <1>13 DEF RenameRuns, NamingTypeOK
  <2>3. \A i \in Media : HasNewName(i) => HasNewName(i)'
    BY NamesStay
  <2>4. \A i \in Media : AsAtFirst(i) => HasNewName(i)' \/ AsAtFirst(i)'
    <3> TAKE i \in Media
    <3>1. CASE i = j /\ onDisk' = [onDisk EXCEPT ![j].file = "new"]
      BY <1>0, <3>1 DEF HasNewName
    <3>2. CASE onDisk'[i] = onDisk[i] /\ fileRecord'[i] = fileRecord[i]
      BY <2>2, <3>2 DEF AsAtFirst
    <3> QED
      BY <1>0, <2>1, <2>2, <3>1, <3>2
  <2> QED
    BY <1>0, <2>2, <2>3, <2>4 DEF ItemsRenamed
<1>14. CASE MoveRuns
  <2>1. PICK j \in moves.ours \cup moves.earlier :
          /\ moves'.ours \subseteq moves.ours /\ moves'.earlier \subseteq moves.earlier
          /\ \/ /\ onDisk' = [onDisk EXCEPT ![j].folder = WantedFolder[j]]
                /\ onRecord' = [onRecord EXCEPT ![j] = WantedFolder[j]]
             \/ UNCHANGED <<onDisk, onRecord>>
    BY <1>14, OneMoved
  <2>2. UNCHANGED <<fileRecord, refreshes, visited>> /\ onRecord \in [Media -> FolderNames]
    BY <1>14 DEF MoveRuns, NamingTypeOK
  <2>3. \A i \in Media : HasNewName(i) => HasNewName(i)'
    BY NamesStay
  <2>4. moves'.ours \cup moves'.earlier \subseteq moves.ours \cup moves.earlier
    BY <2>1
  <2>5. \A i \in Media : AsAtFirst(i) => HasNewName(i)' \/ AsAtFirst(i)'
    <3> SUFFICES ASSUME NEW i \in Media, AsAtFirst(i) PROVE AsAtFirst(i)'
      OBVIOUS
    <3>1. i # j
      BY DEF AsAtFirst
    <3>2. onDisk'[i] = onDisk[i] /\ onRecord'[i] = onRecord[i]
      BY <1>0, <2>1, <2>2, <3>1
    <3> QED
      BY <2>2, <2>4, <3>2 DEF AsAtFirst
  <2> QED
    BY <1>0, <2>2, <2>3, <2>5 DEF ItemsRenamed
<1> QED
  BY <1>3, <1>4, <1>5, <1>6, <1>7, <1>8, <1>9, <1>10, <1>11, <1>12, <1>13, <1>14, FaultDisturbs
  DEF NamingNext, NamingSteps

LEMMA StepBatch ==
  ASSUME RenameinatorrAssumption, NamingTypeOK, HasBatch, PlanIsOfBatch, ItemsRenamed,
         BatchRenamed, [NamingNext]_namingVars, Undisturbed'
  PROVE  BatchRenamed'
<1>0. inHand \in Memory /\ ~NamingFault /\ renames \in Commands
  BY FaultDisturbs DEF NamingTypeOK, Commands
<1>00. inHand.todo # <<>> => InBatchNow \subseteq Media
  BY <1>0, NextBatchTyped DEF InBatchNow
<1>000. namingAt \notin {"idle", "batch"} => InBatchNow \subseteq Media
  BY <1>00 DEF HasBatch
<1>N. \A i \in Media : HasNewName(i) => HasNewName(i)'
  BY NamesStay
<1>1. ASSUME namingAt' \in {"idle", "batch", "refreshing", "plan"} PROVE BatchRenamed'
  BY <1>1 DEF BatchRenamed
<1>2. ASSUME namingAt' = namingAt, inHand' = inHand, renames' = renames PROVE BatchRenamed'
  BY <1>000, <1>N, <1>2 DEF BatchRenamed, InBatchNow
<1>3. CASE UNCHANGED namingVars
  BY <1>2, <1>3 DEF namingVars, arrState
<1>4. CASE \/ StartNaming \/ RunEnds \/ RefreshBatch \/ BatchRefreshed \/ SkipRefresh \/ Tag
           \/ Cancelled
  BY <1>1, <1>4 DEF StartNaming, RunEnds, RefreshBatch, BatchRefreshed, SkipRefresh, Tag,
    Cancelled, StopNaming, NamingStep
<1>5. ~PlanFails /\ ~NeverQuiet /\ ~GiveUpWaiting /\ ~MovesSkipped /\ ~DriftedUnknown /\ ~NamingDies
  BY <1>0 DEF PlanFails, NeverQuiet, GiveUpWaiting, MovesSkipped, DriftedUnknown, NamingDies
<1>6. CASE RefreshSaves \/ MoveRuns \/ \E i \in Media : OthersRefresh(i)
  BY <1>2, <1>6 DEF RefreshSaves, MoveRuns, OthersRefresh
<1>7. CASE PlanChunk
  <2>1. PICK nameless, unseen \in SUBSET Head(inHand.todo) :
          LET plan  == Planned(Head(inHand.todo) \ nameless)
              files == {i \in Head(inHand.todo) \ unseen : fileRecord[i] = "old"}
          IN  /\ nameless \cup unseen = {}
              /\ inHand' = [inHand EXCEPT
                   !.taken = @ \cup {WantedFolder[i] : i \in plan},
                   !.target = [i \in Media |-> IF i \in plan THEN WantedFolder[i] ELSE Lost],
                   !.rename = files, !.changes = files \cup plan, !.retry = nameless]
    BY <1>0, <1>7 DEF PlanChunk
  <2>2. /\ inHand'.todo = inHand.todo
        /\ inHand'.rename = {i \in Head(inHand.todo) : fileRecord[i] = "old"}
    BY <1>0, <2>1 DEF Memory
  <2>3. namingAt' = "planned" /\ InBatchNow \subseteq Media
    BY <1>7, <1>000 DEF PlanChunk
  <2>4. \A i \in InBatchNow \ inHand'.rename : HasNewName(i)
    BY <2>2, <2>3 DEF InBatchNow, ItemsRenamed, AsAtFirst
  <2> QED
    BY <1>N, <2>2, <2>3, <2>4 DEF BatchRenamed, InBatchNow
<1>8. CASE NothingToDo
  <2>1. /\ inHand' = inHand /\ inHand.changes = {} /\ namingAt = "planned" /\ namingAt' = "tag"
    BY <1>8 DEF NothingToDo, NamingStep
  <2>2. inHand.rename = {}
    BY <2>1 DEF PlanIsOfBatch
  <2> QED
    BY <1>N, <1>000, <2>1, <2>2 DEF BatchRenamed, InBatchNow
<1>9. CASE Snapshot
  <2>1. PICK unread \in SUBSET inHand.changes :
       /\ unread = {}
       /\ inHand' = [inHand EXCEPT !.changes = @ \ unread, !.rename = @ \ unread,
                    !.retry = @ \cup unread,
                    !.target = [i \in Media |-> IF i \in unread THEN Lost ELSE @[i]],
                    !.before = [i \in Media |-> [files |-> FilesIn(inHand.path[i]),
                                                 record |-> fileRecord[i]]]]
    BY <1>0, <1>9 DEF Snapshot
  <2>2. inHand'.todo = inHand.todo /\ inHand'.rename = inHand.rename
    BY <1>0, <2>1 DEF Memory
  <2> QED
    BY <1>N, <1>000, <1>9, <2>2 DEF Snapshot, NamingStep, BatchRenamed, InBatchNow
<1>10. CASE RenameFiles
  <2>1. inHand' = inHand /\ namingAt = "rename"
    BY <1>0, <1>10 DEF RenameFiles
  <2>2. CASE inHand.rename = {} /\ namingAt' = "moving"
    BY <1>N, <1>000, <2>1, <2>2 DEF BatchRenamed, InBatchNow
  <2>3. CASE namingAt' = "renaming" /\ renames' = Queued(renames, inHand.rename)
    <3>1. renames'.ours = inHand.rename
      BY <2>3 DEF Queued
    <3> QED
      BY <1>N, <1>000, <2>1, <2>3, <3>1 DEF BatchRenamed, InBatchNow
  <2> QED
    BY <1>0, <1>10, <2>2, <2>3 DEF RenameFiles
<1>11. CASE RenamesFinish
  BY <1>N, <1>000, <1>11 DEF RenamesFinish, NamingStep, Finished, BatchRenamed, InBatchNow
<1>12. CASE QuietBeforeRename \/ NoMoves \/ MovesFinish \/ RefreshDrifted
  BY <1>N, <1>000, <1>12 DEF QuietBeforeRename, NoMoves, MovesFinish, RefreshDrifted, NamingStep,
    BatchRenamed, InBatchNow
<1>13. CASE MoveFolders \/ ReadPaths \/ CheckBatch \/ DriftedRefreshed
  <2>1. inHand'.todo = inHand.todo
    BY <1>0, <1>13 DEF MoveFolders, ReadPaths, CheckBatch, DriftedRefreshed, Memory
  <2>2. /\ namingAt \in {"moving", "paths", "check", "awaitDrifted"}
        /\ namingAt' \in {"movingFolders", "check", "refreshDrifted", "tag"}
    BY <1>13 DEF MoveFolders, ReadPaths, CheckBatch, DriftedRefreshed, NamingStep
  <2> QED
    BY <1>N, <1>000, <2>1, <2>2 DEF BatchRenamed, InBatchNow
<1>14. CASE RenameRuns
  <2>1. PICK j \in Media :
          /\ renames'.ours \subseteq renames.ours /\ renames.ours \ renames'.ours \subseteq {j}
          /\ \/ onDisk' = [onDisk EXCEPT ![j].file = "new"]
             \/ onDisk[j].folder # onRecord[j]
    BY <1>0, <1>14, OneRenamed
  <2>3. onDisk \in [Media -> [folder : FolderNames, file : {"old", "new"}]]
    BY DEF NamingTypeOK
  <2>4. HasNewName(j)'
    <3>1. CASE onDisk' = [onDisk EXCEPT ![j].file = "new"]
      BY <2>3, <3>1 DEF HasNewName
    <3>2. CASE onDisk[j].folder # onRecord[j]
      BY <1>N, <3>2 DEF ItemsRenamed, AsAtFirst
    <3> QED
      BY <2>1, <3>1, <3>2
  <2>5. namingAt' = namingAt /\ inHand' = inHand
    BY <1>14 DEF RenameRuns
  <2> QED
    BY <1>N, <1>000, <2>1, <2>4, <2>5 DEF BatchRenamed, InBatchNow
<1> QED
  BY <1>3, <1>4, <1>5, <1>6, <1>7, <1>8, <1>9, <1>10, <1>11, <1>12, <1>13, <1>14, FaultDisturbs
  DEF NamingNext, NamingSteps

---------------------------------------------------------------------------
(* Renameinatorr: no folder is moved onto another.                         *)

\* The folders of a plan are free, and no two of them are one.
LEMMA PlanHasRoom ==
  ASSUME RenameinatorrAssumption, NEW items \in SUBSET Media
  PROVE  /\ \A i \in Planned(items), j \in Media : onDisk[j].folder # WantedFolder[i]
         /\ \A i, j \in Planned(items) : i # j => WantedFolder[i] # WantedFolder[j]
<1>1. \A i \in Planned(items), j \in Media : onDisk[j].folder # WantedFolder[i]
  BY DEF Planned, MayMove
<1>2. ASSUME NEW i \in Planned(items), NEW j \in Planned(items), Place[i] < Place[j]
      PROVE  WantedFolder[i] # WantedFolder[j]
  <2>1. i \in items /\ MayMove(i) /\ WantedFolder[j] \notin Claimed(j, items)
    BY DEF Planned
  <2> QED
    BY <1>2, <2>1 DEF Claimed
<1>3. \A i, j \in Media : i # j => Place[i] < Place[j] \/ Place[j] < Place[i]
  BY DEF RenameinatorrAssumption, IsInjective
<1>4. Planned(items) \subseteq Media
  BY DEF Planned
<1> QED
  BY <1>1, <1>2, <1>3, <1>4

LEMMA StepMoves ==
  ASSUME RenameinatorrAssumption, NamingTypeOK, HasBatch, MoveInv, [NamingNext]_namingVars
  PROVE  MoveInv'
<1>0. /\ inHand \in Memory /\ moves \in Commands /\ othersMove \in BOOLEAN /\ merged \in BOOLEAN
      /\ onDisk \in [Media -> [folder : FolderNames, file : {"old", "new"}]]
  BY DEF NamingTypeOK, Commands
<1> DEFINE Planning == {"planned", "quiet", "rename", "renaming", "moving"}
<1>1. ASSUME UNCHANGED <<onDisk, othersMove, merged>>, ~othersMove => MovesDone',
             Pending' \subseteq Pending
      PROVE  MoveInv'
  BY <1>1 DEF MoveInv, NeverMerges, RoomToMove
<1>2. ASSUME UNCHANGED <<onDisk, othersMove, merged, moves>>,
             namingAt # "idle" \/ namingAt' = "idle",
             namingAt # "movingFolders" \/ namingAt' \in {"movingFolders", "idle"},
             \/ namingAt' \notin Planning
             \/ namingAt \in Planning /\ inHand'.target = inHand.target
      PROVE  MoveInv'
  <2>1. ~othersMove => MovesDone'
    BY <1>2 DEF MoveInv, MovesDone
  <2>2. Pending' \subseteq Pending
    BY <1>2 DEF Pending, Moving
  <2> QED
    BY <1>1, <1>2, <2>1, <2>2
<1>3. CASE UNCHANGED namingVars
  <2>1. UNCHANGED <<onDisk, othersMove, merged, moves, namingAt, inHand>>
    BY <1>3 DEF namingVars, arrState, namingHistory
  <2> QED
    BY <1>2, <2>1
<1>4. CASE \/ RunEnds \/ RefreshBatch \/ BatchRefreshed \/ SkipRefresh \/ NothingToDo
           \/ NoMoves \/ ReadPaths \/ CheckBatch \/ RefreshDrifted \/ DriftedRefreshed \/ Tag
  BY <1>2, <1>4 DEF RunEnds, RefreshBatch, BatchRefreshed, SkipRefresh, NothingToDo, NoMoves,
    ReadPaths, CheckBatch, RefreshDrifted, DriftedRefreshed, Tag, StopNaming, NamingStep,
    NothingElse, arrState, namingHistory
<1>5. CASE PlanFails \/ Cancelled \/ NeverQuiet \/ MovesSkipped \/ DriftedUnknown
  BY <1>2, <1>5 DEF PlanFails, Cancelled, NeverQuiet, MovesSkipped, DriftedUnknown, StopNaming,
    NamingStep, NothingElse, arrState, namingHistory
<1>6. CASE QuietBeforeRename \/ RenameFiles \/ RenamesFinish
  <2>1. inHand'.target = inHand.target
    BY <1>0, <1>6 DEF QuietBeforeRename, RenameFiles, RenamesFinish, Memory
  <2> QED
    BY <1>2, <1>6, <2>1 DEF QuietBeforeRename, RenameFiles, RenamesFinish, NamingStep,
      NothingElse, arrState, namingHistory
<1>7. CASE RefreshSaves \/ RenameRuns
  <2>1. UNCHANGED <<othersMove, merged, moves, namingAt, inHand>>
    BY <1>7 DEF RefreshSaves, RenameRuns, namingHistory
  <2>2. \A j \in Media : onDisk'[j].folder = onDisk[j].folder
    BY <1>0, <1>7 DEF RefreshSaves, RenameRuns
  <2>3. Pending' = Pending /\ Pending \subseteq Media
    BY <1>0, <2>1 DEF Pending, Moving, Commands
  <2> QED
    BY <2>1, <2>2, <2>3 DEF MoveInv, NeverMerges, MovesDone, RoomToMove
<1>8. ASSUME NEW i \in Media, OthersRefresh(i) PROVE MoveInv'
  <2>1. UNCHANGED <<onDisk, othersMove, merged, moves, namingAt, inHand>>
    BY <1>8 DEF OthersRefresh, namingHistory
  <2> QED
    BY <1>2, <2>1
<1>9. ASSUME NEW i \in Media, NEW f \in FolderNames, UserMoves(i, f) PROVE MoveInv'
  BY <1>9 DEF UserMoves, MoveInv, NeverMerges
<1>10. CASE StartNaming
  <2>1. /\ UNCHANGED <<merged, moves>> /\ othersMove' = (moves # NoCommand) /\ namingAt' = "batch"
    BY <1>10 DEF StartNaming, NamingStep, arrState
  <2>2. ~othersMove' => moves'.earlier = {} /\ moves'.ours = {}
    <3>1. ~othersMove' => moves = NoCommand
      BY <2>1, Zenon
    <3> QED
      BY <2>1, <3>1 DEF NoCommand
  <2>3. ~othersMove' => Pending' = {}
    BY <2>1, <2>2 DEF Pending
  <2> QED
    BY <2>1, <2>2, <2>3 DEF MoveInv, NeverMerges, MovesDone, RoomToMove
<1>11. CASE PlanChunk
  <2>1. PICK nameless, unseen \in SUBSET Head(inHand.todo) :
          LET plan  == Planned(Head(inHand.todo) \ nameless)
              files == {i \in Head(inHand.todo) \ unseen : fileRecord[i] = "old"}
          IN  inHand' = [inHand EXCEPT
                   !.taken = @ \cup {WantedFolder[i] : i \in plan},
                   !.target = [i \in Media |-> IF i \in plan THEN WantedFolder[i] ELSE Lost],
                   !.rename = files, !.changes = files \cup plan, !.retry = nameless]
    BY <1>11 DEF PlanChunk
  <2>2. /\ UNCHANGED <<onDisk, othersMove, merged, moves>>
        /\ namingAt = "plan" /\ namingAt' = "planned"
    BY <1>11 DEF PlanChunk, arrState, namingHistory
  <2>3. Head(inHand.todo) \in SUBSET Media
    BY <1>0, <2>2, NextBatchTyped DEF HasBatch
  <2> DEFINE plan == Planned(Head(inHand.todo) \ nameless)
  <2>4. inHand'.target = [i \in Media |-> IF i \in plan THEN WantedFolder[i] ELSE Lost]
    BY <1>0, <2>1 DEF Memory
  <2>5. /\ \A i \in plan, j \in Media : onDisk[j].folder # WantedFolder[i]
        /\ \A i, j \in plan : i # j => WantedFolder[i] # WantedFolder[j]
    BY <2>3, PlanHasRoom
  <2>6. Moving' \subseteq plan
    <3> HIDE DEF plan
    <3> QED
      BY <2>4 DEF Moving
  <2>7. ~othersMove => MovesDone' /\ Pending' \subseteq plan
    BY <2>2, <2>6 DEF MoveInv, MovesDone, Pending
  <2> HIDE DEF plan
  <2> QED
    BY <2>2, <2>5, <2>7 DEF MoveInv, NeverMerges, RoomToMove
<1>12. CASE Snapshot
  <2>1. /\ UNCHANGED <<onDisk, othersMove, merged, moves>>
        /\ namingAt = "planned" /\ namingAt' = "quiet"
        /\ \A i \in Media : inHand'.target[i] # Lost => inHand.target[i] # Lost
    BY <1>0, <1>12 DEF Snapshot, NamingStep, Memory, arrState, namingHistory
  <2>2. ~othersMove => MovesDone'
    BY <2>1 DEF MoveInv, MovesDone
  <2>3. Pending' \subseteq Pending
    BY <2>1 DEF Pending, Moving
  <2> QED
    BY <1>1, <2>1, <2>2, <2>3
<1>13. CASE MoveFolders
  <2>1. /\ UNCHANGED <<onDisk, othersMove, merged>>
        /\ namingAt = "moving" /\ namingAt' = "movingFolders"
        /\ \E items \in {{}, Moving} : moves' = Queued(moves, items)
    BY <1>13 DEF MoveFolders, NamingStep, namingHistory
  <2>2. /\ moves'.earlier = moves.earlier \cup moves.ours /\ moves'.ours \subseteq Moving
    BY <2>1 DEF Queued
  <2>3. ~othersMove => MovesDone'
    BY <2>1, <2>2 DEF MoveInv, MovesDone
  <2>4. Pending' \subseteq Pending
    BY <2>1, <2>2 DEF Pending
  <2> QED
    BY <1>1, <2>1, <2>3, <2>4
<1>14. CASE MovesFinish
  <2>1. /\ UNCHANGED <<onDisk, othersMove, merged, moves>> /\ moves.ours = {}
        /\ namingAt = "movingFolders" /\ namingAt' = "paths"
    BY <1>14 DEF MovesFinish, NamingStep, Finished, NothingElse, arrState, namingHistory
  <2>2. (~othersMove => MovesDone') /\ Pending' \subseteq Pending
    BY <2>1 DEF MoveInv, MovesDone, Pending
  <2> QED
    BY <1>1, <2>1, <2>2
<1>15. CASE GiveUpWaiting \/ NamingDies
  <2>1. /\ UNCHANGED <<onDisk, othersMove, merged>> /\ namingAt' = "idle"
        /\ moves' = Queued(moves, {})
    BY <1>15 DEF GiveUpWaiting, NamingDies, StopNaming, namingHistory
  <2>2. moves'.earlier = moves.earlier \cup moves.ours /\ moves'.ours = {}
    BY <2>1 DEF Queued
  <2>3. MovesDone' /\ Pending' \subseteq Pending
    BY <2>1, <2>2 DEF MovesDone, Pending
  <2> QED
    BY <1>1, <2>1, <2>3
<1>16. CASE MoveRuns
  <2>1. PICK k \in moves.ours \cup moves.earlier :
           /\ k \in Media /\ moves'.ours \subseteq moves.ours
           /\ moves'.earlier \subseteq moves.earlier
           /\ \/ /\ onDisk[k].folder = onRecord[k]
                 /\ onDisk' = [onDisk EXCEPT ![k].folder = WantedFolder[k]]
                 /\ onRecord' = [onRecord EXCEPT ![k] = WantedFolder[k]]
                 /\ merged' = (merged \/ (~othersMove
                                 /\ \E i \in Media \ {k} : onDisk[i].folder = WantedFolder[k]))
              \/ UNCHANGED <<onDisk, onRecord, merged>>
    BY <1>16, OneMoved
  <2>2. UNCHANGED <<namingAt, inHand, othersMove>>
    BY <1>16 DEF MoveRuns
  <2>3. Pending' \subseteq Pending /\ k \in Pending /\ Pending \subseteq Media
    BY <1>0, <2>1, <2>2 DEF Pending, Moving, Commands
  <2>4. ~othersMove => MovesDone'
    BY <2>1, <2>2 DEF MoveInv, MovesDone
  <2>5. CASE UNCHANGED <<onDisk, merged>>
    BY <1>1, <2>2, <2>3, <2>4, <2>5
  <2>6. CASE /\ onDisk' = [onDisk EXCEPT ![k].folder = WantedFolder[k]]
             /\ merged' = (merged \/ (~othersMove
                             /\ \E i \in Media \ {k} : onDisk[i].folder = WantedFolder[k]))
    <3>1. ~merged'
      BY <2>3, <2>6 DEF MoveInv, NeverMerges, RoomToMove
    <3>2. \A j \in Media : onDisk'[j].folder = IF j = k THEN WantedFolder[k] ELSE onDisk[j].folder
      BY <1>0, <2>1, <2>6
    <3>3. ~othersMove => RoomToMove'
      BY <2>3, <3>2 DEF MoveInv, RoomToMove
    <3> QED
      BY <2>2, <2>4, <3>1, <3>3 DEF MoveInv, NeverMerges
  <2> QED
    BY <2>1, <2>5, <2>6
<1> QED
  BY <1>3, <1>4, <1>5, <1>6, <1>7, <1>8, <1>9, <1>10, <1>11, <1>12, <1>13, <1>14, <1>15, <1>16
  DEF NamingNext, NamingSteps

---------------------------------------------------------------------------
(* Renameinatorr: what its runs promise.                                   *)

LEMMA InitNaming == RenameinatorrAssumption /\ NamingInit => NamingInv
<1> SUFFICES ASSUME RenameinatorrAssumption, NamingInit PROVE NamingInv
  OBVIOUS
<1> USE DEF NamingInit
<1>1. NamingTypeOK
  <2>1. ArrMediaTyped
    BY DEF RenameinatorrAssumption, ArrMediaTyped, Commands, NoCommand
  <2>2. RunTyped
    BY NoBatchTyped DEF RunTyped, NamingPlaces
  <2>3. CountsTyped /\ HistoryTyped
    <3>1. CountsTyped
      BY DEF RenameinatorrAssumption, CountsTyped
    <3>2. HistoryTyped
      BY DEF HistoryTyped
    <3> QED
      BY <3>1, <3>2
  <2> QED
    BY <2>1, <2>2, <2>3, NamingTypesAre
<1>2. HasBatch /\ SoundInv
  BY DEF HasBatch, SoundInv, PassedIsSound, NowKnown, DriftedFound, DriftedRead
<1>3. TagInv
  <2>1. \A i \in Media : AsAtFirst(i)
    BY DEF AsAtFirst, NoCommand
  <2> QED
    BY <2>1 DEF TagInv, PlanIsOfBatch, ItemsRenamed, BatchRenamed
<1>4. MoveInv
  BY DEF MoveInv, NeverMerges, MovesDone, RoomToMove, Pending, NoCommand
<1> QED
  BY <1>1, <1>2, <1>3, <1>4 DEF NamingInv

LEMMA StepNaming ==
  RenameinatorrAssumption /\ NamingInv /\ [NamingNext]_namingVars => NamingInv'
<1> SUFFICES ASSUME RenameinatorrAssumption, NamingInv, [NamingNext]_namingVars PROVE NamingInv'
  OBVIOUS
<1>0. NamingTypeOK /\ HasBatch /\ SoundInv /\ TagInv /\ MoveInv
  BY DEF NamingInv
<1>1. NamingTypeOK' /\ HasBatch'
  BY <1>0, StepNamingTypes
<1>2. SoundInv' /\ MoveInv'
  BY <1>0, StepSound, StepMoves
<1>3. PlanIsOfBatch'
  BY <1>0, StepPlanIsOfBatch DEF TagInv
<1>4. Undisturbed' => ItemsRenamed' /\ BatchRenamed'
  <2> SUFFICES ASSUME Undisturbed' PROVE ItemsRenamed' /\ BatchRenamed'
    OBVIOUS
  <2>1. Undisturbed
    BY <1>0, FaultDisturbs
  <2> QED
    BY <1>0, <2>1, StepItems, StepBatch DEF TagInv
<1> QED
  BY <1>1, <1>2, <1>3, <1>4 DEF NamingInv, TagInv

LEMMA NamingKeeps == ASSUME RenameinatorrAssumption PROVE NamingSpec => []NamingInv
<1>1. NamingInit => NamingInv
  BY InitNaming
<1>2. NamingInv /\ [NamingNext]_namingVars => NamingInv'
  BY StepNaming
<1> QED
  BY <1>1, <1>2, PTL DEF NamingSpec

\* The *arr's tables, the run's memory and the counts keep their types.
THEOREM NamingTypes == RenameinatorrAssumption /\ NamingSpec => []NamingTypeOK
<1> SUFFICES ASSUME RenameinatorrAssumption PROVE NamingSpec => []NamingTypeOK
  OBVIOUS
<1>1. NamingInv => NamingTypeOK
  BY DEF NamingInv
<1> QED
  BY <1>1, NamingKeeps, PTL

\* Whatever refreshes run beside it, an item that a run finds sound is on record where
\* and as it is on disk; without a fault or a user's move a tagged item has its new
\* name; and no folder is moved onto another item's, unless a user's move, or one left
\* from an earlier run, came after the run had listed the folders.
THEOREM FilesStaySafe == RenameinatorrAssumption /\ NamingSpec => []FilesAreSafe
<1> SUFFICES ASSUME RenameinatorrAssumption PROVE NamingSpec => []FilesAreSafe
  OBVIOUS
<1>1. NamingInv => FilesAreSafe
  BY DEF NamingInv, SoundInv, TagInv, MoveInv, ItemsRenamed, Undisturbed, HasNewName,
    FilesAreSafe, TaggedIsRenamed
<1> QED
  BY <1>1, NamingKeeps, PTL

=============================================================================
