-------------------------- MODULE SchedulerProofs --------------------------
(***************************************************************************)
(* What Scheduler promises for every set of modules, profiles, blocks and  *)
(* configurations and any number of minutes, rows and upsets: one process  *)
(* queues a module at most once for a minute, a minute marked as fired had *)
(* a run, a due module is not passed over, a waiting caller hears how its  *)
(* run ended, and all they do to the queue is what JobLedger allows.  And  *)
(* what DateRange promises of any range and any day: md_range_contains is  *)
(* right about every range but those that end earlier in the month they    *)
(* start in.                                                               *)
(***************************************************************************)
EXTENDS DateRange, Scheduler, WellFoundedInduction, TLAPS

\* The clock only runs ahead of a tick, what fired did so by the tick's minute,
\* and what was inserted for a minute had fired by then.
Clock ==
  /\ tick.minute <= now
  /\ \A k \in Kinds : fired[k] <= tick.minute
  /\ \A k \in Kinds, t \in Minutes : inserted[k][t] # 0 => t <= fired[k]
  /\ OncePerMinute

\* The module in the tick's hand has yet to fire in this minute.
InHand ==
  /\ tick.phase \in {"sleep", "down"} => Chosen = Nobody /\ tick.todo = {}
  /\ Chosen # Nobody => ~FiredThisMinute(Chosen)

\* A row ends in a minute when it leaves the queue, and not before.
Rows ==
  /\ state \in [RowIds -> {"absent", "pending", "running", "cancelled", "success", "error"}]
  /\ holder \in [RowIds -> Workers \cup {Nobody}]
  /\ \A j \in RowIds : state[j] \in {"pending", "running", "cancelled"} => row[j].until = Never
  /\ FiredMeansRun

\* A caller polls a row that exists.
Calls ==
  /\ \A c \in Callers : call[c].step = "poll" =>
       call[c].id \in RowIds /\ state[call[c].id] # "absent"
  /\ \A c \in Callers : call[c].step \in {"success", "error"} =>
       call[c].id \in RowIds /\ state[call[c].id] = call[c].step

\* The tick has taken m through a phase.
Through(phase, later, m) ==
  tick.phase \in later \/ (tick.phase = phase /\ m \notin tick.todo)

PlainDue(m)    == Now(tick.view.schedule[m])
ProfilesDue(m) == m = Upgradinatorr /\ \E p \in Profiles : Now(tick.view.profiles[p])
BlocksDue(m)   == \E b \in Blocks : Now(tick.view.blocks[m][b])

\* A module the tick has taken through a phase it was due in has fired.
Answered ==
  /\ \A m \in tick.queued : FiredThisMinute(m)
  /\ tick.phase \notin {"sleep", "down"} => tick.excused = Modules \/ tick.view = config
  /\ \A m \in Modules \ (tick.off \cup tick.excused \cup {Chosen}) :
       /\ Through("plain", {"profiles", "blocks", "sync"}, m) /\ PlainDue(m) => FiredThisMinute(m)
       /\ Through("profiles", {"blocks", "sync"}, m) /\ ProfilesDue(m) => FiredThisMinute(m)
       /\ Through("blocks", {"sync"}, m) /\ BlocksDue(m) => FiredThisMinute(m)

SchedulerInv == TypeOK /\ Clock /\ InHand /\ Rows /\ Calls /\ Answered

---------------------------------------------------------------------------
(* What the steps do, field by field.                                      *)

\* The rows have a least unused id, which is the next one.
LEMMA LeastExists ==
  ASSUME NEW T, T \subseteq Nat, T # {}
  PROVE  \E x \in T : \A y \in T : x <= y
<1>1. PICK x \in T : \A y \in T : ~ (<<y, x>> \in OpToRel(<, Nat))
  BY WFMin, NatLessThanWellFounded, Zenon
<1>2. ASSUME NEW y \in T PROVE x <= y
  <2>1. ~ (<<y, x>> \in OpToRel(<, Nat)) /\ x \in Nat /\ y \in Nat
    BY <1>1, <1>2
  <2> QED
    BY <2>1 DEF OpToRel
<1> QED
  BY <1>2

LEMMA NextIdIsUnused ==
  ASSUME SchedulerAssumption, Unused # {}
  PROVE  NextId \in Unused
<1>1. Unused \subseteq Nat
  BY DEF Unused, RowIds, SchedulerAssumption
<1>2. \E j \in Unused : \A i \in Unused : j <= i
  BY <1>1, LeastExists
<1> QED
  BY <1>2 DEF NextId

Ticks == [phase : {"down", "sleep", "plain", "profiles", "blocks", "sync"}, minute : Minutes,
          view : Configs, todo : SUBSET Modules, module : Modules \cup {Nobody},
          off : SUBSET Modules, queued : SUBSET Modules, excused : SUBSET Modules]

LEMMA PhaseFields ==
  ASSUME TypeOK, NEW phase \in {"plain", "profiles", "blocks", "sync"},
         NEW todo \in SUBSET Modules, tick' = Phase(phase, todo)
  PROVE  /\ tick' \in Ticks
         /\ tick'.phase = phase /\ tick'.todo = todo /\ tick'.view = config
         /\ tick'.minute = tick.minute /\ tick'.off = tick.off /\ tick'.module = tick.module
         /\ tick'.queued = tick.queued /\ tick'.excused = tick.excused
  BY DEF Phase, Ticks, TypeOK

LEMMA BeginFields ==
  ASSUME TypeOK, BeginTick
  PROVE  /\ tick' \in Ticks
         /\ tick'.phase = "plain" /\ tick'.todo = Modules /\ tick'.view = config
         /\ tick'.minute = now /\ tick'.off = disabled /\ tick'.module = tick.module
         /\ tick'.queued = {} /\ tick'.excused = {}
  BY DEF BeginTick, Phase, Ticks, TypeOK, Quiet

LEMMA ResumeFields ==
  ASSUME TypeOK, NEW success \in BOOLEAN, Resume(success), Chosen # Nobody
  PROVE  /\ tick' \in Ticks
         /\ tick'.phase = tick.phase /\ tick'.todo = tick.todo /\ tick'.view = tick.view
         /\ tick'.minute = tick.minute /\ tick'.off = tick.off /\ tick'.module = Nobody
         /\ success => /\ tick'.queued \in {tick.queued, tick.queued \cup {Chosen}}
                       /\ tick'.excused = tick.excused
         /\ ~success => /\ tick'.queued = tick.queued
                        /\ tick'.excused = tick.excused \cup {Chosen}
  BY DEF Resume, Ticks, TypeOK, Chosen

\* A module's turn: m leaves the list, passed over, found running or chosen.
LEMMA ConsiderFields ==
  ASSUME TypeOK, Consider
  PROVE  \E m \in tick.todo :
           /\ tick' \in Ticks
           /\ tick'.phase = tick.phase /\ tick'.todo = tick.todo \ {m} /\ tick'.view = tick.view
           /\ tick'.minute = tick.minute /\ tick'.off = tick.off /\ tick'.queued = tick.queued
           /\ \/ /\ Skipped(m)
                 /\ tick'.excused = tick.excused /\ tick'.module = Nobody
              \/ /\ tick'.excused = tick.excused \cup {m} /\ tick'.module = Nobody
              \/ /\ ~Skipped(m)
                 /\ tick'.excused = tick.excused /\ tick'.module = m
<1> DEFINE m == CHOOSE x \in tick.todo : TRUE
           rest == [tick EXCEPT !.todo = @ \ {m}]
<1>1. m \in tick.todo /\ tick.module = Nobody
  BY DEF Consider, Chosen
<1>2. tick' = IF Skipped(m) THEN rest
              ELSE IF Running(m) THEN [rest EXCEPT !.excused = @ \cup {m}]
              ELSE [rest EXCEPT !.module = m]
  BY DEF Consider
<1>3. tick \in Ticks /\ m \in Modules
  BY <1>1 DEF TypeOK, Ticks
<1>4. /\ rest \in Ticks /\ rest.phase = tick.phase /\ rest.todo = tick.todo \ {m}
      /\ rest.view = tick.view /\ rest.minute = tick.minute /\ rest.off = tick.off
      /\ rest.queued = tick.queued /\ rest.excused = tick.excused /\ rest.module = Nobody
  BY <1>1, <1>3 DEF Ticks
<1> HIDE DEF m, rest
<1>5. CASE Skipped(m)
  BY <1>1, <1>2, <1>4, <1>5
<1>6. CASE ~Skipped(m) /\ Running(m)
  <2>1. tick' = [rest EXCEPT !.excused = @ \cup {m}]
    BY <1>2, <1>6
  <2> QED
    BY <1>1, <1>3, <1>4, <2>1 DEF Ticks
<1>7. CASE ~Skipped(m) /\ ~Running(m)
  <2>1. tick' = [rest EXCEPT !.module = m]
    BY <1>2, <1>7
  <2> QED
    BY <1>1, <1>3, <1>4, <1>7, <2>1 DEF Ticks
<1> QED
  BY <1>5, <1>6, <1>7

\* A row is inserted: the queue had an unused id, and the row with that id becomes
\* a pending one of the kind.
LEMMA InsertFields ==
  ASSUME SchedulerAssumption, TypeOK, NEW kind \in Kinds, Insert(kind)
  PROVE  /\ NextId \in RowIds /\ state[NextId] = "absent"
         /\ row' \in [RowIds -> [kind : Kinds, until : Minutes \cup {Never}]]
         /\ row'[NextId] = [kind |-> kind, until |-> Never]
         /\ \A j \in RowIds \ {NextId} : row'[j] = row[j]
         /\ state' = [state EXCEPT ![NextId] = "pending"] /\ holder' = holder
<1>1. NextId \in RowIds /\ state[NextId] = "absent"
  BY NextIdIsUnused DEF Insert, Unused
<1>2. [kind |-> kind, until |-> Never] \in [kind : Kinds, until : Minutes \cup {Never}]
  OBVIOUS
<1>3. row' = [row EXCEPT ![NextId] = [kind |-> kind, until |-> Never]]
  BY DEF Insert
<1>4. state' = [state EXCEPT ![NextId] = "pending"] /\ holder' = holder
  BY DEF Insert, Queue!Submit, Queue!Move
<1> QED
  BY <1>1, <1>2, <1>3, <1>4 DEF TypeOK

---------------------------------------------------------------------------
(* Types.                                                                  *)

LEMMA TypesStart == SchedulerAssumption /\ Init => TypeOK
<1> SUFFICES ASSUME SchedulerAssumption, Init PROVE TypeOK
  OBVIOUS
<1>1. now \in Minutes /\ config \in Configs /\ disabled \subseteq Modules /\ upsets \in 0..MaxUpsets
  BY DEF Init, SchedulerAssumption, Minutes
<1>2. tick \in Ticks /\ Chosen \notin tick.off
  <2>1. (CHOOSE c \in Configs : TRUE) \in Configs
    BY <1>1
  <2> QED
    BY <2>1 DEF Init, Asleep, Ticks, Chosen, Minutes, SchedulerAssumption
<1>3. fired \in [Kinds -> Minutes \cup {Never}] /\ inserted \in [Kinds -> [Minutes -> Nat]]
  BY DEF Init, NoneFired, NoneInserted
<1>4. row \in [RowIds -> [kind : Kinds, until : Minutes \cup {Never}]]
  BY DEF Init, NoRow, Kinds
<1>5. call \in [Callers -> [step : {"idle", "poll", "success", "error", "failed"}, id : 0..MaxRows]]
  BY DEF Init, NotAsked, SchedulerAssumption
<1> QED
  BY <1>1, <1>2, <1>3, <1>4, <1>5 DEF TypeOK, Ticks

\* The parts of the type that a step may disturb.
TickTyped   == tick \in Ticks /\ Chosen \notin tick.off
MarksTyped  == fired \in [Kinds -> Minutes \cup {Never}] /\ inserted \in [Kinds -> [Minutes -> Nat]]
RowsTyped   == row \in [RowIds -> [kind : Kinds, until : Minutes \cup {Never}]]
CallsTyped  == call \in [Callers -> [step : {"idle", "poll", "success", "error", "failed"},
                                     id : 0..MaxRows]]
OthersTyped == now \in Minutes /\ config \in Configs /\ disabled \subseteq Modules
               /\ upsets \in 0..MaxUpsets

LEMMA TypedParts == TypeOK <=> TickTyped /\ MarksTyped /\ RowsTyped /\ CallsTyped /\ OthersTyped
  BY DEF TypeOK, TickTyped, MarksTyped, RowsTyped, CallsTyped, OthersTyped, Ticks

LEMMA UpsetTyped == SchedulerAssumption /\ TypeOK /\ Upset => upsets' \in 0..MaxUpsets
  BY DEF SchedulerAssumption, TypeOK, Upset

\* A kind that is marked and counted for the tick's minute, or not.
LEMMA MarkTyped ==
  ASSUME TypeOK, NEW k \in Kinds, NEW success \in BOOLEAN, fired' = Marked(k, success),
         Count(k) \/ inserted' = inserted
  PROVE  MarksTyped'
<1>1. tick.minute \in Minutes
  BY DEF TypeOK
<1>2. fired' \in [Kinds -> Minutes \cup {Never}]
  BY <1>1 DEF TypeOK, Marked
<1>3. inserted' \in [Kinds -> [Minutes -> Nat]]
  <2>1. CASE inserted' = inserted
    BY <2>1 DEF TypeOK
  <2>2. CASE Count(k)
    <3>1. inserted[k] \in [Minutes -> Nat] /\ inserted[k][tick.minute] + 1 \in Nat
      BY <1>1 DEF TypeOK
    <3>2. [inserted[k] EXCEPT ![tick.minute] = inserted[k][tick.minute] + 1] \in [Minutes -> Nat]
      BY <1>1, <3>1
    <3>3. inserted' = [inserted EXCEPT ![k] =
                        [inserted[k] EXCEPT ![tick.minute] = inserted[k][tick.minute] + 1]]
      BY <2>2 DEF Count
    <3> QED
      BY <3>2, <3>3 DEF TypeOK
  <2> QED
    BY <2>1, <2>2
<1> QED
  BY <1>2, <1>3 DEF MarksTyped

\* What a turn of RunModuleAsync does besides the queue.
LEMMA RunModuleAsyncFields ==
  ASSUME SchedulerAssumption, TypeOK, RunModuleAsync
  PROVE  /\ Chosen \in Modules /\ Chosen \in Kinds
         /\ \/ /\ Resume(FALSE) /\ fired' = Marked(Chosen, FALSE)
               /\ UNCHANGED <<queue, inserted>>
            \/ /\ Resume(TRUE) /\ fired' = Marked(Chosen, TRUE)
               /\ InFlight(Chosen) # {} /\ UNCHANGED <<queue, inserted>>
            \/ /\ Resume(TRUE) /\ fired' = Marked(Chosen, TRUE)
               /\ Insert(Chosen) /\ Count(Chosen)
         /\ upsets' = upsets \/ Upset
         /\ UNCHANGED <<now, config, disabled, call>>
  BY DEF RunModuleAsync, Refused, Collapsed, Submitted, TypeOK, Chosen, Kinds, queue

LEMMA TickMediaSyncFields ==
  ASSUME SchedulerAssumption, TypeOK, TickMediaSync
  PROVE  /\ tick' \in Ticks /\ tick' = [tick EXCEPT !.phase = "sleep"]
         /\ tick.phase = "sync" /\ tick.todo = {} /\ Chosen = Nobody
         /\ \/ /\ ~FiredThisMinute(MediaSync) /\ fired' = Marked(MediaSync, TRUE)
               /\ Insert(MediaSync) /\ Count(MediaSync)
            \/ /\ fired' = Marked(MediaSync, FALSE) /\ UNCHANGED <<queue, inserted>>
         /\ upsets' = upsets \/ Upset
         /\ UNCHANGED <<now, config, disabled, call>>
<1>1. tick' \in Ticks
  BY DEF TickMediaSync, TypeOK, Ticks
<1> QED
  BY <1>1 DEF TickMediaSync, PhaseDone, Marked, queue

LEMMA NextPhaseFields ==
  ASSUME TypeOK, NextPhase
  PROVE  /\ \/ tick.phase = "plain" /\ tick' = Phase("profiles", {Upgradinatorr})
            \/ tick.phase = "profiles" /\ tick' = Phase("blocks", Modules)
            \/ tick.phase = "blocks" /\ tick' = Phase("sync", {})
         /\ tick.todo = {} /\ Chosen = Nobody /\ Quiet
  BY DEF NextPhase, PhaseDone

\* A crash forgets the tick and its marks; the start after it touches the rows only.
LEMMA CrashFields ==
  ASSUME Crash
  PROVE  /\ tick' = [phase |-> "down", minute |-> 0, off |-> {}, view |-> Asleep.view,
                     todo |-> {}, module |-> Nobody, queued |-> {}, excused |-> {}]
         /\ tick'.phase = "down" /\ tick'.minute = 0 /\ tick'.module = Nobody
         /\ tick'.todo = {} /\ tick'.queued = {} /\ tick'.off = {}
         /\ fired' = NoneFired /\ inserted' = NoneInserted
         /\ call' = [c \in Callers |-> NotAsked] /\ Upset
         /\ holder' = [j \in RowIds |-> Nobody]
         /\ UNCHANGED <<now, config, disabled, row, state>>
  BY DEF Crash, Asleep, Queue!Crash

LEMMA RestartFields ==
  ASSUME TypeOK, Restart
  PROVE  /\ tick.phase = "down" /\ tick' \in Ticks /\ tick'.phase = "sleep"
         /\ tick'.minute = tick.minute /\ tick'.module = tick.module /\ tick'.todo = tick.todo
         /\ tick'.queued = tick.queued /\ tick'.off = tick.off /\ tick'.excused = tick.excused
         /\ tick'.view = tick.view
         /\ state' = [j \in RowIds |-> IF state[j] = "running" THEN "pending" ELSE state[j]]
         /\ UNCHANGED <<now, config, disabled, fired, row, holder, call, upsets, inserted>>
  BY DEF Restart, Up, TypeOK, Ticks, Queue!Recover

LEMMA TypesKeep == SchedulerAssumption /\ TypeOK /\ InHand /\ [Step]_vars => TypeOK'
<1> SUFFICES ASSUME SchedulerAssumption, TypeOK, InHand, [Step]_vars
             PROVE  TickTyped' /\ MarksTyped' /\ RowsTyped' /\ CallsTyped' /\ OthersTyped'
  <2>1. (TickTyped /\ MarksTyped /\ RowsTyped /\ CallsTyped /\ OthersTyped => TypeOK)'
    BY TypedParts, PTL
  <2> QED
    BY <2>1
<1>0. /\ TickTyped /\ MarksTyped /\ RowsTyped /\ CallsTyped /\ OthersTyped
      /\ Upgradinatorr \in Modules /\ MediaSync \in Kinds /\ tick.minute \in Minutes
  BY TypedParts DEF SchedulerAssumption, Kinds, TypeOK
<1>1. CASE BeginTick
  <2>1. Chosen' \notin tick'.off
    BY <1>0, <1>1, BeginFields DEF BeginTick, InHand, Chosen, OthersTyped, SchedulerAssumption
  <2> QED
    BY <1>0, <1>1, <2>1, BeginFields DEF BeginTick, Quiet, queue, TickTyped, MarksTyped, RowsTyped, CallsTyped, OthersTyped
<1>2. CASE SkipTick
  BY <1>0, <1>2, UpsetTyped DEF SkipTick, queue, TickTyped, Chosen, MarksTyped, RowsTyped, CallsTyped, OthersTyped
<1>3. CASE Consider
  <2>1. TickTyped'
    BY <1>0, <1>3, ConsiderFields DEF TickTyped, Chosen, Skipped, SchedulerAssumption, Ticks
  <2> QED
    BY <1>0, <1>3, <2>1 DEF Consider, Quiet, queue, MarksTyped, RowsTyped, CallsTyped, OthersTyped
<1>4. CASE RunModuleAsync
  <2>1. TickTyped'
    BY <1>0, <1>4, RunModuleAsyncFields, ResumeFields DEF TickTyped, Chosen, SchedulerAssumption, Ticks, RunModuleAsync
  <2>2. MarksTyped'
    BY <1>4, RunModuleAsyncFields, MarkTyped
  <2>3. RowsTyped'
    BY <1>0, <1>4, RunModuleAsyncFields, InsertFields DEF RowsTyped, queue
  <2>4. OthersTyped' /\ CallsTyped'
    BY <1>0, <1>4, RunModuleAsyncFields, UpsetTyped DEF OthersTyped, CallsTyped
  <2> QED
    BY <2>1, <2>2, <2>3, <2>4
<1>5. CASE NextPhase
  <2>1. TickTyped'
    BY <1>0, <1>5, NextPhaseFields, PhaseFields DEF TickTyped, Chosen, Ticks
  <2> QED
    BY <1>0, <1>5, <2>1 DEF NextPhase, Quiet, queue, MarksTyped, RowsTyped, CallsTyped, OthersTyped
<1>6. CASE TickMediaSync
  <2>1. TickTyped'
    BY <1>0, <1>6, TickMediaSyncFields DEF TickTyped, Chosen, Ticks
  <2>2. MarksTyped'
    BY <1>0, <1>6, TickMediaSyncFields, MarkTyped
  <2>3. RowsTyped'
    BY <1>0, <1>6, TickMediaSyncFields, InsertFields DEF RowsTyped, queue
  <2>4. OthersTyped' /\ CallsTyped'
    BY <1>0, <1>6, TickMediaSyncFields, UpsetTyped DEF OthersTyped, CallsTyped
  <2> QED
    BY <2>1, <2>2, <2>3, <2>4
<1>7. CASE Minute
  <2>1. now' \in Minutes
    BY <1>0, <1>7 DEF Minute, OthersTyped, Minutes, SchedulerAssumption
  <2> QED
    BY <1>0, <1>7, <2>1 DEF Minute, queue, TickTyped, Chosen, MarksTyped, RowsTyped, CallsTyped, OthersTyped
<1>8. CASE Reload
  <2>1. TickTyped'
    BY <1>0, <1>8 DEF Reload, TickTyped, Ticks, Chosen
  <2> QED
    BY <1>0, <1>8, <2>1, UpsetTyped DEF Reload, queue, MarksTyped, RowsTyped, CallsTyped, OthersTyped
<1>9. CASE Crash
  <2>1. TickTyped' /\ MarksTyped' /\ CallsTyped'
    <3>1. /\ tick' = [phase |-> "down", minute |-> 0, off |-> {}, view |-> Asleep.view,
                     todo |-> {}, module |-> Nobody, queued |-> {}, excused |-> {}]
          /\ fired' = NoneFired /\ inserted' = NoneInserted
          /\ call' = [c \in Callers |-> NotAsked]
      BY <1>9, CrashFields
    <3>2. Asleep.view \in Configs
      BY <1>0 DEF OthersTyped, Asleep
    <3>3. TickTyped'
      BY <3>1, <3>2 DEF TickTyped, Ticks, Chosen, Minutes, SchedulerAssumption
    <3> QED
      BY <3>1, <3>3 DEF MarksTyped, CallsTyped, NoneFired, NoneInserted, NotAsked, SchedulerAssumption
  <2> QED
    BY <1>0, <1>9, <2>1, UpsetTyped, CrashFields DEF RowsTyped, OthersTyped
<1>10. ASSUME NEW m \in Modules, ToggleModule(m)
       PROVE  TickTyped' /\ MarksTyped' /\ RowsTyped' /\ CallsTyped' /\ OthersTyped'
  BY <1>0, <1>10, UpsetTyped DEF ToggleModule, queue, TickTyped, Chosen, MarksTyped, RowsTyped, CallsTyped, OthersTyped
<1>11. ASSUME NEW m \in Modules, NEW c \in Callers, RunImmediate(c, m)
       PROVE  TickTyped' /\ MarksTyped' /\ RowsTyped' /\ CallsTyped' /\ OthersTyped'
  <2>1. RowsTyped' /\ CallsTyped'
    <3>0. m \in Kinds /\ RowIds \subseteq 0..MaxRows /\ InFlight(m) \subseteq RowIds
      BY DEF Kinds, RowIds, SchedulerAssumption, InFlight
    <3>1. CASE call' = [call EXCEPT ![c] = NoVerdict] /\ UNCHANGED queue
      BY <1>0, <3>1 DEF queue, RowsTyped, CallsTyped, NoVerdict, SchedulerAssumption
    <3>2. ASSUME NEW j \in InFlight(m), call' = [call EXCEPT ![c] = [step |-> "poll", id |-> j]],
                 UNCHANGED queue
          PROVE  RowsTyped' /\ CallsTyped'
      BY <1>0, <3>0, <3>2 DEF queue, RowsTyped, CallsTyped
    <3>3. CASE Insert(m) /\ call' = [call EXCEPT ![c] = [step |-> "poll", id |-> NextId]]
      BY <1>0, <3>0, <3>3, InsertFields DEF RowsTyped, CallsTyped
    <3> QED
      BY <1>11, <3>1, <3>2, <3>3 DEF RunImmediate
  <2> QED
    BY <1>0, <1>11, <2>1 DEF RunImmediate, TickTyped, Chosen, MarksTyped, OthersTyped
<1>12. ASSUME NEW c \in Callers, Poll(c)
       PROVE  TickTyped' /\ MarksTyped' /\ RowsTyped' /\ CallsTyped' /\ OthersTyped'
  <2>1. CallsTyped'
    BY <1>0, <1>12 DEF Poll, Answer, Verdict, CallsTyped, NoVerdict, SchedulerAssumption
  <2> QED
    BY <1>0, <1>12, <2>1 DEF Poll, queue, TickTyped, Chosen, MarksTyped, RowsTyped, OthersTyped
<1>13. ASSUME NEW j \in RowIds, Finish(j)
       PROVE  TickTyped' /\ MarksTyped' /\ RowsTyped' /\ CallsTyped' /\ OthersTyped'
  <2>1. RowsTyped'
    BY <1>0, <1>13 DEF Finish, RowsTyped, OthersTyped
  <2> QED
    BY <1>0, <1>13, <2>1 DEF Finish, TickTyped, Chosen, MarksTyped, CallsTyped, OthersTyped
<1>14. ASSUME NEW j \in RowIds, Cancel(j) \/ \E w \in Workers : Take(j, w)
       PROVE  TickTyped' /\ MarksTyped' /\ RowsTyped' /\ CallsTyped' /\ OthersTyped'
  BY <1>0, <1>14 DEF Cancel, Take, TickTyped, Chosen, MarksTyped, RowsTyped, CallsTyped, OthersTyped
<1>15. CASE UNCHANGED vars
  BY <1>0, <1>15 DEF vars, queue, TickTyped, Chosen, MarksTyped, RowsTyped, CallsTyped, OthersTyped
<1>16. CASE Restart
  BY <1>0, <1>16, RestartFields DEF TickTyped, Chosen, MarksTyped, RowsTyped, CallsTyped, OthersTyped
<1> QED
  BY <1>1, <1>2, <1>3, <1>4, <1>5, <1>6, <1>7, <1>8, <1>9, <1>10, <1>11, <1>12, <1>13, <1>14,
     <1>15, <1>16 DEF Step, TickSteps

---------------------------------------------------------------------------
(* The module in hand, and the clock.                                      *)

\* The steps beside the tick leave it, and what has fired in it, alone.
LEMMA StepsBesideTick ==
  ASSUME [Step]_vars, ~TickSteps, ~Crash, ~Restart, ~Reload
  PROVE  UNCHANGED <<tick, config, fired, inserted>>
<1>1. CASE Minute
  BY <1>1 DEF Minute
<1>2. ASSUME NEW m \in Modules, ToggleModule(m) \/ \E c \in Callers : RunImmediate(c, m)
      PROVE  UNCHANGED <<tick, config, fired, inserted>>
  BY <1>2 DEF ToggleModule, RunImmediate
<1>3. ASSUME NEW c \in Callers, Poll(c) PROVE UNCHANGED <<tick, config, fired, inserted>>
  BY <1>3 DEF Poll
<1>4. ASSUME NEW j \in RowIds, Finish(j) \/ Cancel(j) \/ \E w \in Workers : Take(j, w)
      PROVE  UNCHANGED <<tick, config, fired, inserted>>
  BY <1>4 DEF Finish, Cancel, Take
<1>5. CASE UNCHANGED vars
  BY <1>5 DEF vars
<1> QED
  BY <1>1, <1>2, <1>3, <1>4, <1>5 DEF Step

\* A reload changes nothing of a tick but what it excuses.
LEMMA ReloadFields ==
  ASSUME TypeOK, Reload
  PROVE  /\ tick' \in Ticks /\ tick'.excused = Modules
         /\ tick'.phase = tick.phase /\ tick'.todo = tick.todo /\ tick'.view = tick.view
         /\ tick'.minute = tick.minute /\ tick'.off = tick.off /\ tick'.module = tick.module
         /\ tick'.queued = tick.queued
         /\ UNCHANGED <<now, fired, inserted, queue, call>>
  BY DEF Reload, TypeOK, Ticks

LEMMA InHandKeeps ==
  SchedulerAssumption /\ TypeOK /\ InHand /\ [Step]_vars => InHand'
<1> SUFFICES ASSUME SchedulerAssumption, TypeOK, InHand, [Step]_vars
             PROVE  InHand'
  OBVIOUS
<1> USE DEF InHand, Chosen, FiredThisMinute
<1>1. CASE BeginTick
  BY <1>1, BeginFields DEF BeginTick
<1>2. CASE SkipTick
  BY <1>2 DEF SkipTick
<1>3. CASE Consider
  <2>1. PICK m \in tick.todo :
          /\ tick'.phase = tick.phase /\ tick'.minute = tick.minute
          /\ tick'.todo \subseteq tick.todo
          /\ tick'.module = Nobody \/ (~Skipped(m) /\ tick'.module = m)
    BY <1>3, ConsiderFields
  <2>2. fired' = fired /\ tick.module = Nobody
    BY <1>3 DEF Consider, Quiet
  <2>3. tick.phase \notin {"sleep", "down"}
    BY <2>1
  <2> QED
    BY <2>1, <2>2, <2>3 DEF Skipped
<1>4. CASE RunModuleAsync
  BY <1>4, RunModuleAsyncFields, ResumeFields DEF RunModuleAsync
<1>5. CASE NextPhase
  BY <1>5, NextPhaseFields, PhaseFields DEF Quiet, SchedulerAssumption
<1>6. CASE TickMediaSync
  BY <1>6, TickMediaSyncFields DEF TypeOK
<1>7. CASE Crash
  BY <1>7, CrashFields
<1>8. CASE Reload
  BY <1>8, ReloadFields
<1>9. CASE ~TickSteps /\ ~Crash /\ ~Restart /\ ~Reload
  BY <1>9, StepsBesideTick
<1>10. CASE Restart
  BY <1>10, RestartFields
<1> QED
  BY <1>1, <1>2, <1>3, <1>4, <1>5, <1>6, <1>7, <1>8, <1>9, <1>10 DEF TickSteps

\* What the mark and the count of one kind do to the clock.
LEMMA ClockMarks ==
  ASSUME TypeOK, Clock, NEW k \in Kinds, NEW success \in BOOLEAN,
         fired' = Marked(k, success), tick'.minute = tick.minute, now' = now,
         \/ success /\ ~FiredThisMinute(k) /\ Count(k)
         \/ inserted' = inserted
  PROVE  Clock'
<1>1. tick.minute \in Minutes /\ now \in Minutes /\ Minutes \subseteq Int /\ Never \in Int
  BY DEF TypeOK, Minutes, Never
<1>2. \A q \in Kinds : fired[q] \in Int /\ fired[q] <= tick.minute
  BY <1>1 DEF TypeOK, Clock
<1>3. \A q \in Kinds : \/ fired'[q] = fired[q] /\ (q # k \/ ~success)
                       \/ fired'[q] = tick.minute /\ q = k /\ success
  <2>1. CASE success
    <3>1. fired' = [fired EXCEPT ![k] = tick.minute] /\ fired \in [Kinds -> Minutes \cup {Never}]
      BY <2>1 DEF Marked, TypeOK
    <3> QED
      BY <2>1, <3>1
  <2>2. CASE ~success
    BY <2>2 DEF Marked
  <2> QED
    BY <2>1, <2>2
<1>4. \A q \in Kinds, t \in Minutes :
        inserted'[q][t] # 0 => t <= fired'[q] /\ inserted'[q][t] <= 1
  <2> SUFFICES ASSUME NEW q \in Kinds, NEW t \in Minutes, inserted'[q][t] # 0
               PROVE  t <= fired'[q] /\ inserted'[q][t] <= 1
    OBVIOUS
  <2>1. inserted[q][t] # 0 => t <= fired[q] /\ inserted[q][t] <= 1
    BY DEF Clock, OncePerMinute
  <2>2. t \in Int
    BY <1>1
  <2>3. CASE inserted'[q][t] = inserted[q][t]
    <3>1. fired[q] <= fired'[q] /\ fired'[q] \in Int /\ fired[q] \in Int
      <4>1. fired[q] \in Int /\ fired[q] <= tick.minute
        BY <1>2
      <4>2. fired'[q] = fired[q] \/ fired'[q] = tick.minute
        BY <1>3
      <4>3. tick.minute \in Int
        BY <1>1
      <4>4. fired[q] <= fired[q]
        BY <4>1
      <4>5. CASE fired'[q] = fired[q]
        BY <4>1, <4>4, <4>5
      <4>6. CASE fired'[q] = tick.minute
        BY <4>1, <4>3, <4>6
      <4> QED
        BY <4>2, <4>5, <4>6
    <3>2. t <= fired[q] /\ inserted'[q][t] <= 1
      BY <2>1, <2>3
    <3> QED
      BY <2>2, <3>1, <3>2
  <2>4. CASE inserted'[q][t] # inserted[q][t]
    <3>1. q = k /\ t = tick.minute /\ success /\ ~FiredThisMinute(k)
          /\ inserted'[q][t] = inserted[q][t] + 1
      BY <2>4 DEF Count, TypeOK
    <3>2. inserted[q][t] = 0
      BY <1>1, <1>2, <2>1, <3>1 DEF FiredThisMinute
    <3>3. inserted'[q][t] = 1
      BY <3>1, <3>2
    <3>4. t <= fired'[q]
      <4>1. fired'[q] = t
        BY <1>3, <3>1
      <4> QED
        BY <2>2, <4>1
    <3> QED
      BY <3>3, <3>4
  <2> QED
    BY <2>3, <2>4
<1>5. inserted' \in [Kinds -> [Minutes -> Nat]]
  BY MarkTyped, TypedParts DEF MarksTyped
<1>6. tick.minute <= now /\ \A q \in Kinds : fired'[q] <= tick.minute
  <2>0. tick.minute <= now
    BY DEF Clock
  <2>1. tick.minute <= tick.minute
    <3>1. tick.minute \in Int
      BY <1>1
    <3> QED
      BY <3>1
  <2>2. ASSUME NEW q \in Kinds PROVE fired'[q] <= tick.minute
    <3>1. fired'[q] = fired[q] \/ fired'[q] = tick.minute
      BY <1>3
    <3> QED
      BY <1>2, <2>1, <3>1
  <2> QED
    BY <2>0, <2>2
<1>7. OncePerMinute'
  <2> SUFFICES ASSUME NEW q \in Kinds, NEW t \in Minutes PROVE inserted'[q][t] <= 1
    BY DEF OncePerMinute
  <2>1. inserted'[q][t] \in Nat
    BY <1>5
  <2> QED
    BY <1>4, <2>1
<1> QED
  BY <1>4, <1>6, <1>7 DEF Clock

LEMMA ClockKeeps ==
  SchedulerAssumption /\ TypeOK /\ InHand /\ Clock /\ [Step]_vars => Clock'
<1> SUFFICES ASSUME SchedulerAssumption, TypeOK, InHand, Clock, [Step]_vars
             PROVE  Clock'
  OBVIOUS
<1>0. /\ now \in Int /\ tick.minute \in Int /\ tick.minute <= now
      /\ \A k \in Kinds : fired[k] \in Int /\ fired[k] <= tick.minute
  BY DEF TypeOK, Clock, Minutes, Never
<1>1. CASE BeginTick
  <2>1. tick'.minute = now /\ UNCHANGED <<now, fired, inserted>>
    BY <1>1, BeginFields DEF BeginTick, Quiet
  <2>2. \A k \in Kinds : fired[k] <= now
    BY <1>0
  <2> QED
    BY <1>0, <2>1, <2>2 DEF Clock, OncePerMinute
<1>2. CASE SkipTick
  BY <1>2 DEF SkipTick, Clock, OncePerMinute
<1>3. CASE Consider
  <2>1. tick'.minute = tick.minute /\ UNCHANGED <<now, fired, inserted>>
    BY <1>3, ConsiderFields DEF Consider, Quiet
  <2> QED
    BY <2>1 DEF Clock, OncePerMinute
<1>4. CASE RunModuleAsync
  <2>1. Chosen \in Kinds /\ ~FiredThisMinute(Chosen) /\ Chosen # Nobody
    BY <1>4, RunModuleAsyncFields DEF InHand, RunModuleAsync
  <2>2. tick'.minute = tick.minute /\ now' = now
    BY <1>4, <2>1, RunModuleAsyncFields, ResumeFields
  <2> QED
    BY <1>4, <2>1, <2>2, RunModuleAsyncFields, ClockMarks
<1>5. CASE NextPhase
  <2>1. tick'.minute = tick.minute /\ UNCHANGED <<now, fired, inserted>>
    BY <1>5, NextPhaseFields, PhaseFields DEF Quiet, SchedulerAssumption
  <2> QED
    BY <2>1 DEF Clock, OncePerMinute
<1>6. CASE TickMediaSync
  <2>1. tick'.minute = tick.minute /\ now' = now /\ MediaSync \in Kinds
    BY <1>6, TickMediaSyncFields DEF TypeOK, Kinds
  <2> QED
    BY <1>6, <2>1, TickMediaSyncFields, ClockMarks
<1>7. CASE Crash
  <2>1. /\ tick'.minute = 0 /\ now' = now /\ 0 <= now
        /\ \A k \in Kinds : fired'[k] = Never
        /\ \A k \in Kinds, t \in Minutes : inserted'[k][t] = 0
    <3>1. now \in Int /\ 0 <= now
      BY DEF TypeOK, Minutes
    <3> QED
      BY <1>7, <3>1, CrashFields DEF NoneFired, NoneInserted
  <2> QED
    BY <2>1 DEF Clock, OncePerMinute, Never
<1>8. CASE Reload
  BY <1>8, ReloadFields DEF Clock, OncePerMinute
<1>9. CASE ~TickSteps /\ ~Crash /\ ~Restart /\ ~Reload
  <2>1. tick'.minute = tick.minute /\ UNCHANGED <<fired, inserted>>
    BY <1>9, StepsBesideTick
  <2>2. now' = now \/ now' = now + 1
    <3>1. CASE Minute
      BY <3>1 DEF Minute
    <3>3. ASSUME NEW m \in Modules, ToggleModule(m) \/ \E c \in Callers : RunImmediate(c, m)
          PROVE  now' = now
      BY <3>3 DEF ToggleModule, RunImmediate
    <3>4. ASSUME NEW c \in Callers, Poll(c) PROVE now' = now
      BY <3>4 DEF Poll
    <3>5. ASSUME NEW j \in RowIds, Finish(j) \/ Cancel(j) \/ \E w \in Workers : Take(j, w)
          PROVE  now' = now
      BY <3>5 DEF Finish, Cancel, Take
    <3>6. CASE UNCHANGED vars
      BY <3>6 DEF vars
    <3> QED
      BY <1>9, <3>1, <3>3, <3>4, <3>5, <3>6 DEF Step
  <2>3. tick'.minute <= now'
    BY <1>0, <2>1, <2>2
  <2> QED
    BY <2>1, <2>3 DEF Clock, OncePerMinute
<1>10. CASE Restart
  BY <1>10, RestartFields DEF Clock, OncePerMinute
<1> QED
  BY <1>1, <1>2, <1>3, <1>4, <1>5, <1>6, <1>7, <1>8, <1>9, <1>10 DEF TickSteps

---------------------------------------------------------------------------
(* The rows, and what fired has to show for it.                            *)

Present == {"pending", "running", "cancelled"}

RowTypes ==
  /\ state \in [RowIds -> {"absent", "pending", "running", "cancelled", "success", "error"}]
  /\ holder \in [RowIds -> Workers \cup {Nobody}]
  /\ \A j \in RowIds : state[j] \in Present => row[j].until = Never

\* Row j answers for k having fired.
Shows(k, j) ==
  /\ row[j].kind = k /\ state[j] # "absent"
  /\ row[j].until = Never \/ row[j].until >= fired[k]

Shown == \A k \in Kinds : fired[k] # Never => \E j \in RowIds : Shows(k, j)

LEMMA RowsParts == Rows <=> RowTypes /\ Shown
  BY DEF Rows, RowTypes, Present, FiredMeansRun, Shown, Shows

\* A new row answers for its own kind, and takes no other row's place.
LEMMA InsertKeepsRows ==
  ASSUME SchedulerAssumption, TypeOK, Rows, NEW kind \in Kinds, Insert(kind),
         fired' = fired \/ fired' = Marked(kind, TRUE)
  PROVE  Rows'
<1>1. /\ NextId \in RowIds /\ state[NextId] = "absent"
      /\ row'[NextId] = [kind |-> kind, until |-> Never]
      /\ \A j \in RowIds \ {NextId} : row'[j] = row[j]
      /\ state' = [state EXCEPT ![NextId] = "pending"] /\ holder' = holder
  BY InsertFields
<1>2. RowTypes'
  BY <1>1, RowsParts DEF RowTypes, Present
<1>3. ASSUME NEW q \in Kinds, fired'[q] # Never
      PROVE  \E j \in RowIds : Shows(q, j)'
  <2>1. CASE q = kind
    <3>1. PICK i \in RowIds : i = NextId
      BY <1>1
    <3>2. state'[i] = "pending" /\ row'[i] = [kind |-> kind, until |-> Never]
      BY <1>1, <3>1, RowsParts DEF RowTypes
    <3> QED
      BY <2>1, <3>2 DEF Shows
  <2>2. CASE q # kind
    <3>1. fired'[q] = fired[q]
      BY <2>2 DEF Marked, TypeOK
    <3>2. PICK j \in RowIds : Shows(q, j)
      BY <1>3, <3>1, RowsParts DEF Shown
    <3>3. j # NextId
      BY <1>1, <3>2 DEF Shows
    <3>4. row'[j] = row[j] /\ state'[j] = state[j]
      BY <1>1, <3>3, RowsParts DEF RowTypes
    <3> QED
      BY <3>1, <3>2, <3>4 DEF Shows
  <2> QED
    BY <2>1, <2>2
<1>4. (RowTypes /\ Shown => Rows)'
  BY RowsParts, PTL
<1> QED
  BY <1>2, <1>3, <1>4 DEF Shown

\* A row in flight answers for a module that collapses onto it.
LEMMA MarkKeepsRows ==
  ASSUME TypeOK, Rows, NEW k \in Kinds, UNCHANGED queue,
         \/ fired' = fired
         \/ fired' = Marked(k, FALSE)
         \/ fired' = Marked(k, TRUE) /\ InFlight(k) # {}
  PROVE  Rows'
<1>1. RowTypes' /\ row' = row /\ state' = state
  BY RowsParts DEF queue, RowTypes
<1>2. ASSUME NEW q \in Kinds, fired'[q] # Never
      PROVE  \E j \in RowIds : Shows(q, j)'
  <2>1. CASE fired'[q] = fired[q]
    BY <1>1, <1>2, <2>1, RowsParts DEF Shown, Shows
  <2>2. CASE fired'[q] # fired[q]
    <3>1. q = k /\ InFlight(k) # {}
      BY <2>2 DEF Marked, TypeOK
    <3>2. PICK j \in InFlight(k) : TRUE
      BY <3>1
    <3>3. j \in RowIds /\ state[j] \in Present /\ row[j].kind = k
      BY <3>2 DEF InFlight, Active, Present
    <3>4. row[j].until = Never /\ state[j] # "absent"
      BY <3>3, RowsParts DEF RowTypes, Present
    <3>5. Shows(q, j)'
      BY <1>1, <3>1, <3>3, <3>4 DEF Shows
    <3> QED
      BY <3>3, <3>5
  <2> QED
    BY <2>1, <2>2
<1>3. (RowTypes /\ Shown => Rows)'
  BY RowsParts, PTL
<1> QED
  BY <1>1, <1>2, <1>3 DEF Shown

\* A row that is taken, cancelled or finished still answers: it ends in this
\* minute, which is no earlier than anything that fired.
LEMMA MoveKeepsRows ==
  ASSUME TypeOK, Clock, Rows, NEW j \in RowIds,
         \/ Finish(j)
         \/ Cancel(j)
         \/ \E w \in Workers : Take(j, w)
  PROVE  Rows'
<1>0. RowTypes /\ fired' = fired
  BY RowsParts DEF Finish, Cancel, Take
<1>1. /\ state[j] \in Present
      /\ state' \in [RowIds -> {"absent", "pending", "running", "cancelled", "success", "error"}]
      /\ holder' \in [RowIds -> Workers \cup {Nobody}]
      /\ state'[j] # "absent" /\ \A i \in RowIds \ {j} : state'[i] = state[i]
  BY <1>0 DEF Finish, Cancel, Take, Queue!Settle, Queue!Cancel, Queue!Take, Queue!Move, RowTypes,
              Present
<1>2. \A i \in RowIds : row'[i].kind = row[i].kind /\ (i # j => row'[i] = row[i])
  BY DEF Finish, Cancel, Take, TypeOK
<1>3. row'[j].until = Never \/ (row'[j].until = now /\ state'[j] \notin Present)
  <2>1. row[j].until = Never
    BY <1>0, <1>1 DEF RowTypes
  <2>2. CASE Finish(j)
    <3>1. state'[j] \in {"success", "error", "pending"}
      BY <1>0, <2>2 DEF Finish, Queue!Settle, Queue!Move, RowTypes
    <3>2. CASE state'[j] = "pending"
      BY <2>1, <2>2, <3>2 DEF Finish
    <3>3. CASE state'[j] # "pending"
      <4>1. row' = [row EXCEPT ![j].until = now]
        BY <2>2, <3>3 DEF Finish
      <4>2. row'[j].until = now
        BY <4>1 DEF TypeOK
      <4> QED
        BY <3>1, <3>3, <4>2 DEF Present
    <3> QED
      BY <3>2, <3>3
  <2>3. CASE row' = row
    BY <2>1, <2>3
  <2> QED
    BY <2>2, <2>3 DEF Cancel, Take
<1>4. RowTypes'
  <2>1. ASSUME NEW i \in RowIds, state'[i] \in Present PROVE row'[i].until = Never
    <3>1. CASE i = j
      BY <1>3, <2>1, <3>1
    <3>2. CASE i # j
      BY <1>0, <1>1, <1>2, <2>1, <3>2 DEF RowTypes
    <3> QED
      BY <3>1, <3>2
  <2> QED
    BY <1>1, <2>1 DEF RowTypes
<1>5. ASSUME NEW q \in Kinds, fired'[q] # Never
      PROVE  \E i \in RowIds : Shows(q, i)'
  <2>1. PICK i \in RowIds : Shows(q, i)
    BY <1>0, <1>5, RowsParts DEF Shown
  <2>2. row'[i].kind = q /\ state'[i] # "absent"
    BY <1>1, <1>2, <2>1 DEF Shows
  <2>3. row'[i].until = Never \/ row'[i].until >= fired'[q]
    <3>1. CASE i = j
      <4>1. /\ now \in Int /\ tick.minute \in Int /\ fired[q] \in Int
            /\ fired[q] <= tick.minute /\ tick.minute <= now
        BY DEF Clock, TypeOK, Minutes, Never
      <4>2. now >= fired[q]
        BY <4>1
      <4> QED
        BY <1>0, <1>3, <3>1, <4>2
    <3>2. CASE i # j
      BY <1>0, <1>2, <2>1, <3>2 DEF Shows
    <3> QED
      BY <3>1, <3>2
  <2> QED
    BY <2>2, <2>3 DEF Shows
<1>6. (RowTypes /\ Shown => Rows)'
  BY RowsParts, PTL
<1> QED
  BY <1>4, <1>5, <1>6 DEF Shown

LEMMA RowsKeep ==
  SchedulerAssumption /\ TypeOK /\ Clock /\ Rows /\ [Step]_vars => Rows'
<1> SUFFICES ASSUME SchedulerAssumption, TypeOK, Clock, Rows, [Step]_vars
             PROVE  Rows'
  OBVIOUS
<1>0. MediaSync \in Kinds
  BY DEF Kinds
<1>1. CASE UNCHANGED <<queue, fired>>
  BY <1>0, <1>1, MarkKeepsRows
<1>2. CASE RunModuleAsync
  BY <1>2, RunModuleAsyncFields, InsertKeepsRows, MarkKeepsRows
<1>3. CASE TickMediaSync
  BY <1>0, <1>3, TickMediaSyncFields, InsertKeepsRows, MarkKeepsRows
<1>4. CASE Crash
  <2>1. /\ \A k \in Kinds : fired'[k] = Never
        /\ row' = row /\ state' = state /\ holder' \in [RowIds -> Workers \cup {Nobody}]
    BY <1>4, CrashFields DEF NoneFired
  <2> QED
    BY <2>1 DEF Rows, FiredMeansRun
<1>11. CASE Restart
  <2>1. /\ fired' = fired /\ row' = row /\ holder' = holder
        /\ state' = [j \in RowIds |-> IF state[j] = "running" THEN "pending" ELSE state[j]]
    BY <1>11, RestartFields
  <2>2. \A j \in RowIds : state'[j] \in Present => row'[j].until = Never
    BY <2>1 DEF Rows, Present
  <2>3. state' \in [RowIds -> {"absent", "pending", "running", "cancelled", "success", "error"}]
    BY <2>1 DEF Rows
  <2>4. \A j \in RowIds : state[j] # "absent" => state'[j] # "absent"
    BY <2>1
  <2> QED
    BY <2>1, <2>2, <2>3, <2>4 DEF Rows, Present, FiredMeansRun
<1>5. ASSUME NEW m \in Modules, NEW c \in Callers, RunImmediate(c, m) PROVE Rows'
  <2>1. m \in Kinds /\ fired' = fired
    BY <1>5 DEF RunImmediate, Kinds
  <2>2. UNCHANGED queue \/ Insert(m)
    BY <1>5 DEF RunImmediate
  <2> QED
    BY <2>1, <2>2, InsertKeepsRows, MarkKeepsRows
<1>6. ASSUME NEW j \in RowIds, Finish(j) \/ Cancel(j) \/ \E w \in Workers : Take(j, w)
      PROVE  Rows'
  BY <1>6, MoveKeepsRows
<1>7. CASE BeginTick \/ SkipTick \/ Consider \/ NextPhase \/ Minute \/ Reload
  BY <1>1, <1>7 DEF BeginTick, SkipTick, Consider, NextPhase, Minute, Reload, Quiet
<1>8. ASSUME NEW m \in Modules, ToggleModule(m) PROVE Rows'
  BY <1>1, <1>8 DEF ToggleModule
<1>9. ASSUME NEW c \in Callers, Poll(c) PROVE Rows'
  BY <1>1, <1>9 DEF Poll
<1>10. CASE UNCHANGED vars
  BY <1>1, <1>10 DEF vars
<1> QED
  BY <1>2, <1>3, <1>4, <1>5, <1>6, <1>7, <1>8, <1>9, <1>10, <1>11 DEF Step, TickSteps

---------------------------------------------------------------------------
(* The callers.                                                            *)

\* A row in the queue stays there, and one that ended stays as it ended.
Forward ==
  \A j \in RowIds : /\ state[j] # "absent" => state'[j] # "absent"
                    /\ state[j] \in {"success", "error"} => state'[j] = state[j]

LEMMA InsertIsForward ==
  ASSUME SchedulerAssumption, TypeOK, RowTypes, NEW kind \in Kinds, Insert(kind)
  PROVE  Forward
  BY InsertFields DEF Forward, RowTypes

LEMMA StepsAreForward ==
  ASSUME SchedulerAssumption, TypeOK, RowTypes, [Step]_vars
  PROVE  Forward
<1>0. MediaSync \in Kinds
  BY DEF Kinds
<1>1. CASE UNCHANGED queue
  BY <1>1 DEF queue, Forward
<1>2. CASE RunModuleAsync
  BY <1>1, <1>2, RunModuleAsyncFields, InsertIsForward DEF queue
<1>3. CASE TickMediaSync
  BY <1>0, <1>1, <1>3, TickMediaSyncFields, InsertIsForward DEF queue
<1>4. CASE Crash
  BY <1>4, CrashFields DEF Forward
<1>11. CASE Restart
  BY <1>11, RestartFields DEF Forward
<1>5. ASSUME NEW m \in Modules, NEW c \in Callers, RunImmediate(c, m) PROVE Forward
  BY <1>1, <1>5, InsertIsForward DEF RunImmediate, Kinds
<1>6. ASSUME NEW j \in RowIds, Finish(j) \/ Cancel(j) \/ \E w \in Workers : Take(j, w)
      PROVE  Forward
  BY <1>6 DEF Finish, Cancel, Take, Queue!Settle, Queue!Cancel, Queue!Take, Queue!Move,
              Forward, RowTypes
<1>7. CASE BeginTick \/ SkipTick \/ Consider \/ NextPhase \/ Minute \/ Reload
  BY <1>1, <1>7 DEF BeginTick, SkipTick, Consider, NextPhase, Minute, Reload, Quiet
<1>8. ASSUME NEW m \in Modules, ToggleModule(m) PROVE Forward
  BY <1>1, <1>8 DEF ToggleModule
<1>9. ASSUME NEW c \in Callers, Poll(c) PROVE Forward
  BY <1>1, <1>9 DEF Poll
<1>10. CASE UNCHANGED vars
  BY <1>1, <1>10 DEF vars
<1> QED
  BY <1>2, <1>3, <1>4, <1>5, <1>6, <1>7, <1>8, <1>9, <1>10, <1>11 DEF Step, TickSteps

\* The steps beside a caller leave what it has heard alone.
LEMMA StepsBesideCalls ==
  ASSUME [Step]_vars, ~Crash,
         \A c \in Callers : ~Poll(c) /\ \A m \in Modules : ~RunImmediate(c, m)
  PROVE  call' = call
<1>1. CASE TickSteps
  BY <1>1 DEF TickSteps, BeginTick, SkipTick, Consider, RunModuleAsync, NextPhase, TickMediaSync,
              Quiet
<1>2. CASE Minute \/ Reload \/ Restart
  BY <1>2 DEF Minute, Reload, Restart
<1>3. ASSUME NEW m \in Modules, ToggleModule(m) PROVE call' = call
  BY <1>3 DEF ToggleModule
<1>4. ASSUME NEW j \in RowIds, Finish(j) \/ Cancel(j) \/ \E w \in Workers : Take(j, w)
      PROVE  call' = call
  BY <1>4 DEF Finish, Cancel, Take
<1>5. CASE UNCHANGED vars
  BY <1>5 DEF vars
<1> QED
  BY <1>1, <1>2, <1>3, <1>4, <1>5 DEF Step

\* What a caller knows of its row.
Knows(c) ==
  /\ call[c].step = "poll" => call[c].id \in RowIds /\ state[call[c].id] # "absent"
  /\ call[c].step \in {"success", "error"} =>
       call[c].id \in RowIds /\ state[call[c].id] = call[c].step

LEMMA CallsParts == Calls <=> \A c \in Callers : Knows(c)
  BY DEF Calls, Knows

LEMMA KeepsKnowing ==
  ASSUME NEW c \in Callers, Knows(c), Forward, call'[c] = call[c]
  PROVE  Knows(c)'
  BY DEF Knows, Forward

LEMMA CallsKeep ==
  SchedulerAssumption /\ TypeOK /\ Rows /\ Calls /\ [Step]_vars => Calls'
<1> SUFFICES ASSUME SchedulerAssumption, TypeOK, Rows, Calls, [Step]_vars
             PROVE  Calls'
  OBVIOUS
<1>0. RowTypes /\ Forward /\ (\A c \in Callers : Knows(c))
  BY RowsParts, StepsAreForward, CallsParts
<1>1. CASE Crash
  BY <1>1, CrashFields DEF Calls, NotAsked
<1>2. ASSUME NEW c \in Callers, NEW d \in Callers, NEW m \in Modules, RunImmediate(c, m)
      PROVE  Knows(d)'
  <2>1. CASE d # c
    <3>1. call'[d] = call[d]
      BY <1>2, <2>1 DEF RunImmediate, TypeOK
    <3> QED
      BY <1>0, <3>1, KeepsKnowing
  <2>2. CASE d = c
    <3>1. CASE call' = [call EXCEPT ![c] = NoVerdict]
      <4>1. call'[c].step = "failed"
        BY <3>1 DEF TypeOK, NoVerdict
      <4> QED
        BY <2>2, <4>1 DEF Knows
    <3>2. ASSUME NEW j \in InFlight(m), call' = [call EXCEPT ![c] = [step |-> "poll", id |-> j]]
          PROVE  Knows(d)'
      <4>1. j \in RowIds /\ state[j] # "absent"
        BY DEF InFlight, Active
      <4>2. call'[c].step = "poll" /\ call'[c].id = j /\ state'[j] # "absent"
        BY <1>0, <3>2, <4>1 DEF TypeOK, Forward
      <4> QED
        BY <2>2, <4>1, <4>2 DEF Knows
    <3>3. CASE Insert(m) /\ call' = [call EXCEPT ![c] = [step |-> "poll", id |-> NextId]]
      <4>1. PICK j \in RowIds : j = NextId
        BY <3>3, NextIdIsUnused DEF Insert, Unused
      <4>2. state'[j] = "pending"
        BY <1>0, <3>3, <4>1, InsertFields DEF RowTypes, Kinds
      <4>3. call'[c].step = "poll" /\ call'[c].id = j
        BY <3>3, <4>1 DEF TypeOK
      <4> QED
        BY <2>2, <4>1, <4>2, <4>3 DEF Knows
    <3> QED
      BY <1>2, <3>1, <3>2, <3>3 DEF RunImmediate
  <2> QED
    BY <2>1, <2>2
<1>3. ASSUME NEW c \in Callers, NEW d \in Callers, Poll(c)
      PROVE  Knows(d)'
  <2>0. state' = state
    BY <1>3 DEF Poll, queue
  <2>1. CASE d # c
    <3>1. call'[d] = call[d]
      BY <1>3, <2>1 DEF Poll, Answer, Verdict, TypeOK
    <3> QED
      BY <1>0, <3>1, KeepsKnowing
  <2>2. CASE d = c
    <3>1. CASE call' = [call EXCEPT ![c] = NoVerdict]
      <4>1. call'[c].step = "failed"
        BY <3>1 DEF TypeOK, NoVerdict
      <4> QED
        BY <2>2, <4>1 DEF Knows
    <3>2. CASE call' # [call EXCEPT ![c] = NoVerdict]
      <4>1. /\ call' = [call EXCEPT ![c].step = state[call[c].id]]
            /\ state[call[c].id] \in {"success", "error"}
        BY <1>3, <3>2 DEF Poll, Answer, Verdict
      <4>2. call[c].id \in RowIds
        BY <1>0, <1>3 DEF Poll, Knows
      <4>3. call'[c].step = state[call[c].id] /\ call'[c].id = call[c].id
        BY <4>1 DEF TypeOK
      <4> QED
        BY <2>0, <2>2, <4>1, <4>2, <4>3 DEF Knows
    <3> QED
      BY <3>1, <3>2
  <2> QED
    BY <2>1, <2>2
<1>4. ASSUME call' = call, NEW d \in Callers PROVE Knows(d)'
  BY <1>0, <1>4, KeepsKnowing
<1>5. (Calls <=> \A c \in Callers : Knows(c))'
  BY CallsParts, PTL
<1> QED
  BY <1>1, <1>2, <1>3, <1>4, <1>5, StepsBesideCalls

---------------------------------------------------------------------------
(* The modules a tick has taken through its phases.                        *)

Open == Modules \ (tick.off \cup tick.excused \cup {Chosen})

Handled(m) ==
  /\ Through("plain", {"profiles", "blocks", "sync"}, m) /\ PlainDue(m) => FiredThisMinute(m)
  /\ Through("profiles", {"blocks", "sync"}, m) /\ ProfilesDue(m) => FiredThisMinute(m)
  /\ Through("blocks", {"sync"}, m) /\ BlocksDue(m) => FiredThisMinute(m)

LEMMA AnsweredParts ==
  Answered <=> /\ \A m \in tick.queued : FiredThisMinute(m)
               /\ tick.phase \notin {"sleep", "down"} => tick.excused = Modules \/ tick.view = config
               /\ \A m \in Open : Handled(m)
  BY DEF Answered, Open, Handled

LEMMA AnsweredKeeps ==
  SchedulerAssumption /\ TypeOK /\ InHand /\ Answered /\ [Step]_vars => Answered'
<1> SUFFICES ASSUME SchedulerAssumption, TypeOK, InHand, Answered, [Step]_vars
             PROVE  /\ \A m \in tick'.queued : FiredThisMinute(m)'
                    /\ tick'.phase \notin {"sleep", "down"} => tick'.excused = Modules \/ tick'.view = config'
                    /\ \A m \in Open' : Handled(m)'
  <2>1. (/\ \A m \in tick.queued : FiredThisMinute(m)
         /\ tick.phase \notin {"sleep", "down"} => tick.excused = Modules \/ tick.view = config
         /\ \A m \in Open : Handled(m)
         => Answered)'
    BY AnsweredParts, PTL
  <2> QED
    BY <2>1
<1>0. /\ \A m \in tick.queued : FiredThisMinute(m)
      /\ tick.phase \notin {"sleep", "down"} => tick.excused = Modules \/ tick.view = config
      /\ \A m \in Open : Handled(m)
      /\ Nobody \notin Modules
  BY AnsweredParts DEF SchedulerAssumption
<1> USE DEF Open, Handled, Through, PlainDue, ProfilesDue, BlocksDue, Now, FiredThisMinute, Chosen
<1>1. CASE BeginTick
  BY <1>1, BeginFields DEF BeginTick, Quiet
<1>2. CASE SkipTick
  BY <1>0, <1>2 DEF SkipTick
<1>3. CASE Consider
  <2>1. PICK m \in tick.todo :
          /\ tick'.phase = tick.phase /\ tick'.todo = tick.todo \ {m} /\ tick'.view = tick.view
          /\ tick'.minute = tick.minute /\ tick'.off = tick.off /\ tick'.queued = tick.queued
          /\ \/ Skipped(m) /\ tick'.excused = tick.excused
             \/ tick'.excused = tick.excused \cup {m}
             \/ tick'.excused = tick.excused /\ tick'.module = m
    BY <1>3, ConsiderFields
  <2>2. fired' = fired /\ config' = config /\ tick.module = Nobody /\ tick.phase \notin {"sleep", "down"}
    BY <1>3, <2>1 DEF Consider, Quiet, InHand
  <2>3. m \in Modules /\ tick.excused \subseteq Modules
    BY <2>1 DEF TypeOK
  <2>4. ASSUME NEW x \in Open' PROVE Handled(x)'
    <3>1. x \in Open
      BY <1>0, <2>1, <2>2
    <3>2. CASE x # m
      BY <1>0, <2>1, <2>2, <3>1, <3>2
    <3>3. CASE x = m
      <4>1. FiredThisMinute(m) \/ Due(m) = {}
        BY <1>0, <2>1, <3>1, <3>3 DEF Skipped
      <4>2. CASE FiredThisMinute(m)
        BY <2>1, <2>2, <3>3, <4>2
      <4>3. CASE Due(m) = {}
        <5>1. CASE tick.phase = "plain"
          BY <1>0, <2>1, <2>2, <3>1, <3>3, <4>3, <5>1 DEF Due
        <5>2. CASE tick.phase = "profiles"
          BY <1>0, <2>1, <2>2, <3>1, <3>3, <4>3, <5>2 DEF Due
        <5>3. CASE tick.phase = "blocks"
          BY <1>0, <2>1, <2>2, <3>1, <3>3, <4>3, <5>3 DEF Due
        <5>4. CASE tick.phase = "sync"
          BY <1>0, <2>1, <2>2, <3>1, <3>3, <5>4
        <5> QED
          BY <2>2, <5>1, <5>2, <5>3, <5>4 DEF TypeOK
      <4> QED
        BY <4>1, <4>2, <4>3
    <3> QED
      BY <3>2, <3>3
  <2> QED
    BY <1>0, <2>1, <2>2, <2>3, <2>4
<1>4. CASE RunModuleAsync
  <2>0. Chosen # Nobody /\ Chosen \in Modules /\ config' = config
    BY <1>4, RunModuleAsyncFields DEF RunModuleAsync
  <2>1. CASE Resume(FALSE) /\ fired' = Marked(Chosen, FALSE)
    <3>1. /\ tick'.phase = tick.phase /\ tick'.todo = tick.todo /\ tick'.view = tick.view
          /\ tick'.minute = tick.minute /\ tick'.off = tick.off /\ tick'.module = Nobody
          /\ tick'.queued = tick.queued /\ tick'.excused = tick.excused \cup {Chosen}
      BY <2>0, <2>1, ResumeFields
    <3>2. fired' = fired
      BY <2>1 DEF Marked
    <3> QED
      BY <1>0, <2>0, <3>1, <3>2
  <2>2. CASE Resume(TRUE) /\ fired' = Marked(Chosen, TRUE)
    <3>1. /\ tick'.phase = tick.phase /\ tick'.todo = tick.todo /\ tick'.view = tick.view
          /\ tick'.minute = tick.minute /\ tick'.off = tick.off /\ tick'.module = Nobody
          /\ tick'.queued \subseteq tick.queued \cup {Chosen} /\ tick'.excused = tick.excused
      BY <2>0, <2>2, ResumeFields
    <3>2. /\ fired'[Chosen] = tick.minute
          /\ \A m \in Modules : m # Chosen => fired'[m] = fired[m]
      BY <2>0, <2>2 DEF Marked, TypeOK, Kinds
    <3>3. tick.queued \subseteq Modules
      BY DEF TypeOK
    <3>4. \A m \in Modules : FiredThisMinute(m) => FiredThisMinute(m)'
      BY <3>1, <3>2
    <3>5. ASSUME NEW x \in Open' PROVE Handled(x)'
      BY <1>0, <3>1, <3>2, <3>4, <3>5
    <3> QED
      BY <1>0, <2>0, <3>1, <3>2, <3>3, <3>4, <3>5
  <2> QED
    BY <1>4, <2>1, <2>2, RunModuleAsyncFields
<1>5. CASE NextPhase
  <2>1. /\ tick'.view = config /\ tick'.minute = tick.minute /\ tick'.off = tick.off
        /\ tick'.module = tick.module /\ tick'.queued = tick.queued
        /\ tick'.excused = tick.excused /\ tick.todo = {}
        /\ \/ tick.phase = "plain" /\ tick'.phase = "profiles" /\ tick'.todo = {Upgradinatorr}
           \/ tick.phase = "profiles" /\ tick'.phase = "blocks" /\ tick'.todo = Modules
           \/ tick.phase = "blocks" /\ tick'.phase = "sync"
        /\ fired' = fired /\ config' = config
    BY <1>5, NextPhaseFields, PhaseFields DEF Quiet, SchedulerAssumption
  <2>2. ASSUME NEW x \in Open' PROVE Handled(x)'
    <3>1. x \in Open /\ tick'.view = tick.view
      BY <1>0, <2>1, <2>2
    <3> QED
      BY <1>0, <2>1, <3>1
  <2> QED
    BY <1>0, <2>1, <2>2
<1>6. CASE TickMediaSync
  <2>1. /\ tick'.phase = "sleep" /\ tick'.minute = tick.minute /\ tick'.queued = tick.queued
        /\ tick.queued \subseteq Modules
    BY <1>6, TickMediaSyncFields DEF TypeOK
  <2>2. \A m \in Modules : fired'[m] = fired[m]
    BY <1>6, TickMediaSyncFields DEF Marked, TypeOK, SchedulerAssumption, Kinds
  <2> QED
    BY <1>0, <2>1, <2>2
<1>7. CASE Crash
  BY <1>7, CrashFields
<1>8. CASE Reload
  BY <1>0, <1>8, ReloadFields
<1>9. CASE ~TickSteps /\ ~Crash /\ ~Restart /\ ~Reload
  BY <1>0, <1>9, StepsBesideTick
<1>10. CASE Restart
  BY <1>0, <1>10, RestartFields
<1> QED
  BY <1>1, <1>2, <1>3, <1>4, <1>5, <1>6, <1>7, <1>8, <1>9, <1>10 DEF TickSteps

---------------------------------------------------------------------------

LEMMA SchedulerStart == SchedulerAssumption /\ Init => SchedulerInv
<1> SUFFICES ASSUME SchedulerAssumption, Init PROVE SchedulerInv
  OBVIOUS
<1>1. TypeOK
  BY TypesStart
<1>2. /\ tick = Asleep /\ now = 0 /\ \A k \in Kinds : fired[k] = Never
      /\ \A k \in Kinds, t \in Minutes : inserted[k][t] = 0
      /\ \A j \in RowIds : state[j] = "absent"
      /\ \A c \in Callers : call[c] = NotAsked
  BY DEF Init, NoneFired, NoneInserted, Queue!Init
<1>3. Clock
  BY <1>2 DEF Clock, OncePerMinute, Asleep, Never
<1>4. InHand
  BY <1>2 DEF InHand, Asleep, Chosen
<1>5. Rows
  BY <1>2 DEF Rows, FiredMeansRun, Init, Queue!Init
<1>6. Calls
  BY <1>2 DEF Calls, NotAsked
<1>7. Answered
  BY <1>2 DEF Answered, Through, Asleep
<1> QED
  BY <1>1, <1>3, <1>4, <1>5, <1>6, <1>7 DEF SchedulerInv

LEMMA SchedulerKeeps ==
  ASSUME SchedulerAssumption
  PROVE  Spec => []SchedulerInv
<1>1. Init => SchedulerInv
  BY SchedulerStart
<1>2. SchedulerInv /\ [Step]_vars => SchedulerInv'
  BY TypesKeep, ClockKeeps, InHandKeeps, RowsKeep, CallsKeep, AnsweredKeeps DEF SchedulerInv
<1> QED
  BY <1>1, <1>2, PTL DEF Spec

\* Every variable of the scheduler keeps its type, and the module in a tick's hand
\* is not one that the tick found disabled.
THEOREM SchedulerTypes ==
  ASSUME SchedulerAssumption
  PROVE  Spec => []TypeOK
<1>1. SchedulerInv => TypeOK
  BY DEF SchedulerInv
<1> QED
  BY <1>1, SchedulerKeeps, PTL

\* For every set of modules and every configuration: a process queues a module at
\* most once for a minute, whichever of its schedules match; a minute marked as fired
\* had a run; a tick that ran to its end passed no due module over.
THEOREM SchedulesAreKept ==
  ASSUME SchedulerAssumption
  PROVE  Spec => []ScheduleIsKept
<1>1. SchedulerInv => ScheduleIsKept
  <2> SUFFICES ASSUME SchedulerInv PROVE ScheduleIsKept
    OBVIOUS
  <2>1. OncePerMinute /\ FiredMeansRun
    BY DEF SchedulerInv, Clock, Rows
  <2>2. ASSUME PhaseDone("sync"), NEW m \in Modules \ (tick.off \cup tick.excused),
               DueIn(tick.view, m, tick.minute)
        PROVE  FiredThisMinute(m)
    <3>1. m # Chosen /\ tick.phase = "sync"
      BY <2>2 DEF PhaseDone, SchedulerAssumption
    <3>2. PlainDue(m) \/ ProfilesDue(m) \/ BlocksDue(m)
      BY <2>2 DEF DueIn, PlainDue, ProfilesDue, BlocksDue, Now
    <3> QED
      BY <3>1, <3>2 DEF SchedulerInv, Answered, Through
  <2> QED
    BY <2>1, <2>2 DEF ScheduleIsKept, DueIsAnswered
<1> QED
  BY <1>1, SchedulerKeeps, PTL

\* A request that waits for its run and is told success or error polled a run that
\* ended so, whatever else went on in the queue.
THEOREM CallersHearTheTruth ==
  ASSUME SchedulerAssumption
  PROVE  Spec => []VerdictIsTrue
<1>1. SchedulerInv => VerdictIsTrue
  BY DEF SchedulerInv, Calls, VerdictIsTrue
<1> QED
  BY <1>1, SchedulerKeeps, PTL

---------------------------------------------------------------------------
(* Everything the scheduler and its neighbours do to the queue is what     *)
(* JobLedger allows.                                                       *)

\* An insert takes the next id, which is a row's as long as one is unused.
LEMMA InsertSubmits ==
  ASSUME SchedulerAssumption, NEW kind \in Kinds, Insert(kind)
  PROVE  Queue!Next
<1>1. NextId \in RowIds
  BY NextIdIsUnused DEF Insert, Unused
<1> QED
  BY <1>1 DEF Insert, Queue!Next

LEMMA StepQueue ==
  ASSUME SchedulerAssumption, TypeOK, [Step]_vars
  PROVE  [Queue!Next]_(Queue!ledger)
<1> USE DEF Queue!ledger
<1>1. CASE UNCHANGED queue
  BY <1>1 DEF queue
<1>2. CASE RunModuleAsync \/ TickMediaSync
  <2>1. UNCHANGED queue \/ \E kind \in Kinds : Insert(kind)
    BY <1>2, RunModuleAsyncFields, TickMediaSyncFields DEF queue, Kinds
  <2> QED
    BY <1>1, <2>1, InsertSubmits
<1>3. CASE Crash
  BY <1>3 DEF Crash, Queue!Next
<1>4. CASE Restart
  <2>1. {j \in RowIds : state[j] = "running"} \in SUBSET RowIds
    OBVIOUS
  <2> QED
    BY <1>4, <2>1 DEF Restart, Queue!Next
<1>5. ASSUME NEW m \in Modules, NEW c \in Callers, RunImmediate(c, m)
      PROVE  [Queue!Next]_(Queue!ledger)
  BY <1>1, <1>5, InsertSubmits DEF RunImmediate, Kinds
<1>6. ASSUME NEW j \in RowIds, Finish(j) \/ Cancel(j) \/ \E w \in Workers : Take(j, w)
      PROVE  Queue!Next
  BY <1>6 DEF Finish, Cancel, Take, Queue!Next
<1>7. CASE BeginTick \/ SkipTick \/ Consider \/ NextPhase \/ Minute \/ Reload
  BY <1>1, <1>7 DEF BeginTick, SkipTick, Consider, NextPhase, Minute, Reload, Quiet
<1>8. ASSUME NEW m \in Modules, ToggleModule(m) PROVE [Queue!Next]_(Queue!ledger)
  BY <1>1, <1>8 DEF ToggleModule
<1>9. ASSUME NEW c \in Callers, Poll(c) PROVE [Queue!Next]_(Queue!ledger)
  BY <1>1, <1>9 DEF Poll
<1>10. CASE UNCHANGED vars
  BY <1>1, <1>10 DEF vars
<1> QED
  BY <1>2, <1>3, <1>4, <1>5, <1>6, <1>7, <1>8, <1>9, <1>10 DEF Step, TickSteps

\* The queue the scheduler is written against is the one JobQueue implements: its
\* inserts, the runs by hand, the workers, a crash and the recovery after it are
\* steps of JobLedger, so every behaviour of the scheduler is one of JobLedger's.
THEOREM SchedulerKeepsLedger ==
  ASSUME SchedulerAssumption
  PROVE  Spec => Queue!Spec
<1>1. Init => Queue!Init
  BY DEF Init
<1>2. SchedulerInv => TypeOK
  BY DEF SchedulerInv
<1>3. TypeOK /\ [Step]_vars => [Queue!Next]_(Queue!ledger)
  BY StepQueue
<1> QED
  BY <1>1, <1>2, <1>3, SchedulerKeeps, PTL DEF Spec, Queue!Spec

---------------------------------------------------------------------------
(* The calendar: md_range_contains.                                        *)

Days == [year : Nat, month : 1..12, day : 1..31]

\* A boundary of a range falls on some day of its own month, in every year.
LEMMA SafeDay ==
  ASSUME NEW y \in Int, NEW md \in MonthDays
  PROVE  \E d \in 1..31 : SafeDate(y, md) = 372 * y + 31 * md.month + d
<1> DEFINE d == IF md.month = 2 /\ md.day = 29 /\ ~Leap(y) THEN 28 ELSE md.day
<1>1. md.month \in 1..12 /\ md.day \in 1..31 BY DEF MonthDays
<1>2. d \in 1..31 BY <1>1
<1>3. SafeDate(y, md) = 372 * y + 31 * md.month + d BY DEF SafeDate, Ordinal
<1> QED BY <1>2, <1>3

\* A range has a date in each year, between that year's first and last.
LEMMA DateInYear ==
  ASSUME NEW y \in Int, NEW md \in MonthDays
  PROVE  /\ SafeDate(y, md) \in Int
         /\ 372 * y + 32 <= SafeDate(y, md)
         /\ SafeDate(y, md) <= 372 * y + 403
<1>1. md.month \in 1..12 BY DEF MonthDays
<1>2. PICK d \in 1..31 : SafeDate(y, md) = 372 * y + 31 * md.month + d BY SafeDay
<1> QED BY <1>1, <1>2

LEMMA NowInYear ==
  ASSUME NEW t \in Days
  PROVE  /\ DateOf(t) \in Int
         /\ 372 * t.year + 32 <= DateOf(t)
         /\ DateOf(t) <= 372 * t.year + 403
<1>1. t.year \in Nat /\ t.month \in 1..12 /\ t.day \in 1..31 BY DEF Days
<1> QED BY <1>1 DEF DateOf, Ordinal

\* Months order dates, whatever day a leap day becomes.
LEMMA MonthsApart ==
  ASSUME NEW m \in Int, NEW n \in Int, m < n
  PROVE  31 * m + 31 <= 31 * n
OBVIOUS

LEMMA MonthOrder ==
  ASSUME NEW y \in Int, NEW a \in MonthDays, NEW b \in MonthDays, a.month < b.month
  PROVE  SafeDate(y, a) < SafeDate(y, b)
<1>1. a.month \in 1..12 /\ b.month \in 1..12 BY DEF MonthDays
<1>2. PICK d \in 1..31 : SafeDate(y, a) = 372 * y + 31 * a.month + d BY SafeDay
<1>3. PICK e \in 1..31 : SafeDate(y, b) = 372 * y + 31 * b.month + e BY SafeDay
<1>4. 31 * a.month + 31 <= 31 * b.month BY <1>1, MonthsApart
<1> QED BY <1>1, <1>2, <1>3, <1>4

LEMMA DayOrder ==
  ASSUME NEW y \in Int, NEW a \in MonthDays, NEW b \in MonthDays,
         a.month = b.month, a.day <= b.day
  PROVE  SafeDate(y, a) <= SafeDate(y, b)
<1>1. /\ a.month \in 1..12 /\ a.day \in 1..31
      /\ b.month \in 1..12 /\ b.day \in 1..31
  BY DEF MonthDays
<1> QED BY <1>1 DEF SafeDate, Ordinal

LEMMA NowMonth ==
  ASSUME NEW t \in Days, NEW a \in MonthDays
  PROVE  /\ t.month < a.month => DateOf(t) < SafeDate(t.year, a)
         /\ t.month > a.month => SafeDate(t.year, a) < DateOf(t)
<1>1. PICK y \in Int, m \in 1..12, d \in 1..31 : t.year = y /\ t.month = m /\ t.day = d
  <2>1. t.year \in Int /\ t.month \in 1..12 /\ t.day \in 1..31 BY DEF Days
  <2> QED BY <2>1
<1>2. PICK k \in 1..12 : a.month = k BY DEF MonthDays
<1>3. DateOf(t) = 372 * y + 31 * m + d BY <1>1 DEF DateOf, Ordinal
<1>4. PICK e \in 1..31 : SafeDate(y, a) = 372 * y + 31 * k + e BY <1>2, SafeDay
<1>5. PICK c \in Int : c = 372 * y OBVIOUS
<1>6. m < k => c + 31 * m + d < c + 31 * k + e
  <2>1. m < k => 31 * m + 31 <= 31 * k BY MonthsApart
  <2> QED BY <2>1
<1>7. k < m => c + 31 * k + e < c + 31 * m + d
  <2>1. k < m => 31 * k + 31 <= 31 * m BY MonthsApart
  <2> QED BY <2>1
<1> QED BY <1>1, <1>2, <1>3, <1>4, <1>5, <1>6, <1>7

\* The function agrees with the window for every range and every day.
LEMMA ContainsIsWindow ==
  ASSUME NEW s \in [start : MonthDays, end : MonthDays], NEW t \in Days, Distinct(s)
  PROVE  Contains(s, t) <=> InWindow(s, t)
<1> DEFINE S(y) == SafeDate(y, s.start)
           E(y) == SafeDate(y, s.end)
           n == DateOf(t)
           y0 == t.year
           crosses == s.end.month < s.start.month
           early == t.month < s.start.month
<1>1. s.start \in MonthDays /\ s.end \in MonthDays /\ y0 \in Nat BY DEF Days
<1>2. /\ s.start.month \in Int /\ s.end.month \in Int /\ t.month \in Int
      /\ s.start.day \in Int /\ s.end.day \in Int
  BY <1>1 DEF MonthDays, Days
<1>3. \A y \in Int : /\ S(y) \in Int /\ 372 * y + 32 <= S(y) /\ S(y) <= 372 * y + 403
                     /\ E(y) \in Int /\ 372 * y + 32 <= E(y) /\ E(y) <= 372 * y + 403
  BY <1>1, DateInYear
<1>4. n \in Int /\ 372 * y0 + 32 <= n /\ n <= 372 * y0 + 403 BY NowInYear
\* A range crosses New Year exactly when its end is in an earlier month.
<1>5. \A y \in Int : E(y) < S(y) <=> crosses
  <2> SUFFICES ASSUME NEW y \in Int PROVE E(y) < S(y) <=> crosses OBVIOUS
  <2>0. S(y) \in Int /\ E(y) \in Int BY <1>3
  <2>1. CASE s.end.month < s.start.month
    <3>1. E(y) < S(y) BY <2>1, <1>1, MonthOrder
    <3> QED BY <2>1, <3>1
  <2>2. CASE s.end.month = s.start.month
    <3>1. s.start.day <= s.end.day BY <2>2 DEF Distinct
    <3>2. S(y) <= E(y) BY <2>2, <3>1, <1>1, DayOrder
    <3> HIDE DEF S, E
    <3> QED BY <2>2, <3>2, <1>2, <2>0
  <2>3. CASE s.end.month > s.start.month
    <3>1. s.start.month < s.end.month BY <2>3, <1>2
    <3>2. S(y) < E(y) BY <3>1, <1>1, MonthOrder
    <3> HIDE DEF S, E
    <3> QED BY <2>3, <3>2, <1>2, <2>0
  <2> QED BY <2>1, <2>2, <2>3, <1>2
<1>6. early => n < S(y0) BY <1>1, NowMonth
<1>7. ~early /\ crosses => E(y0) < n BY <1>1, <1>2, NowMonth
<1>8. Contains(s, t) <=>
        \/ S(y0) <= E(y0) /\ S(y0) <= n /\ n <= E(y0)
        \/ E(y0) < S(y0) /\ early /\ S(y0 - 1) <= n /\ n <= E(y0)
        \/ E(y0) < S(y0) /\ ~early /\ S(y0) <= n /\ n <= E(y0 + 1)
  BY <1>2 DEF Contains
<1>9. InWindow(s, t) <=>
        \/ S(y0 - 1) <= n /\ n <= IF E(y0 - 1) >= S(y0 - 1) THEN E(y0 - 1) ELSE E(y0)
        \/ S(y0) <= n /\ n <= IF E(y0) >= S(y0) THEN E(y0) ELSE E(y0 + 1)
  <2>1. (y0 - 1) + 1 = y0 BY <1>1
  <2> QED BY <2>1 DEF InWindow, Closing
<1>10. PICK ls \in Int, le \in Int, ts \in Int, te \in Int, ne \in Int :
         /\ ls = S(y0 - 1) /\ le = E(y0 - 1) /\ ts = S(y0) /\ te = E(y0) /\ ne = E(y0 + 1)
         /\ le <= 372 * y0 + 31 /\ 372 * y0 + 404 <= ne
  <2>1. y0 \in Int /\ y0 - 1 \in Int /\ y0 + 1 \in Int BY <1>1
  <2> HIDE DEF S, E, y0
  <2>2. /\ S(y0 - 1) \in Int /\ E(y0 - 1) \in Int /\ S(y0) \in Int
        /\ E(y0) \in Int /\ E(y0 + 1) \in Int
    BY <1>3, <2>1
  <2>3. E(y0 - 1) <= 372 * (y0 - 1) + 403 /\ 372 * (y0 + 1) + 32 <= E(y0 + 1)
    BY <1>3, <2>1
  <2>4. E(y0 - 1) <= 372 * y0 + 31 /\ 372 * y0 + 404 <= E(y0 + 1) BY <2>1, <2>2, <2>3
  <2> QED BY <2>2, <2>4
<1>11. (te < ts <=> crosses) /\ (le < ls <=> crosses)
  BY <1>1, <1>5, <1>10
<1> HIDE DEF S, E, n, y0, crosses, early
<1>12. y0 \in Int BY <1>1 DEF y0
<1>13. Contains(s, t) <=>
        \/ ts <= te /\ ts <= n /\ n <= te
        \/ te < ts /\ early /\ ls <= n /\ n <= te
        \/ te < ts /\ ~early /\ ts <= n /\ n <= ne
  BY <1>8, <1>10
<1>14. InWindow(s, t) <=>
        \/ ls <= n /\ n <= IF le >= ls THEN le ELSE te
        \/ ts <= n /\ n <= IF te >= ts THEN te ELSE ne
  BY <1>9, <1>10
<1>15. (early => n < ts) /\ (~early /\ crosses => te < n) BY <1>6, <1>7, <1>10
<1>16. le < n /\ n < ne BY <1>4, <1>10, <1>12
<1>17. CASE crosses BY <1>4, <1>10, <1>11, <1>13, <1>14, <1>15, <1>16, <1>17
<1>18. CASE ~crosses BY <1>4, <1>10, <1>11, <1>13, <1>14, <1>16, <1>18
<1> QED BY <1>17, <1>18

\* The calendar only shows days, and the range is one validate_schedule accepts.
Calendar == span \in Spans /\ today \in Days

LEMMA DaysInMonth == \A y \in Nat, m \in 1..12 : DaysIn(y, m) \in 28..31
BY DEF DaysIn

LEMMA CalendarHolds == CalendarSpec => []Calendar
<1>1. CalendarInit => Calendar BY CalendarAssumption DEF CalendarInit, Calendar, Days
<1>2. Calendar /\ [CalendarNext]_calendar => Calendar'
  <2> SUFFICES ASSUME Calendar, [CalendarNext]_calendar PROVE Calendar' OBVIOUS
  <2>1. CASE CalendarNext
    <3> USE DEF Calendar, Days
    <3>1. today.year \in Nat /\ today.month \in 1..12 /\ today.day \in 1..31 OBVIOUS
    <3>2. DaysIn(today.year, today.month) \in 28..31 BY <3>1, DaysInMonth
    <3>3. span' \in Spans BY <2>1 DEF CalendarNext, Midnight
    <3>4. CASE today.day < DaysIn(today.year, today.month)
      BY <2>1, <3>1, <3>2, <3>3, <3>4 DEF CalendarNext, Midnight
    <3>5. CASE ~(today.day < DaysIn(today.year, today.month)) /\ today.month < 12
      <4>1. today' = [today EXCEPT !.month = today.month + 1, !.day = 1]
        BY <2>1, <3>5 DEF CalendarNext, Midnight
      <4>2. today' = [year |-> today.year, month |-> today.month + 1, day |-> 1]
        BY <4>1
      <4>3. today.month + 1 \in 1..12 BY <3>1, <3>5
      <4>4. today' \in Days BY <3>1, <4>2, <4>3
      <4> QED BY <3>3, <4>4
    <3>6. CASE ~(today.day < DaysIn(today.year, today.month)) /\ ~(today.month < 12)
      BY <2>1, <3>1, <3>3, <3>6 DEF CalendarNext, Midnight
    <3> QED BY <3>4, <3>5, <3>6
  <2>2. CASE UNCHANGED calendar BY <2>2 DEF calendar, Calendar
  <2> QED BY <2>1, <2>2
<1> QED BY <1>1, <1>2, PTL DEF CalendarSpec

\* Every range that does not end earlier in its own starting month is active
\* exactly inside its window, in every year, leap or not.
THEOREM RangesAreRight == CalendarSpec => []RangeIsWindow
<1>1. Calendar => RangeIsWindow
  <2> SUFFICES ASSUME Calendar, Distinct(span) PROVE Contains(span, today) <=> InWindow(span, today)
    BY DEF RangeIsWindow
  <2>1. span \in [start : MonthDays, end : MonthDays]
    <3>1. \A e \in Edges : e \in MonthDays
      <4> SUFFICES ASSUME NEW e \in Edges PROVE e \in MonthDays OBVIOUS
      <4>1. e \in [month : EdgeMonths, day : EdgeDays] BY DEF Edges
      <4>2. /\ e = [month |-> e.month, day |-> e.day]
            /\ e.month \in EdgeMonths /\ e.day \in EdgeDays
        BY <4>1
      <4>3. e.month \in 1..12 /\ e.day \in 1..31 BY <4>2, CalendarAssumption
      <4> QED BY <4>2, <4>3 DEF MonthDays
    <3>2. span \in [start : Edges, end : Edges] BY DEF Calendar, Spans
    <3> QED BY <3>1, <3>2
  <2> QED BY <2>1, ContainsIsWindow DEF Calendar
<1> QED BY <1>1, CalendarHolds, PTL

=============================================================================
