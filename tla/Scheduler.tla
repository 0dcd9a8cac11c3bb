----------------------------- MODULE Scheduler -----------------------------
(***************************************************************************)
(* The scheduler's tick, step by step, over the job queue: plain module    *)
(* schedules, Upgradinatorr profiles, schedule blocks and media_sync, with *)
(* configuration reloads, modules being disabled, runs started by hand and *)
(* a restart between any two steps.  The queue is JobLedger, which the     *)
(* detailed JobQueue implements.  What a schedule means is left to a set   *)
(* of minutes; DateRange has its yearly ranges.                            *)
(***************************************************************************)
EXTENDS Integers, FiniteSets

CONSTANTS
  Modules, Upgradinatorr,  \* the modules with a schedule; the one with profiles
  MediaSync,               \* the job type media_sync
  Profiles, Blocks,        \* entries of instances_list and of schedule_blocks[m]
  Configs,                 \* configurations the application may load
  SyncMinutes,             \* instances.sync_schedule
  Workers, Callers,        \* queue threads; requests that wait for their run
  MaxMinute, MaxRows,      \* bounds: the clock, the rows
  MaxUpsets,               \* bound: edits, faults and crashes together
  Nobody

Kinds   == Modules \cup {MediaSync}
Minutes == 0..MaxMinute
RowIds  == 1..MaxRows
Never   == -1

SchedulerAssumption ==
  /\ {MaxMinute, MaxRows, MaxUpsets} \subseteq Nat
  /\ Upgradinatorr \in Modules /\ MediaSync \notin Modules
  /\ Nobody \notin Modules \cup Workers /\ SyncMinutes \subseteq Minutes
  /\ Configs \subseteq [schedule : [Modules -> SUBSET Minutes],
                        profiles : [Profiles -> SUBSET Minutes],
                        blocks   : [Modules -> [Blocks -> SUBSET Minutes]]]

VARIABLES
  now,       \* the wall clock's minute
  config,    \* scheduler.config, swapped whole by a reload
  disabled,  \* general.disabled_modules of config.yml, read afresh
  tick,      \* the tick in progress
  fired,     \* _last_fired
  row,       \* jobs: what each row runs, and the minute it ended in
  state, holder,  \* jobs: status, and the thread at work on it
  call,      \* run_module_immediate of each caller: its step and the row it polls
  upsets,    \* counted for the bound
  inserted   \* history: rows this process's scheduler inserted per kind and minute

queue  == <<row, state, holder>>
vars   == <<now, config, disabled, tick, fired, queue, call, upsets, inserted>>

Queue == INSTANCE JobLedger WITH Jobs <- RowIds, Holders <- Workers, Nobody <- Nobody

NoRow == [kind |-> MediaSync, until |-> Never]
Asleep == [phase |-> "sleep", minute |-> 0, off |-> {}, view |-> CHOOSE c \in Configs : TRUE,
           todo |-> {}, module |-> Nobody, queued |-> {}, excused |-> {}]
NotAsked == [step |-> "idle", id |-> 0]
NoVerdict == [step |-> "failed", id |-> 0]  \* refused, timed out or unexpected

NoneFired    == [k \in Kinds |-> Never]
NoneInserted == [k \in Kinds |-> [t \in Minutes |-> 0]]

Init ==
  /\ Queue!Init
  /\ now = 0 /\ config \in Configs /\ disabled = {}
  /\ tick = Asleep /\ fired = NoneFired /\ inserted = NoneInserted
  /\ row = [j \in RowIds |-> NoRow]
  /\ call = [c \in Callers |-> NotAsked]
  /\ upsets = 0

\* A process is there, with its scheduler, its threads and its API.
Up == tick.phase # "down"

\* An edit of the configuration, a failing read or insert, a crash.
Upset == upsets < MaxUpsets /\ upsets' = upsets + 1

---------------------------------------------------------------------------
(* The queue as the scheduler and its neighbours see it.                   *)

Active(j)   == state[j] \in {"pending", "running"}
InFlight(m) == {j \in RowIds : Active(j) /\ row[j].kind = m}
Running(m)  == \E j \in InFlight(m) : state[j] = "running"
Unused      == {j \in RowIds : state[j] = "absent"}
NextId      == CHOOSE j \in Unused : \A i \in Unused : j <= i

Insert(kind) ==
  /\ Unused # {}
  /\ Queue!Submit(NextId)
  /\ row' = [row EXCEPT ![NextId] = [kind |-> kind, until |-> Never]]

Count(k) == inserted' = [inserted EXCEPT ![k][tick.minute] = @ + 1]

Take(j, w) ==
  /\ Up /\ Queue!Take(j, w)
  /\ UNCHANGED <<now, config, disabled, tick, fired, row, call, upsets, inserted>>

Cancel(j) ==
  /\ Up /\ Queue!Cancel(j)
  /\ UNCHANGED <<now, config, disabled, tick, fired, row, call, upsets, inserted>>

\* A handler returns, raises for good, or raises with attempts left.
Finish(j) ==
  /\ Queue!Settle(j)
  /\ row' = IF state'[j] = "pending" THEN row ELSE [row EXCEPT ![j].until = now]
  /\ UNCHANGED <<now, config, disabled, tick, fired, call, upsets, inserted>>

---------------------------------------------------------------------------
(* ModuleOrchestrator.run_module_async, called by the tick for tick.module. *)

SlipMarkAlways(k, success) == [fired EXCEPT ![k] = tick.minute]
Marked(k, success) == IF success THEN [fired EXCEPT ![k] = tick.minute] ELSE fired

Chosen == tick.module
Resume(success) ==
  tick' = [tick EXCEPT !.module = Nobody,
             !.queued = IF success /\ tick.phase # "profiles" THEN @ \cup {Chosen} ELSE @,
             !.excused = IF success THEN @ ELSE @ \cup {Chosen}]

\* Disabled since the tick began, or the insert failed: it may be tried again.
Refused ==
  /\ \/ Chosen \in disabled /\ UNCHANGED upsets
     \/ Upset
  /\ fired' = Marked(Chosen, FALSE)
  /\ Resume(FALSE)
  /\ UNCHANGED <<queue, inserted>>

\* A run of the module that is pending or running stands for this one.
Collapsed ==
  /\ Chosen \notin disabled /\ InFlight(Chosen) # {}
  /\ fired' = Marked(Chosen, TRUE)
  /\ Resume(TRUE)
  /\ UNCHANGED <<queue, upsets, inserted>>

Submitted ==
  /\ Chosen \notin disabled /\ InFlight(Chosen) = {}
  /\ Insert(Chosen)
  /\ Count(Chosen)
  /\ fired' = Marked(Chosen, TRUE)
  /\ Resume(TRUE)
  /\ UNCHANGED upsets

RunModuleAsync ==
  /\ Chosen # Nobody
  /\ Refused \/ Collapsed \/ Submitted
  /\ UNCHANGED <<now, config, disabled, call>>

---------------------------------------------------------------------------
(* The tick.                                                               *)

Quiet == UNCHANGED <<now, config, disabled, fired, queue, call, upsets, inserted>>

\* Each phase reads the configuration that is in place when it starts.
Phase(phase, todo) == [tick EXCEPT !.phase = phase, !.todo = todo, !.view = config]

BeginTick ==
  /\ tick.phase = "sleep"
  /\ tick' = [Phase("plain", Modules) EXCEPT !.minute = now, !.off = disabled,
                                             !.queued = {}, !.excused = {}]
  /\ Quiet

\* An unreadable config.yml skips the tick: an empty disabled set would run
\* every module that was turned off.
SkipTick ==
  /\ tick.phase = "sleep" /\ Upset
  /\ UNCHANGED <<now, config, disabled, tick, fired, queue, call, inserted>>

SlipKeyPerPhase(k) == fired[k] = tick.minute /\ tick.phase \in {"plain", "sync"}
FiredThisMinute(k) == fired[k] = tick.minute

Now(minutes) == tick.minute \in minutes

\* The entries of a module's schedule that are due in this phase.
Due(m) ==
  CASE tick.phase = "plain"    -> {x \in {m} : Now(tick.view.schedule[x])}
    [] tick.phase = "profiles" -> {p \in Profiles : Now(tick.view.profiles[p])}
    [] tick.phase = "blocks"   -> {b \in Blocks : Now(tick.view.blocks[m][b])}

SlipOnceEver(m) == m \in tick.queued \cup tick.off \/ fired[m] # Never \/ Due(m) = {}
SlipDisabledRuns(m) == m \in tick.queued \/ FiredThisMinute(m) \/ Due(m) = {}
Skipped(m) == m \in tick.queued \cup tick.off \/ FiredThisMinute(m) \/ Due(m) = {}

\* The next module's turn, in the order of the configuration: passed over, found
\* running, or chosen.
Consider ==
  /\ tick.todo # {} /\ Chosen = Nobody
  /\ LET m == CHOOSE x \in tick.todo : TRUE IN
     LET rest == [tick EXCEPT !.todo = @ \ {m}] IN
     tick' = IF Skipped(m) THEN rest
             ELSE IF Running(m) THEN [rest EXCEPT !.excused = @ \cup {m}]
             ELSE [rest EXCEPT !.module = m]
  /\ Quiet

PhaseDone(phase) == tick.phase = phase /\ tick.todo = {} /\ Chosen = Nobody

NextPhase ==
  /\ \/ PhaseDone("plain")    /\ tick' = Phase("profiles", {Upgradinatorr})
     \/ PhaseDone("profiles") /\ tick' = Phase("blocks", Modules)
     \/ PhaseDone("blocks")   /\ tick' = Phase("sync", {})
  /\ Quiet

\* media_sync goes to the queue directly: no disabled list, no dedup by module.
TickMediaSync ==
  /\ PhaseDone("sync")
  /\ tick' = [tick EXCEPT !.phase = "sleep"]
  /\ IF Now(SyncMinutes) /\ ~FiredThisMinute(MediaSync)
       THEN \/ /\ Insert(MediaSync) /\ Count(MediaSync)
               /\ fired' = Marked(MediaSync, TRUE)
               /\ UNCHANGED upsets
            \/ /\ Upset
               /\ fired' = Marked(MediaSync, FALSE)
               /\ UNCHANGED <<queue, inserted>>
       ELSE UNCHANGED <<queue, fired, inserted, upsets>>
  /\ UNCHANGED <<now, config, disabled, call>>

---------------------------------------------------------------------------
(* Around the tick.                                                        *)

Minute ==
  /\ now < MaxMinute /\ now' = now + 1
  /\ UNCHANGED <<config, disabled, tick, fired, queue, call, upsets, inserted>>

\* A saved configuration replaces the scheduler's, at any point of a tick.
Reload ==
  /\ Up /\ Upset
  /\ config' \in Configs \ {config}
  /\ tick' = [tick EXCEPT !.excused = Modules]
  /\ UNCHANGED <<now, disabled, fired, queue, call, inserted>>

ToggleModule(m) ==
  /\ Up /\ Upset
  /\ disabled' = IF m \in disabled THEN disabled \ {m} ELSE disabled \cup {m}
  /\ UNCHANGED <<now, config, tick, fired, queue, call, inserted>>

\* run_module_immediate: refused, put on the run in flight, or given its own.
RunImmediate(c, m) ==
  /\ Up /\ call[c].step = "idle"
  /\ \/ /\ m \in disabled
        /\ call' = [call EXCEPT ![c] = NoVerdict] /\ UNCHANGED queue
     \/ /\ m \notin disabled
        /\ \E j \in InFlight(m) :
             call' = [call EXCEPT ![c] = [step |-> "poll", id |-> j]]
        /\ UNCHANGED queue
     \/ /\ m \notin disabled /\ InFlight(m) = {} /\ Insert(m)
        /\ call' = [call EXCEPT ![c] = [step |-> "poll", id |-> NextId]]
  /\ UNCHANGED <<now, config, disabled, tick, fired, upsets, inserted>>

Verdict(c, status) == [call EXCEPT ![c].step = status]
SlipOnlyErrorFails(c, status) == Verdict(c, IF status = "error" THEN "error" ELSE "success")
Answer(c, status) ==
  IF status \in {"success", "error"} THEN Verdict(c, status) ELSE [call EXCEPT ![c] = NoVerdict]

\* _wait_for_job_completion: the status it finds, or five minutes gone by.
Poll(c) ==
  /\ call[c].step = "poll"
  /\ \/ /\ ~Active(call[c].id)
        /\ call' = Answer(c, state[call[c].id])
     \/ call' = [call EXCEPT ![c] = NoVerdict]
  /\ UNCHANGED <<now, config, disabled, tick, fired, queue, upsets, inserted>>

\* The process dies anywhere: what fired is forgotten, and who waited.
Crash ==
  /\ Upset
  /\ Queue!Crash
  /\ tick' = [Asleep EXCEPT !.phase = "down"] /\ fired' = NoneFired /\ inserted' = NoneInserted
  /\ call' = [c \in Callers |-> NotAsked]
  /\ UNCHANGED <<now, config, disabled, row>>

\* The rows its threads held go back to pending before the new process has a
\* scheduler or takes requests.
Restart ==
  /\ ~Up
  /\ Queue!Recover({j \in RowIds : state[j] = "running"})
  /\ tick' = [tick EXCEPT !.phase = "sleep"]
  /\ UNCHANGED <<now, config, disabled, fired, row, call, upsets, inserted>>

TickSteps ==
  \/ BeginTick \/ SkipTick \/ Consider \/ RunModuleAsync \/ NextPhase \/ TickMediaSync

Step ==
  \/ TickSteps \/ Minute \/ Reload \/ Crash \/ Restart
  \/ \E m \in Modules : ToggleModule(m) \/ \E c \in Callers : RunImmediate(c, m)
  \/ \E c \in Callers : Poll(c)
  \/ \E j \in RowIds : Finish(j) \/ Cancel(j) \/ \E w \in Workers : Take(j, w)

Spec == Init /\ [][Step]_vars

---------------------------------------------------------------------------

TypeOK ==
  /\ now \in Minutes /\ config \in Configs /\ disabled \subseteq Modules
  /\ tick \in [phase : {"down", "sleep", "plain", "profiles", "blocks", "sync"}, minute : Minutes,
               view : Configs, todo : SUBSET Modules, module : Modules \cup {Nobody},
               off : SUBSET Modules, queued : SUBSET Modules, excused : SUBSET Modules]
  /\ Chosen \notin tick.off
  /\ fired \in [Kinds -> Minutes \cup {Never}]
  /\ row \in [RowIds -> [kind : Kinds, until : Minutes \cup {Never}]]
  /\ call \in [Callers -> [step : {"idle", "poll", "success", "error", "failed"},
                        id : 0..MaxRows]]
  /\ inserted \in [Kinds -> [Minutes -> Nat]]
  /\ upsets \in 0..MaxUpsets

\* However many ticks a minute has, and whichever of its plain schedule, its
\* profiles and its blocks match, one process queues a module, and media_sync,
\* at most once for that minute.
OncePerMinute == \A k \in Kinds, t \in Minutes : inserted[k][t] <= 1

\* A minute marked as fired had a run: a row of the module was in the queue in
\* that minute or later, this tick's own or one in flight that stood for it.
FiredMeansRun ==
  \A k \in Kinds : fired[k] # Never =>
    \E j \in RowIds : /\ row[j].kind = k /\ state[j] # "absent"
                      /\ row[j].until = Never \/ row[j].until >= fired[k]

DueIn(c, m, t) ==
  \/ t \in c.schedule[m]
  \/ m = Upgradinatorr /\ \E p \in Profiles : t \in c.profiles[p]
  \/ \E b \in Blocks : t \in c.blocks[m][b]

\* A tick that ran to its end leaves no due module unanswered: it has fired in
\* that minute, or was disabled, was running, was refused by the queue, or the
\* configuration changed under the tick.
DueIsAnswered ==
  PhaseDone("sync") =>
    \A m \in Modules \ (tick.off \cup tick.excused) :
      DueIn(tick.view, m, tick.minute) => FiredThisMinute(m)

\* The three together: what the scheduler promises of a schedule.
ScheduleIsKept == OncePerMinute /\ FiredMeansRun /\ DueIsAnswered

\* A caller told success or error polled a run that did end so.
VerdictIsTrue ==
  \A c \in Callers : call[c].step \in {"success", "error"} => state[call[c].id] = call[c].step

=============================================================================
