------------------------------ MODULE JobQueue ------------------------------
(***************************************************************************)
(* CHUB's persistent job queue: the jobs table, the two worker pools that  *)
(* drain it (DBWorker), the job processor with its per-module locks and    *)
(* cancel registry, and the API requests that cancel, retry and purge.     *)
(*                                                                         *)
(* One action is one SQL statement (or one transaction), one critical      *)
(* section, or one call whose inside no other thread can observe.  The     *)
(* row columns the properties need are one function each; payloads,        *)
(* results, messages and clock values are abstracted away.                 *)
(***************************************************************************)
EXTENDS Integers, FiniteSets

CONSTANTS
  MaxJobs,           \* bound: rows ever inserted (AUTOINCREMENT: no id reuse)
  Modules,           \* module_run jobs, one kind per module name
  ScanTypes,         \* plex_metadata_scan, kometa_assets_scan
  PlainTypes,        \* job types with neither dedupe nor lock
  MediaSync,         \* the media_sync job: a lock, but no dedupe
  Webhook,           \* the webhook job: the only kind of its partition
  WebhookThreads,    \* threads of the WEBHOOK worker
  BackgroundThreads, \* threads of the BACKGROUND worker
  Clients,           \* concurrent cancel requests
  Priorities,        \* values of the priority column
  MaxAttempts,       \* max_attempts of every row
  MaxRetries, MaxCancels, MaxFaults, MaxCrashes,  \* bounds on the environment
  NoThread, NoKind

JobIds == 1..MaxJobs
NoJob == 0
Kinds == Modules \cup ScanTypes \cup PlainTypes \cup {MediaSync, Webhook}
LockKeys == Modules \cup {MediaSync}
Threads == WebhookThreads \cup BackgroundThreads
Workers == {"WEBHOOK", "BACKGROUND"}

ASSUME SizesAssumption ==
  /\ MaxJobs \in Nat /\ MaxAttempts \in Nat \ {0}
  /\ MaxRetries \in Nat /\ MaxCancels \in Nat /\ MaxFaults \in Nat /\ MaxCrashes \in Nat
  /\ Priorities \subseteq Nat

ASSUME KindsAssumption ==
  /\ NoKind \notin Kinds
  /\ MediaSync \notin Modules \cup ScanTypes \cup PlainTypes \cup {Webhook}
  /\ Webhook \notin Modules \cup ScanTypes \cup PlainTypes
  /\ Modules \cap (ScanTypes \cup PlainTypes) = {} /\ ScanTypes \cap PlainTypes = {}

ASSUME ThreadsAssumption ==
  /\ NoThread \notin Threads
  /\ WebhookThreads \cap BackgroundThreads = {}

VARIABLES
  status, kind, attempts, due, prio,  \* columns of the jobs table
  runState,                           \* run_state.last_run_status per module
  worker,                             \* DBWorker.running of each pool
  pc, cur, out, seen,                 \* worker threads: position, job, result, attempts read
  lock,                               \* _MODULE_LOCKS: the holder
  registry,                           \* _cancel_registry: whose body's event
  event,                              \* the cancel event of a thread's body is set
  apc, ajob, handle,                  \* cancel requests: position, job, event fetched
  used                                \* environment steps spent, against the bounds

rows    == <<status, kind, attempts, due, prio>>
threads == <<pc, cur, out, seen>>
cancels == <<registry, event>>
api     == <<apc, ajob, handle>>
vars    == <<rows, runState, worker, threads, lock, cancels, api, used>>

Statuses  == {"absent", "pending", "running", "success", "error", "cancelled", "deleted"}
Positions == {"off", "idle", "selected", "claimed", "locked", "registered",
              "running", "ran", "unlocking", "returned", "failing", "deciding"}
RunStates == {"never", "started", "success", "error", "cancelled"}

WorkerOf(t)    == IF t \in WebhookThreads THEN "WEBHOOK" ELSE "BACKGROUND"
PartitionOf(k) == IF k = Webhook THEN "WEBHOOK" ELSE "BACKGROUND"

\* A thread past the claim owns its row until it writes the row's fate.
Owns(t)   == pc[t] \notin {"off", "idle", "selected"}
\* A thread between acquire() and release() of its job's lock.
Locked(t) == pc[t] \in {"locked", "registered", "running", "ran", "unlocking"}

Init ==
  /\ status   = [j \in JobIds |-> "absent"]
  /\ kind     = [j \in JobIds |-> NoKind]
  /\ attempts = [j \in JobIds |-> 0]
  /\ due      = [j \in JobIds |-> TRUE]
  /\ prio     = [j \in JobIds |-> 0]
  /\ runState = [m \in Modules |-> "never"]
  /\ worker   = [w \in Workers |-> "down"]
  /\ pc       = [t \in Threads |-> "off"]
  /\ cur      = [t \in Threads |-> NoJob]
  /\ out      = [t \in Threads |-> "none"]
  /\ seen     = [t \in Threads |-> 0]
  /\ lock     = [k \in LockKeys |-> NoThread]
  /\ registry = [j \in JobIds |-> NoThread]
  /\ event    = [t \in Threads |-> FALSE]
  /\ apc      = [c \in Clients |-> "idle"]
  /\ ajob     = [c \in Clients |-> NoJob]
  /\ handle   = [c \in Clients |-> NoThread]
  /\ used     = [retries |-> 0, cancels |-> 0, faults |-> 0, crashes |-> 0]

Spend(what) == used' = [used EXCEPT ![what] = @ + 1]

---------------------------------------------------------------------------
(* enqueue_job: one BEGIN IMMEDIATE transaction.  A deduped call changes   *)
(* nothing, so it is no step here.  received_at grows with the id.         *)

\* Slips a change to this module could make stand next to what they change,
\* named SlipXxx; no action uses them (README, "Sensitivity").
InFlight(k) == {j \in JobIds : kind[j] = k /\ status[j] \in {"pending", "running"}}
SlipPendingOnly(k) == k \in Modules \cup ScanTypes /\ \E j \in InFlight(k) : status[j] = "pending"
SlipRunningOnly(k) == k \in Modules \cup ScanTypes /\ \E j \in InFlight(k) : status[j] = "running"
Deduped(k)  == k \in Modules \cup ScanTypes /\ InFlight(k) # {}
NextId(j)   == status[j] = "absent" /\ \A i \in 1..(j - 1) : status[i] # "absent"

\* scheduled_at is passed only for the poster_rename retry of a webhook.
Enqueue(j, k, p, d) ==
  /\ NextId(j)
  /\ ~Deduped(k)
  /\ d \/ k \in PlainTypes
  /\ status' = [status EXCEPT ![j] = "pending"]
  /\ kind'   = [kind EXCEPT ![j] = k]
  /\ prio'   = [prio EXCEPT ![j] = p]
  /\ due'    = [due EXCEPT ![j] = d]
  /\ UNCHANGED <<attempts, runState, worker, threads, lock, cancels, api, used>>

\* The clock reaches scheduled_at.
BackoffElapses(j) ==
  /\ status[j] = "pending" /\ ~due[j]
  /\ due' = [due EXCEPT ![j] = TRUE]
  /\ UNCHANGED <<status, kind, attempts, prio, runState, worker, threads, lock,
                 cancels, api, used>>

---------------------------------------------------------------------------
(* claim_next_job: a SELECT, then a compare-and-swap UPDATE.               *)

Claimable(w) ==
  {j \in JobIds : /\ status[j] = "pending" /\ due[j] /\ attempts[j] < MaxAttempts
                  /\ PartitionOf(kind[j]) = w}

\* ORDER BY priority DESC, received_at ASC LIMIT 1
First(w, j) ==
  /\ j \in Claimable(w)
  /\ \A i \in Claimable(w) : prio[i] < prio[j] \/ (prio[i] = prio[j] /\ j <= i)

Select(t) ==
  /\ pc[t] = "idle" /\ worker[WorkerOf(t)] = "up"
  /\ \E j \in JobIds :
       /\ First(WorkerOf(t), j)
       /\ cur' = [cur EXCEPT ![t] = j]
  /\ pc' = [pc EXCEPT ![t] = "selected"]
  /\ UNCHANGED <<rows, runState, worker, out, seen, lock, cancels, api, used>>

SlipNoSwapGuard(j) == status[j] \in {"pending", "running"}
StillPending(j) == status[j] = "pending"

Claim(t) ==
  /\ pc[t] = "selected"
  /\ StillPending(cur[t])
  /\ status'   = [status EXCEPT ![cur[t]] = "running"]
  /\ attempts' = [attempts EXCEPT ![cur[t]] = @ + 1]
  /\ pc'       = [pc EXCEPT ![t] = "claimed"]
  /\ UNCHANGED <<kind, due, prio, runState, worker, cur, out, seen, lock, cancels, api, used>>

Idle(t) ==
  /\ pc'   = [pc EXCEPT ![t] = "idle"]
  /\ cur'  = [cur EXCEPT ![t] = NoJob]
  /\ out'  = [out EXCEPT ![t] = "none"]
  /\ seen' = [seen EXCEPT ![t] = 0]

LoseClaim(t) ==
  /\ pc[t] = "selected"
  /\ ~StillPending(cur[t])
  /\ Idle(t)
  /\ UNCHANGED <<rows, runState, worker, lock, cancels, api, used>>

---------------------------------------------------------------------------
(* process_job and its handlers, up to the result they return.             *)

Kind(t) == kind[cur[t]]

Step(t, from, to) == pc[t] = from /\ pc' = [pc EXCEPT ![t] = to]
Result(t, r)      == out' = [out EXCEPT ![t] = r]

\* _skip_if_disabled: the module is switched off, or config is unreadable.
SkipDisabled(t) ==
  /\ Step(t, "claimed", "returned")
  /\ Kind(t) \in Modules \cup PlainTypes \cup {Webhook}
  /\ Result(t, "success")
  /\ UNCHANGED <<rows, runState, worker, cur, seen, lock, cancels, api, used>>

\* A handler that takes no lock runs to its result.
RunHandler(t) ==
  /\ Step(t, "claimed", "returned")
  /\ Kind(t) \notin LockKeys
  /\ \E r \in {"success", "failure"} : Result(t, r)
  /\ UNCHANGED <<rows, runState, worker, cur, seen, lock, cancels, api, used>>

SlipNoLock(k) == k \in LockKeys
LockFree(k) == lock[k] = NoThread

AcquireLock(t) ==
  /\ Step(t, "claimed", "locked")
  /\ Kind(t) \in LockKeys /\ LockFree(Kind(t))
  /\ lock' = [lock EXCEPT ![Kind(t)] = t]
  /\ UNCHANGED <<rows, runState, worker, cur, out, seen, cancels, api, used>>

SlipDeferReleases(t) ==
  /\ Step(t, "claimed", "returned")
  /\ Kind(t) \in LockKeys /\ ~LockFree(Kind(t))
  /\ Result(t, "success")
  /\ lock' = [lock EXCEPT ![Kind(t)] = NoThread]
  /\ UNCHANGED <<rows, runState, worker, cur, seen, cancels, api, used>>

\* acquire(blocking=False) failed: a success result marked deferred.
Defer(t) ==
  /\ Step(t, "claimed", "returned")
  /\ Kind(t) \in LockKeys /\ ~LockFree(Kind(t))
  /\ Result(t, "success")
  /\ UNCHANGED <<rows, runState, worker, cur, seen, lock, cancels, api, used>>

SlipKeepsLock(t) ==
  /\ Step(t, "locked", "returned")
  /\ Result(t, "failure")
  /\ UNCHANGED <<rows, runState, worker, cur, seen, lock, cancels, api, used>>

\* media_sync's body, or a module that is unknown or cannot be constructed.
LeaveEarly(t) ==
  /\ Step(t, "locked", "unlocking")
  /\ \/ Kind(t) = MediaSync /\ Result(t, "success")
     \/ Result(t, "failure")
  /\ UNCHANGED <<rows, runState, worker, cur, seen, lock, cancels, api, used>>

\* register_cancel_event: a fresh, unset event for this body.
Register(t) ==
  /\ Step(t, "locked", "registered")
  /\ Kind(t) \in Modules
  /\ registry' = [registry EXCEPT ![cur[t]] = t]
  /\ event' = [event EXCEPT ![t] = FALSE]
  /\ UNCHANGED <<rows, runState, worker, cur, out, seen, lock, api, used>>

\* record_run_start, which clears the previous outcome.
RecordRunStart(t) ==
  /\ Step(t, "registered", "running")
  /\ runState' = [runState EXCEPT ![Kind(t)] = "started"]
  /\ UNCHANGED <<rows, worker, cur, out, seen, lock, cancels, api, used>>

\* run() returned: the event decides the outcome that is recorded.
ReturnFromRun(t) ==
  /\ Step(t, "running", "ran")
  /\ runState' = [runState EXCEPT ![Kind(t)] = IF event[t] THEN "cancelled" ELSE "success"]
  /\ Result(t, "success")
  /\ UNCHANGED <<rows, worker, cur, seen, lock, cancels, api, used>>

RaiseFromRun(t) ==
  /\ Step(t, "running", "ran")
  /\ runState' = [runState EXCEPT ![Kind(t)] = "error"]
  /\ Result(t, "failure")
  /\ UNCHANGED <<rows, worker, cur, seen, lock, cancels, api, used>>

\* A run_state write raised: no outcome is recorded, the handler still fails.
RunStateFault(t) ==
  /\ used.faults < MaxFaults /\ Spend("faults")
  /\ Step(t, "registered", "ran") \/ Step(t, "running", "ran")
  /\ Result(t, "failure")
  /\ UNCHANGED <<rows, runState, worker, cur, seen, lock, cancels, api>>

SlipKeepsHandle(t) ==
  /\ Step(t, "ran", "unlocking")
  /\ UNCHANGED <<rows, runState, worker, cur, out, seen, lock, cancels, api, used>>

\* The finally clause; a handle a client already fetched is now a dead event.
Unregister(t) ==
  /\ Step(t, "ran", "unlocking")
  /\ registry' = [registry EXCEPT ![cur[t]] = NoThread]
  /\ event' = [event EXCEPT ![t] = FALSE]
  /\ handle' = [c \in Clients |-> IF handle[c] = t THEN NoThread ELSE handle[c]]
  /\ UNCHANGED <<rows, runState, worker, cur, out, seen, lock, apc, ajob, used>>

Unlock(t) ==
  /\ Step(t, "unlocking", "returned")
  /\ lock' = [lock EXCEPT ![Kind(t)] = NoThread]
  /\ UNCHANGED <<rows, runState, worker, cur, out, seen, cancels, api, used>>

---------------------------------------------------------------------------
(* process_pending_jobs: the result becomes the row's fate.  Neither       *)
(* UPDATE looks at the status it overwrites.                               *)

Write(j, s) == status' = [status EXCEPT ![j] = s]

MarkComplete(t) ==
  /\ pc[t] = "returned" /\ out[t] = "success"
  /\ Write(cur[t], "success")
  /\ Idle(t)
  /\ UNCHANGED <<kind, attempts, due, prio, runState, worker, lock, cancels, api, used>>

\* The UPDATE raised inside the same try: a finished job is handled as failed.
CompleteFault(t) ==
  /\ used.faults < MaxFaults /\ Spend("faults")
  /\ Step(t, "returned", "failing") /\ out[t] = "success"
  /\ Result(t, "failure")
  /\ UNCHANGED <<rows, runState, worker, cur, seen, lock, cancels, api>>

JobFails(t) ==
  /\ Step(t, "returned", "failing") /\ out[t] = "failure"
  /\ UNCHANGED <<rows, runState, worker, cur, out, seen, lock, cancels, api, used>>

\* _handle_job_error, first statement: get_attempts.
ReadAttempts(t) ==
  /\ Step(t, "failing", "deciding")
  /\ seen' = [seen EXCEPT ![t] = attempts[cur[t]]]
  /\ UNCHANGED <<rows, runState, worker, cur, out, lock, cancels, api, used>>

SlipOneMore(n) == n <= MaxAttempts
AttemptsLeft(n) == n < MaxAttempts

Requeue(t) ==
  /\ pc[t] = "deciding" /\ AttemptsLeft(seen[t])
  /\ Write(cur[t], "pending")
  /\ due' = [due EXCEPT ![cur[t]] = FALSE]
  /\ Idle(t)
  /\ UNCHANGED <<kind, attempts, prio, runState, worker, lock, cancels, api, used>>

MarkFailed(t) ==
  /\ pc[t] = "deciding" /\ ~AttemptsLeft(seen[t])
  /\ Write(cur[t], "error")
  /\ Idle(t)
  /\ UNCHANGED <<kind, attempts, due, prio, runState, worker, lock, cancels, api, used>>

\* Either statement raised: logged only, the row stays as it is.
HandlerFault(t) ==
  /\ used.faults < MaxFaults /\ Spend("faults")
  /\ pc[t] \in {"failing", "deciding"}
  /\ Idle(t)
  /\ UNCHANGED <<rows, runState, worker, lock, cancels, api>>

---------------------------------------------------------------------------
(* cancel_module_execution: a read, a registry lookup, a set, an UPDATE.   *)

CancelCheck(c, j) ==
  /\ used.cancels < MaxCancels /\ Spend("cancels")
  /\ apc[c] = "idle" /\ status[j] = "running"
  /\ apc' = [apc EXCEPT ![c] = "checked"]
  /\ ajob' = [ajob EXCEPT ![c] = j]
  /\ UNCHANGED <<rows, runState, worker, threads, lock, cancels, handle>>

Reply(c) ==
  /\ apc' = [apc EXCEPT ![c] = "idle"]
  /\ ajob' = [ajob EXCEPT ![c] = NoJob]
  /\ handle' = [handle EXCEPT ![c] = NoThread]

SlipMarksAnyway(c) ==
  /\ apc[c] = "checked"
  /\ handle' = [handle EXCEPT ![c] = registry[ajob[c]]]
  /\ apc' = [apc EXCEPT ![c] = "holding"]
  /\ UNCHANGED <<rows, runState, worker, threads, lock, cancels, ajob, used>>

\* request_cancellation, under _cancel_registry_lock.
CancelLookup(c) ==
  /\ apc[c] = "checked" /\ registry[ajob[c]] # NoThread
  /\ handle' = [handle EXCEPT ![c] = registry[ajob[c]]]
  /\ apc' = [apc EXCEPT ![c] = "holding"]
  /\ UNCHANGED <<rows, runState, worker, threads, lock, cancels, ajob, used>>

\* 409 NO_CANCEL_HANDLE.
CancelRefused(c) ==
  /\ apc[c] = "checked" /\ registry[ajob[c]] = NoThread
  /\ Reply(c)
  /\ UNCHANGED <<rows, runState, worker, threads, lock, cancels, used>>

\* event.set(), outside the lock: nobody reads the event of a finished body.
CancelSignal(c) ==
  /\ apc[c] = "holding"
  /\ event' = [t \in Threads |-> event[t] \/ t = handle[c]]
  /\ apc' = [apc EXCEPT ![c] = "signalled"]
  /\ UNCHANGED <<rows, runState, worker, threads, lock, registry, ajob, handle, used>>

CanCancel(j) == status[j] = "running"

\* cancel_running_job: a compare-and-swap; 0 rows answer 409.
CancelMark(c) ==
  /\ apc[c] = "signalled"
  /\ status' = [status EXCEPT ![ajob[c]] = IF CanCancel(ajob[c]) THEN "cancelled" ELSE @]
  /\ Reply(c)
  /\ UNCHANGED <<kind, attempts, due, prio, runState, worker, threads, lock, cancels, used>>

---------------------------------------------------------------------------
(* Retry, purge, process start and process end.                            *)

SlipRetryCancelled(j) == status[j] \in {"error", "success", "cancelled"}
CanRetry(j) == status[j] \in {"error", "success"}

\* reset_job_to_pending: its compare-and-swap repeats the check it made.
RetryJob(j) ==
  /\ used.retries < MaxRetries /\ Spend("retries")
  /\ CanRetry(j)
  /\ Write(j, "pending")
  /\ attempts' = [attempts EXCEPT ![j] = 0]
  /\ due' = [due EXCEPT ![j] = TRUE]
  /\ UNCHANGED <<kind, prio, runState, worker, threads, lock, cancels, api>>

\* cleanup_jobs: every finished row received before the cutoff.
Purgeable(j) == status[j] \in {"success", "error"}

CleanupJobs(cutoff) ==
  LET old == {j \in 1..cutoff : Purgeable(j)} IN
  /\ old # {}
  /\ status' = [j \in JobIds |-> IF j \in old THEN "deleted" ELSE status[j]]
  /\ UNCHANGED <<kind, attempts, due, prio, runState, worker, threads, lock, cancels,
                 api, used>>

\* _reset_stuck_jobs: this partition's running rows, one attempt given back.
SlipAnyPartition(w) == {j \in JobIds : status[j] = "running" /\ w \in Workers}
SlipAnyStatus(w) == {j \in JobIds : PartitionOf(kind[j]) = w}
SlipLastAttemptLost(w) == {j \in JobIds : /\ status[j] = "running" /\ attempts[j] < MaxAttempts
                                         /\ PartitionOf(kind[j]) = w}
Stuck(w) == {j \in JobIds : status[j] = "running" /\ PartitionOf(kind[j]) = w}

GivenBack(n) == IF n > 0 THEN n - 1 ELSE 0

\* DBWorker.start; the lifespan starts the webhook worker first.
StartWorker(w) ==
  /\ worker[w] = "down" /\ (w = "BACKGROUND" => worker["WEBHOOK"] # "down")
  /\ worker'   = [worker EXCEPT ![w] = "up"]
  /\ status'   = [j \in JobIds |-> IF j \in Stuck(w) THEN "pending" ELSE status[j]]
  /\ attempts' = [j \in JobIds |-> IF j \in Stuck(w) THEN GivenBack(attempts[j]) ELSE attempts[j]]
  /\ pc'       = [t \in Threads |-> IF WorkerOf(t) = w THEN "idle" ELSE pc[t]]
  /\ UNCHANGED <<kind, due, prio, runState, cur, out, seen, lock, cancels, api, used>>

\* DBWorker.stop: its threads finish the job in hand and take no other.
StopWorker(w) ==
  /\ used.crashes < MaxCrashes
  /\ worker[w] = "up"
  /\ worker' = [worker EXCEPT ![w] = "stopping"]
  /\ UNCHANGED <<rows, runState, threads, lock, cancels, api, used>>

\* The process ends, killed or after a stop: only the database survives.
Crash ==
  /\ used.crashes < MaxCrashes /\ Spend("crashes")
  /\ \E w \in Workers : worker[w] # "down"
  /\ worker'   = [w \in Workers |-> "down"]
  /\ pc'       = [t \in Threads |-> "off"]
  /\ cur'      = [t \in Threads |-> NoJob]
  /\ out'      = [t \in Threads |-> "none"]
  /\ seen'     = [t \in Threads |-> 0]
  /\ lock'     = [k \in LockKeys |-> NoThread]
  /\ registry' = [j \in JobIds |-> NoThread]
  /\ event'    = [t \in Threads |-> FALSE]
  /\ apc'      = [c \in Clients |-> "idle"]
  /\ ajob'     = [c \in Clients |-> NoJob]
  /\ handle'   = [c \in Clients |-> NoThread]
  /\ UNCHANGED <<rows, runState>>

Shutdown == (\E w \in Workers : worker[w] = "stopping") /\ Crash

---------------------------------------------------------------------------
Runner(t) == AcquireLock(t) \/ Defer(t) \/ LeaveEarly(t) \/ Register(t) \/ RecordRunStart(t)
             \/ ReturnFromRun(t) \/ RaiseFromRun(t) \/ Unregister(t) \/ Unlock(t)

Loop(t) == Select(t) \/ Claim(t) \/ LoseClaim(t) \/ SkipDisabled(t) \/ RunHandler(t)
           \/ MarkComplete(t) \/ JobFails(t) \/ ReadAttempts(t) \/ Requeue(t) \/ MarkFailed(t)

Fault(t) == RunStateFault(t) \/ CompleteFault(t) \/ HandlerFault(t)

Cancel(c) == (\E j \in JobIds : CancelCheck(c, j)) \/ CancelLookup(c) \/ CancelRefused(c)
             \/ CancelSignal(c) \/ CancelMark(c)

Table == \/ \E j \in JobIds, k \in Kinds, p \in Priorities, d \in BOOLEAN : Enqueue(j, k, p, d)
         \/ \E j \in JobIds : BackoffElapses(j) \/ RetryJob(j) \/ CleanupJobs(j)

Process == (\E w \in Workers : StartWorker(w) \/ StopWorker(w)) \/ Crash

Next == \/ \E t \in Threads : Runner(t) \/ Loop(t) \/ Fault(t)
        \/ \E c \in Clients : Cancel(c)
        \/ Table
        \/ Process

Spec == Init /\ [][Next]_vars

(* Fairness: OS threads run, a module's run() ends, the clock advances, a  *)
(* stopped process exits and the container restarts it.  Requests, stops,  *)
(* crashes and database faults are never owed.                             *)
FairSpec ==
  /\ Spec
  /\ \A t \in Threads : WF_vars(Runner(t)) /\ WF_vars(Loop(t))
  /\ \A j \in JobIds : WF_vars(BackoffElapses(j))
  /\ \A w \in Workers : WF_vars(StartWorker(w))
  /\ WF_vars(Shutdown)

---------------------------------------------------------------------------
(* Properties.                                                             *)

Types ==
  /\ status \in [JobIds -> Statuses]
  /\ kind \in [JobIds -> Kinds \cup {NoKind}]
  /\ attempts \in [JobIds -> Nat]
  /\ due \in [JobIds -> BOOLEAN]
  /\ prio \in [JobIds -> Nat]
  /\ runState \in [Modules -> RunStates]
  /\ worker \in [Workers -> {"down", "up", "stopping"}]
  /\ pc \in [Threads -> Positions]
  /\ cur \in [Threads -> JobIds \cup {NoJob}]
  /\ out \in [Threads -> {"none", "success", "failure"}]
  /\ seen \in [Threads -> Nat]
  /\ lock \in [LockKeys -> Threads \cup {NoThread}]
  /\ registry \in [JobIds -> Threads \cup {NoThread}]
  /\ event \in [Threads -> BOOLEAN]
  /\ apc \in [Clients -> {"idle", "checked", "holding", "signalled"}]
  /\ ajob \in [Clients -> JobIds \cup {NoJob}]
  /\ handle \in [Clients -> Threads \cup {NoThread}]
  /\ used \in [{"retries", "cancels", "faults", "crashes"} -> Nat]

RowsHaveKinds == \A j \in JobIds : status[j] # "absent" => kind[j] \in Kinds

\* Every variable keeps its type, and a row that was inserted has a kind: no
\* statement revives an id the table does not hold.
TypeOK == Types /\ RowsHaveKinds

\* Two threads never work on one row: the claim's SELECT is not atomic with
\* its UPDATE, and retries and recovery put rows back in the queue.
SingleOwner ==
  \A s, t \in Threads : Owns(s) /\ Owns(t) /\ s # t => cur[s] # cur[t]

\* A row in a thread's hands is running, or cancelled under it: neither the
\* other pool's recovery, nor a retry, nor the purge takes it away, so the
\* unconditional UPDATE that ends the job overwrites only its own run.
OwnedRowIsActive ==
  \A t \in Threads : Owns(t) => status[cur[t]] \in {"running", "cancelled"}

\* A running row has a thread on it, or its pool has yet to start and recover
\* it, or the error handler's own UPDATE failed: no other path strands a row
\* that then blocks its module's dedupe until the next restart.
Stranded ==
  {j \in JobIds : /\ status[j] = "running"
                  /\ worker[PartitionOf(kind[j])] # "down"
                  /\ \A t \in Threads : Owns(t) => cur[t] # j}
StrandedOnlyByFaults == Cardinality(Stranded) <= used.faults

\* No row runs more often than max_attempts between two retries by the user,
\* and a pending row always has an attempt left: one that had none would
\* never be claimed, yet would hold off every later run of its module.
AttemptBudget ==
  \A j \in JobIds : /\ attempts[j] <= MaxAttempts
                    /\ status[j] = "pending" => attempts[j] < MaxAttempts

\* Two threads never hold the same lock, so at most one body of a module runs.
BodiesExclusive ==
  \A s, t \in Threads :
    Locked(s) /\ Locked(t) /\ s # t => kind[cur[s]] # kind[cur[t]]

\* The cancel registry holds a handle exactly while its body can be cancelled,
\* and it is the handle of the thread that runs that row.
HandleIsLive ==
  /\ \A j \in JobIds : registry[j] # NoThread =>
       cur[registry[j]] = j /\ pc[registry[j]] \in {"registered", "running", "ran"}
  /\ \A t \in Threads : pc[t] \in {"registered", "running", "ran"} => registry[cur[t]] = t

\* While a body runs, run_state shows this run and not an older outcome.
RunStateIsCurrent ==
  \A t \in Threads : pc[t] = "running" => runState[kind[cur[t]]] = "started"

\* A row is marked cancelled only after its body's event is set, as long as
\* the row is on its first attempt (on a later one, the event the request
\* fetched may be that of an attempt that ended meanwhile).
CancelReachesBody ==
  \A t \in Threads :
    /\ pc[t] \in {"registered", "running"} /\ status[cur[t]] = "cancelled"
    /\ attempts[cur[t]] = 1 /\ used.retries = 0
    => event[t]

\* A cancel request that finds a handle is heard by the body it names.
CancelIsHeard == HandleIsLive /\ CancelReachesBody

\* worker.py: one in-flight job per module, and one per kind of scan.
OneInFlight ==
  \A k \in Modules \cup ScanTypes : \A i, j \in InFlight(k) : i = j

\* It holds as long as nobody retries a finished job or cancels a running one.
DedupeHolds == used.retries = 0 /\ used.cancels = 0 => OneInFlight

\* The module lock is a backstop: as long as nobody retries or cancels, no
\* claimed module run finds it held and is dropped as deferred.
LockIsBackstop ==
  used.retries = 0 /\ used.cancels = 0 =>
    \A t \in Threads : pc[t] = "claimed" /\ Kind(t) \in Modules => LockFree(Kind(t))

\* modules.py: a cancelled module will stop.  A cancelled row never returns
\* to the queue.
CancelledStaysOut ==
  [][\A j \in JobIds : status[j] = "cancelled" => status'[j] # "pending"]_status

\* Every queued job reaches an end, through failures, backoff and restarts,
\* unless its error handler's own UPDATE failed and stranded the row.
JobsSettle ==
  \A j \in JobIds :
    status[j] = "pending" ~> \/ status[j] \in {"success", "error", "cancelled", "deleted"}
                             \/ j \in Stranded /\ used.faults > 0

\* A module's lock, once taken, is released: no path out of the handler leaks it.
LocksReleased ==
  \A k \in LockKeys : lock[k] # NoThread ~> lock[k] = NoThread

=============================================================================
