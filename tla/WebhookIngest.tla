--------------------------- MODULE WebhookIngest ----------------------------
(***************************************************************************)
(* From a Sonarr or Radarr event to its finished job: the delivery, the    *)
(* dedup row, the enqueue and its rollback, the webhook job and the        *)
(* delayed poster_rename job a failed upload leaves behind.  The queue is  *)
(* JobLedger, the specification JobQueue implements.                       *)
(***************************************************************************)
EXTENDS Integers, FiniteSets

CONSTANTS
  Items,              \* dedup identities: media, phase, instance, season
  TTL,                \* _WEBHOOK_DEDUP_TTL_SECONDS, in ticks of the clock
  MaxAttempts,        \* jobs.max_attempts
  WebhookThreads, BackgroundThreads,  \* the two pools
  MaxTime, MaxEvents, MaxJobs,        \* bounds: clock, events, rows
  MaxUpsets,          \* bound: failed writes, crashes and jobs that a user starts again
  NoItem, NoThread

Threads == WebhookThreads \cup BackgroundThreads
JobIds  == 1..MaxJobs
Times   == 0..MaxTime
Unseen  == -1
NoJob   == [type |-> "none", item |-> NoItem, of |-> 0, sighted |-> Unseen]

ASSUME WebhookAssumption ==
  /\ {TTL, MaxTime, MaxEvents, MaxJobs, MaxUpsets} \subseteq Nat
  /\ MaxAttempts \in Nat \ {0}
  /\ NoItem \notin Items /\ NoThread \notin Threads
  /\ WebhookThreads \cap BackgroundThreads = {}

VARIABLES
  now,       \* the clock
  seen,      \* webhook_cache: when each identity was recorded, or Unseen
  owed,      \* events whose sender has not been told 200 yet
  request,   \* the delivery in hand: its step, its item, when it was sighted
  row,       \* jobs: type and payload of each row
  state, holder, attempts,  \* jobs: status, the thread at work on it, attempts
  queued,    \* the webhook jobs whose body has asked for an upload retry
  result,    \* jobs.result: what a finished job says it did
  up,        \* the API process runs
  events, upsets,  \* counted for the bounds
  lost,      \* history: identities a crash or a failed rollback left without a job
  repeats    \* history: how often each row went back after its body had asked

clocks   == <<now, events>>
ingest   == <<seen, owed, request>>
queue    == <<row, state, holder, attempts>>
faults   == <<upsets, lost>>
bodies   == <<queued, result, repeats>>
vars     == <<clocks, ingest, queue, bodies, up, faults>>

Queue == INSTANCE JobLedger WITH Jobs <- JobIds, Holders <- Threads, Nobody <- NoThread

Waiting == [step |-> "idle", item |-> NoItem, sighted |-> Unseen]

Init ==
  /\ Queue!Init
  /\ now = 0 /\ events = 0
  /\ seen = [i \in Items |-> Unseen]
  /\ owed = {}
  /\ request = Waiting
  /\ row = [j \in JobIds |-> NoJob]
  /\ attempts = [j \in JobIds |-> 0]
  /\ queued = {}
  /\ result = [j \in JobIds |-> "none"]
  /\ up = TRUE
  /\ upsets = 0 /\ lost = {} /\ repeats = [j \in JobIds |-> 0]

Upset == upsets < MaxUpsets /\ upsets' = upsets + 1

---------------------------------------------------------------------------
(* Senders and time.                                                       *)

Tick ==
  /\ now < MaxTime
  /\ now' = now + 1
  /\ UNCHANGED <<events, ingest, queue, bodies, up, faults>>

\* Sonarr or Radarr has something to tell, and repeats it until told 200.
Happens(i) ==
  /\ events < MaxEvents /\ i \notin owed
  /\ events' = events + 1
  /\ owed' = owed \cup {i}
  /\ UNCHANGED <<now, seen, request, queue, bodies, up, faults>>

---------------------------------------------------------------------------
(* process_poster_webhook.  It awaits nothing after reading the body, so   *)
(* the event loop runs one delivery at a time from here to the answer.     *)

SlipExpired(i) == seen[i] # Unseen /\ seen[i] < now

Expired(i) == seen[i] # Unseen /\ seen[i] < now - TTL

Swept == [i \in Items |-> IF Expired(i) THEN Unseen ELSE seen[i]]

\* is_duplicate: sweep, look, record; one transaction.
Debounce(i) ==
  /\ up /\ request = Waiting /\ i \in owed
  /\ Swept[i] # Unseen
  /\ seen' = Swept
  /\ owed' = owed \ {i}
  /\ UNCHANGED <<clocks, request, queue, bodies, up, faults>>

Sight(i) ==
  /\ up /\ request = Waiting /\ i \in owed
  /\ Swept[i] = Unseen
  /\ seen' = [Swept EXCEPT ![i] = now]
  /\ request' = [step |-> "sighted", item |-> i, sighted |-> now]
  /\ lost' = lost \ {i}
  /\ UNCHANGED <<clocks, owed, queue, bodies, up, upsets>>

\* enqueue_job, of either type, gives the next row to the queue.
Insert(j, r) ==
  /\ \A k \in JobIds : k < j <=> state[k] # "absent"
  /\ Queue!Submit(j)
  /\ row' = [row EXCEPT ![j] = r]
  /\ UNCHANGED attempts

\* The row is in; the sender may miss the answer and tell again.
Accept(j) ==
  /\ request.step = "sighted"
  /\ Insert(j, [type |-> "webhook", item |-> request.item, of |-> j,
                sighted |-> request.sighted])
  /\ owed' \in {owed, owed \ {request.item}}
  /\ request' = Waiting
  /\ UNCHANGED <<clocks, seen, bodies, up, faults>>

EnqueueFails ==
  /\ request.step = "sighted" /\ Upset
  /\ request' = [request EXCEPT !.step = "rolling_back"]
  /\ UNCHANGED <<clocks, seen, owed, queue, bodies, up, lost>>

SlipRollBack ==
  /\ request.step = "rolling_back"
  /\ request' = Waiting
  /\ UNCHANGED <<clocks, seen, owed, queue, bodies, up, faults>>

\* webhook_cache.delete, so that the sender's retry is not debounced.
RollBack ==
  /\ request.step = "rolling_back"
  /\ seen' = [seen EXCEPT ![request.item] = Unseen]
  /\ request' = Waiting
  /\ UNCHANGED <<clocks, owed, queue, bodies, up, faults>>

RollBackFails ==
  /\ request.step = "rolling_back" /\ Upset
  /\ lost' = lost \cup {request.item}
  /\ request' = Waiting
  /\ UNCHANGED <<clocks, seen, owed, queue, bodies, up>>

---------------------------------------------------------------------------
(* The workers: one pool for webhook rows, one for the rest.               *)

PoolOf(j) == IF row[j].type = "webhook" THEN WebhookThreads ELSE BackgroundThreads

Take(j, t) ==
  /\ up /\ t \in PoolOf(j) /\ attempts[j] < MaxAttempts
  /\ Queue!Take(j, t)
  /\ attempts' = [attempts EXCEPT ![j] = @ + 1]
  /\ UNCHANGED <<clocks, ingest, row, bodies, up, faults>>

Held(j) == holder[j] # NoThread

\* What a body asked for is not known to the row's next one, unless the row says so.
Forgotten(J) == [j \in JobIds |-> IF j \in queued \cap J THEN repeats[j] + 1 ELSE repeats[j]]

Settle(j, to, said) ==
  /\ Queue!Settle(j) /\ state'[j] = to
  /\ queued' = queued \ {j}
  /\ result' = [result EXCEPT ![j] = said]
  /\ UNCHANGED <<clocks, ingest, row, attempts, up>>

\* mark_job_complete
Complete(j, said) == Settle(j, "success", said) /\ UNCHANGED <<repeats, faults>>

\* _handle_job_error
Retried(j) == Settle(j, IF attempts[j] < MaxAttempts THEN "pending" ELSE "error", "none")

\* _process_webhook_job: renamed and, where it must be, uploaded.
\* _process_poster_rename_job: the same for the rows in its payload.
Succeed(j) == j \notin queued /\ Complete(j, "done")

\* Renamed, but not uploaded: a webhook job asks for one delayed poster_rename.
QueueRetry(j, k) ==
  /\ Held(j) /\ row[j].type = "webhook" /\ j \notin queued
  /\ Insert(k, [row[j] EXCEPT !.type = "poster_rename", !.of = j])
  /\ queued' = queued \cup {j}
  /\ UNCHANGED <<clocks, ingest, result, repeats, up, faults>>

\* enqueue_job reports a failure in its answer, which nobody reads here.
RetryNotQueued(j) ==
  /\ Held(j) /\ row[j].type = "webhook" /\ j \notin queued
  /\ Upset
  /\ queued' = queued \cup {j}
  /\ UNCHANGED <<clocks, ingest, queue, result, repeats, up, lost>>

SlipSucceedWithRetry(j) == j \in queued /\ Retried(j) /\ UNCHANGED <<repeats, faults>>

SucceedWithRetry(j) == j \in queued /\ Complete(j, "retry queued")

\* Validation, the *arr client or the rename failed, or a poster_rename could
\* not upload; the worker's error handler decides what follows.
Fail(j) == j \notin queued /\ Retried(j) /\ UNCHANGED <<repeats, faults>>

\* The body is done, but its success cannot be written: that is an error to the
\* worker, whose handler has the body run again, or gives the row up.
CompleteFails(j) == Retried(j) /\ repeats' = Forgotten({j}) /\ Upset /\ UNCHANGED lost

\* The handler cannot write either: the row is left as it is.
Abandon(j) ==
  /\ Queue!Abandon(j) /\ queued' = queued \ {j} /\ repeats' = Forgotten({j}) /\ Upset
  /\ UNCHANGED <<clocks, ingest, row, attempts, result, up, lost>>

Work(j) ==
  \/ Succeed(j) \/ SucceedWithRetry(j) \/ Fail(j) \/ RetryNotQueued(j)
  \/ CompleteFails(j) \/ Abandon(j)
  \/ \E k \in JobIds : QueueRetry(j, k)

\* reset_job_to_pending, when a user retries a job that is over.
Reopen(j) ==
  /\ up /\ Upset
  /\ Queue!Reopen(j)
  /\ attempts' = [attempts EXCEPT ![j] = 0] /\ result' = [result EXCEPT ![j] = "none"]
  /\ repeats' = IF result[j] = "retry queued" THEN [repeats EXCEPT ![j] = @ + 1] ELSE repeats
  /\ UNCHANGED <<clocks, ingest, row, queued, up, lost>>

---------------------------------------------------------------------------
(* The process ends anywhere, and starts again with the rows it left.      *)

Crash ==
  /\ up /\ Upset
  /\ Queue!Crash
  /\ up' = FALSE
  /\ lost' = IF request = Waiting THEN lost ELSE lost \cup {request.item}
  /\ request' = Waiting
  /\ queued' = {} /\ repeats' = Forgotten(JobIds)
  /\ UNCHANGED <<clocks, seen, owed, row, attempts, result>>

SlipGivenBack(J) == [j \in JobIds |-> attempts[j] - 1]

\* The attempt that was cut short does not count.
GivenBack(J) == [j \in JobIds |-> IF j \in J THEN attempts[j] - 1 ELSE attempts[j]]

\* _reset_stuck_jobs, of both pools.
Restart ==
  LET stuck == {j \in JobIds : state[j] = "running"}
  IN  /\ ~up
      /\ Queue!Recover(stuck)
      /\ attempts' = GivenBack(stuck)
      /\ up' = TRUE
      /\ UNCHANGED <<clocks, ingest, row, bodies, faults>>

Next ==
  \/ Tick \/ EnqueueFails \/ RollBack \/ RollBackFails \/ Crash \/ Restart
  \/ \E i \in Items : Happens(i) \/ Debounce(i) \/ Sight(i)
  \/ \E j \in JobIds : Accept(j) \/ Work(j) \/ Reopen(j)
  \/ \E j \in JobIds, t \in Threads : Take(j, t)

Spec == Init /\ [][Next]_vars

BodyEnds(j) == Succeed(j) \/ SucceedWithRetry(j) \/ Fail(j)
Taken(j)    == \E t \in Threads : Take(j, t)

\* The sender repeats itself, the handler answers, threads keep working, and
\* a body that was started ends: it succeeds or it fails.
FairSpec ==
  /\ Spec
  /\ WF_vars(RollBack) /\ WF_vars(Restart)
  /\ \A i \in Items : WF_vars(Debounce(i) \/ Sight(i))
  /\ \A j \in JobIds :
       /\ WF_vars(Accept(j))
       /\ WF_vars(BodyEnds(j))
       /\ WF_vars(Taken(j))

---------------------------------------------------------------------------
(* Properties.                                                             *)

Webhooks(i) == {j \in JobIds : row[j].type = "webhook" /\ row[j].item = i}
Retries(j)  == {k \in JobIds : row[k].type = "poster_rename" /\ row[k].of = j}

TypeOK ==
  /\ now \in Times /\ events \in 0..MaxEvents
  /\ seen \in [Items -> Times \cup {Unseen}]
  /\ owed \subseteq Items
  /\ request.step \in {"idle", "sighted", "rolling_back"}
  /\ request.item \in Items \cup {NoItem} /\ request.sighted \in Times \cup {Unseen}
  /\ \A j \in JobIds :
       /\ row[j].type \in {"none", "webhook", "poster_rename"}
       /\ row[j].type = "none" <=> state[j] = "absent"
       /\ state[j] \in {"absent", "pending", "running", "success", "error"}
       /\ holder[j] \in PoolOf(j) \cup {NoThread}
       /\ attempts[j] \in 0..MaxAttempts
       /\ result[j] \in {"none", "done", "retry queued"}
       /\ repeats[j] \in Nat
  /\ queued \subseteq {j \in JobIds : Held(j)}
  /\ upsets \in 0..MaxUpsets /\ lost \subseteq Items

\* Deliveries of one identity that arrive within the TTL of each other are
\* never worked on twice, through expiry, failed enqueues and restarts.
NoDuplicateWork ==
  \A i \in Items : \A j, k \in Webhooks(i) : j < k => row[k].sighted > row[j].sighted + TTL

\* An identity on record was accepted: a webhook job was queued for the delivery
\* that put it there, and debouncing the next one loses nothing.
Accepted(i) == \E j \in Webhooks(i) : row[j].sighted = seen[i]

\* The same, unless a crash fell between this record and its enqueue or the rollback
\* failed: nothing else may leave an identity without its job.
OnlyFaultsLoseEvents ==
  \A i \in Items \ lost :
    i \in owed /\ request = Waiting /\ seen[i] # Unseen => Accepted(i)

\* A webhook job queues one upload retry, however often its own row is tried: there
\* is another for each time that a body was run again after one that had asked for
\* its retry, which takes a crash, a write of the row that failed, or a user.
OneUploadRetry == \A j \in JobIds : Cardinality(Retries(j)) <= 1 + repeats[j]

\* A delivery's work is done once, by its webhook job and by the retry of its upload.
WorkedOnce == NoDuplicateWork /\ OneUploadRetry

\* A job whose result says that an upload retry is queued has one.
PromisedRetryExists == \A j \in JobIds : result[j] = "retry queued" => Retries(j) # {}

\* Every event a sender keeps telling is worked on, whatever enqueue fails: one
\* of its jobs ends, unless one of those two faults lost it, or a worker left one
\* running whose end it could not write.
EventsAreWorked ==
  \A i \in Items :
    i \in owed ~> \/ \E j \in Webhooks(i) : \/ state[j] \in {"success", "error"}
                                            \/ state[j] = "running" /\ ~Held(j)
                 \/ i \in lost

=============================================================================
