------------------------------- MODULE WakeUp -------------------------------
(***************************************************************************)
(* How an enqueued job finds a thread.  Both pools wait on the one event   *)
(* DBWorker keeps as a class attribute; a thread clears it, looks for a    *)
(* job of its own pool, and waits on the event when there is none.         *)
(* JobQueue models what a claim does; here a pool's jobs are a number.     *)
(***************************************************************************)
EXTENDS Integers

CONSTANTS
  Pools,      \* webhook and background
  Threads,    \* the threads of both
  PoolOf,     \* the pool a thread claims for
  MaxJobs,    \* bound: jobs that are enqueued
  MaxErrors   \* bound: rounds of the loop that raise

WakeUpAssumption ==
  /\ PoolOf \in [Threads -> Pools]
  /\ {MaxJobs, MaxErrors} \subseteq Nat

VARIABLES
  jobEvent,   \* _job_event, shared by every DBWorker
  pending,    \* committed pending jobs of each pool
  unsignaled, \* enqueue_job calls between their commit and their set
  thread,     \* where each thread stands in process_pending_jobs
  stopping,   \* the pools whose stop() has set its flags
  enqueued, errors

loopVars == <<jobEvent, pending, thread>>
vars     == <<loopVars, unsignaled, stopping, enqueued, errors>>

Init ==
  /\ jobEvent = FALSE
  /\ pending = [p \in Pools |-> 0] /\ unsignaled = 0
  /\ thread = [t \in Threads |-> "test"]
  /\ stopping = {} /\ enqueued = 0 /\ errors = 0

At(t, from, to) == thread[t] = from /\ thread' = [thread EXCEPT ![t] = to]
Stopping(t)     == PoolOf[t] \in stopping

\* The head of the loop.
Test(t) ==
  /\ At(t, "test", IF Stopping(t) THEN "ended" ELSE "clear")
  /\ UNCHANGED <<jobEvent, pending, unsignaled, stopping, enqueued, errors>>

\* _job_event.clear(), which takes the signal from every other thread too.
Clear(t) ==
  /\ At(t, "clear", "claim")
  /\ jobEvent' = FALSE
  /\ UNCHANGED <<pending, unsignaled, stopping, enqueued, errors>>

Claim(t) ==
  LET p == PoolOf[t] IN
  /\ IF pending[p] > 0
       THEN At(t, "claim", "body") /\ pending' = [pending EXCEPT ![p] = @ - 1]
       ELSE At(t, "claim", "wait") /\ UNCHANGED pending
  /\ UNCHANGED <<jobEvent, unsignaled, stopping, enqueued, errors>>

\* The event, or _POLL_TIMEOUT.
SlipNoTimeout == jobEvent
WaitOver      == TRUE

Wake(t) ==
  /\ At(t, "wait", "test") /\ WaitOver
  /\ UNCHANGED <<jobEvent, pending, unsignaled, stopping, enqueued, errors>>

Finish(t) ==
  /\ At(t, "body", "test")
  /\ UNCHANGED <<jobEvent, pending, unsignaled, stopping, enqueued, errors>>

\* A round that raises (the claim's query fails) waits for the shutdown event
\* or the timeout, and starts again.
Raise(t) ==
  /\ errors < MaxErrors /\ At(t, "claim", "backOff")
  /\ errors' = errors + 1
  /\ UNCHANGED <<jobEvent, pending, unsignaled, stopping, enqueued>>

SlipEndsOnError(t) == At(t, "backOff", "ended")
BackOffTo(t)       == At(t, "backOff", "test")

BackOff(t) ==
  /\ BackOffTo(t)
  /\ UNCHANGED <<jobEvent, pending, unsignaled, stopping, enqueued, errors>>

\* enqueue_job: the row is committed first, the event set after it.
Enqueue(p) ==
  /\ enqueued < MaxJobs
  /\ enqueued' = enqueued + 1
  /\ pending' = [pending EXCEPT ![p] = @ + 1]
  /\ unsignaled' = unsignaled + 1
  /\ UNCHANGED <<jobEvent, thread, stopping, errors>>

Signal ==
  /\ unsignaled > 0
  /\ unsignaled' = unsignaled - 1
  /\ jobEvent' = TRUE
  /\ UNCHANGED <<pending, thread, stopping, enqueued, errors>>

\* stop() of one pool wakes the threads of both.
Stop(p) ==
  /\ p \notin stopping /\ stopping' = stopping \cup {p}
  /\ jobEvent' = TRUE
  /\ UNCHANGED <<pending, unsignaled, thread, enqueued, errors>>

ThreadSteps(t) == Test(t) \/ Clear(t) \/ Claim(t) \/ Wake(t) \/ Finish(t) \/ BackOff(t)

Next ==
  \/ \E t \in Threads : ThreadSteps(t) \/ Raise(t)
  \/ \E p \in Pools : Enqueue(p) \/ Stop(p)
  \/ Signal

\* Threads run, bodies end and timeouts pass; nothing else need happen.
Fairness == \A t \in Threads : WF_vars(ThreadSteps(t))
Spec     == Init /\ [][Next]_vars /\ Fairness

---------------------------------------------------------------------------

TypeOK ==
  /\ jobEvent \in BOOLEAN /\ stopping \subseteq Pools
  /\ pending \in [Pools -> 0..MaxJobs] /\ unsignaled \in 0..MaxJobs
  /\ thread \in [Threads -> {"test", "clear", "claim", "wait", "body", "backOff", "ended"}]
  /\ enqueued \in 0..MaxJobs /\ errors \in 0..MaxErrors
  /\ \A t \in Threads : thread[t] = "ended" => Stopping(t)

Drained == \A p \in Pools : pending[p] = 0 \/ p \in stopping

\* When no more jobs come, every committed job has left the queue unless its pool
\* stops: a signal taken by the other pool's threads, or one that never comes, is
\* made up for.
JobsAreStarted == <>[]Drained

=============================================================================
