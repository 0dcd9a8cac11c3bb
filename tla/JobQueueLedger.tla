--------------------------- MODULE JobQueueLedger ---------------------------
(***************************************************************************)
(* JobQueue implements JobLedger: a row's status is the job's state, and   *)
(* the thread past the claim of that row is its holder.                    *)
(***************************************************************************)
EXTENDS JobQueue

HolderOf(j) ==
  IF \E t \in Threads : Owns(t) /\ cur[t] = j
  THEN CHOOSE t \in Threads : Owns(t) /\ cur[t] = j
  ELSE NoThread

Ledger == INSTANCE JobLedger WITH
  Jobs   <- JobIds,
  Holders <- Threads,
  Nobody <- NoThread,
  state  <- status,
  holder <- [j \in JobIds |-> HolderOf(j)]

\* Every behaviour of the queue is one of the ledger: whatever the threads,
\* requests, faults and restarts do, a job moves only as its single holder,
\* a cancel, a retry, a purge or a recovery of an unheld row moves it.
ImplementsLedger == Ledger!Spec

=============================================================================
