--------------------------- MODULE JobQueueProofs ---------------------------
(***************************************************************************)
(* Safety of the job queue for every number of jobs, modules, threads,     *)
(* requests, attempts and environment steps: rows and their owners, the    *)
(* module locks, cancels and dedupe; and that the queue implements the     *)
(* ledger, each of its steps being one of the ledger's or none.            *)
(***************************************************************************)
EXTENDS JobQueueLedger, FiniteSetTheorems, TLAPS

USE DEF JobIds, NoJob, Kinds, LockKeys, Threads, Workers, Statuses, Positions, RunStates

\* A thread past its SELECT, and a request past its check, have a row in hand.
Placed ==
  /\ \A t \in Threads : pc[t] \notin {"off", "idle"} => cur[t] \in JobIds
  /\ \A c \in Clients : apc[c] # "idle" => ajob[c] \in JobIds

\* Types alone is not inductive: a thread reads the row its cur names.
WellTyped == Types /\ Placed

LEMMA InitTypes == Init => WellTyped
BY SizesAssumption, ThreadsAssumption DEF Init, WellTyped, Types, Placed

\* Runner(t), the handler of one job, keeps every type.
LEMMA RunnerTypes ==
  ASSUME WellTyped, NEW t \in Threads, Runner(t) PROVE WellTyped'
<1> USE DEF WellTyped, Types, Placed, rows, threads, cancels, api, Step, Result, Kind
<1>1. CASE AcquireLock(t) BY <1>1 DEF AcquireLock
<1>2. CASE Defer(t) BY <1>2 DEF Defer
<1>3. CASE LeaveEarly(t) BY <1>3 DEF LeaveEarly
<1>4. CASE Register(t) BY <1>4 DEF Register
<1>5. CASE RecordRunStart(t) BY <1>5 DEF RecordRunStart
<1>6. CASE ReturnFromRun(t) BY <1>6 DEF ReturnFromRun
<1>7. CASE RaiseFromRun(t) BY <1>7 DEF RaiseFromRun
<1>8. CASE Unregister(t) BY <1>8 DEF Unregister
<1>9. CASE Unlock(t) BY <1>9 DEF Unlock
<1> QED BY <1>1, <1>2, <1>3, <1>4, <1>5, <1>6, <1>7, <1>8, <1>9 DEF Runner

\* Loop(t), the claim and the fate of the row.
LEMMA LoopTypes ==
  ASSUME WellTyped, NEW t \in Threads, Loop(t) PROVE WellTyped'
<1> USE DEF WellTyped, Types, Placed, rows, threads, cancels, api, Step, Result, Kind, Idle, Write
<1>1. CASE Select(t) BY <1>1 DEF Select
<1>2. CASE Claim(t) BY <1>2 DEF Claim
<1>3. CASE LoseClaim(t) BY <1>3 DEF LoseClaim
<1>4. CASE SkipDisabled(t) BY <1>4 DEF SkipDisabled
<1>5. CASE RunHandler(t)
  <2>1. PICK r \in {"success", "failure"} : out' = [out EXCEPT ![t] = r] BY <1>5 DEF RunHandler
  <2>2. pc[t] = "claimed" /\ pc' = [pc EXCEPT ![t] = "returned"] BY <1>5 DEF RunHandler
  <2>3. UNCHANGED <<rows, runState, worker, cur, seen, lock, cancels, api, used>>
    BY <1>5 DEF RunHandler
  <2> QED BY <2>1, <2>2, <2>3
<1>6. CASE MarkComplete(t) BY <1>6 DEF MarkComplete
<1>7. CASE JobFails(t) BY <1>7 DEF JobFails
<1>8. CASE ReadAttempts(t) BY <1>8 DEF ReadAttempts, Positions
<1>9. CASE Requeue(t) BY <1>9 DEF Requeue
<1>10. CASE MarkFailed(t) BY <1>10 DEF MarkFailed
<1> QED BY <1>1, <1>2, <1>3, <1>4, <1>5, <1>6, <1>7, <1>8, <1>9, <1>10 DEF Loop

LEMMA FaultTypes ==
  ASSUME WellTyped, NEW t \in Threads, Fault(t) PROVE WellTyped'
<1> USE DEF WellTyped, Types, Placed, rows, threads, cancels, api, Step, Result, Idle, Spend
<1>1. CASE RunStateFault(t)
  <2>1. pc[t] \in {"registered", "running"} /\ pc' = [pc EXCEPT ![t] = "ran"]
    BY <1>1 DEF RunStateFault
  <2>2. used' \in [{"retries", "cancels", "faults", "crashes"} -> Nat]
    BY <1>1 DEF RunStateFault
  <2>3. /\ out' = [out EXCEPT ![t] = "failure"]
        /\ UNCHANGED <<rows, runState, worker, cur, seen, lock, cancels, api>>
    BY <1>1 DEF RunStateFault
  <2> QED BY <2>1, <2>2, <2>3
<1>2. CASE CompleteFault(t) BY <1>2 DEF CompleteFault
<1>3. CASE HandlerFault(t) BY <1>3 DEF HandlerFault
<1> QED BY <1>1, <1>2, <1>3 DEF Fault

LEMMA CancelTypes ==
  ASSUME WellTyped, NEW c \in Clients, Cancel(c) PROVE WellTyped'
<1> USE DEF WellTyped, Types, Placed, rows, threads, cancels, api, Reply, Spend
<1>1. ASSUME NEW j \in JobIds, CancelCheck(c, j) PROVE WellTyped'
  <2>1. Types' BY <1>1 DEF CancelCheck
  <2>2. Placed' BY <1>1 DEF CancelCheck
  <2> QED BY <2>1, <2>2
<1>2. CASE CancelLookup(c)
  <2>1. ajob[c] \in JobIds BY <1>2 DEF CancelLookup
  <2>2. registry[ajob[c]] \in Threads \cup {NoThread} BY <2>1
  <2> QED BY <1>2, <2>1, <2>2 DEF CancelLookup
<1>3. CASE CancelSignal(c) BY <1>3 DEF CancelSignal
<1>4. CASE CancelMark(c) BY <1>4 DEF CancelMark
<1>5. CASE CancelRefused(c) BY <1>5 DEF CancelRefused
<1> QED BY <1>1, <1>2, <1>3, <1>4, <1>5 DEF Cancel

LEMMA TableTypes ==
  ASSUME WellTyped, Table PROVE WellTyped'
<1> USE DEF WellTyped, Types, Placed, rows, threads, cancels, api, Spend, Write
<1>1. ASSUME NEW j \in JobIds, NEW k \in Kinds, NEW p \in Priorities, NEW d \in BOOLEAN,
             Enqueue(j, k, p, d)
      PROVE  WellTyped'
  BY <1>1, SizesAssumption DEF Enqueue
<1>2. ASSUME NEW j \in JobIds, BackoffElapses(j) PROVE WellTyped' BY <1>2 DEF BackoffElapses
<1>3. ASSUME NEW j \in JobIds, RetryJob(j) PROVE WellTyped' BY <1>3 DEF RetryJob, CanRetry
<1>4. ASSUME NEW j \in JobIds, CleanupJobs(j) PROVE WellTyped' BY <1>4 DEF CleanupJobs, Purgeable
<1> HIDE DEF WellTyped
<1> QED BY <1>1, <1>2, <1>3, <1>4 DEF Table

LEMMA ProcessTypes ==
  ASSUME WellTyped, Process PROVE WellTyped'
<1> USE DEF WellTyped, Types, Placed, rows, threads, cancels, api, Spend
<1>1. ASSUME NEW w \in Workers, StartWorker(w) PROVE WellTyped'
  BY <1>1 DEF StartWorker, Stuck, GivenBack
<1>2. ASSUME NEW w \in Workers, StopWorker(w) PROVE WellTyped' BY <1>2 DEF StopWorker
<1>3. CASE Crash BY <1>3 DEF Crash
<1> QED BY <1>1, <1>2, <1>3 DEF Process

\* Every step keeps every type.
LEMMA StepTypes == WellTyped /\ [Next]_vars => WellTyped'
<1> SUFFICES ASSUME WellTyped, [Next]_vars PROVE WellTyped' OBVIOUS
<1>1. CASE Next
  BY <1>1, RunnerTypes, LoopTypes, FaultTypes, CancelTypes, TableTypes, ProcessTypes DEF Next
<1>2. CASE UNCHANGED vars
  BY <1>2 DEF vars, rows, threads, cancels, api, WellTyped, Types, Placed
<1> QED BY <1>1, <1>2

---------------------------------------------------------------------------
(* Who owns a row.  Single ownership is inductive only together with what  *)
(* makes the unconditional writes safe: a thread never leaves its own      *)
(* partition, and a pool that is down has no thread at work.               *)

\* The row in a thread's hand was inserted, and is of the thread's partition.
InHand(t) ==
  IF pc[t] \in {"off", "idle"}
    THEN cur[t] = NoJob
    ELSE /\ cur[t] \in JobIds
         /\ status[cur[t]] # "absent"
         /\ PartitionOf(kind[cur[t]]) = WorkerOf(t)

Ownership ==
  /\ \A t \in Threads : InHand(t)
  /\ \A t \in Threads : pc[t] = "off" <=> worker[WorkerOf(t)] = "down"
  /\ RowsHaveKinds
  /\ SingleOwner
  /\ OwnedRowIsActive

\* The error handler's copy of attempts is current, and a new row starts at 0.
Counted ==
  /\ AttemptBudget
  /\ \A t \in Threads : pc[t] = "deciding" => seen[t] = attempts[cur[t]]
  /\ \A j \in JobIds : status[j] = "absent" => attempts[j] = 0

Inv == WellTyped /\ Ownership /\ Counted

\* A step of t's handler: it moves on, and touches no row.
Handling(t, p) ==
  /\ Owns(t) /\ pc' = [pc EXCEPT ![t] = p]
  /\ p \in Positions \ {"off", "idle", "selected", "deciding"}
  /\ UNCHANGED <<status, kind, attempts, worker, cur, seen>>

LEMMA HandlingKeeps ==
  ASSUME Inv, NEW t \in Threads, NEW p, Handling(t, p), WellTyped' PROVE Inv'
<1> USE DEF Inv, WellTyped, Types, Handling, Owns
<1>1. Ownership'
  <2>1. (\A s \in Threads : InHand(s))' BY DEF Ownership, InHand
  <2>2. (\A s \in Threads : pc[s] = "off" <=> worker[WorkerOf(s)] = "down")' BY DEF Ownership
  <2>3. RowsHaveKinds' BY DEF Ownership, RowsHaveKinds
  <2>4. SingleOwner' BY DEF Ownership, SingleOwner
  <2>5. OwnedRowIsActive' BY DEF Ownership, OwnedRowIsActive
  <2> QED BY <2>1, <2>2, <2>3, <2>4, <2>5 DEF Ownership
<1>2. Counted' BY DEF Counted, AttemptBudget
<1> QED BY <1>1, <1>2

\* The step that ends t's work on its row, which it leaves with status r.
Finishing(t, r) ==
  /\ Owns(t) /\ Idle(t)
  /\ r \in Statuses \ {"absent"}
  /\ r = "pending" => attempts[cur[t]] < MaxAttempts
  /\ status' = [status EXCEPT ![cur[t]] = r]
  /\ UNCHANGED <<kind, attempts, worker>>

LEMMA FinishingKeeps ==
  ASSUME Inv, NEW t \in Threads, NEW r, Finishing(t, r), WellTyped' PROVE Inv'
<1> USE DEF Inv, WellTyped, Types, Placed, Finishing, Idle, Owns
<1>0. cur[t] \in JobIds OBVIOUS
<1>1. Ownership'
  <2>1. (\A s \in Threads : InHand(s))' BY <1>0 DEF Ownership, InHand
  <2>2. (\A s \in Threads : pc[s] = "off" <=> worker[WorkerOf(s)] = "down")' BY DEF Ownership
  <2>3. RowsHaveKinds' BY <1>0 DEF Ownership, RowsHaveKinds, InHand
  <2>0. ASSUME NEW s \in Threads, Owns(s)' PROVE Owns(s) /\ s # t /\ cur'[s] = cur[s]
    BY <2>0
  <2>4. SingleOwner'
    <3>1. SingleOwner BY DEF Ownership
    <3> HIDE DEF Inv, Finishing, Idle
    <3> QED BY <2>0, <3>1 DEF SingleOwner
  <2>5. OwnedRowIsActive' BY <1>0, <2>0 DEF Ownership, OwnedRowIsActive, SingleOwner
  <2> QED BY <2>1, <2>2, <2>3, <2>4, <2>5 DEF Ownership
<1>2. Counted'
  <2>1. AttemptBudget' BY <1>0 DEF Counted, AttemptBudget
  <2>2. (\A s \in Threads : pc[s] = "deciding" => seen[s] = attempts[cur[s]])' BY DEF Counted
  <2>3. (\A j \in JobIds : status[j] = "absent" => attempts[j] = 0)' BY <1>0 DEF Counted
  <2> QED BY <2>1, <2>2, <2>3 DEF Counted
<1> QED BY <1>1, <1>2

LEMMA InitInv == Init => Inv
<1> SUFFICES ASSUME Init PROVE Inv OBVIOUS
<1>1. WellTyped BY InitTypes
<1>2. Ownership
  BY ThreadsAssumption
  DEF Init, Ownership, InHand, WorkerOf, RowsHaveKinds, SingleOwner, OwnedRowIsActive, Owns
<1>3. Counted BY SizesAssumption DEF Init, Counted, AttemptBudget
<1> QED BY <1>1, <1>2, <1>3 DEF Inv

\* Runner(t): every action of the handler is Handling, whatever else it does.
LEMMA RunnerInv ==
  ASSUME Inv, NEW t \in Threads, Runner(t) PROVE Inv'
<1>1. WellTyped' BY RunnerTypes DEF Inv
<1>2. PICK p \in {"returned", "locked", "unlocking", "registered", "running", "ran"} :
        Handling(t, p)
  <2> USE DEF Inv, WellTyped, Types, Handling, Owns, Step, rows, threads
  <2>1. CASE AcquireLock(t) BY <2>1 DEF AcquireLock
  <2>2. CASE Defer(t) BY <2>2 DEF Defer
  <2>3. CASE LeaveEarly(t) BY <2>3 DEF LeaveEarly
  <2>4. CASE Register(t) BY <2>4 DEF Register
  <2>5. CASE RecordRunStart(t) BY <2>5 DEF RecordRunStart
  <2>6. CASE ReturnFromRun(t) BY <2>6 DEF ReturnFromRun
  <2>7. CASE RaiseFromRun(t) BY <2>7 DEF RaiseFromRun
  <2>8. CASE Unregister(t) BY <2>8 DEF Unregister
  <2>9. CASE Unlock(t) BY <2>9 DEF Unlock
  <2> QED BY <2>1, <2>2, <2>3, <2>4, <2>5, <2>6, <2>7, <2>8, <2>9 DEF Runner
<1> QED BY <1>1, <1>2, HandlingKeeps

\* Select(t) takes a row in hand without owning it.
LEMMA SelectInv ==
  ASSUME Inv, NEW t \in Threads, Select(t) PROVE Inv'
<1> USE DEF Inv
<1>0. WellTyped' BY LoopTypes DEF Loop
<1> USE DEF WellTyped, Types, Owns, rows
<1>1. PICK j \in JobIds : First(WorkerOf(t), j) /\ cur' = [cur EXCEPT ![t] = j] BY DEF Select
<1>2. /\ pc[t] = "idle" /\ pc' = [pc EXCEPT ![t] = "selected"]
      /\ UNCHANGED <<rows, worker, seen>>
  BY DEF Select
<1>3. status[j] = "pending" /\ PartitionOf(kind[j]) = WorkerOf(t) BY <1>1 DEF First, Claimable
<1>4. Ownership'
  <2>1. (\A s \in Threads : InHand(s))' BY <1>1, <1>2, <1>3 DEF Ownership, InHand
  <2>2. (\A s \in Threads : pc[s] = "off" <=> worker[WorkerOf(s)] = "down")'
    BY <1>2 DEF Ownership
  <2>3. RowsHaveKinds' BY <1>2 DEF Ownership, RowsHaveKinds
  <2>4. ASSUME NEW s \in Threads, Owns(s)' PROVE Owns(s) /\ cur'[s] = cur[s]
    BY <1>1, <1>2, <2>4
  <2>5. SingleOwner' BY <2>4 DEF Ownership, SingleOwner
  <2>6. OwnedRowIsActive' BY <1>2, <2>4 DEF Ownership, OwnedRowIsActive
  <2> QED BY <2>1, <2>2, <2>3, <2>5, <2>6 DEF Ownership
<1>5. Counted' BY <1>1, <1>2 DEF Counted, AttemptBudget
<1> QED BY <1>0, <1>4, <1>5

\* Claim(t): the compare-and-swap finds the row pending, so nobody owns it.
LEMMA ClaimInv ==
  ASSUME Inv, NEW t \in Threads, Claim(t) PROVE Inv'
<1> USE DEF Inv
<1>0. WellTyped' BY LoopTypes DEF Loop
<1> USE DEF WellTyped, Types, Placed, Owns
<1>1. /\ pc[t] = "selected" /\ cur[t] \in JobIds /\ status[cur[t]] = "pending"
      /\ pc' = [pc EXCEPT ![t] = "claimed"]
      /\ status' = [status EXCEPT ![cur[t]] = "running"]
      /\ attempts' = [attempts EXCEPT ![cur[t]] = @ + 1]
      /\ UNCHANGED <<kind, worker, cur, seen>>
  BY DEF Claim, StillPending
<1>2. \A s \in Threads : Owns(s) => cur[s] # cur[t]
  BY <1>1 DEF Ownership, OwnedRowIsActive
<1>3. Ownership'
  <2>1. (\A s \in Threads : InHand(s))' BY <1>1 DEF Ownership, InHand
  <2>2. (\A s \in Threads : pc[s] = "off" <=> worker[WorkerOf(s)] = "down")'
    BY <1>1 DEF Ownership
  <2>3. RowsHaveKinds' BY <1>1 DEF Ownership, RowsHaveKinds
  <2>4. ASSUME NEW s \in Threads, Owns(s)' PROVE s = t \/ Owns(s) BY <1>1, <2>4
  <2>5. SingleOwner' BY <1>1, <1>2, <2>4 DEF Ownership, SingleOwner
  <2>6. OwnedRowIsActive' BY <1>1, <1>2, <2>4 DEF Ownership, OwnedRowIsActive
  <2> QED BY <2>1, <2>2, <2>3, <2>5, <2>6 DEF Ownership
<1>4. Counted'
  <2>1. AttemptBudget' BY <1>1, SizesAssumption DEF Counted, AttemptBudget
  <2>2. (\A s \in Threads : pc[s] = "deciding" => seen[s] = attempts[cur[s]])'
    BY <1>1, <1>2 DEF Counted
  <2>3. (\A j \in JobIds : status[j] = "absent" => attempts[j] = 0)' BY <1>1 DEF Counted
  <2> QED BY <2>1, <2>2, <2>3 DEF Counted
<1> QED BY <1>0, <1>3, <1>4

LEMMA LoseClaimInv ==
  ASSUME Inv, NEW t \in Threads, LoseClaim(t) PROVE Inv'
<1> USE DEF Inv
<1>0. WellTyped' BY LoopTypes DEF Loop
<1> USE DEF WellTyped, Types, Owns, Idle, rows
<1>1. pc[t] = "selected" /\ Idle(t) /\ UNCHANGED <<rows, worker>> BY DEF LoseClaim
<1>2. ASSUME NEW s \in Threads, Owns(s)' PROVE Owns(s) /\ s # t /\ cur'[s] = cur[s]
  BY <1>1, <1>2
<1>3. Ownership'
  <2>1. (\A s \in Threads : InHand(s))' BY <1>1 DEF Ownership, InHand
  <2>2. (\A s \in Threads : pc[s] = "off" <=> worker[WorkerOf(s)] = "down")'
    BY <1>1 DEF Ownership
  <2>3. RowsHaveKinds' BY <1>1 DEF Ownership, RowsHaveKinds
  <2>4. SingleOwner' BY <1>2 DEF Ownership, SingleOwner
  <2>5. OwnedRowIsActive' BY <1>1, <1>2 DEF Ownership, OwnedRowIsActive
  <2> QED BY <2>1, <2>2, <2>3, <2>4, <2>5 DEF Ownership
<1>4. Counted' BY <1>1 DEF Counted, AttemptBudget
<1> QED BY <1>0, <1>3, <1>4

LEMMA ReadAttemptsInv ==
  ASSUME Inv, NEW t \in Threads, ReadAttempts(t) PROVE Inv'
<1> USE DEF Inv
<1>0. WellTyped' BY LoopTypes DEF Loop
<1> USE DEF WellTyped, Types, Owns, rows
<1>1. /\ pc[t] = "failing" /\ pc' = [pc EXCEPT ![t] = "deciding"]
      /\ seen' = [seen EXCEPT ![t] = attempts[cur[t]]]
      /\ UNCHANGED <<rows, worker, cur>>
  BY DEF ReadAttempts, Step
<1>2. Ownership'
  <2>1. (\A s \in Threads : InHand(s))' BY <1>1 DEF Ownership, InHand
  <2>2. (\A s \in Threads : pc[s] = "off" <=> worker[WorkerOf(s)] = "down")'
    BY <1>1 DEF Ownership
  <2>3. RowsHaveKinds' BY <1>1 DEF Ownership, RowsHaveKinds
  <2>4. SingleOwner' BY <1>1 DEF Ownership, SingleOwner
  <2>5. OwnedRowIsActive' BY <1>1 DEF Ownership, OwnedRowIsActive
  <2> QED BY <2>1, <2>2, <2>3, <2>4, <2>5 DEF Ownership
<1>3. Counted' BY <1>1 DEF Counted, AttemptBudget
<1> QED BY <1>0, <1>2, <1>3

LEMMA LoopInv ==
  ASSUME Inv, NEW t \in Threads, Loop(t) PROVE Inv'
<1>0. WellTyped' BY LoopTypes DEF Inv
<1> USE DEF Inv, WellTyped, Types, Handling, Finishing, Owns, Step, Write, rows, threads
<1>1. CASE SkipDisabled(t)
  <2>1. Handling(t, "returned") BY <1>1 DEF SkipDisabled
  <2> QED BY <1>0, <2>1, HandlingKeeps
<1>2. CASE RunHandler(t)
  <2>1. Handling(t, "returned") BY <1>2 DEF RunHandler
  <2> QED BY <1>0, <2>1, HandlingKeeps
<1>3. CASE JobFails(t)
  <2>1. Handling(t, "failing") BY <1>3 DEF JobFails
  <2> QED BY <1>0, <2>1, HandlingKeeps
<1>4. CASE MarkComplete(t)
  <2>1. Finishing(t, "success") BY <1>4 DEF MarkComplete
  <2> QED BY <1>0, <2>1, FinishingKeeps
<1>5. CASE Requeue(t)
  <2>1. attempts[cur[t]] < MaxAttempts BY <1>5 DEF Requeue, AttemptsLeft, Counted
  <2>2. Finishing(t, "pending") BY <1>5, <2>1 DEF Requeue
  <2> QED BY <1>0, <2>2, FinishingKeeps
<1>6. CASE MarkFailed(t)
  <2>1. Finishing(t, "error") BY <1>6 DEF MarkFailed
  <2> QED BY <1>0, <2>1, FinishingKeeps
<1> HIDE DEF Inv
<1> QED BY <1>1, <1>2, <1>3, <1>4, <1>5, <1>6, SelectInv, ClaimInv, LoseClaimInv, ReadAttemptsInv
        DEF Loop

LEMMA FaultInv ==
  ASSUME Inv, NEW t \in Threads, Fault(t) PROVE Inv'
<1>0. WellTyped' BY FaultTypes DEF Inv
<1> USE DEF Inv, WellTyped, Types, Placed, Handling, Finishing, Owns, Step, rows, threads
<1>1. CASE RunStateFault(t)
  <2>1. Handling(t, "ran") BY <1>1 DEF RunStateFault
  <2> QED BY <1>0, <2>1, HandlingKeeps
<1>2. CASE CompleteFault(t)
  <2>1. Handling(t, "failing") BY <1>2 DEF CompleteFault
  <2> QED BY <1>0, <2>1, HandlingKeeps
<1>3. CASE HandlerFault(t)
  <2>1. pc[t] \in {"failing", "deciding"} /\ Idle(t) /\ UNCHANGED <<rows, worker>>
    BY <1>3 DEF HandlerFault
  <2>2. cur[t] \in JobIds /\ status[cur[t]] \in {"running", "cancelled"}
    BY <2>1 DEF Ownership, OwnedRowIsActive
  <2>3. Finishing(t, status[cur[t]]) BY <2>1, <2>2
  <2> QED BY <1>0, <2>3, FinishingKeeps
<1> HIDE DEF Inv
<1> QED BY <1>1, <1>2, <1>3 DEF Fault

\* A write to rows no thread owns, whatever their old and new status.
Rewriting(S) ==
  /\ \A j \in S, t \in Threads : Owns(t) => cur[t] # j
  /\ \A j \in S : kind'[j] \in Kinds /\ (status[j] # "absent" => kind'[j] = kind[j])
  /\ \A j \in S : attempts'[j] < MaxAttempts \/ (attempts'[j] <= MaxAttempts /\ status'[j] # "pending")
  /\ \A j \in S : status'[j] # "absent"
  /\ \A j \in JobIds \ S : status'[j] = status[j] /\ kind'[j] = kind[j] /\ attempts'[j] = attempts[j]
  /\ UNCHANGED threads

LEMMA RewritingKeeps ==
  ASSUME Inv, NEW S \in SUBSET JobIds, Rewriting(S), UNCHANGED worker, WellTyped'
  PROVE  Inv'
<1> USE DEF Inv, WellTyped, Types, Placed, Rewriting, Owns, threads
<1>1. Ownership'
  <2>1. (\A t \in Threads : InHand(t))'
    <3>1. ASSUME NEW j \in JobIds, status[j] # "absent"
          PROVE  status'[j] # "absent" /\ kind'[j] = kind[j]
      BY <3>1
    <3>2. \A t \in Threads : InHand(t) BY DEF Ownership
    <3>3. UNCHANGED <<pc, cur>> OBVIOUS
    <3> HIDE DEF Inv, Rewriting
    <3> QED BY <3>1, <3>2, <3>3 DEF InHand
  <2>2. (\A t \in Threads : pc[t] = "off" <=> worker[WorkerOf(t)] = "down")' BY DEF Ownership
  <2>3. RowsHaveKinds' BY DEF Ownership, RowsHaveKinds
  <2>4. SingleOwner' BY DEF Ownership, SingleOwner
  <2>5. OwnedRowIsActive'
    <3>1. ASSUME NEW t \in Threads, Owns(t) PROVE status'[cur[t]] = status[cur[t]]
      <4>1. cur[t] \in JobIds \ S BY <3>1
      <4> QED BY <4>1
    <3>2. OwnedRowIsActive /\ UNCHANGED <<pc, cur>> BY DEF Ownership
    <3> HIDE DEF Inv, Rewriting
    <3> QED BY <3>1, <3>2 DEF OwnedRowIsActive
  <2> QED BY <2>1, <2>2, <2>3, <2>4, <2>5 DEF Ownership
<1>2. Counted'
  <2>1. AttemptBudget' BY SizesAssumption DEF Counted, AttemptBudget
  <2>2. (\A t \in Threads : pc[t] = "deciding" => seen[t] = attempts[cur[t]])' BY DEF Counted
  <2>3. (\A j \in JobIds : status[j] = "absent" => attempts[j] = 0)' BY DEF Counted
  <2> QED BY <2>1, <2>2, <2>3 DEF Counted
<1> QED BY <1>1, <1>2

\* A row that is neither running nor cancelled is in nobody's hands.
LEMMA Unowned ==
  ASSUME Inv, NEW j \in JobIds, status[j] \notin {"running", "cancelled"}
  PROVE  \A t \in Threads : Owns(t) => cur[t] # j
BY DEF Inv, Ownership, OwnedRowIsActive

LEMMA TableInv ==
  ASSUME Inv, Table PROVE Inv'
<1>0. WellTyped' BY TableTypes DEF Inv
<1> USE DEF Inv, WellTyped, Types, Rewriting, Write, rows, threads
<1>1. ASSUME NEW j \in JobIds, NEW k \in Kinds, NEW p \in Priorities, NEW d \in BOOLEAN,
             Enqueue(j, k, p, d)
      PROVE  Inv'
  <2>1. status[j] = "absent" /\ attempts[j] = 0 BY <1>1 DEF Enqueue, NextId, Counted
  <2>2. /\ status' = [status EXCEPT ![j] = "pending"] /\ kind' = [kind EXCEPT ![j] = k]
        /\ UNCHANGED <<attempts, threads, worker>>
    BY <1>1 DEF Enqueue
  <2>3. \A t \in Threads : Owns(t) => cur[t] # j BY <2>1, Unowned
  <2>4. Rewriting({j}) BY <2>1, <2>2, <2>3, SizesAssumption
  <2> HIDE DEF Inv, WellTyped, Rewriting
  <2> QED BY <1>0, <2>2, <2>4, RewritingKeeps
<1>2. ASSUME NEW j \in JobIds, BackoffElapses(j) PROVE Inv'
  <2>1. Rewriting({}) BY <1>2 DEF BackoffElapses
  <2>2. UNCHANGED worker BY <1>2 DEF BackoffElapses
  <2> HIDE DEF Inv, WellTyped, Rewriting
  <2> QED BY <1>0, <2>1, <2>2, RewritingKeeps
<1>3. ASSUME NEW j \in JobIds, RetryJob(j) PROVE Inv'
  <2>1. status[j] \in {"error", "success"} BY <1>3 DEF RetryJob, CanRetry
  <2>2. kind[j] \in Kinds BY <2>1 DEF Ownership, RowsHaveKinds
  <2>3. /\ status' = [status EXCEPT ![j] = "pending"] /\ attempts' = [attempts EXCEPT ![j] = 0]
        /\ UNCHANGED <<kind, threads, worker>>
    BY <1>3 DEF RetryJob
  <2>4. \A t \in Threads : Owns(t) => cur[t] # j BY <2>1, Unowned
  <2>5. Rewriting({j}) BY <2>1, <2>2, <2>3, <2>4, SizesAssumption
  <2> HIDE DEF Inv, WellTyped, Rewriting
  <2> QED BY <1>0, <2>3, <2>5, RewritingKeeps
<1>4. ASSUME NEW j \in JobIds, CleanupJobs(j) PROVE Inv'
  <2> DEFINE old == {i \in 1..j : Purgeable(i)}
  <2>1. old \in SUBSET JobIds /\ \A i \in old : status[i] \in {"success", "error"}
    BY SizesAssumption DEF Purgeable
  <2>2. \A i \in old : kind[i] \in Kinds BY <2>1 DEF Ownership, RowsHaveKinds
  <2>3. /\ status' = [i \in JobIds |-> IF i \in old THEN "deleted" ELSE status[i]]
        /\ UNCHANGED <<kind, attempts, threads, worker>>
    BY <1>4 DEF CleanupJobs
  <2>4. \A i \in old : attempts[i] \in Nat /\ attempts[i] <= MaxAttempts
    BY <2>1 DEF Counted, AttemptBudget
  <2>5. \A i \in old, t \in Threads : Owns(t) => cur[t] # i BY <2>1, Unowned
  <2> HIDE DEF old
  <2>6. Rewriting(old) BY <2>1, <2>2, <2>3, <2>4, <2>5
  <2> HIDE DEF Inv, WellTyped, Rewriting
  <2> QED BY <1>0, <2>1, <2>3, <2>6, RewritingKeeps
<1> HIDE DEF Inv
<1> QED BY <1>1, <1>2, <1>3, <1>4 DEF Table

\* A request changes one row at most, from running to cancelled.
LEMMA CancelInv ==
  ASSUME Inv, NEW c \in Clients, Cancel(c) PROVE Inv'
<1>0. WellTyped' BY CancelTypes DEF Inv
<1> USE DEF rows, threads
<1>1. CASE CancelMark(c)
  <2> USE DEF Inv, WellTyped, Types, Placed
  <2>1. /\ ajob[c] \in JobIds
        /\ status' = [status EXCEPT ![ajob[c]] =
             IF status[ajob[c]] = "running" THEN "cancelled" ELSE @]
        /\ UNCHANGED <<kind, attempts, worker, threads>>
    BY <1>1 DEF CancelMark, CanCancel
  <2>2. Ownership'
    <3>1. (\A t \in Threads : InHand(t))' BY <2>1 DEF Ownership, InHand
    <3>2. (\A t \in Threads : pc[t] = "off" <=> worker[WorkerOf(t)] = "down")'
      BY <2>1 DEF Ownership
    <3>3. RowsHaveKinds' BY <2>1 DEF Ownership, RowsHaveKinds
    <3>4. SingleOwner' BY <2>1 DEF Ownership, SingleOwner, Owns
    <3>5. OwnedRowIsActive' BY <2>1 DEF Ownership, OwnedRowIsActive, Owns
    <3> QED BY <3>1, <3>2, <3>3, <3>4, <3>5 DEF Ownership
  <2>3. Counted' BY <2>1 DEF Counted, AttemptBudget
  <2> QED BY <1>0, <2>2, <2>3
<1>2. CASE ~CancelMark(c)
  <2>1. UNCHANGED <<rows, worker, threads>>
    BY <1>2 DEF Cancel, CancelCheck, CancelLookup, CancelRefused, CancelSignal
  <2>2. Rewriting({}) BY <2>1 DEF Rewriting, Inv, WellTyped, Types
  <2> HIDE DEF Inv, WellTyped, Rewriting
  <2> QED BY <1>0, <2>1, <2>2, RewritingKeeps
<1> QED BY <1>1, <1>2

LEMMA StartInv ==
  ASSUME Inv, NEW w \in Workers, StartWorker(w) PROVE Inv'
<1>0. WellTyped' BY ProcessTypes DEF Inv, Process
<1> USE DEF Inv, WellTyped, Types, Placed, Stuck, GivenBack
<1>1. /\ worker[w] = "down"
      /\ worker' = [worker EXCEPT ![w] = "up"]
      /\ status' = [j \in JobIds |-> IF j \in Stuck(w) THEN "pending" ELSE status[j]]
      /\ attempts' = [j \in JobIds |-> IF j \in Stuck(w) THEN GivenBack(attempts[j])
                                       ELSE attempts[j]]
      /\ pc' = [t \in Threads |-> IF WorkerOf(t) = w THEN "idle" ELSE pc[t]]
      /\ UNCHANGED <<kind, cur, seen>>
  BY DEF StartWorker
\* The pool's threads are off, and no other pool has a row of this partition.
<1>2. \A t \in Threads : Owns(t) => WorkerOf(t) # w /\ cur[t] \notin Stuck(w)
  BY <1>1 DEF Ownership, InHand, Owns
<1>3. ASSUME NEW t \in Threads, Owns(t)' PROVE Owns(t)
  BY <1>1, <1>3 DEF Owns
<1>4. Ownership'
  <2>1. (\A t \in Threads : InHand(t))' BY <1>1 DEF Ownership, InHand
  <2>2. (\A t \in Threads : pc[t] = "off" <=> worker[WorkerOf(t)] = "down")'
    BY <1>1 DEF Ownership, WorkerOf
  <2>3. RowsHaveKinds' BY <1>1 DEF Ownership, RowsHaveKinds
  <2>4. SingleOwner' BY <1>1, <1>3 DEF Ownership, SingleOwner
  <2>5. OwnedRowIsActive'
    <3>1. ASSUME NEW t \in Threads, Owns(t)
          PROVE  status[cur[t]] \in {"running", "cancelled"} /\ status'[cur[t]] = status[cur[t]]
      <4>1. cur[t] \in JobIds \ Stuck(w) BY <1>2, <3>1 DEF Owns
      <4>2. status[cur[t]] \in {"running", "cancelled"}
        BY <3>1 DEF Ownership, OwnedRowIsActive
      <4> HIDE DEF Stuck
      <4> QED BY <1>1, <4>1, <4>2
    <3>2. UNCHANGED cur BY <1>1
    <3> HIDE DEF Inv, Stuck
    <3> QED BY <1>3, <3>1, <3>2 DEF OwnedRowIsActive
  <2> QED BY <2>1, <2>2, <2>3, <2>4, <2>5 DEF Ownership
<1>5. Counted'
  <2>1. AttemptBudget' BY <1>1, SizesAssumption DEF Counted, AttemptBudget
  <2>2. (\A t \in Threads : pc[t] = "deciding" => seen[t] = attempts[cur[t]])'
    BY <1>1, <1>2 DEF Counted, Owns
  <2>3. (\A j \in JobIds : status[j] = "absent" => attempts[j] = 0)' BY <1>1 DEF Counted
  <2> QED BY <2>1, <2>2, <2>3 DEF Counted
<1> QED BY <1>0, <1>4, <1>5

LEMMA ProcessInv ==
  ASSUME Inv, Process PROVE Inv'
<1>0. WellTyped' BY ProcessTypes DEF Inv
<1> USE DEF Inv, WellTyped, Types, rows, threads
<1>1. ASSUME NEW w \in Workers, StopWorker(w) PROVE Inv'
  <2>1. worker[w] = "up" /\ worker' = [worker EXCEPT ![w] = "stopping"]
        /\ UNCHANGED <<rows, threads>>
    BY <1>1 DEF StopWorker
  <2>2. Ownership'
    BY <2>1 DEF Ownership, InHand, WorkerOf, RowsHaveKinds, SingleOwner, OwnedRowIsActive, Owns
  <2>3. Counted' BY <2>1 DEF Counted, AttemptBudget
  <2> QED BY <1>0, <2>2, <2>3
<1>2. CASE Crash
  <2>1. /\ worker' = [w \in Workers |-> "down"]
        /\ pc' = [t \in Threads |-> "off"] /\ cur' = [t \in Threads |-> NoJob]
        /\ UNCHANGED rows
    BY <1>2 DEF Crash
  <2>2. Ownership'
    BY <2>1 DEF Ownership, InHand, WorkerOf, RowsHaveKinds, SingleOwner, OwnedRowIsActive, Owns
  <2>3. Counted' BY <2>1 DEF Counted, AttemptBudget
  <2> QED BY <1>0, <2>2, <2>3
<1> HIDE DEF Inv
<1> QED BY <1>1, <1>2, StartInv DEF Process

LEMMA StepInv == Inv /\ [Next]_vars => Inv'
<1> SUFFICES ASSUME Inv, [Next]_vars PROVE Inv' OBVIOUS
<1>1. CASE Next
  BY <1>1, RunnerInv, LoopInv, FaultInv, CancelInv, TableInv, ProcessInv DEF Next
<1>2. CASE UNCHANGED vars
  <2>1. WellTyped' BY <1>2, StepTypes DEF Inv
  <2>2. Rewriting({}) /\ UNCHANGED worker
    BY <1>2 DEF Rewriting, vars, rows, threads, Inv, WellTyped, Types
  <2> QED BY <2>1, <2>2, RewritingKeeps
<1> QED BY <1>1, <1>2

LEMMA Invariance == Spec => []Inv
BY InitInv, StepInv, PTL DEF Spec

---------------------------------------------------------------------------
\* Every variable keeps its type and every inserted row its kind, for every
\* size of the queue.
THEOREM TypeCorrect == Spec => []TypeOK
<1>1. Inv => TypeOK BY DEF Inv, WellTyped, Ownership, TypeOK
<1> QED BY <1>1, Invariance, PTL

\* No two threads ever own one row: claim_next_job's compare-and-swap, the
\* partition-scoped recovery and the status checks of retry, purge and cancel
\* together keep process_pending_jobs alone with the row it claimed.
THEOREM OneOwner == Spec => []SingleOwner
<1>1. Inv => SingleOwner BY DEF Inv, Ownership
<1> QED BY <1>1, Invariance, PTL

\* A row in a thread's hands is running or cancelled until that thread writes
\* its fate: the unconditional UPDATEs of mark_job_complete and
\* _handle_job_error overwrite nobody else's work.
THEOREM OwnedStaysActive == Spec => []OwnedRowIsActive
<1>1. Inv => OwnedRowIsActive BY DEF Inv, Ownership
<1> QED BY <1>1, Invariance, PTL

\* A row never runs more than max_attempts times between two retries, through
\* failures, crashes and recoveries, and a pending row can always be claimed.
THEOREM Budget == Spec => []AttemptBudget
<1>1. Inv => AttemptBudget BY DEF Inv, Counted
<1> QED BY <1>1, Invariance, PTL

---------------------------------------------------------------------------
(* The ledger: the owner of a row is its holder.                           *)

Holds(t, j) == Owns(t) /\ cur[t] = j

\* The refinement mapping is well defined: HolderOf is the one thread that owns
\* the row, or nobody.
HoldersKnown ==
  /\ \A t \in Threads, j \in JobIds : Holds(t, j) => HolderOf(j) = t
  /\ \A j \in JobIds : (\A t \in Threads : ~Holds(t, j)) => HolderOf(j) = NoThread

LEMMA HolderIsUnique == Inv => HoldersKnown
<1> SUFFICES ASSUME Inv PROVE HoldersKnown OBVIOUS
<1>1. ASSUME NEW t \in Threads, NEW j \in JobIds, Holds(t, j) PROVE HolderOf(j) = t
  <2>1. \A s \in Threads : Owns(s) /\ cur[s] = j => s = t
    BY <1>1 DEF Holds, Inv, Ownership, SingleOwner
  <2>2. \E s \in Threads : Owns(s) /\ cur[s] = j BY <1>1 DEF Holds
  <2>3. HolderOf(j) = CHOOSE s \in Threads : Owns(s) /\ cur[s] = j BY <2>2 DEF HolderOf
  <2>4. Owns(HolderOf(j)) /\ cur[HolderOf(j)] = j /\ HolderOf(j) \in Threads BY <2>2, <2>3
  <2> QED BY <2>1, <2>4
<1>2. ASSUME NEW j \in JobIds, \A t \in Threads : ~Holds(t, j) PROVE HolderOf(j) = NoThread
  BY <1>2 DEF Holds, HolderOf
<1> QED BY <1>1, <1>2 DEF HoldersKnown

\* The holders after a step that gives no row away and takes none.
LEMMA SameHolders ==
  ASSUME HoldersKnown, HoldersKnown',
         \A t \in Threads, j \in JobIds : Holds(t, j)' <=> Holds(t, j)
  PROVE  [j \in JobIds |-> HolderOf(j)]' = [j \in JobIds |-> HolderOf(j)]
<1>1. ASSUME NEW j \in JobIds PROVE HolderOf(j)' = HolderOf(j)
  <2>1. CASE \E t \in Threads : Holds(t, j) BY <2>1 DEF HoldersKnown
  <2>2. CASE \A t \in Threads : ~Holds(t, j) BY <2>2 DEF HoldersKnown
  <2> QED BY <2>1, <2>2
<1> QED BY <1>1

\* The holders after a step in which t lets go of its row.
LEMMA OneLetsGo ==
  ASSUME HoldersKnown, HoldersKnown', NEW t \in Threads, NEW i \in JobIds, Holds(t, i),
         \A s \in Threads, j \in JobIds : Holds(s, j)' <=> Holds(s, j) /\ s # t
  PROVE  /\ HolderOf(i) = t
         /\ [j \in JobIds |-> HolderOf(j)]' =
              [[j \in JobIds |-> HolderOf(j)] EXCEPT ![i] = NoThread]
<1>1. ASSUME NEW s \in Threads, Holds(s, i) PROVE s = t BY <1>1 DEF HoldersKnown
<1>2. HolderOf(i)' = NoThread BY <1>1 DEF HoldersKnown
<1>3. ASSUME NEW j \in JobIds, j # i PROVE HolderOf(j)' = HolderOf(j)
  <2>1. ~Holds(t, j) BY <1>3 DEF Holds
  <2>2. CASE \E s \in Threads : Holds(s, j)
    <3>1. PICK s \in Threads : Holds(s, j) BY <2>2
    <3>2. Holds(s, j)' BY <2>1, <3>1
    <3> QED BY <3>1, <3>2 DEF HoldersKnown
  <2>3. CASE \A s \in Threads : ~Holds(s, j) BY <2>3 DEF HoldersKnown
  <2> QED BY <2>2, <2>3
<1> QED BY <1>2, <1>3 DEF HoldersKnown

LEMMA InitLedger == Init => Ledger!Init
<1> SUFFICES ASSUME Init PROVE Ledger!Init OBVIOUS
<1>1. \A j \in JobIds : HolderOf(j) = NoThread BY DEF Init, HolderOf, Owns
<1> QED BY <1>1 DEF Init, Ledger!Init

\* A step that moves no row and changes no hands.
LEMMA LedgerRests ==
  ASSUME HoldersKnown, HoldersKnown', UNCHANGED status,
         \A t \in Threads, j \in JobIds : Holds(t, j)' <=> Holds(t, j)
  PROVE  UNCHANGED Ledger!ledger
BY SameHolders DEF Ledger!ledger

\* The handler of a job is invisible to the ledger.
LEMMA RunnerLedger ==
  ASSUME Inv, HoldersKnown, HoldersKnown', NEW t \in Threads, Runner(t)
  PROVE  UNCHANGED Ledger!ledger
<1> USE DEF Inv, WellTyped, Types, Step, rows
<1>1. /\ UNCHANGED <<status, cur>> /\ Owns(t) /\ Owns(t)'
      /\ \A s \in Threads \ {t} : pc'[s] = pc[s]
  BY DEF Runner, AcquireLock, Defer, LeaveEarly, Register, RecordRunStart, ReturnFromRun,
         RaiseFromRun, Unregister, Unlock, Owns
<1>2. \A s \in Threads, j \in JobIds : Holds(s, j)' <=> Holds(s, j) BY <1>1 DEF Holds, Owns
<1> QED BY <1>1, <1>2, LedgerRests

\* Claim(t) is Take: the row was pending, so nobody held it, and t held none.
LEMMA ClaimLedger ==
  ASSUME Inv, HoldersKnown, HoldersKnown', NEW t \in Threads, Claim(t)
  PROVE  Ledger!Take(cur[t], t) /\ cur[t] \in JobIds
<1> USE DEF Inv, WellTyped, Types, Placed, Owns, Holds
<1>1. /\ pc[t] = "selected" /\ pc' = [pc EXCEPT ![t] = "claimed"]
      /\ cur[t] \in JobIds /\ status[cur[t]] = "pending"
      /\ status' = [status EXCEPT ![cur[t]] = "running"] /\ cur' = cur
  BY DEF Claim, StillPending
<1>2. \A s \in Threads : ~Holds(s, cur[t]) BY <1>1 DEF Ownership, OwnedRowIsActive
<1>3. HolderOf(cur[t]) = NoThread BY <1>1, <1>2 DEF HoldersKnown
<1>4. HolderOf(cur[t])' = t BY <1>1 DEF HoldersKnown
<1>5. ASSUME NEW j \in JobIds, j # cur[t]
      PROVE  HolderOf(j)' = HolderOf(j) /\ HolderOf(j) # t
  <2>1. \A s \in Threads : Holds(s, j)' <=> Holds(s, j) BY <1>1, <1>5
  <2>2. ~Holds(t, j) BY <1>1
  <2>3. CASE \E s \in Threads : Holds(s, j) BY <2>1, <2>2, <2>3 DEF HoldersKnown
  <2>4. CASE \A s \in Threads : ~Holds(s, j)
    BY <2>1, <2>4, ThreadsAssumption DEF HoldersKnown
  <2> QED BY <2>3, <2>4
<1>6. [j \in JobIds |-> HolderOf(j)]' = [[j \in JobIds |-> HolderOf(j)] EXCEPT ![cur[t]] = t]
  BY <1>1, <1>4, <1>5
<1>7. \A j \in JobIds : HolderOf(j) # t BY <1>3, <1>5, ThreadsAssumption
<1> QED BY <1>1, <1>3, <1>6, <1>7 DEF Ledger!Take, Ledger!Free, Ledger!Busy, Ledger!Move

\* MarkComplete, Requeue and MarkFailed are Settle; HandlerFault is Abandon.
LEMMA LoopLedger ==
  ASSUME Inv, HoldersKnown, HoldersKnown', NEW t \in Threads, Loop(t) \/ Fault(t)
  PROVE  Ledger!Next \/ UNCHANGED Ledger!ledger
<1> USE DEF Inv, WellTyped, Types, Placed, Owns, Step, Idle, rows
<1>1. CASE Select(t) \/ LoseClaim(t)
  <2>1. /\ pc[t] \in {"idle", "selected"}
        /\ \E p \in {"idle", "selected"} : pc' = [pc EXCEPT ![t] = p]
        /\ status' = status /\ \A s \in Threads \ {t} : cur'[s] = cur[s]
    BY <1>1 DEF Select, LoseClaim
  <2>2. \A s \in Threads, j \in JobIds : Holds(s, j)' <=> Holds(s, j) BY <2>1 DEF Holds
  <2> QED BY <2>1, <2>2, LedgerRests
<1>2. CASE Claim(t)
  <2>1. Ledger!Take(cur[t], t) /\ cur[t] \in JobIds BY <1>2, ClaimLedger
  <2> QED BY <2>1 DEF Ledger!Next
<1>3. CASE SkipDisabled(t) \/ RunHandler(t) \/ JobFails(t) \/ ReadAttempts(t)
           \/ RunStateFault(t) \/ CompleteFault(t)
  <2>1. /\ UNCHANGED <<status, cur>>
        /\ pc[t] \in {"claimed", "returned", "failing", "registered", "running"}
        /\ \E p \in {"returned", "failing", "deciding", "ran"} : pc' = [pc EXCEPT ![t] = p]
    BY <1>3 DEF SkipDisabled, RunHandler, JobFails, ReadAttempts, RunStateFault, CompleteFault
  <2>2. \A s \in Threads, j \in JobIds : Holds(s, j)' <=> Holds(s, j) BY <2>1 DEF Holds
  <2> QED BY <2>1, <2>2, LedgerRests
<1>4. ASSUME Owns(t), Idle(t)
      PROVE  /\ cur[t] \in JobIds /\ status[cur[t]] \in {"running", "cancelled"}
             /\ HolderOf(cur[t]) = t
             /\ [j \in JobIds |-> HolderOf(j)]' =
                  [[j \in JobIds |-> HolderOf(j)] EXCEPT ![cur[t]] = NoThread]
  <2>1. cur[t] \in JobIds /\ status[cur[t]] \in {"running", "cancelled"} /\ Holds(t, cur[t])
    BY <1>4 DEF Holds, Ownership, OwnedRowIsActive
  <2>2. \A s \in Threads, j \in JobIds : Holds(s, j)' <=> Holds(s, j) /\ s # t
    BY <1>4 DEF Holds
  <2> DEFINE i == cur[t]
  <2>3. i \in JobIds /\ Holds(t, i) BY <2>1
  <2> HIDE DEF i, Inv
  <2>4. HolderOf(i) = t
        /\ [j \in JobIds |-> HolderOf(j)]' = [[j \in JobIds |-> HolderOf(j)] EXCEPT ![i] = NoThread]
    BY <2>2, <2>3, OneLetsGo
  <2> QED BY <2>1, <2>4 DEF i
<1>5. CASE MarkComplete(t) \/ Requeue(t) \/ MarkFailed(t)
  <2>1. /\ Owns(t) /\ Idle(t)
        /\ \E r \in {"success", "error", "pending"} : status' = [status EXCEPT ![cur[t]] = r]
    BY <1>5 DEF MarkComplete, Requeue, MarkFailed, Write
  <2>2. Ledger!Settle(cur[t])
    BY <1>4, <2>1, ThreadsAssumption DEF Ledger!Settle, Ledger!Free, Ledger!Move
  <2> QED BY <1>4, <2>1, <2>2 DEF Ledger!Next
<1>6. CASE HandlerFault(t)
  <2>1. Owns(t) /\ Idle(t) /\ status' = status BY <1>6 DEF HandlerFault
  <2>2. Ledger!Abandon(cur[t])
    BY <1>4, <2>1, ThreadsAssumption DEF Ledger!Abandon, Ledger!Free
  <2> QED BY <1>4, <2>1, <2>2 DEF Ledger!Next
<1> HIDE DEF Inv
<1> QED BY <1>1, <1>2, <1>3, <1>5, <1>6 DEF Loop, Fault

\* CancelMark is Cancel, or nothing when the row has left "running".
LEMMA CancelLedger ==
  ASSUME Inv, HoldersKnown, HoldersKnown', NEW c \in Clients, Cancel(c)
  PROVE  Ledger!Next \/ UNCHANGED Ledger!ledger
<1> USE DEF Inv, WellTyped, Types, Placed, rows, threads
<1>1. UNCHANGED <<pc, cur>>
  BY DEF Cancel, CancelCheck, CancelLookup, CancelRefused, CancelSignal, CancelMark
<1>2. \A t \in Threads, j \in JobIds : Holds(t, j)' <=> Holds(t, j)
  BY <1>1 DEF Holds, Owns
<1>3. CASE status' = status BY <1>2, <1>3, LedgerRests
<1>4. CASE status' # status
  <2>1. /\ ajob[c] \in JobIds
        /\ status' = [status EXCEPT ![ajob[c]] = IF status[ajob[c]] = "running" THEN "cancelled" ELSE @]
    BY <1>4 DEF Cancel, CancelCheck, CancelLookup, CancelRefused, CancelSignal, CancelMark, CanCancel
  <2>2. status[ajob[c]] = "running" BY <1>4, <2>1
  <2>3. Ledger!Cancel(ajob[c])
    BY <1>2, <2>1, <2>2, SameHolders DEF Ledger!Cancel, Ledger!Move
  <2> QED BY <2>1, <2>3 DEF Ledger!Next
<1> QED BY <1>3, <1>4

\* Enqueue is Submit, RetryJob is Reopen, CleanupJobs is Purge.
LEMMA TableLedger ==
  ASSUME Inv, HoldersKnown, HoldersKnown', Table
  PROVE  Ledger!Next \/ UNCHANGED Ledger!ledger
<1> USE DEF Inv, WellTyped, Types, threads
<1>1. UNCHANGED <<pc, cur>> BY DEF Table, Enqueue, BackoffElapses, RetryJob, CleanupJobs
<1>2. \A t \in Threads, j \in JobIds : Holds(t, j)' <=> Holds(t, j)
  BY <1>1 DEF Holds, Owns
<1>3. [j \in JobIds |-> HolderOf(j)]' = [j \in JobIds |-> HolderOf(j)] BY <1>2, SameHolders
<1>4. ASSUME NEW j \in JobIds, status[j] \in {"success", "error"} PROVE HolderOf(j) = NoThread
  <2>1. \A t \in Threads : ~Holds(t, j) BY <1>4, Unowned DEF Holds
  <2> QED BY <2>1 DEF HoldersKnown
<1>5. ASSUME NEW j \in JobIds, NEW k \in Kinds, NEW p \in Priorities, NEW d \in BOOLEAN,
             Enqueue(j, k, p, d)
      PROVE  Ledger!Next
  <2>1. Ledger!Submit(j)
    BY <1>3, <1>5 DEF Enqueue, NextId, Ledger!Submit, Ledger!Move
  <2> QED BY <2>1 DEF Ledger!Next
<1>6. ASSUME NEW j \in JobIds, BackoffElapses(j) PROVE UNCHANGED Ledger!ledger
  BY <1>2, <1>6, LedgerRests DEF BackoffElapses
<1>7. ASSUME NEW j \in JobIds, RetryJob(j) PROVE Ledger!Next
  <2>1. Ledger!Reopen(j)
    BY <1>3, <1>4, <1>7 DEF RetryJob, CanRetry, Write, Ledger!Reopen, Ledger!Free, Ledger!Move
  <2> QED BY <2>1 DEF Ledger!Next
<1>8. ASSUME NEW j \in JobIds, CleanupJobs(j) PROVE Ledger!Next
  <2> DEFINE old == {i \in 1..j : Purgeable(i)}
  <2>1. old \in SUBSET JobIds /\ \A i \in old : status[i] \in {"success", "error"}
    BY SizesAssumption DEF Purgeable
  <2>2. status' = [i \in JobIds |-> IF i \in old THEN "deleted" ELSE status[i]]
    BY <1>8 DEF CleanupJobs
  <2> HIDE DEF old
  <2>3. Ledger!Purge(old) BY <1>3, <1>4, <2>1, <2>2 DEF Ledger!Purge, Ledger!Free
  <2> QED BY <2>1, <2>3 DEF Ledger!Next
<1> HIDE DEF Inv
<1> QED BY <1>5, <1>6, <1>7, <1>8 DEF Table

\* StartWorker is Recover: a pool that is down has no thread that holds a row.
LEMMA ProcessLedger ==
  ASSUME Inv, HoldersKnown, HoldersKnown', Process
  PROVE  Ledger!Next \/ UNCHANGED Ledger!ledger
<1> USE DEF Inv, WellTyped, Types, Placed, rows, threads
<1>1. ASSUME NEW w \in Workers, StartWorker(w) PROVE Ledger!Next
  <2>1. /\ worker[w] = "down"
        /\ status' = [j \in JobIds |-> IF j \in Stuck(w) THEN "pending" ELSE status[j]]
        /\ pc' = [t \in Threads |-> IF WorkerOf(t) = w THEN "idle" ELSE pc[t]] /\ cur' = cur
    BY <1>1 DEF StartWorker
  <2>2. \A t \in Threads, j \in JobIds : Holds(t, j)' <=> Holds(t, j)
    BY <2>1 DEF Holds, Owns, Ownership
  <2>3. [j \in JobIds |-> HolderOf(j)]' = [j \in JobIds |-> HolderOf(j)] BY <2>2, SameHolders
  <2>4. ASSUME NEW j \in Stuck(w) PROVE HolderOf(j) = NoThread /\ status[j] = "running"
    <3>1. \A t \in Threads : ~Holds(t, j)
      BY <2>1 DEF Stuck, Holds, Owns, Ownership, InHand
    <3> QED BY <3>1 DEF HoldersKnown, Stuck
  <2>5. Stuck(w) \in SUBSET JobIds BY DEF Stuck
  <2> HIDE DEF Inv
  <2>6. Ledger!Recover(Stuck(w)) BY <2>1, <2>3, <2>4, <2>5 DEF Ledger!Recover, Ledger!Free
  <2> QED BY <2>5, <2>6 DEF Ledger!Next
<1>2. ASSUME NEW w \in Workers, StopWorker(w) PROVE UNCHANGED Ledger!ledger
  <2>1. UNCHANGED <<status, pc, cur>> BY <1>2 DEF StopWorker
  <2>2. \A t \in Threads, j \in JobIds : Holds(t, j)' <=> Holds(t, j) BY <2>1 DEF Holds, Owns
  <2> QED BY <2>1, <2>2, LedgerRests
<1>3. CASE Crash
  <2>1. status' = status /\ pc' = [t \in Threads |-> "off"] BY <1>3 DEF Crash
  <2>2. \A j \in JobIds : HolderOf(j)' = NoThread
    <3>1. \A t \in Threads, j \in JobIds : ~Holds(t, j)' BY <2>1 DEF Holds, Owns
    <3> QED BY <3>1 DEF HoldersKnown
  <2>3. Ledger!Crash BY <2>1, <2>2 DEF Ledger!Crash
  <2> QED BY <2>3 DEF Ledger!Next
<1> HIDE DEF Inv
<1> QED BY <1>1, <1>2, <1>3 DEF Process

\* Every step of the queue is a step of the ledger, or invisible to it.
LEMMA StepLedger == Inv /\ Inv' /\ [Next]_vars => [Ledger!Next]_(Ledger!ledger)
<1> SUFFICES ASSUME Inv, Inv', [Next]_vars PROVE Ledger!Next \/ UNCHANGED Ledger!ledger
  OBVIOUS
<1>1. HoldersKnown /\ HoldersKnown'
  <2>1. HoldersKnown BY HolderIsUnique
  <2>2. (Inv => HoldersKnown)' BY HolderIsUnique, PTL
  <2> QED BY <2>1, <2>2
<1>2. CASE Next
  BY <1>1, <1>2, RunnerLedger, LoopLedger, CancelLedger, TableLedger, ProcessLedger DEF Next
<1>3. CASE UNCHANGED vars
  <2>1. UNCHANGED <<status, pc, cur>> BY <1>3 DEF vars, rows, threads
  <2>2. \A t \in Threads, j \in JobIds : Holds(t, j)' <=> Holds(t, j) BY <2>1 DEF Holds, Owns
  <2> QED BY <1>1, <2>1, <2>2, LedgerRests
<1> QED BY <1>2, <1>3

\* The queue implements the ledger: whatever claims, failures, requests, faults
\* and restarts do, a row's status moves only as its single holder, a cancel, a
\* retry, a purge or the recovery of an unheld row moves it.
THEOREM QueueImplementsLedger == Spec => ImplementsLedger
<1>1. Inv /\ [Next]_vars => [Ledger!Next]_(Ledger!ledger) BY StepInv, StepLedger
<1> QED BY <1>1, InitLedger, Invariance, PTL DEF Spec, ImplementsLedger, Ledger!Spec

---------------------------------------------------------------------------
(* The module locks, the cancel registry and the dedupe.  That a row in    *)
(* hand has one owner is what makes its lock and its handle the thread's   *)
(* own.                                                                    *)

HasBody(t) == pc[t] \in {"registered", "running", "ran"}

\* The lock of a key names the thread between its acquire() and release(), and
\* only that thread.
LockIsHeld ==
  /\ \A t \in Threads : Locked(t) => Kind(t) \in LockKeys /\ lock[Kind(t)] = t
  /\ \A k \in LockKeys : lock[k] # NoThread => Locked(lock[k]) /\ Kind(lock[k]) = k

BodiesAreModules == \A t \in Threads : HasBody(t) => Kind(t) \in Modules

LockInv == LockIsHeld /\ BodiesAreModules /\ RunStateIsCurrent

LEMMA InitLock == Init => LockInv
BY ThreadsAssumption
DEF Init, LockInv, LockIsHeld, BodiesAreModules, RunStateIsCurrent, Locked, HasBody

\* A step that takes no lock, gives none up and starts no body.
LocksRest ==
  /\ UNCHANGED <<lock, runState>>
  /\ \A t \in Threads :
       /\ Locked(t)' <=> Locked(t)
       /\ HasBody(t)' => HasBody(t)
       /\ pc'[t] = "running" => pc[t] = "running"
       /\ Locked(t) => cur'[t] = cur[t] /\ Kind(t)' = Kind(t)

LEMMA LocksRestKeeps ==
  ASSUME Inv, LockInv, LocksRest PROVE LockInv'
<1>1. LockIsHeld'
  <2>1. ASSUME NEW t \in Threads, Locked(t)' PROVE (Kind(t) \in LockKeys /\ lock[Kind(t)] = t)'
    BY <2>1 DEF LocksRest, LockInv, LockIsHeld
  <2>2. ASSUME NEW k \in LockKeys, lock'[k] # NoThread
        PROVE  (Locked(lock[k]) /\ Kind(lock[k]) = k)'
    <3>1. lock[k] \in Threads BY <2>2 DEF LocksRest, Inv, WellTyped, Types
    <3>2. lock'[k] = lock[k] /\ Locked(lock[k]) /\ Kind(lock[k]) = k
      BY <2>2 DEF LocksRest, LockInv, LockIsHeld
    <3>3. \A t \in Threads : Locked(t) => Locked(t)' /\ Kind(t)' = Kind(t) BY DEF LocksRest
    <3>4. ASSUME NEW t \in Threads, t = lock[k] PROVE Locked(t)' /\ Kind(t)' = k
      BY <3>2, <3>3, <3>4
    <3> QED BY <3>1, <3>2, <3>4 DEF Locked, Kind
  <2> QED BY <2>1, <2>2 DEF LockIsHeld
<1>2. BodiesAreModules'
  BY DEF LocksRest, LockInv, BodiesAreModules, HasBody, Locked
<1>3. RunStateIsCurrent'
  BY DEF LocksRest, LockInv, RunStateIsCurrent, Kind, Locked
<1> QED BY <1>1, <1>2, <1>3 DEF LockInv

\* The lock tells two bodies of one kind apart.
LEMMA LockInvExcludes ==
  ASSUME LockInv, NEW s \in Threads, NEW t \in Threads, Locked(s), Locked(t), Kind(s) = Kind(t)
  PROVE  s = t
BY DEF LockInv, LockIsHeld

\* Runner(t), one action at a time.
LEMMA RunnerLock ==
  ASSUME Inv, LockInv, NEW t \in Threads, Runner(t) PROVE LockInv'
<1> USE DEF Inv, WellTyped, Types, Placed, Step, Kind, Locked, HasBody, rows
<1>0. Owns(t) => cur[t] \in JobIds BY DEF Owns
<1>1. CASE AcquireLock(t)
  <2>1. /\ pc[t] = "claimed" /\ pc' = [pc EXCEPT ![t] = "locked"]
        /\ Kind(t) \in LockKeys /\ lock[Kind(t)] = NoThread
        /\ lock' = [lock EXCEPT ![Kind(t)] = t]
        /\ UNCHANGED <<kind, cur, runState>>
    BY <1>1 DEF AcquireLock, LockFree
  <2>2. LockIsHeld' BY <2>1, ThreadsAssumption DEF LockInv, LockIsHeld
  <2>3. BodiesAreModules' BY <2>1 DEF LockInv, BodiesAreModules
  <2>4. RunStateIsCurrent' BY <2>1 DEF LockInv, RunStateIsCurrent
  <2> QED BY <2>2, <2>3, <2>4 DEF LockInv
<1>2. CASE Defer(t)
  <2>1. LocksRest BY <1>2 DEF Defer, LocksRest
  <2> QED BY <2>1, LocksRestKeeps
<1>3. CASE LeaveEarly(t)
  <2>1. LocksRest BY <1>3 DEF LeaveEarly, LocksRest
  <2> QED BY <2>1, LocksRestKeeps
<1>4. CASE Register(t)
  <2>1. /\ pc[t] = "locked" /\ pc' = [pc EXCEPT ![t] = "registered"] /\ Kind(t) \in Modules
        /\ UNCHANGED <<kind, cur, lock, runState>>
    BY <1>4 DEF Register
  <2>2. LockIsHeld' BY <2>1 DEF LockInv, LockIsHeld
  <2>3. BodiesAreModules' BY <2>1 DEF LockInv, BodiesAreModules
  <2>4. RunStateIsCurrent' BY <2>1 DEF LockInv, RunStateIsCurrent
  <2> QED BY <2>2, <2>3, <2>4 DEF LockInv
<1>5. CASE RecordRunStart(t)
  <2>1. /\ pc[t] = "registered" /\ pc' = [pc EXCEPT ![t] = "running"]
        /\ runState' = [runState EXCEPT ![Kind(t)] = "started"]
        /\ UNCHANGED <<kind, cur, lock>>
    BY <1>5 DEF RecordRunStart
  <2>2. LockIsHeld' BY <2>1 DEF LockInv, LockIsHeld
  <2>3. BodiesAreModules' BY <2>1 DEF LockInv, BodiesAreModules
  <2>4. RunStateIsCurrent' BY <2>1 DEF LockInv, BodiesAreModules, RunStateIsCurrent
  <2> QED BY <2>2, <2>3, <2>4 DEF LockInv
<1>6. CASE ReturnFromRun(t) \/ RaiseFromRun(t)
  <2>1. PICK r \in RunStates :
          /\ pc[t] = "running" /\ pc' = [pc EXCEPT ![t] = "ran"]
          /\ runState' = [runState EXCEPT ![Kind(t)] = r]
          /\ UNCHANGED <<kind, cur, lock>>
    BY <1>6 DEF ReturnFromRun, RaiseFromRun
  <2>2. LockIsHeld' BY <2>1 DEF LockInv, LockIsHeld
  <2>3. BodiesAreModules' BY <2>1 DEF LockInv, BodiesAreModules
  <2>4. ASSUME NEW s \in Threads, pc'[s] = "running" PROVE runState'[kind'[cur'[s]]] = "started"
    <3>1. s # t /\ pc[s] = "running" /\ runState[Kind(s)] = "started" /\ Kind(s) \in Modules
      BY <2>1, <2>4 DEF LockInv, RunStateIsCurrent, BodiesAreModules
    <3>2. Kind(s) # Kind(t) BY <2>1, <3>1, LockInvExcludes
    <3> QED BY <2>1, <3>1, <3>2
  <2> QED BY <2>2, <2>3, <2>4 DEF LockInv, RunStateIsCurrent
<1>7. CASE Unregister(t)
  <2>1. LocksRest BY <1>7 DEF Unregister, LocksRest
  <2> QED BY <2>1, LocksRestKeeps
<1>8. CASE Unlock(t)
  <2>1. /\ pc[t] = "unlocking" /\ pc' = [pc EXCEPT ![t] = "returned"]
        /\ lock' = [lock EXCEPT ![Kind(t)] = NoThread]
        /\ UNCHANGED <<kind, cur, runState>>
    BY <1>8 DEF Unlock
  <2>2. LockIsHeld' BY <2>1, ThreadsAssumption DEF LockInv, LockIsHeld
  <2>3. BodiesAreModules' BY <2>1 DEF LockInv, BodiesAreModules
  <2>4. RunStateIsCurrent' BY <2>1 DEF LockInv, RunStateIsCurrent
  <2> QED BY <2>2, <2>3, <2>4 DEF LockInv
<1> HIDE DEF Inv
<1> QED BY <1>1, <1>2, <1>3, <1>4, <1>5, <1>6, <1>7, <1>8 DEF Runner

\* Loop and Fault never touch a lock: outside AcquireLock and Unlock, no path
\* enters or leaves the span in which the lock is held.
LEMMA LoopLock ==
  ASSUME Inv, LockInv, NEW t \in Threads, Loop(t) \/ Fault(t) PROVE LockInv'
<1> USE DEF Inv, WellTyped, Types, Placed, Step, Idle, Kind, Locked, HasBody, LocksRest, rows
<1>1. CASE Select(t)
  <2>1. LocksRest BY <1>1 DEF Select
  <2> QED BY <2>1, LocksRestKeeps
<1>2. CASE Claim(t)
  <2>1. LocksRest BY <1>2 DEF Claim
  <2> QED BY <2>1, LocksRestKeeps
<1>3. CASE LoseClaim(t)
  <2>1. LocksRest BY <1>3 DEF LoseClaim
  <2> QED BY <2>1, LocksRestKeeps
<1>4. CASE SkipDisabled(t) \/ RunHandler(t)
  <2>0. /\ pc[t] = "claimed" /\ pc' = [pc EXCEPT ![t] = "returned"]
        /\ UNCHANGED <<lock, runState, kind, cur>>
    BY <1>4 DEF SkipDisabled, RunHandler
  <2>1. LocksRest BY <2>0
  <2> QED BY <2>1, LocksRestKeeps
<1>5. CASE MarkComplete(t) \/ Requeue(t) \/ MarkFailed(t) \/ HandlerFault(t)
  <2>1. /\ pc[t] \in {"returned", "failing", "deciding"} /\ Idle(t)
        /\ UNCHANGED <<kind, lock, runState>>
    BY <1>5 DEF MarkComplete, Requeue, MarkFailed, HandlerFault
  <2>2. LocksRest BY <2>1
  <2> QED BY <2>2, LocksRestKeeps
<1>6. CASE JobFails(t) \/ ReadAttempts(t) \/ CompleteFault(t)
  <2>1. /\ pc[t] \in {"returned", "failing"}
        /\ pc' = [pc EXCEPT ![t] = "failing"] \/ pc' = [pc EXCEPT ![t] = "deciding"]
        /\ UNCHANGED <<cur, kind, lock, runState>>
    BY <1>6 DEF JobFails, ReadAttempts, CompleteFault
  <2>2. LocksRest BY <2>1
  <2> QED BY <2>2, LocksRestKeeps
<1>7. CASE RunStateFault(t)
  <2>1. LocksRest BY <1>7 DEF RunStateFault
  <2> QED BY <2>1, LocksRestKeeps
<1> QED BY <1>1, <1>2, <1>3, <1>4, <1>5, <1>6, <1>7 DEF Loop, Fault

\* A row in hand is not absent, so no insertion changes its kind.
LEMMA OutsideLock ==
  ASSUME Inv, LockInv, Table \/ \E c \in Clients : Cancel(c) PROVE LockInv'
<1> USE DEF Inv, WellTyped, Types, Placed, Kind, Locked, HasBody, LocksRest, rows, threads
<1>1. CASE \E c \in Clients : Cancel(c)
  <2>1. UNCHANGED <<pc, cur, kind, lock, runState>>
    BY <1>1 DEF Cancel, CancelCheck, CancelLookup, CancelRefused, CancelSignal, CancelMark
  <2>2. LocksRest BY <2>1
  <2> QED BY <2>2, LocksRestKeeps
<1>2. ASSUME NEW j \in JobIds, NEW k \in Kinds, NEW p \in Priorities, NEW d \in BOOLEAN,
             Enqueue(j, k, p, d)
      PROVE  LockInv'
  <2>1. status[j] = "absent" /\ kind' = [kind EXCEPT ![j] = k]
        /\ UNCHANGED <<pc, cur, lock, runState>>
    BY <1>2 DEF Enqueue, NextId
  <2>2. ASSUME NEW t \in Threads, Locked(t) PROVE Kind(t)' = Kind(t)
    <3>1. cur[t] \in JobIds /\ status[cur[t]] # "absent" BY <2>2 DEF Ownership, InHand
    <3> QED BY <2>1, <3>1
  <2>3. LocksRest BY <2>1, <2>2
  <2> QED BY <2>3, LocksRestKeeps
<1>3. ASSUME NEW j \in JobIds, BackoffElapses(j) \/ RetryJob(j) \/ CleanupJobs(j) PROVE LockInv'
  <2>1. UNCHANGED <<pc, cur, kind, lock, runState>>
    BY <1>3 DEF BackoffElapses, RetryJob, CleanupJobs
  <2>2. LocksRest BY <2>1
  <2> QED BY <2>2, LocksRestKeeps
<1> HIDE DEF Inv
<1> QED BY <1>1, <1>2, <1>3 DEF Table

\* A crash frees every lock with the threads that held it; a pool that starts
\* has no thread at work.
LEMMA ProcessLock ==
  ASSUME Inv, LockInv, Process PROVE LockInv'
<1> USE DEF Inv, WellTyped, Types, Placed, Kind, Locked, HasBody, LocksRest, rows, threads
<1>1. ASSUME NEW w \in Workers, StartWorker(w) PROVE LockInv'
  <2>1. /\ worker[w] = "down"
        /\ pc' = [t \in Threads |-> IF WorkerOf(t) = w THEN "idle" ELSE pc[t]]
        /\ UNCHANGED <<cur, kind, lock, runState>>
    BY <1>1 DEF StartWorker
  <2>2. \A t \in Threads : WorkerOf(t) = w => pc[t] = "off" BY <2>1 DEF Ownership
  <2>3. LocksRest BY <2>1, <2>2
  <2> QED BY <2>3, LocksRestKeeps
<1>2. ASSUME NEW w \in Workers, StopWorker(w) PROVE LockInv'
  <2>1. LocksRest BY <1>2 DEF StopWorker
  <2> QED BY <2>1, LocksRestKeeps
<1>3. CASE Crash
  <2>1. /\ pc' = [t \in Threads |-> "off"] /\ lock' = [k \in LockKeys |-> NoThread]
    BY <1>3 DEF Crash
  <2> QED BY <2>1 DEF LockInv, LockIsHeld, BodiesAreModules, RunStateIsCurrent
<1> HIDE DEF Inv
<1> QED BY <1>1, <1>2, <1>3 DEF Process

LEMMA LockStep == Inv /\ LockInv /\ [Next]_vars => LockInv'
<1> SUFFICES ASSUME Inv, LockInv, [Next]_vars PROVE LockInv' OBVIOUS
<1>1. CASE Next BY <1>1, RunnerLock, LoopLock, OutsideLock, ProcessLock DEF Next
<1>2. CASE UNCHANGED vars
  <2>1. LocksRest BY <1>2 DEF vars, rows, threads, LocksRest, Locked, HasBody, Kind
  <2> QED BY <2>1, LocksRestKeeps
<1> QED BY <1>1, <1>2

LEMMA LockInvariance == Spec => [](Inv /\ LockInv)
<1>1. Init => Inv /\ LockInv BY InitInv, InitLock
<1>2. (Inv /\ LockInv) /\ [Next]_vars => (Inv /\ LockInv)' BY StepInv, LockStep
<1> QED BY <1>1, <1>2, PTL DEF Spec

\* At most one body of a module runs at any time, whichever pool, retry or
\* restart brought it there: process_job's non-blocking acquire of
\* _MODULE_LOCKS and the release on every path out of the handler.
THEOREM OneBodyPerModule == Spec => []BodiesExclusive
<1>1. LockInv => BodiesExclusive
  BY LockInvExcludes DEF BodiesExclusive, Kind
<1> QED BY <1>1, LockInvariance, PTL

\* While a body runs, no other run of its module has recorded anything since
\* this one's record_run_start.
THEOREM RunStateFollowsBody == Spec => []RunStateIsCurrent
<1>1. LockInv => RunStateIsCurrent BY DEF LockInv
<1> QED BY <1>1, LockInvariance, PTL

---------------------------------------------------------------------------
(* Cancel requests.  A request reads the row, fetches the handle, sets the *)
(* event and marks the row in four steps; between them the body it means   *)
(* may end, and the row may be run again.                                  *)

\* A thread whose body, if it had one, is over.
Over(t) == pc[t] \in {"unlocking", "returned", "failing", "deciding"}

OwnedRowWasCounted == \A t \in Threads : Owns(t) => attempts[cur[t]] > 0

\* No thread that has j on its first attempt has its body still to run.
BodyIsOver(j) ==
  /\ attempts[j] > 0
  /\ \A t \in Threads : Owns(t) /\ cur[t] = j /\ attempts[j] = 1 => Over(t)

\* A request past its lookup holds the handle that is registered for its row,
\* or the handle's body is over; its pool has been up since.
HandleIsCurrent(c) ==
  /\ worker["BACKGROUND"] # "down" /\ kind[ajob[c]] \in Modules
  /\ status[ajob[c]] # "absent"
  /\ handle[c] # NoThread =>
       /\ registry[ajob[c]] = handle[c]
       /\ apc[c] = "signalled" => event[handle[c]]
  /\ handle[c] = NoThread /\ used.retries = 0 => BodyIsOver(ajob[c])

HandlesAreCurrent == \A c \in Clients : apc[c] \in {"holding", "signalled"} => HandleIsCurrent(c)

\* A row on its first attempt is not cancelled before its body is registered.
NoEarlyCancel ==
  \A t \in Threads :
    pc[t] \in {"claimed", "locked"} /\ attempts[cur[t]] = 1 /\ used.retries = 0 =>
      status[cur[t]] # "cancelled"

HandleInv ==
  /\ OwnedRowWasCounted
  /\ HandleIsLive
  /\ CancelReachesBody
  /\ NoEarlyCancel
  /\ HandlesAreCurrent

LEMMA InitHandle == Init => HandleInv
BY ThreadsAssumption
DEF Init, HandleInv, OwnedRowWasCounted, HandleIsLive, CancelReachesBody, NoEarlyCancel,
    HandlesAreCurrent, Owns

\* A step that claims no row, registers and unregisters no body, counts no
\* attempt and cancels nothing.
HandlesRest ==
  /\ UNCHANGED <<attempts, registry, event, apc, ajob, handle>>
  /\ used'.retries = used.retries
  /\ worker["BACKGROUND"] # "down" => worker'["BACKGROUND"] # "down"
  /\ \A j \in JobIds : /\ status[j] # "absent" => status'[j] # "absent" /\ kind'[j] = kind[j]
                       /\ status'[j] = "cancelled" => status[j] = "cancelled"
  /\ \A t \in Threads :
       /\ HasBody(t)' <=> HasBody(t)
       /\ Owns(t)' => Owns(t) /\ cur'[t] = cur[t] /\ (Over(t) => Over(t)')
       /\ pc'[t] \in {"claimed", "locked"} => pc[t] \in {"claimed", "locked"}
       /\ pc'[t] \in {"registered", "running"} => pc[t] \in {"registered", "running"}

LEMMA HandlesRestKeep ==
  ASSUME Inv, LockInv, HandleInv, HandlesRest PROVE HandleInv'
<1> USE DEF HandleInv, Inv, WellTyped, Types, Placed
<1>1. OwnedRowWasCounted' BY DEF HandlesRest, OwnedRowWasCounted
<1>2. HandleIsLive'
  <2>1. \A t \in Threads : HasBody(t) => HasBody(t)' /\ cur'[t] = cur[t]
    BY DEF HandlesRest, HasBody, Owns
  <2>2. ASSUME NEW j \in JobIds, registry'[j] # NoThread
        PROVE  cur'[registry'[j]] = j /\ HasBody(registry[j])'
    <3>1. PICK t \in Threads : t = registry[j] BY <2>2 DEF HandlesRest
    <3>2. cur[t] = j /\ HasBody(t) BY <2>2, <3>1 DEF HandlesRest, HandleIsLive, HasBody
    <3> QED BY <2>1, <3>1, <3>2 DEF HandlesRest, HasBody
  <2>3. ASSUME NEW t \in Threads, HasBody(t)' PROVE registry'[cur'[t]] = t
    BY <2>1, <2>3 DEF HandlesRest, HandleIsLive, HasBody
  <2> QED BY <2>2, <2>3 DEF HandleIsLive, HasBody
<1>3. CancelReachesBody'
  <2> SUFFICES ASSUME NEW t \in Threads, pc'[t] \in {"registered", "running"},
                      status'[cur'[t]] = "cancelled", attempts'[cur'[t]] = 1, used'.retries = 0
               PROVE  event'[t]
    BY DEF CancelReachesBody
  <2>1. pc[t] \in {"registered", "running"} /\ cur'[t] = cur[t] /\ cur[t] \in JobIds
    BY DEF HandlesRest, Owns
  <2>2. status[cur[t]] = "cancelled" /\ attempts[cur[t]] = 1 /\ used.retries = 0
    BY <2>1 DEF HandlesRest
  <2> QED BY <2>1, <2>2 DEF HandlesRest, CancelReachesBody
<1>4. NoEarlyCancel' BY DEF HandlesRest, NoEarlyCancel, Owns
<1>5. ASSUME NEW c \in Clients, apc'[c] \in {"holding", "signalled"} PROVE HandleIsCurrent(c)'
  <2>1. apc[c] \in {"holding", "signalled"} /\ ajob[c] \in JobIds /\ HandleIsCurrent(c)
    BY <1>5 DEF HandlesRest, HandlesAreCurrent
  <2>2. BodyIsOver(ajob[c]) => BodyIsOver(ajob[c])' BY <2>1 DEF HandlesRest, BodyIsOver
  <2> QED BY <2>1, <2>2 DEF HandlesRest, HandleIsCurrent
<1> QED BY <1>1, <1>2, <1>3, <1>4, <1>5 DEF HandlesAreCurrent

\* register_cancel_event: the event is fresh, and no request holds it yet.
LEMMA RegisterHandle ==
  ASSUME Inv, LockInv, HandleInv, NEW t \in Threads, Register(t) PROVE HandleInv'
<1> USE DEF HandleInv, Inv, WellTyped, Types, Placed, Owns
<1>1. /\ pc[t] = "locked" /\ pc' = [pc EXCEPT ![t] = "registered"]
      /\ registry' = [registry EXCEPT ![cur[t]] = t]
      /\ event' = [event EXCEPT ![t] = FALSE]
      /\ UNCHANGED <<status, kind, attempts, worker, cur, apc, ajob, handle, used>>
  BY DEF Register, Step, rows, api
<1>2. cur[t] \in JobIds BY <1>1
<1>3. OwnedRowWasCounted' BY <1>1 DEF OwnedRowWasCounted
<1>4. \A s \in Threads : HasBody(s) => s # t /\ cur[s] # cur[t]
  BY <1>1 DEF HasBody, Ownership, SingleOwner
<1>5. HandleIsLive'
  <2>1. ASSUME NEW j \in JobIds, registry'[j] # NoThread
        PROVE  cur'[registry'[j]] = j /\ HasBody(registry[j])'
    <3>1. CASE j = cur[t] BY <1>1, <3>1 DEF HasBody
    <3>2. CASE j # cur[t]
      <4>1. PICK s \in Threads : s = registry[j] BY <1>1, <2>1, <3>2
      <4>2. cur[s] = j /\ HasBody(s) BY <1>1, <2>1, <3>2, <4>1 DEF HandleIsLive, HasBody
      <4>3. registry'[j] = s BY <1>1, <3>2, <4>1
      <4>4. s # t BY <4>2, <1>4
      <4> QED BY <1>1, <4>2, <4>3, <4>4 DEF HasBody
    <3> QED BY <3>1, <3>2
  <2>2. ASSUME NEW s \in Threads, HasBody(s)' PROVE registry'[cur'[s]] = s
    BY <1>1, <1>2, <1>4, <2>2 DEF HandleIsLive, HasBody
  <2> QED BY <2>1, <2>2 DEF HandleIsLive, HasBody
<1>6. CancelReachesBody'
  BY <1>1, <1>2 DEF CancelReachesBody, NoEarlyCancel
<1>7. NoEarlyCancel' BY <1>1 DEF NoEarlyCancel
<1>8. ASSUME NEW c \in Clients, apc'[c] \in {"holding", "signalled"} PROVE HandleIsCurrent(c)'
  <2>1. ajob[c] \in JobIds /\ HandleIsCurrent(c) BY <1>1, <1>8 DEF HandlesAreCurrent
  <2>2. BodyIsOver(ajob[c]) => BodyIsOver(ajob[c])' BY <1>1, <2>1 DEF BodyIsOver, Over
  <2>3. ASSUME handle[c] # NoThread
        PROVE  /\ registry'[ajob[c]] = handle[c]
               /\ apc[c] = "signalled" => event'[handle[c]]
    <3>1. handle[c] \in Threads /\ registry[ajob[c]] = handle[c] BY <2>1, <2>3 DEF HandleIsCurrent
    <3>2. HasBody(handle[c]) /\ cur[handle[c]] = ajob[c]
      BY <2>1, <2>3, <3>1 DEF HandleIsLive, HasBody
    <3>3. handle[c] # t /\ ajob[c] # cur[t] BY <1>4, <3>1, <3>2
    <3> QED BY <1>1, <2>1, <2>3, <3>1, <3>3 DEF HandleIsCurrent
  <2> QED BY <1>1, <2>1, <2>2, <2>3 DEF HandleIsCurrent
<1> QED BY <1>3, <1>5, <1>6, <1>7, <1>8 DEF HandlesAreCurrent

\* The finally clause takes the handle from the requests that fetched it.
LEMMA UnregisterHandle ==
  ASSUME Inv, LockInv, HandleInv, NEW t \in Threads, Unregister(t) PROVE HandleInv'
<1> USE DEF HandleInv, Inv, WellTyped, Types, Placed, Owns
<1>1. /\ pc[t] = "ran" /\ pc' = [pc EXCEPT ![t] = "unlocking"]
      /\ registry' = [registry EXCEPT ![cur[t]] = NoThread]
      /\ event' = [event EXCEPT ![t] = FALSE]
      /\ handle' = [c \in Clients |-> IF handle[c] = t THEN NoThread ELSE handle[c]]
      /\ UNCHANGED <<status, kind, attempts, worker, cur, apc, ajob, used>>
  BY DEF Unregister, Step, rows
<1>2. cur[t] \in JobIds BY <1>1
<1>3. OwnedRowWasCounted' BY <1>1 DEF OwnedRowWasCounted
<1>4. \A s \in Threads : Owns(s) /\ s # t => cur[s] # cur[t]
  BY <1>1 DEF Ownership, SingleOwner
<1>5. HandleIsLive'
  <2>1. ASSUME NEW j \in JobIds, registry'[j] # NoThread
        PROVE  cur'[registry'[j]] = j /\ HasBody(registry[j])'
    <3>1. j # cur[t] /\ registry'[j] = registry[j] BY <1>1, <2>1
    <3>2. PICK s \in Threads : s = registry[j] BY <2>1, <3>1
    <3>3. cur[s] = j /\ HasBody(s) BY <2>1, <3>1, <3>2 DEF HandleIsLive, HasBody
    <3> QED BY <1>1, <3>1, <3>2, <3>3 DEF HasBody
  <2>2. ASSUME NEW s \in Threads, HasBody(s)' PROVE registry'[cur'[s]] = s
    <3>1. s # t /\ HasBody(s) /\ Owns(s) BY <1>1, <2>2 DEF HasBody
    <3> QED BY <1>1, <1>2, <1>4, <3>1 DEF HandleIsLive, HasBody
  <2> QED BY <2>1, <2>2 DEF HandleIsLive, HasBody
<1>6. CancelReachesBody' BY <1>1 DEF CancelReachesBody
<1>7. NoEarlyCancel' BY <1>1 DEF NoEarlyCancel
<1>8. ASSUME NEW c \in Clients, apc'[c] \in {"holding", "signalled"} PROVE HandleIsCurrent(c)'
  <2>1. ajob[c] \in JobIds /\ HandleIsCurrent(c) BY <1>1, <1>8 DEF HandlesAreCurrent
  <2>2. BodyIsOver(ajob[c]) => BodyIsOver(ajob[c])' BY <1>1, <2>1 DEF BodyIsOver, Over
  <2>3. CASE handle[c] = t
    <3>1. ajob[c] = cur[t]
      BY <1>1, <2>1, <2>3, ThreadsAssumption DEF HandleIsCurrent, HandleIsLive
    <3>2. attempts[cur[t]] > 0 BY <1>1 DEF OwnedRowWasCounted
    <3>3. BodyIsOver(ajob[c])' BY <1>1, <1>4, <3>1, <3>2 DEF BodyIsOver, Over
    <3> QED BY <1>1, <2>1, <2>3, <3>3 DEF HandleIsCurrent
  <2>4. CASE handle[c] # t
    <3>1. handle'[c] = handle[c] BY <1>1, <2>4
    <3>2. ASSUME handle[c] # NoThread
          PROVE  /\ registry'[ajob[c]] = handle[c]
                 /\ apc[c] = "signalled" => event'[handle[c]]
      <4>1. handle[c] \in Threads /\ registry[ajob[c]] = handle[c]
        BY <2>1, <3>2 DEF HandleIsCurrent
      <4>2. Owns(handle[c]) /\ cur[handle[c]] = ajob[c]
        BY <2>1, <3>2, <4>1 DEF HandleIsLive
      <4>3. ajob[c] # cur[t] BY <1>4, <2>4, <4>1, <4>2
      <4> QED BY <1>1, <2>1, <2>4, <3>2, <4>1, <4>3 DEF HandleIsCurrent
    <3> QED BY <1>1, <2>1, <2>2, <3>1, <3>2 DEF HandleIsCurrent
  <2> QED BY <2>3, <2>4
<1> QED BY <1>3, <1>5, <1>6, <1>7, <1>8 DEF HandlesAreCurrent

LEMMA RunnerHandle ==
  ASSUME Inv, LockInv, HandleInv, NEW t \in Threads, Runner(t) PROVE HandleInv'
<1> USE DEF Inv, WellTyped, Types, HandlesRest, HasBody, Over, Owns, Step, rows, cancels, api
<1>1. CASE AcquireLock(t) \/ Defer(t) \/ LeaveEarly(t) \/ Unlock(t)
  <2>1. /\ \/ pc[t] = "claimed" /\ pc' = [pc EXCEPT ![t] = "locked"]
           \/ pc[t] = "claimed" /\ pc' = [pc EXCEPT ![t] = "returned"]
           \/ pc[t] = "locked" /\ pc' = [pc EXCEPT ![t] = "unlocking"]
           \/ pc[t] = "unlocking" /\ pc' = [pc EXCEPT ![t] = "returned"]
        /\ UNCHANGED <<rows, worker, cur, cancels, api, used>>
    BY <1>1 DEF AcquireLock, Defer, LeaveEarly, Unlock
  <2>2. HandlesRest BY <2>1
  <2> QED BY <2>2, HandlesRestKeep
<1>2. CASE RecordRunStart(t) \/ ReturnFromRun(t) \/ RaiseFromRun(t)
  <2>1. /\ \/ pc[t] = "registered" /\ pc' = [pc EXCEPT ![t] = "running"]
           \/ pc[t] = "running" /\ pc' = [pc EXCEPT ![t] = "ran"]
        /\ UNCHANGED <<rows, worker, cur, cancels, api, used>>
    BY <1>2 DEF RecordRunStart, ReturnFromRun, RaiseFromRun
  <2>2. HandlesRest BY <2>1
  <2> QED BY <2>2, HandlesRestKeep
<1> HIDE DEF Inv, HandlesRest
<1> QED BY <1>1, <1>2, RegisterHandle, UnregisterHandle DEF Runner

\* Claim(t) counts an attempt: what was left of an earlier one is not the first.
LEMMA ClaimHandle ==
  ASSUME Inv, LockInv, HandleInv, NEW t \in Threads, Claim(t) PROVE HandleInv'
<1> USE DEF HandleInv, Inv, WellTyped, Types, Placed, Owns
<1>1. /\ pc[t] = "selected" /\ status[cur[t]] = "pending" /\ cur[t] \in JobIds
      /\ pc' = [pc EXCEPT ![t] = "claimed"]
      /\ status' = [status EXCEPT ![cur[t]] = "running"]
      /\ attempts' = [attempts EXCEPT ![cur[t]] = @ + 1]
      /\ UNCHANGED <<kind, worker, cur, registry, event, apc, ajob, handle, used>>
  BY DEF Claim, StillPending, cancels, api
<1>2. \A s \in Threads : Owns(s) => s # t /\ cur[s] # cur[t]
  BY <1>1 DEF Ownership, OwnedRowIsActive
<1>3. OwnedRowWasCounted' BY <1>1, <1>2 DEF OwnedRowWasCounted
<1>4. HandleIsLive'
  <2>1. \A s \in Threads : HasBody(s)' <=> HasBody(s) BY <1>1 DEF HasBody
  <2>2. ASSUME NEW j \in JobIds, registry'[j] # NoThread
        PROVE  cur'[registry'[j]] = j /\ HasBody(registry[j])'
    <3>1. PICK s \in Threads : s = registry[j] BY <1>1, <2>2
    <3>2. cur[s] = j /\ HasBody(s) BY <1>1, <2>2, <3>1 DEF HandleIsLive, HasBody
    <3>3. HasBody(s)' BY <2>1, <3>2
    <3> QED BY <1>1, <3>1, <3>2, <3>3 DEF HasBody
  <2>3. ASSUME NEW s \in Threads, HasBody(s)' PROVE registry'[cur'[s]] = s
    BY <1>1, <2>1, <2>3 DEF HandleIsLive, HasBody
  <2> QED BY <1>1, <2>2, <2>3 DEF HandleIsLive, HasBody
<1>5. CancelReachesBody' BY <1>1, <1>2 DEF CancelReachesBody
<1>6. NoEarlyCancel' BY <1>1, <1>2 DEF NoEarlyCancel
<1>7. ASSUME NEW c \in Clients, apc'[c] \in {"holding", "signalled"} PROVE HandleIsCurrent(c)'
  <2>1. ajob[c] \in JobIds /\ HandleIsCurrent(c) BY <1>1, <1>7 DEF HandlesAreCurrent
  <2>2. BodyIsOver(ajob[c]) => BodyIsOver(ajob[c])' BY <1>1, <1>2, <2>1 DEF BodyIsOver, Over
  <2> QED BY <1>1, <2>1, <2>2 DEF HandleIsCurrent
<1> QED BY <1>3, <1>4, <1>5, <1>6, <1>7 DEF HandlesAreCurrent

LEMMA LoopHandle ==
  ASSUME Inv, LockInv, HandleInv, NEW t \in Threads, Loop(t) \/ Fault(t) PROVE HandleInv'
<1> USE DEF Inv, WellTyped, Types, HandlesRest, HasBody, Over, Owns, Step, Idle, Spend,
            rows, cancels, api
<1>1. CASE Select(t)
  <2>1. /\ pc[t] = "idle" /\ pc' = [pc EXCEPT ![t] = "selected"]
        /\ \E j \in JobIds : cur' = [cur EXCEPT ![t] = j]
        /\ UNCHANGED <<rows, worker, cancels, api, used>>
    BY <1>1 DEF Select
  <2>2. HandlesRest BY <2>1
  <2> QED BY <2>2, HandlesRestKeep
<1>2. CASE SkipDisabled(t) \/ RunHandler(t) \/ JobFails(t) \/ ReadAttempts(t)
  <2>1. /\ \/ pc[t] = "claimed" /\ pc' = [pc EXCEPT ![t] = "returned"]
           \/ pc[t] = "returned" /\ pc' = [pc EXCEPT ![t] = "failing"]
           \/ pc[t] = "failing" /\ pc' = [pc EXCEPT ![t] = "deciding"]
        /\ UNCHANGED <<rows, worker, cur, cancels, api, used>>
    BY <1>2 DEF SkipDisabled, RunHandler, JobFails, ReadAttempts
  <2>2. HandlesRest BY <2>1
  <2> QED BY <2>2, HandlesRestKeep
<1>3. CASE LoseClaim(t) \/ MarkComplete(t) \/ Requeue(t) \/ MarkFailed(t) \/ HandlerFault(t)
  <2>1. /\ pc[t] \in {"selected", "returned", "failing", "deciding"}
        /\ pc' = [pc EXCEPT ![t] = "idle"] /\ cur' = [cur EXCEPT ![t] = NoJob]
        /\ UNCHANGED <<kind, attempts, worker, cancels, api>>
        /\ used'.retries = used.retries
    BY <1>3 DEF LoseClaim, MarkComplete, Requeue, MarkFailed, HandlerFault
  <2>2. status' = status \/ \E r \in {"success", "pending", "error"} :
                               status' = [status EXCEPT ![cur[t]] = r]
    BY <1>3 DEF LoseClaim, MarkComplete, Requeue, MarkFailed, HandlerFault, Write
  <2>3. HandlesRest BY <2>1, <2>2
  <2> QED BY <2>3, HandlesRestKeep
<1>4. CASE RunStateFault(t) \/ CompleteFault(t)
  <2>1. /\ \/ pc[t] \in {"registered", "running"} /\ pc' = [pc EXCEPT ![t] = "ran"]
           \/ pc[t] = "returned" /\ pc' = [pc EXCEPT ![t] = "failing"]
        /\ UNCHANGED <<rows, worker, cur, cancels, api>>
    BY <1>4 DEF RunStateFault, CompleteFault
  <2>2. used'.retries = used.retries BY <1>4 DEF RunStateFault, CompleteFault
  <2>3. HandlesRest BY <2>1, <2>2
  <2> QED BY <2>3, HandlesRestKeep
<1> HIDE DEF Inv, HandlesRest
<1> QED BY <1>1, <1>2, <1>3, <1>4, ClaimHandle DEF Loop, Fault

\* A request's step leaves the others' handles as they are.
Requesting(c) ==
  /\ UNCHANGED <<kind, attempts, worker, pc, cur, registry>> /\ used'.retries = used.retries
  /\ \A d \in Clients \ {c} : apc'[d] = apc[d] /\ ajob'[d] = ajob[d] /\ handle'[d] = handle[d]
  /\ \A t \in Threads : event[t] => event'[t]
  /\ \A j \in JobIds : status[j] # "absent" => status'[j] # "absent"

LEMMA RequestingKeeps ==
  ASSUME Inv, HandleInv, NEW c \in Clients, Requesting(c),
         \A j \in JobIds : status'[j] = "cancelled" => status[j] = "cancelled",
         apc'[c] \in {"holding", "signalled"} => HandleIsCurrent(c)'
  PROVE  HandleInv'
<1> USE DEF HandleInv, Inv, WellTyped, Types, Placed, Requesting
<1>1. OwnedRowWasCounted' BY DEF OwnedRowWasCounted, Owns
<1>2. HandleIsLive' BY DEF HandleIsLive
<1>3. CancelReachesBody' BY DEF CancelReachesBody
<1>4. NoEarlyCancel' BY DEF NoEarlyCancel
<1>5. ASSUME NEW d \in Clients, apc'[d] \in {"holding", "signalled"} PROVE HandleIsCurrent(d)'
  <2>1. CASE d = c BY <1>5, <2>1
  <2>2. CASE d # c
    <3>1. ajob[d] \in JobIds /\ HandleIsCurrent(d) BY <1>5, <2>2 DEF HandlesAreCurrent
    <3>2. BodyIsOver(ajob[d]) => BodyIsOver(ajob[d])' BY <2>2, <3>1 DEF BodyIsOver, Over, Owns
    <3> QED BY <2>2, <3>1, <3>2 DEF HandleIsCurrent
  <2> QED BY <2>1, <2>2
<1> QED BY <1>1, <1>2, <1>3, <1>4, <1>5 DEF HandlesAreCurrent

\* The event a request fetched belongs to a module's body, whose pool is up.
LEMMA LookupHandle ==
  ASSUME Inv, LockInv, HandleInv, NEW c \in Clients, CancelLookup(c) PROVE HandleInv'
<1> USE DEF Inv, WellTyped, Types, Placed
<1>1. /\ apc[c] = "checked" /\ registry[ajob[c]] # NoThread
      /\ handle' = [handle EXCEPT ![c] = registry[ajob[c]]]
      /\ apc' = [apc EXCEPT ![c] = "holding"]
      /\ UNCHANGED <<rows, worker, threads, cancels, ajob, used>>
  BY DEF CancelLookup
<1>2. Requesting(c) BY <1>1 DEF Requesting, rows, threads, cancels
<1>3. PICK t \in Threads : t = registry[ajob[c]] BY <1>1
<1>4. ajob[c] \in JobIds /\ cur[t] = ajob[c] /\ HasBody(t)
  BY <1>1, <1>3 DEF HandleInv, HandleIsLive, HasBody
<1>5. kind[ajob[c]] \in Modules BY <1>4 DEF LockInv, BodiesAreModules, Kind
<1>6. WorkerOf(t) = "BACKGROUND" /\ status[ajob[c]] # "absent"
  BY <1>4, <1>5, KindsAssumption DEF HasBody, Ownership, InHand, PartitionOf
<1>7. worker["BACKGROUND"] # "down" BY <1>4, <1>6 DEF HasBody, Ownership
<1>8. HandleIsCurrent(c)'
  BY <1>1, <1>5, <1>6, <1>7 DEF HandleIsCurrent, rows, cancels
<1> QED BY <1>1, <1>2, <1>8, RequestingKeeps DEF rows

LEMMA SignalHandle ==
  ASSUME Inv, LockInv, HandleInv, NEW c \in Clients, CancelSignal(c) PROVE HandleInv'
<1> USE DEF Inv, WellTyped, Types, Placed
<1>1. /\ apc[c] = "holding"
      /\ event' = [t \in Threads |-> event[t] \/ t = handle[c]]
      /\ apc' = [apc EXCEPT ![c] = "signalled"]
      /\ UNCHANGED <<rows, worker, threads, registry, ajob, handle, used>>
  BY DEF CancelSignal
<1>2. Requesting(c)
  <2>1. \A t \in Threads : event[t] => event'[t] BY <1>1
  <2> QED BY <1>1, <2>1 DEF Requesting, rows, threads
<1>3. HandleIsCurrent(c) /\ ajob[c] \in JobIds BY <1>1 DEF HandleInv, HandlesAreCurrent
<1>4. BodyIsOver(ajob[c]) => BodyIsOver(ajob[c])'
  BY <1>1, <1>3 DEF BodyIsOver, Over, Owns, rows, threads
<1>5. handle[c] # NoThread => event'[handle[c]] BY <1>1
<1>6. HandleIsCurrent(c)' BY <1>1, <1>3, <1>4, <1>5 DEF HandleIsCurrent, rows
<1> QED BY <1>1, <1>2, <1>6, RequestingKeeps DEF rows

\* cancel_running_job: the body of the row it marks has the event, unless the
\* row is past its first attempt.
LEMMA MarkHandle ==
  ASSUME Inv, LockInv, HandleInv, NEW c \in Clients, CancelMark(c) PROVE HandleInv'
<1> USE DEF HandleInv, Inv, WellTyped, Types, Placed
<1>1. /\ apc[c] = "signalled" /\ ajob[c] \in JobIds
      /\ status' = [status EXCEPT ![ajob[c]] =
           IF status[ajob[c]] = "running" THEN "cancelled" ELSE @]
      /\ apc' = [apc EXCEPT ![c] = "idle"] /\ ajob' = [ajob EXCEPT ![c] = NoJob]
      /\ handle' = [handle EXCEPT ![c] = NoThread]
      /\ UNCHANGED <<kind, attempts, worker, pc, cur, registry, event, used>>
  BY DEF CancelMark, CanCancel, Reply, threads, cancels
<1>2. HandleIsCurrent(c) BY <1>1 DEF HandlesAreCurrent
<1>3. ASSUME NEW t \in Threads, Owns(t), cur[t] = ajob[c], attempts[cur[t]] = 1, used.retries = 0,
             ~Over(t)
      PROVE  HasBody(t) /\ event[t]
  <2>1. handle[c] \in Threads BY <1>2, <1>3 DEF HandleIsCurrent, BodyIsOver
  <2>2. registry[ajob[c]] = handle[c] /\ event[handle[c]]
    BY <1>1, <1>2, <2>1, ThreadsAssumption DEF HandleIsCurrent
  <2>3. HasBody(handle[c]) /\ cur[handle[c]] = ajob[c]
    BY <1>1, <2>1, <2>2, ThreadsAssumption DEF HandleIsLive, HasBody
  <2>4. Owns(handle[c]) BY <2>3 DEF HasBody, Owns
  <2>5. handle[c] = t BY <1>3, <2>1, <2>3, <2>4 DEF Ownership, SingleOwner
  <2> QED BY <2>2, <2>3, <2>5
<1>4. OwnedRowWasCounted' BY <1>1 DEF OwnedRowWasCounted, Owns
<1>5. HandleIsLive' BY <1>1 DEF HandleIsLive
<1>6. CancelReachesBody'
  <2> SUFFICES ASSUME NEW t \in Threads, pc[t] \in {"registered", "running"},
                      status'[cur[t]] = "cancelled", attempts[cur[t]] = 1, used.retries = 0
               PROVE  event[t]
    BY <1>1 DEF CancelReachesBody
  <2>1. Owns(t) /\ ~Over(t) /\ cur[t] \in JobIds BY DEF Owns, Over
  <2>2. CASE cur[t] = ajob[c] BY <1>3, <2>1, <2>2
  <2>3. CASE cur[t] # ajob[c] BY <1>1, <2>1, <2>3 DEF CancelReachesBody
  <2> QED BY <2>2, <2>3
<1>7. NoEarlyCancel'
  <2> SUFFICES ASSUME NEW t \in Threads, pc[t] \in {"claimed", "locked"},
                      attempts[cur[t]] = 1, used.retries = 0
               PROVE  status'[cur[t]] # "cancelled"
    BY <1>1 DEF NoEarlyCancel
  <2>1. Owns(t) /\ ~Over(t) /\ ~HasBody(t) /\ cur[t] \in JobIds BY DEF Owns, Over, HasBody
  <2>2. cur[t] # ajob[c] BY <1>3, <2>1
  <2> QED BY <1>1, <2>1, <2>2 DEF NoEarlyCancel
<1>8. ASSUME NEW d \in Clients, apc'[d] \in {"holding", "signalled"} PROVE HandleIsCurrent(d)'
  <2>1. d # c /\ ajob[d] \in JobIds /\ HandleIsCurrent(d) BY <1>1, <1>8 DEF HandlesAreCurrent
  <2>2. BodyIsOver(ajob[d]) => BodyIsOver(ajob[d])' BY <1>1, <2>1 DEF BodyIsOver, Over, Owns
  <2> QED BY <1>1, <2>1, <2>2 DEF HandleIsCurrent
<1> QED BY <1>4, <1>5, <1>6, <1>7, <1>8 DEF HandlesAreCurrent

LEMMA CancelHandle ==
  ASSUME Inv, LockInv, HandleInv, NEW c \in Clients, Cancel(c) PROVE HandleInv'
<1> USE DEF Inv, WellTyped, Types, Requesting, rows, threads, cancels, api
<1>1. ASSUME NEW j \in JobIds, CancelCheck(c, j) PROVE HandleInv'
  <2>1. /\ apc' = [apc EXCEPT ![c] = "checked"] /\ ajob' = [ajob EXCEPT ![c] = j]
        /\ UNCHANGED <<rows, worker, threads, cancels, handle>>
        /\ used'.retries = used.retries
    BY <1>1 DEF CancelCheck, Spend
  <2>2. Requesting(c) BY <2>1
  <2>3. apc'[c] = "checked" BY <2>1
  <2> QED BY <2>1, <2>2, <2>3, RequestingKeeps
<1>2. CASE CancelRefused(c)
  <2>1. /\ apc' = [apc EXCEPT ![c] = "idle"] /\ ajob' = [ajob EXCEPT ![c] = NoJob]
        /\ handle' = [handle EXCEPT ![c] = NoThread]
        /\ UNCHANGED <<rows, worker, threads, cancels, used>>
    BY <1>2 DEF CancelRefused, Reply
  <2>2. Requesting(c) BY <2>1
  <2>3. apc'[c] = "idle" BY <2>1
  <2> QED BY <2>1, <2>2, <2>3, RequestingKeeps
<1> HIDE DEF Inv, Requesting
<1> QED BY <1>1, <1>2, LookupHandle, SignalHandle, MarkHandle DEF Cancel

\* A retry starts the count over, so nothing is promised of it; a row it or the
\* purge touches is in nobody's hands.
LEMMA TableHandle ==
  ASSUME Inv, LockInv, HandleInv, Table PROVE HandleInv'
<1> USE DEF Inv, WellTyped, Types, Placed, threads, cancels, api
<1>1. ASSUME NEW j \in JobIds, NEW k \in Kinds, NEW p \in Priorities, NEW d \in BOOLEAN,
             Enqueue(j, k, p, d)
      PROVE  HandleInv'
  <2>1. /\ status[j] = "absent" /\ status' = [status EXCEPT ![j] = "pending"]
        /\ kind' = [kind EXCEPT ![j] = k]
        /\ UNCHANGED <<attempts, worker, threads, cancels, api, used>>
    BY <1>1 DEF Enqueue, NextId
  <2>2. HandlesRest BY <2>1 DEF HandlesRest, HasBody, Over, Owns
  <2> QED BY <2>2, HandlesRestKeep
<1>2. ASSUME NEW j \in JobIds, BackoffElapses(j) PROVE HandleInv'
  <2>1. HandlesRest BY <1>2 DEF BackoffElapses, HandlesRest, HasBody, Over, Owns
  <2> QED BY <2>1, HandlesRestKeep
<1>3. ASSUME NEW j \in JobIds, CleanupJobs(j) PROVE HandleInv'
  <2>1. HandlesRest BY <1>3 DEF CleanupJobs, HandlesRest, HasBody, Over, Owns
  <2> QED BY <2>1, HandlesRestKeep
<1>4. ASSUME NEW j \in JobIds, RetryJob(j) PROVE HandleInv'
  <2> USE DEF HandleInv
  <2>1. /\ status[j] \in {"error", "success"} /\ status' = [status EXCEPT ![j] = "pending"]
        /\ attempts' = [attempts EXCEPT ![j] = 0]
        /\ UNCHANGED <<kind, worker, threads, cancels, api>>
        /\ used'.retries # 0
    BY <1>4 DEF RetryJob, CanRetry, Write, Spend
  <2>2. \A t \in Threads : Owns(t) => cur[t] # j BY <2>1, Unowned
  <2>3. OwnedRowWasCounted' BY <2>1, <2>2 DEF OwnedRowWasCounted, Owns
  <2>4. HandleIsLive' BY <2>1 DEF HandleIsLive
  <2>5. CancelReachesBody' BY <2>1 DEF CancelReachesBody
  <2>6. NoEarlyCancel' BY <2>1 DEF NoEarlyCancel
  <2>7. HandlesAreCurrent' BY <2>1 DEF HandlesAreCurrent, HandleIsCurrent
  <2> QED BY <2>3, <2>4, <2>5, <2>6, <2>7
<1> HIDE DEF Inv
<1> QED BY <1>1, <1>2, <1>3, <1>4 DEF Table

\* Recovery gives attempts back, but only in a pool that was down: no request
\* holds a handle there.
LEMMA ProcessHandle ==
  ASSUME Inv, LockInv, HandleInv, Process PROVE HandleInv'
<1> USE DEF HandleInv, Inv, WellTyped, Types, Placed
<1>1. ASSUME NEW w \in Workers, StartWorker(w) PROVE HandleInv'
  <2>1. /\ worker[w] = "down" /\ worker' = [worker EXCEPT ![w] = "up"]
        /\ status' = [j \in JobIds |-> IF j \in Stuck(w) THEN "pending" ELSE status[j]]
        /\ attempts' = [j \in JobIds |-> IF j \in Stuck(w) THEN GivenBack(attempts[j])
                                         ELSE attempts[j]]
        /\ pc' = [t \in Threads |-> IF WorkerOf(t) = w THEN "idle" ELSE pc[t]]
        /\ UNCHANGED <<kind, cur, registry, event, apc, ajob, handle, used>>
    BY <1>1 DEF StartWorker, cancels, api
  <2>2. ASSUME NEW t \in Threads, pc[t] # "off" PROVE pc'[t] = pc[t]
    BY <2>1, <2>2 DEF Ownership
  <2>3. ASSUME NEW t \in Threads, pc[t] = "off" PROVE pc'[t] \in {"off", "idle"}
    BY <2>1, <2>3
  <2>4. ASSUME NEW t \in Threads, Owns(t)
        PROVE  cur[t] \in JobIds /\ attempts'[cur[t]] = attempts[cur[t]]
               /\ status'[cur[t]] = status[cur[t]]
    BY <2>1, <2>4 DEF Ownership, InHand, Owns, Stuck
  <2>5. OwnedRowWasCounted' BY <2>1, <2>2, <2>3, <2>4 DEF OwnedRowWasCounted, Owns
  <2>6. HandleIsLive'
    <3>1. \A t \in Threads : HasBody(t)' <=> HasBody(t) BY <2>2, <2>3 DEF HasBody
    <3>2. ASSUME NEW j \in JobIds, registry'[j] # NoThread
          PROVE  cur'[registry'[j]] = j /\ HasBody(registry[j])'
      <4>1. PICK t \in Threads : t = registry[j] BY <2>1, <3>2
      <4>2. cur[t] = j /\ HasBody(t) BY <2>1, <3>2, <4>1 DEF HandleIsLive, HasBody
      <4>3. HasBody(t)' BY <3>1, <4>2
      <4> QED BY <2>1, <4>1, <4>2, <4>3 DEF HasBody
    <3>3. ASSUME NEW t \in Threads, HasBody(t)' PROVE registry'[cur'[t]] = t
      BY <2>1, <3>1, <3>3 DEF HandleIsLive, HasBody
    <3> QED BY <2>1, <3>2, <3>3 DEF HandleIsLive, HasBody
  <2>7. CancelReachesBody' BY <2>1, <2>2, <2>3, <2>4 DEF CancelReachesBody, Owns
  <2>8. NoEarlyCancel' BY <2>1, <2>2, <2>3, <2>4 DEF NoEarlyCancel, Owns
  <2>9. ASSUME NEW c \in Clients, apc'[c] \in {"holding", "signalled"} PROVE HandleIsCurrent(c)'
    <3>1. ajob[c] \in JobIds /\ HandleIsCurrent(c) BY <2>1, <2>9 DEF HandlesAreCurrent
    <3>2. w = "WEBHOOK" /\ PartitionOf(kind[ajob[c]]) = "BACKGROUND"
      BY <2>1, <3>1, KindsAssumption DEF HandleIsCurrent, PartitionOf
    <3>3. ajob[c] \notin Stuck(w) BY <3>2 DEF Stuck
    <3>4. status'[ajob[c]] = status[ajob[c]] /\ attempts'[ajob[c]] = attempts[ajob[c]]
      BY <2>1, <3>1, <3>3
    <3>5. BodyIsOver(ajob[c]) => BodyIsOver(ajob[c])'
      BY <2>1, <2>2, <2>3, <3>4 DEF BodyIsOver, Over, Owns
    <3> QED BY <2>1, <3>1, <3>2, <3>4, <3>5 DEF HandleIsCurrent
  <2> QED BY <2>5, <2>6, <2>7, <2>8, <2>9 DEF HandlesAreCurrent
<1>2. ASSUME NEW w \in Workers, StopWorker(w) PROVE HandleInv'
  <2>1. HandlesRest
    BY <1>2 DEF StopWorker, HandlesRest, HasBody, Over, Owns, rows, threads, cancels, api
  <2> QED BY <2>1, HandlesRestKeep
<1>3. CASE Crash
  <2>1. /\ pc' = [t \in Threads |-> "off"] /\ registry' = [j \in JobIds |-> NoThread]
        /\ apc' = [c \in Clients |-> "idle"]
    BY <1>3 DEF Crash
  <2> QED BY <2>1
      DEF OwnedRowWasCounted, HandleIsLive, CancelReachesBody, NoEarlyCancel, HandlesAreCurrent,
          Owns
<1> HIDE DEF Inv, HandleInv
<1> QED BY <1>1, <1>2, <1>3 DEF Process

LEMMA HandleStep == Inv /\ LockInv /\ HandleInv /\ [Next]_vars => HandleInv'
<1> SUFFICES ASSUME Inv, LockInv, HandleInv, [Next]_vars PROVE HandleInv' OBVIOUS
<1>1. CASE Next
  BY <1>1, RunnerHandle, LoopHandle, CancelHandle, TableHandle, ProcessHandle DEF Next
<1>2. CASE UNCHANGED vars
  <2>1. HandlesRest
    BY <1>2 DEF vars, rows, threads, cancels, api, HandlesRest, HasBody, Over, Owns
  <2> QED BY <2>1, HandlesRestKeep
<1> QED BY <1>1, <1>2

\* A request that finds a handle finds that of the thread running the row, and
\* a row on its first attempt is marked cancelled only after its body's event
\* was set, in every interleaving of cancel_module_execution with the body,
\* its retries and the restarts.
THEOREM CancelFindsItsBody == Spec => []CancelIsHeard
<1>1. Init => Inv /\ LockInv /\ HandleInv BY InitInv, InitLock, InitHandle
<1>2. (Inv /\ LockInv /\ HandleInv) /\ [Next]_vars => (Inv /\ LockInv /\ HandleInv)'
  BY StepInv, LockStep, HandleStep
<1>3. HandleInv => CancelIsHeard BY DEF HandleInv, CancelIsHeard
<1> QED BY <1>1, <1>2, <1>3, PTL DEF Spec

---------------------------------------------------------------------------
(* Dedupe.  As long as nobody retries a finished row or cancels a running  *)
(* one, rows only move between pending, running and an end.                *)

NobodyCancelled ==
  used.cancels = 0 =>
    (\A c \in Clients : apc[c] = "idle") /\ (\A j \in JobIds : status[j] # "cancelled")

QuietInv == NobodyCancelled /\ DedupeHolds

LEMMA InitQuiet == Init => QuietInv
BY DEF Init, QuietInv, NobodyCancelled, DedupeHolds, OneInFlight, InFlight

\* A step that puts no row in flight, unless a retry or a cancel is spent.
InFlightShrinks ==
  /\ used'.retries = 0 => used.retries = 0
  /\ used'.cancels = 0 => used.cancels = 0
  /\ used'.cancels = 0 /\ used'.retries = 0 =>
       /\ kind' = kind
       /\ \A j \in JobIds : status'[j] \in {"pending", "running"} =>
                              status[j] \in {"pending", "running"}
  /\ used'.cancels = 0 =>
       /\ \A c \in Clients : apc[c] = "idle" => apc'[c] = "idle"
       /\ \A j \in JobIds : status'[j] = "cancelled" => status[j] = "cancelled"

LEMMA InFlightShrinksKeeps ==
  ASSUME QuietInv, InFlightShrinks PROVE QuietInv'
<1>1. NobodyCancelled' BY DEF QuietInv, NobodyCancelled, InFlightShrinks
<1>2. DedupeHolds'
  BY DEF QuietInv, DedupeHolds, OneInFlight, InFlight, InFlightShrinks
<1> QED BY <1>1, <1>2 DEF QuietInv

LEMMA ThreadQuiet ==
  ASSUME Inv, QuietInv, NEW t \in Threads, Runner(t) \/ Loop(t) \/ Fault(t) PROVE QuietInv'
<1> USE DEF Inv, WellTyped, Types, Placed, rows, api, Spend, InFlightShrinks
<1>1. CASE Runner(t)
  <2>1. UNCHANGED <<rows, apc, used>>
    BY <1>1 DEF Runner, AcquireLock, Defer, LeaveEarly, Register, RecordRunStart, ReturnFromRun,
                RaiseFromRun, Unregister, Unlock
  <2>2. InFlightShrinks BY <2>1
  <2> QED BY <2>2, InFlightShrinksKeeps
<1>2. CASE Select(t) \/ LoseClaim(t) \/ SkipDisabled(t) \/ RunHandler(t) \/ JobFails(t)
           \/ ReadAttempts(t)
  <2>1. UNCHANGED <<rows, apc, used>>
    BY <1>2 DEF Select, LoseClaim, SkipDisabled, RunHandler, JobFails, ReadAttempts
  <2>2. InFlightShrinks BY <2>1
  <2> QED BY <2>2, InFlightShrinksKeeps
<1>3. CASE Claim(t)
  <2>1. /\ status[cur[t]] = "pending" /\ status' = [status EXCEPT ![cur[t]] = "running"]
        /\ UNCHANGED <<kind, apc, used>>
    BY <1>3 DEF Claim, StillPending
  <2>2. InFlightShrinks BY <2>1
  <2> QED BY <2>2, InFlightShrinksKeeps
\* The row the thread lets go was running: nobody cancelled it.
<1>4. CASE MarkComplete(t) \/ Requeue(t) \/ MarkFailed(t)
  <2>1. PICK r \in {"success", "pending", "error"} :
          /\ Owns(t) /\ status' = [status EXCEPT ![cur[t]] = r]
          /\ UNCHANGED <<kind, apc, used>>
    BY <1>4 DEF MarkComplete, Requeue, MarkFailed, Write, Owns
  <2>2. cur[t] \in JobIds /\ status[cur[t]] \in {"running", "cancelled"}
    BY <2>1 DEF Ownership, OwnedRowIsActive, Owns
  <2>3. used.cancels = 0 => status[cur[t]] = "running"
    BY <2>2 DEF QuietInv, NobodyCancelled
  <2>4. InFlightShrinks BY <2>1, <2>2, <2>3
  <2> QED BY <2>4, InFlightShrinksKeeps
<1>5. CASE Fault(t)
  <2>1. /\ UNCHANGED <<rows, apc>>
        /\ used'.retries = used.retries /\ used'.cancels = used.cancels
    BY <1>5 DEF Fault, RunStateFault, CompleteFault, HandlerFault
  <2>2. InFlightShrinks BY <2>1
  <2> QED BY <2>2, InFlightShrinksKeeps
<1> HIDE DEF Inv
<1> QED BY <1>1, <1>2, <1>3, <1>4, <1>5 DEF Loop

LEMMA CancelQuiet ==
  ASSUME Inv, QuietInv, NEW c \in Clients, Cancel(c) PROVE QuietInv'
<1> USE DEF Inv, WellTyped, Types, rows, InFlightShrinks
<1>1. ASSUME NEW j \in JobIds, CancelCheck(c, j) PROVE QuietInv'
  <2>1. used'.cancels # 0 BY <1>1 DEF CancelCheck, Spend
  <2> QED BY <2>1 DEF QuietInv, NobodyCancelled, DedupeHolds
<1>2. CASE ~\E j \in JobIds : CancelCheck(c, j)
  <2>1. apc[c] # "idle" /\ used' = used
    BY <1>2 DEF Cancel, CancelLookup, CancelRefused, CancelSignal, CancelMark
  <2>2. used'.cancels # 0 BY <2>1 DEF QuietInv, NobodyCancelled
  <2> QED BY <2>2 DEF QuietInv, NobodyCancelled, DedupeHolds
<1> QED BY <1>1, <1>2

\* enqueue_job looks for a row in flight and inserts in one transaction.
LEMMA TableQuiet ==
  ASSUME Inv, QuietInv, Table PROVE QuietInv'
<1> USE DEF Inv, WellTyped, Types, api, InFlightShrinks
<1>1. ASSUME NEW j \in JobIds, NEW k \in Kinds, NEW p \in Priorities, NEW d \in BOOLEAN,
             Enqueue(j, k, p, d)
      PROVE  QuietInv'
  <2>1. /\ status[j] = "absent" /\ ~Deduped(k)
        /\ status' = [status EXCEPT ![j] = "pending"] /\ kind' = [kind EXCEPT ![j] = k]
        /\ UNCHANGED <<apc, used>>
    BY <1>1 DEF Enqueue, NextId
  <2>2. NobodyCancelled' BY <2>1 DEF QuietInv, NobodyCancelled
  <2>3. ASSUME used.retries = 0, used.cancels = 0, NEW q \in Modules \cup ScanTypes
        PROVE  \A i, l \in InFlight(q)' : i = l
    <3>1. \A i, l \in InFlight(q) : i = l BY <2>3 DEF QuietInv, DedupeHolds, OneInFlight
    <3>2. CASE q = k
      <4>1. InFlight(q) = {} BY <2>1, <3>2 DEF Deduped
      <4>2. InFlight(q)' \subseteq {j} BY <2>1, <4>1 DEF InFlight
      <4> QED BY <4>2
    <3>3. CASE q # k
      <4>1. InFlight(q)' \subseteq InFlight(q) BY <2>1, <3>3 DEF InFlight
      <4> QED BY <3>1, <4>1
    <3> QED BY <3>2, <3>3
  <2>4. DedupeHolds' BY <2>1, <2>3 DEF DedupeHolds, OneInFlight
  <2> QED BY <2>2, <2>4 DEF QuietInv
<1>2. ASSUME NEW j \in JobIds, BackoffElapses(j) PROVE QuietInv'
  <2>1. InFlightShrinks BY <1>2 DEF BackoffElapses
  <2> QED BY <2>1, InFlightShrinksKeeps
<1>3. ASSUME NEW j \in JobIds, CleanupJobs(j) PROVE QuietInv'
  <2>1. UNCHANGED <<kind, apc, used>> BY <1>3 DEF CleanupJobs
  <2>2. \A i \in JobIds : status'[i] = status[i] \/ status'[i] = "deleted"
    BY <1>3 DEF CleanupJobs
  <2>3. InFlightShrinks BY <2>1, <2>2
  <2> QED BY <2>3, InFlightShrinksKeeps
<1>4. ASSUME NEW j \in JobIds, RetryJob(j) PROVE QuietInv'
  <2>1. /\ used'.retries # 0 /\ used'.cancels = used.cancels
        /\ status' = [status EXCEPT ![j] = "pending"] /\ UNCHANGED apc
    BY <1>4 DEF RetryJob, Write, Spend
  <2> QED BY <2>1 DEF QuietInv, NobodyCancelled, DedupeHolds
<1> HIDE DEF Inv
<1> QED BY <1>1, <1>2, <1>3, <1>4 DEF Table

LEMMA ProcessQuiet ==
  ASSUME Inv, QuietInv, Process PROVE QuietInv'
<1> USE DEF Inv, WellTyped, Types, rows, api, Spend, InFlightShrinks
<1>1. ASSUME NEW w \in Workers, StartWorker(w) PROVE QuietInv'
  <2>1. InFlightShrinks BY <1>1 DEF StartWorker, Stuck
  <2> QED BY <2>1, InFlightShrinksKeeps
<1>2. ASSUME NEW w \in Workers, StopWorker(w) PROVE QuietInv'
  <2>1. InFlightShrinks BY <1>2 DEF StopWorker
  <2> QED BY <2>1, InFlightShrinksKeeps
<1>3. CASE Crash
  <2>1. InFlightShrinks BY <1>3 DEF Crash
  <2> QED BY <2>1, InFlightShrinksKeeps
<1> HIDE DEF Inv
<1> QED BY <1>1, <1>2, <1>3 DEF Process

LEMMA QuietStep == Inv /\ QuietInv /\ [Next]_vars => QuietInv'
<1> SUFFICES ASSUME Inv, QuietInv, [Next]_vars PROVE QuietInv' OBVIOUS
<1>1. CASE Next
  BY <1>1, ThreadQuiet, CancelQuiet, TableQuiet, ProcessQuiet DEF Next
<1>2. CASE UNCHANGED vars
  <2>1. InFlightShrinks BY <1>2 DEF InFlightShrinks, vars, rows, api
  <2> QED BY <2>1, InFlightShrinksKeeps
<1> QED BY <1>1, <1>2

LEMMA QuietInvariance == Spec => [](Inv /\ LockInv /\ QuietInv)
<1>1. Init => Inv /\ LockInv /\ QuietInv BY InitInv, InitLock, InitQuiet
<1>2. (Inv /\ LockInv /\ QuietInv) /\ [Next]_vars => (Inv /\ LockInv /\ QuietInv)'
  BY StepInv, LockStep, QuietStep
<1> QED BY <1>1, <1>2, PTL DEF Spec

\* One row in flight per module and per kind of scan, through claims, failures,
\* backoff, faults and restarts, until the user retries or cancels one.
THEOREM DedupeIsKept == Spec => []DedupeHolds
<1>1. QuietInv => DedupeHolds BY DEF QuietInv
<1> QED BY <1>1, QuietInvariance, PTL

\* The module lock is then never found held: a holder and a claimer would be
\* two rows in flight.
THEOREM LockStaysFree == Spec => []LockIsBackstop
<1>1. ASSUME Inv, LockInv, QuietInv, used.retries = 0, used.cancels = 0,
             NEW t \in Threads, pc[t] = "claimed", Kind(t) \in Modules, ~LockFree(Kind(t))
      PROVE  FALSE
  <2> USE DEF Inv, WellTyped, Types, Placed, Owns
  <2>1. PICK s \in Threads : s = lock[Kind(t)] BY <1>1 DEF LockFree
  <2>2. Locked(s) /\ Kind(s) = Kind(t)
    BY <1>1, <2>1, ThreadsAssumption DEF LockInv, LockIsHeld
  <2>3. s # t /\ Owns(s) /\ Owns(t) BY <1>1, <2>2 DEF Locked
  <2>4. status[cur[s]] = "running" /\ status[cur[t]] = "running"
    BY <1>1, <2>3 DEF Ownership, OwnedRowIsActive, QuietInv, NobodyCancelled
  <2>5. cur[s] \in InFlight(Kind(t)) /\ cur[t] \in InFlight(Kind(t))
    BY <1>1, <2>2, <2>3, <2>4 DEF InFlight, Kind
  <2>6. cur[s] = cur[t] BY <1>1, <2>5 DEF QuietInv, DedupeHolds, OneInFlight
  <2> QED BY <1>1, <2>3, <2>6 DEF Ownership, SingleOwner
<1>2. Inv /\ LockInv /\ QuietInv => LockIsBackstop BY <1>1 DEF LockIsBackstop
<1> QED BY <1>2, QuietInvariance, PTL

---------------------------------------------------------------------------
(* Stranded rows: only the error handler's own failed UPDATE leaves one.   *)

LEMMA StrandedIsFinite == IsFiniteSet(Stranded)
<1>1. IsFiniteSet(JobIds) BY FS_Interval, SizesAssumption
<1>2. Stranded \in SUBSET JobIds BY DEF Stranded
<1> QED BY <1>1, <1>2, FS_Subset

LEMMA InitStranded == Init => StrandedOnlyByFaults
<1> SUFFICES ASSUME Init PROVE StrandedOnlyByFaults OBVIOUS
<1>1. Stranded = {} BY DEF Init, Stranded
<1> QED BY <1>1, FS_EmptySet DEF Init, StrandedOnlyByFaults

LEMMA FewerStranded ==
  ASSUME Inv, StrandedOnlyByFaults, Stranded' \subseteq Stranded, used'.faults >= used.faults,
         used'.faults \in Nat
  PROVE  StrandedOnlyByFaults'
<1>1. Stranded' \in SUBSET Stranded OBVIOUS
<1>2. IsFiniteSet(Stranded') /\ Cardinality(Stranded') <= Cardinality(Stranded)
  BY <1>1, StrandedIsFinite, FS_Subset
<1>3. Cardinality(Stranded) \in Nat /\ Cardinality(Stranded') \in Nat
  BY <1>2, StrandedIsFinite, FS_CardinalityType
<1>4. used.faults \in Nat BY DEF Inv, WellTyped, Types
<1> QED BY <1>2, <1>3, <1>4 DEF StrandedOnlyByFaults

\* A thread that keeps its row, or leaves it with another status than running.
LEMMA ThreadStrands ==
  ASSUME Inv, StrandedOnlyByFaults, NEW t \in Threads, Runner(t) \/ Loop(t) \/ Fault(t)
  PROVE  StrandedOnlyByFaults'
<1> USE DEF Inv, WellTyped, Types, Placed, Owns, Step, Idle, rows, Spend
<1>0. used'.faults \in Nat
  BY RunnerTypes, LoopTypes, FaultTypes DEF Inv, WellTyped, Types
<1>1. ASSUME UNCHANGED <<status, kind, worker, cur>>, used'.faults >= used.faults,
             \A s \in Threads : Owns(s)' <=> Owns(s)
      PROVE  StrandedOnlyByFaults'
  <2>1. Stranded' \subseteq Stranded BY <1>1 DEF Stranded
  <2> QED BY <1>0, <1>1, <2>1, FewerStranded
<1>2. CASE Runner(t)
  <2>1. UNCHANGED <<status, kind, worker, cur, used>> /\ \A s \in Threads : Owns(s)' <=> Owns(s)
    BY <1>2 DEF Runner, AcquireLock, Defer, LeaveEarly, Register, RecordRunStart, ReturnFromRun,
                RaiseFromRun, Unregister, Unlock
  <2> QED BY <1>1, <2>1
<1>3. CASE SkipDisabled(t) \/ RunHandler(t) \/ JobFails(t) \/ ReadAttempts(t)
           \/ RunStateFault(t) \/ CompleteFault(t)
  <2>1. /\ UNCHANGED <<status, kind, worker, cur>> /\ used'.faults >= used.faults
        /\ pc[t] \in {"claimed", "returned", "failing", "registered", "running"}
        /\ \E p \in {"returned", "failing", "deciding", "ran"} : pc' = [pc EXCEPT ![t] = p]
    BY <1>3 DEF SkipDisabled, RunHandler, JobFails, ReadAttempts, RunStateFault, CompleteFault
  <2>2. \A s \in Threads : Owns(s)' <=> Owns(s) BY <2>1
  <2> QED BY <1>1, <2>1, <2>2
<1>4. CASE Select(t) \/ LoseClaim(t)
  <2>1. /\ UNCHANGED <<status, kind, worker, used>>
        /\ pc[t] \in {"idle", "selected"}
        /\ \E p \in {"idle", "selected"} : pc' = [pc EXCEPT ![t] = p]
        /\ \A s \in Threads \ {t} : cur'[s] = cur[s]
    BY <1>4 DEF Select, LoseClaim
  <2>2. \A s \in Threads : (Owns(s)' <=> Owns(s)) /\ (Owns(s) => cur'[s] = cur[s]) BY <2>1
  <2>3. Stranded' \subseteq Stranded BY <2>1, <2>2 DEF Stranded
  <2> QED BY <1>0, <2>1, <2>3, FewerStranded
<1>5. CASE Claim(t)
  <2>1. /\ pc[t] = "selected" /\ pc' = [pc EXCEPT ![t] = "claimed"]
        /\ status' = [status EXCEPT ![cur[t]] = "running"]
        /\ UNCHANGED <<kind, worker, cur, used>>
    BY <1>5 DEF Claim
  <2>2. Owns(t)' /\ \A s \in Threads : Owns(s) => Owns(s)' BY <2>1
  <2>3. Stranded' \subseteq Stranded BY <2>1, <2>2 DEF Stranded
  <2> QED BY <1>0, <2>1, <2>3, FewerStranded
<1>6. ASSUME Owns(t), Idle(t) PROVE \A s \in Threads : Owns(s) /\ s # t => Owns(s)' /\ cur'[s] = cur[s]
  BY <1>6
<1>7. CASE MarkComplete(t) \/ Requeue(t) \/ MarkFailed(t)
  <2>1. /\ Owns(t) /\ Idle(t) /\ UNCHANGED <<kind, worker, used>>
        /\ \E r \in {"success", "pending", "error"} : status' = [status EXCEPT ![cur[t]] = r]
    BY <1>7 DEF MarkComplete, Requeue, MarkFailed, Write
  <2>2. Stranded' \subseteq Stranded
    <3> HIDE DEF Idle, Owns
    <3>1. ASSUME NEW j \in JobIds, status'[j] = "running" PROVE j # cur[t] /\ status[j] = "running"
      BY <2>1, <3>1
    <3> QED BY <1>6, <2>1, <3>1 DEF Stranded
  <2> QED BY <1>0, <2>1, <2>2, FewerStranded
\* The one step that strands a row spends a fault for it.
<1>8. CASE HandlerFault(t)
  <2>1. /\ Owns(t) /\ Idle(t) /\ UNCHANGED <<status, kind, worker>>
        /\ used'.faults = used.faults + 1
    BY <1>8 DEF HandlerFault
  <2>2. Stranded' \subseteq Stranded \cup {cur[t]}
    <3> HIDE DEF Idle, Owns
    <3> QED BY <1>6, <2>1 DEF Stranded
  <2>3. IsFiniteSet(Stranded \cup {cur[t]})
        /\ Cardinality(Stranded \cup {cur[t]}) <= Cardinality(Stranded) + 1
    <3>1. /\ IsFiniteSet(Stranded \cup {cur[t]})
          /\ Cardinality(Stranded \cup {cur[t]}) =
               IF cur[t] \in Stranded THEN Cardinality(Stranded) ELSE Cardinality(Stranded) + 1
      BY StrandedIsFinite, FS_AddElement
    <3>2. Cardinality(Stranded) \in Nat BY StrandedIsFinite, FS_CardinalityType
    <3> QED BY <3>1, <3>2
  <2>4. Stranded' \in SUBSET (Stranded \cup {cur[t]}) BY <2>2
  <2>5. IsFiniteSet(Stranded') /\ Cardinality(Stranded') <= Cardinality(Stranded \cup {cur[t]})
    BY <2>3, <2>4, FS_Subset
  <2>6. /\ Cardinality(Stranded) \in Nat /\ Cardinality(Stranded') \in Nat
        /\ Cardinality(Stranded \cup {cur[t]}) \in Nat
    BY <2>3, <2>5, StrandedIsFinite, FS_CardinalityType
  <2>7. used.faults \in Nat OBVIOUS
  <2> QED BY <2>1, <2>3, <2>5, <2>6, <2>7 DEF StrandedOnlyByFaults
<1> HIDE DEF Inv
<1> QED BY <1>2, <1>3, <1>4, <1>5, <1>7, <1>8 DEF Loop, Fault

\* No request makes a row running, and a restart recovers what the crash left.
LEMMA OthersStrand ==
  ASSUME Inv, StrandedOnlyByFaults, Table \/ Process \/ \E c \in Clients : Cancel(c)
  PROVE  StrandedOnlyByFaults'
<1> USE DEF Inv, WellTyped, Types, Placed, rows, threads, Spend
<1>0. used'.faults \in Nat
  BY TableTypes, ProcessTypes, CancelTypes DEF Inv, WellTyped, Types
<1>1. ASSUME UNCHANGED <<worker, pc, cur>>, used'.faults = used.faults,
             \A j \in JobIds : status'[j] = "running" => status[j] = "running" /\ kind'[j] = kind[j]
      PROVE  StrandedOnlyByFaults'
  <2>1. Stranded' \subseteq Stranded BY <1>1 DEF Stranded, Owns
  <2> QED BY <1>0, <1>1, <2>1, FewerStranded
<1>2. CASE \E c \in Clients : Cancel(c)
  <2>1. PICK c \in Clients : Cancel(c) BY <1>2
  <2>2. UNCHANGED <<worker, pc, cur, kind>> /\ used'.faults = used.faults
    BY <2>1 DEF Cancel, CancelCheck, CancelLookup, CancelRefused, CancelSignal, CancelMark
  <2>3. \/ status' = status
        \/ /\ ajob[c] \in JobIds
           /\ status' = [status EXCEPT ![ajob[c]] = IF status[ajob[c]] = "running" THEN "cancelled" ELSE @]
    BY <2>1 DEF Cancel, CancelCheck, CancelLookup, CancelRefused, CancelSignal, CancelMark, CanCancel
  <2> QED BY <1>1, <2>2, <2>3
<1>3. ASSUME NEW j \in JobIds, NEW k \in Kinds, NEW p \in Priorities, NEW d \in BOOLEAN,
             Enqueue(j, k, p, d)
      PROVE  StrandedOnlyByFaults'
  BY <1>1, <1>3 DEF Enqueue
<1>4. ASSUME NEW j \in JobIds, BackoffElapses(j) \/ RetryJob(j) PROVE StrandedOnlyByFaults'
  BY <1>1, <1>4 DEF BackoffElapses, RetryJob, Write
<1>5. ASSUME NEW j \in JobIds, CleanupJobs(j) PROVE StrandedOnlyByFaults'
  <2>1. \A i \in JobIds : status'[i] = status[i] \/ status'[i] = "deleted"
    BY <1>5 DEF CleanupJobs
  <2> QED BY <1>1, <1>5, <2>1 DEF CleanupJobs
<1>6. ASSUME NEW w \in Workers, StartWorker(w) PROVE StrandedOnlyByFaults'
  <2>1. /\ worker[w] = "down" /\ worker' = [worker EXCEPT ![w] = "up"]
        /\ status' = [j \in JobIds |-> IF j \in Stuck(w) THEN "pending" ELSE status[j]]
        /\ pc' = [t \in Threads |-> IF WorkerOf(t) = w THEN "idle" ELSE pc[t]]
        /\ UNCHANGED <<cur, kind, used>>
    BY <1>6 DEF StartWorker
  <2>2. \A t \in Threads : Owns(t) => Owns(t)' BY <2>1 DEF Ownership, Owns
  <2>3. ASSUME NEW j \in JobIds, status'[j] = "running"
        PROVE  status[j] = "running" /\ worker'[PartitionOf(kind[j])] = worker[PartitionOf(kind[j])]
    BY <2>1, <2>3 DEF Stuck, PartitionOf
  <2>4. Stranded' \subseteq Stranded BY <2>1, <2>2, <2>3 DEF Stranded
  <2> QED BY <1>0, <2>1, <2>4, FewerStranded
<1>7. ASSUME NEW w \in Workers, StopWorker(w) PROVE StrandedOnlyByFaults'
  <2>1. worker[w] = "up" /\ worker' = [worker EXCEPT ![w] = "stopping"]
        /\ UNCHANGED <<status, kind, pc, cur, used>>
    BY <1>7 DEF StopWorker
  <2>2. Stranded' \subseteq Stranded BY <2>1 DEF Stranded, Owns, PartitionOf
  <2> QED BY <1>0, <2>1, <2>2, FewerStranded
<1>8. CASE Crash
  <2>1. worker' = [w \in Workers |-> "down"] /\ used'.faults = used.faults BY <1>8 DEF Crash
  <2>2. Stranded' \subseteq Stranded BY <2>1 DEF Stranded, PartitionOf
  <2> QED BY <1>0, <2>1, <2>2, FewerStranded
<1> HIDE DEF Inv
<1> QED BY <1>2, <1>3, <1>4, <1>5, <1>6, <1>7, <1>8 DEF Table, Process

\* Every running row has a thread, or awaits its pool's recovery, or its error
\* handler's own UPDATE failed: process_pending_jobs loses a row on no other path.
THEOREM OnlyFaultsStrand == Spec => []StrandedOnlyByFaults
<1>1. Init => Inv /\ StrandedOnlyByFaults BY InitInv, InitStranded
<1>2. (Inv /\ StrandedOnlyByFaults) /\ [Next]_vars => (Inv /\ StrandedOnlyByFaults)'
  <2> SUFFICES ASSUME Inv, StrandedOnlyByFaults, [Next]_vars PROVE StrandedOnlyByFaults'
    BY StepInv
  <2>1. CASE Next BY <2>1, ThreadStrands, OthersStrand DEF Next
  <2>2. CASE UNCHANGED vars
    BY <2>2 DEF vars, rows, threads, StrandedOnlyByFaults, Stranded, Owns
  <2> QED BY <2>1, <2>2
<1> QED BY <1>1, <1>2, PTL DEF Spec

=============================================================================
