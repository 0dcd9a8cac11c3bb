----------------------------- MODULE JobLedger ------------------------------
(***************************************************************************)
(* What the job queue promises, without threads' positions, locks, cancel  *)
(* handles or retry counting: every job has one state, and at most one     *)
(* holder, which alone decides where the job goes next.                    *)
(***************************************************************************)
CONSTANTS Jobs, Holders, Nobody  \* Nobody is not a holder

VARIABLES state, holder

ledger == <<state, holder>>

Init ==
  /\ state  = [j \in Jobs |-> "absent"]
  /\ holder = [j \in Jobs |-> Nobody]

Free(j) == holder[j] = Nobody
Busy(h) == \E j \in Jobs : holder[j] = h

Move(j, from, to) ==
  /\ state[j] \in from
  /\ \E s \in to : state' = [state EXCEPT ![j] = s]

Submit(j) == Move(j, {"absent"}, {"pending"}) /\ UNCHANGED holder

Take(j, h) ==
  /\ Free(j) /\ ~Busy(h)
  /\ Move(j, {"pending"}, {"running"})
  /\ holder' = [holder EXCEPT ![j] = h]

\* The holder lets go: done, failed, or back in the queue.
Settle(j) ==
  /\ ~Free(j)
  /\ Move(j, {"running", "cancelled"}, {"success", "error", "pending"})
  /\ holder' = [holder EXCEPT ![j] = Nobody]

\* The holder lets go without a word: the job stays where it was.
Abandon(j) ==
  /\ ~Free(j)
  /\ holder' = [holder EXCEPT ![j] = Nobody]
  /\ UNCHANGED state

\* A job is cancelled under its holder, or after the holder abandoned it.
Cancel(j) == Move(j, {"running"}, {"cancelled"}) /\ UNCHANGED holder

\* A finished job is offered again on request.
Reopen(j) == Free(j) /\ Move(j, {"success", "error"}, {"pending"}) /\ UNCHANGED holder

Purge(J) ==
  /\ \A j \in J : Free(j) /\ state[j] \in {"success", "error"}
  /\ state' = [j \in Jobs |-> IF j \in J THEN "deleted" ELSE state[j]]
  /\ UNCHANGED holder

Crash == holder' = [j \in Jobs |-> Nobody] /\ UNCHANGED state

\* Jobs a crash left running are offered again; a held one never is.
Recover(J) ==
  /\ \A j \in J : Free(j) /\ state[j] = "running"
  /\ state' = [j \in Jobs |-> IF j \in J THEN "pending" ELSE state[j]]
  /\ UNCHANGED holder

Next ==
  \/ \E j \in Jobs : Submit(j) \/ Settle(j) \/ Abandon(j) \/ Cancel(j) \/ Reopen(j)
  \/ \E j \in Jobs, h \in Holders : Take(j, h)
  \/ \E J \in SUBSET Jobs : Purge(J) \/ Recover(J)
  \/ Crash

Spec == Init /\ [][Next]_ledger

=============================================================================
