----------------------------- MODULE MCJobQueue -----------------------------
(***************************************************************************)
(* JobQueue for TLC.  Threads of one pool are interchangeable, and so are  *)
(* cancel requests: the specification never tells two of them apart.       *)
(***************************************************************************)
EXTENDS JobQueueLedger, TLC

Symmetry == Permutations(BackgroundThreads) \cup Permutations(Clients)

=============================================================================
