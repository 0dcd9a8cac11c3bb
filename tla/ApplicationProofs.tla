------------------------- MODULE ApplicationProofs -------------------------
(***************************************************************************)
(* What Application promises for every number of signals and of passes of  *)
(* the scheduler loop: the body of cleanup runs once, a clean exit was     *)
(* asked for and has cleaned up, and a start-up that was given up leaves   *)
(* no server behind.                                                       *)
(***************************************************************************)
EXTENDS Application, TLAPS

\* The main thread before its handlers are in place, and while it waits for the
\* web server.
Unguarded == {"config", "poll", "deadline", "aborted", "gaveUp", "handlers"}
Waiting   == {"poll", "deadline", "aborted", "gaveUp"}

\* The handshake: a server that runs, or is about to, can be reached through the
\* holder or has yet to look at the flag.
Handshake ==
  /\ main \in Waiting => server # "absent"
  /\ ~holder => server \in {"absent", "import", "failing", "dead"}
  /\ main \in {"aborted", "gaveUp"} => aborted
  /\ NoOrphanServer

\* The body of cleanup has run as often as cleanup_done says, and nobody leaves
\* cleanup before that.
Counted ==
  /\ cleanups = IF cleanupDone THEN 1 ELSE 0
  /\ \A c \in Cleaners : cleaner[c] = "done" => cleanupDone

\* The main thread reaches its exit with code 0 past the handlers only over the
\* end of the loop and a request to stop.
AskedToGo ==
  /\ main \in Unguarded => ~registered
  /\ main = "waiting" => ~schedulerRunning
  /\ (main = "leaving" /\ code = 0 /\ registered) => shutdownRequested /\ ~schedulerRunning
  /\ CleanExit

\* The signal's thread is started once: a later signal never reaches first_signal.
OneThread == cleaner["thread"] # "idle" => shutdownRequested

ProcessInv == TypeOK /\ OneThread /\ Handshake /\ Counted /\ AskedToGo

---------------------------------------------------------------------------
(* Types. *)

LEMMA TypesStart == ApplicationAssumption /\ Init => TypeOK /\ OneThread
<1> SUFFICES ASSUME ApplicationAssumption, Init PROVE TypeOK /\ OneThread
  OBVIOUS
<1>1. signals \in 0..MaxSignals /\ ticks \in 0..MaxTicks /\ cleanups \in Nat
  BY DEF ApplicationAssumption, Init
<1>2. /\ cleaner \in [Cleaners -> {"idle", "test", "acquire", "held", "done"}]
      /\ \A c \in Cleaners : cleaner[c] = "held" <=> cleanupLock = c
  BY DEF Init, Cleaners, Nobody
<1> QED
  BY <1>1, <1>2 DEF Init, TypeOK, OneThread, Cleaners

\* Every step keeps the types, and cleanup's lock is held by whoever is in it.
LEMMA TypesKeep ==
  ApplicationAssumption /\ TypeOK /\ OneThread /\ [Next]_vars => TypeOK'
<1> SUFFICES ASSUME ApplicationAssumption /\ TypeOK /\ OneThread, [Next]_vars PROVE TypeOK'
  OBVIOUS
<1> USE DEF TypeOK, ApplicationAssumption, Cleaners, Nobody, launch, cleanup, asked, loop
<1> QED
  <2>1. CASE LoadConfig
    BY <2>1 DEF LoadConfig, Leave
  <2>2. CASE PollReady
    BY <2>2 DEF PollReady, Main
  <2>3. CASE PollBroken
    BY <2>3 DEF PollBroken, Leave, Broken, ServerAlive
  <2>4. CASE Deadline
    BY <2>4 DEF Deadline, Main
  <2>5. CASE Abort
    BY <2>5 DEF Abort, Main, Broken, ServerAlive
  <2>6. CASE AskExit
    BY <2>6 DEF AskExit
  <2>7. CASE RaiseTimeout
    BY <2>7 DEF RaiseTimeout, Leave
  <2>8. CASE SetupSignalHandlers
    BY <2>8 DEF SetupSignalHandlers, Main
  <2>9. CASE EnterLoop
    BY <2>9 DEF EnterLoop, Main
  <2>10. CASE LoopEnds
    BY <2>10 DEF LoopEnds, Main
  <2>11. CASE ShutdownSeen
    BY <2>11 DEF ShutdownSeen, Leave
  <2>12. CASE AtExit
    BY <2>12 DEF AtExit
  <2>13. CASE Exit
    BY <2>13 DEF Exit
  <2>14. CASE HoldServer
    BY <2>14 DEF HoldServer, Server, Up
  <2>15. CASE CheckAbort
    BY <2>15 DEF CheckAbort, Server, Up
  <2>16. CASE StopListening
    BY <2>16 DEF StopListening, Server, Up
  <2>17. CASE ServerThreadEnds
    BY <2>17 DEF ServerThreadEnds, Server, Up
  <2>18. CASE Listen
    BY <2>18 DEF Listen, Server, Up
  <2>19. CASE ServerFails
    BY <2>19 DEF ServerFails, Server, Up
  <2>20. CASE EarlySignal
    BY <2>20 DEF EarlySignal, Up, Leave
  <2>21. CASE FirstSignal
    <3>1. /\ cleaner' \in [Cleaners -> {"idle", "test", "acquire", "held", "done"}]
          /\ \A c \in Cleaners : cleaner'[c] = "held" <=> cleanupLock' = c
      BY <2>21 DEF FirstSignal, CleanupThread, OneThread
    <3>2. signals' \in 0..MaxSignals /\ ticks' = ticks /\ cleanups' = cleanups
      BY <2>21 DEF FirstSignal
    <3>3. {cleanupStarted', cleanupDone', shutdownRequested', schedulerRunning'} \subseteq BOOLEAN
      BY <2>21 DEF FirstSignal
    <3> QED
      BY <2>21, <3>1, <3>2, <3>3 DEF FirstSignal
  <2>22. CASE HardExit
    BY <2>22 DEF HardExit, Up
  <2>23. CASE LoopPass
    BY <2>23 DEF LoopPass
  <2>24. CASE LoopRaises
    BY <2>24 DEF LoopRaises, Leave, FatalCode
  <2>25. ASSUME NEW c \in Cleaners, TestDone(c) PROVE TypeOK'
    BY <2>25 DEF TestDone, Up
  <2>26. ASSUME NEW c \in Cleaners, Acquire(c) PROVE TypeOK'
    BY <2>26 DEF Acquire, Up, LockIsFree
  <2>27. ASSUME NEW c \in Cleaners, CleanUp(c) PROVE TypeOK'
    <3>1. /\ cleaner' \in [Cleaners -> {"idle", "test", "acquire", "held", "done"}]
          /\ \A d \in Cleaners : cleaner'[d] = "held" <=> cleanupLock' = d
      BY <2>27 DEF CleanUp
    <3>2. signals' = signals /\ ticks' = ticks /\ cleanups' \in Nat
      BY <2>27 DEF CleanUp
    <3>3. {cleanupStarted', cleanupDone', shutdownRequested', schedulerRunning'} \subseteq BOOLEAN
      BY <2>27 DEF CleanUp
    <3> QED
      BY <2>27, <3>1, <3>2, <3>3 DEF CleanUp
  <2>28. CASE UNCHANGED vars
    BY <2>28 DEF vars
  <2> QED
    BY <2>1, <2>2, <2>3, <2>4, <2>5, <2>6, <2>7, <2>8, <2>9, <2>10, <2>11, <2>12,
       <2>13, <2>14, <2>15, <2>16, <2>17, <2>18, <2>19, <2>20, <2>21, <2>22, <2>23,
       <2>24, <2>25, <2>26, <2>27, <2>28
    DEF Next, MainSteps, ServerSteps, CleanerSteps

\* Every step keeps the thread of the signal to one.
LEMMA ThreadKeeps == TypeOK /\ OneThread /\ [Next]_vars => OneThread'
<1> SUFFICES ASSUME TypeOK /\ OneThread, [Next]_vars PROVE OneThread'
  OBVIOUS
<1> USE DEF OneThread, TypeOK, Cleaners, launch, cleanup, asked, loop
<1> QED
  <2>1. CASE LoadConfig
    BY <2>1 DEF LoadConfig, Leave
  <2>2. CASE PollReady
    BY <2>2 DEF PollReady, Main
  <2>3. CASE PollBroken
    BY <2>3 DEF PollBroken, Leave, Broken, ServerAlive
  <2>4. CASE Deadline
    BY <2>4 DEF Deadline, Main
  <2>5. CASE Abort
    BY <2>5 DEF Abort, Main, Broken, ServerAlive
  <2>6. CASE AskExit
    BY <2>6 DEF AskExit
  <2>7. CASE RaiseTimeout
    BY <2>7 DEF RaiseTimeout, Leave
  <2>8. CASE SetupSignalHandlers
    BY <2>8 DEF SetupSignalHandlers, Main
  <2>9. CASE EnterLoop
    BY <2>9 DEF EnterLoop, Main
  <2>10. CASE LoopEnds
    BY <2>10 DEF LoopEnds, Main
  <2>11. CASE ShutdownSeen
    BY <2>11 DEF ShutdownSeen, Leave
  <2>12. CASE AtExit
    BY <2>12 DEF AtExit
  <2>13. CASE Exit
    BY <2>13 DEF Exit
  <2>14. CASE HoldServer
    BY <2>14 DEF HoldServer, Server, Up
  <2>15. CASE CheckAbort
    BY <2>15 DEF CheckAbort, Server, Up
  <2>16. CASE StopListening
    BY <2>16 DEF StopListening, Server, Up
  <2>17. CASE ServerThreadEnds
    BY <2>17 DEF ServerThreadEnds, Server, Up
  <2>18. CASE Listen
    BY <2>18 DEF Listen, Server, Up
  <2>19. CASE ServerFails
    BY <2>19 DEF ServerFails, Server, Up
  <2>20. CASE EarlySignal
    BY <2>20 DEF EarlySignal, Up, Leave
  <2>21. CASE FirstSignal
    BY <2>21 DEF FirstSignal, Up, CleanupThread
  <2>22. CASE HardExit
    BY <2>22 DEF HardExit, Up
  <2>23. CASE LoopPass
    BY <2>23 DEF LoopPass
  <2>24. CASE LoopRaises
    BY <2>24 DEF LoopRaises, Leave, FatalCode
  <2>25. ASSUME NEW c \in Cleaners, TestDone(c) PROVE OneThread'
    BY <2>25 DEF TestDone, Up
  <2>26. ASSUME NEW c \in Cleaners, Acquire(c) PROVE OneThread'
    BY <2>26 DEF Acquire, Up, LockIsFree
  <2>27. ASSUME NEW c \in Cleaners, CleanUp(c) PROVE OneThread'
    BY <2>27 DEF CleanUp, Up, Redundant
  <2>28. CASE UNCHANGED vars
    BY <2>28 DEF vars
  <2> QED
    BY <2>1, <2>2, <2>3, <2>4, <2>5, <2>6, <2>7, <2>8, <2>9, <2>10, <2>11, <2>12,
       <2>13, <2>14, <2>15, <2>16, <2>17, <2>18, <2>19, <2>20, <2>21, <2>22, <2>23,
       <2>24, <2>25, <2>26, <2>27, <2>28
    DEF Next, MainSteps, ServerSteps, CleanerSteps

---------------------------------------------------------------------------
(* The handshake with the server's thread. *)

\* Every step keeps the handshake.
LEMMA HandshakeKeeps == TypeOK /\ Handshake /\ [Next]_vars => Handshake'
<1> SUFFICES ASSUME TypeOK /\ Handshake, [Next]_vars PROVE Handshake'
  OBVIOUS
<1> USE DEF Handshake, NoOrphanServer, Waiting, TypeOK, launch, cleanup, asked, loop
<1> QED
  <2>1. CASE LoadConfig
    BY <2>1 DEF LoadConfig, Leave
  <2>2. CASE PollReady
    BY <2>2 DEF PollReady, Main
  <2>3. CASE PollBroken
    BY <2>3 DEF PollBroken, Leave, Broken, ServerAlive
  <2>4. CASE Deadline
    BY <2>4 DEF Deadline, Main
  <2>5. CASE Abort
    BY <2>5 DEF Abort, Main, Broken, ServerAlive
  <2>6. CASE AskExit
    BY <2>6 DEF AskExit
  <2>7. CASE RaiseTimeout
    BY <2>7 DEF RaiseTimeout, Leave
  <2>8. CASE SetupSignalHandlers
    BY <2>8 DEF SetupSignalHandlers, Main
  <2>9. CASE EnterLoop
    BY <2>9 DEF EnterLoop, Main
  <2>10. CASE LoopEnds
    BY <2>10 DEF LoopEnds, Main
  <2>11. CASE ShutdownSeen
    BY <2>11 DEF ShutdownSeen, Leave
  <2>12. CASE AtExit
    BY <2>12 DEF AtExit
  <2>13. CASE Exit
    BY <2>13 DEF Exit
  <2>14. CASE HoldServer
    BY <2>14 DEF HoldServer, Server, Up
  <2>15. CASE CheckAbort
    BY <2>15 DEF CheckAbort, Server, Up
  <2>16. CASE StopListening
    BY <2>16 DEF StopListening, Server, Up
  <2>17. CASE ServerThreadEnds
    BY <2>17 DEF ServerThreadEnds, Server, Up
  <2>18. CASE Listen
    BY <2>18 DEF Listen, Server, Up
  <2>19. CASE ServerFails
    BY <2>19 DEF ServerFails, Server, Up
  <2>20. CASE EarlySignal
    BY <2>20 DEF EarlySignal, Up, Leave
  <2>21. CASE FirstSignal
    BY <2>21 DEF FirstSignal, Up, CleanupThread
  <2>22. CASE HardExit
    BY <2>22 DEF HardExit, Up
  <2>23. CASE LoopPass
    BY <2>23 DEF LoopPass
  <2>24. CASE LoopRaises
    BY <2>24 DEF LoopRaises, Leave, FatalCode
  <2>25. ASSUME NEW c \in Cleaners, TestDone(c) PROVE Handshake'
    BY <2>25 DEF TestDone, Up
  <2>26. ASSUME NEW c \in Cleaners, Acquire(c) PROVE Handshake'
    BY <2>26 DEF Acquire, Up, LockIsFree
  <2>27. ASSUME NEW c \in Cleaners, CleanUp(c) PROVE Handshake'
    BY <2>27 DEF CleanUp, Up, Redundant
  <2>28. CASE UNCHANGED vars
    BY <2>28 DEF vars
  <2> QED
    BY <2>1, <2>2, <2>3, <2>4, <2>5, <2>6, <2>7, <2>8, <2>9, <2>10, <2>11, <2>12,
       <2>13, <2>14, <2>15, <2>16, <2>17, <2>18, <2>19, <2>20, <2>21, <2>22, <2>23,
       <2>24, <2>25, <2>26, <2>27, <2>28
    DEF Next, MainSteps, ServerSteps, CleanerSteps

---------------------------------------------------------------------------
(* Cleanup and the ways out. *)

\* Every step keeps the count of cleanups.
LEMMA CountKeeps == TypeOK /\ Counted /\ [Next]_vars => Counted'
<1> SUFFICES ASSUME TypeOK /\ Counted, [Next]_vars PROVE Counted'
  OBVIOUS
<1> USE DEF Counted, TypeOK, Cleaners, Nobody, launch, cleanup, asked, loop
<1> QED
  <2>1. CASE LoadConfig
    BY <2>1 DEF LoadConfig, Leave
  <2>2. CASE PollReady
    BY <2>2 DEF PollReady, Main
  <2>3. CASE PollBroken
    BY <2>3 DEF PollBroken, Leave, Broken, ServerAlive
  <2>4. CASE Deadline
    BY <2>4 DEF Deadline, Main
  <2>5. CASE Abort
    BY <2>5 DEF Abort, Main, Broken, ServerAlive
  <2>6. CASE AskExit
    BY <2>6 DEF AskExit
  <2>7. CASE RaiseTimeout
    BY <2>7 DEF RaiseTimeout, Leave
  <2>8. CASE SetupSignalHandlers
    BY <2>8 DEF SetupSignalHandlers, Main
  <2>9. CASE EnterLoop
    BY <2>9 DEF EnterLoop, Main
  <2>10. CASE LoopEnds
    BY <2>10 DEF LoopEnds, Main
  <2>11. CASE ShutdownSeen
    BY <2>11 DEF ShutdownSeen, Leave
  <2>12. CASE AtExit
    BY <2>12 DEF AtExit
  <2>13. CASE Exit
    BY <2>13 DEF Exit
  <2>14. CASE HoldServer
    BY <2>14 DEF HoldServer, Server, Up
  <2>15. CASE CheckAbort
    BY <2>15 DEF CheckAbort, Server, Up
  <2>16. CASE StopListening
    BY <2>16 DEF StopListening, Server, Up
  <2>17. CASE ServerThreadEnds
    BY <2>17 DEF ServerThreadEnds, Server, Up
  <2>18. CASE Listen
    BY <2>18 DEF Listen, Server, Up
  <2>19. CASE ServerFails
    BY <2>19 DEF ServerFails, Server, Up
  <2>20. CASE EarlySignal
    BY <2>20 DEF EarlySignal, Up, Leave
  <2>21. CASE FirstSignal
    BY <2>21 DEF FirstSignal, Up, CleanupThread
  <2>22. CASE HardExit
    BY <2>22 DEF HardExit, Up
  <2>23. CASE LoopPass
    BY <2>23 DEF LoopPass
  <2>24. CASE LoopRaises
    BY <2>24 DEF LoopRaises, Leave, FatalCode
  <2>25. ASSUME NEW c \in Cleaners, TestDone(c) PROVE Counted'
    BY <2>25 DEF TestDone, Up
  <2>26. ASSUME NEW c \in Cleaners, Acquire(c) PROVE Counted'
    BY <2>26 DEF Acquire, Up, LockIsFree
  <2>27. ASSUME NEW c \in Cleaners, CleanUp(c) PROVE Counted'
    BY <2>27 DEF CleanUp, Up, Redundant
  <2>28. CASE UNCHANGED vars
    BY <2>28 DEF vars
  <2> QED
    BY <2>1, <2>2, <2>3, <2>4, <2>5, <2>6, <2>7, <2>8, <2>9, <2>10, <2>11, <2>12,
       <2>13, <2>14, <2>15, <2>16, <2>17, <2>18, <2>19, <2>20, <2>21, <2>22, <2>23,
       <2>24, <2>25, <2>26, <2>27, <2>28
    DEF Next, MainSteps, ServerSteps, CleanerSteps

\* Every step keeps the way out.
LEMMA WayOutKeeps == TypeOK /\ Counted /\ AskedToGo /\ [Next]_vars => AskedToGo'
<1> SUFFICES ASSUME TypeOK /\ Counted /\ AskedToGo, [Next]_vars PROVE AskedToGo'
  OBVIOUS
<1> USE DEF AskedToGo, CleanExit, Counted, TypeOK, Unguarded, Cleaners, launch, cleanup, asked, loop
<1> QED
  <2>1. CASE LoadConfig
    BY <2>1 DEF LoadConfig, Leave
  <2>2. CASE PollReady
    BY <2>2 DEF PollReady, Main
  <2>3. CASE PollBroken
    BY <2>3 DEF PollBroken, Leave, Broken, ServerAlive
  <2>4. CASE Deadline
    BY <2>4 DEF Deadline, Main
  <2>5. CASE Abort
    BY <2>5 DEF Abort, Main, Broken, ServerAlive
  <2>6. CASE AskExit
    BY <2>6 DEF AskExit
  <2>7. CASE RaiseTimeout
    BY <2>7 DEF RaiseTimeout, Leave
  <2>8. CASE SetupSignalHandlers
    BY <2>8 DEF SetupSignalHandlers, Main
  <2>9. CASE EnterLoop
    BY <2>9 DEF EnterLoop, Main
  <2>10. CASE LoopEnds
    BY <2>10 DEF LoopEnds, Main
  <2>11. CASE ShutdownSeen
    BY <2>11 DEF ShutdownSeen, Leave
  <2>12. CASE AtExit
    BY <2>12 DEF AtExit
  <2>13. CASE Exit
    BY <2>13 DEF Exit
  <2>14. CASE HoldServer
    BY <2>14 DEF HoldServer, Server, Up
  <2>15. CASE CheckAbort
    BY <2>15 DEF CheckAbort, Server, Up
  <2>16. CASE StopListening
    BY <2>16 DEF StopListening, Server, Up
  <2>17. CASE ServerThreadEnds
    BY <2>17 DEF ServerThreadEnds, Server, Up
  <2>18. CASE Listen
    BY <2>18 DEF Listen, Server, Up
  <2>19. CASE ServerFails
    BY <2>19 DEF ServerFails, Server, Up
  <2>20. CASE EarlySignal
    BY <2>20 DEF EarlySignal, Up, Leave
  <2>21. CASE FirstSignal
    BY <2>21 DEF FirstSignal, Up, CleanupThread
  <2>22. CASE HardExit
    BY <2>22 DEF HardExit, Up
  <2>23. CASE LoopPass
    BY <2>23 DEF LoopPass
  <2>24. CASE LoopRaises
    BY <2>24 DEF LoopRaises, Leave, FatalCode
  <2>25. ASSUME NEW c \in Cleaners, TestDone(c) PROVE AskedToGo'
    BY <2>25 DEF TestDone, Up
  <2>26. ASSUME NEW c \in Cleaners, Acquire(c) PROVE AskedToGo'
    BY <2>26 DEF Acquire, Up, LockIsFree
  <2>27. ASSUME NEW c \in Cleaners, CleanUp(c) PROVE AskedToGo'
    BY <2>27 DEF CleanUp, Up, Redundant
  <2>28. CASE UNCHANGED vars
    BY <2>28 DEF vars
  <2> QED
    BY <2>1, <2>2, <2>3, <2>4, <2>5, <2>6, <2>7, <2>8, <2>9, <2>10, <2>11, <2>12,
       <2>13, <2>14, <2>15, <2>16, <2>17, <2>18, <2>19, <2>20, <2>21, <2>22, <2>23,
       <2>24, <2>25, <2>26, <2>27, <2>28
    DEF Next, MainSteps, ServerSteps, CleanerSteps

---------------------------------------------------------------------------

LEMMA ProcessStart == ApplicationAssumption /\ Init => ProcessInv
<1> SUFFICES ASSUME ApplicationAssumption, Init PROVE ProcessInv
  OBVIOUS
<1>1. TypeOK /\ OneThread
  BY TypesStart
<1>2. Handshake
  BY DEF Init, Handshake, NoOrphanServer, Waiting
<1>3. Counted
  BY DEF Init, Counted, Cleaners
<1>4. AskedToGo
  BY DEF Init, AskedToGo, Unguarded, CleanExit
<1> QED
  BY <1>1, <1>2, <1>3, <1>4 DEF ProcessInv

LEMMA ProcessKeeps ==
  ASSUME ApplicationAssumption
  PROVE  Spec => []ProcessInv
<1>1. Init => ProcessInv
  BY ProcessStart
<1>2. ProcessInv /\ [Next]_vars => ProcessInv'
  BY TypesKeep, ThreadKeeps, HandshakeKeeps, CountKeeps, WayOutKeeps DEF ProcessInv
<1> QED
  BY <1>1, <1>2, PTL DEF Spec

\* Every variable of the process keeps its type, and cleanup's lock is held by the
\* caller that is in it and by no other.
THEOREM ProcessTypes ==
  ASSUME ApplicationAssumption
  PROVE  Spec => []TypeOK
<1>1. ProcessInv => TypeOK
  BY DEF ProcessInv
<1> QED
  BY <1>1, ProcessKeeps, PTL

\* However many signals come and wherever they find the main thread: cleanup's body
\* runs once, whoever calls it; a process that exits 0 past its handlers was asked to
\* and has cleaned up; a start-up that timed out leaves no server running.
THEOREM ProcessEndsClean ==
  ASSUME ApplicationAssumption
  PROVE  Spec => []CleanExits
<1>1. ProcessInv => CleanExits
  BY DEF ProcessInv, Counted, AskedToGo, Handshake, CleanExits, CleanupOnce
<1> QED
  BY <1>1, ProcessKeeps, PTL
=============================================================================
