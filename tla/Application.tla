---------------------------- MODULE Application ----------------------------
(***************************************************************************)
(* One process from main() to its exit: the readiness handshake with the   *)
(* web server's thread, the signal handlers, the scheduler loop's run flag *)
(* and the cleanup that two threads may enter.                             *)
(***************************************************************************)
EXTENDS Integers

CONSTANTS
  MaxSignals,   \* bound: SIGINT and SIGTERM together
  MaxTicks      \* bound: passes of the scheduler loop

ApplicationAssumption == {MaxSignals, MaxTicks} \subseteq Nat

Cleaners == {"thread", "atexit"}   \* the callers of cleanup
Nobody   == "nobody"

VARIABLES
  main,             \* where the main thread stands
  code,             \* the exit code it is leaving with
  server,           \* where the server's thread stands
  holder,           \* server_holder has the server
  startupError,     \* startup_error has an exception
  aborted,          \* startup_aborted
  shouldExit,       \* server.should_exit
  registered,       \* the handlers and the atexit call are in place
  cleaner,          \* where each caller of cleanup stands
  cleanupLock, cleanupStarted, cleanupDone, shutdownRequested,
  schedulerRunning, \* scheduler.running
  signals, ticks,   \* counted for the bounds
  cleanups          \* history: how often the body of cleanup ran

launch  == <<server, holder, startupError, aborted, shouldExit>>
cleanup == <<cleaner, cleanupLock, cleanupDone, cleanups>>
asked   == <<cleanupStarted, shutdownRequested, signals>>
loop    == <<schedulerRunning, ticks>>
vars    == <<main, code, launch, registered, cleanup, asked, loop>>

Init ==
  /\ main = "config" /\ code = 0
  /\ server = "absent" /\ registered = FALSE
  /\ holder = FALSE /\ startupError = FALSE /\ aborted = FALSE /\ shouldExit = FALSE
  /\ cleaner = [c \in Cleaners |-> "idle"] /\ cleanupLock = Nobody
  /\ cleanupStarted = FALSE /\ cleanupDone = FALSE /\ shutdownRequested = FALSE
  /\ schedulerRunning = FALSE
  /\ signals = 0 /\ ticks = 0 /\ cleanups = 0

\* Every thread but the main one is a daemon: nothing outlives the exit.
Up == main # "exited"

Main(from, to)  == main = from /\ main' = to
Leave(c)        == main' = "leaving" /\ code' = c

---------------------------------------------------------------------------
(* The main thread: start_web_server.                                      *)

\* A config that cannot be loaded ends the process before anything starts.
LoadConfig ==
  /\ main = "config"
  /\ \/ main' = "poll" /\ server' = "import" /\ UNCHANGED code
     \/ Leave(1) /\ UNCHANGED server
  /\ UNCHANGED <<holder, startupError, aborted, shouldExit, registered, cleanup, asked, loop>>

ServerAlive == server # "dead"
Broken      == startupError \/ ~ServerAlive

PollReady ==
  /\ Main("poll", "handlers")
  /\ holder /\ server = "started"
  /\ UNCHANGED <<code, launch, registered, cleanup, asked, loop>>

\* The poll's second test, and the two tests made again after the deadline.
PollBroken ==
  /\ main \in {"poll", "deadline"} /\ Broken /\ Leave(1)
  /\ UNCHANGED <<launch, registered, cleanup, asked, loop>>

SlipNoDeadline == FALSE
DeadlinePasses == TRUE

Deadline ==
  /\ Main("poll", "deadline") /\ DeadlinePasses
  /\ UNCHANGED <<code, launch, registered, cleanup, asked, loop>>

\* The flag first, then the holder: the order the server's thread relies on.
Abort ==
  /\ Main("deadline", "aborted") /\ ~Broken
  /\ aborted' = TRUE
  /\ UNCHANGED <<code, server, holder, startupError, shouldExit, registered, cleanup, asked, loop>>

AskExit ==
  /\ main = "aborted" /\ shouldExit' = holder /\ main' = "gaveUp"
  /\ UNCHANGED <<code, server, holder, startupError, aborted, registered, cleanup, asked, loop>>

RaiseTimeout ==
  /\ main = "gaveUp" /\ Leave(1)
  /\ UNCHANGED <<launch, registered, cleanup, asked, loop>>

---------------------------------------------------------------------------
(* The server's thread: run_server.                                        *)

Server(from, to) ==
  /\ Up /\ server = from /\ server' = to
  /\ UNCHANGED <<main, code, aborted, shouldExit, registered, cleanup, asked, loop>>

HoldServer == Server("import", "check") /\ holder' = TRUE /\ UNCHANGED startupError

SlipCheckFirst ==
  Server("check", "startup") /\ UNCHANGED <<holder, startupError>>
CheckAbort ==
  Server("check", IF aborted THEN "dead" ELSE "startup") /\ UNCHANGED <<holder, startupError>>
\* uvicorn runs the lifespan and binds, unless told to exit meanwhile.
Listen ==
  Server("startup", IF shouldExit THEN "dead" ELSE "started") /\ UNCHANGED <<holder, startupError>>

StopListening ==
  shouldExit /\ Server("started", "dead") /\ UNCHANGED <<holder, startupError>>

ServerFails ==
  /\ \E at \in {"import", "startup", "started"} : Server(at, "failing")
  /\ startupError' = TRUE /\ UNCHANGED holder

ServerThreadEnds == Server("failing", "dead") /\ UNCHANGED <<holder, startupError>>

---------------------------------------------------------------------------
(* Signals and the scheduler loop.                                         *)

SetupSignalHandlers ==
  /\ Main("handlers", "entering")
  /\ registered' = TRUE
  /\ UNCHANGED <<code, launch, cleanup, asked, loop>>

\* Before that SIGINT unwinds the main thread, and SIGTERM kills the process.
EarlySignal ==
  /\ Up /\ ~registered /\ main # "leaving" /\ signals < MaxSignals
  /\ signals' = signals + 1
  /\ \/ Leave(0)
     \/ main' = "exited" /\ code' = 1
  /\ UNCHANGED <<launch, registered, cleanup, cleanupStarted, shutdownRequested, loop>>

SlipNoThread == cleaner
CleanupThread == [cleaner EXCEPT !["thread"] = "test"]

\* first_signal runs on the main thread, between any two of its steps.
FirstSignal ==
  /\ Up /\ registered /\ ~shutdownRequested /\ signals < MaxSignals
  /\ signals' = signals + 1
  /\ shutdownRequested' = TRUE
  /\ cleanupStarted' = TRUE
  /\ cleaner' = CleanupThread
  /\ UNCHANGED <<main, code, launch, registered, cleanupLock, cleanupDone, cleanups, loop>>

\* Every later signal is hard_exit: os._exit(1), with no cleanup.
HardExit ==
  /\ Up /\ shutdownRequested /\ signals < MaxSignals
  /\ signals' = signals + 1
  /\ main' = "exited" /\ code' = 1
  /\ UNCHANGED <<launch, registered, cleanup, cleanupStarted, shutdownRequested, loop>>

\* ChubScheduler.start sets the flag that stop clears.
EnterLoop ==
  /\ Main("entering", "looping")
  /\ schedulerRunning' = TRUE
  /\ UNCHANGED <<code, launch, registered, cleanup, asked, ticks>>

LoopPass ==
  /\ main = "looping" /\ schedulerRunning /\ ticks < MaxTicks
  /\ ticks' = ticks + 1
  /\ UNCHANGED <<main, code, launch, registered, cleanup, asked, schedulerRunning>>

LoopEnds ==
  /\ Main("looping", "waiting") /\ ~schedulerRunning
  /\ UNCHANGED <<code, launch, registered, cleanup, asked, loop>>

\* An exception out of a pass ends the process: the container starts it anew.
SlipFatalIsZero == 0
FatalCode == 1

LoopRaises ==
  /\ main = "looping" /\ schedulerRunning /\ Leave(FatalCode)
  /\ UNCHANGED <<launch, registered, cleanup, asked, loop>>

ShutdownSeen ==
  /\ main = "waiting" /\ shutdownRequested /\ Leave(0)
  /\ UNCHANGED <<launch, registered, cleanup, asked, loop>>

---------------------------------------------------------------------------
(* cleanup, from the signal's thread and from atexit.                      *)

\* sys.exit runs the registered call and waits for it.
AtExit ==
  /\ main = "leaving" /\ registered /\ cleaner["atexit"] = "idle"
  /\ cleaner' = [cleaner EXCEPT !["atexit"] = "test"]
  /\ UNCHANGED <<main, code, launch, registered, cleanupLock, cleanupDone, cleanups, asked, loop>>

Exit ==
  /\ main = "leaving" /\ (registered => cleaner["atexit"] = "done")
  /\ main' = "exited"
  /\ UNCHANGED <<code, launch, registered, cleanup, asked, loop>>

\* The test without the lock, which the fast path takes.
TestDone(c) ==
  /\ Up /\ cleaner[c] = "test"
  /\ cleaner' = [cleaner EXCEPT ![c] = IF cleanupDone THEN "done" ELSE "acquire"]
  /\ UNCHANGED <<main, code, launch, registered, cleanupLock, cleanupDone, cleanups, asked, loop>>

SlipNoLock == TRUE
LockIsFree == cleanupLock = Nobody

Acquire(c) ==
  /\ Up /\ cleaner[c] = "acquire" /\ LockIsFree
  /\ cleanupLock' = c
  /\ cleaner' = [cleaner EXCEPT ![c] = "held"]
  /\ UNCHANGED <<main, code, launch, registered, cleanupDone, cleanups, asked, loop>>

SlipNoRecheck == FALSE
Redundant == cleanupDone

\* observer.stop and scheduler.stop, unless the other caller has been here.
CleanUp(c) ==
  /\ Up /\ cleaner[c] = "held"
  /\ IF Redundant
       THEN UNCHANGED <<schedulerRunning, cleanupDone, cleanups>>
       ELSE /\ schedulerRunning' = FALSE
            /\ cleanupDone' = TRUE
            /\ cleanups' = cleanups + 1
  /\ cleaner' = [cleaner EXCEPT ![c] = "done"]
  /\ cleanupLock' = Nobody
  /\ UNCHANGED <<main, code, launch, registered, asked, ticks>>

MainSteps ==
  \/ LoadConfig \/ PollReady \/ PollBroken \/ Deadline \/ Abort \/ AskExit \/ RaiseTimeout
  \/ SetupSignalHandlers \/ EnterLoop \/ LoopEnds \/ ShutdownSeen \/ AtExit \/ Exit
ServerSteps == HoldServer \/ CheckAbort \/ StopListening \/ ServerThreadEnds
CleanerSteps(c) == TestDone(c) \/ Acquire(c) \/ CleanUp(c)

Next ==
  \/ MainSteps \/ ServerSteps \/ \E c \in Cleaners : CleanerSteps(c)
  \/ Listen \/ ServerFails \/ EarlySignal \/ FirstSignal \/ HardExit \/ LoopPass \/ LoopRaises

\* Every thread keeps running and time passes; uvicorn's start-up may hang, and
\* signals, failures and passes of the loop may not come.
Fairness ==
  /\ WF_vars(MainSteps) /\ WF_vars(ServerSteps)
  /\ \A c \in Cleaners : WF_vars(CleanerSteps(c))
Spec == Init /\ [][Next]_vars /\ Fairness

---------------------------------------------------------------------------

TypeOK ==
  /\ main \in {"config", "poll", "deadline", "aborted", "gaveUp", "handlers", "entering",
               "looping", "waiting", "leaving", "exited"}
  /\ code \in {0, 1}
  /\ server \in {"absent", "import", "check", "startup", "started", "failing", "dead"}
  /\ {holder, startupError, aborted, shouldExit, registered} \subseteq BOOLEAN
  /\ cleaner \in [Cleaners -> {"idle", "test", "acquire", "held", "done"}]
  /\ cleanupLock \in Cleaners \cup {Nobody}
  /\ \A c \in Cleaners : cleaner[c] = "held" <=> cleanupLock = c
  /\ {cleanupStarted, cleanupDone, shutdownRequested, schedulerRunning} \subseteq BOOLEAN
  /\ signals \in 0..MaxSignals /\ ticks \in 0..MaxTicks /\ cleanups \in Nat

\* A start-up that was given up leaves no server behind: whichever way the
\* flag and the holder are written and read, the server's thread is told to
\* exit or will find the flag before it runs the server.
NoOrphanServer ==
  main = "gaveUp" =>
    \/ shouldExit
    \/ aborted /\ server \in {"import", "check", "failing", "dead"}

\* However a signal's thread and atexit meet in it, cleanup's body runs once.
CleanupOnce == cleanups <= 1

\* A process that exits 0 with its handlers in place was asked to go and has
\* cleaned up, its scheduler loop stopped.
CleanExit ==
  (main = "exited" /\ code = 0 /\ registered) =>
    shutdownRequested /\ cleanupDone /\ ~schedulerRunning

\* The three together: what the process promises of its two ends.
CleanExits == CleanupOnce /\ CleanExit /\ NoOrphanServer

\* A stop of the loop that came before the loop's start: start undoes it.
StopLost == cleanupDone /\ schedulerRunning

Decided == main # "poll" /\ (shutdownRequested => main = "exited" \/ StopLost)

\* The wait for the server ends, also when its start-up hangs, and a signal ends
\* the process, unless its stop was lost.
ProcessDecides == <>[]Decided

=============================================================================
