-------------------------- MODULE XwaylandLauncher --------------------------
(***************************************************************************)
(* How KWin runs Xwayland (xwayland/xwaylandlauncher.cpp and xwayland.cpp).*)
(* The launcher has a thread of its own that starts, watches, restarts and *)
(* stops the X server; the main thread holds the X11 connection.  The two  *)
(* know of each other only by what is posted to their event loops: calls   *)
(* of start() and stop() one way, the signals started, finished and        *)
(* errorOccurred the other way.  The X server is a third party, which may  *)
(* end at any time.                                                        *)
(*                                                                         *)
(* An event handler is one step of its thread.  Servers are numbered by    *)
(* the startInternal() that started them; m_xcbConnectionFd, which         *)
(* started() carries, belongs to the server of that number.                *)
(***************************************************************************)
EXTENDS Integers, Sequences, SequencesExt

CONSTANTS
  Policy,          \* options->xwaylandCrashPolicy(): Restart or Stop
  MaxCrashCount,   \* options->xwaylandMaxCrashCount()
  MaxStarts,       \* bound on the servers started; the last one does not end
  MaxCalls         \* bound on the calls of stop() that are under way

ASSUME LauncherAssumption ==
  /\ Policy \in {"Restart", "Stop"}
  /\ MaxCrashCount \in Nat
  /\ MaxStarts \in Nat \ {0}
  /\ MaxCalls \in Nat \ {0}

Servers == 1..MaxStarts
None == 0

VARIABLES
  calls,       \* start and stop, posted to the launcher's thread
  process,     \* m_xwaylandProcess and its QProcess::state()
  gen,         \* the server m_xcbConnectionFd belongs to
  notifier,    \* m_readyNotifier exists
  wayland,     \* m_xwaylandConnection of the Wayland server
  crashCount,  \* m_crashCount
  resetTimer,  \* m_resetCrashCountTimer is running
  signals,     \* signals posted to the main thread
  connection,  \* x11Connection(), by the server it leads to
  selection,   \* m_selectionOwner
  finalized,   \* ApplicationWayland::finalizeStartup has run
  hung,        \* the main thread waits for an answer that will never come
  server,      \* external: the X servers
  gaveUp       \* history: why no server may be running

launcher == <<process, gen, notifier, wayland, crashCount, resetTimer>>
main == <<connection, selection, finalized, hung>>
vars == <<calls, launcher, signals, main, server, gaveUp>>

\* A server is up, has written its name to displayfd, has shut KWin's X11
\* connection down, and how it ended.
Life == [up : BOOLEAN, wrote : BOOLEAN, shut : BOOLEAN,
         end : {"none", "crash", "exit", "noexec"}]
Started(g) == <<"started", g>>
Finished == <<"finished", None>>
Error == <<"errorOccurred", None>>

TypeOK ==
  /\ calls \in Seq({"start", "stop"})
  /\ process \in {"null", "Starting", "Running", "NotRunning"}
  /\ gen \in 0..MaxStarts
  /\ notifier \in BOOLEAN
  /\ wayland \in 0..MaxStarts
  /\ crashCount \in 0..(MaxCrashCount + 1)
  /\ resetTimer \in BOOLEAN
  /\ signals \in Seq({"started", "finished", "errorOccurred"} \X (0..MaxStarts))
  /\ connection \in 0..MaxStarts
  /\ selection \in {"null", "claiming", "owned", "failed"}
  /\ finalized \in BOOLEAN /\ hung \in BOOLEAN
  /\ server \in [Servers -> Life]
  /\ gaveUp \subseteq {"asked", "count", "policy", "failed", "noexec"}

\* ApplicationWayland::continueStartupWithScene has called start().
Init ==
  /\ calls = <<"start">>
  /\ process = "null" /\ gen = 0 /\ notifier = FALSE /\ wayland = None
  /\ crashCount = 0 /\ resetTimer = FALSE
  /\ signals = <<>>
  /\ connection = None /\ selection = "null"
  /\ finalized = FALSE /\ hung = FALSE
  /\ server = [g \in Servers |->
                 [up |-> FALSE, wrote |-> FALSE, shut |-> FALSE, end |-> "none"]]
  /\ gaveUp = {}

-----------------------------------------------------------------------------
(* The launcher's thread.                                                  *)

\* XwaylandLauncher::startInternal succeeds: the child is forked and a
\* notifier watches the pipe it will write to.
StartInternal ==
  /\ gen' = gen + 1
  /\ process' = "Starting"
  /\ notifier' = TRUE
  /\ wayland' = gen + 1

\* It fails, before or after the Wayland connection was made.
StartFails ==
  /\ process' = "null"
  /\ notifier' = FALSE
  /\ wayland' \in {None, gen + 1}
  /\ UNCHANGED gen

\* XwaylandLauncher::onStartRequested.  start() is called once, so that the
\* early return for a process that exists is not taken.
OnStartRequested ==
  /\ calls # <<>> /\ Head(calls) = "start"
  /\ process = "null"
  /\ calls' = Tail(calls)
  /\ \/ /\ gen < MaxStarts
        /\ StartInternal
        /\ server' = [server EXCEPT ![gen + 1].up = TRUE]
        /\ UNCHANGED <<signals, gaveUp>>
     \/ /\ StartFails
        /\ signals' = Append(signals, Error)
        /\ gaveUp' = gaveUp \cup {"failed"}
        /\ UNCHANGED server
  /\ UNCHANGED <<crashCount, resetTimer, main>>

\* Mutant: the signal is left out for a process that has ended by itself.
StopSignalsIfRunning ==
  IF process = "NotRunning" THEN <<>> ELSE <<Finished>>

\* XwaylandLauncher::stopInternal tells the main thread first.
StopSignals == <<Finished>>

\* Mutant: a process that runs is let go of.
LetGo(g) == {server}

\* What terminate() and the deletion of the QProcess do to a server that
\* still runs: it ends, in order or, after five seconds, by force.
Terminated(g) ==
  {[server EXCEPT ![g].up = FALSE, ![g].end = "exit",
                  ![g].shut = @ \/ (server[g].wrote /\ inOrder)] :
   inOrder \in BOOLEAN}

\* XwaylandLauncher::onStopRequested and stopInternal
OnStopRequested ==
  /\ calls # <<>> /\ Head(calls) = "stop"
  /\ calls' = Tail(calls)
  /\ IF process = "null"
     THEN UNCHANGED <<process, notifier, wayland, signals, server>>
     ELSE /\ signals' = signals \o StopSignals
          /\ process' = "null" /\ notifier' = FALSE /\ wayland' = None
          /\ server' \in IF process # "NotRunning" /\ server[gen].up
                         THEN Terminated(gen) ELSE {server}
  /\ UNCHANGED <<gen, crashCount, resetTimer, main, gaveUp>>

\* QProcess: the child has executed Xwayland, which may have ended since.
ProcessStarted ==
  /\ process = "Starting" /\ server[gen].end # "noexec"
  /\ process' = "Running"
  /\ UNCHANGED <<calls, gen, notifier, wayland, crashCount, resetTimer,
                 signals, main, server, gaveUp>>

\* XwaylandLauncher::handleXwaylandError(FailedToStart) returns without
\* telling anybody, and QProcess does not say finished.
FailedToStart ==
  /\ process = "Starting" /\ server[gen].end = "noexec"
  /\ process' = "NotRunning"
  /\ gaveUp' = gaveUp \cup {"noexec"}
  /\ UNCHANGED <<calls, gen, notifier, wayland, crashCount, resetTimer,
                 signals, main, server>>

\* The lambda on m_readyNotifier.  It is activated when the server writes to
\* the pipe, and also when the last copy of the other end is closed.
ReadyNotified ==
  /\ notifier
  /\ server[gen].wrote \/ ~server[gen].up
  /\ notifier' = FALSE
  /\ signals' = Append(signals, Started(gen))
  /\ UNCHANGED <<calls, process, gen, wayland, crashCount, resetTimer,
                 main, server, gaveUp>>

\* QProcess reports a crash before the end of the process
\* (handleXwaylandError).
CrashSignals == IF server[gen].end = "crash" THEN <<Error>> ELSE <<>>

Restarts == Policy = "Restart" /\ crashCount + 1 <= MaxCrashCount

NoticesEnd == process = "Running" /\ ~server[gen].up

\* Mutant: the server is started again before the main thread is told.
RestartFirst ==
  /\ NoticesEnd /\ Restarts /\ gen < MaxStarts
  /\ crashCount' = crashCount + 1
  /\ StartInternal
  /\ server' = [server EXCEPT ![gen + 1].up = TRUE]
  /\ signals' = signals \o CrashSignals
  /\ resetTimer' \in BOOLEAN
  /\ UNCHANGED <<calls, main, gaveUp>>

\* Mutant: the old server is stopped and no new one started.
RestartForgotten ==
  /\ NoticesEnd /\ Restarts
  /\ crashCount' = crashCount + 1
  /\ process' = "null" /\ notifier' = FALSE /\ wayland' = None
  /\ signals' = signals \o CrashSignals \o StopSignals
  /\ resetTimer' \in BOOLEAN
  /\ UNCHANGED <<calls, gen, main, server, gaveUp>>

\* XwaylandLauncher::handleXwaylandFinished, restartInternal.  The timer was
\* created by the constructor in the calling thread, after the launcher had
\* moved to its own; whether starting it from here has any effect is left
\* open.
FinishedRestart ==
  /\ NoticesEnd /\ Restarts
  /\ crashCount' = crashCount + 1
  /\ \/ /\ gen < MaxStarts
        /\ StartInternal
        /\ server' = [server EXCEPT ![gen + 1].up = TRUE]
        /\ signals' = signals \o CrashSignals \o StopSignals
        /\ UNCHANGED gaveUp
     \/ /\ StartFails
        /\ signals' = signals \o CrashSignals \o StopSignals \o <<Error>>
        /\ gaveUp' = gaveUp \cup {"failed"}
        /\ UNCHANGED server
  /\ resetTimer' \in BOOLEAN
  /\ UNCHANGED <<calls, main>>

\* It crashed too often, or is not to be restarted: stop() is posted.
FinishedStop ==
  /\ NoticesEnd /\ ~Restarts
  /\ calls' = Append(calls, "stop")
  /\ process' = "NotRunning"
  /\ crashCount' = IF Policy = "Restart" THEN crashCount + 1 ELSE crashCount
  /\ resetTimer' = FALSE
  /\ signals' = signals \o CrashSignals
  /\ gaveUp' = gaveUp \cup {IF Policy = "Restart" THEN "count" ELSE "policy"}
  /\ UNCHANGED <<gen, notifier, wayland, main, server>>

\* XwaylandLauncher::resetCrashCount
ResetCrashCount ==
  /\ resetTimer
  /\ resetTimer' = FALSE
  /\ crashCount' = 0
  /\ UNCHANGED <<calls, process, gen, notifier, wayland, signals, main,
                 server, gaveUp>>

-----------------------------------------------------------------------------
(* The main thread.                                                        *)

Received(s) == ~hung /\ signals # <<>> /\ Head(signals) = s /\ signals' = Tail(signals)

\* Xwayland::handleXwaylandReady, with a server that answers.
ReadyConnects ==
  \E g \in Servers :
    /\ Received(Started(g))
    /\ server[g].up /\ ~server[g].shut
    /\ connection' = g
    /\ selection' = "claiming"
    /\ UNCHANGED <<calls, launcher, finalized, hung, server, gaveUp>>

\* Mutant: the failure is not reported.
ReadyFailsQuietly ==
  \E g \in Servers :
    /\ Received(Started(g))
    /\ server[g].up \/ server[g].shut
    /\ UNCHANGED <<calls, launcher, main, server, gaveUp>>

\* createX11Connection fails: the server has shut the connection down, or
\* refuses it.  The signal is forwarded to finalizeStartup.
ReadyFails ==
  \E g \in Servers :
    /\ Received(Started(g))
    /\ server[g].up \/ server[g].shut
    /\ finalized' = TRUE
    /\ UNCHANGED <<calls, launcher, connection, selection, hung, server, gaveUp>>

\* The server is gone but the socket is not closed: startInternal() keeps
\* both copies of the server's end open, so the handshake never ends.
ReadyHangs ==
  \E g \in Servers :
    /\ Received(Started(g))
    /\ ~server[g].up /\ ~server[g].shut
    /\ hung' = TRUE
    /\ UNCHANGED <<calls, launcher, connection, selection, finalized, server, gaveUp>>

\* Any other request to a server that is gone waits for a reply as well.
RoundTripHangs ==
  /\ ~hung /\ connection # None
  /\ ~server[connection].up /\ ~server[connection].shut
  /\ hung' = TRUE
  /\ UNCHANGED <<calls, launcher, signals, connection, selection, finalized,
                 server, gaveUp>>

\* Xwayland::handleXwaylandFinished and destroyX11Connection
HandleFinished ==
  /\ Received(Finished)
  /\ selection' = "null"
  /\ connection' = None
  /\ UNCHANGED <<calls, launcher, finalized, hung, server, gaveUp>>

\* Xwayland::errorOccurred is connected to finalizeStartup.
HandleError ==
  /\ Received(Error)
  /\ finalized' = TRUE
  /\ UNCHANGED <<calls, launcher, connection, selection, hung, server, gaveUp>>

\* Xwayland::handleSelectionClaimedOwnership, started() and finalizeStartup
SelectionClaimed ==
  /\ ~hung /\ selection = "claiming" /\ server[connection].up
  /\ selection' = "owned"
  /\ finalized' = TRUE
  /\ UNCHANGED <<calls, launcher, signals, connection, hung, server, gaveUp>>

AskToStop ==
  /\ Len(calls) < MaxCalls
  /\ calls' = Append(calls, "stop")
  /\ gaveUp' = gaveUp \cup {"asked"}

\* handleSelectionFailedToClaimOwnership
SelectionFailed ==
  /\ ~hung /\ selection = "claiming" /\ server[connection].up
  /\ AskToStop
  /\ selection' = "failed"
  /\ UNCHANGED <<launcher, signals, connection, finalized, hung, server>>

\* handleSelectionLostOwnership
SelectionLost ==
  /\ ~hung /\ selection = "owned" /\ server[connection].up
  /\ AskToStop
  /\ selection' = "failed"
  /\ UNCHANGED <<launcher, signals, connection, finalized, hung, server>>

\* Xwayland::dispatchEvents finds the connection broken, as often as it is
\* called.  stop() does not say of which server.
DispatchBroken ==
  /\ ~hung /\ connection # None /\ server[connection].shut
  /\ AskToStop
  /\ UNCHANGED <<launcher, signals, main, server>>

-----------------------------------------------------------------------------
(* The X server (external).                                                *)

Outside == UNCHANGED <<calls, launcher, signals, main, gaveUp>>

ServerReady ==
  /\ gen # 0 /\ process = "Running"
  /\ server[gen].up /\ ~server[gen].wrote
  /\ server' = [server EXCEPT ![gen].wrote = TRUE]
  /\ Outside

ServerShuts ==
  /\ gen # 0 /\ server[gen].up /\ server[gen].wrote /\ ~server[gen].shut
  /\ server' = [server EXCEPT ![gen].shut = TRUE]
  /\ Outside

\* An orderly exit shuts KWin's connection down, a crash does not.
ServerEnds ==
  /\ gen \in 1..(MaxStarts - 1) /\ server[gen].up
  /\ \/ server' = [server EXCEPT ![gen].up = FALSE, ![gen].end = "crash"]
     \/ server' = [server EXCEPT ![gen].up = FALSE, ![gen].end = "exit",
                                 ![gen].shut = @ \/ server[gen].wrote]
     \/ /\ process = "Starting"
        /\ server' = [server EXCEPT ![gen].up = FALSE, ![gen].end = "noexec"]
  /\ Outside

-----------------------------------------------------------------------------
LauncherThread ==
  \/ OnStartRequested \/ OnStopRequested
  \/ ProcessStarted \/ FailedToStart \/ ReadyNotified
  \/ FinishedRestart \/ FinishedStop

MainThread ==
  \/ ReadyConnects \/ ReadyFails \/ ReadyHangs \/ HandleFinished \/ HandleError

Next ==
  \/ LauncherThread \/ ResetCrashCount
  \/ MainThread \/ RoundTripHangs
  \/ SelectionClaimed \/ SelectionFailed \/ SelectionLost \/ DispatchBroken
  \/ ServerReady \/ ServerShuts \/ ServerEnds

Spec == Init /\ [][Next]_vars

\* Both event loops handle what is posted to them, the launcher's also what
\* its process and its notifier report; a claim to the selection ends while
\* the server answers (KSelectionOwner has a timeout).  Nothing is assumed of the
\* server, of the timer or of when dispatchEvents is called.
Fairness ==
  /\ WF_vars(OnStartRequested \/ OnStopRequested)
  /\ WF_vars(ProcessStarted \/ FailedToStart)
  /\ WF_vars(ReadyNotified)
  /\ WF_vars(FinishedRestart \/ FinishedStop)
  /\ WF_vars(MainThread)
  /\ WF_vars(SelectionClaimed \/ SelectionFailed)

FairSpec == Spec /\ Fairness

-----------------------------------------------------------------------------
(* Properties.                                                             *)

\* The main thread never takes a new X11 connection while it has an old one
\* (createX11Connection would overwrite it, and windows of the old server
\* would stay): however restarts, stops and late readiness interleave,
\* finished() reaches it between two started().
ConnectionsInTurn ==
  [][connection' # connection => None \in {connection, connection'}]_vars

\* A connection whose server the launcher no longer watches is about to be
\* torn down: finished() is on its way to the main thread, or a stop() that
\* will send it is on its way to the launcher.
TeardownUnderWay ==
  connection # None /\ ~(connection = gen /\ process = "Running")
    => \/ Contains(signals, Finished)
       \/ process = "NotRunning" /\ Contains(calls, "stop")

\* Every server that is up is the last one started, is watched by the
\* launcher, and has the Wayland connection: none is orphaned by a restart
\* or by a stop() that crosses one.
OneServer ==
  \A g \in Servers :
    server[g].up => g = gen /\ process \in {"Starting", "Running"} /\ wayland = g

\* When a server ends, another one runs again, unless one of the reasons the
\* code has speaks against it: the policy, the crash count, a failure to
\* start, or a stop() that the main thread asked for.
RunsAgain ==
  \A g \in Servers :
    (gen = g /\ ~server[g].up) ~> (gaveUp # {} \/ (gen > g /\ server[gen].up))

\* The startup of the session, which waits for the first server, comes to
\* its end whatever servers crash meanwhile, unless Xwayland is given up, is
\* still booting, or the main thread is stuck.
StartupEnds ==
  []<>(\/ finalized \/ hung \/ gaveUp # {}
       \/ gen # 0 /\ server[gen].up /\ ~server[gen].wrote)
=============================================================================
