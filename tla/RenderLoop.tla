----------------------------- MODULE RenderLoop -----------------------------
(***************************************************************************)
(* One RenderLoop with everything that drives it: items and effects that   *)
(* ask for repaints, the two timers, the compositor that answers           *)
(* frameRequested, the backend that answers every frame it was given, and  *)
(* the parties that inhibit the loop (DPMS and the paused session).        *)
(*                                                                         *)
(* KWin runs all of this on one thread.  RenderLoopPrivate::dispatch is    *)
(* split at the two places where foreign code can call back into the loop: *)
(* between the emission of frameRequested and beginFrame, and between      *)
(* beginFrame and the end of the emission.                                 *)
(***************************************************************************)
EXTENDS RenderLoopState, FiniteSets

CONSTANTS
  Items,                  \* scene items that may ask for a repaint
  Inhibitors,             \* who may hold an inhibit() on the loop
  BackendOwnsFrames,      \* the X11 backends call invalidate() on destruction
  UninhibitWhilePending   \* whether uninhibit() may come while a frame is out

ASSUME ItemAssumption == NoItem \notin Items
ASSUME InhibitorAssumption == IsFiniteSet(Inhibitors)
ASSUME SwitchAssumption ==
  BackendOwnsFrames \in BOOLEAN /\ UninhibitWhilePending \in BOOLEAN

VARIABLES
  loop,       \* the RenderLoopPrivate record
  app,        \* what the loop asks of kwinApp() and Compositor::self()
  phase,      \* where dispatch() is: idle, requested, composing
  skip,       \* frameRequested was emitted by the benchmark timer
  parity,     \* lowest bit of the static counter in handleFrameRequested
  connected,  \* the compositor is connected to frameRequested
  owed,       \* frames the backend holds and still has to answer
  holders,    \* the inhibitors whose inhibit() is in force
  dirty,      \* history: a repaint was asked for and no frame began since
  lost        \* history: how the arming for dirty was dropped, if it was

vars == <<loop, app, phase, skip, parity, connected, owed, holders, dirty, lost>>

Losses == {"no", "inhibited", "skipped", "terminating", "invalidated"}

TypeOK ==
  /\ loop \in LoopType(Items, Nat, Nat)
  /\ app \in AppType
  /\ phase \in {"idle", "requested", "composing"}
  /\ skip \in BOOLEAN /\ connected \in BOOLEAN /\ dirty \in BOOLEAN
  /\ parity \in {0, 1}
  /\ owed \in Nat
  /\ holders \in SUBSET Inhibitors
  /\ lost \in Losses

Init ==
  /\ loop = NewLoop
  /\ app = [terminating |-> FALSE, inBenchmark |-> FALSE]
  /\ phase = "idle" /\ skip = FALSE /\ parity = 0
  /\ connected = TRUE
  /\ owed = 0 /\ holders = {}
  /\ dirty = FALSE /\ lost = "no"

Kept(l) == l.timer \/ l.pendingReschedule

\* lost after a step that drops the arming of an outstanding request when
\* cond holds and that leaves the loop as l.
LostIf(cond, l, how) ==
  IF cond /\ dirty /\ lost = "no" /\ ~Kept(l) THEN how ELSE lost

-----------------------------------------------------------------------------
(* Repaint requests.  A request for an item other than the fullscreen one  *)
(* is filtered: that item cannot be seen.                                  *)

Filtered(item) == item # NoItem /\ loop.fullscreenItem \notin {NoItem, item}

Request(item) ==
  /\ loop' = ScheduleRepaint(loop, item, app)
  /\ IF Filtered(item)
     THEN UNCHANGED <<dirty, lost>>
     ELSE /\ dirty' = TRUE
          /\ lost' = IF phase = "requested" THEN lost
                     ELSE IF app.terminating /\ ~Kept(loop') THEN "terminating"
                     ELSE "no"
  /\ UNCHANGED <<app, phase, skip, parity, connected, owed, holders>>

-----------------------------------------------------------------------------
(* dispatch(): a timer fires and frameRequested is emitted.                 *)

Dispatch(byBenchmark) ==
  /\ phase = "idle"
  /\ phase' = "requested" /\ skip' = byBenchmark
  /\ UNCHANGED <<app, parity, connected, owed, holders, dirty, lost>>

\* Mutants: the timer is not single-shot; it waits for the compositor.
RepeatingTimeout ==
  /\ loop.timer
  /\ loop' = [loop EXCEPT !.pendingRepaint = TRUE]
  /\ Dispatch(FALSE)

TimeoutWhenConnected ==
  /\ loop.timer /\ connected
  /\ loop' = [loop EXCEPT !.timer = FALSE, !.pendingRepaint = TRUE]
  /\ Dispatch(FALSE)

CompositeTimeout ==
  /\ loop.timer
  /\ loop' = [loop EXCEPT !.timer = FALSE, !.pendingRepaint = TRUE]
  /\ Dispatch(FALSE)

BenchmarkTimeout ==
  /\ loop.benchTimer
  /\ loop' = [loop EXCEPT !.benchTimer = FALSE, !.pendingRepaint = TRUE]
  /\ Dispatch(TRUE)

\* Compositor::handleFrameRequested returns without compositing.
SkipsFrame == skip \/ (app.inBenchmark /\ parity = 1)

\* The static frame counter moves only when skip is false.
CountFrame ==
  parity' = IF connected /\ ~skip /\ app.inBenchmark THEN 1 - parity ELSE parity

\* frameRequested was emitted and no frame was begun.
EndWithoutFrame(l) ==
  /\ loop' = [l EXCEPT !.pendingRepaint = FALSE]
  /\ phase' = "idle"
  /\ CountFrame
  /\ UNCHANGED <<app, skip, connected, holders, dirty>>

FrameSkipped ==
  /\ phase = "requested" /\ (~connected \/ SkipsFrame)
  /\ EndWithoutFrame(loop)
  /\ lost' = LostIf(TRUE, loop', "skipped")
  /\ UNCHANGED owed

\* Compositor::composite finds a graphics reset and calls reinitialize().
GraphicsReset ==
  /\ phase = "requested" /\ connected /\ ~SkipsFrame
  /\ EndWithoutFrame(IF BackendOwnsFrames THEN InvalidateLoop(loop) ELSE loop)
  /\ lost' = LostIf(TRUE, loop', "skipped")
  /\ owed' = IF BackendOwnsFrames THEN 0 ELSE owed

\* Compositor::composite up to and including beginFrame.
BeginComposite(item, tearing) ==
  /\ phase = "requested" /\ connected /\ ~SkipsFrame
  /\ loop' = BeginFrame(SetFullscreenSurface(loop, item, tearing))
  /\ phase' = "composing"
  /\ dirty' = FALSE /\ lost' = "no"
  /\ CountFrame
  /\ UNCHANGED <<app, skip, connected, owed, holders>>

\* RenderBackend::present hands the frame to the backend.
PresentSubmitted ==
  /\ phase = "composing"
  /\ loop' = [loop EXCEPT !.pendingRepaint = FALSE]
  /\ phase' = "idle" /\ owed' = owed + 1
  /\ UNCHANGED <<app, skip, parity, connected, holders, dirty, lost>>

\* present() answers at once: the frame failed, or a modeset showed it.
PresentAnswered ==
  /\ phase = "composing"
  /\ loop' = [FrameAnswered(loop, app) EXCEPT !.pendingRepaint = FALSE]
  /\ phase' = "idle"
  /\ lost' = LostIf(app.terminating, loop', "terminating")
  /\ UNCHANGED <<app, skip, parity, connected, owed, holders, dirty>>

-----------------------------------------------------------------------------
(* The backend, the inhibitors and the rest of the program.                *)

\* notifyFrameCompleted or notifyFrameFailed, from the event loop or from
\* a wait for idle inside present().
BackendAnswer ==
  /\ owed > 0 /\ phase # "requested"
  /\ loop' = FrameAnswered(loop, app)
  /\ owed' = owed - 1
  /\ lost' = LostIf(app.terminating, loop', "terminating")
  /\ UNCHANGED <<app, phase, skip, parity, connected, holders, dirty>>

\* Mutant: switching an output off throws its frames away.
InhibitAndDiscard(i) ==
  /\ phase = "idle" /\ i \notin holders
  /\ loop' = [InhibitLoop(loop) EXCEPT !.pendingFrameCount = 0]
  /\ owed' = 0
  /\ holders' = holders \cup {i}
  /\ lost' = LostIf(loop.timer, loop', "inhibited")
  /\ UNCHANGED <<app, phase, skip, parity, connected, dirty>>

Inhibit(i) ==
  /\ phase = "idle" /\ i \notin holders
  /\ loop' = InhibitLoop(loop)
  /\ holders' = holders \cup {i}
  /\ lost' = LostIf(loop.timer, loop', "inhibited")
  /\ UNCHANGED <<app, phase, skip, parity, connected, owed, dirty>>

Uninhibit(i) ==
  /\ phase = "idle" /\ i \in holders
  /\ UninhibitWhilePending \/ loop.pendingFrameCount = 0
  /\ loop' = UninhibitLoop(loop, app)
  /\ holders' = holders \ {i}
  /\ lost' = LostIf(app.terminating, loop', "terminating")
  /\ UNCHANGED <<app, phase, skip, parity, connected, owed, dirty>>

\* An X11 backend is destroyed; its vsync monitor goes with it.
Invalidate ==
  /\ BackendOwnsFrames /\ phase = "idle"
  /\ loop' = InvalidateLoop(loop)
  /\ owed' = 0
  /\ lost' = LostIf(TRUE, loop', "invalidated")
  /\ UNCHANGED <<app, phase, skip, parity, connected, holders, dirty>>

\* Compositor::addOutput and removeOutput connect and disconnect the signal.
Reconnect ==
  /\ phase = "idle"
  /\ connected' = ~connected
  /\ UNCHANGED <<loop, app, phase, skip, parity, owed, holders, dirty, lost>>

\* The application shuts down, or the benchmark is switched over D-Bus.
AppChanges ==
  /\ phase = "idle"
  /\ \/ ~app.terminating /\ app' = [app EXCEPT !.terminating = TRUE]
     \/ app' = [app EXCEPT !.inBenchmark = ~@]
  /\ UNCHANGED <<loop, phase, skip, parity, connected, owed, holders, dirty, lost>>

-----------------------------------------------------------------------------
Compose == \E item \in Items \cup {NoItem}, t \in BOOLEAN : BeginComposite(item, t)

Present == PresentSubmitted \/ PresentAnswered

Next ==
  \/ \E item \in Items \cup {NoItem} : Request(item)
  \/ CompositeTimeout
  \/ BenchmarkTimeout
  \/ FrameSkipped
  \/ GraphicsReset
  \/ Compose
  \/ PresentSubmitted
  \/ PresentAnswered
  \/ BackendAnswer
  \/ \E i \in Inhibitors : Inhibit(i)
  \/ \E i \in Inhibitors : Uninhibit(i)
  \/ Invalidate
  \/ Reconnect
  \/ AppChanges

Spec == Init /\ [][Next]_vars

(***************************************************************************)
(* An active timer fires: Qt serves expired timers in turn, so one of the  *)
(* two cannot starve the other (hence SF).  A dispatch that began ends,    *)
(* being one call stack.  The backend answers what it was given: the       *)
(* kernel reports every page flip.                                         *)
(***************************************************************************)
Fairness ==
  /\ SF_vars(CompositeTimeout) /\ SF_vars(BenchmarkTimeout)
  /\ WF_vars(FrameSkipped \/ GraphicsReset \/ Compose)
  /\ WF_vars(Present)
  /\ WF_vars(BackendAnswer)

FairSpec == Spec /\ Fairness

-----------------------------------------------------------------------------
(***************************************************************************)
(* Properties.                                                             *)
(***************************************************************************)

\* Every frame that beginFrame() counted is either still being composed or
\* owed by the backend, so no answer ever finds pendingFrameCount at zero,
\* which notifyFrameFailed and notifyFrameCompleted assert.
FramesAccounted ==
  loop.pendingFrameCount = owed + (IF phase = "composing" THEN 1 ELSE 0)

\* inhibitCount counts exactly the inhibitors in force, and no timer is
\* armed and no dispatch runs while there is one: a paused or switched-off
\* output never starts a frame.
InhibitedLoopRests ==
  /\ loop.inhibitCount = Cardinality(holders)
  /\ loop.timer \/ loop.benchTimer \/ phase # "idle" => holders = {}

\* A second frame is never begun while one is out, provided uninhibit() is
\* only called when none is (DrmOutput waits for idle before it turns off).
OneFrameAtATime ==
  UninhibitWhilePending \/ loop.pendingFrameCount <= 1

\* Outside dispatch, a repaint that was asked for and not begun is still
\* armed or queued, unless one of the four droppings the code has took it:
\* inhibit() stopping the timer, a frame request the compositor did not
\* serve, termination, invalidate().
RequestKept ==
  phase # "requested" /\ dirty /\ lost = "no" => Kept(loop)

\* The loop never composes on its own account: an armed or queued repaint
\* goes back to a request no frame has served (same proviso).
NoSpuriousFrame ==
  \/ UninhibitWhilePending
  \/ Kept(loop) \/ (phase = "requested" /\ ~skip) => dirty

\* A queued repaint always has somebody who will release it: a frame that
\* is out or an inhibitor in force.  Otherwise the flag would stay set and
\* the output would not be repainted until an unrelated event.
QueuedHasRelease ==
  loop.pendingReschedule => loop.pendingFrameCount > 0 \/ holders # {}

\* RenderLoop implements FrameScheduler: what starts a frame, and that two
\* are never out and none starts while the loop is inhibited, whatever the
\* order of requests, timers, answers and inhibitions.  Needs the proviso of
\* OneFrameAtATime.
Scheduler ==
  INSTANCE FrameScheduler
    WITH wanted <- dirty, out <- loop.pendingFrameCount, held <- holders # {}

ImplementsScheduler == Scheduler!Spec

\* A request that is not dropped is served by a frame, unless the loop
\* stays inhibited for good.
RequestServed ==
  (dirty /\ lost = "no") ~>
     (\/ ~dirty \/ lost # "no"
      \/ [](loop.inhibitCount > 0))
=============================================================================
