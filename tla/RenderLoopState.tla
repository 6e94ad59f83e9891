-------------------------- MODULE RenderLoopState --------------------------
(***************************************************************************)
(* The state of one KWin RenderLoop (src/core/renderloop.cpp and           *)
(* renderloop_p.h) as a record, and its operations as functions from       *)
(* records to records.  A RenderLoop is the compositing scheduler of one   *)
(* output; RenderLoop.tla runs a single loop against an arbitrary          *)
(* compositor and backend, DrmFrames.tla runs one loop per DRM output.     *)
(*                                                                         *)
(* Clock arithmetic (how long the composite timer waits) is abstracted:    *)
(* an armed timer may fire at any moment.  VrrPolicy and presentMode only  *)
(* choose the wait and the flip flags, so they are left out; allowTearing  *)
(* stays because it decides whether an armed timer is started again.       *)
(***************************************************************************)
EXTENDS Integers

CONSTANT NoItem       \* nullptr, where the code takes an Item pointer

(***************************************************************************)
(* RenderLoopPrivate.  timer and benchTimer say whether compositeTimer and *)
(* benchmarkTimer are active.                                              *)
(***************************************************************************)
NewLoop ==
  [timer |-> FALSE, benchTimer |-> FALSE, pendingReschedule |-> FALSE,
   pendingFrameCount |-> 0, inhibitCount |-> 0, pendingRepaint |-> FALSE,
   fullscreenItem |-> NoItem, allowTearing |-> FALSE]

LoopType(Items, Frames, Inhibits) ==
  [timer : BOOLEAN, benchTimer : BOOLEAN, pendingReschedule : BOOLEAN,
   pendingFrameCount : Frames, inhibitCount : Inhibits,
   pendingRepaint : BOOLEAN, fullscreenItem : Items \cup {NoItem},
   allowTearing : BOOLEAN]

(***************************************************************************)
(* What the loop asks the rest of the program about when it arms a timer:  *)
(* kwinApp()->isTerminating() and Compositor::inBenchmark().               *)
(***************************************************************************)
AppType == [terminating : BOOLEAN, inBenchmark : BOOLEAN]

\* RenderLoopPrivate::scheduleRepaint
ArmTimer(l, app) ==
  IF app.terminating \/ (l.timer /\ ~l.allowTearing)
  THEN l
  ELSE [l EXCEPT !.timer = TRUE, !.benchTimer = @ \/ app.inBenchmark]

\* Mutants: the queued request is dropped; the flag is not reset.
DropQueued(l, app) == [l EXCEPT !.pendingReschedule = FALSE]
KeepQueued(l, app) == IF l.pendingReschedule THEN ArmTimer(l, app) ELSE l

\* RenderLoopPrivate::maybeScheduleRepaint
MaybeScheduleRepaint(l, app) ==
  IF l.pendingReschedule
  THEN [ArmTimer(l, app) EXCEPT !.pendingReschedule = FALSE]
  ELSE l

\* The early return of RenderLoop::scheduleRepaint.
RequestIgnored(l, item) ==
  \/ l.pendingRepaint
  \/ l.fullscreenItem # NoItem /\ item # NoItem /\ item # l.fullscreenItem

\* Mutant: a frame that is out does not hold the timer back.
RepaintDespiteFrame(l, item, app) ==
  IF RequestIgnored(l, item) THEN l
  ELSE IF l.inhibitCount = 0 THEN ArmTimer(l, app)
  ELSE [l EXCEPT !.pendingReschedule = TRUE]

\* RenderLoop::scheduleRepaint and delayScheduleRepaint
ScheduleRepaint(l, item, app) ==
  CASE RequestIgnored(l, item) -> l
    [] ~RequestIgnored(l, item) /\ l.pendingFrameCount = 0 /\ l.inhibitCount = 0 ->
         ArmTimer(l, app)
    [] OTHER -> [l EXCEPT !.pendingReschedule = TRUE]

\* The common part of notifyFrameFailed and notifyFrameCompleted.
FrameAnswered(l, app) ==
  LET m == [l EXCEPT !.pendingFrameCount = @ - 1]
  IN  IF l.inhibitCount = 0 THEN MaybeScheduleRepaint(m, app) ELSE m

StopTimers(l) == [l EXCEPT !.timer = FALSE, !.benchTimer = FALSE]

\* Mutant: the timers keep running.
InhibitWithoutStop(l) == [l EXCEPT !.inhibitCount = @ + 1]

\* RenderLoop::inhibit
InhibitLoop(l) ==
  LET m == [l EXCEPT !.inhibitCount = @ + 1]
  IN  IF m.inhibitCount = 1 THEN StopTimers(m) ELSE m

\* RenderLoop::uninhibit
UninhibitLoop(l, app) ==
  LET m == [l EXCEPT !.inhibitCount = @ - 1]
  IN  IF m.inhibitCount = 0 THEN MaybeScheduleRepaint(m, app) ELSE m

\* Mutant: the frame is not counted.
UncountedFrame(l) == [l EXCEPT !.pendingRepaint = FALSE]

\* RenderLoop::beginFrame
BeginFrame(l) ==
  [l EXCEPT !.pendingRepaint = FALSE, !.pendingFrameCount = @ + 1]

\* RenderLoopPrivate::invalidate
InvalidateLoop(l) ==
  [StopTimers(l) EXCEPT !.pendingReschedule = FALSE, !.pendingFrameCount = 0]

\* RenderLoop::setFullscreenSurface; only a Wayland surface that asks for
\* asynchronous presentation may tear.
SetFullscreenSurface(l, item, tearing) ==
  [l EXCEPT !.fullscreenItem = item, !.allowTearing = item # NoItem /\ tearing]
=============================================================================
