----------------------------- MODULE DrmFrames ------------------------------
(***************************************************************************)
(* The frame path of one GPU in the DRM backend: the render loops of its   *)
(* outputs (RenderLoopState), the outputs and pipelines that present their *)
(* frames (drm_output.cpp, drm_pipeline.cpp), and the GPU that waits for   *)
(* every output before a modeset, follows hotplug, DPMS and the session    *)
(* (drm_gpu.cpp, drm_backend.cpp).  The kernel is the environment.         *)
(*                                                                         *)
(* An output is named by its connector.  A connector keeps its DrmPipeline *)
(* while it exists, whether or not a DrmOutput stands for it.  Atomic mode *)
(* setting only; CRTCs suffice for every enabled output; no leases.  One   *)
(* event-loop callback is one step.                                        *)
(***************************************************************************)
EXTENDS RenderLoopState, FiniteSets, Sequences

CONSTANTS
  Outputs,        \* connectors of the GPU
  Powered,        \* outputs whose DPMS mode is switched
  Hotpluggable,   \* outputs that are plugged and unplugged
  Configurable,   \* outputs that are enabled and disabled by configuration
  SessionPauses   \* whether the session is switched away from and back

ASSUME OutputAssumption ==
  /\ IsFiniteSet(Outputs) /\ Outputs # {}
  /\ Powered \subseteq Outputs /\ Hotpluggable \subseteq Outputs
  /\ Configurable \subseteq Outputs /\ SessionPauses \in BOOLEAN

VARIABLES
  out,        \* per connector: render loop, pipeline and output state
  exists,     \* connectors that have a DrmOutput (m_drmOutputs, m_pipelines)
  port,       \* what the kernel says of each connector
  udev,       \* a change event of the device is waiting to be read
  retry,      \* a single-shot timer will call updateOutputs
  gpuActive,  \* DrmGpu::m_isActive
  master,     \* whether the kernel lets this process set modes
  signals     \* PauseDevice and ResumeDevice signals not yet received

vars == <<out, exists, port, udev, retry, gpuActive, master, signals>>
environment == <<port, udev, gpuActive, master, signals>>

MaxSignals == 2   \* bound on how far the session runs ahead of KWin

App == [terminating |-> FALSE, inBenchmark |-> FALSE]

\* The pipeline of a connector that was just created.  needsModeset is
\* m_pending.needsModeset, nextModeset the copy of it in m_next; lit says
\* whether the kernel drives the connector.
NewPipeline ==
  [loop |-> NewLoop, dpmsOn |-> TRUE, enabled |-> TRUE, active |-> TRUE,
   needsModeset |-> FALSE, nextModeset |-> FALSE,
   presentPending |-> FALSE, flip |-> FALSE, lit |-> FALSE]

TypeOK ==
  /\ out \in [Outputs -> [loop : LoopType({}, Nat, Nat), dpmsOn : BOOLEAN,
                          enabled : BOOLEAN, active : BOOLEAN,
                          needsModeset : BOOLEAN, nextModeset : BOOLEAN,
                          presentPending : BOOLEAN, flip : BOOLEAN,
                          lit : BOOLEAN]]
  /\ exists \in SUBSET Outputs
  /\ port \in [Outputs -> {"connected", "disconnected", "absent"}]
  /\ udev \in BOOLEAN /\ retry \in BOOLEAN
  /\ gpuActive \in BOOLEAN /\ master \in BOOLEAN
  /\ signals \in Seq({"pause", "resume"}) /\ Len(signals) <= MaxSignals

\* Every output is up and has just been asked for its first frame, which
\* needs a modeset.
Init ==
  /\ out = [o \in Outputs |->
             [NewPipeline EXCEPT !.needsModeset = TRUE, !.nextModeset = TRUE,
                                 !.loop = ScheduleRepaint(NewLoop, NoItem, App)]]
  /\ exists = Outputs
  /\ port = [o \in Outputs |-> "connected"]
  /\ udev = FALSE /\ retry = FALSE
  /\ gpuActive = TRUE /\ master = TRUE /\ signals = <<>>

-----------------------------------------------------------------------------
(* Pieces of the handlers, as functions of the per-output state d.         *)

ActivePending(r) == r.enabled /\ r.active

\* frameFailed, and what pageFlipped does to the output's loop.
Answered(r) == [r EXCEPT !.loop = FrameAnswered(@, App)]

\* DrmPipeline::pageFlipped
Flipped(r) == [Answered(r) EXCEPT !.flip = FALSE]

\* applyPendingChanges and revertPendingChanges
Apply(r) == [r EXCEPT !.nextModeset = r.needsModeset]
Revert(r) == [r EXCEPT !.needsModeset = r.nextModeset]

\* f applied to the outputs of S.
On(S, d, f(_)) == [o \in Outputs |-> IF o \in S THEN f(d[o]) ELSE d[o]]

\* Mutant: nothing is waited for.
DoNotWait(d, E) == d

\* DrmGpu::waitIdle: the kernel reports every flip that is pending.
WaitIdle(d, E) == On({o \in E : d[o].flip}, d, Flipped)

\* A CommitModeset the kernel accepts (atomicModesetSuccessful).
ModesetDone(r) ==
  LET s == [r EXCEPT !.needsModeset = FALSE, !.lit = ActivePending(r)]
  IN  IF ActivePending(r) THEN Flipped(s) ELSE s

NeedsModeset(d, E) == \E o \in E : d[o].needsModeset

PresentPendingForAll(d, E) ==
  \A o \in E : d[o].presentPending \/ ~ActivePending(d[o])

\* Errors of a commit the kernel refuses.
Errors == IF master THEN {"InvalidArguments", "FramePending", "Other"}
                    ELSE {"NoPermission"}
Results == Errors \cup (IF master THEN {"None"} ELSE {})

\* Mutant: the frames of a modeset the kernel was too busy for are held
\* back for a later try.
HoldBackWhenBusy(d, E, err) ==
  LET Reset(r) == [r EXCEPT !.presentPending = FALSE]
  IN  IF ~PresentPendingForAll(d, E) \/ err = "FramePending" THEN d
      ELSE IF err = "None" THEN On(E, On(E, WaitIdle(d, E), ModesetDone), Reset)
      ELSE On(E, On(E, WaitIdle(d, E), Answered), Reset)

\* DrmGpu::maybeModeset
MaybeModeset(d, E, err) ==
  LET idle == WaitIdle(d, E)
      Reset(r) == [r EXCEPT !.presentPending = FALSE]
      Unlit(r) == [r EXCEPT !.lit = FALSE]
      ResetFailed(r) == IF r.presentPending THEN Reset(Answered(r)) ELSE r
  IN  IF ~PresentPendingForAll(d, E) THEN d
      ELSE IF err = "None" THEN On(Outputs \ E, On(E, On(E, idle, ModesetDone), Reset), Unlit)
      ELSE On(E, idle, ResetFailed)

\* Whether that call ends with a single shot of DrmBackend::updateOutputs.
ModesetRetry(d, E, err) ==
  PresentPendingForAll(d, E) /\ err \notin {"None", "FramePending"}

-----------------------------------------------------------------------------
(* Frames.                                                                 *)

\* RenderLoop::scheduleRepaint, by a damaged item, an effect, the cursor.
Repainted(r) == [r EXCEPT !.loop = ScheduleRepaint(@, NoItem, App)]

Request(o) ==
  /\ o \in exists
  /\ out' = [out EXCEPT ![o] = Repainted(@)]
  /\ UNCHANGED <<exists, retry, environment>>

\* The timer fired and beginFrame was called.
Begun(r) == [r EXCEPT !.loop = BeginFrame([@ EXCEPT !.timer = FALSE])]

\* Compositor::composite and DrmOutput::present without a modeset.
PresentFrame(o, err) ==
  /\ o \in exists /\ out[o].loop.timer /\ out[o].enabled
  /\ ~NeedsModeset(out, exists)
  /\ err = "None" => ~out[o].flip
  /\ out' = [out EXCEPT ![o] =
               IF err = "None"
               THEN [Begun(@) EXCEPT !.flip = ActivePending(out[o])]
               ELSE Answered(Begun(@))]
  /\ retry' = (retry \/ err = "InvalidArguments")
  /\ UNCHANGED <<exists, environment>>

\* The same when some pipeline needs a modeset: DrmPipeline::maybeModeset.
PresentModeset(o, err) ==
  /\ o \in exists /\ out[o].loop.timer /\ out[o].enabled
  /\ NeedsModeset(out, exists)
  /\ LET d == [out EXCEPT ![o] = [Begun(@) EXCEPT !.presentPending = TRUE]]
     IN  /\ out' = MaybeModeset(d, exists, err)
         /\ retry' = (retry \/ ModesetRetry(d, exists, err))
  /\ UNCHANGED <<exists, environment>>

\* The timer of an output the workspace does not have: nobody listens.
DispatchUnheard(o) ==
  /\ o \in exists /\ out[o].loop.timer /\ ~out[o].enabled
  /\ out' = [out EXCEPT ![o].loop.timer = FALSE]
  /\ UNCHANGED <<exists, retry, environment>>

\* Mutants: events are not read while the monitor is unplugged, or while a
\* modeset is due.
FlipWhenPlugged(o) ==
  /\ o \in exists /\ out[o].flip /\ port[o] = "connected"
  /\ out' = [out EXCEPT ![o] = Flipped(@)]
  /\ UNCHANGED <<exists, retry, environment>>

FlipUnlessModeset(o) ==
  /\ o \in exists /\ out[o].flip /\ ~NeedsModeset(out, exists)
  /\ out' = [out EXCEPT ![o] = Flipped(@)]
  /\ UNCHANGED <<exists, retry, environment>>

\* DrmGpu::pageFlipHandler
PageFlip(o) ==
  /\ o \in exists /\ out[o].flip
  /\ out' = [out EXCEPT ![o] = Flipped(@)]
  /\ UNCHANGED <<exists, retry, environment>>

\* A test commit of one pipeline whose outcome is applied or reverted, by
\* setCursor, moveCursor and setColorTransformation, which then ask for a
\* repaint, and by the sync-mode switch of present(), which does not.
TestCommit(o, err, repaints) ==
  /\ o \in exists /\ out[o].enabled
  /\ out' = [out EXCEPT ![o] = IF err # "None" THEN Revert(@)
                               ELSE IF repaints THEN Repainted(Apply(@)) ELSE Apply(@)]
  /\ UNCHANGED <<exists, retry, environment>>

-----------------------------------------------------------------------------
(* DPMS.                                                                   *)

\* DrmOutput::setDrmDpmsMode(Off) of an enabled output that is on
DpmsOff(o, d, E, err) ==
  LET r == WaitIdle(d, E)[o]
      off == [r EXCEPT !.active = FALSE]
  IN  [WaitIdle(d, E) EXCEPT ![o] =
        IF err = "None"
        THEN [Apply(ModesetDone(off)) EXCEPT !.dpmsOn = FALSE,
                                             !.loop = InhibitLoop(@)]
        ELSE Revert(r)]

\* Mutant: the pending changes are not applied.
DpmsOnNotApplied(r, err) ==
  IF r.enabled /\ ~r.dpmsOn /\ err = "None"
  THEN Repainted([r EXCEPT !.active = TRUE, !.needsModeset = TRUE,
                           !.dpmsOn = TRUE, !.loop = UninhibitLoop(@, App)])
  ELSE r

\* DrmOutput::setDrmDpmsMode(On); switching a CRTC on needs a modeset.
DpmsOn(r, err) ==
  IF r.enabled /\ ~r.dpmsOn /\ err = "None"
  THEN Repainted([r EXCEPT !.active = TRUE, !.needsModeset = TRUE,
                           !.nextModeset = TRUE, !.dpmsOn = TRUE,
                           !.loop = UninhibitLoop(@, App)])
  ELSE IF r.enabled /\ ~r.dpmsOn THEN Revert(r) ELSE r

TurnOff(o, err) ==
  /\ o \in Powered \cap exists /\ out[o].enabled /\ out[o].dpmsOn
  /\ out' = DpmsOff(o, out, exists, err)
  /\ UNCHANGED <<exists, retry, environment>>

TurnOn(o, err) ==
  /\ o \in Powered \cap exists /\ out[o].enabled /\ ~out[o].dpmsOn
  /\ out' = [out EXCEPT ![o] = DpmsOn(@, err)]
  /\ UNCHANGED <<exists, retry, environment>>

-----------------------------------------------------------------------------
(* DrmGpu::updateOutputs.                                                  *)

\* What a test commit can say of the need for a modeset, when it has the
\* outputs of driven active and every other connector off: one is needed to
\* switch a connector on or off; else the kernel decides.
ModesetVerdicts(d, driven) ==
  IF \E o \in Outputs : d[o].lit # (o \in driven) THEN {TRUE} ELSE BOOLEAN

\* The last test of testPipelines has every enabled pipeline active.
Enabled(d, E) == {o \in E : d[o].enabled}

\* The pipeline of an output that is removed: it stays with its connector.
Orphaned(r, p) ==
  IF p = "absent" THEN NewPipeline ELSE [r EXCEPT !.loop = NewLoop, !.dpmsOn = TRUE]

\* A new DrmOutput on the connector's pipeline.
Adopted(r) ==
  [r EXCEPT !.loop = NewLoop, !.dpmsOn = TRUE, !.active = TRUE,
            !.nextModeset = r.needsModeset]

Gone(E) == {o \in E : port[o] # "connected"}
Added(E) == {o \in Outputs \ E : port[o] = "connected"}

\* Everything up to testPendingConfiguration; the kernel accepts to switch
\* off the outputs of off.
Replugged(d, E, off) ==
  LET idle == WaitIdle(d, E)
      Off(o) == IF idle[o].enabled /\ idle[o].dpmsOn
                THEN DpmsOff(o, idle, E, IF o \in off THEN "None" ELSE "Other")[o]
                ELSE idle[o]
  IN  [o \in Outputs |->
        IF o \in Gone(E) THEN Orphaned(Off(o), port[o])
        ELSE IF o \in Added(E) THEN Adopted(idle[o])
        ELSE IF port[o] = "absent" THEN NewPipeline ELSE idle[o]]

\* The rest of it; a new output of the workspace asks for its first frame.
\* The result is the state, the outputs and whether a retry is scheduled.
Tested(d, E, added, test, nm) ==
  LET Verdict(r) == [r EXCEPT !.needsModeset = nm, !.nextModeset = nm]
      Shown(r) == IF r.enabled THEN Repainted(r) ELSE r
      Disabled(r) == [r EXCEPT !.enabled = FALSE, !.nextModeset = r.needsModeset]
      Erased(r) == [NewPipeline EXCEPT !.lit = r.lit]
  IN  CASE test = "None" ->
             [out |-> On(added, On(E, d, Verdict), Shown), exists |-> E, retry |-> FALSE]
        [] test = "NoPermission" ->
             [out |-> On(added, On(E, d, Revert), Erased), exists |-> E \ added, retry |-> TRUE]
        [] OTHER ->
             [out |-> On(added, On(E, d, Revert), Disabled), exists |-> E, retry |-> FALSE]

\* Every way the call can end when it starts from d and E.
UpdateOutcomes(d, E) ==
  LET added == Added(E)
      F == (E \ Gone(E)) \cup added
  IN  UNION {UNION {{Tested(Replugged(d, E, off), F, added, test, nm) :
                       nm \in ModesetVerdicts(Replugged(d, E, off),
                                              Enabled(Replugged(d, E, off), F))} :
                     test \in IF F = {} THEN {"None"} ELSE Results} :
             off \in IF master THEN SUBSET Gone(E) ELSE {{}}}

\* The call from state d; scheduled says whether an earlier single shot is
\* still to fire.
UpdateOutputs(d, scheduled) ==
  \E u \in UpdateOutcomes(d, exists) :
    /\ out' = u.out /\ exists' = u.exists
    /\ retry' = (scheduled \/ u.retry)

\* DrmBackend::handleUdevEvent for a change event of this GPU
UdevChange ==
  /\ udev /\ udev' = FALSE
  /\ IF gpuActive THEN UpdateOutputs(out, retry) ELSE UNCHANGED <<out, exists, retry>>
  /\ UNCHANGED <<port, gpuActive, master, signals>>

\* The single shot fires, whether or not the GPU is active.
RetryUpdate ==
  /\ retry
  /\ UpdateOutputs(out, FALSE)
  /\ UNCHANGED environment

\* The kernel notices that a monitor, or a whole connector, comes or goes.
Hotplug(o, p) ==
  /\ o \in Hotpluggable /\ port[o] # p
  /\ port' = [port EXCEPT ![o] = p]
  /\ udev' = TRUE
  /\ UNCHANGED <<out, exists, retry, gpuActive, master, signals>>

-----------------------------------------------------------------------------
(* The session.  logind takes the device away, or gives it back, before it *)
(* sends the signal.                                                       *)

SwitchSession ==
  /\ SessionPauses /\ Len(signals) < MaxSignals
  /\ master' = ~master
  /\ signals' = Append(signals, IF master THEN "pause" ELSE "resume")
  /\ UNCHANGED <<out, exists, port, udev, retry, gpuActive>>

\* Mutant: an output that is off already is not inhibited.
PauseLitOutputs ==
  /\ signals # <<>> /\ Head(signals) = "pause"
  /\ LET Inhibited(r) == IF r.dpmsOn THEN [r EXCEPT !.loop = InhibitLoop(@)] ELSE r
     IN  out' = On(exists, out, Inhibited)
  /\ gpuActive' = FALSE /\ signals' = Tail(signals)
  /\ UNCHANGED <<exists, port, udev, retry, master>>

\* DrmGpu::setActive(false)
DevicePaused ==
  /\ signals # <<>> /\ Head(signals) = "pause"
  /\ LET Inhibited(r) == [r EXCEPT !.loop = InhibitLoop(@)]
     IN  out' = On(exists, out, Inhibited)
  /\ gpuActive' = FALSE /\ signals' = Tail(signals)
  /\ UNCHANGED <<exists, port, udev, retry, master>>

\* DrmGpu::setActive(true)
DeviceResumed ==
  /\ signals # <<>> /\ Head(signals) = "resume"
  /\ LET Uninhibited(r) == [r EXCEPT !.loop = UninhibitLoop(@, App)]
     IN  UpdateOutputs(On(exists, out, Uninhibited), retry)
  /\ gpuActive' = TRUE /\ signals' = Tail(signals)
  /\ UNCHANGED <<port, udev, master>>

-----------------------------------------------------------------------------
(* DrmBackend::applyOutputChanges with a change of one output, which gets  *)
(* a new mode or the like and is enabled or disabled.                      *)

\* testPendingConfiguration refuses: only the changed output is reverted.
\* nm is what a first test, that succeeded before the second failed, found.
ConfigRefused(o, test, nm) ==
  /\ test # "None"
  /\ LET Tainted(r) == [r EXCEPT !.needsModeset = nm]
         tainted == IF \E q \in exists : out[q].enabled /\ ~out[q].active
                    THEN exists \ {o} ELSE {}
     IN  out' = [On(tainted, out, Tainted) EXCEPT ![o] = Revert(out[o])]
  /\ UNCHANGED <<exists, retry, environment>>

\* It is accepted, and applyQueuedChanges runs.  on holds the outputs that
\* can be switched on, err is the outcome of a modeset if there is one.
ConfigApplied(o, enable, nm, on, err) ==
  LET Verdict(r) == [r EXCEPT !.needsModeset = nm]
      tested == On(exists, [out EXCEPT ![o].enabled = enable], Verdict)
      applied == [tested EXCEPT ![o] = Apply(@)]
      modeset == ~enable /\ nm
      shown == [(IF modeset THEN MaybeModeset(applied, exists, err) ELSE applied)
                  EXCEPT ![o] = Repainted(@)]
      TurnedOn == [q \in Outputs |->
                     IF q \in exists THEN DpmsOn(shown[q], IF q \in on THEN "None" ELSE "Other")
                     ELSE shown[q]]
  IN  /\ out' = IF enable /\ shown[o].dpmsOn THEN TurnedOn ELSE shown
      /\ retry' = (retry \/ (modeset /\ ModesetRetry(applied, exists, err)))
      /\ UNCHANGED <<exists, environment>>

ApplyConfig(o) ==
  /\ o \in exists
  /\ \/ \E test \in Errors, nm \in ModesetVerdicts(out, {q \in exists : ActivePending(out[q])}) :
          ConfigRefused(o, test, nm)
     \/ /\ master
        /\ \E enable \in IF o \in Configurable THEN BOOLEAN ELSE {out[o].enabled} :
             \E nm \in ModesetVerdicts(out, IF enable THEN Enabled(out, exists) \cup {o}
                                            ELSE Enabled(out, exists) \ {o}),
                on \in SUBSET {q \in exists : ~out[q].dpmsOn}, err \in Results :
               ConfigApplied(o, enable, nm, on, err)

-----------------------------------------------------------------------------
Next ==
  \/ \E o \in Outputs :
       \/ Request(o)
       \/ DispatchUnheard(o)
       \/ PageFlip(o)
       \/ ApplyConfig(o)
       \/ \E p \in {"connected", "disconnected", "absent"} : Hotplug(o, p)
       \/ \E err \in Results :
            \/ PresentFrame(o, err)
            \/ PresentModeset(o, err)
            \/ TurnOff(o, err)
            \/ TurnOn(o, err)
            \/ \E repaints \in BOOLEAN : TestCommit(o, err, repaints)
  \/ UdevChange
  \/ RetryUpdate
  \/ SwitchSession
  \/ DevicePaused
  \/ DeviceResumed

Spec == Init /\ [][Next]_vars

(***************************************************************************)
(* A timer that is armed fires, and the kernel reports every page flip.    *)
(***************************************************************************)
Compose(o) ==
  \/ \E err \in Results : PresentFrame(o, err) \/ PresentModeset(o, err)
  \/ DispatchUnheard(o)

Fairness ==
  \A o \in Outputs : WF_vars(Compose(o)) /\ WF_vars(PageFlip(o))

FairSpec == Spec /\ Fairness

-----------------------------------------------------------------------------
(***************************************************************************)
(* Properties.                                                             *)
(***************************************************************************)
One(b) == IF b THEN 1 ELSE 0

\* Every frame a loop counts as pending is either with the kernel or held
\* back for a modeset, and the other way round: nothing is answered twice
\* (notifyFrameCompleted asserts a pending frame) and no output freezes
\* because a frame it counts was forgotten by its pipeline.
FramesAccounted ==
  \A o \in exists :
    out[o].loop.pendingFrameCount = One(out[o].flip) + One(out[o].presentPending)

\* A loop is inhibited once by its DPMS state and once by the paused
\* session, across failed commits, unplugging and retried updates, so that
\* every uninhibit() finds its inhibit().
InhibitsAccounted ==
  \A o \in exists :
    out[o].loop.inhibitCount = One(~out[o].dpmsOn) + One(~gpuActive)

\* A dark output, or one of a session that is not in front, never starts a
\* frame.
RestsWhenOff ==
  \A o \in exists :
    out[o].loop.timer => gpuActive /\ out[o].dpmsOn /\ (out[o].enabled => out[o].active)

\* An output that should show something and that the kernel does not drive
\* has its modeset pending, whatever tests, reverts and failures came since
\* it was switched on: its next frame is not sent as a mere page flip.
DarkNeedsModeset ==
  \A o \in exists :
    ActivePending(out[o]) /\ ~out[o].lit => NeedsModeset(out, exists)

\* maybeModeset() holds a frame back only while some active pipeline is not
\* ready: once the last one is, or stops being active, the modeset is done.
HeldBackForSomeone ==
  (\E o \in exists : out[o].presentPending) => ~PresentPendingForAll(out, exists)

Idle(l) == ~l.timer /\ ~l.pendingReschedule /\ l.pendingFrameCount = 0

\* A frame that was begun is answered, unless the modeset it is held back
\* for waits for an output that is never asked to repaint, or is called off
\* by a configuration that goes back to the old mode.
FramesAnswered ==
  \A o \in Outputs :
    (o \in exists /\ out[o].loop.pendingFrameCount > 0) ~>
      \/ o \notin exists \/ out[o].loop.pendingFrameCount = 0
      \/ \E q \in Outputs \ {o} : []Idle(out[q].loop)
      \/ out[o].presentPending /\ ~NeedsModeset(out, exists)
=============================================================================
