# A TLA+ model of KWin's frame scheduling and window negotiation (deepin-kwin)

KWin is a window manager and compositor. It runs as an event loop on one
thread: timers, sockets, signals and D-Bus messages call handlers, and each
handler runs to its end before the next one starts. What is hard is not shared
memory but order: the kernel, the X server, the session, the clients and the
user act at any moment between two handlers, and handlers call back into
objects that are in the middle of something.

This project models the places where that bites most:

* the path of a frame from "something changed" to "it is on the screen"
  (`RenderLoop`, `DrmFrames`, on X11 `X11FenceRing`);
* the negotiation of a window's geometry and state with its client
  (`XdgConfigure` for xdg-shell, `X11SyncRequest` for X11);
* the double-buffered state of a tree of Wayland surfaces (`SurfaceCommit`);
* the two threads that start, restart and stop Xwayland (`XwaylandLauncher`);
* the input focus that KWin, the X server and X11 clients share (`X11Focus`).

Paths such as `core/renderloop.cpp` below are relative to the repository's
`src/`.

## 1. Inventory

| Part | State it keeps | Operations | What is hard, and what makes it correct |
|---|---|---|---|
| RenderLoop (`src/core/renderloop.cpp`) | two timers, `pendingFrameCount`, `inhibitCount`, `pendingReschedule`, `pendingRepaint`, fullscreen item | scheduleRepaint, inhibit, uninhibit, beginFrame, notifyFrameFailed, notifyFrameCompleted, invalidate, dispatch | requests that come while a frame is out, while inhibited, or in the middle of dispatch. Frames are counted exactly, no request is forgotten, no frame starts while the output is dark |
| Compositor (`src/composite.cpp`) | backend, scene, super layers, frame parity | handleFrameRequested, composite, reinitialize, addOutput, removeOutput | a graphics reset in the middle of a frame; outputs that come and go |
| DRM backend (`src/backends/drm`) | per GPU: outputs, pipelines, active; per pipeline: pending and applied state, page-flip and modeset flags | present, maybeModeset, updateOutputs, setDrmDpmsMode, applyOutputChanges, setActive, pageFlipHandler | a modeset waits for a frame of every output while outputs are unplugged, switched off, reconfigured and the session is switched. Every frame is answered exactly once; inhibitions are balanced; a dark output that should be lit has its modeset pending |
| X11, Wayland and virtual backends | vsync monitor, window | present | answer every frame; X11 ones invalidate the loop when destroyed |
| Session (`src/core/session_*.cpp`) | active, devices | pause and resume signals | signals arrive after the fact |
| xdg-shell windows (`src/xdgshellwindow.cpp`) | configure events sent and not acknowledged, last acknowledged one, requested geometry | sendConfigure, handleConfigureAcknowledged, handleCommit, moveResizeInternal | acknowledgements that skip configures, commits without one, gravity |
| X11 windows (`src/x11window.cpp`) | sync counter, alarm, two timers, `isPending`; mapping state | manage, sendSyncRequest, handleSync, handleSyncTimeout, failsafe timeout, focusInEvent, focusOutEvent | a client that answers late or never. KWin never waits without a timer, and the last size is applied |
| X11 fences (`src/x11syncmanager.cpp`) | a ring of fences with their states | triggerFence, insertWait, endFrame, destruction | three parties at their own pace and a ring that wraps. A fence is free when its turn comes, and no wait takes the signal of an earlier round |
| Activation (`src/activation.cpp`, `src/events.cpp`, `src/focuschain.cpp`) | active and last active window, `should_get_focus`, focus chain, focus-out timers | requestFocus, activateNextWindow, setActive, restoreFocus, removeWindow | the focus belongs to the X server and everybody may move it. When all is handled the active window is the one that has the focus |
| Workspace: stacking (`src/layers.cpp`), virtual desktops | stacking orders, desktop set | raise, lower, constrain, remove | the orders hold exactly the windows that exist; constraints hold after every operation |
| Wayland server (`src/wayland`) | surface pending, cached and current state; seat; data devices; idle inhibition | commit, subsurface synchronisation, grabs, drag and drop | double buffering across a tree of surfaces |
| Xwayland (`src/xwayland`) | on the launcher's thread the process, the notifier, the crash count; on the main thread the X11 connection and the selection; selection transfers | start, restart after crash, stop, transfers | crash and restart between the signals of two threads. No server is orphaned, connections follow each other |
| Input (`src/input.cpp` and others) | filters, pressed keys, touch points, gestures | event dispatch | stale focus, sequences that end without their last event |
| Effects, scripting, KCMs, decorations, tabbox, QPA plugin, libkwineffects | animation and configuration state | many | mostly rendering and configuration |

Hazards are listed, each at its line, in `PROJECT.json`.

## 2. Plan

1. `RenderLoopState`, `RenderLoop`, `FrameScheduler`: the render loop, what it
   promises, and the proof. Done.
2. `DrmFrames`: one loop per output composed with the DRM backend. Modelled,
   checked, and its safety properties proved for the constants under which the
   runs pass.
3. `XdgConfigure`: configure, acknowledge, commit. Done, with proofs.
4. `X11SyncRequest` and `X11FenceRing`. Modelled, checked, and their safety
   properties proved.
5. `SurfaceCommit`: pending, cached and current state of a tree of
   sub-surfaces. Modelled, checked, and its safety properties proved.
6. `XwaylandLauncher`. Modelled, checked, and its safety properties proved.
7. `X11Focus`, the X11 side of activation. Modelled, checked, and its safety
   properties proved.
8. Left: `RenderTiming` (the clock arithmetic that `RenderLoop` abstracts);
   the focus chain over several desktops, `VirtualDesktops` and
   `StackingOrder` (container invariants, and constrained stacking against a
   reference definition); `CompositorLifecycle`; `IdleDetection`.

## 3. The modules and the code

### RenderLoopState, RenderLoop, FrameScheduler

`RenderLoopState` is `RenderLoopPrivate` as a record (the two timers,
`pendingReschedule`, `pendingFrameCount`, `inhibitCount`, `pendingRepaint`, the
fullscreen item and whether it may tear) and one operator per method:
`ScheduleRepaint`, `ArmTimer` (the private `scheduleRepaint`),
`MaybeScheduleRepaint`, `FrameAnswered` (`notifyFrameFailed` and
`notifyFrameCompleted`, which differ in clock data only), `InhibitLoop`,
`UninhibitLoop`, `BeginFrame`, `InvalidateLoop`, `SetFullscreenSurface`.

`RenderLoop` runs one loop against everything that drives it. `dispatch()` is
one call stack in the code, but foreign code runs inside it and calls
`scheduleRepaint`; it is therefore three phases: `idle`, `requested` (between
the emission of `frameRequested` and `beginFrame`) and `composing` (from
`beginFrame` to the end of the emission). Timeouts, inhibitions and most of the
rest only happen in `idle`, requests in every phase, and backend answers also
in `composing`, because `present()` may wait for the kernel.
`handleFrameRequested` skips every second frame in benchmark mode: `parity` is
its static counter.
Two history variables tell what the code does not store: `dirty` (a repaint was
asked for and no frame began since) and `lost` (the code dropped its arming,
and how: `inhibit()` stopping the timer, a request the compositor did not
serve, termination, `invalidate()`).

`FrameScheduler` is the promise in three variables: a frame starts only because
one is wanted, never while another is out, never while the output is held.

### DrmFrames

The loops of one GPU's outputs with `DrmGpu`, `DrmOutput` and `DrmPipeline`. A
connector has a record: its loop, DPMS state, the pending `enabled`, `active`
and `needsModeset`, the copy of `needsModeset` that `revertPendingChanges`
restores, the two flags `m_modesetPresentPending` (`presentPending`) and
`m_pageflipPending` (`flip`), and whether the kernel drives it (`lit`). The
connector owns the pipeline, so the record outlives the output: only `exists`
changes when a `DrmOutput` is removed.

Each action is one callback: a composite timeout up to `present()`
(`PresentFrame` when a page flip is enough, `PresentModeset` when the frame has
to wait for `maybeModeset()`), `PageFlip`, `TestCommit` (a test outside of a
frame), `TurnOff` and `TurnOn` (`setDrmDpmsMode` with everything it calls),
`UdevChange` and `RetryUpdate` (both `updateOutputs`), `ApplyConfig`
(`applyOutputChanges`), `DevicePaused` and `DeviceResumed` (`setActive`). The
kernel's verdict on a commit is chosen with `\E`; `master` says whether it lets
this process set modes at all, and changes (`SwitchSession`) before the signal
that tells KWin (`signals`) arrives.

### XdgConfigure

One mapped toplevel: `frame`, `moveResizeGeometry`, the configure timer, the
flag `ConfigurePosition` of the next event, the queue `m_configureEvents`, the
states and decoration KWin wants (`next`) and those the client acknowledged
(`acked`), the gravity, and the interactive move or resize. `Commit` is a
`wl_surface.commit` with any size and with or without an acknowledgement of any
event in the queue, so a client that skips events, lags or disobeys is
included. The serials are those of `wl_display_next_serial`, which wrap.
Rectangles have one dimension: position and size interact the same way along
each axis, and the gravities that matter are "the near edge stays" and "the far
edge stays". `goal` is a history variable: the last geometry that was asked
for, the edge that is held, and what the code did with the request (`kept`,
`dropped` when `move()` returned early, `overtaken` when an older event with a
position was still out).

`SetStateAndGeometry` combines the requests of `maximize()` and
`setFullScreen()`, `StartResize` and `Cancel` include the change of the
maximized state that Window makes, and `FinishAtEdge` the one of an electric
border.

### X11FenceRing

`X11SyncManager` and its `X11SyncObject`s, with the calls `X11Compositor` makes
around a frame. KWin, the X server and the GPU are three parties: the server
takes requests from `queue` and keeps `signalled`, the GPU executes the waits in
`gpu`. A call the code blocks in (`present()`, `glClientWaitSync`,
`glDeleteSync`, the reply to the request sent with a reset) is a step whose
guard is the end of the blocking, and a call with several such points
(`endFrame`, the destructors) is several steps with `index` as the loop
variable. `GpuLag` says how many frames the GPU may have ahead of it when
`present()` returns; the ASSUME that it is at most `MaxFences - 2` is what the
ring needs, and the default swap chain fulfils it.

### X11SyncRequest

One X11 window: `m_syncRequest` as a record (counter, alarm, value, `isPending`,
`interactiveResize`, the two timers), `ready_for_painting`, the interactive
resize and its geometries. The client answers the requests in `asked` when it
likes or never; the X server sends an event for every alarm the counter
reaches, in any order when several go off at once, and an alarm that KWin no
longer knows still fires. The 64-bit counter
is a pair whose low word wraps. `AnyTime` says whether the client may set its
counter property at any moment.

### SurfaceCommit

The three `SurfaceState`s of every `SurfaceInterface`, `hasCacheState`, the
mapped flag, and the tree of `SubSurfaceInterface`s with their modes. The
recursion of `applyState`, `parentCommit` and `commitFromCache` is the set
`AppliedWith`, the one of `updateEffectiveMapped` the function `MappedAfter`.
`CommitToCache`, `CommitThroughCache` and `CommitPending` are the three branches
of `surface_commit`. Destroying a surface includes the destruction of its
sub-surface. `open` and `want` are history: what the client has asked for;
`strayed` and `reparented` are the surfaces two of the properties exempt
(section 4). `QtList` is `QList::removeAll` as a recursive function, for this
module and `X11Focus`: the prover knows nothing of `SelectSeq`.

### XwaylandLauncher

Two threads and a third party. `calls` and `signals` are the two event queues
between the main thread and the launcher; each handler is a step of its thread.
Servers are numbered by the `startInternal()` that started them, so that the
model can say which server a late signal is about, which the code cannot. The
server (external) may write its display name, shut the connection down, crash,
exit or fail to be executed at any time. `hung` is the main thread waiting for
a reply of a server that is gone on a socket that is not closed. `gaveUp`
records the reasons the code has for not running a server.

### X11Focus

One record `s`: what `Workspace`, `FocusChain` and the `X11Window`s keep, and
the X server's focus, windows and undelivered events. A step is a request of the
user, a client or KWin (`Move`), the handling of the oldest event (`Handle`) or a
focus-out timer (`Timeout`). A request KWin makes of the server takes effect at
once, because the code waits for it, and its events join the queue.
`allowWindowActivation` compares timestamps and applications; its verdict is
left open where the code does not fix it. `lapses` records two things the code
does not notice: a window it wanted to focus was closed or hidden already, and
a hidden window that stays mapped got the focus.

### MC modules, mutants

Each component has an `MC` module that extends it and adds the bounds. Operators
with the comment "Mutant" are wrong versions of the definition that follows
them; each is a change to the code that one property has to notice
(`PROJECT.json`, "mutants"). No specification uses them.

## 4. Runs

| Run | Specification | States | Shows |
|---|---|---|---|
| `render_loop` | fair | 6,520 | all of RenderLoop with two items and two inhibitors: frames counted exactly, an inhibited loop rests, at most one frame out, no request forgotten, no frame without a request, queued requests have a release and are served, and the refinement of FrameScheduler |
| `drm_hotplug` | fair | 362 | one output with DPMS, configuration and hotplug: every frame has its owner and is answered, a dark output that should be lit has a modeset pending |
| `drm_two_outputs` | fair | 648 | two outputs that share modesets: frames are held back only for an output that is not ready, and all are answered, also when a modeset fails |
| `drm_power_session` | safety | 207,990 | two outputs with DPMS, configuration and session switches: inhibitions balanced, dark or paused outputs rest |
| `xdg_resize` | safety | 1,939,888 | move, resize, moveResize and interactive resizes that hold the far edge, finished or cancelled, against any client: geometry and position converge |
| `xdg_looks` | fair | 177,472 | the maximized state and decorations, with interactive moves and resizes and hiding: what KWin wants is eventually acknowledged |
| `x11_fences` | fair | 6,739 | the ring comes round with a free fence, no frame takes the signal of an earlier round for its own, no fence is reset under a wait of the GPU, and KWin never blocks for ever |
| `x11_sync` | fair | 13,050 | whatever the client does, KWin waits only with a timer running, does not send one request on top of another, applies the last size of a resize and shows a window that has drawn |
| `surface_commit` | safety | 622,016 | frame callbacks are neither lost nor duplicated, stacking orders are the ones asked for, the mapped flag follows the tree, synchronized sub-surfaces change only with their parent |
| `xwayland` | fair | 60,587 | connections follow each other, the connection to a lost server is about to be torn down, no server is orphaned, another one follows one that ended, and the startup of the session ends |
| `x11_focus` | fair | 263,584 | when all is handled the active window has the focus and the focus is not lost; no pointer to a closed window is kept; KWin and the clients do not fight for ever |

`xwayland` does not check for deadlock: a launcher that has given up rests.

One run ends in a violation. It states what a comment in the repository says,
and shows an execution of the code in which it is false; `PROJECT.json` quotes
the lines. In `drm_held_back` the output a modeset waits for is switched off,
and nobody does the modeset for the others.

### Where the passing runs stop, and why

The constants of the passing runs exclude some combinations. Each exclusion is
a behaviour of the code that a reader can see by changing the constant:

* `render_loop` has `BackendOwnsFrames = TRUE` (a backend that takes its frames
  with it and calls `invalidate()` when it is destroyed, as the X11 ones do) and
  `UninhibitWhilePending = FALSE`. For the
  other values the theorems of section 5 say which properties remain: all but
  `OneFrameAtATime`, `NoSpuriousFrame` and the refinement, which do not hold
  when `uninhibit()` comes while a frame is out, as after a session switch.
* `drm_two_outputs` has no DPMS, hotplug, configuration or session switches.
  With any of the first three a held-back frame may be left without a modeset
  (`HeldBackForSomeone` fails, as in `drm_held_back`). With any of the four
  `FramesAccounted` fails while a frame is held back: a loop that is released
  begins a second frame behind it, or another output's modeset resets the flag
  of a frame it does not answer.
* `drm_hotplug` has no session switches. With `SessionPauses = TRUE`,
  `InhibitsAccounted` fails: `updateOutputs()`, retried by its single shot
  (`backends/drm/drm_gpu.cpp:360`) after the kernel gave the device back and
  before the resume signal is handled, adds an output that nobody inhibited,
  and `setActive(true)` uninhibits it.
* `xdg_resize` has no interactive moves. With `"move"` in `Interactions`,
  `GeometryConverges` fails: a commit during the move does not synchronize
  `moveResizeGeometry` (`xdgshellwindow.cpp:289`), and nothing does so when the
  move ends.
* `xdg_looks` has `Wraps = FALSE`. With `Wraps = TRUE` and `FirstSerials = {3}`,
  `LooksReached` fails: the newest event has the smaller serial, so that
  acknowledging it takes nothing from the queue (`xdgshellwindow.cpp:178`).
* `PositionHolds` speaks of requests whose fate is `kept`. A `dropped` one is a
  `move()` while a resize is pending: it returns early
  (`xdgshellwindow.cpp:336-340`) although the comments at
  `xdgshellwindow.cpp:331` only speaks of cancelling queued positions, and
  `window.h:1261-1267` says that the move-resize geometry is the next geometry. An `overtaken` one is a
  `moveResize()` that takes effect at once while an older event with a position
  is out, whose acknowledgement then undoes it. The gravity of a request is the
  one of the last interactive resize, which is never reset
  (`xdgshellwindow.cpp:1337`).
* `RequestKept` lists `inhibit()` among the droppings: it stops an armed timer,
  and `uninhibit()` has nothing to re-apply, although `core/renderloop.h:40-41`
  says that pending requests are re-applied. `setDrmDpmsMode` asks again
  itself, `DrmGpu::setActive` does not.

* `drm_hotplug` replugs only outputs without a held-back frame (with one output
  none is held back). With one, `m_modesetPresentPending` survives in the
  pipeline, which the connector owns (`backends/drm/drm_connector.cpp:116`),
  and after replugging the new loop is told of a frame it never began, which
  `core/renderloop.cpp:129` and `:139` assert not to happen.
* `drm_two_outputs` excepts from `FramesAnswered` a modeset that waits for an
  output nobody asks to repaint (`backends/drm/drm_gpu.cpp:765`): whether every
  output is repainted after a mode change is up to the scene.
* `x11_sync` has `AnyTime = FALSE`. With `TRUE`, `WaitHasRelease` fails: a
  counter gained within the 33 ms of a client without one leaves the window
  waiting for an answer to a request that was never sent
  (`x11window.cpp:4869`). The same happens after a first request that was
  given up with `isPending` still set, and a counter set between `manage()` and
  the first damage keeps the window from being shown. An alarm that exists
  keeps its trigger although the counter starts at 0 again
  (`x11window.cpp:2432`), and `NoRequestOnTop` exempts a client whose support
  was removed and that sets its counter again: a late answer is then taken for
  the new one.
* `surface_commit` exempts `strayed` surfaces from `StackingAsAsked`: a
  sub-surface that becomes synchronized again has its pending stacking order
  reset from a cache that missed the commits made in between
  (`wayland/surface_interface.cpp:549`). It exempts `reparented` ones from
  `MappedTracksTree`: becoming or ceasing to be a sub-surface does not recompute
  the flag, although `wayland/surface_interface.h:240-247` defines it by the
  parent. Two more behaviours are in the model and no property is about them:
  a desynchronized child of a synchronized sub-surface keeps its cache when the
  state of its parent is applied, and `mergeInto` puts newer frame callbacks
  before older ones.
* `xwayland`: `stop()` does not say which server it means
  (`xwayland/xwayland.cpp:237`), so one that crosses a restart stops the new
  server; `RunsAgain` counts any `stop()` asked for as a reason not to run.
  `StartupEnds` excepts a server that cannot be executed, of which nobody is told
  (`xwayland/xwaylandlauncher.cpp:355`), and a main thread that hangs in
  connecting to a server that died, because the launcher keeps the server's end
  of the socket open (`xwayland/xwaylandlauncher.cpp:183-193`,
  `xwayland/xwayland.cpp:420`). Whether the timer that resets the crash count
  runs is left open: it is started from a thread it does not belong to
  (`xwayland/xwaylandlauncher.cpp:60` and `:330`). `started()` is also sent for
  a server that died before it was ready.
* `x11_focus`: `FocusRestored` exempts a window that refused the focus. When an
  application closes two windows at once, `activateNextWindow()` chooses the
  second, the request fails (`activation.cpp:534` does not look) and the focus
  stays on the root, which the comment at `events.cpp:359` wants to avoid, until
  something else moves it. `ActiveHasFocus` exempts a hidden window that stays
  mapped and is focused by its client. `should_get_focus` may grow without a
  bound: activating the window that has the focus appends to it and brings no
  event; `MaxWaiting` bounds the list.

### Bounds

* Two items: the fullscreen one and another; requests without an item are
  always possible. Two inhibitors: the first and the second `inhibit()` differ
  in the code, a third does not.
* `MaxCount` (2, `CountersBounded`): counters are followed from -2 to 2. Only
  `drm_power_session` and `drm_held_back` use the bound; past it lie only
  repetitions of what a held-back frame causes.
* `MaxSignals` (2): the session may leave and come back before KWin hears of
  it; a longer backlog repeats that.
* Two outputs: a modeset that one output waits for. The constants `Powered`,
  `Hotpluggable`, `Configurable` and `SessionPauses` choose which disturbances
  a run has; together they would exceed what TLC explores in minutes.
* `MaxEvents` (2): configure events in the queue. Two are needed for an
  acknowledgement that skips one; the theorems hold for every bound.
* Sizes and positions of one or two values: enough to differ. `Reach` (1,
  `PositionsBounded`) cuts off windows that walk away when a client resized
  from the left keeps choosing its own size.
* `SerialModulus` (4 or 3) with `FirstSerials`: where the counter is when the
  queue is empty, so that it wraps between two events in the queue (`Wraps`) or
  does not.
* `MaxFences` (4) is the ring the code has; `GpuLag` (2) the largest the
  assumption allows. Neither queue needs a bound: KWin blocks.
* `LoModulus` (2): the low word carries every second request. `MaxRequests` (3)
  requests: a first one, one of a resize, and one after support was removed and
  gained again; `MaxAlarms` (2): the alarm of each. Two sizes differ.
* Three surfaces in a chain, created and destroyed in any order: a sub-surface
  of a sub-surface is where "synchronized because of an ancestor" begins. Two
  callbacks: one in each of two lists. Buffers, callbacks and orders are merged
  independently of each other, so a behaviour uses one kind of request
  (`OneKind`); with all kinds at once the states exceed what TLC explores in
  minutes.
* `MaxStarts` (3), `MaxCrashCount` (1): a server that is restarted, one that
  ends after the count is used up or reset, and the one after. `MaxCalls` (2)
  calls of `stop()` under way: one that arrives after the other did its work.
* Two windows, `MaxEvents` (3) events under way when anybody moves,
  `MaxWaiting` (3): the events of two moves may cross. The three invariants also
  hold with three windows, one event and two entries (2.1 million states).

### Fairness

* RenderLoop: strong fairness of each timeout. Qt serves expired timers in
  turn, so neither of the two starves the other, although each dispatch
  disables both for its duration. Weak fairness of the end of a dispatch (it is
  one call stack) and of the backend's answers (the kernel reports every page
  flip; the X11 backends' vsync monitors always answer). None for requests,
  inhibitors or the environment.
* DrmFrames: an armed timer fires, a page flip is reported. No fairness of the
  user, the session or hotplug.
* XdgConfigure: the configure timer is a zero timer and fires; the client
  eventually acknowledges the newest event. KWin can do without the second in
  all safety properties; only `LooksReached` needs it.

* X11FenceRing: the X server works off its queue, the GPU passes a wait whose
  fence is signalled, and a call of KWin that is not blocked goes on. None for
  frames or for stopping the compositor.
* X11SyncRequest: active timers fire and events that have arrived are handled.
  Nothing is assumed of the client. That the 250 ms timer fires supposes that
  the pointer rests for so long some time.
* XwaylandLauncher: both event loops handle what is posted to them, the launcher
  what its process and its notifier report, and a claim to the selection ends
  while the server answers (`KSelectionOwner` has a timeout). None for the
  server.
* X11Focus: KWin handles the events that arrive and its timers of 0 ms. None for
  users and clients; `Settles` is about what follows when they stop.

`RequestServed` excepts a loop that stays inhibited, and `FramesAnswered` a
frame that is held back for an output nobody asks to repaint: both are
behaviours of the code. `xdg_looks` sets `Wraps` to `FALSE`, which says that
less than 2^32 serials are used while the queue is not empty.

## 5. Proofs

Checked by TLAPS, for every value of the constants.

`RenderLoopProofs` assumes that `NoItem` is no item, that the inhibitors are a
finite set and that the two switches are Booleans. The inductive invariant
`LoopInv` is the conjunction of

* `TypeInv`, in which the two counters are only integers: that they never go
  below zero follows from the next two;
* `FramesAccounted` and `InhibitedLoopRests`, which tie the counters to the
  frames the backend owes and to the set of inhibitors;
* `WindowInv`: `pendingRepaint` is set exactly between `frameRequested` and
  `beginFrame`, and the composite timer is not armed there. Without it a
  request in that window could look kept although the code ignores it;
* `RequestKept`, `QueuedHasRelease`, `NoSpuriousFrame`, the properties
  themselves;
* `PacingInv`: an armed timer means that no frame is out, which makes
  `OneFrameAtATime` inductive.

What a method does to the record is stated once, as lemmas about
`RenderLoopState`; then there is one lemma per group of actions.
`LoopImplementsScheduler` proves the refinement: from states that satisfy
`LoopInv` every action is `Want`, `Start`, `Answer`, `HoldOrRelease` or a
stutter. It assumes `~UninhibitWhilePending`: with a frame out when the loop is
released, a second one may start, and the promise is then not kept.

`XdgConfigureProofs` assumes no more than the module's ASSUMEs: sizes are
naturals, positions integers, the modulus is positive, the kinds are those the
code has. There is no assumption on how many events are out, in which order
they are acknowledged or what the client commits.

* `LooksAlwaysConverge` from `LooksInv`: unless a configure is scheduled, the
  newest event, or with none out the acknowledged state, is what KWin wants.
  Wrapping is harmless for it because an acknowledgement always takes a prefix
  of the queue.
* `PositionsHold` from `GoalInv`: `PositionInv` (if any event out carries a
  position the newest one does, which is why `sendConfigure` inherits flags),
  `MoveInv` (after a move none does) and `PlaceInv` (the newest event with a
  position carries the last request, or the window is in place already).
* `GeometryAlwaysConverges` from `ResizeInv`, with interactive moves and hiding
  excluded. Both exclusions are needed: section 4 has the counterexample for
  moves, and TLC finds one for a window hidden in the middle of a resize, which
  stays in the `Resizing` state.

The type invariants of both modules are proved (`TypeCorrect`, `TypesHold`) and
not part of the runs.

`DrmFramesProofs` first says what every operator does to the record of one
output, then carries it over all outputs a handler visits, for any number of
them. Each property needs its own invariant and hypothesis:

* `DarkOutputsNeedModeset` has no hypothesis. `DarkInv` says of an output that
  should be lit and is dark that the modeset is needed also in the copy
  `revertPendingChanges` restores; else a failed test would forget it.
* `InhibitsOnce` and `NoFrameWhenOff` suppose `NoneComesPaused`: no hotplug, or
  no session switches. `InhibitInv` equates `inhibitCount` with the reasons to
  inhibit; `EnvInv` says that pause and resume signals alternate and what KWin
  believes once it has handled them, so that no reason is counted twice.
* `HeldBackWhileSteady` supposes `Steady`: no DPMS, hotplug or configuration.
  Session switches are allowed. `SteadyInv` adds that all outputs are on.
* `FramesCounted` supposes that the session does not pause and that there is
  one output (`Alone`) or nothing disturbs them (`Steady`). `CountedInv` says
  that `pendingFrameCount` is the number of the two flags that are set, that it
  is one at most, that the timer is off while it is one, and that the record of
  an unplugged output owes nothing.

`X11FenceRingProofs` assumes a ring of at least three fences. `AheadInv` says how
many of the fences ahead are free: two between frames, one once a frame has
taken its own, and in `endFrame()` those the loop has been at. The speed of the
server and of the GPU plays no part, because `endFrame()` waits. What the frame
in progress waits for is a third fence, which is why two would not do.

`SignalsOfThisRound` and `WaitsNotReset` follow the two other parties.
`ServerInv` relates, for each fence, what KWin believes of it, whether it is
signalled at the server and the request for it that is under way, of which
there is one at most: a signal therefore belongs to the last trigger.
`GpuInv` says that a frame the GPU has not reached, with `i` frames behind it,
waits for a fence that was triggered at most `i` triggers ago (`LagInv` says
where the ring is since). Since `GpuLag` is at most `MaxFences - 2`, the fences
that are reset are never among those waited for.

`X11SyncProofs` assumes that the counter property is not set in the middle of a
request (`~AnyTime`; section 4 has what happens otherwise) and nothing of the
client, the number of requests or the width of the counter.
`WaitHasRelease` is not inductive: the failsafe timer of the first request ends
without ending the waiting. `FirstRequestInv` adds that a window that is not
shown yet and has a counter has its first request out, so that no resize can
have begun to wait for another. `RequestsNotOnTop` has the
same hypothesis: until support is removed there is one alarm at most, and a
request that is unanswered, or the event that answers it, is on its way only
while KWin waits for it (`UnderWayInv`).

`XwaylandLauncherProofs` assumes nothing but what the constants are. The argument
looks at the X11 connection and the `started()` signals under way as one line of
openings. `TurnInv` says that a `finished()` lies between any two of them;
`ClosedInv`, that before a server is started and until its readiness is reported
a `finished()` lies behind all of them; `ExcuseInv`, that one without a
`finished()` behind it is of the server that is watched, or of one that died
before it was ready and can no longer be connected to, or the launcher has
given up and its `stop()` is under way. `OneServer` needs `LifeInv`: a server
that has ended is not up, and none has a past before it is started.

`SurfaceCommitProofs` assumes only what the constants are. What the commit does
is recursive in the code and in the model, and a recursive function is of no
use to a prover before it is known to exist. `TreeInv` therefore says that the
tree is a forest of bounded depth, from which `TreeRecursion` derives, by a
counterexample of least depth, that the functions satisfy their equations.

* `CallbacksAlwaysOnce` from `OnceInv`: the callbacks of all lists of all
  surfaces are distinct, and together they are those the client has asked for.
* `MappedAlwaysTracksTree` from `FlagsInv`: a sub-surface that is not exempt is
  flagged as mapped exactly when it has a buffer and its parent is mapped.
* `StackingAlwaysAsAsked` from `StackInv`. `OrdersAt` says that each of the
  four orders has the surface and its children once; `InStep`, for a surface
  that has not strayed, where the order it asked for waits: in the pending
  state, in the cache or in the current one. `RemoveAll` is needed there to
  take out exactly one child.
* `AlwaysSyncedWithParent` is an action property; `TreeInv` and the types are enough for it.

`X11FocusProofs` assumes only what the constants are: any number of windows and
of events under way.

* `NoWindowDangles` from `Linked`: the pointers are to managed windows and the
  focus chain has each of these once.
* `FocusAlwaysRestored` from `RootHeard`: while the root has the focus, the
  report of it is under way, or the last window asked refused it.
* `ActiveAlwaysHasFocus` takes most of the work, because it speaks only of the
  moments in which nothing is under way and every step between them counts.
  Its invariant relates KWin's picture to the events that are still to come:
  - `Server`: the reports come in an order that makes sense. Behind one that
    the window with the focus has lost it, or that another got it, is the one
    that it has it; behind the `FocusIn` of another window is its `FocusOut`;
    and the focus is on a window that lives.
  - `Due`: of a managed window that is gone, the closing is still to be heard.
  - `Top`: the active window is shown, is `m_lastActiveWindow` and ends the
    focus chain, so that `activateNextWindow` gives it the focus back.
  - `Gain`: a window that has the focus and is not active, or whose timer runs,
    is reported to have it, or was ignored for a reason in `lapses`.
  - `Loss`: an active window that lost the focus, and whose timer was stopped
    by a `FocusIn` that KWin answered with a request for another window, waits
    for that request, and it is still good: its window is not hidden, and if
    the focus fell to the root since, KWin will hear of that.

## 6. Only model-checked

* Liveness (`RequestServed`, `FramesAnswered`, `LooksReached`, `KWinGoesOn`,
  `SizeApplied`, `ShownOnceDrawn`, `RunsAgain`, `StartupEnds`, `Settles`): the
  prover does not treat fairness.

Every safety property of the passing runs is proved. Where section 5 names a
hypothesis, the run satisfies it, and section 4 says what fails without it.

## 7. Not modelled

* Time: how long the composite timer waits (`RenderTiming` in the plan).
* DRM: leases, the legacy API, virtual outputs, which CRTC and plane an output
  gets, several GPUs, configurations that change several outputs at once, a
  page flip that is later than the 30 seconds `waitIdle()` waits.
* xdg-shell: popups, the first configure of an unmapped window, the keep-in-area
  step of split windows, placeholder windows, window rules, a decoration that
  changes its borders, the destruction of the decoration object
  (`xdgshellwindow.cpp:1948` clears the wish without a configure event), the
  quick tile mode a cancelled interaction restores.
* X11 sync requests: shading, tiles, the unmanaging of the window.
* Surfaces: positions of sub-surfaces, locked and confined pointers, protocol
  errors; regions, scale, viewport and damage, which are merged the way buffers
  are.
* Xwayland: the destructor of the launcher, which waits for its thread;
  selection transfers and drag and drop.
* Focus: several desktops, outputs and activities, docks and desktop windows,
  modal dialogs, shading, windows that take the focus themselves or ask not to
  get it, Wayland windows, whose focus KWin sets without asking anybody.
* The parts of the inventory that the plan lists and that have no module yet,
  and those it does not list: rendering and effects, scripting, settings
  modules, the task switcher and input, whose state is mostly geometry, devices
  and configuration. `PROJECT.json` names every part and the reason.

The repository has some 280,000 lines. Most of them draw, lay out, bind to
scripts, wrap protocols or store settings, and have no order of events to get
wrong. The modules cover a small share of the lines, chosen for having one.
