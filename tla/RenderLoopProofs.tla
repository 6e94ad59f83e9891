-------------------------- MODULE RenderLoopProofs --------------------------
(***************************************************************************)
(* Proofs about RenderLoop: its safety invariants hold for every set of    *)
(* items and every finite set of inhibitors, and when uninhibit() waits    *)
(* for the frame that is out the loop implements FrameScheduler.           *)
(***************************************************************************)
EXTENDS RenderLoop, FiniteSetTheorems, TLAPS

-----------------------------------------------------------------------------
(* What the operations of RenderLoopState do to a loop, field by field.    *)

Loops == LoopType(Items, Int, Int)

\* Two loops that agree on everything but the timers and the queued request.
SameButTimers(l, m) ==
  /\ m.pendingFrameCount = l.pendingFrameCount
  /\ m.inhibitCount = l.inhibitCount
  /\ m.pendingRepaint = l.pendingRepaint

\* Arming keeps everything but the timers, never disarms, and arms unless
\* the application terminates.
LEMMA ArmTimerEffect ==
  ASSUME NEW l \in Loops, NEW a \in AppType,
         NEW m, m = ArmTimer(l, a)
  PROVE  /\ m \in Loops
         /\ SameButTimers(l, m)
         /\ m.pendingReschedule = l.pendingReschedule
         /\ l.timer => m.timer
         /\ a.terminating \/ m.timer
  BY DEF ArmTimer, SameButTimers, Loops, LoopType, AppType

\* Releasing a queued request clears the queue and arms in its place.
LEMMA MaybeScheduleEffect ==
  ASSUME NEW l \in Loops, NEW a \in AppType,
         NEW m, m = MaybeScheduleRepaint(l, a)
  PROVE  /\ m \in Loops
         /\ SameButTimers(l, m)
         /\ ~m.pendingReschedule
         /\ l.timer => m.timer
         /\ l.pendingReschedule => a.terminating \/ m.timer
         /\ m.timer => l.timer \/ l.pendingReschedule
         /\ ~l.pendingReschedule => m = l
  <1> DEFINE r == ArmTimer(l, a)
  <1>1. /\ r \in Loops /\ SameButTimers(l, r)
        /\ l.timer => r.timer
        /\ a.terminating \/ r.timer
    BY ArmTimerEffect
  <1>2. CASE l.pendingReschedule
    <2>1. m = [r EXCEPT !.pendingReschedule = FALSE]
      BY <1>2 DEF MaybeScheduleRepaint
    <2> HIDE DEF r
    <2> QED
      BY <1>1, <1>2, <2>1 DEF SameButTimers, Loops, LoopType, AppType
  <1>3. CASE ~l.pendingReschedule
    BY <1>3 DEF MaybeScheduleRepaint, SameButTimers, Loops, LoopType
  <1> QED BY <1>2, <1>3

\* A request the loop accepts is armed at once when no frame is out and
\* nobody inhibits, and queued otherwise.
LEMMA ScheduleRepaintEffect ==
  ASSUME NEW l \in Loops, NEW a \in AppType, NEW i \in Items \cup {NoItem},
         NEW m, m = ScheduleRepaint(l, i, a)
  PROVE  /\ m \in Loops
         /\ SameButTimers(l, m)
         /\ RequestIgnored(l, i) => m = l
         /\ l.timer => m.timer
         /\ l.pendingReschedule => m.pendingReschedule
         /\ ~RequestIgnored(l, i) =>
              a.terminating \/ m.timer \/ m.pendingReschedule
         /\ m.pendingReschedule =>
              \/ l.pendingReschedule
              \/ l.pendingFrameCount # 0 \/ l.inhibitCount # 0
         /\ m.timer \/ m.benchTimer =>
              \/ l.timer \/ l.benchTimer
              \/ l.pendingFrameCount = 0 /\ l.inhibitCount = 0
         /\ m.timer => l.timer \/ l.pendingFrameCount = 0
  <1> DEFINE r == ArmTimer(l, a)
  <1>1. /\ r \in Loops /\ SameButTimers(l, r)
        /\ r.pendingReschedule = l.pendingReschedule
        /\ l.timer => r.timer
        /\ a.terminating \/ r.timer
    BY ArmTimerEffect
  <1>2. CASE RequestIgnored(l, i)
    BY <1>2 DEF ScheduleRepaint, SameButTimers
  <1>3. CASE ~RequestIgnored(l, i) /\ l.pendingFrameCount = 0 /\ l.inhibitCount = 0
    <2>1. m = r
      BY <1>3 DEF ScheduleRepaint
    <2> HIDE DEF r
    <2> QED
      BY <1>1, <1>3, <2>1
  <1>4. CASE ~RequestIgnored(l, i) /\ ~(l.pendingFrameCount = 0 /\ l.inhibitCount = 0)
    <2>1. m = [l EXCEPT !.pendingReschedule = TRUE]
      BY <1>4 DEF ScheduleRepaint
    <2> HIDE DEF r
    <2> QED
      BY <1>4, <2>1 DEF SameButTimers, Loops, LoopType
  <1> QED BY <1>2, <1>3, <1>4

\* An answered frame releases a queued request unless the loop is inhibited.
LEMMA FrameAnsweredEffect ==
  ASSUME NEW l \in Loops, NEW a \in AppType,
         NEW m, m = FrameAnswered(l, a)
  PROVE  /\ m \in Loops
         /\ m.pendingFrameCount = l.pendingFrameCount - 1
         /\ m.inhibitCount = l.inhibitCount
         /\ m.pendingRepaint = l.pendingRepaint
         /\ l.inhibitCount # 0 =>
              /\ m.timer = l.timer /\ m.benchTimer = l.benchTimer
              /\ m.pendingReschedule = l.pendingReschedule
         /\ l.inhibitCount = 0 => ~m.pendingReschedule
         /\ l.timer => m.timer
         /\ l.pendingReschedule =>
              m.pendingReschedule \/ a.terminating \/ m.timer
         /\ m.timer => l.timer \/ l.pendingReschedule
  <1> DEFINE r == [l EXCEPT !.pendingFrameCount = @ - 1]
             s == MaybeScheduleRepaint(r, a)
  <1>1. /\ r \in Loops
        /\ r.pendingFrameCount = l.pendingFrameCount - 1
        /\ r.inhibitCount = l.inhibitCount
        /\ r.pendingRepaint = l.pendingRepaint
        /\ r.timer = l.timer /\ r.benchTimer = l.benchTimer
        /\ r.pendingReschedule = l.pendingReschedule
    BY DEF Loops, LoopType
  <1>2. m = IF l.inhibitCount = 0 THEN s ELSE r
    BY DEF FrameAnswered
  <1> HIDE DEF r
  <1>3. /\ s \in Loops /\ SameButTimers(r, s)
        /\ ~s.pendingReschedule
        /\ r.timer => s.timer
        /\ r.pendingReschedule => a.terminating \/ s.timer
        /\ s.timer => r.timer \/ r.pendingReschedule
    BY <1>1, MaybeScheduleEffect
  <1> HIDE DEF s
  <1> QED
    BY <1>1, <1>2, <1>3 DEF SameButTimers

\* Stopping the timers touches nothing else.
LEMMA StopTimersEffect ==
  ASSUME NEW l \in Loops,
         NEW m, m = StopTimers(l)
  PROVE  /\ m \in Loops
         /\ SameButTimers(l, m)
         /\ m.pendingReschedule = l.pendingReschedule
         /\ ~m.timer /\ ~m.benchTimer
  BY DEF StopTimers, SameButTimers, Loops, LoopType

\* The first inhibition stops both timers; the others change only the count.
LEMMA InhibitEffect ==
  ASSUME NEW l \in Loops,
         NEW m, m = InhibitLoop(l)
  PROVE  /\ m \in Loops
         /\ m.inhibitCount = l.inhibitCount + 1
         /\ m.pendingFrameCount = l.pendingFrameCount
         /\ m.pendingRepaint = l.pendingRepaint
         /\ m.pendingReschedule = l.pendingReschedule
         /\ m.timer => l.timer /\ l.inhibitCount # 0
         /\ m.benchTimer => l.benchTimer /\ l.inhibitCount # 0
         /\ l.timer => m.timer \/ l.inhibitCount = 0
  <1> DEFINE r == [l EXCEPT !.inhibitCount = @ + 1]
             s == StopTimers(r)
  <1>1. /\ r \in Loops
        /\ r.inhibitCount = l.inhibitCount + 1
        /\ r.pendingFrameCount = l.pendingFrameCount
        /\ r.pendingRepaint = l.pendingRepaint
        /\ r.pendingReschedule = l.pendingReschedule
        /\ r.timer = l.timer /\ r.benchTimer = l.benchTimer
        /\ r.inhibitCount = 1 <=> l.inhibitCount = 0
    BY DEF Loops, LoopType
  <1>2. m = IF r.inhibitCount = 1 THEN s ELSE r
    BY DEF InhibitLoop
  <1> HIDE DEF r
  <1>3. /\ s \in Loops
        /\ SameButTimers(r, s)
        /\ s.pendingReschedule = r.pendingReschedule
        /\ ~s.timer /\ ~s.benchTimer
    BY <1>1, StopTimersEffect
  <1> HIDE DEF s
  <1> QED
    BY <1>1, <1>2, <1>3 DEF SameButTimers

\* The last inhibition to go releases a queued request.
LEMMA UninhibitEffect ==
  ASSUME NEW l \in Loops, NEW a \in AppType,
         NEW m, m = UninhibitLoop(l, a)
  PROVE  /\ m \in Loops
         /\ m.inhibitCount = l.inhibitCount - 1
         /\ m.pendingFrameCount = l.pendingFrameCount
         /\ m.pendingRepaint = l.pendingRepaint
         /\ l.inhibitCount # 1 =>
              /\ m.timer = l.timer /\ m.benchTimer = l.benchTimer
              /\ m.pendingReschedule = l.pendingReschedule
         /\ l.inhibitCount = 1 => ~m.pendingReschedule
         /\ l.timer => m.timer
         /\ l.pendingReschedule =>
              m.pendingReschedule \/ a.terminating \/ m.timer
         /\ m.timer => l.timer \/ l.pendingReschedule
  <1> DEFINE r == [l EXCEPT !.inhibitCount = @ - 1]
             s == MaybeScheduleRepaint(r, a)
  <1>1. /\ r \in Loops
        /\ r.pendingFrameCount = l.pendingFrameCount
        /\ r.inhibitCount = l.inhibitCount - 1
        /\ r.pendingRepaint = l.pendingRepaint
        /\ r.timer = l.timer /\ r.benchTimer = l.benchTimer
        /\ r.pendingReschedule = l.pendingReschedule
        /\ r.inhibitCount = 0 <=> l.inhibitCount = 1
    BY DEF Loops, LoopType
  <1>2. m = IF r.inhibitCount = 0 THEN s ELSE r
    BY DEF UninhibitLoop
  <1> HIDE DEF r
  <1>3. /\ s \in Loops /\ SameButTimers(r, s)
        /\ ~s.pendingReschedule
        /\ r.timer => s.timer
        /\ r.pendingReschedule => a.terminating \/ s.timer
        /\ s.timer => r.timer \/ r.pendingReschedule
    BY <1>1, MaybeScheduleEffect
  <1> HIDE DEF s
  <1> QED
    BY <1>1, <1>2, <1>3 DEF SameButTimers

\* The compositor takes the frame: the fullscreen surface is set, the
\* request window closes and one more frame is counted.
LEMMA BeginFrameEffect ==
  ASSUME NEW l \in Loops, NEW i \in Items \cup {NoItem}, NEW t \in BOOLEAN,
         NEW m, m = BeginFrame(SetFullscreenSurface(l, i, t))
  PROVE  /\ m \in Loops
         /\ m.pendingFrameCount = l.pendingFrameCount + 1
         /\ m.inhibitCount = l.inhibitCount
         /\ ~m.pendingRepaint
         /\ m.timer = l.timer /\ m.benchTimer = l.benchTimer
         /\ m.pendingReschedule = l.pendingReschedule
  <1> DEFINE r == SetFullscreenSurface(l, i, t)
  <1>1. /\ r \in Loops
        /\ r.pendingFrameCount = l.pendingFrameCount
        /\ r.inhibitCount = l.inhibitCount
        /\ r.timer = l.timer /\ r.benchTimer = l.benchTimer
        /\ r.pendingReschedule = l.pendingReschedule
    BY DEF SetFullscreenSurface, Loops, LoopType
  <1> HIDE DEF r
  <1>2. m = BeginFrame(r)
    BY DEF r
  <1>3. m \in Loops
    <2> DEFINE q == [r EXCEPT !.pendingRepaint = FALSE]
    <2>1. q \in Loops
      BY <1>1 DEF Loops, LoopType
    <2>2. m = [q EXCEPT !.pendingFrameCount = r.pendingFrameCount + 1]
      BY <1>1, <1>2 DEF BeginFrame, Loops, LoopType
    <2> HIDE DEF q
    <2> QED
      BY <1>1, <2>1, <2>2 DEF Loops, LoopType
  <1>4. /\ m.pendingFrameCount = r.pendingFrameCount + 1
        /\ m.inhibitCount = r.inhibitCount
        /\ ~m.pendingRepaint
        /\ m.timer = r.timer /\ m.benchTimer = r.benchTimer
        /\ m.pendingReschedule = r.pendingReschedule
    BY <1>1, <1>2 DEF BeginFrame, Loops, LoopType
  <1> QED
    BY <1>1, <1>3, <1>4

\* invalidate() forgets the timers, the queue and the frames.
LEMMA InvalidateEffect ==
  ASSUME NEW l \in Loops,
         NEW m, m = InvalidateLoop(l)
  PROVE  /\ m \in Loops
         /\ m.pendingFrameCount = 0
         /\ m.inhibitCount = l.inhibitCount
         /\ m.pendingRepaint = l.pendingRepaint
         /\ ~m.timer /\ ~m.benchTimer /\ ~m.pendingReschedule
  <1> DEFINE r == StopTimers(l)
  <1>1. /\ r \in Loops /\ SameButTimers(l, r)
        /\ ~r.timer /\ ~r.benchTimer
    BY StopTimersEffect
  <1> HIDE DEF r
  <1>2. m = [r EXCEPT !.pendingReschedule = FALSE, !.pendingFrameCount = 0]
    BY DEF r, InvalidateLoop
  <1>3. m \in Loops
    <2> DEFINE q == [r EXCEPT !.pendingReschedule = FALSE]
    <2>1. q \in Loops
      BY <1>1 DEF Loops, LoopType
    <2>2. m = [q EXCEPT !.pendingFrameCount = 0]
      BY <1>1, <1>2 DEF Loops, LoopType
    <2> HIDE DEF q
    <2> QED
      BY <2>1, <2>2 DEF Loops, LoopType
  <1>4. /\ m.pendingFrameCount = 0
        /\ m.inhibitCount = r.inhibitCount
        /\ m.pendingRepaint = r.pendingRepaint
        /\ m.timer = r.timer /\ m.benchTimer = r.benchTimer
        /\ ~m.pendingReschedule
    BY <1>1, <1>2 DEF Loops, LoopType
  <1> QED
    BY <1>1, <1>3, <1>4 DEF SameButTimers

\* The end of dispatch() only closes the request window.
LEMMA CloseWindowEffect ==
  ASSUME NEW l \in Loops,
         NEW m, m = [l EXCEPT !.pendingRepaint = FALSE]
  PROVE  /\ m \in Loops
         /\ m.pendingFrameCount = l.pendingFrameCount
         /\ m.inhibitCount = l.inhibitCount
         /\ ~m.pendingRepaint
         /\ m.timer = l.timer /\ m.benchTimer = l.benchTimer
         /\ m.pendingReschedule = l.pendingReschedule
  BY DEF Loops, LoopType

-----------------------------------------------------------------------------
(***************************************************************************)
(* The inductive invariant.  Beside the properties themselves it needs: the *)
(* request window is open exactly while frameRequested is being emitted;    *)
(* the timer that caused a real frame request has gone off; and, under the  *)
(* proviso, a timer is only armed while no frame is out.                    *)
(***************************************************************************)
TypeInv ==
  /\ loop \in Loops
  /\ app \in AppType
  /\ phase \in {"idle", "requested", "composing"}
  /\ skip \in BOOLEAN /\ connected \in BOOLEAN /\ dirty \in BOOLEAN
  /\ parity \in {0, 1}
  /\ owed \in Nat
  /\ holders \in SUBSET Inhibitors
  /\ lost \in Losses

WindowInv ==
  /\ loop.pendingRepaint <=> phase = "requested"
  /\ phase = "requested" /\ ~skip => ~loop.timer

PacingInv ==
  UninhibitWhilePending \/
    /\ loop.timer \/ (phase = "requested" /\ ~skip) => loop.pendingFrameCount = 0
    /\ loop.pendingFrameCount <= 1

LoopInv ==
  /\ TypeInv
  /\ FramesAccounted
  /\ InhibitedLoopRests
  /\ WindowInv
  /\ RequestKept
  /\ QueuedHasRelease
  /\ PacingInv
  /\ NoSpuriousFrame

\* The holders are a finite set and there are none when the count is zero.
LEMMA HoldersFinite ==
  ASSUME TypeInv
  PROVE  /\ IsFiniteSet(holders)
         /\ Cardinality(holders) \in Nat
         /\ Cardinality(holders) = 0 <=> holders = {}
  BY InhibitorAssumption, FS_Subset, FS_CardinalityType, FS_EmptySet DEF TypeInv

LEMMA InitEstablishes ==
  Init => LoopInv
  <1> SUFFICES ASSUME Init PROVE LoopInv
    OBVIOUS
  <1>1. TypeInv
    <2>1. loop \in Loops
      BY DEF Init, NewLoop, Loops, LoopType
    <2>2. app \in AppType
      BY DEF Init, AppType
    <2> QED
      BY <2>1, <2>2 DEF Init, TypeInv, Losses
  <1>2. Cardinality(holders) = 0
    BY FS_EmptySet DEF Init
  <1> QED
    BY <1>1, <1>2
       DEF Init, NewLoop, LoopInv, FramesAccounted, InhibitedLoopRests,
           WindowInv, RequestKept, QueuedHasRelease, PacingInv, NoSpuriousFrame, Kept

\* A repaint request, whatever the phase.
LEMMA RequestStep ==
  ASSUME LoopInv, NEW item \in Items \cup {NoItem}, Request(item)
  PROVE  LoopInv'
  <1> DEFINE Ign == RequestIgnored(loop, item)
  <1>1. /\ loop' \in Loops
        /\ SameButTimers(loop, loop')
        /\ Ign => loop' = loop
        /\ loop.timer => loop'.timer
        /\ loop.pendingReschedule => loop'.pendingReschedule
        /\ ~Ign => app.terminating \/ loop'.timer \/ loop'.pendingReschedule
        /\ loop'.pendingReschedule =>
              \/ loop.pendingReschedule
              \/ loop.pendingFrameCount # 0 \/ loop.inhibitCount # 0
        /\ loop'.timer \/ loop'.benchTimer =>
              \/ loop.timer \/ loop.benchTimer
              \/ loop.pendingFrameCount = 0 /\ loop.inhibitCount = 0
        /\ loop'.timer => loop.timer \/ loop.pendingFrameCount = 0
    BY ScheduleRepaintEffect DEF Request, LoopInv, TypeInv
  <1>2. Ign <=> loop.pendingRepaint \/ Filtered(item)
    BY DEF RequestIgnored, Filtered
  <1>3. UNCHANGED <<app, phase, skip, parity, connected, owed, holders>>
    BY DEF Request
  <1>4. /\ Filtered(item) => UNCHANGED <<dirty, lost>>
        /\ ~Filtered(item) => dirty'
        /\ ~Filtered(item) /\ phase # "requested" =>
             lost' = IF app.terminating /\ ~Kept(loop') THEN "terminating" ELSE "no"
        /\ phase = "requested" => lost' = lost
    BY DEF Request
  <1> HIDE DEF Ign
  <1>5. TypeInv'
    BY <1>1, <1>3, <1>4 DEF LoopInv, TypeInv, Losses
  <1>6. FramesAccounted' /\ InhibitedLoopRests' /\ WindowInv'
    BY <1>1, <1>2, <1>3, HoldersFinite
       DEF LoopInv, TypeInv, FramesAccounted, InhibitedLoopRests, WindowInv, SameButTimers
  <1>7. RequestKept'
    BY <1>1, <1>2, <1>3, <1>4 DEF LoopInv, RequestKept, WindowInv, Kept
  <1>8. QueuedHasRelease' /\ PacingInv'
    BY <1>1, <1>2, <1>3, HoldersFinite
       DEF LoopInv, TypeInv, FramesAccounted, InhibitedLoopRests, QueuedHasRelease,
           PacingInv, WindowInv, SameButTimers, Loops, LoopType
  <1>9. NoSpuriousFrame'
    BY <1>1, <1>2, <1>3, <1>4 DEF LoopInv, NoSpuriousFrame, WindowInv, Kept
  <1> QED
    BY <1>5, <1>6, <1>7, <1>8, <1>9 DEF LoopInv

\* A timer fires: the request window opens.
LEMMA TimeoutStep ==
  ASSUME LoopInv, CompositeTimeout \/ BenchmarkTimeout
  PROVE  LoopInv'
  <1>1. /\ phase = "idle" /\ phase' = "requested"
        /\ skip' \in BOOLEAN
        /\ UNCHANGED <<app, parity, connected, owed, holders, dirty, lost>>
    BY DEF CompositeTimeout, BenchmarkTimeout, Dispatch
  <1>2. /\ loop' \in Loops
        /\ loop'.pendingFrameCount = loop.pendingFrameCount
        /\ loop'.inhibitCount = loop.inhibitCount
        /\ loop'.pendingRepaint
        /\ loop'.pendingReschedule = loop.pendingReschedule
        /\ loop'.timer => loop.timer
        /\ loop.timer \/ loop.benchTimer
        /\ ~skip' => loop.timer /\ ~loop'.timer
    BY DEF CompositeTimeout, BenchmarkTimeout, Dispatch, LoopInv, TypeInv, Loops, LoopType
  <1>3. TypeInv'
    BY <1>1, <1>2 DEF LoopInv, TypeInv
  <1>4. FramesAccounted' /\ InhibitedLoopRests' /\ WindowInv'
    BY <1>1, <1>2, HoldersFinite
       DEF LoopInv, TypeInv, FramesAccounted, InhibitedLoopRests, WindowInv
  <1>5. RequestKept' /\ QueuedHasRelease' /\ PacingInv' /\ NoSpuriousFrame'
    BY <1>1, <1>2
       DEF LoopInv, RequestKept, QueuedHasRelease, PacingInv, NoSpuriousFrame, Kept
  <1> QED
    BY <1>3, <1>4, <1>5 DEF LoopInv

\* The compositor does not begin a frame.
LEMMA NoFrameStep ==
  ASSUME LoopInv, FrameSkipped \/ GraphicsReset
  PROVE  LoopInv'
  <1>1. PICK m :
          /\ loop' = [m EXCEPT !.pendingRepaint = FALSE]
          /\ \/ m = loop /\ owed' = owed
             \/ m = InvalidateLoop(loop) /\ owed' = 0
    BY SwitchAssumption DEF FrameSkipped, GraphicsReset, EndWithoutFrame
  <1>2. /\ phase = "requested" /\ phase' = "idle"
        /\ parity' \in {parity, 1 - parity}
        /\ UNCHANGED <<app, skip, connected, holders, dirty>>
        /\ lost' = LostIf(TRUE, loop', "skipped")
    BY DEF FrameSkipped, GraphicsReset, EndWithoutFrame, CountFrame
  <1>3. /\ m \in Loops
        /\ m.inhibitCount = loop.inhibitCount
        /\ m.timer => loop.timer
        /\ m.pendingReschedule => loop.pendingReschedule /\ m = loop
        /\ \/ m = loop /\ owed' = owed
           \/ m.pendingFrameCount = 0 /\ owed' = 0
    BY <1>1, InvalidateEffect DEF LoopInv, TypeInv
  <1>4. /\ loop' \in Loops
        /\ loop'.pendingFrameCount = m.pendingFrameCount
        /\ loop'.inhibitCount = m.inhibitCount
        /\ ~loop'.pendingRepaint
        /\ loop'.timer = m.timer /\ loop'.benchTimer = m.benchTimer
        /\ loop'.pendingReschedule = m.pendingReschedule
    BY <1>1, <1>3, CloseWindowEffect
  <1>5. TypeInv'
    BY <1>1, <1>2, <1>4 DEF LoopInv, TypeInv, LostIf, Losses
  <1>6. FramesAccounted' /\ InhibitedLoopRests' /\ WindowInv'
    BY <1>2, <1>3, <1>4, HoldersFinite
       DEF LoopInv, TypeInv, FramesAccounted, InhibitedLoopRests, WindowInv
  <1>7. RequestKept'
    BY <1>2 DEF RequestKept, LostIf, LoopInv
  <1>8. QueuedHasRelease' /\ PacingInv' /\ NoSpuriousFrame'
    BY <1>2, <1>3, <1>4
       DEF LoopInv, QueuedHasRelease, PacingInv, NoSpuriousFrame, Kept
  <1> QED
    BY <1>5, <1>6, <1>7, <1>8 DEF LoopInv

\* The compositor begins a frame.
LEMMA BeginStep ==
  ASSUME LoopInv, NEW item \in Items \cup {NoItem}, NEW t \in BOOLEAN,
         BeginComposite(item, t)
  PROVE  LoopInv'
  <1>1. /\ phase = "requested" /\ ~skip
        /\ phase' = "composing"
        /\ ~dirty' /\ dirty' \in BOOLEAN /\ lost' = "no"
        /\ parity' \in {parity, 1 - parity}
        /\ UNCHANGED <<app, skip, connected, owed, holders>>
    BY DEF BeginComposite, SkipsFrame, CountFrame
  <1>2. /\ loop' \in Loops
        /\ loop'.pendingFrameCount = loop.pendingFrameCount + 1
        /\ loop'.inhibitCount = loop.inhibitCount
        /\ ~loop'.pendingRepaint
        /\ loop'.timer = loop.timer /\ loop'.benchTimer = loop.benchTimer
        /\ loop'.pendingReschedule = loop.pendingReschedule
    <2>1. loop \in Loops /\ loop' = BeginFrame(SetFullscreenSurface(loop, item, t))
      BY DEF BeginComposite, LoopInv, TypeInv
    <2> QED
      BY <2>1, BeginFrameEffect
  <1>3. TypeInv'
    BY <1>1, <1>2 DEF LoopInv, TypeInv, Losses
  <1>4. FramesAccounted' /\ InhibitedLoopRests' /\ WindowInv'
    BY <1>1, <1>2, HoldersFinite
       DEF LoopInv, TypeInv, FramesAccounted, InhibitedLoopRests, WindowInv
  <1>5. RequestKept' /\ PacingInv'
    BY <1>1, <1>2 DEF LoopInv, RequestKept, PacingInv, WindowInv
  <1>6. QueuedHasRelease' /\ NoSpuriousFrame'
    BY <1>1, <1>2
       DEF LoopInv, TypeInv, FramesAccounted, QueuedHasRelease, PacingInv, NoSpuriousFrame, Kept,
           InhibitedLoopRests, WindowInv
  <1> QED
    BY <1>3, <1>4, <1>5, <1>6 DEF LoopInv

\* The frame leaves the compositor.
LEMMA SubmitStep ==
  ASSUME LoopInv, PresentSubmitted
  PROVE  LoopInv'
  <1>1. /\ phase = "composing" /\ phase' = "idle" /\ owed' = owed + 1
        /\ UNCHANGED <<app, skip, parity, connected, holders, dirty, lost>>
    BY DEF PresentSubmitted
  <1>2. /\ loop' \in Loops
        /\ loop'.pendingFrameCount = loop.pendingFrameCount
        /\ loop'.inhibitCount = loop.inhibitCount
        /\ ~loop'.pendingRepaint
        /\ loop'.timer = loop.timer /\ loop'.benchTimer = loop.benchTimer
        /\ loop'.pendingReschedule = loop.pendingReschedule
    BY CloseWindowEffect DEF PresentSubmitted, LoopInv, TypeInv
  <1> QED
    BY <1>1, <1>2, HoldersFinite
       DEF LoopInv, TypeInv, FramesAccounted, InhibitedLoopRests, WindowInv,
           RequestKept, QueuedHasRelease, PacingInv, NoSpuriousFrame, Kept

\* A frame is answered: at once by present(), or later by the backend.
LEMMA AnswerStep ==
  ASSUME LoopInv, PresentAnswered \/ BackendAnswer
  PROVE  LoopInv'
  <1>1. /\ \/ phase = "composing" /\ phase' = "idle" /\ owed' = owed
           \/ phase # "requested" /\ phase' = phase /\ owed > 0 /\ owed' = owed - 1
        /\ lost' = LostIf(app.terminating, loop', "terminating")
        /\ UNCHANGED <<app, skip, parity, connected, holders, dirty>>
    BY DEF PresentAnswered, BackendAnswer
  <1>2. PICK m : /\ m = FrameAnswered(loop, app)
                 /\ loop' = m \/ loop' = [m EXCEPT !.pendingRepaint = FALSE]
    BY DEF PresentAnswered, BackendAnswer
  <1>3. /\ m \in Loops
        /\ m.pendingFrameCount = loop.pendingFrameCount - 1
        /\ m.inhibitCount = loop.inhibitCount
        /\ m.pendingRepaint = loop.pendingRepaint
        /\ loop.inhibitCount # 0 =>
              /\ m.timer = loop.timer /\ m.benchTimer = loop.benchTimer
              /\ m.pendingReschedule = loop.pendingReschedule
        /\ loop.inhibitCount = 0 => ~m.pendingReschedule
        /\ loop.timer => m.timer
        /\ loop.pendingReschedule => m.pendingReschedule \/ app.terminating \/ m.timer
        /\ m.timer => loop.timer \/ loop.pendingReschedule
    BY <1>2, FrameAnsweredEffect DEF LoopInv, TypeInv
  <1>4. /\ loop' \in Loops
        /\ loop'.pendingFrameCount = m.pendingFrameCount
        /\ loop'.inhibitCount = m.inhibitCount
        /\ ~loop'.pendingRepaint
        /\ loop'.timer = m.timer /\ loop'.benchTimer = m.benchTimer
        /\ loop'.pendingReschedule = m.pendingReschedule
    BY <1>1, <1>2, <1>3, CloseWindowEffect DEF LoopInv, WindowInv
  <1>5. TypeInv'
    BY <1>1, <1>4 DEF LoopInv, TypeInv, LostIf, Losses
  <1>6. FramesAccounted' /\ InhibitedLoopRests' /\ WindowInv'
    BY <1>1, <1>3, <1>4, HoldersFinite
       DEF LoopInv, TypeInv, FramesAccounted, InhibitedLoopRests, WindowInv
  <1>7. RequestKept'
    BY <1>1, <1>3, <1>4 DEF LoopInv, RequestKept, LostIf, Kept
  <1>8. QueuedHasRelease'
    BY <1>1, <1>3, <1>4, HoldersFinite
       DEF LoopInv, QueuedHasRelease, InhibitedLoopRests
  <1>9. PacingInv' /\ NoSpuriousFrame'
    BY <1>1, <1>3, <1>4
       DEF LoopInv, TypeInv, FramesAccounted, PacingInv, NoSpuriousFrame, Kept, Loops, LoopType
  <1> QED
    BY <1>5, <1>6, <1>7, <1>8, <1>9 DEF LoopInv

\* Somebody inhibits the loop.
LEMMA InhibitStep ==
  ASSUME LoopInv, NEW i \in Inhibitors, Inhibit(i)
  PROVE  LoopInv'
  <1>1. /\ phase = "idle" /\ i \notin holders /\ holders' = holders \cup {i}
        /\ lost' = LostIf(loop.timer, loop', "inhibited")
        /\ UNCHANGED <<app, phase, skip, parity, connected, owed, dirty>>
    BY DEF Inhibit
  <1>2. /\ loop' \in Loops
        /\ loop'.inhibitCount = loop.inhibitCount + 1
        /\ loop'.pendingFrameCount = loop.pendingFrameCount
        /\ loop'.pendingRepaint = loop.pendingRepaint
        /\ loop'.pendingReschedule = loop.pendingReschedule
        /\ loop'.timer => loop.timer /\ loop.inhibitCount # 0
        /\ loop'.benchTimer => loop.benchTimer /\ loop.inhibitCount # 0
    BY InhibitEffect DEF Inhibit, LoopInv, TypeInv
  <1>3. Cardinality(holders') = Cardinality(holders) + 1 /\ holders' # {}
    BY <1>1, HoldersFinite, FS_AddElement DEF LoopInv
  <1>4. TypeInv'
    BY <1>1, <1>2 DEF LoopInv, TypeInv, LostIf, Losses
  <1>5. FramesAccounted' /\ InhibitedLoopRests' /\ WindowInv'
    BY <1>1, <1>2, <1>3, HoldersFinite
       DEF LoopInv, TypeInv, FramesAccounted, InhibitedLoopRests, WindowInv
  <1>6. RequestKept' /\ QueuedHasRelease' /\ PacingInv' /\ NoSpuriousFrame'
    BY <1>1, <1>2, <1>3
       DEF LoopInv, RequestKept, LostIf, QueuedHasRelease, PacingInv, NoSpuriousFrame, Kept
  <1> QED
    BY <1>4, <1>5, <1>6 DEF LoopInv

\* An inhibition ends; the last one releases a queued request.
LEMMA UninhibitStep ==
  ASSUME LoopInv, NEW i \in Inhibitors, Uninhibit(i)
  PROVE  LoopInv'
  <1>1. /\ phase = "idle" /\ i \in holders /\ holders' = holders \ {i}
        /\ UninhibitWhilePending \/ loop.pendingFrameCount = 0
        /\ lost' = LostIf(app.terminating, loop', "terminating")
        /\ UNCHANGED <<app, phase, skip, parity, connected, owed, dirty>>
    BY DEF Uninhibit
  <1>2. /\ loop' \in Loops
        /\ loop'.inhibitCount = loop.inhibitCount - 1
        /\ loop'.pendingFrameCount = loop.pendingFrameCount
        /\ loop'.pendingRepaint = loop.pendingRepaint
        /\ loop.inhibitCount # 1 =>
              /\ loop'.timer = loop.timer /\ loop'.benchTimer = loop.benchTimer
              /\ loop'.pendingReschedule = loop.pendingReschedule
        /\ loop.inhibitCount = 1 => ~loop'.pendingReschedule
        /\ loop.timer => loop'.timer
        /\ loop.pendingReschedule => loop'.pendingReschedule \/ app.terminating \/ loop'.timer
        /\ loop'.timer => loop.timer \/ loop.pendingReschedule
    BY UninhibitEffect DEF Uninhibit, LoopInv, TypeInv
  <1>3. /\ IsFiniteSet(holders')
        /\ Cardinality(holders') = Cardinality(holders) - 1
        /\ Cardinality(holders') = 0 <=> holders' = {}
    BY <1>1, HoldersFinite, FS_RemoveElement, FS_EmptySet DEF LoopInv
  <1>4. TypeInv'
    BY <1>1, <1>2 DEF LoopInv, TypeInv, LostIf, Losses
  <1>5. FramesAccounted' /\ InhibitedLoopRests' /\ WindowInv'
    BY <1>1, <1>2, <1>3, HoldersFinite
       DEF LoopInv, TypeInv, FramesAccounted, InhibitedLoopRests, WindowInv
  <1>6. RequestKept' /\ QueuedHasRelease'
    BY <1>1, <1>2, <1>3, HoldersFinite
       DEF LoopInv, RequestKept, LostIf, QueuedHasRelease, InhibitedLoopRests, Kept
  <1>7. PacingInv' /\ NoSpuriousFrame'
    BY <1>1, <1>2 DEF LoopInv, PacingInv, NoSpuriousFrame, Kept
  <1> QED
    BY <1>4, <1>5, <1>6, <1>7 DEF LoopInv

\* An X11 backend goes away.
LEMMA InvalidateStep ==
  ASSUME LoopInv, Invalidate
  PROVE  LoopInv'
  <1>1. /\ phase = "idle" /\ owed' = 0
        /\ lost' = LostIf(TRUE, loop', "invalidated")
        /\ UNCHANGED <<app, phase, skip, parity, connected, holders, dirty>>
    BY DEF Invalidate
  <1>2. /\ loop' \in Loops
        /\ loop'.pendingFrameCount = 0
        /\ loop'.inhibitCount = loop.inhibitCount
        /\ loop'.pendingRepaint = loop.pendingRepaint
        /\ ~loop'.timer /\ ~loop'.benchTimer /\ ~loop'.pendingReschedule
    BY InvalidateEffect DEF Invalidate, LoopInv, TypeInv
  <1>3. TypeInv'
    BY <1>1, <1>2 DEF LoopInv, TypeInv, LostIf, Losses
  <1> QED
    BY <1>1, <1>2, <1>3, HoldersFinite
       DEF LoopInv, FramesAccounted, InhibitedLoopRests, WindowInv,
           RequestKept, LostIf, QueuedHasRelease, PacingInv, NoSpuriousFrame, Kept

\* Steps of the rest of the program leave the loop alone.
LEMMA OtherStep ==
  ASSUME LoopInv, Reconnect \/ AppChanges \/ UNCHANGED vars
  PROVE  LoopInv'
  <1>1. /\ UNCHANGED <<loop, phase, skip, parity, owed, holders, dirty, lost>>
        /\ connected' \in BOOLEAN
    BY DEF LoopInv, TypeInv, Reconnect, AppChanges, vars
  <1>2. app' \in AppType
    BY DEF LoopInv, TypeInv, Reconnect, AppChanges, vars, AppType
  <1> QED
    BY <1>1, <1>2
       DEF LoopInv, TypeInv, FramesAccounted, InhibitedLoopRests, WindowInv,
           RequestKept, QueuedHasRelease, PacingInv, NoSpuriousFrame, Kept

-----------------------------------------------------------------------------
(* The theorems.                                                           *)

\* LoopInv holds in every reachable state.
THEOREM LoopInvariant ==
  Spec => []LoopInv
  <1>1. LoopInv /\ [Next]_vars => LoopInv'
    <2> SUFFICES ASSUME LoopInv, [Next]_vars PROVE LoopInv'
      OBVIOUS
    <2>1. CASE \E item \in Items \cup {NoItem} : Request(item)
      BY <2>1, RequestStep
    <2>2. CASE CompositeTimeout \/ BenchmarkTimeout
      BY <2>2, TimeoutStep
    <2>3. CASE FrameSkipped \/ GraphicsReset
      BY <2>3, NoFrameStep
    <2>4. CASE Compose
      BY <2>4, BeginStep DEF Compose
    <2>5. CASE PresentSubmitted
      BY <2>5, SubmitStep
    <2>6. CASE PresentAnswered \/ BackendAnswer
      BY <2>6, AnswerStep
    <2>7. CASE \E i \in Inhibitors : Inhibit(i)
      BY <2>7, InhibitStep
    <2>8. CASE \E i \in Inhibitors : Uninhibit(i)
      BY <2>8, UninhibitStep
    <2>9. CASE Invalidate
      BY <2>9, InvalidateStep
    <2>10. CASE Reconnect \/ AppChanges \/ UNCHANGED vars
      BY <2>10, OtherStep
    <2> QED
      BY <2>1, <2>2, <2>3, <2>4, <2>5, <2>6, <2>7, <2>8, <2>9, <2>10 DEF Next
  <1> QED
    BY InitEstablishes, <1>1, PTL DEF Spec

\* The loop's state keeps its type: in particular neither counter that the
\* code asserts to be positive before it decrements it goes below zero.
THEOREM TypeCorrect ==
  Spec => []TypeOK
  <1>1. LoopInv => TypeOK
    <2> SUFFICES ASSUME LoopInv PROVE TypeOK
      OBVIOUS
    <2>1. loop.pendingFrameCount \in Nat /\ loop.inhibitCount \in Nat
      BY HoldersFinite DEF LoopInv, TypeInv, FramesAccounted, InhibitedLoopRests
    <2>2. loop \in LoopType(Items, Nat, Nat)
      BY <2>1 DEF LoopInv, TypeInv, Loops, LoopType
    <2> QED
      BY <2>2 DEF LoopInv, TypeInv, TypeOK
  <1> QED
    BY LoopInvariant, <1>1, PTL

\* beginFrame() and the answers of the backend stay in step.
THEOREM FramesAlwaysAccounted ==
  Spec => []FramesAccounted
  <1>1. LoopInv => FramesAccounted
    BY DEF LoopInv
  <1> QED
    BY LoopInvariant, <1>1, PTL

\* An inhibited loop has no timer armed and no dispatch running.
THEOREM InhibitedLoopsRest ==
  Spec => []InhibitedLoopRests
  <1>1. LoopInv => InhibitedLoopRests
    BY DEF LoopInv
  <1> QED
    BY LoopInvariant, <1>1, PTL

\* At most one frame is out, under the proviso on uninhibit().
THEOREM OneFrame ==
  Spec => []OneFrameAtATime
  <1>1. LoopInv => OneFrameAtATime
    BY DEF LoopInv, PacingInv, OneFrameAtATime
  <1> QED
    BY LoopInvariant, <1>1, PTL

\* A repaint request is armed or queued until a frame serves it or one of
\* the four droppings takes it.
THEOREM RequestsKept ==
  Spec => []RequestKept
  <1>1. LoopInv => RequestKept
    BY DEF LoopInv
  <1> QED
    BY LoopInvariant, <1>1, PTL

\* A queued request always has somebody who will release it.
THEOREM QueuedRequestsReleased ==
  Spec => []QueuedHasRelease
  <1>1. LoopInv => QueuedHasRelease
    BY DEF LoopInv
  <1> QED
    BY LoopInvariant, <1>1, PTL

\* The loop never composes on its own account: what is armed or queued goes
\* back to a request no frame has served, under the proviso on uninhibit().
THEOREM NoSpuriousFrames ==
  Spec => []NoSpuriousFrame
  <1>1. LoopInv => NoSpuriousFrame
    BY DEF LoopInv
  <1> QED
    BY LoopInvariant, <1>1, PTL

-----------------------------------------------------------------------------
(* The loop implements FrameScheduler.                                     *)

\* Every step from a state that satisfies the invariant is a step of the
\* abstract scheduler, or leaves its three variables alone.
LEMMA StepRefines ==
  ASSUME LoopInv, LoopInv', [Next]_vars, ~UninhibitWhilePending
  PROVE  [Scheduler!Next]_<<dirty, loop.pendingFrameCount, holders # {}>>
  <1> USE DEF Scheduler!Next, Scheduler!Want, Scheduler!Start, Scheduler!Answer,
              Scheduler!HoldOrRelease
  <1>0. /\ owed \in Nat /\ owed' \in Nat
        /\ phase # "composing" => loop.pendingFrameCount = owed
        /\ phase = "composing" => loop.pendingFrameCount = owed + 1
        /\ phase' # "composing" => loop'.pendingFrameCount = owed'
        /\ phase' = "composing" => loop'.pendingFrameCount = owed' + 1
        /\ loop.pendingFrameCount <= 1 /\ loop'.pendingFrameCount <= 1
    <2>1. owed \in Nat /\ FramesAccounted /\ PacingInv
      BY DEF LoopInv, TypeInv
    <2>2. owed' \in Nat /\ FramesAccounted' /\ PacingInv'
      BY DEF LoopInv, TypeInv
    <2>3. /\ phase # "composing" => loop.pendingFrameCount = owed
          /\ phase = "composing" => loop.pendingFrameCount = owed + 1
          /\ loop.pendingFrameCount <= 1
      BY <2>1 DEF FramesAccounted, PacingInv
    <2>4. /\ phase' # "composing" => loop'.pendingFrameCount = owed'
          /\ phase' = "composing" => loop'.pendingFrameCount = owed' + 1
          /\ loop'.pendingFrameCount <= 1
      <3>1. PacingInv' => loop'.pendingFrameCount <= 1
        BY DEF PacingInv
      <3>2. FramesAccounted' =>
              loop'.pendingFrameCount = owed' + (IF phase' = "composing" THEN 1 ELSE 0)
        BY DEF FramesAccounted
      <3> QED
        BY <2>2, <3>1, <3>2
    <2> QED
      BY <2>1, <2>2, <2>3, <2>4
  <1>1. CASE \E item \in Items \cup {NoItem} : Request(item)
    <2> PICK item \in Items \cup {NoItem} : Request(item)
      BY <1>1
    <2>1. loop'.pendingFrameCount = loop.pendingFrameCount
      BY ScheduleRepaintEffect DEF Request, LoopInv, TypeInv, SameButTimers
    <2>2. UNCHANGED holders /\ (dirty' = TRUE \/ dirty' = dirty)
      BY DEF Request
    <2> QED
      BY <2>1, <2>2
  <1>2. CASE CompositeTimeout \/ BenchmarkTimeout
    BY <1>2 DEF CompositeTimeout, BenchmarkTimeout, Dispatch, LoopInv, TypeInv, Loops, LoopType
  <1>3. CASE FrameSkipped \/ GraphicsReset
    <2>1. phase = "requested" /\ phase' = "idle" /\ UNCHANGED <<dirty, holders>>
      BY <1>3 DEF FrameSkipped, GraphicsReset, EndWithoutFrame
    <2>2. owed' = owed \/ owed' = 0
      BY <1>3, SwitchAssumption DEF FrameSkipped, GraphicsReset
    <2>3. /\ loop.pendingFrameCount = owed /\ loop'.pendingFrameCount = owed'
          /\ loop.pendingFrameCount <= 1 /\ owed \in Nat
      BY <1>0, <2>1
    <2> QED
      BY <2>1, <2>2, <2>3
  <1>4. CASE Compose
    <2> PICK item \in Items \cup {NoItem}, t \in BOOLEAN : BeginComposite(item, t)
      BY <1>4 DEF Compose
    <2>1. loop'.pendingFrameCount = loop.pendingFrameCount + 1
      BY BeginFrameEffect DEF BeginComposite, LoopInv, TypeInv
    <2>2. /\ phase = "requested" /\ ~skip
          /\ dirty' = FALSE /\ UNCHANGED holders
      BY DEF BeginComposite, SkipsFrame
    <2>3. loop.pendingFrameCount = 0 /\ dirty /\ holders = {}
      BY <2>2 DEF LoopInv, PacingInv, NoSpuriousFrame, InhibitedLoopRests
    <2> QED
      BY <2>1, <2>2, <2>3
  <1>5. CASE PresentSubmitted
    BY <1>5 DEF PresentSubmitted, LoopInv, TypeInv, Loops, LoopType
  <1>6. CASE PresentAnswered \/ BackendAnswer
    <2>1. UNCHANGED <<dirty, holders>>
      BY <1>6 DEF PresentAnswered, BackendAnswer
    <2>2. /\ loop.pendingFrameCount \in 0..1 /\ loop'.pendingFrameCount \in 0..1
          /\ loop'.pendingFrameCount = loop.pendingFrameCount - 1
      <3>1. \/ phase = "composing" /\ phase' = "idle" /\ owed' = owed
            \/ phase # "requested" /\ phase' = phase /\ owed' = owed - 1
        BY <1>6 DEF PresentAnswered, BackendAnswer
      <3> QED
        BY <1>0, <3>1
    <2> QED
      BY <2>1, <2>2
  <1>7. CASE \E i \in Inhibitors : Inhibit(i)
    <2> PICK i \in Inhibitors : Inhibit(i)
      BY <1>7
    <2>1. loop'.pendingFrameCount = loop.pendingFrameCount
      BY InhibitEffect DEF Inhibit, LoopInv, TypeInv
    <2> QED
      BY <2>1 DEF Inhibit
  <1>8. CASE \E i \in Inhibitors : Uninhibit(i)
    <2> PICK i \in Inhibitors : Uninhibit(i)
      BY <1>8
    <2>1. loop'.pendingFrameCount = loop.pendingFrameCount
      BY UninhibitEffect DEF Uninhibit, LoopInv, TypeInv
    <2> QED
      BY <2>1 DEF Uninhibit
  <1>9. CASE Invalidate
    <2>1. /\ loop.pendingFrameCount = owed /\ loop'.pendingFrameCount = 0
          /\ loop.pendingFrameCount <= 1 /\ owed \in Nat
      BY <1>0, <1>9 DEF Invalidate
    <2>2. UNCHANGED <<dirty, holders>>
      BY <1>9 DEF Invalidate
    <2> QED
      BY <2>1, <2>2
  <1>10. CASE Reconnect \/ AppChanges \/ UNCHANGED vars
    BY <1>10 DEF Reconnect, AppChanges, vars
  <1> QED
    BY <1>1, <1>2, <1>3, <1>4, <1>5, <1>6, <1>7, <1>8, <1>9, <1>10 DEF Next

\* When uninhibit() is only called with no frame out, RenderLoop implements
\* FrameScheduler: frames start only on request, one at a time, and never
\* while the loop is inhibited.
THEOREM LoopImplementsScheduler ==
  ASSUME ~UninhibitWhilePending
  PROVE  Spec => ImplementsScheduler
  <1>1. Init => Scheduler!Init
    BY DEF Init, NewLoop, Scheduler!Init
  <1>2. LoopInv /\ LoopInv' /\ [Next]_vars
          => [Scheduler!Next]_<<dirty, loop.pendingFrameCount, holders # {}>>
    BY StepRefines
  <1> QED
    BY <1>1, <1>2, LoopInvariant, PTL DEF Spec, ImplementsScheduler, Scheduler!Spec
=============================================================================
