--------------------------- MODULE DrmFramesProofs ---------------------------
(***************************************************************************)
(* The frame path of the DRM backend, for any number of outputs.  The      *)
(* handlers are made of operators on the state of one output, so the       *)
(* proofs first say what each of them does to that state, then carry it to *)
(* every output a handler goes over, and last to the steps.                *)
(***************************************************************************)
EXTENDS DrmFrames, SequenceTheorems, TLAPS

-----------------------------------------------------------------------------
(* The operations of a render loop.                                        *)

\* The types without bounds: a defect could make a counter negative.
Loops == LoopType({}, Int, Int)

\* m is l after an operation that changes no inhibition and n frames.
LoopKept(l, m, n) ==
  /\ m \in Loops /\ m.inhibitCount = l.inhibitCount
  /\ m.pendingFrameCount = l.pendingFrameCount + n
  /\ m.timer = TRUE => l.timer = TRUE \/ l.inhibitCount = 0

\* A new loop rests.
LEMMA NewLoopFact ==
  /\ NewLoop \in Loops /\ NewLoop.inhibitCount = 0
  /\ NewLoop.pendingFrameCount = 0 /\ NewLoop.timer = FALSE
BY DEF NewLoop, Loops, LoopType

\* Starting the timer changes no counter.
LEMMA ArmFact ==
  ASSUME NEW l \in Loops
  PROVE  /\ ArmTimer(l, App) \in Loops
         /\ ArmTimer(l, App).inhibitCount = l.inhibitCount
         /\ ArmTimer(l, App).pendingFrameCount = l.pendingFrameCount
BY DEF ArmTimer, App, Loops, LoopType

\* Neither does releasing a queued request.
LEMMA MaybeFact ==
  ASSUME NEW l \in Loops
  PROVE  /\ MaybeScheduleRepaint(l, App) \in Loops
         /\ MaybeScheduleRepaint(l, App).inhibitCount = l.inhibitCount
         /\ MaybeScheduleRepaint(l, App).pendingFrameCount = l.pendingFrameCount
<1> DEFINE a == ArmTimer(l, App)
<1>1. a \in Loops /\ a.inhibitCount = l.inhibitCount /\ a.pendingFrameCount = l.pendingFrameCount
  BY ArmFact
<1> HIDE DEF a
<1>2. MaybeScheduleRepaint(l, App) = IF l.pendingReschedule THEN [a EXCEPT !.pendingReschedule = FALSE] ELSE l
  BY DEF MaybeScheduleRepaint, a
<1> QED
  BY <1>1, <1>2 DEF Loops, LoopType

\* A repaint request starts the timer only of a loop that is not inhibited
\* and has no frame out.
LEMMA ScheduleFact ==
  ASSUME NEW l \in Loops
  PROVE  /\ LoopKept(l, ScheduleRepaint(l, NoItem, App), 0)
         /\ ScheduleRepaint(l, NoItem, App).timer = TRUE =>
              l.timer = TRUE \/ (l.inhibitCount = 0 /\ l.pendingFrameCount = 0)
<1> DEFINE a == ArmTimer(l, App)
           m == [l EXCEPT !.pendingReschedule = TRUE]
<1>1. a \in Loops /\ a.inhibitCount = l.inhibitCount /\ a.pendingFrameCount = l.pendingFrameCount
  BY ArmFact
<1> HIDE DEF a
<1>2. \/ ScheduleRepaint(l, NoItem, App) = l
      \/ /\ l.inhibitCount = 0 /\ l.pendingFrameCount = 0
         /\ ScheduleRepaint(l, NoItem, App) = a
      \/ ScheduleRepaint(l, NoItem, App) = m
  <2>1. CASE RequestIgnored(l, NoItem)
    BY <2>1 DEF ScheduleRepaint
  <2>2. CASE ~RequestIgnored(l, NoItem) /\ l.pendingFrameCount = 0 /\ l.inhibitCount = 0
    BY <2>2 DEF ScheduleRepaint, a
  <2>3. CASE ~RequestIgnored(l, NoItem) /\ ~(l.pendingFrameCount = 0 /\ l.inhibitCount = 0)
    BY <2>3 DEF ScheduleRepaint
  <2> QED
    BY <2>1, <2>2, <2>3
<1>3. l.pendingFrameCount \in Int /\ l.inhibitCount \in Int
  BY DEF Loops, LoopType
<1>4. /\ m \in Loops /\ m.inhibitCount = l.inhibitCount
      /\ m.pendingFrameCount = l.pendingFrameCount /\ m.timer = l.timer
  BY DEF Loops, LoopType
<1> HIDE DEF m
<1> QED
  BY <1>1, <1>2, <1>3, <1>4 DEF LoopKept

\* The answer to a frame.
LEMMA AnsweredFact ==
  ASSUME NEW l \in Loops
  PROVE  LoopKept(l, FrameAnswered(l, App), -1)
<1> DEFINE m == [l EXCEPT !.pendingFrameCount = @ - 1]
<1>1. /\ m \in Loops /\ m.inhibitCount = l.inhibitCount
      /\ m.pendingFrameCount = l.pendingFrameCount + (-1) /\ m.timer = l.timer
  BY DEF Loops, LoopType
<1>2. FrameAnswered(l, App) = IF l.inhibitCount = 0 THEN MaybeScheduleRepaint(m, App) ELSE m
  BY DEF FrameAnswered
<1> HIDE DEF m
<1> QED
  BY <1>1, <1>2, MaybeFact DEF LoopKept

\* The beginning of a frame, by the timer.
LEMMA BeginFact ==
  ASSUME NEW l \in Loops
  PROVE  /\ LoopKept(l, BeginFrame([l EXCEPT !.timer = FALSE]), 1)
         /\ BeginFrame([l EXCEPT !.timer = FALSE]).timer = FALSE
<1> DEFINE m == [l EXCEPT !.timer = FALSE]
<1>1. /\ m \in Loops /\ m.inhibitCount = l.inhibitCount
      /\ m.pendingFrameCount = l.pendingFrameCount /\ m.timer = FALSE
  BY DEF Loops, LoopType
<1> HIDE DEF m
<1>2. /\ BeginFrame(m) \in Loops /\ BeginFrame(m).inhibitCount = m.inhibitCount
      /\ BeginFrame(m).pendingFrameCount = m.pendingFrameCount + 1
      /\ BeginFrame(m).timer = m.timer
  <2> DEFINE k == m.pendingFrameCount + 1
  <2>1. k \in Int /\ BeginFrame(m) = [m EXCEPT !.pendingRepaint = FALSE, !.pendingFrameCount = k]
    BY <1>1 DEF BeginFrame, Loops, LoopType
  <2>2. k = m.pendingFrameCount + 1
    OBVIOUS
  <2> HIDE DEF k
  <2> QED
    BY <1>1, <2>1, <2>2 DEF Loops, LoopType
<1>3. LoopKept(l, BeginFrame(m), 1) /\ BeginFrame(m).timer = FALSE
  BY <1>1, <1>2 DEF LoopKept
<1> QED
  BY <1>3 DEF m

\* The first inhibition stops the timer.
LEMMA InhibitFact ==
  ASSUME NEW l \in Loops
  PROVE  /\ InhibitLoop(l) \in Loops
         /\ InhibitLoop(l).inhibitCount = l.inhibitCount + 1
         /\ InhibitLoop(l).pendingFrameCount = l.pendingFrameCount
         /\ InhibitLoop(l).timer = TRUE => l.timer = TRUE /\ l.inhibitCount # 0
<1> DEFINE m == [l EXCEPT !.inhibitCount = @ + 1]
<1>1. /\ m \in Loops /\ m.inhibitCount = l.inhibitCount + 1
      /\ m.pendingFrameCount = l.pendingFrameCount /\ m.timer = l.timer
  BY DEF Loops, LoopType
<1>2. InhibitLoop(l) = IF m.inhibitCount = 1 THEN StopTimers(m) ELSE m
  BY DEF InhibitLoop
<1> HIDE DEF m
<1>3. l.inhibitCount \in Int
  BY DEF Loops, LoopType
<1> QED
  <2>1. /\ StopTimers(m) \in Loops /\ StopTimers(m).inhibitCount = m.inhibitCount
        /\ StopTimers(m).pendingFrameCount = m.pendingFrameCount /\ StopTimers(m).timer = FALSE
    BY <1>1 DEF StopTimers, Loops, LoopType
  <2> QED
    BY <1>1, <1>2, <1>3, <2>1

\* The end of the last inhibition may start it.
LEMMA UninhibitFact ==
  ASSUME NEW l \in Loops
  PROVE  /\ UninhibitLoop(l, App) \in Loops
         /\ UninhibitLoop(l, App).inhibitCount = l.inhibitCount - 1
         /\ UninhibitLoop(l, App).pendingFrameCount = l.pendingFrameCount
         /\ UninhibitLoop(l, App).timer = TRUE => l.timer = TRUE \/ l.inhibitCount = 1
<1> DEFINE m == [l EXCEPT !.inhibitCount = @ - 1]
<1>1. /\ m \in Loops /\ m.inhibitCount = l.inhibitCount - 1
      /\ m.pendingFrameCount = l.pendingFrameCount /\ m.timer = l.timer
  BY DEF Loops, LoopType
<1>2. UninhibitLoop(l, App) = IF m.inhibitCount = 0 THEN MaybeScheduleRepaint(m, App) ELSE m
  BY DEF UninhibitLoop
<1> HIDE DEF m
<1>3. l.inhibitCount \in Int
  BY DEF Loops, LoopType
<1> QED
  BY <1>1, <1>2, <1>3, MaybeFact

-----------------------------------------------------------------------------
(* The operations of one output.                                           *)

Records ==
  [loop : Loops, dpmsOn : BOOLEAN, enabled : BOOLEAN, active : BOOLEAN,
   needsModeset : BOOLEAN, nextModeset : BOOLEAN, presentPending : BOOLEAN,
   flip : BOOLEAN, lit : BOOLEAN]

\* q differs from r in its loop, in the state of its frames and in the
\* copies of needsModeset only.
SwitchesKept(r, q) ==
  /\ q \in Records /\ q.dpmsOn = r.dpmsOn /\ q.enabled = r.enabled
  /\ q.active = r.active /\ q.lit = r.lit

ModesetKept(r, q) == q.needsModeset = r.needsModeset /\ q.nextModeset = r.nextModeset

FramesKept(r, q) == q.flip = r.flip /\ q.presentPending = r.presentPending

\* A new pipeline.
LEMMA NewPipelineFact ==
  /\ NewPipeline \in Records /\ NewPipeline.loop = NewLoop
  /\ NewPipeline.flip = FALSE /\ NewPipeline.presentPending = FALSE
BY NewLoopFact DEF NewPipeline, Records

\* An output whose loop is replaced.
LEMMA LoopExcept ==
  ASSUME NEW r \in Records, NEW l \in Loops
  PROVE  /\ SwitchesKept(r, [r EXCEPT !.loop = l])
         /\ ModesetKept(r, [r EXCEPT !.loop = l]) /\ FramesKept(r, [r EXCEPT !.loop = l])
         /\ [r EXCEPT !.loop = l].loop = l
BY DEF Records, SwitchesKept, ModesetKept, FramesKept

\* The answer to a frame of the output.
LEMMA AnsweredRecord ==
  ASSUME NEW r \in Records
  PROVE  /\ SwitchesKept(r, Answered(r)) /\ ModesetKept(r, Answered(r))
         /\ FramesKept(r, Answered(r)) /\ LoopKept(r.loop, Answered(r).loop, -1)
<1>1. r.loop \in Loops
  BY DEF Records
<1>2. FrameAnswered(r.loop, App) \in Loops /\ LoopKept(r.loop, FrameAnswered(r.loop, App), -1)
  BY <1>1, AnsweredFact DEF LoopKept
<1>3. Answered(r) = [r EXCEPT !.loop = FrameAnswered(r.loop, App)]
  BY DEF Answered
<1> QED
  BY <1>2, <1>3, LoopExcept

\* A page flip.
LEMMA FlippedRecord ==
  ASSUME NEW r \in Records
  PROVE  /\ SwitchesKept(r, Flipped(r)) /\ ModesetKept(r, Flipped(r))
         /\ Flipped(r).flip = FALSE /\ Flipped(r).presentPending = r.presentPending
         /\ LoopKept(r.loop, Flipped(r).loop, -1)
<1>1. Answered(r) \in Records
  BY AnsweredRecord DEF SwitchesKept
<1>2. Flipped(r) = [Answered(r) EXCEPT !.flip = FALSE]
  BY DEF Flipped
<1> QED
  BY <1>1, <1>2, AnsweredRecord DEF SwitchesKept, ModesetKept, FramesKept, Records

\* A request for a repaint.
LEMMA RepaintedRecord ==
  ASSUME NEW r \in Records
  PROVE  /\ SwitchesKept(r, Repainted(r)) /\ ModesetKept(r, Repainted(r))
         /\ FramesKept(r, Repainted(r)) /\ LoopKept(r.loop, Repainted(r).loop, 0)
         /\ Repainted(r).loop.timer = TRUE =>
              r.loop.timer = TRUE \/ (r.loop.inhibitCount = 0 /\ r.loop.pendingFrameCount = 0)
<1> DEFINE l == ScheduleRepaint(r.loop, NoItem, App)
<1>1. r.loop \in Loops
  BY DEF Records
<1>2. /\ LoopKept(r.loop, l, 0) /\ l \in Loops
      /\ l.timer = TRUE =>
           r.loop.timer = TRUE \/ (r.loop.inhibitCount = 0 /\ r.loop.pendingFrameCount = 0)
  BY <1>1, ScheduleFact DEF LoopKept
<1>3. Repainted(r) = [r EXCEPT !.loop = l]
  BY DEF Repainted
<1> HIDE DEF l
<1> QED
  BY <1>2, <1>3, LoopExcept

\* The beginning of a frame.
LEMMA BegunRecord ==
  ASSUME NEW r \in Records
  PROVE  /\ SwitchesKept(r, Begun(r)) /\ ModesetKept(r, Begun(r)) /\ FramesKept(r, Begun(r))
         /\ LoopKept(r.loop, Begun(r).loop, 1) /\ Begun(r).loop.timer = FALSE
<1> DEFINE l == BeginFrame([r.loop EXCEPT !.timer = FALSE])
<1>1. r.loop \in Loops
  BY DEF Records
<1>2. LoopKept(r.loop, l, 1) /\ l.timer = FALSE /\ l \in Loops
  BY <1>1, BeginFact DEF LoopKept
<1>3. Begun(r) = [r EXCEPT !.loop = l]
  BY DEF Begun
<1> HIDE DEF l
<1> QED
  BY <1>2, <1>3, LoopExcept

\* The copies of needsModeset.
LEMMA CopiedRecord ==
  ASSUME NEW r \in Records
  PROVE  /\ SwitchesKept(r, Apply(r)) /\ FramesKept(r, Apply(r)) /\ Apply(r).loop = r.loop
         /\ Apply(r).needsModeset = r.needsModeset /\ Apply(r).nextModeset = r.needsModeset
         /\ SwitchesKept(r, Revert(r)) /\ FramesKept(r, Revert(r)) /\ Revert(r).loop = r.loop
         /\ Revert(r).needsModeset = r.nextModeset /\ Revert(r).nextModeset = r.nextModeset
BY DEF Apply, Revert, SwitchesKept, FramesKept, Records

\* A modeset the kernel accepts.
LEMMA ModesetRecord ==
  ASSUME NEW r \in Records
  PROVE  /\ ModesetDone(r) \in Records
         /\ ModesetDone(r).dpmsOn = r.dpmsOn /\ ModesetDone(r).enabled = r.enabled
         /\ ModesetDone(r).active = r.active
         /\ ModesetDone(r).lit = (r.enabled /\ r.active)
         /\ ModesetDone(r).needsModeset = FALSE /\ ModesetDone(r).nextModeset = r.nextModeset
         /\ ModesetDone(r).presentPending = r.presentPending
         /\ ActivePending(r) =>
              ModesetDone(r).flip = FALSE /\ LoopKept(r.loop, ModesetDone(r).loop, -1)
         /\ ~ActivePending(r) => ModesetDone(r).flip = r.flip /\ ModesetDone(r).loop = r.loop
<1> DEFINE s == [r EXCEPT !.needsModeset = FALSE, !.lit = ActivePending(r)]
<1>1. ActivePending(r) \in BOOLEAN /\ (ActivePending(r) <=> r.enabled /\ r.active)
  BY DEF ActivePending, Records
<1>2. /\ s \in Records /\ s.dpmsOn = r.dpmsOn /\ s.enabled = r.enabled /\ s.active = r.active
      /\ s.lit = ActivePending(r) /\ s.needsModeset = FALSE /\ s.nextModeset = r.nextModeset
      /\ s.presentPending = r.presentPending /\ s.flip = r.flip /\ s.loop = r.loop
  BY <1>1 DEF Records
<1>3. ModesetDone(r) = IF ActivePending(r) THEN Flipped(s) ELSE s
  BY DEF ModesetDone
<1> HIDE DEF s
<1>4. CASE ActivePending(r)
  <2>1. ModesetDone(r) = Flipped(s)
    BY <1>3, <1>4
  <2>2. /\ SwitchesKept(s, Flipped(s)) /\ ModesetKept(s, Flipped(s))
        /\ Flipped(s).flip = FALSE /\ Flipped(s).presentPending = s.presentPending
        /\ LoopKept(s.loop, Flipped(s).loop, -1)
    BY <1>2, FlippedRecord
  <2>3. s.lit = (r.enabled /\ r.active)
    BY <1>1, <1>2
  <2> QED
    BY <1>2, <1>4, <2>1, <2>2, <2>3 DEF SwitchesKept, ModesetKept
<1>5. CASE ~ActivePending(r)
  <2>1. ModesetDone(r) = s
    BY <1>3, <1>5
  <2>2. s.lit = (r.enabled /\ r.active)
    BY <1>1, <1>2
  <2> QED
    BY <1>2, <1>5, <2>1, <2>2
<1> QED
  BY <1>4, <1>5

-----------------------------------------------------------------------------
(* What is to be shown of every output.                                    *)

Down(r) == IF r.dpmsOn = TRUE THEN 0 ELSE 1

\* The loop is inhibited by the DPMS state, and once more if p is 1; it then
\* rests; an output that is on is active.
Inhibits(r, p) ==
  /\ r.loop.inhibitCount = Down(r) + p
  /\ r.loop.inhibitCount # 0 => r.loop.timer = FALSE
  /\ r.dpmsOn = TRUE => r.active = TRUE

\* An output that should show something and that the kernel does not drive
\* needs a modeset, also if the pending changes are reverted: that it is in
\* the applied state too is what makes it last.
Dark(r) ==
  r.enabled = TRUE /\ r.active = TRUE /\ r.lit = FALSE =>
     r.needsModeset = TRUE /\ r.nextModeset = TRUE

\* q is as good as r.
Fine(r, q) ==
  /\ q \in Records
  /\ \A p \in {0, 1} : Inhibits(r, p) => Inhibits(q, p)
  /\ Dark(r) => Dark(q)

\* Fine is a preorder.
LEMMA FineTrans ==
  ASSUME NEW r, NEW q, NEW t, Fine(r, q), Fine(q, t)
  PROVE  Fine(r, t)
BY DEF Fine

\* An output that does not change.
LEMMA FineSame ==
  ASSUME NEW r \in Records
  PROVE  Fine(r, r)
BY DEF Fine

\* A step that keeps the switches of the output and its inhibitions.
LEMMA KeptInhibits ==
  ASSUME NEW r \in Records, NEW q, NEW n \in Int, SwitchesKept(r, q),
         LoopKept(r.loop, q.loop, n), NEW p \in {0, 1}, Inhibits(r, p)
  PROVE  Inhibits(q, p)
<1>1. q.loop.timer \in BOOLEAN /\ r.loop.timer \in BOOLEAN
  BY DEF SwitchesKept, Records, Loops, LoopType
<1> QED
  BY <1>1 DEF SwitchesKept, LoopKept, Inhibits, Down

\* A loop that is left alone.
LEMMA SameLoop ==
  ASSUME NEW r \in Records, NEW q, q.loop = r.loop
  PROVE  LoopKept(r.loop, q.loop, 0)
BY DEF LoopKept, Records, Loops, LoopType

\* An operation that keeps the switches, the need for a modeset and the inhibitions.
LEMMA FineKept ==
  ASSUME NEW r \in Records, NEW q, NEW n \in Int, SwitchesKept(r, q), ModesetKept(r, q),
         LoopKept(r.loop, q.loop, n)
  PROVE  Fine(r, q)
<1>1. q \in Records
  BY DEF SwitchesKept
<1>2. ASSUME NEW p \in {0, 1}, Inhibits(r, p) PROVE Inhibits(q, p)
  BY <1>2, KeptInhibits
<1>3. Dark(r) => Dark(q)
  BY DEF Dark, SwitchesKept, ModesetKept
<1> QED
  BY <1>1, <1>2, <1>3 DEF Fine

\* What becomes of a frame, and repaints, are of no concern.
LEMMA FineFrames ==
  ASSUME NEW r \in Records
  PROVE  /\ Fine(r, Answered(r)) /\ Fine(r, Flipped(r)) /\ Fine(r, Repainted(r))
         /\ Fine(r, Begun(r))
<1>1. 0 \in Int /\ 1 \in Int /\ -1 \in Int
  OBVIOUS
<1>2. Fine(r, Answered(r))
  BY <1>1, AnsweredRecord, FineKept
<1>3. Fine(r, Flipped(r))
  BY <1>1, FlippedRecord, FineKept
<1>4. Fine(r, Repainted(r))
  BY <1>1, RepaintedRecord, FineKept
<1>5. Fine(r, Begun(r))
  BY <1>1, BegunRecord, FineKept
<1> QED
  BY <1>2, <1>3, <1>4, <1>5

\* Where its frames are is of no concern.
LEMMA FineExcept ==
  ASSUME NEW r \in Records, NEW b \in BOOLEAN
  PROVE  Fine(r, [r EXCEPT !.presentPending = b]) /\ Fine(r, [r EXCEPT !.flip = b])
<1> DEFINE q1 == [r EXCEPT !.presentPending = b]
           q2 == [r EXCEPT !.flip = b]
<1>1. /\ SwitchesKept(r, q1) /\ ModesetKept(r, q1) /\ q1.loop = r.loop
      /\ SwitchesKept(r, q2) /\ ModesetKept(r, q2) /\ q2.loop = r.loop
  BY DEF SwitchesKept, ModesetKept, Records
<1>2. LoopKept(r.loop, q1.loop, 0) /\ LoopKept(r.loop, q2.loop, 0)
  BY <1>1, SameLoop
<1> HIDE DEF q1, q2
<1>3. Fine(r, q1) /\ Fine(r, q2)
  BY <1>1, <1>2, FineKept
<1> QED
  BY <1>3 DEF q1, q2

\* The pending changes are applied or reverted.
LEMMA FineCopied ==
  ASSUME NEW r \in Records
  PROVE  Fine(r, Apply(r)) /\ Fine(r, Revert(r))
<1>1. /\ SwitchesKept(r, Apply(r)) /\ LoopKept(r.loop, Apply(r).loop, 0)
      /\ SwitchesKept(r, Revert(r)) /\ LoopKept(r.loop, Revert(r).loop, 0)
  BY CopiedRecord, SameLoop
<1>2. ASSUME NEW p \in {0, 1}, Inhibits(r, p) PROVE Inhibits(Apply(r), p) /\ Inhibits(Revert(r), p)
  BY <1>1, <1>2, KeptInhibits
<1>3. Dark(r) => Dark(Apply(r)) /\ Dark(Revert(r))
  BY CopiedRecord DEF Dark, SwitchesKept
<1> QED
  BY <1>1, <1>2, <1>3 DEF Fine, SwitchesKept

\* After a modeset the kernel drives what is active.
LEMMA FineModeset ==
  ASSUME NEW r \in Records
  PROVE  Fine(r, ModesetDone(r))
<1> DEFINE q == ModesetDone(r)
<1>1. /\ q \in Records /\ q.dpmsOn = r.dpmsOn /\ q.enabled = r.enabled /\ q.active = r.active
      /\ q.lit = (r.enabled /\ r.active)
  BY ModesetRecord
<1>2. LoopKept(r.loop, q.loop, -1) \/ LoopKept(r.loop, q.loop, 0)
  BY ModesetRecord, SameLoop
<1> HIDE DEF q
<1>3. q.loop.timer \in BOOLEAN /\ r.loop.timer \in BOOLEAN
  BY <1>1 DEF Records, Loops, LoopType
<1>4. ASSUME NEW p \in {0, 1}, Inhibits(r, p) PROVE Inhibits(q, p)
  BY <1>1, <1>2, <1>3, <1>4 DEF LoopKept, Inhibits, Down
<1>5. Dark(q)
  BY <1>1 DEF Dark, Records
<1>6. Fine(r, q)
  BY <1>1, <1>4, <1>5 DEF Fine
<1> QED
  BY <1>6 DEF q

\* The state of an output that is switched off.
TurnedOff(r) ==
  [Apply(ModesetDone([r EXCEPT !.active = FALSE])) EXCEPT !.dpmsOn = FALSE, !.loop = InhibitLoop(@)]

\* It is inhibited once more.
LEMMA TurnedOffRecord ==
  ASSUME NEW r \in Records
  PROVE  /\ TurnedOff(r) \in Records /\ TurnedOff(r).dpmsOn = FALSE
         /\ TurnedOff(r).active = FALSE /\ TurnedOff(r).enabled = r.enabled
         /\ FramesKept(r, TurnedOff(r)) /\ TurnedOff(r).loop = InhibitLoop(r.loop)
<1> DEFINE q == [r EXCEPT !.active = FALSE]
<1>1. /\ q \in Records /\ q.enabled = r.enabled /\ q.active = FALSE /\ q.loop = r.loop
      /\ FramesKept(r, q)
  BY DEF Records, FramesKept
<1> HIDE DEF q
<1>2. ~ActivePending(q)
  BY <1>1 DEF ActivePending
<1> DEFINE t == Apply(ModesetDone(q))
<1>3. /\ ModesetDone(q) \in Records /\ ModesetDone(q).loop = r.loop
      /\ ModesetDone(q).active = FALSE /\ ModesetDone(q).enabled = r.enabled
      /\ FramesKept(r, ModesetDone(q))
  BY <1>1, <1>2, ModesetRecord DEF FramesKept
<1>4. t \in Records /\ t.loop = r.loop /\ t.active = FALSE /\ t.enabled = r.enabled /\ FramesKept(r, t)
  BY <1>3, CopiedRecord DEF SwitchesKept, FramesKept
<1>5. InhibitLoop(r.loop) \in Loops
  BY InhibitFact DEF Records
<1> DEFINE l == InhibitLoop(r.loop)
<1>6. TurnedOff(r) = [t EXCEPT !.dpmsOn = FALSE, !.loop = InhibitLoop(@)]
  BY DEF TurnedOff, q
<1> HIDE DEF t
<1>7. TurnedOff(r) = [t EXCEPT !.dpmsOn = FALSE, !.loop = l]
  BY <1>4, <1>6 DEF Records
<1>8. l \in Loops
  BY <1>5
<1> HIDE DEF l
<1>9. /\ TurnedOff(r) \in Records /\ TurnedOff(r).dpmsOn = FALSE
      /\ TurnedOff(r).active = FALSE /\ TurnedOff(r).enabled = r.enabled
      /\ FramesKept(r, TurnedOff(r)) /\ TurnedOff(r).loop = l
  BY <1>4, <1>7, <1>8 DEF Records, FramesKept
<1> QED
  BY <1>9 DEF l

\* Switching an output off adds the inhibition that its DPMS state stands for.
LEMMA FineTurnedOff ==
  ASSUME NEW r \in Records, r.dpmsOn = TRUE
  PROVE  Fine(r, TurnedOff(r))
<1> DEFINE q == TurnedOff(r)
<1>1. q \in Records /\ q.dpmsOn = FALSE /\ q.active = FALSE /\ q.loop = InhibitLoop(r.loop)
  BY TurnedOffRecord
<1>2. /\ InhibitLoop(r.loop).inhibitCount = r.loop.inhibitCount + 1
      /\ InhibitLoop(r.loop).timer = TRUE => r.loop.timer = TRUE /\ r.loop.inhibitCount # 0
  BY InhibitFact DEF Records
<1> HIDE DEF q
<1>3. q.loop.timer \in BOOLEAN /\ r.loop.timer \in BOOLEAN /\ r.loop.inhibitCount \in Int
  BY <1>1 DEF Records, Loops, LoopType
<1>4. ASSUME NEW p \in {0, 1}, Inhibits(r, p) PROVE Inhibits(q, p)
  BY <1>1, <1>2, <1>3, <1>4 DEF Inhibits, Down
<1>5. Fine(r, q)
  BY <1>1, <1>4 DEF Fine, Dark
<1> QED
  BY <1>5 DEF q

\* Switching an output on takes the inhibition back, and it is in need of a
\* modeset.
LEMMA DpmsOnRecord ==
  ASSUME NEW r \in Records, NEW err
  PROVE  /\ Fine(r, DpmsOn(r, err)) /\ FramesKept(r, DpmsOn(r, err))
         /\ DpmsOn(r, err).enabled = r.enabled
         /\ r.dpmsOn = TRUE => DpmsOn(r, err) = r
<1> DEFINE l == UninhibitLoop(r.loop, App)
           q == [r EXCEPT !.active = TRUE, !.needsModeset = TRUE, !.nextModeset = TRUE,
                          !.dpmsOn = TRUE, !.loop = l]
<1>1. /\ l \in Loops /\ l.inhibitCount = r.loop.inhibitCount - 1
      /\ l.timer = TRUE => r.loop.timer = TRUE \/ r.loop.inhibitCount = 1
  BY UninhibitFact DEF Records
<1>2. DpmsOn(r, err) = IF r.enabled /\ ~r.dpmsOn /\ err = "None" THEN Repainted(q)
                       ELSE IF r.enabled /\ ~r.dpmsOn THEN Revert(r) ELSE r
  BY DEF DpmsOn
<1> HIDE DEF l
<1>3. /\ q \in Records /\ q.dpmsOn = TRUE /\ q.active = TRUE /\ q.loop = l /\ q.enabled = r.enabled
      /\ q.needsModeset = TRUE /\ q.nextModeset = TRUE /\ FramesKept(r, q)
  BY <1>1 DEF Records, FramesKept
<1> HIDE DEF q
<1>4. q.loop.timer \in BOOLEAN /\ r.loop.timer \in BOOLEAN /\ r.loop.inhibitCount \in Int
  BY <1>3 DEF Records, Loops, LoopType
<1>5. ASSUME r.dpmsOn = FALSE, NEW p \in {0, 1}, Inhibits(r, p) PROVE Inhibits(q, p)
  BY <1>1, <1>3, <1>4, <1>5 DEF Inhibits, Down
<1>6. r.dpmsOn = FALSE => Fine(r, q)
  BY <1>3, <1>5 DEF Fine, Dark
<1>7. /\ Fine(q, Repainted(q)) /\ FramesKept(q, Repainted(q)) /\ Repainted(q).enabled = q.enabled
      /\ Fine(r, Revert(r)) /\ FramesKept(r, Revert(r)) /\ Revert(r).enabled = r.enabled
  BY <1>3, FineFrames, RepaintedRecord, FineCopied, CopiedRecord DEF SwitchesKept
<1>8. r.dpmsOn = FALSE => Fine(r, Repainted(q)) /\ FramesKept(r, Repainted(q))
  BY <1>3, <1>6, <1>7, FineTrans DEF FramesKept
<1>9. r.dpmsOn \in BOOLEAN /\ Fine(r, r) /\ FramesKept(r, r)
  BY FineSame DEF Records, FramesKept
<1> QED
  BY <1>2, <1>3, <1>7, <1>8, <1>9

-----------------------------------------------------------------------------
(* The handlers that go over several outputs.                              *)

States == [Outputs -> Records]

\* waitIdle() answers the frames of the outputs that have a flip pending.
LEMMA WaitIdleFine ==
  ASSUME NEW d \in States, NEW E
  PROVE  /\ WaitIdle(d, E) \in States
         /\ \A o \in Outputs :
              /\ WaitIdle(d, E)[o] = IF o \in E /\ d[o].flip THEN Flipped(d[o]) ELSE d[o]
              /\ Fine(d[o], WaitIdle(d, E)[o])
<1>1. WaitIdle(d, E) = [o \in Outputs |-> IF o \in {q \in E : d[q].flip} THEN Flipped(d[o]) ELSE d[o]]
  BY DEF WaitIdle, On
<1>2. \A o \in Outputs : Fine(d[o], Flipped(d[o])) /\ Fine(d[o], d[o])
  BY FineFrames, FineSame DEF States
<1>3. \A o \in Outputs : Flipped(d[o]) \in Records /\ d[o] \in Records
  BY <1>2 DEF Fine
<1> QED
  BY <1>1, <1>2, <1>3 DEF States

\* maybeModeset(), of the outputs it is for.
LEMMA MaybeModesetFine ==
  ASSUME NEW d \in States, NEW E \in SUBSET Outputs, NEW err
  PROVE  /\ MaybeModeset(d, E, err) \in States
         /\ \A o \in E : Fine(d[o], MaybeModeset(d, E, err)[o])
<1> DEFINE idle == WaitIdle(d, E)
           Reset(r) == [r EXCEPT !.presentPending = FALSE]
           Unlit(r) == [r EXCEPT !.lit = FALSE]
           ResetFailed(r) == IF r.presentPending THEN Reset(Answered(r)) ELSE r
<1>1. idle \in States /\ \A o \in Outputs : Fine(d[o], idle[o]) /\ idle[o] \in Records
  BY WaitIdleFine DEF States
<1>2. ASSUME NEW r \in Records
      PROVE  /\ Fine(r, Reset(ModesetDone(r))) /\ Fine(r, ResetFailed(r))
             /\ Reset(ModesetDone(r)) \in Records /\ ResetFailed(r) \in Records
             /\ Unlit(r) \in Records
  <2>1. ModesetDone(r) \in Records /\ Answered(r) \in Records
    BY FineModeset, FineFrames DEF Fine
  <2>2. Fine(ModesetDone(r), Reset(ModesetDone(r))) /\ Fine(Answered(r), Reset(Answered(r)))
    BY <2>1, FineExcept
  <2>3. Fine(r, Reset(ModesetDone(r))) /\ Fine(r, Reset(Answered(r))) /\ Fine(r, r)
    BY <2>2, FineModeset, FineFrames, FineTrans, FineSame
  <2>4. Unlit(r) \in Records
    BY DEF Records
  <2> QED
    BY <2>3, <2>4 DEF Fine
<1>3. MaybeModeset(d, E, err) =
        IF ~PresentPendingForAll(d, E) THEN d
        ELSE IF err = "None"
        THEN [o \in Outputs |-> IF o \in E THEN Reset(ModesetDone(idle[o])) ELSE Unlit(idle[o])]
        ELSE [o \in Outputs |-> IF o \in E THEN ResetFailed(idle[o]) ELSE idle[o]]
  BY DEF MaybeModeset, On
<1> HIDE DEF idle, Reset, Unlit, ResetFailed
<1>4. \A o \in E : /\ Fine(d[o], Reset(ModesetDone(idle[o]))) /\ Fine(d[o], ResetFailed(idle[o]))
                   /\ Fine(d[o], d[o])
  BY <1>1, <1>2, FineTrans, FineSame DEF States
<1> QED
  BY <1>1, <1>2, <1>3, <1>4 DEF States

\* Switching an output off, as setDrmDpmsMode and the removal of an output do.
LEMMA DpmsOffFine ==
  ASSUME NEW d \in States, NEW E \in SUBSET Outputs, NEW o \in Outputs, NEW err,
         d[o].dpmsOn = TRUE
  PROVE  /\ DpmsOff(o, d, E, err) \in States
         /\ \A q \in Outputs : Fine(d[q], DpmsOff(o, d, E, err)[q])
         /\ DpmsOff(o, d, E, err)[o] = IF err = "None" THEN TurnedOff(WaitIdle(d, E)[o])
                                       ELSE Revert(WaitIdle(d, E)[o])
<1> DEFINE idle == WaitIdle(d, E)
<1>1. idle \in States /\ \A q \in Outputs : Fine(d[q], idle[q]) /\ idle[q] \in Records
  BY WaitIdleFine DEF States
<1>2. DpmsOff(o, d, E, err) =
        [idle EXCEPT ![o] = IF err = "None" THEN TurnedOff(idle[o]) ELSE Revert(idle[o])]
  BY DEF DpmsOff, TurnedOff
<1>3. idle[o].dpmsOn = TRUE
  <2>1. d[o] \in Records /\ Flipped(d[o]).dpmsOn = d[o].dpmsOn
    BY FlippedRecord DEF SwitchesKept, States
  <2>2. idle[o] = Flipped(d[o]) \/ idle[o] = d[o]
    BY WaitIdleFine
  <2> QED
    BY <2>1, <2>2
<1> HIDE DEF idle
<1>4. Fine(idle[o], TurnedOff(idle[o])) /\ Fine(idle[o], Revert(idle[o]))
  BY <1>1, <1>3, FineTurnedOff, FineCopied
<1>5. Fine(d[o], TurnedOff(idle[o])) /\ Fine(d[o], Revert(idle[o]))
  BY <1>1, <1>4, FineTrans
<1>6. TurnedOff(idle[o]) \in Records /\ Revert(idle[o]) \in Records
  BY <1>4 DEF Fine
<1> QED
  BY <1>1, <1>2, <1>5, <1>6 DEF States, idle

-----------------------------------------------------------------------------
(* Steps that add and remove no output.                                    *)

\* Every output is as good as before.
FineStep ==
  /\ out' \in States /\ exists' = exists /\ gpuActive' = gpuActive
  /\ \A o \in exists : Fine(out[o], out'[o])

\* One output changes.
LEMMA OneFine ==
  ASSUME out \in States, exists \subseteq Outputs, NEW o \in Outputs, NEW r, Fine(out[o], r),
         out' = [out EXCEPT ![o] = r], exists' = exists, gpuActive' = gpuActive
  PROVE  FineStep
<1>1. r \in Records /\ \A q \in Outputs : out[q] \in Records
  BY DEF Fine, States
<1>2. \A q \in Outputs : Fine(out[q], out[q])
  BY <1>1, FineSame
<1> QED
  BY <1>1, <1>2 DEF FineStep, States

\* Frames, flips and test commits.
LEMMA FrameFine ==
  ASSUME out \in States, exists \subseteq Outputs, NEW o \in Outputs, NEW err,
         \/ Request(o) \/ DispatchUnheard(o) \/ PageFlip(o)
         \/ PresentFrame(o, err) \/ PresentModeset(o, err)
         \/ TurnOff(o, err) \/ TurnOn(o, err)
         \/ \E repaints \in BOOLEAN : TestCommit(o, err, repaints)
  PROVE  FineStep
<1>1. out[o] \in Records /\ \A q \in exists : out[q] \in Records
  BY DEF States
<1> DEFINE r == out[o]
<1>2. /\ Fine(r, Repainted(r)) /\ Fine(r, Flipped(r)) /\ Fine(r, Begun(r))
      /\ Fine(r, Apply(r)) /\ Fine(r, Revert(r)) /\ Begun(r) \in Records /\ Apply(r) \in Records
  BY <1>1, FineFrames, FineCopied DEF Fine
<1>3. CASE Request(o) \/ PageFlip(o)
  <2>1. \E q \in {Repainted(r), Flipped(r)} : out' = [out EXCEPT ![o] = q]
    BY <1>3 DEF Request, PageFlip
  <2>2. exists' = exists /\ gpuActive' = gpuActive
    BY <1>3 DEF Request, PageFlip, environment
  <2> QED
    BY <1>2, <2>1, <2>2, OneFine
<1>4. CASE DispatchUnheard(o)
  <2> DEFINE l == [r.loop EXCEPT !.timer = FALSE]
             q == [r EXCEPT !.loop = l]
  <2>1. l \in Loops /\ LoopKept(r.loop, l, 0)
    <3>1. r.loop \in Loops
      BY <1>1 DEF Records
    <3>2. /\ l \in Loops /\ l.timer = FALSE /\ l.inhibitCount = r.loop.inhibitCount
          /\ l.pendingFrameCount = r.loop.pendingFrameCount /\ r.loop.pendingFrameCount \in Int
      BY <3>1 DEF Loops, LoopType
    <3> QED
      BY <3>2 DEF LoopKept
  <2>2. out' = [out EXCEPT ![o] = q] /\ exists' = exists /\ gpuActive' = gpuActive
    BY <1>4 DEF DispatchUnheard, environment
  <2> HIDE DEF l
  <2>3. SwitchesKept(r, q) /\ ModesetKept(r, q) /\ q.loop = l
    BY <1>1, <2>1, LoopExcept
  <2> HIDE DEF q
  <2>4. Fine(r, q)
    BY <1>1, <2>1, <2>3, FineKept
  <2> QED
    BY <2>2, <2>4, OneFine
<1>5. CASE PresentFrame(o, err)
  <2> DEFINE b == ActivePending(r)
             q == IF err = "None" THEN [Begun(r) EXCEPT !.flip = b] ELSE Answered(Begun(r))
  <2>1. b \in BOOLEAN
    BY <1>1 DEF ActivePending, Records
  <2>2. out' = [out EXCEPT ![o] = q] /\ exists' = exists /\ gpuActive' = gpuActive
    BY <1>5 DEF PresentFrame, environment
  <2> HIDE DEF b
  <2>3. Fine(Begun(r), [Begun(r) EXCEPT !.flip = b]) /\ Fine(Begun(r), Answered(Begun(r)))
    BY <1>2, <2>1, FineExcept, FineFrames
  <2>4. Fine(r, q)
    BY <1>2, <2>3, FineTrans
  <2> QED
    BY <2>2, <2>4, OneFine
<1>6. CASE PresentModeset(o, err)
  <2> DEFINE q == [Begun(r) EXCEPT !.presentPending = TRUE]
             d == [out EXCEPT ![o] = q]
  <2>1. Fine(Begun(r), q)
    BY <1>2, FineExcept
  <2>2. Fine(r, q) /\ q \in Records
    BY <1>2, <2>1, FineTrans DEF Fine
  <2>3. out' = MaybeModeset(d, exists, err) /\ exists' = exists /\ gpuActive' = gpuActive
    BY <1>6 DEF PresentModeset, environment
  <2> HIDE DEF q
  <2>4. d \in States /\ \A p \in exists : Fine(out[p], d[p])
    BY <1>1, <2>2, FineSame DEF States
  <2> HIDE DEF d
  <2>5. out' \in States /\ \A p \in exists : Fine(d[p], out'[p])
    BY <2>3, <2>4, MaybeModesetFine
  <2> QED
    BY <2>3, <2>4, <2>5, FineTrans DEF FineStep
<1>7. CASE TurnOff(o, err)
  <2>1. out' = DpmsOff(o, out, exists, err) /\ exists' = exists /\ gpuActive' = gpuActive
        /\ out[o].dpmsOn = TRUE
    BY <1>1, <1>7 DEF TurnOff, environment, Records
  <2> QED
    BY <2>1, DpmsOffFine DEF FineStep
<1>8. CASE TurnOn(o, err)
  <2>1. out' = [out EXCEPT ![o] = DpmsOn(r, err)] /\ exists' = exists /\ gpuActive' = gpuActive
    BY <1>8 DEF TurnOn, environment
  <2>2. Fine(r, DpmsOn(r, err))
    BY <1>1, DpmsOnRecord
  <2> QED
    BY <2>1, <2>2, OneFine
<1>9. CASE \E repaints \in BOOLEAN : TestCommit(o, err, repaints)
  <2>1. \E q \in {Revert(r), Repainted(Apply(r)), Apply(r)} : out' = [out EXCEPT ![o] = q]
    BY <1>9 DEF TestCommit
  <2>2. exists' = exists /\ gpuActive' = gpuActive
    BY <1>9 DEF TestCommit, environment
  <2>3. Fine(r, Repainted(Apply(r)))
    BY <1>2, FineFrames, FineTrans
  <2> QED
    BY <1>2, <2>1, <2>2, <2>3, OneFine
<1> QED
  BY <1>3, <1>4, <1>5, <1>6, <1>7, <1>8, <1>9

\* A test of all pipelines: one that finds no modeset necessary says that
\* the kernel drives every output that is to be active.
LEMMA VerdictFine ==
  ASSUME NEW r \in Records, NEW nm \in BOOLEAN,
         nm = FALSE => ~(r.enabled = TRUE /\ r.active = TRUE /\ r.lit = FALSE)
  PROVE  /\ Fine(r, [r EXCEPT !.needsModeset = nm])
         /\ Fine(r, [r EXCEPT !.needsModeset = nm, !.nextModeset = nm])
         /\ Dark([r EXCEPT !.needsModeset = nm, !.nextModeset = nm])
<1> DEFINE q1 == [r EXCEPT !.needsModeset = nm]
           q2 == [r EXCEPT !.needsModeset = nm, !.nextModeset = nm]
<1>1. /\ SwitchesKept(r, q1) /\ q1.loop = r.loop /\ q1.needsModeset = nm
      /\ q1.nextModeset = r.nextModeset
      /\ SwitchesKept(r, q2) /\ q2.loop = r.loop /\ q2.needsModeset = nm /\ q2.nextModeset = nm
  BY DEF SwitchesKept, Records
<1> HIDE DEF q1, q2
<1>2. LoopKept(r.loop, q1.loop, 0) /\ LoopKept(r.loop, q2.loop, 0)
  BY <1>1, SameLoop
<1>3. ASSUME NEW p \in {0, 1}, Inhibits(r, p) PROVE Inhibits(q1, p) /\ Inhibits(q2, p)
  BY <1>1, <1>2, <1>3, KeptInhibits
<1>4. (Dark(r) => Dark(q1)) /\ Dark(q2)
  BY <1>1 DEF Dark, SwitchesKept
<1>5. Fine(r, q1) /\ Fine(r, q2) /\ Dark(q2)
  BY <1>1, <1>3, <1>4 DEF Fine, SwitchesKept
<1> QED
  BY <1>5 DEF q1, q2

\* What a verdict says.
LEMMA VerdictFact ==
  ASSUME NEW d \in States, NEW driven, NEW nm \in ModesetVerdicts(d, driven)
  PROVE  /\ nm \in BOOLEAN
         /\ nm = FALSE => \A o \in Outputs : o \in driven => d[o].lit = TRUE
<1>1. \A o \in Outputs : d[o].lit \in BOOLEAN
  BY DEF States, Records
<1>2. CASE \E o \in Outputs : d[o].lit # (o \in driven)
  BY <1>2 DEF ModesetVerdicts
<1>3. CASE ~\E o \in Outputs : d[o].lit # (o \in driven)
  <2>1. nm \in BOOLEAN
    BY <1>3 DEF ModesetVerdicts
  <2> QED
    BY <1>1, <1>3, <2>1
<1> QED
  BY <1>2, <1>3

\* A configuration the kernel refuses.
LEMMA RefusedFine ==
  ASSUME out \in States, exists \subseteq Outputs, NEW o \in exists, NEW test,
         NEW nm \in ModesetVerdicts(out, {q \in exists : ActivePending(out[q])}),
         ConfigRefused(o, test, nm)
  PROVE  FineStep
<1> DEFINE Tainted(r) == [r EXCEPT !.needsModeset = nm]
           tainted == IF \E q \in exists : out[q].enabled /\ ~out[q].active
                      THEN exists \ {o} ELSE {}
           d == On(tainted, out, Tainted)
<1>1. /\ out' = [d EXCEPT ![o] = Revert(out[o])]
      /\ exists' = exists /\ gpuActive' = gpuActive
  BY DEF ConfigRefused, environment
<1>2. \A q \in Outputs : out[q] \in Records /\ Fine(out[q], out[q]) /\ Fine(out[q], Revert(out[q]))
  BY FineSame, FineCopied DEF States
<1>3. tainted \subseteq exists
  OBVIOUS
<1>4. ASSUME NEW q \in exists PROVE Fine(out[q], Tainted(out[q]))
  <2>1. nm \in BOOLEAN /\ (nm = FALSE => (ActivePending(out[q]) => out[q].lit = TRUE))
    BY VerdictFact
  <2>2. nm = FALSE => ~(out[q].enabled = TRUE /\ out[q].active = TRUE /\ out[q].lit = FALSE)
    BY <2>1 DEF ActivePending
  <2> QED
    BY <1>2, <2>1, <2>2, VerdictFine
<1> HIDE DEF tainted, Tainted
<1>5. d = [q \in Outputs |-> IF q \in tainted THEN Tainted(out[q]) ELSE out[q]]
  BY DEF On
<1> HIDE DEF d
<1>6. \A q \in Outputs : Fine(out[q], d[q]) /\ d[q] \in Records
  BY <1>2, <1>3, <1>4, <1>5 DEF Fine
<1>7. d \in States /\ Revert(out[o]) \in Records
  BY <1>2, <1>5, <1>6 DEF States, Fine
<1> QED
  BY <1>1, <1>2, <1>6, <1>7 DEF FineStep, States

\* A configuration that is accepted.
LEMMA AppliedFine ==
  ASSUME out \in States, exists \subseteq Outputs, NEW o \in exists,
         NEW enable \in BOOLEAN, NEW on, NEW err,
         NEW nm \in ModesetVerdicts(out, IF enable THEN Enabled(out, exists) \cup {o}
                                         ELSE Enabled(out, exists) \ {o}),
         ConfigApplied(o, enable, nm, on, err)
  PROVE  FineStep
<1> DEFINE Verdict(r) == [r EXCEPT !.needsModeset = nm]
           w == [out EXCEPT ![o].enabled = enable]
           tested == On(exists, w, Verdict)
           applied == [tested EXCEPT ![o] = Apply(@)]
           done == IF ~enable /\ nm THEN MaybeModeset(applied, exists, err) ELSE applied
           shown == [done EXCEPT ![o] = Repainted(@)]
           TurnedOn == [q \in Outputs |->
                     IF q \in exists THEN DpmsOn(shown[q], IF q \in on THEN "None" ELSE "Other")
                     ELSE shown[q]]
<1>1. /\ out' = IF enable /\ shown[o].dpmsOn THEN TurnedOn ELSE shown
      /\ exists' = exists /\ gpuActive' = gpuActive
  BY DEF ConfigApplied, environment
<1>2. \A q \in Outputs : out[q] \in Records
  BY DEF States
<1>3. /\ nm \in BOOLEAN
      /\ nm = FALSE => \A q \in exists : q # o /\ out[q].enabled => out[q].lit = TRUE
      /\ nm = FALSE => (enable => out[o].lit = TRUE)
  <2>1. nm \in BOOLEAN
    BY VerdictFact
  <2>2. CASE enable
    <3>1. nm \in ModesetVerdicts(out, Enabled(out, exists) \cup {o})
      BY <2>2
    <3>2. nm = FALSE => \A q \in Outputs : q \in Enabled(out, exists) \cup {o} => out[q].lit = TRUE
      BY <3>1, VerdictFact
    <3> QED
      BY <2>1, <3>2 DEF Enabled
  <2>3. CASE ~enable
    <3>1. nm \in ModesetVerdicts(out, Enabled(out, exists) \ {o})
      BY <2>3
    <3>2. nm = FALSE => \A q \in Outputs : q \in Enabled(out, exists) \ {o} => out[q].lit = TRUE
      BY <3>1, VerdictFact
    <3> QED
      BY <2>1, <2>3, <3>2 DEF Enabled
  <2> QED
    BY <2>2, <2>3
<1>4. w \in States /\ w[o] = [out[o] EXCEPT !.enabled = enable] /\ \A q \in Outputs \ {o} : w[q] = out[q]
  <2>1. w = [out EXCEPT ![o] = [out[o] EXCEPT !.enabled = enable]]
    OBVIOUS
  <2>2. [out[o] EXCEPT !.enabled = enable] \in Records
    BY <1>2 DEF Records
  <2> QED
    BY <2>1, <2>2 DEF States
<1>5. tested = [q \in Outputs |-> IF q \in exists THEN Verdict(w[q]) ELSE w[q]]
  BY DEF On
<1> HIDE DEF w
<1>6. \A q \in Outputs : Verdict(w[q]) \in Records
  BY <1>3, <1>4 DEF States, Records
<1>7. tested \in States
  BY <1>4, <1>5, <1>6 DEF States
<1>8. ASSUME NEW q \in exists, q # o PROVE Fine(out[q], tested[q])
  <2>1. tested[q] = [out[q] EXCEPT !.needsModeset = nm]
    BY <1>4, <1>5, <1>8
  <2>2. nm = FALSE => ~(out[q].enabled = TRUE /\ out[q].active = TRUE /\ out[q].lit = FALSE)
    BY <1>3, <1>8
  <2>3. out[q] \in Records /\ nm \in BOOLEAN
    BY <1>2, <1>3
  <2>4. Fine(out[q], [out[q] EXCEPT !.needsModeset = nm])
    BY <2>2, <2>3, VerdictFine
  <2> QED
    BY <2>1, <2>4
<1>9. Fine(out[o], Apply(tested[o]))
  <2> DEFINE r == out[o]
             q == tested[o]
  <2>1. q = [[r EXCEPT !.enabled = enable] EXCEPT !.needsModeset = nm]
    BY <1>4, <1>5
  <2>2. /\ q \in Records /\ q.loop = r.loop /\ q.dpmsOn = r.dpmsOn /\ q.active = r.active
        /\ q.lit = r.lit /\ q.enabled = enable /\ q.needsModeset = nm
    BY <1>2, <1>3, <2>1 DEF Records
  <2> HIDE DEF q
  <2>3. /\ Apply(q) \in Records /\ Apply(q).loop = r.loop /\ Apply(q).dpmsOn = r.dpmsOn
        /\ Apply(q).active = r.active /\ Apply(q).lit = r.lit /\ Apply(q).enabled = enable
        /\ Apply(q).needsModeset = nm /\ Apply(q).nextModeset = nm
    BY <2>2, CopiedRecord DEF SwitchesKept
  <2>4. ASSUME NEW p \in {0, 1}, Inhibits(r, p) PROVE Inhibits(Apply(q), p)
    BY <2>3, <2>4 DEF Inhibits, Down
  <2>5. Dark(Apply(q))
    BY <1>3, <2>3 DEF Dark
  <2>6. Fine(r, Apply(q))
    BY <2>3, <2>4, <2>5 DEF Fine
  <2> QED
    BY <2>6 DEF q
<1> HIDE DEF tested
<1>10. applied \in States /\ \A q \in exists : Fine(out[q], applied[q])
  BY <1>7, <1>8, <1>9 DEF States, Fine
<1> HIDE DEF applied
<1>11. done \in States /\ \A q \in exists : Fine(out[q], done[q])
  <2>1. MaybeModeset(applied, exists, err) \in States
    BY <1>10, MaybeModesetFine
  <2>2. \A q \in exists : Fine(applied[q], MaybeModeset(applied, exists, err)[q])
    BY <1>10, MaybeModesetFine
  <2>3. \A q \in exists : Fine(out[q], MaybeModeset(applied, exists, err)[q])
    BY <1>10, <2>2, FineTrans
  <2> QED
    BY <1>10, <2>1, <2>3
<1> HIDE DEF done
<1>12. shown \in States /\ \A q \in exists : Fine(out[q], shown[q])
  <2>1. done[o] \in Records /\ Fine(done[o], Repainted(done[o]))
    BY <1>11, FineFrames DEF States
  <2>2. Fine(out[o], Repainted(done[o])) /\ Repainted(done[o]) \in Records
    BY <1>11, <2>1, FineTrans DEF Fine
  <2> QED
    BY <1>11, <2>2 DEF States
<1> HIDE DEF shown
<1>13. TurnedOn \in States /\ \A q \in exists : Fine(out[q], TurnedOn[q])
  <2>1. ASSUME NEW q \in Outputs, NEW e
        PROVE  Fine(shown[q], DpmsOn(shown[q], e)) /\ DpmsOn(shown[q], e) \in Records
    BY <1>12, DpmsOnRecord DEF States, Fine
  <2>2. \A q \in exists : Fine(out[q], TurnedOn[q])
    <3> TAKE q \in exists
    <3>1. TurnedOn[q] = DpmsOn(shown[q], IF q \in on THEN "None" ELSE "Other")
      OBVIOUS
    <3> QED
      BY <1>12, <2>1, <3>1, FineTrans
  <2>3. \A q \in Outputs : shown[q] \in Records
    BY <1>12 DEF States
  <2> QED
    BY <2>1, <2>2, <2>3 DEF States
<1> HIDE DEF TurnedOn
<1> QED
  BY <1>1, <1>12, <1>13 DEF FineStep

-----------------------------------------------------------------------------
(* updateOutputs().                                                        *)

\* q has no frame out that r has not.
NoNewFrames(r, q) ==
  (q.flip = TRUE => r.flip = TRUE) /\ (q.presentPending = TRUE => r.presentPending = TRUE)

\* The pipeline an output leaves behind.
LEMMA OrphanedRecord ==
  ASSUME NEW r \in Records, NEW p
  PROVE  Orphaned(r, p) \in Records /\ NoNewFrames(r, Orphaned(r, p))
<1> DEFINE q == [r EXCEPT !.loop = NewLoop, !.dpmsOn = TRUE]
<1>1. q \in Records /\ q.flip = r.flip /\ q.presentPending = r.presentPending
  BY NewLoopFact DEF Records
<1>2. Orphaned(r, p) = NewPipeline \/ Orphaned(r, p) = q
  BY DEF Orphaned
<1> HIDE DEF q
<1> QED
  BY <1>1, <1>2, NewPipelineFact DEF NoNewFrames

\* A new output on a pipeline.
LEMMA AdoptedRecord ==
  ASSUME NEW r \in Records
  PROVE  /\ Adopted(r) \in Records /\ FramesKept(r, Adopted(r)) /\ Inhibits(Adopted(r), 0)
         /\ Adopted(r).loop = NewLoop /\ Adopted(r).dpmsOn = TRUE
<1>1. /\ Adopted(r) \in Records /\ FramesKept(r, Adopted(r)) /\ Adopted(r).loop = NewLoop
      /\ Adopted(r).dpmsOn = TRUE /\ Adopted(r).active = TRUE
  BY NewLoopFact DEF Adopted, Records, FramesKept
<1> QED
  BY <1>1, NewLoopFact DEF Inhibits, Down

\* What the update does before it tests the configuration.
LEMMA RepluggedFact ==
  ASSUME NEW d \in States, NEW E \in SUBSET Outputs, NEW off
  PROVE  /\ Replugged(d, E, off) \in States
         /\ \A o \in E \ Gone(E) : Replugged(d, E, off)[o] = WaitIdle(d, E)[o]
         /\ \A o \in Added(E) : Replugged(d, E, off)[o] = Adopted(d[o])
         /\ \A o \in Outputs : NoNewFrames(WaitIdle(d, E)[o], Replugged(d, E, off)[o])
<1> DEFINE idle == WaitIdle(d, E)
           Off(o) == IF idle[o].enabled /\ idle[o].dpmsOn
                     THEN DpmsOff(o, idle, E, IF o \in off THEN "None" ELSE "Other")[o]
                     ELSE idle[o]
<1>1. idle \in States /\ \A o \in Outputs : idle[o] \in Records
  BY WaitIdleFine DEF States
<1>2. \A o \in Outputs \ E : idle[o] = d[o]
  BY WaitIdleFine
<1>3. Replugged(d, E, off) =
        [o \in Outputs |->
          IF o \in Gone(E) THEN Orphaned(Off(o), port[o])
          ELSE IF o \in Added(E) THEN Adopted(idle[o])
          ELSE IF port[o] = "absent" THEN NewPipeline ELSE idle[o]]
  BY DEF Replugged
<1>4. ASSUME NEW o \in Outputs PROVE Off(o) \in Records /\ NoNewFrames(idle[o], Off(o))
  <2> HIDE DEF idle
  <2>1. CASE idle[o].enabled /\ idle[o].dpmsOn
    <3> DEFINE err == IF o \in off THEN "None" ELSE "Other"
               w == WaitIdle(idle, E)[o]
    <3>1. idle[o].dpmsOn = TRUE
      BY <1>1, <2>1 DEF Records
    <3>2. Off(o) = DpmsOff(o, idle, E, err)[o]
      BY <2>1
    <3>3. /\ DpmsOff(o, idle, E, err)[o] \in Records
          /\ DpmsOff(o, idle, E, err)[o] = TurnedOff(w) \/ DpmsOff(o, idle, E, err)[o] = Revert(w)
      <4>1. /\ DpmsOff(o, idle, E, err) \in States
            /\ DpmsOff(o, idle, E, err)[o] = IF err = "None" THEN TurnedOff(w) ELSE Revert(w)
        <5> HIDE DEF err
        <5> QED
          BY <1>1, <3>1, DpmsOffFine
      <4> QED
        BY <4>1 DEF States
    <3>4. w \in Records /\ (w = Flipped(idle[o]) \/ w = idle[o])
      BY <1>1, WaitIdleFine DEF States
    <3>5. NoNewFrames(idle[o], w)
      BY <1>1, <3>4, FlippedRecord DEF NoNewFrames
    <3>6. FramesKept(w, TurnedOff(w)) /\ FramesKept(w, Revert(w))
      BY <3>4, TurnedOffRecord, CopiedRecord
    <3> HIDE DEF w, Off
    <3> QED
      BY <3>2, <3>3, <3>5, <3>6 DEF NoNewFrames, FramesKept
  <2>2. CASE ~(idle[o].enabled /\ idle[o].dpmsOn)
    BY <1>1, <2>2 DEF NoNewFrames
  <2> QED
    BY <2>1, <2>2
<1>5. \A o \in Outputs : /\ Orphaned(Off(o), port[o]) \in Records
                         /\ NoNewFrames(Off(o), Orphaned(Off(o), port[o]))
  BY <1>4, OrphanedRecord
<1> HIDE DEF Off, idle
<1>6. \A o \in Outputs : NoNewFrames(idle[o], Orphaned(Off(o), port[o]))
  BY <1>4, <1>5 DEF NoNewFrames
<1>7. \A o \in Outputs : /\ Adopted(idle[o]) \in Records /\ NoNewFrames(idle[o], Adopted(idle[o]))
                         /\ NoNewFrames(idle[o], NewPipeline) /\ NewPipeline \in Records
                         /\ NoNewFrames(idle[o], idle[o])
  BY <1>1, AdoptedRecord, NewPipelineFact DEF NoNewFrames, FramesKept
<1>8. Replugged(d, E, off) \in States
  BY <1>1, <1>3, <1>5, <1>7 DEF States
<1>9. \A o \in E \ Gone(E) : Replugged(d, E, off)[o] = idle[o]
  BY <1>3 DEF Gone, Added
<1>10. \A o \in Added(E) : Replugged(d, E, off)[o] = Adopted(d[o])
  BY <1>2, <1>3 DEF Gone, Added
<1>11. \A o \in Outputs : NoNewFrames(idle[o], Replugged(d, E, off)[o])
  <2> TAKE o \in Outputs
  <2>1. Replugged(d, E, off)[o] \in {Orphaned(Off(o), port[o]), Adopted(idle[o]), NewPipeline, idle[o]}
    BY <1>3
  <2> QED
    BY <1>6, <1>7, <2>1
<1> QED
  BY <1>8, <1>9, <1>10, <1>11 DEF idle

\* An output that was there before: nothing but its need of a modeset
\* changes.
Stayed(r, q) == SwitchesKept(r, q) /\ FramesKept(r, q) /\ q.loop = r.loop /\ (Dark(r) => Dark(q))

\* A new one, on the pipeline r.
Fresh(r, q) ==
  /\ q \in Records /\ Inhibits(q, 0) /\ Dark(q) /\ q.loop.pendingFrameCount = 0
  /\ FramesKept(r, q) /\ q.dpmsOn = TRUE

\* The three ways the test ends.
LEMMA TestedFact ==
  ASSUME NEW d \in States, NEW F \in SUBSET Outputs, NEW added \in SUBSET F, NEW test,
         NEW nm \in ModesetVerdicts(d, Enabled(d, F)),
         \A o \in added : Inhibits(d[o], 0) /\ d[o].loop = NewLoop /\ d[o].dpmsOn = TRUE
  PROVE  LET u == Tested(d, F, added, test, nm)
         IN  /\ u.out \in States /\ u.exists \in {F, F \ added}
             /\ \A o \in F \ added : Stayed(d[o], u.out[o])
             /\ \A o \in u.exists \cap added : Fresh(d[o], u.out[o])
             /\ \A o \in Outputs : NoNewFrames(d[o], u.out[o])
<1> DEFINE Verdict(r) == [r EXCEPT !.needsModeset = nm, !.nextModeset = nm]
           Shown(r) == IF r.enabled THEN Repainted(r) ELSE r
           Disabled(r) == [r EXCEPT !.enabled = FALSE, !.nextModeset = r.needsModeset]
           Erased(r) == [NewPipeline EXCEPT !.lit = r.lit]
           u == Tested(d, F, added, test, nm)
<1>1. \A o \in Outputs : d[o] \in Records
  BY DEF States
<1>2. nm \in BOOLEAN /\ (nm = FALSE => \A o \in F : d[o].enabled => d[o].lit = TRUE)
  <2>1. nm \in BOOLEAN /\ (nm = FALSE => \A o \in Outputs : o \in Enabled(d, F) => d[o].lit = TRUE)
    BY VerdictFact
  <2> QED
    BY <2>1 DEF Enabled
<1>3. ASSUME NEW o \in F PROVE /\ Stayed(d[o], Verdict(d[o])) /\ Dark(Verdict(d[o]))
                               /\ Stayed(d[o], Revert(d[o]))
  <2> DEFINE r == d[o]
             q == Verdict(r)
  <2>1. r \in Records /\ (nm = FALSE => ~(r.enabled = TRUE /\ r.active = TRUE /\ r.lit = FALSE))
    BY <1>1, <1>2
  <2>2. SwitchesKept(r, q) /\ FramesKept(r, q) /\ q.loop = r.loop
    BY <1>2, <2>1 DEF SwitchesKept, FramesKept, Records
  <2>3. Dark(q)
    BY <1>2, <2>1, VerdictFine
  <2>4. SwitchesKept(r, Revert(r)) /\ FramesKept(r, Revert(r)) /\ Revert(r).loop = r.loop
    BY <2>1, CopiedRecord
  <2>5. Dark(r) => Dark(Revert(r))
    BY <2>1, FineCopied DEF Fine
  <2> HIDE DEF r, q
  <2>6. Stayed(r, q) /\ Dark(q) /\ Stayed(r, Revert(r))
    BY <2>2, <2>3, <2>4, <2>5 DEF Stayed
  <2> QED
    BY <2>6 DEF r, q
<1>4. ASSUME NEW o \in added, NEW q, Stayed(d[o], q)
      PROVE  /\ Inhibits(q, 0) /\ q.loop.pendingFrameCount = 0 /\ q.dpmsOn = TRUE
             /\ q \in Records /\ FramesKept(d[o], q)
  <2>1. LoopKept(d[o].loop, q.loop, 0) /\ SwitchesKept(d[o], q)
    BY <1>1, <1>4, SameLoop DEF Stayed
  <2>2. d[o] \in Records /\ Inhibits(d[o], 0) /\ 0 \in Int /\ 0 \in {0, 1}
    BY <1>1
  <2>3. Inhibits(q, 0)
    BY <2>1, <2>2, KeptInhibits
  <2> QED
    BY <1>4, <2>3, NewLoopFact DEF Stayed, SwitchesKept
<1>5. ASSUME NEW q \in Records, Inhibits(q, 0), Dark(q), q.loop.pendingFrameCount = 0, q.dpmsOn = TRUE
      PROVE  /\ Inhibits(Shown(q), 0) /\ Dark(Shown(q)) /\ Shown(q).loop.pendingFrameCount = 0
             /\ Shown(q) \in Records /\ FramesKept(q, Shown(q)) /\ Shown(q).dpmsOn = TRUE
  <2>1. CASE q.enabled
    <3>1. Fine(q, Repainted(q)) /\ FramesKept(q, Repainted(q)) /\ SwitchesKept(q, Repainted(q))
          /\ LoopKept(q.loop, Repainted(q).loop, 0)
      BY FineFrames, RepaintedRecord
    <3> QED
      BY <1>5, <2>1, <3>1 DEF Fine, SwitchesKept, LoopKept
  <2>2. CASE ~q.enabled
    BY <1>5, <2>2 DEF FramesKept
  <2> QED
    BY <2>1, <2>2
<1>6. ASSUME NEW q \in Records
      PROVE  /\ Disabled(q) \in Records /\ Disabled(q).loop = q.loop /\ FramesKept(q, Disabled(q))
             /\ Disabled(q).dpmsOn = q.dpmsOn /\ Disabled(q).active = q.active /\ Dark(Disabled(q))
             /\ Erased(q) \in Records /\ Erased(q).flip = FALSE /\ Erased(q).presentPending = FALSE
  BY NewPipelineFact DEF Records, FramesKept, Dark
<1>7. CASE test = "None"
  <2>1. u.exists = F /\ u.out = On(added, On(F, d, Verdict), Shown)
    BY <1>7 DEF Tested
  <2>2. u.out = [o \in Outputs |-> IF o \in added THEN Shown(Verdict(d[o]))
                                   ELSE IF o \in F THEN Verdict(d[o]) ELSE d[o]]
    BY <2>1 DEF On
  <2> HIDE DEF u, Verdict, Shown
  <2>3. ASSUME NEW o \in added PROVE Fresh(d[o], Shown(Verdict(d[o])))
    <3> DEFINE q == Verdict(d[o])
    <3>1. Stayed(d[o], q) /\ Dark(q)
      BY <1>3
    <3> HIDE DEF q
    <3>2. /\ Inhibits(q, 0) /\ q.loop.pendingFrameCount = 0 /\ q.dpmsOn = TRUE
          /\ q \in Records /\ FramesKept(d[o], q)
      BY <1>4, <3>1
    <3>3. /\ Inhibits(Shown(q), 0) /\ Dark(Shown(q)) /\ Shown(q).loop.pendingFrameCount = 0
          /\ Shown(q) \in Records /\ FramesKept(q, Shown(q)) /\ Shown(q).dpmsOn = TRUE
      BY <1>5, <3>1, <3>2
    <3>4. Fresh(d[o], Shown(q))
      BY <3>2, <3>3 DEF Fresh, FramesKept
    <3> QED
      BY <3>4 DEF q
  <2>4. \A o \in F : Stayed(d[o], Verdict(d[o]))
    BY <1>3
  <2>5. u.out \in States
    <3>1. \A o \in added : Shown(Verdict(d[o])) \in Records
      BY <2>3 DEF Fresh
    <3>2. \A o \in F : Verdict(d[o]) \in Records
      BY <2>4 DEF Stayed, SwitchesKept
    <3> QED
      BY <1>1, <2>2, <3>1, <3>2 DEF States
  <2>6. /\ \A o \in F \ added : Stayed(d[o], u.out[o])
        /\ \A o \in added : Fresh(d[o], u.out[o])
        /\ \A o \in Outputs \ F : u.out[o] = d[o]
    BY <2>2, <2>3, <2>4
  <2>7. \A o \in Outputs : NoNewFrames(d[o], u.out[o])
    BY <2>6 DEF NoNewFrames, Fresh, Stayed, FramesKept
  <2> QED
    BY <2>1, <2>5, <2>6, <2>7 DEF u
<1>8. CASE test = "NoPermission"
  <2>1. u.exists = F \ added /\ u.out = On(added, On(F, d, Revert), Erased)
    BY <1>8 DEF Tested
  <2>2. u.out = [o \in Outputs |-> IF o \in added THEN Erased(Revert(d[o]))
                                   ELSE IF o \in F THEN Revert(d[o]) ELSE d[o]]
    BY <2>1 DEF On
  <2> HIDE DEF u, Erased
  <2>3. \A o \in F : Stayed(d[o], Revert(d[o]))
    BY <1>3
  <2>4. \A o \in added : /\ Erased(Revert(d[o])) \in Records
                         /\ Erased(Revert(d[o])).flip = FALSE
                         /\ Erased(Revert(d[o])).presentPending = FALSE
    BY <1>6, <2>3 DEF Stayed, SwitchesKept
  <2>5. u.out \in States
    BY <1>1, <2>2, <2>3, <2>4 DEF States, Stayed, SwitchesKept
  <2>6. /\ \A o \in F \ added : Stayed(d[o], u.out[o])
        /\ \A o \in added : u.out[o].flip = FALSE /\ u.out[o].presentPending = FALSE
        /\ \A o \in Outputs \ F : u.out[o] = d[o]
    BY <2>2, <2>3, <2>4
  <2>7. \A o \in Outputs : NoNewFrames(d[o], u.out[o])
    BY <2>6 DEF NoNewFrames, Stayed, FramesKept
  <2> QED
    BY <2>1, <2>5, <2>6, <2>7 DEF u
<1>9. CASE test # "None" /\ test # "NoPermission"
  <2>1. u.exists = F /\ u.out = On(added, On(F, d, Revert), Disabled)
    BY <1>9 DEF Tested
  <2>2. u.out = [o \in Outputs |-> IF o \in added THEN Disabled(Revert(d[o]))
                                   ELSE IF o \in F THEN Revert(d[o]) ELSE d[o]]
    BY <2>1 DEF On
  <2> HIDE DEF u, Disabled
  <2>3. \A o \in F : Stayed(d[o], Revert(d[o]))
    BY <1>3
  <2>4. ASSUME NEW o \in added PROVE Fresh(d[o], Disabled(Revert(d[o])))
    <3>1. /\ Inhibits(Revert(d[o]), 0) /\ Revert(d[o]).loop.pendingFrameCount = 0
          /\ Revert(d[o]) \in Records /\ Revert(d[o]).dpmsOn = TRUE /\ FramesKept(d[o], Revert(d[o]))
      BY <1>4, <2>3
    <3>2. Inhibits(Disabled(Revert(d[o])), 0)
      BY <1>6, <3>1 DEF Inhibits, Down
    <3> QED
      BY <1>6, <3>1, <3>2 DEF Fresh, FramesKept
  <2>5. u.out \in States
    <3>1. \A o \in added : Disabled(Revert(d[o])) \in Records
      BY <2>4 DEF Fresh
    <3>2. \A o \in F : Revert(d[o]) \in Records
      BY <2>3 DEF Stayed, SwitchesKept
    <3> QED
      BY <1>1, <2>2, <3>1, <3>2 DEF States
  <2>6. /\ \A o \in F \ added : Stayed(d[o], u.out[o])
        /\ \A o \in added : Fresh(d[o], u.out[o])
        /\ \A o \in Outputs \ F : u.out[o] = d[o]
    BY <2>2, <2>3, <2>4
  <2>7. \A o \in Outputs : NoNewFrames(d[o], u.out[o])
    BY <2>6 DEF NoNewFrames, Fresh, Stayed, FramesKept
  <2> QED
    BY <2>1, <2>5, <2>6, <2>7 DEF u
<1> QED
  BY <1>7, <1>8, <1>9

\* What the call leaves of the outputs it started with and of those it adds.
LEMMA UpdateFact ==
  ASSUME NEW d \in States, NEW E \in SUBSET Outputs, NEW u \in UpdateOutcomes(d, E)
  PROVE  /\ u.out \in States
         /\ u.exists = (E \ Gone(E)) \cup Added(E) \/ u.exists = E \ Gone(E)
         /\ \A o \in E \ Gone(E) : Stayed(WaitIdle(d, E)[o], u.out[o])
         /\ \A o \in u.exists \cap Added(E) : Fresh(Adopted(d[o]), u.out[o])
         /\ \A o \in Outputs : NoNewFrames(WaitIdle(d, E)[o], u.out[o])
<1> DEFINE added == Added(E)
           F == (E \ Gone(E)) \cup added
<1>0. PICK off, test :
        \E nm \in ModesetVerdicts(Replugged(d, E, off), Enabled(Replugged(d, E, off), F)) :
          u = Tested(Replugged(d, E, off), F, added, test, nm)
  BY DEF UpdateOutcomes
<1> DEFINE v == Replugged(d, E, off)
<1>1. PICK nm \in ModesetVerdicts(v, Enabled(v, F)) : u = Tested(v, F, added, test, nm)
  BY <1>0
<1>2. /\ v \in States
      /\ \A o \in E \ Gone(E) : v[o] = WaitIdle(d, E)[o]
      /\ \A o \in added : v[o] = Adopted(d[o])
      /\ \A o \in Outputs : NoNewFrames(WaitIdle(d, E)[o], v[o])
  BY RepluggedFact
<1>3. F \in SUBSET Outputs /\ added \in SUBSET F /\ F \ added = E \ Gone(E) /\ added \in SUBSET Outputs
  BY DEF Gone, Added
<1>4. u = Tested(v, F, added, test, nm) /\ nm \in ModesetVerdicts(v, Enabled(v, F))
  BY <1>1
<1>5. \A o \in added : Inhibits(v[o], 0) /\ v[o].loop = NewLoop /\ v[o].dpmsOn = TRUE
  <2> TAKE o \in added
  <2>1. d[o] \in Records
    BY <1>3 DEF States
  <2> QED
    BY <1>2, <2>1, AdoptedRecord
<1> HIDE DEF v, F, added
<1>6. /\ u.out \in States /\ u.exists \in {F, F \ added}
      /\ \A o \in F \ added : Stayed(v[o], u.out[o])
      /\ \A o \in u.exists \cap added : Fresh(v[o], u.out[o])
      /\ \A o \in Outputs : NoNewFrames(v[o], u.out[o])
  BY <1>2, <1>3, <1>4, <1>5, TestedFact
<1>7. \A o \in Outputs : NoNewFrames(WaitIdle(d, E)[o], u.out[o])
  BY <1>2, <1>6 DEF NoNewFrames
<1>8. \A o \in E \ Gone(E) : Stayed(WaitIdle(d, E)[o], u.out[o])
  BY <1>2, <1>3, <1>6
<1>9. \A o \in u.exists \cap added : Fresh(Adopted(d[o]), u.out[o])
  BY <1>2, <1>6
<1>10. u.exists = F \/ u.exists = E \ Gone(E)
  BY <1>3, <1>6
<1> QED
  BY <1>6, <1>7, <1>8, <1>9, <1>10 DEF F, added

\* What stays is fine.
LEMMA StayedFine ==
  ASSUME NEW r \in Records, NEW q, Stayed(r, q)
  PROVE  Fine(r, q)
<1>1. LoopKept(r.loop, q.loop, 0) /\ SwitchesKept(r, q) /\ q \in Records /\ 0 \in Int
  BY SameLoop DEF Stayed, SwitchesKept
<1>2. ASSUME NEW p \in {0, 1}, Inhibits(r, p) PROVE Inhibits(q, p)
  BY <1>1, <1>2, KeptInhibits
<1> QED
  BY <1>1, <1>2 DEF Fine, Stayed

\* The update as a step.
LEMMA UpdateFine ==
  ASSUME NEW d \in States, exists \in SUBSET Outputs, NEW s, UpdateOutputs(d, s)
  PROVE  /\ out' \in States
         /\ exists' = (exists \ Gone(exists)) \cup Added(exists) \/ exists' = exists \ Gone(exists)
         /\ \A o \in exists' \cap exists : Fine(d[o], out'[o])
         /\ \A o \in exists' \ exists : o \in Added(exists) /\ Inhibits(out'[o], 0) /\ Dark(out'[o])
<1>1. PICK u \in UpdateOutcomes(d, exists) : out' = u.out /\ exists' = u.exists
  BY DEF UpdateOutputs
<1>2. /\ u.out \in States
      /\ u.exists = (exists \ Gone(exists)) \cup Added(exists) \/ u.exists = exists \ Gone(exists)
      /\ \A o \in exists \ Gone(exists) : Stayed(WaitIdle(d, exists)[o], u.out[o])
      /\ \A o \in u.exists \cap Added(exists) : Fresh(Adopted(d[o]), u.out[o])
  BY <1>1, UpdateFact
<1>3. \A o \in Outputs : /\ Fine(d[o], WaitIdle(d, exists)[o])
                         /\ WaitIdle(d, exists)[o] \in Records
  BY WaitIdleFine DEF States
<1>4. exists' \cap exists \subseteq exists \ Gone(exists)
  BY <1>1, <1>2 DEF Added
<1>5. \A o \in exists \ Gone(exists) : Fine(WaitIdle(d, exists)[o], u.out[o])
  BY <1>2, <1>3, StayedFine
<1>6. \A o \in exists' \cap exists : Fine(d[o], out'[o])
  BY <1>1, <1>3, <1>4, <1>5, FineTrans
<1>7. exists' \ exists \subseteq u.exists \cap Added(exists)
  BY <1>1, <1>2
<1>8. \A o \in exists' \ exists : o \in Added(exists) /\ Inhibits(out'[o], 0) /\ Dark(out'[o])
  BY <1>1, <1>2, <1>7 DEF Fresh
<1> QED
  BY <1>1, <1>2, <1>6, <1>8

-----------------------------------------------------------------------------
(* The session.                                                            *)

Inhibited(r) == [r EXCEPT !.loop = InhibitLoop(@)]
Uninhibited(r) == [r EXCEPT !.loop = UninhibitLoop(@, App)]

\* Pausing the device.
LEMMA InhibitedRecord ==
  ASSUME NEW r \in Records
  PROVE  /\ SwitchesKept(r, Inhibited(r)) /\ FramesKept(r, Inhibited(r)) /\ ModesetKept(r, Inhibited(r))
         /\ Inhibits(r, 0) => Inhibits(Inhibited(r), 1)
<1> DEFINE l == InhibitLoop(r.loop)
<1>1. /\ l \in Loops /\ l.inhibitCount = r.loop.inhibitCount + 1
      /\ l.timer = TRUE => r.loop.timer = TRUE /\ r.loop.inhibitCount # 0
  BY InhibitFact DEF Records
<1>2. Inhibited(r) = [r EXCEPT !.loop = l]
  BY DEF Inhibited
<1> HIDE DEF l
<1>3. /\ SwitchesKept(r, Inhibited(r)) /\ FramesKept(r, Inhibited(r)) /\ ModesetKept(r, Inhibited(r))
      /\ Inhibited(r).loop = l
  BY <1>1, <1>2, LoopExcept
<1>4. l.timer \in BOOLEAN /\ r.loop.timer \in BOOLEAN /\ r.loop.inhibitCount \in Int
  BY <1>1 DEF Records, Loops, LoopType
<1>5. Inhibits(r, 0) => Inhibits(Inhibited(r), 1)
  BY <1>1, <1>3, <1>4 DEF Inhibits, Down, SwitchesKept
<1> QED
  BY <1>3, <1>5

\* Resuming it.
LEMMA UninhibitedRecord ==
  ASSUME NEW r \in Records
  PROVE  /\ SwitchesKept(r, Uninhibited(r)) /\ FramesKept(r, Uninhibited(r))
         /\ ModesetKept(r, Uninhibited(r))
         /\ Inhibits(r, 1) => Inhibits(Uninhibited(r), 0)
<1> DEFINE l == UninhibitLoop(r.loop, App)
<1>1. /\ l \in Loops /\ l.inhibitCount = r.loop.inhibitCount - 1
      /\ l.timer = TRUE => r.loop.timer = TRUE \/ r.loop.inhibitCount = 1
  BY UninhibitFact DEF Records
<1>2. Uninhibited(r) = [r EXCEPT !.loop = l]
  BY DEF Uninhibited
<1> HIDE DEF l
<1>3. /\ SwitchesKept(r, Uninhibited(r)) /\ FramesKept(r, Uninhibited(r))
      /\ ModesetKept(r, Uninhibited(r)) /\ Uninhibited(r).loop = l
  BY <1>1, <1>2, LoopExcept
<1>4. l.timer \in BOOLEAN /\ r.loop.timer \in BOOLEAN /\ r.loop.inhibitCount \in Int
  BY <1>1 DEF Records, Loops, LoopType
<1>5. Inhibits(r, 1) => Inhibits(Uninhibited(r), 0)
  BY <1>1, <1>3, <1>4 DEF Inhibits, Down, SwitchesKept
<1> QED
  BY <1>3, <1>5

-----------------------------------------------------------------------------
(* The shape of a step.                                                    *)

Shape == out \in States /\ exists \in SUBSET Outputs

\* Every step leaves the outputs fine, or updates them, or follows the
\* session.
LEMMA StepShape ==
  ASSUME Shape, Next
  PROVE  \/ FineStep
         \/ (\E s : UpdateOutputs(out, s)) /\ gpuActive' = gpuActive
         \/ DevicePaused \/ DeviceResumed
<1>1. /\ out \in States /\ exists \subseteq Outputs
      /\ \A o \in Outputs : out[o] \in Records /\ Fine(out[o], out[o])
  BY FineSame DEF Shape, States
<1>2. out' = out /\ exists' = exists /\ gpuActive' = gpuActive => FineStep
  BY <1>1 DEF FineStep
<1>3. ASSUME NEW o \in Outputs, Request(o) \/ DispatchUnheard(o) \/ PageFlip(o)
      PROVE  FineStep
  BY <1>1, <1>3, FrameFine
<1>4. ASSUME NEW o \in Outputs, NEW err,
             \/ PresentFrame(o, err) \/ PresentModeset(o, err) \/ TurnOff(o, err) \/ TurnOn(o, err)
             \/ \E repaints \in BOOLEAN : TestCommit(o, err, repaints)
      PROVE  FineStep
  BY <1>1, <1>4, FrameFine
<1>5. ASSUME NEW o \in Outputs, ApplyConfig(o) PROVE FineStep
  <2>1. o \in exists /\ out[o].enabled \in BOOLEAN
    BY <1>1, <1>5 DEF ApplyConfig, Records
  <2>2. CASE \E test \in Errors, nm \in ModesetVerdicts(out, {q \in exists : ActivePending(out[q])}) :
               ConfigRefused(o, test, nm)
    BY <1>1, <2>1, <2>2, RefusedFine
  <2>3. CASE \E enable \in IF o \in Configurable THEN BOOLEAN ELSE {out[o].enabled} :
               \E nm \in ModesetVerdicts(out, IF enable THEN Enabled(out, exists) \cup {o}
                                              ELSE Enabled(out, exists) \ {o}),
                  on \in SUBSET {q \in exists : ~out[q].dpmsOn}, err \in Results :
                 ConfigApplied(o, enable, nm, on, err)
    <3>1. PICK enable \in BOOLEAN :
            \E nm \in ModesetVerdicts(out, IF enable THEN Enabled(out, exists) \cup {o}
                                           ELSE Enabled(out, exists) \ {o}) :
              \E on, err : ConfigApplied(o, enable, nm, on, err)
      BY <2>1, <2>3
    <3> QED
      BY <1>1, <2>1, <3>1, AppliedFine
  <2> QED
    BY <1>5, <2>2, <2>3 DEF ApplyConfig
<1>6. ASSUME NEW o \in Outputs, NEW p, Hotplug(o, p) PROVE FineStep
  BY <1>2, <1>6 DEF Hotplug
<1>7. SwitchSession => FineStep
  BY <1>2 DEF SwitchSession
<1>8. UdevChange => FineStep \/ ((\E s : UpdateOutputs(out, s)) /\ gpuActive' = gpuActive)
  BY <1>2 DEF UdevChange
<1>9. RetryUpdate => (\E s : UpdateOutputs(out, s)) /\ gpuActive' = gpuActive
  BY DEF RetryUpdate, environment
<1> QED
  BY <1>3, <1>4, <1>5, <1>6, <1>7, <1>8, <1>9 DEF Next

-----------------------------------------------------------------------------
(* A dark output needs a modeset, whatever happens.                        *)

DarkInv == Shape /\ \A o \in exists : Dark(out[o])

\* An update keeps the outputs in shape, and those of new outputs too.
LEMMA UpdateShape ==
  ASSUME Shape, NEW d \in States, \E s : UpdateOutputs(d, s)
  PROVE  /\ Shape'
         /\ (\A o \in exists : Dark(d[o])) => \A o \in exists' : Dark(out'[o])
<1>1. PICK s : UpdateOutputs(d, s)
  OBVIOUS
<1>2. /\ out' \in States
      /\ exists' = (exists \ Gone(exists)) \cup Added(exists) \/ exists' = exists \ Gone(exists)
      /\ \A o \in exists' \cap exists : Fine(d[o], out'[o])
      /\ \A o \in exists' \ exists : Dark(out'[o])
  BY <1>1, UpdateFine DEF Shape
<1>3. exists' \in SUBSET Outputs
  BY <1>2 DEF Shape, Added
<1> QED
  BY <1>2, <1>3 DEF Shape, Fine

\* The outputs when the device is paused and when its resumption begins.
LEMMA SessionShape ==
  ASSUME Shape
  PROVE  /\ DevicePaused =>
              /\ Shape' /\ exists' = exists
              /\ \A o \in exists : out'[o] = Inhibited(out[o])
         /\ LET d == [o \in Outputs |-> IF o \in exists THEN Uninhibited(out[o]) ELSE out[o]]
            IN  d \in States /\ (DeviceResumed => \E s : UpdateOutputs(d, s))
<1>1. \A o \in Outputs : /\ out[o] \in Records /\ Inhibited(out[o]) \in Records
                         /\ Uninhibited(out[o]) \in Records
  BY InhibitedRecord, UninhibitedRecord DEF Shape, States, SwitchesKept
<1>2. DevicePaused => /\ exists' = exists
                      /\ out' = [o \in Outputs |-> IF o \in exists THEN Inhibited(out[o]) ELSE out[o]]
  BY DEF DevicePaused, On, Inhibited
<1> DEFINE d == [o \in Outputs |-> IF o \in exists THEN Uninhibited(out[o]) ELSE out[o]]
<1>3. DeviceResumed => UpdateOutputs(d, retry)
  BY DEF DeviceResumed, On, Uninhibited
<1>4. d \in States
  BY <1>1 DEF States
<1>5. DevicePaused => Shape' /\ \A o \in exists : out'[o] = Inhibited(out[o])
  <2> HAVE DevicePaused
  <2>1. /\ exists' = exists
        /\ out' = [o \in Outputs |-> IF o \in exists THEN Inhibited(out[o]) ELSE out[o]]
    BY <1>2
  <2>2. out' \in States
    BY <1>1, <2>1 DEF States
  <2> QED
    BY <2>1, <2>2 DEF Shape
<1> HIDE DEF d
<1> QED
  BY <1>2, <1>3, <1>4, <1>5 DEF d

\* The first frame of every output needs a modeset.
LEMMA InitRecord ==
  ASSUME Init
  PROVE  /\ Shape /\ exists = Outputs
         /\ \A o \in Outputs :
              /\ Inhibits(out[o], 0) /\ Dark(out[o]) /\ out[o].loop.pendingFrameCount = 0
              /\ out[o].flip = FALSE /\ out[o].presentPending = FALSE
              /\ out[o].dpmsOn = TRUE /\ out[o].enabled = TRUE /\ out[o].active = TRUE
              /\ out[o].needsModeset = TRUE
<1> DEFINE l == ScheduleRepaint(NewLoop, NoItem, App)
           r == [NewPipeline EXCEPT !.needsModeset = TRUE, !.nextModeset = TRUE, !.loop = l]
<1>1. l \in Loops /\ l.inhibitCount = 0 /\ l.pendingFrameCount = 0
  <2>1. LoopKept(NewLoop, l, 0)
    BY NewLoopFact, ScheduleFact
  <2> HIDE DEF l
  <2> QED
    BY <2>1, NewLoopFact DEF LoopKept
<1> HIDE DEF l
<1>2. /\ r \in Records /\ r.loop = l /\ r.dpmsOn = TRUE /\ r.active = TRUE /\ r.enabled = TRUE
      /\ r.needsModeset = TRUE /\ r.nextModeset = TRUE /\ r.flip = FALSE /\ r.presentPending = FALSE
  BY <1>1, NewPipelineFact DEF NewPipeline, Records
<1>3. out = [o \in Outputs |-> r] /\ exists = Outputs
  BY DEF Init, l
<1> HIDE DEF r
<1>4. Inhibits(r, 0) /\ Dark(r)
  BY <1>1, <1>2 DEF Inhibits, Dark, Down
<1> QED
  BY <1>1, <1>2, <1>3, <1>4 DEF Shape, States

\* Every step keeps the need of a dark output.
LEMMA StepDark ==
  ASSUME DarkInv, [Next]_vars
  PROVE  DarkInv'
<1>1. Shape /\ \A o \in exists : Dark(out[o])
  BY DEF DarkInv
<1>2. CASE Next
  <2>1. CASE FineStep
    BY <1>1, <2>1 DEF FineStep, DarkInv, Shape, Fine
  <2>2. CASE \E s : UpdateOutputs(out, s)
    BY <1>1, <2>2, UpdateShape DEF DarkInv, Shape
  <2>3. CASE DevicePaused
    <3>1. Shape' /\ exists' = exists /\ \A o \in exists : out'[o] = Inhibited(out[o])
      BY <1>1, <2>3, SessionShape
    <3>2. \A o \in exists : Dark(Inhibited(out[o]))
      BY <1>1, InhibitedRecord DEF Dark, SwitchesKept, ModesetKept, Shape, States
    <3> QED
      BY <3>1, <3>2 DEF DarkInv
  <2>4. CASE DeviceResumed
    <3> DEFINE d == [o \in Outputs |-> IF o \in exists THEN Uninhibited(out[o]) ELSE out[o]]
    <3>1. d \in States /\ \E s : UpdateOutputs(d, s)
      BY <1>1, <2>4, SessionShape
    <3>2. \A o \in exists : Dark(Uninhibited(out[o])) /\ d[o] = Uninhibited(out[o])
      BY <1>1, UninhibitedRecord DEF Dark, SwitchesKept, ModesetKept, Shape, States
    <3> HIDE DEF d
    <3> QED
      BY <1>1, <3>1, <3>2, UpdateShape DEF DarkInv
  <2> QED
    BY <1>1, <1>2, <2>1, <2>2, <2>3, <2>4, StepShape
<1>3. CASE UNCHANGED vars
  BY <1>1, <1>3 DEF vars, DarkInv, Shape
<1> QED
  BY <1>2, <1>3

\* An output that should show something and that the kernel does not drive
\* has its modeset pending, for any outputs, hotplug, DPMS, configuration
\* and session changes: the frame it presents next is not a mere page flip.
THEOREM DarkOutputsNeedModeset == Spec => []DarkNeedsModeset
<1>1. Init => DarkInv
  BY InitRecord DEF DarkInv
<1>2. DarkInv /\ [Next]_vars => DarkInv'
  BY StepDark
<1>3. DarkInv => DarkNeedsModeset
  <2> SUFFICES ASSUME DarkInv, NEW o \in exists, ActivePending(out[o]), ~out[o].lit
               PROVE  NeedsModeset(out, exists)
    BY DEF DarkNeedsModeset
  <2>1. out[o] \in Records /\ Dark(out[o])
    BY DEF DarkInv, Shape, States
  <2>2. out[o].needsModeset = TRUE
    BY <2>1 DEF Dark, ActivePending, Records
  <2> QED
    BY <2>2 DEF NeedsModeset
<1> QED
  BY <1>1, <1>2, <1>3, PTL DEF Spec

-----------------------------------------------------------------------------
(* The inhibitions.                                                        *)

\* The signals s under way alternate; the first will change g, what KWin
\* thinks of the device, and the last tells m, what the kernel thinks of it.
Chain(s, g, m) ==
  /\ s \in Seq({"pause", "resume"})
  /\ \A i \in 1..Len(s) : i # Len(s) => s[i] # s[i + 1]
  /\ Len(s) = 0 => m = g
  /\ Len(s) > 0 => (s[1] = "pause" <=> g = TRUE) /\ (s[Len(s)] = "pause" <=> m = FALSE)

SignalInv == Chain(signals, gpuActive, master)

\* Connectors are constant without hotplug, and so is the device without a
\* switch of the session.
EnvInv ==
  /\ gpuActive \in BOOLEAN /\ master \in BOOLEAN /\ SignalInv
  /\ Hotpluggable = {} => exists = Outputs /\ \A o \in Outputs : port[o] = "connected"
  /\ SessionPauses = FALSE => gpuActive = TRUE /\ master = TRUE /\ signals = <<>>

\* An update without hotplug.
LEMMA UpdateSame ==
  ASSUME Shape, EnvInv, Hotpluggable = {}, NEW d \in States, \E s : UpdateOutputs(d, s)
  PROVE  exists' = exists
<1>1. Gone(exists) = {} /\ Added(exists) = {}
  BY DEF EnvInv, Gone, Added, Shape
<1> QED
  BY <1>1, UpdateFine DEF Shape

\* A signal is received.
LEMMA SignalReceived ==
  ASSUME NEW s, NEW g \in BOOLEAN, NEW m \in BOOLEAN, Chain(s, g, m), s # <<>>
  PROVE  /\ Chain(Tail(s), Head(s) = "resume", m)
         /\ Head(s) = "resume" => g = FALSE
         /\ Head(s) = "pause" => g = TRUE
<1> DEFINE t == Tail(s)
           h == Head(s) = "resume"
<1>1. s \in Seq({"pause", "resume"}) /\ (\A i \in 1..Len(s) : i # Len(s) => s[i] # s[i + 1])
  BY DEF Chain
<1>2. Len(s) \in Nat /\ Len(s) > 0 /\ s[1] \in {"pause", "resume"}
  BY <1>1, EmptySeq, LenProperties
<1>3. /\ t \in Seq({"pause", "resume"}) /\ Len(t) = Len(s) - 1
      /\ \A i \in 1..Len(t) : t[i] = s[i + 1]
  BY <1>1, HeadTailProperties
<1>4. h \in BOOLEAN /\ (h = TRUE <=> s[1] = "resume") /\ Head(s) = s[1]
  BY <1>1, HeadTailProperties
<1>5. (s[1] = "pause" <=> g = TRUE) /\ (s[Len(s)] = "pause" <=> m = FALSE)
  BY <1>2 DEF Chain
<1> HIDE DEF t, h
<1>6. \A i \in 1..Len(t) : i # Len(t) => t[i] # t[i + 1]
  <2> SUFFICES ASSUME NEW i \in 1..Len(t), i # Len(t)
               PROVE  t[i] # t[i + 1]
    OBVIOUS
  <2>1. i + 1 \in 1..Len(t) /\ i + 1 \in 1..Len(s) /\ i + 1 # Len(s) /\ i \in Int
    BY <1>2, <1>3
  <2> QED
    BY <1>1, <1>3, <2>1
<1>7. Len(t) = 0 => m = h
  <2>1. Len(t) = 0 => Len(s) = 1
    BY <1>2, <1>3
  <2>2. Len(t) = 0 => (m = FALSE <=> h = FALSE)
    BY <1>2, <1>4, <1>5, <2>1
  <2> QED
    BY <1>4, <2>2
<1>8. Len(t) > 0 => (t[1] = "pause" <=> h = TRUE) /\ (t[Len(t)] = "pause" <=> m = FALSE)
  <2> SUFFICES ASSUME Len(t) > 0
               PROVE  (t[1] = "pause" <=> h = TRUE) /\ (t[Len(t)] = "pause" <=> m = FALSE)
    OBVIOUS
  <2>1. Len(s) > 1 /\ Len(t) \in Nat
    BY <1>2, <1>3
  <2>2. t[1] = s[2] /\ t[Len(t)] = s[Len(s)]
    BY <1>2, <1>3, <2>1
  <2>3. s[2] \in {"pause", "resume"} /\ s[1] # s[2]
    BY <1>1, <1>2, <2>1
  <2> QED
    BY <1>2, <1>4, <1>5, <2>2, <2>3
<1>9. Chain(t, h, m)
  BY <1>3, <1>6, <1>7, <1>8 DEF Chain
<1> QED
  BY <1>2, <1>4, <1>5, <1>9 DEF t, h

\* The session is switched.
LEMMA SignalSent ==
  ASSUME NEW s, NEW g \in BOOLEAN, NEW m \in BOOLEAN, Chain(s, g, m)
  PROVE  Chain(Append(s, IF m THEN "pause" ELSE "resume"), g, ~m)
<1> DEFINE x == IF m THEN "pause" ELSE "resume"
           t == Append(s, x)
<1>1. s \in Seq({"pause", "resume"}) /\ (\A i \in 1..Len(s) : i # Len(s) => s[i] # s[i + 1])
  BY DEF Chain
<1>2. x \in {"pause", "resume"} /\ (x = "pause" <=> (~m) = FALSE)
  OBVIOUS
<1>3. Len(s) \in Nat
  BY <1>1, LenProperties
<1>4. Len(s) > 0 => s[Len(s)] # x
  BY <1>1, <1>3 DEF Chain
<1>5. Len(s) = 0 => (x = "pause" <=> g = TRUE)
  BY <1>1 DEF Chain
<1> HIDE DEF x
<1>6. /\ t \in Seq({"pause", "resume"}) /\ Len(t) = Len(s) + 1
      /\ \A i \in 1..Len(s) : t[i] = s[i]
      /\ t[Len(s) + 1] = x
  BY <1>1, <1>2, AppendProperties
<1> HIDE DEF t
<1>7. \A i \in 1..Len(t) : i # Len(t) => t[i] # t[i + 1]
  <2> SUFFICES ASSUME NEW i \in 1..Len(t), i # Len(t)
               PROVE  t[i] # t[i + 1]
    OBVIOUS
  <2>1. i \in 1..Len(s) /\ i \in Int
    BY <1>3, <1>6
  <2>2. CASE i = Len(s)
    BY <1>3, <1>4, <1>6, <2>1, <2>2
  <2>3. CASE i # Len(s)
    <3>1. i + 1 \in 1..Len(s)
      BY <1>3, <2>1, <2>3
    <3> QED
      BY <1>1, <1>6, <2>1, <2>3, <3>1
  <2> QED
    BY <2>2, <2>3
<1>8. t[1] = "pause" <=> g = TRUE
  <2>1. CASE Len(s) = 0
    BY <1>5, <1>6, <2>1
  <2>2. CASE Len(s) # 0
    <3>1. Len(s) > 0 /\ 1 \in 1..Len(s)
      BY <1>3, <2>2
    <3> QED
      BY <1>6, <3>1 DEF Chain
  <2> QED
    BY <2>1, <2>2
<1>9. Chain(t, g, ~m)
  BY <1>2, <1>3, <1>6, <1>7, <1>8 DEF Chain
<1> QED
  BY <1>9 DEF t, x

\* Every step keeps the environment's part.
LEMMA StepEnv ==
  ASSUME Shape, EnvInv, [Next]_vars
  PROVE  EnvInv'
<1> DEFINE Same == UNCHANGED <<gpuActive, master, signals>>
<1>1. ASSUME Same, port' = port, exists' = exists PROVE EnvInv'
  BY <1>1 DEF EnvInv, SignalInv
<1>2. ASSUME Same, port' = port, \E s : UpdateOutputs(out, s) PROVE EnvInv'
  <2>1. Hotpluggable = {} => exists' = exists
    BY <1>2, UpdateSame DEF Shape
  <2> QED
    BY <1>2, <2>1 DEF EnvInv, SignalInv
<1>3. ASSUME NEW o \in Outputs, NEW p, Hotplug(o, p) PROVE EnvInv'
  BY <1>3 DEF Hotplug, EnvInv, SignalInv
<1>4. ASSUME SwitchSession PROVE EnvInv'
  <2>1. SessionPauses # FALSE /\ gpuActive' = gpuActive /\ port' = port /\ exists' = exists
        /\ master' = ~master /\ signals' = Append(signals, IF master THEN "pause" ELSE "resume")
    BY <1>4 DEF SwitchSession
  <2>2. Chain(Append(signals, IF master THEN "pause" ELSE "resume"), gpuActive, ~master)
    BY SignalSent DEF EnvInv, SignalInv
  <2>3. SignalInv' /\ master' \in BOOLEAN
    BY <2>1, <2>2 DEF SignalInv, EnvInv
  <2> QED
    BY <2>1, <2>3 DEF EnvInv
<1>5. ASSUME DevicePaused \/ DeviceResumed PROVE EnvInv'
  <2>1. signals # <<>> /\ signals' = Tail(signals) /\ master' = master /\ port' = port
        /\ gpuActive' = (Head(signals) = "resume")
    BY <1>5 DEF DevicePaused, DeviceResumed
  <2>2. SessionPauses # FALSE /\ gpuActive \in BOOLEAN /\ master \in BOOLEAN
    BY <2>1 DEF EnvInv
  <2>3. Hotpluggable = {} => exists' = exists
    BY <1>5, SessionShape, UpdateSame
  <2>4. Chain(Tail(signals), Head(signals) = "resume", master)
    BY <2>1, <2>2, SignalReceived DEF EnvInv, SignalInv
  <2>5. SignalInv' /\ gpuActive' \in BOOLEAN
    BY <2>1, <2>4 DEF SignalInv
  <2> QED
    BY <2>1, <2>2, <2>3, <2>5 DEF EnvInv
<1>6. CASE UNCHANGED vars
  BY <1>1, <1>6 DEF vars
<1>7. ASSUME NEW o \in Outputs, NEW err,
             \/ Request(o) \/ DispatchUnheard(o) \/ PageFlip(o) \/ ApplyConfig(o)
             \/ PresentFrame(o, err) \/ PresentModeset(o, err) \/ TurnOff(o, err) \/ TurnOn(o, err)
             \/ \E repaints \in BOOLEAN : TestCommit(o, err, repaints)
      PROVE  Same /\ port' = port /\ exists' = exists
  <2>1. CASE Request(o) \/ DispatchUnheard(o) \/ PageFlip(o) \/ TurnOff(o, err) \/ TurnOn(o, err)
    BY <2>1 DEF Request, DispatchUnheard, PageFlip, TurnOff, TurnOn, environment
  <2>2. CASE ApplyConfig(o)
    <3>1. \/ \E test, nm : ConfigRefused(o, test, nm)
          \/ \E enable, nm, on, e : ConfigApplied(o, enable, nm, on, e)
      BY <2>2 DEF ApplyConfig
    <3>2. \A test, nm : ConfigRefused(o, test, nm) => UNCHANGED <<exists, retry, environment>>
      BY DEF ConfigRefused
    <3>3. \A enable, nm, on, e :
            ConfigApplied(o, enable, nm, on, e) => UNCHANGED <<exists, environment>>
      BY DEF ConfigApplied
    <3> QED
      BY <3>1, <3>2, <3>3 DEF environment
  <2>3. CASE PresentFrame(o, err) \/ PresentModeset(o, err)
    BY <2>3 DEF PresentFrame, PresentModeset, environment
  <2>4. CASE \E repaints \in BOOLEAN : TestCommit(o, err, repaints)
    BY <2>4 DEF TestCommit, environment
  <2> QED
    BY <1>7, <2>1, <2>2, <2>3, <2>4
<1>8. UdevChange \/ RetryUpdate => Same /\ port' = port /\ (exists' = exists \/ \E s : UpdateOutputs(out, s))
  BY DEF UdevChange, RetryUpdate, environment
<1> HIDE DEF Same
<1> QED
  BY <1>1, <1>2, <1>3, <1>4, <1>5, <1>6, <1>7, <1>8 DEF Next

\* Unless outputs come while the device is paused, which the code does not
\* expect: a new output is not inhibited then.
NoneComesPaused == Hotpluggable = {} \/ SessionPauses = FALSE

Paused == IF gpuActive = TRUE THEN 0 ELSE 1

InhibitInv == Shape /\ EnvInv /\ \A o \in exists : Inhibits(out[o], Paused)

\* No output comes while the device is paused.
LEMMA NoneComes ==
  ASSUME NoneComesPaused, Shape, EnvInv, NEW d \in States, \E s : UpdateOutputs(d, s)
  PROVE  exists' \subseteq exists \/ SessionPauses = FALSE
BY UpdateSame DEF NoneComesPaused

\* An update keeps the inhibitions.
LEMMA UpdateInhibits ==
  ASSUME NoneComesPaused, Shape, EnvInv, NEW d \in States, \E s : UpdateOutputs(d, s),
         NEW p \in {0, 1}, \A o \in exists : Inhibits(d[o], p), SessionPauses = FALSE => p = 0
  PROVE  \A o \in exists' : Inhibits(out'[o], p)
<1>1. PICK s : UpdateOutputs(d, s)
  OBVIOUS
<1>2. /\ \A o \in exists' \cap exists : Fine(d[o], out'[o])
      /\ \A o \in exists' \ exists : Inhibits(out'[o], 0)
  BY <1>1, UpdateFine DEF Shape
<1>3. \A o \in exists' \cap exists : Inhibits(out'[o], p)
  BY <1>2 DEF Fine
<1> QED
  BY <1>2, <1>3, NoneComes

\* Every step keeps them.
LEMMA StepInhibits ==
  ASSUME NoneComesPaused, InhibitInv, [Next]_vars
  PROVE  InhibitInv'
<1>1. Shape /\ EnvInv /\ \A o \in exists : Inhibits(out[o], Paused)
  BY DEF InhibitInv
<1>2. EnvInv'
  BY <1>1, StepEnv
<1>3. Paused \in {0, 1} /\ (SessionPauses = FALSE => Paused = 0)
  BY <1>1 DEF Paused, EnvInv
<1>4. CASE Next
  <2>1. CASE FineStep
    <3>1. Paused' = Paused /\ Shape'
      BY <1>1, <2>1 DEF FineStep, Paused, Shape
    <3>2. \A o \in exists' : Inhibits(out'[o], Paused)
      BY <1>1, <1>3, <2>1 DEF FineStep, Fine
    <3> QED
      BY <1>2, <3>1, <3>2 DEF InhibitInv
  <2>2. CASE (\E s : UpdateOutputs(out, s)) /\ gpuActive' = gpuActive
    <3>1. Paused' = Paused /\ Shape'
      BY <1>1, <2>2, UpdateShape DEF Paused, Shape
    <3>2. \A o \in exists' : Inhibits(out'[o], Paused)
      BY <1>1, <1>3, <2>2, UpdateInhibits DEF Shape
    <3> QED
      BY <1>2, <3>1, <3>2 DEF InhibitInv
  <2>3. CASE DevicePaused
    <3>1. Shape' /\ exists' = exists /\ \A o \in exists : out'[o] = Inhibited(out[o])
      BY <1>1, <2>3, SessionShape
    <3>2. signals # <<>> /\ Head(signals) = "pause" /\ gpuActive' = FALSE
      BY <2>3 DEF DevicePaused
    <3>3. gpuActive = TRUE
      BY <1>1, <3>2, SignalReceived DEF EnvInv, SignalInv
    <3>4. Paused = 0 /\ Paused' = 1
      BY <3>2, <3>3 DEF Paused
    <3>5. \A o \in exists : Inhibits(Inhibited(out[o]), 1)
      BY <1>1, <3>4, InhibitedRecord DEF Shape, States
    <3> QED
      BY <1>2, <3>1, <3>4, <3>5 DEF InhibitInv
  <2>4. CASE DeviceResumed
    <3> DEFINE d == [o \in Outputs |-> IF o \in exists THEN Uninhibited(out[o]) ELSE out[o]]
    <3>1. d \in States /\ \E s : UpdateOutputs(d, s)
      BY <1>1, <2>4, SessionShape
    <3>2. signals # <<>> /\ Head(signals) = "resume" /\ gpuActive' = TRUE
      BY <2>4 DEF DeviceResumed
    <3>3. gpuActive = FALSE
      BY <1>1, <3>2, SignalReceived DEF EnvInv, SignalInv
    <3>4. Paused = 1 /\ Paused' = 0
      BY <3>2, <3>3 DEF Paused
    <3>5. \A o \in exists : Inhibits(Uninhibited(out[o]), 0) /\ d[o] = Uninhibited(out[o])
      BY <1>1, <3>4, UninhibitedRecord DEF Shape, States
    <3> HIDE DEF d
    <3>6. \A o \in exists' : Inhibits(out'[o], 0)
      BY <1>1, <3>1, <3>5, UpdateInhibits
    <3>7. Shape'
      BY <1>1, <3>1, UpdateShape
    <3> QED
      BY <1>2, <3>4, <3>6, <3>7 DEF InhibitInv
  <2> QED
    BY <1>1, <1>4, <2>1, <2>2, <2>3, <2>4, StepShape
<1>5. CASE UNCHANGED vars
  BY <1>1, <1>2, <1>5 DEF vars, InhibitInv, Shape, Paused
<1> QED
  BY <1>4, <1>5

\* It holds at the start.
LEMMA InitInhibits ==
  ASSUME Init
  PROVE  InhibitInv
<1>1. gpuActive = TRUE /\ master = TRUE /\ signals = <<>> /\ \A o \in Outputs : port[o] = "connected"
  BY DEF Init
<1>2. signals \in Seq({"pause", "resume"}) /\ Len(signals) = 0
  BY <1>1
<1>3. SignalInv
  BY <1>1, <1>2 DEF SignalInv, Chain
<1>4. EnvInv /\ Paused = 0
  BY <1>1, <1>3, InitRecord DEF EnvInv, Paused
<1> QED
  BY <1>4, InitRecord DEF InhibitInv

\* Every inhibit() of a loop has its uninhibit(): the DPMS state and the
\* paused session each hold one, for any outputs, across failed commits,
\* reverted configurations and updates that race the session's signals, or
\* with hotplug in a session that stays in front.
THEOREM InhibitsOnce ==
  ASSUME NoneComesPaused
  PROVE  Spec => []InhibitsAccounted
<1>1. Init => InhibitInv
  BY InitInhibits
<1>2. InhibitInv /\ [Next]_vars => InhibitInv'
  BY StepInhibits
<1>3. InhibitInv => InhibitsAccounted
  <2> SUFFICES ASSUME InhibitInv, NEW o \in exists
               PROVE  out[o].loop.inhibitCount = One(~out[o].dpmsOn) + One(~gpuActive)
    BY DEF InhibitsAccounted
  <2>1. out[o] \in Records /\ gpuActive \in BOOLEAN /\ Inhibits(out[o], Paused)
    BY DEF InhibitInv, EnvInv, Shape, States
  <2>2. out[o].dpmsOn \in BOOLEAN
    BY <2>1 DEF Records
  <2>3. One(~out[o].dpmsOn) = Down(out[o]) /\ One(~gpuActive) = Paused
    BY <2>1, <2>2 DEF One, Down, Paused
  <2> QED
    BY <2>1, <2>3 DEF Inhibits
<1> QED
  BY <1>1, <1>2, <1>3, PTL DEF Spec

\* An output that is off, or a session that is not in front, has no timer
\* running, so that it starts no frame.
THEOREM NoFrameWhenOff ==
  ASSUME NoneComesPaused
  PROVE  Spec => []RestsWhenOff
<1>1. Init => InhibitInv
  BY InitInhibits
<1>2. InhibitInv /\ [Next]_vars => InhibitInv'
  BY StepInhibits
<1>3. InhibitInv => RestsWhenOff
  <2> SUFFICES ASSUME InhibitInv, NEW o \in exists, out[o].loop.timer
               PROVE  gpuActive /\ out[o].dpmsOn /\ (out[o].enabled => out[o].active)
    BY DEF RestsWhenOff
  <2>1. out[o] \in Records /\ gpuActive \in BOOLEAN /\ Inhibits(out[o], Paused)
    BY DEF InhibitInv, EnvInv, Shape, States
  <2>2. out[o].dpmsOn \in BOOLEAN /\ out[o].loop.timer = TRUE
    BY <2>1 DEF Records, Loops, LoopType
  <2>3. Down(out[o]) \in {0, 1} /\ Paused \in {0, 1} /\ Down(out[o]) + Paused = 0
    BY <2>1, <2>2 DEF Inhibits, Down, Paused
  <2>4. Down(out[o]) = 0 /\ Paused = 0
    BY <2>3
  <2>5. gpuActive = TRUE /\ out[o].dpmsOn = TRUE
    BY <2>1, <2>2, <2>4 DEF Down, Paused
  <2> QED
    BY <2>1, <2>5 DEF Inhibits
<1> QED
  BY <1>1, <1>2, <1>3, PTL DEF Spec

-----------------------------------------------------------------------------
(* The frames.                                                             *)

\* A frame the loop counts is with the kernel or held back, and there is one
\* at most; the timer is not started before it is answered, nor is the
\* output switched off.
Counted(r) ==
  /\ r.loop.pendingFrameCount = (IF r.flip = TRUE THEN 1 ELSE 0) + (IF r.presentPending = TRUE THEN 1 ELSE 0)
  /\ r.flip = FALSE \/ r.presentPending = FALSE
  /\ r.loop.timer = TRUE => r.loop.pendingFrameCount = 0
  /\ r.dpmsOn = FALSE => r.loop.pendingFrameCount = 0

SwitchedOn(r) == r.dpmsOn = TRUE /\ r.enabled = TRUE /\ r.active = TRUE

\* q has a frame held back if r has, and is not switched off.
Held(r, q) ==
  /\ q \in Records /\ q.presentPending = r.presentPending
  /\ SwitchedOn(r) => SwitchedOn(q)

\* A repaint, and whatever else leaves the frames alone.
LEMMA CountedKept ==
  ASSUME NEW r \in Records, NEW q \in Records, Counted(r), FramesKept(r, q), q.dpmsOn = r.dpmsOn,
         q.loop.pendingFrameCount = r.loop.pendingFrameCount,
         q.loop.timer = TRUE => r.loop.timer = TRUE \/ r.loop.pendingFrameCount = 0
  PROVE  Counted(q)
BY DEF Counted, FramesKept

\* The same for a loop that is left alone.
LEMMA CountedSame ==
  ASSUME NEW r \in Records, NEW q \in Records, Counted(r), FramesKept(r, q), q.dpmsOn = r.dpmsOn,
         q.loop = r.loop
  PROVE  Counted(q)
BY DEF Counted, FramesKept

\* A repaint counts nothing.
LEMMA CountedRepaint ==
  ASSUME NEW r \in Records
  PROVE  Held(r, Repainted(r)) /\ (Counted(r) => Counted(Repainted(r)))
<1> DEFINE q == Repainted(r)
<1>1. /\ SwitchesKept(r, q) /\ FramesKept(r, q) /\ LoopKept(r.loop, q.loop, 0)
      /\ q.loop.timer = TRUE =>
           r.loop.timer = TRUE \/ (r.loop.inhibitCount = 0 /\ r.loop.pendingFrameCount = 0)
  BY RepaintedRecord
<1>2. r.loop.pendingFrameCount \in Int
  BY DEF Records, Loops, LoopType
<1> HIDE DEF q
<1>3. /\ q \in Records /\ q.dpmsOn = r.dpmsOn
      /\ q.loop.pendingFrameCount = r.loop.pendingFrameCount
      /\ q.loop.timer = TRUE => r.loop.timer = TRUE \/ r.loop.pendingFrameCount = 0
  BY <1>1, <1>2 DEF SwitchesKept, LoopKept
<1>4. Counted(r) => Counted(q)
  BY <1>1, <1>3, CountedKept
<1>5. Held(r, q)
  BY <1>1 DEF Held, SwitchesKept, FramesKept, SwitchedOn
<1> QED
  BY <1>4, <1>5 DEF q

\* A page flip answers the frame that is with the kernel.
LEMMA CountedFlip ==
  ASSUME NEW r \in Records
  PROVE  Held(r, Flipped(r)) /\ (Counted(r) /\ r.flip = TRUE => Counted(Flipped(r)))
<1> DEFINE q == Flipped(r)
<1>1. /\ SwitchesKept(r, q) /\ q.flip = FALSE /\ q.presentPending = r.presentPending
      /\ LoopKept(r.loop, q.loop, -1)
  BY FlippedRecord
<1> HIDE DEF q
<1>2. Held(r, q)
  BY <1>1 DEF Held, SwitchesKept, SwitchedOn
<1>3. ASSUME Counted(r), r.flip = TRUE PROVE Counted(q)
  <2>1. r.presentPending = FALSE /\ r.loop.pendingFrameCount = 1
    BY <1>3 DEF Counted
  <2>2. q.loop.pendingFrameCount = 0
    BY <1>1, <2>1 DEF LoopKept
  <2> QED
    BY <1>1, <2>1, <2>2 DEF Counted
<1> QED
  BY <1>2, <1>3 DEF q

\* The copies of needsModeset are of no concern.
LEMMA CountedCopied ==
  ASSUME NEW r \in Records
  PROVE  /\ Held(r, Apply(r)) /\ (Counted(r) => Counted(Apply(r)))
         /\ Held(r, Revert(r)) /\ (Counted(r) => Counted(Revert(r)))
<1>1. /\ SwitchesKept(r, Apply(r)) /\ FramesKept(r, Apply(r)) /\ Apply(r).loop = r.loop
      /\ SwitchesKept(r, Revert(r)) /\ FramesKept(r, Revert(r)) /\ Revert(r).loop = r.loop
  BY CopiedRecord
<1>2. Held(r, Apply(r)) /\ Held(r, Revert(r))
  BY <1>1 DEF Held, SwitchesKept, FramesKept, SwitchedOn
<1>3. Counted(r) => Counted(Apply(r)) /\ Counted(Revert(r))
  BY <1>1, CountedSame DEF SwitchesKept
<1> QED
  BY <1>2, <1>3

\* What follows the start of a frame: it goes to the kernel, is refused, or
\* is held back.
LEMMA CountedBegun ==
  ASSUME NEW r \in Records
  PROVE  /\ Held(r, [Begun(r) EXCEPT !.flip = TRUE]) /\ Held(r, Answered(Begun(r)))
         /\ Counted(r) /\ r.loop.timer = TRUE /\ r.dpmsOn = TRUE =>
              /\ Counted([Begun(r) EXCEPT !.flip = TRUE]) /\ Counted(Answered(Begun(r)))
              /\ Counted([Begun(r) EXCEPT !.presentPending = TRUE])
<1> DEFINE b == Begun(r)
           a == Answered(b)
           f == [b EXCEPT !.flip = TRUE]
           h == [b EXCEPT !.presentPending = TRUE]
<1>1. /\ SwitchesKept(r, b) /\ FramesKept(r, b) /\ LoopKept(r.loop, b.loop, 1)
      /\ b.loop.timer = FALSE /\ b \in Records
  BY BegunRecord DEF SwitchesKept
<1>2. SwitchesKept(b, a) /\ FramesKept(b, a) /\ LoopKept(b.loop, a.loop, -1) /\ a \in Records
  BY <1>1, AnsweredRecord DEF SwitchesKept
<1>3. /\ f \in Records /\ f.flip = TRUE /\ f.presentPending = b.presentPending /\ f.loop = b.loop
      /\ f.dpmsOn = b.dpmsOn /\ f.enabled = b.enabled /\ f.active = b.active
      /\ h \in Records /\ h.flip = b.flip /\ h.presentPending = TRUE /\ h.loop = b.loop
      /\ h.dpmsOn = b.dpmsOn
  BY <1>1 DEF Records
<1> HIDE DEF b, a, f, h
<1>4. Held(r, f) /\ Held(r, a)
  BY <1>1, <1>2, <1>3 DEF Held, SwitchesKept, FramesKept, SwitchedOn
<1>5. ASSUME Counted(r), r.loop.timer = TRUE, r.dpmsOn = TRUE
      PROVE  Counted(f) /\ Counted(a) /\ Counted(h)
  <2>1. r.flip \in BOOLEAN /\ r.presentPending \in BOOLEAN
    BY DEF Records
  <2>2. r.flip = FALSE /\ r.presentPending = FALSE /\ r.loop.pendingFrameCount = 0
    BY <1>5, <2>1 DEF Counted
  <2>3. /\ b.flip = FALSE /\ b.presentPending = FALSE /\ b.loop.pendingFrameCount = 1
        /\ b.dpmsOn = TRUE
    BY <1>1, <1>5, <2>2 DEF LoopKept, FramesKept, SwitchesKept
  <2>4. /\ a.flip = FALSE /\ a.presentPending = FALSE /\ a.loop.pendingFrameCount = 0
        /\ a.dpmsOn = TRUE
    BY <1>2, <2>3 DEF LoopKept, FramesKept, SwitchesKept
  <2> QED
    BY <1>1, <1>3, <2>3, <2>4 DEF Counted
<1> QED
  BY <1>4, <1>5 DEF b, a, f, h

\* waitIdle() answers what is with the kernel.
LEMMA CountedIdle ==
  ASSUME NEW d \in States, NEW E \in SUBSET Outputs
  PROVE  /\ WaitIdle(d, E) \in States
         /\ \A o \in Outputs : Held(d[o], WaitIdle(d, E)[o]) /\ SwitchesKept(d[o], WaitIdle(d, E)[o])
         /\ \A o \in Outputs : NoNewFrames(d[o], WaitIdle(d, E)[o])
         /\ \A o \in E : /\ Counted(d[o]) => Counted(WaitIdle(d, E)[o])
                         /\ WaitIdle(d, E)[o].flip = FALSE
<1> DEFINE idle == WaitIdle(d, E)
<1>1. idle \in States /\ \A o \in Outputs : idle[o] = IF o \in E /\ d[o].flip THEN Flipped(d[o]) ELSE d[o]
  BY WaitIdleFine
<1>2. \A o \in Outputs : d[o] \in Records /\ d[o].flip \in BOOLEAN
  BY DEF States, Records
<1> HIDE DEF idle
<1>3. ASSUME NEW o \in Outputs
      PROVE  Held(d[o], idle[o]) /\ SwitchesKept(d[o], idle[o]) /\ NoNewFrames(d[o], idle[o])
  <2>1. Held(d[o], Flipped(d[o])) /\ SwitchesKept(d[o], Flipped(d[o])) /\ NoNewFrames(d[o], Flipped(d[o]))
    BY <1>2, CountedFlip, FlippedRecord DEF NoNewFrames
  <2>2. Held(d[o], d[o]) /\ SwitchesKept(d[o], d[o]) /\ NoNewFrames(d[o], d[o])
    BY <1>2 DEF Held, SwitchesKept, NoNewFrames
  <2> QED
    BY <1>1, <2>1, <2>2
<1>4. ASSUME NEW o \in E PROVE (Counted(d[o]) => Counted(idle[o])) /\ idle[o].flip = FALSE
  BY <1>1, <1>2, CountedFlip, FlippedRecord
<1> QED
  BY <1>1, <1>3, <1>4 DEF idle

\* maybeModeset() returns at once if some output is not ready.
LEMMA ModesetHeldBack ==
  ASSUME NEW d, NEW E, NEW err, ~PresentPendingForAll(d, E)
  PROVE  MaybeModeset(d, E, err) = d
BY DEF MaybeModeset

\* q is r without a frame that is held back.
NothingHeld(r, q) ==
  /\ q.presentPending = FALSE
  /\ q.dpmsOn = r.dpmsOn /\ q.enabled = r.enabled /\ q.active = r.active

\* When every output is ready, maybeModeset() answers each frame that is held
\* back.
LEMMA ModesetAll ==
  ASSUME NEW d \in States, NEW E \in SUBSET Outputs, NEW err, PresentPendingForAll(d, E)
  PROVE  /\ \A o \in E : NothingHeld(d[o], MaybeModeset(d, E, err)[o])
         /\ \A o \in E :
              Counted(d[o]) /\ (d[o].presentPending = TRUE => ActivePending(d[o])) =>
                Counted(MaybeModeset(d, E, err)[o])
         /\ \A o \in Outputs \ E : /\ MaybeModeset(d, E, err)[o].flip = d[o].flip
                                   /\ MaybeModeset(d, E, err)[o].presentPending = d[o].presentPending
<1> DEFINE idle == WaitIdle(d, E)
           Reset(r) == [r EXCEPT !.presentPending = FALSE]
           Unlit(r) == [r EXCEPT !.lit = FALSE]
           ResetFailed(r) == IF r.presentPending THEN Reset(Answered(r)) ELSE r
           m == MaybeModeset(d, E, err)
<1>0a. m \in States /\ \A o \in Outputs : d[o] \in Records /\ d[o].presentPending \in BOOLEAN
  BY MaybeModesetFine DEF States, Records
<1>0b. m = IF err = "None"
           THEN [o \in Outputs |-> IF o \in E THEN Reset(ModesetDone(idle[o])) ELSE Unlit(idle[o])]
           ELSE [o \in Outputs |-> IF o \in E THEN ResetFailed(idle[o]) ELSE idle[o]]
  BY DEF MaybeModeset, On
<1>1. /\ idle \in States
      /\ \A o \in Outputs : Held(d[o], idle[o]) /\ SwitchesKept(d[o], idle[o]) /\ idle[o] \in Records
      /\ \A o \in E : (Counted(d[o]) => Counted(idle[o])) /\ idle[o].flip = FALSE
      /\ \A o \in Outputs \ E : idle[o] = d[o]
  BY CountedIdle, WaitIdleFine DEF States
<1> HIDE DEF idle
<1>2. ASSUME NEW o \in E
      PROVE  /\ NothingHeld(d[o], m[o])
             /\ Counted(d[o]) /\ (d[o].presentPending = TRUE => ActivePending(d[o])) => Counted(m[o])
  <2> DEFINE r == idle[o]
             a == Answered(r)
             t == ModesetDone(r)
  <2>1. /\ r \in Records /\ r.presentPending = d[o].presentPending /\ r.flip = FALSE
        /\ r.dpmsOn = d[o].dpmsOn /\ r.enabled = d[o].enabled /\ r.active = d[o].active
        /\ (Counted(d[o]) => Counted(r))
    BY <1>1 DEF Held, SwitchesKept
  <2>2. r.presentPending \in BOOLEAN /\ r.enabled \in BOOLEAN /\ r.active \in BOOLEAN
    BY <2>1 DEF Records
  <2>3. ActivePending(r) <=> ActivePending(d[o])
    BY <2>1 DEF ActivePending
  <2>4. r.presentPending = TRUE \/ ~ActivePending(r)
    BY <2>1, <2>2, <2>3 DEF PresentPendingForAll
  <2>5. CASE err = "None"
    <3>1. m[o] = Reset(t)
      BY <1>0b, <2>5
    <3>2. /\ t \in Records /\ t.dpmsOn = r.dpmsOn /\ t.enabled = r.enabled /\ t.active = r.active
          /\ t.presentPending = r.presentPending
          /\ ActivePending(r) => t.flip = FALSE /\ LoopKept(r.loop, t.loop, -1)
          /\ ~ActivePending(r) => t.flip = r.flip /\ t.loop = r.loop
      BY <2>1, ModesetRecord
    <3> HIDE DEF t
    <3>3. /\ m[o].presentPending = FALSE /\ m[o].dpmsOn = t.dpmsOn /\ m[o].enabled = t.enabled
          /\ m[o].active = t.active /\ m[o].flip = t.flip /\ m[o].loop = t.loop
      BY <3>1, <3>2 DEF Records
    <3>4. ASSUME Counted(d[o]), d[o].presentPending = TRUE => ActivePending(d[o])
          PROVE  Counted(m[o])
      <4>1. Counted(r)
        BY <2>1, <3>4
      <4>2. CASE ActivePending(r)
        <5>1. r.presentPending = TRUE /\ r.loop.pendingFrameCount = 1
          BY <2>1, <2>4, <4>1, <4>2 DEF Counted
        <5>2. t.loop.pendingFrameCount = 0 /\ t.flip = FALSE
          BY <3>2, <4>2, <5>1 DEF LoopKept
        <5> QED
          BY <3>3, <5>2 DEF Counted
      <4>3. CASE ~ActivePending(r)
        <5>1. r.presentPending = FALSE /\ r.loop.pendingFrameCount = 0
          BY <2>1, <2>2, <2>3, <3>4, <4>1, <4>3 DEF Counted
        <5> QED
          BY <2>1, <3>2, <3>3, <4>3, <5>1 DEF Counted
      <4> QED
        BY <4>2, <4>3
    <3> QED
      BY <2>1, <3>2, <3>3, <3>4 DEF NothingHeld
  <2>6. CASE err # "None"
    <3>1. m[o] = ResetFailed(r)
      BY <1>0b, <2>6
    <3>2. SwitchesKept(r, a) /\ FramesKept(r, a) /\ LoopKept(r.loop, a.loop, -1) /\ a \in Records
      BY <2>1, AnsweredRecord DEF SwitchesKept
    <3> HIDE DEF a
    <3>3. CASE r.presentPending = TRUE
      <4>1. m[o] = [a EXCEPT !.presentPending = FALSE]
        BY <3>1, <3>3 DEF a
      <4>2. /\ m[o].presentPending = FALSE /\ m[o].dpmsOn = a.dpmsOn /\ m[o].enabled = a.enabled
            /\ m[o].active = a.active /\ m[o].flip = a.flip /\ m[o].loop = a.loop
        BY <3>2, <4>1 DEF Records
      <4>3. Counted(r) => Counted(m[o])
        <5> HAVE Counted(r)
        <5>1. r.loop.pendingFrameCount = 1
          BY <2>1, <3>3 DEF Counted
        <5>2. m[o].loop.pendingFrameCount = 0 /\ m[o].flip = FALSE
          BY <2>1, <3>2, <4>2, <5>1 DEF LoopKept, FramesKept
        <5> QED
          BY <4>2, <5>2 DEF Counted
      <4> QED
        BY <2>1, <3>2, <4>2, <4>3 DEF SwitchesKept, NothingHeld
    <3>4. CASE r.presentPending = FALSE
      BY <2>1, <3>1, <3>4 DEF NothingHeld
    <3> QED
      BY <2>2, <3>3, <3>4
  <2> QED
    BY <2>5, <2>6
<1>3. \A o \in Outputs \ E : m[o].flip = d[o].flip /\ m[o].presentPending = d[o].presentPending
  <2> TAKE o \in Outputs \ E
  <2>1. m[o] = Unlit(d[o]) \/ m[o] = d[o]
    BY <1>0b, <1>1
  <2> QED
    BY <1>0a, <2>1 DEF Records
<1> HIDE DEF m
<1>4. m \in States
  BY <1>0a DEF m
<1> QED
  BY <1>2, <1>3, <1>4 DEF m

\* maybeModeset() answers every frame that is held back, or none.
LEMMA CountedModeset ==
  ASSUME NEW d \in States, NEW E \in SUBSET Outputs, NEW err
  PROVE  /\ MaybeModeset(d, E, err) \in States
         /\ \A o \in E : /\ MaybeModeset(d, E, err)[o].dpmsOn = d[o].dpmsOn
                         /\ MaybeModeset(d, E, err)[o].enabled = d[o].enabled
                         /\ MaybeModeset(d, E, err)[o].active = d[o].active
         /\ \A o \in E : d[o].presentPending = FALSE => MaybeModeset(d, E, err)[o].presentPending = FALSE
         /\ \A o \in E :
              Counted(d[o]) /\ (d[o].presentPending = TRUE => ActivePending(d[o])) =>
                Counted(MaybeModeset(d, E, err)[o])
         /\ \A o \in Outputs \ E : /\ MaybeModeset(d, E, err)[o].flip = d[o].flip
                                   /\ MaybeModeset(d, E, err)[o].presentPending = d[o].presentPending
<1>1. MaybeModeset(d, E, err) \in States
  BY MaybeModesetFine
<1>2. CASE ~PresentPendingForAll(d, E)
  <2>1. MaybeModeset(d, E, err) = d
    BY <1>2, ModesetHeldBack
  <2> QED
    BY <2>1
<1>3. CASE PresentPendingForAll(d, E)
  <2> DEFINE m == MaybeModeset(d, E, err)
  <2>1. \A o \in E : NothingHeld(d[o], m[o])
    BY <1>3, ModesetAll
  <2>2. \A o \in E :
          Counted(d[o]) /\ (d[o].presentPending = TRUE => ActivePending(d[o])) => Counted(m[o])
    BY <1>3, ModesetAll
  <2>3. \A o \in Outputs \ E : m[o].flip = d[o].flip /\ m[o].presentPending = d[o].presentPending
    BY <1>3, ModesetAll
  <2>4. m \in States
    BY <1>1
  <2> HIDE DEF m
  <2>5. \A o \in E : /\ m[o].dpmsOn = d[o].dpmsOn /\ m[o].enabled = d[o].enabled
                     /\ m[o].active = d[o].active /\ m[o].presentPending = FALSE
    BY <2>1 DEF NothingHeld
  <2> QED
    BY <2>2, <2>3, <2>4, <2>5 DEF m
<1> QED
  BY <1>2, <1>3

-----------------------------------------------------------------------------
(* The steps, for the frames.                                              *)

\* Nothing but frames, tests and the session: the outputs stay on.
Steady == Powered = {} /\ Hotpluggable = {} /\ Configurable = {}

\* There is one output.
Alone == \A o, q \in Outputs : o = q

\* One output changes, for which frames are held back as before.
OneHeld(o) ==
  /\ exists' = exists
  /\ \E q : /\ out' = [out EXCEPT ![o] = q] /\ Held(out[o], q)
            /\ Counted(out[o]) /\ Inhibits(out[o], 0) => Counted(q)

\* Frames that need no modeset, and test commits.
LEMMA FrameHeld ==
  ASSUME Shape, NEW o \in Outputs, NEW err,
         \/ Request(o) \/ DispatchUnheard(o) \/ PageFlip(o) \/ PresentFrame(o, err)
         \/ \E repaints \in BOOLEAN : TestCommit(o, err, repaints)
  PROVE  OneHeld(o) /\ o \in exists
<1> DEFINE r == out[o]
<1>1. /\ r \in Records /\ r.loop \in Loops /\ r.loop.timer \in BOOLEAN /\ r.flip \in BOOLEAN
      /\ r.dpmsOn \in BOOLEAN /\ r.active \in BOOLEAN /\ r.enabled \in BOOLEAN
  BY DEF Shape, States, Records, Loops, LoopType
<1>2. CASE Request(o)
  <2>1. out' = [out EXCEPT ![o] = Repainted(r)] /\ exists' = exists /\ o \in exists
    BY <1>2 DEF Request
  <2> QED
    BY <1>1, <2>1, CountedRepaint DEF OneHeld
<1>3. CASE PageFlip(o)
  <2>1. out' = [out EXCEPT ![o] = Flipped(r)] /\ exists' = exists /\ o \in exists /\ r.flip = TRUE
    BY <1>1, <1>3 DEF PageFlip
  <2> QED
    BY <1>1, <2>1, CountedFlip DEF OneHeld
<1>4. CASE DispatchUnheard(o)
  <2> DEFINE l == [r.loop EXCEPT !.timer = FALSE]
             q == [r EXCEPT !.loop = l]
  <2>1. out' = [out EXCEPT ![o] = q] /\ exists' = exists /\ o \in exists
    BY <1>4 DEF DispatchUnheard
  <2>2. l \in Loops /\ l.pendingFrameCount = r.loop.pendingFrameCount /\ l.timer = FALSE
    BY <1>1 DEF Loops, LoopType
  <2> HIDE DEF l
  <2>3. SwitchesKept(r, q) /\ FramesKept(r, q) /\ q.loop = l
    BY <1>1, <2>2, LoopExcept
  <2> HIDE DEF q
  <2>4. Held(r, q) /\ q \in Records
    BY <2>3 DEF Held, SwitchesKept, FramesKept, SwitchedOn
  <2>5. Counted(r) => Counted(q)
    BY <1>1, <2>2, <2>3, <2>4, CountedKept DEF SwitchesKept
  <2> QED
    BY <2>1, <2>4, <2>5 DEF OneHeld
<1>5. CASE PresentFrame(o, err)
  <2> DEFINE b == ActivePending(r)
             q == IF err = "None" THEN [Begun(r) EXCEPT !.flip = b] ELSE Answered(Begun(r))
  <2>1. /\ out' = [out EXCEPT ![o] = q] /\ exists' = exists /\ o \in exists
        /\ r.loop.timer = TRUE /\ r.enabled = TRUE
    BY <1>1, <1>5 DEF PresentFrame
  <2>2. b \in BOOLEAN /\ (b = TRUE <=> r.active = TRUE)
    BY <1>1, <2>1 DEF ActivePending
  <2>3. Begun(r) \in Records /\ FramesKept(r, Begun(r)) /\ SwitchesKept(r, Begun(r))
    BY <1>1, BegunRecord DEF SwitchesKept
  <2> HIDE DEF b
  <2>4. Held(r, q)
    <3>1. Held(r, [Begun(r) EXCEPT !.flip = b])
      <4> DEFINE s == Begun(r)
      <4> HIDE DEF s
      <4>1. s \in Records /\ FramesKept(r, s) /\ SwitchesKept(r, s)
        BY <2>3 DEF s
      <4>2. Held(r, [s EXCEPT !.flip = b])
        BY <2>2, <4>1 DEF Held, Records, FramesKept, SwitchesKept, SwitchedOn
      <4> QED
        BY <4>2 DEF s
    <3> QED
      BY <1>1, <3>1, CountedBegun
  <2>5. ASSUME Counted(r), Inhibits(r, 0) PROVE Counted(q)
    <3>1. r.dpmsOn = TRUE
      BY <1>1, <2>1, <2>5 DEF Inhibits, Down
    <3>2. b = TRUE
      BY <2>2, <2>5, <3>1 DEF Inhibits
    <3> QED
      BY <1>1, <2>1, <2>5, <3>1, <3>2, CountedBegun
  <2> HIDE DEF q
  <2> QED
    BY <2>1, <2>4, <2>5 DEF OneHeld
<1>6. CASE \E repaints \in BOOLEAN : TestCommit(o, err, repaints)
  <2>1. /\ \E q \in {Revert(r), Repainted(Apply(r)), Apply(r)} : out' = [out EXCEPT ![o] = q]
        /\ exists' = exists /\ o \in exists
    BY <1>6 DEF TestCommit
  <2>2. /\ Held(r, Apply(r)) /\ (Counted(r) => Counted(Apply(r)))
        /\ Held(r, Revert(r)) /\ (Counted(r) => Counted(Revert(r)))
    BY <1>1, CountedCopied
  <2>3. Apply(r) \in Records
    BY <2>2 DEF Held
  <2>4. /\ Held(Apply(r), Repainted(Apply(r)))
        /\ (Counted(Apply(r)) => Counted(Repainted(Apply(r))))
    BY <2>3, CountedRepaint
  <2>5. Held(r, Repainted(Apply(r))) /\ (Counted(r) => Counted(Repainted(Apply(r))))
    BY <2>2, <2>4 DEF Held
  <2> QED
    BY <2>1, <2>2, <2>5 DEF OneHeld
<1> QED
  BY <1>2, <1>3, <1>4, <1>5, <1>6

\* All outputs of a steady system: nothing is held back, or given up.
AllHeld ==
  /\ exists' = exists
  /\ \A o \in exists : Held(out[o], out'[o]) /\ (Counted(out[o]) => Counted(out'[o]))

\* A configuration that is refused.
LEMMA RefusedHeld ==
  ASSUME Shape, NEW o \in exists, NEW test, NEW nm \in BOOLEAN, ConfigRefused(o, test, nm)
  PROVE  AllHeld
<1> DEFINE Tainted(r) == [r EXCEPT !.needsModeset = nm]
           tainted == IF \E q \in exists : out[q].enabled /\ ~out[q].active
                      THEN exists \ {o} ELSE {}
           d == On(tainted, out, Tainted)
<1>1. out' = [d EXCEPT ![o] = Revert(out[o])] /\ exists' = exists
  BY DEF ConfigRefused
<1> HIDE DEF tainted
<1>2. d = [q \in Outputs |-> IF q \in tainted THEN Tainted(out[q]) ELSE out[q]]
  BY DEF On
<1> HIDE DEF d
<1>3. ASSUME NEW r \in Records PROVE Held(r, Tainted(r)) /\ (Counted(r) => Counted(Tainted(r)))
  <2> DEFINE q == Tainted(r)
  <2>1. SwitchesKept(r, q) /\ FramesKept(r, q) /\ q.loop = r.loop
    BY DEF SwitchesKept, FramesKept, Records
  <2> HIDE DEF q
  <2>2. Held(r, q) /\ q \in Records /\ q.dpmsOn = r.dpmsOn
    BY <2>1 DEF Held, SwitchesKept, FramesKept, SwitchedOn
  <2>3. Held(r, q) /\ (Counted(r) => Counted(q))
    BY <2>1, <2>2, CountedSame
  <2> QED
    BY <2>3 DEF q
<1>4. ASSUME NEW q \in exists PROVE Held(out[q], out'[q]) /\ (Counted(out[q]) => Counted(out'[q]))
  <2>1. out[q] \in Records /\ q \in Outputs
    BY DEF Shape, States
  <2>2. out'[q] \in {Tainted(out[q]), out[q], Revert(out[q])}
    BY <1>1, <1>2, <2>1
  <2>3. Held(out[q], out[q])
    BY <2>1 DEF Held
  <2> HIDE DEF Tainted
  <2> QED
    BY <1>3, <2>1, <2>2, <2>3, CountedCopied
<1> QED
  BY <1>1, <1>4 DEF AllHeld

\* The outputs when a configuration that enables o or not has been tested and
\* applied to it.
ConfigTested(o, enable, nm) ==
  LET Verdict(r) == [r EXCEPT !.needsModeset = nm]
  IN  [On(exists, [out EXCEPT ![o].enabled = enable], Verdict) EXCEPT ![o] = Apply(@)]

\* Nothing has happened to their frames.
LEMMA TestedHeld ==
  ASSUME Shape, NEW o \in exists, NEW enable \in BOOLEAN, NEW nm \in BOOLEAN
  PROVE  LET d == ConfigTested(o, enable, nm)
         IN  /\ d \in States /\ d[o].enabled = enable
             /\ \A q \in exists : /\ FramesKept(out[q], d[q]) /\ d[q].loop = out[q].loop
                                  /\ d[q].dpmsOn = out[q].dpmsOn /\ d[q].active = out[q].active
                                  /\ q # o => d[q].enabled = out[q].enabled
<1> DEFINE Verdict(r) == [r EXCEPT !.needsModeset = nm]
           e == [out[o] EXCEPT !.enabled = enable]
           w == [out EXCEPT ![o].enabled = enable]
           d == ConfigTested(o, enable, nm)
<1>1. out \in States /\ exists \subseteq Outputs /\ \A q \in Outputs : out[q] \in Records
  BY DEF Shape, States
<1>2. w = [out EXCEPT ![o] = e]
  OBVIOUS
<1>3. d = [On(exists, w, Verdict) EXCEPT ![o] = Apply(@)]
  BY DEF ConfigTested
<1> HIDE DEF w
<1>4. On(exists, w, Verdict) = [q \in Outputs |-> IF q \in exists THEN Verdict(w[q]) ELSE w[q]]
  BY DEF On
<1>5. ASSUME NEW r \in Records
      PROVE  /\ Verdict(r) \in Records /\ FramesKept(r, Verdict(r)) /\ Verdict(r).loop = r.loop
             /\ Verdict(r).dpmsOn = r.dpmsOn /\ Verdict(r).active = r.active
             /\ Verdict(r).enabled = r.enabled
  BY DEF FramesKept, Records
<1>6. /\ e \in Records /\ FramesKept(out[o], e) /\ e.loop = out[o].loop /\ e.enabled = enable
      /\ e.dpmsOn = out[o].dpmsOn /\ e.active = out[o].active
  BY <1>1 DEF FramesKept, Records
<1> HIDE DEF e, d, Verdict
<1>7. w \in States /\ w[o] = e /\ \A q \in Outputs \ {o} : w[q] = out[q]
  BY <1>1, <1>2, <1>6 DEF States
<1>8. d = [q \in Outputs |-> IF q = o THEN Apply(Verdict(e))
                             ELSE IF q \in exists THEN Verdict(w[q]) ELSE w[q]]
  BY <1>1, <1>3, <1>4, <1>7
<1> DEFINE t == Verdict(e)
<1>9. /\ t \in Records /\ FramesKept(e, t) /\ t.loop = e.loop /\ t.dpmsOn = e.dpmsOn
      /\ t.active = e.active /\ t.enabled = e.enabled
  BY <1>5, <1>6
<1>10. d[o] = Apply(t)
  BY <1>1, <1>8
<1> HIDE DEF t
<1>11. /\ Apply(t) \in Records /\ FramesKept(t, Apply(t)) /\ Apply(t).loop = t.loop
       /\ Apply(t).dpmsOn = t.dpmsOn /\ Apply(t).active = t.active /\ Apply(t).enabled = t.enabled
  BY <1>9, CopiedRecord DEF SwitchesKept
<1>12. /\ d[o] \in Records /\ FramesKept(out[o], d[o]) /\ d[o].loop = out[o].loop
       /\ d[o].dpmsOn = out[o].dpmsOn /\ d[o].active = out[o].active /\ d[o].enabled = enable
  BY <1>6, <1>9, <1>10, <1>11 DEF FramesKept
<1>13. \A q \in exists \ {o} : d[q] = Verdict(out[q])
  BY <1>1, <1>7, <1>8
<1>14. \A q \in exists \ {o} :
         /\ FramesKept(out[q], d[q]) /\ d[q].loop = out[q].loop
         /\ d[q].dpmsOn = out[q].dpmsOn /\ d[q].active = out[q].active
         /\ d[q].enabled = out[q].enabled
  BY <1>1, <1>5, <1>13
<1>15. d \in States
  <2>1. \A q \in Outputs : Verdict(w[q]) \in Records /\ w[q] \in Records
    BY <1>5, <1>7 DEF States
  <2>2. Apply(Verdict(e)) \in Records
    BY <1>11 DEF t
  <2> QED
    BY <1>8, <2>1, <2>2 DEF States
<1> QED
  BY <1>12, <1>14, <1>15 DEF d

\* A configuration that is accepted, in a steady system: every output stays
\* on.
LEMMA AppliedHeld ==
  ASSUME Shape, NEW o \in exists, NEW nm \in BOOLEAN, NEW on, NEW err,
         ConfigApplied(o, TRUE, nm, on, err), \A q \in exists : SwitchedOn(out[q])
  PROVE  AllHeld
<1> DEFINE d == ConfigTested(o, TRUE, nm)
           shown == [d EXCEPT ![o] = Repainted(@)]
           TurnedOn == [q \in Outputs |->
                         IF q \in exists THEN DpmsOn(shown[q], IF q \in on THEN "None" ELSE "Other")
                         ELSE shown[q]]
<1>1. exists' = exists /\ out' = IF shown[o].dpmsOn THEN TurnedOn ELSE shown
  BY DEF ConfigApplied, ConfigTested
<1>2. /\ d \in States /\ d[o].enabled = TRUE
      /\ \A q \in exists : /\ FramesKept(out[q], d[q]) /\ d[q].loop = out[q].loop
                           /\ d[q].dpmsOn = out[q].dpmsOn /\ d[q].active = out[q].active
                           /\ q # o => d[q].enabled = out[q].enabled
  BY TestedHeld
<1>3. \A q \in exists : out[q] \in Records /\ d[q] \in Records /\ q \in Outputs
  BY <1>2 DEF Shape, States
<1> HIDE DEF d
<1>4. \A q \in exists : Held(out[q], d[q]) /\ (Counted(out[q]) => Counted(d[q])) /\ SwitchedOn(d[q])
  <2> TAKE q \in exists
  <2>1. Counted(out[q]) => Counted(d[q])
    BY <1>2, <1>3, CountedSame
  <2>2. SwitchedOn(d[q])
    BY <1>2 DEF SwitchedOn
  <2> QED
    BY <1>2, <1>3, <2>1, <2>2 DEF Held, FramesKept
<1>5. Held(d[o], Repainted(d[o])) /\ (Counted(d[o]) => Counted(Repainted(d[o])))
  BY <1>3, CountedRepaint
<1>6. \A q \in exists : /\ Held(out[q], shown[q]) /\ (Counted(out[q]) => Counted(shown[q]))
                        /\ SwitchedOn(shown[q])
  <2> TAKE q \in exists
  <2>1. shown[q] = IF q = o THEN Repainted(d[o]) ELSE d[q]
    BY <1>2, <1>3 DEF States
  <2> HIDE DEF shown
  <2>2. CASE q = o
    BY <1>4, <1>5, <2>1, <2>2 DEF Held
  <2>3. CASE q # o
    BY <1>4, <2>1, <2>3
  <2> QED
    BY <2>2, <2>3
<1> HIDE DEF shown
<1>7. \A q \in exists : TurnedOn[q] = shown[q]
  <2> TAKE q \in exists
  <2>1. shown[q] \in Records /\ shown[q].dpmsOn = TRUE
    BY <1>6 DEF Held, SwitchedOn
  <2>2. TurnedOn[q] = DpmsOn(shown[q], IF q \in on THEN "None" ELSE "Other")
    BY <1>3
  <2> QED
    BY <2>1, <2>2, DpmsOnRecord
<1> HIDE DEF TurnedOn
<1> QED
  BY <1>1, <1>6, <1>7 DEF AllHeld

\* And any configuration of an output that has no frame held back.
LEMMA AppliedAlone ==
  ASSUME Shape, NEW o \in exists, NEW enable \in BOOLEAN, NEW nm \in BOOLEAN, NEW on, NEW err,
         ConfigApplied(o, enable, nm, on, err), Counted(out[o]), out[o].presentPending = FALSE
  PROVE  exists' = exists /\ Counted(out'[o]) /\ out'[o].presentPending = FALSE
<1> DEFINE d == ConfigTested(o, enable, nm)
           m == MaybeModeset(d, exists, err)
           done == IF ~enable /\ nm THEN m ELSE d
           shown == [done EXCEPT ![o] = Repainted(@)]
           TurnedOn == [q \in Outputs |->
                         IF q \in exists THEN DpmsOn(shown[q], IF q \in on THEN "None" ELSE "Other")
                         ELSE shown[q]]
<1>1. exists' = exists /\ out' = IF enable /\ shown[o].dpmsOn THEN TurnedOn ELSE shown
  BY DEF ConfigApplied, ConfigTested
<1>2. /\ d \in States /\ FramesKept(out[o], d[o]) /\ d[o].loop = out[o].loop
      /\ d[o].dpmsOn = out[o].dpmsOn
  BY TestedHeld
<1>3. out[o] \in Records /\ d[o] \in Records /\ o \in Outputs /\ exists \in SUBSET Outputs
  BY <1>2 DEF Shape, States
<1> HIDE DEF d
<1>4. Counted(d[o]) /\ d[o].presentPending = FALSE
  BY <1>2, <1>3, CountedSame DEF FramesKept
<1>5. m \in States /\ Counted(m[o]) /\ m[o].presentPending = FALSE
  <2>1. m \in States /\ Counted(m[o])
    BY <1>2, <1>3, <1>4, CountedModeset
  <2>2. m[o].presentPending = FALSE
    BY <1>2, <1>3, <1>4, CountedModeset
  <2> QED
    BY <2>1, <2>2
<1> HIDE DEF m
<1>6. done \in States /\ Counted(done[o]) /\ done[o].presentPending = FALSE
  BY <1>2, <1>4, <1>5
<1> HIDE DEF done
<1>7. shown[o] = Repainted(done[o]) /\ done[o] \in Records
  BY <1>3, <1>6 DEF States
<1>8. shown[o] \in Records /\ Counted(shown[o]) /\ shown[o].presentPending = FALSE
  BY <1>6, <1>7, CountedRepaint DEF Held
<1>9. shown[o].dpmsOn = TRUE => TurnedOn[o] = shown[o]
  BY <1>3, <1>8, DpmsOnRecord
<1>10. shown[o].dpmsOn \in BOOLEAN
  BY <1>8 DEF Records
<1> HIDE DEF shown, TurnedOn
<1> QED
  BY <1>1, <1>8, <1>9, <1>10

\* What an update does to the frames.
LEMMA UpdateHeld ==
  ASSUME Shape, NEW d \in States, \E s : UpdateOutputs(d, s)
  PROVE  /\ \A o \in exists' \cap exists : Held(d[o], out'[o]) /\ (Counted(d[o]) => Counted(out'[o]))
         /\ \A o \in exists' \ exists :
              NoNewFrames(d[o], out'[o]) /\ out'[o].loop.pendingFrameCount = 0 /\ out'[o].dpmsOn = TRUE
         /\ \A o \in Outputs : NoNewFrames(WaitIdle(d, exists)[o], out'[o])
<1> DEFINE idle == WaitIdle(d, exists)
<1>1. PICK u \in UpdateOutcomes(d, exists) : out' = u.out /\ exists' = u.exists
  BY DEF UpdateOutputs
<1>2. /\ exists' = (exists \ Gone(exists)) \cup Added(exists) \/ exists' = exists \ Gone(exists)
      /\ \A o \in exists \ Gone(exists) : Stayed(idle[o], out'[o])
      /\ \A o \in exists' \cap Added(exists) : Fresh(Adopted(d[o]), out'[o])
      /\ \A o \in Outputs : NoNewFrames(idle[o], out'[o])
  BY <1>1, UpdateFact DEF Shape
<1>3. /\ idle \in States
      /\ \A o \in Outputs : Held(d[o], idle[o]) /\ idle[o] \in Records
      /\ \A o \in exists : Counted(d[o]) => Counted(idle[o])
  BY CountedIdle DEF Shape, States
<1> HIDE DEF idle
<1>4. exists' \cap exists \subseteq exists \ Gone(exists) /\ exists' \ exists \subseteq Added(exists)
      /\ Added(exists) \subseteq Outputs
  BY <1>2 DEF Added
<1>5. ASSUME NEW o \in exists' \cap exists
      PROVE  Held(d[o], out'[o]) /\ (Counted(d[o]) => Counted(out'[o]))
  <2>1. o \in exists /\ o \in Outputs /\ Stayed(idle[o], out'[o])
    BY <1>2, <1>4 DEF Shape
  <2>2. /\ SwitchesKept(idle[o], out'[o]) /\ FramesKept(idle[o], out'[o])
        /\ out'[o].loop = idle[o].loop /\ out'[o] \in Records
    BY <2>1 DEF Stayed, SwitchesKept
  <2>3. Counted(idle[o]) => Counted(out'[o])
    BY <1>3, <2>1, <2>2, CountedSame DEF SwitchesKept
  <2>4. Held(idle[o], out'[o])
    BY <2>2 DEF Held, SwitchesKept, FramesKept, SwitchedOn
  <2> QED
    BY <1>3, <2>1, <2>3, <2>4 DEF Held
<1>6. ASSUME NEW o \in exists' \ exists
      PROVE  NoNewFrames(d[o], out'[o]) /\ out'[o].loop.pendingFrameCount = 0 /\ out'[o].dpmsOn = TRUE
  <2>1. d[o] \in Records /\ Fresh(Adopted(d[o]), out'[o])
    BY <1>2, <1>4 DEF States
  <2> QED
    BY <2>1, AdoptedRecord DEF Fresh, FramesKept, NoNewFrames
<1> QED
  BY <1>2, <1>5, <1>6 DEF idle

-----------------------------------------------------------------------------
(* A frame is held back for another output.                                *)

SteadyInv ==
  /\ Shape /\ EnvInv /\ HeldBackForSomeone
  /\ \A o \in exists : SwitchedOn(out[o])

\* Frames are held back as before.
HeldStep == exists' = exists /\ \A o \in exists : Held(out[o], out'[o])

\* So there is still an output they wait for.
LEMMA HeldStepSteady ==
  ASSUME SteadyInv, HeldStep
  PROVE  HeldBackForSomeone' /\ \A o \in exists' : SwitchedOn(out'[o])
<1>1. exists' = exists /\ \A o \in exists : /\ out'[o].presentPending = out[o].presentPending
                                            /\ SwitchedOn(out[o]) /\ SwitchedOn(out'[o])
  BY DEF SteadyInv, HeldStep, Held
<1>2. PresentPendingForAll(out, exists)' => PresentPendingForAll(out, exists)
  BY <1>1 DEF PresentPendingForAll, ActivePending, SwitchedOn
<1>3. HeldBackForSomeone
  BY DEF SteadyInv
<1> QED
  BY <1>1, <1>2, <1>3 DEF HeldBackForSomeone

\* One output.
LEMMA OneHeldStep ==
  ASSUME Shape, NEW o \in Outputs, OneHeld(o)
  PROVE  HeldStep
<1>1. PICK q : out' = [out EXCEPT ![o] = q] /\ Held(out[o], q) /\ exists' = exists
  BY DEF OneHeld
<1>2. \A p \in exists : p \in Outputs /\ out[p] \in Records /\ Held(out[p], out[p])
  BY DEF Shape, States, Held
<1>3. \A p \in exists : out'[p] = IF p = o THEN q ELSE out[p]
  BY <1>1, <1>2 DEF Shape, States
<1> QED
  BY <1>1, <1>2, <1>3 DEF HeldStep

\* The outputs when o has a frame for a modeset.
WithFrame(o) == [out EXCEPT ![o] = [Begun(@) EXCEPT !.presentPending = TRUE]]

\* Nothing else is different.
LEMMA WithFrameFact ==
  ASSUME Shape, NEW o \in Outputs
  PROVE  /\ WithFrame(o) \in States
         /\ WithFrame(o)[o] = [Begun(out[o]) EXCEPT !.presentPending = TRUE]
         /\ \A q \in Outputs \ {o} : WithFrame(o)[q] = out[q]
         /\ WithFrame(o)[o].presentPending = TRUE
         /\ WithFrame(o)[o].dpmsOn = out[o].dpmsOn /\ WithFrame(o)[o].active = out[o].active
         /\ WithFrame(o)[o].enabled = out[o].enabled
<1> DEFINE b == Begun(out[o])
           h == [b EXCEPT !.presentPending = TRUE]
<1>1. out \in States /\ b \in Records /\ SwitchesKept(out[o], b)
  BY BegunRecord DEF Shape, States, SwitchesKept
<1>2. WithFrame(o) = [out EXCEPT ![o] = h]
  BY DEF WithFrame
<1> HIDE DEF b
<1>3. /\ h \in Records /\ h.presentPending = TRUE /\ h.dpmsOn = b.dpmsOn /\ h.active = b.active
      /\ h.enabled = b.enabled
  BY <1>1 DEF Records
<1> HIDE DEF h
<1>4. WithFrame(o) \in States /\ WithFrame(o)[o] = h /\ \A q \in Outputs \ {o} : WithFrame(o)[q] = out[q]
  BY <1>1, <1>2, <1>3 DEF States
<1> QED
  BY <1>1, <1>3, <1>4 DEF h, b, SwitchesKept

\* A frame that needs a modeset is held back, or all frames are let go.
LEMMA ModesetSteady ==
  ASSUME SteadyInv, NEW o \in Outputs, NEW err, PresentModeset(o, err)
  PROVE  HeldBackForSomeone' /\ \A q \in exists' : SwitchedOn(out'[q])
<1> DEFINE d == WithFrame(o)
<1>1. exists' = exists /\ out' = MaybeModeset(d, exists, err)
  BY DEF PresentModeset, WithFrame
<1>2. Shape /\ exists \in SUBSET Outputs
  BY DEF SteadyInv, Shape
<1>3. d \in States /\ \A q \in exists : SwitchedOn(d[q])
  <2>1. \A q \in exists : SwitchedOn(out[q])
    BY DEF SteadyInv
  <2>2. SwitchedOn(out[o]) => SwitchedOn(d[o])
    BY <1>2, WithFrameFact DEF SwitchedOn
  <2>3. d \in States /\ \A q \in Outputs \ {o} : d[q] = out[q]
    BY <1>2, WithFrameFact
  <2> HIDE DEF d
  <2>4. ASSUME NEW q \in exists PROVE SwitchedOn(d[q])
    <3>1. CASE q = o
      BY <2>1, <2>2, <3>1
    <3>2. CASE q # o
      BY <1>2, <2>1, <2>3, <3>2
    <3> QED
      BY <3>1, <3>2
  <2> QED
    BY <2>3, <2>4
<1> HIDE DEF d
<1>4. /\ ~PresentPendingForAll(d, exists) => out' = d
      /\ PresentPendingForAll(d, exists) => \A q \in exists : out'[q].presentPending = FALSE
      /\ \A q \in exists : /\ out'[q].dpmsOn = d[q].dpmsOn /\ out'[q].enabled = d[q].enabled
                           /\ out'[q].active = d[q].active
  <2> DEFINE m == MaybeModeset(d, exists, err)
  <2>1. /\ ~PresentPendingForAll(d, exists) => m = d
        /\ PresentPendingForAll(d, exists) => \A q \in exists : m[q].presentPending = FALSE
        /\ \A q \in exists : /\ m[q].dpmsOn = d[q].dpmsOn /\ m[q].enabled = d[q].enabled
                             /\ m[q].active = d[q].active
    <3>1. d \in States /\ exists \in SUBSET Outputs
      BY <1>2, <1>3
    <3>2. ~PresentPendingForAll(d, exists) => m = d
      BY ModesetHeldBack
    <3>3. PresentPendingForAll(d, exists) => \A q \in exists : m[q].presentPending = FALSE
      <4> SUFFICES ASSUME PresentPendingForAll(d, exists), NEW q \in exists
                   PROVE  m[q].presentPending = FALSE
        OBVIOUS
      <4> QED
        <5>1. NothingHeld(d[q], MaybeModeset(d, exists, err)[q])
          BY <3>1, ModesetAll
        <5> QED
          BY <5>1 DEF NothingHeld
    <3>4. \A q \in exists : /\ m[q].dpmsOn = d[q].dpmsOn /\ m[q].enabled = d[q].enabled
                           /\ m[q].active = d[q].active
      BY <3>1, CountedModeset
    <3> QED
      BY <3>2, <3>3, <3>4
  <2>2. out' = m
    BY <1>1
  <2> HIDE DEF m
  <2> QED
    BY <2>1, <2>2
<1>5. \A q \in exists' : SwitchedOn(out'[q])
  BY <1>1, <1>3, <1>4 DEF SwitchedOn
<1>6. CASE ~PresentPendingForAll(d, exists)
  BY <1>1, <1>4, <1>5, <1>6 DEF HeldBackForSomeone
<1>7. CASE PresentPendingForAll(d, exists)
  BY <1>1, <1>4, <1>5, <1>7 DEF HeldBackForSomeone
<1> QED
  BY <1>5, <1>6, <1>7

\* Every step of a steady system.
LEMMA StepSteady ==
  ASSUME Steady, SteadyInv, [Next]_vars
  PROVE  SteadyInv'
<1>1. /\ Shape /\ EnvInv /\ \A o \in exists : SwitchedOn(out[o])
      /\ \A o \in exists : o \in Outputs /\ out[o] \in Records
  BY DEF SteadyInv, Shape, States
<1>2. EnvInv'
  BY <1>1, StepEnv
<1>3. out' = out /\ exists' = exists => HeldStep
  BY <1>1 DEF HeldStep, Held
<1>4. Shape'
  <2>1. FineStep \/ DevicePaused \/ UNCHANGED vars => Shape'
    BY <1>1, SessionShape DEF FineStep, Shape, vars
  <2>2. (\E s : UpdateOutputs(out, s)) \/ DeviceResumed => Shape'
    BY <1>1, SessionShape, UpdateShape DEF Shape
  <2> QED
    BY <1>1, <2>1, <2>2, StepShape
<1> DEFINE Goal == HeldBackForSomeone' /\ \A o \in exists' : SwitchedOn(out'[o])
<1>5. HeldStep => Goal
  BY HeldStepSteady
<1>6. ASSUME NEW o \in Outputs, ApplyConfig(o) PROVE HeldStep
  <2>1. o \in exists /\ out[o].enabled = TRUE
    BY <1>1, <1>6 DEF ApplyConfig, SwitchedOn
  <2>2. \/ \E test : \E nm \in BOOLEAN : ConfigRefused(o, test, nm)
        \/ \E nm \in BOOLEAN : \E on, err : ConfigApplied(o, TRUE, nm, on, err)
    <3>1. \A driven : ModesetVerdicts(out, driven) \subseteq BOOLEAN
      BY DEF ModesetVerdicts
    <3>2. CASE \E test \in Errors, nm \in ModesetVerdicts(out, {q \in exists : ActivePending(out[q])}) :
                 ConfigRefused(o, test, nm)
      BY <3>1, <3>2
    <3>3. CASE \E enable \in IF o \in Configurable THEN BOOLEAN ELSE {out[o].enabled} :
               \E nm \in ModesetVerdicts(out, IF enable THEN Enabled(out, exists) \cup {o}
                                              ELSE Enabled(out, exists) \ {o}),
                  on \in SUBSET {q \in exists : ~out[q].dpmsOn}, err \in Results :
                 ConfigApplied(o, enable, nm, on, err)
      <4>1. o \notin Configurable
        BY DEF Steady
      <4> QED
        BY <2>1, <3>1, <3>3, <4>1
    <3> QED
      BY <1>6, <3>2, <3>3 DEF ApplyConfig
  <2>3. AllHeld
    BY <1>1, <2>1, <2>2, RefusedHeld, AppliedHeld
  <2> QED
    BY <2>3 DEF AllHeld, HeldStep
<1>7. ASSUME NEW d \in States, \E s : UpdateOutputs(d, s), \A o \in exists : Held(out[o], d[o])
      PROVE  HeldStep
  <2>1. exists' = exists
    BY <1>1, <1>7, UpdateSame DEF Steady
  <2>2. \A o \in exists : Held(d[o], out'[o])
    BY <1>1, <1>7, <2>1, UpdateHeld
  <2> QED
    BY <1>7, <2>1, <2>2 DEF HeldStep, Held
<1>8. \A o \in exists : Held(out[o], out[o]) /\ Held(out[o], Inhibited(out[o])) /\ Held(out[o], Uninhibited(out[o]))
  BY <1>1, InhibitedRecord, UninhibitedRecord DEF Held, SwitchesKept, FramesKept, SwitchedOn
<1>9. (\E s : UpdateOutputs(out, s)) => HeldStep
  BY <1>1, <1>7, <1>8 DEF Shape
<1>10. DevicePaused => HeldStep
  BY <1>1, <1>8, SessionShape DEF HeldStep
<1>11. DeviceResumed => HeldStep
  <2> DEFINE d == [o \in Outputs |-> IF o \in exists THEN Uninhibited(out[o]) ELSE out[o]]
  <2> HAVE DeviceResumed
  <2>1. d \in States /\ \E s : UpdateOutputs(d, s)
    BY <1>1, SessionShape
  <2>2. \A o \in exists : Held(out[o], d[o])
    BY <1>1, <1>8
  <2> HIDE DEF d
  <2> QED
    BY <1>7, <2>1, <2>2
<1>12. ASSUME NEW o \in Outputs, NEW err,
              \/ Request(o) \/ DispatchUnheard(o) \/ PageFlip(o) \/ PresentFrame(o, err)
              \/ \E repaints \in BOOLEAN : TestCommit(o, err, repaints)
       PROVE  HeldStep
  BY <1>1, <1>12, FrameHeld, OneHeldStep
<1>13. ASSUME NEW o \in Outputs, NEW err, PresentModeset(o, err) PROVE Goal
  BY <1>13, ModesetSteady
<1>14. ASSUME NEW o \in Outputs, NEW err, NEW p, TurnOff(o, err) \/ TurnOn(o, err) \/ Hotplug(o, p)
       PROVE  FALSE
  BY <1>14 DEF TurnOff, TurnOn, Hotplug, Steady
<1>15. UdevChange \/ RetryUpdate => HeldStep
  BY <1>3, <1>9 DEF UdevChange, RetryUpdate
<1>16. SwitchSession \/ UNCHANGED vars => HeldStep
  BY <1>3 DEF SwitchSession, vars
<1> HIDE DEF Goal
<1>17. Goal
  BY <1>5, <1>6, <1>10, <1>11, <1>12, <1>13, <1>14, <1>15, <1>16 DEF Next
<1> QED
  BY <1>2, <1>4, <1>17 DEF SteadyInv, Goal

\* While no output is switched off, plugged or configured anew, frames that
\* are held back for a modeset wait for an output that has none yet, for any
\* number of outputs and across sessions switched away from and back: the
\* last output to have its frame ready lets all of them go.
THEOREM HeldBackWhileSteady ==
  ASSUME Steady
  PROVE  Spec => []HeldBackForSomeone
<1>1. Init => SteadyInv
  <2> SUFFICES ASSUME Init PROVE SteadyInv
    OBVIOUS
  <2>1. Shape /\ EnvInv /\ \A o \in exists : SwitchedOn(out[o]) /\ out[o].presentPending = FALSE
    BY InitRecord, InitInhibits DEF InhibitInv, SwitchedOn
  <2> QED
    BY <2>1 DEF SteadyInv, HeldBackForSomeone
<1>2. SteadyInv /\ [Next]_vars => SteadyInv'
  BY StepSteady
<1>3. SteadyInv => HeldBackForSomeone
  BY DEF SteadyInv
<1> QED
  BY <1>1, <1>2, <1>3, PTL DEF Spec

-----------------------------------------------------------------------------
(* Every frame is accounted for.                                           *)

\* An output that no DrmOutput stands for has no frame out.
Empty(r) == r.flip = FALSE /\ r.presentPending = FALSE

FramesPart ==
  /\ \A o \in exists : Counted(out[o])
  /\ \A o \in Outputs \ exists : Empty(out[o])
  /\ Steady => \A o \in exists : SwitchedOn(out[o])
  /\ Alone => \A o \in Outputs : out[o].presentPending = FALSE

CountedInv == InhibitInv /\ FramesPart

\* Switching an output off or on.
LEMMA CountedSwitch ==
  ASSUME NEW r \in Records, Counted(r), r.flip = FALSE, r.presentPending = FALSE, NEW err
  PROVE  /\ Counted(TurnedOff(r)) /\ TurnedOff(r).presentPending = FALSE
         /\ r.dpmsOn = FALSE => Counted(DpmsOn(r, err)) /\ DpmsOn(r, err).presentPending = FALSE
<1>1. r.loop \in Loops /\ r.loop.pendingFrameCount = 0 /\ r.dpmsOn \in BOOLEAN
  BY DEF Counted, Records
<1>2. TurnedOff(r).loop.pendingFrameCount = 0 /\ FramesKept(r, TurnedOff(r))
  BY <1>1, TurnedOffRecord, InhibitFact
<1>3. Counted(TurnedOff(r)) /\ TurnedOff(r).presentPending = FALSE
  BY <1>2 DEF Counted, FramesKept
<1> DEFINE l == UninhibitLoop(r.loop, App)
           q == [r EXCEPT !.active = TRUE, !.needsModeset = TRUE, !.nextModeset = TRUE,
                          !.dpmsOn = TRUE, !.loop = l]
<1>4. l \in Loops /\ l.pendingFrameCount = 0
  BY <1>1, UninhibitFact
<1>5. DpmsOn(r, err) = IF r.enabled /\ ~r.dpmsOn /\ err = "None" THEN Repainted(q)
                       ELSE IF r.enabled /\ ~r.dpmsOn THEN Revert(r) ELSE r
  BY DEF DpmsOn
<1> HIDE DEF l
<1>6. /\ q \in Records /\ q.loop.pendingFrameCount = 0 /\ q.flip = FALSE /\ q.presentPending = FALSE
      /\ q.dpmsOn = TRUE
  BY <1>4 DEF Records
<1> HIDE DEF q
<1>7. Counted(q)
  BY <1>6 DEF Counted
<1>8. Counted(Repainted(q)) /\ Repainted(q).presentPending = FALSE
  BY <1>6, <1>7, CountedRepaint DEF Held
<1>9. Counted(Revert(r)) /\ Revert(r).presentPending = FALSE
  BY CountedCopied DEF Held
<1> QED
  BY <1>3, <1>5, <1>8, <1>9

\* A step of one output that counts its frames.
LEMMA OneCounted ==
  ASSUME Shape, FramesPart, NEW o \in exists, NEW q, out' = [out EXCEPT ![o] = q], exists' = exists,
         Counted(q), Steady => SwitchedOn(q), Alone => q.presentPending = FALSE
  PROVE  FramesPart'
<1>1. \A p \in Outputs : out'[p] = IF p = o THEN q ELSE out[p]
  BY DEF Shape, States
<1>2. o \in Outputs /\ exists \subseteq Outputs
  BY DEF Shape
<1> QED
  BY <1>1, <1>2 DEF FramesPart

\* Steps that hold no frame back and let none go.
LEMMA AllCounted ==
  ASSUME Shape, FramesPart, AllHeld, \A o \in Outputs \ exists : Empty(out'[o])
  PROVE  FramesPart'
<1>1. /\ exists' = exists /\ \A o \in exists : /\ Held(out[o], out'[o])
                                               /\ Counted(out[o]) => Counted(out'[o])
  BY DEF AllHeld
<1>2. \A o \in exists' : Counted(out'[o])
  BY <1>1 DEF FramesPart
<1>3. Steady => \A o \in exists' : SwitchedOn(out'[o])
  BY <1>1 DEF FramesPart, Held
<1>4. ASSUME Alone, NEW o \in Outputs PROVE out'[o].presentPending = FALSE
  <2>1. CASE o \in exists
    BY <1>1, <1>4, <2>1 DEF FramesPart, Held
  <2>2. CASE o \notin exists
    BY <2>2 DEF Empty
  <2> QED
    BY <2>1, <2>2
<1> QED
  BY <1>1, <1>2, <1>3, <1>4 DEF FramesPart

\* An update, of a system that is steady or of a single output.
LEMMA UpdateCounted ==
  ASSUME Shape, EnvInv, FramesPart, Steady \/ Alone, \E s : UpdateOutputs(out, s)
  PROVE  FramesPart'
<1> DEFINE idle == WaitIdle(out, exists)
<1>1. out \in States /\ exists \in SUBSET Outputs
  BY DEF Shape
<1>2. /\ \A o \in exists' \cap exists : Held(out[o], out'[o]) /\ (Counted(out[o]) => Counted(out'[o]))
      /\ \A o \in exists' \ exists :
           NoNewFrames(out[o], out'[o]) /\ out'[o].loop.pendingFrameCount = 0 /\ out'[o].dpmsOn = TRUE
      /\ \A o \in Outputs : NoNewFrames(idle[o], out'[o])
  BY <1>1, UpdateHeld
<1>3. Shape'
  BY <1>1, UpdateShape
<1>4. \A o \in Outputs : /\ out'[o] \in Records /\ out'[o].flip \in BOOLEAN
                         /\ out'[o].presentPending \in BOOLEAN
  BY <1>3 DEF Shape, States, Records
<1>5. /\ \A o \in Outputs : NoNewFrames(out[o], idle[o])
      /\ \A o \in exists : idle[o].flip = FALSE
  BY <1>1, CountedIdle
<1> HIDE DEF idle
<1>6. \A o \in Outputs : NoNewFrames(out[o], out'[o])
  BY <1>2, <1>5 DEF NoNewFrames
<1>7. \A o \in exists' : Counted(out'[o])
  <2> TAKE o \in exists'
  <2>1. CASE o \in exists
    BY <1>2, <2>1 DEF FramesPart
  <2>2. CASE o \notin exists
    <3>1. o \in Outputs
      BY <1>3 DEF Shape
    <3>2. Empty(out[o])
      BY <2>2, <3>1 DEF FramesPart
    <3>3. out'[o].flip = FALSE /\ out'[o].presentPending = FALSE
      BY <1>4, <1>6, <3>1, <3>2 DEF NoNewFrames, Empty
    <3> QED
      BY <1>2, <2>2, <3>3 DEF Counted
  <2> QED
    BY <2>1, <2>2
<1>8. Steady => exists' = exists
  BY <1>1, UpdateSame DEF Steady
<1>9. Steady => \A o \in exists' : SwitchedOn(out'[o])
  BY <1>2, <1>8 DEF FramesPart, Held
<1>10. Alone => \A o \in Outputs : out'[o].presentPending = FALSE
  BY <1>4, <1>6 DEF FramesPart, NoNewFrames
<1>11. \A o \in Outputs \ exists' : Empty(out'[o])
  <2> TAKE o \in Outputs \ exists'
  <2>1. CASE o \in exists
    <3>1. Alone
      BY <1>8, <2>1
    <3>2. out'[o].flip = FALSE
      BY <1>2, <1>4, <1>5, <2>1 DEF NoNewFrames
    <3> QED
      BY <1>10, <3>1, <3>2 DEF Empty
  <2>2. CASE o \notin exists
    <3>1. Empty(out[o])
      BY <2>2 DEF FramesPart
    <3> QED
      BY <1>4, <1>6, <3>1 DEF NoNewFrames, Empty
  <2> QED
    BY <2>1, <2>2
<1> QED
  BY <1>7, <1>9, <1>10, <1>11 DEF FramesPart

\* A frame that needs a modeset.
LEMMA ModesetCounted ==
  ASSUME Shape, FramesPart, Steady \/ Alone, NEW o \in Outputs, NEW err, PresentModeset(o, err),
         Inhibits(out[o], 0)
  PROVE  FramesPart'
<1> DEFINE d == WithFrame(o)
           m == MaybeModeset(d, exists, err)
<1>1. /\ exists' = exists /\ out' = m /\ o \in exists
      /\ out[o].loop.timer /\ out[o].enabled
  BY DEF PresentModeset, WithFrame
<1>2. out[o] \in Records /\ exists \in SUBSET Outputs
  BY DEF Shape, States
<1>3. /\ out[o].loop.timer = TRUE /\ out[o].enabled = TRUE /\ out[o].dpmsOn = TRUE
      /\ out[o].active = TRUE
  <2>1. out[o].loop.timer \in BOOLEAN /\ out[o].enabled \in BOOLEAN /\ out[o].dpmsOn \in BOOLEAN
    BY <1>2 DEF Records, Loops, LoopType
  <2>2. out[o].loop.timer = TRUE /\ out[o].enabled = TRUE
    BY <1>1, <2>1
  <2> QED
    BY <2>1, <2>2 DEF Inhibits, Down
<1>4. /\ d \in States /\ \A q \in Outputs \ {o} : d[q] = out[q]
      /\ d[o].presentPending = TRUE /\ d[o].dpmsOn = TRUE /\ d[o].active = TRUE /\ d[o].enabled = TRUE
      /\ d[o] = [Begun(out[o]) EXCEPT !.presentPending = TRUE]
  BY <1>3, WithFrameFact
<1>5. Counted(d[o])
  BY <1>1, <1>2, <1>3, <1>4, CountedBegun DEF FramesPart
<1> HIDE DEF d
<1>6. \A q \in exists : Counted(d[q])
  BY <1>2, <1>4, <1>5 DEF FramesPart
<1>7. Steady => \A q \in exists : SwitchedOn(d[q])
  BY <1>2, <1>4 DEF FramesPart, SwitchedOn
<1>8. \A q \in exists : d[q].presentPending = TRUE => ActivePending(d[q])
  <2> TAKE q \in exists
  <2>1. CASE Steady
    BY <1>7, <2>1 DEF SwitchedOn, ActivePending
  <2>2. CASE Alone
    <3>1. q = o
      BY <1>1, <1>2, <2>2 DEF Alone
    <3> QED
      BY <1>4, <3>1 DEF ActivePending
  <2> QED
    BY <2>1, <2>2
<1>8a. d \in States /\ exists \in SUBSET Outputs
  BY <1>2, <1>4
<1>9. \A q \in exists : Counted(m[q])
  BY <1>6, <1>8, <1>8a, CountedModeset
<1>10. \A q \in exists : /\ m[q].dpmsOn = d[q].dpmsOn /\ m[q].enabled = d[q].enabled
                         /\ m[q].active = d[q].active
  BY <1>8a, CountedModeset
<1>11. \A q \in Outputs \ exists : m[q].flip = d[q].flip /\ m[q].presentPending = d[q].presentPending
  BY <1>8a, CountedModeset
<1>12. ASSUME Alone, NEW q \in Outputs PROVE m[q].presentPending = FALSE
  <2>1. q = o
    BY <1>12 DEF Alone
  <2>2. PresentPendingForAll(d, exists)
    BY <1>1, <1>2, <1>4, <1>12 DEF PresentPendingForAll, Alone
  <2>3. NothingHeld(d[o], MaybeModeset(d, exists, err)[o])
    BY <1>1, <1>2, <1>4, <2>2, ModesetAll
  <2> QED
    BY <2>1, <2>3 DEF NothingHeld
<1> HIDE DEF m
<1>13. \A q \in Outputs \ exists : Empty(m[q])
  BY <1>1, <1>4, <1>11 DEF FramesPart, Empty
<1>14. Steady => \A q \in exists : SwitchedOn(m[q])
  BY <1>7, <1>10 DEF SwitchedOn
<1> QED
  BY <1>1, <1>9, <1>12, <1>13, <1>14 DEF FramesPart

\* The only output changes.
LEMMA OnlyCounted ==
  ASSUME Shape, Alone, ~Steady, NEW o \in exists, exists' = exists,
         Counted(out'[o]), out'[o].presentPending = FALSE
  PROVE  FramesPart'
<1>1. o \in Outputs /\ exists \subseteq Outputs
  BY DEF Shape
<1>2. \A q \in Outputs : q = o
  BY <1>1 DEF Alone
<1> QED
  BY <1>1, <1>2 DEF FramesPart

\* Its DPMS state changes.
LEMMA SwitchCounted ==
  ASSUME Shape, FramesPart, Alone, ~Steady, NEW o \in Outputs, NEW err, TurnOff(o, err) \/ TurnOn(o, err)
  PROVE  FramesPart'
<1> DEFINE idle == WaitIdle(out, exists)
<1>1. o \in exists /\ exists' = exists
  BY DEF TurnOff, TurnOn
<1>2. /\ out \in States /\ exists \in SUBSET Outputs /\ out[o] \in Records /\ Counted(out[o])
      /\ out[o].presentPending = FALSE /\ out[o].dpmsOn \in BOOLEAN /\ out[o].flip \in BOOLEAN
  BY <1>1 DEF Shape, States, FramesPart, Records
<1>3. CASE TurnOff(o, err)
  <2>1. out' = DpmsOff(o, out, exists, err) /\ out[o].dpmsOn = TRUE
    BY <1>2, <1>3 DEF TurnOff
  <2>2. DpmsOff(o, out, exists, err)[o] = IF err = "None" THEN TurnedOff(idle[o]) ELSE Revert(idle[o])
    BY <1>2, <2>1, DpmsOffFine
  <2>3. /\ idle[o] \in Records /\ idle[o].presentPending = FALSE /\ idle[o].flip = FALSE
        /\ Counted(idle[o])
    <3>1. Held(out[o], idle[o]) /\ idle[o].flip = FALSE /\ Counted(idle[o])
      BY <1>1, <1>2, CountedIdle
    <3> QED
      BY <1>2, <3>1 DEF Held
  <2> HIDE DEF idle
  <2>4. Counted(TurnedOff(idle[o])) /\ TurnedOff(idle[o]).presentPending = FALSE
    BY <2>3, CountedSwitch
  <2>5. Counted(Revert(idle[o])) /\ Revert(idle[o]).presentPending = FALSE
    BY <2>3, CountedCopied DEF Held
  <2>6. out'[o] = TurnedOff(idle[o]) \/ out'[o] = Revert(idle[o])
    BY <2>1, <2>2
  <2> QED
    BY <1>1, <2>4, <2>5, <2>6, OnlyCounted
<1>4. CASE TurnOn(o, err)
  <2>1. out' = [out EXCEPT ![o] = DpmsOn(out[o], err)] /\ out[o].dpmsOn = FALSE
    BY <1>2, <1>4 DEF TurnOn
  <2>2. out'[o] = DpmsOn(out[o], err)
    BY <1>2, <2>1 DEF States
  <2>3. out[o].flip = FALSE
    BY <1>2, <2>1 DEF Counted
  <2>4. Counted(DpmsOn(out[o], err)) /\ DpmsOn(out[o], err).presentPending = FALSE
    BY <1>2, <2>1, <2>3, CountedSwitch
  <2> QED
    BY <1>1, <2>2, <2>4, OnlyCounted
<1> QED
  BY <1>3, <1>4

\* The configuration changes.
LEMMA ConfigCounted ==
  ASSUME Shape, EnvInv, FramesPart, Steady \/ Alone, NEW o \in Outputs, ApplyConfig(o)
  PROVE  FramesPart'
<1>1. o \in exists /\ out[o] \in Records /\ out[o].enabled \in BOOLEAN /\ exists \subseteq Outputs
  BY DEF ApplyConfig, Shape, States, Records
<1>2. \A driven : ModesetVerdicts(out, driven) \subseteq BOOLEAN
  BY DEF ModesetVerdicts
<1>3. Outputs \ exists = {}
  BY <1>1 DEF Steady, Alone, EnvInv
<1>4. AllHeld => FramesPart'
  BY <1>3, AllCounted
<1>5. CASE \E test : \E nm \in BOOLEAN : ConfigRefused(o, test, nm)
  BY <1>1, <1>4, <1>5, RefusedHeld
<1>6. ASSUME NEW enable \in BOOLEAN, NEW nm \in BOOLEAN, NEW on, NEW err,
             ConfigApplied(o, enable, nm, on, err), o \notin Configurable => enable = out[o].enabled
      PROVE  FramesPart'
  <2>1. CASE Steady
    <3>1. \A q \in exists : SwitchedOn(out[q])
      BY <2>1 DEF FramesPart
    <3>2. enable = TRUE
      BY <1>1, <1>6, <2>1, <3>1 DEF Steady, SwitchedOn
    <3>3. ConfigApplied(o, TRUE, nm, on, err)
      BY <1>6, <3>2
    <3> QED
      BY <1>1, <1>4, <3>1, <3>3, AppliedHeld
  <2>2. CASE ~Steady
    <3>1. Counted(out[o]) /\ out[o].presentPending = FALSE /\ Alone
      BY <1>1, <2>2 DEF FramesPart
    <3>2. exists' = exists /\ Counted(out'[o]) /\ out'[o].presentPending = FALSE
      BY <1>1, <1>6, <3>1, AppliedAlone
    <3> QED
      BY <1>1, <2>2, <3>1, <3>2, OnlyCounted
  <2> QED
    BY <2>1, <2>2
<1>7. CASE \E enable \in IF o \in Configurable THEN BOOLEAN ELSE {out[o].enabled} :
             \E nm \in ModesetVerdicts(out, IF enable THEN Enabled(out, exists) \cup {o}
                                            ELSE Enabled(out, exists) \ {o}),
                on \in SUBSET {q \in exists : ~out[q].dpmsOn}, err \in Results :
               ConfigApplied(o, enable, nm, on, err)
  <2>1. PICK enable \in BOOLEAN, nm \in BOOLEAN :
          /\ \E on, err : ConfigApplied(o, enable, nm, on, err)
          /\ o \notin Configurable => enable = out[o].enabled
    BY <1>1, <1>2, <1>7
  <2> QED
    BY <1>6, <2>1
<1>8. \/ \E test : \E nm \in BOOLEAN : ConfigRefused(o, test, nm)
      \/ \E enable \in IF o \in Configurable THEN BOOLEAN ELSE {out[o].enabled} :
             \E nm \in ModesetVerdicts(out, IF enable THEN Enabled(out, exists) \cup {o}
                                            ELSE Enabled(out, exists) \ {o}),
                on \in SUBSET {q \in exists : ~out[q].dpmsOn}, err \in Results :
               ConfigApplied(o, enable, nm, on, err)
  BY <1>2 DEF ApplyConfig
<1> QED
  BY <1>5, <1>7, <1>8

\* Every step, while the session stays in front.
LEMMA StepCounted ==
  ASSUME Steady \/ Alone, SessionPauses = FALSE, CountedInv, [Next]_vars
  PROVE  CountedInv'
<1>1. InhibitInv'
  BY StepInhibits DEF CountedInv, NoneComesPaused
<1>2. Shape /\ EnvInv /\ FramesPart
  BY DEF CountedInv, InhibitInv
<1>3. signals = <<>> /\ SessionPauses # TRUE
  BY <1>2 DEF EnvInv
<1>4. \A o \in exists : Inhibits(out[o], 0)
  BY <1>2 DEF CountedInv, InhibitInv, Paused, EnvInv
<1>5. out' = out /\ exists' = exists => FramesPart'
  BY <1>2 DEF FramesPart
<1>6. ASSUME NEW o \in Outputs, NEW err,
             \/ Request(o) \/ DispatchUnheard(o) \/ PageFlip(o) \/ PresentFrame(o, err)
             \/ \E repaints \in BOOLEAN : TestCommit(o, err, repaints)
      PROVE  FramesPart'
  <2>1. OneHeld(o) /\ o \in exists
    BY <1>2, <1>6, FrameHeld
  <2>2. PICK q : /\ out' = [out EXCEPT ![o] = q] /\ Held(out[o], q) /\ exists' = exists
                 /\ Counted(out[o]) /\ Inhibits(out[o], 0) => Counted(q)
    BY <2>1 DEF OneHeld
  <2>3. Counted(q) /\ (Steady => SwitchedOn(q)) /\ (Alone => q.presentPending = FALSE)
    BY <1>2, <1>4, <2>1, <2>2 DEF FramesPart, Held
  <2> QED
    BY <1>2, <2>1, <2>2, <2>3, OneCounted
<1>7. ASSUME NEW o \in Outputs, NEW err, PresentModeset(o, err) PROVE FramesPart'
  <2>1. o \in exists
    BY <1>7 DEF PresentModeset
  <2> QED
    BY <1>2, <1>4, <1>7, <2>1, ModesetCounted
<1>8. ASSUME NEW o \in Outputs, NEW err, TurnOff(o, err) \/ TurnOn(o, err) PROVE FramesPart'
  <2>1. ~Steady
    BY <1>8 DEF TurnOff, TurnOn, Steady
  <2> QED
    BY <1>2, <1>8, <2>1, SwitchCounted
<1>9. ASSUME NEW o \in Outputs, ApplyConfig(o) PROVE FramesPart'
  BY <1>2, <1>9, ConfigCounted
<1>10. ASSUME NEW o \in Outputs, NEW p, Hotplug(o, p) PROVE FramesPart'
  BY <1>5, <1>10 DEF Hotplug
<1>11. UdevChange \/ RetryUpdate => FramesPart'
  BY <1>2, <1>5, UpdateCounted DEF UdevChange, RetryUpdate
<1>12. ~SwitchSession /\ ~DevicePaused /\ ~DeviceResumed
  BY <1>3 DEF SwitchSession, DevicePaused, DeviceResumed
<1>13. UNCHANGED vars => FramesPart'
  BY <1>5 DEF vars
<1>14. FramesPart'
  BY <1>6, <1>7, <1>8, <1>9, <1>10, <1>11, <1>12, <1>13 DEF Next
<1> QED
  BY <1>1, <1>14 DEF CountedInv

\* Every frame a loop counts is with the kernel or held back for a modeset,
\* and no other is, while the session stays in front: for any outputs that
\* stay on, and for a single output that is switched off and on, unplugged
\* and configured.  So no frame is answered twice and none is forgotten.
THEOREM FramesCounted ==
  ASSUME Steady \/ Alone, SessionPauses = FALSE
  PROVE  Spec => []FramesAccounted
<1>1. Init => CountedInv
  <2> SUFFICES ASSUME Init PROVE CountedInv
    OBVIOUS
  <2>1. /\ InhibitInv /\ exists = Outputs
        /\ \A o \in Outputs : /\ out[o].loop.pendingFrameCount = 0 /\ out[o].flip = FALSE
                              /\ out[o].presentPending = FALSE /\ SwitchedOn(out[o])
    BY InitRecord, InitInhibits DEF SwitchedOn
  <2>2. \A o \in Outputs : Counted(out[o])
    BY <2>1 DEF Counted
  <2> QED
    BY <2>1, <2>2 DEF CountedInv, FramesPart
<1>2. CountedInv /\ [Next]_vars => CountedInv'
  BY StepCounted
<1>3. CountedInv => FramesAccounted
  <2> SUFFICES ASSUME CountedInv, NEW o \in exists
               PROVE  out[o].loop.pendingFrameCount = One(out[o].flip) + One(out[o].presentPending)
    BY DEF FramesAccounted
  <2>1. out[o] \in Records /\ Counted(out[o])
    BY DEF CountedInv, InhibitInv, FramesPart, Shape, States
  <2>2. out[o].flip \in BOOLEAN /\ out[o].presentPending \in BOOLEAN
    BY <2>1 DEF Records
  <2>3. /\ One(out[o].flip) = IF out[o].flip = TRUE THEN 1 ELSE 0
        /\ One(out[o].presentPending) = IF out[o].presentPending = TRUE THEN 1 ELSE 0
    BY <2>2 DEF One
  <2> QED
    BY <2>1, <2>3 DEF Counted
<1> QED
  BY <1>1, <1>2, <1>3, PTL DEF Spec
=============================================================================
