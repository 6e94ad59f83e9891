------------------------- MODULE X11FenceRingProofs -------------------------
(***************************************************************************)
(* The ring of fences comes round with a free fence, a fence is signalled  *)
(* only by the trigger of its round and is not reset while the GPU waits   *)
(* for it, for every ring of at least three and every lag the ring allows. *)
(***************************************************************************)
EXTENDS X11FenceRing, SequenceTheorems, TLAPS

RingType ==
  /\ manager \in BOOLEAN
  /\ fences \in [Fences -> States]
  /\ m_next \in Fences
  /\ currentFence \in Fences \cup {NoFence}
  /\ phase \in {"idle", "frame", "end", "destroy"}
  /\ index \in Nat

\* The fence i places after the one that is next.
At(i) == (m_next + i) % MaxFences

Free(f) == fences[f] \in {"Ready", "Resetting"}

\* Where KWin is in a frame, and how many of the fences ahead are free:
\* two between frames, one once a frame has taken its own, and in endFrame()
\* those the loop has been at.
AheadInv ==
  manager =>
    /\ phase = "idle" => currentFence = NoFence /\ Free(At(0)) /\ Free(At(1))
    /\ phase = "frame" =>
         /\ Free(At(0))
         /\ currentFence = NoFence => Free(At(1))
         /\ currentFence # NoFence => currentFence \notin {At(0), At(1)}
    /\ phase = "end" =>
         /\ index > 0 => Free(At(0))
         /\ index > 1 => Free(At(1))

RingInv == RingType /\ AheadInv

\* The positions of the ring, without the remainder.
LEMMA Positions ==
  ASSUME NEW m \in Fences
  PROVE  /\ m % MaxFences = m /\ (m + 0) % MaxFences = m
         /\ (m + 1) % MaxFences = IF m + 1 = MaxFences THEN 0 ELSE m + 1
         /\ (m + 1) % MaxFences \in Fences /\ MaxFences \in Nat
BY RingAssumption, Z3 DEF Fences

\* Consecutive positions differ, and so do those two apart.
LEMMA NextPositions ==
  ASSUME NEW m \in Fences, NEW n \in Fences, n = (m + 1) % MaxFences
  PROVE  /\ (n + 0) % MaxFences = (m + 1) % MaxFences
         /\ m # n /\ m # (n + 1) % MaxFences /\ n # (n + 1) % MaxFences
<1>1. n = IF m + 1 = MaxFences THEN 0 ELSE m + 1
  BY Positions
<1>2. (n + 1) % MaxFences = IF n + 1 = MaxFences THEN 0 ELSE n + 1
  BY Positions
<1>3. (n + 0) % MaxFences = n
  BY Positions
<1> QED
  BY <1>1, <1>2, <1>3, RingAssumption DEF Fences

\* The invariant holds in a new ring.
LEMMA InitRing == Init => RingInv
<1> SUFFICES ASSUME Init PROVE RingInv
  OBVIOUS
<1>1. RingType
  BY RingAssumption DEF Init, RingType, NewFences, States, Fences
<1>2. At(0) \in Fences /\ At(1) \in Fences
  BY <1>1, Positions DEF At, RingType
<1> QED
  BY <1>1, <1>2 DEF Init, RingInv, AheadInv, Free, NewFences

\* Triggering a fence changes no other.
LEMMA TriggerFact ==
  ASSUME RingType, NEW f \in Fences, Trigger(f)
  PROVE  /\ fences' \in [Fences -> States]
         /\ \A g \in Fences \ {f} : fences'[g] = fences[g]
BY DEF RingType, Trigger, States

\* A frame takes its fence, and the next one is still free.
LEMMA TriggerFenceRing ==
  ASSUME RingInv, TriggerFence
  PROVE  RingInv'
<1>1. /\ manager' = manager /\ manager /\ phase = "idle" /\ phase' = "frame"
      /\ currentFence' = m_next /\ m_next' = (m_next + 1) % MaxFences /\ index' = index
      /\ Trigger(m_next)
  BY DEF TriggerFence
<1>2. RingType /\ m_next \in Fences
  BY DEF RingInv, RingType
<1>3. m_next' \in Fences
  BY <1>1, <1>2, Positions
<1>4. /\ fences' \in [Fences -> States]
      /\ \A g \in Fences \ {m_next} : fences'[g] = fences[g]
  BY <1>1, <1>2, TriggerFact
<1>5. RingType'
  BY <1>1, <1>2, <1>3, <1>4 DEF RingType
<1>6. Free(At(1))
  BY <1>1 DEF RingInv, AheadInv
<1>7. At(0)' = At(1) /\ At(1) \in Fences /\ m_next # At(1)
      /\ m_next \notin {At(0)', At(1)'}
  BY <1>1, <1>2, <1>3, NextPositions, Positions DEF At
<1>8. Free(At(0))'
  BY <1>4, <1>6, <1>7 DEF Free
<1>9. NoFence # m_next
  BY <1>2, RingAssumption
<1> QED
  BY <1>1, <1>5, <1>7, <1>8, <1>9 DEF RingInv, AheadInv

\* The rest of a frame touches no fence but its own.
LEMMA FrameRing ==
  ASSUME RingInv, FrameWithoutFence \/ InsertWait \/ EndFrame
  PROVE  RingInv'
<1>1. RingType /\ m_next \in Fences /\ manager' = manager /\ m_next' = m_next
      /\ currentFence' = currentFence /\ At(0)' = At(0) /\ At(1)' = At(1)
  BY DEF RingInv, RingType, FrameWithoutFence, InsertWait, EndFrame, ring, At
<1>2. At(0) \in Fences /\ At(1) \in Fences
  BY <1>1, Positions DEF At
<1>3. CASE FrameWithoutFence
  <2>1. phase = "idle" /\ phase' = "frame" /\ fences' = fences /\ index' = index
    BY <1>3 DEF FrameWithoutFence, ring
  <2> QED
    BY <1>1, <2>1 DEF RingInv, RingType, AheadInv, Free
<1>4. CASE InsertWait
  <2>1. /\ phase = "frame" /\ manager /\ currentFence # NoFence /\ phase' = phase /\ index' = index
        /\ fences' = [fences EXCEPT ![currentFence] = "Waiting"]
    BY <1>4 DEF InsertWait
  <2>2. fences' \in [Fences -> States] /\ \A g \in Fences \ {currentFence} : fences'[g] = fences[g]
    BY <1>1, <2>1 DEF RingType, States
  <2>3. Free(At(0)) /\ currentFence \notin {At(0), At(1)}
    BY <2>1 DEF RingInv, AheadInv
  <2>4. Free(At(0))'
    BY <1>1, <1>2, <2>2, <2>3 DEF Free
  <2> QED
    BY <1>1, <2>1, <2>2, <2>3, <2>4 DEF RingInv, RingType, AheadInv
<1>5. CASE EndFrame
  <2>1. /\ phase = "frame" /\ index' = 0 /\ fences' = fences
        /\ phase' = IF manager /\ currentFence # NoFence THEN "end" ELSE "idle"
    BY <1>5 DEF EndFrame, ring
  <2> QED
    BY <1>1, <2>1 DEF RingInv, RingType, AheadInv, Free
<1> QED
  BY <1>3, <1>4, <1>5

\* The loop of endFrame() frees the fence it is at and no other is changed.
LEMMA EndOfFenceRing ==
  ASSUME RingInv, EndOfFence
  PROVE  RingInv'
<1>1. /\ RingType /\ m_next \in Fences /\ manager' = manager /\ m_next' = m_next
      /\ currentFence' = currentFence /\ At(0)' = At(0) /\ At(1)' = At(1)
      /\ phase = "end" /\ phase' = phase /\ index' = index + 1 /\ index \in Nat
      /\ index < Lookahead
  BY DEF RingInv, RingType, EndOfFence, At
<1>2. index \in {0, 1}
  BY <1>1, RingAssumption DEF Lookahead
<1>3. EndFence = At(index) /\ At(0) \in Fences /\ At(1) \in Fences
  BY <1>1, Positions DEF At, EndFence
<1>4. EndFence \in Fences
  BY <1>2, <1>3
<1>5. /\ fences' \in [Fences -> States] /\ fences'[EndFence] \in {"Ready", "Resetting"}
      /\ \A g \in Fences \ {EndFence} : fences'[g] = fences[g]
  BY <1>1, <1>4 DEF EndOfFence, FinishAndReset, FinishResetting, RingType, States
<1>6. RingType'
  BY <1>1, <1>5 DEF RingType
<1>7. CASE index = 0
  BY <1>1, <1>3, <1>5, <1>6, <1>7 DEF RingInv, AheadInv, Free
<1>8. CASE index = 1
  <2>1. manager => Free(At(0))
    BY <1>1, <1>8 DEF RingInv, AheadInv
  <2>2. Free(At(1))' /\ (manager => Free(At(0))')
    BY <1>1, <1>3, <1>5, <1>8, <2>1 DEF Free
  <2> QED
    BY <1>1, <1>6, <2>2 DEF RingInv, AheadInv
<1> QED
  BY <1>2, <1>7, <1>8

\* endFrame() leaves two free fences ahead.
LEMMA EndFrameDoneRing ==
  ASSUME RingInv, EndFrameDone
  PROVE  RingInv'
<1>1. /\ phase = "end" /\ phase' = "idle" /\ index >= Lookahead /\ currentFence' = NoFence
      /\ UNCHANGED <<manager, fences, m_next, index>>
      /\ At(0)' = At(0) /\ At(1)' = At(1)
  BY DEF EndFrameDone, At
<1>2. index > 0 /\ index > 1
  BY <1>1, RingAssumption DEF Lookahead, RingInv, RingType
<1> QED
  BY <1>1, <1>2 DEF RingInv, RingType, AheadInv, Free

\* The destruction of the manager, and its start.
LEMMA DestroyRing ==
  ASSUME RingInv,
         Stop \/ FinishTimeout \/ TriggerForDeletion \/ DeleteFence \/ ManagerDeleted
  PROVE  RingInv'
<1>1. CASE Stop \/ FinishTimeout
  BY <1>1 DEF Stop, FinishTimeout, ring, RingInv, RingType, AheadInv
<1>2. CASE TriggerForDeletion
  <2>1. index \in Fences /\ RingType
    BY <1>2, RingAssumption DEF TriggerForDeletion, RingInv, RingType, Fences
  <2>2. fences' \in [Fences -> States]
    BY <1>2, <2>1, TriggerFact DEF TriggerForDeletion
  <2> QED
    BY <1>2, <2>2 DEF TriggerForDeletion, RingInv, RingType, AheadInv
<1>3. CASE DeleteFence
  BY <1>3 DEF DeleteFence, ring, RingInv, RingType, AheadInv
<1>4. CASE ManagerDeleted
  BY <1>4 DEF ManagerDeleted, RingInv, RingType, AheadInv
<1> QED
  BY <1>1, <1>2, <1>3, <1>4

\* A new manager has a new ring.
LEMMA StartRing ==
  ASSUME RingInv, Start
  PROVE  RingInv'
<1>1. RingType'
  BY RingAssumption DEF Start, RingInv, RingType, NewFences, States, Fences
<1>2. m_next' \in Fences
  BY <1>1 DEF RingType
<1>3. At(0)' \in Fences /\ At(1)' \in Fences
  BY <1>2, Positions DEF At
<1> QED
  BY <1>1, <1>3 DEF Start, RingInv, AheadInv, Free, NewFences

\* Every step keeps the invariant of the ring.
LEMMA StepRing ==
  ASSUME RingInv, [Next]_vars
  PROVE  RingInv'
<1>1. CASE ServerStep \/ GpuStep \/ UNCHANGED vars
  BY <1>1 DEF ServerStep, GpuStep, vars, ring, RingInv, RingType, AheadInv, Free, At
<1> QED
  BY <1>1, TriggerFenceRing, FrameRing, EndOfFenceRing, EndFrameDoneRing, DestroyRing,
     StartRing DEF Next

\* The ring never comes round to a fence that is still triggered: the first
\* assertion of X11SyncObject::trigger holds in every frame, for every size
\* of the ring the assumption allows, however slow the X server and the GPU
\* are and whenever the compositor is stopped.
THEOREM FreeFenceFound == Spec => []TriggerFindsFreeFence
<1>1. RingInv /\ [Next]_vars => RingInv'
  BY StepRing
<1>2. RingInv => TriggerFindsFreeFence
  <2> SUFFICES ASSUME RingInv, phase = "idle", manager
               PROVE  fences[m_next] \in {"Ready", "Resetting"}
    BY DEF TriggerFindsFreeFence
  <2>1. At(0) = m_next
    BY Positions DEF At, RingInv, RingType
  <2> QED
    BY <2>1 DEF RingInv, AheadInv, Free
<1> QED
  BY <1>1, <1>2, InitRing, PTL DEF Spec

-----------------------------------------------------------------------------
(* The requests under way.                                                 *)

Requests == {"trigger", "reset"} \X Fences

QueueType == queue \in Seq(Requests) /\ signalled \subseteq Fences

Triggered(f) == fences[f] \in {"TriggerSent", "Waiting"}

\* What KWin believes of a fence, the server's state and the request under
\* way agree: a fence is what its last request makes of it.
FenceInv(f) ==
  /\ fences[f] = "Ready" =>
       f \notin signalled /\ ~Queued("trigger", f) /\ ~Queued("reset", f)
  /\ Triggered(f) =>
       ~Queued("reset", f) /\ (f \in signalled <=> ~Queued("trigger", f))
  /\ fences[f] = "Resetting" =>
       ~Queued("trigger", f) /\ (f \in signalled <=> Queued("reset", f))

\* A fence has at most one request under way.
OneRequest == \A i, j \in DOMAIN queue : queue[i][2] = queue[j][2] => i = j

\* The fences that are deleted have been triggered.
DeletedInv ==
  phase = "destroy" =>
    manager = TRUE /\ \A f \in Fences : f < index => Triggered(f) /\ f \in signalled

\* A manager that is deleted has left no request behind.
NoManagerInv == ~manager => queue = <<>> /\ phase \in {"idle", "frame"}

ServerInv ==
  /\ QueueType /\ OneRequest /\ NoManagerInv /\ DeletedInv
  /\ manager => \A f \in Fences : FenceInv(f)

\* A request is appended to the queue of a connection.
LEMMA AppendRequest ==
  ASSUME QueueType, NEW o \in {"trigger", "reset"}, NEW g \in Fences,
         queue' = Append(queue, <<o, g>>)
  PROVE  /\ queue' \in Seq(Requests)
         /\ \A p : \A f \in Fences : Queued(p, f)' <=> Queued(p, f) \/ (p = o /\ f = g)
         /\ OneRequest /\ ~Queued("trigger", g) /\ ~Queued("reset", g) => OneRequest'
<1>1. <<o, g>> \in Requests /\ queue \in Seq(Requests)
  BY DEF Requests, QueueType
<1>2. /\ queue' \in Seq(Requests) /\ Len(queue') = Len(queue) + 1
      /\ \A i \in 1..Len(queue) : queue'[i] = queue[i]
      /\ queue'[Len(queue) + 1] = <<o, g>>
  BY <1>1
<1>3. DOMAIN queue = 1..Len(queue) /\ DOMAIN queue' = 1..Len(queue) + 1 /\ Len(queue) \in Nat
  BY <1>1, <1>2, LenProperties
<1>4. ASSUME NEW p, NEW f \in Fences
      PROVE  Queued(p, f)' <=> Queued(p, f) \/ (p = o /\ f = g)
  BY <1>2, <1>3 DEF Queued
<1>5. ASSUME OneRequest, ~Queued("trigger", g), ~Queued("reset", g)
      PROVE  OneRequest'
  <2>1. ASSUME NEW i \in 1..Len(queue)
        PROVE  queue[i][2] # g
    <3>1. queue[i] \in Requests
      BY <1>1, <2>1
    <3> QED
      BY <1>3, <1>5, <2>1, <3>1 DEF Queued, Requests
  <2> QED
    BY <1>2, <1>3, <1>5, <2>1 DEF OneRequest
<1> QED
  BY <1>2, <1>4, <1>5

\* The server takes the first request.
LEMMA TakeRequest ==
  ASSUME QueueType, OneRequest, queue # <<>>, queue' = Tail(queue)
  PROVE  /\ Head(queue)[1] \in {"trigger", "reset"} /\ Head(queue)[2] \in Fences
         /\ queue' \in Seq(Requests) /\ OneRequest'
         /\ Queued(Head(queue)[1], Head(queue)[2])
         /\ \A p : \A f \in Fences : Queued(p, f)' <=> Queued(p, f) /\ f # Head(queue)[2]
<1>1. /\ queue \in Seq(Requests) /\ queue' \in Seq(Requests) /\ Len(queue) \in Nat \ {0}
      /\ Len(queue') = Len(queue) - 1 /\ \A i \in 1..Len(queue') : queue'[i] = queue[i + 1]
      /\ Head(queue) = queue[1]
  BY HeadTailProperties, EmptySeq, LenProperties DEF QueueType
<1>2. DOMAIN queue = 1..Len(queue) /\ DOMAIN queue' = 1..Len(queue')
  BY <1>1, LenProperties
<1>3. Head(queue) \in Requests
  BY <1>1
<1>4. /\ Head(queue)[1] \in {"trigger", "reset"} /\ Head(queue)[2] \in Fences
      /\ Head(queue) = <<Head(queue)[1], Head(queue)[2]>>
  BY <1>3 DEF Requests
<1>5. Queued(Head(queue)[1], Head(queue)[2])
  BY <1>1, <1>2, <1>4 DEF Queued
<1>6. OneRequest'
  BY <1>1, <1>2 DEF OneRequest
<1>7. ASSUME NEW p, NEW f \in Fences
      PROVE  Queued(p, f)' <=> Queued(p, f) /\ f # Head(queue)[2]
  <2>1. ASSUME Queued(p, f)' PROVE Queued(p, f) /\ f # Head(queue)[2]
    <3>1. PICK i \in 1..Len(queue') : queue'[i] = <<p, f>>
      BY <1>2, <2>1 DEF Queued
    <3>2. queue[i + 1] = <<p, f>> /\ i + 1 \in 1..Len(queue) /\ 1 \in 1..Len(queue) /\ i + 1 # 1
      BY <1>1, <3>1
    <3>3. queue[i + 1][2] = f
      BY <3>2
    <3> QED
      BY <1>1, <1>2, <3>2, <3>3 DEF Queued, OneRequest
  <2>2. ASSUME Queued(p, f), f # Head(queue)[2] PROVE Queued(p, f)'
    <3>1. PICK i \in 1..Len(queue) : queue[i] = <<p, f>>
      BY <1>2, <2>2 DEF Queued
    <3>2. i # 1
      BY <1>1, <2>2, <3>1
    <3>3. i - 1 \in 1..Len(queue') /\ queue'[i - 1] = <<p, f>>
      BY <1>1, <3>1, <3>2
    <3> QED
      BY <1>2, <3>3 DEF Queued
  <2> QED
    BY <2>1, <2>2
<1> QED
  BY <1>1, <1>4, <1>5, <1>6, <1>7

\* Triggering a fence that is free.
LEMMA TriggerServer ==
  ASSUME RingType, QueueType, OneRequest, NEW g \in Fences, Free(g), Trigger(g),
         signalled' = signalled, \A f \in Fences : FenceInv(f)
  PROVE  /\ QueueType' /\ OneRequest'
         /\ \A f \in Fences : FenceInv(f)'
         /\ Triggered(g)' /\ \A f \in Fences : Triggered(f) => Triggered(f)'
<1>1. /\ queue' = Append(queue, <<"trigger", g>>)
      /\ fences' = [fences EXCEPT ![g] = "TriggerSent"]
      /\ fences[g] = "Resetting" => ~Queued("reset", g)
  BY DEF Trigger, ResetProcessed
<1>2. ~Queued("trigger", g) /\ ~Queued("reset", g) /\ g \notin signalled
  BY <1>1 DEF FenceInv, Free
<1>3. /\ queue' \in Seq(Requests) /\ OneRequest'
      /\ \A p : \A f \in Fences : Queued(p, f)' <=> Queued(p, f) \/ (p = "trigger" /\ f = g)
  BY <1>1, <1>2, AppendRequest
<1>4. fences'[g] = "TriggerSent" /\ \A f \in Fences : f # g => fences'[f] = fences[f]
  BY <1>1 DEF RingType
<1>5. ASSUME NEW f \in Fences PROVE FenceInv(f)'
  BY <1>2, <1>3, <1>4 DEF FenceInv, Triggered
<1> QED
  BY <1>3, <1>4, <1>5 DEF QueueType, Triggered

\* A step that changes neither a fence nor a request.
LEMMA SameFences ==
  ASSUME ServerInv, fences' = fences, queue' = queue, signalled' = signalled
  PROVE  /\ QueueType' /\ OneRequest'
         /\ manager => \A f \in Fences : FenceInv(f)'
         /\ \A f \in Fences : Triggered(f) => Triggered(f)'
BY DEF ServerInv, QueueType, OneRequest, FenceInv, Triggered, Queued

\* The steps of a frame keep the requests in order.
LEMMA FrameServer ==
  ASSUME RingInv, ServerInv, TriggerFence \/ FrameWithoutFence \/ InsertWait \/ EndFrame
  PROVE  ServerInv'
<1>1. CASE TriggerFence
  <2>1. /\ phase = "idle" /\ manager /\ manager' = manager /\ phase' = "frame"
        /\ Trigger(m_next) /\ signalled' = signalled
    BY <1>1 DEF TriggerFence
  <2>2. m_next \in Fences /\ At(0) = m_next /\ RingType
    BY Positions DEF At, RingInv, RingType
  <2>3. Free(m_next)
    BY <2>1, <2>2 DEF RingInv, AheadInv
  <2>4. QueueType' /\ OneRequest' /\ \A f \in Fences : FenceInv(f)'
    BY <2>1, <2>2, <2>3, TriggerServer DEF ServerInv
  <2> QED
    BY <2>1, <2>4 DEF ServerInv, NoManagerInv, DeletedInv
<1>2. CASE FrameWithoutFence \/ EndFrame
  <2>1. /\ manager' = manager /\ fences' = fences /\ queue' = queue /\ signalled' = signalled
        /\ phase' # "destroy" /\ (manager = FALSE => phase' \in {"idle", "frame"})
    BY <1>2 DEF FrameWithoutFence, EndFrame, ring
  <2> QED
    BY <2>1, SameFences DEF ServerInv, NoManagerInv, DeletedInv, RingInv, RingType
<1>3. CASE InsertWait
  <2>1. /\ manager' = manager /\ manager /\ queue' = queue /\ signalled' = signalled
        /\ phase' = "frame" /\ currentFence \in Fences /\ fences[currentFence] = "TriggerSent"
        /\ fences' = [fences EXCEPT ![currentFence] = "Waiting"]
    BY <1>3 DEF InsertWait, RingInv, RingType
  <2>2. fences'[currentFence] = "Waiting" /\ \A f \in Fences : f # currentFence => fences'[f] = fences[f]
    BY <2>1 DEF RingInv, RingType
  <2>3. ASSUME NEW f \in Fences PROVE FenceInv(f)'
    BY <2>1, <2>2 DEF ServerInv, FenceInv, Triggered, Queued
  <2> QED
    BY <2>1, <2>3 DEF ServerInv, NoManagerInv, DeletedInv, QueueType, OneRequest
<1> QED
  BY <1>1, <1>2, <1>3

\* endFrame() resets a fence only once it is signalled.
LEMMA EndServer ==
  ASSUME RingInv, ServerInv, EndOfFence \/ EndFrameDone
  PROVE  ServerInv'
<1>1. CASE EndOfFence
  <2>1. /\ manager' = manager /\ signalled' = signalled /\ phase = "end" /\ phase' = "end"
        /\ index \in Nat /\ index < Lookahead /\ m_next \in Fences /\ RingType
    BY <1>1 DEF EndOfFence, RingInv, RingType
  <2>2. index \in {0, 1}
    BY <2>1, RingAssumption DEF Lookahead
  <2>3. EndFence \in Fences
    BY <2>1, <2>2, Positions DEF EndFence
  <2>4. manager = TRUE
    BY <2>1 DEF ServerInv, NoManagerInv, RingType
  <2> DEFINE g == EndFence
  <2>5. FenceInv(g)
    BY <2>3, <2>4 DEF ServerInv
  <2>6. CASE FinishAndReset
    <3>1. /\ Triggered(g) /\ g \in signalled /\ fences' = [fences EXCEPT ![g] = "Resetting"]
          /\ queue' = Append(queue, <<"reset", g>>)
      BY <2>6 DEF FinishAndReset, Triggered
    <3>2. ~Queued("trigger", g) /\ ~Queued("reset", g) /\ QueueType /\ OneRequest
      BY <2>5, <3>1 DEF FenceInv, ServerInv
    <3>3. /\ queue' \in Seq(Requests) /\ OneRequest'
          /\ \A p : \A f \in Fences : Queued(p, f)' <=> Queued(p, f) \/ (p = "reset" /\ f = g)
      BY <2>3, <3>1, <3>2, AppendRequest
    <3>4. fences'[g] = "Resetting" /\ \A f \in Fences : f # g => fences'[f] = fences[f]
      BY <2>1, <2>3, <3>1 DEF RingType
    <3> HIDE DEF g
    <3>5. ASSUME NEW f \in Fences PROVE FenceInv(f)'
      BY <2>1, <2>4, <3>1, <3>2, <3>3, <3>4 DEF ServerInv, FenceInv, Triggered
    <3> QED
      BY <2>1, <2>4, <3>2, <3>3, <3>5 DEF ServerInv, NoManagerInv, DeletedInv, QueueType
  <2>7. CASE FinishResetting
    <3>1. /\ fences[g] = "Resetting" /\ ~Queued("reset", g) /\ queue' = queue
          /\ fences' = [fences EXCEPT ![g] = "Ready"]
      BY <2>7 DEF FinishResetting, ResetProcessed
    <3>2. ~Queued("trigger", g) /\ g \notin signalled
      BY <2>5, <3>1 DEF FenceInv
    <3>3. fences'[g] = "Ready" /\ \A f \in Fences : f # g => fences'[f] = fences[f]
      BY <2>1, <2>3, <3>1 DEF RingType
    <3> HIDE DEF g
    <3>4. ASSUME NEW f \in Fences PROVE FenceInv(f)'
      BY <2>1, <2>4, <3>1, <3>2, <3>3 DEF ServerInv, FenceInv, Triggered, Queued
    <3> QED
      BY <2>1, <2>4, <3>1, <3>4 DEF ServerInv, NoManagerInv, DeletedInv, QueueType, OneRequest
  <2>8. CASE UNCHANGED <<fences, queue>>
    BY <2>1, <2>4, <2>8, SameFences DEF ServerInv, NoManagerInv, DeletedInv
  <2> QED
    BY <1>1, <2>6, <2>7, <2>8 DEF EndOfFence
<1>2. CASE EndFrameDone
  <2>1. /\ manager' = manager /\ fences' = fences /\ queue' = queue /\ signalled' = signalled
        /\ phase' = "idle"
    BY <1>2 DEF EndFrameDone
  <2> QED
    BY <2>1, SameFences DEF ServerInv, NoManagerInv, DeletedInv
<1> QED
  BY <1>1, <1>2

\* The destruction of the manager: no request is left when it is over.
LEMMA DestroyServer ==
  ASSUME RingInv, ServerInv,
         Stop \/ FinishTimeout \/ TriggerForDeletion \/ DeleteFence \/ ManagerDeleted
  PROVE  ServerInv'
<1>1. CASE Stop \/ FinishTimeout
  <2>1. /\ manager' = manager /\ fences' = fences /\ queue' = queue /\ signalled' = signalled
        /\ phase' = "destroy" /\ index' = 0
    BY <1>1 DEF Stop, FinishTimeout, ring
  <2>2. manager = TRUE
    BY <1>1 DEF Stop, FinishTimeout, ServerInv, NoManagerInv, RingInv, RingType
  <2>3. \A f \in Fences : ~(f < 0)
    BY RingAssumption DEF Fences
  <2> QED
    BY <2>1, <2>2, <2>3, SameFences DEF ServerInv, NoManagerInv, DeletedInv
<1>2. CASE TriggerForDeletion
  <2>1. /\ phase = "destroy" /\ phase' = phase /\ index' = index /\ manager' = manager
        /\ Trigger(index) /\ Free(index) /\ signalled' = signalled
    BY <1>2 DEF TriggerForDeletion, Free
  <2>2. index \in Fences /\ RingType /\ manager = TRUE
    BY <1>2, <2>1, RingAssumption DEF TriggerForDeletion, RingInv, RingType, Fences, ServerInv, DeletedInv
  <2>3. /\ QueueType' /\ OneRequest' /\ \A f \in Fences : FenceInv(f)'
        /\ \A f \in Fences : Triggered(f) => Triggered(f)'
    BY <2>1, <2>2, TriggerServer DEF ServerInv
  <2> QED
    BY <2>1, <2>2, <2>3 DEF ServerInv, NoManagerInv, DeletedInv
<1>3. CASE DeleteFence
  <2>1. /\ phase = "destroy" /\ phase' = phase /\ index' = index + 1 /\ manager' = manager
        /\ Triggered(index) /\ index \in signalled
        /\ fences' = fences /\ queue' = queue /\ signalled' = signalled
    BY <1>3 DEF DeleteFence, Triggered, ring
  <2>2. index \in Nat /\ manager = TRUE
    BY <2>1 DEF RingInv, RingType, ServerInv, DeletedInv
  <2>3. \A f \in Fences : f < index + 1 => f < index \/ f = index
    BY <2>2, RingAssumption DEF Fences
  <2>4. \A f \in Fences : f < index' => Triggered(f) /\ f \in signalled
    BY <2>1, <2>3 DEF ServerInv, DeletedInv
  <2> QED
    BY <2>1, <2>2, <2>4, SameFences DEF ServerInv, NoManagerInv, DeletedInv
<1>4. CASE ManagerDeleted
  <2>1. /\ phase = "destroy" /\ index = MaxFences /\ manager' = FALSE /\ phase' = "idle"
        /\ fences' = fences /\ queue' = queue /\ signalled' = signalled
    BY <1>4 DEF ManagerDeleted
  <2>2. \A f \in Fences : f < MaxFences
    BY RingAssumption DEF Fences
  <2>3. \A f \in Fences : ~Queued("trigger", f) /\ ~Queued("reset", f)
    BY <2>1, <2>2 DEF ServerInv, DeletedInv, FenceInv, Triggered
  <2>4. queue = <<>>
    <3>1. SUFFICES ASSUME queue # <<>> PROVE FALSE
      OBVIOUS
    <3>2. queue \in Seq(Requests)
      BY DEF ServerInv, QueueType
    <3>3. Len(queue) \in Nat \ {0} /\ DOMAIN queue = 1..Len(queue)
      BY <3>1, <3>2, EmptySeq, LenProperties
    <3>4. 1 \in DOMAIN queue /\ queue[1] \in Requests
      BY <3>2, <3>3
    <3> QED
      BY <2>3, <3>4 DEF Queued, Requests
  <2> QED
    BY <2>1, <2>4, SameFences DEF ServerInv, NoManagerInv, DeletedInv
<1> QED
  BY <1>1, <1>2, <1>3, <1>4

\* A new manager finds no request of the old one.
LEMMA StartServer ==
  ASSUME RingInv, ServerInv, Start
  PROVE  ServerInv'
<1>1. /\ phase = "idle" /\ manager = FALSE /\ manager' = TRUE /\ fences' = NewFences
      /\ signalled' = {} /\ phase' = phase /\ queue' = queue /\ queue = <<>>
  BY DEF Start, ServerInv, NoManagerInv, RingInv, RingType
<1>2. DOMAIN queue' = {}
  BY <1>1
<1>3. ASSUME NEW f \in Fences PROVE FenceInv(f)'
  BY <1>1, <1>2 DEF FenceInv, Triggered, Queued, NewFences
<1> QED
  BY <1>1, <1>2, <1>3 DEF ServerInv, NoManagerInv, DeletedInv, QueueType, OneRequest

\* The server serves the request of a fence KWin still waits for.
LEMMA ServerServer ==
  ASSUME RingInv, ServerInv, ServerStep
  PROVE  ServerInv'
<1> DEFINE op == Head(queue)[1]
           g == Head(queue)[2]
<1>1. /\ queue # <<>> /\ queue' = Tail(queue)
      /\ signalled' = IF op = "trigger" THEN signalled \cup {g} ELSE signalled \ {g}
      /\ fences' = fences /\ manager' = manager /\ phase' = phase /\ index' = index
  BY DEF ServerStep, ring
<1>2. manager = TRUE /\ QueueType /\ OneRequest /\ \A f \in Fences : FenceInv(f)
  BY <1>1 DEF ServerInv, NoManagerInv, RingInv, RingType
<1>3. /\ op \in {"trigger", "reset"} /\ g \in Fences
      /\ queue' \in Seq(Requests) /\ OneRequest' /\ Queued(op, g)
      /\ \A p : \A f \in Fences : Queued(p, f)' <=> Queued(p, f) /\ f # g
  BY <1>1, <1>2, TakeRequest
<1> HIDE DEF op, g
<1>4. op = "trigger" => Triggered(g)
  BY <1>2, <1>3 DEF FenceInv, Triggered, RingInv, RingType, States
<1>5. op = "reset" => fences[g] = "Resetting"
  BY <1>2, <1>3 DEF FenceInv, Triggered, RingInv, RingType, States
<1>6. \A f \in Fences : f # g => (f \in signalled' <=> f \in signalled)
  BY <1>1
<1>7. (op = "trigger" => g \in signalled') /\ (op = "reset" => g \notin signalled')
  BY <1>1, <1>3
<1>8. ASSUME NEW f \in Fences PROVE FenceInv(f)'
  BY <1>1, <1>2, <1>3, <1>4, <1>5, <1>6, <1>7 DEF FenceInv, Triggered
<1>9. DeletedInv'
  BY <1>1, <1>3, <1>5, <1>6, <1>7 DEF ServerInv, DeletedInv, Triggered
<1>10. QueueType'
  BY <1>1, <1>3 DEF ServerInv, QueueType
<1> QED
  BY <1>1, <1>2, <1>3, <1>8, <1>9, <1>10 DEF ServerInv, NoManagerInv

\* A new ring has no request under way.
LEMMA InitServer == Init => ServerInv
<1> SUFFICES ASSUME Init PROVE ServerInv
  OBVIOUS
<1>1. DOMAIN queue = {} /\ queue = <<>>
  BY DEF Init
<1>2. ASSUME NEW f \in Fences PROVE FenceInv(f)
  BY <1>1 DEF Init, FenceInv, Triggered, Queued, NewFences
<1> QED
  BY <1>1, <1>2 DEF Init, ServerInv, NoManagerInv, DeletedInv, QueueType, OneRequest

\* Every step keeps the fences and the requests in agreement.
LEMMA StepServer ==
  ASSUME RingInv, ServerInv, [Next]_vars
  PROVE  RingInv' /\ ServerInv'
<1>1. CASE GpuStep \/ UNCHANGED vars
  <2>1. /\ fences' = fences /\ queue' = queue /\ signalled' = signalled
        /\ manager' = manager /\ phase' = phase /\ index' = index
    BY <1>1 DEF GpuStep, vars, ring
  <2> QED
    BY <2>1, SameFences, StepRing DEF ServerInv, NoManagerInv, DeletedInv
<1> QED
  BY <1>1, StepRing, FrameServer, EndServer, DestroyServer, StartServer, ServerServer DEF Next

\* A fence that KWin has triggered is signalled only by that trigger: the
\* reset of the round before is over whenever the X server has taken the
\* trigger, which is the race the comment in X11SyncObject::reset describes.
THEOREM SignalsOfThisRound == Spec => []SignalIsOfThisRound
<1>1. RingInv /\ ServerInv /\ [Next]_vars => (RingInv /\ ServerInv)'
  BY StepServer
<1>2. ServerInv => SignalIsOfThisRound
  BY DEF ServerInv, QueueType, SignalIsOfThisRound, FenceInv, Triggered
<1> QED
  BY <1>1, <1>2, InitRing, InitServer, PTL DEF Spec

-----------------------------------------------------------------------------
(* The waits the GPU has ahead of it.                                      *)

\* How many triggers ago the fence was triggered, were it of this round.
Behind(f) == IF f < m_next THEN m_next - f ELSE m_next - f + MaxFences

\* The fence of the frame under way is not with the GPU yet.
Taken == IF phase = "frame" /\ currentFence # NoFence THEN 1 ELSE 0

\* The GPU executes the frames in order: the fence of a frame with i frames
\* behind it was triggered at most i triggers ago.  As GpuLag leaves two
\* fences of the ring over, endFrame() never comes to one of them.
LagInv ==
  /\ Len(gpu) <= GpuLag
  /\ phase = "frame" /\ currentFence # NoFence => Behind(currentFence) = 1
  /\ \A i \in DOMAIN gpu : gpu[i] # NoFence =>
       fences[gpu[i]] = "Waiting" /\ Behind(gpu[i]) <= Len(gpu) - i + 1 + Taken

GpuInv ==
  /\ gpu \in Seq(Fences \cup {NoFence})
  /\ ~manager => gpu = <<>> /\ currentFence = NoFence /\ phase # "destroy"
  /\ manager /\ phase # "destroy" => LagInv

\* A step that leaves the GPU, the ring's position and the waiting fences.
LEMMA SameLag ==
  ASSUME GpuInv, gpu' = gpu, m_next' = m_next, Taken' = Taken,
         currentFence' = currentFence, LagInv,
         phase' = "frame" => phase = "frame",
         \A i \in DOMAIN gpu : gpu[i] # NoFence /\ fences[gpu[i]] = "Waiting" => fences'[gpu[i]] = "Waiting"
  PROVE  LagInv'
BY DEF LagInv, Behind

\* A frame takes its fence: every wait is one trigger further behind.
LEMMA TriggerFenceGpu ==
  ASSUME RingInv, GpuInv, TriggerFence
  PROVE  GpuInv'
<1>1. /\ manager /\ manager' = manager /\ phase = "idle" /\ phase' = "frame" /\ gpu' = gpu
      /\ m_next \in Fences /\ currentFence' = m_next /\ m_next' = (m_next + 1) % MaxFences
      /\ fences' = [fences EXCEPT ![m_next] = "TriggerSent"] /\ RingType
  BY DEF TriggerFence, Trigger, RingInv, RingType
<1>2. m_next' = IF m_next + 1 = MaxFences THEN 0 ELSE m_next + 1
  BY <1>1, Positions
<1>3. LagInv /\ Taken = 0 /\ Taken' = 1 /\ gpu \in Seq(Fences \cup {NoFence})
  BY <1>1, RingAssumption DEF GpuInv, Taken
<1>4. Behind(currentFence)' = 1
  BY <1>1, <1>2, RingAssumption DEF Behind, Fences
<1>5. ASSUME NEW i \in DOMAIN gpu, gpu[i] # NoFence
      PROVE  fences'[gpu[i]] = "Waiting" /\ Behind(gpu[i])' <= Len(gpu) - i + 1 + 1
  <2>1. gpu[i] \in Fences /\ i \in 1..Len(gpu) /\ Len(gpu) \in Nat
    BY <1>3, <1>5
  <2>2. fences[gpu[i]] = "Waiting" /\ Behind(gpu[i]) <= Len(gpu) - i + 1 + 0 /\ Len(gpu) <= GpuLag
    BY <1>3, <1>5 DEF LagInv
  <2>3. Behind(gpu[i]) < MaxFences
    BY <2>1, <2>2, RingAssumption, <1>1 DEF Behind, Fences
  <2>4. gpu[i] # m_next
    BY <2>1, <2>3, <1>1, RingAssumption DEF Behind, Fences
  <2>5. Behind(gpu[i])' = Behind(gpu[i]) + 1
    BY <1>1, <1>2, <2>1, <2>4, RingAssumption DEF Behind, Fences
  <2>6. Behind(gpu[i]) \in Int
    BY <1>1, <2>1, RingAssumption DEF Behind, Fences
  <2> QED
    BY <1>1, <2>1, <2>2, <2>4, <2>5, <2>6 DEF RingType
<1>6. Len(gpu) <= GpuLag
  BY <1>3 DEF LagInv
<1>7. LagInv'
  BY <1>1, <1>3, <1>4, <1>5, <1>6 DEF LagInv
<1> QED
  BY <1>1, <1>3, <1>7 DEF GpuInv

\* The frame is handed to the GPU.
LEMMA EndFrameGpu ==
  ASSUME RingInv, GpuInv, EndFrame
  PROVE  GpuInv'
<1>1. /\ phase = "frame" /\ Len(gpu) < GpuLag /\ manager' = manager /\ fences' = fences
      /\ m_next' = m_next /\ currentFence' = currentFence
      /\ gpu' = IF manager THEN Append(gpu, FrameFence) ELSE gpu
      /\ phase' = IF manager /\ currentFence # NoFence THEN "end" ELSE "idle"
      /\ RingType /\ manager \in BOOLEAN
  BY DEF EndFrame, ring, RingInv, RingType
<1>2. CASE manager = FALSE
  BY <1>1, <1>2 DEF GpuInv
<1>3. CASE manager = TRUE
  <2>1. LagInv /\ gpu \in Seq(Fences \cup {NoFence})
    BY <1>1, <1>3 DEF GpuInv
  <2>2. FrameFence \in Fences \cup {NoFence}
    BY <1>1 DEF FrameFence, RingType
  <2>3. /\ gpu' \in Seq(Fences \cup {NoFence}) /\ Len(gpu') = Len(gpu) + 1 /\ Len(gpu) \in Nat
        /\ DOMAIN gpu' = 1..Len(gpu) + 1 /\ DOMAIN gpu = 1..Len(gpu)
        /\ \A i \in 1..Len(gpu) : gpu'[i] = gpu[i]
        /\ gpu'[Len(gpu) + 1] = FrameFence
    BY <1>1, <1>3, <2>1, <2>2
  <2>4. Taken' = 0 /\ Taken \in {0, 1} /\ phase' \notin {"frame", "destroy"}
    BY <1>1 DEF Taken
  <2>5. FrameFence # NoFence => fences[FrameFence] = "Waiting" /\ Behind(FrameFence) = 1
    BY <1>1, <2>1 DEF FrameFence, LagInv
  <2>6. ASSUME NEW i \in 1..Len(gpu) + 1, gpu'[i] # NoFence
        PROVE  fences[gpu'[i]] = "Waiting" /\ Behind(gpu'[i]) <= Len(gpu) + 1 - i + 1 + 0
    <3>1. CASE i = Len(gpu) + 1
      BY <2>3, <2>5, <2>6, <3>1
    <3>2. CASE i \in 1..Len(gpu)
      <4>1. gpu'[i] = gpu[i] /\ gpu[i] \in Fences
        BY <2>1, <2>3, <2>6, <3>2
      <4>2. fences[gpu[i]] = "Waiting" /\ Behind(gpu[i]) <= Len(gpu) - i + 1 + Taken
        BY <2>1, <2>3, <2>6, <3>2, <4>1 DEF LagInv
      <4>3. Behind(gpu[i]) \in Int
        BY <1>1, <4>1, RingAssumption DEF Behind, Fences, RingType
      <4> QED
        BY <2>3, <2>4, <4>1, <4>2, <4>3
    <3> QED
      BY <2>3, <3>1, <3>2
  <2>7. \A f : Behind(f)' = Behind(f)
    BY <1>1 DEF Behind
  <2>8. LagInv'
    BY <1>1, <2>3, <2>4, <2>6, <2>7, RingAssumption DEF LagInv
  <2> QED
    BY <1>1, <1>3, <2>3, <2>4, <2>8 DEF GpuInv
<1> QED
  BY <1>1, <1>2, <1>3

\* endFrame() comes to no fence the GPU waits for.
LEMMA EndOfFenceGpu ==
  ASSUME RingInv, GpuInv, EndOfFence
  PROVE  GpuInv'
<1>1. /\ phase = "end" /\ phase' = phase /\ manager' = manager /\ m_next' = m_next
      /\ currentFence' = currentFence /\ gpu' = gpu /\ index \in Nat /\ index < Lookahead
      /\ RingType /\ m_next \in Fences /\ manager \in BOOLEAN
  BY DEF EndOfFence, RingInv, RingType
<1>2. index \in {0, 1}
  BY <1>1, RingAssumption DEF Lookahead
<1>3. /\ EndFence = (m_next + index) % MaxFences
      /\ (m_next + 0) % MaxFences = m_next
      /\ (m_next + 1) % MaxFences = IF m_next + 1 = MaxFences THEN 0 ELSE m_next + 1
  BY <1>1, Positions DEF EndFence
<1>4. EndFence \in Fences
  BY <1>1, <1>2, Positions DEF EndFence
<1>5. Behind(EndFence) >= MaxFences - 1
  <2>1. CASE index = 0
    BY <1>1, <1>3, <2>1, RingAssumption DEF Behind, Fences
  <2>2. CASE index = 1
    BY <1>1, <1>3, <2>2, RingAssumption DEF Behind, Fences
  <2> QED
    BY <1>2, <2>1, <2>2
<1>6. \A f \in Fences : f # EndFence => fences'[f] = fences[f]
  BY <1>1, <1>4 DEF EndOfFence, FinishAndReset, FinishResetting, RingType
<1>7. CASE manager = TRUE
  <2>1. LagInv /\ Taken = 0 /\ Taken' = 0 /\ gpu \in Seq(Fences \cup {NoFence})
    BY <1>1, <1>7 DEF GpuInv, Taken
  <2>2. ASSUME NEW i \in DOMAIN gpu, gpu[i] # NoFence PROVE fences'[gpu[i]] = fences[gpu[i]]
    <3>1. gpu[i] \in Fences /\ i \in 1..Len(gpu) /\ Len(gpu) \in Nat
      BY <2>1, <2>2
    <3>2. Behind(gpu[i]) <= Len(gpu) - i + 1 + 0 /\ Len(gpu) <= GpuLag
      BY <2>1, <2>2 DEF LagInv
    <3>3. Behind(gpu[i]) \in Int
      BY <1>1, <3>1, RingAssumption DEF Behind, Fences
    <3>4. Behind(gpu[i]) < MaxFences - 1
      BY <3>1, <3>2, <3>3, RingAssumption
    <3>5. gpu[i] # EndFence
      BY <1>5, <3>3, <3>4, RingAssumption
    <3> QED
      BY <1>6, <3>1, <3>5
  <2>3. LagInv'
    BY <1>1, <2>1, <2>2, SameLag
  <2> QED
    BY <1>1, <1>7, <2>1, <2>3 DEF GpuInv
<1> QED
  BY <1>1, <1>7 DEF GpuInv

\* The GPU takes its first frame.
LEMMA GpuGpu ==
  ASSUME RingInv, GpuInv, GpuStep
  PROVE  GpuInv'
<1>1. /\ gpu # <<>> /\ gpu' = Tail(gpu) /\ manager' = manager /\ phase' = phase
      /\ m_next' = m_next /\ currentFence' = currentFence /\ fences' = fences
      /\ gpu \in Seq(Fences \cup {NoFence}) /\ RingType /\ manager \in BOOLEAN
  BY DEF GpuStep, ring, GpuInv, RingInv, RingType
<1>2. /\ gpu' \in Seq(Fences \cup {NoFence}) /\ Len(gpu) \in Nat \ {0} /\ Len(gpu') = Len(gpu) - 1
      /\ \A i \in 1..Len(gpu') : gpu'[i] = gpu[i + 1]
      /\ DOMAIN gpu' = 1..Len(gpu') /\ DOMAIN gpu = 1..Len(gpu)
  BY <1>1, HeadTailProperties, EmptySeq, LenProperties
<1>3. Taken' = Taken /\ \A f : Behind(f)' = Behind(f)
  BY <1>1 DEF Taken, Behind
<1>4. CASE manager = TRUE /\ phase # "destroy"
  <2>1. LagInv
    BY <1>4 DEF GpuInv
  <2>2. ASSUME NEW i \in 1..Len(gpu'), gpu'[i] # NoFence
        PROVE  fences[gpu'[i]] = "Waiting" /\ Behind(gpu'[i]) <= Len(gpu') - i + 1 + Taken
    <3>1. i + 1 \in DOMAIN gpu /\ gpu'[i] = gpu[i + 1]
      BY <1>2
    <3>2. fences[gpu'[i]] = "Waiting" /\ Behind(gpu'[i]) <= Len(gpu) - (i + 1) + 1 + Taken
      BY <2>1, <2>2, <3>1 DEF LagInv
    <3>3. Taken \in {0, 1}
      BY DEF Taken
    <3> QED
      BY <1>2, <3>2, <3>3
  <2>3. Len(gpu') <= GpuLag
    BY <1>2, <2>1, RingAssumption DEF LagInv
  <2>4. LagInv'
    BY <1>1, <1>2, <1>3, <2>1, <2>2, <2>3 DEF LagInv
  <2> QED
    BY <1>1, <1>2, <1>4, <2>4 DEF GpuInv
<1> QED
  BY <1>1, <1>2, <1>4 DEF GpuInv

\* The other steps: they leave the GPU alone, or start with an idle one.
LEMMA OtherGpu ==
  ASSUME RingInv, ServerInv, GpuInv,
         \/ FrameWithoutFence \/ InsertWait \/ EndFrameDone \/ FinishTimeout \/ Stop
         \/ TriggerForDeletion \/ DeleteFence \/ ManagerDeleted \/ Start
         \/ ServerStep \/ UNCHANGED vars
  PROVE  GpuInv'
<1>1. CASE ServerStep \/ UNCHANGED vars
  <2>1. UNCHANGED <<manager, fences, m_next, currentFence, phase, gpu>>
    BY <1>1 DEF ServerStep, ring, vars
  <2> QED
    BY <2>1 DEF GpuInv, LagInv, Behind, Taken
<1>2. CASE FrameWithoutFence
  <2>1. /\ UNCHANGED <<manager, fences, m_next, currentFence, gpu>> /\ phase = "idle" /\ phase' = "frame"
        /\ manager \in BOOLEAN
    BY <1>2 DEF FrameWithoutFence, ring, RingInv, RingType
  <2>2. manager => currentFence = NoFence
    BY <2>1 DEF RingInv, AheadInv
  <2>3. currentFence = NoFence
    BY <2>1, <2>2 DEF GpuInv
  <2> QED
    BY <2>1, <2>3 DEF GpuInv, LagInv, Behind, Taken
<1>3. CASE InsertWait
  <2>1. /\ UNCHANGED <<manager, m_next, currentFence, phase, gpu>> /\ phase = "frame" /\ manager
        /\ fences' = [fences EXCEPT ![currentFence] = "Waiting"] /\ currentFence \in Fences
        /\ fences \in [Fences -> States]
    BY <1>3 DEF InsertWait, RingInv, RingType
  <2>2. LagInv /\ gpu \in Seq(Fences \cup {NoFence}) /\ Taken' = Taken
    BY <2>1 DEF GpuInv, Taken
  <2>3. \A f \in Fences : fences[f] = "Waiting" => fences'[f] = "Waiting"
    BY <2>1
  <2>4. \A i \in DOMAIN gpu : gpu[i] # NoFence => gpu[i] \in Fences
    BY <2>2
  <2>5. LagInv'
    BY <2>1, <2>2, <2>3, <2>4, SameLag
  <2> QED
    BY <2>1, <2>2, <2>5 DEF GpuInv
<1>4. CASE EndFrameDone
  <2>1. /\ UNCHANGED <<manager, fences, m_next, gpu>> /\ phase = "end" /\ phase' = "idle"
        /\ currentFence' = NoFence
    BY <1>4 DEF EndFrameDone
  <2>2. Taken = 0 /\ Taken' = 0
    BY <2>1 DEF Taken
  <2> QED
    BY <2>1, <2>2 DEF GpuInv, LagInv, Behind
<1>5. CASE FinishTimeout \/ Stop
  <2>1. UNCHANGED <<manager, gpu>> /\ phase' = "destroy"
    BY <1>5 DEF FinishTimeout, Stop, ring
  <2>2. manager = TRUE
    BY <1>5 DEF FinishTimeout, Stop, ServerInv, NoManagerInv, RingInv, RingType
  <2> QED
    BY <2>1, <2>2 DEF GpuInv
<1>6. CASE TriggerForDeletion \/ DeleteFence
  <2>1. UNCHANGED <<manager, gpu, phase>> /\ phase = "destroy"
    BY <1>6 DEF TriggerForDeletion, DeleteFence, ring
  <2> QED
    BY <2>1 DEF GpuInv
<1>7. CASE ManagerDeleted
  <2>1. manager' = FALSE /\ gpu' = <<>> /\ phase' = "idle" /\ currentFence' = NoFence
    BY <1>7 DEF ManagerDeleted
  <2> QED
    BY <2>1 DEF GpuInv
<1>8. CASE Start
  <2>1. /\ manager = FALSE /\ gpu' = gpu /\ gpu = <<>> /\ phase' = "idle" /\ currentFence' = NoFence
        /\ manager' = TRUE
    BY <1>8 DEF Start, GpuInv, RingInv, RingType
  <2>2. gpu' \in Seq(Fences \cup {NoFence}) /\ Len(gpu') = 0 /\ DOMAIN gpu' = {}
    BY <2>1
  <2> QED
    BY <2>1, <2>2, RingAssumption DEF GpuInv, LagInv
<1> QED
  BY <1>1, <1>2, <1>3, <1>4, <1>5, <1>6, <1>7, <1>8

\* No fence is reset while the GPU has a wait for it ahead of it: what
\* endFrame() finishes is older than every frame that is still in flight, for
\* every lag that leaves two fences of the ring over.
THEOREM WaitsNotReset == Spec => []WaitNotReset
<1>1. Init => RingInv /\ ServerInv /\ GpuInv
  <2> SUFFICES ASSUME Init PROVE GpuInv
    BY InitRing, InitServer
  <2>1. gpu \in Seq(Fences \cup {NoFence}) /\ Len(gpu) = 0 /\ DOMAIN gpu = {}
    BY DEF Init
  <2> QED
    BY <2>1, RingAssumption DEF Init, GpuInv, LagInv
<1>2. RingInv /\ ServerInv /\ GpuInv /\ [Next]_vars => (RingInv /\ ServerInv /\ GpuInv)'
  BY StepServer, TriggerFenceGpu, EndFrameGpu, EndOfFenceGpu, GpuGpu, OtherGpu DEF Next
<1>3. GpuInv => WaitNotReset
  BY DEF GpuInv, LagInv, WaitNotReset
<1> QED
  BY <1>1, <1>2, <1>3, PTL DEF Spec
=============================================================================
