---------------------------- MODULE X11FenceRing ----------------------------
(***************************************************************************)
(* Explicit synchronization with the X command stream (x11syncmanager.cpp, *)
(* used by X11Compositor::composite): a ring of fences.  KWin asks the X   *)
(* server to trigger a fence after the drawing a frame depends on, has the *)
(* GPU wait for it, and resets it some frames later to use it again.       *)
(*                                                                         *)
(* Three parties run concurrently: KWin, the X server, which takes the     *)
(* requests of KWin's connection in order and at its own pace, and the     *)
(* GPU, which executes the waits of KWin's command stream in order.  A     *)
(* step of KWin that the code blocks in has the end of the blocking as its *)
(* guard.  finish() is always followed by reset(), so that the state Done  *)
(* is never seen between two steps and is left out.                        *)
(***************************************************************************)
EXTENDS Integers, Sequences

CONSTANTS
  MaxFences,   \* X11SyncManager::MaxFences
  GpuLag,      \* external: frames the GPU may still have ahead of it when
               \* present() returns (the depth of the swap chain)
  NoFence      \* nullptr

Fences == 0..(MaxFences - 1)

ASSUME RingAssumption ==
  /\ MaxFences \in Nat /\ MaxFences >= 3
  /\ GpuLag \in Nat \ {0} /\ GpuLag <= MaxFences - 2
  /\ NoFence \notin Fences

VARIABLES
  manager,       \* m_syncManager exists
  fences,        \* m_state of every X11SyncObject
  m_next,        \* the fence the next frame triggers
  currentFence,  \* m_currentFence
  phase,         \* where KWin is: idle, frame, end (in endFrame), destroy
  index,         \* the loop variable of endFrame and of qDeleteAll
  queue,         \* requests the X server has not processed
  signalled,     \* external: the fences of the X server that are triggered
  gpu            \* external: frames the GPU has not executed, each as the
                 \* fence it waits for

ring == <<manager, fences, m_next, currentFence>>
vars == <<ring, phase, index, queue, signalled, gpu>>

States == {"Ready", "TriggerSent", "Waiting", "Resetting"}

TypeOK ==
  /\ manager \in BOOLEAN
  /\ fences \in [Fences -> States]
  /\ m_next \in Fences
  /\ currentFence \in Fences \cup {NoFence}
  /\ phase \in {"idle", "frame", "end", "destroy"}
  /\ index \in 0..MaxFences
  /\ queue \in Seq({"trigger", "reset"} \X Fences)
  /\ signalled \subseteq Fences
  /\ gpu \in Seq(Fences \cup {NoFence})

\* X11SyncManager::X11SyncManager: every fence is created untriggered.
NewFences == [f \in Fences |-> "Ready"]

Init ==
  /\ manager = TRUE
  /\ fences = NewFences /\ m_next = 0 /\ currentFence = NoFence
  /\ signalled = {}
  /\ phase = "idle" /\ index = 0
  /\ queue = <<>> /\ gpu = <<>>

-----------------------------------------------------------------------------
Queued(op, f) == \E i \in DOMAIN queue : queue[i] = <<op, f>>

\* The reply to the request sent along with the reset has arrived.
ResetProcessed(f) == ~Queued("reset", f)

\* Mutant: the trigger does not wait for the end of the reset.
TriggerAtOnce(f) ==
  /\ queue' = Append(queue, <<"trigger", f>>)
  /\ fences' = [fences EXCEPT ![f] = "TriggerSent"]

\* X11SyncObject::trigger
Trigger(f) ==
  /\ fences[f] = "Resetting" => ResetProcessed(f)
  /\ queue' = Append(queue, <<"trigger", f>>)
  /\ fences' = [fences EXCEPT ![f] = "TriggerSent"]

\* X11SyncManager::triggerFence, of a frame that has damaged windows.
TriggerFence ==
  /\ phase = "idle" /\ manager
  /\ Trigger(m_next)
  /\ currentFence' = m_next
  /\ m_next' = (m_next + 1) % MaxFences
  /\ phase' = "frame"
  /\ UNCHANGED <<manager, index, signalled, gpu>>

\* A frame without damage, or without a sync manager.
FrameWithoutFence ==
  /\ phase = "idle"
  /\ phase' = "frame"
  /\ UNCHANGED <<ring, index, queue, signalled, gpu>>

\* X11SyncManager::insertWait and X11SyncObject::wait, when a damaged window
\* is painted.
InsertWait ==
  /\ phase = "frame" /\ manager /\ currentFence # NoFence
  /\ fences[currentFence] = "TriggerSent"
  /\ fences' = [fences EXCEPT ![currentFence] = "Waiting"]
  /\ UNCHANGED <<manager, m_next, currentFence, phase, index, queue, signalled, gpu>>

\* X11Compositor::stop: between two frames, or in a frame that finds a
\* graphics reset.
Stop ==
  /\ phase \in {"idle", "frame"} /\ manager
  /\ phase' = "destroy" /\ index' = 0
  /\ UNCHANGED <<ring, queue, signalled, gpu>>

\* The fence the GPU waits for in this frame.  It is possible that no wait
\* was inserted: the damaged window may be fully occluded.
FrameFence ==
  IF currentFence # NoFence /\ fences[currentFence] = "Waiting"
  THEN currentFence ELSE NoFence

\* The frame is presented, which waits for the GPU, and endFrame is called.
EndFrame ==
  /\ phase = "frame" /\ Len(gpu) < GpuLag
  /\ gpu' = IF manager THEN Append(gpu, FrameFence) ELSE gpu
  /\ phase' = IF manager /\ currentFence # NoFence THEN "end" ELSE "idle"
  /\ index' = 0
  /\ UNCHANGED <<ring, queue, signalled>>

-----------------------------------------------------------------------------
(* X11SyncManager::endFrame: the two fences the next frames will use.       *)

Lookahead == IF MaxFences - 1 < 2 THEN MaxFences - 1 ELSE 2

\* Mutant: the loop starts one fence further on.
EndFenceNext == (m_next + index + 1) % MaxFences

EndFence == (m_next + index) % MaxFences

\* finish() and reset()
FinishAndReset ==
  /\ fences[EndFence] \in {"TriggerSent", "Waiting"}
  /\ EndFence \in signalled
  /\ fences' = [fences EXCEPT ![EndFence] = "Resetting"]
  /\ queue' = Append(queue, <<"reset", EndFence>>)

FinishResetting ==
  /\ fences[EndFence] = "Resetting" /\ ResetProcessed(EndFence)
  /\ fences' = [fences EXCEPT ![EndFence] = "Ready"]
  /\ UNCHANGED queue

\* Mutant: a fence the GPU was never told to wait for is passed over.
EndOfWaitedFence ==
  /\ phase = "end" /\ index < Lookahead
  /\ \/ fences[EndFence] = "Waiting" /\ FinishAndReset
     \/ FinishResetting
     \/ fences[EndFence] \in {"Ready", "TriggerSent"} /\ UNCHANGED <<fences, queue>>
  /\ index' = index + 1
  /\ UNCHANGED <<manager, m_next, currentFence, phase, signalled, gpu>>

EndOfFence ==
  /\ phase = "end" /\ index < Lookahead
  /\ \/ FinishAndReset
     \/ FinishResetting
     \/ fences[EndFence] = "Ready" /\ UNCHANGED <<fences, queue>>
  /\ index' = index + 1
  /\ UNCHANGED <<manager, m_next, currentFence, phase, signalled, gpu>>

EndFrameDone ==
  /\ phase = "end" /\ index >= Lookahead
  /\ currentFence' = NoFence
  /\ phase' = "idle"
  /\ UNCHANGED <<manager, fences, m_next, index, queue, signalled, gpu>>

\* finish() gives up after a second: synchronization is aborted.
FinishTimeout ==
  /\ phase = "end" /\ index < Lookahead
  /\ fences[EndFence] \in {"TriggerSent", "Waiting"}
  /\ EndFence \notin signalled
  /\ phase' = "destroy" /\ index' = 0
  /\ UNCHANGED <<ring, queue, signalled, gpu>>

-----------------------------------------------------------------------------
(* ~X11SyncManager deletes one fence after the other.                      *)

\* The first part of ~X11SyncObject.
TriggerForDeletion ==
  /\ phase = "destroy" /\ index < MaxFences
  /\ fences[index] \in {"Ready", "Resetting"}
  /\ Trigger(index)
  /\ UNCHANGED <<manager, m_next, currentFence, phase, index, signalled, gpu>>

\* glDeleteSync returns once the fence is signalled.
DeleteFence ==
  /\ phase = "destroy" /\ index < MaxFences
  /\ fences[index] \in {"TriggerSent", "Waiting"}
  /\ index \in signalled
  /\ index' = index + 1
  /\ UNCHANGED <<ring, phase, queue, signalled, gpu>>

ManagerDeleted ==
  /\ phase = "destroy" /\ index = MaxFences
  /\ manager' = FALSE /\ currentFence' = NoFence
  /\ phase' = "idle" /\ index' = 0
  /\ gpu' = <<>>
  /\ UNCHANGED <<fences, m_next, queue, signalled>>

\* X11Compositor::start
Start ==
  /\ phase = "idle" /\ ~manager
  /\ manager' = TRUE
  /\ fences' = NewFences /\ m_next' = 0 /\ currentFence' = NoFence
  /\ signalled' = {}
  /\ UNCHANGED <<phase, index, queue, gpu>>

-----------------------------------------------------------------------------
(* The X server and the GPU.                                               *)

ServerStep ==
  /\ queue # <<>>
  /\ LET op == Head(queue)[1]
         f == Head(queue)[2]
     IN  signalled' = IF op = "trigger" THEN signalled \cup {f} ELSE signalled \ {f}
  /\ queue' = Tail(queue)
  /\ UNCHANGED <<ring, phase, index, gpu>>

GpuStep ==
  /\ gpu # <<>> /\ Head(gpu) \in signalled \cup {NoFence}
  /\ gpu' = Tail(gpu)
  /\ UNCHANGED <<ring, phase, index, queue, signalled>>

Next ==
  \/ TriggerFence \/ FrameWithoutFence \/ InsertWait \/ EndFrame
  \/ EndOfFence \/ EndFrameDone \/ FinishTimeout
  \/ Stop \/ TriggerForDeletion \/ DeleteFence \/ ManagerDeleted \/ Start
  \/ ServerStep \/ GpuStep

Spec == Init /\ [][Next]_vars

(***************************************************************************)
(* The server works off its queue, the GPU passes a wait whose fence is    *)
(* signalled, and a call of KWin that is not blocked goes on.              *)
(***************************************************************************)
Fairness ==
  /\ WF_vars(ServerStep) /\ WF_vars(GpuStep)
  /\ WF_vars(EndFrame)
  /\ WF_vars(EndOfFence \/ EndFrameDone \/ FinishTimeout)
  /\ WF_vars(TriggerForDeletion \/ DeleteFence \/ ManagerDeleted)

FairSpec == Spec /\ Fairness

-----------------------------------------------------------------------------
(***************************************************************************)
(* Properties.                                                             *)
(***************************************************************************)

\* The ring has come round with a free fence: trigger() never finds one that
\* is still triggered, which X11SyncObject::trigger asserts.
TriggerFindsFreeFence ==
  phase = "idle" /\ manager => fences[m_next] \in {"Ready", "Resetting"}

\* A fence that KWin has triggered is signalled only by that trigger: never
\* by the one of an earlier round that has yet to be reset.  This is the
\* race the comment in X11SyncObject::reset describes.
SignalIsOfThisRound ==
  \A f \in signalled :
     manager /\ fences[f] \in {"TriggerSent", "Waiting"} =>
        ~Queued("trigger", f) /\ ~Queued("reset", f)

\* No fence is reset while the GPU still has a wait for it ahead of it: the
\* wait would last until the ring comes round again.
WaitNotReset ==
  manager /\ phase # "destroy" =>
     \A i \in DOMAIN gpu : gpu[i] # NoFence => fences[gpu[i]] = "Waiting"

\* Every frame ends and every destruction of the manager completes: KWin
\* never waits for a fence that nobody is going to trigger, which is what
\* the comment in ~X11SyncObject says of glDeleteSync.
KWinGoesOn == phase # "idle" ~> phase = "idle"
=============================================================================
