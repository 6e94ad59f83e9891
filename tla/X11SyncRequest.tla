--------------------------- MODULE X11SyncRequest ---------------------------
(***************************************************************************)
(* _NET_WM_SYNC_REQUEST between KWin and one X11 window (x11window.cpp,    *)
(* syncalarmx11filter.cpp): KWin asks the client to set a counter once it  *)
(* has drawn, an alarm of the X server reports that, and two timers take   *)
(* over when the client is slow.  The first request decides when the       *)
(* window is shown, later ones pace an interactive resize.                 *)
(*                                                                         *)
(* Clients answer late, or never; alarms travel asynchronously.  A         *)
(* geometry is its size.  The code's 64-bit counter values are pairs whose *)
(* low word wraps at LoModulus.  Shading, tiles and the unmanaging of the  *)
(* window (which destroys the alarm) are left out.                         *)
(***************************************************************************)
EXTENDS Integers, SequencesExt

CONSTANTS
  Sizes,        \* sizes the window may be given
  LoModulus,    \* 2^32 in the code
  MaxRequests,  \* bound on the value of the counter and on the requests out
  MaxAlarms,    \* bound on the alarms KWin creates for the window
  AnyTime       \* the client may set its counter property at any time, and
                \* not only before it is mapped or while nothing is pending

ASSUME SyncAssumption ==
  /\ LoModulus \in Nat \ {0} /\ MaxRequests \in Nat /\ MaxAlarms \in Nat
  /\ Sizes # {} /\ AnyTime \in BOOLEAN

VARIABLES
  managed,             \* manage() has run
  sync,                \* m_syncRequest; timers as whether they are active
  ready,               \* ready_for_painting
  resizing,            \* isInteractiveResize()
  initial,             \* initialInteractiveMoveResizeGeometry()
  moveResizeGeometry,  \* m_moveResizeGeometry
  frame,               \* frameGeometry()
  asked,               \* external: requests the client has not answered
  alarms,              \* external: the value at which each alarm goes off
  events,              \* external: alarm events on their way to KWin
  removed,             \* history: support was removed from a silent client
  drawn                \* history: the window was damaged, or its request
                       \* answered

window == <<managed, ready, resizing, initial, moveResizeGeometry, frame>>
client == <<asked, alarms, events>>
vars == <<window, sync, client, removed, drawn>>

Values == [hi : 0..MaxRequests, lo : 0..(LoModulus - 1)]
Zero == [hi |-> 0, lo |-> 0]
Number(v) == v.hi * LoModulus + v.lo
None == 0       \* XCB_NONE

TypeOK ==
  /\ managed \in BOOLEAN /\ ready \in BOOLEAN /\ resizing \in BOOLEAN
  /\ sync \in [counter : BOOLEAN, alarm : 0..MaxAlarms, value : Values,
               isPending : BOOLEAN, interactiveResize : BOOLEAN,
               timeout : BOOLEAN, failsafe : BOOLEAN]
  /\ initial \in Sizes /\ moveResizeGeometry \in Sizes /\ frame \in Sizes
  /\ asked \in Seq(Values) /\ Len(asked) <= MaxRequests
  /\ Len(alarms) <= MaxAlarms /\ \A i \in DOMAIN alarms : alarms[i] \in Nat
  /\ events \in Seq([alarm : 1..MaxAlarms, value : Values])
  /\ removed \in BOOLEAN /\ drawn \in BOOLEAN

Init ==
  /\ managed = FALSE /\ ready = FALSE /\ resizing = FALSE
  /\ sync = [counter |-> FALSE, alarm |-> None, value |-> Zero, isPending |-> FALSE,
             interactiveResize |-> FALSE, timeout |-> FALSE, failsafe |-> FALSE]
  /\ frame \in Sizes /\ moveResizeGeometry = frame /\ initial = frame
  /\ asked = <<>> /\ alarms = <<>> /\ events = <<>>
  /\ removed = FALSE /\ drawn = FALSE

isWaitingForInteractiveMoveResizeSync == sync.isPending /\ sync.interactiveResize

-----------------------------------------------------------------------------
(* The pieces the handlers are made of.                                    *)

\* getSyncCounter() when the property names a counter.  An alarm is created
\* if there is none, which may fail; one that exists keeps its trigger.
WithCounter(s, created) ==
  [s EXCEPT !.counter = TRUE, !.value = Zero,
            !.alarm = IF @ = None /\ created THEN Len(alarms) + 1 ELSE @]
CounterAlarms(s, created) ==
  IF s.alarm = None /\ created THEN Append(alarms, 1) ELSE alarms

NextValue(v) ==
  LET lo == (v.lo + 1) % LoModulus
  IN  [hi |-> IF v.lo > lo THEN v.hi + 1 ELSE v.hi, lo |-> lo]

\* Mutant: a request is sent on top of another.
SendsAlways(s) == s.counter

Sends(s) == s.counter /\ ~s.isPending

\* Mutant: the failsafe timer is not started.
RequestedUnguarded(s, interactive) ==
  IF Sends(s) THEN [s EXCEPT !.value = NextValue(@), !.isPending = TRUE,
                             !.interactiveResize = interactive]
  ELSE s

\* sendSyncRequest()
Requested(s, interactive) ==
  IF Sends(s) THEN [s EXCEPT !.failsafe = TRUE, !.value = NextValue(@),
                             !.isPending = TRUE, !.interactiveResize = interactive]
  ELSE s
Asked(s) == IF Sends(s) THEN Append(asked, NextValue(s.value)) ELSE asked

\* resize(moveResizeGeometry().size())
PerformInteractiveResize == frame' = moveResizeGeometry

-----------------------------------------------------------------------------
(* manage(): the counter is looked up, and the first request is sent if    *)
(* there is a compositor to wait for it.                                   *)

Manage(counter, created, compositing) ==
  LET s == IF counter THEN WithCounter(sync, created) ELSE sync
  IN  /\ ~managed /\ managed' = TRUE
      /\ alarms' = IF counter THEN CounterAlarms(sync, created) ELSE alarms
      /\ IF compositing
         THEN /\ sync' = Requested(s, FALSE) /\ asked' = Asked(s)
              /\ UNCHANGED ready
         ELSE /\ sync' = s /\ ready' = TRUE
              /\ UNCHANGED asked
      /\ UNCHANGED <<resizing, initial, moveResizeGeometry, frame, events, removed, drawn>>

\* propertyNotifyEvent: the client sets its counter property.
CounterProperty(created) ==
  /\ managed
  /\ AnyTime \/ (ready /\ ~sync.isPending)
  /\ Len(alarms) < MaxAlarms \/ sync.alarm # None
  /\ sync' = WithCounter(sync, created)
  /\ alarms' = CounterAlarms(sync, created)
  /\ UNCHANGED <<window, asked, events, removed, drawn>>

-----------------------------------------------------------------------------
(* The interactive resize.                                                 *)

\* startInteractiveMoveResize
StartResize ==
  /\ managed /\ ~resizing
  /\ resizing' = TRUE /\ initial' = moveResizeGeometry
  /\ UNCHANGED <<managed, ready, moveResizeGeometry, frame, sync, client, removed, drawn>>

\* handleInteractiveMoveResize and doInteractiveResizeSync: the pointer has
\* moved.
ResizeStep(size) ==
  /\ resizing /\ ~isWaitingForInteractiveMoveResizeSync
  /\ size # moveResizeGeometry
  /\ Sends(sync) => Number(sync.value) < MaxRequests /\ Len(asked) < MaxRequests
  /\ moveResizeGeometry' = size
  /\ sync' = IF sync.counter
             THEN Requested([sync EXCEPT !.timeout = TRUE], TRUE)
             ELSE [sync EXCEPT !.timeout = TRUE, !.isPending = TRUE,
                               !.interactiveResize = TRUE]
  /\ asked' = Asked(sync)
  /\ UNCHANGED <<managed, ready, resizing, initial, frame, alarms, events, removed, drawn>>

\* finishInteractiveMoveResize
FinishResize(cancel) ==
  /\ resizing /\ resizing' = FALSE
  /\ moveResizeGeometry' = IF cancel THEN initial ELSE moveResizeGeometry
  /\ frame' = IF cancel THEN initial ELSE frame
  /\ UNCHANGED <<managed, ready, initial, sync, client, removed, drawn>>

\* Anybody else resizes the window.
MoveResize(size) ==
  /\ managed /\ ~resizing
  /\ moveResizeGeometry' = size /\ frame' = size
  /\ UNCHANGED <<managed, ready, resizing, initial, sync, client, removed, drawn>>

-----------------------------------------------------------------------------
(* Answers and timeouts.                                                   *)

\* The window an alarm event belongs to, in SyncAlarmX11Filter::event.
Matches(e) == e.alarm = sync.alarm /\ e.value = sync.value

\* X11Window::handleSync
HandleSync ==
  /\ ready' = TRUE
  /\ sync' = [sync EXCEPT !.isPending = FALSE, !.failsafe = FALSE,
                          !.interactiveResize = FALSE,
                          !.timeout = @ /\ ~sync.interactiveResize]
  /\ IF sync.interactiveResize THEN PerformInteractiveResize ELSE UNCHANGED frame

AlarmEvent ==
  /\ events # <<>>
  /\ IF Matches(Head(events)) THEN HandleSync ELSE UNCHANGED <<sync, ready, frame>>
  /\ events' = Tail(events)
  /\ UNCHANGED <<managed, resizing, initial, moveResizeGeometry, asked, alarms, removed, drawn>>

\* Mutant: the last geometry is left to the answer.
SyncTimeoutWithoutResize ==
  /\ sync.timeout
  /\ sync' = [sync EXCEPT !.timeout = FALSE, !.isPending = @ /\ sync.counter,
                          !.interactiveResize = @ /\ sync.counter]
  /\ UNCHANGED <<window, client, removed, drawn>>

\* X11Window::handleSyncTimeout
HandleSyncTimeout ==
  /\ sync.timeout
  /\ sync' = [sync EXCEPT !.timeout = FALSE, !.isPending = @ /\ sync.counter,
                          !.interactiveResize = @ /\ sync.counter]
  /\ PerformInteractiveResize
  /\ UNCHANGED <<managed, ready, resizing, initial, moveResizeGeometry, client, removed, drawn>>

\* Mutant: an unanswered first request removes support as well, and the
\* window is not shown.
RemoveSupport ==
  /\ sync.failsafe
  /\ sync' = [sync EXCEPT !.isPending = FALSE, !.interactiveResize = FALSE,
                          !.counter = FALSE, !.alarm = None,
                          !.timeout = FALSE, !.failsafe = FALSE]
  /\ removed' = TRUE
  /\ UNCHANGED <<window, client, drawn>>

\* The failsafe timer of sendSyncRequest.  It deletes the other timer too,
\* but ten seconds are over later than the 250 ms started with them.
FailsafeTimeout ==
  /\ sync.failsafe /\ (ready => ~sync.timeout)
  /\ IF ready
     THEN /\ sync' = [sync EXCEPT !.isPending = FALSE, !.interactiveResize = FALSE,
                                  !.counter = FALSE, !.alarm = None,
                                  !.timeout = FALSE, !.failsafe = FALSE]
          /\ removed' = TRUE
          /\ UNCHANGED ready
     ELSE /\ sync' = [sync EXCEPT !.failsafe = FALSE]
          /\ ready' = TRUE
          /\ UNCHANGED removed
  /\ UNCHANGED <<managed, resizing, initial, moveResizeGeometry, frame, client, drawn>>

\* damageNotifyEvent
Damage ==
  /\ managed
  /\ ready' = (ready \/ ~sync.counter)
  /\ drawn' = TRUE
  /\ UNCHANGED <<managed, resizing, initial, moveResizeGeometry, frame, sync, client, removed>>

-----------------------------------------------------------------------------
(* The client sets the counter to the value of the oldest request.  Every  *)
(* alarm the value reaches goes off, in whatever order the server keeps    *)
(* them, and waits for the next value.                                     *)

GoneOff(v) == {i \in DOMAIN alarms : alarms[i] <= Number(v)}

ClientAnswers ==
  /\ asked # <<>>
  /\ LET v == Head(asked)
     IN  /\ \E order \in SetToSeqs(GoneOff(v)) :
              events' = events \o [k \in DOMAIN order |-> [alarm |-> order[k], value |-> v]]
         /\ alarms' = [i \in DOMAIN alarms |->
                         IF i \in GoneOff(v) THEN Number(v) + 1 ELSE alarms[i]]
  /\ asked' = Tail(asked)
  /\ drawn' = TRUE
  /\ UNCHANGED <<window, sync, removed>>

-----------------------------------------------------------------------------
Next ==
  \/ \E counter, created, compositing \in BOOLEAN : Manage(counter, created, compositing)
  \/ \E created \in BOOLEAN : CounterProperty(created)
  \/ StartResize
  \/ \E size \in Sizes : ResizeStep(size)
  \/ \E cancel \in BOOLEAN : FinishResize(cancel)
  \/ \E size \in Sizes : MoveResize(size)
  \/ AlarmEvent
  \/ HandleSyncTimeout
  \/ FailsafeTimeout
  \/ Damage
  \/ ClientAnswers

Spec == Init /\ [][Next]_vars

(***************************************************************************)
(* Active timers fire and events that arrived are handled: KWin's event    *)
(* loop runs.  Nothing is assumed of the client.  A pointer that never     *)
(* rests for a quarter of a second restarts the sync timer for ever, which *)
(* no user does.                                                           *)
(***************************************************************************)
Fairness ==
  WF_vars(AlarmEvent) /\ WF_vars(HandleSyncTimeout) /\ WF_vars(FailsafeTimeout)

FairSpec == Spec /\ Fairness

-----------------------------------------------------------------------------
(***************************************************************************)
(* Properties.                                                             *)
(***************************************************************************)

\* While handleInteractiveMoveResize ignores the pointer there is a timer
\* that ends the waiting, whatever the client does: the failsafe for a
\* client with a counter, the 33 ms timer for one without.
WaitHasRelease ==
  isWaitingForInteractiveMoveResizeSync =>
     sync.failsafe \/ (~sync.counter /\ sync.timeout)

\* The comment in sendSyncRequest: a client that has a request on the stack
\* is never sent another, unless support was removed from it and it set its
\* counter property again.
NoRequestOnTop == Len(asked) <= 1 \/ removed

\* The size an interactive resize left off at is applied in the end, also
\* when the client never answers, when the resize ends while KWin waits and
\* when support is removed in between.
SizeApplied == frame # moveResizeGeometry ~> frame = moveResizeGeometry

\* A window that has drawn is shown, however its client deals with requests.
ShownOnceDrawn == drawn ~> ready
=============================================================================
