---------------------------- MODULE X11SyncProofs ----------------------------
(***************************************************************************)
(* The waiting of an interactive resize ends whatever the client does, and *)
(* no request is sent on top of another, for every modulus of the counter  *)
(* and any number of requests and alarms.                                  *)
(***************************************************************************)
EXTENDS X11SyncRequest, SequenceTheorems, FiniteSetTheorems, TLAPS

\* The types without the bounds.
Counts == [hi : Nat, lo : Nat]
Syncs == [counter : BOOLEAN, alarm : Nat, value : Counts, isPending : BOOLEAN,
          interactiveResize : BOOLEAN, timeout : BOOLEAN, failsafe : BOOLEAN]

SyncInv ==
  /\ ready \in BOOLEAN /\ managed \in BOOLEAN
  /\ sync \in Syncs
  /\ asked \in Seq(Counts) /\ alarms \in Seq(Nat)

\* Before it is managed a window has no counter and no failsafe timer.
UnmanagedInv == ~managed => sync.counter = FALSE /\ sync.failsafe = FALSE

\* A window that is not shown yet and has a counter has its first request
\* out, so that no resize sends another; only that request has a failsafe.
FirstRequestInv ==
  ready = FALSE =>
    /\ sync.counter = TRUE => sync.isPending = TRUE /\ sync.interactiveResize = FALSE
    /\ sync.failsafe = TRUE => sync.counter = TRUE

ReleaseInv ==
  sync.isPending = TRUE /\ sync.interactiveResize = TRUE =>
     sync.failsafe = TRUE \/ (sync.counter = FALSE /\ sync.timeout = TRUE)

\* A window that nobody manages is not resized.
ResizeInv == ~managed => resizing = FALSE /\ sync.isPending = FALSE

WaitInv == SyncInv /\ UnmanagedInv /\ FirstRequestInv /\ ReleaseInv /\ ResizeInv

-----------------------------------------------------------------------------
\* The next value of the counter is a value, also where the low word wraps.
LEMMA NextValueCounts ==
  ASSUME NEW v \in Counts
  PROVE  NextValue(v) \in Counts
<1>1. (v.lo + 1) % LoModulus \in Nat
  BY SyncAssumption DEF Counts
<1> QED
  BY <1>1 DEF NextValue, Counts

\* A request that is sent is guarded by the failsafe timer.
LEMMA RequestedSync ==
  ASSUME NEW s \in Syncs, NEW i \in BOOLEAN
  PROVE  /\ Requested(s, i) \in Syncs
         /\ Requested(s, i).counter = s.counter
         /\ Requested(s, i).timeout = s.timeout
         /\ s.counter = TRUE /\ s.isPending = FALSE =>
              /\ Requested(s, i).failsafe = TRUE /\ Requested(s, i).isPending = TRUE
              /\ Requested(s, i).interactiveResize = i
         /\ s.counter = FALSE \/ s.isPending = TRUE => Requested(s, i) = s
<1>1. NextValue(s.value) \in Counts
  BY NextValueCounts DEF Syncs
<1> QED
  BY <1>1 DEF Requested, Sends, Syncs

\* What the client is asked stays a sequence of values.
LEMMA AskedSeq ==
  ASSUME NEW s \in Syncs, asked \in Seq(Counts)
  PROVE  Asked(s) \in Seq(Counts)
<1>1. NextValue(s.value) \in Counts
  BY NextValueCounts DEF Syncs
<1> QED
  BY <1>1 DEF Asked

\* A counter property sets the counter and leaves request and timers alone.
LEMMA CounterSync ==
  ASSUME NEW s \in Syncs, NEW created \in BOOLEAN, alarms \in Seq(Nat)
  PROVE  /\ WithCounter(s, created) \in Syncs
         /\ WithCounter(s, created).counter = TRUE
         /\ WithCounter(s, created).isPending = s.isPending
         /\ WithCounter(s, created).interactiveResize = s.interactiveResize
         /\ WithCounter(s, created).timeout = s.timeout
         /\ WithCounter(s, created).failsafe = s.failsafe
         /\ CounterAlarms(s, created) \in Seq(Nat)
<1>1. Len(alarms) + 1 \in Nat
  OBVIOUS
<1>2. Zero \in Counts
  BY DEF Zero, Counts
<1>3. CounterAlarms(s, created) \in Seq(Nat)
  <2>1. Append(alarms, 1) \in Seq(Nat)
    OBVIOUS
  <2> QED
    BY <2>1 DEF CounterAlarms
<1> DEFINE a == IF s.alarm = None /\ created THEN Len(alarms) + 1 ELSE s.alarm
<1>4. a \in Nat
  BY <1>1 DEF Syncs
<1>5. WithCounter(s, created) = [s EXCEPT !.counter = TRUE, !.value = Zero, !.alarm = a]
  BY DEF WithCounter, Syncs
<1> HIDE DEF a
<1> QED
  BY <1>2, <1>3, <1>4, <1>5 DEF Syncs

-----------------------------------------------------------------------------
\* The invariant holds when the window is created.
LEMMA InitWait == Init => WaitInv
<1> SUFFICES ASSUME Init PROVE WaitInv
  OBVIOUS
<1>1. Zero \in Counts /\ None \in Nat
  BY DEF Zero, Counts, None
<1>2. SyncInv
  <2>1. sync \in Syncs
    BY <1>1 DEF Init, Syncs
  <2>2. asked \in Seq(Counts) /\ alarms \in Seq(Nat) /\ ready \in BOOLEAN /\ managed \in BOOLEAN
    <3>1. asked = <<>> /\ alarms = <<>> /\ ready = FALSE /\ managed = FALSE
      BY DEF Init
    <3> QED
      BY <3>1, EmptySeq
  <2> QED
    BY <2>1, <2>2 DEF SyncInv
<1> QED
  BY <1>2 DEF Init, WaitInv, UnmanagedInv, FirstRequestInv, ReleaseInv, ResizeInv

\* manage() keeps it: a window that waits to be shown has its request out.
LEMMA ManageWait ==
  ASSUME WaitInv, NEW counter \in BOOLEAN, NEW created \in BOOLEAN,
         NEW compositing \in BOOLEAN, Manage(counter, created, compositing)
  PROVE  WaitInv'
<1> DEFINE s == IF counter THEN WithCounter(sync, created) ELSE sync
<1>1. sync \in Syncs /\ alarms \in Seq(Nat) /\ asked \in Seq(Counts) /\ ready \in BOOLEAN
  BY DEF WaitInv, SyncInv
<1>2. /\ s \in Syncs
      /\ s.counter = counter /\ s.isPending = FALSE /\ s.failsafe = FALSE
  BY <1>1, CounterSync DEF Manage, WaitInv, UnmanagedInv, ResizeInv
<1>3. alarms' \in Seq(Nat)
  BY <1>1, CounterSync DEF Manage
<1>4. /\ sync' = IF compositing THEN Requested(s, FALSE) ELSE s
      /\ asked' = IF compositing THEN Asked(s) ELSE asked
      /\ ready' = IF compositing THEN ready ELSE TRUE
      /\ managed' = TRUE
  BY DEF Manage
<1> HIDE DEF s
<1>5. SyncInv'
  BY <1>1, <1>2, <1>3, <1>4, RequestedSync, AskedSeq DEF SyncInv
<1> QED
  BY <1>2, <1>4, <1>5, RequestedSync
     DEF WaitInv, UnmanagedInv, FirstRequestInv, ReleaseInv, ResizeInv

\* So does a counter property, when nothing is pending.
LEMMA CounterWait ==
  ASSUME WaitInv, ~AnyTime, NEW created \in BOOLEAN, CounterProperty(created)
  PROVE  WaitInv'
<1>1. managed' = managed /\ managed /\ ready' = ready /\ ready = TRUE /\ sync.isPending = FALSE
      /\ asked' = asked
  BY DEF CounterProperty, window, WaitInv, SyncInv, Syncs
<1>2. sync' = WithCounter(sync, created) /\ alarms' = CounterAlarms(sync, created)
  BY DEF CounterProperty
<1>3. SyncInv'
  BY <1>1, <1>2, CounterSync DEF WaitInv, SyncInv
<1>4. sync'.isPending = FALSE
  BY <1>1, <1>2, CounterSync DEF WaitInv, SyncInv
<1> QED
  BY <1>1, <1>3, <1>4 DEF WaitInv, UnmanagedInv, FirstRequestInv, ReleaseInv, ResizeInv

\* So does a step of an interactive resize, with a counter or without.
LEMMA ResizeWait ==
  ASSUME WaitInv, NEW size \in Sizes, ResizeStep(size)
  PROVE  WaitInv'
<1> DEFINE t == [sync EXCEPT !.timeout = TRUE]
<1>1. /\ t \in Syncs /\ t.counter = sync.counter /\ t.isPending = sync.isPending
      /\ t.interactiveResize = sync.interactiveResize
      /\ t.timeout = TRUE /\ t.failsafe = sync.failsafe
  BY DEF WaitInv, SyncInv, Syncs
<1>2. ready' = ready /\ managed' = managed /\ managed = TRUE /\ alarms' = alarms
      /\ resizing' = resizing /\ asked' = Asked(sync)
  BY DEF ResizeStep, WaitInv, ResizeInv, SyncInv
<1>3. sync.isPending = FALSE \/ sync.interactiveResize = FALSE
  BY DEF ResizeStep, isWaitingForInteractiveMoveResizeSync, WaitInv, SyncInv, Syncs
<1>4. asked' \in Seq(Counts)
  BY <1>2, AskedSeq DEF WaitInv, SyncInv
<1>5. CASE sync.counter = TRUE
  <2>1. sync' = Requested(t, TRUE)
    BY <1>5 DEF ResizeStep
  <2> HIDE DEF t
  <2>2. SyncInv'
    BY <1>1, <1>2, <1>4, <2>1, RequestedSync DEF WaitInv, SyncInv
  <2>3. CASE sync.isPending = TRUE
    <3>1. sync' = t
      BY <1>1, <2>1, <2>3, RequestedSync
    <3>2. /\ sync'.counter = sync.counter /\ sync'.isPending = sync.isPending
          /\ sync'.interactiveResize = FALSE /\ sync'.failsafe = sync.failsafe
      BY <1>1, <1>3, <2>3, <3>1
    <3> QED
      BY <1>2, <2>2, <2>3, <3>2
         DEF WaitInv, UnmanagedInv, FirstRequestInv, ReleaseInv, ResizeInv
  <2>4. CASE sync.isPending = FALSE
    <3>1. ready = TRUE
      BY <1>5, <2>4 DEF WaitInv, FirstRequestInv, SyncInv
    <3>2. t.counter = TRUE /\ t.isPending = FALSE /\ t \in Syncs /\ TRUE \in BOOLEAN
      BY <1>1, <1>5, <2>4
    <3>3. Requested(t, TRUE).failsafe = TRUE
      BY <3>2, RequestedSync, Zenon
    <3> QED
      BY <1>2, <2>1, <2>2, <3>1, <3>3
         DEF WaitInv, UnmanagedInv, FirstRequestInv, ReleaseInv, ResizeInv
  <2> QED
    BY <2>3, <2>4 DEF WaitInv, SyncInv, Syncs
<1>6. CASE sync.counter = FALSE
  <2>1. sync' = [sync EXCEPT !.timeout = TRUE, !.isPending = TRUE, !.interactiveResize = TRUE]
    BY <1>6 DEF ResizeStep
  <2>2. /\ sync' \in Syncs /\ sync'.counter = FALSE /\ sync'.timeout = TRUE
        /\ sync'.failsafe = sync.failsafe
    BY <1>6, <2>1 DEF WaitInv, SyncInv, Syncs
  <2> QED
    BY <1>2, <1>4, <1>6, <2>2
       DEF WaitInv, SyncInv, UnmanagedInv, FirstRequestInv, ReleaseInv, ResizeInv
<1> QED
  BY <1>5, <1>6 DEF WaitInv, SyncInv, Syncs

\* Starting, finishing and cancelling a resize, and resizes by others.
LEMMA GeometryWait ==
  ASSUME WaitInv,
         \/ StartResize
         \/ \E cancel \in BOOLEAN : FinishResize(cancel)
         \/ \E size \in Sizes : MoveResize(size)
  PROVE  WaitInv'
<1>1. /\ sync' = sync /\ managed' = managed /\ ready' = ready
      /\ asked' = asked /\ alarms' = alarms /\ (~managed => resizing' = FALSE)
  BY DEF StartResize, FinishResize, MoveResize, client, WaitInv, ResizeInv
<1> QED
  BY <1>1 DEF WaitInv, SyncInv, UnmanagedInv, FirstRequestInv, ReleaseInv, ResizeInv

\* An alarm event ends the waiting, or is of an older request.
LEMMA AlarmWait ==
  ASSUME WaitInv, AlarmEvent
  PROVE  WaitInv'
<1>1. managed' = managed /\ resizing' = resizing /\ asked' = asked /\ alarms' = alarms
  BY DEF AlarmEvent
<1>2. CASE HandleSync
  <2>1. /\ sync' \in Syncs /\ sync'.isPending = FALSE /\ sync'.counter = sync.counter
        /\ sync'.failsafe = FALSE
    BY <1>2 DEF HandleSync, WaitInv, SyncInv, Syncs
  <2>2. ready' = TRUE
    BY <1>2 DEF HandleSync
  <2> QED
    BY <1>1, <2>1, <2>2
       DEF WaitInv, SyncInv, UnmanagedInv, FirstRequestInv, ReleaseInv, ResizeInv
<1>3. CASE UNCHANGED <<sync, ready, frame>>
  BY <1>1, <1>3
     DEF WaitInv, SyncInv, UnmanagedInv, FirstRequestInv, ReleaseInv, ResizeInv
<1> QED
  BY <1>2, <1>3 DEF AlarmEvent

\* The sync timer ends the waiting of a client without a counter only.
LEMMA TimeoutWait ==
  ASSUME WaitInv, HandleSyncTimeout
  PROVE  WaitInv'
<1>1. /\ managed' = managed /\ resizing' = resizing /\ asked' = asked
      /\ alarms' = alarms /\ ready' = ready
  BY DEF HandleSyncTimeout, client
<1>2. /\ sync' \in Syncs /\ sync'.counter = sync.counter /\ sync'.failsafe = sync.failsafe
      /\ sync.counter = TRUE => /\ sync'.isPending = sync.isPending
                                /\ sync'.interactiveResize = sync.interactiveResize
      /\ sync.counter = FALSE => sync'.isPending = FALSE
      /\ sync.isPending = FALSE => sync'.isPending = FALSE
  BY DEF HandleSyncTimeout, WaitInv, SyncInv, Syncs
<1>3. sync.counter \in BOOLEAN
  BY DEF WaitInv, SyncInv, Syncs
<1> QED
  BY <1>1, <1>2, <1>3
     DEF WaitInv, SyncInv, UnmanagedInv, FirstRequestInv, ReleaseInv, ResizeInv

\* The failsafe of the first request ends no waiting, because the waiting of
\* a resize cannot have begun; a later one takes the waiting away.
LEMMA FailsafeWait ==
  ASSUME WaitInv, FailsafeTimeout
  PROVE  WaitInv'
<1>1. managed' = managed /\ resizing' = resizing /\ asked' = asked /\ alarms' = alarms
  BY DEF FailsafeTimeout, client
<1>2. CASE ready = TRUE
  <2>1. sync' \in Syncs /\ sync'.isPending = FALSE /\ sync'.failsafe = FALSE
        /\ sync'.counter = FALSE
    <3>1. sync \in Syncs /\ None \in Nat
      BY DEF WaitInv, SyncInv, None
    <3>2. sync' = [sync EXCEPT !.isPending = FALSE, !.interactiveResize = FALSE,
                               !.counter = FALSE, !.alarm = None,
                               !.timeout = FALSE, !.failsafe = FALSE]
      BY <1>2 DEF FailsafeTimeout
    <3> QED
      BY <3>1, <3>2 DEF Syncs
  <2>2. ready' = ready
    BY <1>2 DEF FailsafeTimeout
  <2> QED
    BY <1>1, <2>1, <2>2
       DEF WaitInv, SyncInv, UnmanagedInv, FirstRequestInv, ReleaseInv, ResizeInv
<1>3. CASE ready = FALSE
  <2>1. sync.failsafe = TRUE /\ sync' = [sync EXCEPT !.failsafe = FALSE] /\ ready' = TRUE
    BY <1>3 DEF FailsafeTimeout, WaitInv, SyncInv, Syncs
  <2>2. sync.interactiveResize = FALSE
    BY <1>3, <2>1 DEF WaitInv, FirstRequestInv
  <2>3. /\ sync' \in Syncs /\ sync'.interactiveResize = FALSE /\ sync'.failsafe = FALSE
        /\ sync'.counter = sync.counter /\ sync'.isPending = sync.isPending
    BY <2>1, <2>2 DEF WaitInv, SyncInv, Syncs
  <2> QED
    BY <1>1, <2>1, <2>3
       DEF WaitInv, SyncInv, UnmanagedInv, FirstRequestInv, ReleaseInv, ResizeInv
<1> QED
  BY <1>2, <1>3 DEF WaitInv, SyncInv

\* Damage can only show the window.
LEMMA DamageWait ==
  ASSUME WaitInv, Damage
  PROVE  WaitInv'
<1>1. /\ managed' = managed /\ resizing' = resizing /\ asked' = asked
      /\ alarms' = alarms /\ sync' = sync
  BY DEF Damage, client
<1>2. ready' \in BOOLEAN /\ (ready' = FALSE => ready = FALSE)
  BY DEF Damage, WaitInv, SyncInv
<1> QED
  BY <1>1, <1>2
     DEF WaitInv, SyncInv, UnmanagedInv, FirstRequestInv, ReleaseInv, ResizeInv

\* What the client does is not seen before the alarm event.
LEMMA AnswerWait ==
  ASSUME WaitInv, ClientAnswers
  PROVE  WaitInv'
<1>1. managed' = managed /\ resizing' = resizing /\ ready' = ready /\ sync' = sync
  BY DEF ClientAnswers, window
<1>2. asked' \in Seq(Counts) /\ Head(asked) \in Counts
  BY DEF ClientAnswers, WaitInv, SyncInv
<1>3. Number(Head(asked)) + 1 \in Nat
  BY <1>2, SyncAssumption DEF Number, Counts
<1>4. alarms' \in Seq(Nat)
  <2> DEFINE n == Number(Head(asked))
  <2>1. alarms' = [i \in DOMAIN alarms |->
                     IF i \in GoneOff(Head(asked)) THEN n + 1 ELSE alarms[i]]
    BY DEF ClientAnswers
  <2>2. n + 1 \in Nat
    BY <1>3
  <2> HIDE DEF n
  <2>3. alarms \in Seq(Nat)
    BY DEF WaitInv, SyncInv
  <2>4. DOMAIN alarms = 1..Len(alarms) /\ Len(alarms) \in Nat
        /\ \A i \in DOMAIN alarms : alarms[i] \in Nat
    BY <2>3
  <2>5. alarms' \in [1..Len(alarms) -> Nat]
    BY <2>1, <2>2, <2>4
  <2> QED
    BY <2>4, <2>5, SeqDef
<1> QED
  BY <1>1, <1>2, <1>4
     DEF WaitInv, SyncInv, UnmanagedInv, FirstRequestInv, ReleaseInv, ResizeInv

\* Every step keeps the invariant, if the counter property is not set in
\* the middle of a request.
LEMMA StepWait ==
  ASSUME ~AnyTime, WaitInv, [Next]_vars
  PROVE  WaitInv'
<1>1. CASE Next
  BY <1>1, ManageWait, CounterWait, ResizeWait, GeometryWait, AlarmWait, TimeoutWait,
     FailsafeWait, DamageWait, AnswerWait DEF Next
<1>2. CASE UNCHANGED vars
  BY <1>2 DEF vars, window, client, WaitInv, SyncInv, UnmanagedInv, FirstRequestInv,
     ReleaseInv, ResizeInv
<1> QED
  BY <1>1, <1>2

-----------------------------------------------------------------------------
\* While KWin waits for the client in an interactive resize, and ignores the
\* pointer, there is always a timer that ends the waiting: for every client,
\* every number of requests and every width of the counter, if the counter
\* property is not set in the middle of a request.
THEOREM WaitsAreReleased == ASSUME ~AnyTime PROVE Spec => []WaitHasRelease
<1>1. WaitInv /\ [Next]_vars => WaitInv'
  BY StepWait
<1>2. WaitInv => WaitHasRelease
  BY DEF WaitInv, SyncInv, Syncs, ReleaseInv, WaitHasRelease,
     isWaitingForInteractiveMoveResizeSync
<1> QED
  BY <1>1, <1>2, InitWait, PTL DEF Spec

-----------------------------------------------------------------------------
(* What is under way between KWin and the client.                          *)

\* As long as support was never removed the window has one alarm at most, so
\* that an answer comes back as one event at most: a request, or the event
\* that answers it, is under way only while KWin has it as pending.
UnderWayInv ==
  /\ Len(alarms) <= 1 /\ (sync.alarm = None => Len(alarms) = 0)
  /\ Len(asked) <= 1 /\ Len(events) <= 1
  /\ Len(asked) = 0 \/ Len(events) = 0
  /\ sync.isPending = FALSE \/ sync.counter = FALSE => Len(asked) = 0 /\ Len(events) = 0

Events == [alarm : Nat, value : Counts]

StackInv ==
  /\ removed \in BOOLEAN /\ events \in Seq(Events)
  /\ removed = FALSE => UnderWayInv

\* What the client has been asked, of a request on an empty stack.
LEMMA AskedOnce ==
  ASSUME NEW t \in Syncs, asked \in Seq(Counts)
  PROVE  /\ t.counter = FALSE \/ t.isPending = TRUE => Asked(t) = asked
         /\ t.counter = TRUE /\ t.isPending = FALSE => Len(Asked(t)) = Len(asked) + 1
<1>1. NextValue(t.value) \in Counts
  BY NextValueCounts DEF Syncs
<1> QED
  BY <1>1 DEF Asked, Sends, Syncs

\* An alarm is created only where there is none.
LEMMA OneAlarm ==
  ASSUME NEW t \in Syncs, NEW created \in BOOLEAN, alarms \in Seq(Nat),
         Len(alarms) <= 1, t.alarm = None => Len(alarms) = 0
  PROVE  /\ Len(CounterAlarms(t, created)) <= 1
         /\ WithCounter(t, created).alarm = None => Len(CounterAlarms(t, created)) = 0
<1>1. Len(alarms) \in Nat /\ Len(Append(alarms, 1)) = Len(alarms) + 1
  OBVIOUS
<1>2. WithCounter(t, created).alarm =
        IF t.alarm = None /\ created THEN Len(alarms) + 1 ELSE t.alarm
  BY DEF WithCounter, Syncs
<1> QED
  BY <1>1, <1>2 DEF CounterAlarms, None

\* manage() sends the first request.
LEMMA ManageStack ==
  ASSUME WaitInv, StackInv, NEW counter \in BOOLEAN, NEW created \in BOOLEAN,
         NEW compositing \in BOOLEAN, Manage(counter, created, compositing)
  PROVE  StackInv'
<1> DEFINE t == IF counter THEN WithCounter(sync, created) ELSE sync
<1>1. /\ sync \in Syncs /\ alarms \in Seq(Nat) /\ asked \in Seq(Counts)
      /\ sync.isPending = FALSE /\ sync.counter = FALSE
  BY DEF Manage, WaitInv, SyncInv, UnmanagedInv, ResizeInv
<1>2. /\ alarms' = IF counter THEN CounterAlarms(sync, created) ELSE alarms
      /\ sync' = IF compositing THEN Requested(t, FALSE) ELSE t
      /\ asked' = IF compositing THEN Asked(t) ELSE asked
      /\ events' = events /\ removed' = removed
  BY DEF Manage
<1>3. t \in Syncs /\ t.counter = counter /\ t.isPending = FALSE
  BY <1>1, CounterSync
<1>4. /\ removed = FALSE => Len(alarms') <= 1 /\ (t.alarm = None => Len(alarms') = 0)
      /\ removed = FALSE => Len(asked) = 0 /\ Len(events) = 0
  BY <1>1, <1>2, OneAlarm DEF StackInv, UnderWayInv
<1> HIDE DEF t
<1>5. Requested(t, FALSE).alarm = t.alarm
  BY <1>3 DEF Requested, Syncs
<1>6. /\ counter = TRUE => Requested(t, FALSE).counter = TRUE /\ Requested(t, FALSE).isPending = TRUE
      /\ counter = FALSE => Asked(t) = asked
      /\ counter = TRUE => Len(Asked(t)) = Len(asked) + 1
  BY <1>1, <1>3, RequestedSync, AskedOnce
<1>7. StackInv /\ removed' = removed /\ events' = events /\ Len(asked) \in Nat
  BY <1>1, <1>2
<1>8. CASE compositing = TRUE /\ counter = TRUE
  <2>1. sync' = Requested(t, FALSE) /\ asked' = Asked(t)
    BY <1>2, <1>8
  <2>2. sync'.counter = TRUE /\ sync'.isPending = TRUE /\ sync'.alarm = t.alarm
        /\ Len(asked') = Len(asked) + 1
    BY <1>5, <1>6, <1>8, <2>1
  <2>3. removed = FALSE => UnderWayInv'
    BY <1>4, <1>7, <2>2 DEF UnderWayInv
  <2> QED
    BY <1>7, <2>3 DEF StackInv
<1>9. CASE compositing = FALSE \/ counter = FALSE
  BY <1>2, <1>4, <1>5, <1>6, <1>7, <1>9 DEF StackInv, UnderWayInv
<1> QED
  BY <1>8, <1>9

\* A counter property is set while nothing is under way.
LEMMA CounterStack ==
  ASSUME WaitInv, StackInv, ~AnyTime, NEW created \in BOOLEAN, CounterProperty(created)
  PROVE  StackInv'
<1>1. /\ sync \in Syncs /\ alarms \in Seq(Nat) /\ sync.isPending = FALSE
      /\ sync' = WithCounter(sync, created) /\ alarms' = CounterAlarms(sync, created)
      /\ asked' = asked /\ events' = events /\ removed' = removed
  BY DEF CounterProperty, WaitInv, SyncInv, Syncs
<1>2. removed = FALSE => Len(alarms') <= 1 /\ (sync'.alarm = None => Len(alarms') = 0)
  BY <1>1, OneAlarm DEF StackInv, UnderWayInv
<1> QED
  BY <1>1, <1>2 DEF StackInv, UnderWayInv

\* A step of a resize sends a request only if nothing is pending.
LEMMA ResizeStack ==
  ASSUME WaitInv, StackInv, NEW size \in Sizes, ResizeStep(size)
  PROVE  StackInv'
<1> DEFINE t == [sync EXCEPT !.timeout = TRUE]
<1>1. /\ sync \in Syncs /\ asked \in Seq(Counts) /\ asked' = Asked(sync)
      /\ alarms' = alarms /\ events' = events /\ removed' = removed
  BY DEF ResizeStep, WaitInv, SyncInv
<1>2. t \in Syncs /\ t.counter = sync.counter /\ t.isPending = sync.isPending /\ t.alarm = sync.alarm
  BY <1>1 DEF Syncs
<1>3. CASE sync.counter = TRUE
  <2>1. sync' = Requested(t, TRUE)
    BY <1>3 DEF ResizeStep
  <2> HIDE DEF t
  <2>2. sync'.alarm = sync.alarm
    BY <1>2, <2>1 DEF Requested, Syncs
  <2>3. CASE sync.isPending = TRUE
    <3>1. sync' = t /\ asked' = asked
      BY <1>1, <1>2, <2>1, <2>3, RequestedSync, AskedOnce
    <3> QED
      BY <1>1, <1>2, <3>1 DEF StackInv, UnderWayInv
  <2>4. CASE sync.isPending = FALSE
    <3>1. t.counter = TRUE /\ t.isPending = FALSE /\ TRUE \in BOOLEAN
      BY <1>2, <1>3, <2>4
    <3>2. Requested(t, TRUE).counter = t.counter /\ Requested(t, TRUE).isPending = TRUE
      BY <1>2, <3>1, RequestedSync, Zenon
    <3>3. Len(asked') = Len(asked) + 1
      BY <1>1, <1>3, <2>4, AskedOnce
    <3>4. removed = FALSE => Len(asked) = 0 /\ Len(events) = 0
      BY <2>4 DEF StackInv, UnderWayInv
    <3>5. sync'.counter = TRUE /\ sync'.isPending = TRUE
      BY <2>1, <3>1, <3>2
    <3> QED
      BY <1>1, <2>2, <3>3, <3>4, <3>5 DEF StackInv, UnderWayInv
  <2> QED
    BY <1>1, <2>3, <2>4 DEF Syncs
<1>4. CASE sync.counter = FALSE
  <2>1. sync' = [sync EXCEPT !.timeout = TRUE, !.isPending = TRUE, !.interactiveResize = TRUE]
    BY <1>4 DEF ResizeStep
  <2>2. sync'.counter = FALSE /\ sync'.alarm = sync.alarm /\ asked' = asked
    BY <1>1, <1>4, <2>1, AskedOnce DEF Syncs
  <2> QED
    BY <1>1, <1>4, <2>2 DEF StackInv, UnderWayInv
<1> QED
  BY <1>1, <1>3, <1>4 DEF Syncs

\* The event that is handled was the only thing under way.
LEMMA AlarmStack ==
  ASSUME WaitInv, StackInv, AlarmEvent
  PROVE  StackInv'
<1>1. /\ sync \in Syncs /\ asked' = asked /\ alarms' = alarms /\ removed' = removed
      /\ events # <<>> /\ events' = Tail(events)
  BY DEF AlarmEvent, WaitInv, SyncInv
<1>2. /\ events \in Seq(Events) /\ events' \in Seq(Events)
      /\ Len(events) \in Nat \ {0} /\ Len(events') = Len(events) - 1
  BY <1>1, HeadTailProperties, EmptySeq, LenProperties DEF StackInv
<1>3. removed = FALSE => Len(asked) = 0 /\ Len(events') = 0
  BY <1>2 DEF StackInv, UnderWayInv
<1>4. sync'.alarm = sync.alarm
  BY <1>1 DEF AlarmEvent, HandleSync, Syncs
<1> QED
  BY <1>1, <1>2, <1>3, <1>4 DEF StackInv, UnderWayInv

\* The sync timer gives up no request of a client that has a counter.
LEMMA TimeoutStack ==
  ASSUME WaitInv, StackInv, HandleSyncTimeout
  PROVE  StackInv'
<1>1. /\ sync \in Syncs /\ removed' = removed
      /\ asked' = asked /\ alarms' = alarms /\ events' = events
  BY DEF HandleSyncTimeout, client, WaitInv, SyncInv
<1>2. /\ sync'.counter = sync.counter /\ sync'.alarm = sync.alarm
      /\ sync.counter = TRUE => sync'.isPending = sync.isPending
  BY <1>1 DEF HandleSyncTimeout, Syncs
<1>3. sync.counter \in BOOLEAN
  BY <1>1 DEF Syncs
<1> QED
  BY <1>1, <1>2, <1>3 DEF StackInv, UnderWayInv

\* The failsafe removes support, or leaves the first request pending.
LEMMA FailsafeStack ==
  ASSUME WaitInv, StackInv, FailsafeTimeout
  PROVE  StackInv'
<1>1. sync \in Syncs /\ asked' = asked /\ alarms' = alarms /\ events' = events /\ ready \in BOOLEAN
  BY DEF FailsafeTimeout, client, WaitInv, SyncInv
<1>2. CASE ready = TRUE
  BY <1>1, <1>2 DEF FailsafeTimeout, StackInv
<1>3. CASE ready = FALSE
  <2>1. sync' = [sync EXCEPT !.failsafe = FALSE] /\ removed' = removed
    BY <1>3 DEF FailsafeTimeout
  <2>2. sync'.counter = sync.counter /\ sync'.alarm = sync.alarm /\ sync'.isPending = sync.isPending
    BY <1>1, <2>1 DEF Syncs
  <2> QED
    BY <1>1, <2>1, <2>2 DEF StackInv, UnderWayInv
<1> QED
  BY <1>1, <1>2, <1>3

\* The answer turns the request into an event of the one alarm, at most.
LEMMA AnswerStack ==
  ASSUME WaitInv, StackInv, ClientAnswers
  PROVE  StackInv'
<1> DEFINE v == Head(asked)
<1>1. /\ asked \in Seq(Counts) /\ asked # <<>> /\ alarms \in Seq(Nat)
      /\ asked' = Tail(asked) /\ sync' = sync /\ removed' = removed
      /\ DOMAIN alarms' = DOMAIN alarms
  BY DEF ClientAnswers, WaitInv, SyncInv
<1>2. v \in Counts /\ Len(asked) \in Nat \ {0} /\ Len(asked') = Len(asked) - 1
  BY <1>1, HeadTailProperties, EmptySeq, LenProperties
<1>3. PICK order \in SetToSeqs(GoneOff(v)) :
        events' = events \o [k \in DOMAIN order |-> [alarm |-> order[k], value |-> v]]
  BY DEF ClientAnswers
<1>4. DOMAIN alarms = 1..Len(alarms) /\ Len(alarms) \in Nat /\ alarms' \in Seq(Nat)
  BY <1>1, AnswerWait, LenProperties DEF WaitInv, SyncInv
<1>5. Len(alarms') = Len(alarms)
  BY <1>1, <1>4, LenProperties
<1>6. /\ IsFiniteSet(GoneOff(v)) /\ Cardinality(GoneOff(v)) <= Len(alarms)
      /\ Cardinality(GoneOff(v)) \in Nat /\ GoneOff(v) \subseteq Nat
  <2>1. IsFiniteSet(1..Len(alarms)) /\ Cardinality(1..Len(alarms)) = Len(alarms)
    <3>1. 1 \in Int /\ Len(alarms) \in Int
      BY <1>4
    <3> QED
      <4>1. IsFiniteSet(1..Len(alarms)) /\ Cardinality(1..Len(alarms)) =
              IF 1 > Len(alarms) THEN 0 ELSE Len(alarms) - 1 + 1
        BY <3>1, FS_Interval
      <4> QED
        BY <1>4, <4>1
  <2>2. GoneOff(v) \subseteq 1..Len(alarms)
    BY <1>4 DEF GoneOff
  <2> QED
    BY <1>4, <2>1, <2>2, FS_Subset, FS_CardinalityType
<1>7. order \in [1..Cardinality(GoneOff(v)) -> GoneOff(v)]
  BY <1>3 DEF SetToSeqs
<1> DEFINE new == [k \in DOMAIN order |-> [alarm |-> order[k], value |-> v]]
<1> HIDE DEF v
<1>8. new \in [1..Cardinality(GoneOff(v)) -> Events]
  BY <1>2, <1>6, <1>7 DEF Events
<1>9. new \in Seq(Events) /\ Len(new) = Cardinality(GoneOff(v))
  <2> HIDE DEF new
  <2>1. new \in Seq(Events) /\ DOMAIN new = 1..Cardinality(GoneOff(v))
    BY <1>6, <1>8, SeqDef
  <2> QED
    BY <1>6, <2>1, LenProperties
<1>10. events' = events \o new
  BY <1>3
<1> HIDE DEF new
<1>11. /\ events' \in Seq(Events) /\ Len(events) \in Nat
       /\ Len(events') = Len(events) + Cardinality(GoneOff(v))
  <2>1. events \in Seq(Events)
    BY DEF StackInv
  <2> QED
    BY <1>9, <1>10, <2>1, ConcatProperties, LenProperties
<1> QED
  BY <1>1, <1>2, <1>4, <1>5, <1>6, <1>11 DEF StackInv, UnderWayInv

\* A client that has a request on the stack is never sent another, as the
\* comment in sendSyncRequest asks, however many resizes there are and
\* however late the client answers: unless support was removed from it.
THEOREM RequestsNotOnTop == ASSUME ~AnyTime PROVE Spec => []NoRequestOnTop
<1>1. Init => StackInv
  <2> SUFFICES ASSUME Init PROVE StackInv
    OBVIOUS
  <2>1. Len(asked) = 0 /\ Len(alarms) = 0 /\ Len(events) = 0 /\ removed = FALSE
        /\ events \in Seq(Events)
    BY DEF Init
  <2>2. UnderWayInv
    BY <2>1 DEF UnderWayInv
  <2> QED
    BY <2>1, <2>2 DEF StackInv
<1>2. WaitInv /\ StackInv /\ [Next]_vars => (WaitInv /\ StackInv)'
  <2> SUFFICES ASSUME WaitInv, StackInv, [Next]_vars PROVE StackInv'
    BY StepWait
  <2>1. CASE \/ StartResize \/ Damage \/ UNCHANGED vars
             \/ \E cancel \in BOOLEAN : FinishResize(cancel)
             \/ \E size \in Sizes : MoveResize(size)
    <3>1. UNCHANGED <<sync, client, removed>>
      BY <2>1 DEF StartResize, FinishResize, MoveResize, Damage, vars
    <3> QED
      BY <3>1 DEF client, StackInv, UnderWayInv
  <2> QED
    BY <2>1, ManageStack, CounterStack, ResizeStack, AlarmStack, TimeoutStack, FailsafeStack,
       AnswerStack DEF Next
<1>3. WaitInv /\ StackInv => NoRequestOnTop
  BY DEF WaitInv, SyncInv, StackInv, UnderWayInv, NoRequestOnTop
<1> QED
  BY <1>1, <1>2, <1>3, InitWait, PTL DEF Spec
=============================================================================
