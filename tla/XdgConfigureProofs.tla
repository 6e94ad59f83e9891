------------------------ MODULE XdgConfigureProofs --------------------------
(***************************************************************************)
(* Proofs about XdgConfigure, for any positions, sizes and states, any     *)
(* length of the queue of configure events, any client and serials that    *)
(* may wrap.                                                               *)
(***************************************************************************)
EXTENDS XdgConfigure, SequenceTheorems, TLAPS

\* What is left of a queue after its first k elements were taken.
LEMMA RestOfQueue ==
  ASSUME NEW S, NEW s \in Seq(S), NEW k \in 0..Len(s),
         NEW r, r = SubSeq(s, k + 1, Len(s))
  PROVE  /\ r \in Seq(S)
         /\ Len(r) = Len(s) - k
         /\ \A i \in 1..Len(r) : r[i] = s[k + i]
         /\ k = Len(s) <=> r = <<>>
  <1>1. /\ r \in Seq(S)
        /\ Len(r) = Len(s) - k
        /\ \A i \in 1..Len(r) : r[i] = s[k + i]
    BY SubSeqProperties
  <1>2. r = <<>> <=> Len(r) = 0
    BY <1>1, EmptySeq
  <1> QED
    BY <1>1, <1>2

\* Appending to a queue.
LEMMA Appended ==
  ASSUME NEW S, NEW s \in Seq(S), NEW e \in S, NEW r, r = Append(s, e)
  PROVE  /\ r \in Seq(S)
         /\ Len(r) = Len(s) + 1
         /\ r # <<>>
         /\ r[Len(r)] = e
         /\ \A i \in 1..Len(s) : r[i] = s[i]
  BY AppendProperties

\* A non-empty queue has a last element.
LEMMA LastOfQueue ==
  ASSUME NEW S, NEW s \in Seq(S), s # <<>>
  PROVE  Len(s) \in Nat \ {0} /\ Len(s) \in 1..Len(s) /\ s[Len(s)] \in S
  BY EmptySeq

\* A configure event with its position flag cleared.
LEMMA ClearedEvent ==
  ASSUME NEW e \in Configures, NEW f, f = [e EXCEPT !.position = FALSE]
  PROVE  f \in Configures /\ f.position = FALSE /\ f.next = e.next
  BY DEF Configures

\* The queue with its position flags cleared.
WithoutPositions(s) == [i \in DOMAIN s |-> [s[i] EXCEPT !.position = FALSE]]

LEMMA Cleared ==
  ASSUME NEW s \in Seq(Configures), NEW r, r = WithoutPositions(s)
  PROVE  /\ r \in Seq(Configures)
         /\ Len(r) = Len(s)
         /\ \A i \in 1..Len(s) : r[i].position = FALSE /\ r[i].next = s[i].next
         /\ s = <<>> <=> r = <<>>
  <1>1. DOMAIN s = 1..Len(s) /\ Len(s) \in Nat
    OBVIOUS
  <1>2. \A i \in 1..Len(s) : /\ r[i] \in Configures
                             /\ r[i].position = FALSE /\ r[i].next = s[i].next
    BY <1>1, ElementOfSeq, ClearedEvent, Zenon DEF WithoutPositions
  <1>3. r \in Seq(Configures) /\ Len(r) = Len(s)
    BY <1>1, <1>2, SeqDef DEF WithoutPositions
  <1>4. s = <<>> <=> r = <<>>
    BY <1>3, EmptySeq
  <1> QED
    BY <1>2, <1>3, <1>4

-----------------------------------------------------------------------------
(***************************************************************************)
(* The inductive invariant.                                                *)
(***************************************************************************)

\* Unless another configure event is about to be sent, the newest one carries
\* the states and the decoration KWin wants.
LooksInv ==
  ~configureTimer =>
    IF configureEvents = <<>> THEN acked = next ELSE LastEvent.next = next

\* A position waits only for a configure event that is scheduled, and the
\* newest event positions the window if any does.
PositionInv ==
  /\ configurePosition => configureTimer
  /\ PositionSent => Inherited

\* What has become of the last geometry request.
MoveInv ==
  goal.kind = "move" =>
    /\ ~configurePosition /\ ~PositionSent
    /\ goal.fate = "kept" => frame.pos = goal.rect.pos

PlaceInv ==
  goal.kind = "place" /\ goal.fate = "kept" =>
    IF configurePosition \/ Inherited
    THEN /\ moveResizeGeometry = goal.rect
         /\ ~configurePosition => /\ LastEvent.bounds = goal.rect
                                  /\ goal.edge = HeldEdge(LastEvent.gravity)
    ELSE Edge(frame, goal.edge) = Edge(goal.rect, goal.edge)

\* Without interactive moves and hidden windows.
ResizeInv ==
  /\ interactive # "move"
  /\ interactive = "resize" => "Resizing" \in next.states
  /\ Settled /\ interactive = "none" => moveResizeGeometry = frame

-----------------------------------------------------------------------------
(***************************************************************************)
(* What the steps do, as far as the invariant is concerned.                *)
(***************************************************************************)

\* A set of states and a decoration with one state switched.
LEMMA ToggledLooks ==
  ASSUME NEW look \in Looks, NEW f \in Flags
  PROVE  /\ Toggled(look, f) \in Looks
         /\ "Resizing" \in Toggled(look, f).states <=> "Resizing" \in look.states
         /\ \A d \in BOOLEAN : /\ [Toggled(look, f) EXCEPT !.decoration = d] \in Looks
                               /\ [Toggled(look, f) EXCEPT !.decoration = d].states
                                    = Toggled(look, f).states
  <1> DEFINE st == IF f \in look.states THEN look.states \ {f} ELSE look.states \cup {f}
  <1>1. f # "Resizing"
    BY KindAssumption
  <1>2. look.states \in SUBSET (Flags \cup {"Resizing"})
    BY DEF Looks
  <1>3. st \in SUBSET (Flags \cup {"Resizing"})
    BY <1>2
  <1>4. "Resizing" \in st <=> "Resizing" \in look.states
    BY <1>1
  <1>5. Toggled(look, f) = [look EXCEPT !.states = st]
    BY DEF Toggled
  <1> HIDE DEF st
  <1>6. Toggled(look, f) \in Looks /\ Toggled(look, f).states = st
    BY <1>3, <1>5 DEF Looks
  <1>7. \A d \in BOOLEAN : /\ [Toggled(look, f) EXCEPT !.decoration = d] \in Looks
                           /\ [Toggled(look, f) EXCEPT !.decoration = d].states
                                = Toggled(look, f).states
    BY <1>6 DEF Looks
  <1> QED
    BY <1>4, <1>6, <1>7

\* Requests have the shape the code gives them.
LEMMA RequestTyped ==
  ASSUME TypeOK, NEW rect \in Rects, NEW scheduled \in BOOLEAN,
         RequestResize(rect, scheduled)
  PROVE  /\ frame' \in Rects /\ moveResizeGeometry' \in Rects
         /\ configureTimer' \in BOOLEAN /\ configurePosition' \in BOOLEAN
         /\ configureEvents' = configureEvents
         /\ goal' \in Goals
  <1>1. /\ frame' \in Rects /\ moveResizeGeometry' \in Rects
        /\ configureEvents' = configureEvents
    BY DEF RequestResize, TypeOK
  <1>2. configureTimer' \in BOOLEAN /\ configurePosition' \in BOOLEAN
    BY Zenon DEF RequestResize, TypeOK
  <1>3. goal' \in Goals
    BY DEF RequestResize, Goals
  <1> QED
    BY <1>1, <1>2, <1>3

\* The event sendConfigure() appends.
LEMMA SendEffect ==
  ASSUME TypeOK, SendConfigure
  PROVE  \E e \in Configures :
           /\ e.bounds = moveResizeGeometry /\ e.next = next /\ e.gravity = nextGravity
           /\ e.position = (Inherited \/ configurePosition)
           /\ configureEvents' = Append(configureEvents, e)
  <1>1. PICK s \in NextSerials :
          configureEvents' = Append(configureEvents,
            [serial |-> s, bounds |-> moveResizeGeometry, next |-> next,
             gravity |-> nextGravity, position |-> (Inherited \/ configurePosition)])
    BY DEF SendConfigure
  <1>2. s \in 0..(SerialModulus - 1)
    <2>1. CASE configureEvents = <<>>
      BY <2>1, SerialAssumption DEF NextSerials
    <2>2. CASE configureEvents # <<>>
      <3>1. LastEvent \in Configures
        BY <2>2, LastOfQueue DEF LastEvent, TypeOK
      <3>2. LastEvent.serial \in Nat
        BY <3>1 DEF Configures
      <3>3. s = (LastEvent.serial + 1) % SerialModulus
        BY <1>1, <2>2 DEF NextSerials
      <3> HIDE DEF LastEvent
      <3> QED
        BY <3>2, <3>3, SerialAssumption
    <2> QED
      BY <2>1, <2>2
  <1>3. (Inherited \/ configurePosition) \in BOOLEAN
    <2>1. configureEvents # <<>> => LastEvent \in Configures
      BY LastOfQueue DEF LastEvent, TypeOK
    <2>2. configureEvents # <<>> => LastEvent.position \in BOOLEAN
      BY <2>1 DEF Configures
    <2> QED
      BY <2>2, Zenon DEF Inherited, TypeOK
  <1> DEFINE p == Inherited \/ configurePosition
             e == [serial |-> s, bounds |-> moveResizeGeometry, next |-> next,
                   gravity |-> nextGravity, position |-> p]
  <1>4. p \in BOOLEAN /\ configureEvents' = Append(configureEvents, e)
    BY <1>1, <1>3
  <1> HIDE DEF p
  <1>5. e \in Configures
    BY <1>2, <1>4 DEF TypeOK, Configures
  <1>6. /\ e.bounds = moveResizeGeometry /\ e.next = next /\ e.gravity = nextGravity
        /\ e.position = p
    OBVIOUS
  <1> HIDE DEF e
  <1> QED
    BY <1>4, <1>5, <1>6 DEF p

\* The queue before and after sendConfigure().
LEMMA SendQueue ==
  ASSUME TypeOK, SendConfigure
  PROVE  /\ configureEvents' \in Seq(Configures)
         /\ Len(configureEvents') = Len(configureEvents) + 1
         /\ configureEvents' # <<>>
         /\ LastEvent'.bounds = moveResizeGeometry /\ LastEvent'.next = next
         /\ LastEvent'.gravity = nextGravity
         /\ LastEvent'.position = (Inherited \/ configurePosition)
         /\ \A i \in 1..Len(configureEvents) : configureEvents'[i] = configureEvents[i]
  <1>1. PICK e \in Configures :
           /\ e.bounds = moveResizeGeometry /\ e.next = next /\ e.gravity = nextGravity
           /\ e.position = (Inherited \/ configurePosition)
           /\ configureEvents' = Append(configureEvents, e)
    BY SendEffect
  <1>2. /\ configureEvents' \in Seq(Configures)
        /\ Len(configureEvents') = Len(configureEvents) + 1
        /\ configureEvents' # <<>>
        /\ configureEvents'[Len(configureEvents')] = e
        /\ \A i \in 1..Len(configureEvents) : configureEvents'[i] = configureEvents[i]
    BY <1>1, Appended DEF TypeOK
  <1>3. LastEvent' = e
    BY <1>2 DEF LastEvent
  <1> QED
    BY <1>1, <1>2, <1>3

\* The queue and the acknowledged state after a commit.
LEMMA CommitQueue ==
  ASSUME TypeOK, NEW k \in 0..Len(configureEvents), NEW size \in ClientSizes,
         CommitTaking(k, size)
  PROVE  /\ configureEvents' \in Seq(Configures)
         /\ Len(configureEvents') = Len(configureEvents) - k
         /\ \A i \in 1..Len(configureEvents') :
              configureEvents'[i] = configureEvents[k + i]
         /\ configureEvents' = <<>> <=> k = Len(configureEvents)
         /\ configureEvents' # <<>> => LastEvent' = LastEvent
         /\ acked' = IF k > 0 THEN configureEvents[k].next ELSE acked
         /\ k > 0 => configureEvents[k] \in Configures
  <1>1. configureEvents' = SubSeq(configureEvents, k + 1, Len(configureEvents))
    BY DEF CommitTaking
  <1>2. configureEvents \in Seq(Configures) /\ Len(configureEvents) \in Nat
    BY LenProperties DEF TypeOK
  <1>3. /\ configureEvents' \in Seq(Configures)
        /\ Len(configureEvents') = Len(configureEvents) - k
        /\ \A i \in 1..Len(configureEvents') :
              configureEvents'[i] = configureEvents[k + i]
        /\ k = Len(configureEvents) <=> configureEvents' = <<>>
    <2>1. configureEvents' \in Seq(Configures)
      BY <1>1, <1>2, RestOfQueue
    <2>2. Len(configureEvents') = Len(configureEvents) - k
      BY <1>1, <1>2, RestOfQueue
    <2>3. \A i \in 1..Len(configureEvents') : configureEvents'[i] = configureEvents[k + i]
      BY <1>1, <1>2, RestOfQueue
    <2>4. k = Len(configureEvents) <=> configureEvents' = <<>>
      BY <1>2, <2>1, <2>2, EmptySeq
    <2> QED
      BY <2>1, <2>2, <2>3, <2>4
  <1>4. ASSUME configureEvents' # <<>>
        PROVE  LastEvent' = LastEvent
    <2>1. Len(configureEvents') \in 1..Len(configureEvents')
      BY <1>3, <1>4, LastOfQueue
    <2>2. k + Len(configureEvents') = Len(configureEvents)
      BY <1>2, <1>3
    <2> QED
      BY <1>3, <2>1, <2>2 DEF LastEvent
  <1>5. acked' = IF k > 0 THEN configureEvents[k].next ELSE acked
    BY DEF CommitTaking
  <1>6. k > 0 => configureEvents[k] \in Configures
    BY <1>2, ElementOfSeq
  <1> QED
    BY <1>3, <1>4, <1>5, <1>6

\* The rectangles requests are made of.
LEMMA RequestRectsTyped ==
  /\ RequestRects \subseteq Rects
  /\ TypeOK => \A p \in Positions : [pos |-> p, size |-> moveResizeGeometry.size] \in Rects
  /\ TypeOK => \A s \in FrameSizes : [pos |-> moveResizeGeometry.pos, size |-> s] \in Rects
  <1>1. /\ \A p \in Positions : p \in Int
        /\ \A s \in FrameSizes : s \in Int
    BY GeometryAssumption
  <1>2. RequestRects \subseteq Rects
    BY <1>1 DEF RequestRects, Rects
  <1>3. TypeOK => moveResizeGeometry.pos \in Int /\ moveResizeGeometry.size \in Int
    BY DEF TypeOK, Rects
  <1>4. TypeOK => \A p \in Positions : [pos |-> p, size |-> moveResizeGeometry.size] \in Rects
    BY <1>1, <1>3 DEF Rects
  <1>5. TypeOK => \A s \in FrameSizes : [pos |-> moveResizeGeometry.pos, size |-> s] \in Rects
    BY <1>1, <1>3 DEF Rects
  <1> QED
    BY <1>2, <1>4, <1>5

\* What move() does to the queue and to the window.
LEMMA MoveEffect ==
  ASSUME TypeOK, NEW pos \in Positions, Move(pos)
  PROVE  /\ moveResizeGeometry' \in Rects /\ frame' \in Rects /\ goal' \in Goals
         /\ configureEvents' \in Seq(Configures)
         /\ Len(configureEvents') = Len(configureEvents)
         /\ configureEvents' = <<>> <=> configureEvents = <<>>
         /\ ~PositionSent' /\ ~configurePosition'
         /\ configureEvents # <<>> => LastEvent'.next = LastEvent.next
         /\ configurePosition' = FALSE
  <1>1. [pos |-> pos, size |-> moveResizeGeometry.size] \in Rects
    BY RequestRectsTyped
  <1>2. moveResizeGeometry' \in Rects /\ frame' \in Rects
    BY <1>1 DEF Move, TypeOK
  <1>3. goal' \in Goals
    BY <1>1 DEF Move, Goals
  <1>4. configureEvents' = WithoutPositions(configureEvents)
    BY Zenon DEF Move, WithoutPositions
  <1>5. /\ configureEvents' \in Seq(Configures)
        /\ Len(configureEvents') = Len(configureEvents)
        /\ \A i \in 1..Len(configureEvents) :
             configureEvents'[i].position = FALSE
             /\ configureEvents'[i].next = configureEvents[i].next
        /\ configureEvents = <<>> <=> configureEvents' = <<>>
    BY <1>4, Cleared DEF TypeOK
  <1>6. ~PositionSent'
    BY <1>5, LenProperties DEF PositionSent
  <1>7. configureEvents # <<>> => LastEvent'.next = LastEvent.next
    BY <1>5, LastOfQueue DEF LastEvent, TypeOK
  <1>8. configurePosition' = FALSE
    BY DEF Move
  <1> QED
    BY <1>2, <1>3, <1>5, <1>6, <1>7, <1>8

\* What a commit shows has the shape of a frame.
LEMMA CommitTyped ==
  ASSUME TypeOK, NEW k \in 0..Len(configureEvents), NEW size \in ClientSizes,
         CommitTaking(k, size)
  PROVE  TypeOK'
  <1>1. /\ configureEvents' \in Seq(Configures)
        /\ Len(configureEvents') = Len(configureEvents) - k
        /\ acked' = IF k > 0 THEN configureEvents[k].next ELSE acked
        /\ k > 0 => configureEvents[k] \in Configures
    BY CommitQueue
  <1>2. Len(configureEvents') <= MaxEvents
    BY <1>1, LenProperties, SerialAssumption DEF TypeOK
  <1>3. acked' \in Looks
    BY <1>1 DEF TypeOK, Configures
  <1>4. frame' \in Rects
    <2>1. Borders((IF k > 0 THEN configureEvents[k].next ELSE acked).decoration) \in Int
      BY GeometryAssumption DEF Borders
    <2>2. size \in Int /\ frame.pos \in Int
      BY GeometryAssumption DEF TypeOK, Rects
    <2> DEFINE plain == [pos |-> frame.pos,
                         size |-> size + Borders((IF k > 0 THEN configureEvents[k].next
                                                           ELSE acked).decoration)]
    <2>3. plain \in Rects
      BY <2>1, <2>2 DEF Rects
    <2>4. frame' = plain \/ (k > 0 /\ frame' = GravitateGeometry(plain,
                               configureEvents[k].bounds, configureEvents[k].gravity))
      BY DEF CommitTaking
    <2> HIDE DEF plain
    <2>5. ASSUME k > 0
          PROVE  GravitateGeometry(plain, configureEvents[k].bounds,
                                   configureEvents[k].gravity) \in Rects
      <3>1. configureEvents[k].bounds \in Rects
        BY <1>1, <2>5 DEF Configures
      <3> QED
        BY <2>3, <3>1 DEF GravitateGeometry, Rects, Far
    <2> QED
      BY <2>3, <2>4, <2>5
  <1>5. moveResizeGeometry' \in Rects
    BY <1>4 DEF CommitTaking, TypeOK
  <1>6. goal' \in Goals
    <2>1. goal' = goal \/ goal' = [goal EXCEPT !.kind = "none"]
      BY DEF CommitTaking
    <2>2. goal \in Goals
      BY DEF TypeOK
    <2> QED
      BY <2>1, <2>2 DEF Goals
  <1>7. UNCHANGED <<configureTimer, configurePosition, next, nextGravity, interactive, initial>>
    BY DEF CommitTaking, grab
  <1> QED
    BY <1>1, <1>2, <1>3, <1>4, <1>5, <1>6, <1>7 DEF TypeOK

\* Every commit takes some of the events from the queue.
LEMMA CommitTakes ==
  ASSUME NEW size, Commit(size), TypeOK
  PROVE  \E k \in 0..Len(configureEvents) : CommitTaking(k, size)
  BY LenProperties DEF Commit, CommitAcknowledging, TypeOK

\* The other changes to what KWin wants.
LEMMA WishesTyped ==
  ASSUME TypeOK
  PROVE  /\ NotResizing \in Looks
         /\ [next EXCEPT !.states = (@ \ {"Maximized"}) \cup {"Resizing"}] \in Looks
         /\ "Resizing" \in [next EXCEPT !.states = (@ \ {"Maximized"}) \cup {"Resizing"}].states
         /\ \A d \in BOOLEAN : /\ [next EXCEPT !.decoration = d] \in Looks
                               /\ [next EXCEPT !.decoration = d].states = next.states
  <1>1. next \in Looks /\ next.states \in SUBSET (Flags \cup {"Resizing"})
    BY DEF TypeOK, Looks
  <1>2. NotResizing \in Looks
    BY <1>1 DEF NotResizing, Looks
  <1>3. ASSUME NEW st, st = (next.states \ {"Maximized"}) \cup {"Resizing"}
        PROVE  [next EXCEPT !.states = st] \in Looks
               /\ "Resizing" \in [next EXCEPT !.states = st].states
    <2>1. st \in SUBSET (Flags \cup {"Resizing"}) /\ "Resizing" \in st
      BY <1>1, <1>3
    <2> QED
      BY <1>1, <2>1 DEF Looks
  <1>4. \A d \in BOOLEAN : /\ [next EXCEPT !.decoration = d] \in Looks
                           /\ [next EXCEPT !.decoration = d].states = next.states
    BY <1>1 DEF Looks
  <1> QED
    BY <1>2, <1>3, <1>4

-----------------------------------------------------------------------------
(***************************************************************************)
(* Types.                                                                  *)
(***************************************************************************)

LEMMA TypeInit == Init => TypeOK
  <1> SUFFICES ASSUME Init PROVE TypeOK
    OBVIOUS
  <1>1. PICK p \in Positions, s \in ClientSizes :
          /\ frame = [pos |-> p, size |-> s]
          /\ moveResizeGeometry = frame /\ initial = NoInitial
          /\ configureTimer = FALSE /\ configurePosition = FALSE
          /\ configureEvents = <<>>
          /\ next = [states |-> {}, decoration |-> FALSE] /\ acked = next
          /\ nextGravity = "None" /\ interactive = "none"
          /\ goal = [kind |-> "none", rect |-> frame, edge |-> "near", fate |-> "kept"]
    BY DEF Init
  <1>2. p \in Int /\ s \in Int
    BY GeometryAssumption
  <1>3. /\ frame \in Rects /\ moveResizeGeometry \in Rects
        /\ initial \in [rect : Rects, maximized : BOOLEAN] /\ ~initial.maximized
    BY <1>1, <1>2 DEF Rects, NoInitial
  <1>4. configureEvents \in Seq(Configures) /\ Len(configureEvents) <= MaxEvents
    BY <1>1, SerialAssumption
  <1>5. next \in Looks /\ acked \in Looks
    BY <1>1 DEF Looks
  <1>6. goal \in Goals
    BY <1>1, <1>3 DEF Goals
  <1> QED
    BY <1>1, <1>3, <1>4, <1>5, <1>6 DEF TypeOK

LEMMA TypeStep == TypeOK /\ [Next]_vars => TypeOK'
  <1> SUFFICES ASSUME TypeOK, [Next]_vars PROVE TypeOK'
    OBVIOUS
  <1>1. ASSUME NEW p \in Positions, Move(p) PROVE TypeOK'
    <2>1. UNCHANGED <<configureTimer, next, acked, nextGravity, interactive, initial>>
      BY <1>1 DEF Move, grab
    <2> QED
      BY <1>1, <2>1, MoveEffect DEF TypeOK
  <1>2. ASSUME NEW rect \in Rects, NEW scheduled \in BOOLEAN, RequestResize(rect, scheduled),
               acked' = acked, nextGravity' \in {"None", "Left", "Right"},
               initial' \in [rect : Rects, maximized : BOOLEAN],
               initial'.maximized => "Maximized" \in Flags,
               interactive' \in {"none", "move", "resize"}, next' \in Looks
        PROVE  TypeOK'
    BY <1>2, RequestTyped DEF TypeOK
  <1>3. ASSUME NEW s \in FrameSizes, Resize(s) PROVE TypeOK'
    <2>1. [pos |-> moveResizeGeometry.pos, size |-> s] \in Rects
      BY RequestRectsTyped
    <2>2. UNCHANGED <<next, acked, nextGravity, interactive, initial>>
      BY <1>3 DEF Resize, grab
    <2> QED
      BY <1>2, <1>3, <2>1, <2>2 DEF Resize, TypeOK
  <1>4. ASSUME NEW r \in RequestRects, MoveResize(r) PROVE TypeOK'
    <2>1. UNCHANGED <<next, acked, nextGravity, interactive, initial>>
      BY <1>4 DEF MoveResize, grab
    <2> QED
      BY <1>2, <1>4, <2>1, RequestRectsTyped DEF MoveResize, TypeOK
  <1>5. ASSUME NEW f \in Flags, SetState(f) PROVE TypeOK'
    BY <1>5, ToggledLooks DEF SetState, TypeOK, geometry, grab
  <1>6. ASSUME NEW f \in Flags, NEW r \in RequestRects, NEW d \in Decorations,
               SetStateAndGeometry(f, r, d)
        PROVE  TypeOK'
    <2>1. UNCHANGED <<acked, nextGravity, interactive, initial>>
      BY <1>6 DEF SetStateAndGeometry, grab
    <2>2. next' \in Looks
      BY <1>6, KindAssumption, ToggledLooks DEF SetStateAndGeometry, TypeOK
    <2>3. RequestResize(r, TRUE)
      BY <1>6 DEF SetStateAndGeometry
    <2> QED
      BY <1>2, <2>1, <2>2, <2>3, RequestRectsTyped DEF TypeOK
  <1>7. ASSUME NEW d \in Decorations, ConfigureDecoration(d) PROVE TypeOK'
    <2>1. d \in BOOLEAN
      BY KindAssumption
    <2>2. next' \in Looks
      BY <1>7, <2>1, WishesTyped DEF ConfigureDecoration
    <2> QED
      BY <1>7, <2>2 DEF ConfigureDecoration, TypeOK, geometry, grab
  <1>8. ASSUME NEW kind \in {"move", "resize"}, Start(kind)
        PROVE  /\ interactive' \in {"none", "move", "resize"}
               /\ initial' \in [rect : Rects, maximized : BOOLEAN]
               /\ initial'.maximized => "Maximized" \in Flags
    <2>1. interactive' \in {"none", "move", "resize"}
      BY <1>8 DEF Start
    <2>2. initial' = [rect |-> moveResizeGeometry, maximized |-> "Maximized" \in next.states]
      BY <1>8 DEF Start
    <2>3. /\ initial' \in [rect : Rects, maximized : BOOLEAN]
          /\ initial'.maximized <=> "Maximized" \in next.states
      <3> DEFINE m == "Maximized" \in next.states
      <3>1. m \in BOOLEAN /\ initial' = [rect |-> moveResizeGeometry, maximized |-> m]
        BY <2>2
      <3> HIDE DEF m
      <3>2. initial' \in [rect : Rects, maximized : BOOLEAN] /\ initial'.maximized = m
        BY <3>1 DEF TypeOK
      <3> QED
        BY <3>2 DEF m
    <2>4. "Maximized" \in next.states => "Maximized" \in Flags
      BY DEF TypeOK, Looks
    <2> QED
      BY <2>1, <2>3, <2>4
  <1>9. CASE StartMove
    BY <1>8, <1>9 DEF StartMove, TypeOK, geometry
  <1>10. ASSUME NEW g \in Gravities, StartResize(g) PROVE TypeOK'
    <2>1. nextGravity' \in {"None", "Left", "Right"} /\ acked' = acked
      BY <1>10, KindAssumption DEF StartResize
    <2>2. next' \in Looks
      BY <1>10, WishesTyped DEF StartResize
    <2>3. /\ interactive' \in {"none", "move", "resize"}
          /\ initial' \in [rect : Rects, maximized : BOOLEAN]
          /\ initial'.maximized => "Maximized" \in Flags
      BY <1>8, <1>10 DEF StartResize
    <2>4. CASE "Maximized" \in next.states
      <3>1. RequestResize(moveResizeGeometry, TRUE) /\ moveResizeGeometry \in Rects
        BY <1>10, <2>4 DEF StartResize, TypeOK
      <3> QED
        BY <1>2, <2>1, <2>2, <2>3, <3>1
    <2>5. CASE "Maximized" \notin next.states
      <3>1. configureTimer' = TRUE /\ UNCHANGED geometry
        BY <1>10, <2>5 DEF StartResize
      <3> QED
        BY <2>1, <2>2, <2>3, <3>1 DEF TypeOK, geometry
    <2> QED
      BY <2>4, <2>5
  <1>11. ASSUME Leave
         PROVE  /\ nextGravity' \in {"None", "Left", "Right"} /\ interactive' = "none"
                /\ initial' \in [rect : Rects, maximized : BOOLEAN]
                /\ ~initial'.maximized
    BY <1>11 DEF Leave, NoInitial, Rects, TypeOK
  <1>12. CASE Finish
    <2>1. next' \in Looks
      BY <1>12, WishesTyped DEF Finish
    <2>2. configureTimer' \in BOOLEAN
      BY <1>12, Zenon DEF Finish, TypeOK
    <2> QED
      BY <1>12, <1>11, <2>1, <2>2 DEF Finish, TypeOK, geometry
  <1>13. ASSUME NEW f \in Flags, NEW r \in RequestRects, FinishAtEdge(f, r)
          PROVE  TypeOK'
    <2>1. next' \in Looks
      BY <1>13, WishesTyped, ToggledLooks DEF FinishAtEdge
    <2>2. RequestResize(r, TRUE) /\ acked' = acked /\ Leave
      BY <1>13 DEF FinishAtEdge
    <2> QED
      BY <1>2, <1>11, <2>1, <2>2, RequestRectsTyped
  <1>14. CASE Cancel
    <2> DEFINE restored == initial.maximized /\ "Maximized" \notin next.states
               scheduled == restored \/ "Resizing" \in next.states
    <2>1. initial.maximized => "Maximized" \in Flags
      BY DEF TypeOK
    <2>2. next' \in Looks
      BY <1>14, <2>1, WishesTyped, ToggledLooks DEF Cancel
    <2>3. scheduled \in BOOLEAN
      BY Zenon
    <2>4. initial.rect \in Rects
      BY DEF TypeOK
    <2>5. RequestResize(initial.rect, scheduled) /\ acked' = acked /\ Leave
      BY <1>14 DEF Cancel
    <2> HIDE DEF scheduled
    <2> QED
      BY <1>2, <1>11, <2>2, <2>3, <2>4, <2>5
  <1>15. CASE Hide
    BY <1>15, <1>11 DEF Hide, TypeOK, geometry
  <1>16. CASE SendConfigure
    <2>1. goal' \in Goals
      <3>1. goal' = goal \/ goal' = [goal EXCEPT !.edge = HeldEdge(nextGravity)]
        BY <1>16 DEF SendConfigure
      <3>2. goal \in Goals /\ HeldEdge(nextGravity) \in {"near", "far"}
        BY DEF TypeOK, HeldEdge
      <3> QED
        BY <3>1, <3>2 DEF Goals
    <2>2. configureEvents' \in Seq(Configures) /\ Len(configureEvents') <= MaxEvents
      <3>1. Len(configureEvents) < MaxEvents /\ Len(configureEvents) \in Nat
        BY <1>16, LenProperties DEF SendConfigure, TypeOK
      <3>2. /\ configureEvents' \in Seq(Configures)
            /\ Len(configureEvents') = Len(configureEvents) + 1
        BY <1>16, SendQueue
      <3> QED
        BY <3>1, <3>2, SerialAssumption
    <2> QED
      BY <1>16, <2>1, <2>2 DEF SendConfigure, TypeOK, grab
  <1>17. ASSUME NEW s \in ClientSizes, Commit(s) PROVE TypeOK'
    BY <1>17, CommitTakes, CommitTyped
  <1>18. CASE UNCHANGED vars
    BY <1>18 DEF vars, geometry, grab, TypeOK
  <1> QED
    BY <1>1, <1>3, <1>4, <1>5, <1>6, <1>7, <1>9, <1>10, <1>12, <1>13, <1>14, <1>15, <1>16,
       <1>17, <1>18 DEF Next

\* The variables have their types and the queue keeps its bound, whatever the
\* serials, the sizes the client commits and the order of acknowledgements.
THEOREM TypesHold == Spec => []TypeOK
  BY TypeInit, TypeStep, PTL DEF Spec

-----------------------------------------------------------------------------
(***************************************************************************)
(* States and decoration.                                                  *)
(***************************************************************************)

LEMMA LooksInit == Init => LooksInv
  BY DEF Init, LooksInv

LEMMA LooksStep == TypeOK /\ LooksInv /\ [Next]_vars => LooksInv'
  <1> SUFFICES ASSUME TypeOK, LooksInv, [Next]_vars PROVE LooksInv'
    OBVIOUS
  \* Nothing that LooksInv speaks of changes, or a configure event is scheduled.
  <1>0. ASSUME \/ configureTimer'
               \/ UNCHANGED <<configureTimer, configureEvents, acked, next>>
        PROVE  LooksInv'
    BY <1>0 DEF LooksInv, LastEvent
  <1>1. ASSUME NEW p \in Positions, Move(p) PROVE LooksInv'
    <2>1. UNCHANGED <<configureTimer, next, acked>>
      BY <1>1 DEF Move
    <2>2. /\ configureEvents' = <<>> <=> configureEvents = <<>>
          /\ configureEvents # <<>> => LastEvent'.next = LastEvent.next
      BY <1>1, MoveEffect
    <2> QED
      BY <2>1, <2>2 DEF LooksInv
  <1>2. ASSUME NEW rect, NEW scheduled, RequestResize(rect, scheduled)
        PROVE  configureEvents' = configureEvents
               /\ (configureTimer' \/ configureTimer' = configureTimer)
    <2>1. configureTimer \in BOOLEAN
      BY DEF TypeOK
    <2>2. /\ configureEvents' = configureEvents
          /\ configureTimer' = (configureTimer
               \/ ~(FrameSizeToClientSize(rect.size) = FrameSizeToClientSize(frame.size))
               \/ scheduled)
      BY <1>2, Zenon DEF RequestResize
    <2>3. configureTimer = TRUE \/ configureTimer = FALSE
      BY <2>1
    <2> QED
      BY <2>2, <2>3, Zenon
  <1>3. ASSUME NEW s \in FrameSizes, Resize(s) PROVE LooksInv'
    <2>1. UNCHANGED <<acked, next>>
      BY <1>3 DEF Resize
    <2>2. RequestResize([pos |-> moveResizeGeometry.pos, size |-> s], FALSE)
      BY <1>3 DEF Resize
    <2> QED
      BY <1>0, <1>2, <2>1, <2>2
  <1>4. ASSUME NEW r \in RequestRects, MoveResize(r) PROVE LooksInv'
    BY <1>0, <1>2, <1>4 DEF MoveResize
  <1>5. ASSUME NEW f \in Flags, SetState(f) PROVE LooksInv'
    BY <1>0, <1>5 DEF SetState
  <1>6. ASSUME NEW rect, RequestResize(rect, TRUE) PROVE LooksInv'
    BY <1>0, <1>6, Zenon DEF RequestResize
  <1>7. ASSUME NEW f \in Flags, NEW r \in RequestRects, NEW d \in Decorations,
               SetStateAndGeometry(f, r, d)
        PROVE  LooksInv'
    BY <1>6, <1>7 DEF SetStateAndGeometry
  <1>8. ASSUME NEW d \in Decorations, ConfigureDecoration(d) PROVE LooksInv'
    BY <1>0, <1>8 DEF ConfigureDecoration
  <1>9. CASE StartMove
    BY <1>0, <1>9 DEF StartMove, geometry
  <1>10. ASSUME NEW g \in Gravities, StartResize(g) PROVE LooksInv'
    <2>1. CASE "Maximized" \in next.states
      BY <1>6, <1>10, <2>1 DEF StartResize
    <2>2. CASE "Maximized" \notin next.states
      BY <1>0, <1>10, <2>2 DEF StartResize
    <2> QED
      BY <2>1, <2>2
  <1>11. ASSUME next' = NotResizing, "Resizing" \notin next.states
         PROVE  next' = next
    <2>1. next \in Looks /\ next.states \ {"Resizing"} = next.states
      BY <1>11 DEF TypeOK
    <2> QED
      BY <1>11, <2>1 DEF NotResizing, Looks
  <1>12. CASE Finish
    <2>1. CASE "Resizing" \in next.states
      BY <1>0, <1>12, <2>1 DEF Finish
    <2>2. CASE "Resizing" \notin next.states
      <3>1. next' = next /\ configureTimer' = configureTimer /\ acked' = acked
        BY <1>11, <1>12, <2>2 DEF Finish, TypeOK
      <3>2. configureEvents' = configureEvents
        BY <1>12 DEF Finish, geometry
      <3> QED
        BY <1>0, <3>1, <3>2
    <2> QED
      BY <2>1, <2>2
  <1>13. ASSUME NEW f \in Flags, NEW r \in RequestRects, FinishAtEdge(f, r)
          PROVE  LooksInv'
    BY <1>6, <1>13 DEF FinishAtEdge
  <1>14. CASE Cancel
    <2> DEFINE restored == initial.maximized /\ "Maximized" \notin next.states
    <2>1. RequestResize(initial.rect, restored \/ "Resizing" \in next.states) /\ acked' = acked
      BY <1>14 DEF Cancel
    <2>2. CASE restored \/ "Resizing" \in next.states
      <3>1. configureTimer'
        BY <2>1, <2>2, Zenon DEF RequestResize
      <3> QED
        BY <1>0, <3>1
    <2>3. CASE ~(restored \/ "Resizing" \in next.states)
      <3>1. next' = next
        BY <1>11, <1>14, <2>3 DEF Cancel
      <3> QED
        BY <1>0, <1>2, <2>1, <3>1
    <2> QED
      BY <2>2, <2>3
  <1>15. CASE Hide
    BY <1>0, <1>15 DEF Hide, geometry
  <1>16. CASE SendConfigure
    BY <1>16, SendQueue DEF SendConfigure, LooksInv
  <1>17. ASSUME NEW s \in ClientSizes, Commit(s) PROVE LooksInv'
    <2>1. PICK k \in 0..Len(configureEvents) : CommitTaking(k, s)
      BY <1>17, CommitTakes
    <2>2. /\ configureEvents' = <<>> <=> k = Len(configureEvents)
          /\ configureEvents' # <<>> => LastEvent' = LastEvent
          /\ acked' = IF k > 0 THEN configureEvents[k].next ELSE acked
      BY <2>1, CommitQueue
    <2>3. UNCHANGED <<configureTimer, next>>
      BY <2>1 DEF CommitTaking
    <2>4. configureEvents = <<>> <=> Len(configureEvents) = 0
      BY EmptySeq DEF TypeOK
    <2>5. Len(configureEvents) \in Nat
      BY LenProperties DEF TypeOK
    <2>6. CASE configureEvents' # <<>>
      <3>1. configureEvents # <<>>
        BY <2>2, <2>4, <2>5, <2>6
      <3> QED
        BY <2>2, <2>3, <2>6, <3>1 DEF LooksInv
    <2>7. CASE configureEvents' = <<>>
      BY <2>2, <2>3, <2>4, <2>5, <2>7 DEF LooksInv, LastEvent
    <2> QED
      BY <2>6, <2>7
  <1>18. CASE UNCHANGED vars
    BY <1>0, <1>18 DEF vars, geometry
  <1> QED
    BY <1>1, <1>3, <1>4, <1>5, <1>7, <1>8, <1>9, <1>10, <1>12, <1>13, <1>14, <1>15,
       <1>16, <1>17, <1>18 DEF Next

\* When all is settled the client shows the states and the decoration KWin
\* last asked for, for any number of events in the queue and for
\* acknowledgements that skip events, even when serials wrap.
THEOREM LooksAlwaysConverge == Spec => []LooksConverge
  <1>1. LooksInv => LooksConverge
    BY DEF LooksInv, LooksConverge, Settled
  <1> QED
    BY <1>1, LooksInit, LooksStep, TypesHold, PTL DEF Spec

-----------------------------------------------------------------------------
(***************************************************************************)
(* Positions.                                                              *)
(***************************************************************************)

GoalInv == PositionInv /\ MoveInv /\ PlaceInv

LEMMA GoalInit == Init => GoalInv
  BY DEF Init, GoalInv, PositionInv, MoveInv, PlaceInv, PositionSent

LEMMA InheritedIsSent == TypeOK /\ Inherited => PositionSent
  BY LastOfQueue, LenProperties DEF Inherited, PositionSent, LastEvent, TypeOK

\* A geometry request is in place, or a configure event will carry it.
LEMMA RequestEffect ==
  ASSUME TypeOK, PositionInv, NEW rect, NEW scheduled, RequestResize(rect, scheduled)
  PROVE  /\ moveResizeGeometry' = rect /\ configureEvents' = configureEvents
         /\ configurePosition' => configureTimer'
         /\ goal'.kind = "place" /\ goal'.rect = rect /\ goal'.edge = "near"
         /\ goal'.fate = "kept" => configurePosition' \/ (frame' = rect /\ ~PositionSent)
  <1> DEFINE same == FrameSizeToClientSize(rect.size) = FrameSizeToClientSize(frame.size)
  <1>1. /\ moveResizeGeometry' = rect /\ configureEvents' = configureEvents
        /\ frame' = IF same THEN rect ELSE frame
        /\ configurePosition' = (configurePosition \/ ~same)
        /\ configureTimer' = (configureTimer \/ ~same \/ scheduled)
        /\ goal' = [kind |-> "place", rect |-> rect, edge |-> "near",
                    fate |-> IF same /\ PositionSent THEN "overtaken" ELSE "kept"]
    BY Zenon DEF RequestResize
  <1>2. configurePosition => configureTimer
    BY DEF PositionInv
  <1> HIDE DEF same
  <1>3. configurePosition' => configureTimer'
    BY <1>1, <1>2, Zenon
  <1>4. ~same => configurePosition'
    BY <1>1, Zenon
  <1>5. goal'.kind = "place" /\ goal'.rect = rect /\ goal'.edge = "near"
    BY <1>1
  <1>6. goal'.fate = "kept" => ~same \/ ~PositionSent
    BY <1>1
  <1> QED
    BY <1>1, <1>3, <1>4, <1>5, <1>6

LEMMA RequestKeepsGoal ==
  ASSUME TypeOK, GoalInv, NEW rect, NEW scheduled, RequestResize(rect, scheduled)
  PROVE  GoalInv'
  <1>1. /\ moveResizeGeometry' = rect /\ configureEvents' = configureEvents
        /\ configurePosition' => configureTimer'
        /\ goal'.kind = "place" /\ goal'.rect = rect /\ goal'.edge = "near"
        /\ goal'.fate = "kept" => configurePosition' \/ (frame' = rect /\ ~PositionSent)
    BY RequestEffect DEF GoalInv
  <1>2. PositionSent' = PositionSent /\ Inherited' = Inherited
    BY <1>1 DEF PositionSent, Inherited, LastEvent
  <1>3. PositionInv'
    BY <1>1, <1>2 DEF GoalInv, PositionInv
  <1>4. MoveInv'
    BY <1>1 DEF MoveInv
  <1>5. PlaceInv'
    <2>1. Inherited => PositionSent
      BY InheritedIsSent
    <2>2. CASE configurePosition'
      BY <1>1, <2>2 DEF PlaceInv
    <2>3. CASE ~configurePosition' /\ goal'.fate = "kept"
      <3>1. frame' = rect /\ ~Inherited'
        BY <1>1, <1>2, <2>1, <2>3
      <3> QED
        BY <1>1, <2>3, <3>1 DEF PlaceInv, Edge
    <2> QED
      BY <2>2, <2>3 DEF PlaceInv
  <1> QED
    BY <1>3, <1>4, <1>5 DEF GoalInv

\* A commit leaves the window where its last request put it, or puts it there.
LEMMA CommitKeepsGoal ==
  ASSUME TypeOK, GoalInv, NEW k \in 0..Len(configureEvents), NEW size \in ClientSizes,
         CommitTaking(k, size)
  PROVE  GoalInv'
  <1> DEFINE positioned == k > 0 /\ configureEvents[k].position
             look == IF k > 0 THEN configureEvents[k].next ELSE acked
             plain == [pos |-> frame.pos, size |-> size + Borders(look.decoration)]
  <1>1. /\ frame' = IF positioned
                    THEN GravitateGeometry(plain, configureEvents[k].bounds,
                                           configureEvents[k].gravity)
                    ELSE plain
        /\ goal' = IF goal.kind = "place" /\ goal.edge = "far" /\ ~positioned
                      /\ ~configurePosition /\ ~PositionSent
                   THEN [goal EXCEPT !.kind = "none"] ELSE goal
        /\ configureTimer' = configureTimer /\ configurePosition' = configurePosition
    BY DEF CommitTaking
  <1>2. moveResizeGeometry' # moveResizeGeometry => ~configureTimer /\ ~PositionSent'
    BY DEF CommitTaking, Synchronizes, PositionSent
  <1>3. plain.pos = frame.pos /\ plain.pos \in Int /\ plain.size \in Int
    <2>1. size \in Int /\ Borders(look.decoration) \in Int
      BY GeometryAssumption DEF Borders
    <2> QED
      BY <2>1 DEF TypeOK, Rects
  <1>4. /\ configureEvents' \in Seq(Configures)
        /\ Len(configureEvents') = Len(configureEvents) - k
        /\ \A i \in 1..Len(configureEvents') :
             configureEvents'[i] = configureEvents[k + i]
        /\ configureEvents' = <<>> <=> k = Len(configureEvents)
        /\ configureEvents' # <<>> => LastEvent' = LastEvent
        /\ k > 0 => configureEvents[k] \in Configures
    BY CommitQueue
  <1>5. positioned => PositionSent
    BY LenProperties DEF TypeOK, PositionSent
  <1>6. PositionSent' => PositionSent
    <2> SUFFICES ASSUME NEW i \in DOMAIN configureEvents', configureEvents'[i].position
                 PROVE  PositionSent
      BY DEF PositionSent
    <2>1. i \in 1..Len(configureEvents') /\ Len(configureEvents) \in Nat
      BY <1>4, LenProperties DEF TypeOK
    <2>2. k + i \in 1..Len(configureEvents) /\ configureEvents[k + i].position
      BY <1>4, <2>1
    <2> QED
      BY <2>2, LenProperties DEF PositionSent, TypeOK
  <1>7. configureEvents' # <<>> => configureEvents # <<>> /\ Inherited' = Inherited
    <2> SUFFICES ASSUME configureEvents' # <<>>
                 PROVE  configureEvents # <<>> /\ Inherited' = Inherited
      OBVIOUS
    <2>1. configureEvents # <<>>
      BY <1>4, EmptySeq, LenProperties DEF TypeOK
    <2>2. configureEvents' # <<>> /\ LastEvent' = LastEvent
      BY <1>4
    <2> HIDE DEF LastEvent
    <2> QED
      BY <2>1, <2>2, Zenon DEF Inherited
  <1>8. Inherited' => Inherited
    BY <1>7 DEF Inherited
  <1>9. PositionInv'
    <2>1. PositionSent' => configureEvents' # <<>>
      BY DEF PositionSent
    <2>2. PositionSent' => Inherited'
      BY <1>6, <1>7, <2>1 DEF GoalInv, PositionInv
    <2> QED
      BY <1>1, <2>2 DEF GoalInv, PositionInv
  <1> HIDE DEF positioned, plain
  <1>10. ~positioned => frame'.pos = frame.pos
    BY <1>1, <1>3
  <1>11. goal' = goal \/ goal'.kind = "none"
    BY <1>1 DEF TypeOK, Goals
  <1>12. MoveInv'
    BY <1>1, <1>5, <1>6, <1>10, <1>11 DEF MoveInv, GoalInv
  <1>13. PlaceInv'
    <2> SUFFICES ASSUME goal' = goal, goal.kind = "place", goal.fate = "kept"
                 PROVE  PlaceInv'
      BY <1>11 DEF PlaceInv
    <2>1. CASE configurePosition
      <3>1. moveResizeGeometry' = moveResizeGeometry
        BY <1>2, <2>1 DEF GoalInv, PositionInv
      <3> QED
        BY <1>1, <2>1, <3>1 DEF PlaceInv, GoalInv
    <2>2. CASE ~configurePosition /\ Inherited'
      <3>1. Inherited /\ LastEvent' = LastEvent /\ PositionSent'
        BY <1>4, <1>8, <2>2, LastOfQueue, LenProperties
           DEF Inherited, PositionSent, LastEvent
      <3>2. moveResizeGeometry' = moveResizeGeometry
        BY <1>2, <3>1
      <3> QED
        BY <1>1, <2>2, <3>1, <3>2 DEF PlaceInv, GoalInv
    <2>3. CASE ~configurePosition /\ ~Inherited' /\ Inherited
      <3>1. configureEvents' = <<>> /\ configureEvents # <<>>
        BY <1>7, <2>3 DEF Inherited
      <3>2. k = Len(configureEvents) /\ k > 0
        BY <1>4, <3>1, EmptySeq DEF TypeOK
      <3>3. configureEvents[k] = LastEvent /\ configureEvents[k].position
        BY <2>3, <3>2 DEF LastEvent, Inherited
      <3>4. frame' = GravitateGeometry(plain, LastEvent.bounds, LastEvent.gravity)
        BY <1>1, <3>2, <3>3 DEF positioned
      <3>5. LastEvent.bounds = goal.rect /\ goal.edge = HeldEdge(LastEvent.gravity)
        BY <2>3 DEF GoalInv, PlaceInv
      <3>6. goal.rect.pos \in Int /\ goal.rect.size \in Int
        BY DEF TypeOK, Goals, Rects
      <3>7. /\ LastEvent.gravity = "Left" => Far(frame') = Far(goal.rect)
            /\ LastEvent.gravity # "Left" => frame'.pos = goal.rect.pos
        BY <1>3, <3>4, <3>5, <3>6 DEF GravitateGeometry, Far, plain
      <3>8. Edge(frame', goal.edge) = Edge(goal.rect, goal.edge)
        BY <3>5, <3>7 DEF Edge, HeldEdge
      <3> QED
        BY <1>1, <2>3, <3>8 DEF PlaceInv, Edge, Far
    <2>4. CASE ~configurePosition /\ ~Inherited
      <3>1. ~PositionSent
        BY <2>4 DEF GoalInv, PositionInv
      <3>2. goal.edge # "far"
        BY <1>1, <1>5, <2>4, <3>1 DEF TypeOK, Goals
      <3>3. frame.pos = goal.rect.pos /\ frame'.pos = frame.pos
        BY <1>5, <1>10, <2>4, <3>1, <3>2 DEF GoalInv, PlaceInv, Edge
      <3> QED
        BY <1>1, <1>8, <2>4, <3>2, <3>3 DEF PlaceInv, Edge
    <2> QED
      BY <2>1, <2>2, <2>3, <2>4
  <1> QED
    BY <1>9, <1>12, <1>13 DEF GoalInv

\* sendConfigure() hands a position over from the flag to the newest event.
LEMMA SendKeepsGoal ==
  ASSUME TypeOK, GoalInv, SendConfigure
  PROVE  GoalInv'
  <1> DEFINE position == Inherited \/ configurePosition
  <1>1. /\ goal' = IF position THEN [goal EXCEPT !.edge = HeldEdge(nextGravity)] ELSE goal
        /\ configurePosition' = FALSE
        /\ frame' = frame /\ moveResizeGeometry' = moveResizeGeometry
    BY DEF SendConfigure
  <1>2. /\ configureEvents' \in Seq(Configures)
        /\ Len(configureEvents') = Len(configureEvents) + 1
        /\ configureEvents' # <<>>
        /\ LastEvent'.bounds = moveResizeGeometry
        /\ LastEvent'.gravity = nextGravity
        /\ LastEvent'.position = position
        /\ \A i \in 1..Len(configureEvents) : configureEvents'[i] = configureEvents[i]
    BY SendQueue
  <1>3. Inherited' <=> position
    BY <1>2 DEF Inherited
  <1> HIDE DEF position
  <1>4. PositionSent' => position
    <2> SUFFICES ASSUME NEW i \in DOMAIN configureEvents', configureEvents'[i].position
                 PROVE  position
      BY DEF PositionSent
    <2>1. i \in 1..(Len(configureEvents) + 1) /\ Len(configureEvents) \in Nat
      BY <1>2, LenProperties DEF TypeOK
    <2>2. CASE i \in 1..Len(configureEvents)
      <3>1. PositionSent
        BY <1>2, <2>2, LenProperties DEF PositionSent, TypeOK
      <3> QED
        BY <3>1 DEF GoalInv, PositionInv, position
    <2>3. CASE i = Len(configureEvents) + 1
      BY <1>2, <2>3 DEF LastEvent
    <2> QED
      BY <2>1, <2>2, <2>3
  <1>5. PositionInv'
    BY <1>1, <1>3, <1>4 DEF PositionInv
  <1>6. position => PositionSent \/ configurePosition
    BY InheritedIsSent DEF position
  <1>7. goal'.kind = goal.kind /\ goal'.fate = goal.fate /\ goal'.rect = goal.rect
    BY <1>1 DEF TypeOK, Goals
  <1>8. MoveInv'
    BY <1>1, <1>4, <1>6, <1>7 DEF MoveInv, GoalInv
  <1>9. PlaceInv'
    <2>1. CASE position
      <3>1. goal'.edge = HeldEdge(nextGravity)
        BY <1>1, <2>1 DEF TypeOK, Goals
      <3> QED
        BY <1>1, <1>2, <1>3, <1>7, <2>1, <3>1 DEF PlaceInv, GoalInv, position, HeldEdge
    <2>2. CASE ~position
      <3>1. goal' = goal
        BY <1>1, <2>2
      <3> QED
        BY <1>1, <1>3, <2>2, <3>1 DEF PlaceInv, GoalInv, position, Edge, Far
    <2> QED
      BY <2>1, <2>2
  <1> QED
    BY <1>5, <1>8, <1>9 DEF GoalInv

LEMMA GoalStep == TypeOK /\ GoalInv /\ [Next]_vars => GoalInv'
  <1> SUFFICES ASSUME TypeOK, GoalInv, [Next]_vars PROVE GoalInv'
    OBVIOUS
  \* Steps that leave the geometry alone schedule a configure event or do not.
  <1>0. ASSUME UNCHANGED geometry, configureTimer => configureTimer'
        PROVE  GoalInv'
    BY <1>0 DEF geometry, GoalInv, PositionInv, MoveInv, PlaceInv, PositionSent, Inherited,
       LastEvent
  <1>1. ASSUME NEW p \in Positions, Move(p) PROVE GoalInv'
    <2>1. ~PositionSent' /\ configurePosition' = FALSE
      BY <1>1, MoveEffect
    <2>2. goal'.kind = "move" /\ (goal'.fate = "kept" => frame'.pos = goal'.rect.pos)
      BY <1>1 DEF Move
    <2> QED
      BY <2>1, <2>2 DEF GoalInv, PositionInv, MoveInv, PlaceInv
  <1>2. ASSUME NEW s \in FrameSizes, Resize(s) PROVE GoalInv'
    <2>1. RequestResize([pos |-> moveResizeGeometry.pos, size |-> s], FALSE)
      BY <1>2 DEF Resize
    <2> QED
      BY <2>1, RequestKeepsGoal
  <1>3. ASSUME NEW r \in RequestRects, MoveResize(r) PROVE GoalInv'
    BY <1>3, RequestKeepsGoal DEF MoveResize
  <1>4. ASSUME NEW f \in Flags, SetState(f) PROVE GoalInv'
    BY <1>0, <1>4 DEF SetState
  <1>5. ASSUME NEW f \in Flags, NEW r \in RequestRects, NEW d \in Decorations,
               SetStateAndGeometry(f, r, d)
        PROVE  GoalInv'
    BY <1>5, RequestKeepsGoal DEF SetStateAndGeometry
  <1>6. ASSUME NEW d \in Decorations, ConfigureDecoration(d) PROVE GoalInv'
    BY <1>0, <1>6 DEF ConfigureDecoration
  <1>7. CASE StartMove
    BY <1>0, <1>7 DEF StartMove
  <1>8. ASSUME NEW g \in Gravities, StartResize(g) PROVE GoalInv'
    <2>1. CASE "Maximized" \in next.states
      <3>1. RequestResize(moveResizeGeometry, TRUE)
        BY <1>8, <2>1 DEF StartResize
      <3> QED
        BY <3>1, RequestKeepsGoal
    <2>2. CASE "Maximized" \notin next.states
      BY <1>0, <1>8, <2>2 DEF StartResize
    <2> QED
      BY <2>1, <2>2
  <1>9. CASE Finish
    <2>1. UNCHANGED geometry /\ (configureTimer => configureTimer')
      BY <1>9, Zenon DEF Finish
    <2> QED
      BY <1>0, <2>1
  <1>10. ASSUME NEW f \in Flags, NEW r \in RequestRects, FinishAtEdge(f, r)
          PROVE  GoalInv'
    BY <1>10, RequestKeepsGoal DEF FinishAtEdge
  <1>11. CASE Cancel
    <2>1. PICK scheduled \in BOOLEAN : RequestResize(initial.rect, scheduled)
      BY <1>11 DEF Cancel
    <2> QED
      BY <2>1, RequestKeepsGoal
  <1>12. CASE Hide
    BY <1>0, <1>12 DEF Hide
  <1>13. CASE SendConfigure
    BY <1>13, SendKeepsGoal
  <1>14. ASSUME NEW s \in ClientSizes, Commit(s) PROVE GoalInv'
    BY <1>14, CommitTakes, CommitKeepsGoal
  <1>15. CASE UNCHANGED vars
    BY <1>0, <1>15 DEF vars
  <1> QED
    BY <1>1, <1>2, <1>3, <1>4, <1>5, <1>6, <1>7, <1>8, <1>9, <1>10, <1>11, <1>12, <1>13,
       <1>14, <1>15 DEF Next

\* A move that took effect is never undone, and the edge a resize holds is
\* where it was asked to be once all is settled, for any client and any
\* number of configure events.
THEOREM PositionsHold == Spec => []PositionHolds
  <1>1. GoalInv => PositionHolds
    BY DEF GoalInv, PositionInv, MoveInv, PlaceInv, PositionHolds, Settled, Inherited
  <1> QED
    BY <1>1, GoalInit, GoalStep, TypesHold, PTL DEF Spec

-----------------------------------------------------------------------------
(***************************************************************************)
(* The move-resize geometry.                                               *)
(***************************************************************************)

LEMMA ResizeInit == Init => ResizeInv
  BY DEF Init, ResizeInv, Settled

LEMMA ResizeStep ==
  ASSUME "move" \notin Interactions, "hide" \notin Interactions
  PROVE  TypeOK /\ ResizeInv /\ [Next]_vars => ResizeInv'
  <1> SUFFICES ASSUME TypeOK, ResizeInv, [Next]_vars PROVE ResizeInv'
    OBVIOUS
  \* A request that sends no configure event is in place at once.
  <1>0. ASSUME NEW rect, NEW scheduled, RequestResize(rect, scheduled)
        PROVE  /\ Settled' => moveResizeGeometry' = frame'
               /\ scheduled => ~Settled'
    <2> DEFINE same == FrameSizeToClientSize(rect.size) = FrameSizeToClientSize(frame.size)
    <2>1. /\ moveResizeGeometry' = rect
          /\ frame' = IF same THEN rect ELSE frame
          /\ configureTimer' = (configureTimer \/ ~same \/ scheduled)
      BY <1>0, Zenon DEF RequestResize
    <2> HIDE DEF same
    <2>2. ~configureTimer' => same /\ ~scheduled
      BY <2>1, Zenon
    <2> QED
      BY <2>1, <2>2 DEF Settled
  <1>1. ASSUME NEW p \in Positions, Move(p) PROVE ResizeInv'
    <2>1. /\ interactive' = interactive /\ next' = next /\ configureTimer' = configureTimer
      BY <1>1 DEF Move, grab
    <2>2. configureEvents' = <<>> <=> configureEvents = <<>>
      BY <1>1, MoveEffect
    <2>3. moveResizeGeometry = frame => moveResizeGeometry' = frame'
      BY <1>1 DEF Move
    <2> QED
      BY <2>1, <2>2, <2>3 DEF ResizeInv, Settled
  <1>2. ASSUME NEW rect, NEW scheduled, RequestResize(rect, scheduled),
               interactive' = interactive, "Resizing" \in next'.states <=> "Resizing" \in next.states
        PROVE  ResizeInv'
    BY <1>0, <1>2 DEF ResizeInv
  <1>3. ASSUME NEW s \in FrameSizes, Resize(s) PROVE ResizeInv'
    <2>1. RequestResize([pos |-> moveResizeGeometry.pos, size |-> s], FALSE)
      BY <1>3 DEF Resize
    <2> QED
      BY <1>2, <1>3, <2>1 DEF Resize, grab
  <1>4. ASSUME NEW r \in RequestRects, MoveResize(r) PROVE ResizeInv'
    BY <1>2, <1>4 DEF MoveResize, grab
  <1>5. ASSUME NEW f \in Flags, SetState(f) PROVE ResizeInv'
    BY <1>5, ToggledLooks DEF SetState, ResizeInv, Settled, grab, TypeOK
  <1>6. ASSUME NEW f \in Flags, NEW r \in RequestRects, NEW d \in Decorations,
               SetStateAndGeometry(f, r, d)
        PROVE  ResizeInv'
    <2>1. "Resizing" \in next'.states <=> "Resizing" \in next.states
      BY <1>6, KindAssumption, ToggledLooks DEF SetStateAndGeometry, TypeOK
    <2> QED
      BY <1>2, <1>6, <2>1 DEF SetStateAndGeometry, grab
  <1>7. ASSUME NEW d \in Decorations, ConfigureDecoration(d) PROVE ResizeInv'
    <2>1. next'.states = next.states
      BY <1>7, KindAssumption, WishesTyped DEF ConfigureDecoration
    <2> QED
      BY <1>7, <2>1 DEF ConfigureDecoration, ResizeInv, Settled, grab
  <1>8. /\ ~StartMove /\ ~Hide
        /\ \A f, r : ~FinishAtEdge(f, r)
    BY DEF StartMove, Start, Hide, FinishAtEdge, ResizeInv
  <1>9. ASSUME NEW g \in Gravities, StartResize(g) PROVE ResizeInv'
    <2>1. "Resizing" \in next'.states
      BY <1>9, WishesTyped DEF StartResize
    <2> QED
      BY <1>9, <2>1 DEF StartResize, Start, ResizeInv
  <1>10. CASE Finish
    <2>1. "Resizing" \in next.states /\ interactive' = "none"
      BY <1>10 DEF Finish, Leave, ResizeInv, TypeOK
    <2>2. configureTimer'
      BY <1>10, <2>1, Zenon DEF Finish
    <2> QED
      BY <2>1, <2>2 DEF ResizeInv, Settled
  <1>11. CASE Cancel
    <2>1. "Resizing" \in next.states /\ interactive' = "none"
      BY <1>11 DEF Cancel, Leave, ResizeInv, TypeOK
    <2>2. PICK scheduled \in BOOLEAN : RequestResize(initial.rect, scheduled) /\ scheduled
      BY <1>11, <2>1 DEF Cancel
    <2>3. ~Settled'
      BY <1>0, <2>1, <2>2
    <2> QED
      BY <2>1, <2>3 DEF ResizeInv
  <1>12. CASE SendConfigure
    BY <1>12, SendQueue DEF SendConfigure, ResizeInv, Settled, grab
  <1>13. ASSUME NEW s \in ClientSizes, Commit(s) PROVE ResizeInv'
    <2>1. PICK k \in 0..Len(configureEvents) : CommitTaking(k, s)
      BY <1>13, CommitTakes
    <2>2. UNCHANGED <<interactive, next, configureTimer>>
      BY <2>1 DEF CommitTaking, grab
    <2>3. interactive = "none" /\ ~configureTimer /\ configureEvents' = <<>>
            => moveResizeGeometry' = frame'
      BY <2>1 DEF CommitTaking, Synchronizes
    <2> QED
      BY <2>2, <2>3 DEF ResizeInv, Settled
  <1>14. CASE UNCHANGED vars
    BY <1>14 DEF vars, geometry, grab, ResizeInv, Settled
  <1> QED
    BY <1>1, <1>3, <1>4, <1>5, <1>6, <1>7, <1>8, <1>9, <1>10, <1>11, <1>12, <1>13,
       <1>14 DEF Next

\* Unless windows are dragged or hidden in the middle of an interaction, the
\* move-resize geometry is what the window has whenever all is settled.  The
\* two assumptions are those without which TLC finds a counterexample.
THEOREM GeometryAlwaysConverges ==
  ASSUME "move" \notin Interactions, "hide" \notin Interactions
  PROVE  Spec => []GeometryConverges
  <1>1. ResizeInv => GeometryConverges
    BY DEF ResizeInv, GeometryConverges
  <1>2. TypeOK /\ ResizeInv /\ [Next]_vars => ResizeInv'
    BY ResizeStep
  <1> QED
    BY <1>1, <1>2, ResizeInit, TypesHold, PTL DEF Spec
=============================================================================
