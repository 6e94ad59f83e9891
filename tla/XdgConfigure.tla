---------------------------- MODULE XdgConfigure ----------------------------
(***************************************************************************)
(* How KWin and an xdg-shell client agree on the geometry and the state of *)
(* a window (src/xdgshellwindow.cpp, src/window.cpp): KWin asks with       *)
(* configure events it keeps in a queue, the client acknowledges one of    *)
(* them and commits a size of its own choice, at any later time.           *)
(*                                                                         *)
(* A mapped toplevel.  Rectangles have one dimension.  A handler that      *)
(* blocks geometry updates makes one request, of the combined mode, when   *)
(* it ends.  Left out: the keep-in-area step of split windows, placeholder *)
(* windows (dragging without content), bordersChanged of a decoration,     *)
(* window rules, and the quick tile mode that a cancelled interaction      *)
(* restores.                                                               *)
(***************************************************************************)
EXTENDS Integers, Sequences

CONSTANTS
  Positions,      \* positions KWin asks for
  FrameSizes,     \* frame sizes KWin asks for
  ClientSizes,    \* sizes the client commits
  Border,         \* what a server-side decoration adds to a size
  Flags,          \* toplevel states KWin switches (Activated, Maximized...)
  Decorations,    \* TRUE in it: the window may be decorated by the server
  Gravities,      \* edges the user may resize from
  Interactions,   \* kinds of interactive steps: "move", "resize", "hide"
  SerialModulus,  \* serials wrap here; 2^32 in the code
  FirstSerials,   \* what the display's counter may be at when the queue is empty
  Wraps,          \* the counter may wrap while events are in the queue
  MaxEvents       \* bound: configure events sent and not taken from the queue

ASSUME GeometryAssumption ==
  /\ Positions \subseteq Int /\ FrameSizes \subseteq Nat /\ ClientSizes \subseteq Nat
  /\ Border \in Nat
ASSUME KindAssumption ==
  /\ Decorations \subseteq BOOLEAN /\ FALSE \in Decorations
  /\ Gravities \subseteq {"Left", "Right"}
  /\ Interactions \subseteq {"move", "resize", "hide"}
  /\ "Resizing" \notin Flags
ASSUME SerialAssumption ==
  /\ SerialModulus \in Nat \ {0} /\ FirstSerials \subseteq 0..(SerialModulus - 1)
  /\ Wraps \in BOOLEAN
  /\ MaxEvents \in Nat \ {0}

VARIABLES
  frame,               \* frameGeometry()
  moveResizeGeometry,  \* m_moveResizeGeometry
  configureTimer,      \* m_configureTimer is active
  configurePosition,   \* ConfigurePosition is in m_configureFlags
  configureEvents,     \* m_configureEvents
  next,                \* m_nextStates and m_nextDecoration
  acked,               \* m_acknowledgedStates and decoration()
  nextGravity,         \* m_nextGravity
  interactive,         \* interactive move or resize in progress
  initial,             \* initialGeometry and initialMaximizeMode of the interaction
  goal                 \* history: the last geometry request and what became of it

geometry == <<frame, moveResizeGeometry, configurePosition, configureEvents, goal>>
grab == <<nextGravity, interactive, initial>>
vars == <<geometry, grab, configureTimer, next, acked>>

Rects == [pos : Int, size : Int]
NoInitial == [rect |-> [pos |-> 0, size |-> 0], maximized |-> FALSE]
Looks == [states : SUBSET (Flags \cup {"Resizing"}), decoration : BOOLEAN]
Configures ==
  [serial : 0..(SerialModulus - 1), bounds : Rects, next : Looks,
   gravity : {"None", "Left", "Right"}, position : BOOLEAN]
Goals ==
  [kind : {"none", "move", "place"}, rect : Rects, edge : {"near", "far"},
   fate : {"kept", "dropped", "overtaken"}]

TypeOK ==
  /\ frame \in Rects /\ moveResizeGeometry \in Rects
  /\ configureTimer \in BOOLEAN /\ configurePosition \in BOOLEAN
  /\ configureEvents \in Seq(Configures) /\ Len(configureEvents) <= MaxEvents
  /\ next \in Looks /\ acked \in Looks
  /\ nextGravity \in {"None", "Left", "Right"}
  /\ interactive \in {"none", "move", "resize"}
  /\ initial \in [rect : Rects, maximized : BOOLEAN]
  /\ initial.maximized => "Maximized" \in Flags
  /\ goal \in Goals

\* A mapped window that nothing is asked of.
Init ==
  \E p \in Positions, s \in ClientSizes :
    /\ frame = [pos |-> p, size |-> s]
    /\ moveResizeGeometry = frame /\ initial = NoInitial
    /\ configureTimer = FALSE /\ configurePosition = FALSE
    /\ configureEvents = <<>>
    /\ next = [states |-> {}, decoration |-> FALSE] /\ acked = next
    /\ nextGravity = "None" /\ interactive = "none"
    /\ goal = [kind |-> "none", rect |-> frame, edge |-> "near", fate |-> "kept"]

-----------------------------------------------------------------------------
Borders(decorated) == IF decorated THEN Border ELSE 0
FrameSizeToClientSize(size) == size - Borders(acked.decoration)

PositionSent == \E i \in DOMAIN configureEvents : configureEvents[i].position

Far(r) == r.pos + r.size
Edge(r, e) == IF e = "far" THEN Far(r) ELSE r.pos

\* gravitateGeometry: resizing from the left keeps the right edge.
GravitateGeometry(rect, bounds, gravity) ==
  [rect EXCEPT !.pos = IF gravity = "Left" THEN Far(bounds) - rect.size ELSE bounds.pos]
HeldEdge(gravity) == IF gravity = "Left" THEN "far" ELSE "near"

-----------------------------------------------------------------------------
(* What KWin asks for.                                                     *)

\* Mutant: a window that has the size already is not put in its place.
ResizeWithoutUpdate(rect, scheduled) ==
  LET same == FrameSizeToClientSize(rect.size) = FrameSizeToClientSize(frame.size)
  IN  /\ moveResizeGeometry' = rect
      /\ configurePosition' = (configurePosition \/ ~same)
      /\ configureTimer' = (configureTimer \/ ~same \/ scheduled)
      /\ goal' = [kind |-> "place", rect |-> rect, edge |-> "near", fate |-> "kept"]
      /\ UNCHANGED <<frame, configureEvents>>

\* moveResize() and resize() to rect; the caller may schedule a configure
\* for reasons of its own.
RequestResize(rect, scheduled) ==
  LET same == FrameSizeToClientSize(rect.size) = FrameSizeToClientSize(frame.size)
  IN  /\ moveResizeGeometry' = rect
      /\ frame' = IF same THEN rect ELSE frame
      /\ configurePosition' = (configurePosition \/ ~same)
      /\ configureTimer' = (configureTimer \/ ~same \/ scheduled)
      /\ goal' = [kind |-> "place", rect |-> rect, edge |-> "near",
                  fate |-> IF same /\ PositionSent THEN "overtaken" ELSE "kept"]
      /\ UNCHANGED configureEvents

Resize(size) ==
  /\ RequestResize([pos |-> moveResizeGeometry.pos, size |-> size], FALSE)
  /\ UNCHANGED <<next, acked, grab>>

MoveResize(rect) == RequestResize(rect, FALSE) /\ UNCHANGED <<next, acked, grab>>

\* move(): cancels the position updates that are queued.
Move(pos) ==
  LET rect == [pos |-> pos, size |-> moveResizeGeometry.size]
  IN  /\ moveResizeGeometry' = rect
      /\ configureEvents' = [i \in DOMAIN configureEvents |->
                               [configureEvents[i] EXCEPT !.position = FALSE]]
      /\ configurePosition' = FALSE
      /\ frame' = IF frame.size # rect.size THEN frame ELSE rect
      /\ goal' = [kind |-> "move", rect |-> rect, edge |-> "near",
                  fate |-> IF frame.size # rect.size THEN "dropped" ELSE "kept"]
      /\ UNCHANGED <<configureTimer, next, acked, grab>>

Toggled(look, f) ==
  [look EXCEPT !.states = IF f \in look.states THEN look.states \ {f} ELSE look.states \cup {f}]

\* doSetActive, doSetQuickTileMode and the like.
SetState(f) ==
  /\ next' = Toggled(next, f)
  /\ configureTimer' = TRUE
  /\ UNCHANGED <<geometry, acked, grab>>

\* maximize() and setFullScreen(): a state, a geometry, and possibly another
\* decoration, which full screen and borderless maximized windows lose.
SetStateAndGeometry(f, rect, decorated) ==
  /\ next' = [Toggled(next, f) EXCEPT !.decoration = decorated]
  /\ RequestResize(rect, TRUE)
  /\ UNCHANGED <<acked, grab>>

ConfigureDecoration(decorated) ==
  /\ next' = [next EXCEPT !.decoration = decorated]
  /\ configureTimer' = TRUE
  /\ UNCHANGED <<geometry, acked, grab>>

-----------------------------------------------------------------------------
(* Interactive move and resize.  The steps in between are Move and         *)
(* MoveResize.                                                             *)

Start(kind) ==
  /\ kind \in Interactions /\ interactive = "none"
  /\ interactive' = kind
  /\ initial' = [rect |-> moveResizeGeometry, maximized |-> "Maximized" \in next.states]

StartMove ==
  /\ Start("move")
  /\ UNCHANGED <<geometry, nextGravity, configureTimer, next, acked>>

\* A maximized window leaves that state and keeps its geometry.
StartResize(gravity) ==
  /\ Start("resize")
  /\ nextGravity' = gravity
  /\ next' = [next EXCEPT !.states = (@ \ {"Maximized"}) \cup {"Resizing"}]
  /\ IF "Maximized" \in next.states
     THEN RequestResize(moveResizeGeometry, TRUE)
     ELSE configureTimer' = TRUE /\ UNCHANGED geometry
  /\ UNCHANGED acked

\* leaveInteractiveMoveResize and doFinishInteractiveMoveResize
Leave == interactive' = "none" /\ initial' = NoInitial /\ UNCHANGED nextGravity
NotResizing == [next EXCEPT !.states = @ \ {"Resizing"}]

\* Mutant: the end of the resize is not announced.
FinishQuietly ==
  /\ interactive # "none" /\ Leave
  /\ next' = NotResizing
  /\ UNCHANGED <<configureTimer, geometry, acked>>

Finish ==
  /\ interactive # "none" /\ Leave
  /\ next' = NotResizing
  /\ configureTimer' = (configureTimer \/ "Resizing" \in next.states)
  /\ UNCHANGED <<geometry, acked>>

\* The window was dragged to an edge of the screen that maximizes or tiles it.
FinishAtEdge(f, rect) ==
  /\ interactive = "move" /\ Leave
  /\ next' = Toggled(NotResizing, f)
  /\ RequestResize(rect, TRUE)
  /\ UNCHANGED acked

\* The maximize area is the geometry the maximized window had.
Cancel ==
  LET restored == initial.maximized /\ "Maximized" \notin next.states
  IN  /\ interactive # "none" /\ Leave
      /\ next' = IF restored THEN Toggled(NotResizing, "Maximized") ELSE NotResizing
      /\ RequestResize(initial.rect, restored \/ "Resizing" \in next.states)
      /\ UNCHANGED acked

\* WaylandWindow::hideClient leaves the interaction without finishing it.
Hide ==
  /\ "hide" \in Interactions
  /\ interactive # "none" /\ Leave
  /\ UNCHANGED <<geometry, configureTimer, next, acked>>

-----------------------------------------------------------------------------
(* Configure, acknowledge, commit.                                         *)

LastEvent == configureEvents[Len(configureEvents)]

\* Display::nextSerial
NextSerials ==
  IF configureEvents = <<>> THEN FirstSerials
  ELSE {s \in {(LastEvent.serial + 1) % SerialModulus} : s # 0 \/ Wraps}

Inherited == configureEvents # <<>> /\ LastEvent.position

\* Mutant: the flags of the previous event are not inherited.
ConfigureAfresh ==
  /\ configureTimer /\ configureTimer' = FALSE
  /\ Len(configureEvents) < MaxEvents
  /\ \E s \in NextSerials :
       configureEvents' = Append(configureEvents,
         [serial |-> s, bounds |-> moveResizeGeometry, next |-> next,
          gravity |-> nextGravity, position |-> configurePosition])
  /\ configurePosition' = FALSE
  /\ goal' = IF configurePosition
             THEN [goal EXCEPT !.edge = HeldEdge(nextGravity)] ELSE goal
  /\ UNCHANGED <<frame, moveResizeGeometry, next, acked, grab>>

\* XdgSurfaceWindow::sendConfigure
SendConfigure ==
  /\ configureTimer /\ configureTimer' = FALSE
  /\ Len(configureEvents) < MaxEvents
  /\ LET position == Inherited \/ configurePosition
     IN  /\ \E s \in NextSerials :
              configureEvents' = Append(configureEvents,
                [serial |-> s, bounds |-> moveResizeGeometry, next |-> next,
                 gravity |-> nextGravity, position |-> position])
         /\ goal' = IF position
                    THEN [goal EXCEPT !.edge = HeldEdge(nextGravity)] ELSE goal
  /\ configurePosition' = FALSE
  /\ UNCHANGED <<frame, moveResizeGeometry, next, acked, grab>>

\* Mutant: the acknowledged event itself stays in the queue.
TakenBefore(serial, k) ==
  /\ \A i \in 1..k : configureEvents[i].serial < serial
  /\ k < Len(configureEvents) => configureEvents[k + 1].serial >= serial

\* handleCommit takes the first k events when the client acknowledged serial.
Taken(serial, k) ==
  /\ \A i \in 1..k : configureEvents[i].serial <= serial
  /\ k < Len(configureEvents) => serial < configureEvents[k + 1].serial

\* maybeUpdateMoveResizeGeometry, when rest stays in the queue.
Synchronizes(rest) ==
  /\ interactive = "none" /\ ~configureTimer
  /\ \A i \in DOMAIN rest : ~rest[i].position

\* A commit of the given size that takes k events from the queue.
CommitTaking(k, size) ==
  LET positioned == k > 0 /\ configureEvents[k].position
      look == IF k > 0 THEN configureEvents[k].next ELSE acked
      plain == [pos |-> frame.pos, size |-> size + Borders(look.decoration)]
      shown == IF positioned
               THEN GravitateGeometry(plain, configureEvents[k].bounds, configureEvents[k].gravity)
               ELSE plain
      rest == SubSeq(configureEvents, k + 1, Len(configureEvents))
  IN  /\ frame' = shown
      /\ moveResizeGeometry' = IF Synchronizes(rest) THEN shown ELSE moveResizeGeometry
      /\ configureEvents' = rest
      /\ acked' = look
      /\ goal' = IF goal.kind = "place" /\ goal.edge = "far" /\ ~positioned
                    /\ ~configurePosition /\ ~PositionSent
                 THEN [goal EXCEPT !.kind = "none"] ELSE goal
      /\ UNCHANGED <<configureTimer, configurePosition, next, grab>>

\* XdgSurfaceWindow::handleCommit, with the acknowledgement and the window
\* geometry of the same wl_surface.commit.
CommitAcknowledging(serial, size) ==
  \E k \in 0..Len(configureEvents) : Taken(serial, k) /\ CommitTaking(k, size)

Commit(size) ==
  \/ CommitTaking(0, size)
  \/ \E i \in DOMAIN configureEvents : CommitAcknowledging(configureEvents[i].serial, size)

-----------------------------------------------------------------------------
RequestRects == [pos : Positions, size : FrameSizes]

Next ==
  \/ \E p \in Positions : Move(p)
  \/ \E s \in FrameSizes : Resize(s)
  \/ \E r \in RequestRects : MoveResize(r)
  \/ \E f \in Flags : SetState(f)
  \/ \E f \in Flags, r \in RequestRects, d \in Decorations : SetStateAndGeometry(f, r, d)
  \/ \E d \in Decorations : ConfigureDecoration(d)
  \/ StartMove
  \/ \E g \in Gravities : StartResize(g)
  \/ Finish
  \/ \E f \in Flags, r \in RequestRects : FinishAtEdge(f, r)
  \/ Cancel
  \/ Hide
  \/ SendConfigure
  \/ \E s \in ClientSizes : Commit(s)

Spec == Init /\ [][Next]_vars

(***************************************************************************)
(* The timer is a zero timer of the event loop, and a client answers the   *)
(* newest configure event it has received, sooner or later.                *)
(***************************************************************************)
AnswerNewest ==
  /\ configureEvents # <<>>
  /\ \E s \in ClientSizes : CommitAcknowledging(LastEvent.serial, s)

FairSpec == Spec /\ WF_vars(SendConfigure) /\ WF_vars(AnswerNewest)

-----------------------------------------------------------------------------
(***************************************************************************)
(* Properties.                                                             *)
(***************************************************************************)

\* No configure event is to be sent and none waits for its acknowledgement.
Settled == ~configureTimer /\ configureEvents = <<>>

\* When all is settled the client shows the states and the decoration KWin
\* last asked for, however acknowledgements skipped events, and whatever
\* changed between two events.
LooksConverge == Settled => acked = next

\* When all is settled and no interaction is going on, the move-resize
\* geometry is the geometry the window has, so that the next move() or
\* resize() starts from what the user sees.
GeometryConverges ==
  Settled /\ interactive = "none" => moveResizeGeometry = frame

\* The last geometry request decides where the window is: a move that took
\* effect is not undone by a late acknowledgement of an older configure
\* event, and the edge a resize holds is where it was asked to be once all is
\* settled, even if the event that carried it was skipped and the client chose
\* another size.
PositionHolds ==
  goal.fate = "kept" =>
    /\ goal.kind = "move" => frame.pos = goal.rect.pos
    /\ goal.kind = "place" /\ Settled => Edge(frame, goal.edge) = Edge(goal.rect, goal.edge)

\* A state KWin asks for is eventually the acknowledged one, unless KWin
\* asks for another first.
LooksReached ==
  \A n \in Looks : (next = n) ~> (acked = n \/ next # n)
=============================================================================
