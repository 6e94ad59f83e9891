------------------------------ MODULE X11Focus ------------------------------
(***************************************************************************)
(* The input focus of X11 windows (activation.cpp, events.cpp, focuschain. *)
(* cpp).  KWin asks the X server to move the focus and makes a window      *)
(* active only when the server reports FocusIn; clients move the focus     *)
(* too, which KWin may undo, and windows are hidden or closed while        *)
(* reports are on their way.                                               *)
(*                                                                         *)
(* Windows are ordinary ones on one desktop and one output: no docks,      *)
(* desktop windows, modal dialogs, shading, windows that take the focus    *)
(* by themselves or that ask not to get it (user time 0), a reasonable     *)
(* focus policy, no focus blocked.  Requests KWin makes of the server take *)
(* effect at once (it waits for the reply).                                *)
(***************************************************************************)
EXTENDS Integers, SequencesExt, QtList

CONSTANTS
  Windows,       \* client windows
  None,          \* nullptr
  NullFocus,     \* m_nullFocus, the window that has the focus if no other has
  PointerRoot,   \* X: the keyboard goes to whatever is under the pointer
  MaxEvents,     \* bound on the events on their way when anybody moves
  MaxWaiting     \* bound on should_get_focus before a step that may add to it

ASSUME FocusAssumption ==
  /\ {None, NullFocus, PointerRoot} \cap Windows = {}
  /\ None # NullFocus /\ None # PointerRoot /\ NullFocus # PointerRoot
  /\ MaxEvents \in Nat \ {0} /\ MaxWaiting \in Nat \ {0}

(***************************************************************************)
(* s.active, s.last: m_activeWindow and m_lastActiveWindow                 *)
(* s.should:         should_get_focus                                      *)
(* s.chain:          the focus chain, most recent last                     *)
(* s.managed:        windows KWin manages                                  *)
(* s.hidden:         those that are minimized                              *)
(* s.kept:           those of them that stay mapped (MappingState Kept)    *)
(* s.timers:         windows whose m_focusOutTimer is active               *)
(* s.alive:          external: windows that exist and that their client    *)
(*                   has mapped                                            *)
(* s.focus:          external: the input focus of the server               *)
(* s.events:         external: events on their way to KWin                 *)
(* s.lapses:         history: what went wrong since the focus last moved:  *)
(*                   the window KWin wanted to give it to was closed or    *)
(*                   hidden, or KWin ignored that a hidden window has it   *)
(***************************************************************************)
VARIABLE s

FocusIn(w) == <<"FocusIn", w>>
FocusOut(w) == <<"FocusOut", w>>
Closed(w) == <<"Closed", w>>      \* UnmapNotify and DestroyNotify

TypeOK ==
  /\ s.active \in Windows \cup {None} /\ s.last \in Windows \cup {None}
  /\ s.should \in Seq(Windows) /\ s.chain \in Seq(Windows)
  /\ s.managed \subseteq Windows /\ s.hidden \subseteq s.managed
  /\ s.kept \subseteq s.hidden /\ s.lapses \subseteq {"refused", "ignored"}
  /\ s.timers \subseteq s.managed /\ s.alive \subseteq Windows
  /\ s.focus \in Windows \cup {NullFocus, PointerRoot}
  /\ s.events \in Seq({"FocusIn", "FocusOut", "Closed"} \X (Windows \cup {PointerRoot}))

\* Workspace::initializeX11 has put the focus on the null window.
Init ==
  s = [active |-> None, last |-> None, should |-> <<>>, chain |-> <<>>,
       managed |-> {}, hidden |-> {}, kept |-> {}, timers |-> {},
       alive |-> {}, focus |-> NullFocus, events |-> <<>>, lapses |-> {}]

-----------------------------------------------------------------------------
(* The X server.                                                           *)

Viewable(z, w) == w \in z.alive /\ w \notin z.hidden \ z.kept

\* The focus moves to target.  Nothing is reported if it is there already,
\* and nothing of the null window.
FocusMoved(z, target) ==
  IF z.focus = target THEN z
  ELSE [z EXCEPT !.focus = target, !.lapses = {},
                 !.events = @ \o (IF z.focus \in Windows THEN <<FocusOut(z.focus)>> ELSE <<>>)
                              \o (IF target # NullFocus THEN <<FocusIn(target)>> ELSE <<>>)]

\* A window that has the focus and is unmapped loses it.
Reverted(z, w) == IF z.focus = w THEN FocusMoved(z, PointerRoot) ELSE z

-----------------------------------------------------------------------------
(* Workspace and X11Window: what the handlers are made of.                 *)

isShown(z, w) == w \in z.managed /\ w \notin z.hidden

mostRecentlyActivatedWindow(z) ==
  IF z.should # <<>> THEN Last(z.should) ELSE z.active

FocusToNull(z) == FocusMoved([z EXCEPT !.should = <<>>], NullFocus)

\* takeActivity and takeFocus return false for a window that is not shown
\* and when the server refuses.
FocusSucceeds(z, w) == isShown(z, w) /\ Viewable(z, w)

RequestFocus(z, w) ==
  IF FocusSucceeds(z, w)
  THEN [FocusMoved(z, w) EXCEPT !.should = Append(@, w)]
  ELSE [z EXCEPT !.lapses = @ \cup {"refused"}]

\* Window::setActive and Workspace::setActiveWindow
SetActive(z, w) ==
  IF z.active = w THEN z
  ELSE [z EXCEPT !.active = w, !.last = w, !.chain = Append(RemoveAll(@, w), w)]
SetInactive(z, w) == IF z.active = w THEN [z EXCEPT !.active = None] ELSE z

\* FocusChain::nextForDesktop: the places in the chain of usable windows, of
\* which the last one is taken.
Candidates(z, w) == {i \in DOMAIN z.chain : z.chain[i] # w /\ isShown(z, z.chain[i])}

\* Workspace::activateNextWindow
PassOn(z, w) ==
  LET y == [SetInactive(z, w) EXCEPT !.should = RemoveAll(@, w)]
      next == Candidates(y, w)
  IN  IF next = {} THEN FocusToNull(y) ELSE RequestFocus(y, y.chain[Max(next)])

ActivateNextWindow(z, w) ==
  IF w = z.active \/ (z.should # <<>> /\ w = Last(z.should)) THEN PassOn(z, w) ELSE z

\* FocusChain::insertWindowIntoChain
InsertIntoChain(z, w) ==
  LET n == Len(z.chain)
  IN  IF n > 0 /\ z.active = Last(z.chain) THEN InsertAt(z.chain, n, w)
      ELSE Append(z.chain, w)

\* Workspace::gotFocusIn
GotFocusIn(should, w) ==
  IF Contains(should, w)
  THEN LET i == CHOOSE k \in DOMAIN should :
                  should[k] = w /\ \A j \in 1..(k - 1) : should[j] # w
       IN  SubSeq(should, i + 1, Len(should))
  ELSE should

-----------------------------------------------------------------------------
(* What users, clients and KWin itself begin.                              *)

MayMove == Len(s.events) <= MaxEvents
MayAsk == MayMove /\ Len(s.should) < MaxWaiting

Shown(z, w) == [z EXCEPT !.hidden = @ \ {w}, !.kept = @ \ {w}]

\* Workspace::activateWindow, of a window that may be minimized.
Activate(w) ==
  /\ MayAsk /\ w \in s.managed
  /\ s' = RequestFocus(Shown(s, w), w)

\* updateVisibility with internalHide: the window is minimized.
Hide(w) ==
  /\ MayMove /\ isShown(s, w)
  /\ s' = ActivateNextWindow(Reverted([s EXCEPT !.hidden = @ \cup {w}], w), w)

\* updateVisibility with internalKeep: previews of minimized windows are
\* wanted (HiddenPreviewsAlways), so that the window stays mapped.
Keep(w) ==
  /\ MayMove /\ isShown(s, w)
  /\ LET z == [s EXCEPT !.hidden = @ \cup {w}, !.kept = @ \cup {w}]
     IN  s' = ActivateNextWindow(IF s.active = w THEN FocusToNull(z) ELSE z, w)

\* internalShow: the window is shown without being activated.
Show(w) ==
  /\ MayMove /\ w \in s.hidden
  /\ s' = Shown(s, w)

\* A client maps a new window: X11Window::manage and addX11Window.  Whether
\* it is activated depends on timestamps and applications.
Manage(w, allow) ==
  /\ MayAsk /\ w \notin s.managed \cup s.alive
  /\ \A i \in DOMAIN s.events : s.events[i][2] # w
  /\ LET z == [s EXCEPT !.managed = @ \cup {w}, !.alive = @ \cup {w}]
         y == IF allow THEN RequestFocus(z, w) ELSE z
     IN  s' = [y EXCEPT !.chain = InsertIntoChain(y, w)]

\* A client sets the focus, to a window or to nothing.
ClientSetsFocus(target) ==
  /\ MayAsk /\ (target = PointerRoot \/ Viewable(s, target))
  /\ s.focus # target
  /\ s' = FocusMoved(s, target)

\* A client unmaps or destroys its window.
ClientCloses(w) ==
  /\ MayMove /\ w \in s.alive
  /\ s' = Reverted([s EXCEPT !.alive = @ \ {w}, !.events = Append(@, Closed(w))], w)

-----------------------------------------------------------------------------
(* KWin's event loop.                                                      *)

Rest == [s EXCEPT !.events = Tail(@)]
Arrives(e) == s.events # <<>> /\ Head(s.events) = e

\* X11Window::allowWindowActivation(-1U, true) for a window that KWin has
\* not given the focus: by timestamps and applications, at the default
\* levels of protection.
AllowedToStay(w) ==
  IF Contains(s.should, w) \/ s.last \in {None, w} THEN {TRUE} ELSE BOOLEAN

\* Workspace::restoreFocus
RestoreTarget(z) == IF z.should # <<>> THEN Last(z.should) ELSE z.last

\* Mutant: the timers of the windows that lost the focus go on.
FocusInKeepsTimers(w) ==
  /\ Arrives(FocusIn(w))
  /\ s' = IF isShown(s, w) THEN SetActive([Rest EXCEPT !.should = GotFocusIn(@, w)], w)
          ELSE [Rest EXCEPT !.lapses = @ \cup {"ignored"}]

\* X11Window::focusInEvent
HandleFocusIn(w) ==
  /\ Arrives(FocusIn(w))
  /\ \/ /\ ~isShown(s, w)
        /\ s' = [Rest EXCEPT !.lapses = IF s.focus = w THEN @ \cup {"ignored"} ELSE @]
     \/ /\ isShown(s, w)
        /\ \E allowed \in AllowedToStay(w) :
             LET z == [Rest EXCEPT !.timers = {}, !.should = GotFocusIn(@, w)]
                 t == RestoreTarget(z)
             IN  s' = IF ~allowed /\ FocusSucceeds(z, t) THEN RequestFocus(z, t)
                      ELSE SetActive(z, w)

\* X11Window::focusOutEvent
HandleFocusOut(w) ==
  /\ Arrives(FocusOut(w))
  /\ s' = IF w \in s.managed THEN [Rest EXCEPT !.timers = @ \cup {w}] ELSE Rest

\* Mutant: the timer is not a single shot.
RepeatedTimeout(w) ==
  /\ w \in s.timers
  /\ s' = SetInactive(s, w)

FocusOutTimeout(w) ==
  /\ w \in s.timers
  /\ s' = SetInactive([s EXCEPT !.timers = @ \ {w}], w)

\* Mutant: nothing is done when there is no active window.
RootFocusInOfActive ==
  /\ Arrives(FocusIn(PointerRoot))
  /\ LET w == mostRecentlyActivatedWindow(s)
     IN  s' = IF s.focus # PointerRoot \/ w = None THEN Rest ELSE RequestFocus(Rest, w)

\* Workspace::workspaceEvent, FocusIn of the root window.
HandleRootFocusIn ==
  /\ Arrives(FocusIn(PointerRoot))
  /\ LET w == mostRecentlyActivatedWindow(s)
     IN  s' = IF s.focus # PointerRoot THEN Rest
              ELSE IF w # None THEN RequestFocus(Rest, w)
              ELSE ActivateNextWindow(Rest, None)

\* Mutant: m_lastActiveWindow is left alone.
ForgottenButLast(z, w) ==
  [z EXCEPT !.managed = @ \ {w}, !.hidden = @ \ {w}, !.kept = @ \ {w}, !.timers = @ \ {w},
            !.active = IF @ = w THEN None ELSE @,
            !.should = RemoveAll(@, w),
            !.chain = RemoveAll(@, w)]

\* Workspace::removeWindow and FocusChain::remove
Forgotten(z, w) ==
  [z EXCEPT !.managed = @ \ {w}, !.hidden = @ \ {w}, !.kept = @ \ {w}, !.timers = @ \ {w},
            !.active = IF @ = w THEN None ELSE @,
            !.last = IF @ = w THEN None ELSE @,
            !.should = RemoveAll(@, w),
            !.chain = RemoveAll(@, w)]

\* X11Window::destroyWindow and releaseWindow
HandleClosed(w) ==
  /\ Arrives(Closed(w))
  /\ s' = Forgotten(ActivateNextWindow([Rest EXCEPT !.hidden = @ \cup {w}], w), w)

-----------------------------------------------------------------------------
Move ==
  \/ \E w \in Windows : Activate(w) \/ Hide(w) \/ Keep(w) \/ Show(w) \/ ClientCloses(w)
  \/ \E w \in Windows, allow \in BOOLEAN : Manage(w, allow)
  \/ \E target \in Windows \cup {PointerRoot} : ClientSetsFocus(target)

Handle ==
  \/ \E w \in Windows : HandleFocusIn(w) \/ HandleFocusOut(w) \/ HandleClosed(w)
  \/ HandleRootFocusIn

Timeout == \E w \in Windows : FocusOutTimeout(w)

Next == Move \/ Handle \/ Timeout

Spec == Init /\ [][Next]_s

\* KWin's event loop handles what arrives and its zero timers.
FairSpec == Spec /\ WF_s(Handle) /\ WF_s(Timeout)

-----------------------------------------------------------------------------
(***************************************************************************)
(* Properties.                                                             *)
(***************************************************************************)

\* Nothing is left to handle.
Quiet == s.events = <<>> /\ s.timers = {}

\* Once everything is handled, the window KWin takes for the active one is
\* the one that has the focus; unless a client gave the focus to a hidden
\* window that is still mapped, which focusInEvent takes no notice of.
ActiveHasFocus ==
  Quiet /\ "ignored" \notin s.lapses => s.active = IF s.focus \in Windows THEN s.focus ELSE None

\* Once everything is handled, the focus is not on the root: a window or the
\* null window has it, unless the window KWin wanted to give it to was closed
\* or hidden already.
FocusRestored == Quiet => s.focus # PointerRoot \/ "refused" \in s.lapses

\* KWin and the clients do not fight over the focus for ever: unless
\* somebody goes on moving it, all is handled in the end.
Settles == <>[][~Move]_s => <>[]Quiet

\* No pointer to a window that is gone is kept, and every window is in the
\* focus chain once.
NoDanglingWindow ==
  /\ {s.active, s.last} \ {None} \subseteq s.managed
  /\ ToSet(s.should) \subseteq s.managed
  /\ ToSet(s.chain) = s.managed /\ Len(s.chain) = Cardinality(s.managed)
=============================================================================
