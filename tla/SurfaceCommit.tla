---------------------------- MODULE SurfaceCommit ----------------------------
(***************************************************************************)
(* How the state of a Wayland surface reaches the screen                   *)
(* (wayland/surface_interface.cpp, subcompositor_interface.cpp): requests  *)
(* collect in a pending state; a commit applies it, or, for a synchronized *)
(* sub-surface, moves it to a cached state that is applied with the state  *)
(* of the parent surface.                                                  *)
(*                                                                         *)
(* Of the state proper the model keeps the buffer (as whether there is     *)
(* one), the frame callbacks and the stacking order of the children; the   *)
(* other members (regions, scale, viewport, blur...) are merged the way    *)
(* the buffer is.  A stacking order is one sequence with the parent in it: *)
(* the lists below and above put together around the parent.  Positions,   *)
(* and requests that are protocol errors, are left out.                    *)
(***************************************************************************)
EXTENDS Integers, SequencesExt, QtList

CONSTANTS
  Surfaces,    \* wl_surface objects of one client
  Root,        \* the one that is a window's; the others may be sub-surfaces
  Links,       \* the pairs <<surface, parent>> the client makes sub-surfaces of
  Callbacks,   \* wl_callback objects
  NoSurface    \* nullptr

ASSUME SurfaceAssumption ==
  /\ Root \in Surfaces /\ NoSurface \notin Surfaces
  /\ Links \subseteq (Surfaces \ {Root}) \X Surfaces

VARIABLES
  alive,     \* surfaces that exist
  role,      \* surfaces that have a SubSurfaceInterface
  parent,    \* its parent surface
  mode,      \* its mode
  pending, cached, current,   \* the three SurfaceStates
  hasCache,  \* hasCacheState
  mapped,    \* the flag behind isMapped()
  open,      \* history: frame callbacks requested and neither done nor destroyed
  want,      \* history: the stacking order the client has asked for
  strayed,   \* history: surfaces whose cache is out of step: they were made
             \* synchronized again, or their sub-surface was destroyed
  reparented \* history: surfaces whose place in the tree changed while they
             \* had a buffer, and whose mapped flag was not computed since

states == <<pending, cached, current, hasCache, mapped>>
tree == <<alive, role, parent, mode>>
history == <<open, want, strayed, reparented>>
vars == <<tree, states, history>>

(***************************************************************************)
(* A SurfaceState.  isSet: bufferIsSet.  changed: childrenChanged.         *)
(***************************************************************************)
NewState(s) ==
  [isSet |-> FALSE, buffer |-> FALSE, callbacks |-> <<>>, order |-> <<s>>, changed |-> FALSE]

StateType ==
  [isSet : BOOLEAN, buffer : BOOLEAN, callbacks : Seq(Callbacks), order : Seq(Surfaces),
   changed : BOOLEAN]

TypeOK ==
  /\ alive \subseteq Surfaces /\ role \subseteq alive
  /\ parent \in [Surfaces -> Surfaces \cup {NoSurface}]
  /\ mode \in [Surfaces -> {"Synchronized", "Desynchronized"}]
  /\ \A st \in {pending, cached, current} : st \in [Surfaces -> StateType]
  /\ hasCache \in [Surfaces -> BOOLEAN] /\ mapped \in [Surfaces -> BOOLEAN]
  /\ open \subseteq Callbacks
  /\ want \in [Surfaces -> Seq(Surfaces)]
  /\ strayed \subseteq Surfaces /\ reparented \subseteq Surfaces

Init ==
  /\ alive = Surfaces /\ role = {}
  /\ parent = [s \in Surfaces |-> NoSurface]
  /\ mode = [s \in Surfaces |-> "Synchronized"]
  /\ pending = [s \in Surfaces |-> NewState(s)]
  /\ cached = pending /\ current = pending
  /\ hasCache = [s \in Surfaces |-> FALSE] /\ mapped = hasCache
  /\ open = {} /\ want = [s \in Surfaces |-> <<s>>]
  /\ strayed = {} /\ reparented = {}

-----------------------------------------------------------------------------
HasParent(s) == s \in role /\ parent[s] # NoSurface
Children(s) == {c \in role : parent[c] = s}

\* SubSurfaceInterface::isSynchronized, in the modes md: the surface or an
\* ancestor of it is in synchronized mode.
SynchronizedIn(md) ==
  LET sync[s \in Surfaces] ==
        s \in role /\ (md[s] = "Synchronized" \/ (HasParent(s) /\ sync[parent[s]]))
  IN  sync
Synchronized(s) == SynchronizedIn(mode)[s]

\* SubSurfaceInterface::mainSurface
MainSurface ==
  LET main[s \in Surfaces] == IF HasParent(s) THEN main[parent[s]] ELSE s
  IN  main

\* What is left of a state that was merged into another.
Merged(order) ==
  [isSet |-> FALSE, buffer |-> FALSE, callbacks |-> <<>>, order |-> order, changed |-> FALSE]

\* Mutant: the callbacks of the target are overwritten.
MergeOver(source, target) ==
  [isSet |-> source.isSet \/ target.isSet,
   buffer |-> IF source.isSet THEN source.buffer ELSE target.buffer,
   callbacks |-> source.callbacks,
   order |-> IF source.changed THEN source.order ELSE target.order,
   changed |-> source.changed \/ target.changed]

\* SurfaceState::mergeInto; the callbacks go to the head of the list.
MergeInto(source, target) ==
  [isSet |-> source.isSet \/ target.isSet,
   buffer |-> IF source.isSet THEN source.buffer ELSE target.buffer,
   callbacks |-> source.callbacks \o target.callbacks,
   order |-> IF source.changed THEN source.order ELSE target.order,
   changed |-> source.changed \/ target.changed]

\* The source after mergeInto.
MergeLeaves(source, target) == Merged(MergeInto(source, target).order)

-----------------------------------------------------------------------------
(* applyState of surface s, with the state of next[s].  The surfaces       *)
(* below s in the tree follow, from their caches, as far as the            *)
(* modes of the sub-surfaces on the way are synchronized.                  *)

\* The recursion of applyState, parentCommit and commitFromCache.
AppliedWith(s, md) ==
  LET f[t \in Surfaces] ==
        t = s \/ (HasParent(t) /\ md[t] = "Synchronized" /\ f[parent[t]])
  IN  {t \in Surfaces : f[t]}

\* Mutant: a surface is mapped as soon as it has a buffer.
MappedByBuffer(after, changed) == [t \in Surfaces |-> after[t].buffer]

\* updateEffectiveMapped for the surfaces that gained or lost their buffer,
\* and for the children of those whose flag changes.
MappedAfter(after, changed) ==
  LET m[t \in Surfaces] ==
        IF t \in changed \/ (HasParent(t) /\ m[parent[t]] # mapped[parent[t]])
        THEN after[t].buffer /\ (t \in role => HasParent(t) /\ m[parent[t]])
        ELSE mapped[t]
  IN  m

\* The surfaces of set apply their states of next.
Apply(set, next) ==
  LET new == [t \in Surfaces |->
                IF t \in set THEN [MergeInto(next[t], current[t]) EXCEPT !.isSet = FALSE, !.changed = FALSE]
                ELSE current[t]]
      flipped == {t \in set : next[t].isSet /\ next[t].buffer # current[t].buffer}
      flags == MappedAfter(new, flipped)
  IN  /\ current' = new
      /\ mapped' = flags
      /\ reparented' = {t \in reparented : t \notin flipped /\
                           ~(HasParent(t) /\ flags[parent[t]] # mapped[parent[t]])}

\* The surfaces from s down.
Subtree(s) ==
  LET f[t \in Surfaces] == t = s \/ (HasParent(t) /\ f[parent[t]])
  IN  {t \in Surfaces : f[t]}

\* The caches that are applied are left empty.
AppliedCaches(set, caches) ==
  [t \in Surfaces |-> IF t \in set THEN MergeLeaves(caches[t], current[t]) ELSE caches[t]]
NoCache(set) == [t \in Surfaces |-> hasCache[t] /\ t \notin set]

-----------------------------------------------------------------------------
(* Requests that change the pending state.                                 *)

Attach(s, buffer) ==
  /\ s \in alive
  /\ pending' = [pending EXCEPT ![s].isSet = TRUE, ![s].buffer = buffer]
  /\ UNCHANGED <<tree, cached, current, hasCache, mapped, history>>

Frame(s, c) ==
  /\ s \in alive /\ c \notin open
  /\ pending' = [pending EXCEPT ![s].callbacks = Append(@, c)]
  /\ open' = open \cup {c}
  /\ UNCHANGED <<tree, cached, current, hasCache, mapped, want, strayed, reparented>>

Position(order, s) == CHOOSE i \in DOMAIN order : order[i] = s

\* raiseChild and lowerChild: next to the anchor, a sibling or the parent.
Placed(order, s, anchor, above) ==
  LET rest == RemoveAll(order, s)
  IN  InsertAt(rest, Position(rest, anchor) + (IF above THEN 1 ELSE 0), s)

\* Mutant: the change is not marked.
PlaceUnmarked(s, anchor, above) ==
  /\ HasParent(s) /\ anchor \in ({parent[s]} \cup Children(parent[s])) \ {s}
  /\ LET p == parent[s]
     IN  /\ pending' = [pending EXCEPT ![p].order = Placed(@, s, anchor, above)]
         /\ want' = [want EXCEPT ![p] = Placed(@, s, anchor, above)]
  /\ UNCHANGED <<tree, cached, current, hasCache, mapped, open, strayed, reparented>>

Place(s, anchor, above) ==
  /\ HasParent(s) /\ anchor \in ({parent[s]} \cup Children(parent[s])) \ {s}
  /\ LET p == parent[s]
     IN  /\ pending' = [pending EXCEPT ![p].order = Placed(@, s, anchor, above),
                                       ![p].changed = TRUE]
         /\ want' = [want EXCEPT ![p] = Placed(@, s, anchor, above)]
  /\ UNCHANGED <<tree, cached, current, hasCache, mapped, open, strayed, reparented>>

-----------------------------------------------------------------------------
(* surface_commit.                                                         *)

ToCache(s) == [cached EXCEPT ![s] = MergeInto(pending[s], @)]
PendingLeft(s) == [pending EXCEPT ![s] = MergeLeaves(@, cached[s])]

CommitToCache(s) ==
  /\ s \in alive /\ Synchronized(s)
  /\ cached' = ToCache(s) /\ pending' = PendingLeft(s)
  /\ hasCache' = [hasCache EXCEPT ![s] = TRUE]
  /\ UNCHANGED <<tree, current, mapped, history>>

\* A sub-surface that has become desynchronized adds to what is cached.
CommitThroughCache(s) ==
  /\ s \in alive /\ s \in role /\ ~Synchronized(s) /\ hasCache[s]
  /\ LET set == AppliedWith(s, mode)
     IN  /\ Apply(set, ToCache(s))
         /\ cached' = AppliedCaches(set, ToCache(s))
         /\ pending' = PendingLeft(s)
         /\ hasCache' = NoCache(set)
  /\ UNCHANGED <<tree, open, want, strayed>>

CommitPending(s) ==
  /\ s \in alive /\ ~Synchronized(s) /\ (s \in role => ~hasCache[s])
  /\ LET set == AppliedWith(s, mode)
     IN  /\ Apply(set, [cached EXCEPT ![s] = pending[s]])
         /\ cached' = AppliedCaches(set \ {s}, cached)
         /\ pending' = [pending EXCEPT ![s] = MergeLeaves(@, current[s])]
         /\ hasCache' = NoCache(set \ {s})
  /\ UNCHANGED <<tree, open, want, strayed>>

-----------------------------------------------------------------------------
(* The sub-surface tree.                                                   *)

SetSync(s) ==
  /\ s \in role /\ mode[s] = "Desynchronized"
  /\ mode' = [mode EXCEPT ![s] = "Synchronized"]
  /\ strayed' = strayed \cup {t \in Subtree(s) : Len(want[t]) > 1}
  /\ UNCHANGED <<alive, role, parent, states, open, want, reparented>>

\* Mutant: the cache is applied although an ancestor is synchronized.
SetDesyncAtOnce(s) ==
  /\ s \in role /\ mode[s] = "Synchronized"
  /\ mode' = [mode EXCEPT ![s] = "Desynchronized"]
  /\ LET set == AppliedWith(s, mode')
     IN  Apply(set, cached) /\ cached' = AppliedCaches(set, cached) /\ hasCache' = NoCache(set)
  /\ UNCHANGED <<alive, role, parent, pending, open, want, strayed>>

SetDesync(s) ==
  /\ s \in role /\ mode[s] = "Synchronized"
  /\ mode' = [mode EXCEPT ![s] = "Desynchronized"]
  /\ IF SynchronizedIn(mode')[s]
     THEN UNCHANGED <<states, reparented>>
     ELSE LET set == AppliedWith(s, mode')
          IN  /\ Apply(set, cached)
              /\ cached' = AppliedCaches(set, cached)
              /\ hasCache' = NoCache(set)
              /\ UNCHANGED pending
  /\ UNCHANGED <<alive, role, parent, open, want, strayed>>

\* subcompositor_get_subsurface and addChild; a surface that is an ancestor
\* of the parent is refused.
CreateSubSurface(s, p) ==
  /\ {s, p} \subseteq alive /\ s \notin role /\ s # p /\ MainSurface[p] # s
  /\ role' = role \cup {s} /\ parent' = [parent EXCEPT ![s] = p]
  /\ mode' = [mode EXCEPT ![s] = "Synchronized"]
  /\ pending' = [pending EXCEPT ![p].order = Append(@, s)]
  /\ cached' = [cached EXCEPT ![p].order = Append(@, s)]
  /\ current' = [current EXCEPT ![p].order = Append(@, s)]
  /\ want' = [want EXCEPT ![p] = Append(@, s)]
  /\ strayed' = strayed \cup {t \in Subtree(s) : Len(want[t]) > 1 \/ hasCache[t]}
  /\ reparented' = reparented \cup {t \in {s} : current[t].buffer}
  /\ UNCHANGED <<alive, hasCache, mapped, open>>

\* removeChild
Without(s, st) ==
  [t \in Surfaces |-> IF t = s THEN st[t] ELSE [st[t] EXCEPT !.order = RemoveAll(@, s)]]
WantWithout(s) == [t \in Surfaces |-> IF t = s THEN want[t] ELSE RemoveAll(want[t], s)]

\* ~SubSurfaceInterface
DestroySubSurface(s) ==
  /\ s \in role
  /\ role' = role \ {s} /\ parent' = [parent EXCEPT ![s] = NoSurface]
  /\ pending' = Without(s, pending) /\ cached' = Without(s, cached)
  /\ current' = Without(s, current) /\ want' = WantWithout(s)
  /\ strayed' = strayed \cup {t \in {s} : hasCache[t]}
  /\ reparented' = reparented \cup {t \in {s} : current[t].buffer}
  /\ UNCHANGED <<alive, mode, hasCache, mapped, open>>

\* The callbacks a surface holds.
Held(s) ==
  UNION {ToSet(st[s].callbacks) : st \in {pending, cached, current}}

\* ~SurfaceInterfacePrivate.  The sub-surface of the surface goes with it;
\* its children stay, without a parent.
DestroySurface(s) ==
  /\ s \in alive \ {Root} /\ alive' = alive \ {s} /\ role' = role \ {s}
  /\ parent' = [t \in Surfaces |-> IF s \in {t, parent[t]} THEN NoSurface ELSE parent[t]]
  /\ pending' = [Without(s, pending) EXCEPT ![s] = NewState(s)]
  /\ cached' = [Without(s, cached) EXCEPT ![s] = NewState(s)]
  /\ current' = [Without(s, current) EXCEPT ![s] = NewState(s)]
  /\ hasCache' = [hasCache EXCEPT ![s] = FALSE]
  /\ mapped' = [mapped EXCEPT ![s] = FALSE]
  /\ open' = open \ Held(s)
  /\ want' = [WantWithout(s) EXCEPT ![s] = <<s>>]
  /\ strayed' = strayed \ {s}
  /\ reparented' = (reparented \ {s}) \cup {t \in Children(s) : current[t].buffer}
  /\ UNCHANGED mode

\* A new wl_surface.
CreateSurface(s) ==
  /\ s \notin alive
  /\ alive' = alive \cup {s}
  /\ UNCHANGED <<role, parent, mode, states, history>>

\* SurfaceInterface::frameRendered of the window's surface.
FrameRendered ==
  LET done == UNION {ToSet(current[t].callbacks) : t \in Subtree(Root)}
  IN  /\ done # {}
      /\ current' = [t \in Surfaces |->
                       IF t \in Subtree(Root) THEN [current[t] EXCEPT !.callbacks = <<>>]
                       ELSE current[t]]
      /\ open' = open \ done
      /\ UNCHANGED <<tree, pending, cached, hasCache, mapped, want, strayed, reparented>>

-----------------------------------------------------------------------------
Next ==
  \/ \E s \in Surfaces :
       \/ \E b \in BOOLEAN : Attach(s, b)
       \/ \E c \in Callbacks : Frame(s, c)
       \/ \E t \in Surfaces, above \in BOOLEAN : Place(s, t, above)
       \/ CommitToCache(s)
       \/ CommitThroughCache(s)
       \/ CommitPending(s)
       \/ SetSync(s)
       \/ SetDesync(s)
       \/ \E p \in Surfaces : <<s, p>> \in Links /\ CreateSubSurface(s, p)
       \/ DestroySubSurface(s)
       \/ DestroySurface(s)
       \/ CreateSurface(s)
  \/ FrameRendered

Spec == Init /\ [][Next]_vars

-----------------------------------------------------------------------------
(***************************************************************************)
(* Properties.                                                             *)
(***************************************************************************)

\* Every frame callback is in exactly one of the lists until it is answered
\* or its surface is destroyed: none is lost or answered twice, however
\* often states are merged.
CallbacksOnce ==
  \A c \in Callbacks :
     LET places == {x \in Surfaces \X {1, 2, 3} :
                      Contains(<<pending, cached, current>>[x[2]][x[1]].callbacks, c)}
     IN  Cardinality(places) = IF c \in open THEN 1 ELSE 0

\* The order that place requests are relative to is the one the client has
\* built up, and once nothing of it is pending or cached it is the order
\* that is shown.  Surfaces that were made synchronized again are exempt:
\* their pending order is reset from a cache that missed the commits made in
\* between; so are those that lost their sub-surface and with it their cache.
StackingAsAsked ==
  \A s \in alive \ strayed :
     /\ pending[s].order = want[s]
     /\ ~pending[s].changed /\ ~cached[s].changed => current[s].order = want[s]

\* What the documentation of isMapped says: a surface is mapped if it has a
\* buffer and, being a sub-surface, a mapped parent; through every order of
\* commits in the tree.  Surfaces that became or ceased to be sub-surfaces,
\* or lost their parent, while they had a buffer are exempt until their flag
\* is next computed.
MappedTracksTree ==
  \A s \in alive \ reparented :
     mapped[s] <=> current[s].buffer /\ (s \in role => HasParent(s) /\ mapped[parent[s]])

Ancestors(s) == {a \in Surfaces \ {s} : s \in Subtree(a)}

\* What a synchronized sub-surface shows changes only together with an
\* ancestor, by the ancestor's commit or its leaving the synchronized mode,
\* or when it ceases to be synchronized itself.
SyncedWithParent ==
  [][\A s \in role :
       Synchronized(s) /\ s \in alive' /\ current'[s].buffer # current[s].buffer =>
          \/ \E a \in Ancestors(s) : CommitPending(a) \/ CommitThroughCache(a) \/ SetDesync(a)
          \/ SetDesync(s) /\ ~SynchronizedIn(mode')[s]]_vars
=============================================================================
