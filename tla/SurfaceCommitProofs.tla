------------------------- MODULE SurfaceCommitProofs -------------------------
(***************************************************************************)
(* Proofs about SurfaceCommit, for any set of surfaces, any sub-surfaces   *)
(* the client may make of them and any set of callbacks: every frame       *)
(* callback is in one list, the mapped flags say what they should, a       *)
(* synchronized sub-surface changes with an ancestor, and the stacking     *)
(* orders are those the client asked for.                                  *)
(*                                                                         *)
(* The operators that follow the tree are recursive functions.  That they  *)
(* are what their equations say is proved from the tree being a forest of  *)
(* bounded depth, which is part of the invariant.                          *)
(***************************************************************************)
EXTENDS SurfaceCommit, FiniteSetTheorems, SequenceTheorems, WellFoundedInduction, TLAPS

\* A set of naturals that is not empty has a least element.
LEMMA LeastNat ==
  ASSUME NEW A \in SUBSET Nat, NEW k \in A
  PROVE  \E n \in A : \A j \in A : n <= j
<1> DEFINE R == {ss \in Nat \X Nat : ss[1] < ss[2]}
<1>1. IsWellFoundedOn(R, Nat)
  BY NatLessThanWellFounded DEF OpToRel
<1>2. PICK n \in A : \A j \in A : ~(<<j, n>> \in R)
  BY <1>1, WFMin, Zenon
<1>3. ASSUME NEW j \in A PROVE n <= j
  <2>1. j \in Nat /\ n \in Nat /\ ~(<<j, n>> \in R)
    BY <1>2
  <2>2. <<j, n>> \in Nat \X Nat /\ <<j, n>>[1] = j /\ <<j, n>>[2] = n
    BY <2>1
  <2>3. ~(j < n)
    BY <2>1, <2>2
  <2>4. QED
    BY <2>1, <2>3
<1>4. QED
  BY <1>3

\* f is the function into V that is B at the roots and G of the parent's value
\* at the surfaces of H.
Computes(f, S, H, p, V, G, B) ==
  /\ f \in [S -> V]
  /\ \A t \in S : f[t] = IF t \in H THEN G[<<t, f[p[t]]>>] ELSE B[t]

\* A function that is defined at the sons from its value at their parent
\* exists: the depth of the tree is bounded.
LEMMA TreeRecursion ==
  ASSUME NEW S, NEW H \in SUBSET S, NEW p, \A t \in H : p[t] \in S,
         NEW N \in Nat, NEW d \in [S -> 0..N], \A t \in H : d[p[t]] < d[t],
         NEW V, NEW G \in [S \X V -> V], NEW B \in [S -> V]
  PROVE  \E f : Computes(f, S, H, p, V, G, B)
<1> DEFINE Step(f, t) == IF t \in H THEN G[<<t, f[p[t]]>>] ELSE B[t]
           UpTo(n) == \E f \in [S -> V] : \A t \in S : d[t] <= n => f[t] = Step(f, t)
<1>1. UpTo(0)
  <2>1. \A t \in S : d[t] <= 0 => t \notin H
    OBVIOUS
  <2>2. \A t \in S : d[t] <= 0 => B[t] = Step(B, t)
    BY <2>1
  <2>3. QED
    BY <2>2
<1>2. ASSUME NEW n \in Nat, UpTo(n) PROVE UpTo(n + 1)
  <2>1. PICK f \in [S -> V] : \A t \in S : d[t] <= n => f[t] = Step(f, t)
    BY <1>2
  <2> DEFINE g == [t \in S |-> Step(f, t)]
  <2>2. g \in [S -> V]
    <3>1. \A t \in S : Step(f, t) \in V
      OBVIOUS
    <3> HIDE DEF Step
    <3>2. QED
      BY <3>1
  <2>3. ASSUME NEW t \in S, d[t] <= n + 1, t \in H PROVE g[p[t]] = f[p[t]]
    <3>1. p[t] \in S /\ d[p[t]] <= n
      BY <2>3
    <3>2. f[p[t]] = Step(f, p[t])
      BY <3>1, <2>1
    <3>3. g[p[t]] = Step(f, p[t])
      BY <3>1
    <3>4. QED
      BY <3>2, <3>3
  <2>4. ASSUME NEW t \in S, d[t] <= n + 1 PROVE g[t] = Step(g, t)
    <3>1. g[t] = Step(f, t)
      OBVIOUS
    <3>2. CASE t \in H
      <4>1. g[p[t]] = f[p[t]]
        BY <2>3, <2>4, <3>2
      <4> HIDE DEF g
      <4>2. QED
        BY <4>1, <3>1, <3>2
    <3>3. CASE t \notin H
      <4> HIDE DEF g
      <4>1. QED
        BY <3>1, <3>3
    <3>4. QED
      BY <3>2, <3>3
  <2> HIDE DEF g
  <2>5. QED
    BY <2>2, <2>4
<1>3. UpTo(N)
  <2>1. SUFFICES ASSUME ~UpTo(N) PROVE FALSE
    OBVIOUS
  <2> DEFINE A == {n \in Nat : ~UpTo(n)}
  <2> HIDE DEF UpTo
  <2>2. N \in A
    BY <2>1
  <2>3. PICK n \in A : \A j \in A : n <= j
    BY <2>2, LeastNat
  <2>4. n # 0
    BY <2>3, <1>1
  <2>5. n - 1 \in Nat /\ ~(n - 1 \in A)
    BY <2>3, <2>4
  <2>6. UpTo(n - 1)
    BY <2>5
  <2>7. UpTo((n - 1) + 1)
    BY <2>5, <2>6, <1>2
  <2>8. (n - 1) + 1 = n
    BY <2>5
  <2>9. QED
    BY <2>7, <2>8, <2>3
<1>4. PICK f \in [S -> V] : \A t \in S : d[t] <= N => f[t] = Step(f, t)
  BY <1>3
<1>5. \A t \in S : d[t] <= N
  OBVIOUS
<1>6. QED
  BY <1>4, <1>5 DEF Computes

-----------------------------------------------------------------------------
(* The tree of sub-surfaces.                                               *)

\* The parents of the surfaces make a tree of bounded depth.
Forest ==
  \E N \in Nat : \E d \in [Surfaces -> 0..N] :
     \A t \in Surfaces : HasParent(t) => parent[t] \in Surfaces /\ d[parent[t]] < d[t]

WithParent == {t \in Surfaces : HasParent(t)}

\* What is defined from the parent's value is defined.
LEMMA Recursion ==
  ASSUME Forest, NEW V, NEW G \in [Surfaces \X V -> V], NEW B \in [Surfaces -> V]
  PROVE  \E f : Computes(f, Surfaces, WithParent, parent, V, G, B)
<1> DEFINE H == WithParent
<1>1. PICK N \in Nat : \E d \in [Surfaces -> 0..N] :
          \A t \in Surfaces : HasParent(t) => parent[t] \in Surfaces /\ d[parent[t]] < d[t]
  BY DEF Forest
<1>2. PICK d \in [Surfaces -> 0..N] :
          \A t \in Surfaces : HasParent(t) => parent[t] \in Surfaces /\ d[parent[t]] < d[t]
  BY <1>1
<1>3. /\ H \in SUBSET Surfaces
      /\ \A t \in H : parent[t] \in Surfaces
      /\ \A t \in H : d[parent[t]] < d[t]
  BY <1>2 DEF WithParent
<1>4. \E f : Computes(f, Surfaces, H, parent, V, G, B)
  <2> HIDE DEF H
  <2>1. QED
    BY <1>3, TreeRecursion, Zenon
<1>5. QED
  BY <1>4 DEF WithParent

\* What MappedAfter computes at a surface.
MappedStep(m, t, after, changed) ==
  IF t \in changed \/ (HasParent(t) /\ m[parent[t]] # mapped[parent[t]])
  THEN after[t].buffer /\ (t \in role => HasParent(t) /\ m[parent[t]])
  ELSE mapped[t]

\* MappedAfter satisfies its definition.
LEMMA MappedUnfolds ==
  ASSUME Forest, NEW after, NEW changed, mapped \in [Surfaces -> BOOLEAN],
         \A t \in Surfaces : after[t].buffer \in BOOLEAN
  PROVE  /\ MappedAfter(after, changed) \in [Surfaces -> BOOLEAN]
         /\ \A t \in Surfaces : MappedAfter(after, changed)[t]
                                  = MappedStep(MappedAfter(after, changed), t, after, changed)
<1> DEFINE G == [x \in Surfaces \X BOOLEAN |->
                   IF x[1] \in changed \/ x[2] # mapped[parent[x[1]]]
                   THEN after[x[1]].buffer /\ (x[1] \in role => x[2])
                   ELSE mapped[x[1]]]
           B == [t \in Surfaces |-> IF t \in changed THEN after[t].buffer /\ t \notin role ELSE mapped[t]]
<1>1. G \in [Surfaces \X BOOLEAN -> BOOLEAN] /\ B \in [Surfaces -> BOOLEAN]
  <2>1. ASSUME NEW x \in Surfaces \X BOOLEAN PROVE G[x] \in BOOLEAN
    OBVIOUS
  <2>2. QED
    BY <2>1
<1>2. PICK f \in [Surfaces -> BOOLEAN] :
        \A t \in Surfaces : f[t] = IF HasParent(t) THEN G[<<t, f[parent[t]]>>] ELSE B[t]
  <2> HIDE DEF G, B
  <2>1. PICK f : Computes(f, Surfaces, WithParent, parent, BOOLEAN, G, B)
    BY <1>1, Recursion, Zenon
  <2>2. QED
    BY <2>1 DEF Computes, WithParent
<1>p. \A t \in Surfaces : HasParent(t) => parent[t] \in Surfaces
  BY DEF Forest
<1>3. ASSUME NEW t \in Surfaces PROVE f[t] = MappedStep(f, t, after, changed)
  <2>1. CASE HasParent(t)
    <3>1. f[t] = G[<<t, f[parent[t]]>>] /\ f[parent[t]] \in BOOLEAN
      BY <1>2, <1>p, <2>1
    <3>2. G[<<t, f[parent[t]]>>] = MappedStep(f, t, after, changed)
      <4>1. DEFINE b == f[parent[t]]
      <4>2. b \in BOOLEAN
        BY <3>1
      <4> HIDE DEF b
      <4>3. <<t, b>> \in Surfaces \X BOOLEAN
        BY <4>2
      <4>4. G[<<t, b>>] = IF t \in changed \/ b # mapped[parent[t]]
                          THEN after[t].buffer /\ (t \in role => b)
                          ELSE mapped[t]
        BY <4>3
      <4>5. QED
        BY <4>4, <2>1 DEF b, MappedStep
    <3>3. QED
      BY <3>1, <3>2
  <2>2. CASE ~HasParent(t)
    <3>1. f[t] = B[t]
      BY <1>2, <2>2
    <3>2. QED
      BY <3>1, <2>2 DEF MappedStep
  <2>3. QED
    BY <2>1, <2>2
<1> DEFINE m[t \in Surfaces] ==
        IF t \in changed \/ (HasParent(t) /\ m[parent[t]] # mapped[parent[t]])
        THEN after[t].buffer /\ (t \in role => HasParent(t) /\ m[parent[t]])
        ELSE mapped[t]
<1>4. f = [t \in Surfaces |->
        IF t \in changed \/ (HasParent(t) /\ f[parent[t]] # mapped[parent[t]])
        THEN after[t].buffer /\ (t \in role => HasParent(t) /\ f[parent[t]])
        ELSE mapped[t]]
  BY <1>3 DEF MappedStep
<1>5. m = [t \in Surfaces |->
        IF t \in changed \/ (HasParent(t) /\ m[parent[t]] # mapped[parent[t]])
        THEN after[t].buffer /\ (t \in role => HasParent(t) /\ m[parent[t]])
        ELSE mapped[t]]
  BY <1>4, Zenon
<1>6. MappedAfter(after, changed) = m
  BY Zenon DEF MappedAfter
<1> HIDE DEF m
<1>7. QED
  BY <1>5, <1>6 DEF MappedStep

\* f tells the surfaces of base and those that are linked to them through
\* surfaces of via.
Reaches(f, base, via) ==
  /\ f \in [Surfaces -> BOOLEAN]
  /\ \A t \in Surfaces : f[t] = (t \in base \/ (HasParent(t) /\ t \in via /\ f[parent[t]]))

\* There is such a function.
LEMMA Reaching ==
  ASSUME Forest, NEW base, NEW via
  PROVE  \E f : Reaches(f, base, via)
<1> DEFINE G == [x \in Surfaces \X BOOLEAN |-> x[1] \in base \/ (x[1] \in via /\ x[2])]
           B == [t \in Surfaces |-> t \in base]
<1>1. G \in [Surfaces \X BOOLEAN -> BOOLEAN] /\ B \in [Surfaces -> BOOLEAN]
  OBVIOUS
<1>2. PICK f \in [Surfaces -> BOOLEAN] :
        \A t \in Surfaces : f[t] = IF HasParent(t) THEN G[<<t, f[parent[t]]>>] ELSE B[t]
  <2> HIDE DEF G, B
  <2>1. PICK f : Computes(f, Surfaces, WithParent, parent, BOOLEAN, G, B)
    BY <1>1, Recursion, Zenon
  <2>2. QED
    BY <2>1 DEF Computes, WithParent
<1>3. \A t \in Surfaces : HasParent(t) => parent[t] \in Surfaces
  BY DEF Forest
<1>4. ASSUME NEW t \in Surfaces
      PROVE  f[t] = (t \in base \/ (HasParent(t) /\ t \in via /\ f[parent[t]]))
  <2>1. CASE HasParent(t)
    <3>1. f[t] = G[<<t, f[parent[t]]>>] /\ f[parent[t]] \in BOOLEAN
      BY <1>2, <1>3, <2>1
    <3>2. G[<<t, f[parent[t]]>>] = (t \in base \/ (t \in via /\ f[parent[t]]))
      BY <3>1
    <3>3. QED
      BY <3>1, <3>2, <2>1
  <2>2. CASE ~HasParent(t)
    <3>1. f[t] = B[t]
      BY <1>2, <2>2
    <3>2. QED
      BY <3>1, <2>2
  <2>3. QED
    BY <2>1, <2>2
<1>5. QED
  BY <1>4 DEF Reaches

\* The surfaces that apply their states with s.
LEMMA AppliedUnfolds ==
  ASSUME Forest, NEW s \in Surfaces, NEW md
  PROVE  /\ AppliedWith(s, md) \in SUBSET Surfaces
         /\ s \in AppliedWith(s, md)
         /\ \A t \in Surfaces \ {s} : t \in AppliedWith(s, md) <=>
               HasParent(t) /\ md[t] = "Synchronized" /\ parent[t] \in AppliedWith(s, md)
<1> DEFINE via == {q \in Surfaces : md[q] = "Synchronized"}
<1>1. PICK g : Reaches(g, {s}, via)
  <2> HIDE DEF via
  <2>1. QED
    BY Reaching, Zenon
<1> DEFINE f[t \in Surfaces] ==
        t = s \/ (HasParent(t) /\ md[t] = "Synchronized" /\ f[parent[t]])
<1>2. g = [t \in Surfaces |-> t = s \/ (HasParent(t) /\ md[t] = "Synchronized" /\ g[parent[t]])]
  BY <1>1 DEF Reaches
<1>3. f = [t \in Surfaces |-> t = s \/ (HasParent(t) /\ md[t] = "Synchronized" /\ f[parent[t]])]
  BY <1>2, Zenon
<1>4. AppliedWith(s, md) = {t \in Surfaces : f[t]}
  BY Zenon DEF AppliedWith
<1>5. \A t \in Surfaces : HasParent(t) => parent[t] \in Surfaces
  BY DEF Forest
<1> HIDE DEF f
<1>6. QED
  BY <1>3, <1>4, <1>5

\* The surfaces from s down.
LEMMA SubtreeUnfolds ==
  ASSUME Forest, NEW s \in Surfaces
  PROVE  /\ Subtree(s) \in SUBSET Surfaces
         /\ s \in Subtree(s)
         /\ \A t \in Surfaces \ {s} : t \in Subtree(s) <=> HasParent(t) /\ parent[t] \in Subtree(s)
<1>1. PICK g : Reaches(g, {s}, Surfaces)
  BY Reaching, Zenon
<1> DEFINE f[t \in Surfaces] == t = s \/ (HasParent(t) /\ f[parent[t]])
<1>2. g = [t \in Surfaces |-> t = s \/ (HasParent(t) /\ g[parent[t]])]
  BY <1>1 DEF Reaches
<1>3. f = [t \in Surfaces |-> t = s \/ (HasParent(t) /\ f[parent[t]])]
  BY <1>2, Zenon
<1>4. Subtree(s) = {t \in Surfaces : f[t]}
  BY Zenon DEF Subtree
<1>5. \A t \in Surfaces : HasParent(t) => parent[t] \in Surfaces
  BY DEF Forest
<1> HIDE DEF f
<1>6. QED
  BY <1>3, <1>4, <1>5

\* A sub-surface is synchronized by its own mode or by its parent's being so.
LEMMA SynchronizedUnfolds ==
  ASSUME Forest, NEW md
  PROVE  /\ SynchronizedIn(md) \in [Surfaces -> BOOLEAN]
         /\ \A t \in Surfaces : SynchronizedIn(md)[t] <=>
               t \in role /\ (md[t] = "Synchronized" \/ (HasParent(t) /\ SynchronizedIn(md)[parent[t]]))
<1> DEFINE base == {q \in role : md[q] = "Synchronized"}
<1>1. PICK g : Reaches(g, base, role)
  <2> HIDE DEF base
  <2>1. QED
    BY Reaching, Zenon
<1> DEFINE sync[s \in Surfaces] ==
        s \in role /\ (md[s] = "Synchronized" \/ (HasParent(s) /\ sync[parent[s]]))
<1>2. g = [s \in Surfaces |->
        s \in role /\ (md[s] = "Synchronized" \/ (HasParent(s) /\ g[parent[s]]))]
  BY <1>1 DEF Reaches
<1>3. sync = [s \in Surfaces |->
        s \in role /\ (md[s] = "Synchronized" \/ (HasParent(s) /\ sync[parent[s]]))]
  BY <1>2, Zenon
<1>4. SynchronizedIn(md) = sync
  BY Zenon DEF SynchronizedIn
<1> HIDE DEF sync
<1>5. QED
  BY <1>3, <1>4

\* The main surface of a surface is that of its parent.
LEMMA MainUnfolds ==
  ASSUME Forest
  PROVE  \A t \in Surfaces : MainSurface[t] = IF HasParent(t) THEN MainSurface[parent[t]] ELSE t
<1> DEFINE G == [x \in Surfaces \X Surfaces |-> x[2]]
           B == [t \in Surfaces |-> t]
<1>1. G \in [Surfaces \X Surfaces -> Surfaces] /\ B \in [Surfaces -> Surfaces]
  OBVIOUS
<1>2. PICK g \in [Surfaces -> Surfaces] :
        \A t \in Surfaces : g[t] = IF HasParent(t) THEN G[<<t, g[parent[t]]>>] ELSE B[t]
  <2> HIDE DEF G, B
  <2>1. PICK f : Computes(f, Surfaces, WithParent, parent, Surfaces, G, B)
    BY <1>1, Recursion, Zenon
  <2>2. QED
    BY <2>1 DEF Computes, WithParent
<1>3. \A t \in Surfaces : HasParent(t) => parent[t] \in Surfaces
  BY DEF Forest
<1>4. g = [t \in Surfaces |-> IF HasParent(t) THEN g[parent[t]] ELSE t]
  <2>1. \A t \in Surfaces : HasParent(t) => G[<<t, g[parent[t]]>>] = g[parent[t]]
    BY <1>2, <1>3
  <2>2. \A t \in Surfaces : B[t] = t
    OBVIOUS
  <2> HIDE DEF G, B
  <2>3. QED
    BY <1>2, <2>1, <2>2
<1> DEFINE main[s \in Surfaces] == IF HasParent(s) THEN main[parent[s]] ELSE s
<1>5. main = [s \in Surfaces |-> IF HasParent(s) THEN main[parent[s]] ELSE s]
  BY <1>4, Zenon
<1>6. MainSurface = main
  BY Zenon DEF MainSurface
<1> HIDE DEF main
<1>7. QED
  BY <1>5, <1>6

-----------------------------------------------------------------------------
(* The three states of a surface.  Nothing is said of what an order is.    *)

IsState(r) ==
  /\ DOMAIN r = {"isSet", "buffer", "callbacks", "order", "changed"}
  /\ r.isSet \in BOOLEAN /\ r.buffer \in BOOLEAN /\ r.changed \in BOOLEAN
  /\ r.callbacks \in Seq(Callbacks)

AreStates(st) == DOMAIN st = Surfaces /\ \A t \in Surfaces : IsState(st[t])

\* A new state is one.
LEMMA NewIsState ==
  ASSUME NEW s
  PROVE  IsState(NewState(s)) /\ IsState(Merged(s))
BY DEF IsState, NewState, Merged

\* What mergeInto leaves in the target is a state.
LEMMA MergedIsState ==
  ASSUME NEW r, NEW q, IsState(r), IsState(q)
  PROVE  IsState(MergeInto(r, q)) /\ IsState(MergeLeaves(r, q))
<1>1. r.callbacks \o q.callbacks \in Seq(Callbacks)
  BY DEF IsState
<1>2. IsState(MergeInto(r, q))
  BY <1>1 DEF IsState, MergeInto
<1>3. QED
  BY <1>2, NewIsState DEF MergeLeaves

\* Changing one member leaves the others alone.
LEMMA MemberChanges ==
  ASSUME NEW r, IsState(r), NEW x
  PROVE  /\ LET q == [r EXCEPT !.order = x]
            IN  /\ IsState(q) /\ q.order = x
                /\ q.isSet = r.isSet /\ q.buffer = r.buffer /\ q.callbacks = r.callbacks
                /\ q.changed = r.changed
         /\ x \in Seq(Callbacks) =>
              LET q == [r EXCEPT !.callbacks = x]
              IN  /\ IsState(q) /\ q.callbacks = x
                  /\ q.isSet = r.isSet /\ q.buffer = r.buffer /\ q.order = r.order
                  /\ q.changed = r.changed
         /\ LET q == [r EXCEPT !.order = x, !.changed = TRUE]
            IN  /\ IsState(q) /\ q.order = x /\ q.changed = TRUE
                /\ q.isSet = r.isSet /\ q.buffer = r.buffer /\ q.callbacks = r.callbacks
         /\ LET q == [r EXCEPT !.isSet = FALSE, !.changed = FALSE]
            IN  /\ IsState(q) /\ q.isSet = FALSE /\ q.changed = FALSE
                /\ q.buffer = r.buffer /\ q.callbacks = r.callbacks /\ q.order = r.order
         /\ x \in BOOLEAN =>
              LET q == [r EXCEPT !.isSet = TRUE, !.buffer = x]
              IN  /\ IsState(q) /\ q.isSet = TRUE /\ q.buffer = x
                  /\ q.callbacks = r.callbacks /\ q.order = r.order /\ q.changed = r.changed
BY DEF IsState

-----------------------------------------------------------------------------
(* The tree stays a tree.                                                  *)

Modes == {"Synchronized", "Desynchronized"}

TreeInv ==
  /\ alive \in SUBSET Surfaces /\ role \in SUBSET alive
  /\ parent \in [Surfaces -> Surfaces \cup {NoSurface}]
  /\ mode \in [Surfaces -> Modes]
  /\ Forest

\* A forest that loses links is one.
LEMMA ForestShrinks ==
  ASSUME Forest, \A t \in Surfaces : HasParent(t)' => HasParent(t) /\ parent'[t] = parent[t]
  PROVE  Forest'
<1>1. PICK N \in Nat : \E d \in [Surfaces -> 0..N] :
          \A t \in Surfaces : HasParent(t) => parent[t] \in Surfaces /\ d[parent[t]] < d[t]
  BY DEF Forest
<1>2. PICK d \in [Surfaces -> 0..N] :
          \A t \in Surfaces : HasParent(t) => parent[t] \in Surfaces /\ d[parent[t]] < d[t]
  BY <1>1
<1>3. \A t \in Surfaces : HasParent(t)' => parent'[t] \in Surfaces /\ d[parent'[t]] < d[t]
  BY <1>2
<1>4. QED
  BY <1>3 DEF Forest

\* A surface that is made a sub-surface is a root, and its new parent is of
\* another tree.
LEMMA ForestGrows ==
  ASSUME TreeInv, NEW s \in Surfaces, NEW p \in Surfaces, CreateSubSurface(s, p)
  PROVE  Forest'
<1>1. PICK N \in Nat : \E d \in [Surfaces -> 0..N] :
          \A t \in Surfaces : HasParent(t) => parent[t] \in Surfaces /\ d[parent[t]] < d[t]
  BY DEF TreeInv, Forest
<1>2. PICK d \in [Surfaces -> 0..N] :
          \A t \in Surfaces : HasParent(t) => parent[t] \in Surfaces /\ d[parent[t]] < d[t]
  BY <1>1
<1>3. /\ s \notin role /\ MainSurface[p] # s
      /\ role' = role \cup {s} /\ parent' = [parent EXCEPT ![s] = p]
  BY DEF CreateSubSurface
<1>4. \A t \in Surfaces : MainSurface[t] = IF HasParent(t) THEN MainSurface[parent[t]] ELSE t
  BY MainUnfolds DEF TreeInv
<1> DEFINE e == [t \in Surfaces |-> IF MainSurface[t] = s THEN d[t] + N + 1 ELSE d[t]]
           M == N + N + 1
<1>5. M \in Nat /\ e \in [Surfaces -> 0..M]
  OBVIOUS
<1>6. ASSUME NEW t \in Surfaces, HasParent(t)'
      PROVE  parent'[t] \in Surfaces /\ e[parent'[t]] < e[t]
  <2>1. CASE t = s
    <3>1. parent'[t] = p
      BY <2>1, <1>3 DEF TreeInv
    <3>2. ~HasParent(s)
      BY <1>3 DEF HasParent
    <3>3. MainSurface[s] = s
      BY <3>2, <1>4
    <3>4. e[p] = d[p] /\ e[s] = d[s] + N + 1
      BY <3>3, <1>3
    <3>5. d[p] \in 0..N /\ d[s] \in 0..N
      OBVIOUS
    <3> HIDE DEF e
    <3>6. QED
      BY <3>1, <3>4, <3>5, <2>1
  <2>2. CASE t # s
    <3>1. parent'[t] = parent[t] /\ HasParent(t)
      BY <1>6, <2>2, <1>3 DEF HasParent, TreeInv
    <3>2. parent[t] \in Surfaces /\ d[parent[t]] < d[t] /\ MainSurface[t] = MainSurface[parent[t]]
      BY <3>1, <1>2, <1>4
    <3>3. d[parent[t]] \in 0..N /\ d[t] \in 0..N
      BY <3>2
    <3>4. e[parent[t]] < e[t]
      BY <3>2, <3>3
    <3>5. QED
      BY <3>1, <3>2, <3>4
  <2>3. QED
    BY <2>1, <2>2
<1> HIDE DEF e, M
<1>7. QED
  BY <1>5, <1>6 DEF Forest

\* Every step keeps the tree a tree.
LEMMA TreeKept ==
  ASSUME TreeInv, [Next]_vars
  PROVE  TreeInv'
<1>1. ASSUME UNCHANGED <<alive, role, parent>>, mode' \in [Surfaces -> Modes] PROVE TreeInv'
  <2>1. Forest'
    BY <1>1, ForestShrinks DEF TreeInv, HasParent
  <2>2. QED
    BY <1>1, <2>1 DEF TreeInv
<1>2. ASSUME UNCHANGED tree PROVE TreeInv'
  BY <1>1, <1>2 DEF tree, TreeInv
<1>3. CASE UNCHANGED vars
  BY <1>2, <1>3 DEF vars
<1>4. CASE FrameRendered
  BY <1>2, <1>4 DEF FrameRendered
<1>5. ASSUME NEW s \in Surfaces, NEW b \in BOOLEAN, Attach(s, b) PROVE TreeInv'
  BY <1>2, <1>5 DEF Attach
<1>6. ASSUME NEW s \in Surfaces, NEW c \in Callbacks, Frame(s, c) PROVE TreeInv'
  BY <1>2, <1>6 DEF Frame
<1>7. ASSUME NEW s \in Surfaces, NEW t \in Surfaces, NEW above \in BOOLEAN, Place(s, t, above) PROVE TreeInv'
  BY <1>2, <1>7 DEF Place
<1>8. ASSUME NEW s \in Surfaces, CommitToCache(s) PROVE TreeInv'
  BY <1>2, <1>8 DEF CommitToCache
<1>9. ASSUME NEW s \in Surfaces, CommitThroughCache(s) PROVE TreeInv'
  BY <1>2, <1>9 DEF CommitThroughCache
<1>10. ASSUME NEW s \in Surfaces, CommitPending(s) PROVE TreeInv'
  BY <1>2, <1>10 DEF CommitPending
<1>11. ASSUME NEW s \in Surfaces, SetSync(s) PROVE TreeInv'
  <2>1. mode' \in [Surfaces -> Modes] /\ UNCHANGED <<alive, role, parent>>
    BY <1>11 DEF SetSync, TreeInv, Modes
  <2>2. QED
    BY <1>1, <2>1
<1>12. ASSUME NEW s \in Surfaces, SetDesync(s) PROVE TreeInv'
  <2>1. mode' \in [Surfaces -> Modes] /\ UNCHANGED <<alive, role, parent>>
    BY <1>12 DEF SetDesync, TreeInv, Modes
  <2>2. QED
    BY <1>1, <2>1
<1>13. ASSUME NEW s \in Surfaces, NEW p \in Surfaces, CreateSubSurface(s, p) PROVE TreeInv'
  <2>1. Forest'
    BY <1>13, ForestGrows
  <2>2. QED
    BY <1>13, <2>1 DEF CreateSubSurface, TreeInv, Modes
<1>14. ASSUME NEW s \in Surfaces, DestroySubSurface(s) PROVE TreeInv'
  <2>1. role' = role \ {s} /\ parent' = [parent EXCEPT ![s] = NoSurface] /\ UNCHANGED <<alive, mode>>
    BY <1>14 DEF DestroySubSurface
  <2>2. Forest'
    BY <2>1, ForestShrinks DEF TreeInv, HasParent
  <2>3. QED
    BY <2>1, <2>2 DEF TreeInv
<1>15. ASSUME NEW s \in Surfaces, DestroySurface(s) PROVE TreeInv'
  <2>1. /\ alive' = alive \ {s} /\ role' = role \ {s} /\ mode' = mode
        /\ parent' = [t \in Surfaces |-> IF s \in {t, parent[t]} THEN NoSurface ELSE parent[t]]
    BY <1>15 DEF DestroySurface
  <2>2. Forest'
    BY <2>1, ForestShrinks DEF TreeInv, HasParent
  <2>3. QED
    BY <2>1, <2>2 DEF TreeInv
<1>16. ASSUME NEW s \in Surfaces, CreateSurface(s) PROVE TreeInv'
  <2>1. alive' = alive \cup {s} /\ UNCHANGED <<role, parent, mode>>
    BY <1>16 DEF CreateSurface
  <2>2. Forest'
    BY <2>1, ForestShrinks DEF TreeInv, HasParent
  <2>3. QED
    BY <2>1, <2>2 DEF TreeInv
<1>17. QED
  BY <1>3, <1>4, <1>5, <1>6, <1>7, <1>8, <1>9, <1>10, <1>11, <1>12, <1>13, <1>14, <1>15, <1>16
     DEF Next

-----------------------------------------------------------------------------
(* What the operations do to the states.                                   *)

StatesInv ==
  /\ AreStates(pending) /\ AreStates(cached) /\ AreStates(current)
  /\ hasCache \in [Surfaces -> BOOLEAN] /\ mapped \in [Surfaces -> BOOLEAN]

\* The callbacks every surface has in a state.
Of(st) == [t \in Surfaces |-> ToSet(st[t].callbacks)]

\* The elements of the sequences that occur.
LEMMA Elements ==
  ASSUME NEW S
  PROVE  /\ ToSet(<<>>) = {}
         /\ \A q \in Seq(S) : \A x : x \in ToSet(q) <=> Contains(q, x)
         /\ \A q \in Seq(S) : \A x \in S : ToSet(Append(q, x)) = ToSet(q) \cup {x}
         /\ \A q, r \in Seq(S) : ToSet(q \o r) = ToSet(q) \cup ToSet(r)
<1>1. ToSet(<<>>) = {}
  BY DEF ToSet
<1>2. ASSUME NEW q \in Seq(S), NEW x PROVE x \in ToSet(q) <=> Contains(q, x)
  BY DEF ToSet, Contains
<1>3. ASSUME NEW q \in Seq(S), NEW x \in S PROVE ToSet(Append(q, x)) = ToSet(q) \cup {x}
  <2>1. /\ DOMAIN q = 1..Len(q) /\ Len(q) \in Nat
        /\ DOMAIN Append(q, x) = 1..(Len(q) + 1)
        /\ Append(q, x)[Len(q) + 1] = x /\ \A i \in 1..Len(q) : Append(q, x)[i] = q[i]
    OBVIOUS
  <2>2. QED
    BY <2>1 DEF ToSet
<1>4. ASSUME NEW q \in Seq(S), NEW r \in Seq(S) PROVE ToSet(q \o r) = ToSet(q) \cup ToSet(r)
  <2>1. /\ DOMAIN q = 1..Len(q) /\ Len(q) \in Nat /\ DOMAIN r = 1..Len(r) /\ Len(r) \in Nat
        /\ DOMAIN (q \o r) = 1..(Len(q) + Len(r))
        /\ \A i \in 1..Len(q) : (q \o r)[i] = q[i]
        /\ \A i \in 1..Len(r) : (q \o r)[Len(q) + i] = r[i]
    OBVIOUS
  <2>2. \A i \in 1..(Len(q) + Len(r)) : i \in 1..Len(q) \/ \E j \in 1..Len(r) : i = Len(q) + j
    <3>1. ASSUME NEW i \in 1..(Len(q) + Len(r)), i \notin 1..Len(q)
          PROVE  i - Len(q) \in 1..Len(r) /\ i = Len(q) + (i - Len(q))
      BY <2>1, <3>1
    <3>2. QED
      BY <3>1
  <2>3. ASSUME NEW x \in ToSet(q \o r) PROVE x \in ToSet(q) \cup ToSet(r)
    BY <2>1, <2>2 DEF ToSet
  <2>4. ASSUME NEW x \in ToSet(q) PROVE x \in ToSet(q \o r)
    BY <2>1 DEF ToSet
  <2>5. ASSUME NEW x \in ToSet(r) PROVE x \in ToSet(q \o r)
    <3>1. PICK j \in 1..Len(r) : x = r[j]
      BY <2>1 DEF ToSet
    <3>2. Len(q) + j \in DOMAIN (q \o r) /\ (q \o r)[Len(q) + j] = x
      BY <3>1, <2>1
    <3>3. QED
      BY <3>2 DEF ToSet
  <2>6. QED
    BY <2>3, <2>4, <2>5
<1>5. QED
  BY <1>1, <1>2, <1>3, <1>4

\* What mergeInto makes of two states.
LEMMA MergeEffect ==
  ASSUME NEW r, NEW q, IsState(r), IsState(q)
  PROVE  /\ IsState(MergeInto(r, q)) /\ IsState(MergeLeaves(r, q))
         /\ MergeInto(r, q).buffer = (IF r.isSet THEN r.buffer ELSE q.buffer)
         /\ ToSet(MergeInto(r, q).callbacks) = ToSet(r.callbacks) \cup ToSet(q.callbacks)
         /\ ToSet(MergeLeaves(r, q).callbacks) = {}
<1>1. ToSet(r.callbacks \o q.callbacks) = ToSet(r.callbacks) \cup ToSet(q.callbacks)
  BY Elements DEF IsState
<1>2. ToSet(<<>>) = {}
  BY Elements
<1>3. QED
  BY <1>1, <1>2, MergedIsState DEF MergeInto, MergeLeaves, Merged

\* The states of one surface change.
LEMMA OneChanges ==
  ASSUME NEW st, AreStates(st), NEW s \in Surfaces, NEW r, IsState(r)
  PROVE  /\ AreStates([st EXCEPT ![s] = r])
         /\ [st EXCEPT ![s] = r][s] = r
         /\ \A t \in Surfaces \ {s} : [st EXCEPT ![s] = r][t] = st[t]
         /\ Of([st EXCEPT ![s] = r]) = [Of(st) EXCEPT ![s] = ToSet(r.callbacks)]
<1> DEFINE ex == [st EXCEPT ![s] = r]
<1>1. AreStates(ex) /\ ex[s] = r /\ \A t \in Surfaces \ {s} : ex[t] = st[t]
  BY DEF AreStates
<1> HIDE DEF ex
<1>2. Of(ex) = [Of(st) EXCEPT ![s] = ToSet(r.callbacks)]
  BY <1>1 DEF Of
<1>3. QED
  BY <1>1, <1>2 DEF ex

\* Removing a child from the orders leaves all else alone.
LEMMA WithoutEffect ==
  ASSUME NEW st, AreStates(st), NEW s
  PROVE  /\ AreStates(Without(s, st)) /\ Of(Without(s, st)) = Of(st)
         /\ \A t \in Surfaces : Without(s, st)[t].buffer = st[t].buffer
<1>1. \A t \in Surfaces : /\ IsState(Without(s, st)[t])
                          /\ Without(s, st)[t].buffer = st[t].buffer
                          /\ Without(s, st)[t].callbacks = st[t].callbacks
  <2>1. TAKE t \in Surfaces
  <2>2. IsState(st[t])
    BY DEF AreStates
  <2>3. CASE t = s
    BY <2>2, <2>3 DEF Without
  <2>4. CASE t # s
    <3>1. Without(s, st)[t] = [st[t] EXCEPT !.order = RemoveAll(@, s)]
      BY <2>4 DEF Without
    <3>2. QED
      BY <3>1, <2>2 DEF IsState
  <2>5. QED
    BY <2>3, <2>4
<1>2. DOMAIN Without(s, st) = Surfaces
  BY DEF Without
<1>3. QED
  BY <1>1, <1>2 DEF AreStates, Of

\* The surfaces of set that gain or lose their buffer with their states of next.
Flipped(set, next) == {t \in set : next[t].isSet /\ next[t].buffer # current[t].buffer}

BuffersApplied(set, next) ==
  \A t \in Surfaces : current'[t].buffer = IF t \in set /\ next[t].isSet THEN next[t].buffer
                                            ELSE current[t].buffer

FlagsComputed(flipped) ==
  /\ \A t \in Surfaces : mapped'[t] = MappedStep(mapped', t, current', flipped)
  /\ reparented' = {t \in reparented : t \notin flipped /\
                       ~(HasParent(t) /\ mapped'[parent[t]] # mapped[parent[t]])}

\* The surfaces of set apply their states of next.
LEMMA ApplyEffect ==
  ASSUME TreeInv, StatesInv, NEW set \in SUBSET Surfaces, NEW next, AreStates(next),
         Apply(set, next)
  PROVE  /\ AreStates(current)'
         /\ BuffersApplied(set, next)
         /\ \A t \in Surfaces : ToSet(current'[t].callbacks)
              = IF t \in set THEN ToSet(next[t].callbacks) \cup ToSet(current[t].callbacks)
                ELSE ToSet(current[t].callbacks)
         /\ mapped' \in [Surfaces -> BOOLEAN]
         /\ FlagsComputed(Flipped(set, next))
<1> DEFINE new == [t \in Surfaces |->
                IF t \in set THEN [MergeInto(next[t], current[t]) EXCEPT !.isSet = FALSE, !.changed = FALSE]
                ELSE current[t]]
           flipped == Flipped(set, next)
<1>1. /\ current' = new /\ mapped' = MappedAfter(new, flipped)
      /\ reparented' = {t \in reparented : t \notin flipped /\
                         ~(HasParent(t) /\ MappedAfter(new, flipped)[parent[t]] # mapped[parent[t]])}
  BY DEF Apply, Flipped
<1>2. ASSUME NEW t \in Surfaces
      PROVE  /\ IsState(new[t])
             /\ new[t].buffer = IF t \in set /\ next[t].isSet THEN next[t].buffer
                                 ELSE current[t].buffer
             /\ ToSet(new[t].callbacks)
                  = IF t \in set THEN ToSet(next[t].callbacks) \cup ToSet(current[t].callbacks)
                    ELSE ToSet(current[t].callbacks)
  <2>1. IsState(next[t]) /\ IsState(current[t])
    BY DEF AreStates, StatesInv
  <2>2. CASE t \in set
    <3> DEFINE r == MergeInto(next[t], current[t])
    <3>1. /\ IsState(r) /\ r.buffer = (IF next[t].isSet THEN next[t].buffer ELSE current[t].buffer)
          /\ ToSet(r.callbacks) = ToSet(next[t].callbacks) \cup ToSet(current[t].callbacks)
      <4>1. ASSUME NEW n, NEW c, IsState(n), IsState(c)
            PROVE  /\ IsState(MergeInto(n, c))
                   /\ MergeInto(n, c).buffer = (IF n.isSet THEN n.buffer ELSE c.buffer)
                   /\ ToSet(MergeInto(n, c).callbacks) = ToSet(n.callbacks) \cup ToSet(c.callbacks)
        BY <4>1, MergeEffect
      <4>2. QED
        BY <2>1, <4>1
    <3>2. new[t] = [r EXCEPT !.isSet = FALSE, !.changed = FALSE]
      BY <2>2
    <3> HIDE DEF r, new
    <3>3. IsState(new[t]) /\ new[t].buffer = r.buffer /\ new[t].callbacks = r.callbacks
      BY <3>1, <3>2 DEF IsState
    <3>4. QED
      BY <3>1, <3>3, <2>2
  <2>3. CASE t \notin set
    BY <2>1, <2>3
  <2>4. QED
    BY <2>2, <2>3
<1>3. DOMAIN new = Surfaces
  OBVIOUS
<1> HIDE DEF new
<1>4. AreStates(current)'
  BY <1>1, <1>2, <1>3 DEF AreStates
<1>5. /\ mapped \in [Surfaces -> BOOLEAN]
      /\ \A t \in Surfaces : new[t].buffer \in BOOLEAN
  BY <1>2 DEF StatesInv, IsState
<1>6. /\ MappedAfter(new, flipped) \in [Surfaces -> BOOLEAN]
      /\ \A t \in Surfaces : MappedAfter(new, flipped)[t]
                               = MappedStep(MappedAfter(new, flipped), t, new, flipped)
  <2> HIDE DEF flipped
  <2>1. QED
    BY <1>5, MappedUnfolds DEF TreeInv
<1>7. QED
  BY <1>1, <1>2, <1>4, <1>6 DEF BuffersApplied, FlagsComputed

-----------------------------------------------------------------------------
(* Every callback is in one list.                                          *)

Apart(x, y, z) == x \cap y = {} /\ x \cap z = {} /\ y \cap z = {}

OnceIn(p, k, u, o) ==
  /\ \A t \in Surfaces : Apart(p[t], k[t], u[t])
  /\ \A t, v \in Surfaces : t # v => (p[t] \cup k[t] \cup u[t]) \cap (p[v] \cup k[v] \cup u[v]) = {}
  /\ o = UNION {p[t] \cup k[t] \cup u[t] : t \in Surfaces}

OnceInv == OnceIn(Of(pending), Of(cached), Of(current), open)

\* Callbacks are answered or destroyed.
LEMMA OnceDropped ==
  ASSUME NEW p, NEW k, NEW u, NEW o, OnceIn(p, k, u, o), NEW p2, NEW k2, NEW u2, NEW o2,
         \A t \in Surfaces : p2[t] \subseteq p[t] /\ k2[t] \subseteq k[t] /\ u2[t] \subseteq u[t],
         o2 = UNION {p2[t] \cup k2[t] \cup u2[t] : t \in Surfaces}
  PROVE  OnceIn(p2, k2, u2, o2)
<1>1. \A t \in Surfaces : Apart(p2[t], k2[t], u2[t])
  BY DEF OnceIn, Apart
<1>2. \A t, v \in Surfaces : t # v => (p2[t] \cup k2[t] \cup u2[t]) \cap (p2[v] \cup k2[v] \cup u2[v]) = {}
  BY DEF OnceIn
<1>3. QED
  BY <1>1, <1>2 DEF OnceIn

StatesOnce == StatesInv /\ OnceInv

\* A step that leaves the states alone.
LEMMA OnceUnchanged ==
  ASSUME StatesOnce, UNCHANGED <<pending, cached, current, hasCache, mapped, open>>
  PROVE  StatesOnce'
BY DEF StatesOnce, StatesInv, OnceInv, Of, AreStates

\* wl_surface.attach
LEMMA OnceAttach ==
  ASSUME StatesOnce, NEW s \in Surfaces, NEW b \in BOOLEAN, Attach(s, b)
  PROVE  StatesOnce'
<1> DEFINE r == [pending[s] EXCEPT !.isSet = TRUE, !.buffer = b]
<1>1. AreStates(pending) /\ IsState(pending[s])
  BY DEF StatesOnce, StatesInv, AreStates
<1>2. IsState(r) /\ r.callbacks = pending[s].callbacks
  BY <1>1 DEF IsState
<1>3. pending' = [pending EXCEPT ![s] = r]
  BY <1>1 DEF Attach, AreStates, IsState
<1>4. UNCHANGED <<cached, current, hasCache, mapped, open>>
  BY DEF Attach, history
<1> HIDE DEF r
<1>5. AreStates(pending')
  BY <1>1, <1>2, <1>3, OneChanges
<1>6. Of(pending') = Of(pending)
  <2>1. Of(pending') = [Of(pending) EXCEPT ![s] = ToSet(r.callbacks)]
    BY <1>1, <1>2, <1>3, OneChanges
  <2>2. QED
    BY <2>1, <1>2 DEF Of
<1>7. QED
  BY <1>4, <1>5, <1>6 DEF StatesOnce, StatesInv, OnceInv, Of, AreStates

\* wl_surface.frame
LEMMA OnceFrame ==
  ASSUME StatesOnce, NEW s \in Surfaces, NEW c \in Callbacks, Frame(s, c)
  PROVE  StatesOnce'
<1> DEFINE r == [pending[s] EXCEPT !.callbacks = Append(@, c)]
<1>1. AreStates(pending) /\ IsState(pending[s])
  BY DEF StatesOnce, StatesInv, AreStates
<1>2. pending[s].callbacks \in Seq(Callbacks) /\ Append(pending[s].callbacks, c) \in Seq(Callbacks)
  BY <1>1 DEF IsState
<1>3. IsState(r) /\ r.callbacks = Append(pending[s].callbacks, c)
  BY <1>1, <1>2 DEF IsState
<1>4. pending' = [pending EXCEPT ![s] = r]
  BY <1>1 DEF Frame, AreStates, IsState
<1>5. c \notin open /\ open' = open \cup {c} /\ UNCHANGED <<cached, current, hasCache, mapped>>
  BY DEF Frame
<1>6. ToSet(Append(pending[s].callbacks, c)) = ToSet(pending[s].callbacks) \cup {c}
  BY <1>2, Elements
<1> HIDE DEF r
<1>7. AreStates(pending') /\ Of(pending') = [Of(pending) EXCEPT ![s] = ToSet(r.callbacks)]
  BY <1>1, <1>3, <1>4, OneChanges
<1>8. Of(pending') = [Of(pending) EXCEPT ![s] = @ \cup {c}]
  BY <1>3, <1>6, <1>7 DEF Of
<1>9. OnceIn(Of(pending'), Of(cached), Of(current), open \cup {c})
  <2> DEFINE p == Of(pending)  k == Of(cached)  u == Of(current)
             q == [p EXCEPT ![s] = @ \cup {c}]
  <2>1. OnceIn(p, k, u, open)
    BY DEF StatesOnce, OnceInv
  <2>2. DOMAIN p = Surfaces
    BY DEF Of
  <2> HIDE DEF p, k, u
  <2>3. \A t \in Surfaces : c \notin p[t] /\ c \notin k[t] /\ c \notin u[t]
    BY <2>1, <1>5 DEF OnceIn
  <2>4. \A t \in Surfaces : q[t] = IF t = s THEN p[t] \cup {c} ELSE p[t]
    BY <2>2
  <2> HIDE DEF q
  <2>5. \A t \in Surfaces : Apart(q[t], k[t], u[t])
    BY <2>1, <2>3, <2>4 DEF OnceIn, Apart
  <2>6. \A t, v \in Surfaces : t # v => (q[t] \cup k[t] \cup u[t]) \cap (q[v] \cup k[v] \cup u[v]) = {}
    <3>1. TAKE t, v \in Surfaces
    <3>2. HAVE t # v
    <3>3. (p[t] \cup k[t] \cup u[t]) \cap (p[v] \cup k[v] \cup u[v]) = {}
      BY <2>1, <3>2 DEF OnceIn
    <3>4. q[t] = p[t] \/ (t = s /\ q[t] = p[t] \cup {c})
      BY <2>4
    <3>5. q[v] = p[v] \/ (v = s /\ q[v] = p[v] \cup {c})
      BY <2>4
    <3>6. /\ c \notin p[t] \cup k[t] \cup u[t]
          /\ c \notin p[v] \cup k[v] \cup u[v]
      BY <2>3
    <3>7. QED
      BY <3>2, <3>3, <3>4, <3>5, <3>6
  <2>7. open \cup {c} = UNION {q[t] \cup k[t] \cup u[t] : t \in Surfaces}
    <3>1. open = UNION {p[t] \cup k[t] \cup u[t] : t \in Surfaces}
      BY <2>1 DEF OnceIn
    <3>2. \A x : x \in open <=> \E t \in Surfaces : x \in p[t] \cup k[t] \cup u[t]
      BY <3>1
    <3>3. \A x : x \in UNION {q[t] \cup k[t] \cup u[t] : t \in Surfaces}
                   <=> \E t \in Surfaces : x \in q[t] \cup k[t] \cup u[t]
      OBVIOUS
    <3>4. ASSUME NEW x, NEW t \in Surfaces, x \in q[t] \cup k[t] \cup u[t]
          PROVE  x \in open \cup {c}
      BY <3>2, <3>4, <2>4
    <3>5. ASSUME NEW x, NEW t \in Surfaces, x \in p[t] \cup k[t] \cup u[t]
          PROVE  x \in q[t] \cup k[t] \cup u[t]
      BY <3>5, <2>4
    <3>6. c \in q[s]
      BY <2>4
    <3>7. QED
      BY <3>2, <3>3, <3>4, <3>5, <3>6
  <2>8. OnceIn(q, k, u, open \cup {c})
    BY <2>5, <2>6, <2>7 DEF OnceIn
  <2>9. QED
    BY <2>8, <1>8 DEF p, k, u, q
<1>10. QED
  BY <1>5, <1>7, <1>9 DEF StatesOnce, StatesInv, OnceInv, Of, AreStates

\* place_above and place_below
LEMMA OncePlace ==
  ASSUME TreeInv, StatesOnce, NEW s \in Surfaces, NEW a \in Surfaces, NEW above \in BOOLEAN,
         Place(s, a, above)
  PROVE  StatesOnce'
<1> DEFINE p == parent[s]
           r == [pending[p] EXCEPT !.order = Placed(@, s, a, above), !.changed = TRUE]
<1>1. p \in Surfaces
  BY DEF Place, HasParent, TreeInv
<1>2. AreStates(pending) /\ IsState(pending[p])
  BY <1>1 DEF StatesOnce, StatesInv, AreStates
<1>3. IsState(r) /\ r.callbacks = pending[p].callbacks
  BY <1>2 DEF IsState
<1>4. pending' = [pending EXCEPT ![p] = r]
  BY <1>1, <1>2 DEF Place, AreStates, IsState
<1>5. UNCHANGED <<cached, current, hasCache, mapped, open>>
  BY DEF Place
<1> HIDE DEF r, p
<1>6. AreStates(pending') /\ Of(pending') = [Of(pending) EXCEPT ![p] = ToSet(r.callbacks)]
  BY <1>1, <1>2, <1>3, <1>4, OneChanges
<1>7. Of(pending') = Of(pending)
  BY <1>3, <1>6 DEF Of
<1>8. QED
  BY <1>5, <1>6, <1>7 DEF StatesOnce, StatesInv, OnceInv, Of, AreStates

\* The pending state is merged into the cached one.
LEMMA CacheEffect ==
  ASSUME StatesInv, NEW s \in Surfaces
  PROVE  /\ AreStates(ToCache(s)) /\ AreStates(PendingLeft(s))
         /\ Of(ToCache(s)) = [Of(cached) EXCEPT ![s] = Of(pending)[s] \cup Of(cached)[s]]
         /\ Of(PendingLeft(s)) = [Of(pending) EXCEPT ![s] = {}]
<1> DEFINE r == MergeInto(pending[s], cached[s])
           l == MergeLeaves(pending[s], cached[s])
<1>1. /\ AreStates(pending) /\ AreStates(cached)
      /\ IsState(pending[s]) /\ IsState(cached[s])
  BY DEF StatesInv, AreStates
<1>2. /\ IsState(r) /\ IsState(l)
      /\ ToSet(r.callbacks) = ToSet(pending[s].callbacks) \cup ToSet(cached[s].callbacks)
      /\ ToSet(l.callbacks) = {}
  BY <1>1, MergeEffect
<1>3. ToCache(s) = [cached EXCEPT ![s] = r] /\ PendingLeft(s) = [pending EXCEPT ![s] = l]
  BY <1>1 DEF ToCache, PendingLeft, AreStates
<1>4. Of(pending)[s] = ToSet(pending[s].callbacks) /\ Of(cached)[s] = ToSet(cached[s].callbacks)
  BY DEF Of
<1> HIDE DEF r, l
<1>5. /\ AreStates([cached EXCEPT ![s] = r]) /\ AreStates([pending EXCEPT ![s] = l])
      /\ Of([cached EXCEPT ![s] = r]) = [Of(cached) EXCEPT ![s] = ToSet(r.callbacks)]
      /\ Of([pending EXCEPT ![s] = l]) = [Of(pending) EXCEPT ![s] = ToSet(l.callbacks)]
  BY <1>1, <1>2, OneChanges
<1>6. QED
  BY <1>2, <1>3, <1>4, <1>5

\* The lists of st are those of caches, but empty for the surfaces of set.
Emptied(st, set, caches) ==
  \A t \in Surfaces : Of(st)[t] = IF t \in set THEN {} ELSE Of(caches)[t]

\* The caches of set are applied.
LEMMA AppliedCachesEffect ==
  ASSUME StatesInv, NEW set, NEW caches, AreStates(caches)
  PROVE  /\ AreStates(AppliedCaches(set, caches))
         /\ Emptied(AppliedCaches(set, caches), set, caches)
<1> DEFINE new == AppliedCaches(set, caches)
<1>1. ASSUME NEW t \in Surfaces
      PROVE  IsState(new[t]) /\ ToSet(new[t].callbacks) = IF t \in set THEN {} ELSE ToSet(caches[t].callbacks)
  <2>1. IsState(caches[t]) /\ IsState(current[t])
    BY DEF StatesInv, AreStates
  <2>2. CASE t \in set
    <3>1. new[t] = MergeLeaves(caches[t], current[t])
      BY <2>2 DEF AppliedCaches
    <3>2. QED
      BY <3>1, <2>1, <2>2, MergeEffect
  <2>3. CASE t \notin set
    BY <2>1, <2>3 DEF AppliedCaches
  <2>4. QED
    BY <2>2, <2>3
<1>2. DOMAIN new = Surfaces
  BY DEF AppliedCaches
<1> HIDE DEF new
<1>3. AreStates(new) /\ Emptied(new, set, caches)
  BY <1>1, <1>2 DEF AreStates, Of, Emptied
<1>4. QED
  BY <1>3 DEF new

\* Callbacks move between the lists of a surface.
LEMMA StatesMoved ==
  ASSUME StatesOnce, AreStates(pending'), AreStates(cached'), AreStates(current'),
         hasCache' \in [Surfaces -> BOOLEAN], mapped' \in [Surfaces -> BOOLEAN], open' = open,
         \A t \in Surfaces :
           /\ Apart(Of(pending')[t], Of(cached')[t], Of(current')[t])
           /\ Of(pending')[t] \cup Of(cached')[t] \cup Of(current')[t]
                = Of(pending)[t] \cup Of(cached)[t] \cup Of(current)[t]
  PROVE  StatesOnce'
<1> DEFINE p == Of(pending)  k == Of(cached)  u == Of(current)
           p2 == Of(pending')  k2 == Of(cached')  u2 == Of(current')
<1>1. OnceIn(p, k, u, open)
  BY DEF StatesOnce, OnceInv
<1>2. \A t \in Surfaces : Apart(p2[t], k2[t], u2[t])
                          /\ p2[t] \cup k2[t] \cup u2[t] = p[t] \cup k[t] \cup u[t]
  OBVIOUS
<1> HIDE DEF p, k, u, p2, k2, u2
<1>3. OnceIn(p2, k2, u2, open)
  BY <1>1, <1>2 DEF OnceIn
<1>4. OnceIn(Of(pending'), Of(cached'), Of(current'), open')
  BY <1>3 DEF p2, k2, u2
<1>5. QED
  BY <1>4 DEF StatesOnce, StatesInv, OnceInv, Of, AreStates

\* At every surface the three lists are apart.
LEMMA OnceApart ==
  ASSUME StatesOnce, NEW t \in Surfaces
  PROVE  Apart(Of(pending)[t], Of(cached)[t], Of(current)[t])
BY DEF StatesOnce, OnceInv, OnceIn

\* A commit of a synchronized sub-surface.
LEMMA OnceCommitToCache ==
  ASSUME StatesOnce, NEW s \in Surfaces, CommitToCache(s)
  PROVE  StatesOnce'
<1>1. /\ cached' = ToCache(s) /\ pending' = PendingLeft(s)
      /\ hasCache' = [hasCache EXCEPT ![s] = TRUE] /\ current' = current /\ mapped' = mapped
      /\ open' = open
  BY DEF CommitToCache, history
<1>2. /\ AreStates(cached') /\ AreStates(pending')
      /\ Of(cached') = [Of(cached) EXCEPT ![s] = Of(pending)[s] \cup Of(cached)[s]]
      /\ Of(pending') = [Of(pending) EXCEPT ![s] = {}]
  BY <1>1, CacheEffect DEF StatesOnce
<1>3. AreStates(current') /\ Of(current') = Of(current)
  BY <1>1 DEF StatesOnce, StatesInv
<1>4. hasCache' \in [Surfaces -> BOOLEAN] /\ mapped' \in [Surfaces -> BOOLEAN]
  BY <1>1 DEF StatesOnce, StatesInv
<1>5. DOMAIN Of(cached) = Surfaces /\ DOMAIN Of(pending) = Surfaces
  BY DEF Of
<1>6. ASSUME NEW t \in Surfaces
      PROVE  /\ Apart(Of(pending')[t], Of(cached')[t], Of(current')[t])
             /\ Of(pending')[t] \cup Of(cached')[t] \cup Of(current')[t]
                  = Of(pending)[t] \cup Of(cached)[t] \cup Of(current)[t]
  <2>1. Apart(Of(pending)[t], Of(cached)[t], Of(current)[t])
    BY OnceApart
  <2>2. CASE t = s
    <3>1. Of(cached')[t] = Of(pending)[t] \cup Of(cached)[t] /\ Of(pending')[t] = {}
      BY <1>2, <1>5, <2>2
    <3>2. QED
      BY <3>1, <2>1, <1>3 DEF Apart
  <2>3. CASE t # s
    <3>1. Of(cached')[t] = Of(cached)[t] /\ Of(pending')[t] = Of(pending)[t]
      BY <1>2, <1>5, <2>3
    <3>2. QED
      BY <3>1, <2>1, <1>3
  <2>4. QED
    BY <2>2, <2>3
<1>7. QED
  BY <1>1, <1>2, <1>3, <1>4, <1>6, StatesMoved

\* A commit that goes through the cache.
LEMMA OnceCommitThroughCache ==
  ASSUME TreeInv, StatesOnce, NEW s \in Surfaces, CommitThroughCache(s)
  PROVE  StatesOnce'
<1> DEFINE set == AppliedWith(s, mode)
           next == ToCache(s)
<1>1. /\ Apply(set, next) /\ cached' = AppliedCaches(set, next) /\ pending' = PendingLeft(s)
      /\ hasCache' = NoCache(set) /\ open' = open
  BY DEF CommitThroughCache
<1>2. set \in SUBSET Surfaces
  BY AppliedUnfolds DEF TreeInv
<1>3. /\ AreStates(next) /\ AreStates(pending')
      /\ Of(next) = [Of(cached) EXCEPT ![s] = Of(pending)[s] \cup Of(cached)[s]]
      /\ Of(pending') = [Of(pending) EXCEPT ![s] = {}]
  BY <1>1, CacheEffect DEF StatesOnce
<1> HIDE DEF set, next
<1>4. /\ AreStates(current)' /\ mapped' \in [Surfaces -> BOOLEAN]
      /\ \A t \in Surfaces : ToSet(current'[t].callbacks)
           = IF t \in set THEN ToSet(next[t].callbacks) \cup ToSet(current[t].callbacks)
             ELSE ToSet(current[t].callbacks)
  BY <1>1, <1>2, <1>3, ApplyEffect DEF StatesOnce
<1>5. /\ AreStates(cached')
      /\ \A t \in Surfaces : Of(cached')[t] = IF t \in set THEN {} ELSE Of(next)[t]
  <2>1. AreStates(cached') /\ Emptied(cached', set, next)
    BY <1>1, <1>3, AppliedCachesEffect DEF StatesOnce
  <2>2. QED
    BY <2>1 DEF Emptied
<1>6. hasCache' \in [Surfaces -> BOOLEAN]
  BY <1>1 DEF NoCache, StatesOnce, StatesInv
<1>7. AreStates(current')
  BY <1>4 DEF AreStates
<1>8. DOMAIN Of(cached) = Surfaces /\ DOMAIN Of(pending) = Surfaces
  BY DEF Of
<1>9. ASSUME NEW t \in Surfaces
      PROVE  /\ Apart(Of(pending')[t], Of(cached')[t], Of(current')[t])
             /\ Of(pending')[t] \cup Of(cached')[t] \cup Of(current')[t]
                  = Of(pending)[t] \cup Of(cached)[t] \cup Of(current)[t]
  <2>1. Apart(Of(pending)[t], Of(cached)[t], Of(current)[t])
    BY OnceApart
  <2>2. Of(current')[t] = IF t \in set THEN Of(next)[t] \cup Of(current)[t] ELSE Of(current)[t]
    BY <1>4 DEF Of
  <2>3. Of(cached')[t] = IF t \in set THEN {} ELSE Of(next)[t]
    BY <1>5
  <2>4. CASE t = s
    <3>1. Of(next)[t] = Of(pending)[t] \cup Of(cached)[t] /\ Of(pending')[t] = {}
      BY <1>3, <1>8, <2>4
    <3>2. QED
      BY <3>1, <2>1, <2>2, <2>3 DEF Apart
  <2>5. CASE t # s
    <3>1. Of(next)[t] = Of(cached)[t] /\ Of(pending')[t] = Of(pending)[t]
      BY <1>3, <1>8, <2>5
    <3>2. QED
      BY <3>1, <2>1, <2>2, <2>3 DEF Apart
  <2>6. QED
    BY <2>4, <2>5
<1>10. QED
  BY <1>1, <1>3, <1>5, <1>4, <1>6, <1>7, <1>9, StatesMoved

\* A commit that applies the pending state.
LEMMA OnceCommitPending ==
  ASSUME TreeInv, StatesOnce, NEW s \in Surfaces, CommitPending(s)
  PROVE  StatesOnce'
<1> DEFINE set == AppliedWith(s, mode)
           others == set \ {s}
           next == [cached EXCEPT ![s] = pending[s]]
           left == MergeLeaves(pending[s], current[s])
<1>1. /\ Apply(set, next) /\ cached' = AppliedCaches(others, cached)
      /\ pending' = [pending EXCEPT ![s] = MergeLeaves(@, current[s])]
      /\ hasCache' = NoCache(others) /\ open' = open
  BY DEF CommitPending
<1>2. set \in SUBSET Surfaces /\ s \in set
  BY AppliedUnfolds DEF TreeInv
<1>3. /\ AreStates(pending) /\ AreStates(cached)
      /\ IsState(pending[s]) /\ IsState(current[s])
  BY DEF StatesOnce, StatesInv, AreStates
<1>4. AreStates(next) /\ Of(next) = [Of(cached) EXCEPT ![s] = ToSet(pending[s].callbacks)]
  BY <1>3, OneChanges
<1>5. IsState(left) /\ ToSet(left.callbacks) = {}
  BY <1>3, MergeEffect
<1>6. pending' = [pending EXCEPT ![s] = left]
  BY <1>1, <1>3 DEF AreStates
<1> HIDE DEF set, others, next, left
<1>7. AreStates(pending') /\ Of(pending') = [Of(pending) EXCEPT ![s] = ToSet(left.callbacks)]
  BY <1>3, <1>5, <1>6, OneChanges
<1>8. /\ AreStates(current)' /\ mapped' \in [Surfaces -> BOOLEAN]
      /\ \A t \in Surfaces : ToSet(current'[t].callbacks)
           = IF t \in set THEN ToSet(next[t].callbacks) \cup ToSet(current[t].callbacks)
             ELSE ToSet(current[t].callbacks)
  BY <1>1, <1>2, <1>4, ApplyEffect DEF StatesOnce
<1>9. AreStates(cached') /\ Emptied(cached', others, cached)
  BY <1>1, <1>3, AppliedCachesEffect DEF StatesOnce
<1>10. hasCache' \in [Surfaces -> BOOLEAN]
  BY <1>1 DEF NoCache, StatesOnce, StatesInv
<1>11. AreStates(current')
  BY <1>8 DEF AreStates
<1>12. DOMAIN Of(cached) = Surfaces /\ DOMAIN Of(pending) = Surfaces
  BY DEF Of
<1>13. ASSUME NEW t \in Surfaces
      PROVE  /\ Apart(Of(pending')[t], Of(cached')[t], Of(current')[t])
             /\ Of(pending')[t] \cup Of(cached')[t] \cup Of(current')[t]
                  = Of(pending)[t] \cup Of(cached)[t] \cup Of(current)[t]
  <2>1. Apart(Of(pending)[t], Of(cached)[t], Of(current)[t])
    BY OnceApart
  <2>2. Of(current')[t] = IF t \in set THEN Of(next)[t] \cup Of(current)[t] ELSE Of(current)[t]
    BY <1>8 DEF Of
  <2>3. Of(cached')[t] = IF t \in others THEN {} ELSE Of(cached)[t]
    BY <1>9 DEF Emptied
  <2>4. CASE t = s
    <3>1. t \in set /\ t \notin others
      BY <2>4, <1>2 DEF others
    <3>2. Of(next)[t] = Of(pending)[t] /\ Of(pending')[t] = {}
      <4>1. Of(next)[t] = ToSet(pending[s].callbacks) /\ Of(pending')[t] = {}
        BY <1>4, <1>5, <1>7, <1>12, <2>4
      <4>2. QED
        BY <4>1, <2>4 DEF Of
    <3>3. QED
      BY <3>1, <3>2, <2>1, <2>2, <2>3 DEF Apart
  <2>5. CASE t # s
    <3>1. Of(next)[t] = Of(cached)[t] /\ Of(pending')[t] = Of(pending)[t]
      BY <1>4, <1>7, <1>12, <2>5
    <3>2. t \in set <=> t \in others
      BY <2>5 DEF others
    <3>3. QED
      BY <3>1, <3>2, <2>1, <2>2, <2>3 DEF Apart
  <2>6. QED
    BY <2>4, <2>5
<1>14. QED
  BY <1>1, <1>7, <1>8, <1>9, <1>10, <1>11, <1>13, StatesMoved

\* set_desync
LEMMA OnceSetDesync ==
  ASSUME TreeInv, StatesOnce, NEW s \in Surfaces, SetDesync(s)
  PROVE  StatesOnce'
<1> DEFINE set == AppliedWith(s, mode')
<1>1. \/ UNCHANGED <<states, open>>
      \/ /\ Apply(set, cached) /\ cached' = AppliedCaches(set, cached)
         /\ hasCache' = NoCache(set) /\ pending' = pending /\ open' = open
  BY DEF SetDesync
<1>2. set \in SUBSET Surfaces
  BY AppliedUnfolds DEF TreeInv
<1> HIDE DEF set
<1>3. CASE UNCHANGED <<states, open>>
  BY <1>3, OnceUnchanged DEF states
<1>4. CASE /\ Apply(set, cached) /\ cached' = AppliedCaches(set, cached)
           /\ hasCache' = NoCache(set) /\ pending' = pending /\ open' = open
  <2>1. AreStates(pending) /\ AreStates(cached)
    BY DEF StatesOnce, StatesInv
  <2>2. /\ AreStates(current)' /\ mapped' \in [Surfaces -> BOOLEAN]
        /\ \A t \in Surfaces : ToSet(current'[t].callbacks)
             = IF t \in set THEN ToSet(cached[t].callbacks) \cup ToSet(current[t].callbacks)
               ELSE ToSet(current[t].callbacks)
    BY <1>2, <1>4, <2>1, ApplyEffect DEF StatesOnce
  <2>3. AreStates(cached') /\ Emptied(cached', set, cached)
    BY <1>4, <2>1, AppliedCachesEffect DEF StatesOnce
  <2>4. hasCache' \in [Surfaces -> BOOLEAN]
    BY <1>4 DEF NoCache, StatesOnce, StatesInv
  <2>5. AreStates(current') /\ AreStates(pending')
    BY <1>4, <2>1, <2>2 DEF AreStates
  <2>6. ASSUME NEW t \in Surfaces
        PROVE  /\ Apart(Of(pending')[t], Of(cached')[t], Of(current')[t])
               /\ Of(pending')[t] \cup Of(cached')[t] \cup Of(current')[t]
                    = Of(pending)[t] \cup Of(cached)[t] \cup Of(current)[t]
    <3>1. Apart(Of(pending)[t], Of(cached)[t], Of(current)[t])
      BY OnceApart
    <3>2. Of(current')[t] = IF t \in set THEN Of(cached)[t] \cup Of(current)[t] ELSE Of(current)[t]
      BY <2>2 DEF Of
    <3>3. Of(cached')[t] = IF t \in set THEN {} ELSE Of(cached)[t]
      BY <2>3 DEF Emptied
    <3>4. Of(pending')[t] = Of(pending)[t]
      BY <1>4
    <3>5. QED
      BY <3>1, <3>2, <3>3, <3>4 DEF Apart
  <2>7. QED
    BY <1>4, <2>2, <2>3, <2>4, <2>5, <2>6, StatesMoved
<1>5. QED
  BY <1>1, <1>3, <1>4

\* Only orders change.
LEMMA OrdersChange ==
  ASSUME StatesOnce, UNCHANGED <<hasCache, mapped, open>>,
         AreStates(pending'), AreStates(cached'), AreStates(current'),
         Of(pending') = Of(pending), Of(cached') = Of(cached), Of(current') = Of(current)
  PROVE  StatesOnce'
<1>1. hasCache' \in [Surfaces -> BOOLEAN] /\ mapped' \in [Surfaces -> BOOLEAN]
  BY DEF StatesOnce, StatesInv
<1>2. OnceIn(Of(pending'), Of(cached'), Of(current'), open')
  BY DEF StatesOnce, OnceInv
<1>3. QED
  BY <1>1, <1>2 DEF StatesOnce, StatesInv, OnceInv, Of, AreStates

\* A child is added to an order.
LEMMA ChildAdded ==
  ASSUME NEW st, AreStates(st), NEW s, NEW p \in Surfaces
  PROVE  LET st2 == [st EXCEPT ![p].order = Append(@, s)]
         IN  /\ AreStates(st2) /\ Of(st2) = Of(st)
             /\ \A t \in Surfaces : st2[t].buffer = st[t].buffer
<1> DEFINE r == [st[p] EXCEPT !.order = Append(@, s)]
<1>1. IsState(st[p]) /\ DOMAIN st = Surfaces
  BY DEF AreStates
<1>2. IsState(r) /\ r.callbacks = st[p].callbacks /\ r.buffer = st[p].buffer
  BY <1>1 DEF IsState
<1>3. [st EXCEPT ![p].order = Append(@, s)] = [st EXCEPT ![p] = r]
  BY <1>1 DEF IsState
<1> HIDE DEF r
<1>4. /\ AreStates([st EXCEPT ![p] = r])
      /\ [st EXCEPT ![p] = r][p] = r
      /\ \A t \in Surfaces \ {p} : [st EXCEPT ![p] = r][t] = st[t]
      /\ Of([st EXCEPT ![p] = r]) = [Of(st) EXCEPT ![p] = ToSet(r.callbacks)]
  BY <1>2, OneChanges
<1>5. Of([st EXCEPT ![p] = r]) = Of(st)
  BY <1>2, <1>4 DEF Of
<1>6. \A t \in Surfaces : [st EXCEPT ![p] = r][t].buffer = st[t].buffer
  BY <1>2, <1>4
<1>7. QED
  BY <1>3, <1>4, <1>5, <1>6

\* get_subsurface
LEMMA OnceCreateSubSurface ==
  ASSUME StatesOnce, NEW s \in Surfaces, NEW p \in Surfaces, CreateSubSurface(s, p)
  PROVE  StatesOnce'
<1>1. /\ pending' = [pending EXCEPT ![p].order = Append(@, s)]
      /\ cached' = [cached EXCEPT ![p].order = Append(@, s)]
      /\ current' = [current EXCEPT ![p].order = Append(@, s)]
      /\ UNCHANGED <<hasCache, mapped, open>>
  BY DEF CreateSubSurface
<1>2. AreStates(pending) /\ AreStates(cached) /\ AreStates(current)
  BY DEF StatesOnce, StatesInv
<1>3. AreStates(pending') /\ Of(pending') = Of(pending)
  BY <1>1, <1>2, ChildAdded
<1>4. AreStates(cached') /\ Of(cached') = Of(cached)
  BY <1>1, <1>2, ChildAdded
<1>5. AreStates(current') /\ Of(current') = Of(current)
  BY <1>1, <1>2, ChildAdded
<1>6. QED
  BY <1>1, <1>3, <1>4, <1>5, OrdersChange

\* ~SubSurfaceInterface
LEMMA OnceDestroySubSurface ==
  ASSUME StatesOnce, NEW s \in Surfaces, DestroySubSurface(s)
  PROVE  StatesOnce'
<1>1. /\ pending' = Without(s, pending) /\ cached' = Without(s, cached)
      /\ current' = Without(s, current) /\ UNCHANGED <<hasCache, mapped, open>>
  BY DEF DestroySubSurface
<1>2. AreStates(pending) /\ AreStates(cached) /\ AreStates(current)
  BY DEF StatesOnce, StatesInv
<1>3. /\ AreStates(pending') /\ Of(pending') = Of(pending)
      /\ AreStates(cached') /\ Of(cached') = Of(cached)
      /\ AreStates(current') /\ Of(current') = Of(current)
  BY <1>1, <1>2, WithoutEffect
<1>4. QED
  BY <1>1, <1>3, OrdersChange

\* A surface that is gone has no state.
LEMMA WithoutAll ==
  ASSUME NEW st, AreStates(st), NEW s \in Surfaces
  PROVE  LET st2 == [Without(s, st) EXCEPT ![s] = NewState(s)]
         IN  /\ AreStates(st2) /\ Of(st2) = [Of(st) EXCEPT ![s] = {}]
             /\ st2[s].buffer = FALSE
             /\ \A t \in Surfaces \ {s} : st2[t].buffer = st[t].buffer
<1> DEFINE w == Without(s, st)
           n == NewState(s)
           st2 == [w EXCEPT ![s] = n]
<1>1. AreStates(w) /\ Of(w) = Of(st) /\ \A t \in Surfaces : w[t].buffer = st[t].buffer
  BY WithoutEffect
<1>2. IsState(n) /\ n.buffer = FALSE /\ ToSet(n.callbacks) = {}
  <2>1. IsState(n) /\ n.buffer = FALSE /\ n.callbacks = <<>>
    BY NewIsState DEF NewState
  <2>2. QED
    BY <2>1, Elements
<1> HIDE DEF w, n
<1>3. /\ AreStates(st2) /\ st2[s] = n /\ \A t \in Surfaces \ {s} : st2[t] = w[t]
      /\ Of(st2) = [Of(w) EXCEPT ![s] = ToSet(n.callbacks)]
  BY <1>1, <1>2, OneChanges
<1> HIDE DEF st2
<1>4. /\ AreStates(st2) /\ Of(st2) = [Of(st) EXCEPT ![s] = {}]
      /\ st2[s].buffer = FALSE
      /\ \A t \in Surfaces \ {s} : st2[t].buffer = st[t].buffer
  BY <1>1, <1>2, <1>3
<1>5. QED
  BY <1>4 DEF st2, w, n

\* ~SurfaceInterface
LEMMA OnceDestroySurface ==
  ASSUME StatesOnce, NEW s \in Surfaces, DestroySurface(s)
  PROVE  StatesOnce'
<1>1. /\ pending' = [Without(s, pending) EXCEPT ![s] = NewState(s)]
      /\ cached' = [Without(s, cached) EXCEPT ![s] = NewState(s)]
      /\ current' = [Without(s, current) EXCEPT ![s] = NewState(s)]
      /\ hasCache' = [hasCache EXCEPT ![s] = FALSE]
      /\ mapped' = [mapped EXCEPT ![s] = FALSE]
      /\ open' = open \ Held(s)
  BY DEF DestroySurface
<1>2. AreStates(pending) /\ AreStates(cached) /\ AreStates(current)
  BY DEF StatesOnce, StatesInv
<1>3. AreStates(pending') /\ Of(pending') = [Of(pending) EXCEPT ![s] = {}]
  BY <1>1, <1>2, WithoutAll
<1>4. AreStates(cached') /\ Of(cached') = [Of(cached) EXCEPT ![s] = {}]
  BY <1>1, <1>2, WithoutAll
<1>5. AreStates(current') /\ Of(current') = [Of(current) EXCEPT ![s] = {}]
  BY <1>1, <1>2, WithoutAll
<1>6. hasCache' \in [Surfaces -> BOOLEAN] /\ mapped' \in [Surfaces -> BOOLEAN]
  BY <1>1 DEF StatesOnce, StatesInv
<1> DEFINE p == Of(pending)  k == Of(cached)  u == Of(current)
           p2 == [p EXCEPT ![s] = {}]  k2 == [k EXCEPT ![s] = {}]  u2 == [u EXCEPT ![s] = {}]
<1>7. Held(s) = p[s] \cup k[s] \cup u[s]
  BY DEF Held, Of
<1>8. OnceIn(p, k, u, open)
  BY DEF StatesOnce, OnceInv
<1>9. DOMAIN p = Surfaces /\ DOMAIN k = Surfaces /\ DOMAIN u = Surfaces
  BY DEF Of
<1> HIDE DEF p, k, u
<1>10. /\ p2[s] = {} /\ k2[s] = {} /\ u2[s] = {}
       /\ \A t \in Surfaces \ {s} : p2[t] = p[t] /\ k2[t] = k[t] /\ u2[t] = u[t]
  BY <1>9
<1> HIDE DEF p2, k2, u2
<1>11. OnceIn(p2, k2, u2, open \ Held(s))
  <2>1. \A t \in Surfaces : p2[t] \subseteq p[t] /\ k2[t] \subseteq k[t] /\ u2[t] \subseteq u[t]
    BY <1>10
  <2>2. \A x : x \in open <=> \E t \in Surfaces : x \in p[t] \cup k[t] \cup u[t]
    BY <1>8 DEF OnceIn
  <2>3. \A x : x \in UNION {p2[t] \cup k2[t] \cup u2[t] : t \in Surfaces}
                <=> \E t \in Surfaces : x \in p2[t] \cup k2[t] \cup u2[t]
    OBVIOUS
  <2>4. ASSUME NEW x, NEW t \in Surfaces, x \in p2[t] \cup k2[t] \cup u2[t]
        PROVE  x \in open /\ x \notin Held(s)
    <3>1. t # s /\ x \in p[t] \cup k[t] \cup u[t]
      BY <2>4, <1>10
    <3>2. (p[t] \cup k[t] \cup u[t]) \cap (p[s] \cup k[s] \cup u[s]) = {}
      BY <3>1, <1>8 DEF OnceIn
    <3>3. QED
      BY <3>1, <3>2, <2>2, <1>7
  <2>5. ASSUME NEW x, x \in open, x \notin Held(s)
        PROVE  \E t \in Surfaces : x \in p2[t] \cup k2[t] \cup u2[t]
    <3>1. PICK t \in Surfaces : x \in p[t] \cup k[t] \cup u[t]
      BY <2>5, <2>2
    <3>2. t # s
      BY <3>1, <2>5, <1>7
    <3>3. QED
      BY <3>1, <3>2, <1>10
  <2>6. open \ Held(s) = UNION {p2[t] \cup k2[t] \cup u2[t] : t \in Surfaces}
    BY <2>3, <2>4, <2>5
  <2>7. QED
    BY <1>8, <2>1, <2>6, OnceDropped
<1>12. OnceIn(Of(pending'), Of(cached'), Of(current'), open')
  BY <1>11, <1>1, <1>3, <1>4, <1>5 DEF p2, k2, u2, p, k, u
<1>13. QED
  BY <1>3, <1>4, <1>5, <1>6, <1>12 DEF StatesOnce, StatesInv, OnceInv, Of, AreStates

\* frameRendered
LEMMA OnceFrameRendered ==
  ASSUME StatesOnce, FrameRendered
  PROVE  StatesOnce'
<1> DEFINE below == Subtree(Root)
           done == UNION {ToSet(current[t].callbacks) : t \in below}
<1>1. /\ current' = [t \in Surfaces |-> IF t \in below THEN [current[t] EXCEPT !.callbacks = <<>>]
                                        ELSE current[t]]
      /\ open' = open \ done /\ UNCHANGED <<pending, cached, hasCache, mapped>>
  BY DEF FrameRendered
<1>2. below \subseteq Surfaces
  BY DEF Subtree
<1> HIDE DEF below
<1>3. AreStates(current') /\ \A t \in Surfaces : Of(current')[t] = IF t \in below THEN {} ELSE Of(current)[t]
  <2>1. ASSUME NEW t \in Surfaces
        PROVE  IsState(current'[t]) /\ ToSet(current'[t].callbacks)
                 = IF t \in below THEN {} ELSE ToSet(current[t].callbacks)
    <3>1. IsState(current[t])
      BY DEF StatesOnce, StatesInv, AreStates
    <3>2. <<>> \in Seq(Callbacks)
      OBVIOUS
    <3>3. CASE t \in below
      <4>1. current'[t] = [current[t] EXCEPT !.callbacks = <<>>]
        BY <1>1, <3>3
      <4>2. IsState(current'[t]) /\ current'[t].callbacks = <<>>
        BY <4>1, <3>1, <3>2 DEF IsState
      <4>3. ToSet(<<>>) = {}
        BY Elements
      <4>4. QED
        BY <4>2, <4>3, <3>3
    <3>4. CASE t \notin below
      BY <1>1, <3>1, <3>4
    <3>5. QED
      BY <3>3, <3>4
  <2>2. DOMAIN current' = Surfaces
    BY <1>1
  <2>3. QED
    BY <2>1, <2>2 DEF AreStates, Of
<1> DEFINE p == Of(pending)  k == Of(cached)  u == Of(current)  u2 == Of(current')
<1>4. OnceIn(p, k, u, open)
  BY DEF StatesOnce, OnceInv
<1>5. \A x : x \in done <=> \E t \in below : x \in u[t]
  BY <1>2 DEF Of
<1>6. \A t \in Surfaces : u2[t] = IF t \in below THEN {} ELSE u[t]
  BY <1>3
<1> HIDE DEF p, k, u, u2, done
<1>7. OnceIn(p, k, u2, open \ done)
  <2>1. \A t \in Surfaces : p[t] \subseteq p[t] /\ k[t] \subseteq k[t] /\ u2[t] \subseteq u[t]
    BY <1>6
  <2>2. \A x : x \in open <=> \E t \in Surfaces : x \in p[t] \cup k[t] \cup u[t]
    BY <1>4 DEF OnceIn
  <2>3. \A x : x \in UNION {p[t] \cup k[t] \cup u2[t] : t \in Surfaces}
                <=> \E t \in Surfaces : x \in p[t] \cup k[t] \cup u2[t]
    OBVIOUS
  <2>4. ASSUME NEW x, NEW t \in Surfaces, x \in p[t] \cup k[t] \cup u2[t]
        PROVE  x \in open /\ x \notin done
    <3>1. x \in p[t] \cup k[t] \cup u[t]
      BY <2>4, <2>1
    <3>2. x \in open
      BY <3>1, <2>2
    <3>3. SUFFICES ASSUME x \in done PROVE FALSE
      BY <3>2
    <3>4. PICK v \in below : x \in u[v]
      BY <3>3, <1>5
    <3>5. v \in Surfaces
      BY <1>2
    <3>6. v = t
      <4>1. v # t => (p[v] \cup k[v] \cup u[v]) \cap (p[t] \cup k[t] \cup u[t]) = {}
        BY <3>5, <1>4 DEF OnceIn
      <4>2. QED
        BY <4>1, <3>1, <3>4
    <3>7. x \in p[t] \cup k[t]
      BY <2>4, <3>4, <3>6, <1>6
    <3>8. Apart(p[t], k[t], u[t])
      BY <1>4 DEF OnceIn
    <3>9. QED
      BY <3>4, <3>6, <3>7, <3>8 DEF Apart
  <2>5. ASSUME NEW x, x \in open, x \notin done
        PROVE  \E t \in Surfaces : x \in p[t] \cup k[t] \cup u2[t]
    <3>1. PICK t \in Surfaces : x \in p[t] \cup k[t] \cup u[t]
      BY <2>5, <2>2
    <3>2. x \in p[t] \cup k[t] \cup u2[t]
      BY <3>1, <2>5, <1>5, <1>6
    <3>3. QED
      BY <3>2
  <2>6. open \ done = UNION {p[t] \cup k[t] \cup u2[t] : t \in Surfaces}
    BY <2>3, <2>4, <2>5
  <2>7. QED
    BY <1>4, <2>1, <2>6, OnceDropped
<1>8. OnceIn(Of(pending'), Of(cached'), Of(current'), open')
  BY <1>1, <1>7 DEF p, k, u2
<1>9. QED
  BY <1>1, <1>3, <1>8 DEF StatesOnce, StatesInv, OnceInv, Of, AreStates

\* Every step keeps the callbacks.
LEMMA StatesKept ==
  ASSUME TreeInv, StatesOnce, [Next]_vars
  PROVE  StatesOnce'
<1>1. CASE UNCHANGED vars
  BY <1>1, OnceUnchanged DEF vars, states, history
<1>2. CASE FrameRendered
  BY <1>2, OnceFrameRendered
<1>3. ASSUME NEW s \in Surfaces, NEW b \in BOOLEAN, Attach(s, b) PROVE StatesOnce'
  BY <1>3, OnceAttach
<1>4. ASSUME NEW s \in Surfaces, NEW c \in Callbacks, Frame(s, c) PROVE StatesOnce'
  BY <1>4, OnceFrame
<1>5. ASSUME NEW s \in Surfaces, NEW t \in Surfaces, NEW above \in BOOLEAN, Place(s, t, above) PROVE StatesOnce'
  BY <1>5, OncePlace
<1>6. ASSUME NEW s \in Surfaces, CommitToCache(s) PROVE StatesOnce'
  BY <1>6, OnceCommitToCache
<1>7. ASSUME NEW s \in Surfaces, CommitThroughCache(s) PROVE StatesOnce'
  BY <1>7, OnceCommitThroughCache
<1>8. ASSUME NEW s \in Surfaces, CommitPending(s) PROVE StatesOnce'
  BY <1>8, OnceCommitPending
<1>9. ASSUME NEW s \in Surfaces, SetSync(s) PROVE StatesOnce'
  BY <1>9, OnceUnchanged DEF SetSync, states
<1>10. ASSUME NEW s \in Surfaces, SetDesync(s) PROVE StatesOnce'
  BY <1>10, OnceSetDesync
<1>11. ASSUME NEW s \in Surfaces, NEW p \in Surfaces, CreateSubSurface(s, p) PROVE StatesOnce'
  BY <1>11, OnceCreateSubSurface
<1>12. ASSUME NEW s \in Surfaces, DestroySubSurface(s) PROVE StatesOnce'
  BY <1>12, OnceDestroySubSurface
<1>13. ASSUME NEW s \in Surfaces, DestroySurface(s) PROVE StatesOnce'
  BY <1>13, OnceDestroySurface
<1>14. ASSUME NEW s \in Surfaces, CreateSurface(s) PROVE StatesOnce'
  BY <1>14, OnceUnchanged DEF CreateSurface, states, history
<1>15. QED
  BY <1>1, <1>2, <1>3, <1>4, <1>5, <1>6, <1>7, <1>8, <1>9, <1>10, <1>11, <1>12, <1>13, <1>14
     DEF Next

\* The first state.
LEMMA FirstState ==
  ASSUME Init
  PROVE  TreeInv /\ StatesOnce
<1>1. TreeInv
  <2>1. \A t \in Surfaces : ~HasParent(t)
    BY DEF Init, HasParent
  <2>2. Forest
    <3>1. [t \in Surfaces |-> 0] \in [Surfaces -> 0..0]
      OBVIOUS
    <3>2. \E d \in [Surfaces -> 0..0] :
             \A t \in Surfaces : HasParent(t) => parent[t] \in Surfaces /\ d[parent[t]] < d[t]
      BY <2>1, <3>1
    <3>3. QED
      BY <3>2 DEF Forest
  <2>3. QED
    BY <2>2 DEF Init, TreeInv, Modes
<1>2. StatesInv
  <2>1. AreStates([s \in Surfaces |-> NewState(s)])
    BY NewIsState DEF AreStates
  <2>2. QED
    BY <2>1 DEF Init, StatesInv
<1>3. \A t \in Surfaces : Of(pending)[t] = {} /\ Of(cached)[t] = {} /\ Of(current)[t] = {}
  <2>1. ToSet(<<>>) = {}
    BY Elements
  <2>2. QED
    BY <2>1 DEF Init, NewState, Of
<1>4. OnceInv
  <2> DEFINE p == Of(pending)  k == Of(cached)  u == Of(current)
  <2>1. \A t \in Surfaces : p[t] = {} /\ k[t] = {} /\ u[t] = {}
    BY <1>3
  <2>2. open = {}
    BY DEF Init
  <2> HIDE DEF p, k, u
  <2>3. OnceIn(p, k, u, open)
    BY <2>1, <2>2 DEF OnceIn, Apart
  <2>4. QED
    BY <2>3 DEF OnceInv, p, k, u
<1>5. QED
  BY <1>1, <1>2, <1>4 DEF StatesOnce

\* The invariant gives CallbacksOnce.
LEMMA OnceCounted ==
  ASSUME StatesOnce
  PROVE  CallbacksOnce
<1> SUFFICES ASSUME NEW c \in Callbacks
    PROVE LET places == {x \in Surfaces \X {1, 2, 3} :
                      Contains(<<pending, cached, current>>[x[2]][x[1]].callbacks, c)}
          IN  Cardinality(places) = IF c \in open THEN 1 ELSE 0
  BY DEF CallbacksOnce
<1> DEFINE p == Of(pending)  k == Of(cached)  u == Of(current)
           st == <<pending, cached, current>>
           places == {x \in Surfaces \X {1, 2, 3} : Contains(st[x[2]][x[1]].callbacks, c)}
<1>1. OnceIn(p, k, u, open)
  BY DEF StatesOnce, OnceInv
<1>2. \A t \in Surfaces : /\ pending[t].callbacks \in Seq(Callbacks)
                          /\ cached[t].callbacks \in Seq(Callbacks)
                          /\ current[t].callbacks \in Seq(Callbacks)
  BY DEF StatesOnce, StatesInv, AreStates, IsState
<1>3. \A t \in Surfaces : /\ Contains(pending[t].callbacks, c) <=> c \in p[t]
                          /\ Contains(cached[t].callbacks, c) <=> c \in k[t]
                          /\ Contains(current[t].callbacks, c) <=> c \in u[t]
  BY <1>2, Elements DEF Of
<1>4. st[1] = pending /\ st[2] = cached /\ st[3] = current
  OBVIOUS
<1> HIDE DEF p, k, u, st
<1>5. ASSUME NEW t \in Surfaces, NEW i \in {1, 2, 3}
      PROVE  <<t, i>> \in places <=> \/ i = 1 /\ c \in p[t]
                                     \/ i = 2 /\ c \in k[t]
                                     \/ i = 3 /\ c \in u[t]
  <2>1. <<t, i>> \in Surfaces \X {1, 2, 3} /\ <<t, i>>[1] = t /\ <<t, i>>[2] = i
    OBVIOUS
  <2>2. <<t, i>> \in places <=> Contains(st[i][t].callbacks, c)
    BY <2>1
  <2>3. QED
    BY <2>2, <1>3, <1>4
<1>6. \A x \in places : \E t \in Surfaces : \E i \in {1, 2, 3} : x = <<t, i>>
  OBVIOUS
<1> HIDE DEF places
<1>7. c \in open <=> \E t \in Surfaces : c \in p[t] \cup k[t] \cup u[t]
  BY <1>1 DEF OnceIn
<1>8. CASE c \notin open
  <2>1. \A t \in Surfaces : c \notin p[t] /\ c \notin k[t] /\ c \notin u[t]
    BY <1>7, <1>8
  <2>2. \A t \in Surfaces : \A i \in {1, 2, 3} : <<t, i>> \notin places
    BY <1>5, <2>1
  <2>3. places = {}
    BY <1>6, <2>2
  <2>4. Cardinality(places) = 0
    BY <2>3, FS_EmptySet
  <2>5. QED
    BY <2>4, <1>8, Zenon DEF places, st
<1>9. CASE c \in open
  <2>1. PICK t \in Surfaces : c \in p[t] \cup k[t] \cup u[t]
    BY <1>7, <1>9
  <2>2. PICK i \in {1, 2, 3} : \/ i = 1 /\ c \in p[t]
                               \/ i = 2 /\ c \in k[t]
                               \/ i = 3 /\ c \in u[t]
    BY <2>1
  <2>3. <<t, i>> \in places
    BY <2>2, <1>5
  <2>4. ASSUME NEW v \in Surfaces, NEW j \in {1, 2, 3}, <<v, j>> \in places
        PROVE  v = t /\ j = i
    <3>1. \/ j = 1 /\ c \in p[v]
          \/ j = 2 /\ c \in k[v]
          \/ j = 3 /\ c \in u[v]
      BY <2>4, <1>5
    <3>2. v = t
      <4>1. v # t => (p[v] \cup k[v] \cup u[v]) \cap (p[t] \cup k[t] \cup u[t]) = {}
        BY <1>1 DEF OnceIn
      <4>2. QED
        BY <4>1, <2>1, <3>1
    <3>3. Apart(p[t], k[t], u[t])
      BY <1>1 DEF OnceIn
    <3>4. QED
      BY <2>2, <3>1, <3>2, <3>3 DEF Apart
  <2>5. places = {<<t, i>>}
    <3>1. ASSUME NEW x \in places PROVE x = <<t, i>>
      <4>1. PICK v \in Surfaces : \E j \in {1, 2, 3} : x = <<v, j>>
        BY <1>6
      <4>2. PICK j \in {1, 2, 3} : x = <<v, j>>
        BY <4>1
      <4>3. v = t /\ j = i
        BY <4>2, <2>4
      <4>4. QED
        BY <4>2, <4>3
    <3>2. QED
      BY <2>3, <3>1
  <2>6. Cardinality(places) = 1
    BY <2>5, FS_Singleton
  <2>7. QED
    BY <2>6, <1>9, Zenon DEF places, st
<1>10. QED
  BY <1>8, <1>9

\* Every frame callback is in exactly one list of one surface until it is
\* answered or its surface is destroyed, for any number of surfaces and
\* callbacks and any tree of sub-surfaces.
THEOREM CallbacksAlwaysOnce == Spec => []CallbacksOnce
<1>1. Init => TreeInv /\ StatesOnce
  BY FirstState
<1>2. TreeInv /\ StatesOnce /\ [Next]_vars => (TreeInv /\ StatesOnce)'
  BY TreeKept, StatesKept
<1>3. TreeInv /\ StatesOnce => CallbacksOnce
  BY OnceCounted
<1>4. QED
  BY <1>1, <1>2, <1>3, PTL DEF Spec

-----------------------------------------------------------------------------
(* The mapped flags.                                                       *)

\* The flag of t is as the documentation of isMapped says.
FlagRight(t) ==
  mapped[t] <=> current[t].buffer /\ (t \in role => HasParent(t) /\ mapped[parent[t]])

\* MappedTracksTree, and surfaces that do not exist have nothing.
FlagsInv ==
  /\ \A t \in alive \ reparented : FlagRight(t)
  /\ \A t \in Surfaces \ alive : mapped[t] = FALSE /\ current[t].buffer = FALSE

\* States are applied.
LEMMA FlagsApply ==
  ASSUME TreeInv, StatesInv, FlagsInv, NEW set \in SUBSET alive, NEW next, AreStates(next),
         Apply(set, next), UNCHANGED <<alive, role, parent>>
  PROVE  FlagsInv'
<1> DEFINE flipped == Flipped(set, next)
<1>0. set \in SUBSET Surfaces
  BY DEF TreeInv
<1>1. /\ \A t \in Surfaces :
           current'[t].buffer = IF t \in set /\ next[t].isSet THEN next[t].buffer
                                ELSE current[t].buffer
      /\ \A t \in Surfaces : mapped'[t] = MappedStep(mapped', t, current', flipped)
      /\ reparented' = {t \in reparented : t \notin flipped /\
                           ~(HasParent(t) /\ mapped'[parent[t]] # mapped[parent[t]])}
  <2>1. BuffersApplied(set, next) /\ FlagsComputed(Flipped(set, next))
    BY <1>0, ApplyEffect
  <2>2. QED
    BY <2>1 DEF BuffersApplied, FlagsComputed
<1>2. \A t \in Surfaces : t \notin flipped => current'[t].buffer = current[t].buffer
  BY <1>1 DEF Flipped
<1>3. mapped \in [Surfaces -> BOOLEAN] /\ mapped' \in [Surfaces -> BOOLEAN]
  BY <1>0, ApplyEffect DEF StatesInv
<1>4. flipped \subseteq alive
  BY DEF TreeInv, Flipped
<1> HIDE DEF flipped
<1>5. ASSUME NEW t \in alive, t \notin reparented' PROVE FlagRight(t)'
  <2>1. t \in Surfaces
    BY DEF TreeInv
  <2>2. CASE t \in flipped \/ (HasParent(t) /\ mapped'[parent[t]] # mapped[parent[t]])
    <3>1. mapped'[t] = (current'[t].buffer /\ (t \in role => HasParent(t) /\ mapped'[parent[t]]))
      BY <1>1, <2>1, <2>2 DEF MappedStep
    <3>2. QED
      BY <3>1 DEF FlagRight, HasParent
  <2>3. CASE ~(t \in flipped \/ (HasParent(t) /\ mapped'[parent[t]] # mapped[parent[t]]))
    <3>1. mapped'[t] = mapped[t]
      BY <1>1, <2>1, <2>3 DEF MappedStep
    <3>2. current'[t].buffer = current[t].buffer
      BY <1>2, <2>1, <2>3
    <3>3. t \notin reparented
      BY <1>1, <1>5, <2>3
    <3>4. FlagRight(t)
      BY <3>3 DEF FlagsInv
    <3>5. HasParent(t) => mapped'[parent[t]] = mapped[parent[t]]
      BY <2>3
    <3>6. QED
      BY <3>1, <3>2, <3>4, <3>5 DEF FlagRight, HasParent
  <2>4. QED
    BY <2>2, <2>3
<1>6. ASSUME NEW t \in Surfaces, t \notin alive PROVE mapped'[t] = FALSE /\ current'[t].buffer = FALSE
  <2>1. ~HasParent(t) /\ t \notin flipped
    BY <1>4, <1>6 DEF HasParent, TreeInv
  <2>2. mapped'[t] = mapped[t]
    BY <1>1, <2>1 DEF MappedStep
  <2>3. QED
    BY <1>2, <1>6, <2>1, <2>2 DEF FlagsInv
<1>7. QED
  BY <1>5, <1>6 DEF FlagsInv

\* The surfaces that apply their states with one that exists exist.
LEMMA AppliedAlive ==
  ASSUME TreeInv, NEW s \in alive, NEW md
  PROVE  AppliedWith(s, md) \in SUBSET alive
<1>1. s \in Surfaces
  BY DEF TreeInv
<1>2. /\ AppliedWith(s, md) \in SUBSET Surfaces
      /\ \A t \in Surfaces \ {s} : t \in AppliedWith(s, md) => HasParent(t)
  BY <1>1, AppliedUnfolds DEF TreeInv
<1>3. QED
  BY <1>2 DEF HasParent, TreeInv

\* Nothing that the flags depend on changes.
LEMMA FlagsUnchanged ==
  ASSUME FlagsInv, UNCHANGED <<alive, role, parent, mapped, reparented>>,
         \A t \in Surfaces : current'[t].buffer = current[t].buffer, TreeInv
  PROVE  FlagsInv'
BY DEF FlagsInv, FlagRight, HasParent, TreeInv

\* The tree changes around s: it becomes or ceases to be a sub-surface.
LEMMA FlagsReparented ==
  ASSUME TreeInv, StatesInv, FlagsInv, NEW s \in Surfaces,
         UNCHANGED <<alive, mapped>>, \A t \in Surfaces : current'[t].buffer = current[t].buffer,
         reparented' = reparented \cup {t \in {s} : current[t].buffer},
         role' \in SUBSET Surfaces,
         \A t \in Surfaces \ {s} : (t \in role' <=> t \in role) /\ parent'[t] = parent[t]
  PROVE  FlagsInv'
<1>1. ASSUME NEW t \in alive, t \notin reparented' PROVE FlagRight(t)'
  <2>1. t \in Surfaces /\ t \notin reparented
    BY <1>1 DEF TreeInv
  <2>2. FlagRight(t)
    BY <2>1 DEF FlagsInv
  <2>3. CASE t = s
    <3>1. ~current[t].buffer
      BY <1>1, <2>3
    <3>2. ~mapped[t]
      BY <2>2, <3>1 DEF FlagRight
    <3>3. QED
      BY <2>1, <3>1, <3>2 DEF FlagRight
  <2>4. CASE t # s
    <3>1. (t \in role' <=> t \in role) /\ parent'[t] = parent[t] /\ current'[t].buffer = current[t].buffer
      BY <2>1, <2>4
    <3>2. QED
      BY <3>1, <2>2 DEF FlagRight, HasParent
  <2>5. QED
    BY <2>3, <2>4
<1>2. \A t \in Surfaces \ alive : mapped'[t] = FALSE /\ current'[t].buffer = FALSE
  BY DEF FlagsInv
<1>3. QED
  BY <1>1, <1>2 DEF FlagsInv

\* A surface is destroyed.
LEMMA FlagsDestroySurface ==
  ASSUME TreeInv, StatesInv, FlagsInv, NEW s \in Surfaces, DestroySurface(s)
  PROVE  FlagsInv'
<1>1. /\ alive' = alive \ {s} /\ role' = role \ {s}
      /\ parent' = [t \in Surfaces |-> IF s \in {t, parent[t]} THEN NoSurface ELSE parent[t]]
      /\ current' = [Without(s, current) EXCEPT ![s] = NewState(s)]
      /\ mapped' = [mapped EXCEPT ![s] = FALSE]
      /\ reparented' = (reparented \ {s}) \cup {t \in Children(s) : current[t].buffer}
  BY DEF DestroySurface
<1>2. /\ current'[s].buffer = FALSE
      /\ \A t \in Surfaces \ {s} : current'[t].buffer = current[t].buffer
  BY <1>1, WithoutAll DEF StatesInv
<1>3. mapped'[s] = FALSE /\ \A t \in Surfaces \ {s} : mapped'[t] = mapped[t]
  BY <1>1 DEF StatesInv
<1>4. ASSUME NEW t \in alive', t \notin reparented' PROVE FlagRight(t)'
  <2>1. t \in Surfaces /\ t \in alive /\ t # s /\ t \notin reparented
    BY <1>1, <1>4 DEF TreeInv
  <2>2. FlagRight(t)
    BY <2>1 DEF FlagsInv
  <2>3. current'[t].buffer = current[t].buffer /\ mapped'[t] = mapped[t] /\ (t \in role' <=> t \in role)
    BY <1>1, <1>2, <1>3, <2>1
  <2>4. CASE t \in Children(s)
    <3>1. ~current[t].buffer
      BY <1>1, <1>4, <2>4
    <3>2. ~mapped[t]
      BY <2>2, <3>1 DEF FlagRight
    <3>3. QED
      BY <2>3, <3>1, <3>2 DEF FlagRight
  <2>5. CASE t \notin Children(s)
    <3>1. CASE t \in role
      <4>1. parent[t] # s
        BY <3>1, <2>5 DEF Children
      <4>2. parent'[t] = parent[t]
        BY <4>1, <2>1, <1>1
      <4>3. HasParent(t) => mapped'[parent[t]] = mapped[parent[t]]
        BY <4>1, <1>3 DEF HasParent, TreeInv
      <4>4. HasParent(t)' <=> HasParent(t)
        BY <4>2, <2>3 DEF HasParent
      <4>5. QED
        BY <2>2, <2>3, <4>2, <4>3, <4>4 DEF FlagRight
    <3>2. CASE t \notin role
      BY <3>2, <2>2, <2>3 DEF FlagRight
    <3>3. QED
      BY <3>1, <3>2
  <2>6. QED
    BY <2>4, <2>5
<1>5. \A t \in Surfaces \ alive' : mapped'[t] = FALSE /\ current'[t].buffer = FALSE
  BY <1>1, <1>2, <1>3 DEF FlagsInv
<1>6. QED
  BY <1>4, <1>5 DEF FlagsInv

\* Every step keeps the flags right.
LEMMA FlagsKept ==
  ASSUME TreeInv, StatesInv, FlagsInv, [Next]_vars
  PROVE  FlagsInv'
<1>0. AreStates(pending) /\ AreStates(cached) /\ AreStates(current)
  BY DEF StatesInv
<1>1. ASSUME UNCHANGED <<alive, role, parent, mapped, reparented, current>> PROVE FlagsInv'
  BY <1>1, FlagsUnchanged
<1>2. CASE UNCHANGED vars
  BY <1>2, <1>1 DEF vars, tree, states, history
<1>3. CASE FrameRendered
  <2>1. \A t \in Surfaces : current'[t].buffer = current[t].buffer
    <3>1. TAKE t \in Surfaces
    <3>2. IsState(current[t])
      BY <1>0 DEF AreStates
    <3>3. current'[t] \in {current[t], [current[t] EXCEPT !.callbacks = <<>>]}
      BY <1>3 DEF FrameRendered
    <3>4. QED
      BY <3>2, <3>3 DEF IsState
  <2>2. QED
    BY <1>3, <2>1, FlagsUnchanged DEF FrameRendered, tree
<1>4. ASSUME NEW s \in Surfaces, NEW b \in BOOLEAN, Attach(s, b) PROVE FlagsInv'
  BY <1>4, <1>1 DEF Attach, tree, history
<1>5. ASSUME NEW s \in Surfaces, NEW c \in Callbacks, Frame(s, c) PROVE FlagsInv'
  BY <1>5, <1>1 DEF Frame, tree
<1>6. ASSUME NEW s \in Surfaces, NEW t \in Surfaces, NEW above \in BOOLEAN, Place(s, t, above) PROVE FlagsInv'
  BY <1>6, <1>1 DEF Place, tree
<1>7. ASSUME NEW s \in Surfaces, CommitToCache(s) PROVE FlagsInv'
  BY <1>7, <1>1 DEF CommitToCache, tree, history
<1>8. ASSUME NEW s \in Surfaces, CommitThroughCache(s) PROVE FlagsInv'
  <2>1. s \in alive /\ Apply(AppliedWith(s, mode), ToCache(s)) /\ UNCHANGED <<alive, role, parent>>
    BY <1>8 DEF CommitThroughCache, tree
  <2>2. AppliedWith(s, mode) \in SUBSET alive
    BY <2>1, AppliedAlive
  <2>3. AreStates(ToCache(s))
    BY CacheEffect
  <2>4. QED
    BY <2>1, <2>2, <2>3, FlagsApply
<1>9. ASSUME NEW s \in Surfaces, CommitPending(s) PROVE FlagsInv'
  <2> DEFINE next == [cached EXCEPT ![s] = pending[s]]
  <2>1. s \in alive /\ Apply(AppliedWith(s, mode), next) /\ UNCHANGED <<alive, role, parent>>
    BY <1>9 DEF CommitPending, tree
  <2>2. AppliedWith(s, mode) \in SUBSET alive
    BY <2>1, AppliedAlive
  <2>3. AreStates(next)
    BY <1>0, OneChanges DEF AreStates
  <2> HIDE DEF next
  <2>4. QED
    BY <2>1, <2>2, <2>3, FlagsApply
<1>10. ASSUME NEW s \in Surfaces, SetSync(s) PROVE FlagsInv'
  BY <1>10, <1>1 DEF SetSync, states
<1>11. ASSUME NEW s \in Surfaces, SetDesync(s) PROVE FlagsInv'
  <2>1. \/ UNCHANGED <<states, reparented>>
        \/ Apply(AppliedWith(s, mode'), cached)
    BY <1>11 DEF SetDesync
  <2>2. s \in alive /\ UNCHANGED <<alive, role, parent>>
    BY <1>11 DEF SetDesync, TreeInv
  <2>3. CASE UNCHANGED <<states, reparented>>
    BY <2>2, <2>3, <1>1 DEF states
  <2>4. CASE Apply(AppliedWith(s, mode'), cached)
    <3>1. AppliedWith(s, mode') \in SUBSET alive
      BY <2>2, AppliedAlive
    <3>2. QED
      BY <2>2, <2>4, <3>1, <1>0, FlagsApply
  <2>5. QED
    BY <2>1, <2>3, <2>4
<1>12. ASSUME NEW s \in Surfaces, NEW p \in Surfaces, CreateSubSurface(s, p) PROVE FlagsInv'
  <2>1. /\ role' = role \cup {s} /\ parent' = [parent EXCEPT ![s] = p]
        /\ current' = [current EXCEPT ![p].order = Append(@, s)]
        /\ reparented' = reparented \cup {t \in {s} : current[t].buffer}
        /\ UNCHANGED <<alive, mapped>>
    BY <1>12 DEF CreateSubSurface
  <2>2. \A t \in Surfaces : current'[t].buffer = current[t].buffer
    BY <2>1, <1>0, ChildAdded
  <2>3. /\ role' \in SUBSET Surfaces
        /\ \A t \in Surfaces \ {s} : (t \in role' <=> t \in role) /\ parent'[t] = parent[t]
    BY <2>1 DEF TreeInv
  <2>4. QED
    BY <2>1, <2>2, <2>3, FlagsReparented
<1>13. ASSUME NEW s \in Surfaces, DestroySubSurface(s) PROVE FlagsInv'
  <2>1. /\ role' = role \ {s} /\ parent' = [parent EXCEPT ![s] = NoSurface]
        /\ current' = Without(s, current)
        /\ reparented' = reparented \cup {t \in {s} : current[t].buffer}
        /\ UNCHANGED <<alive, mapped>>
    BY <1>13 DEF DestroySubSurface
  <2>2. \A t \in Surfaces : current'[t].buffer = current[t].buffer
    BY <2>1, <1>0, WithoutEffect
  <2>3. /\ role' \in SUBSET Surfaces
        /\ \A t \in Surfaces \ {s} : (t \in role' <=> t \in role) /\ parent'[t] = parent[t]
    BY <2>1 DEF TreeInv
  <2>4. QED
    BY <2>1, <2>2, <2>3, FlagsReparented
<1>14. ASSUME NEW s \in Surfaces, DestroySurface(s) PROVE FlagsInv'
  BY <1>14, FlagsDestroySurface
<1>15. ASSUME NEW s \in Surfaces, CreateSurface(s) PROVE FlagsInv'
  <2>1. /\ s \notin alive /\ alive' = alive \cup {s}
        /\ UNCHANGED <<role, parent, current, mapped, reparented>>
    BY <1>15 DEF CreateSurface, states, history
  <2>2. mapped[s] = FALSE /\ current[s].buffer = FALSE
    BY <2>1 DEF FlagsInv
  <2>3. FlagRight(s)'
    BY <2>1, <2>2 DEF FlagRight
  <2>4. \A t \in alive \ reparented : FlagRight(t)'
    BY <2>1 DEF FlagsInv, FlagRight, HasParent
  <2>5. QED
    BY <2>1, <2>3, <2>4 DEF FlagsInv
<1>16. QED
  BY <1>2, <1>3, <1>4, <1>5, <1>6, <1>7, <1>8, <1>9, <1>10, <1>11, <1>12, <1>13, <1>14, <1>15
     DEF Next

\* The mapped flag of every surface says what the documentation of isMapped
\* says, through every order of commits, for any tree of sub-surfaces.
THEOREM MappedAlwaysTracksTree == Spec => []MappedTracksTree
<1> DEFINE Inv == TreeInv /\ StatesOnce /\ FlagsInv
<1>1. Init => Inv
  <2>1. ASSUME Init PROVE FlagsInv
    BY <2>1 DEF Init, FlagsInv, FlagRight, NewState
  <2>2. QED
    BY <2>1, FirstState
<1>2. Inv /\ [Next]_vars => Inv'
  BY TreeKept, StatesKept, FlagsKept DEF StatesOnce
<1>3. Inv => MappedTracksTree
  BY DEF FlagsInv, FlagRight, MappedTracksTree
<1>4. QED
  BY <1>1, <1>2, <1>3, PTL DEF Spec

-----------------------------------------------------------------------------
(* Synchronized sub-surfaces change with an ancestor.                      *)

\* What applies its state with s is below s.
LEMMA AppliedBelow ==
  ASSUME Forest, NEW s \in Surfaces, NEW md
  PROVE  AppliedWith(s, md) \subseteq Subtree(s)
<1>1. PICK N \in Nat : \E d \in [Surfaces -> 0..N] :
          \A t \in Surfaces : HasParent(t) => parent[t] \in Surfaces /\ d[parent[t]] < d[t]
  BY DEF Forest
<1>2. PICK d \in [Surfaces -> 0..N] :
          \A t \in Surfaces : HasParent(t) => parent[t] \in Surfaces /\ d[parent[t]] < d[t]
  BY <1>1
<1> DEFINE X == AppliedWith(s, md) \ Subtree(s)
           A == {d[t] : t \in X}
<1>3. /\ AppliedWith(s, md) \in SUBSET Surfaces
      /\ \A t \in Surfaces \ {s} : t \in AppliedWith(s, md) =>
               HasParent(t) /\ parent[t] \in AppliedWith(s, md)
  BY AppliedUnfolds
<1>4. /\ s \in Subtree(s)
      /\ \A t \in Surfaces \ {s} : HasParent(t) /\ parent[t] \in Subtree(s) => t \in Subtree(s)
  BY SubtreeUnfolds
<1>5. SUFFICES ASSUME NEW x \in X PROVE FALSE
  OBVIOUS
<1>6. A \in SUBSET Nat /\ d[x] \in A
  BY <1>3
<1> HIDE DEF A
<1>7. PICK n \in A : \A j \in A : n <= j
  BY <1>6, LeastNat
<1>8. PICK t \in X : n = d[t]
  BY <1>7 DEF A
<1>9. t \in Surfaces /\ t # s
  BY <1>3, <1>4
<1>10. HasParent(t) /\ parent[t] \in X
  BY <1>3, <1>4, <1>9
<1>11. d[parent[t]] \in A /\ d[parent[t]] < d[t] /\ d[t] \in Nat /\ d[parent[t]] \in Nat
  BY <1>2, <1>9, <1>10, <1>6 DEF A
<1>12. QED
  BY <1>7, <1>8, <1>11

\* States are applied from s down, and t's is changed by that.
LEMMA ChangedBelow ==
  ASSUME TreeInv, StatesInv, NEW s \in Surfaces, NEW md, NEW next, AreStates(next),
         Apply(AppliedWith(s, md), next), NEW t \in Surfaces, current'[t].buffer # current[t].buffer
  PROVE  t = s \/ s \in Ancestors(t)
<1>1. AppliedWith(s, md) \in SUBSET Surfaces
  BY AppliedUnfolds DEF TreeInv
<1>2. BuffersApplied(AppliedWith(s, md), next)
  BY <1>1, ApplyEffect
<1>3. t \in AppliedWith(s, md)
  BY <1>2 DEF BuffersApplied
<1>4. t \in Subtree(s)
  BY <1>3, AppliedBelow DEF TreeInv
<1>5. QED
  BY <1>4 DEF Ancestors

\* What SyncedWithParent says of one surface and one step.
SyncedStep(t) ==
  Synchronized(t) /\ t \in alive' /\ current'[t].buffer # current[t].buffer =>
     \/ \E a \in Ancestors(t) : CommitPending(a) \/ CommitThroughCache(a) \/ SetDesync(a)
     \/ SetDesync(t) /\ ~SynchronizedIn(mode')[t]

\* It holds of every step.
LEMMA SyncedKept ==
  ASSUME TreeInv, StatesInv, [Next]_vars, NEW t \in role
  PROVE  SyncedStep(t)
<1>0. /\ AreStates(pending) /\ AreStates(cached) /\ AreStates(current)
      /\ t \in Surfaces /\ IsState(current[t])
  BY DEF StatesInv, TreeInv, AreStates
<1>1. ASSUME current' = current PROVE SyncedStep(t)
  BY <1>1 DEF SyncedStep
<1>2. CASE UNCHANGED vars
  BY <1>2, <1>1 DEF vars, states
<1>3. CASE FrameRendered
  <2>1. current'[t] \in {current[t], [current[t] EXCEPT !.callbacks = <<>>]}
    BY <1>0, <1>3 DEF FrameRendered
  <2>2. current'[t].buffer = current[t].buffer
    BY <1>0, <2>1 DEF IsState
  <2>3. QED
    BY <2>2 DEF SyncedStep
<1>4. ASSUME NEW s \in Surfaces, NEW b \in BOOLEAN, Attach(s, b) PROVE SyncedStep(t)
  BY <1>4, <1>1 DEF Attach
<1>5. ASSUME NEW s \in Surfaces, NEW c \in Callbacks, Frame(s, c) PROVE SyncedStep(t)
  BY <1>5, <1>1 DEF Frame
<1>6. ASSUME NEW s \in Surfaces, NEW a \in Surfaces, NEW above \in BOOLEAN, Place(s, a, above) PROVE SyncedStep(t)
  BY <1>6, <1>1 DEF Place
<1>7. ASSUME NEW s \in Surfaces, CommitToCache(s) PROVE SyncedStep(t)
  BY <1>7, <1>1 DEF CommitToCache
<1>8. ASSUME NEW s \in Surfaces, CommitThroughCache(s) PROVE SyncedStep(t)
  <2>1. ~Synchronized(s) /\ Apply(AppliedWith(s, mode), ToCache(s))
    BY <1>8 DEF CommitThroughCache
  <2>2. AreStates(ToCache(s))
    BY CacheEffect
  <2>3. current'[t].buffer # current[t].buffer => t = s \/ s \in Ancestors(t)
    BY <2>1, <2>2, <1>0, ChangedBelow
  <2>4. QED
    BY <1>8, <2>1, <2>3 DEF SyncedStep
<1>9. ASSUME NEW s \in Surfaces, CommitPending(s) PROVE SyncedStep(t)
  <2> DEFINE next == [cached EXCEPT ![s] = pending[s]]
  <2>1. ~Synchronized(s) /\ Apply(AppliedWith(s, mode), next)
    BY <1>9 DEF CommitPending
  <2>2. AreStates(next)
    BY <1>0, OneChanges DEF AreStates
  <2> HIDE DEF next
  <2>3. current'[t].buffer # current[t].buffer => t = s \/ s \in Ancestors(t)
    BY <2>1, <2>2, <1>0, ChangedBelow
  <2>4. QED
    BY <1>9, <2>1, <2>3 DEF SyncedStep
<1>10. ASSUME NEW s \in Surfaces, SetSync(s) PROVE SyncedStep(t)
  BY <1>10, <1>1 DEF SetSync, states
<1>11. ASSUME NEW s \in Surfaces, SetDesync(s) PROVE SyncedStep(t)
  <2>1. \/ UNCHANGED <<states, reparented>>
        \/ Apply(AppliedWith(s, mode'), cached) /\ ~SynchronizedIn(mode')[s]
    BY <1>11 DEF SetDesync
  <2>2. CASE UNCHANGED <<states, reparented>>
    BY <2>2, <1>1 DEF states
  <2>3. CASE Apply(AppliedWith(s, mode'), cached) /\ ~SynchronizedIn(mode')[s]
    <3>1. current'[t].buffer # current[t].buffer => t = s \/ s \in Ancestors(t)
      BY <2>3, <1>0, ChangedBelow
    <3>2. QED
      BY <1>11, <2>3, <3>1 DEF SyncedStep
  <2>4. QED
    BY <2>1, <2>2, <2>3
<1>12. ASSUME NEW s \in Surfaces, NEW p \in Surfaces, CreateSubSurface(s, p) PROVE SyncedStep(t)
  <2>1. current' = [current EXCEPT ![p].order = Append(@, s)]
    BY <1>12 DEF CreateSubSurface
  <2>2. current'[t].buffer = current[t].buffer
    BY <2>1, <1>0, ChildAdded
  <2>3. QED
    BY <2>2 DEF SyncedStep
<1>13. ASSUME NEW s \in Surfaces, DestroySubSurface(s) PROVE SyncedStep(t)
  <2>1. current'[t].buffer = current[t].buffer
    BY <1>13, <1>0, WithoutEffect DEF DestroySubSurface
  <2>2. QED
    BY <2>1 DEF SyncedStep
<1>14. ASSUME NEW s \in Surfaces, DestroySurface(s) PROVE SyncedStep(t)
  <2>1. alive' = alive \ {s} /\ current' = [Without(s, current) EXCEPT ![s] = NewState(s)]
    BY <1>14 DEF DestroySurface
  <2>2. t # s => current'[t].buffer = current[t].buffer
    BY <2>1, <1>0, WithoutAll
  <2>3. QED
    BY <2>1, <2>2 DEF SyncedStep
<1>15. ASSUME NEW s \in Surfaces, CreateSurface(s) PROVE SyncedStep(t)
  BY <1>15, <1>1 DEF CreateSurface, states
<1>16. QED
  BY <1>2, <1>3, <1>4, <1>5, <1>6, <1>7, <1>8, <1>9, <1>10, <1>11, <1>12, <1>13, <1>14, <1>15
     DEF Next

\* What a synchronized sub-surface shows changes only together with an
\* ancestor, or when it ceases to be synchronized, for any tree.
THEOREM AlwaysSyncedWithParent == Spec => SyncedWithParent
<1> DEFINE Inv == TreeInv /\ StatesOnce
<1>1. Init => Inv
  BY FirstState
<1>2. Inv /\ [Next]_vars => Inv'
  BY TreeKept, StatesKept
<1>3. Inv /\ [Next]_vars =>
        [\A s \in role :
           Synchronized(s) /\ s \in alive' /\ current'[s].buffer # current[s].buffer =>
              \/ \E a \in Ancestors(s) : CommitPending(a) \/ CommitThroughCache(a) \/ SetDesync(a)
              \/ SetDesync(s) /\ ~SynchronizedIn(mode')[s]]_vars
  <2>1. ASSUME Inv, [Next]_vars PROVE \A s \in role : SyncedStep(s)
    BY <2>1, SyncedKept DEF StatesOnce
  <2>2. QED
    BY <2>1 DEF SyncedStep
<1>4. QED
  BY <1>1, <1>2, <1>3, PTL DEF Spec, SyncedWithParent

-----------------------------------------------------------------------------
(* QList: removing and inserting.                                          *)

\* Induction: a set of naturals that has 0, and with every number the next
\* one, has all of them.
LEMMA AllNaturals ==
  ASSUME NEW A \in SUBSET Nat, 0 \in A, \A i \in A : i + 1 \in A
  PROVE  A = Nat
<1> DEFINE R == {ss \in Nat \X Nat : ss[1] < ss[2]}
           B == Nat \ A
<1>1. SUFFICES ASSUME NEW x \in B PROVE FALSE
  OBVIOUS
<1>2. IsWellFoundedOn(R, Nat)
  BY NatLessThanWellFounded DEF OpToRel
<1>3. B \in SUBSET Nat
  OBVIOUS
<1> HIDE DEF B
<1>4. PICK n \in B : \A j \in B : ~(<<j, n>> \in R)
  BY <1>1, <1>2, <1>3, WFMin, Zenon
<1>5. n \in Nat /\ n \notin A
  BY DEF B
<1>6. n - 1 \in Nat
  BY <1>5
<1>7. <<n - 1, n>> \in R
  <2>1. <<n - 1, n>> \in Nat \X Nat /\ <<n - 1, n>>[1] = n - 1 /\ <<n - 1, n>>[2] = n
    BY <1>5, <1>6
  <2>2. n - 1 < n
    BY <1>5
  <2>3. QED
    BY <2>1, <2>2
<1>8. n - 1 \in A
  BY <1>4, <1>6, <1>7 DEF B
<1>9. (n - 1) + 1 \in A
  BY <1>8
<1>10. QED
  BY <1>5, <1>9

KeptStep(f, list, e, i) ==
  IF i = 0 THEN <<>>
  ELSE IF list[i] = e THEN f[i - 1] ELSE Append(f[i - 1], list[i])

KeptBy(f, S, list, e) ==
  /\ f \in [0..Len(list) -> Seq(S)]
  /\ \A i \in 0..Len(list) : f[i] = KeptStep(f, list, e, i)

\* The function that RemoveAll is defined with exists.
LEMMA KeptExists ==
  ASSUME NEW S, NEW list \in Seq(S), NEW e
  PROVE  \E f : KeptBy(f, S, list, e)
<1> DEFINE n == Len(list)
           UpTo(m) == \E f \in [0..n -> Seq(S)] :
                         \A i \in 0..n : i <= m => f[i] = KeptStep(f, list, e, i)
           A == {m \in Nat : UpTo(m)}
<1>0. n \in Nat /\ \A i \in 1..n : list[i] \in S
  OBVIOUS
<1> HIDE DEF n
<1>1. UpTo(0)
  <2> DEFINE f == [i \in 0..n |-> <<>>]
  <2>1. f \in [0..n -> Seq(S)]
    OBVIOUS
  <2>2. \A i \in 0..n : i <= 0 => f[i] = KeptStep(f, list, e, i)
    BY <1>0 DEF KeptStep
  <2>3. QED
    BY <2>1, <2>2
<1>2. ASSUME NEW m \in Nat, UpTo(m) PROVE UpTo(m + 1)
  <2>1. PICK f \in [0..n -> Seq(S)] : \A i \in 0..n : i <= m => f[i] = KeptStep(f, list, e, i)
    BY <1>2
  <2> DEFINE g == [i \in 0..n |-> KeptStep(f, list, e, i)]
  <2>2. ASSUME NEW i \in 0..n PROVE KeptStep(f, list, e, i) \in Seq(S)
    <3>1. CASE i = 0
      BY <3>1 DEF KeptStep
    <3>2. CASE i # 0
      <4>1. f[i - 1] \in Seq(S) /\ list[i] \in S
        BY <1>0, <3>2
      <4>2. QED
        BY <4>1, <3>2 DEF KeptStep
    <3>3. QED
      BY <3>1, <3>2
  <2>3. g \in [0..n -> Seq(S)]
    BY <2>2
  <2>4. ASSUME NEW i \in 0..n, i <= m + 1 PROVE g[i] = KeptStep(g, list, e, i)
    <3>1. g[i] = KeptStep(f, list, e, i)
      OBVIOUS
    <3>2. CASE i = 0
      BY <3>1, <3>2 DEF KeptStep
    <3>3. CASE i # 0
      <4>1. i - 1 \in 0..n /\ i - 1 <= m
        BY <1>0, <2>4, <3>3
      <4>2. g[i - 1] = KeptStep(f, list, e, i - 1)
        BY <4>1
      <4>3. f[i - 1] = KeptStep(f, list, e, i - 1)
        BY <4>1, <2>1
      <4>4. g[i - 1] = f[i - 1]
        BY <4>2, <4>3
      <4> HIDE DEF g
      <4>5. QED
        BY <3>1, <3>3, <4>4 DEF KeptStep
    <3>4. QED
      BY <3>2, <3>3
  <2> HIDE DEF g
  <2>5. QED
    BY <2>3, <2>4
<1>3. A = Nat
  <2> HIDE DEF UpTo
  <2>1. A \in SUBSET Nat /\ 0 \in A /\ \A m \in A : m + 1 \in A
    BY <1>1, <1>2
  <2>2. QED
    BY <2>1, AllNaturals
<1>4. UpTo(n)
  <2> HIDE DEF UpTo
  <2>1. QED
    BY <1>3, <1>0
<1>5. PICK f \in [0..n -> Seq(S)] : \A i \in 0..n : i <= n => f[i] = KeptStep(f, list, e, i)
  BY <1>4
<1>6. \A i \in 0..n : f[i] = KeptStep(f, list, e, i)
  BY <1>0, <1>5
<1>7. QED
  BY <1>6 DEF n, KeptBy

\* No element occurs twice.
NoRepetition(q) == \A i, j \in 1..Len(q) : q[i] = q[j] => i = j

\* removeAll leaves the other elements, each as often as before.
LEMMA RemoveAllEffect ==
  ASSUME NEW S, NEW list \in Seq(S), NEW e
  PROVE  /\ RemoveAll(list, e) \in Seq(S)
         /\ ToSet(RemoveAll(list, e)) = ToSet(list) \ {e}
         /\ NoRepetition(list) => NoRepetition(RemoveAll(list, e))
<1> DEFINE n == Len(list)
           kept[i \in 0..Len(list)] ==
             IF i = 0 THEN <<>>
             ELSE IF list[i] = e THEN kept[i - 1] ELSE Append(kept[i - 1], list[i])
<1>0. n \in Nat /\ (\A i \in 1..n : list[i] \in S) /\ DOMAIN list = 1..n
  OBVIOUS
<1>1. PICK f : KeptBy(f, S, list, e)
  BY KeptExists
<1>2. f = [i \in 0..Len(list) |->
             IF i = 0 THEN <<>>
             ELSE IF list[i] = e THEN f[i - 1] ELSE Append(f[i - 1], list[i])]
  BY <1>1 DEF KeptStep, KeptBy
<1>3. kept = [i \in 0..Len(list) |->
             IF i = 0 THEN <<>>
             ELSE IF list[i] = e THEN kept[i - 1] ELSE Append(kept[i - 1], list[i])]
  BY <1>2, Zenon
<1>4. RemoveAll(list, e) = kept[n]
  BY Zenon DEF RemoveAll
<1>5. \A i \in 0..n : kept[i] = KeptStep(kept, list, e, i)
  <2> HIDE DEF kept
  <2>1. QED
    BY <1>3 DEF KeptStep
<1> HIDE DEF kept, n
<1> DEFINE Upto(i) == {list[j] : j \in 1..i}
           P(i) == /\ kept[i] \in Seq(S)
                   /\ ToSet(kept[i]) = Upto(i) \ {e}
                   /\ NoRepetition(list) => NoRepetition(kept[i])
           A == {i \in Nat : i <= n => P(i)}
<1>6. P(0)
  <2>1. kept[0] = <<>>
    BY <1>0, <1>5 DEF KeptStep
  <2>2. QED
    BY <2>1 DEF ToSet, NoRepetition
<1>7. ASSUME NEW i \in Nat, P(i), i + 1 <= n PROVE P(i + 1)
  <2>1. i + 1 \in 0..n /\ i + 1 # 0 /\ (i + 1) - 1 = i /\ i + 1 \in 1..n
    BY <1>0, <1>7
  <2>2. kept[i + 1] = IF list[i + 1] = e THEN kept[i] ELSE Append(kept[i], list[i + 1])
    BY <1>5, <2>1 DEF KeptStep
  <2>3. Upto(i + 1) = Upto(i) \cup {list[i + 1]}
    OBVIOUS
  <2>4. CASE list[i + 1] = e
    BY <1>7, <2>2, <2>3, <2>4
  <2>5. CASE list[i + 1] # e
    <3> DEFINE q == kept[i]
               x == list[i + 1]
    <3>1. kept[i + 1] = Append(q, x) /\ q \in Seq(S) /\ x \in S
      BY <1>0, <1>7, <2>1, <2>2, <2>5
    <3>2. /\ DOMAIN q = 1..Len(q) /\ Len(q) \in Nat
          /\ Append(q, x) \in Seq(S)
          /\ DOMAIN Append(q, x) = 1..(Len(q) + 1) /\ Len(Append(q, x)) = Len(q) + 1
          /\ Append(q, x)[Len(q) + 1] = x /\ \A k \in 1..Len(q) : Append(q, x)[k] = q[k]
      BY <3>1
    <3>3. ToSet(q) = Upto(i) \ {e}
      BY <1>7
    <3> HIDE DEF q, x
    <3>4. ToSet(Append(q, x)) = ToSet(q) \cup {x}
      BY <3>2 DEF ToSet
    <3>5. ToSet(Append(q, x)) = Upto(i + 1) \ {e}
      BY <2>3, <2>5, <3>3, <3>4 DEF x
    <3>6. ASSUME NoRepetition(list) PROVE NoRepetition(Append(q, x))
      <4>1. \A j \in 1..i : list[j] # x
        BY <3>6, <2>1, <1>0 DEF NoRepetition, x, n
      <4>2. x \notin ToSet(q)
        BY <4>1, <3>3
      <4>3. \A k \in 1..Len(q) : q[k] # x
        BY <4>2, <3>2 DEF ToSet
      <4>4. NoRepetition(q)
        BY <1>7, <3>6 DEF q
      <4>5. QED
        BY <4>3, <4>4, <3>2 DEF NoRepetition
    <3>7. QED
      BY <3>1, <3>2, <3>5, <3>6
  <2>6. QED
    BY <2>4, <2>5
<1>8. P(n)
  <2> HIDE DEF P
  <2>1. A \in SUBSET Nat /\ 0 \in A /\ \A i \in A : i + 1 \in A
    BY <1>0, <1>6, <1>7
  <2>2. A = Nat
    BY <2>1, AllNaturals
  <2>3. QED
    BY <2>2, <1>0
<1>9. Upto(n) = ToSet(list)
  BY <1>0 DEF ToSet
<1>10. QED
  BY <1>4, <1>8, <1>9

\* Appending an element.
LEMMA AppendEffect ==
  ASSUME NEW S, NEW q \in Seq(S), NEW x \in S
  PROVE  /\ Append(q, x) \in Seq(S) /\ ToSet(Append(q, x)) = ToSet(q) \cup {x}
         /\ NoRepetition(q) /\ x \notin ToSet(q) => NoRepetition(Append(q, x))
<1>1. /\ DOMAIN q = 1..Len(q) /\ Len(q) \in Nat
      /\ Append(q, x) \in Seq(S)
      /\ DOMAIN Append(q, x) = 1..(Len(q) + 1) /\ Len(Append(q, x)) = Len(q) + 1
      /\ Append(q, x)[Len(q) + 1] = x /\ \A k \in 1..Len(q) : Append(q, x)[k] = q[k]
  OBVIOUS
<1>2. ToSet(Append(q, x)) = ToSet(q) \cup {x}
  BY <1>1 DEF ToSet
<1>3. ASSUME NoRepetition(q), x \notin ToSet(q) PROVE NoRepetition(Append(q, x))
  <2>1. \A k \in 1..Len(q) : q[k] # x
    BY <1>3, <1>1 DEF ToSet
  <2>2. QED
    BY <2>1, <1>3, <1>1 DEF NoRepetition
<1>4. QED
  BY <1>1, <1>2, <1>3

\* Inserting an element at place n.
LEMMA InsertEffect ==
  ASSUME NEW S, NEW q \in Seq(S), NEW x \in S, NEW n \in 1..(Len(q) + 1)
  PROVE  LET r == InsertAt(q, n, x)
         IN  /\ r \in Seq(S) /\ ToSet(r) = ToSet(q) \cup {x}
             /\ NoRepetition(q) /\ x \notin ToSet(q) => NoRepetition(r)
<1> DEFINE m == Len(q)
           r == InsertAt(q, n, x)
           a == SubSeq(q, 1, n - 1)
           b == SubSeq(q, n, m)
<1>1. m \in Nat /\ n \in 1..(m + 1) /\ DOMAIN q = 1..m /\ \A i \in 1..m : q[i] \in S
  OBVIOUS
<1> HIDE DEF m
<1>2. a \in Seq(S) /\ Len(a) = n - 1 /\ \A i \in 1..(n - 1) : a[i] = q[i]
  <2> DEFINE k == n - 1
  <2>1. k \in 0..m /\ 1 \in 1..(k + 1) /\ \A i \in 1..k : q[i] \in S
    BY <1>1
  <2> HIDE DEF k
  <2>2. k \in Nat
    BY <2>1, <1>1
  <2>3. /\ SubSeq(q, 1, k) \in Seq(S)
        /\ Len(SubSeq(q, 1, k)) = (IF 1 <= k THEN k - 1 + 1 ELSE 0)
        /\ \A i \in 1..(k - 1 + 1) : SubSeq(q, 1, k)[i] = q[1 + i - 1]
    BY <2>1, <2>2, SubSeqProperties DEF m
  <2>4. a = SubSeq(q, 1, k)
    BY DEF k
  <2> HIDE DEF a
  <2>5. Len(a) = k /\ \A i \in 1..k : a[i] = q[i]
    BY <2>1, <2>2, <2>3, <2>4
  <2>6. QED
    BY <2>3, <2>4, <2>5 DEF k
<1>3. b \in Seq(S) /\ Len(b) = m - n + 1 /\ \A i \in 1..(m - n + 1) : b[i] = q[n + i - 1]
  <2>1. \A i \in n..m : q[i] \in S
    BY <1>1
  <2>2. /\ b \in Seq(S) /\ Len(b) = (IF n <= m THEN m - n + 1 ELSE 0)
        /\ \A i \in 1..(m - n + 1) : b[i] = q[n + i - 1]
    BY <1>1, <2>1, SubSeqProperties DEF m
  <2> HIDE DEF b
  <2>3. QED
    BY <2>2, <1>1
<1>4. r = a \o <<x>> \o b
  BY DEF InsertAt, m
<1> HIDE DEF r, a, b
<1>5. /\ r \in Seq(S) /\ Len(r) = m + 1 /\ DOMAIN r = 1..(m + 1)
      /\ \A i \in 1..(n - 1) : r[i] = q[i]
      /\ r[n] = x /\ \A i \in n..m : r[i + 1] = q[i]
  <2>1. <<x>> \in Seq(S) /\ Len(<<x>>) = 1 /\ <<x>>[1] = x
    OBVIOUS
  <2> DEFINE c == a \o <<x>>
  <2>2. c \in Seq(S) /\ Len(c) = n /\ c[n] = x /\ \A i \in 1..(n - 1) : c[i] = q[i]
    BY <1>1, <1>2, <2>1
  <2> HIDE DEF c
  <2>3. r = c \o b
    BY <1>4 DEF c
  <2>4. /\ r \in Seq(S) /\ Len(r) = Len(c) + Len(b)
        /\ \A i \in 1..(Len(c) + Len(b)) : r[i] = IF i <= Len(c) THEN c[i] ELSE b[i - Len(c)]
    BY <1>3, <2>2, <2>3, ConcatProperties
  <2>5. DOMAIN r = 1..Len(r) /\ Len(r) = m + 1
    BY <2>4, <2>2, <1>3, <1>1
  <2>6. \A i \in 1..n : r[i] = c[i]
    BY <1>1, <2>2, <2>4, <2>5
  <2>7. ASSUME NEW i \in n..m PROVE r[i + 1] = q[i]
    <3>1. i + 1 \in 1..(m + 1) /\ ~(i + 1 <= n) /\ (i + 1) - n \in 1..(m - n + 1)
          /\ n + ((i + 1) - n) - 1 = i
      BY <1>1
    <3>2. r[i + 1] = b[(i + 1) - n]
      BY <2>2, <2>4, <2>5, <3>1
    <3>3. b[(i + 1) - n] = q[n + ((i + 1) - n) - 1]
      BY <1>3, <3>1
    <3>4. QED
      BY <3>1, <3>2, <3>3
  <2>8. QED
    BY <1>1, <2>2, <2>4, <2>5, <2>6, <2>7
<1>6. \A i \in 1..(m + 1) : i \in 1..(n - 1) \/ i = n \/ (i - 1 \in n..m /\ (i - 1) + 1 = i)
  BY <1>1
<1>7. \A i \in 1..m : i \in 1..(n - 1) \/ i \in n..m
  BY <1>1
<1>8. ToSet(r) = ToSet(q) \cup {x}
  <2>1. ASSUME NEW y \in ToSet(r) PROVE y \in ToSet(q) \cup {x}
    <3>1. PICK i \in 1..(m + 1) : y = r[i]
      BY <1>5 DEF ToSet
    <3>2. CASE i \in 1..(n - 1)
      <4>1. i \in 1..m /\ y = q[i]
        BY <3>1, <3>2, <1>1, <1>5
      <4>2. QED
        BY <4>1, <1>1 DEF ToSet
    <3>3. CASE i = n
      BY <3>1, <3>3, <1>5
    <3>4. CASE i - 1 \in n..m /\ (i - 1) + 1 = i
      <4>1. i - 1 \in 1..m /\ y = q[i - 1]
        BY <3>1, <3>4, <1>1, <1>5
      <4>2. QED
        BY <4>1, <1>1 DEF ToSet
    <3>5. QED
      BY <3>2, <3>3, <3>4, <1>6
  <2>2. ASSUME NEW y \in ToSet(q) PROVE y \in ToSet(r)
    <3>1. PICK i \in 1..m : y = q[i]
      BY <1>1 DEF ToSet
    <3>2. \E k \in 1..(m + 1) : y = r[k]
      <4>1. CASE i \in 1..(n - 1)
        BY <4>1, <3>1, <1>5, <1>1
      <4>2. CASE i \in n..m
        <5>1. i + 1 \in 1..(m + 1) /\ r[i + 1] = y
          BY <4>2, <3>1, <1>5, <1>1
        <5>2. QED
          BY <5>1
      <4>3. QED
        BY <4>1, <4>2, <1>7
    <3>3. QED
      BY <3>2, <1>5 DEF ToSet
  <2>3. x \in ToSet(r)
    BY <1>5, <1>1 DEF ToSet
  <2>4. QED
    BY <2>1, <2>2, <2>3
<1>9. ASSUME NoRepetition(q), x \notin ToSet(q) PROVE NoRepetition(r)
  <2>1. \A k \in 1..m : q[k] # x
    BY <1>9, <1>1 DEF ToSet
  <2>2. \A i, j \in 1..m : q[i] = q[j] => i = j
    BY <1>9 DEF NoRepetition, m
  <2> DEFINE at(i) == IF i <= n - 1 THEN i ELSE i - 1
  <2>3. \A i \in 1..(m + 1) : i # n => at(i) \in 1..m /\ r[i] = q[at(i)]
    BY <1>1, <1>5, <1>6
  <2>4. \A i, j \in 1..(m + 1) : i # n /\ j # n /\ at(i) = at(j) => i = j
    BY <1>1
  <2> HIDE DEF at
  <2>5. ASSUME NEW i \in 1..(m + 1), NEW j \in 1..(m + 1), r[i] = r[j] PROVE i = j
    BY <2>1, <2>2, <2>3, <2>4, <2>5, <1>5
  <2>6. QED
    BY <2>5, <1>5 DEF NoRepetition
<1>10. QED
  BY <1>5, <1>8, <1>9 DEF r

-----------------------------------------------------------------------------
(* The stacking order.                                                     *)

\* q is a stacking order of the surfaces of E.
IsOrder(q, E) == q \in Seq(Surfaces) /\ NoRepetition(q) /\ ToSet(q) = E

\* The surfaces that t stacks.
Kin(t) == {t} \cup Children(t)

Sync == SynchronizedIn(mode)

\* The pending, the cached and the current order of t, and the one asked for,
\* stack the same surfaces.
OrdersAt(t) ==
  /\ IsOrder(pending[t].order, Kin(t)) /\ IsOrder(cached[t].order, Kin(t))
  /\ IsOrder(current[t].order, Kin(t)) /\ IsOrder(want[t], Kin(t))

\* StackingAsAsked at t, and where the order asked for is while it waits: in
\* the cache if there is one or if the next commit goes there.
InStep(t) ==
  /\ pending[t].order = want[t]
  /\ ~pending[t].changed /\ ~cached[t].changed => current[t].order = want[t]
  /\ (Sync[t] \/ hasCache[t]) /\ ~pending[t].changed => cached[t].order = want[t]
  /\ cached[t].changed => hasCache[t]
  /\ hasCache[t] => t \in role

StackInv ==
  /\ want \in [Surfaces -> Seq(Surfaces)]
  /\ \A t \in Surfaces : OrdersAt(t) /\ (t \notin strayed => InStep(t))

\* Removing a surface from an order.
LEMMA OrderWithout ==
  ASSUME NEW E, NEW q, IsOrder(q, E), NEW s
  PROVE  IsOrder(RemoveAll(q, s), E \ {s})
BY RemoveAllEffect DEF IsOrder

\* Putting one on top.
LEMMA OrderWith ==
  ASSUME NEW E, NEW q, IsOrder(q, E), NEW s \in Surfaces \ E
  PROVE  IsOrder(Append(q, s), E \cup {s})
BY AppendEffect DEF IsOrder

\* Moving one next to another.
LEMMA OrderPlaced ==
  ASSUME NEW E, NEW q, IsOrder(q, E), NEW s \in E, NEW anchor \in E \ {s}, NEW above \in BOOLEAN
  PROVE  IsOrder(Placed(q, s, anchor, above), E)
<1> DEFINE rest == RemoveAll(q, s)
           k == Position(rest, anchor)
           n == k + (IF above THEN 1 ELSE 0)
           r == InsertAt(rest, n, s)
<1>1. IsOrder(rest, E \ {s})
  BY OrderWithout
<1>2. s \in Surfaces
  <2>1. \E i \in DOMAIN q : q[i] = s
    BY DEF IsOrder, ToSet
  <2>2. QED
    BY <2>1 DEF IsOrder
<1>3. Placed(q, s, anchor, above) = r
  BY DEF Placed
<1> HIDE DEF rest
<1>4. rest \in Seq(Surfaces) /\ ToSet(rest) = E \ {s} /\ NoRepetition(rest)
  BY <1>1 DEF IsOrder
<1>5. k \in 1..Len(rest)
  <2>1. \E i \in DOMAIN rest : rest[i] = anchor
    BY <1>4 DEF ToSet
  <2>2. k \in DOMAIN rest
    BY <2>1 DEF Position
  <2>3. QED
    BY <2>2, <1>4
<1> HIDE DEF k
<1>6. n \in 1..(Len(rest) + 1)
  BY <1>4, <1>5
<1> HIDE DEF n
<1>7. /\ r \in Seq(Surfaces) /\ ToSet(r) = ToSet(rest) \cup {s}
      /\ NoRepetition(rest) /\ s \notin ToSet(rest) => NoRepetition(r)
  BY <1>2, <1>4, <1>6, InsertEffect
<1> HIDE DEF r
<1>8. QED
  BY <1>3, <1>4, <1>7 DEF IsOrder

\* Orders of one surface are equal.
LEMMA OrderOfOne ==
  ASSUME NEW E, NEW q, NEW r, IsOrder(q, E), IsOrder(r, E), ~(Len(q) > 1)
  PROVE  q = r
<1>1. /\ Len(q) \in Nat /\ DOMAIN q = 1..Len(q) /\ Len(r) \in Nat /\ DOMAIN r = 1..Len(r)
      /\ q = [i \in 1..Len(q) |-> q[i]] /\ r = [i \in 1..Len(r) |-> r[i]]
      /\ Len(q) \in {0, 1}
  <2>1. q \in Seq(Surfaces) /\ r \in Seq(Surfaces)
    BY DEF IsOrder
  <2>2. Len(q) \in Nat /\ DOMAIN q = 1..Len(q) /\ Len(r) \in Nat /\ DOMAIN r = 1..Len(r)
    BY <2>1
  <2>3. q = [i \in 1..Len(q) |-> q[i]] /\ r = [i \in 1..Len(r) |-> r[i]]
    BY <2>1
  <2>4. Len(q) \in {0, 1}
    BY <2>2
  <2>5. QED
    BY <2>2, <2>3, <2>4
<1>2. {q[i] : i \in 1..Len(q)} = {r[i] : i \in 1..Len(r)}
  <2>1. ToSet(q) = ToSet(r)
    BY DEF IsOrder
  <2>2. {q[i] : i \in DOMAIN q} = {r[i] : i \in DOMAIN r}
    BY <2>1, Zenon DEF ToSet
  <2>3. DOMAIN q = 1..Len(q) /\ DOMAIN r = 1..Len(r)
    BY <1>1
  <2>4. QED
    BY <2>2, <2>3, Zenon
<1>3. \A i, j \in 1..Len(r) : r[i] = r[j] => i = j
  BY DEF IsOrder, NoRepetition
<1>4. CASE Len(q) = 0
  <2>1. \A i \in 1..Len(r) : r[i] \in {q[j] : j \in 1..Len(q)}
    BY <1>2
  <2>2. Len(r) = 0
    BY <2>1, <1>1, <1>4
  <2>3. QED
    BY <2>2, <1>1, <1>4
<1>5. CASE Len(q) = 1
  <2>1. \A i \in 1..Len(r) : r[i] = q[1]
    <3>1. {q[i] : i \in 1..Len(q)} = {q[1]}
      BY <1>5
    <3>2. QED
      BY <1>2, <3>1
  <2>2. \E i \in 1..Len(r) : r[i] = q[1]
    <3>1. q[1] \in {q[i] : i \in 1..Len(q)}
      BY <1>5
    <3>2. QED
      BY <1>2, <3>1
  <2>3. Len(r) = 1
    <3>1. Len(r) >= 1
      BY <2>2, <1>1
    <3>2. ~(Len(r) >= 2)
      <4>1. SUFFICES ASSUME Len(r) >= 2 PROVE FALSE
        OBVIOUS
      <4>2. 1 \in 1..Len(r) /\ 2 \in 1..Len(r)
        BY <4>1, <1>1
      <4>3. r[1] = r[2]
        BY <2>1, <4>2
      <4>4. QED
        BY <4>2, <4>3, <1>3
    <3>3. QED
      BY <3>1, <3>2, <1>1
  <2>4. r[1] = q[1]
    BY <2>1, <2>3
  <2>5. QED
    BY <2>3, <2>4, <1>1, <1>5
<1>6. QED
  BY <1>1, <1>4, <1>5

-----------------------------------------------------------------------------
(* Which surfaces become synchronized.                                     *)

SyncRule ==
  \A t \in Surfaces : Sync[t] <=>
     t \in role /\ (mode[t] = "Synchronized" \/ (HasParent(t) /\ Sync[parent[t]]))

\* What Sync is, from the parent down.
LEMMA SyncNow == Forest => SyncRule
BY SynchronizedUnfolds DEF SyncRule, Sync

\* The same in the next state.
LEMMA SyncNext == Forest' => SyncRule'
BY SyncNow, PTL

\* No surface becomes synchronized but those of X, if nothing else changes
\* its mode or gets a parent.
LEMMA SyncShrinks ==
  ASSUME Forest, Forest', NEW X,
         \A t \in Surfaces \ X :
            /\ t \in role' => t \in role
            /\ t \in role' /\ mode'[t] = "Synchronized" => mode[t] = "Synchronized"
            /\ HasParent(t)' => HasParent(t) /\ parent'[t] = parent[t] /\ parent[t] \notin X
  PROVE  \A t \in Surfaces \ X : Sync'[t] => Sync[t]
<1>1. PICK N \in Nat : \E d \in [Surfaces -> 0..N] :
          \A t \in Surfaces : HasParent(t) => parent[t] \in Surfaces /\ d[parent[t]] < d[t]
  BY DEF Forest
<1>2. PICK d \in [Surfaces -> 0..N] :
          \A t \in Surfaces : HasParent(t) => parent[t] \in Surfaces /\ d[parent[t]] < d[t]
  BY <1>1
<1> DEFINE Y == {t \in Surfaces \ X : Sync'[t] /\ ~Sync[t]}
           A == {d[t] : t \in Y}
<1>3. SUFFICES ASSUME NEW x \in Y PROVE FALSE
  OBVIOUS
<1>4. SyncRule /\ SyncRule'
  BY SyncNow, SyncNext
<1>5. A \in SUBSET Nat /\ d[x] \in A
  OBVIOUS
<1> HIDE DEF A
<1>6. PICK n \in A : \A j \in A : n <= j
  BY <1>5, LeastNat
<1>7. PICK t \in Y : n = d[t]
  BY <1>6 DEF A
<1>8. t \in Surfaces \ X /\ Sync'[t] /\ ~Sync[t]
  BY <1>7
<1>9. t \in role' /\ (mode'[t] = "Synchronized" \/ (HasParent(t)' /\ Sync'[parent'[t]]))
  BY <1>4, <1>8 DEF SyncRule
<1>10. t \in role /\ mode[t] # "Synchronized" /\ HasParent(t) /\ parent[t] \in Surfaces \ X
       /\ Sync'[parent[t]] /\ ~Sync[parent[t]]
  BY <1>2, <1>4, <1>8, <1>9 DEF SyncRule
<1>11. parent[t] \in Y
  BY <1>10
<1>12. d[parent[t]] \in A /\ d[parent[t]] < d[t] /\ d[t] \in Nat /\ d[parent[t]] \in Nat
  BY <1>2, <1>8, <1>10, <1>11 DEF A
<1>13. QED
  BY <1>6, <1>7, <1>12

-----------------------------------------------------------------------------
(* What the operations do to the orders.                                   *)

\* The order and the mark of st2 are those of st.
SameOrder(st, st2, t) == st2[t].order = st[t].order /\ st2[t].changed = st[t].changed

\* Nothing of what t stacks changes.
Untouched(t) ==
  /\ SameOrder(pending, pending', t) /\ SameOrder(cached, cached', t)
  /\ current'[t].order = current[t].order /\ want'[t] = want[t] /\ hasCache'[t] = hasCache[t]
  /\ Kin(t)' = Kin(t)

\* The cache of t is applied.
FromCache(t) ==
  /\ SameOrder(pending, pending', t)
  /\ current'[t].order = (IF cached[t].changed THEN cached[t].order ELSE current[t].order)
  /\ cached'[t].order = current'[t].order /\ cached'[t].changed = FALSE
  /\ want'[t] = want[t] /\ hasCache'[t] = FALSE /\ Kin(t)' = Kin(t)

\* The orders stay what they are.
LEMMA InStepKept ==
  ASSUME NEW t \in Surfaces, Untouched(t), OrdersAt(t)
  PROVE  /\ OrdersAt(t)'
         /\ InStep(t) /\ (Sync'[t] => Sync[t] \/ cached[t].order = want[t]) /\ (t \in role => t \in role')
              => InStep(t)'
<1>1. OrdersAt(t)'
  BY DEF Untouched, SameOrder, OrdersAt
<1>2. ASSUME InStep(t), Sync'[t] => Sync[t] \/ cached[t].order = want[t], t \in role => t \in role'
      PROVE  InStep(t)'
  BY <1>2 DEF Untouched, SameOrder, InStep
<1>3. QED
  BY <1>1, <1>2

\* A synchronized surface applies its cache.
LEMMA InStepApplied ==
  ASSUME NEW t \in Surfaces, FromCache(t), OrdersAt(t), Sync[t]
  PROVE  OrdersAt(t)' /\ (InStep(t) => InStep(t)')
<1>1. OrdersAt(t)'
  BY DEF FromCache, SameOrder, OrdersAt
<1>2. ASSUME InStep(t) PROVE InStep(t)'
  BY <1>2 DEF FromCache, SameOrder, InStep
<1>3. QED
  BY <1>1, <1>2

\* The order and the mark that mergeInto makes.
LEMMA MergedOrder ==
  ASSUME NEW r, NEW q
  PROVE  /\ MergeInto(r, q).order = (IF r.changed THEN r.order ELSE q.order)
         /\ MergeInto(r, q).changed = (r.changed \/ q.changed)
         /\ MergeLeaves(r, q).order = (IF r.changed THEN r.order ELSE q.order)
         /\ MergeLeaves(r, q).changed = FALSE
BY DEF MergeInto, MergeLeaves, Merged

\* The surfaces of set apply their orders of next.
OrdersApplied(set, next) ==
  \A t \in Surfaces : current'[t].order = IF t \in set /\ next[t].changed THEN next[t].order
                                           ELSE current[t].order

\* applyState does that.
LEMMA ApplyOrders ==
  ASSUME NEW set, NEW next, Apply(set, next)
  PROVE  OrdersApplied(set, next)
<1>1. current' = [t \in Surfaces |->
        IF t \in set THEN [MergeInto(next[t], current[t]) EXCEPT !.isSet = FALSE, !.changed = FALSE]
        ELSE current[t]]
  BY DEF Apply
<1>2. ASSUME NEW t \in Surfaces
      PROVE  current'[t].order = IF t \in set /\ next[t].changed THEN next[t].order
                                 ELSE current[t].order
  <2>1. CASE t \in set
    <3> DEFINE r == MergeInto(next[t], current[t])
    <3>1. current'[t] = [r EXCEPT !.isSet = FALSE, !.changed = FALSE]
      BY <1>1, <2>1
    <3>2. DOMAIN r = {"isSet", "buffer", "callbacks", "order", "changed"}
      BY DEF MergeInto
    <3>3. r.order = IF next[t].changed THEN next[t].order ELSE current[t].order
      BY MergedOrder
    <3> HIDE DEF r
    <3>4. current'[t].order = r.order
      BY <3>1, <3>2
    <3>5. QED
      BY <2>1, <3>3, <3>4
  <2>2. CASE t \notin set
    BY <1>1, <2>2
  <2>3. QED
    BY <2>1, <2>2
<1>3. QED
  BY <1>2 DEF OrdersApplied

\* What is left of the caches.
OrdersLeft(set, caches, left) ==
  /\ \A t \in set \cap Surfaces :
        /\ left[t].order = (IF caches[t].changed THEN caches[t].order ELSE current[t].order)
        /\ left[t].changed = FALSE
  /\ \A t \in Surfaces \ set : left[t] = caches[t]

\* That is what commitFromCache leaves.
LEMMA CachesLeft ==
  ASSUME NEW set, NEW caches
  PROVE  OrdersLeft(set, caches, AppliedCaches(set, caches))
<1>1. \A t \in set \cap Surfaces : AppliedCaches(set, caches)[t] = MergeLeaves(caches[t], current[t])
  BY DEF AppliedCaches
<1>2. \A t \in Surfaces \ set : AppliedCaches(set, caches)[t] = caches[t]
  BY DEF AppliedCaches
<1>3. ASSUME NEW t \in set \cap Surfaces
      PROVE  /\ AppliedCaches(set, caches)[t].order
                  = (IF caches[t].changed THEN caches[t].order ELSE current[t].order)
             /\ AppliedCaches(set, caches)[t].changed = FALSE
  <2>1. AppliedCaches(set, caches)[t] = MergeLeaves(caches[t], current[t])
    BY <1>1
  <2>2. QED
    BY <2>1 DEF MergeInto, MergeLeaves, Merged
<1>4. QED
  BY <1>2, <1>3 DEF OrdersLeft

\* Nothing changes in the tree and in what is wanted.
LEMMA KinSame ==
  ASSUME UNCHANGED <<role, parent>>, NEW t
  PROVE  Kin(t)' = Kin(t)
BY DEF Kin, Children

\* In an unchanged tree nobody becomes synchronized.
LEMMA SyncSame ==
  ASSUME TreeInv, TreeInv', UNCHANGED <<role, parent, mode>>
  PROVE  \A t \in Surfaces : Sync'[t] => Sync[t]
<1>1. \A t \in Surfaces \ {} :
            /\ t \in role' => t \in role
            /\ t \in role' /\ mode'[t] = "Synchronized" => mode[t] = "Synchronized"
            /\ HasParent(t)' => HasParent(t) /\ parent'[t] = parent[t] /\ parent[t] \notin {}
  BY DEF HasParent
<1>2. Forest /\ Forest'
  BY DEF TreeInv
<1>3. \A t \in Surfaces \ {} : Sync'[t] => Sync[t]
  BY <1>1, <1>2, SyncShrinks
<1>4. QED
  BY <1>3

\* A step that changes neither tree nor orders.
LEMMA StackUnchanged ==
  ASSUME TreeInv, TreeInv', StackInv, UNCHANGED <<role, parent, mode, want, strayed, hasCache>>,
         \A t \in Surfaces : SameOrder(pending, pending', t) /\ SameOrder(cached, cached', t)
                             /\ current'[t].order = current[t].order
  PROVE  StackInv'
<1>1. ASSUME NEW t \in Surfaces PROVE OrdersAt(t)' /\ (t \notin strayed' => InStep(t)')
  <2>1. Untouched(t)
    BY KinSame DEF Untouched
  <2>2. Sync'[t] => Sync[t]
    BY SyncSame
  <2>3. OrdersAt(t) /\ (t \notin strayed => InStep(t))
    BY DEF StackInv
  <2>4. QED
    BY <2>1, <2>2, <2>3, InStepKept
<1>2. QED
  BY <1>1 DEF StackInv

-----------------------------------------------------------------------------
(* Every request.                                                          *)

\* wl_surface.attach and frame, and the answers to the callbacks, leave the
\* orders alone.
LEMMA StackAttach ==
  ASSUME TreeInv, TreeInv', StatesInv, StackInv, NEW s \in Surfaces, NEW b \in BOOLEAN, Attach(s, b)
  PROVE  StackInv'
<1>1. /\ pending' = [pending EXCEPT ![s].isSet = TRUE, ![s].buffer = b]
      /\ UNCHANGED <<role, parent, mode, want, strayed, hasCache, cached, current>>
  BY DEF Attach, tree, history
<1>2. \A t \in Surfaces : SameOrder(pending, pending', t)
  BY <1>1 DEF SameOrder, StatesInv, AreStates, IsState
<1>3. \A t \in Surfaces : SameOrder(cached, cached', t) /\ current'[t].order = current[t].order
  BY <1>1 DEF SameOrder
<1>4. QED
  BY <1>1, <1>2, <1>3, StackUnchanged

\* wl_surface.frame
LEMMA StackFrame ==
  ASSUME TreeInv, TreeInv', StatesInv, StackInv, NEW s \in Surfaces, NEW c \in Callbacks, Frame(s, c)
  PROVE  StackInv'
<1>1. /\ pending' = [pending EXCEPT ![s].callbacks = Append(@, c)]
      /\ UNCHANGED <<role, parent, mode, want, strayed, hasCache, cached, current>>
  BY DEF Frame, tree
<1>2. \A t \in Surfaces : SameOrder(pending, pending', t)
  BY <1>1 DEF SameOrder, StatesInv, AreStates, IsState
<1>3. \A t \in Surfaces : SameOrder(cached, cached', t) /\ current'[t].order = current[t].order
  BY <1>1 DEF SameOrder
<1>4. QED
  BY <1>1, <1>2, <1>3, StackUnchanged

\* frameRendered
LEMMA StackFrameRendered ==
  ASSUME TreeInv, TreeInv', StatesInv, StackInv, FrameRendered
  PROVE  StackInv'
<1>1. /\ current' = [t \in Surfaces |->
            IF t \in Subtree(Root) THEN [current[t] EXCEPT !.callbacks = <<>>] ELSE current[t]]
      /\ UNCHANGED <<role, parent, mode, want, strayed, hasCache, cached, pending>>
  BY DEF FrameRendered, tree
<1>2. ASSUME NEW t \in Surfaces PROVE current'[t].order = current[t].order
  BY <1>1 DEF StatesInv, AreStates, IsState
<1>3. \A t \in Surfaces : SameOrder(cached, cached', t) /\ SameOrder(pending, pending', t)
  BY <1>1 DEF SameOrder
<1>4. QED
  BY <1>1, <1>2, <1>3, StackUnchanged

\* Nothing the orders depend on changes.
LEMMA StackIdle ==
  ASSUME TreeInv, TreeInv', StackInv,
         UNCHANGED <<role, parent, mode, pending, cached, current, hasCache, want, strayed>>
  PROVE  StackInv'
BY StackUnchanged DEF SameOrder

\* place_above and place_below
LEMMA StackPlace ==
  ASSUME TreeInv, TreeInv', StatesInv, StackInv,
         NEW s \in Surfaces, NEW anchor \in Surfaces, NEW above \in BOOLEAN, Place(s, anchor, above)
  PROVE  StackInv'
<1>0. PICK p \in Surfaces : p = parent[s]
  BY DEF Place, TreeInv, Forest
<1>1. /\ HasParent(s) /\ parent[s] = p /\ anchor \in ({p} \cup Children(p)) \ {s}
      /\ pending' = [pending EXCEPT ![p].order = Placed(@, s, anchor, above), ![p].changed = TRUE]
      /\ want' = [want EXCEPT ![p] = Placed(@, s, anchor, above)]
      /\ UNCHANGED <<role, parent, mode, cached, current, hasCache, strayed>>
  BY <1>0 DEF Place, tree
<1>2. s \in Kin(p) /\ anchor \in Kin(p) \ {s}
  BY <1>1 DEF Kin, Children, HasParent
<1>3. \A t \in Surfaces : Kin(t)' = Kin(t)
  BY <1>1, KinSame
<1>4. want \in [Surfaces -> Seq(Surfaces)]
  BY DEF StackInv
<1>5. /\ pending'[p].order = Placed(pending[p].order, s, anchor, above) /\ pending'[p].changed = TRUE
      /\ want'[p] = Placed(want[p], s, anchor, above)
      /\ \A t \in Surfaces \ {p} : pending'[t] = pending[t] /\ want'[t] = want[t]
  BY <1>1, <1>4 DEF StatesInv, AreStates, IsState
<1>6. OrdersAt(p) /\ (p \notin strayed => InStep(p))
  BY <1>1 DEF StackInv
<1>7. IsOrder(pending'[p].order, Kin(p)) /\ IsOrder(want'[p], Kin(p))
  BY <1>2, <1>5, <1>6, OrderPlaced DEF OrdersAt
<1>8. OrdersAt(p)' /\ (p \notin strayed' => InStep(p)')
  <2>1. OrdersAt(p)'
    BY <1>1, <1>3, <1>6, <1>7 DEF OrdersAt
  <2>2. ASSUME p \notin strayed' PROVE InStep(p)'
    BY <2>2, <1>1, <1>5, <1>6 DEF InStep
  <2>3. QED
    BY <2>1, <2>2
<1>9. ASSUME NEW t \in Surfaces \ {p} PROVE OrdersAt(t)' /\ (t \notin strayed' => InStep(t)')
  <2>1. Untouched(t)
    BY <1>1, <1>3, <1>5 DEF Untouched, SameOrder
  <2>2. Sync'[t] => Sync[t]
    BY <1>1, SyncSame
  <2>3. OrdersAt(t) /\ (t \notin strayed => InStep(t))
    BY DEF StackInv
  <2>4. QED
    BY <1>1, <2>1, <2>2, <2>3, InStepKept
<1>10. want' \in [Surfaces -> Seq(Surfaces)]
  BY <1>1, <1>4, <1>5, <1>7 DEF IsOrder
<1>11. QED
  BY <1>8, <1>9, <1>10 DEF StackInv

\* A commit of a synchronized surface.
LEMMA StackCommitToCache ==
  ASSUME TreeInv, TreeInv', StatesInv, StackInv, NEW s \in Surfaces, CommitToCache(s)
  PROVE  StackInv'
<1>1. /\ Sync[s] /\ s \in role
      /\ cached' = [cached EXCEPT ![s] = MergeInto(pending[s], @)]
      /\ pending' = [pending EXCEPT ![s] = MergeLeaves(@, cached[s])]
      /\ hasCache' = [hasCache EXCEPT ![s] = TRUE]
      /\ UNCHANGED <<role, parent, mode, current, want, strayed>>
  <2>1. Sync[s]
    BY DEF CommitToCache, Synchronized, Sync
  <2>2. s \in role
    BY <2>1, SyncNow DEF SyncRule, TreeInv
  <2>3. QED
    BY <2>1, <2>2 DEF CommitToCache, ToCache, PendingLeft, tree, history
<1>2. \A t \in Surfaces : Kin(t)' = Kin(t)
  BY <1>1, KinSame
<1>3. /\ cached'[s] = MergeInto(pending[s], cached[s])
      /\ pending'[s] = MergeLeaves(pending[s], cached[s])
      /\ hasCache'[s] = TRUE
      /\ \A t \in Surfaces \ {s} : /\ cached'[t] = cached[t] /\ pending'[t] = pending[t]
                                   /\ hasCache'[t] = hasCache[t]
  BY <1>1 DEF StatesInv, AreStates
<1>4. /\ cached'[s].order = (IF pending[s].changed THEN pending[s].order ELSE cached[s].order)
      /\ cached'[s].changed = (pending[s].changed \/ cached[s].changed)
      /\ pending'[s].order = (IF pending[s].changed THEN pending[s].order ELSE cached[s].order)
      /\ pending'[s].changed = FALSE
  BY <1>3 DEF MergeInto, MergeLeaves, Merged
<1>5. OrdersAt(s) /\ (s \notin strayed => InStep(s))
  BY DEF StackInv
<1>6. OrdersAt(s)'
  BY <1>1, <1>2, <1>4, <1>5 DEF OrdersAt
<1>7. ASSUME s \notin strayed' PROVE InStep(s)'
  BY <1>1, <1>3, <1>4, <1>5, <1>7 DEF InStep
<1>8. ASSUME NEW t \in Surfaces \ {s} PROVE OrdersAt(t)' /\ (t \notin strayed' => InStep(t)')
  <2>1. Untouched(t)
    BY <1>1, <1>2, <1>3 DEF Untouched, SameOrder
  <2>2. Sync'[t] => Sync[t]
    BY <1>1, SyncSame
  <2>3. OrdersAt(t) /\ (t \notin strayed => InStep(t))
    BY DEF StackInv
  <2>4. QED
    BY <1>1, <2>1, <2>2, <2>3, InStepKept
<1>9. QED
  BY <1>1, <1>6, <1>7, <1>8 DEF StackInv

\* All surfaces of set but s are synchronized and apply their caches; the
\* others but s are left alone.
OthersFollow(s, set) ==
  /\ \A t \in set \ {s} : Sync[t]
  /\ \A t \in Surfaces \ {s} :
        /\ Sync'[t] => Sync[t]
        /\ pending'[t] = pending[t]
        /\ t \in set => /\ cached'[t].order = (IF cached[t].changed THEN cached[t].order
                                                ELSE current[t].order)
                        /\ current'[t].order = cached'[t].order
                        /\ cached'[t].changed = FALSE /\ hasCache'[t] = FALSE
        /\ t \notin set => /\ cached'[t] = cached[t] /\ current'[t].order = current[t].order
                           /\ hasCache'[t] = hasCache[t]
  /\ UNCHANGED <<role, parent, want, strayed>>

\* What the surfaces other than s come to.
LEMMA StackOthers ==
  ASSUME StackInv, NEW s \in Surfaces, NEW set, OthersFollow(s, set), NEW t \in Surfaces \ {s}
  PROVE  OrdersAt(t)' /\ (t \notin strayed' => InStep(t)')
<1>1. Kin(t)' = Kin(t)
  BY KinSame DEF OthersFollow
<1>2. OrdersAt(t) /\ (t \notin strayed => InStep(t))
  BY DEF StackInv
<1>3. CASE t \in set
  <2>1. FromCache(t)
    BY <1>1, <1>3 DEF FromCache, SameOrder, OthersFollow
  <2>2. Sync[t] /\ strayed' = strayed
    BY <1>3 DEF OthersFollow
  <2>3. QED
    BY <1>2, <2>1, <2>2, InStepApplied
<1>4. CASE t \notin set
  <2>1. Untouched(t)
    BY <1>1, <1>4 DEF Untouched, SameOrder, OthersFollow
  <2>2. (Sync'[t] => Sync[t]) /\ role' = role /\ strayed' = strayed
    BY DEF OthersFollow
  <2>3. QED
    BY <1>2, <2>1, <2>2, InStepKept
<1>5. QED
  BY <1>3, <1>4

\* A surface whose mode is synchronized is so.
LEMMA SyncByMode ==
  ASSUME Forest, NEW s \in Surfaces, NEW md, NEW t \in AppliedWith(s, md) \ {s}, md[t] = mode[t]
  PROVE  t \in Surfaces /\ Sync[t]
<1>1. t \in Surfaces /\ HasParent(t) /\ mode[t] = "Synchronized"
  BY AppliedUnfolds
<1>2. QED
  BY <1>1, SyncNow DEF SyncRule, HasParent

\* The step of OthersFollow from the parts of a commit.
LEMMA FollowFromParts ==
  ASSUME StatesInv, NEW s \in Surfaces, NEW set,
         \A t \in set \ {s} : Sync[t],
         \A t \in Surfaces \ {s} : Sync'[t] => Sync[t],
         UNCHANGED <<role, parent, want, strayed>>,
         \A t \in Surfaces \ {s} : pending'[t] = pending[t],
         NEW next, OrdersApplied(set, next), \A t \in Surfaces \ {s} : next[t] = cached[t],
         NEW caches, NEW empty, OrdersLeft(empty, caches, cached'),
         \A t \in Surfaces \ {s} : caches[t] = cached[t] /\ (t \in empty <=> t \in set),
         hasCache' = NoCache(empty)
  PROVE  OthersFollow(s, set)
<1>1. ASSUME NEW t \in Surfaces \ {s}
      PROVE  /\ t \in set => /\ cached'[t].order = (IF cached[t].changed THEN cached[t].order
                                                ELSE current[t].order)
                        /\ current'[t].order = cached'[t].order
                        /\ cached'[t].changed = FALSE /\ hasCache'[t] = FALSE
             /\ t \notin set => /\ cached'[t] = cached[t] /\ current'[t].order = current[t].order
                           /\ hasCache'[t] = hasCache[t]
  <2>1. /\ next[t] = cached[t] /\ caches[t] = cached[t] /\ (t \in empty <=> t \in set)
        /\ current'[t].order = IF t \in set /\ next[t].changed THEN next[t].order
                               ELSE current[t].order
    BY DEF OrdersApplied
  <2>2. hasCache'[t] = (hasCache[t] /\ t \notin empty) /\ hasCache[t] \in BOOLEAN
    BY DEF NoCache, StatesInv
  <2>3. CASE t \in set
    <3>1. /\ cached'[t].order = (IF caches[t].changed THEN caches[t].order ELSE current[t].order)
          /\ cached'[t].changed = FALSE
      BY <2>1, <2>3 DEF OrdersLeft
    <3>2. QED
      BY <2>1, <2>2, <2>3, <3>1
  <2>4. CASE t \notin set
    <3>1. cached'[t] = caches[t]
      BY <2>1, <2>4 DEF OrdersLeft
    <3>2. QED
      BY <2>1, <2>2, <2>4, <3>1
  <2>5. QED
    BY <2>3, <2>4
<1>2. QED
  BY <1>1 DEF OthersFollow

\* A commit of a surface that has been desynchronized and has a cache.
LEMMA StackCommitThroughCache ==
  ASSUME TreeInv, TreeInv', StatesInv, StackInv, NEW s \in Surfaces, CommitThroughCache(s)
  PROVE  StackInv'
<1>0. PICK set : set = AppliedWith(s, mode)
  OBVIOUS
<1> DEFINE next == ToCache(s)
<1>1. /\ hasCache[s] /\ Apply(set, next) /\ cached' = AppliedCaches(set, next)
      /\ pending' = PendingLeft(s) /\ hasCache' = NoCache(set)
      /\ UNCHANGED <<role, parent, mode, want, strayed>>
  BY <1>0 DEF CommitThroughCache, tree
<1>2. /\ next[s] = MergeInto(pending[s], cached[s])
      /\ \A t \in Surfaces \ {s} : next[t] = cached[t]
      /\ pending'[s] = MergeLeaves(pending[s], cached[s])
      /\ \A t \in Surfaces \ {s} : pending'[t] = pending[t]
  BY <1>1 DEF ToCache, PendingLeft, StatesInv, AreStates
<1> HIDE DEF next
<1>3. /\ next[s].order = (IF pending[s].changed THEN pending[s].order ELSE cached[s].order)
      /\ next[s].changed = (pending[s].changed \/ cached[s].changed)
      /\ pending'[s].order = (IF pending[s].changed THEN pending[s].order ELSE cached[s].order)
      /\ pending'[s].changed = FALSE
  BY <1>2 DEF MergeInto, MergeLeaves, Merged
<1>4. s \in set /\ set \in SUBSET Surfaces /\ \A t \in set \ {s} : Sync[t]
  BY <1>0, AppliedUnfolds, SyncByMode DEF TreeInv
<1>5. OrdersApplied(set, next) /\ OrdersLeft(set, next, cached')
  BY <1>1, ApplyOrders, CachesLeft
<1>6. \A t \in Surfaces : Sync'[t] => Sync[t]
  BY <1>1, SyncSame
<1>7. OthersFollow(s, set)
  BY <1>1, <1>2, <1>4, <1>5, <1>6, FollowFromParts
<1>8. OrdersAt(s) /\ (s \notin strayed => InStep(s)) /\ Kin(s)' = Kin(s)
  BY <1>1, KinSame DEF StackInv
<1>9. /\ current'[s].order = (IF next[s].changed THEN next[s].order ELSE current[s].order)
      /\ cached'[s].order = (IF next[s].changed THEN next[s].order ELSE current[s].order)
      /\ cached'[s].changed = FALSE /\ hasCache'[s] = FALSE
  <2>1. hasCache'[s] = FALSE
    BY <1>1, <1>4 DEF NoCache
  <2>2. QED
    BY <2>1, <1>4, <1>5 DEF OrdersApplied, OrdersLeft
<1>10. OrdersAt(s)'
  BY <1>1, <1>3, <1>8, <1>9 DEF OrdersAt
<1>11. ASSUME s \notin strayed' PROVE InStep(s)'
  BY <1>1, <1>3, <1>8, <1>9, <1>11 DEF InStep
<1>12. \A t \in Surfaces \ {s} : OrdersAt(t)' /\ (t \notin strayed' => InStep(t)')
  BY <1>7, StackOthers
<1>13. QED
  BY <1>1, <1>10, <1>11, <1>12 DEF StackInv

\* A commit that is applied at once.
LEMMA StackCommitPending ==
  ASSUME TreeInv, TreeInv', StatesInv, StackInv, NEW s \in Surfaces, CommitPending(s)
  PROVE  StackInv'
<1>0. PICK set : set = AppliedWith(s, mode)
  OBVIOUS
<1> DEFINE next == [cached EXCEPT ![s] = pending[s]]
<1>1. /\ ~Sync[s] /\ (s \in role => ~hasCache[s])
      /\ Apply(set, next) /\ cached' = AppliedCaches(set \ {s}, cached)
      /\ pending' = [pending EXCEPT ![s] = MergeLeaves(@, current[s])]
      /\ hasCache' = NoCache(set \ {s})
      /\ UNCHANGED <<role, parent, mode, want, strayed>>
  BY <1>0 DEF CommitPending, Synchronized, Sync, tree
<1>2. /\ next[s] = pending[s] /\ \A t \in Surfaces \ {s} : next[t] = cached[t]
      /\ pending'[s] = MergeLeaves(pending[s], current[s])
      /\ \A t \in Surfaces \ {s} : pending'[t] = pending[t]
  BY <1>1 DEF StatesInv, AreStates
<1> HIDE DEF next
<1>3. /\ pending'[s].order = (IF pending[s].changed THEN pending[s].order ELSE current[s].order)
      /\ pending'[s].changed = FALSE
  BY <1>2 DEF MergeInto, MergeLeaves, Merged
<1>4. s \in set /\ set \in SUBSET Surfaces /\ \A t \in set \ {s} : Sync[t]
  BY <1>0, AppliedUnfolds, SyncByMode DEF TreeInv
<1>5. OrdersApplied(set, next) /\ OrdersLeft(set \ {s}, cached, cached')
  BY <1>1, ApplyOrders, CachesLeft
<1>6. \A t \in Surfaces : Sync'[t] => Sync[t]
  BY <1>1, SyncSame
<1>7. OthersFollow(s, set)
  <2>1. \A t \in Surfaces \ {s} : cached[t] = cached[t] /\ (t \in set \ {s} <=> t \in set)
    OBVIOUS
  <2>2. QED
    BY <1>1, <1>2, <1>4, <1>5, <1>6, <2>1, FollowFromParts
<1>8. OrdersAt(s) /\ (s \notin strayed => InStep(s)) /\ Kin(s)' = Kin(s)
  BY <1>1, KinSame DEF StackInv
<1>9. /\ current'[s].order = (IF pending[s].changed THEN pending[s].order ELSE current[s].order)
      /\ cached'[s] = cached[s] /\ hasCache'[s] = hasCache[s]
  <2>1. hasCache'[s] = hasCache[s]
    BY <1>1, <1>4 DEF NoCache, StatesInv
  <2>2. QED
    BY <2>1, <1>2, <1>4, <1>5 DEF OrdersApplied, OrdersLeft
<1>10. OrdersAt(s)'
  BY <1>1, <1>3, <1>8, <1>9 DEF OrdersAt
<1>11. ASSUME s \notin strayed' PROVE InStep(s)'
  BY <1>1, <1>3, <1>6, <1>8, <1>9, <1>11 DEF InStep
<1>12. \A t \in Surfaces \ {s} : OrdersAt(t)' /\ (t \notin strayed' => InStep(t)')
  BY <1>7, StackOthers
<1>13. QED
  BY <1>1, <1>10, <1>11, <1>12 DEF StackInv

\* set_sync: what becomes synchronized without having a cache that is in step
\* has no children, or is exempt from here on.
LEMMA StackSetSync ==
  ASSUME TreeInv, TreeInv', StatesInv, StackInv, NEW s \in Surfaces, SetSync(s)
  PROVE  StackInv'
<1>1. /\ mode' = [mode EXCEPT ![s] = "Synchronized"]
      /\ strayed' = strayed \cup {t \in Subtree(s) : Len(want[t]) > 1}
      /\ UNCHANGED <<role, parent, pending, cached, current, hasCache, want>>
  BY DEF SetSync, states
<1>2. PICK X : X = Subtree(s)
  OBVIOUS
<1>3. /\ s \in X
      /\ \A t \in Surfaces \ X : t # s /\ (HasParent(t) => parent[t] \notin X)
  BY <1>2, SubtreeUnfolds DEF TreeInv
<1>4. \A t \in Surfaces \ X : Sync'[t] => Sync[t]
  <2>1. \A t \in Surfaces \ X :
            /\ t \in role' => t \in role
            /\ t \in role' /\ mode'[t] = "Synchronized" => mode[t] = "Synchronized"
            /\ HasParent(t)' => HasParent(t) /\ parent'[t] = parent[t] /\ parent[t] \notin X
    BY <1>1, <1>3 DEF HasParent, TreeInv
  <2>2. QED
    BY <2>1, SyncShrinks DEF TreeInv
<1>5. ASSUME NEW t \in Surfaces PROVE OrdersAt(t)' /\ (t \notin strayed' => InStep(t)')
  <2>1. OrdersAt(t) /\ (t \notin strayed => InStep(t))
    BY DEF StackInv
  <2>2. Untouched(t)
    BY <1>1, KinSame DEF Untouched, SameOrder
  <2>3. ASSUME t \notin strayed' PROVE Sync'[t] => Sync[t] \/ cached[t].order = want[t]
    <3>1. CASE t \notin X
      BY <1>4, <3>1
    <3>2. CASE t \in X
      <4>1. ~(Len(want[t]) > 1)
        BY <1>1, <1>2, <2>3, <3>2
      <4>2. cached[t].order = want[t]
        BY <4>1, <2>1, OrderOfOne DEF OrdersAt
      <4>3. QED
        BY <4>2
    <3>3. QED
      BY <3>1, <3>2
  <2>4. t \notin strayed' => t \notin strayed
    BY <1>1
  <2>5. QED
    BY <1>1, <2>1, <2>2, <2>3, <2>4, InStepKept
<1>6. QED
  BY <1>1, <1>5 DEF StackInv

\* set_desync applies the caches that wait for nothing else.
LEMMA StackSetDesync ==
  ASSUME TreeInv, TreeInv', StatesInv, StackInv, NEW s \in Surfaces, SetDesync(s)
  PROVE  StackInv'
<1>1. /\ s \in role /\ mode[s] = "Synchronized" /\ mode' = [mode EXCEPT ![s] = "Desynchronized"]
      /\ UNCHANGED <<role, parent, want, strayed>>
  BY DEF SetDesync
<1>2. \A t \in Surfaces \ {s} : mode'[t] = mode[t]
  BY <1>1 DEF TreeInv
<1>3. \A t \in Surfaces : Sync'[t] => Sync[t]
  <2>1. \A t \in Surfaces \ {} :
            /\ t \in role' => t \in role
            /\ t \in role' /\ mode'[t] = "Synchronized" => mode[t] = "Synchronized"
            /\ HasParent(t)' => HasParent(t) /\ parent'[t] = parent[t] /\ parent[t] \notin {}
    BY <1>1, <1>2 DEF HasParent
  <2>2. Forest /\ Forest'
    BY DEF TreeInv
  <2>3. \A t \in Surfaces \ {} : Sync'[t] => Sync[t]
    BY <2>1, <2>2, SyncShrinks
  <2>4. QED
    BY <2>3
<1>4. CASE UNCHANGED states
  <2>1. ASSUME NEW t \in Surfaces PROVE OrdersAt(t)' /\ (t \notin strayed' => InStep(t)')
    <3>1. OrdersAt(t) /\ (t \notin strayed => InStep(t))
      BY DEF StackInv
    <3>2. Untouched(t)
      BY <1>1, <1>4, KinSame DEF Untouched, SameOrder, states
    <3>3. QED
      BY <1>1, <1>3, <3>1, <3>2, InStepKept
  <2>2. QED
    BY <1>1, <2>1 DEF StackInv
<1>5. CASE ~UNCHANGED states
  <2>1. PICK md : md = mode'
    OBVIOUS
  <2>2. PICK set : set = AppliedWith(s, md)
    OBVIOUS
  <2>3. /\ Apply(set, cached) /\ cached' = AppliedCaches(set, cached)
        /\ hasCache' = NoCache(set) /\ pending' = pending
    BY <1>5, <2>1, <2>2 DEF SetDesync
  <2>4. s \in set /\ set \in SUBSET Surfaces
    BY <2>2, AppliedUnfolds DEF TreeInv
  <2>5. \A t \in set \ {s} : Sync[t]
    <3>1. ASSUME NEW t \in set \ {s} PROVE Sync[t]
      <4>1. md[t] = mode[t]
        BY <1>2, <2>1, <2>4
      <4>2. QED
        BY <2>2, <4>1, SyncByMode DEF TreeInv
    <3>2. QED
      BY <3>1
  <2>6. OrdersApplied(set, cached) /\ OrdersLeft(set, cached, cached')
    BY <2>3, ApplyOrders, CachesLeft
  <2>7. OthersFollow(s, set)
    <3>1. \A t \in Surfaces \ {s} : pending'[t] = pending[t] /\ cached[t] = cached[t]
                                    /\ (t \in set <=> t \in set)
      BY <2>3
    <3>2. QED
      BY <1>1, <1>3, <2>3, <2>5, <2>6, <3>1, FollowFromParts
  <2>8. OrdersAt(s) /\ (s \notin strayed => InStep(s)) /\ Kin(s)' = Kin(s)
    BY <1>1, KinSame DEF StackInv
  <2>9. Sync[s]
    BY <1>1, SyncNow DEF SyncRule, TreeInv
  <2>10. FromCache(s)
    <3>1. hasCache'[s] = FALSE
      BY <2>3, <2>4 DEF NoCache
    <3>2. QED
      BY <3>1, <1>1, <2>3, <2>4, <2>6, <2>8 DEF FromCache, SameOrder, OrdersApplied, OrdersLeft
  <2>11. OrdersAt(s)' /\ (s \notin strayed' => InStep(s)')
    BY <1>1, <2>8, <2>9, <2>10, InStepApplied
  <2>12. \A t \in Surfaces \ {s} : OrdersAt(t)' /\ (t \notin strayed' => InStep(t)')
    BY <2>7, StackOthers
  <2>13. QED
    BY <1>1, <2>11, <2>12 DEF StackInv
<1>6. QED
  BY <1>4, <1>5

\* get_subsurface
LEMMA StackCreateSubSurface ==
  ASSUME TreeInv, TreeInv', StatesInv, StackInv, NEW s \in Surfaces, NEW p \in Surfaces,
         CreateSubSurface(s, p)
  PROVE  StackInv'
<1>1. /\ s \notin role /\ s # p
      /\ role' = role \cup {s} /\ parent' = [parent EXCEPT ![s] = p]
      /\ mode' = [mode EXCEPT ![s] = "Synchronized"]
      /\ pending' = [pending EXCEPT ![p].order = Append(@, s)]
      /\ cached' = [cached EXCEPT ![p].order = Append(@, s)]
      /\ current' = [current EXCEPT ![p].order = Append(@, s)]
      /\ want' = [want EXCEPT ![p] = Append(@, s)]
      /\ strayed' = strayed \cup {t \in Subtree(s) : Len(want[t]) > 1 \/ hasCache[t]}
      /\ hasCache' = hasCache
  BY DEF CreateSubSurface
<1>2. PICK X : X = Subtree(s)
  OBVIOUS
<1>3. /\ s \in X
      /\ \A t \in Surfaces \ X : t # s /\ (HasParent(t) => parent[t] \notin X)
  BY <1>2, SubtreeUnfolds DEF TreeInv
<1>4. \A t \in Surfaces \ {s} : parent'[t] = parent[t] /\ mode'[t] = mode[t]
                                /\ (t \in role' <=> t \in role)
  BY <1>1 DEF TreeInv
<1>5. parent'[s] = p
  BY <1>1 DEF TreeInv
<1>6. \A t \in Surfaces \ X : Sync'[t] => Sync[t]
  <2>1. \A t \in Surfaces \ X :
            /\ t \in role' => t \in role
            /\ t \in role' /\ mode'[t] = "Synchronized" => mode[t] = "Synchronized"
            /\ HasParent(t)' => HasParent(t) /\ parent'[t] = parent[t] /\ parent[t] \notin X
    BY <1>3, <1>4 DEF HasParent
  <2>2. QED
    BY <2>1, SyncShrinks DEF TreeInv
<1>7. Kin(p)' = Kin(p) \cup {s} /\ s \notin Kin(p) /\ \A t \in Surfaces \ {p} : Kin(t)' = Kin(t)
  <2>1. role \in SUBSET Surfaces
    BY DEF TreeInv
  <2>2. QED
    BY <1>1, <1>4, <1>5, <2>1 DEF Kin, Children
<1>8. want \in [Surfaces -> Seq(Surfaces)]
  BY DEF StackInv
<1>9. /\ pending'[p].order = Append(pending[p].order, s) /\ pending'[p].changed = pending[p].changed
      /\ cached'[p].order = Append(cached[p].order, s) /\ cached'[p].changed = cached[p].changed
      /\ current'[p].order = Append(current[p].order, s)
      /\ want'[p] = Append(want[p], s)
      /\ \A t \in Surfaces \ {p} : /\ pending'[t] = pending[t] /\ cached'[t] = cached[t]
                                   /\ current'[t] = current[t] /\ want'[t] = want[t]
  BY <1>1, <1>8 DEF StatesInv, AreStates, IsState
\* What is not exempt either is as synchronized as before or has one order.
<1>10. ASSUME NEW t \in Surfaces, t \notin strayed'
       PROVE  /\ InStep(t) /\ (t \in role => t \in role')
              /\ Sync'[t] => Sync[t] \/ cached[t].order = want[t]
  <2>1. OrdersAt(t) /\ InStep(t) /\ (t \in role => t \in role')
    BY <1>1, <1>10 DEF StackInv
  <2>2. CASE t \notin X
    BY <1>6, <2>1, <2>2
  <2>3. CASE t \in X
    <3>1. ~(Len(want[t]) > 1)
      BY <1>1, <1>2, <1>10, <2>3
    <3>2. cached[t].order = want[t]
      BY <3>1, <2>1, OrderOfOne DEF OrdersAt
    <3>3. QED
      BY <2>1, <3>2
  <2>4. QED
    BY <2>2, <2>3
<1>11. ASSUME NEW t \in Surfaces \ {p} PROVE OrdersAt(t)' /\ (t \notin strayed' => InStep(t)')
  <2>1. OrdersAt(t)
    BY DEF StackInv
  <2>2. Untouched(t)
    BY <1>1, <1>7, <1>9 DEF Untouched, SameOrder
  <2>3. QED
    BY <1>10, <2>1, <2>2, InStepKept
<1>12. OrdersAt(p)'
  <2>1. OrdersAt(p)
    BY DEF StackInv
  <2>2. s \in Surfaces \ Kin(p)
    BY <1>7
  <2>3. /\ IsOrder(Append(pending[p].order, s), Kin(p) \cup {s})
        /\ IsOrder(Append(cached[p].order, s), Kin(p) \cup {s})
        /\ IsOrder(Append(current[p].order, s), Kin(p) \cup {s})
        /\ IsOrder(Append(want[p], s), Kin(p) \cup {s})
    BY <2>1, <2>2, OrderWith DEF OrdersAt
  <2>4. QED
    BY <2>3, <1>7, <1>9 DEF OrdersAt
<1>13. ASSUME p \notin strayed' PROVE InStep(p)'
  <2>1. /\ InStep(p) /\ (p \in role => p \in role')
        /\ Sync'[p] => Sync[p] \/ cached[p].order = want[p]
    BY <1>10, <1>13
  <2>2. QED
    BY <2>1, <1>1, <1>9 DEF InStep
<1>14. want' \in [Surfaces -> Seq(Surfaces)]
  BY <1>1, <1>8
<1>15. QED
  BY <1>11, <1>12, <1>13, <1>14 DEF StackInv

\* removeChild takes s out of all the orders of t.
TakenFrom(t, s) ==
  /\ pending'[t].order = RemoveAll(pending[t].order, s) /\ pending'[t].changed = pending[t].changed
  /\ cached'[t].order = RemoveAll(cached[t].order, s) /\ cached'[t].changed = cached[t].changed
  /\ current'[t].order = RemoveAll(current[t].order, s)
  /\ want'[t] = RemoveAll(want[t], s)
  /\ hasCache'[t] = hasCache[t] /\ Kin(t)' = Kin(t) \ {s}

\* The orders of t go on agreeing without s.
LEMMA InStepTaken ==
  ASSUME NEW s, NEW t \in Surfaces, TakenFrom(t, s), OrdersAt(t), Sync'[t] => Sync[t],
         t \in role => t \in role'
  PROVE  OrdersAt(t)' /\ (InStep(t) => InStep(t)')
<1>1. OrdersAt(t)'
  BY OrderWithout DEF OrdersAt, TakenFrom
<1>2. ASSUME InStep(t) PROVE InStep(t)'
  BY <1>2 DEF InStep, TakenFrom
<1>3. QED
  BY <1>1, <1>2

\* Without, at a surface.
LEMMA WithoutAt ==
  ASSUME NEW st, AreStates(st), NEW s, NEW t \in Surfaces \ {s}
  PROVE  /\ Without(s, st)[t].order = RemoveAll(st[t].order, s)
         /\ Without(s, st)[t].changed = st[t].changed
<1>1. Without(s, st)[t] = [st[t] EXCEPT !.order = RemoveAll(@, s)]
  BY DEF Without
<1>2. QED
  BY <1>1 DEF AreStates, IsState

\* A surface is not its own child.
LEMMA NotOwnChild ==
  ASSUME TreeInv, NEW t \in Surfaces, HasParent(t)
  PROVE  parent[t] # t /\ parent[t] \in Surfaces
<1>1. PICK N \in Nat : \E d \in [Surfaces -> 0..N] :
          \A x \in Surfaces : HasParent(x) => parent[x] \in Surfaces /\ d[parent[x]] < d[x]
  BY DEF TreeInv, Forest
<1>2. PICK d \in [Surfaces -> 0..N] :
          \A x \in Surfaces : HasParent(x) => parent[x] \in Surfaces /\ d[parent[x]] < d[x]
  BY <1>1
<1>3. parent[t] \in Surfaces /\ d[parent[t]] < d[t] /\ d[t] \in Nat
  BY <1>2
<1>4. QED
  BY <1>3

\* Nobody becomes synchronized when links and roles go.
LEMMA SyncLess ==
  ASSUME TreeInv, TreeInv', mode' = mode,
         \A t \in Surfaces : /\ t \in role' => t \in role
                             /\ HasParent(t)' => HasParent(t) /\ parent'[t] = parent[t]
  PROVE  \A t \in Surfaces : Sync'[t] => Sync[t]
<1>1. \A t \in Surfaces \ {} :
            /\ t \in role' => t \in role
            /\ t \in role' /\ mode'[t] = "Synchronized" => mode[t] = "Synchronized"
            /\ HasParent(t)' => HasParent(t) /\ parent'[t] = parent[t] /\ parent[t] \notin {}
  OBVIOUS
<1>2. Forest /\ Forest'
  BY DEF TreeInv
<1>3. \A t \in Surfaces \ {} : Sync'[t] => Sync[t]
  BY <1>1, <1>2, SyncShrinks
<1>4. QED
  BY <1>3

\* ~SubSurfaceInterface: the surface loses its role; if it has a cache, it is
\* exempt from here on.
LEMMA StackDestroySubSurface ==
  ASSUME TreeInv, TreeInv', StatesInv, StackInv, NEW s \in Surfaces, DestroySubSurface(s)
  PROVE  StackInv'
<1>1. /\ s \in role /\ role' = role \ {s} /\ parent' = [parent EXCEPT ![s] = NoSurface]
      /\ pending' = Without(s, pending) /\ cached' = Without(s, cached)
      /\ current' = Without(s, current) /\ want' = WantWithout(s)
      /\ strayed' = strayed \cup {t \in {s} : hasCache[t]}
      /\ UNCHANGED <<mode, hasCache>>
  BY DEF DestroySubSurface
<1>2. /\ \A t \in Surfaces \ {s} : parent'[t] = parent[t] /\ (t \in role' <=> t \in role)
      /\ parent'[s] = NoSurface /\ s \notin role'
  BY <1>1 DEF TreeInv
<1>3. \A t \in Surfaces : Sync'[t] => Sync[t]
  <2>1. \A t \in Surfaces : /\ t \in role' => t \in role
                            /\ HasParent(t)' => HasParent(t) /\ parent'[t] = parent[t]
    BY <1>1, <1>2 DEF HasParent
  <2>2. QED
    BY <1>1, <2>1, SyncLess
<1>4. \A t \in Surfaces \ {s} : Kin(t)' = Kin(t) \ {s}
  <2>1. role \in SUBSET Surfaces
    BY DEF TreeInv
  <2>2. QED
    BY <1>1, <1>2, <2>1 DEF Kin, Children
<1>5. Kin(s)' = Kin(s)
  <2>1. role \in SUBSET Surfaces /\ parent \in [Surfaces -> Surfaces \cup {NoSurface}]
    BY DEF TreeInv
  <2>2. parent[s] # s
    BY SurfaceAssumption, NotOwnChild, <1>1 DEF HasParent
  <2>3. QED
    BY <1>1, <1>2, <2>1, <2>2, SurfaceAssumption DEF Kin, Children
<1>6. AreStates(pending) /\ AreStates(cached) /\ AreStates(current)
  BY DEF StatesInv
<1>7. ASSUME NEW t \in Surfaces \ {s} PROVE OrdersAt(t)' /\ (t \notin strayed' => InStep(t)')
  <2>1. want'[t] = RemoveAll(want[t], s)
    BY <1>1 DEF WantWithout
  <2>2. TakenFrom(t, s)
    BY <1>1, <1>4, <1>6, <2>1, WithoutAt DEF TakenFrom
  <2>3. OrdersAt(t) /\ (t \notin strayed => InStep(t))
    BY DEF StackInv
  <2>4. (t \in role => t \in role') /\ (t \notin strayed' => t \notin strayed)
    BY <1>1
  <2>5. QED
    BY <1>3, <2>2, <2>3, <2>4, InStepTaken
<1>8. OrdersAt(s)' /\ (s \notin strayed' => InStep(s)')
  <2>1. pending'[s] = pending[s] /\ cached'[s] = cached[s] /\ current'[s] = current[s]
        /\ want'[s] = want[s]
    BY <1>1 DEF Without, WantWithout
  <2>2. OrdersAt(s) /\ (s \notin strayed => InStep(s))
    BY DEF StackInv
  <2>3. OrdersAt(s)'
    BY <2>1, <2>2, <1>5 DEF OrdersAt
  <2>4. ASSUME s \notin strayed' PROVE InStep(s)'
    <3>1. ~hasCache[s] /\ s \notin strayed
      BY <1>1, <2>4
    <3>2. ~Sync'[s]
      BY <1>2, SyncNext DEF SyncRule, TreeInv
    <3>3. QED
      BY <1>1, <2>1, <2>2, <3>1, <3>2 DEF InStep
  <2>5. QED
    BY <2>3, <2>4
<1>9. want' \in [Surfaces -> Seq(Surfaces)]
  <2>1. \A t \in Surfaces : want'[t] \in Seq(Surfaces)
    BY <1>7, <1>8 DEF OrdersAt, IsOrder
  <2>2. want' = [t \in Surfaces |-> want'[t]]
    BY <1>1 DEF WantWithout
  <2>3. QED
    BY <2>1, <2>2
<1>10. QED
  BY <1>7, <1>8, <1>9 DEF StackInv

\* An order of nobody but t.
LEMMA OrderAlone ==
  ASSUME NEW t \in Surfaces
  PROVE  IsOrder(<<t>>, {t})
<1>1. <<t>> \in Seq(Surfaces) /\ Len(<<t>>) = 1 /\ <<t>>[1] = t /\ DOMAIN <<t>> = 1..1
  OBVIOUS
<1>2. QED
  BY <1>1 DEF IsOrder, NoRepetition, ToSet

\* ~SurfaceInterface
LEMMA StackDestroySurface ==
  ASSUME TreeInv, TreeInv', StatesInv, StackInv, NEW s \in Surfaces, DestroySurface(s)
  PROVE  StackInv'
<1>1. /\ role' = role \ {s}
      /\ parent' = [t \in Surfaces |-> IF s \in {t, parent[t]} THEN NoSurface ELSE parent[t]]
      /\ pending' = [Without(s, pending) EXCEPT ![s] = NewState(s)]
      /\ cached' = [Without(s, cached) EXCEPT ![s] = NewState(s)]
      /\ current' = [Without(s, current) EXCEPT ![s] = NewState(s)]
      /\ hasCache' = [hasCache EXCEPT ![s] = FALSE]
      /\ want' = [WantWithout(s) EXCEPT ![s] = <<s>>]
      /\ strayed' = strayed \ {s} /\ mode' = mode
  BY DEF DestroySurface
<1>2. \A t \in Surfaces \ {s} : parent'[t] = (IF parent[t] = s THEN NoSurface ELSE parent[t])
  BY <1>1
<1>3. \A t \in Surfaces : Sync'[t] => Sync[t]
  <2>1. \A t \in Surfaces : /\ t \in role' => t \in role
                            /\ HasParent(t)' => HasParent(t) /\ parent'[t] = parent[t]
    BY <1>1, <1>2 DEF HasParent
  <2>2. QED
    BY <1>1, <2>1, SyncLess
<1>4. \A t \in Surfaces \ {s} : Kin(t)' = Kin(t) \ {s}
  <2>1. role \in SUBSET Surfaces
    BY DEF TreeInv
  <2>2. QED
    BY <1>1, <1>2, <2>1, SurfaceAssumption DEF Kin, Children
<1>5. Kin(s)' = {s}
  <2>1. role \in SUBSET Surfaces
    BY DEF TreeInv
  <2>2. \A c \in role' : parent'[c] # s
    BY <1>1, <1>2, <2>1, SurfaceAssumption
  <2>3. QED
    BY <2>2 DEF Kin, Children
<1>6. AreStates(pending) /\ AreStates(cached) /\ AreStates(current)
  BY DEF StatesInv
<1>7. /\ DOMAIN Without(s, pending) = Surfaces /\ DOMAIN Without(s, cached) = Surfaces
      /\ DOMAIN Without(s, current) = Surfaces /\ DOMAIN WantWithout(s) = Surfaces
  BY DEF Without, WantWithout
<1>8. ASSUME NEW t \in Surfaces \ {s} PROVE OrdersAt(t)' /\ (t \notin strayed' => InStep(t)')
  <2>1. want'[t] = RemoveAll(want[t], s)
    BY <1>1 DEF WantWithout
  <2>2. /\ pending'[t] = Without(s, pending)[t] /\ cached'[t] = Without(s, cached)[t]
        /\ current'[t] = Without(s, current)[t] /\ hasCache'[t] = hasCache[t]
    BY <1>1, <1>7 DEF StatesInv
  <2>3. TakenFrom(t, s)
    BY <1>4, <1>6, <2>1, <2>2, WithoutAt DEF TakenFrom
  <2>4. OrdersAt(t) /\ (t \notin strayed => InStep(t))
    BY DEF StackInv
  <2>5. (t \in role => t \in role') /\ (t \notin strayed' => t \notin strayed)
    BY <1>1
  <2>6. QED
    BY <1>3, <2>3, <2>4, <2>5, InStepTaken
<1>9. OrdersAt(s)' /\ InStep(s)'
  <2>1. pending'[s] = NewState(s) /\ cached'[s] = NewState(s) /\ current'[s] = NewState(s)
        /\ want'[s] = <<s>> /\ hasCache'[s] = FALSE
    BY <1>1, <1>7 DEF StatesInv
  <2>2. NewState(s).order = <<s>> /\ NewState(s).changed = FALSE
    BY DEF NewState
  <2>3. OrdersAt(s)'
    BY <1>5, <2>1, <2>2, OrderAlone DEF OrdersAt
  <2>4. QED
    BY <2>1, <2>2, <2>3 DEF InStep
<1>10. want' \in [Surfaces -> Seq(Surfaces)]
  <2>1. \A t \in Surfaces : want'[t] \in Seq(Surfaces)
    BY <1>8, <1>9 DEF OrdersAt, IsOrder
  <2>2. want' = [t \in Surfaces |-> want'[t]]
    BY <1>1, <1>7
  <2>3. QED
    BY <2>1, <2>2
<1>11. QED
  BY <1>8, <1>9, <1>10 DEF StackInv

\* Every step keeps the invariant.
LEMMA StackKept ==
  ASSUME TreeInv, TreeInv', StatesInv, StackInv, [Next]_vars
  PROVE  StackInv'
<1>1. CASE UNCHANGED vars
  BY <1>1, StackIdle DEF vars, tree, states, history
<1>2. CASE FrameRendered
  BY <1>2, StackFrameRendered
<1>3. ASSUME NEW s \in Surfaces, NEW b \in BOOLEAN, Attach(s, b) PROVE StackInv'
  BY <1>3, StackAttach
<1>4. ASSUME NEW s \in Surfaces, NEW c \in Callbacks, Frame(s, c) PROVE StackInv'
  BY <1>4, StackFrame
<1>5. ASSUME NEW s \in Surfaces, NEW t \in Surfaces, NEW above \in BOOLEAN, Place(s, t, above) PROVE StackInv'
  BY <1>5, StackPlace
<1>6. ASSUME NEW s \in Surfaces, CommitToCache(s) PROVE StackInv'
  BY <1>6, StackCommitToCache
<1>7. ASSUME NEW s \in Surfaces, CommitThroughCache(s) PROVE StackInv'
  BY <1>7, StackCommitThroughCache
<1>8. ASSUME NEW s \in Surfaces, CommitPending(s) PROVE StackInv'
  BY <1>8, StackCommitPending
<1>9. ASSUME NEW s \in Surfaces, SetSync(s) PROVE StackInv'
  BY <1>9, StackSetSync
<1>10. ASSUME NEW s \in Surfaces, SetDesync(s) PROVE StackInv'
  BY <1>10, StackSetDesync
<1>11. ASSUME NEW s \in Surfaces, NEW p \in Surfaces, CreateSubSurface(s, p) PROVE StackInv'
  BY <1>11, StackCreateSubSurface
<1>12. ASSUME NEW s \in Surfaces, DestroySubSurface(s) PROVE StackInv'
  BY <1>12, StackDestroySubSurface
<1>13. ASSUME NEW s \in Surfaces, DestroySurface(s) PROVE StackInv'
  BY <1>13, StackDestroySurface
<1>14. ASSUME NEW s \in Surfaces, CreateSurface(s) PROVE StackInv'
  BY <1>14, StackIdle DEF CreateSurface, states, history
<1>15. QED
  BY <1>1, <1>2, <1>3, <1>4, <1>5, <1>6, <1>7, <1>8, <1>9, <1>10, <1>11, <1>12, <1>13, <1>14
     DEF Next

\* It holds at first.
LEMMA StackFirst == Init => StackInv
<1> SUFFICES ASSUME Init PROVE StackInv
  OBVIOUS
<1>1. ASSUME NEW t \in Surfaces PROVE OrdersAt(t) /\ InStep(t)
  <2>1. pending[t] = NewState(t) /\ cached[t] = NewState(t) /\ current[t] = NewState(t)
        /\ want[t] = <<t>> /\ hasCache[t] = FALSE /\ Kin(t) = {t}
    BY DEF Init, Kin, Children
  <2>2. NewState(t).order = <<t>> /\ NewState(t).changed = FALSE
    BY DEF NewState
  <2>3. OrdersAt(t)
    BY <2>1, <2>2, OrderAlone DEF OrdersAt
  <2>4. InStep(t)
    BY <2>1, <2>2 DEF InStep
  <2>5. QED
    BY <2>3, <2>4
<1>2. want \in [Surfaces -> Seq(Surfaces)]
  BY DEF Init
<1>3. QED
  BY <1>1, <1>2 DEF StackInv

\* The stacking order that place_above and place_below are relative to is the
\* one the client has built up, and once nothing of it is pending or cached it
\* is the one that is shown, in every tree of sub-surfaces and through every
\* order of commits, mode changes and destructions; but for the surfaces that
\* StackingAsAsked exempts.
THEOREM StackingAlwaysAsAsked == Spec => []StackingAsAsked
<1> DEFINE Inv == TreeInv /\ StatesOnce /\ StackInv
<1>1. Init => Inv
  BY FirstState, StackFirst
<1>2. Inv /\ [Next]_vars => Inv'
  BY TreeKept, StatesKept, StackKept DEF StatesOnce
<1>3. Inv => StackingAsAsked
  BY DEF StackInv, InStep, StackingAsAsked, TreeInv
<1>4. QED
  BY <1>1, <1>2, <1>3, PTL DEF Spec
=============================================================================
