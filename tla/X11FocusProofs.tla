--------------------------- MODULE X11FocusProofs ----------------------------
(***************************************************************************)
(* Proofs about X11Focus, for any set of windows and any number of events  *)
(* under way: no pointer to a window that is gone is kept, the focus is    *)
(* not left on the root, and once everything is handled the active window  *)
(* is the one that has the focus.                                          *)
(***************************************************************************)
EXTENDS X11Focus, FiniteSetTheorems, SequenceTheorems, WellFoundedInduction, TLAPS

-----------------------------------------------------------------------------
(* QList::removeAll.                                                       *)

\* Induction: a set of naturals that has 0, and with every number the next
\* one, has all of them.
LEMMA AllNaturals ==
  ASSUME NEW A \in SUBSET Nat, 0 \in A, \A i \in A : i + 1 \in A
  PROVE  A = Nat
<1> DEFINE R == {ss \in Nat \X Nat : ss[1] < ss[2]}
           B == Nat \ A
<1>1. SUFFICES ASSUME NEW x \in B PROVE FALSE
  OBVIOUS
<1>2. IsWellFoundedOn(R, Nat)
  BY NatLessThanWellFounded DEF OpToRel
<1>3. B \in SUBSET Nat
  OBVIOUS
<1> HIDE DEF B
<1>4. PICK n \in B : \A j \in B : ~(<<j, n>> \in R)
  BY <1>1, <1>2, <1>3, WFMin, Zenon
<1>5. n \in Nat /\ n \notin A
  BY DEF B
<1>6. n - 1 \in Nat
  BY <1>5
<1>7. <<n - 1, n>> \in R
  <2>1. <<n - 1, n>> \in Nat \X Nat /\ <<n - 1, n>>[1] = n - 1 /\ <<n - 1, n>>[2] = n
    BY <1>5, <1>6
  <2>2. n - 1 < n
    BY <1>5
  <2>3. QED
    BY <2>1, <2>2
<1>8. n - 1 \in A
  BY <1>4, <1>6, <1>7 DEF B
<1>9. (n - 1) + 1 \in A
  BY <1>8
<1>10. QED
  BY <1>5, <1>9

KeptStep(f, list, e, i) ==
  IF i = 0 THEN <<>>
  ELSE IF list[i] = e THEN f[i - 1] ELSE Append(f[i - 1], list[i])

KeptBy(f, S, list, e) ==
  /\ f \in [0..Len(list) -> Seq(S)]
  /\ \A i \in 0..Len(list) : f[i] = KeptStep(f, list, e, i)

\* The function that RemoveAll is defined with exists.
LEMMA KeptExists ==
  ASSUME NEW S, NEW list \in Seq(S), NEW e
  PROVE  \E f : KeptBy(f, S, list, e)
<1> DEFINE n == Len(list)
           UpTo(m) == \E f \in [0..n -> Seq(S)] :
                         \A i \in 0..n : i <= m => f[i] = KeptStep(f, list, e, i)
           A == {m \in Nat : UpTo(m)}
<1>0. n \in Nat /\ \A i \in 1..n : list[i] \in S
  OBVIOUS
<1> HIDE DEF n
<1>1. UpTo(0)
  <2> DEFINE f == [i \in 0..n |-> <<>>]
  <2>1. f \in [0..n -> Seq(S)]
    OBVIOUS
  <2>2. \A i \in 0..n : i <= 0 => f[i] = KeptStep(f, list, e, i)
    BY <1>0 DEF KeptStep
  <2>3. QED
    BY <2>1, <2>2
<1>2. ASSUME NEW m \in Nat, UpTo(m) PROVE UpTo(m + 1)
  <2>1. PICK f \in [0..n -> Seq(S)] : \A i \in 0..n : i <= m => f[i] = KeptStep(f, list, e, i)
    BY <1>2
  <2> DEFINE g == [i \in 0..n |-> KeptStep(f, list, e, i)]
  <2>2. ASSUME NEW i \in 0..n PROVE KeptStep(f, list, e, i) \in Seq(S)
    <3>1. CASE i = 0
      BY <3>1 DEF KeptStep
    <3>2. CASE i # 0
      <4>1. f[i - 1] \in Seq(S) /\ list[i] \in S
        BY <1>0, <3>2
      <4>2. QED
        BY <4>1, <3>2 DEF KeptStep
    <3>3. QED
      BY <3>1, <3>2
  <2>3. g \in [0..n -> Seq(S)]
    BY <2>2
  <2>4. ASSUME NEW i \in 0..n, i <= m + 1 PROVE g[i] = KeptStep(g, list, e, i)
    <3>1. g[i] = KeptStep(f, list, e, i)
      OBVIOUS
    <3>2. CASE i = 0
      BY <3>1, <3>2 DEF KeptStep
    <3>3. CASE i # 0
      <4>1. i - 1 \in 0..n /\ i - 1 <= m
        BY <1>0, <2>4, <3>3
      <4>2. g[i - 1] = KeptStep(f, list, e, i - 1)
        BY <4>1
      <4>3. f[i - 1] = KeptStep(f, list, e, i - 1)
        BY <4>1, <2>1
      <4>4. g[i - 1] = f[i - 1]
        BY <4>2, <4>3
      <4> HIDE DEF g
      <4>5. QED
        BY <3>1, <3>3, <4>4 DEF KeptStep
    <3>4. QED
      BY <3>2, <3>3
  <2> HIDE DEF g
  <2>5. QED
    BY <2>3, <2>4
<1>3. A = Nat
  <2> HIDE DEF UpTo
  <2>1. A \in SUBSET Nat /\ 0 \in A /\ \A m \in A : m + 1 \in A
    BY <1>1, <1>2
  <2>2. QED
    BY <2>1, AllNaturals
<1>4. UpTo(n)
  <2> HIDE DEF UpTo
  <2>1. QED
    BY <1>3, <1>0
<1>5. PICK f \in [0..n -> Seq(S)] : \A i \in 0..n : i <= n => f[i] = KeptStep(f, list, e, i)
  BY <1>4
<1>6. \A i \in 0..n : f[i] = KeptStep(f, list, e, i)
  BY <1>0, <1>5
<1>7. QED
  BY <1>6 DEF n, KeptBy

\* No element occurs twice.
NoRepetition(q) == \A i, j \in 1..Len(q) : q[i] = q[j] => i = j

\* removeAll leaves the other elements, each as often as before, and the
\* last one if it is another.
LEMMA RemoveAllEffect ==
  ASSUME NEW S, NEW list \in Seq(S), NEW e
  PROVE  /\ RemoveAll(list, e) \in Seq(S)
         /\ ToSet(RemoveAll(list, e)) = ToSet(list) \ {e}
         /\ NoRepetition(list) => NoRepetition(RemoveAll(list, e))
         /\ list # <<>> /\ Last(list) # e =>
              RemoveAll(list, e) # <<>> /\ Last(RemoveAll(list, e)) = Last(list)
<1> DEFINE n == Len(list)
           kept[i \in 0..Len(list)] ==
             IF i = 0 THEN <<>>
             ELSE IF list[i] = e THEN kept[i - 1] ELSE Append(kept[i - 1], list[i])
<1>0. n \in Nat /\ (\A i \in 1..n : list[i] \in S) /\ DOMAIN list = 1..n
  OBVIOUS
<1>1. PICK f : KeptBy(f, S, list, e)
  BY KeptExists
<1>2. f = [i \in 0..Len(list) |->
             IF i = 0 THEN <<>>
             ELSE IF list[i] = e THEN f[i - 1] ELSE Append(f[i - 1], list[i])]
  BY <1>1 DEF KeptStep, KeptBy
<1>3. kept = [i \in 0..Len(list) |->
             IF i = 0 THEN <<>>
             ELSE IF list[i] = e THEN kept[i - 1] ELSE Append(kept[i - 1], list[i])]
  BY <1>2, Zenon
<1>4. RemoveAll(list, e) = kept[n]
  BY Zenon DEF RemoveAll
<1>5. \A i \in 0..n : kept[i] = KeptStep(kept, list, e, i)
  <2> HIDE DEF kept
  <2>1. QED
    BY <1>3 DEF KeptStep
<1> HIDE DEF kept, n
<1> DEFINE Upto(i) == {list[j] : j \in 1..i}
           P(i) == /\ kept[i] \in Seq(S)
                   /\ ToSet(kept[i]) = Upto(i) \ {e}
                   /\ NoRepetition(list) => NoRepetition(kept[i])
           A == {i \in Nat : i <= n => P(i)}
<1>6. P(0)
  <2>1. kept[0] = <<>>
    BY <1>0, <1>5 DEF KeptStep
  <2>2. QED
    BY <2>1 DEF ToSet, NoRepetition
<1>7. ASSUME NEW i \in Nat, P(i), i + 1 <= n PROVE P(i + 1)
  <2>1. i + 1 \in 0..n /\ i + 1 # 0 /\ (i + 1) - 1 = i /\ i + 1 \in 1..n
    BY <1>0, <1>7
  <2>2. kept[i + 1] = IF list[i + 1] = e THEN kept[i] ELSE Append(kept[i], list[i + 1])
    BY <1>5, <2>1 DEF KeptStep
  <2>3. Upto(i + 1) = Upto(i) \cup {list[i + 1]}
    OBVIOUS
  <2>4. CASE list[i + 1] = e
    BY <1>7, <2>2, <2>3, <2>4
  <2>5. CASE list[i + 1] # e
    <3> DEFINE q == kept[i]
               x == list[i + 1]
    <3>1. kept[i + 1] = Append(q, x) /\ q \in Seq(S) /\ x \in S
      BY <1>0, <1>7, <2>1, <2>2, <2>5
    <3>2. /\ DOMAIN q = 1..Len(q) /\ Len(q) \in Nat
          /\ Append(q, x) \in Seq(S)
          /\ DOMAIN Append(q, x) = 1..(Len(q) + 1) /\ Len(Append(q, x)) = Len(q) + 1
          /\ Append(q, x)[Len(q) + 1] = x /\ \A k \in 1..Len(q) : Append(q, x)[k] = q[k]
      BY <3>1
    <3>3. ToSet(q) = Upto(i) \ {e}
      BY <1>7
    <3> HIDE DEF q, x
    <3>4. ToSet(Append(q, x)) = ToSet(q) \cup {x}
      BY <3>2 DEF ToSet
    <3>5. ToSet(Append(q, x)) = Upto(i + 1) \ {e}
      BY <2>3, <2>5, <3>3, <3>4 DEF x
    <3>6. ASSUME NoRepetition(list) PROVE NoRepetition(Append(q, x))
      <4>1. \A j \in 1..i : list[j] # x
        BY <3>6, <2>1, <1>0 DEF NoRepetition, x, n
      <4>2. x \notin ToSet(q)
        BY <4>1, <3>3
      <4>3. \A k \in 1..Len(q) : q[k] # x
        BY <4>2, <3>2 DEF ToSet
      <4>4. NoRepetition(q)
        BY <1>7, <3>6 DEF q
      <4>5. QED
        BY <4>3, <4>4, <3>2 DEF NoRepetition
    <3>7. QED
      BY <3>1, <3>2, <3>5, <3>6
  <2>6. QED
    BY <2>4, <2>5
<1>8. \A i \in 0..n : P(i)
  <2> HIDE DEF P
  <2>1. A \in SUBSET Nat /\ 0 \in A /\ \A i \in A : i + 1 \in A
    BY <1>0, <1>6, <1>7
  <2>2. A = Nat
    BY <2>1, AllNaturals
  <2>3. QED
    BY <2>2, <1>0
<1>9. Upto(n) = ToSet(list)
  BY <1>0 DEF ToSet
<1>10. ASSUME list # <<>>, Last(list) # e
       PROVE  kept[n] # <<>> /\ Last(kept[n]) = Last(list)
  <2>1. n \in 1..n /\ n \in 0..n /\ n # 0 /\ n - 1 \in 0..n /\ list[n] # e /\ list[n] \in S
    BY <1>0, <1>10 DEF Last, n
  <2>2. kept[n] = Append(kept[n - 1], list[n])
    BY <2>1, <1>5 DEF KeptStep
  <2>3. kept[n - 1] \in Seq(S)
    BY <2>1, <1>8
  <2> DEFINE q == kept[n - 1]
             x == list[n]
  <2>4. q \in Seq(S) /\ x \in S /\ kept[n] = Append(q, x) /\ Last(list) = x
    BY <2>1, <2>2, <2>3 DEF Last, n
  <2> HIDE DEF q, x
  <2>5. Append(q, x) # <<>> /\ Last(Append(q, x)) = x
    BY <2>4 DEF Last
  <2>6. QED
    BY <2>4, <2>5
<1>11. P(n)
  <2> HIDE DEF P
  <2>1. QED
    BY <1>0, <1>8
<1>12. QED
  BY <1>4, <1>9, <1>10, <1>11

\* A list without repetition is as long as its set of elements is large.
LEMMA LengthCounts ==
  ASSUME NEW S, NEW q \in Seq(S), NoRepetition(q)
  PROVE  Len(q) = Cardinality(ToSet(q))
<1>1. Len(q) \in Nat /\ DOMAIN q = 1..Len(q) /\ q = [i \in 1..Len(q) |-> q[i]]
  OBVIOUS
<1>2. q \in [1..Len(q) -> ToSet(q)]
  BY <1>1 DEF ToSet
<1>3. q \in Injection(1..Len(q), ToSet(q))
  <2>1. \A i, j \in DOMAIN q : q[i] = q[j] => i = j
    BY <1>1 DEF NoRepetition
  <2>2. QED
    BY <1>2, <2>1, Zenon DEF Injection, IsInjective
<1>4. q \in Surjection(1..Len(q), ToSet(q))
  BY <1>1, <1>2 DEF Surjection, ToSet
<1>5. ExistsBijection(1..Len(q), ToSet(q))
  BY <1>3, <1>4 DEF ExistsBijection, Bijection
<1>6. IsFiniteSet(1..Len(q)) /\ Cardinality(1..Len(q)) = Len(q)
  <2> DEFINE n == Len(q)
  <2>1. 1 \in Int /\ n \in Int
    BY <1>1
  <2> HIDE DEF n
  <2>2. IsFiniteSet(1..n) /\ Cardinality(1..n) = IF 1 > n THEN 0 ELSE n - 1 + 1
    BY <2>1, FS_Interval, Zenon
  <2>3. n \in Nat
    BY <1>1 DEF n
  <2>4. QED
    BY <2>2, <2>3 DEF n
<1>7. QED
  BY <1>5, <1>6, FS_Bijection

\* Appending an element.
LEMMA AppendEffect ==
  ASSUME NEW S, NEW q \in Seq(S), NEW x \in S
  PROVE  /\ Append(q, x) \in Seq(S) /\ ToSet(Append(q, x)) = ToSet(q) \cup {x}
         /\ Append(q, x) # <<>> /\ Last(Append(q, x)) = x
         /\ NoRepetition(q) /\ x \notin ToSet(q) => NoRepetition(Append(q, x))
<1>1. /\ DOMAIN q = 1..Len(q) /\ Len(q) \in Nat
      /\ Append(q, x) \in Seq(S)
      /\ DOMAIN Append(q, x) = 1..(Len(q) + 1) /\ Len(Append(q, x)) = Len(q) + 1
      /\ Append(q, x)[Len(q) + 1] = x /\ \A k \in 1..Len(q) : Append(q, x)[k] = q[k]
  OBVIOUS
<1>2. ToSet(Append(q, x)) = ToSet(q) \cup {x}
  BY <1>1 DEF ToSet
<1>3. ASSUME NoRepetition(q), x \notin ToSet(q) PROVE NoRepetition(Append(q, x))
  <2>1. \A k \in 1..Len(q) : q[k] # x
    BY <1>3, <1>1 DEF ToSet
  <2>2. QED
    BY <2>1, <1>3, <1>1 DEF NoRepetition
<1>4. Append(q, x) # <<>> /\ Last(Append(q, x)) = x
  BY <1>1 DEF Last
<1>5. QED
  BY <1>1, <1>2, <1>3, <1>4

\* Inserting an element before the last.
LEMMA InsertEffect ==
  ASSUME NEW S, NEW q \in Seq(S), NEW x \in S, Len(q) > 0
  PROVE  LET r == InsertAt(q, Len(q), x)
         IN  /\ r \in Seq(S) /\ ToSet(r) = ToSet(q) \cup {x}
             /\ r # <<>> /\ Last(r) = Last(q)
             /\ NoRepetition(q) /\ x \notin ToSet(q) => NoRepetition(r)
<1> DEFINE n == Len(q)
           r == InsertAt(q, n, x)
           a == SubSeq(q, 1, n - 1)
           b == SubSeq(q, n, n)
<1>1. n \in Nat /\ n > 0 /\ DOMAIN q = 1..n
  OBVIOUS
<1>2. a \in Seq(S) /\ Len(a) = n - 1 /\ \A i \in 1..(n - 1) : a[i] = q[i]
  BY <1>1
<1>3. b \in Seq(S) /\ Len(b) = 1 /\ b[1] = q[n]
  BY <1>1
<1>4. r = a \o <<x>> \o b
  BY DEF InsertAt
<1> HIDE DEF n, r, a, b
<1>5. /\ r \in Seq(S) /\ Len(r) = n + 1 /\ DOMAIN r = 1..(n + 1)
      /\ \A i \in 1..(n - 1) : r[i] = q[i]
      /\ r[n] = x /\ r[n + 1] = q[n]
  <2>1. <<x>> \in Seq(S) /\ Len(<<x>>) = 1 /\ <<x>>[1] = x
    OBVIOUS
  <2> DEFINE c == a \o <<x>>
  <2>2. c \in Seq(S) /\ Len(c) = n /\ c[n] = x /\ \A i \in 1..(n - 1) : c[i] = q[i]
    BY <1>1, <1>2, <2>1
  <2> HIDE DEF c
  <2>3. r = c \o b
    BY <1>4 DEF c
  <2>4. /\ r \in Seq(S) /\ Len(r) = Len(c) + Len(b)
        /\ \A i \in 1..Len(c) : r[i] = c[i]
        /\ r[Len(c) + 1] = b[1]
    <3>1. /\ r \in Seq(S) /\ Len(r) = Len(c) + Len(b)
          /\ \A i \in 1..(Len(c) + Len(b)) : r[i] = IF i <= Len(c) THEN c[i] ELSE b[i - Len(c)]
      BY <1>3, <2>2, <2>3, ConcatProperties
    <3>2. QED
      BY <3>1, <1>1, <1>3, <2>2
  <2>5. DOMAIN r = 1..Len(r)
    BY <2>4
  <2>6. r[n + 1] = q[n]
    BY <1>1, <1>3, <2>2, <2>4
  <2>7. QED
    BY <1>1, <1>3, <2>2, <2>4, <2>5, <2>6
<1>6. ToSet(r) = ToSet(q) \cup {x}
  <2>1. ASSUME NEW y \in ToSet(r) PROVE y \in ToSet(q) \cup {x}
    <3>1. PICK i \in 1..(n + 1) : y = r[i]
      BY <1>5 DEF ToSet
    <3>2. i \in 1..(n - 1) \/ i = n \/ i = n + 1
      BY <1>1
    <3>3. y = x \/ y = q[n] \/ \E k \in 1..(n - 1) : y = q[k]
      BY <3>1, <3>2, <1>5
    <3>4. QED
      BY <3>3, <1>1 DEF ToSet
  <2>2. ASSUME NEW y \in ToSet(q) PROVE y \in ToSet(r)
    <3>1. PICK i \in 1..n : y = q[i]
      BY <1>1 DEF ToSet
    <3>2. i \in 1..(n - 1) \/ i = n
      BY <1>1
    <3>3. \E k \in 1..(n + 1) : y = r[k]
      BY <3>1, <3>2, <1>5, <1>1
    <3>4. QED
      BY <3>3, <1>5 DEF ToSet
  <2>3. x \in ToSet(r)
    BY <1>5, <1>1 DEF ToSet
  <2>4. QED
    BY <2>1, <2>2, <2>3
<1>7. ASSUME NoRepetition(q), x \notin ToSet(q) PROVE NoRepetition(r)
  <2>1. \A k \in 1..n : q[k] # x
    BY <1>7, <1>1 DEF ToSet
  <2>2. \A i, j \in 1..n : q[i] = q[j] => i = j
    BY <1>7 DEF NoRepetition, n
  <2>3. \A i \in 1..(n + 1) : i \in 1..(n - 1) \/ i = n \/ i = n + 1
    BY <1>1
  <2>4. \A i \in 1..(n - 1) : i \in 1..n /\ i # n /\ r[i] = q[i]
    BY <1>1, <1>5
  <2>5. n \in 1..n
    BY <1>1
  <2>6. ASSUME NEW i \in 1..(n + 1), NEW j \in 1..(n + 1), r[i] = r[j] PROVE i = j
    BY <2>1, <2>2, <2>3, <2>4, <2>5, <2>6, <1>5
  <2>7. QED
    BY <2>6, <1>5 DEF NoRepetition
<1>8. r # <<>> /\ Last(r) = Last(q)
  BY <1>1, <1>5 DEF Last, n
<1>9. QED
  BY <1>5, <1>6, <1>7, <1>8 DEF r, n

\* What gotFocusIn leaves of the list: its end, if anything.
LEMMA GotFocusInEffect ==
  ASSUME NEW S, NEW q \in Seq(S), NEW w
  PROVE  /\ GotFocusIn(q, w) \in Seq(S) /\ ToSet(GotFocusIn(q, w)) \subseteq ToSet(q)
         /\ GotFocusIn(q, w) # <<>> => q # <<>> /\ Last(GotFocusIn(q, w)) = Last(q)
<1>1. CASE ~Contains(q, w)
  BY <1>1 DEF GotFocusIn
<1>2. CASE Contains(q, w)
  <2> DEFINE First(k) == q[k] = w /\ \A j \in 1..(k - 1) : q[j] # w
             i == CHOOSE k \in DOMAIN q : First(k)
             A == {k \in Nat : k <= Len(q) => \A j \in 1..k : q[j] # w}
  <2>1. DOMAIN q = 1..Len(q) /\ Len(q) \in Nat
    OBVIOUS
  <2>2. \E k \in DOMAIN q : First(k)
    <3>1. SUFFICES ASSUME ~\E k \in DOMAIN q : First(k) PROVE FALSE
      OBVIOUS
    <3>2. 0 \in A
      OBVIOUS
    <3>3. ASSUME NEW k \in A PROVE k + 1 \in A
      <4>1. SUFFICES ASSUME k + 1 <= Len(q) PROVE \A j \in 1..(k + 1) : q[j] # w
        BY <3>3
      <4>2. \A j \in 1..k : q[j] # w
        BY <3>3, <4>1
      <4>3. k + 1 \in DOMAIN q /\ (k + 1) - 1 = k
        BY <2>1, <4>1
      <4>4. ~First(k + 1)
        BY <4>3, <3>1
      <4>5. q[k + 1] # w
        BY <4>2, <4>3, <4>4
      <4>6. QED
        BY <4>2, <4>5
    <3>4. A = Nat
      <4> HIDE DEF A
      <4>1. A \in SUBSET Nat
        BY DEF A
      <4>2. QED
        BY <3>2, <3>3, <4>1, AllNaturals
    <3>5. \A j \in 1..Len(q) : q[j] # w
      BY <3>4, <2>1
    <3>6. QED
      BY <3>5, <1>2 DEF Contains
  <2>3. i \in 1..Len(q)
    <3> HIDE DEF First
    <3>1. i \in DOMAIN q
      BY <2>2
    <3>2. QED
      BY <3>1, <2>1
  <2>4. GotFocusIn(q, w) = SubSeq(q, i + 1, Len(q))
    BY <1>2, Zenon DEF GotFocusIn
  <2> HIDE DEF i
  <2> DEFINE r == SubSeq(q, i + 1, Len(q))
  <2>5. /\ r \in Seq(S) /\ Len(r) = Len(q) - i /\ DOMAIN r = 1..(Len(q) - i)
        /\ \A k \in 1..(Len(q) - i) : r[k] = q[i + k]
    <3> DEFINE a == i + 1
               n == Len(q)
    <3>1. a \in 1..(n + 1) /\ n \in Nat /\ a = i + 1 /\ i \in 1..n
      BY <2>1, <2>3
    <3>2. \A k \in a..n : q[k] \in S
      BY <2>1, <2>3
    <3> HIDE DEF a, n
    <3>3. r = SubSeq(q, a, n)
      BY DEF a, n
    <3>4. r \in Seq(S) /\ Len(r) = (IF a <= n THEN n - a + 1 ELSE 0) /\ \A k \in 1..(n - a + 1) : r[k] = q[a + k - 1]
      BY <3>1, <3>2, <3>3, SubSeqProperties DEF n
    <3>5. QED
      BY <3>1, <3>4 DEF n
  <2> HIDE DEF r
  <2>6. ToSet(r) \subseteq ToSet(q)
    <3>1. \A k \in 1..(Len(q) - i) : i + k \in DOMAIN q
      BY <2>1, <2>3
    <3>2. QED
      BY <3>1, <2>5 DEF ToSet
  <2>7. ASSUME r # <<>> PROVE q # <<>> /\ Last(r) = Last(q)
    <3>1. Len(r) # 0
      BY <2>5, <2>7
    <3>2. Len(q) - i \in 1..(Len(q) - i) /\ i + (Len(q) - i) = Len(q)
      <4> DEFINE n == Len(q)
      <4>1. n \in Nat /\ i \in 1..n /\ n - i # 0
        BY <3>1, <2>1, <2>3, <2>5
      <4> HIDE DEF n
      <4>2. n - i \in 1..(n - i) /\ i + (n - i) = n
        BY <4>1
      <4>3. QED
        BY <4>2 DEF n
    <3>3. q # <<>>
      BY <2>1, <2>3
    <3>4. r[Len(q) - i] = q[Len(q)]
      BY <3>2, <2>5
    <3>5. QED
      BY <3>3, <3>4, <2>5 DEF Last
  <2>8. QED
    BY <2>4, <2>5, <2>6, <2>7 DEF r
<1>3. QED
  BY <1>1, <1>2

-----------------------------------------------------------------------------
(* What the handlers are made of keeps the pointers.                       *)

EventsOnTheWay == Seq({"FocusIn", "FocusOut", "Closed"} \X (Windows \cup {PointerRoot}))

WindowState ==
  [active : Windows \cup {None}, last : Windows \cup {None},
   should : Seq(Windows), chain : Seq(Windows),
   managed : SUBSET Windows, hidden : SUBSET Windows, kept : SUBSET Windows,
   timers : SUBSET Windows, alive : SUBSET Windows,
   focus : Windows \cup {NullFocus, PointerRoot},
   events : EventsOnTheWay, lapses : SUBSET {"refused", "ignored"}]

\* No pointer but those of the chain is to a window that is not managed.
Pointers(z) ==
  /\ z \in WindowState
  /\ z.active \in z.managed \cup {None} /\ z.last \in z.managed \cup {None}
  /\ ToSet(z.should) \subseteq z.managed

\* From z to y the pointers stay right, and the chain and the windows as they are.
Keeps(z, y) == Pointers(y) /\ y.chain = z.chain /\ y.managed = z.managed

\* What the X server does, whatever it reports.
LEMMA FocusMovedKeeps ==
  ASSUME NEW z, Pointers(z), NEW t \in Windows \cup {NullFocus, PointerRoot}
  PROVE  Keeps(z, FocusMoved(z, t)) /\ FocusMoved(z, t).should = z.should
<1>1. CASE z.focus = t
  BY <1>1 DEF FocusMoved, Keeps, Pointers
<1>2. CASE z.focus # t
  <2> DEFINE out == IF z.focus \in Windows THEN <<FocusOut(z.focus)>> ELSE <<>>
             in == IF t # NullFocus THEN <<FocusIn(t)>> ELSE <<>>
             ev == z.events \o out \o in
  <2>1. out \in EventsOnTheWay
    <3>1. CASE z.focus \in Windows
      <4>1. FocusOut(z.focus) \in {"FocusIn", "FocusOut", "Closed"} \X (Windows \cup {PointerRoot})
        BY <3>1 DEF FocusOut
      <4>2. QED
        BY <3>1, <4>1 DEF EventsOnTheWay
    <3>2. CASE z.focus \notin Windows
      BY <3>2 DEF EventsOnTheWay
    <3>3. QED
      BY <3>1, <3>2
  <2>2. in \in EventsOnTheWay
    BY DEF EventsOnTheWay, FocusIn
  <2>3. ev \in EventsOnTheWay
    <3>1. z.events \in EventsOnTheWay
      BY DEF Pointers, WindowState
    <3> HIDE DEF out, in
    <3>2. QED
      BY <2>1, <2>2, <3>1 DEF EventsOnTheWay
  <2>4. FocusMoved(z, t) = [z EXCEPT !.focus = t, !.lapses = {}, !.events = ev]
    BY <1>2 DEF FocusMoved, Pointers, WindowState
  <2> HIDE DEF ev
  <2>5. QED
    BY <2>3, <2>4 DEF Keeps, Pointers, WindowState
<1>3. QED
  BY <1>1, <1>2

\* The server takes the focus from an unmapped window.
LEMMA RevertedKeeps ==
  ASSUME NEW z, Pointers(z), NEW w
  PROVE  Keeps(z, Reverted(z, w))
<1>1. Keeps(z, z)
  BY DEF Keeps
<1>2. Keeps(z, FocusMoved(z, PointerRoot))
  BY FocusMovedKeeps
<1>3. QED
  BY <1>1, <1>2 DEF Reverted

\* focusToNull
LEMMA FocusToNullKeeps ==
  ASSUME NEW z, Pointers(z)
  PROVE  Keeps(z, FocusToNull(z))
<1> DEFINE y == [z EXCEPT !.should = <<>>]
<1>1. Keeps(z, y)
  <2>1. ToSet(<<>>) = {} /\ <<>> \in Seq(Windows)
    BY DEF ToSet
  <2>2. QED
    BY <2>1 DEF Keeps, Pointers, WindowState
<1> HIDE DEF y
<1>2. Keeps(y, FocusMoved(y, NullFocus))
  BY <1>1, FocusMovedKeeps DEF Keeps
<1>3. FocusToNull(z) = FocusMoved(y, NullFocus)
  BY DEF FocusToNull, y
<1>4. QED
  BY <1>1, <1>2, <1>3 DEF Keeps

\* requestFocus appends only windows that are shown.
LEMMA RequestFocusKeeps ==
  ASSUME NEW z, Pointers(z), NEW w
  PROVE  Keeps(z, RequestFocus(z, w))
<1>1. CASE ~FocusSucceeds(z, w)
  <2>1. RequestFocus(z, w) = [z EXCEPT !.lapses = @ \cup {"refused"}]
    BY <1>1 DEF RequestFocus
  <2>2. QED
    BY <2>1 DEF Keeps, Pointers, WindowState
<1>2. CASE FocusSucceeds(z, w)
  <2> DEFINE y == FocusMoved(z, w)
             q == Append(y.should, w)
  <2>1. w \in z.managed /\ w \in Windows
    BY <1>2 DEF FocusSucceeds, isShown, Pointers, WindowState
  <2>2. Keeps(z, y)
    BY <2>1, FocusMovedKeeps
  <2> HIDE DEF y
  <2>3. y.should \in Seq(Windows) /\ ToSet(y.should) \subseteq y.managed
    BY <2>2 DEF Keeps, Pointers, WindowState
  <2>4. q \in Seq(Windows) /\ ToSet(q) \subseteq y.managed
    <3>1. q \in Seq(Windows) /\ ToSet(q) = ToSet(y.should) \cup {w}
      BY <2>1, <2>3, AppendEffect
    <3>2. QED
      BY <3>1, <2>1, <2>2, <2>3 DEF Keeps
  <2>5. RequestFocus(z, w) = [y EXCEPT !.should = q]
    BY <1>2, <2>2 DEF RequestFocus, y, Keeps, Pointers, WindowState
  <2> HIDE DEF q
  <2>6. QED
    BY <2>2, <2>4, <2>5 DEF Keeps, Pointers, WindowState
<1>3. QED
  BY <1>1, <1>2

\* setActive(false)
LEMMA SetInactiveKeeps ==
  ASSUME NEW z, Pointers(z), NEW w
  PROVE  Keeps(z, SetInactive(z, w))
BY DEF SetInactive, Keeps, Pointers, WindowState

\* What activateNextWindow does.
LEMMA PassOnKeeps ==
  ASSUME NEW z, Pointers(z), NEW w
  PROVE  Keeps(z, PassOn(z, w))
<1> DEFINE x == SetInactive(z, w)
           y == [x EXCEPT !.should = RemoveAll(@, w)]
           t == y.chain[Max(Candidates(y, w))]
<1>1. Keeps(z, x)
  BY SetInactiveKeeps
<1> HIDE DEF x
<1>2. Keeps(z, y)
  <2>1. x.should \in Seq(Windows) /\ ToSet(x.should) \subseteq x.managed
    BY <1>1 DEF Keeps, Pointers, WindowState
  <2>2. RemoveAll(x.should, w) \in Seq(Windows) /\ ToSet(RemoveAll(x.should, w)) \subseteq x.managed
    BY <2>1, RemoveAllEffect
  <2>3. QED
    BY <1>1, <2>2 DEF Keeps, Pointers, WindowState
<1>3. PassOn(z, w) = IF Candidates(y, w) = {} THEN FocusToNull(y) ELSE RequestFocus(y, t)
  BY DEF PassOn, x
<1> HIDE DEF y, t
<1>4. Keeps(y, FocusToNull(y)) /\ Keeps(y, RequestFocus(y, t))
  BY <1>2, FocusToNullKeeps, RequestFocusKeeps DEF Keeps
<1>5. QED
  BY <1>2, <1>3, <1>4 DEF Keeps

\* activateNextWindow
LEMMA ActivateNextKeeps ==
  ASSUME NEW z, Pointers(z), NEW w
  PROVE  Keeps(z, ActivateNextWindow(z, w))
<1>1. Keeps(z, z)
  BY DEF Keeps
<1>2. QED
  BY <1>1, PassOnKeeps DEF ActivateNextWindow

-----------------------------------------------------------------------------
(* The invariant.                                                          *)

\* Besides, the focus chain has every managed window once.
Linked(z) == Pointers(z) /\ ToSet(z.chain) = z.managed /\ NoRepetition(z.chain)

\* The chain stays right where it is left alone.
LEMMA KeepsLinked ==
  ASSUME NEW z, NEW y, Linked(z), Keeps(z, y)
  PROVE  Linked(y)
BY DEF Linked, Keeps

\* One step after another.
LEMMA KeepsComposes ==
  ASSUME NEW x, NEW y, NEW z, Keeps(x, y), Keeps(y, z)
  PROVE  Keeps(x, z)
BY DEF Keeps

\* setActiveWindow moves the window to the end of the chain.
LEMMA SetActiveLinked ==
  ASSUME NEW z, Linked(z), NEW w \in z.managed
  PROVE  Linked(SetActive(z, w))
<1>1. CASE z.active = w
  BY <1>1 DEF SetActive
<1>2. CASE z.active # w
  <2> DEFINE q == RemoveAll(z.chain, w)
             r == Append(q, w)
  <2>1. z.chain \in Seq(Windows) /\ w \in Windows
    BY DEF Linked, Pointers, WindowState
  <2>2. q \in Seq(Windows) /\ ToSet(q) = z.managed \ {w} /\ NoRepetition(q)
    BY <2>1, RemoveAllEffect DEF Linked
  <2> HIDE DEF q
  <2>3. r \in Seq(Windows) /\ ToSet(r) = z.managed /\ NoRepetition(r)
    <3>1. /\ r \in Seq(Windows) /\ ToSet(r) = ToSet(q) \cup {w}
          /\ NoRepetition(q) /\ w \notin ToSet(q) => NoRepetition(r)
      BY <2>1, <2>2, AppendEffect
    <3>2. QED
      BY <3>1, <2>2
  <2>4. SetActive(z, w) = [z EXCEPT !.active = w, !.last = w, !.chain = r]
    BY <1>2 DEF SetActive, q, Linked, Pointers, WindowState
  <2> HIDE DEF r
  <2>5. QED
    BY <2>1, <2>3, <2>4 DEF Linked, Pointers, WindowState
<1>3. QED
  BY <1>1, <1>2

\* removeWindow
LEMMA ForgottenLinked ==
  ASSUME NEW z, Linked(z), NEW w
  PROVE  Linked(Forgotten(z, w))
<1> DEFINE c == RemoveAll(z.chain, w)
           q == RemoveAll(z.should, w)
<1>1. z.chain \in Seq(Windows) /\ z.should \in Seq(Windows)
  BY DEF Linked, Pointers, WindowState
<1>2. c \in Seq(Windows) /\ ToSet(c) = z.managed \ {w} /\ NoRepetition(c)
  BY <1>1, RemoveAllEffect DEF Linked
<1>3. q \in Seq(Windows) /\ ToSet(q) \subseteq z.managed \ {w}
  <2>1. q \in Seq(Windows) /\ ToSet(q) = ToSet(z.should) \ {w}
    BY <1>1, RemoveAllEffect
  <2>2. QED
    BY <2>1 DEF Linked, Pointers
<1> DEFINE m == z.managed \ {w}
           h == z.hidden \ {w}
           k == z.kept \ {w}
           u == z.timers \ {w}
           a == IF z.active = w THEN None ELSE z.active
           l == IF z.last = w THEN None ELSE z.last
<1>4. Forgotten(z, w) = [z EXCEPT !.managed = m, !.hidden = h, !.kept = k, !.timers = u,
                                  !.active = a, !.last = l, !.should = q, !.chain = c]
  BY DEF Forgotten, Linked, Pointers, WindowState
<1>5. /\ m \in SUBSET Windows /\ h \in SUBSET Windows /\ k \in SUBSET Windows
      /\ u \in SUBSET Windows /\ a \in m \cup {None} /\ l \in m \cup {None}
      /\ a \in Windows \cup {None} /\ l \in Windows \cup {None}
  <2>1. z.managed \in SUBSET Windows /\ z.hidden \in SUBSET Windows /\ z.kept \in SUBSET Windows
        /\ z.timers \in SUBSET Windows
    BY DEF Linked, Pointers, WindowState
  <2>2. z.active \in z.managed \cup {None} /\ z.last \in z.managed \cup {None}
    BY DEF Linked, Pointers
  <2>3. QED
    BY <2>1, <2>2
<1>6. ToSet(c) = m /\ ToSet(q) \subseteq m /\ z \in WindowState
  BY <1>2, <1>3 DEF Linked, Pointers
<1> HIDE DEF c, q, m, h, k, u, a, l
<1>7. Forgotten(z, w) \in WindowState
  <2> DEFINE f == [z EXCEPT !.managed = m, !.hidden = h, !.kept = k, !.timers = u]
             g == [f EXCEPT !.active = a, !.last = l]
  <2>1. f \in WindowState
    BY <1>5, <1>6 DEF WindowState
  <2>2. g \in WindowState
    <3> HIDE DEF f
    <3>1. QED
      BY <1>5, <2>1 DEF WindowState
  <2>3. [g EXCEPT !.should = q, !.chain = c] \in WindowState
    <3> HIDE DEF g
    <3>1. QED
      BY <1>2, <1>3, <2>2 DEF WindowState
  <2>4. Forgotten(z, w) = [g EXCEPT !.should = q, !.chain = c]
    BY <1>4, <1>6 DEF WindowState
  <2>5. QED
    BY <2>3, <2>4
<1>8. /\ Forgotten(z, w).managed = m /\ Forgotten(z, w).chain = c
      /\ Forgotten(z, w).should = q
      /\ Forgotten(z, w).active = a /\ Forgotten(z, w).last = l
  BY <1>4, <1>6 DEF WindowState
<1>9. QED
  BY <1>2, <1>5, <1>6, <1>7, <1>8 DEF Linked, Pointers

\* insertWindowIntoChain
LEMMA InsertIntoChainEffect ==
  ASSUME NEW z, Pointers(z), NoRepetition(z.chain), NEW w \in Windows, w \notin ToSet(z.chain)
  PROVE  /\ InsertIntoChain(z, w) \in Seq(Windows)
         /\ ToSet(InsertIntoChain(z, w)) = ToSet(z.chain) \cup {w}
         /\ NoRepetition(InsertIntoChain(z, w))
<1> DEFINE q == z.chain
<1>1. q \in Seq(Windows) /\ NoRepetition(q) /\ w \notin ToSet(q)
  BY DEF Pointers, WindowState
<1>2. InsertIntoChain(z, w) = IF Len(q) > 0 /\ z.active = Last(q) THEN InsertAt(q, Len(q), w)
                              ELSE Append(q, w)
  BY DEF InsertIntoChain
<1> HIDE DEF q
<1>3. CASE Len(q) > 0 /\ z.active = Last(q)
  <2> DEFINE r == InsertAt(q, Len(q), w)
  <2>1. /\ r \in Seq(Windows) /\ ToSet(r) = ToSet(q) \cup {w}
        /\ NoRepetition(q) /\ w \notin ToSet(q) => NoRepetition(r)
    BY <1>1, <1>3, InsertEffect
  <2> HIDE DEF r
  <2>2. InsertIntoChain(z, w) = r
    BY <1>2, <1>3 DEF r
  <2>3. QED
    BY <1>1, <2>1, <2>2 DEF q
<1>4. CASE ~(Len(q) > 0 /\ z.active = Last(q))
  <2>1. InsertIntoChain(z, w) = Append(q, w)
    BY <1>2, <1>4
  <2>2. QED
    BY <1>1, <2>1, AppendEffect DEF q
<1>5. QED
  BY <1>3, <1>4

\* Taking an event.
LEMMA RestKeeps ==
  ASSUME Pointers(s), s.events # <<>>
  PROVE  Keeps(s, Rest)
<1>1. s.events \in EventsOnTheWay
  BY DEF Pointers, WindowState
<1>2. Tail(s.events) \in EventsOnTheWay
  BY <1>1 DEF EventsOnTheWay
<1>3. QED
  BY <1>2 DEF Rest, Keeps, Pointers, WindowState

\* internalShow
LEMMA ShownKeeps ==
  ASSUME NEW z, Pointers(z), NEW w
  PROVE  Keeps(z, Shown(z, w))
BY DEF Shown, Keeps, Pointers, WindowState

-----------------------------------------------------------------------------
(* Every action.                                                           *)

\* It holds at first.
LEMMA InitLinked == Init => Linked(s)
<1>1. ToSet(<<>>) = {} /\ NoRepetition(<<>>) /\ <<>> \in Seq(Windows) /\ <<>> \in EventsOnTheWay
  BY DEF ToSet, NoRepetition, EventsOnTheWay
<1>2. QED
  BY <1>1 DEF Init, Linked, Pointers, WindowState

\* activateWindow
LEMMA ActivateLinked ==
  ASSUME Linked(s), NEW w \in Windows, Activate(w)
  PROVE  Linked(s')
<1> DEFINE y == Shown(s, w)
<1>1. Keeps(s, y)
  BY ShownKeeps DEF Linked
<1>2. Keeps(y, RequestFocus(y, w))
  BY <1>1, RequestFocusKeeps DEF Keeps
<1>3. s' = RequestFocus(y, w)
  BY DEF Activate
<1>4. QED
  BY <1>1, <1>2, <1>3, KeepsComposes, KeepsLinked

\* updateVisibility, internalHide
LEMMA HideLinked ==
  ASSUME Linked(s), NEW w \in Windows, Hide(w)
  PROVE  Linked(s')
<1> DEFINE x == [s EXCEPT !.hidden = @ \cup {w}]
           y == Reverted(x, w)
<1>1. Keeps(s, x)
  BY DEF Linked, Keeps, Pointers, WindowState
<1>2. s' = ActivateNextWindow(y, w)
  BY DEF Hide
<1> HIDE DEF x
<1>3. Keeps(x, y)
  BY <1>1, RevertedKeeps DEF Keeps
<1> HIDE DEF y
<1>4. Keeps(y, ActivateNextWindow(y, w))
  BY <1>3, ActivateNextKeeps DEF Keeps
<1>5. QED
  BY <1>1, <1>2, <1>3, <1>4, KeepsComposes, KeepsLinked

\* updateVisibility, internalKeep
LEMMA KeepLinked ==
  ASSUME Linked(s), NEW w \in Windows, Keep(w)
  PROVE  Linked(s')
<1> DEFINE x == [s EXCEPT !.hidden = @ \cup {w}, !.kept = @ \cup {w}]
           y == IF s.active = w THEN FocusToNull(x) ELSE x
<1>1. Keeps(s, x)
  BY DEF Linked, Keeps, Pointers, WindowState
<1>2. s' = ActivateNextWindow(y, w)
  BY DEF Keep
<1> HIDE DEF x
<1>3. Keeps(s, y)
  <2>1. Keeps(x, FocusToNull(x))
    BY <1>1, FocusToNullKeeps DEF Keeps
  <2>2. Keeps(s, FocusToNull(x))
    BY <1>1, <2>1, KeepsComposes
  <2>3. QED
    BY <1>1, <2>2
<1> HIDE DEF y
<1>4. Keeps(y, ActivateNextWindow(y, w))
  BY <1>3, ActivateNextKeeps DEF Keeps
<1>5. QED
  BY <1>2, <1>3, <1>4, KeepsComposes, KeepsLinked

\* updateVisibility, internalShow
LEMMA ShowLinked ==
  ASSUME Linked(s), NEW w \in Windows, Show(w)
  PROVE  Linked(s')
<1>1. Keeps(s, Shown(s, w)) /\ s' = Shown(s, w)
  BY ShownKeeps DEF Linked, Show
<1>2. QED
  BY <1>1, KeepsLinked

\* A window that is managed anew is nowhere yet.
LEMMA ManageLinked ==
  ASSUME Linked(s), NEW w \in Windows, NEW allow \in BOOLEAN, Manage(w, allow)
  PROVE  Linked(s')
<1> DEFINE z == [s EXCEPT !.managed = @ \cup {w}, !.alive = @ \cup {w}]
           y == IF allow THEN RequestFocus(z, w) ELSE z
           c == InsertIntoChain(y, w)
<1>1. s' = [y EXCEPT !.chain = c] /\ w \notin s.managed
  BY DEF Manage
<1>2. Pointers(z) /\ z.chain = s.chain /\ z.managed = s.managed \cup {w}
  BY DEF Linked, Pointers, WindowState
<1> HIDE DEF z
<1>3. Keeps(z, y)
  <2>1. Keeps(z, z)
    BY <1>2 DEF Keeps
  <2>2. Keeps(z, RequestFocus(z, w))
    BY <1>2, RequestFocusKeeps
  <2>3. QED
    BY <2>1, <2>2
<1> HIDE DEF y
<1>4. Pointers(y) /\ y.chain = s.chain /\ y.managed = s.managed \cup {w}
  BY <1>2, <1>3 DEF Keeps
<1>5. NoRepetition(y.chain) /\ w \notin ToSet(y.chain) /\ ToSet(y.chain) = s.managed
  BY <1>1, <1>4 DEF Linked
<1>6. c \in Seq(Windows) /\ ToSet(c) = y.managed /\ NoRepetition(c)
  BY <1>4, <1>5, InsertIntoChainEffect
<1> HIDE DEF c
<1>7. QED
  BY <1>1, <1>4, <1>6 DEF Linked, Pointers, WindowState

\* A client sets the focus.
LEMMA ClientSetsFocusLinked ==
  ASSUME Linked(s), NEW t \in Windows \cup {PointerRoot}, ClientSetsFocus(t)
  PROVE  Linked(s')
<1>1. Keeps(s, FocusMoved(s, t)) /\ s' = FocusMoved(s, t)
  BY FocusMovedKeeps DEF Linked, ClientSetsFocus
<1>2. QED
  BY <1>1, KeepsLinked

\* A client closes its window.
LEMMA ClientClosesLinked ==
  ASSUME Linked(s), NEW w \in Windows, ClientCloses(w)
  PROVE  Linked(s')
<1> DEFINE ev == Append(s.events, Closed(w))
           x == [s EXCEPT !.alive = s.alive \ {w}, !.events = ev]
<1>1. s.events \in EventsOnTheWay
  BY DEF Linked, Pointers, WindowState
<1>2. ev \in EventsOnTheWay
  <2>1. Closed(w) \in {"FocusIn", "FocusOut", "Closed"} \X (Windows \cup {PointerRoot})
    BY DEF Closed
  <2>2. QED
    BY <1>1, <2>1 DEF EventsOnTheWay
<1>3. s' = Reverted(x, w)
  BY DEF ClientCloses
<1> HIDE DEF ev
<1>4. Keeps(s, x)
  BY <1>2 DEF Linked, Keeps, Pointers, WindowState
<1> HIDE DEF x
<1>5. Keeps(x, Reverted(x, w))
  BY <1>4, RevertedKeeps DEF Keeps
<1>6. QED
  BY <1>3, <1>4, <1>5, KeepsComposes, KeepsLinked

\* focusInEvent
LEMMA HandleFocusInLinked ==
  ASSUME Linked(s), NEW w \in Windows, HandleFocusIn(w)
  PROVE  Linked(s')
<1>1. Keeps(s, Rest)
  BY RestKeeps DEF Linked, HandleFocusIn, Arrives
<1>2. CASE ~isShown(s, w)
  <2> DEFINE y == [Rest EXCEPT !.lapses = IF s.focus = w THEN @ \cup {"ignored"} ELSE @]
  <2>1. s' = y
    BY <1>2 DEF HandleFocusIn
  <2>2. Keeps(s, y)
    BY <1>1 DEF Keeps, Pointers, WindowState
  <2> HIDE DEF y
  <2>3. QED
    BY <2>1, <2>2, KeepsLinked
<1>3. CASE isShown(s, w)
  <2> DEFINE z == [Rest EXCEPT !.timers = {}, !.should = GotFocusIn(@, w)]
             t == RestoreTarget(z)
  <2>1. s' = RequestFocus(z, t) \/ s' = SetActive(z, w)
    BY <1>3 DEF HandleFocusIn
  <2>2. Keeps(s, z)
    <3>1. Rest.should \in Seq(Windows) /\ ToSet(Rest.should) \subseteq Rest.managed
      BY <1>1 DEF Keeps, Pointers, WindowState
    <3>2. GotFocusIn(Rest.should, w) \in Seq(Windows) /\ ToSet(GotFocusIn(Rest.should, w)) \subseteq Rest.managed
      BY <3>1, GotFocusInEffect
    <3>3. QED
      BY <1>1, <3>2 DEF Keeps, Pointers, WindowState
  <2> HIDE DEF z, t
  <2>3. Linked(z) /\ w \in z.managed
    BY <1>3, <2>2, KeepsLinked DEF Keeps, isShown
  <2>4. Linked(SetActive(z, w))
    BY <2>3, SetActiveLinked
  <2>5. Linked(RequestFocus(z, t))
    <3>1. Keeps(z, RequestFocus(z, t))
      BY <2>3, RequestFocusKeeps DEF Linked
    <3>2. QED
      BY <2>3, <3>1, KeepsLinked
  <2>6. QED
    BY <2>1, <2>4, <2>5
<1>4. QED
  BY <1>2, <1>3

\* focusOutEvent
LEMMA HandleFocusOutLinked ==
  ASSUME Linked(s), NEW w \in Windows, HandleFocusOut(w)
  PROVE  Linked(s')
<1>1. Keeps(s, Rest)
  BY RestKeeps DEF Linked, HandleFocusOut, Arrives
<1>2. Keeps(s, [Rest EXCEPT !.timers = @ \cup {w}])
  BY <1>1 DEF Keeps, Pointers, WindowState
<1>3. Keeps(s, s')
  BY <1>1, <1>2 DEF HandleFocusOut
<1>4. QED
  BY <1>3, KeepsLinked

\* destroyWindow and releaseWindow
LEMMA HandleClosedLinked ==
  ASSUME Linked(s), NEW w \in Windows, HandleClosed(w)
  PROVE  Linked(s')
<1> DEFINE x == [Rest EXCEPT !.hidden = @ \cup {w}]
           y == ActivateNextWindow(x, w)
<1>1. Keeps(s, Rest)
  BY RestKeeps DEF Linked, HandleClosed, Arrives
<1>2. Keeps(s, x)
  BY <1>1 DEF Keeps, Pointers, WindowState
<1>3. s' = Forgotten(y, w)
  BY DEF HandleClosed
<1> HIDE DEF x
<1>4. Keeps(x, y)
  BY <1>2, ActivateNextKeeps DEF Keeps
<1> HIDE DEF y
<1>5. Linked(y)
  BY <1>2, <1>4, KeepsComposes, KeepsLinked
<1>6. QED
  BY <1>3, <1>5, ForgottenLinked

\* FocusIn of the root window.
LEMMA HandleRootFocusInLinked ==
  ASSUME Linked(s), HandleRootFocusIn
  PROVE  Linked(s')
<1> DEFINE w == mostRecentlyActivatedWindow(s)
<1>1. Keeps(s, Rest)
  BY RestKeeps DEF Linked, HandleRootFocusIn, Arrives
<1>2. s' = Rest \/ s' = RequestFocus(Rest, w) \/ s' = ActivateNextWindow(Rest, None)
  BY DEF HandleRootFocusIn
<1> HIDE DEF w
<1>3. Keeps(Rest, RequestFocus(Rest, w)) /\ Keeps(Rest, ActivateNextWindow(Rest, None))
  BY <1>1, RequestFocusKeeps, ActivateNextKeeps DEF Keeps
<1>4. Keeps(s, s')
  BY <1>1, <1>2, <1>3, KeepsComposes
<1>5. QED
  BY <1>4, KeepsLinked

\* m_focusOutTimer
LEMMA TimeoutLinked ==
  ASSUME Linked(s), NEW w \in Windows, FocusOutTimeout(w)
  PROVE  Linked(s')
<1> DEFINE x == [s EXCEPT !.timers = @ \ {w}]
<1>1. Keeps(s, x)
  BY DEF Linked, Keeps, Pointers, WindowState
<1>2. s' = SetInactive(x, w)
  BY DEF FocusOutTimeout
<1> HIDE DEF x
<1>3. Keeps(x, SetInactive(x, w))
  BY <1>1, SetInactiveKeeps DEF Keeps
<1>4. QED
  BY <1>1, <1>2, <1>3, KeepsComposes, KeepsLinked

\* Every step keeps the invariant.
LEMMA NextLinked == Linked(s) /\ [Next]_s => Linked(s')
<1> SUFFICES ASSUME Linked(s), [Next]_s PROVE Linked(s')
  OBVIOUS
<1>1. CASE Move
  BY <1>1, ActivateLinked, HideLinked, KeepLinked, ShowLinked, ClientClosesLinked, ManageLinked,
     ClientSetsFocusLinked DEF Move
<1>2. CASE Handle
  BY <1>2, HandleFocusInLinked, HandleFocusOutLinked, HandleClosedLinked, HandleRootFocusInLinked
     DEF Handle
<1>3. CASE Timeout
  BY <1>3, TimeoutLinked DEF Timeout
<1>4. CASE UNCHANGED s
  BY <1>4
<1>5. QED
  BY <1>1, <1>2, <1>3, <1>4 DEF Next

\* It says what the property does, which counts.
LEMMA LinkedImplies == Linked(s) => NoDanglingWindow
<1> SUFFICES ASSUME Linked(s) PROVE NoDanglingWindow
  OBVIOUS
<1>1. s.chain \in Seq(Windows) /\ NoRepetition(s.chain) /\ ToSet(s.chain) = s.managed
  BY DEF Linked, Pointers, WindowState
<1>2. Len(s.chain) = Cardinality(s.managed)
  BY <1>1, LengthCounts
<1>3. QED
  BY <1>1, <1>2 DEF Linked, Pointers, NoDanglingWindow

\* m_activeWindow, m_lastActiveWindow and should_get_focus never hold a
\* window that removeWindow has let go, whatever is hidden, closed, managed
\* or given the focus in whatever order, and FocusChain has every managed
\* window exactly once.
THEOREM NoWindowDangles == Spec => []NoDanglingWindow
<1>1. Init => Linked(s)
  BY InitLinked
<1>2. Linked(s) /\ [Next]_s => Linked(s)'
  BY NextLinked DEF Linked, Pointers, WindowState, EventsOnTheWay
<1>3. Linked(s) => NoDanglingWindow
  BY LinkedImplies
<1>4. QED
  BY <1>1, <1>2, <1>3, PTL DEF Spec

-----------------------------------------------------------------------------
(* The focus does not stay on the root.                                    *)

\* If the focus is on the root, KWin has tried to move it or will hear of it.
RootHeard(z) ==
  z.focus = PointerRoot =>
     \/ "refused" \in z.lapses
     \/ \E i \in DOMAIN z.events : z.events[i] = FocusIn(PointerRoot)

\* A move of the focus is reported, unless it is to the null window.
LEMMA FocusMovedHeard ==
  ASSUME NEW z, Pointers(z), NEW t \in Windows \cup {NullFocus, PointerRoot}
  PROVE  /\ RootHeard(z) => RootHeard(FocusMoved(z, t))
         /\ t # PointerRoot => RootHeard(FocusMoved(z, t))
         /\ FocusMoved(z, t).focus = t
<1>1. CASE z.focus = t
  BY <1>1 DEF FocusMoved, RootHeard
<1>2. CASE z.focus # t
  <2> DEFINE out == IF z.focus \in Windows THEN <<FocusOut(z.focus)>> ELSE <<>>
             in == IF t # NullFocus THEN <<FocusIn(t)>> ELSE <<>>
             ev == z.events \o out \o in
             y == [z EXCEPT !.focus = t, !.lapses = {}, !.events = ev]
  <2>1. FocusMoved(z, t) = y
    BY <1>2 DEF FocusMoved, Pointers, WindowState
  <2>2. y.focus = t /\ y.events = ev
    <3> HIDE DEF ev
    <3>1. QED
      BY DEF Pointers, WindowState
  <2>3. ASSUME t = PointerRoot PROVE \E i \in DOMAIN ev : ev[i] = FocusIn(PointerRoot)
    <3> DEFINE E == {"FocusIn", "FocusOut", "Closed"} \X (Windows \cup {PointerRoot})
               a == z.events \o out
    <3>1. in = <<FocusIn(PointerRoot)>>
      BY <2>3, FocusAssumption
    <3>2. FocusIn(PointerRoot) \in E
      BY DEF FocusIn
    <3>3. z.events \in Seq(E)
      BY DEF Pointers, WindowState, EventsOnTheWay
    <3>4. out \in Seq(E)
      <4>1. CASE z.focus \in Windows
        <5>1. FocusOut(z.focus) \in E
          BY <4>1 DEF FocusOut
        <5> HIDE DEF E
        <5>2. QED
          BY <4>1, <5>1
      <4>2. CASE z.focus \notin Windows
        BY <4>2
      <4>3. QED
        BY <4>1, <4>2
    <3> HIDE DEF E, in, out
    <3>5. a \in Seq(E)
      BY <3>3, <3>4
    <3> HIDE DEF a
    <3>6. ev = a \o <<FocusIn(PointerRoot)>>
      BY <3>1 DEF a
    <3>7. Len(a) \in Nat /\ DOMAIN (a \o <<FocusIn(PointerRoot)>>) = 1..(Len(a) + 1)
          /\ (a \o <<FocusIn(PointerRoot)>>)[Len(a) + 1] = FocusIn(PointerRoot)
      BY <3>2, <3>5
    <3>8. QED
      BY <3>6, <3>7
  <2>4. RootHeard(y)
    <3> HIDE DEF y, ev
    <3>1. QED
      BY <2>2, <2>3 DEF RootHeard
  <2>5. QED
    BY <2>1, <2>2, <2>4
<1>3. QED
  BY <1>1, <1>2

\* Nothing the property is about changes.
SameServer(z, y) == y.focus = z.focus /\ y.events = z.events /\ y.lapses = z.lapses

\* Then the root is heard of as before.
LEMMA SameHeard ==
  ASSUME NEW z, NEW y, SameServer(z, y), RootHeard(z)
  PROVE  RootHeard(y)
BY DEF SameServer, RootHeard

\* The focus of a window that is unmapped reverts to the root.
LEMMA RevertedHeard ==
  ASSUME NEW z, Pointers(z), NEW w, RootHeard(z)
  PROVE  RootHeard(Reverted(z, w))
BY FocusMovedHeard DEF Reverted

\* focusToNull
LEMMA FocusToNullHeard ==
  ASSUME NEW z, Pointers(z)
  PROVE  RootHeard(FocusToNull(z))
<1> DEFINE y == [z EXCEPT !.should = <<>>]
<1>1. Pointers(y)
  <2>1. ToSet(<<>>) = {} /\ <<>> \in Seq(Windows)
    BY DEF ToSet
  <2>2. QED
    BY <2>1 DEF Pointers, WindowState
<1>2. FocusToNull(z) = FocusMoved(y, NullFocus)
  BY DEF FocusToNull
<1> HIDE DEF y
<1>3. QED
  BY <1>1, <1>2, FocusMovedHeard, FocusAssumption

\* requestFocus moves the focus to a window or is refused.
LEMMA RequestFocusHeard ==
  ASSUME NEW z, Pointers(z), NEW w
  PROVE  RootHeard(RequestFocus(z, w))
<1>1. CASE ~FocusSucceeds(z, w)
  <2>1. RequestFocus(z, w) = [z EXCEPT !.lapses = @ \cup {"refused"}]
    BY <1>1 DEF RequestFocus
  <2>2. QED
    BY <2>1 DEF RootHeard, Pointers, WindowState
<1>2. CASE FocusSucceeds(z, w)
  <2> DEFINE y == FocusMoved(z, w)
             q == Append(y.should, w)
  <2>1. w \in Windows
    BY <1>2 DEF FocusSucceeds, isShown, Pointers, WindowState
  <2>2. y.focus = w /\ Pointers(y)
    BY <2>1, FocusMovedHeard, FocusMovedKeeps DEF Keeps
  <2> HIDE DEF y
  <2>3. RequestFocus(z, w) = [y EXCEPT !.should = q]
    BY <1>2, <2>2 DEF RequestFocus, y, Pointers, WindowState
  <2> HIDE DEF q
  <2>4. RequestFocus(z, w).focus = w
    BY <2>2, <2>3 DEF Pointers, WindowState
  <2>5. QED
    BY <2>1, <2>4, FocusAssumption DEF RootHeard
<1>3. QED
  BY <1>1, <1>2

\* What activateNextWindow does.
LEMMA PassOnHeard ==
  ASSUME NEW z, Pointers(z), NEW w
  PROVE  RootHeard(PassOn(z, w))
<1> DEFINE x == SetInactive(z, w)
           y == [x EXCEPT !.should = RemoveAll(@, w)]
           t == y.chain[Max(Candidates(y, w))]
<1>1. Pointers(x)
  BY SetInactiveKeeps DEF Keeps
<1> HIDE DEF x
<1>2. Pointers(y)
  <2>1. x.should \in Seq(Windows) /\ ToSet(x.should) \subseteq x.managed
    BY <1>1 DEF Pointers, WindowState
  <2>2. RemoveAll(x.should, w) \in Seq(Windows) /\ ToSet(RemoveAll(x.should, w)) \subseteq x.managed
    BY <2>1, RemoveAllEffect
  <2>3. QED
    BY <1>1, <2>2 DEF Pointers, WindowState
<1>3. PassOn(z, w) = IF Candidates(y, w) = {} THEN FocusToNull(y) ELSE RequestFocus(y, t)
  BY DEF PassOn, x
<1> HIDE DEF y, t
<1>4. QED
  BY <1>2, <1>3, FocusToNullHeard, RequestFocusHeard

\* activateNextWindow
LEMMA ActivateNextHeard ==
  ASSUME NEW z, Pointers(z), NEW w, RootHeard(z) \/ w = z.active
  PROVE  RootHeard(ActivateNextWindow(z, w))
BY PassOnHeard DEF ActivateNextWindow

\* An event that is not the report of the root's is taken.
LEMMA RestHeard ==
  ASSUME Pointers(s), s.events # <<>>, Head(s.events) # FocusIn(PointerRoot), RootHeard(s)
  PROVE  RootHeard(Rest)
<1> DEFINE e == s.events
           q == Tail(e)
<1>1. e \in EventsOnTheWay
  BY DEF Pointers, WindowState
<1>2. /\ Len(e) \in Nat /\ DOMAIN e = 1..Len(e) /\ Head(e) = e[1]
      /\ DOMAIN q = 1..(Len(e) - 1) /\ \A i \in 1..(Len(e) - 1) : q[i] = e[i + 1]
  BY <1>1 DEF EventsOnTheWay
<1>3. Rest.events = q /\ Rest.focus = s.focus /\ Rest.lapses = s.lapses
  BY DEF Rest, Pointers, WindowState
<1>4. ASSUME NEW i \in DOMAIN e, e[i] = FocusIn(PointerRoot)
      PROVE  \E j \in DOMAIN q : q[j] = FocusIn(PointerRoot)
  <2>1. i # 1 /\ i - 1 \in 1..(Len(e) - 1) /\ (i - 1) + 1 = i
    BY <1>2, <1>4
  <2>2. i - 1 \in DOMAIN q /\ q[i - 1] = FocusIn(PointerRoot)
    BY <1>2, <1>4, <2>1
  <2>3. QED
    BY <2>2
<1> HIDE DEF q
<1>5. QED
  BY <1>3, <1>4 DEF RootHeard

\* Every step of users and clients.
LEMMA MoveHeard ==
  ASSUME Linked(s), RootHeard(s), Move
  PROVE  RootHeard(s')
<1>0. Pointers(s)
  BY DEF Linked
<1>1. ASSUME NEW w \in Windows, Activate(w) PROVE RootHeard(s')
  <2>1. Pointers(Shown(s, w))
    BY <1>0, ShownKeeps DEF Keeps
  <2>2. QED
    BY <1>1, <2>1, RequestFocusHeard DEF Activate
<1>2. ASSUME NEW w \in Windows, Hide(w) PROVE RootHeard(s')
  <2> DEFINE x == [s EXCEPT !.hidden = @ \cup {w}]
  <2>1. Pointers(x) /\ SameServer(s, x)
    BY <1>0 DEF Pointers, WindowState, SameServer
  <2>2. s' = ActivateNextWindow(Reverted(x, w), w)
    BY <1>2 DEF Hide
  <2> HIDE DEF x
  <2>3. Pointers(Reverted(x, w)) /\ RootHeard(Reverted(x, w))
    BY <2>1, SameHeard, RevertedKeeps, RevertedHeard DEF Keeps
  <2>4. QED
    BY <2>2, <2>3, ActivateNextHeard
<1>3. ASSUME NEW w \in Windows, Keep(w) PROVE RootHeard(s')
  <2> DEFINE x == [s EXCEPT !.hidden = @ \cup {w}, !.kept = @ \cup {w}]
             y == IF s.active = w THEN FocusToNull(x) ELSE x
  <2>1. Pointers(x) /\ SameServer(s, x)
    BY <1>0 DEF Pointers, WindowState, SameServer
  <2>2. s' = ActivateNextWindow(y, w)
    BY <1>3 DEF Keep
  <2> HIDE DEF x
  <2>3. Pointers(y) /\ RootHeard(y)
    BY <2>1, SameHeard, FocusToNullKeeps, FocusToNullHeard DEF Keeps
  <2> HIDE DEF y
  <2>4. QED
    BY <2>2, <2>3, ActivateNextHeard
<1>4. ASSUME NEW w \in Windows, Show(w) PROVE RootHeard(s')
  <2>1. s' = Shown(s, w)
    BY <1>4 DEF Show
  <2>2. SameServer(s, Shown(s, w))
    BY <1>0 DEF Shown, SameServer, Pointers, WindowState
  <2>3. QED
    BY <2>1, <2>2, SameHeard
<1>5. ASSUME NEW w \in Windows, ClientCloses(w) PROVE RootHeard(s')
  <2> DEFINE ev == Append(s.events, Closed(w))
             x == [s EXCEPT !.alive = s.alive \ {w}, !.events = ev]
  <2>1. s.events \in EventsOnTheWay
    BY <1>0 DEF Pointers, WindowState
  <2>2. Closed(w) \in {"FocusIn", "FocusOut", "Closed"} \X (Windows \cup {PointerRoot})
    BY DEF Closed
  <2>3. /\ ev \in EventsOnTheWay /\ DOMAIN s.events \subseteq DOMAIN ev
        /\ \A i \in DOMAIN s.events : ev[i] = s.events[i]
    BY <2>1, <2>2 DEF EventsOnTheWay
  <2>4. s' = Reverted(x, w)
    BY <1>5 DEF ClientCloses
  <2> HIDE DEF ev
  <2>5. Pointers(x) /\ x.events = ev /\ x.focus = s.focus /\ x.lapses = s.lapses
    BY <1>0, <2>3 DEF Pointers, WindowState
  <2> HIDE DEF x
  <2>6. RootHeard(x)
    BY <2>3, <2>5 DEF RootHeard
  <2>7. QED
    BY <2>4, <2>5, <2>6, RevertedHeard
<1>6. ASSUME NEW w \in Windows, NEW allow \in BOOLEAN, Manage(w, allow) PROVE RootHeard(s')
  <2> DEFINE z == [s EXCEPT !.managed = @ \cup {w}, !.alive = @ \cup {w}]
             y == IF allow THEN RequestFocus(z, w) ELSE z
             c == InsertIntoChain(y, w)
  <2>1. s' = [y EXCEPT !.chain = c]
    BY <1>6 DEF Manage
  <2>2. Pointers(z) /\ SameServer(s, z)
    BY <1>0 DEF Pointers, WindowState, SameServer
  <2> HIDE DEF z, c
  <2>3. Pointers(y) /\ RootHeard(y)
    BY <2>2, SameHeard, RequestFocusKeeps, RequestFocusHeard DEF Keeps
  <2> HIDE DEF y
  <2>4. SameServer(y, s')
    BY <2>1, <2>3 DEF SameServer, Pointers, WindowState
  <2>5. QED
    BY <2>3, <2>4, SameHeard
<1>7. ASSUME NEW t \in Windows \cup {PointerRoot}, ClientSetsFocus(t) PROVE RootHeard(s')
  BY <1>0, <1>7, FocusMovedHeard DEF ClientSetsFocus
<1>8. QED
  BY <1>1, <1>2, <1>3, <1>4, <1>5, <1>6, <1>7 DEF Move

\* Every event that KWin handles.
LEMMA HandleHeard ==
  ASSUME Linked(s), RootHeard(s), Handle
  PROVE  RootHeard(s')
<1>0. Pointers(s)
  BY DEF Linked
<1>1. ASSUME s.events # <<>>, Head(s.events) # FocusIn(PointerRoot) PROVE Pointers(Rest) /\ RootHeard(Rest)
  BY <1>0, <1>1, RestKeeps, RestHeard DEF Keeps
<1>2. ASSUME NEW w \in Windows, HandleFocusIn(w) PROVE RootHeard(s')
  <2>1. Pointers(Rest) /\ RootHeard(Rest)
    BY <1>1, <1>2, FocusAssumption DEF HandleFocusIn, Arrives, FocusIn
  <2>2. CASE ~isShown(s, w)
    <3> DEFINE y == [Rest EXCEPT !.lapses = IF s.focus = w THEN @ \cup {"ignored"} ELSE @]
    <3>1. s' = y
      BY <1>2, <2>2 DEF HandleFocusIn
    <3>2. y.focus = Rest.focus /\ y.events = Rest.events /\ Rest.lapses \subseteq y.lapses
      BY <2>1 DEF Pointers, WindowState
    <3> HIDE DEF y
    <3>3. QED
      BY <2>1, <3>1, <3>2 DEF RootHeard
  <2>3. CASE isShown(s, w)
    <3> DEFINE z == [Rest EXCEPT !.timers = {}, !.should = GotFocusIn(@, w)]
               t == RestoreTarget(z)
    <3>1. s' = RequestFocus(z, t) \/ s' = SetActive(z, w)
      BY <1>2, <2>3 DEF HandleFocusIn
    <3>2. Pointers(z) /\ SameServer(Rest, z)
      <4>1. Rest.should \in Seq(Windows) /\ ToSet(Rest.should) \subseteq Rest.managed
        BY <2>1 DEF Pointers, WindowState
      <4>2. GotFocusIn(Rest.should, w) \in Seq(Windows) /\ ToSet(GotFocusIn(Rest.should, w)) \subseteq Rest.managed
        BY <4>1, GotFocusInEffect
      <4>3. QED
        BY <2>1, <4>2 DEF Pointers, WindowState, SameServer
    <3> HIDE DEF z, t
    <3>3. SameServer(z, SetActive(z, w))
      BY <3>2 DEF SetActive, SameServer, Pointers, WindowState
    <3>4. QED
      BY <2>1, <3>1, <3>2, <3>3, SameHeard, RequestFocusHeard
  <2>4. QED
    BY <2>2, <2>3
<1>3. ASSUME NEW w \in Windows, HandleFocusOut(w) PROVE RootHeard(s')
  <2>1. Pointers(Rest) /\ RootHeard(Rest)
    BY <1>1, <1>3, FocusAssumption DEF HandleFocusOut, Arrives, FocusIn, FocusOut
  <2>2. SameServer(Rest, s')
    BY <1>3, <2>1 DEF HandleFocusOut, SameServer, Pointers, WindowState
  <2>3. QED
    BY <2>1, <2>2, SameHeard
<1>4. ASSUME NEW w \in Windows, HandleClosed(w) PROVE RootHeard(s')
  <2> DEFINE x == [Rest EXCEPT !.hidden = @ \cup {w}]
             y == ActivateNextWindow(x, w)
  <2>1. Pointers(Rest) /\ RootHeard(Rest)
    BY <1>1, <1>4, FocusAssumption DEF HandleClosed, Arrives, FocusIn, Closed
  <2>2. Pointers(x) /\ SameServer(Rest, x)
    BY <2>1 DEF Pointers, WindowState, SameServer
  <2>3. s' = Forgotten(y, w)
    BY <1>4 DEF HandleClosed
  <2> HIDE DEF x
  <2>4. Pointers(y) /\ RootHeard(y)
    BY <2>1, <2>2, SameHeard, ActivateNextKeeps, ActivateNextHeard DEF Keeps
  <2> HIDE DEF y
  <2>5. SameServer(y, Forgotten(y, w))
    BY <2>4 DEF Forgotten, SameServer, Pointers, WindowState
  <2>6. QED
    BY <2>3, <2>4, <2>5, SameHeard
<1>5. ASSUME HandleRootFocusIn PROVE RootHeard(s')
  <2> DEFINE w == mostRecentlyActivatedWindow(s)
  <2>1. Pointers(Rest) /\ Rest.focus = s.focus /\ Rest.active = s.active
    <3>1. Pointers(Rest)
      BY <1>0, <1>5, RestKeeps DEF HandleRootFocusIn, Arrives, Keeps
    <3>2. QED
      BY <1>0, <3>1 DEF Rest, Pointers, WindowState
  <2>2. CASE s.focus # PointerRoot
    <3>1. s' = Rest
      BY <1>5, <2>2 DEF HandleRootFocusIn
    <3>2. QED
      BY <2>1, <2>2, <3>1 DEF RootHeard
  <2>3. CASE s.focus = PointerRoot /\ w # None
    <3>1. s' = RequestFocus(Rest, w)
      BY <1>5, <2>3 DEF HandleRootFocusIn
    <3> HIDE DEF w
    <3>2. QED
      BY <2>1, <3>1, RequestFocusHeard
  <2>4. CASE s.focus = PointerRoot /\ w = None
    <3>1. s' = ActivateNextWindow(Rest, None)
      BY <1>5, <2>4 DEF HandleRootFocusIn
    <3>2. s.should \in Seq(Windows)
      BY <1>0 DEF Pointers, WindowState
    <3>3. s.should # <<>> => Last(s.should) \in Windows
      BY <3>2 DEF Last
    <3>4. s.active = None
      BY <2>4, <3>3, FocusAssumption DEF mostRecentlyActivatedWindow
    <3>5. QED
      BY <2>1, <3>1, <3>4, ActivateNextHeard
  <2>5. QED
    BY <2>2, <2>3, <2>4
<1>6. QED
  BY <1>2, <1>3, <1>4, <1>5 DEF Handle

\* A focus-out timer.
LEMMA TimeoutHeard ==
  ASSUME Linked(s), RootHeard(s), Timeout
  PROVE  RootHeard(s')
<1>1. PICK w \in Windows : FocusOutTimeout(w)
  BY DEF Timeout
<1>2. SameServer(s, s')
  BY <1>1 DEF FocusOutTimeout, SetInactive, SameServer, Linked, Pointers, WindowState
<1>3. QED
  BY <1>2, SameHeard

\* When everything is handled, the focus is not left on the root, where the
\* keyboard goes to whatever is under the pointer: unless the window KWin
\* chose was closed or hidden already, whoever moved or closed what.
THEOREM FocusAlwaysRestored == Spec => []FocusRestored
<1> DEFINE Inv == Linked(s) /\ RootHeard(s)
<1>1. Init => Inv
  <2>1. Init => RootHeard(s)
    BY FocusAssumption DEF Init, RootHeard
  <2>2. QED
    BY <2>1, InitLinked
<1>2. Inv /\ [Next]_s => Inv'
  <2> SUFFICES ASSUME Inv, [Next]_s PROVE Inv'
    OBVIOUS
  <2>1. Linked(s)'
    BY NextLinked DEF Linked, Pointers, WindowState, EventsOnTheWay
  <2>2. RootHeard(s')
    BY MoveHeard, HandleHeard, TimeoutHeard DEF Next
  <2>3. RootHeard(s)'
    BY <2>2 DEF RootHeard
  <2>4. QED
    BY <2>1, <2>3
<1>3. Inv => FocusRestored
  BY DEF RootHeard, FocusRestored, Quiet
<1>4. QED
  BY <1>1, <1>2, <1>3, PTL DEF Spec

-----------------------------------------------------------------------------
(* The order of the reports.                                               *)

\* e is on its way behind the event at i.
Behind(q, i, e) == \E j \in DOMAIN q : j > i /\ q[j] = e

\* The focus is at f.  A report that f lost it, or that another window got
\* it, has the report that f got it behind it; and the report that another
\* window got it has the report that this window lost it behind it.
Ordered(q, f) ==
  \A i \in DOMAIN q : \A w \in Windows :
     /\ f \in Windows /\ (q[i] = FocusOut(f) \/ (q[i] = FocusIn(w) /\ w # f)) => Behind(q, i, FocusIn(f))
     /\ q[i] = FocusIn(w) /\ w # f => Behind(q, i, FocusOut(w))

\* What is reported are different things.
LEMMA EventsDiffer ==
  ASSUME NEW v, NEW w
  PROVE  /\ FocusIn(v) # FocusOut(w) /\ FocusIn(v) # Closed(w) /\ FocusOut(v) # Closed(w)
         /\ FocusIn(v) = FocusIn(w) => v = w
         /\ FocusOut(v) = FocusOut(w) => v = w
         /\ Closed(v) = Closed(w) => v = w
BY DEF FocusIn, FocusOut, Closed

\* Taking the oldest report.
LEMMA TailOrdered ==
  ASSUME NEW q \in EventsOnTheWay, q # <<>>, NEW f, Ordered(q, f)
  PROVE  /\ Tail(q) \in EventsOnTheWay /\ Ordered(Tail(q), f)
         /\ ToSet(q) = {Head(q)} \cup ToSet(Tail(q))
         /\ \A e : Behind(q, 1, e) => e \in ToSet(Tail(q))
         /\ 1 \in DOMAIN q /\ Head(q) = q[1]
<1> DEFINE r == Tail(q)
<1>1. /\ Len(q) \in Nat /\ Len(q) >= 1 /\ DOMAIN q = 1..Len(q) /\ Head(q) = q[1]
      /\ r \in EventsOnTheWay /\ DOMAIN r = 1..(Len(q) - 1) /\ \A i \in 1..(Len(q) - 1) : r[i] = q[i + 1]
  BY DEF EventsOnTheWay
<1> HIDE DEF r
<1>2. ASSUME NEW i \in DOMAIN r, NEW e, Behind(q, i + 1, e)
      PROVE  Behind(r, i, e)
  <2>1. PICK j \in DOMAIN q : j > i + 1 /\ q[j] = e
    BY <1>2 DEF Behind
  <2>2. j - 1 \in DOMAIN r /\ j - 1 > i /\ r[j - 1] = e
    BY <1>1, <2>1
  <2>3. QED
    BY <2>2 DEF Behind
<1>3. \A i \in DOMAIN r : i + 1 \in DOMAIN q /\ r[i] = q[i + 1]
  BY <1>1
<1>4. Ordered(r, f)
  BY <1>2, <1>3 DEF Ordered
<1>5. ToSet(q) = {q[1]} \cup ToSet(r)
  <2>1. ASSUME NEW i \in DOMAIN q PROVE q[i] \in {q[1]} \cup ToSet(r)
    <3>1. CASE i = 1
      BY <3>1
    <3>2. CASE i # 1
      <4>1. i - 1 \in DOMAIN r /\ r[i - 1] = q[i]
        BY <1>1, <3>2
      <4>2. QED
        BY <4>1 DEF ToSet
    <3>3. QED
      BY <3>1, <3>2
  <2>2. QED
    BY <1>1, <1>3, <2>1 DEF ToSet
<1>6. ASSUME NEW e, Behind(q, 1, e) PROVE e \in ToSet(r)
  <2>1. PICK j \in DOMAIN q : j > 1 /\ q[j] = e
    BY <1>6 DEF Behind
  <2>2. j - 1 \in DOMAIN r /\ r[j - 1] = e
    BY <1>1, <2>1
  <2>3. QED
    BY <2>2 DEF ToSet
<1>7. QED
  BY <1>1, <1>4, <1>5, <1>6 DEF r

\* Longer queues keep what is behind an event.
LEMMA BehindLonger ==
  ASSUME NEW q, NEW r, NEW i, NEW e, DOMAIN q \subseteq DOMAIN r,
         \A j \in DOMAIN q : r[j] = q[j], Behind(q, i, e)
  PROVE  Behind(r, i, e)
BY DEF Behind

\* The report that a window was closed says nothing of the focus.
LEMMA ClosedOrdered ==
  ASSUME NEW q \in EventsOnTheWay, NEW f, Ordered(q, f), NEW w \in Windows
  PROVE  /\ Append(q, Closed(w)) \in EventsOnTheWay /\ Ordered(Append(q, Closed(w)), f)
         /\ ToSet(Append(q, Closed(w))) = ToSet(q) \cup {Closed(w)}
<1> DEFINE E == {"FocusIn", "FocusOut", "Closed"} \X (Windows \cup {PointerRoot})
           x == Closed(w)
           r == Append(q, x)
<1>1. x \in E
  BY DEF Closed
<1>2. q \in Seq(E)
  BY DEF EventsOnTheWay
<1>3. EventsOnTheWay = Seq(E)
  BY DEF EventsOnTheWay
<1> HIDE DEF E, x
<1>4. /\ Len(q) \in Nat /\ DOMAIN q = 1..Len(q) /\ DOMAIN r = 1..(Len(q) + 1)
      /\ r[Len(q) + 1] = x /\ \A i \in 1..Len(q) : r[i] = q[i]
  BY <1>1, <1>2
<1>5. r \in Seq(E) /\ ToSet(r) = ToSet(q) \cup {x}
  BY <1>1, <1>2, AppendEffect
<1> HIDE DEF r
<1>6. \A v : x # FocusIn(v) /\ x # FocusOut(v)
  BY EventsDiffer DEF x
<1>7. \A i \in DOMAIN q : \A e : Behind(q, i, e) => Behind(r, i, e)
  <2>1. DOMAIN q \subseteq DOMAIN r /\ \A j \in DOMAIN q : r[j] = q[j]
    BY <1>4
  <2>2. QED
    BY <2>1, BehindLonger
<1>8. ASSUME NEW i \in DOMAIN r, NEW v \in Windows
      PROVE  /\ f \in Windows /\ (r[i] = FocusOut(f) \/ (r[i] = FocusIn(v) /\ v # f)) => Behind(r, i, FocusIn(f))
             /\ r[i] = FocusIn(v) /\ v # f => Behind(r, i, FocusOut(v))
  <2>1. CASE i \in DOMAIN q
    BY <2>1, <1>4, <1>7 DEF Ordered
  <2>2. CASE i \notin DOMAIN q
    <3>1. r[i] = x
      BY <2>2, <1>4
    <3>2. QED
      BY <3>1, <1>6
  <2>3. QED
    BY <2>1, <2>2
<1>9. Ordered(r, f)
  BY <1>8 DEF Ordered
<1>10. QED
  BY <1>3, <1>5, <1>9 DEF r, x

\* r is q with the report that f lost the focus and the report that t got
\* it, as far as they are windows or the root.
Moved(q, r, f, t) ==
  /\ Len(r) \in Nat /\ DOMAIN r = 1..Len(r) /\ Len(q) \in Nat /\ DOMAIN q = 1..Len(q)
  /\ Len(q) <= Len(r) /\ \A i \in 1..Len(q) : r[i] = q[i]
  /\ f \in Windows => Len(q) + 1 <= Len(r) /\ r[Len(q) + 1] = FocusOut(f)
  /\ t # NullFocus => Len(q) + 1 <= Len(r) /\ r[Len(r)] = FocusIn(t)
  /\ \A i \in 1..Len(r) : \/ i <= Len(q)
                          \/ i = Len(q) + 1 /\ f \in Windows /\ r[i] = FocusOut(f)
                          \/ i = Len(r) /\ t # NullFocus /\ r[i] = FocusIn(t)

\* Two more elements of a queue.
LEMMA TwoMore ==
  ASSUME NEW E, NEW q \in Seq(E), NEW o \in E, NEW e \in E
  PROVE  LET r == (q \o <<o>>) \o <<e>>
         IN  /\ Len(q) \in Nat /\ DOMAIN q = 1..Len(q) /\ Len(r) = Len(q) + 2
             /\ DOMAIN r = 1..(Len(q) + 2) /\ r[Len(q) + 1] = o /\ r[Len(q) + 2] = e
             /\ \A i \in 1..Len(q) : r[i] = q[i]
<1> DEFINE p == q \o <<o>>
<1>1. /\ Len(q) \in Nat /\ DOMAIN q = 1..Len(q) /\ p \in Seq(E) /\ Len(p) = Len(q) + 1
      /\ p[Len(q) + 1] = o /\ \A i \in 1..Len(q) : p[i] = q[i]
  OBVIOUS
<1> HIDE DEF p
<1> DEFINE r == p \o <<e>>
<1>2. /\ Len(p) \in Nat /\ Len(r) = Len(p) + 1 /\ DOMAIN r = 1..(Len(p) + 1)
      /\ r[Len(p) + 1] = e /\ \A i \in 1..Len(p) : r[i] = p[i]
  BY <1>1
<1> HIDE DEF r
<1>3. QED
  BY <1>1, <1>2 DEF r, p

\* One more element of a queue.
LEMMA OneMore ==
  ASSUME NEW E, NEW q \in Seq(E), NEW e \in E
  PROVE  LET r == q \o <<e>>
         IN  /\ Len(q) \in Nat /\ DOMAIN q = 1..Len(q) /\ Len(r) = Len(q) + 1
             /\ DOMAIN r = 1..(Len(q) + 1) /\ r[Len(q) + 1] = e
             /\ \A i \in 1..Len(q) : r[i] = q[i]
OBVIOUS

\* What FocusMoved adds to the queue.
LEMMA MovedExtends ==
  ASSUME NEW q \in EventsOnTheWay, NEW f \in Windows \cup {NullFocus, PointerRoot},
         NEW t \in Windows \cup {NullFocus, PointerRoot}
  PROVE  Moved(q, q \o (IF f \in Windows THEN <<FocusOut(f)>> ELSE <<>>)
                    \o (IF t # NullFocus THEN <<FocusIn(t)>> ELSE <<>>), f, t)
<1> DEFINE E == {"FocusIn", "FocusOut", "Closed"} \X (Windows \cup {PointerRoot})
           o == FocusOut(f)
           e == FocusIn(t)
           r == q \o (IF f \in Windows THEN <<o>> ELSE <<>>) \o (IF t # NullFocus THEN <<e>> ELSE <<>>)
<1>1. q \in Seq(E)
  BY DEF EventsOnTheWay
<1>2. (f \in Windows => o \in E) /\ (t # NullFocus => e \in E)
  BY DEF FocusOut, FocusIn
<1> HIDE DEF E, o, e
<1>3. q \o <<>> = q /\ Len(q) \in Nat /\ DOMAIN q = 1..Len(q)
  BY <1>1
<1>4. CASE f \in Windows /\ t # NullFocus
  <2>1. r = (q \o <<o>>) \o <<e>>
    BY <1>4
  <2> HIDE DEF r
  <2>2. /\ Len(r) = Len(q) + 2 /\ DOMAIN r = 1..(Len(q) + 2) /\ r[Len(q) + 1] = o
        /\ r[Len(q) + 2] = e /\ \A i \in 1..Len(q) : r[i] = q[i]
    BY <1>1, <1>2, <1>4, <2>1, TwoMore
  <2>3. Moved(q, r, f, t)
    BY <1>3, <1>4, <2>2 DEF Moved, o, e
  <2>4. QED
    BY <2>3 DEF r, o, e
<1>5. CASE f \in Windows /\ t = NullFocus
  <2>1. r = q \o <<o>>
    <3>1. q \o <<o>> \in Seq(E)
      BY <1>1, <1>2, <1>5
    <3>2. (q \o <<o>>) \o <<>> = q \o <<o>>
      BY <3>1
    <3>3. QED
      BY <1>5, <3>2
  <2> HIDE DEF r
  <2>2. /\ Len(r) = Len(q) + 1 /\ DOMAIN r = 1..(Len(q) + 1) /\ r[Len(q) + 1] = o
        /\ \A i \in 1..Len(q) : r[i] = q[i]
    BY <1>1, <1>2, <1>5, <2>1, OneMore
  <2>3. Moved(q, r, f, t)
    BY <1>3, <1>5, <2>2 DEF Moved, o
  <2>4. QED
    BY <2>3 DEF r, o, e
<1>6. CASE f \notin Windows /\ t # NullFocus
  <2>1. r = q \o <<e>>
    BY <1>3, <1>6
  <2> HIDE DEF r
  <2>2. /\ Len(r) = Len(q) + 1 /\ DOMAIN r = 1..(Len(q) + 1) /\ r[Len(q) + 1] = e
        /\ \A i \in 1..Len(q) : r[i] = q[i]
    BY <1>1, <1>2, <1>6, <2>1, OneMore
  <2>3. Moved(q, r, f, t)
    BY <1>3, <1>6, <2>2 DEF Moved, e
  <2>4. QED
    BY <2>3 DEF r, o, e
<1>7. CASE f \notin Windows /\ t = NullFocus
  <2>1. r = q
    BY <1>3, <1>7
  <2> HIDE DEF r
  <2>2. Moved(q, r, f, t)
    BY <1>3, <1>7, <2>1 DEF Moved
  <2>3. QED
    BY <2>2 DEF r, o, e
<1>8. QED
  BY <1>4, <1>5, <1>6, <1>7

\* A move of the focus from f to t keeps the reports in order.
LEMMA MoveOrdered ==
  ASSUME NEW q, NEW r, NEW f \in Windows \cup {NullFocus, PointerRoot},
         NEW t \in Windows \cup {NullFocus, PointerRoot}, f # t, Ordered(q, f), Moved(q, r, f, t)
  PROVE  /\ Ordered(r, t) /\ ToSet(q) \subseteq ToSet(r)
         /\ f \in Windows => FocusOut(f) \in ToSet(r)
         /\ t # NullFocus => FocusIn(t) \in ToSet(r)
         /\ \A w : Closed(w) \in ToSet(r) => Closed(w) \in ToSet(q)
<1> DEFINE n == Len(q)
           m == Len(r)
           o == FocusOut(f)
           e == FocusIn(t)
<1>1. n \in Nat /\ DOMAIN q = 1..n
  BY DEF Moved
<1>3. /\ m \in Nat /\ DOMAIN r = 1..m /\ n <= m /\ \A i \in 1..n : r[i] = q[i]
      /\ f \in Windows => n + 1 <= m /\ r[n + 1] = o
      /\ t # NullFocus => n + 1 <= m /\ r[m] = e
      /\ \A i \in 1..m : \/ i <= n
                         \/ i = n + 1 /\ f \in Windows /\ r[i] = o
                         \/ i = m /\ t # NullFocus /\ r[i] = e
  BY DEF Moved
<1> HIDE DEF n, m
<1>4. \A i \in DOMAIN q : \A x : Behind(q, i, x) => Behind(r, i, x)
  <2>1. DOMAIN q \subseteq DOMAIN r /\ \A j \in DOMAIN q : r[j] = q[j]
    BY <1>1, <1>3
  <2>2. QED
    BY <2>1, BehindLonger
<1>5. t \in Windows => t # NullFocus
  BY FocusAssumption
<1>6. ASSUME NEW i \in DOMAIN r, NEW w \in Windows, t \in Windows,
             r[i] = FocusOut(t) \/ (r[i] = FocusIn(w) /\ w # t)
      PROVE  Behind(r, i, FocusIn(t))
  <2>1. r[m] = FocusIn(t) /\ m \in DOMAIN r
    BY <1>3, <1>5, <1>6
  <2>2. i # m
    BY <2>1, <1>6, EventsDiffer
  <2>3. i < m
    BY <2>2, <1>3
  <2>4. QED
    BY <2>1, <2>3 DEF Behind
<1>7. ASSUME NEW i \in DOMAIN r, NEW w \in Windows, r[i] = FocusIn(w), w # t
      PROVE  Behind(r, i, FocusOut(w))
  <2>1. i \in DOMAIN q /\ q[i] = FocusIn(w)
    <3>1. r[i] # o /\ r[i] # e
      BY <1>7, EventsDiffer
    <3>2. QED
      BY <3>1, <1>1, <1>3, <1>7
  <2>2. CASE w # f
    BY <2>1, <2>2, <1>4 DEF Ordered
  <2>3. CASE w = f
    <3>1. n + 1 \in DOMAIN r /\ n + 1 > i /\ r[n + 1] = FocusOut(w)
      BY <2>1, <2>3, <1>1, <1>3
    <3>2. QED
      BY <3>1 DEF Behind
  <2>4. QED
    BY <2>2, <2>3
<1>8. Ordered(r, t)
  BY <1>6, <1>7 DEF Ordered
<1>9. ToSet(q) \subseteq ToSet(r)
  BY <1>1, <1>3 DEF ToSet
<1>10. (f \in Windows => FocusOut(f) \in ToSet(r)) /\ (t # NullFocus => FocusIn(t) \in ToSet(r))
  <2>1. (f \in Windows => n + 1 \in DOMAIN r) /\ (t # NullFocus => m \in DOMAIN r)
    BY <1>1, <1>3
  <2>2. QED
    BY <2>1, <1>3 DEF ToSet
<1>11. ASSUME NEW w, Closed(w) \in ToSet(r) PROVE Closed(w) \in ToSet(q)
  <2>1. PICK i \in DOMAIN r : r[i] = Closed(w)
    BY <1>11 DEF ToSet
  <2>2. r[i] # o /\ r[i] # e
    BY <2>1, EventsDiffer
  <2>3. i \in DOMAIN q /\ q[i] = Closed(w)
    BY <2>1, <2>2, <1>1, <1>3
  <2>4. QED
    BY <2>3 DEF ToSet
<1>12. QED
  BY <1>8, <1>9, <1>10, <1>11

-----------------------------------------------------------------------------
(* The active window and the focus.                                        *)

Reports(z) == ToSet(z.events)

\* What the server reports is in order, and of no window that is there that
\* it is closed.
Reporting(z) ==
  /\ Ordered(z.events, z.focus)
  /\ z.alive \subseteq z.managed
  /\ \A w \in z.alive : Closed(w) \notin Reports(z)

\* Besides, only windows that are there have the focus.
Server(z) == Reporting(z) /\ (z.focus \in Windows => z.focus \in z.alive)

\* A managed window that is gone is going to be reported, X aside.
Due(z, X) == \A w \in (z.managed \ z.alive) \ X : Closed(w) \in Reports(z)

\* The active window is shown, is the last active one and ends the chain.
Top(z) ==
  z.active # None =>
     /\ z.active \notin z.hidden /\ z.last = z.active
     /\ z.chain # <<>> /\ Last(z.chain) = z.active

\* A window that has the focus and is not active, or is about to be made
\* inactive, will be reported, or has been and was ignored.
Gain(z) ==
  z.focus \in Windows /\ (z.active # z.focus \/ z.focus \in z.timers) =>
     FocusIn(z.focus) \in Reports(z) \/ "ignored" \in z.lapses

\* The active window has lost the focus and nothing will make it inactive:
\* a FocusIn that KWin answered with a request for another window stopped
\* its timer.
Unheard(z) ==
  /\ z.active \in z.alive /\ z.focus # z.active
  /\ z.active \notin z.timers /\ FocusOut(z.active) \notin Reports(z)

\* Then the request is still good: the focus is not given up, and if it is
\* lost to the root KWin hears of it, or the window it was for has gone.
Loss(z) ==
  Unheard(z) =>
     /\ z.should # <<>> => Last(z.should) \notin z.hidden
     /\ z.focus # NullFocus
     /\ z.focus = PointerRoot =>
          FocusIn(PointerRoot) \in Reports(z) \/ (z.should # <<>> /\ Last(z.should) \notin z.alive)

\* What KWin knows of windows, should_get_focus aside, stays the same.
SameWindows(z, y) ==
  /\ y.active = z.active /\ y.last = z.last /\ y.chain = z.chain /\ y.managed = z.managed
  /\ y.hidden = z.hidden /\ y.kept = z.kept /\ y.timers = z.timers /\ y.alive = z.alive

\* What the server reports when the focus moves.
LEMMA FocusMovedEffect ==
  ASSUME NEW z, Pointers(z), Ordered(z.events, z.focus),
         NEW t \in Windows \cup {NullFocus, PointerRoot}, NEW y, y = FocusMoved(z, t)
  PROVE  /\ Pointers(y) /\ SameWindows(z, y) /\ y.should = z.should /\ y.focus = t
         /\ Ordered(y.events, t)
         /\ z.focus = t => y = z
         /\ z.focus # t /\ t # NullFocus => FocusIn(t) \in Reports(y)
         /\ z.focus # t /\ z.focus \in Windows => FocusOut(z.focus) \in Reports(y)
         /\ Reports(z) \subseteq Reports(y)
         /\ \A w : Closed(w) \in Reports(y) => Closed(w) \in Reports(z)
<1>1. Pointers(y)
  BY FocusMovedKeeps DEF Keeps
<1>2. CASE z.focus = t
  <2>1. y = z
    BY <1>2 DEF FocusMoved
  <2>2. QED
    BY <1>1, <1>2, <2>1 DEF SameWindows
<1>3. CASE z.focus # t
  <2> DEFINE r == z.events \o (IF z.focus \in Windows THEN <<FocusOut(z.focus)>> ELSE <<>>)
                           \o (IF t # NullFocus THEN <<FocusIn(t)>> ELSE <<>>)
  <2>1. y = [z EXCEPT !.focus = t, !.lapses = {}, !.events = r]
    BY <1>3 DEF FocusMoved, Pointers, WindowState
  <2>2. z.events \in EventsOnTheWay /\ z.focus \in Windows \cup {NullFocus, PointerRoot}
    BY DEF Pointers, WindowState
  <2>3. /\ Ordered(r, t) /\ ToSet(z.events) \subseteq ToSet(r)
        /\ z.focus \in Windows => FocusOut(z.focus) \in ToSet(r)
        /\ t # NullFocus => FocusIn(t) \in ToSet(r)
        /\ \A w : Closed(w) \in ToSet(r) => Closed(w) \in ToSet(z.events)
    <3>1. Moved(z.events, r, z.focus, t)
      BY <2>2, MovedExtends
    <3> HIDE DEF r
    <3>2. QED
      BY <1>3, <2>2, <3>1, MoveOrdered
  <2> HIDE DEF r
  <2>4. y.focus = t /\ y.events = r /\ SameWindows(z, y) /\ y.should = z.should
    BY <2>1 DEF Pointers, WindowState, SameWindows
  <2>5. QED
    BY <1>1, <1>3, <2>3, <2>4 DEF Reports
<1>4. QED
  BY <1>2, <1>3

\* From z to y KWin's windows stay as they are, and the server's part right.
Carries(z, y) == SameWindows(z, y) /\ Pointers(y) /\ Server(y) /\ \A X : Due(z, X) => Due(y, X)

\* A move of the focus keeps everything, unless it is given up.
LEMMA FocusMovedCarries ==
  ASSUME NEW z, Pointers(z), Reporting(z), NEW t \in Windows \cup {NullFocus, PointerRoot},
         t \in Windows => t \in z.alive, NEW y, y = FocusMoved(z, t)
  PROVE  /\ Carries(z, y) /\ y.should = z.should /\ y.focus = t
         /\ Gain(z) \/ z.focus # t => Gain(y)
         /\ Loss(z) /\ t # NullFocus => Loss(y)
<1>1. /\ Pointers(y) /\ SameWindows(z, y) /\ y.should = z.should /\ y.focus = t
      /\ Ordered(y.events, t)
      /\ z.focus = t => y = z
      /\ z.focus # t /\ t # NullFocus => FocusIn(t) \in Reports(y)
      /\ z.focus # t /\ z.focus \in Windows => FocusOut(z.focus) \in Reports(y)
      /\ Reports(z) \subseteq Reports(y)
      /\ \A w : Closed(w) \in Reports(y) => Closed(w) \in Reports(z)
  BY FocusMovedEffect DEF Reporting
<1>2. Server(y)
  BY <1>1 DEF Reporting, Server, SameWindows
<1>3. \A X : Due(z, X) => Due(y, X)
  BY <1>1 DEF Due, SameWindows
<1>4. CASE z.focus = t
  BY <1>1, <1>2, <1>3, <1>4 DEF Carries
<1>5. CASE z.focus # t
  <2>1. Gain(y)
    BY <1>1, <1>5, FocusAssumption DEF Gain
  <2>2. ASSUME Loss(z), t # NullFocus, Unheard(y) PROVE Unheard(z)
    <3>1. z.active \in Windows
      BY <1>1, <2>2 DEF Unheard, SameWindows, Pointers, WindowState
    <3>2. QED
      BY <1>1, <1>5, <2>2, <3>1 DEF Unheard, SameWindows
  <2>3. Loss(z) /\ t # NullFocus => Loss(y)
    BY <1>1, <1>5, <2>2 DEF Loss, SameWindows
  <2>4. QED
    BY <1>1, <1>2, <1>3, <2>1, <2>3 DEF Carries
<1>6. QED
  BY <1>4, <1>5

\* requestFocus: what it asks for, KWin will hear of.
LEMMA RequestFocusCarries ==
  ASSUME NEW z, Pointers(z), Server(z), NEW w, NEW y, y = RequestFocus(z, w)
  PROVE  /\ Carries(z, y) /\ (Gain(z) => Gain(y))
         /\ FocusSucceeds(z, w) =>
              /\ y.should # <<>> /\ Last(y.should) = w /\ w \notin z.hidden
              /\ Gain(z) \/ z.focus # w => Gain(y) /\ Loss(y)
         /\ ~FocusSucceeds(z, w) =>
              /\ y.should = z.should /\ y.focus = z.focus /\ y.events = z.events
              /\ Loss(z) => Loss(y)
<1>1. CASE ~FocusSucceeds(z, w)
  <2>1. y = [z EXCEPT !.lapses = @ \cup {"refused"}]
    BY <1>1 DEF RequestFocus
  <2>2. /\ SameWindows(z, y) /\ y.should = z.should /\ y.focus = z.focus /\ y.events = z.events
        /\ y.lapses = z.lapses \cup {"refused"}
    BY <2>1 DEF SameWindows, Pointers, WindowState
  <2>3. Pointers(y)
    BY RequestFocusKeeps DEF Keeps
  <2>4. Server(y) /\ \A X : Due(z, X) => Due(y, X)
    BY <2>2 DEF Server, Reporting, Due, SameWindows, Reports
  <2>5. (Gain(z) => Gain(y)) /\ (Loss(z) => Loss(y))
    BY <2>2 DEF Gain, Loss, Unheard, SameWindows, Reports
  <2>6. QED
    BY <1>1, <2>2, <2>3, <2>4, <2>5 DEF Carries
<1>2. CASE FocusSucceeds(z, w)
  <2> DEFINE x == FocusMoved(z, w)
             q == Append(z.should, w)
  <2>1. w \in z.managed /\ w \in Windows /\ w \in z.alive /\ w \notin z.hidden
    BY <1>2 DEF FocusSucceeds, isShown, Viewable, Pointers, WindowState
  <2>2. /\ Carries(z, x) /\ x.should = z.should /\ x.focus = w
        /\ Gain(z) \/ z.focus # w => Gain(x)
    BY <2>1, FocusMovedCarries DEF Server
  <2> HIDE DEF x
  <2>3. y = [x EXCEPT !.should = q]
    BY <1>2, <2>2 DEF RequestFocus, x, Carries, Pointers, WindowState
  <2>4. q # <<>> /\ Last(q) = w
    <3>1. z.should \in Seq(Windows)
      BY DEF Pointers, WindowState
    <3>2. QED
      BY <2>1, <3>1, AppendEffect
  <2> HIDE DEF q
  <2>5. /\ SameWindows(x, y) /\ y.focus = w /\ y.events = x.events /\ y.lapses = x.lapses
        /\ y.should = q
    BY <2>2, <2>3 DEF SameWindows, Carries, Pointers, WindowState
  <2>6. Pointers(y)
    BY RequestFocusKeeps DEF Keeps
  <2>7. Server(y) /\ \A X : Due(z, X) => Due(y, X)
    BY <2>2, <2>5 DEF Carries, Server, Reporting, Due, SameWindows, Reports
  <2>8. SameWindows(z, y)
    BY <2>2, <2>5 DEF Carries, SameWindows
  <2>9. Gain(x) => Gain(y)
    BY <2>2, <2>5 DEF Gain, SameWindows, Reports
  <2>10. Loss(y)
    BY <2>1, <2>4, <2>5, <2>8, FocusAssumption DEF Loss, SameWindows
  <2>11. Gain(z) \/ z.focus # w => Gain(y)
    BY <2>2, <2>9
  <2> HIDE DEF Gain, Loss
  <2>12. QED
    BY <1>2, <2>1, <2>4, <2>5, <2>6, <2>7, <2>8, <2>10, <2>11 DEF Carries
<1>3. QED
  BY <1>1, <1>2

\* focusToNull gives everything up.
LEMMA FocusToNullCarries ==
  ASSUME NEW z, Pointers(z), Server(z), NEW y, y = FocusToNull(z)
  PROVE  Carries(z, y) /\ y.should = <<>> /\ y.focus = NullFocus /\ Gain(y)
<1> DEFINE x == [z EXCEPT !.should = <<>>]
<1>1. Pointers(x)
  <2>1. ToSet(<<>>) = {} /\ <<>> \in Seq(Windows)
    BY DEF ToSet
  <2>2. QED
    BY <2>1 DEF Pointers, WindowState
<1>2. /\ SameWindows(z, x) /\ x.focus = z.focus /\ x.events = z.events /\ x.lapses = z.lapses
      /\ x.should = <<>>
  BY DEF SameWindows, Pointers, WindowState
<1>3. y = FocusMoved(x, NullFocus)
  BY DEF FocusToNull
<1> HIDE DEF x
<1>4. Server(x) /\ \A X : Due(z, X) => Due(x, X)
  BY <1>2 DEF Server, Reporting, Due, SameWindows, Reports
<1>5. Carries(x, y) /\ y.should = <<>> /\ y.focus = NullFocus
  BY <1>1, <1>2, <1>3, <1>4, FocusMovedCarries, FocusAssumption DEF Server
<1>6. Gain(y)
  BY <1>5, FocusAssumption DEF Gain
<1>7. QED
  BY <1>2, <1>4, <1>5, <1>6 DEF Carries, SameWindows

\* A window that is unmapped loses the focus to the root.
LEMMA RevertedCarries ==
  ASSUME NEW z, Pointers(z), Reporting(z), NEW w \in Windows, NEW y, y = Reverted(z, w),
         z.focus \in Windows /\ z.focus # w => z.focus \in z.alive
  PROVE  /\ Carries(z, y) /\ y.should = z.should /\ y.focus # w
         /\ (Gain(z) => Gain(y)) /\ (Loss(z) => Loss(y))
<1>1. CASE z.focus = w
  <2>1. y = FocusMoved(z, PointerRoot)
    BY <1>1 DEF Reverted
  <2>2. PointerRoot \notin Windows /\ PointerRoot # NullFocus
    BY FocusAssumption
  <2>3. QED
    BY <2>1, <2>2, FocusMovedCarries
<1>2. CASE z.focus # w
  <2>1. y = z
    BY <1>2 DEF Reverted
  <2>2. SameWindows(z, z)
    BY DEF SameWindows
  <2>3. QED
    BY <1>2, <2>1, <2>2 DEF Carries, Server
<1>3. QED
  BY <1>1, <1>2

\* What KWin knows of windows, the active one aside, stays the same.
SameOthers(z, y) ==
  /\ y.last = z.last /\ y.chain = z.chain /\ y.managed = z.managed
  /\ y.hidden = z.hidden /\ y.kept = z.kept /\ y.timers = z.timers /\ y.alive = z.alive

\* v is about to lose the focus for good: it does not have it, and if it is
\* not the active window, that one is as it should be.
GivesUp(z, v) ==
  /\ Pointers(z) /\ Server(z) /\ Gain(z)
  /\ z.active = v => z.focus # v
  /\ z.active # v => Top(z)

\* Afterwards v is not active and not wanted, and nothing else is lost.
GaveUp(z, v, y) ==
  /\ Pointers(y) /\ Server(y) /\ Gain(y) /\ Loss(y) /\ Top(y) /\ \A X : Due(z, X) => Due(y, X)
  /\ SameOthers(z, y) /\ y.active = (IF z.active = v THEN None ELSE z.active)
  /\ y.should # <<>> /\ v \in z.hidden => Last(y.should) # v

\* The active window is the first candidate.
LEMMA ActiveIsNext ==
  ASSUME NEW z, Pointers(z), Top(z), NEW v, z.active # None, z.active # v
  PROVE  /\ Candidates(z, v) # {} /\ z.chain[Max(Candidates(z, v))] = z.active
         /\ isShown(z, z.active)
<1> DEFINE n == Len(z.chain)
           C == Candidates(z, v)
<1>1. z.chain \in Seq(Windows) /\ z.chain # <<>> /\ z.chain[n] = z.active /\ isShown(z, z.active)
  BY DEF Pointers, WindowState, Top, Last, isShown
<1>2. n \in Nat /\ n \in 1..n /\ DOMAIN z.chain = 1..n
  BY <1>1
<1>3. n \in C /\ \A i \in C : i \in 1..n
  BY <1>1, <1>2 DEF Candidates
<1> HIDE DEF C, n
<1>4. Max(C) = n
  <2>1. \A i \in C : n >= i
    BY <1>2, <1>3
  <2>2. \A x \in C : (\A i \in C : x >= i) => x = n
    BY <1>2, <1>3
  <2>3. QED
    BY <1>3, <2>1, <2>2 DEF Max
<1>5. QED
  BY <1>1, <1>3, <1>4 DEF C

\* What activateNextWindow does.
LEMMA PassOnCarries ==
  ASSUME NEW z, NEW v, GivesUp(z, v), NEW y, y = PassOn(z, v)
  PROVE  GaveUp(z, v, y)
<1> DEFINE a == IF z.active = v THEN None ELSE z.active
           q == RemoveAll(z.should, v)
           x == [[z EXCEPT !.active = a] EXCEPT !.should = q]
           t == x.chain[Max(Candidates(x, v))]
<1>0. Pointers(z) /\ Server(z) /\ Gain(z)
  BY DEF GivesUp
<1>1. q \in Seq(Windows) /\ ToSet(q) \subseteq z.managed \ {v}
  <2>1. z.should \in Seq(Windows) /\ ToSet(z.should) \subseteq z.managed
    BY <1>0 DEF Pointers, WindowState
  <2>2. q \in Seq(Windows) /\ ToSet(q) = ToSet(z.should) \ {v}
    BY <2>1, RemoveAllEffect
  <2>3. QED
    BY <2>1, <2>2
<1>2. q # <<>> => Last(q) # v
  <2> HIDE DEF q
  <2>1. q # <<>> => Last(q) \in ToSet(q)
    BY <1>1 DEF Last, ToSet
  <2>2. QED
    BY <1>1, <2>1
<1>3. y = IF Candidates(x, v) = {} THEN FocusToNull(x) ELSE RequestFocus(x, t)
  <2>1. SetInactive(z, v) = [z EXCEPT !.active = a]
    BY <1>0 DEF SetInactive, Pointers, WindowState
  <2>2. [SetInactive(z, v) EXCEPT !.should = RemoveAll(@, v)] = x
    <3>1. [SetInactive(z, v) EXCEPT !.should = RemoveAll(@, v)]
          = [SetInactive(z, v) EXCEPT !.should = RemoveAll(SetInactive(z, v).should, v)]
      OBVIOUS
    <3>2. SetInactive(z, v).should = z.should
      BY <2>1, <1>0 DEF Pointers, WindowState
    <3>3. QED
      BY <2>1, <3>1, <3>2
  <2> DEFINE p == [SetInactive(z, v) EXCEPT !.should = RemoveAll(@, v)]
  <2>3. y = IF Candidates(p, v) = {} THEN FocusToNull(p)
            ELSE RequestFocus(p, p.chain[Max(Candidates(p, v))])
    BY DEF PassOn
  <2>4. p = x
    BY <2>2
  <2> HIDE DEF x, p
  <2>5. QED
    BY <2>3, <2>4
<1> HIDE DEF q
<1>4. /\ SameOthers(z, x) /\ x.active = a /\ x.should = q /\ x.focus = z.focus
      /\ x.events = z.events /\ x.lapses = z.lapses
  BY <1>0 DEF SameOthers, Pointers, WindowState
<1>5. Pointers(x)
  BY <1>0, <1>1 DEF Pointers, WindowState
<1> HIDE DEF x, t
<1>6. Server(x) /\ Gain(x) /\ (\A X : Due(z, X) => Due(x, X))
  <2>1. Server(x) /\ \A X : Due(z, X) => Due(x, X)
    BY <1>0, <1>4 DEF Server, Reporting, Due, SameOthers, Reports
  <2>2. x.active # x.focus => z.active # z.focus
    BY <1>4 DEF GivesUp
  <2>3. Gain(x)
    BY <1>0, <1>4, <2>2 DEF Gain, SameOthers, Reports
  <2>4. QED
    BY <2>1, <2>3
<1>7. Top(x)
  <2>1. CASE z.active = v
    BY <2>1, <1>4 DEF Top
  <2>2. CASE z.active # v
    BY <2>2, <1>4 DEF GivesUp, Top, SameOthers
  <2>3. QED
    BY <2>1, <2>2
<1>8. Carries(x, y) /\ Gain(y)
  BY <1>3, <1>5, <1>6, FocusToNullCarries, RequestFocusCarries
<1>9. Loss(y)
  <2>1. CASE x.active = None
    <3>1. y.active = None /\ y.alive \subseteq Windows
      BY <2>1, <1>8 DEF Carries, SameWindows, Pointers, WindowState
    <3>2. y.active \notin y.alive
      BY <3>1, FocusAssumption
    <3>3. QED
      BY <3>2 DEF Loss, Unheard
  <2>2. CASE x.active # None
    <3>1. x.active # v
      BY <2>2, <1>4
    <3>2. Candidates(x, v) # {} /\ t = x.active /\ isShown(x, t)
      BY <1>5, <1>7, <2>2, <3>1, ActiveIsNext DEF t
    <3>3. y = RequestFocus(x, t)
      BY <1>3, <3>2
    <3>4. CASE FocusSucceeds(x, t)
      BY <1>5, <1>6, <3>3, <3>4, RequestFocusCarries
    <3>5. CASE ~FocusSucceeds(x, t)
      <4>1. t \notin x.alive
        BY <3>2, <3>5 DEF FocusSucceeds, Viewable, isShown
      <4>2. y.active \notin y.alive
        BY <4>1, <3>2, <1>8 DEF Carries, SameWindows
      <4>3. QED
        BY <4>2 DEF Loss, Unheard
    <3>6. QED
      BY <3>4, <3>5
  <2>3. QED
    BY <2>1, <2>2
<1>10. y.should # <<>> /\ v \in z.hidden => Last(y.should) # v
  <2>1. CASE Candidates(x, v) = {}
    <3>1. y = FocusToNull(x)
      BY <1>3, <2>1
    <3>2. y.should = <<>>
      BY <3>1, <1>5, <1>6, FocusToNullCarries
    <3>3. QED
      BY <3>2
  <2>2. CASE Candidates(x, v) # {}
    <3>1. y = RequestFocus(x, t)
      BY <1>3, <2>2
    <3>2. CASE FocusSucceeds(x, t)
      <4>1. Last(y.should) = t /\ t \notin x.hidden
        BY <3>1, <3>2, <1>5, <1>6, RequestFocusCarries
      <4>2. QED
        BY <4>1, <1>4 DEF SameOthers
    <3>3. CASE ~FocusSucceeds(x, t)
      <4>1. y.should = q
        BY <3>1, <3>3, <1>4, <1>5, <1>6, RequestFocusCarries
      <4>2. QED
        BY <4>1, <1>2
    <3>4. QED
      BY <3>2, <3>3
  <2>3. QED
    BY <2>1, <2>2
<1>11. Top(y) /\ SameOthers(z, y) /\ y.active = a
  BY <1>4, <1>7, <1>8 DEF Top, SameOthers, Carries, SameWindows
<1>12. \A X : Due(z, X) => Due(y, X)
  BY <1>6, <1>8 DEF Carries
<1>13. Pointers(y) /\ Server(y)
  BY <1>8 DEF Carries
<1>14. QED
  BY <1>8, <1>9, <1>10, <1>11, <1>12, <1>13 DEF GaveUp

\* activateNextWindow
LEMMA ActivateNextCarries ==
  ASSUME NEW z, NEW v, GivesUp(z, v), NEW y, y = ActivateNextWindow(z, v),
         z.active # v /\ (z.should # <<>> => Last(z.should) # v) => Loss(z)
  PROVE  GaveUp(z, v, y)
<1>1. CASE v = z.active \/ (z.should # <<>> /\ v = Last(z.should))
  BY <1>1, PassOnCarries DEF ActivateNextWindow
<1>2. CASE ~(v = z.active \/ (z.should # <<>> /\ v = Last(z.should)))
  <2>1. y = z
    BY <1>2 DEF ActivateNextWindow
  <2>2. SameOthers(z, z)
    BY DEF SameOthers
  <2>3. QED
    BY <1>2, <2>1, <2>2 DEF GaveUp, GivesUp
<1>3. QED
  BY <1>1, <1>2

-----------------------------------------------------------------------------
(* Every action keeps track of the focus.                                  *)

\* The rest of the invariant.
Follows(z) == Server(z) /\ Due(z, {}) /\ Top(z) /\ Gain(z) /\ Loss(z)

\* It follows from what activateNextWindow leaves.
LEMMA GaveUpFollows ==
  ASSUME NEW z, NEW v, NEW y, GaveUp(z, v, y), Due(z, {})
  PROVE  Follows(y)
BY DEF GaveUp, Follows

\* A request for the focus.
LEMMA RequestFocusFollows ==
  ASSUME NEW z, Pointers(z), Follows(z), NEW w, NEW y, y = RequestFocus(z, w)
  PROVE  Pointers(y) /\ Follows(y) /\ SameWindows(z, y)
<1>1. Carries(z, y) /\ Gain(y) /\ Loss(y)
  BY RequestFocusCarries DEF Follows
<1>2. QED
  BY <1>1 DEF Carries, Follows, Top, SameWindows

\* It holds at first.
LEMMA InitFollows == Init => Follows(s)
<1>1. ToSet(<<>>) = {} /\ DOMAIN <<>> = {}
  BY DEF ToSet
<1>2. QED
  BY <1>1, FocusAssumption
     DEF Init, Follows, Server, Reporting, Due, Top, Gain, Loss, Unheard, Ordered, Reports

\* activateWindow
LEMMA ActivateFollows ==
  ASSUME Linked(s), Follows(s), NEW w \in Windows, Activate(w)
  PROVE  Follows(s')
<1> DEFINE x == Shown(s, w)
<1>1. Pointers(x)
  BY ShownKeeps DEF Linked, Keeps
<1>2. Follows(x)
  BY DEF Linked, Pointers, WindowState, Shown, Follows, Server, Reporting, Due, Top, Gain,
         Loss, Unheard, Reports
<1>3. s' = RequestFocus(x, w)
  BY DEF Activate
<1> HIDE DEF x
<1>4. QED
  BY <1>1, <1>2, <1>3, RequestFocusFollows

\* updateVisibility, internalHide
LEMMA HideFollows ==
  ASSUME Linked(s), Follows(s), NEW w \in Windows, Hide(w)
  PROVE  Follows(s')
<1> DEFINE x == [s EXCEPT !.hidden = s.hidden \cup {w}]
           y == Reverted(x, w)
<1>1. /\ x.active = s.active /\ x.last = s.last /\ x.chain = s.chain /\ x.managed = s.managed
      /\ x.timers = s.timers /\ x.alive = s.alive /\ x.should = s.should /\ x.focus = s.focus
      /\ x.events = s.events /\ x.lapses = s.lapses /\ x.hidden = s.hidden \cup {w}
      /\ Pointers(x)
  BY DEF Linked, Pointers, WindowState
<1>2. s' = ActivateNextWindow(y, w)
  BY DEF Hide
<1> HIDE DEF x
<1>3. Server(x) /\ Due(x, {}) /\ Gain(x)
  BY <1>1 DEF Follows, Server, Reporting, Due, Gain, Reports
<1>4. x.active # w => Top(x)
  BY <1>1 DEF Follows, Top
<1>5. (x.should # <<>> => Last(x.should) # w) => Loss(x)
  BY <1>1 DEF Follows, Loss, Unheard, Reports
<1>6. /\ Carries(x, y) /\ y.should = x.should /\ y.focus # w
      /\ (Gain(x) => Gain(y)) /\ (Loss(x) => Loss(y))
  BY <1>1, <1>3, RevertedCarries DEF Server
<1> HIDE DEF y
<1>7. GivesUp(y, w)
  BY <1>3, <1>4, <1>6 DEF GivesUp, Carries, SameWindows, Top
<1>8. GaveUp(y, w, s')
  BY <1>2, <1>5, <1>6, <1>7, ActivateNextCarries
<1>9. Due(y, {})
  BY <1>3, <1>6 DEF Carries
<1>10. QED
  BY <1>8, <1>9, GaveUpFollows

\* updateVisibility, internalKeep
LEMMA KeepFollows ==
  ASSUME Linked(s), Follows(s), NEW w \in Windows, Keep(w)
  PROVE  Follows(s')
<1> DEFINE x == [s EXCEPT !.hidden = s.hidden \cup {w}, !.kept = s.kept \cup {w}]
           y == IF s.active = w THEN FocusToNull(x) ELSE x
<1>1. /\ x.active = s.active /\ x.last = s.last /\ x.chain = s.chain /\ x.managed = s.managed
      /\ x.timers = s.timers /\ x.alive = s.alive /\ x.should = s.should /\ x.focus = s.focus
      /\ x.events = s.events /\ x.lapses = s.lapses /\ x.hidden = s.hidden \cup {w}
      /\ Pointers(x)
  BY DEF Linked, Pointers, WindowState
<1>2. s' = ActivateNextWindow(y, w)
  BY DEF Keep
<1> HIDE DEF x
<1>3. Server(x) /\ Due(x, {}) /\ Gain(x)
  BY <1>1 DEF Follows, Server, Reporting, Due, Gain, Reports
<1>4. x.active # w => Top(x)
  BY <1>1 DEF Follows, Top
<1>5. (x.should # <<>> => Last(x.should) # w) => Loss(x)
  BY <1>1 DEF Follows, Loss, Unheard, Reports
<1>6. CASE s.active = w
  <2>1. y = FocusToNull(x)
    BY <1>6
  <2> HIDE DEF y
  <2>2. Carries(x, y) /\ y.focus = NullFocus /\ Gain(y)
    BY <2>1, <1>1, <1>3, FocusToNullCarries
  <2>3. y.active = w /\ w # NullFocus
    BY <1>1, <1>6, <2>2, FocusAssumption DEF Carries, SameWindows
  <2>4. GivesUp(y, w)
    BY <2>2, <2>3 DEF GivesUp, Carries
  <2>5. GaveUp(y, w, s')
    BY <1>2, <2>3, <2>4, ActivateNextCarries
  <2>6. Due(y, {})
    BY <1>3, <2>2 DEF Carries
  <2>7. QED
    BY <2>5, <2>6, GaveUpFollows
<1>7. CASE s.active # w
  <2>1. y = x
    BY <1>7
  <2> HIDE DEF y
  <2>2. GivesUp(x, w)
    BY <1>1, <1>3, <1>4, <1>7 DEF GivesUp
  <2>3. GaveUp(x, w, s')
    BY <1>2, <1>5, <2>1, <2>2, ActivateNextCarries
  <2>4. QED
    BY <1>3, <2>3, GaveUpFollows
<1>8. QED
  BY <1>6, <1>7

\* updateVisibility, internalShow
LEMMA ShowFollows ==
  ASSUME Linked(s), Follows(s), NEW w \in Windows, Show(w)
  PROVE  Follows(s')
<1>1. s' = Shown(s, w)
  BY DEF Show
<1>2. Follows(Shown(s, w))
  BY DEF Linked, Pointers, WindowState, Shown, Follows, Server, Reporting, Due, Top, Gain,
         Loss, Unheard, Reports
<1>3. QED
  BY <1>1, <1>2

\* A client sets the focus.
LEMMA ClientSetsFocusFollows ==
  ASSUME Linked(s), Follows(s), NEW t \in Windows \cup {PointerRoot}, ClientSetsFocus(t)
  PROVE  Follows(s')
<1>1. s' = FocusMoved(s, t) /\ (t \in Windows => t \in s.alive) /\ t # NullFocus
  BY FocusAssumption DEF ClientSetsFocus, Viewable
<1>2. Carries(s, s') /\ Gain(s') /\ Loss(s')
  BY <1>1, FocusMovedCarries DEF Linked, Follows, Server
<1>3. QED
  BY <1>2 DEF Carries, Follows, Top, SameWindows

\* A client closes its window.
LEMMA ClientClosesFollows ==
  ASSUME Linked(s), Follows(s), NEW w \in Windows, ClientCloses(w)
  PROVE  Follows(s')
<1> DEFINE ev == Append(s.events, Closed(w))
           x == [s EXCEPT !.alive = s.alive \ {w}, !.events = ev]
<1>1. s.events \in EventsOnTheWay
  BY DEF Linked, Pointers, WindowState
<1>2. ev \in EventsOnTheWay /\ Ordered(ev, s.focus) /\ ToSet(ev) = Reports(s) \cup {Closed(w)}
  BY <1>1, ClosedOrdered DEF Follows, Server, Reporting, Reports
<1>3. s' = Reverted(x, w)
  BY DEF ClientCloses
<1> HIDE DEF ev
<1>4. /\ x.active = s.active
      /\ x.should = s.should /\ x.focus = s.focus
      /\ x.events = ev /\ x.lapses = s.lapses /\ x.alive = s.alive \ {w}
      /\ Pointers(x)
  BY <1>2 DEF Linked, Pointers, WindowState
<1>5. /\ x.last = s.last /\ x.chain = s.chain /\ x.managed = s.managed
      /\ x.hidden = s.hidden /\ x.timers = s.timers
  BY DEF Linked, Pointers, WindowState
<1> HIDE DEF x
<1>6. Reports(x) = Reports(s) \cup {Closed(w)}
  BY <1>2, <1>4 DEF Reports
<1>7. Reporting(x) /\ Due(x, {})
  BY <1>2, <1>4, <1>5, <1>6, EventsDiffer DEF Follows, Server, Reporting, Due
<1>8. Gain(x) /\ Loss(x) /\ Top(x)
  BY <1>4, <1>5, <1>6, EventsDiffer DEF Follows, Gain, Loss, Unheard, Top
<1>9. x.focus \in Windows /\ x.focus # w => x.focus \in x.alive
  BY <1>4 DEF Follows, Server
<1>10. Carries(x, s') /\ Gain(s') /\ Loss(s')
  BY <1>3, <1>4, <1>7, <1>8, <1>9, RevertedCarries
<1>11. QED
  BY <1>7, <1>8, <1>10 DEF Carries, Follows, Top, SameWindows

\* A window that is managed anew is inserted below the active one.
LEMMA ManageFollows ==
  ASSUME Linked(s), Follows(s), NEW w \in Windows, NEW allow \in BOOLEAN, Manage(w, allow)
  PROVE  Follows(s')
<1> DEFINE z == [s EXCEPT !.managed = s.managed \cup {w}, !.alive = s.alive \cup {w}]
           y == IF allow THEN RequestFocus(z, w) ELSE z
           c == InsertIntoChain(y, w)
<1>1. s' = [y EXCEPT !.chain = c] /\ w \notin s.managed /\ Closed(w) \notin Reports(s)
  <2>1. \A i \in DOMAIN s.events : s.events[i] # Closed(w)
    BY DEF Manage, Closed
  <2>2. QED
    BY <2>1 DEF Manage, Reports, ToSet
<1>2. /\ z.active = s.active /\ z.last = s.last /\ z.chain = s.chain /\ z.hidden = s.hidden
      /\ z.timers = s.timers /\ z.should = s.should /\ z.focus = s.focus
      /\ z.events = s.events /\ z.lapses = s.lapses
      /\ z.managed = s.managed \cup {w} /\ z.alive = s.alive \cup {w}
      /\ Pointers(z)
  BY DEF Linked, Pointers, WindowState
<1> HIDE DEF z
<1>3. Follows(z)
  <2>1. Server(z) /\ Due(z, {}) /\ Top(z) /\ Gain(z)
    BY <1>1, <1>2 DEF Follows, Server, Reporting, Due, Top, Gain, Reports
  <2>2. Unheard(z) => Unheard(s)
    BY <1>1, <1>2, FocusAssumption DEF Unheard, Reports, Linked, Pointers
  <2>3. s.should # <<>> => Last(s.should) # w
    <3>1. s.should # <<>> => Last(s.should) \in ToSet(s.should)
      BY <1>2 DEF Pointers, WindowState, Last, ToSet
    <3>2. QED
      BY <1>1, <3>1 DEF Linked, Pointers
  <2>4. Loss(z)
    BY <1>2, <2>2, <2>3 DEF Follows, Loss, Reports
  <2>5. QED
    BY <2>1, <2>4 DEF Follows
<1>4. Pointers(y) /\ Follows(y)
  BY <1>2, <1>3, RequestFocusFollows
<1> HIDE DEF y
<1>5. y.active # None => c # <<>> /\ Last(c) = y.active
  <2>1. SUFFICES ASSUME y.active # None PROVE c # <<>> /\ Last(c) = y.active
    OBVIOUS
  <2>2. y.chain \in Seq(Windows) /\ y.chain # <<>> /\ Last(y.chain) = y.active
    BY <1>4, <2>1 DEF Follows, Top, Pointers, WindowState
  <2>3. Len(y.chain) > 0
    BY <2>2
  <2>4. c = InsertAt(y.chain, Len(y.chain), w)
    BY <2>2, <2>3 DEF InsertIntoChain
  <2> HIDE DEF c
  <2> DEFINE q == y.chain
  <2>5. q \in Seq(Windows) /\ Len(q) > 0 /\ c = InsertAt(q, Len(q), w) /\ Last(q) = y.active
    BY <2>2, <2>3, <2>4
  <2> HIDE DEF q
  <2>6. QED
    BY <2>5, InsertEffect
<1> HIDE DEF c
<1>6. /\ s'.active = y.active /\ s'.last = y.last /\ s'.chain = c /\ s'.managed = y.managed
      /\ s'.hidden = y.hidden /\ s'.timers = y.timers /\ s'.alive = y.alive
      /\ s'.should = y.should /\ s'.focus = y.focus /\ s'.events = y.events /\ s'.lapses = y.lapses
  BY <1>1, <1>4 DEF Pointers, WindowState
<1> DEFINE x == s'
<1>7. /\ x.active = y.active /\ x.last = y.last /\ x.chain = c /\ x.managed = y.managed
      /\ x.hidden = y.hidden /\ x.timers = y.timers /\ x.alive = y.alive
      /\ x.should = y.should /\ x.focus = y.focus /\ x.events = y.events /\ x.lapses = y.lapses
  BY <1>6
<1> HIDE DEF x
<1>8. Follows(x)
  BY <1>4, <1>5, <1>7 DEF Follows, Server, Reporting, Due, Top, Gain, Loss, Unheard, Reports
<1>9. QED
  BY <1>8 DEF x

\* An event is taken that is no report of a closed window.
LEMMA RestFollows ==
  ASSUME Linked(s), Follows(s), s.events # <<>>
  PROVE  /\ SameWindows(s, Rest) /\ Rest.should = s.should /\ Rest.focus = s.focus
         /\ Rest.lapses = s.lapses /\ Pointers(Rest) /\ Server(Rest) /\ Top(Rest)
         /\ Reports(s) = {Head(s.events)} \cup Reports(Rest)
         /\ \A w \in Windows :
              /\ Head(s.events) = FocusOut(w) /\ w = s.focus => FocusIn(w) \in Reports(Rest)
              /\ Head(s.events) = FocusIn(w) /\ w # s.focus =>
                   /\ s.focus \in Windows => FocusIn(s.focus) \in Reports(Rest)
                   /\ FocusOut(w) \in Reports(Rest)
<1> DEFINE q == s.events
           r == Tail(q)
           f == s.focus
<1>1. q \in EventsOnTheWay /\ q # <<>> /\ Ordered(q, f)
  BY DEF Linked, Pointers, WindowState, Follows, Server, Reporting
<1>2. Rest.events = r /\ SameWindows(s, Rest) /\ Rest.should = s.should /\ Rest.focus = f /\ Rest.lapses = s.lapses
  BY DEF Rest, SameWindows, Linked, Pointers, WindowState
<1>3. Pointers(Rest)
  BY RestKeeps DEF Linked, Keeps
<1>4. Reports(Rest) = ToSet(r) /\ Reports(s) = ToSet(q)
  BY <1>2 DEF Reports
<1> HIDE DEF q, f
<1>5. /\ Ordered(r, f) /\ ToSet(q) = {Head(q)} \cup ToSet(r)
      /\ \A e : Behind(q, 1, e) => e \in ToSet(r)
      /\ 1 \in DOMAIN q /\ Head(q) = q[1]
  BY <1>1, TailOrdered
<1> HIDE DEF r
<1>6. Server(Rest) /\ Top(Rest)
  BY <1>2, <1>4, <1>5 DEF Follows, Server, Reporting, Top, SameWindows, f, q
<1>7. ASSUME NEW w \in Windows
      PROVE  /\ Head(q) = FocusOut(w) /\ w = f => FocusIn(w) \in ToSet(r)
             /\ Head(q) = FocusIn(w) /\ w # f =>
                  /\ f \in Windows => FocusIn(f) \in ToSet(r)
                  /\ FocusOut(w) \in ToSet(r)
  BY <1>1, <1>5 DEF Ordered
<1>8. QED
  BY <1>2, <1>3, <1>4, <1>5, <1>6, <1>7 DEF q, f

\* focusInEvent
LEMMA HandleFocusInFollows ==
  ASSUME Linked(s), Follows(s), NEW w \in Windows, HandleFocusIn(w)
  PROVE  Follows(s')
<1> DEFINE x == Rest
<1>1. s.events # <<>> /\ Head(s.events) = FocusIn(w)
  BY DEF HandleFocusIn, Arrives
<1>2. /\ SameWindows(s, x) /\ x.should = s.should /\ x.focus = s.focus /\ x.lapses = s.lapses
      /\ Pointers(x) /\ Server(x) /\ Top(x) /\ Reports(s) = {FocusIn(w)} \cup Reports(x)
      /\ w # s.focus => /\ s.focus \in Windows => FocusIn(s.focus) \in Reports(x)
                        /\ FocusOut(w) \in Reports(x)
  BY <1>1, RestFollows
<1>3. Due(x, {})
  BY <1>2, EventsDiffer DEF Follows, Due, SameWindows
<1>4. CASE ~isShown(s, w)
  <2> DEFINE l == IF s.focus = w THEN x.lapses \cup {"ignored"} ELSE x.lapses
             y == [x EXCEPT !.lapses = l]
  <2>1. s' = y
    BY <1>4 DEF HandleFocusIn
  <2>2. /\ SameWindows(x, y) /\ y.should = x.should /\ y.focus = x.focus /\ y.events = x.events
        /\ y.lapses = l
    BY <1>2 DEF SameWindows, Pointers, WindowState
  <2> HIDE DEF x, y
  <2>3. Server(y) /\ Due(y, {}) /\ Top(y)
    BY <1>2, <1>3, <2>2 DEF Server, Reporting, Due, Top, SameWindows, Reports
  <2>4. Gain(y)
    BY <1>2, <2>2, EventsDiffer DEF Follows, Gain, SameWindows, Reports
  <2>5. Reports(y) = Reports(x) /\ \A v : FocusOut(v) \in Reports(s) => FocusOut(v) \in Reports(x)
    BY <1>2, <2>2, EventsDiffer DEF Reports
  <2>6. FocusIn(PointerRoot) \in Reports(s) => FocusIn(PointerRoot) \in Reports(x)
    <3>1. FocusIn(PointerRoot) # FocusIn(w)
      BY EventsDiffer, FocusAssumption
    <3>2. QED
      BY <3>1, <1>2
  <2>7. Unheard(y) => Unheard(s)
    BY <1>2, <2>2, <2>5 DEF Unheard, SameWindows
  <2>8. Loss(y)
    BY <1>2, <2>2, <2>5, <2>6, <2>7 DEF Follows, Loss, SameWindows
  <2>9. QED
    BY <2>1, <2>3, <2>4, <2>8 DEF Follows
<1>5. CASE isShown(s, w)
  <2> DEFINE g == GotFocusIn(x.should, w)
             z == [x EXCEPT !.timers = {}, !.should = g]
             t == RestoreTarget(z)
  <2>1. PICK allowed \in AllowedToStay(w) :
          s' = IF ~allowed /\ FocusSucceeds(z, t) THEN RequestFocus(z, t) ELSE SetActive(z, w)
    BY <1>5 DEF HandleFocusIn
  <2>2. /\ g \in Seq(Windows) /\ ToSet(g) \subseteq x.managed
        /\ g # <<>> => s.should # <<>> /\ Last(g) = Last(s.should)
    <3>1. x.should \in Seq(Windows) /\ ToSet(x.should) \subseteq x.managed
      BY <1>2 DEF Pointers, WindowState
    <3>2. QED
      BY <1>2, <3>1, GotFocusInEffect
  <2> HIDE DEF x, g
  <2>3. /\ z.active = s.active /\ z.last = s.last /\ z.chain = s.chain /\ z.managed = s.managed
        /\ z.hidden = s.hidden /\ z.kept = s.kept /\ z.alive = s.alive /\ z.timers = {}
        /\ z.should = g /\ z.focus = s.focus /\ z.events = x.events /\ z.lapses = s.lapses
        /\ Pointers(z)
    BY <1>2, <2>2 DEF Pointers, WindowState, SameWindows
  <2> HIDE DEF z
  <2>4. Server(z) /\ Due(z, {}) /\ Top(z) /\ (w # s.focus => Gain(z))
    BY <1>2, <1>3, <2>3 DEF Server, Reporting, Due, Top, Gain, SameWindows, Reports
  <2>5. CASE ~allowed /\ FocusSucceeds(z, t)
    <3>1. ~Contains(s.should, w) /\ s.last # w
      BY <2>1, <2>5 DEF AllowedToStay
    <3>2. s.should # <<>> => Last(s.should) # w
      <4>1. s.should \in Seq(Windows)
        BY DEF Linked, Pointers, WindowState
      <4>2. s.should # <<>> => Len(s.should) \in 1..Len(s.should)
        BY <4>1
      <4>3. QED
        BY <3>1, <4>2 DEF Contains, Last
    <3>3. t # w
      BY <2>2, <2>3, <3>1, <3>2 DEF RestoreTarget
    <3>4. Gain(z) \/ z.focus # t
      BY <2>3, <2>4, <3>3
    <3>5. s' = RequestFocus(z, t)
      BY <2>1, <2>5
    <3> HIDE DEF t
    <3>6. Carries(z, s') /\ Gain(s') /\ Loss(s')
      BY <2>3, <2>4, <2>5, <3>4, <3>5, RequestFocusCarries
    <3>7. QED
      BY <2>4, <3>6 DEF Carries, Follows, Top, SameWindows
  <2>6. CASE ~(~allowed /\ FocusSucceeds(z, t))
    <3> DEFINE y == SetActive(z, w)
    <3>1. s' = y
      BY <2>1, <2>6
    <3>2. /\ y.active = w /\ y.hidden = s.hidden /\ y.managed = s.managed /\ y.alive = s.alive
          /\ y.timers = {} /\ y.focus = s.focus /\ y.events = x.events /\ y.lapses = s.lapses
      BY <2>3 DEF SetActive, Pointers, WindowState
    <3>3. y.last = w /\ y.chain # <<>> /\ Last(y.chain) = w
      <4>1. CASE z.active = w
        <5>1. w # None
          BY FocusAssumption
        <5>2. QED
          BY <4>1, <5>1, <2>4 DEF SetActive, Top
      <4>2. CASE z.active # w
        <5> DEFINE q == RemoveAll(z.chain, w)
                   c == Append(q, w)
        <5>1. z.chain \in Seq(Windows)
          BY <2>3 DEF Pointers, WindowState
        <5>2. q \in Seq(Windows)
          BY <5>1, RemoveAllEffect
        <5> HIDE DEF q
        <5>3. c # <<>> /\ Last(c) = w
          BY <5>2, AppendEffect
        <5>4. y = [z EXCEPT !.active = w, !.last = w, !.chain = c]
          BY <2>3, <4>2 DEF SetActive, Pointers, WindowState, q
        <5> HIDE DEF c, y
        <5>5. y.last = w /\ y.chain = c
          BY <2>3, <5>4 DEF Pointers, WindowState
        <5>6. QED
          BY <5>3, <5>5
      <4>3. QED
        BY <4>1, <4>2
    <3> HIDE DEF y
    <3>4. Top(y)
      BY <1>5, <3>2, <3>3 DEF Top, isShown
    <3>5. Server(y) /\ Due(y, {})
      BY <2>3, <2>4, <3>2 DEF Server, Reporting, Due, Reports
    <3>6. Gain(y) /\ Loss(y)
      BY <1>2, <3>2 DEF Gain, Loss, Unheard, Reports
    <3>7. QED
      BY <3>1, <3>4, <3>5, <3>6 DEF Follows
  <2>7. QED
    BY <2>5, <2>6
<1>6. QED
  BY <1>4, <1>5

\* focusOutEvent
LEMMA HandleFocusOutFollows ==
  ASSUME Linked(s), Follows(s), NEW w \in Windows, HandleFocusOut(w)
  PROVE  Follows(s')
<1> DEFINE x == Rest
           m == IF w \in s.managed THEN x.timers \cup {w} ELSE x.timers
           y == [x EXCEPT !.timers = m]
<1>1. s.events # <<>> /\ Head(s.events) = FocusOut(w)
  BY DEF HandleFocusOut, Arrives
<1>2. /\ SameWindows(s, x) /\ x.should = s.should /\ x.focus = s.focus /\ x.lapses = s.lapses
      /\ Pointers(x) /\ Server(x) /\ Top(x) /\ Reports(s) = {FocusOut(w)} \cup Reports(x)
      /\ w = s.focus => FocusIn(w) \in Reports(x)
  BY <1>1, RestFollows
<1>3. s' = y
  <2>1. CASE w \in s.managed
    BY <2>1 DEF HandleFocusOut
  <2>2. CASE w \notin s.managed
    <3>1. [x EXCEPT !.timers = x.timers] = x
      BY <1>2 DEF Pointers, WindowState
    <3>2. QED
      BY <2>2, <3>1 DEF HandleFocusOut
  <2>3. QED
    BY <2>1, <2>2
<1>4. /\ y.active = s.active /\ y.last = s.last /\ y.chain = s.chain /\ y.managed = s.managed
      /\ y.hidden = s.hidden /\ y.alive = s.alive /\ y.timers = m
      /\ y.should = s.should /\ y.focus = s.focus /\ y.events = x.events /\ y.lapses = s.lapses
  BY <1>2 DEF SameWindows, Pointers, WindowState
<1>5. m = IF w \in s.managed THEN s.timers \cup {w} ELSE s.timers
  BY <1>2 DEF SameWindows
<1> HIDE DEF x, y, m
<1>6. Server(y) /\ Due(y, {}) /\ Top(y)
  BY <1>2, <1>4, EventsDiffer DEF Follows, Server, Reporting, Due, Top, SameWindows, Reports
<1>7. Gain(y)
  BY <1>2, <1>4, <1>5, EventsDiffer DEF Follows, Gain, Reports
<1>8. ASSUME Unheard(y) PROVE Unheard(s)
  <2>1. y.active \in s.managed
    BY <1>4, <1>8 DEF Unheard, Follows, Server, Reporting
  <2>2. y.active # w
    BY <1>4, <1>5, <1>8, <2>1 DEF Unheard
  <2>3. FocusOut(y.active) # FocusOut(w)
    BY <2>2, EventsDiffer
  <2>4. QED
    BY <1>2, <1>4, <1>5, <1>8, <2>3 DEF Unheard, Reports
<1>9. Loss(y)
  BY <1>2, <1>4, <1>8, EventsDiffer DEF Follows, Loss, Reports
<1>10. QED
  BY <1>3, <1>6, <1>7, <1>9 DEF Follows

\* removeWindow, of a window that is gone and has been given up.
LEMMA ForgottenFollows ==
  ASSUME NEW z, Linked(z), NEW w \in Windows, Server(z), Due(z, {w}), Top(z), Gain(z), Loss(z),
         w \notin z.alive, z.active # w, z.should # <<>> => Last(z.should) # w
  PROVE  Follows(Forgotten(z, w))
<1> DEFINE c == RemoveAll(z.chain, w)
           q == RemoveAll(z.should, w)
           l == IF z.last = w THEN None ELSE z.last
           y == Forgotten(z, w)
<1>1. z.chain \in Seq(Windows) /\ z.should \in Seq(Windows)
  BY DEF Linked, Pointers, WindowState
<1>2. z.chain # <<>> /\ Last(z.chain) # w => c # <<>> /\ Last(c) = Last(z.chain)
  BY <1>1, RemoveAllEffect
<1>3. z.should # <<>> => q # <<>> /\ Last(q) = Last(z.should)
  BY <1>1, RemoveAllEffect
<1>4. q # <<>> => z.should # <<>>
  <2>1. SUFFICES ASSUME z.should = <<>> PROVE q = <<>>
    OBVIOUS
  <2>2. q \in Seq(Windows) /\ ToSet(q) = ToSet(z.should) \ {w}
    BY <1>1, RemoveAllEffect
  <2> HIDE DEF q
  <2>3. ToSet(z.should) = {}
    BY <2>1 DEF ToSet
  <2>4. DOMAIN q = {}
    BY <2>2, <2>3 DEF ToSet
  <2>5. QED
    BY <2>2, <2>4
<1> HIDE DEF c, q
<1>5. /\ y.active = z.active /\ y.last = l /\ y.chain = c /\ y.managed = z.managed \ {w}
      /\ y.hidden = z.hidden \ {w} /\ y.alive = z.alive /\ y.timers = z.timers \ {w}
      /\ y.should = q /\ y.focus = z.focus /\ y.events = z.events /\ y.lapses = z.lapses
  BY DEF Forgotten, Linked, Pointers, WindowState, c, q
<1> HIDE DEF y
<1>6. Server(y) /\ Due(y, {})
  BY <1>5 DEF Server, Reporting, Due, Reports
<1>7. Top(y)
  BY <1>2, <1>5 DEF Top
<1>8. Gain(y)
  BY <1>5 DEF Gain, Reports
<1>9. Loss(y)
  BY <1>3, <1>4, <1>5 DEF Loss, Unheard, Reports
<1>10. QED
  BY <1>6, <1>7, <1>8, <1>9 DEF Follows, y

\* destroyWindow and releaseWindow
LEMMA HandleClosedFollows ==
  ASSUME Linked(s), Follows(s), NEW w \in Windows, HandleClosed(w)
  PROVE  Follows(s')
<1> DEFINE r == Rest
           x == [r EXCEPT !.hidden = r.hidden \cup {w}]
           y == ActivateNextWindow(x, w)
<1>1. s.events # <<>> /\ Head(s.events) = Closed(w)
  BY DEF HandleClosed, Arrives
<1>2. /\ SameWindows(s, r) /\ r.should = s.should /\ r.focus = s.focus /\ r.lapses = s.lapses
      /\ Pointers(r) /\ Server(r) /\ Top(r) /\ Reports(s) = {Closed(w)} \cup Reports(r)
  BY <1>1, RestFollows
<1>3. s' = Forgotten(y, w)
  BY DEF HandleClosed
<1>4. /\ x.active = s.active /\ x.last = s.last /\ x.chain = s.chain /\ x.managed = s.managed
      /\ x.hidden = s.hidden \cup {w} /\ x.alive = s.alive /\ x.timers = s.timers
      /\ x.should = s.should /\ x.focus = s.focus /\ x.events = r.events /\ x.lapses = s.lapses
      /\ Pointers(x)
  BY <1>2 DEF SameWindows, Pointers, WindowState
<1> HIDE DEF r, x
<1>5. w \notin x.alive /\ x.focus # w
  BY <1>2, <1>4 DEF Follows, Server, Reporting
<1>6. Server(x) /\ Due(x, {w}) /\ Gain(x)
  BY <1>2, <1>4, EventsDiffer DEF Follows, Server, Reporting, Due, Gain, Reports, SameWindows
<1>7. x.active # w => Top(x)
  BY <1>4 DEF Follows, Top
<1>8. (x.should # <<>> => Last(x.should) # w) => Loss(x)
  <2>1. Unheard(x) => Unheard(s)
    BY <1>2, <1>4, EventsDiffer DEF Unheard, Reports
  <2>2. QED
    BY <1>2, <1>4, <2>1, EventsDiffer DEF Follows, Loss, Reports
<1>9. GivesUp(x, w)
  BY <1>4, <1>5, <1>6, <1>7 DEF GivesUp
<1>10. GaveUp(x, w, y)
  BY <1>8, <1>9, ActivateNextCarries
<1>11. Linked(y)
  <2>1. Linked(x)
    BY <1>4 DEF Linked
  <2>2. QED
    BY <2>1, ActivateNextKeeps, KeepsLinked DEF Linked
<1> HIDE DEF y
<1>12. /\ Server(y) /\ Due(y, {w}) /\ Top(y) /\ Gain(y) /\ Loss(y) /\ w \notin y.alive
       /\ y.active # w /\ (y.should # <<>> => Last(y.should) # w)
  BY <1>4, <1>5, <1>6, <1>10, FocusAssumption DEF GaveUp, SameOthers
<1>13. QED
  BY <1>3, <1>11, <1>12, ForgottenFollows

\* FocusIn of the root window.
LEMMA HandleRootFocusInFollows ==
  ASSUME Linked(s), Follows(s), HandleRootFocusIn
  PROVE  Follows(s')
<1> DEFINE x == Rest
           w == mostRecentlyActivatedWindow(s)
<1>1. s.events # <<>> /\ Head(s.events) = FocusIn(PointerRoot)
  BY DEF HandleRootFocusIn, Arrives
<1>2. /\ SameWindows(s, x) /\ x.should = s.should /\ x.focus = s.focus /\ x.lapses = s.lapses
      /\ Pointers(x) /\ Server(x) /\ Top(x)
      /\ Reports(s) = {FocusIn(PointerRoot)} \cup Reports(x)
  BY <1>1, RestFollows
<1>3. \A v : /\ Closed(v) # FocusIn(PointerRoot) /\ FocusOut(v) # FocusIn(PointerRoot)
             /\ v \in Windows => FocusIn(v) # FocusIn(PointerRoot)
  BY EventsDiffer, FocusAssumption
<1>4. Due(x, {}) /\ Gain(x)
  BY <1>2, <1>3 DEF Follows, Due, Gain, SameWindows
<1>5. Unheard(x) => Unheard(s)
  BY <1>2, <1>3 DEF Unheard, SameWindows
<1>6. CASE s.focus # PointerRoot
  <2>1. s' = x
    BY <1>6 DEF HandleRootFocusIn
  <2>2. Loss(x)
    BY <1>2, <1>5, <1>6 DEF Follows, Loss, SameWindows
  <2>3. QED
    BY <1>2, <1>4, <2>1, <2>2 DEF Follows
<1>7. CASE s.focus = PointerRoot /\ w # None
  <2>1. s' = RequestFocus(x, w)
    BY <1>7 DEF HandleRootFocusIn
  <2>2. Carries(x, s') /\ Gain(s') /\ (FocusSucceeds(x, w) => Loss(s'))
        /\ (~FocusSucceeds(x, w) => s'.should = x.should /\ s'.focus = x.focus /\ s'.events = x.events)
    BY <1>2, <1>4, <2>1, RequestFocusCarries
  <2>3. ASSUME ~FocusSucceeds(x, w), Unheard(s') PROVE Loss(s')
    <3>1. Unheard(x)
      BY <2>2, <2>3 DEF Unheard, Carries, SameWindows, Reports
    <3>2. Unheard(s) /\ (s.should # <<>> => Last(s.should) \notin s.hidden)
      BY <1>5, <3>1 DEF Follows, Loss
    <3>3. ASSUME s.should = <<>> PROVE FALSE
      <4>1. w = s.active
        BY <3>3 DEF mostRecentlyActivatedWindow
      <4>2. w \in s.alive /\ w \in s.managed /\ w \notin s.hidden
        BY <3>2, <4>1, <1>7 DEF Unheard, Follows, Server, Reporting, Top
      <4> HIDE DEF w
      <4>3. FocusSucceeds(x, w)
        BY <1>2, <4>2 DEF FocusSucceeds, isShown, Viewable, SameWindows
      <4>4. QED
        BY <2>3, <4>3
    <3>4. w = Last(s.should) /\ w \in s.managed
      <4>1. s.should \in Seq(Windows) /\ ToSet(s.should) \subseteq s.managed
        BY DEF Linked, Pointers, WindowState
      <4>2. Last(s.should) \in ToSet(s.should)
        BY <3>3, <4>1 DEF Last, ToSet
      <4>3. QED
        BY <3>3, <4>1, <4>2 DEF mostRecentlyActivatedWindow
    <3> HIDE DEF w
    <3>5. w \notin x.alive
      BY <1>2, <2>3, <3>2, <3>3, <3>4 DEF FocusSucceeds, isShown, Viewable, SameWindows
    <3>6. s'.should = s.should /\ s'.focus = PointerRoot /\ s'.alive = x.alive /\ s'.hidden = s.hidden
      BY <1>2, <1>7, <2>2, <2>3 DEF Carries, SameWindows
    <3>7. QED
      BY <3>2, <3>3, <3>4, <3>5, <3>6, FocusAssumption DEF Loss
  <2>4. Loss(s')
    BY <2>2, <2>3 DEF Loss
  <2>5. QED
    BY <1>2, <1>4, <2>2, <2>4 DEF Carries, Follows, Top, SameWindows
<1>8. CASE s.focus = PointerRoot /\ w = None
  <2>1. s' = ActivateNextWindow(x, None)
    BY <1>8 DEF HandleRootFocusIn
  <2>2. s.active = None
    <3>1. s.should \in Seq(Windows)
      BY DEF Linked, Pointers, WindowState
    <3>2. s.should # <<>> => Last(s.should) \in Windows
      BY <3>1 DEF Last
    <3>3. QED
      BY <1>8, <3>2, FocusAssumption DEF mostRecentlyActivatedWindow
  <2>3. x.active = None /\ x.focus # None
    BY <1>2, <1>8, <2>2, FocusAssumption DEF SameWindows
  <2>4. GivesUp(x, None)
    BY <1>2, <1>4, <2>3 DEF GivesUp
  <2>5. GaveUp(x, None, s')
    BY <2>1, <2>3, <2>4, ActivateNextCarries
  <2>6. QED
    BY <1>4, <2>5, GaveUpFollows
<1>9. QED
  BY <1>6, <1>7, <1>8

\* m_focusOutTimer
LEMMA TimeoutFollows ==
  ASSUME Linked(s), Follows(s), NEW w \in Windows, FocusOutTimeout(w)
  PROVE  Follows(s')
<1> DEFINE x == [s EXCEPT !.timers = s.timers \ {w}]
           y == SetInactive(x, w)
<1>1. s' = y /\ w \in s.timers
  BY DEF FocusOutTimeout
<1>2. /\ y.active = (IF s.active = w THEN None ELSE s.active) /\ y.last = s.last
      /\ y.chain = s.chain /\ y.managed = s.managed /\ y.hidden = s.hidden
      /\ y.alive = s.alive /\ y.timers = s.timers \ {w} /\ y.should = s.should
      /\ y.focus = s.focus /\ y.events = s.events /\ y.lapses = s.lapses
  BY DEF SetInactive, Linked, Pointers, WindowState
<1> HIDE DEF y
<1>3. Server(y) /\ Due(y, {}) /\ Top(y)
  BY <1>2 DEF Follows, Server, Reporting, Due, Top, Reports
<1>4. Gain(y)
  BY <1>1, <1>2 DEF Follows, Gain, Reports
<1>5. Unheard(y) => Unheard(s)
  <2>1. None \notin y.alive
    BY <1>2, FocusAssumption DEF Linked, Pointers, WindowState
  <2>2. QED
    BY <1>2, <2>1 DEF Unheard, Reports
<1>6. Loss(y)
  BY <1>2, <1>5 DEF Follows, Loss, Reports
<1>7. QED
  BY <1>1, <1>3, <1>4, <1>6 DEF Follows

\* Every step keeps the invariant.
LEMMA NextFollows == Linked(s) /\ Follows(s) /\ [Next]_s => Follows(s')
<1> SUFFICES ASSUME Linked(s), Follows(s), [Next]_s PROVE Follows(s')
  OBVIOUS
<1>1. CASE Move
  BY <1>1, ActivateFollows, HideFollows, KeepFollows, ShowFollows, ClientClosesFollows, ManageFollows,
     ClientSetsFocusFollows DEF Move
<1>2. CASE Handle
  BY <1>2, HandleFocusInFollows, HandleFocusOutFollows, HandleClosedFollows, HandleRootFocusInFollows
     DEF Handle
<1>3. CASE Timeout
  BY <1>3, TimeoutFollows DEF Timeout
<1>4. CASE s' = s
  BY <1>4
<1>5. QED
  BY <1>1, <1>2, <1>3, <1>4 DEF Next

\* With nothing left to handle, the active window is the one with the focus.
LEMMA FollowsImplies == Linked(s) /\ Follows(s) => ActiveHasFocus
<1> SUFFICES ASSUME Linked(s), Follows(s), Quiet, "ignored" \notin s.lapses
             PROVE  s.active = IF s.focus \in Windows THEN s.focus ELSE None
  BY DEF ActiveHasFocus
<1>1. Reports(s) = {} /\ s.timers = {}
  BY DEF Quiet, Reports, ToSet
<1>2. CASE s.focus \in Windows
  BY <1>1, <1>2 DEF Follows, Gain
<1>3. CASE s.focus \notin Windows
  <2>1. SUFFICES ASSUME s.active # None PROVE FALSE
    BY <1>3
  <2>2. s.active \in s.managed /\ s.should \in Seq(Windows) /\ ToSet(s.should) \subseteq s.managed
        /\ s.managed \subseteq Windows /\ s.focus \in {NullFocus, PointerRoot}
    BY <1>3, <2>1 DEF Linked, Pointers, WindowState
  <2>3. s.managed \subseteq s.alive
    BY <1>1 DEF Follows, Due
  <2>4. Unheard(s)
    BY <1>1, <1>3, <2>2, <2>3 DEF Unheard
  <2>5. s.should # <<>> => Last(s.should) \in s.alive
    <3>1. s.should # <<>> => Last(s.should) \in ToSet(s.should)
      BY <2>2 DEF Last, ToSet
    <3>2. QED
      BY <2>2, <2>3, <3>1
  <2>6. QED
    BY <1>1, <2>2, <2>4, <2>5 DEF Follows, Loss
<1>4. QED
  BY <1>2, <1>3

\* Once everything is handled the window that KWin takes for the active one
\* is the one that has the focus, however the requests of KWin and of the
\* clients, the reports of the server and the timers crossed; unless a client
\* gave the focus to a hidden window that is still mapped.
THEOREM ActiveAlwaysHasFocus == Spec => []ActiveHasFocus
<1> DEFINE Inv == Linked(s) /\ Follows(s)
<1>1. Init => Inv
  BY InitLinked, InitFollows
<1>2. Inv /\ [Next]_s => Inv'
  <2> SUFFICES ASSUME Inv, [Next]_s PROVE Inv'
    OBVIOUS
  <2>1. Linked(s)'
    BY NextLinked DEF Linked, Pointers, WindowState, EventsOnTheWay
  <2>2. Follows(s')
    BY NextFollows
  <2>3. Follows(s)'
    BY <2>2 DEF Follows, Server, Reporting, Due, Top, Gain, Loss, Unheard, Ordered, Behind, Reports
  <2>4. QED
    BY <2>1, <2>3
<1>3. Inv => ActiveHasFocus
  BY FollowsImplies
<1>4. QED
  BY <1>1, <1>2, <1>3, PTL DEF Spec
=============================================================================
