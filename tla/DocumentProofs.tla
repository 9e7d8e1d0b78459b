--------------------------- MODULE DocumentProofs ---------------------------
(***************************************************************************)
(* What is proved of the way from a drawing or a prompt to a document, for *)
(* any drawings, prompts, answers and limits.  There are three parts, each *)
(* with an invariant of its own.                                           *)
(*                                                                         *)
(*   ChainInv   the segments are chained into the outline of the drawing   *)
(*   PlanInv    a plan has the holes it was asked for, where they fit      *)
(*   HolesInv   circles grouped into patterns are never lost or doubled    *)
(*                                                                         *)
(* Each begins with what the operators it needs are: sequences, counted    *)
(* or listed, a chain that is stuck, the holes of a plan, the patterns of  *)
(* a group of circles, the nodes of a tree.                                *)
(***************************************************************************)
EXTENDS PartSolid, FiniteSetTheorems, FunctionTheorems, SequenceTheorems,
        WellFoundedInduction, TLAPS

(* How many members of a sequence are in a set.                            *)
Where(s, S) == {i \in DOMAIN s : s[i] \in S}
Count(s, S) == Cardinality(Where(s, S))
One(x, S) == IF x \in S THEN 1 ELSE 0

LEMMA Counting ==
  ASSUME NEW T, NEW s \in Seq(T), NEW S
  PROVE  /\ IsFiniteSet(Where(s, S))
         /\ Count(s, S) \in Nat
         /\ Count(s, S) = 0 <=> \A i \in DOMAIN s : s[i] \notin S
  <1>1. IsFiniteSet(1 .. Len(s)) /\ DOMAIN s = 1 .. Len(s)
    BY FS_Interval
  <1>2. Where(s, S) \subseteq 1 .. Len(s)
    BY <1>1 DEF Where
  <1>3. IsFiniteSet(Where(s, S))
    BY <1>1, <1>2, FS_Subset
  <1>4. Count(s, S) \in Nat /\ (Count(s, S) = 0 <=> Where(s, S) = {})
    BY <1>3, FS_CardinalityType, FS_EmptySet DEF Count
  <1>. QED
    BY <1>3, <1>4 DEF Where

(* Taking the m-th member out of a sequence.                               *)
Without(t, s, m) ==
  /\ Len(t) = Len(s) - 1
  /\ \A j \in 1 .. Len(t) : t[j] = s[IF j < m THEN j ELSE j + 1]

LEMMA CountWithout ==
  ASSUME NEW T, NEW s \in Seq(T), NEW t \in Seq(T), NEW m \in 1 .. Len(s),
         Without(t, s, m), NEW S
  PROVE  Count(s, S) = Count(t, S) + One(s[m], S)
  <1>. DEFINE skip == [j \in Where(t, S) |-> IF j < m THEN j ELSE j + 1]
  <1>1. /\ IsFiniteSet(Where(s, S)) /\ IsFiniteSet(Where(t, S))
        /\ Count(s, S) \in Nat /\ Count(t, S) \in Nat
    BY Counting
  <1>2. skip \in Bijection(Where(t, S), Where(s, S) \ {m})
    <2>1. \A j \in Where(t, S) : skip[j] \in Where(s, S) \ {m}
      BY DEF Where, Without
    <2>2. \A i, j \in Where(t, S) : skip[i] = skip[j] => i = j
      BY DEF Where
    <2>3. ASSUME NEW i \in Where(s, S) \ {m} PROVE \E j \in Where(t, S) : skip[j] = i
      <3>1. CASE i < m
        <4>1. i \in Where(t, S)
          BY <3>1 DEF Where, Without
        <4>. QED
          BY <3>1, <4>1
      <3>2. CASE i > m
        <4>0. /\ i \in 1 .. Len(s) /\ s[i] \in S /\ DOMAIN t = 1 .. Len(t)
              /\ i - 1 \in 1 .. Len(t) /\ ~(i - 1 < m) /\ (i - 1) + 1 = i
          BY <3>2 DEF Where, Without
        <4>1. i - 1 \in Where(t, S)
          BY <4>0 DEF Where, Without
        <4>2. i \in Nat /\ ~(i - 1 < m) /\ (i - 1) + 1 = i
          BY <3>2 DEF Where
        <4>. QED
          BY <4>1, <4>2
      <3>. QED
        BY <3>1, <3>2 DEF Where
    <2>. QED
      BY <2>1, <2>2, <2>3 DEF Bijection, Injection, Surjection, IsInjective
  <1>3. Cardinality(Where(s, S) \ {m}) = Count(t, S)
    <2>1. ExistsBijection(Where(t, S), Where(s, S) \ {m})
      BY <1>2 DEF ExistsBijection
    <2>. QED
      BY <1>1, <2>1, FS_Bijection DEF Count
  <1>4. Cardinality(Where(s, S) \ {m})
          = IF m \in Where(s, S) THEN Count(s, S) - 1 ELSE Count(s, S)
    BY <1>1, FS_RemoveElement DEF Count
  <1>5. m \in Where(s, S) <=> s[m] \in S
    BY DEF Where
  <1>. QED
    BY <1>1, <1>3, <1>4, <1>5 DEF One

LEMMA CountAppend ==
  ASSUME NEW T, NEW s \in Seq(T), NEW x \in T, NEW S
  PROVE  Count(Append(s, x), S) = Count(s, S) + One(x, S)
  <1>. DEFINE longer == Append(s, x)
              last == Len(s) + 1
  <1>1. /\ longer \in Seq(T) /\ Len(longer) = last /\ longer[last] = x
        /\ \A i \in 1 .. Len(s) : longer[i] = s[i]
    BY AppendProperties
  <1>2. last \in 1 .. Len(longer)
    BY <1>1
  <1>. HIDE DEF longer
  <1>3. Without(s, longer, last)
    BY <1>1 DEF Without
  <1>4. Count(longer, S) = Count(s, S) + One(longer[last], S)
    BY <1>1, <1>2, <1>3, CountWithout
  <1>. QED
    BY <1>1, <1>4 DEF longer

LEMMA CountOne ==
  ASSUME NEW T, NEW x \in T, NEW S
  PROVE  Count(<<x>>, S) = One(x, S)
  <1>1. CASE x \in S
    <2>1. Where(<<x>>, S) = {1}
      BY <1>1 DEF Where
    <2>. QED
      BY <1>1, <2>1, FS_Singleton DEF Count, One
  <1>2. CASE x \notin S
    <2>1. Where(<<x>>, S) = {}
      BY <1>2 DEF Where
    <2>. QED
      BY <1>2, <2>1, FS_EmptySet DEF Count, One
  <1>. QED
    BY <1>1, <1>2

LEMMA CountHeadTail ==
  ASSUME NEW T, NEW s \in Seq(T), s # <<>>, NEW S
  PROVE  Count(s, S) = Count(<<Head(s)>>, S) + Count(Tail(s), S)
  <1>. DEFINE rest == Tail(s)
  <1>1. /\ rest \in Seq(T) /\ Len(rest) = Len(s) - 1 /\ 1 \in 1 .. Len(s)
        /\ \A j \in 1 .. Len(rest) : rest[j] = s[j + 1]
    BY HeadTailProperties
  <1>2. Head(s) = s[1] /\ s[1] \in T
    OBVIOUS
  <1>. HIDE DEF rest
  <1>3. Without(rest, s, 1)
    BY <1>1 DEF Without
  <1>4. Count(s, S) = Count(rest, S) + One(s[1], S)
    BY <1>1, <1>3, CountWithout
  <1>5. Count(rest, S) \in Nat /\ One(s[1], S) \in Nat
    BY <1>1, Counting DEF One
  <1>. QED
    BY <1>2, <1>4, <1>5, CountOne DEF rest

LEMMA Removal ==
  ASSUME NEW T, NEW s \in Seq(T), NEW m \in 1 .. Len(s)
  PROVE  RemoveAt(s, m) \in Seq(T) /\ Without(RemoveAt(s, m), s, m)
  <1>. DEFINE a == SubSeq(s, 1, m - 1)
              b == SubSeq(s, m + 1, Len(s))
  <1>1. /\ a \in Seq(T) /\ Len(a) = m - 1
        /\ \A j \in 1 .. m - 1 : a[j] = s[j]
    BY SubSeqProperties
  <1>2. /\ b \in Seq(T) /\ Len(b) = Len(s) - m
        /\ \A j \in 1 .. Len(s) - m : b[j] = s[m + j]
    BY SubSeqProperties
  <1>3. RemoveAt(s, m) = a \o b
    BY DEF RemoveAt
  <1>. HIDE DEF a, b
  <1>4. /\ RemoveAt(s, m) \in Seq(T) /\ Len(RemoveAt(s, m)) = Len(s) - 1
        /\ \A j \in 1 .. Len(s) - 1 :
             RemoveAt(s, m)[j] = IF j <= m - 1 THEN a[j] ELSE b[j - (m - 1)]
    <2>1. /\ a \o b \in Seq(T) /\ Len(a \o b) = Len(a) + Len(b)
          /\ \A j \in 1 .. Len(a) + Len(b) :
               (a \o b)[j] = IF j <= Len(a) THEN a[j] ELSE b[j - Len(a)]
      BY <1>1, <1>2, ConcatProperties
    <2>. QED
      BY <1>1, <1>2, <1>3, <2>1
  <1>5. ASSUME NEW j \in 1 .. Len(s) - 1
        PROVE  RemoveAt(s, m)[j] = s[IF j < m THEN j ELSE j + 1]
    <2>1. CASE j < m
      BY <1>1, <1>4, <2>1
    <2>2. CASE ~(j < m)
      <3>1. j - (m - 1) \in 1 .. Len(s) - m /\ m + (j - (m - 1)) = j + 1
        BY <2>2
      <3>. QED
        BY <1>2, <1>4, <2>2, <3>1
    <2>. QED
      BY <2>1, <2>2
  <1>. QED
    BY <1>4, <1>5 DEF Without

LEMMA LeastOf ==
  ASSUME NEW S \in SUBSET Nat, S # {}
  PROVE  Min(S) \in S /\ \A k \in S : Min(S) <= k
  <1>. DEFINE R == OpToRel(<, Nat)
  <1>0. IsWellFoundedOn(R, Nat)
    BY NatLessThanWellFounded
  <1>. HIDE DEF R
  <1>1. PICK n \in S : \A k \in S : ~(<<k, n>> \in R)
    BY <1>0, WFMin
  <1>2. \A k \in S : n <= k
    <2>. SUFFICES ASSUME NEW k \in S, k < n PROVE FALSE
      OBVIOUS
    <2>1. <<k, n>> \in R
      BY DEF R, OpToRel
    <2>. QED
      BY <1>1, <2>1
  <1>. QED
    BY <1>2 DEF Min

(* Induction over the numbers, of a set rather than a predicate.           *)
LEMMA SetInduction ==
  ASSUME NEW S, 0 \in S, \A n \in Nat : n \in S => n + 1 \in S
  PROVE  Nat \subseteq S
  <1>. DEFINE T == Nat \ S
  <1>. SUFFICES ASSUME T # {} PROVE FALSE
    OBVIOUS
  <1>1. Min(T) \in T /\ \A k \in T : Min(T) <= k
    BY LeastOf
  <1>2. Min(T) \in Nat \ {0} /\ Min(T) - 1 \in Nat /\ Min(T) - 1 \notin T
    BY <1>1
  <1>3. (Min(T) - 1) + 1 = Min(T)
    BY <1>2
  <1>. QED
    BY <1>1, <1>2, <1>3

(* The sequences before the i-th one, joined.                              *)
LEMMA Flattening ==
  ASSUME NEW T, NEW seqs \in Seq(Seq(T))
  PROVE  \E f \in [0 .. Len(seqs) -> Seq(T)] :
           /\ f[0] = <<>> /\ \A i \in 1 .. Len(seqs) : f[i] = f[i - 1] \o seqs[i]
           /\ FlattenSeq(seqs) = f[Len(seqs)]
  <1>. DEFINE n == Len(seqs)
              next(h, i) == IF i = 1 THEN seqs[i] ELSE h[i - 1] \o seqs[i]
              flat == CHOOSE h : h = [i \in 1 .. n |-> next(h, i)]
  <1>0. n \in Nat /\ \A i \in 1 .. n : seqs[i] \in Seq(T)
    OBVIOUS
  <1>1. \E h : h = [i \in 1 .. n |-> next(h, i)]
    <2>. DEFINE A == {k \in Nat : \E h \in [1 .. n -> Seq(T)] :
                        \A i \in 1 .. n : i <= k => h[i] = next(h, i)}
    <2>1. 0 \in A
      <3>1. [i \in 1 .. n |-> <<>>] \in [1 .. n -> Seq(T)]
        OBVIOUS
      <3>. QED
        BY <3>1
    <2>2. ASSUME NEW k \in Nat, k \in A PROVE k + 1 \in A
      <3>1. PICK h \in [1 .. n -> Seq(T)] : \A i \in 1 .. n : i <= k => h[i] = next(h, i)
        BY <2>2
      <3>. DEFINE longer == [i \in 1 .. n |-> next(h, i)]
      <3>2. longer \in [1 .. n -> Seq(T)]
        <4>1. ASSUME NEW i \in 1 .. n PROVE next(h, i) \in Seq(T)
          <5>1. CASE i = 1
            BY <1>0, <5>1
          <5>2. CASE i # 1
            <6>1. i - 1 \in 1 .. n
              BY <1>0, <5>2
            <6>. QED
              BY <1>0, <5>2, <6>1, ConcatProperties
          <5>. QED
            BY <5>1, <5>2
        <4>. QED
          BY <4>1
      <3>3. ASSUME NEW i \in 1 .. n, i <= k + 1 PROVE longer[i] = next(longer, i)
        <4>1. CASE i = 1
          BY <4>1
        <4>2. CASE i # 1
          <5>1. i - 1 \in 1 .. n /\ i - 1 <= k
            BY <1>0, <3>3, <4>2
          <5>2. longer[i - 1] = h[i - 1]
            BY <3>1, <5>1
          <5>. QED
            BY <4>2, <5>2
        <4>. QED
          BY <4>1, <4>2
      <3>. HIDE DEF longer, next
      <3>4. \A i \in 1 .. n : i <= k + 1 => longer[i] = next(longer, i)
        BY <3>3
      <3>5. \E g \in [1 .. n -> Seq(T)] : \A i \in 1 .. n : i <= k + 1 => g[i] = next(g, i)
        BY <3>2, <3>4
      <3>. QED
        BY <3>5
    <2>. HIDE DEF A
    <2>3. n \in A
      BY <1>0, <2>1, <2>2, SetInduction
    <2>4. PICK h \in [1 .. n -> Seq(T)] : \A i \in 1 .. n : i <= n => h[i] = next(h, i)
      BY <2>3 DEF A
    <2>5. h = [i \in 1 .. n |-> next(h, i)]
      <3>. HIDE DEF next
      <3>1. h = [i \in 1 .. n |-> h[i]]
        OBVIOUS
      <3>2. \A i \in 1 .. n : h[i] = next(h, i)
        BY <1>0, <2>4
      <3>. QED
        BY <3>1, <3>2
    <2>. QED
      BY <2>5
  <1>2. flat = [i \in 1 .. n |-> next(flat, i)]
    <2>. HIDE DEF next
    <2>. QED
      BY <1>1
  <1>3. FlattenSeq(seqs) = IF n = 0 THEN seqs ELSE flat[n]
    BY DEF FlattenSeq
  <1>. HIDE DEF flat
  <1>4. \A i \in 1 .. n : flat[i] \in Seq(T)
    <2>. DEFINE A == {k \in Nat : \A i \in 1 .. n : i <= k => flat[i] \in Seq(T)}
    <2>1. 0 \in A
      OBVIOUS
    <2>2. ASSUME NEW k \in Nat, k \in A PROVE k + 1 \in A
      <3>. SUFFICES ASSUME NEW i \in 1 .. n, i = k + 1 PROVE flat[i] \in Seq(T)
        BY <2>2
      <3>1. CASE i = 1
        BY <1>0, <1>2, <3>1
      <3>2. CASE i # 1
        <4>1. i - 1 \in 1 .. n /\ i - 1 <= k
          BY <1>0, <3>2
        <4>2. flat[i - 1] \in Seq(T) /\ flat[i] = flat[i - 1] \o seqs[i]
          BY <1>2, <2>2, <3>2, <4>1
        <4>. QED
          BY <1>0, <4>2, ConcatProperties
      <3>. QED
        BY <3>1, <3>2
    <2>. HIDE DEF A
    <2>3. n \in A
      BY <1>0, <2>1, <2>2, SetInduction
    <2>. QED
      BY <1>0, <2>3 DEF A
  <1>. DEFINE f == [i \in 0 .. n |-> IF i = 0 THEN <<>> ELSE flat[i]]
  <1>5. f \in [0 .. n -> Seq(T)] /\ f[0] = <<>>
    BY <1>0, <1>4
  <1>6. ASSUME NEW i \in 1 .. n PROVE f[i] = f[i - 1] \o seqs[i]
    <2>1. CASE i = 1
      <3>1. f[i] = seqs[1] /\ f[i - 1] = <<>>
        BY <1>0, <1>2, <2>1
      <3>. QED
        BY <1>0, <2>1, <3>1, ConcatEmptySeq
    <2>2. CASE i # 1
      <3>1. i - 1 \in 1 .. n
        BY <1>0, <2>2
      <3>2. f[i] = flat[i] /\ f[i - 1] = flat[i - 1]
        BY <1>0, <2>2, <3>1
      <3>3. flat[i] = flat[i - 1] \o seqs[i]
        BY <1>2, <2>2
      <3>. QED
        BY <3>2, <3>3
    <2>. QED
      BY <2>1, <2>2
  <1>7. FlattenSeq(seqs) = f[n]
    <2>1. CASE n = 0
      <3>1. seqs = <<>>
        BY <2>1
      <3>. QED
        BY <1>3, <1>5, <2>1, <3>1
    <2>2. CASE n # 0
      BY <1>0, <1>3, <2>2
    <2>. QED
      BY <2>1, <2>2
  <1>. QED
    BY <1>5, <1>6, <1>7

----------------------------------------------------------------------------
(* Segments, and how often a chain of them leaves and reaches a point.     *)

LEMMA SegmentEnds ==
  ASSUME NEW g \in Segment
  PROVE  /\ g.start \in Point /\ g.end \in Point
         /\ Reversed(g) \in Segment /\ Reversed(Reversed(g)) = g
         /\ Reversed(g).start = g.end /\ Reversed(g).end = g.start
  BY DEF Segment, Reversed, Line

From(p) == {g \in Segment : g.start = p}
To(p) == {g \in Segment : g.end = p}

Linked(l) == \A i \in 1 .. Len(l) - 1 : l[i].end = l[i + 1].start

(* A walk leaves every point as often as it gets there, but for its ends.  *)
Balanced(l) ==
  \A p \in Point :
    Count(l, To(p)) + One(l[1].start, {p}) = Count(l, From(p)) + One(Last(l).end, {p})

LEMMA BeginsBalanced ==
  ASSUME NEW x \in Segment
  PROVE  Linked(<<x>>) /\ Balanced(<<x>>)
  <1>1. <<x>>[1] = x /\ Last(<<x>>) = x /\ Len(<<x>>) = 1
    BY DEF Last
  <1>2. ASSUME NEW p \in Point
        PROVE  One(x, To(p)) = One(x.end, {p}) /\ One(x, From(p)) = One(x.start, {p})
    BY DEF One, To, From
  <1>. QED
    BY <1>1, <1>2, CountOne DEF Linked, Balanced, One

LEMMA StaysBalanced ==
  ASSUME NEW l \in Seq(Segment), l # <<>>, Linked(l), Balanced(l),
         NEW x \in Segment, x.start = Last(l).end
  PROVE  Linked(Append(l, x)) /\ Balanced(Append(l, x))
  <1>. DEFINE m == Append(l, x)
  <1>1. /\ m \in Seq(Segment) /\ Len(m) = Len(l) + 1 /\ m[Len(l) + 1] = x
        /\ \A i \in 1 .. Len(l) : m[i] = l[i]
    BY AppendProperties
  <1>2. Len(l) \in Nat \ {0} /\ m[1] = l[1] /\ Last(m) = x
    BY <1>1 DEF Last
  <1>3. \A S : Count(m, S) = Count(l, S) + One(x, S)
    BY CountAppend
  <1>. HIDE DEF m
  <1>4. Linked(m)
    <2>. SUFFICES ASSUME NEW i \in 1 .. Len(m) - 1 PROVE m[i].end = m[i + 1].start
      BY DEF Linked
    <2>1. CASE i < Len(l)
      BY <1>1, <2>1 DEF Linked
    <2>2. CASE i = Len(l)
      BY <1>1, <1>2, <2>2 DEF Last
    <2>. QED
      BY <1>1, <2>1, <2>2
  <1>5. Balanced(m)
    <2>. SUFFICES ASSUME NEW p \in Point
                  PROVE  Count(m, To(p)) + One(m[1].start, {p})
                           = Count(m, From(p)) + One(Last(m).end, {p})
      BY DEF Balanced
    <2>1. One(x, To(p)) = One(x.end, {p}) /\ One(x, From(p)) = One(x.start, {p})
      BY DEF One, To, From
    <2>2. Count(l, To(p)) + One(l[1].start, {p}) = Count(l, From(p)) + One(x.start, {p})
      BY DEF Balanced
    <2>3. Count(l, To(p)) \in Nat /\ Count(l, From(p)) \in Nat
      BY Counting
    <2>. QED
      BY <1>2, <1>3, <2>1, <2>2, <2>3 DEF One
  <1>. QED
    BY <1>4, <1>5 DEF m

(* A set that does not tell in which direction a line was drawn.           *)
EitherWay(S) == \A g \in S : Reversed(g) \in S

(* Chain and pool are the segments, but for their directions.              *)
Conserved(segs) ==
  \A S \in SUBSET Segment :
    EitherWay(S) => Count(chain, S) + Count(pool, S) = Count(segs, S)

At(p) == {g \in Segment : g.start = p \/ g.end = p}
Around1(p) == {g \in Segment : g.start = p /\ g.end = p}

LEMMA EitherWayAt ==
  ASSUME NEW p
  PROVE  EitherWay(At(p)) /\ EitherWay(Around1(p))
  BY SegmentEnds DEF EitherWay, At, Around1

(* The degree of a point does not depend on directions.                    *)
LEMMA Degree ==
  ASSUME NEW l \in Seq(Segment), NEW p
  PROVE  Count(l, From(p)) + Count(l, To(p)) = Count(l, At(p)) + Count(l, Around1(p))
  <1>1. /\ Where(l, From(p)) \cup Where(l, To(p)) = Where(l, At(p))
        /\ Where(l, From(p)) \cap Where(l, To(p)) = Where(l, Around1(p))
    BY DEF Where, From, To, At, Around1
  <1>2. /\ IsFiniteSet(Where(l, From(p))) /\ IsFiniteSet(Where(l, To(p)))
        /\ Count(l, From(p)) \in Nat /\ Count(l, To(p)) \in Nat
        /\ Count(l, At(p)) \in Nat /\ Count(l, Around1(p)) \in Nat
    BY Counting
  <1>3. Cardinality(Where(l, From(p)) \cup Where(l, To(p)))
          = Count(l, From(p)) + Count(l, To(p))
              - Cardinality(Where(l, From(p)) \cap Where(l, To(p)))
    BY <1>2, FS_Union DEF Count
  <1>4. Count(l, At(p)) = Count(l, From(p)) + Count(l, To(p)) - Count(l, Around1(p))
    BY <1>1, <1>3 DEF Count
  <1>. QED
    BY <1>2, <1>4

LEMMA CornerDegree ==
  ASSUME NEW l \in Seq(Segment), OneCycle(l), NEW p \in Corners(l)
  PROVE  Count(l, At(p)) + Count(l, Around1(p)) = 2
  <1>1. /\ {i \in DOMAIN l : l[i].start = p} = Where(l, From(p))
        /\ {i \in DOMAIN l : l[i].end = p} = Where(l, To(p))
    BY DEF Where, From, To
  <1>2. Count(l, From(p)) + Count(l, To(p)) = 2
    BY <1>1 DEF OneCycle, Count
  <1>. QED
    BY <1>2, Degree

LEMMA CornersOf ==
  ASSUME NEW l \in Seq(Segment)
  PROVE  /\ Corners(l) \subseteq Point
         /\ \A p : p \in Corners(l) <=> Count(l, At(p)) # 0
  <1>1. \A i \in DOMAIN l : l[i] \in Segment
    OBVIOUS
  <1>2. \A p : p \in Corners(l) <=> \E i \in DOMAIN l : l[i].start = p \/ l[i].end = p
    BY DEF Corners
  <1>3. \A p : p \in Corners(l) <=> \E i \in DOMAIN l : l[i] \in At(p)
    BY <1>1, <1>2 DEF At
  <1>. QED
    BY <1>1, <1>2, <1>3, SegmentEnds, Counting

(* A chain that nothing in the pool continues, although the segments are   *)
(* one closed curve, has closed and has used them all: at its end an even  *)
(* number of segments meets, so it is where it began; two meet at every    *)
(* corner of it, so the pool touches none; and no part is apart.           *)
LEMMA StuckChain ==
  ASSUME NEW segs \in Seq(Segment), chain \in Seq(Segment), pool \in Seq(Segment),
         chain # <<>>, Balanced(chain), Conserved(segs),
         Touching = {}, OneCycle(segs)
  PROVE  ClosedChain
  <1>. DEFINE used(p) == Count(chain, At(p)) + Count(chain, Around1(p))
              left(p) == Count(pool, At(p)) + Count(pool, Around1(p))
  <1>1. ASSUME NEW p
        PROVE  /\ Count(chain, At(p)) \in Nat /\ Count(chain, Around1(p)) \in Nat
               /\ Count(pool, At(p)) \in Nat /\ Count(pool, Around1(p)) \in Nat
               /\ Count(chain, From(p)) \in Nat /\ Count(chain, To(p)) \in Nat
               /\ used(p) = Count(chain, From(p)) + Count(chain, To(p))
               /\ left(p) \in Nat /\ (left(p) = 0 => Count(pool, At(p)) = 0)
               /\ Count(segs, At(p)) = Count(chain, At(p)) + Count(pool, At(p))
               /\ Count(segs, At(p)) + Count(segs, Around1(p)) = used(p) + left(p)
    <2>1. At(p) \in SUBSET Segment /\ Around1(p) \in SUBSET Segment
      BY DEF At, Around1
    <2>2. /\ Count(segs, At(p)) = Count(chain, At(p)) + Count(pool, At(p))
          /\ Count(segs, Around1(p)) = Count(chain, Around1(p)) + Count(pool, Around1(p))
      BY <2>1, EitherWayAt DEF Conserved
    <2>3. /\ Count(chain, At(p)) \in Nat /\ Count(chain, Around1(p)) \in Nat
          /\ Count(pool, At(p)) \in Nat /\ Count(pool, Around1(p)) \in Nat
          /\ Count(chain, From(p)) \in Nat /\ Count(chain, To(p)) \in Nat
      BY Counting
    <2>4. used(p) = Count(chain, From(p)) + Count(chain, To(p))
      BY Degree
    <2>5. left(p) \in Nat /\ (left(p) = 0 => Count(pool, At(p)) = 0)
      BY <2>3
    <2>6. Count(segs, At(p)) + Count(segs, Around1(p)) = used(p) + left(p)
      BY <2>2, <2>3
    <2>. HIDE DEF used, left
    <2>. QED
      BY <2>2, <2>3, <2>4, <2>5, <2>6
  <1>. HIDE DEF used, left
  <1>2. ASSUME NEW p \in Corners(chain)
        PROVE  /\ p \in Point /\ p \in Corners(segs)
               /\ used(p) + left(p) = 2 /\ Count(chain, At(p)) # 0
    <2>1. p \in Point /\ Count(chain, At(p)) # 0
      BY CornersOf
    <2>2. Count(segs, At(p)) # 0
      BY <1>1, <2>1
    <2>3. p \in Corners(segs)
      BY <2>2, CornersOf
    <2>. QED
      BY <1>1, <2>1, <2>3, CornerDegree
  <1>3. /\ chain[1] \in Segment /\ chain[1].start \in Corners(chain)
        /\ Last(chain) \in Segment /\ End \in Corners(chain)
    <2>1. 1 \in DOMAIN chain /\ Len(chain) \in DOMAIN chain
      OBVIOUS
    <2>. QED
      BY <2>1 DEF Corners, Last, End
  <1>4. left(End) = 0
    <2>1. \A i \in DOMAIN pool : pool[i] \notin At(End) /\ pool[i] \notin Around1(End)
      BY DEF Touching, At, Around1
    <2>2. Count(pool, At(End)) = 0 /\ Count(pool, Around1(End)) = 0
      BY <2>1, Counting
    <2>. QED
      BY <2>2 DEF left
  <1>5. End = chain[1].start
    <2>. SUFFICES ASSUME End # chain[1].start PROVE FALSE
      OBVIOUS
    <2>1. Count(chain, To(End)) = Count(chain, From(End)) + 1
      <3>1. Count(chain, To(End)) + One(chain[1].start, {End})
              = Count(chain, From(End)) + One(Last(chain).end, {End})
        BY <1>2, <1>3 DEF Balanced
      <3>2. One(chain[1].start, {End}) = 0 /\ One(Last(chain).end, {End}) = 1
        BY DEF One, End
      <3>. QED
        BY <1>1, <3>1, <3>2
    <2>2. Count(chain, From(End)) + Count(chain, To(End)) = 2
      BY <1>1, <1>2, <1>3, <1>4
    <2>. QED
      BY <1>1, <2>1, <2>2
  <1>6. ASSUME NEW p \in Corners(chain) PROVE left(p) = 0
    <2>1. Count(chain, To(p)) + One(chain[1].start, {p})
            = Count(chain, From(p)) + One(Last(chain).end, {p})
      BY <1>2 DEF Balanced
    <2>2. Count(chain, To(p)) = Count(chain, From(p))
      BY <1>1, <1>5, <2>1 DEF One, End
    <2>3. Count(chain, From(p)) + Count(chain, To(p)) # 0
      <3>1. Count(chain, At(p)) # 0
        BY <1>2
      <3>2. used(p) = Count(chain, At(p)) + Count(chain, Around1(p))
        BY DEF used
      <3>. QED
        BY <1>1, <3>1, <3>2
    <2>4. used(p) = Count(chain, From(p)) + Count(chain, To(p)) /\ used(p) + left(p) = 2
      BY <1>1, <1>2
    <2>5. /\ Count(chain, From(p)) \in Nat /\ Count(chain, To(p)) \in Nat
          /\ left(p) \in Nat
      BY <1>1
    <2>. QED
      BY <2>2, <2>3, <2>4, <2>5
  <1>7. \A p \in Corners(chain) : p \notin Corners(pool)
    BY <1>1, <1>6, CornersOf
  <1>8. pool = <<>>
    <2>. SUFFICES ASSUME pool # <<>> PROVE FALSE
      OBVIOUS
    <2>. DEFINE S == Corners(chain)
                Parted == {g \in Segment : (g.start \in S) # (g.end \in S)}
    <2>1. S \in SUBSET Corners(segs) /\ S # {}
      BY <1>2, <1>3
    <2>2. S # Corners(segs)
      <3>1. pool[1].start \in Corners(pool)
        BY DEF Corners
      <3>2. Count(pool, At(pool[1].start)) # 0
        BY <3>1, CornersOf
      <3>3. Count(segs, At(pool[1].start)) # 0
        BY <1>1, <3>2
      <3>. QED
        BY <1>7, <3>1, <3>3, CornersOf
    <2>3. \E i \in DOMAIN segs : segs[i] \in Parted
      <3>0. S \in (SUBSET Corners(segs)) \ {{}, Corners(segs)}
        BY <2>1, <2>2
      <3>1. PICK i \in DOMAIN segs : (segs[i].start \in S) # (segs[i].end \in S)
        BY <3>0, Zenon DEF OneCycle
      <3>. QED
        BY <3>1
    <2>4. EitherWay(Parted) /\ Parted \in SUBSET Segment
      BY SegmentEnds DEF EitherWay
    <2>5. Count(segs, Parted) # 0
      BY <2>3, Counting
    <2>6. Count(chain, Parted) = 0
      <3>1. \A i \in DOMAIN chain : chain[i].start \in S /\ chain[i].end \in S
        BY DEF Corners
      <3>. QED
        BY <3>1, Counting
    <2>7. Count(pool, Parted) = 0
      <3>1. \A i \in DOMAIN pool : pool[i].start \notin S /\ pool[i].end \notin S
        <4>1. \A i \in DOMAIN pool :
                pool[i].start \in Corners(pool) /\ pool[i].end \in Corners(pool)
          BY DEF Corners
        <4>. QED
          BY <1>7, <4>1
      <3>. QED
        BY <3>1, Counting
    <2>. QED
      BY <2>4, <2>5, <2>6, <2>7 DEF Conserved
  <1>. QED
    BY <1>5, <1>8 DEF ClosedChain
----------------------------------------------------------------------------
(* The invariant of the reading and chaining of a drawing.                 *)

Outline == IF retried THEN raw \o axes ELSE raw

ChainTypeOK ==
  /\ drawing \in Drawings \cup {NoDrawing}
  /\ todo \in Seq(Entity)
  /\ raw \in Seq(Segment) /\ axes \in Seq(Segment)
  /\ chain \in Seq(Segment) /\ pool \in Seq(Segment)
  /\ retried \in BOOLEAN

ChainInv ==
  /\ ChainTypeOK
  /\ pc = "read" => ~retried
  /\ pc \in {"chain", "patterns", "tree"} =>
       /\ raw # <<>> /\ chain # <<>>
       /\ Linked(chain) /\ Balanced(chain) /\ Conserved(Outline)
       /\ retried => ~OneCycle(raw)
  /\ pc \in {"patterns", "tree"} => ClosedChain
  /\ pc = "refused" /\ errors = {"outline"} =>
       ~OneCycle(raw) /\ ~(axes # <<>> /\ OneCycle(raw \o axes))

partVars == <<vars, plan, part, paper>>

LEMMA SeveralSegments ==
  ASSUME NEW points \in Seq(Point)
  PROVE  PolySegments(points) \in Seq(Segment)
  <1>1. ASSUME NEW i \in DOMAIN points
        PROVE  Line(points[i], points[(i % Len(points)) + 1]) \in Segment
    <2>1. Len(points) \in Nat \ {0} /\ i \in 1 .. Len(points)
      OBVIOUS
    <2>2. i % Len(points) \in 0 .. Len(points) - 1
      BY <2>1
    <2>3. points[i] \in Point /\ points[(i % Len(points)) + 1] \in Point
      BY <2>1, <2>2
    <2>. QED
      BY <2>3 DEF Line, Segment
  <1>2. DOMAIN points = 1 .. Len(points) /\ Len(points) \in Nat
    OBVIOUS
  <1>. QED
    BY <1>1, <1>2 DEF PolySegments

LEMMA ReadsSegments ==
  ASSUME ChainTypeOK, ReadEntity
  PROVE  raw' \in Seq(Segment) /\ axes' \in Seq(Segment) /\ todo' \in Seq(Entity)
  <1>. DEFINE e == Head(todo)
  <1>1. e \in Entity /\ todo' \in Seq(Entity)
    BY HeadTailProperties DEF ChainTypeOK, ReadEntity
  <1>2. e.kind \in {"line", "center"} => Line(e.from, e.to) \in Segment
    BY <1>1 DEF Entity, Line, Segment
  <1>3. e.kind = "polyline" => PolySegments(e.points) \in Seq(Segment)
    <2>1. e.kind = "polyline" => e.points \in Seq(Point)
      BY <1>1 DEF Entity
    <2>. QED
      BY <2>1, SeveralSegments
  <1>. DEFINE more == CASE e.kind = "line" -> <<Line(e.from, e.to)>>
                        [] e.kind = "polyline" -> PolySegments(e.points)
                        [] OTHER -> <<>>
  <1>4. raw' = raw \o more
    BY DEF ReadEntity
  <1>5. more \in Seq(Segment)
    <2>1. CASE e.kind = "line"
      <3>1. Line(e.from, e.to) \in Segment
        BY <1>2, <2>1
      <3>. HIDE DEF e
      <3>. QED
        BY <2>1, <3>1
    <2>2. CASE e.kind = "polyline"
      BY <1>3, <2>2
    <2>3. CASE e.kind \notin {"line", "polyline"}
      BY <2>3
    <2>. QED
      BY <2>1, <2>2, <2>3
  <1>6. raw' \in Seq(Segment)
    <2>. HIDE DEF more
    <2>. QED
      BY <1>4, <1>5, ConcatProperties DEF ChainTypeOK
  <1>7. axes' \in Seq(Segment)
    <2>1. axes' = IF e.kind = "center" THEN Append(axes, Line(e.from, e.to)) ELSE axes
      BY DEF ReadEntity
    <2>. HIDE DEF e
    <2>. QED
      BY <1>2, <2>1, AppendProperties DEF ChainTypeOK
  <1>. QED
    BY <1>1, <1>6, <1>7

(* A segment is taken from the pool, drawn either way, to the chain.       *)
LEMMA LinkStep ==
  ASSUME ChainInv, Link
  PROVE  ChainInv'
  <1>. DEFINE m == Min(Touching)
              g == pool[m]
              x == Oriented(g)
  <1>1. /\ ChainTypeOK /\ pc = "chain"
        /\ raw # <<>> /\ chain # <<>> /\ Linked(chain) /\ Balanced(chain)
        /\ Conserved(Outline) /\ (retried => ~OneCycle(raw))
    BY DEF ChainInv, Link
  <1>2. chain \in Seq(Segment) /\ pool \in Seq(Segment) /\ raw \o axes \in Seq(Segment)
    BY <1>1, ConcatProperties DEF ChainTypeOK
  <1>3. m \in 1 .. Len(pool) /\ End \in {g.start, g.end}
    <2>1. Touching \in SUBSET Nat /\ Touching # {} /\ DOMAIN pool = 1 .. Len(pool)
      BY <1>2 DEF Touching, Link
    <2>3. m \in Touching
      BY <2>1, LeastOf
    <2>. QED
      BY <2>1, <2>3 DEF Touching
  <1>4. g \in Segment
    BY <1>2, <1>3
  <1>5. /\ chain' = Append(chain, x) /\ pool' = RemoveAt(pool, m)
        /\ UNCHANGED <<drawing, pc, todo, raw, axes, retried>>
    BY DEF Link, input
  <1>. HIDE DEF m
  <1>6. x \in Segment /\ x.start = End /\ x \in {g, Reversed(g)}
    BY <1>3, <1>4, SegmentEnds DEF Oriented
  <1>7. chain' \in Seq(Segment) /\ chain' # <<>> /\ Linked(chain') /\ Balanced(chain')
    <2>1. x.start = Last(chain).end
      BY <1>6 DEF End
    <2>. HIDE DEF g, x
    <2>. QED
      BY <1>1, <1>2, <1>5, <1>6, <2>1, StaysBalanced, AppendProperties
  <1>8. pool' \in Seq(Segment) /\ Without(pool', pool, m)
    BY <1>2, <1>3, <1>5, Removal
  <1>9. Conserved(Outline)'
    <2>. SUFFICES ASSUME NEW S \in SUBSET Segment, EitherWay(S)
                  PROVE  Count(chain', S) + Count(pool', S) = Count(Outline, S)
      BY <1>5 DEF Conserved, Outline
    <2>1. One(x, S) = One(g, S)
      BY <1>4, <1>6, SegmentEnds DEF EitherWay, One
    <2>2. Count(chain', S) = Count(chain, S) + One(x, S)
      <3>. HIDE DEF g, x
      <3>. QED
        BY <1>2, <1>5, <1>6, CountAppend
    <2>3. Count(pool, S) = Count(pool', S) + One(g, S)
      BY <1>2, <1>3, <1>8, CountWithout
    <2>4. Count(chain, S) \in Nat /\ Count(pool', S) \in Nat
      BY <1>2, <1>8, Counting
    <2>5. Count(chain, S) + Count(pool, S) = Count(Outline, S)
      BY <1>1 DEF Conserved
    <2>. QED
      BY <2>1, <2>2, <2>3, <2>4, <2>5 DEF One
  <1>. QED
    BY <1>1, <1>5, <1>7, <1>8, <1>9 DEF ChainInv, ChainTypeOK, Outline

LEMMA StartsChain ==
  ASSUME NEW segs \in Seq(Segment), segs # <<>>, StartChain(segs)
  PROVE  /\ chain' \in Seq(Segment) /\ pool' \in Seq(Segment) /\ chain' # <<>>
         /\ Linked(chain') /\ Balanced(chain')
         /\ \A S \in SUBSET Segment : Count(chain', S) + Count(pool', S) = Count(segs, S)
  <1>1. Head(segs) \in Segment /\ Tail(segs) \in Seq(Segment)
    BY HeadTailProperties
  <1>2. chain' = <<Head(segs)>> /\ pool' = Tail(segs)
    BY DEF StartChain
  <1>3. Linked(chain') /\ Balanced(chain')
    BY <1>1, <1>2, BeginsBalanced
  <1>. QED
    BY <1>1, <1>2, <1>3, CountHeadTail

LEMMA ReadStep ==
  ASSUME ChainInv, ReadEntity
  PROVE  ChainInv'
  <1>1. ChainTypeOK'
    BY ReadsSegments DEF ChainInv, ChainTypeOK, ReadEntity, loop
  <1>2. pc' = "read" \/ (pc' = "refused" /\ errors' = {"limit"})
    BY DEF ReadEntity
  <1>3. ~retried'
    BY DEF ChainInv, ReadEntity, loop
  <1>. QED
    BY <1>1, <1>2, <1>3 DEF ChainInv

LEMMA EndOfDrawingStep ==
  ASSUME ChainInv, EndOfDrawing
  PROVE  ChainInv'
  <1>1. /\ ChainTypeOK /\ ~retried /\ raw # <<>> /\ pc' = "chain" /\ StartChain(raw)
        /\ UNCHANGED <<drawing, todo, raw, axes, retried>>
    BY DEF ChainInv, EndOfDrawing, input
  <1>2. /\ chain' \in Seq(Segment) /\ pool' \in Seq(Segment) /\ chain' # <<>>
        /\ Linked(chain') /\ Balanced(chain')
        /\ \A S \in SUBSET Segment : Count(chain', S) + Count(pool', S) = Count(raw, S)
    BY <1>1, StartsChain DEF ChainTypeOK
  <1>3. Conserved(Outline)'
    BY <1>1, <1>2 DEF Conserved, Outline
  <1>. QED
    BY <1>1, <1>2, <1>3 DEF ChainInv, ChainTypeOK

LEMMA RetryStep ==
  ASSUME ChainInv, Retry
  PROVE  ChainInv'
  <1>1. /\ ChainTypeOK /\ ~retried /\ pc = "chain" /\ pc' = "chain"
        /\ raw # <<>> /\ chain # <<>> /\ Balanced(chain) /\ Conserved(raw)
        /\ Touching = {} /\ ~ClosedChain
        /\ StartChain(raw \o axes) /\ retried'
        /\ UNCHANGED <<drawing, todo, raw, axes>>
    BY DEF ChainInv, Retry, BrokenChain, Outline, input
  <1>2. raw \o axes \in Seq(Segment) /\ raw \o axes # <<>>
    <2>1. /\ raw \o axes \in Seq(Segment) /\ Len(raw \o axes) = Len(raw) + Len(axes)
      BY <1>1, ConcatProperties DEF ChainTypeOK
    <2>2. Len(raw) > 0 /\ Len(axes) >= 0
      BY <1>1 DEF ChainTypeOK
    <2>. QED
      BY <2>1, <2>2
  <1>3. ~OneCycle(raw)
    BY <1>1, StuckChain DEF ChainTypeOK
  <1>4. /\ chain' \in Seq(Segment) /\ pool' \in Seq(Segment) /\ chain' # <<>>
        /\ Linked(chain') /\ Balanced(chain')
        /\ \A S \in SUBSET Segment : Count(chain', S) + Count(pool', S) = Count(raw \o axes, S)
    BY <1>1, <1>2, StartsChain
  <1>5. Conserved(Outline)'
    BY <1>1, <1>4 DEF Conserved, Outline
  <1>. QED
    BY <1>1, <1>3, <1>4, <1>5 DEF ChainInv, ChainTypeOK

(* A step that leaves the lines alone.                                     *)
LEMMA OtherStep ==
  ASSUME ChainInv,
         UNCHANGED <<drawing, todo, raw, axes, chain, pool, retried>>,
         pc' = "read" => pc = "read",
         pc' \in {"chain", "patterns", "tree"} => pc \in {"chain", "patterns", "tree"},
         pc' \in {"patterns", "tree"} => pc \in {"patterns", "tree"} \/ ClosedChain,
         pc' = "refused" /\ errors' = {"outline"} =>
           \/ pc = "refused" /\ errors = {"outline"}
           \/ ~OneCycle(raw) /\ ~(axes # <<>> /\ OneCycle(raw \o axes))
  PROVE  ChainInv'
  <1>1. /\ ChainTypeOK' /\ (Conserved(Outline))' = Conserved(Outline)
        /\ ClosedChain' = ClosedChain
    BY DEF ChainInv, ChainTypeOK, Conserved, Outline, ClosedChain, End
  <1>. QED
    BY <1>1 DEF ChainInv

LEMMA RefuseChainStep ==
  ASSUME ChainInv, RefuseChain
  PROVE  ChainInv'
  <1>1. /\ ChainTypeOK /\ pc = "chain" /\ pc' = "refused"
        /\ chain # <<>> /\ Balanced(chain) /\ Conserved(Outline)
        /\ Touching = {} /\ ~ClosedChain /\ (retried => ~OneCycle(raw))
        /\ axes = <<>> \/ retried
        /\ UNCHANGED <<drawing, todo, raw, axes, chain, pool, retried>>
    BY DEF ChainInv, RefuseChain, BrokenChain, Refuse, input, loop
  <1>2. Outline \in Seq(Segment)
    BY <1>1, ConcatProperties DEF Outline, ChainTypeOK
  <1>3. ~OneCycle(Outline)
    BY <1>1, <1>2, StuckChain DEF ChainTypeOK
  <1>4. ~OneCycle(raw) /\ ~(axes # <<>> /\ OneCycle(raw \o axes))
    BY <1>1, <1>3 DEF Outline
  <1>. QED
    BY <1>1, <1>4, OtherStep

LEMMA ChainInit ==
  ASSUME PartInit
  PROVE  ChainInv
  <1>1. /\ raw = <<>> /\ axes = <<>> /\ chain = <<>> /\ pool = <<>> /\ retried = FALSE
        /\ todo = drawing.entities /\ errors = {}
        /\ pc \in {"read", "validate", "plan"}
    BY DEF PartInit, Init, Begin, PlanInit
  <1>2. drawing \in Drawings \cup {NoDrawing}
    BY DEF PartInit, Init, PlanInit
  <1>3. drawing.entities \in Seq(Entity)
    <2>1. CASE drawing \in Drawings
      BY <2>1, DrawingsAssumption
    <2>2. CASE drawing = NoDrawing
      <3>1. drawing.entities = <<>>
        BY <2>2 DEF NoDrawing
      <3>. QED
        BY <3>1
    <2>. QED
      BY <1>2, <2>1, <2>2
  <1>4. /\ raw \in Seq(Segment) /\ axes \in Seq(Segment)
        /\ chain \in Seq(Segment) /\ pool \in Seq(Segment)
    BY <1>1
  <1>. QED
    BY <1>1, <1>2, <1>3, <1>4 DEF ChainInv, ChainTypeOK

LEMMA ChainNext ==
  ASSUME ChainInv, [PartNext]_partVars
  PROVE  ChainInv'
  <1>. DEFINE Still == UNCHANGED <<drawing, todo, raw, axes, chain, pool, retried>>
  <1>1. CASE UNCHANGED partVars
    BY <1>1, OtherStep DEF partVars, vars
  <1>2. CASE ReadEntity
    BY <1>2, ReadStep
  <1>3. CASE RefuseEntity \/ RefuseLines \/ RefuseShape \/ RefuseTree
    <2>1. Still /\ pc' = "refused" /\ errors' # {"outline"}
      BY <1>3 DEF RefuseEntity, RefuseLines, RefuseShape, RefuseTree, Refuse,
                  input, loop
    <2>. QED
      BY <2>1, OtherStep
  <1>4. CASE EndOfDrawing
    BY <1>4, EndOfDrawingStep
  <1>5. CASE Link
    BY <1>5, LinkStep
  <1>6. CASE Retry
    BY <1>6, RetryStep
  <1>7. CASE RefuseChain
    BY <1>7, RefuseChainStep
  <1>8. CASE InferOperation
    <2>1. Still /\ ClosedChain /\ pc = "chain" /\ pc' \in {"tree", "patterns"}
      BY <1>8 DEF InferOperation, input, loop
    <2>. QED
      BY <2>1, OtherStep
  <1>9. CASE GroupPattern \/ SkipCircle
    <2>1. Still /\ pc' = pc /\ pc = "patterns"
      BY <1>9 DEF GroupPattern, SkipCircle, input, loop
    <2>. QED
      BY <2>1, OtherStep
  <1>10. CASE BuildTree \/ Convert \/ Validate \/ Confirm
    <2>1. Still /\ pc' \in {"convert", "validate", "done", "analysed"}
      BY <1>10 DEF BuildTree, Convert, Validate, Confirm, input, loop
    <2>. QED
      BY <2>1, OtherStep
  <1>11. CASE PlanNext
    <2>1. Still
      BY <1>11
      DEF PlanNext, PlanByAgent, AgentFails, AskRules, NotConfigured, AskLlm, Answered,
          CallFails, Declined, Unforeseen, PlanByRules, UsePlan, upload, input, loop
    <2>2. \/ pc' \in {"standard", "rule", "call", "planned", "validate"}
          \/ pc' = "refused" /\ errors' # {"outline"}
      BY <1>11
      DEF PlanNext, PlanByAgent, AgentFails, AskRules, NotConfigured, AskLlm, Answered,
          CallFails, Declined, Unforeseen, PlanByRules, UsePlan, Made, LlmFails, PlannerError
    <2>. QED
      BY <2>1, <2>2, OtherStep
  <1>12. ASSUME NEW b \in Backends, Build(b) PROVE ChainInv'
    <2>1. Still /\ pc' = "built"
      BY <1>12 DEF Build, request, input, loop
    <2>. QED
      BY <2>1, OtherStep
  <1>13. CASE Template
    <2>1. Still /\ pc \in {"analysed", "done"} /\ pc' \in {"analysed", "done", "packaged"}
      BY <1>13 DEF Template, request, input, loop
    <2>. QED
      BY <2>1, OtherStep
  <1>14. ASSUME NEW more \in Additions, Package(more) PROVE ChainInv'
    <2>1. Still /\ pc' = "packaged"
      BY <1>14 DEF Package, request, input, loop
    <2>. QED
      BY <2>1, OtherStep
  <1>. QED
    BY <1>1, <1>2, <1>3, <1>4, <1>5, <1>6, <1>7, <1>8, <1>9, <1>10, <1>11, <1>12,
       <1>13, <1>14
    DEF PartNext, Next

LEMMA ChainInvariant == PartSpec => []ChainInv
  <1>1. ChainInv /\ [PartNext]_<<vars, plan, part, paper>> => ChainInv'
    BY ChainNext DEF partVars
  <1>. QED
    BY <1>1, ChainInit, PTL DEF PartSpec

(* The segments between two points, in either direction.                   *)
Between(e) == {g \in Segment : {g.start, g.end} = e}

LEMMA CountedEnds ==
  ASSUME NEW l \in Seq(Segment)
  PROVE  /\ \A e : e \in ToSet(Ends(l)) <=> Count(l, Between(e)) # 0
         /\ \A e : Cardinality({i \in DOMAIN Ends(l) : Ends(l)[i] = e})
                     = Count(l, Between(e))
  <1>1. /\ DOMAIN Ends(l) = DOMAIN l
        /\ \A i \in DOMAIN l : l[i] \in Segment /\ Ends(l)[i] = {l[i].start, l[i].end}
    BY DEF Ends
  <1>2. ASSUME NEW e
        PROVE  {i \in DOMAIN Ends(l) : Ends(l)[i] = e} = Where(l, Between(e))
    BY <1>1 DEF Where, Between
  <1>3. ASSUME NEW e
        PROVE  e \in ToSet(Ends(l)) <=> \E i \in DOMAIN l : l[i] \in Between(e)
    BY <1>1 DEF ToSet, Between
  <1>4. ASSUME NEW e
        PROVE  e \in ToSet(Ends(l)) <=> Count(l, Between(e)) # 0
    BY <1>3, Counting
  <1>. QED
    BY <1>2, <1>4 DEF Count

LEMMA ClosedInOrder ==
  ASSUME chain \in Seq(Segment), chain # <<>>, Linked(chain), ClosedChain
  PROVE  BrokenSegments(chain) \subseteq {"profile_degenerate_segment"}
  <1>1. ASSUME NEW i \in 1 .. Len(chain)
        PROVE  chain[i].end = chain[(i % Len(chain)) + 1].start
    <2>1. CASE i < Len(chain)
      <3>1. i % Len(chain) = i /\ i \in 1 .. Len(chain) - 1
        BY <2>1
      <3>. QED
        BY <3>1 DEF Linked
    <2>2. CASE i = Len(chain)
      <3>1. i % Len(chain) = 0
        BY <2>2
      <3>. QED
        BY <2>2, <3>1 DEF ClosedChain, End, Last
    <2>. QED
      BY <2>1, <2>2
  <1>. QED
    BY <1>1 DEF BrokenSegments, Code

LEMMA ChainIsDrawn ==
  ASSUME ChainInv
  PROVE  ChainIsTheDrawing
  <1>1. ASSUME pc \in {"patterns", "tree"}
        PROVE  /\ Bagged(Ends(chain)) = Bagged(Ends(Outline))
               /\ BrokenSegments(chain) \subseteq {"profile_degenerate_segment"}
    <2>1. /\ chain \in Seq(Segment) /\ pool = <<>> /\ raw \in Seq(Segment)
          /\ axes \in Seq(Segment) /\ chain # <<>>
          /\ Linked(chain) /\ ClosedChain /\ Conserved(Outline)
      BY <1>1 DEF ChainInv, ChainTypeOK, ClosedChain
    <2>2. Outline \in Seq(Segment)
      BY <2>1, ConcatProperties DEF Outline
    <2>3. ASSUME NEW e
          PROVE  Count(chain, Between(e)) = Count(Outline, Between(e))
      <3>1. EitherWay(Between(e)) /\ Between(e) \in SUBSET Segment
        BY SegmentEnds DEF EitherWay, Between
      <3>2. pool \in Seq(Segment) /\ Count(pool, Between(e)) = 0
        <4>1. Where(pool, Between(e)) = {}
          BY <2>1 DEF Where
        <4>2. pool \in Seq(Segment)
          BY <2>1
        <4>. QED
          BY <4>1, <4>2, FS_EmptySet DEF Count
      <3>3. Count(chain, Between(e)) \in Nat
        BY <2>1, Counting
      <3>. QED
        BY <2>1, <3>1, <3>2, <3>3 DEF Conserved
    <2>. DEFINE Alike(l, e) == {i \in DOMAIN Ends(l) : Ends(l)[i] = e}
    <2>4. ASSUME NEW l \in {chain, Outline}
          PROVE  /\ \A e : e \in ToSet(Ends(l)) <=> Count(l, Between(e)) # 0
                 /\ \A e : Cardinality(Alike(l, e)) = Count(l, Between(e))
      <3>1. l \in Seq(Segment)
        BY <2>1, <2>2
      <3>. QED
        BY <3>1, CountedEnds
    <2>. HIDE DEF Alike
    <2>5. ToSet(Ends(chain)) = ToSet(Ends(Outline))
      BY <2>3, <2>4
    <2>6. \A e : Cardinality(Alike(chain, e)) = Cardinality(Alike(Outline, e))
      BY <2>3, <2>4
    <2>7. Bagged(Ends(chain)) = Bagged(Ends(Outline))
      BY <2>5, <2>6 DEF Bagged, Alike
    <2>. QED
      BY <2>1, <2>7, ClosedInOrder
  <1>. QED
    BY <1>1 DEF ChainInv, ChainIsTheDrawing, Outline

(* The order the entities are drawn in, and the direction of a line, never *)
(* matter: a chain that closes is every segment of the outline once, each  *)
(* starting where the one before it ends, and _closed_chain gives up only  *)
(* when the segments, with and without the centerline, are not one closed  *)
(* curve; for every drawing.                                               *)
THEOREM OutlineIsFound == PartSpec => []ChainIsTheDrawing
  BY ChainInvariant, ChainIsDrawn, PTL

----------------------------------------------------------------------------
(* The holes of a plan: each group has those it asks for, one after the    *)
(* other.                                                                  *)

LEMMA AsManyAsAsked ==
  ASSUME NEW base, NEW g \in HoleGroup, NEW margin
  PROVE  /\ HolesAsked(g) \in Nat
         /\ Lesser(g.count, Len(GroupPositions(base, g, margin))) = HolesAsked(g)
  <1>1. g.count \in Nat /\ g.positions \in Seq(Int \X Int \X Int)
    BY DEF HoleGroup
  <1>2. HolesAsked(g) \in Nat
    <2>1. Len(g.positions) \in Nat
      BY <1>1
    <2>. QED
      BY <1>1, <2>1 DEF HolesAsked, Lesser
  <1>. DEFINE at == GroupPositions(base, g, margin)
  <1>3. Lesser(g.count, Len(at)) = HolesAsked(g)
    <2>1. CASE g.layout = "explicit" /\ g.positions # <<>>
      BY <2>1 DEF GroupPositions, HolesAsked
    <2>2. CASE g.layout = "four_corners"
      <3>. DEFINE corners(i) == OnPlane(g.axis,
                    [k \in 1 .. 2 |->
                       PlaneCenter(base, g.axis)[k]
                         + <<<<-1, -1>>, <<1, -1>>, <<1, 1>>, <<-1, 1>>>>[i][k]
                             * HalfSpread(base, g.axis, margin)[k]])
      <3>1. at = [i \in 1 .. Lesser(g.count, 4) |-> corners(i)]
        BY <2>2 DEF GroupPositions, DefaultPositions
      <3>. HIDE DEF corners
      <3>2. Len(at) = Lesser(g.count, 4)
        BY <1>1, <3>1 DEF Lesser
      <3>. QED
        BY <1>1, <2>2, <3>2 DEF HolesAsked, Lesser
    <2>3. CASE g.layout # "four_corners" /\ ~(g.layout = "explicit" /\ g.positions # <<>>)
      <3>1. \E e : at = [i \in 1 .. g.count |-> e[i]]
        <4>. DEFINE positions == DefaultPositions(base, g.count, g.layout, margin, g.axis)
        <4>1. at = positions
          BY <2>3 DEF GroupPositions
        <4>2. positions = [i \in 1 .. g.count |-> positions[i]]
          BY <2>3 DEF DefaultPositions
        <4>. QED
          BY <4>1, <4>2
      <3>2. Len(at) = g.count
        BY <1>1, <3>1
      <3>. QED
        BY <1>1, <2>3, <3>2 DEF HolesAsked, Lesser
    <2>. QED
      BY <2>1, <2>2, <2>3
  <1>. QED
    BY <1>2, <1>3

LEMMA InSequence ==
  ASSUME NEW base, NEW g \in HoleGroup, NEW margin
  PROVE  /\ HolesAsked(g) \in Nat
         /\ Len(GroupHoles(base, g, margin)) = HolesAsked(g)
         /\ DOMAIN GroupHoles(base, g, margin) = 1 .. HolesAsked(g)
         /\ \A T : (\A i \in 1 .. HolesAsked(g) : GroupHoles(base, g, margin)[i] \in T)
                    => GroupHoles(base, g, margin) \in Seq(T)
  <1>. DEFINE hole(i) ==
                [at |-> GroupPositions(base, g, margin)[i], axis |-> g.axis,
                 diameter |-> GroupDiameter(g),
                 type |-> IF g.type \in {"tapped", "clearance"} THEN "through" ELSE g.type,
                 depth |-> GroupDepth(g, MaterialDepth(base, g.axis)), head |-> GroupHead(g)]
  <1>1. HolesAsked(g) \in Nat
    BY AsManyAsAsked
  <1>2. GroupHoles(base, g, margin) = [i \in 1 .. HolesAsked(g) |-> hole(i)]
    BY AsManyAsAsked DEF GroupHoles
  <1>. HIDE DEF hole
  <1>. QED
    BY <1>1, <1>2

LEMMA HoleOfGroup ==
  ASSUME NEW base, NEW g \in HoleGroup, NEW margin, NEW i \in 1 .. HolesAsked(g),
         NEW h, h = GroupHoles(base, g, margin)[i]
  PROVE  /\ h.at = GroupPositions(base, g, margin)[i] /\ h.axis = g.axis
         /\ h.diameter = GroupDiameter(g) /\ h.head = GroupHead(g)
         /\ h.depth = GroupDepth(g, MaterialDepth(base, g.axis))
         /\ h.type = IF g.type \in {"tapped", "clearance"} THEN "through" ELSE g.type
  <1>1. h = [at |-> GroupPositions(base, g, margin)[i], axis |-> g.axis,
             diameter |-> GroupDiameter(g),
             type |-> IF g.type \in {"tapped", "clearance"} THEN "through" ELSE g.type,
             depth |-> GroupDepth(g, MaterialDepth(base, g.axis)), head |-> GroupHead(g)]
    BY AsManyAsAsked DEF GroupHoles
  <1>. QED
    BY <1>1

LEMMA Numbered ==
  ASSUME NEW m, NEW a \in Nat
  PROVE  IsFiniteSet({m} \X (1 .. a)) /\ Cardinality({m} \X (1 .. a)) = a
  <1>1. IsFiniteSet({m}) /\ Cardinality({m}) = 1
    BY FS_Singleton
  <1>2. IsFiniteSet(1 .. a) /\ Cardinality(1 .. a) = IF 1 > a THEN 0 ELSE a - 1 + 1
    BY FS_Interval
  <1>3. Cardinality(1 .. a) = a
    BY <1>2
  <1>. DEFINE ones == {m}
              tos == 1 .. a
  <1>. HIDE DEF ones, tos
  <1>4. IsFiniteSet(ones \X tos) /\ Cardinality(ones \X tos) = Cardinality(ones) * Cardinality(tos)
    BY <1>1, <1>2, FS_Product DEF ones, tos
  <1>5. Cardinality(ones) * Cardinality(tos) = a
    BY <1>1, <1>3 DEF ones, tos
  <1>. QED
    BY <1>4, <1>5 DEF ones, tos

LEMMA OneGroupMore ==
  ASSUME intent.groups \in Seq(HoleGroup), NEW n \in 1 .. Len(intent.groups)
  PROVE  /\ HolesBefore(1) = 0
         /\ HolesBefore(n) \in Nat
         /\ HolesBefore(n + 1) = HolesBefore(n) + HolesAsked(intent.groups[n])
  <1>. DEFINE N == Len(intent.groups)
              pairs == [m \in 1 .. N |-> {m} \X (1 .. HolesAsked(intent.groups[m]))]
              before == [k \in 1 .. N + 1 |-> UNION {pairs[m] : m \in 1 .. k - 1}]
              A == {k \in Nat : k < n => IsFiniteSet(before[k + 1])}
  <1>0. N \in Nat /\ n \in 1 .. N
    OBVIOUS
  <1>1. ASSUME NEW m \in 1 .. N
        PROVE  /\ HolesAsked(intent.groups[m]) \in Nat
               /\ IsFiniteSet(pairs[m])
               /\ Cardinality(pairs[m]) = HolesAsked(intent.groups[m])
    <2>1. intent.groups[m] \in HoleGroup
      OBVIOUS
    <2>2. HolesAsked(intent.groups[m]) \in Nat
      BY <2>1, AsManyAsAsked
    <2>. QED
      BY <2>2, Numbered
  <1>2. ASSUME NEW k \in 1 .. N
        PROVE  before[k + 1] = before[k] \cup pairs[k] /\ before[k] \cap pairs[k] = {}
    <2>1. before[k] \cap pairs[k] = {}
      <3>1. \A m \in 1 .. k - 1 : m # k /\ m \in 1 .. N
        BY <1>0
      <3>2. \A e \in pairs[k] : e[1] = k
        BY <1>0
      <3>3. \A m \in 1 .. k - 1 : \A e \in pairs[m] : e[1] # k
        BY <1>0, <3>1
      <3>. HIDE DEF pairs
      <3>4. before[k] = UNION {pairs[m] : m \in 1 .. k - 1}
        BY <1>0
      <3>. HIDE DEF before
      <3>. QED
        BY <3>2, <3>3, <3>4
    <2>2. 1 .. (k + 1) - 1 = (1 .. k - 1) \cup {k} /\ k + 1 \in 1 .. N + 1
      BY <1>0
    <2>. HIDE DEF pairs
    <2>3. before[k + 1] = before[k] \cup pairs[k]
      BY <1>0, <2>2
    <2>. QED
      BY <2>1, <2>3
  <1>3. before[1] = {}
    BY <1>0
  <1>4. ASSUME NEW k \in 1 .. N + 1 PROVE HolesBefore(k) = Cardinality(before[k])
    <2>1. before[k] = UNION {{m} \X (1 .. HolesAsked(intent.groups[m])) : m \in 1 .. k - 1}
      <3>1. \A m \in 1 .. k - 1 : pairs[m] = {m} \X (1 .. HolesAsked(intent.groups[m]))
        BY <1>0
      <3>. HIDE DEF pairs
      <3>2. before[k] = UNION {pairs[m] : m \in 1 .. k - 1}
        BY <1>0
      <3>. HIDE DEF before
      <3>. QED
        BY <3>1, <3>2
    <2>. QED
      BY <2>1 DEF HolesBefore
  <1>. HIDE DEF before, pairs, N
  <1>5. 0 \in A
    <2>1. 0 + 1 = 1 /\ IsFiniteSet(before[1])
      BY <1>3, FS_EmptySet
    <2>. QED
      BY <2>1
  <1>6. ASSUME NEW k \in Nat, k \in A PROVE k + 1 \in A
    <2>. SUFFICES ASSUME k + 1 < n PROVE IsFiniteSet(before[(k + 1) + 1])
      OBVIOUS
    <2>1. k + 1 \in 1 .. N /\ IsFiniteSet(before[k + 1])
      BY <1>0, <1>6
    <2>2. before[(k + 1) + 1] = before[k + 1] \cup pairs[k + 1] /\ IsFiniteSet(pairs[k + 1])
      BY <1>1, <1>2, <2>1
    <2>3. IsFiniteSet(before[k + 1] \cup pairs[k + 1])
      BY <2>1, <2>2, FS_Union
    <2>. QED
      BY <2>2, <2>3
  <1>. HIDE DEF A
  <1>7. n - 1 \in A /\ (n - 1) + 1 = n /\ n - 1 < n
    BY <1>0, <1>5, <1>6, SetInduction
  <1>8. IsFiniteSet(before[n])
    BY <1>7 DEF A
  <1>9. /\ Cardinality(before[n]) \in Nat
        /\ Cardinality(before[n + 1]) = Cardinality(before[n]) + HolesAsked(intent.groups[n])
    <2>1. Cardinality(before[n]) \in Nat
      BY <1>8, FS_CardinalityType
    <2>2. /\ before[n + 1] = before[n] \cup pairs[n] /\ before[n] \cap pairs[n] = {}
          /\ IsFiniteSet(pairs[n]) /\ Cardinality(pairs[n]) = HolesAsked(intent.groups[n])
          /\ HolesAsked(intent.groups[n]) \in Nat
      BY <1>0, <1>1, <1>2
    <2>3. Cardinality(before[n] \cap pairs[n]) = 0
      BY <2>2, FS_EmptySet
    <2>4. Cardinality(before[n] \cup pairs[n])
            = Cardinality(before[n]) + Cardinality(pairs[n]) - Cardinality(before[n] \cap pairs[n])
      BY <1>8, <2>2, FS_Union
    <2>. QED
      BY <2>1, <2>2, <2>3, <2>4
  <1>10. Cardinality(before[1]) = 0
    BY <1>3, FS_EmptySet
  <1>. QED
    BY <1>0, <1>4, <1>9, <1>10

LEMMA HolesOfGroups ==
  ASSUME IsIntent(intent), document = IntentDocument(intent)
  PROVE  /\ document.base = IntentBase(intent.template, intent.params)
         /\ \E T : document.holes \in Seq(T)
         /\ Len(document.holes) = HolesBefore(Len(intent.groups) + 1)
         /\ \A n \in DOMAIN intent.groups : \A i \in 1 .. HolesAsked(intent.groups[n]) :
              /\ HolesBefore(n) + i \in DOMAIN document.holes
              /\ document.holes[HolesBefore(n) + i] =
                   GroupHoles(document.base, intent.groups[n], Margin(intent.params))[i]
  <1>. DEFINE base == IntentBase(intent.template, intent.params)
              N == Len(intent.groups)
              seqs == [n \in 1 .. N |->
                         GroupHoles(base, intent.groups[n], Margin(intent.params))]
              T == UNION {{seqs[n][i] : i \in DOMAIN seqs[n]} : n \in 1 .. N}
  <1>1. /\ intent.groups \in Seq(HoleGroup) /\ N \in Nat /\ DOMAIN intent.groups = 1 .. N
        /\ \A n \in 1 .. N : intent.groups[n] \in HoleGroup
    BY DEF IsIntent
  <1>2. document.base = base /\ document.holes = FlattenSeq(seqs)
    BY <1>1 DEF IntentDocument
  <1>3. ASSUME NEW n \in 1 .. N
        PROVE  /\ HolesAsked(intent.groups[n]) \in Nat
               /\ seqs[n] \in Seq(T) /\ Len(seqs[n]) = HolesAsked(intent.groups[n])
    <2>1. HolesAsked(intent.groups[n]) \in Nat
      BY <1>1, AsManyAsAsked
    <2>2. intent.groups[n] \in HoleGroup
      BY <1>1
    <2>3. seqs[n] = GroupHoles(base, intent.groups[n], Margin(intent.params))
      OBVIOUS
    <2>4. /\ DOMAIN seqs[n] = 1 .. HolesAsked(intent.groups[n])
          /\ Len(seqs[n]) = HolesAsked(intent.groups[n])
          /\ (\A i \in 1 .. HolesAsked(intent.groups[n]) : seqs[n][i] \in T)
               => seqs[n] \in Seq(T)
      <3>. HIDE DEF seqs, T
      <3>. QED
        BY <2>2, <2>3, InSequence
    <2>. HIDE DEF seqs, N
    <2>5. ASSUME NEW i \in 1 .. HolesAsked(intent.groups[n]) PROVE seqs[n][i] \in T
      <3>1. i \in DOMAIN seqs[n]
        BY <2>4
      <3>2. seqs[n][i] \in {seqs[n][j] : j \in DOMAIN seqs[n]}
        BY <3>1
      <3>. QED
        BY <3>2
    <2>. QED
      BY <2>1, <2>4, <2>5
  <1>4. seqs \in Seq(Seq(T)) /\ Len(seqs) = N
    <2>1. seqs = [n \in 1 .. N |-> seqs[n]]
      OBVIOUS
    <2>. HIDE DEF seqs, T, N
    <2>2. \A n \in 1 .. N : seqs[n] \in Seq(T)
      BY <1>3
    <2>. QED
      BY <1>1, <2>1, <2>2
  <1>. HIDE DEF seqs, T
  <1>5. PICK f \in [0 .. N -> Seq(T)] :
          /\ f[0] = <<>> /\ \A i \in 1 .. N : f[i] = f[i - 1] \o seqs[i]
          /\ FlattenSeq(seqs) = f[N]
    <2>. HIDE DEF N
    <2>. QED
      BY <1>4, Flattening
  <1>. DEFINE Right(k) ==
                /\ Len(f[k]) = HolesBefore(k + 1)
                /\ \A n \in 1 .. k : \A i \in 1 .. HolesAsked(intent.groups[n]) :
                     /\ HolesBefore(n) + i \in 1 .. Len(f[k])
                     /\ f[k][HolesBefore(n) + i] = seqs[n][i]
              A == {k \in Nat : k <= N => Right(k)}
  <1>6. 0 \in A
    <2>1. CASE N = 0
      <3>1. HolesBefore(1) = 0
        <4>1. 1 .. 1 - 1 = {}
          OBVIOUS
        <4>2. HolesBefore(1) = Cardinality({})
          BY <4>1 DEF HolesBefore
        <4>. QED
          BY <4>2, FS_EmptySet
      <3>2. 0 + 1 = 1 /\ Len(f[0]) = 0
        BY <1>5
      <3>. QED
        BY <3>1, <3>2
    <2>2. CASE N # 0
      <3>1. 1 \in 1 .. N
        BY <1>1, <2>2
      <3>2. HolesBefore(1) = 0
        BY <1>1, <3>1, OneGroupMore
      <3>3. 0 + 1 = 1 /\ Len(f[0]) = 0
        BY <1>5
      <3>. QED
        BY <3>2, <3>3
    <2>. QED
      BY <2>1, <2>2
  <1>7. ASSUME NEW k \in Nat, k \in A PROVE k + 1 \in A
    <2>. SUFFICES ASSUME k + 1 <= N PROVE Right(k + 1)
      OBVIOUS
    <2>. DEFINE m == k + 1
    <2>1. m \in 1 .. N /\ m - 1 = k /\ k \in 0 .. N /\ m \in 0 .. N /\ k <= N
      BY <1>1
    <2>2. Right(k)
      BY <1>7, <2>1
    <2>3. f[k] \in Seq(T) /\ seqs[m] \in Seq(T) /\ f[m] = f[k] \o seqs[m]
      BY <1>3, <1>5, <2>1
    <2>4. /\ HolesBefore(m) \in Nat
          /\ HolesBefore(m + 1) = HolesBefore(m) + HolesAsked(intent.groups[m])
          /\ HolesAsked(intent.groups[m]) \in Nat
          /\ Len(seqs[m]) = HolesAsked(intent.groups[m])
      BY <1>1, <1>3, <2>1, OneGroupMore
    <2>. HIDE DEF m
    <2>5. /\ Len(f[m]) = Len(f[k]) + Len(seqs[m])
          /\ \A j \in 1 .. Len(f[m]) :
               f[m][j] = IF j <= Len(f[k]) THEN f[k][j] ELSE seqs[m][j - Len(f[k])]
      BY <2>3, ConcatProperties
    <2>6. Len(f[k]) = HolesBefore(m)
      BY <2>2 DEF m
    <2>7. Len(f[m]) = HolesBefore(m + 1)
      BY <2>4, <2>5, <2>6
    <2>8. ASSUME NEW n \in 1 .. m, NEW i \in 1 .. HolesAsked(intent.groups[n])
          PROVE  /\ HolesBefore(n) + i \in 1 .. Len(f[m])
                 /\ f[m][HolesBefore(n) + i] = seqs[n][i]
      <3>1. CASE n = m
        <4>1. /\ HolesBefore(m) + i \in 1 .. Len(f[m])
              /\ ~(HolesBefore(m) + i <= HolesBefore(m))
              /\ (HolesBefore(m) + i) - HolesBefore(m) = i
          BY <2>4, <2>7, <3>1
        <4>2. f[m][HolesBefore(m) + i] = seqs[m][(HolesBefore(m) + i) - HolesBefore(m)]
          BY <2>5, <2>6, <4>1
        <4>3. f[m][HolesBefore(m) + i] = seqs[m][i]
          BY <4>1, <4>2
        <4>. QED
          BY <3>1, <4>1, <4>3
      <3>2. CASE n # m
        <4>1. n \in 1 .. k
          BY <2>1, <3>2
        <4>2. HolesBefore(n) + i \in 1 .. Len(f[k]) /\ f[k][HolesBefore(n) + i] = seqs[n][i]
          BY <2>2, <4>1
        <4>3. HolesBefore(n) + i \in 1 .. Len(f[m]) /\ HolesBefore(n) + i <= Len(f[k])
          BY <2>4, <2>5, <2>6, <4>2
        <4>. QED
          BY <2>5, <4>2, <4>3
      <3>. QED
        BY <3>1, <3>2
    <2>. QED
      BY <2>7, <2>8 DEF m
  <1>. HIDE DEF A
  <1>8. N \in A
    BY <1>1, <1>6, <1>7, SetInduction
  <1>9. Right(N)
    BY <1>1, <1>8 DEF A
  <1>10. f[N] \in Seq(T)
    BY <1>1, <1>5
  <1>11. DOMAIN document.holes = 1 .. Len(f[N])
    BY <1>2, <1>5, <1>10
  <1>12. \A n \in 1 .. N :
           seqs[n] = GroupHoles(document.base, intent.groups[n], Margin(intent.params))
    BY <1>2 DEF seqs
  <1>13. \E S : document.holes \in Seq(S)
    <2>1. document.holes = f[N]
      BY <1>2, <1>5
    <2>. WITNESS T
    <2>. QED
      BY <1>10, <2>1
  <1>14. /\ document.base = IntentBase(intent.template, intent.params)
         /\ Len(document.holes) = HolesBefore(Len(intent.groups) + 1)
         /\ \A n \in DOMAIN intent.groups : \A i \in 1 .. HolesAsked(intent.groups[n]) :
              /\ HolesBefore(n) + i \in DOMAIN document.holes
              /\ document.holes[HolesBefore(n) + i] =
                   GroupHoles(document.base, intent.groups[n], Margin(intent.params))[i]
    BY <1>1, <1>2, <1>5, <1>9, <1>11, <1>12
  <1>. QED
    BY <1>13, <1>14, Zenon

----------------------------------------------------------------------------
(* What the planner invents for a hole.                                    *)

LEMMA ShareOf ==
  ASSUME NEW n \in Int, NEW num \in Int, NEW den \in Nat \ {0}, Whole(n, num, den)
  PROVE  Share(n, num, den) \in Int /\ Share(n, num, den) * den = n * num
  <1>1. (n * num) \div den \in Int
    OBVIOUS
  <1>2. ((n * num) \div den) * den = n * num
    BY DEF Whole
  <1>3. Share(n, num, den) = (n * num) \div den
    BY <1>2 DEF Share
  <1>. QED
    BY <1>1, <1>2, <1>3

LEMMA BaseOfIntent ==
  ASSUME NEW i, IsIntent(i)
  PROVE  LET base == IntentBase(i.template, i.params) IN
         /\ base.kind \in {"plate", "cylinder", "ring", "l_bracket", "enclosure"}
         /\ \A k \in {X, Y, Z} : Dimensions(base)[k] = base.size[k] /\ base.size[k] \in Int
         /\ base.wall \in Int
         /\ Margin(i.params) \in Int
  <1>. DEFINE base == IntentBase(i.template, i.params)
  <1>. DEFINE p == i.params
              thick(default) == Or(p["thickness"], Or(p["height"], default))
  <1>0. \A name \in Parameters : p[name] \in Int
    BY DEF IsIntent
  <1>1. /\ p["length"] \in Int /\ p["width"] \in Int /\ p["height"] \in Int
        /\ p["thickness"] \in Int /\ p["diameter"] \in Int /\ p["outer_diameter"] \in Int
        /\ p["depth"] \in Int /\ p["vertical_height"] \in Int
        /\ p["wall_thickness"] \in Int /\ p["edge_margin"] \in Int
    <2>. HIDE DEF p
    <2>. QED
      BY <1>0, Zenon DEF Parameters
  <1>. HIDE DEF p
  <1>3. Margin(p) \in Int
    BY <1>1 DEF Margin, Or
  <1>4. \E x, y, z, wall \in Int : \E inner :
          base = BaseOf(i.template, x, y, z, wall, inner)
    <2>1. CASE i.template = "plate"
      <3>1. base = BaseOf(i.template, Or(p["length"], 200), Or(p["width"], 120), thick(10), 0, 0)
        BY <2>1 DEF IntentBase, p
      <3>2. Or(p["length"], 200) \in Int /\ Or(p["width"], 120) \in Int /\ thick(10) \in Int
        BY <1>1 DEF Or
      <3>. HIDE DEF base, thick
      <3>. QED
        BY <3>1, <3>2
    <2>2. CASE i.template = "cylinder"
      <3>. DEFINE d == Or(p["diameter"], Or(p["outer_diameter"], 40))
                  h == Or(p["height"], Or(p["length"], 80))
      <3>1. base = BaseOf(i.template, d, d, h, 0, 0)
        BY <2>2 DEF IntentBase, p
      <3>2. d \in Int /\ h \in Int
        BY <1>1 DEF Or
      <3>. HIDE DEF base, d, h
      <3>. QED
        BY <3>1, <3>2
    <2>3. CASE i.template = "ring"
      <3>. DEFINE d == Or(p["outer_diameter"], 60)
      <3>1. \E inner : base = BaseOf(i.template, d, d, thick(10), 0, inner)
        BY <2>3 DEF IntentBase, p
      <3>2. d \in Int /\ thick(10) \in Int
        BY <1>1 DEF Or
      <3>. HIDE DEF base, d, thick
      <3>. QED
        BY <3>1, <3>2
    <2>4. CASE i.template = "l_bracket"
      <3>. DEFINE plate == Or(p["thickness"], 8)
                  wide == Or(p["width"], Or(p["length"], 120))
                  deep == Or(p["depth"], 80)
                  high == Or(p["vertical_height"], Or(p["height"], 100)) + plate
      <3>1. base = BaseOf(i.template, wide, deep, high, plate, 0)
        BY <2>4 DEF IntentBase, p
      <3>2. plate \in Int /\ wide \in Int /\ deep \in Int /\ high \in Int
        BY <1>1 DEF Or
      <3>. HIDE DEF base, plate, wide, deep, high
      <3>. QED
        BY <3>1, <3>2
    <2>5. CASE i.template = "enclosure"
      <3>. DEFINE long == Or(p["length"], 200)
                  wide == Or(p["width"], 140)
                  high == Or(p["height"], 60)
                  thin == Or(p["wall_thickness"], Or(p["thickness"], 4))
      <3>1. base = BaseOf(i.template, long, wide, high, thin, 0)
        BY <2>5 DEF IntentBase, p
      <3>2. long \in Int /\ wide \in Int /\ high \in Int /\ thin \in Int
        BY <1>1 DEF Or
      <3>. HIDE DEF base, long, wide, high, thin
      <3>. QED
        BY <3>1, <3>2
    <2>. QED
      BY <2>1, <2>2, <2>3, <2>4, <2>5 DEF IsIntent
  <1>5. PICK x, y, z, wall \in Int : \E inner :
          base = BaseOf(i.template, x, y, z, wall, inner)
    BY <1>4
  <1>. HIDE DEF base
  <1>6. /\ base.kind = i.template /\ base.size = <<x, y, z>> /\ base.wall = wall
    BY <1>5 DEF BaseOf
  <1>. QED
    BY <1>3, <1>5, <1>6 DEF base, p, X, Y, Z, Dimensions, IsIntent

LEMMA InventedDepth ==
  ASSUME NEW base, NEW g \in HoleGroup, NEW material \in Int, material > 0,
         g.depth = 0,
         g.type = "blind" =>
           Whole(GroupDiameter(g), 3, 2) /\ Whole(material, 3, 4),
         g.type = "counterbore" =>
           Whole(GroupDiameter(g), 3, 5) /\ Whole(material, 1, 2),
         GroupDiameter(g) \in Int
  PROVE  g.type \in {"blind", "counterbore"} => ~TooDeep(GroupDepth(g, material), material)
  <1>1. CASE g.type = "blind"
    <2>1. Share(GroupDiameter(g), 3, 2) \in Int
      BY <1>1, ShareOf
    <2>2. Share(material, 3, 4) \in Int /\ Share(material, 3, 4) * 4 = material * 3
      BY <1>1, ShareOf
    <2>3. GroupDepth(g, material) =
            Lesser(Greater(Share(GroupDiameter(g), 3, 2), 2), Share(material, 3, 4))
      BY <1>1 DEF GroupDepth, Or
    <2>4. Share(material, 3, 4) < material
      BY <2>2
    <2>5. Greater(Share(GroupDiameter(g), 3, 2), 2) \in Int
      BY <2>1 DEF Greater
    <2>. QED
      BY <2>2, <2>3, <2>4, <2>5 DEF Lesser, TooDeep
  <1>2. CASE g.type = "counterbore"
    <2>1. Share(GroupDiameter(g), 3, 5) \in Int
      BY <1>2, ShareOf
    <2>2. Share(material, 1, 2) \in Int /\ Share(material, 1, 2) * 2 = material * 1
      BY <1>2, ShareOf
    <2>3. GroupDepth(g, material) = Lesser(Share(GroupDiameter(g), 3, 5), Share(material, 1, 2))
      BY <1>2 DEF GroupDepth, Or
    <2>. QED
      BY <2>1, <2>2, <2>3 DEF Lesser, TooDeep
  <1>. QED
    BY <1>1, <1>2

LEMMA GroupNumbers ==
  ASSUME NEW g \in HoleGroup,
         g.type = "counterbore" /\ g.head = 0 => Whole(GroupDiameter(g), 9, 5)
  PROVE  GroupDiameter(g) \in Int /\ GroupHead(g) \in Int
  <1>1. g.diameter \in Int /\ g.head \in Int /\ g.nominal \in {0} \cup DOMAIN TapDrill
    BY DEF HoleGroup
  <1>2. /\ DOMAIN TapDrill = {20} /\ DOMAIN Clearance = {20}
        /\ TapDrill[20] = 17 /\ Clearance[20] = 22
    BY DEF TapDrill, Clearance
  <1>3. GroupDiameter(g) \in Int
    BY <1>1, <1>2 DEF GroupDiameter, Or
  <1>4. GroupHead(g) \in Int
    <2>1. CASE g.type = "counterbore" /\ g.head = 0
      <3>1. Share(GroupDiameter(g), 9, 5) \in Int
        BY <1>3, <2>1, ShareOf
      <3>. QED
        BY <2>1, <3>1 DEF GroupHead, Or
    <2>2. CASE ~(g.type = "counterbore" /\ g.head = 0)
      BY <1>1, <1>3, <2>2 DEF GroupHead, Or
    <2>. QED
      BY <2>1, <2>2
  <1>. QED
    BY <1>3, <1>4

(* Two numbers, put in the plane of an axis, are found there again.        *)
LEMMA OnPlaneInPlane ==
  ASSUME NEW q, NEW h, h.axis \in {X, Y, Z}, h.at = OnPlane(h.axis, q)
  PROVE  InPlane(h)[1] = q[1] /\ InPlane(h)[2] = q[2]
  <1>1. ASSUME NEW k \in 1 .. 2 PROVE InPlane(h)[k] = q[k]
    <2>. DEFINE n == PlaneAxes(h.axis)[k]
    <2>1. n \in 1 .. 3 /\ \A i \in 1 .. 2 : PlaneAxes(h.axis)[i] = n => i = k
      BY DEF PlaneAxes, X, Y, Z
    <2>2. (CHOOSE i \in 1 .. 2 : PlaneAxes(h.axis)[i] = n) = k
      BY <2>1
    <2>. QED
      BY <2>1, <2>2 DEF OnPlane, InPlane
  <1>. QED
    BY <1>1

LEMMA InventedPlace ==
  ASSUME NEW base, base.kind \in {"plate", "enclosure", "l_bracket"},
         \A k \in {X, Y, Z} : Dimensions(base)[k] \in Int /\ Dimensions(base)[k] > 0,
         NEW g \in HoleGroup, g.layout \in {"center", "line_x", "four_corners"},
         NEW margin \in Int,
         \A k \in 1 .. 2 : Whole(Spread(base, g.axis)[k], 1, 2),
         \A k \in 1 .. g.count :
           g.layout \in {"center", "line_x"} /\ g.count > 1 =>
             Whole(2 * HalfSpread(base, g.axis, margin)[1], k - 1, g.count - 1),
         NEW i \in 1 .. HolesAsked(g),
         NEW h, h.at = GroupPositions(base, g, margin)[i], h.axis = g.axis,
         EffectiveDiameter(h) \in Int,
         EffectiveDiameter(h) <= 2 * SafeMargin(base, g.axis, margin)
  PROVE  BoundaryErrors(base, h) = {}
  <1>. DEFINE axis == g.axis
              safe == SafeMargin(base, axis, margin)
              spread == Spread(base, axis)
              half == HalfSpread(base, axis, margin)
              center == PlaneCenter(base, axis)
  <1>1. /\ axis \in {X, Y, Z} /\ g.count \in Nat
        /\ \A k \in 1 .. 2 : PlaneAxes(axis)[k] \in {X, Y, Z}
    BY DEF HoleGroup, PlaneAxes
  <1>2. \A k \in 1 .. 2 : /\ spread[k] \in Int /\ spread[k] > 0
                          /\ spread[k] = Dimensions(base)[PlaneAxes(axis)[k]]
    BY <1>1 DEF Spread
  <1>3. \A k \in 1 .. 2 : center[k] \in Int
    BY <1>1 DEF PlaneCenter
  <1>4. ASSUME NEW k \in 1 .. 2
        PROVE  Share(spread[k], 1, 2) \in Int /\ 2 * Share(spread[k], 1, 2) = spread[k]
    <2>1. spread[k] \in Int /\ Whole(spread[k], 1, 2)
      BY <1>2
    <2>. HIDE DEF spread
    <2>2. Share(spread[k], 1, 2) \in Int /\ Share(spread[k], 1, 2) * 2 = spread[k] * 1
      BY <2>1, ShareOf
    <2>. QED
      BY <2>1, <2>2
  <1>. HIDE DEF spread, center
  <1>5. /\ safe \in Int
        /\ safe <= Share(spread[1], 1, 2) - 1 /\ safe <= Share(spread[2], 1, 2) - 1
    <2>. DEFINE narrow == Lesser(spread[1], spread[2])
    <2>1. /\ narrow \in Int /\ narrow <= spread[1] /\ narrow <= spread[2]
          /\ narrow = spread[1] \/ narrow = spread[2]
      BY <1>2 DEF Lesser
    <2>2. /\ Share(narrow, 1, 2) \in Int /\ 2 * Share(narrow, 1, 2) = narrow /\ narrow > 0
      BY <1>2, <1>4, <2>1
    <2>3. safe = Lesser(Greater(margin, 0), Greater(Share(narrow, 1, 2) - 1, 0))
      BY DEF SafeMargin, spread
    <2>. HIDE DEF narrow, safe
    <2>. QED
      BY <1>2, <1>4, <2>1, <2>2, <2>3 DEF Lesser, Greater
  <1>6. \A k \in 1 .. 2 : half[k] \in Int /\ half[k] >= 1 /\ 2 * half[k] = spread[k] - 2 * safe
    <2>1. \A k \in 1 .. 2 : half[k] = Greater(Share(spread[k], 1, 2) - safe, 0)
      BY DEF HalfSpread, spread
    <2>. HIDE DEF half, safe
    <2>. QED
      BY <1>4, <1>5, <2>1 DEF Greater
  <1>. HIDE DEF half, safe
  <1>7. \E q : /\ h.at = OnPlane(axis, q)
               /\ \A k \in 1 .. 2 : /\ q[k] \in Int
                                    /\ center[k] - half[k] <= q[k] /\ q[k] <= center[k] + half[k]
    <2>0. GroupPositions(base, g, margin) = DefaultPositions(base, g.count, g.layout, margin, axis)
      BY DEF GroupPositions
    <2>1. CASE g.layout = "four_corners"
      <3>. DEFINE corners == <<<<-1, -1>>, <<1, -1>>, <<1, 1>>, <<-1, 1>>>>
                  q == [k \in 1 .. 2 |-> center[k] + corners[i][k] * half[k]]
      <3>1. i \in 1 .. Lesser(g.count, 4) /\ i \in 1 .. 4
        BY <1>1, <2>1 DEF HolesAsked, Lesser
      <3>2. h.at = OnPlane(axis, q)
        BY <2>0, <2>1, <3>1 DEF DefaultPositions, center, half
      <3>3. \A k \in 1 .. 2 : corners[i][k] = 1 \/ corners[i][k] = -1
        BY <3>1
      <3>. HIDE DEF corners
      <3>4. \A k \in 1 .. 2 : q[k] = center[k] + half[k] \/ q[k] = center[k] - half[k]
        BY <1>3, <1>6, <3>3
      <3>. HIDE DEF q
      <3>. QED
        BY <1>3, <1>6, <3>2, <3>4
    <2>2. CASE g.layout # "four_corners"
      <3>. DEFINE row == IF g.count = 1 THEN center[1]
                         ELSE center[1] - half[1] + Share(2 * half[1], i - 1, g.count - 1)
                  q == <<row, center[2]>>
      <3>1. i \in 1 .. g.count
        BY <2>2 DEF HolesAsked
      <3>2. h.at = OnPlane(axis, q)
        BY <2>0, <2>2, <3>1 DEF DefaultPositions, center, half
      <3>3. row \in Int /\ center[1] - half[1] <= row /\ row <= center[1] + half[1]
        <4>1. CASE g.count = 1
          BY <1>3, <1>6, <4>1
        <4>2. CASE g.count # 1
          <5>. DEFINE n == 2 * half[1]
                      den == g.count - 1
                      s == Share(n, i - 1, den)
          <5>1. /\ den \in Nat \ {0} /\ n \in Int /\ n >= 2
                /\ i - 1 \in Int /\ 0 <= i - 1 /\ i - 1 <= den
            BY <1>1, <1>6, <3>1, <4>2
          <5>2. Whole(n, i - 1, den)
            BY <1>1, <2>2, <3>1, <4>2 DEF half
          <5>. HIDE DEF n, den
          <5>3. s \in Int /\ s * den = n * (i - 1)
            BY <5>1, <5>2, ShareOf
          <5>. HIDE DEF s
          <5>4. 0 <= n * (i - 1) /\ n * (i - 1) <= n * den
            BY <5>1
          <5>5. 0 <= s
            <6>. SUFFICES ASSUME s <= -1 PROVE FALSE
              BY <5>3
            <6>1. s * den <= -1
              BY <5>1, <5>3
            <6>. QED
              BY <5>1, <5>3, <5>4, <6>1
          <5>6. s <= n
            <6>. SUFFICES ASSUME s >= n + 1 PROVE FALSE
              BY <5>1, <5>3
            <6>1. s * den >= n * den + den
              BY <5>1, <5>3
            <6>. QED
              BY <5>1, <5>3, <5>4, <6>1
          <5>7. row = center[1] - half[1] + s
            BY <4>2 DEF s, n, den
          <5>. QED
            BY <1>3, <1>6, <5>3, <5>5, <5>6, <5>7 DEF n
        <4>. QED
          BY <4>1, <4>2
      <3>. HIDE DEF row
      <3>4. /\ q[1] = row /\ q[2] = center[2] /\ half[2] >= 1
            /\ center[2] \in Int /\ half[2] \in Int
        BY <1>3, <1>6
      <3>. QED
        BY <3>2, <3>3, <3>4
    <2>. QED
      BY <2>1, <2>2
  <1>8. PICK q : /\ h.at = OnPlane(axis, q)
                 /\ \A k \in 1 .. 2 : /\ q[k] \in Int
                                      /\ center[k] - half[k] <= q[k]
                                      /\ q[k] <= center[k] + half[k]
    BY <1>7
  <1>9. InPlane(h)[1] = q[1] /\ InPlane(h)[2] = q[2]
    BY <1>1, <1>8, OnPlaneInPlane
  <1>10. EffectiveDiameter(h) <= 2 * safe
    BY DEF safe
  <1>11. ASSUME NEW k \in 1 .. 2
         PROVE  ~(spread[k] - 2 * Abs(InPlane(h)[k] - center[k]) - EffectiveDiameter(h) < 0)
    <2>1. /\ InPlane(h)[k] = q[k] /\ q[k] \in Int /\ center[k] \in Int /\ half[k] \in Int
          /\ center[k] - half[k] <= q[k] /\ q[k] <= center[k] + half[k]
          /\ 2 * half[k] = spread[k] - 2 * safe /\ spread[k] \in Int /\ safe \in Int
      BY <1>2, <1>3, <1>5, <1>6, <1>8, <1>9
    <2>2. /\ Abs(q[k] - center[k]) \in Int /\ Abs(q[k] - center[k]) <= half[k]
      BY <2>1 DEF Abs
    <2>. QED
      BY <1>10, <2>1, <2>2
  <1>. QED
    BY <1>11 DEF BoundaryErrors, Code, spread, Spread, center

LEMMA InventedHolesFit ==
  ASSUME IsIntent(intent), OnLattice(intent),
         document = IntentDocument(intent), FitsSchema(document)
  PROVE  InventionsFit
  <1>. DEFINE base == document.base
              margin == Margin(intent.params)
  <1>1. /\ base = IntentBase(intent.template, intent.params)
        /\ base.kind \in {"plate", "cylinder", "ring", "l_bracket", "enclosure"}
        /\ \A k \in {X, Y, Z} : Dimensions(base)[k] = base.size[k] /\ base.size[k] \in Int
        /\ base.wall \in Int /\ margin \in Int
    BY HolesOfGroups, BaseOfIntent
  <1>2. /\ \A k \in {X, Y, Z} : Dimensions(base)[k] \in Int /\ Dimensions(base)[k] > 0
        /\ base.kind \in {"l_bracket", "enclosure"} => base.wall > 0
    <2>1. \A k \in {X, Y, Z} : base.size[k] > 0
      <3>1. base.kind \notin Profiled
        BY <1>1 DEF Profiled
      <3>2. BaseFits(base)
        BY DEF FitsSchema
      <3>3. \A k \in 1 .. 3 : base.size[k] > 0
        BY <3>1, <3>2 DEF BaseFits
      <3>. QED
        BY <3>3 DEF X, Y, Z
    <2>2. base.kind \in {"l_bracket", "enclosure"} => base.wall > 0
      BY <1>1 DEF FitsSchema, BaseFits
    <2>. HIDE DEF base
    <2>. QED
      BY <1>1, <2>1, <2>2
  <1>. HIDE DEF base, margin
  <1>3. SUFFICES ASSUME NEW n \in DOMAIN intent.groups,
                        NEW i \in 1 .. HolesAsked(intent.groups[n])
                 PROVE  LET g == intent.groups[n]
                            h == document.holes[HolesBefore(n) + i]
                        IN /\ g.depth = 0 => DepthErrors(base, h) \cap TooDeepHole = {}
                           /\ /\ g.layout \in {"center", "line_x", "four_corners"}
                              /\ base.kind \in {"plate", "enclosure", "l_bracket"}
                              /\ EffectiveDiameter(h) <= 2 * SafeMargin(base, h.axis, margin)
                              => BoundaryErrors(base, h) = {}
    BY DEF InventionsFit, base, margin
  <1>. DEFINE g == intent.groups[n]
              h == document.holes[HolesBefore(n) + i]
              material == MaterialDepth(base, g.axis)
  <1>4. g \in HoleGroup /\ g.axis \in {X, Y, Z}
    <2>1. g \in HoleGroup
      BY DEF IsIntent
    <2>. HIDE DEF g
    <2>. QED
      BY <2>1 DEF HoleGroup
  <1>5. /\ \A k \in 1 .. 2 : Whole(Spread(base, g.axis)[k], 1, 2)
        /\ \A k \in 1 .. g.count :
             g.layout \in {"center", "line_x"} /\ g.count > 1 =>
               Whole(2 * HalfSpread(base, g.axis, margin)[1], k - 1, g.count - 1)
        /\ g.type = "blind" /\ g.depth = 0 =>
             Whole(GroupDiameter(g), 3, 2) /\ Whole(material, 3, 4)
        /\ g.type = "counterbore" /\ g.depth = 0 =>
             Whole(GroupDiameter(g), 3, 5) /\ Whole(material, 1, 2)
        /\ g.type = "counterbore" /\ g.head = 0 => Whole(GroupDiameter(g), 9, 5)
    BY <1>1 DEF OnLattice, margin
  <1>6. /\ h.at = GroupPositions(base, g, margin)[i] /\ h.axis = g.axis
        /\ h.diameter = GroupDiameter(g) /\ h.head = GroupHead(g)
        /\ h.depth = GroupDepth(g, material)
        /\ h.type = IF g.type \in {"tapped", "clearance"} THEN "through" ELSE g.type
    <2>1. h = GroupHoles(base, g, margin)[i]
      BY HolesOfGroups DEF base, margin
    <2>2. i \in 1 .. HolesAsked(g)
      OBVIOUS
    <2>. HIDE DEF g, h
    <2>. QED
      BY <1>4, <2>1, <2>2, HoleOfGroup DEF material
  <1>7. material \in Int /\ material > 0
    BY <1>1, <1>2, <1>4 DEF MaterialDepth, X
  <1>. HIDE DEF g, h, material
  <1>8. GroupDiameter(g) \in Int /\ GroupHead(g) \in Int
    BY <1>4, <1>5, GroupNumbers
  <1>9. ASSUME g.depth = 0 PROVE DepthErrors(base, h) \cap TooDeepHole = {}
    <2>1. g.type \in {"blind", "counterbore"} => ~TooDeep(GroupDepth(g, material), material)
      BY <1>4, <1>5, <1>7, <1>8, <1>9, InventedDepth
    <2>2. h.type \in {"blind", "counterbore"} =>
            ~TooDeep(h.depth, MaterialDepth(base, h.axis))
      BY <1>6, <2>1 DEF material
    <2>. QED
      BY <2>2 DEF DepthErrors, Code, TooDeepHole
  <1>10. ASSUME g.layout \in {"center", "line_x", "four_corners"},
                base.kind \in {"plate", "enclosure", "l_bracket"},
                EffectiveDiameter(h) <= 2 * SafeMargin(base, h.axis, margin)
         PROVE  BoundaryErrors(base, h) = {}
    <2>1. EffectiveDiameter(h) \in Int
      <3>1. /\ Max({h.diameter, h.head}) \in {h.diameter, h.head}
        <4>1. \E m \in {h.diameter, h.head} : \A k \in {h.diameter, h.head} : m >= k
          BY <1>6, <1>8
        <4>. QED
          BY <4>1 DEF Max
      <3>. QED
        BY <1>6, <1>8, <3>1 DEF EffectiveDiameter
    <2>2. i \in 1 .. HolesAsked(g)
      BY DEF g
    <2>. QED
      BY <1>1, <1>2, <1>4, <1>5, <1>6, <1>10, <2>1, <2>2, InventedPlace
  <1>. QED
    BY <1>9, <1>10 DEF g, h

----------------------------------------------------------------------------
(* Which planner makes a plan, and what is left when none does.            *)

PlanInv ==
  /\ pc = "plan" => ask \in Asks /\ calls = 0
  /\ pc = "call" => AsksLlm /\ ask.configured /\ calls \in 0 .. MaxRetries
  /\ pc = "rule" => planner \in {"rule", "rule-fallback"} /\ PlannerAsAsked
  /\ pc = "planned" => /\ PlannerAsAsked
                       /\ intent \in Intents
                       /\ document = IntentDocument(intent) /\ FitsSchema(document)
  /\ pc = "refused" /\ errors = {"planner"} =>
       ask.effective = "agent" \/ ~ask.fallback \/ answer = "unforeseen"

LEMMA PlanInit1 ==
  ASSUME PartInit
  PROVE  PlanInv
  BY DEF PartInit, Init, PlanInit, PlanInv

(* A failure of the language model, whatever it was.                       *)
LEMMA LlmFailsStep ==
  ASSUME AsksLlm, LlmFails, UNCHANGED ask,
         ask.configured => answer' = "declined" \/ calls' = MaxRetries + 1
  PROVE  PlanInv'
  <1>1. CASE ask.fallback
    BY <1>1 DEF LlmFails, PlanInv, PlannerAsAsked, AsksLlm
  <1>2. CASE ~ask.fallback
    BY <1>2 DEF LlmFails, PlannerError, PlanInv
  <1>. QED
    BY <1>1, <1>2

LEMMA MadeStep ==
  ASSUME NEW i \in Intents, NEW by, Made(i, by), FitsSchema(IntentDocument(i)),
         PlannerAsAsked'
  PROVE  PlanInv'
  BY DEF Made, PlanInv

LEMMA PlanNextInv ==
  ASSUME PlanInv, [PartNext]_partVars
  PROVE  PlanInv'
  <1>1. CASE UNCHANGED partVars
    BY <1>1 DEF PlanInv, partVars, vars, plan, PlannerAsAsked, AsksLlm, AsksAgent
  <1>2. CASE Next /\ UNCHANGED <<plan, part, paper>>
    <2>1. pc' \notin {"plan", "call", "rule", "planned"}
      BY <1>2
      DEF Next, ReadEntity, RefuseEntity, RefuseLines, EndOfDrawing, Link, Retry, RefuseChain,
          RefuseShape, InferOperation, GroupPattern, SkipCircle, BuildTree, RefuseTree,
          Convert, Validate, Confirm, Refuse
    <2>2. ~(pc' = "refused" /\ errors' = {"planner"})
      BY <1>2
      DEF Next, ReadEntity, RefuseEntity, RefuseLines, EndOfDrawing, Link, Retry, RefuseChain,
          RefuseShape, InferOperation, GroupPattern, SkipCircle, BuildTree, RefuseTree,
          Convert, Validate, Confirm, Refuse
    <2>. QED
      BY <2>1, <2>2 DEF PlanInv
  <1>3. CASE PlanByAgent
    BY <1>3 DEF PlanByAgent, PlanInv
  <1>4. CASE AgentFails
    BY <1>4 DEF AgentFails, PlannerError, PlanInv, plan
  <1>5. CASE AskRules
    BY <1>5 DEF AskRules, PlanInv, PlannerAsAsked, AsksLlm, AsksAgent
  <1>6. CASE NotConfigured
    <2>1. AsksLlm /\ ~ask.configured /\ LlmFails /\ UNCHANGED ask
      BY <1>6 DEF NotConfigured, AsksLlm
    <2>. QED
      BY <2>1, LlmFailsStep
  <1>7. CASE AskLlm
    <2>1. calls \in 0 .. MaxRetries
      BY <1>7, PlansAssumption DEF AskLlm, PlanInv
    <2>. QED
      BY <1>7, <2>1 DEF AskLlm, PlanInv, plan, AsksLlm
  <1>8. CASE Answered
    <2>1. PICK i \in Answers : FitsSchema(IntentDocument(i)) /\ Made(i, "llm")
      BY <1>8 DEF Answered
    <2>2. PlannerAsAsked'
      BY <1>8, <2>1 DEF Answered, Made, PlanInv, PlannerAsAsked, AsksLlm
    <2>3. i \in Intents
      BY DEF Intents
    <2>. QED
      BY <2>1, <2>2, <2>3, MadeStep
  <1>9. CASE CallFails
    <2>1. CASE TriesLeft(calls + 1)
      <3>1. calls' \in 0 .. MaxRetries
        BY <1>9, <2>1, PlansAssumption DEF CallFails, TriesLeft, PlanInv
      <3>. QED
        BY <1>9, <2>1, <3>1 DEF CallFails, PlanInv, AsksLlm
    <2>2. CASE ~TriesLeft(calls + 1)
      <3>1. calls' = MaxRetries + 1
        BY <1>9, <2>2, PlansAssumption DEF CallFails, TriesLeft, PlanInv
      <3>. QED
        BY <1>9, <2>2, <3>1, LlmFailsStep DEF CallFails, PlanInv
    <2>. QED
      BY <2>1, <2>2
  <1>10. CASE Declined
    BY <1>10, LlmFailsStep DEF Declined, PlanInv
  <1>11. CASE Unforeseen
    BY <1>11 DEF Unforeseen, PlannerError, PlanInv
  <1>12. CASE PlanByRules
    <2>1. PICK words \in Prompts :
            LET i == RuleIntent(words) IN
            IF FitsSchema(IntentDocument(i)) THEN Made(i, planner)
            ELSE pc' = "refused" /\ errors' = {"schema"}
      BY <1>12 DEF PlanByRules
    <2>2. CASE FitsSchema(IntentDocument(RuleIntent(words)))
      <3>1. PlannerAsAsked'
        BY <1>12, <2>1, <2>2
        DEF PlanByRules, Made, PlanInv, PlannerAsAsked, AsksLlm, AsksAgent
      <3>2. RuleIntent(words) \in Intents
        BY DEF Intents
      <3>. QED
        BY <2>1, <2>2, <3>1, <3>2, MadeStep
    <2>3. CASE ~FitsSchema(IntentDocument(RuleIntent(words)))
      BY <2>1, <2>3 DEF PlanInv
    <2>. QED
      BY <2>2, <2>3
  <1>13. CASE UsePlan
    BY <1>13 DEF UsePlan, PlanInv
  <1>14. ASSUME NEW b \in Backends, Build(b) PROVE PlanInv'
    BY <1>14 DEF Build, PlanInv
  <1>15. CASE Template
    BY <1>15
    DEF Template, PlanInv, request, result, plan, PlannerAsAsked, AsksLlm, AsksAgent
  <1>16. ASSUME NEW more \in Additions, Package(more) PROVE PlanInv'
    BY <1>16 DEF Package, PlanInv
  <1>. QED
    BY <1>1, <1>2, <1>3, <1>4, <1>5, <1>6, <1>7, <1>8, <1>9, <1>10, <1>11, <1>12,
       <1>13, <1>14, <1>15, <1>16
    DEF PartNext, PlanNext

LEMMA PlanInvariant == PartSpec => []PlanInv
  <1>1. PlanInv /\ [PartNext]_<<vars, plan, part, paper>> => PlanInv'
    BY PlanNextInv DEF partVars
  <1>. QED
    BY <1>1, PlanInit1, PTL DEF PartSpec

LEMMA PlanIsSound ==
  ASSUME PlanInv
  PROVE  PlansAreSound
  <1>1. ASSUME pc = "planned"
        PROVE  /\ PlannerAsAsked
               /\ Len(document.holes) = HolesBefore(Len(intent.groups) + 1)
               /\ InventionsFit
    <2>1. /\ PlannerAsAsked /\ intent \in Intents
          /\ document = IntentDocument(intent) /\ FitsSchema(document)
      BY <1>1 DEF PlanInv
    <2>2. IsIntent(intent) /\ OnLattice(intent)
      BY <2>1, PlansAssumption
    <2>. QED
      BY <2>1, <2>2, HolesOfGroups, InventedHolesFit
  <1>. QED
    BY <1>1 DEF PlansAreSound, PlanInv

(* A plan is by the planner that was asked for, or by the rules after the  *)
(* language model had every try it was to have; each group of holes gets   *)
(* as many as it asks for, in order; the depth and, in a part with flat    *)
(* faces, the place the planner invents for a hole are never what the      *)
(* validator refuses; and with a fallback, only an answer nobody foresaw   *)
(* leaves a request without a plan.  For every answer of a model, every    *)
(* prompt and any number of retries.                                       *)
THEOREM SoundPlans == PartSpec => []PlansAreSound
  BY PlanInvariant, PlanIsSound, PTL

----------------------------------------------------------------------------
(* Sequences that list the members of a set, each of them once             *)

LEMMA Bijections ==
  ASSUME NEW A, NEW B, NEW f
  PROVE  f \in Bijection(A, B)
           <=> /\ f \in [A -> B]
               /\ \A x, y \in A : f[x] = f[y] => x = y
               /\ \A z \in B : \E x \in A : f[x] = z
  BY DEF Bijection, Injection, Surjection, IsInjective

(* A sequence is the values of the members of a set, each of them once.    *)
Lists(s, B, val) ==
  \E f \in Bijection(1 .. Len(s), B) : \A i \in 1 .. Len(s) : s[i] = val[f[i]]

LEMMA ListsNone ==
  ASSUME NEW val
  PROVE  Lists(<<>>, {}, val)
  <1>. DEFINE f == [i \in {} |-> i]
  <1>1. 1 .. Len(<<>>) = {}
    OBVIOUS
  <1>2. f \in Bijection({}, {})
    BY Bijections
  <1>. QED
    BY <1>1, <1>2 DEF Lists

LEMMA ListsBoth ==
  ASSUME NEW T, NEW s \in Seq(T), NEW t \in Seq(T), NEW A, NEW B, NEW val,
         Lists(s, A, val), Lists(t, B, val), A \cap B = {}
  PROVE  Lists(s \o t, A \cup B, val)
  <1>1. PICK f \in Bijection(1 .. Len(s), A) : \A i \in 1 .. Len(s) : s[i] = val[f[i]]
    BY DEF Lists
  <1>2. PICK g \in Bijection(1 .. Len(t), B) : \A i \in 1 .. Len(t) : t[i] = val[g[i]]
    BY DEF Lists
  <1>3. /\ f \in [1 .. Len(s) -> A]
        /\ \A x, y \in 1 .. Len(s) : f[x] = f[y] => x = y
        /\ \A z \in A : \E x \in 1 .. Len(s) : f[x] = z
    BY <1>1, Bijections
  <1>4. /\ g \in [1 .. Len(t) -> B]
        /\ \A x, y \in 1 .. Len(t) : g[x] = g[y] => x = y
        /\ \A z \in B : \E x \in 1 .. Len(t) : g[x] = z
    BY <1>2, Bijections
  <1>5. /\ Len(s \o t) = Len(s) + Len(t)
        /\ \A i \in 1 .. Len(s) + Len(t) :
             (s \o t)[i] = IF i <= Len(s) THEN s[i] ELSE t[i - Len(s)]
    BY ConcatProperties
  <1>6. Len(s) \in Nat /\ Len(t) \in Nat
    OBVIOUS
  <1>. DEFINE n == Len(s) + Len(t)
              h == [i \in 1 .. n |-> IF i <= Len(s) THEN f[i] ELSE g[i - Len(s)]]
  <1>7. ASSUME NEW i \in 1 .. n
        PROVE  IF i <= Len(s) THEN i \in 1 .. Len(s) ELSE i - Len(s) \in 1 .. Len(t)
    BY <1>6
  <1>8. h \in [1 .. n -> A \cup B]
    BY <1>3, <1>4, <1>7
  <1>9. ASSUME NEW i \in 1 .. n, NEW j \in 1 .. n, h[i] = h[j] PROVE i = j
    <2>1. CASE i <= Len(s) /\ j <= Len(s)
      BY <1>3, <1>7, <1>9, <2>1
    <2>2. CASE ~(i <= Len(s)) /\ ~(j <= Len(s))
      <3>1. g[i - Len(s)] = g[j - Len(s)]
        BY <1>9, <2>2
      <3>2. i - Len(s) = j - Len(s)
        BY <1>4, <1>7, <2>2, <3>1
      <3>. QED
        BY <1>6, <3>2
    <2>3. CASE i <= Len(s) /\ ~(j <= Len(s))
      BY <1>3, <1>4, <1>7, <1>9, <2>3
    <2>4. CASE ~(i <= Len(s)) /\ j <= Len(s)
      BY <1>3, <1>4, <1>7, <1>9, <2>4
    <2>. QED
      BY <2>1, <2>2, <2>3, <2>4
  <1>10. ASSUME NEW z \in A \cup B PROVE \E i \in 1 .. n : h[i] = z
    <2>1. CASE z \in A
      <3>1. PICK x \in 1 .. Len(s) : f[x] = z
        BY <1>3, <2>1
      <3>2. x \in 1 .. n /\ x <= Len(s)
        BY <1>6
      <3>. QED
        BY <3>1, <3>2
    <2>2. CASE z \in B
      <3>1. PICK x \in 1 .. Len(t) : g[x] = z
        BY <1>4, <2>2
      <3>2. /\ x + Len(s) \in 1 .. n /\ ~(x + Len(s) <= Len(s))
            /\ (x + Len(s)) - Len(s) = x
        BY <1>6
      <3>. QED
        BY <3>1, <3>2
    <2>. QED
      BY <2>1, <2>2
  <1>11. h \in Bijection(1 .. n, A \cup B)
    <2>. HIDE DEF h, n
    <2>1. \A i, j \in 1 .. n : h[i] = h[j] => i = j
      BY <1>9
    <2>2. \A z \in A \cup B : \E i \in 1 .. n : h[i] = z
      BY <1>10
    <2>. QED
      BY <1>8, <2>1, <2>2, Fun_IsBij
  <1>12. \A i \in 1 .. n : (s \o t)[i] = val[h[i]]
    BY <1>1, <1>2, <1>5, <1>7
  <1>. HIDE DEF h
  <1>. QED
    BY <1>5, <1>11, <1>12 DEF Lists

LEMMA ListsAll ==
  ASSUME NEW T, NEW seqs \in Seq(Seq(T)), NEW own, NEW val,
         \A i, j \in 1 .. Len(seqs) : i # j => own[i] \cap own[j] = {},
         \A i \in 1 .. Len(seqs) : Lists(seqs[i], own[i], val)
  PROVE  /\ FlattenSeq(seqs) \in Seq(T)
         /\ Lists(FlattenSeq(seqs), UNION {own[i] : i \in 1 .. Len(seqs)}, val)
  <1>. DEFINE n == Len(seqs)
              upto == [k \in 0 .. n |-> UNION {own[i] : i \in 1 .. k}]
  <1>0. n \in Nat /\ n \in 0 .. n /\ \A i \in 1 .. n : seqs[i] \in Seq(T)
    OBVIOUS
  <1>1. PICK f \in [0 .. n -> Seq(T)] :
          /\ f[0] = <<>> /\ \A i \in 1 .. n : f[i] = f[i - 1] \o seqs[i]
          /\ FlattenSeq(seqs) = f[n]
    BY Flattening
  <1>. DEFINE S == {k \in Nat : k <= n => Lists(f[k], upto[k], val)}
  <1>2. 0 \in S
    <2>1. upto[0] = {}
      BY <1>0
    <2>. HIDE DEF upto
    <2>2. Lists(f[0], upto[0], val)
      BY <1>1, <2>1, ListsNone
    <2>. QED
      BY <2>2
  <1>3. ASSUME NEW k \in Nat, k \in S PROVE k + 1 \in S
    <2>. SUFFICES ASSUME k + 1 <= n PROVE Lists(f[k + 1], upto[k + 1], val)
      OBVIOUS
    <2>1. /\ k + 1 \in 1 .. n /\ k \in 0 .. n /\ k + 1 \in 0 .. n /\ (k + 1) - 1 = k
          /\ 1 .. k + 1 = (1 .. k) \cup {k + 1} /\ \A i \in 1 .. k : i \in 1 .. n /\ i # k + 1
      BY <1>0
    <2>2. Lists(f[k], upto[k], val) /\ Lists(seqs[k + 1], own[k + 1], val)
      BY <1>3, <2>1
    <2>3. upto[k] \cap own[k + 1] = {}
      BY <2>1
    <2>4. upto[k + 1] = upto[k] \cup own[k + 1]
      BY <2>1
    <2>5. f[k] \in Seq(T) /\ seqs[k + 1] \in Seq(T) /\ f[k + 1] = f[k] \o seqs[k + 1]
      BY <1>0, <1>1, <2>1
    <2>. HIDE DEF upto
    <2>6. Lists(f[k] \o seqs[k + 1], upto[k] \cup own[k + 1], val)
      BY <2>2, <2>3, <2>5, ListsBoth
    <2>. QED
      BY <2>4, <2>5, <2>6
  <1>. HIDE DEF S
  <1>4. n \in S
    BY <1>0, <1>2, <1>3, SetInduction
  <1>5. Lists(f[n], upto[n], val)
    BY <1>0, <1>4 DEF S
  <1>. QED
    BY <1>0, <1>1, <1>5

(* t is a part of s, in its order.                                         *)
Picks(f, s, t) ==
  /\ f \in [1 .. Len(t) -> 1 .. Len(s)]
  /\ \A i, j \in 1 .. Len(t) : i < j => f[i] < f[j]
  /\ \A i \in 1 .. Len(t) : t[i] = s[f[i]]

LEMMA Keeping ==
  ASSUME NEW T, NEW s \in Seq(T), NEW S
  PROVE  /\ Keep(s, S) \in Seq(T)
         /\ \E f : /\ Picks(f, s, Keep(s, S))
                   /\ \A i \in 1 .. Len(Keep(s, S)) : Keep(s, S)[i] \in S
                   /\ \A m \in 1 .. Len(s) :
                        s[m] \in S => \E i \in 1 .. Len(Keep(s, S)) : f[i] = m
  <1>. DEFINE n == Len(s)
              seqs == [i \in DOMAIN s |-> IF s[i] \in S THEN <<s[i]>> ELSE <<>>]
  <1>0. n \in Nat /\ DOMAIN s = 1 .. n /\ \A i \in 1 .. n : s[i] \in T
    OBVIOUS
  <1>1. seqs \in Seq(Seq(T)) /\ Len(seqs) = n
    <2>1. \A i \in 1 .. n : <<s[i]>> \in Seq(T) /\ <<>> \in Seq(T)
      BY <1>0
    <2>. QED
      BY <1>0, <2>1
  <1>2. \A i \in 1 .. n : seqs[i] = IF s[i] \in S THEN <<s[i]>> ELSE <<>>
    BY <1>0
  <1>3. Keep(s, S) = FlattenSeq(seqs)
    BY DEF Keep
  <1>. HIDE DEF seqs
  <1>4. PICK g \in [0 .. n -> Seq(T)] :
          /\ g[0] = <<>> /\ \A i \in 1 .. n : g[i] = g[i - 1] \o seqs[i]
          /\ FlattenSeq(seqs) = g[n]
    <2>1. \E g \in [0 .. Len(seqs) -> Seq(T)] :
            /\ g[0] = <<>> /\ \A i \in 1 .. Len(seqs) : g[i] = g[i - 1] \o seqs[i]
            /\ FlattenSeq(seqs) = g[Len(seqs)]
      BY <1>1, Flattening
    <2>. QED
      BY <1>1, <2>1
  <1>. DEFINE Good(f, k) ==
                /\ f \in [1 .. Len(g[k]) -> 1 .. k]
                /\ \A i, j \in 1 .. Len(g[k]) : i < j => f[i] < f[j]
                /\ \A i \in 1 .. Len(g[k]) : g[k][i] = s[f[i]] /\ g[k][i] \in S
                /\ \A m \in 1 .. k : s[m] \in S => \E i \in 1 .. Len(g[k]) : f[i] = m
              A == {k \in Nat : k <= n => \E f : Good(f, k)}
  <1>5. 0 \in A
    <2>1. Len(g[0]) = 0 /\ 1 .. 0 = {}
      BY <1>4
    <2>2. Good([i \in {} |-> i], 0)
      BY <2>1
    <2>. HIDE DEF Good
    <2>. QED
      BY <2>2
  <1>. HIDE DEF Good
  <1>6. ASSUME NEW k \in Nat, k \in A PROVE k + 1 \in A
    <2>. SUFFICES ASSUME k + 1 <= n PROVE \E f : Good(f, k + 1)
      OBVIOUS
    <2>1. k + 1 \in 1 .. n /\ k \in 0 .. n /\ k + 1 \in 0 .. n /\ (k + 1) - 1 = k
      BY <1>0
    <2>2. PICK f : Good(f, k)
      BY <1>6, <2>1
    <2>. HIDE DEF A
    <2>3. g[k] \in Seq(T) /\ g[k + 1] = g[k] \o seqs[k + 1] /\ Len(g[k]) \in Nat
      <3>1. g[k] \in Seq(T)
        BY <1>4, <2>1
      <3>2. g[k + 1] = g[(k + 1) - 1] \o seqs[k + 1]
        BY <1>4, <2>1
      <3>. QED
        BY <2>1, <3>1, <3>2
    <2>4. CASE s[k + 1] \in S
      <3>. DEFINE len == Len(g[k])
                  h == [i \in 1 .. len + 1 |-> IF i <= len THEN f[i] ELSE k + 1]
      <3>1. g[k + 1] = Append(g[k], s[k + 1])
        <4>1. seqs[k + 1] = <<s[k + 1]>> /\ s[k + 1] \in T
          BY <1>0, <1>2, <2>1, <2>4
        <4>. QED
          BY <2>3, <4>1, AppendIsConcat
      <3>2. /\ Len(g[k + 1]) = len + 1
            /\ \A i \in 1 .. len + 1 : g[k + 1][i] = IF i <= len THEN g[k][i] ELSE s[k + 1]
        BY <1>0, <2>1, <2>3, <3>1
      <3>3. \A i \in 1 .. len + 1 : IF i <= len THEN i \in 1 .. len ELSE i = len + 1
        BY <2>3
      <3>4. h \in [1 .. len + 1 -> 1 .. k + 1]
        BY <2>2, <3>3 DEF Good
      <3>5. ASSUME NEW i \in 1 .. len + 1, NEW j \in 1 .. len + 1, i < j PROVE h[i] < h[j]
        <4>1. i \in 1 .. len
          BY <2>3, <3>5
        <4>2. h[i] = f[i] /\ f[i] \in 1 .. k
          BY <2>2, <4>1 DEF Good
        <4>3. CASE j <= len
          BY <2>2, <3>3, <3>5, <4>1, <4>3 DEF Good
        <4>4. CASE ~(j <= len)
          BY <4>2, <4>4
        <4>. QED
          BY <4>3, <4>4
      <3>6. \A i \in 1 .. len + 1 : g[k + 1][i] = s[h[i]] /\ g[k + 1][i] \in S
        BY <2>2, <2>4, <3>2, <3>3 DEF Good
      <3>7. ASSUME NEW m \in 1 .. k + 1, s[m] \in S
            PROVE  \E i \in 1 .. len + 1 : h[i] = m
        <4>1. CASE m = k + 1
          <5>1. len + 1 \in 1 .. len + 1 /\ ~(len + 1 <= len)
            BY <2>3
          <5>. QED
            BY <4>1, <5>1
        <4>2. CASE m # k + 1
          <5>1. m \in 1 .. k
            BY <4>2
          <5>2. PICK i \in 1 .. len : f[i] = m
            BY <2>2, <3>7, <5>1 DEF Good
          <5>3. i \in 1 .. len + 1 /\ i <= len
            BY <2>3
          <5>. QED
            BY <5>2, <5>3
        <4>. QED
          BY <4>1, <4>2
      <3>8. Good(h, k + 1)
        <4>. HIDE DEF h
        <4>. QED
          BY <3>2, <3>4, <3>5, <3>6, <3>7 DEF Good
      <3>. QED
        BY <3>8
    <2>5. CASE s[k + 1] \notin S
      <3>1. g[k + 1] = g[k]
        BY <1>2, <2>1, <2>3, <2>5, ConcatEmptySeq
      <3>2. \A m \in 1 .. k + 1 : m = k + 1 \/ m \in 1 .. k
        OBVIOUS
      <3>3. f \in [1 .. Len(g[k]) -> 1 .. k + 1]
        BY <2>2 DEF Good
      <3>4. ASSUME NEW m \in 1 .. k + 1, s[m] \in S
            PROVE  \E i \in 1 .. Len(g[k]) : f[i] = m
        <4>1. m \in 1 .. k
          BY <2>5, <3>2, <3>4
        <4>. QED
          BY <2>2, <3>4, <4>1 DEF Good
      <3>5. Good(f, k + 1)
        BY <2>2, <3>1, <3>3, <3>4 DEF Good
      <3>. QED
        BY <3>5
    <2>. QED
      BY <2>4, <2>5
  <1>. HIDE DEF A
  <1>7. n \in A
    BY <1>0, <1>5, <1>6, SetInduction
  <1>8. \E f : Good(f, n)
    BY <1>0, <1>7 DEF A
  <1>9. PICK f : Good(f, n)
    BY <1>8
  <1>10. Keep(s, S) = g[n] /\ g[n] \in Seq(T)
    BY <1>0, <1>3, <1>4
  <1>11. Picks(f, s, Keep(s, S))
    BY <1>9, <1>10 DEF Good, Picks
  <1>. QED
    BY <1>9, <1>10, <1>11 DEF Good

----------------------------------------------------------------------------
(* The holes are the circles of the drawing, sorted by their centers       *)

Drawn == [center : Point, radius : Int]
HoleRecord == [id : Nat, center : Point, radius : Int]

(* Circle j is not after circle i.                                         *)
NotAfter(j, i) ==
  Before(circles[j], circles[i]) \/ (circles[j] = circles[i] /\ j <= i)

LEMMA Coordinates ==
  ASSUME NEW p \in Point, NEW q \in Point
  PROVE  /\ p[1] \in Int /\ p[2] \in Int
         /\ p = <<p[1], p[2]>>
         /\ p = q <=> p[1] = q[1] /\ p[2] = q[2]
  <1>1. p \in Int \X Int /\ q \in Int \X Int
    BY DEF Point
  <1>2. p = <<p[1], p[2]>> /\ q = <<q[1], q[2]>>
    BY <1>1
  <1>. QED
    BY <1>1, <1>2

(* Whether a circle is not after another, number by number.                *)
LEMMA OrderIs ==
  ASSUME circles \in Seq(Drawn), NEW i \in 1 .. Len(circles), NEW j \in 1 .. Len(circles)
  PROVE  NotAfter(i, j)
           <=> LET c == circles[i]
                   d == circles[j] IN
               \/ c.center[1] < d.center[1]
               \/ c.center[1] = d.center[1] /\ c.center[2] < d.center[2]
               \/ /\ c.center[1] = d.center[1] /\ c.center[2] = d.center[2]
                  /\ \/ c.radius < d.radius
                     \/ c.radius = d.radius /\ i <= j
  <1>1. circles[i] \in Drawn /\ circles[j] \in Drawn
    OBVIOUS
  <1>2. \A c \in Drawn : c = [center |-> c.center, radius |-> c.radius] /\ c.center \in Point
                         /\ c.radius \in Int
    BY DEF Drawn
  <1>3. circles[i] = circles[j]
          <=> circles[i].center = circles[j].center /\ circles[i].radius = circles[j].radius
    BY <1>1, <1>2
  <1>4. circles[i].center = circles[j].center
          <=> /\ circles[i].center[1] = circles[j].center[1]
              /\ circles[i].center[2] = circles[j].center[2]
    BY <1>1, <1>2, Coordinates
  <1>. QED
    BY <1>1, <1>2, <1>3, <1>4, Coordinates DEF NotAfter, Before

LEMMA OrderOfCircles ==
  ASSUME circles \in Seq(Drawn),
         NEW i \in 1 .. Len(circles), NEW j \in 1 .. Len(circles), NEW k \in 1 .. Len(circles)
  PROVE  /\ NotAfter(i, i)
         /\ i # j => (NotAfter(i, j) <=> ~NotAfter(j, i))
         /\ NotAfter(i, j) /\ NotAfter(j, k) => NotAfter(i, k)
  <1>. DEFINE x(n) == circles[n].center[1]
              y(n) == circles[n].center[2]
              r(n) == circles[n].radius
              Upto(m, n) == \/ x(m) < x(n)
                            \/ x(m) = x(n) /\ y(m) < y(n)
                            \/ x(m) = x(n) /\ y(m) = y(n) /\ (r(m) < r(n) \/ (r(m) = r(n) /\ m <= n))
  <1>1. ASSUME NEW n \in 1 .. Len(circles) PROVE x(n) \in Int /\ y(n) \in Int /\ r(n) \in Int
    <2>1. circles[n] \in Drawn
      OBVIOUS
    <2>2. circles[n].center \in Point /\ circles[n].radius \in Int
      BY <2>1 DEF Drawn
    <2>. QED
      BY <2>2, Coordinates
  <1>2. \A m, n \in 1 .. Len(circles) : NotAfter(m, n) <=> Upto(m, n)
    BY OrderIs
  <1>. HIDE DEF x, y, r
  <1>3. Upto(i, i) /\ (i # j => (Upto(i, j) <=> ~Upto(j, i)))
    BY <1>1
  <1>4. Upto(i, j) /\ Upto(j, k) => Upto(i, k)
    BY <1>1
  <1>. HIDE DEF Upto
  <1>. QED
    BY <1>2, <1>3, <1>4

LEMMA Ranked ==
  ASSUME circles \in Seq(Drawn)
  PROVE  \E at \in Bijection(1 .. Len(circles), 1 .. Len(circles)) :
           /\ \A n \in 1 .. Len(circles) : Rank(at[n]) = n
           /\ \A n \in 1 .. Len(circles) :
                at[n] = CHOOSE i \in DOMAIN circles : Rank(i) = n
           /\ \A m, n \in 1 .. Len(circles) : m < n => NotAfter(at[m], at[n])
  <1>. DEFINE N == Len(circles)
              below(i) == {j \in 1 .. N : NotAfter(j, i)}
              rank == [i \in 1 .. N |-> Rank(i)]
  <1>0. N \in Nat /\ DOMAIN circles = 1 .. N /\ IsFiniteSet(1 .. N)
    BY FS_Interval
  <1>1. ASSUME NEW i \in 1 .. N
        PROVE  /\ Rank(i) = Cardinality(below(i)) /\ IsFiniteSet(below(i)) /\ i \in below(i)
               /\ Rank(i) \in 1 .. N
    <2>1. Rank(i) = Cardinality(below(i))
      BY <1>0 DEF Rank, NotAfter
    <2>2. below(i) \in SUBSET (1 .. N) /\ i \in below(i)
      BY OrderOfCircles
    <2>. HIDE DEF below
    <2>3. IsFiniteSet(below(i)) /\ Cardinality(below(i)) <= N /\ Cardinality(below(i)) \in Nat
      <3>1. Cardinality(1 .. N) = N
        <4>1. Cardinality(1 .. N) = IF 1 > N THEN 0 ELSE N - 1 + 1
          BY <1>0, FS_Interval
        <4>. QED
          BY <1>0, <4>1
      <3>2. IsFiniteSet(below(i)) /\ Cardinality(below(i)) <= Cardinality(1 .. N)
        BY <1>0, <2>2, FS_Subset
      <3>. QED
        BY <3>1, <3>2, FS_CardinalityType
    <2>4. Cardinality(below(i)) # 0
      BY <2>2, <2>3, FS_EmptySet
    <2>. QED
      BY <2>1, <2>2, <2>3, <2>4
  <1>2. ASSUME NEW i \in 1 .. N, NEW j \in 1 .. N, i # j, NotAfter(i, j)
        PROVE  Rank(i) < Rank(j)
    <2>1. ~NotAfter(j, i)
      BY <1>2, OrderOfCircles
    <2>2. below(i) \in SUBSET below(j)
      BY <1>2, OrderOfCircles
    <2>3. j \in below(j) /\ j \notin below(i)
      BY <2>1, <1>1
    <2>. HIDE DEF below
    <2>4. below(i) # below(j)
      BY <2>3
    <2>5. Cardinality(below(i)) <= Cardinality(below(j))
          /\ Cardinality(below(i)) # Cardinality(below(j))
      BY <1>1, <2>2, <2>4, FS_Subset
    <2>. QED
      BY <1>1, <2>5
  <1>. HIDE DEF below
  <1>3. ASSUME NEW i \in 1 .. N, NEW j \in 1 .. N, Rank(i) = Rank(j) PROVE i = j
    <2>. SUFFICES ASSUME i # j PROVE FALSE
      OBVIOUS
    <2>1. NotAfter(i, j) \/ NotAfter(j, i)
      BY OrderOfCircles
    <2>2. Rank(i) < Rank(j) \/ Rank(j) < Rank(i)
      BY <1>2, <2>1
    <2>. QED
      BY <1>1, <1>3, <2>2
  <1>4. rank \in Injection(1 .. N, 1 .. N)
    <2>1. rank \in [1 .. N -> 1 .. N]
      BY <1>1
    <2>2. \A i, j \in 1 .. N : rank[i] = rank[j] => i = j
      BY <1>3
    <2>. HIDE DEF rank
    <2>. QED
      BY <2>1, <2>2, Fun_IsInj
  <1>5. rank \in Surjection(1 .. N, 1 .. N)
    BY <1>0, <1>4, FS_Injection
  <1>6. ASSUME NEW n \in 1 .. N PROVE \E i \in 1 .. N : Rank(i) = n
    <2>. HIDE DEF rank
    <2>1. \A m \in 1 .. N : \E i \in 1 .. N : rank[i] = m
      BY <1>5 DEF Surjection
    <2>2. PICK i \in 1 .. N : rank[i] = n
      BY <2>1
    <2>. QED
      BY <2>2 DEF rank
  <1>. DEFINE at == [n \in 1 .. N |-> CHOOSE i \in DOMAIN circles : Rank(i) = n]
  <1>7. \A n \in 1 .. N : at[n] \in 1 .. N /\ Rank(at[n]) = n
    BY <1>0, <1>6
  <1>8. at \in Bijection(1 .. N, 1 .. N)
    <2>1. at \in [1 .. N -> 1 .. N]
      BY <1>7
    <2>2. \A m, n \in 1 .. N : at[m] = at[n] => m = n
      BY <1>7
    <2>3. \A i \in 1 .. N : \E n \in 1 .. N : at[n] = i
      <3>. SUFFICES ASSUME NEW i \in 1 .. N PROVE at[Rank(i)] = i
        BY <1>1
      <3>. QED
        BY <1>1, <1>3, <1>7
    <2>. HIDE DEF at
    <2>. QED
      BY <2>1, <2>2, <2>3, Fun_IsBij
  <1>9. ASSUME NEW m \in 1 .. N, NEW n \in 1 .. N, m < n PROVE NotAfter(at[m], at[n])
    <2>. SUFFICES ASSUME ~NotAfter(at[m], at[n]) PROVE FALSE
      OBVIOUS
    <2>. HIDE DEF at
    <2>1. at[m] # at[n] /\ NotAfter(at[n], at[m])
      BY <1>7, <1>9, OrderOfCircles
    <2>2. n < m
      BY <1>2, <1>7, <2>1
    <2>. QED
      BY <1>9, <2>2
  <1>10. \A n \in 1 .. N : at[n] = CHOOSE i \in DOMAIN circles : Rank(i) = n
    OBVIOUS
  <1>. HIDE DEF at
  <1>. QED
    BY <1>7, <1>8, <1>9, <1>10

(* The holes are the circles, and sorted.                                  *)
LEMMA HolesAreCircles ==
  ASSUME circles \in Seq(Drawn)
  PROVE  /\ Holes \in Seq(HoleRecord) /\ Len(Holes) = Len(circles)
         /\ \A n \in 1 .. Len(circles) : Holes[n].id = n
         /\ \A m, n \in 1 .. Len(circles) : m < n => ~Before(Holes[n], Holes[m])
         /\ \E at \in Bijection(1 .. Len(circles), 1 .. Len(circles)) :
              \A n \in 1 .. Len(circles) :
                /\ Holes[n].center = circles[at[n]].center
                /\ Holes[n].radius = circles[at[n]].radius
  <1>1. PICK at \in Bijection(1 .. Len(circles), 1 .. Len(circles)) :
           /\ \A n \in 1 .. Len(circles) : Rank(at[n]) = n
           /\ \A n \in 1 .. Len(circles) :
                at[n] = CHOOSE i \in DOMAIN circles : Rank(i) = n
           /\ \A m, n \in 1 .. Len(circles) : m < n => NotAfter(at[m], at[n])
    BY Ranked
  <1>2. at \in [1 .. Len(circles) -> 1 .. Len(circles)]
        /\ \A m, n \in 1 .. Len(circles) : at[m] = at[n] => m = n
    BY <1>1, Bijections
  <1>3. DOMAIN Holes = 1 .. Len(circles) /\ Len(circles) \in Nat
    BY DEF Holes
  <1>4. ASSUME NEW n \in 1 .. Len(circles)
        PROVE  /\ Holes[n] = [id |-> n, center |-> Holes[n].center, radius |-> Holes[n].radius]
               /\ Holes[n].id = n
               /\ Holes[n].center = circles[at[n]].center
               /\ Holes[n].radius = circles[at[n]].radius
    <2>1. at[n] = CHOOSE i \in DOMAIN circles : Rank(i) = n
      BY <1>1
    <2>2. n \in DOMAIN circles
      OBVIOUS
    <2>3. Holes[n] = LET c == circles[CHOOSE i \in DOMAIN circles : Rank(i) = n] IN
                     [id |-> n, center |-> c.center, radius |-> c.radius]
      BY <2>2 DEF Holes
    <2>4. Holes[n] = [id |-> n, center |-> circles[at[n]].center,
                      radius |-> circles[at[n]].radius]
      BY <2>1, <2>3
    <2>. QED
      BY <2>4
  <1>5. ASSUME NEW n \in 1 .. Len(circles)
        PROVE  circles[at[n]] \in Drawn /\ Holes[n] \in HoleRecord
    <2>1. circles[at[n]] \in Drawn
      BY <1>2
    <2>2. circles[at[n]].center \in Point /\ circles[at[n]].radius \in Int /\ n \in Nat
      BY <2>1 DEF Drawn
    <2>3. Holes[n].center \in Point /\ Holes[n].radius \in Int
      BY <1>4, <2>2
    <2>4. [id |-> n, center |-> Holes[n].center, radius |-> Holes[n].radius] \in HoleRecord
      BY <2>2, <2>3 DEF HoleRecord
    <2>. QED
      BY <1>4, <2>1, <2>4
  <1>6. Holes \in Seq(HoleRecord) /\ Len(Holes) = Len(circles)
    <2>1. Holes = [n \in 1 .. Len(circles) |-> Holes[n]]
      BY <1>3 DEF Holes
    <2>2. Holes \in [1 .. Len(circles) -> HoleRecord]
      BY <1>5, <2>1
    <2>. QED
      BY <1>3, <2>2
  <1>7. ASSUME NEW m \in 1 .. Len(circles), NEW n \in 1 .. Len(circles), m < n
        PROVE  ~Before(Holes[n], Holes[m])
    <2>1. NotAfter(at[m], at[n]) /\ at[m] # at[n]
      BY <1>1, <1>2, <1>7
    <2>2. ~NotAfter(at[n], at[m])
      BY <1>2, <2>1, OrderOfCircles
    <2>3. ~Before(circles[at[n]], circles[at[m]])
      BY <2>2 DEF NotAfter
    <2>4. /\ Holes[m].center = circles[at[m]].center /\ Holes[m].radius = circles[at[m]].radius
          /\ Holes[n].center = circles[at[n]].center /\ Holes[n].radius = circles[at[n]].radius
      BY <1>4
    <2>. QED
      BY <2>3, <2>4 DEF Before
  <1>8. \A n \in 1 .. Len(circles) :
          /\ Holes[n].id = n
          /\ Holes[n].center = circles[at[n]].center /\ Holes[n].radius = circles[at[n]].radius
    BY <1>4
  <1>. QED
    BY <1>1, <1>6, <1>7, <1>8

----------------------------------------------------------------------------
(* The first of finitely many, in the order of a dictionary                *)

LEMMA LeastInt ==
  ASSUME NEW S \in SUBSET Int, S # {}, NEW b \in Int, \A s \in S : b <= s
  PROVE  \E m \in S : \A s \in S : m <= s
  <1>. DEFINE T == {n \in Nat : b + n \in S}
  <1>1. PICK s \in S : TRUE
    OBVIOUS
  <1>2. s - b \in T /\ T \in SUBSET Nat
    BY <1>1
  <1>. HIDE DEF T
  <1>3. Min(T) \in T /\ \A n \in T : Min(T) <= n
    BY <1>2, LeastOf
  <1>4. b + Min(T) \in S
    BY <1>3 DEF T
  <1>5. ASSUME NEW t \in S PROVE b + Min(T) <= t
    <2>1. t - b \in T
      BY DEF T
    <2>2. Min(T) <= t - b /\ Min(T) \in Nat /\ t \in Int
      BY <1>2, <1>3, <2>1
    <2>. QED
      BY <2>2
  <1>. QED
    BY <1>4, <1>5

(* The first of some sequences of numbers, in the order of a dictionary,   *)
(* is one of them.                                                         *)
LEMMA ForemostOf ==
  ASSUME NEW n \in Nat, NEW S \in SUBSET [1 .. n -> Int], S # {},
         NEW b \in Int, \A s \in S : \A i \in 1 .. n : b <= s[i]
  PROVE  Foremost(S) \in S
  <1>. DEFINE Same(s, t, k) == \A i \in 1 .. k : s[i] = t[i]
              Best(s, k) == \A t \in S : Same(s, t, k) \/ Precedes(s, t)
              A == {k \in Nat : k <= n => \E s \in S : Best(s, k)}
  <1>1. 0 \in A
    <2>1. \A s, t \in S : Same(s, t, 0)
      OBVIOUS
    <2>. HIDE DEF Same
    <2>. QED
      BY <2>1
  <1>2. ASSUME NEW k \in Nat, k \in A PROVE k + 1 \in A
    <2>. SUFFICES ASSUME k + 1 <= n PROVE \E s \in S : Best(s, k + 1)
      <3>. HIDE DEF Best
      <3>. QED
        OBVIOUS
    <2>1. k + 1 \in 1 .. n
      OBVIOUS
    <2>2. PICK r \in S : Best(r, k)
      <3>. HIDE DEF Best
      <3>. QED
        BY <1>2, <2>1
    <2>. DEFINE T == {t \in S : Same(r, t, k)}
                V == {t[k + 1] : t \in T}
    <2>3. V \in SUBSET Int /\ V # {} /\ \A v \in V : b <= v
      <3>1. r \in T
        OBVIOUS
      <3>2. \A t \in T : t[k + 1] \in Int /\ b <= t[k + 1]
        BY <2>1
      <3>. HIDE DEF T
      <3>. QED
        BY <3>1, <3>2
    <2>4. PICK m \in V : \A v \in V : m <= v
      BY <2>3, LeastInt
    <2>5. PICK s \in T : s[k + 1] = m
      OBVIOUS
    <2>6. ASSUME NEW t \in S PROVE Same(s, t, k + 1) \/ Precedes(s, t)
      <3>1. CASE t \in T
        <4>1. m <= t[k + 1] /\ t[k + 1] \in Int /\ s[k + 1] \in Int
          BY <2>1, <2>4, <3>1
        <4>2. \A i \in 1 .. k : s[i] = t[i]
          BY <3>1
        <4>3. \A i \in 1 .. k + 1 : i = k + 1 \/ i \in 1 .. k
          OBVIOUS
        <4>4. CASE t[k + 1] = m
          BY <2>5, <4>2, <4>3, <4>4
        <4>5. CASE t[k + 1] # m
          <5>1. s[k + 1] < t[k + 1]
            BY <2>5, <4>1, <4>5
          <5>2. DOMAIN s = 1 .. n /\ (k + 1) - 1 = k
            OBVIOUS
          <5>3. Precedes(s, t)
            BY <2>1, <4>2, <5>1, <5>2 DEF Precedes
          <5>. QED
            BY <5>3
        <4>. QED
          BY <4>4, <4>5
      <3>2. CASE t \notin T
        <4>1. Precedes(r, t)
          BY <2>2, <3>2
        <4>2. PICK i \in DOMAIN r : r[i] < t[i] /\ \A j \in 1 .. i - 1 : r[j] = t[j]
          BY <4>1 DEF Precedes
        <4>3. DOMAIN r = 1 .. n /\ DOMAIN s = 1 .. n /\ i \in 1 .. n
          OBVIOUS
        <4>4. i <= k
          <5>1. PICK j \in 1 .. k : r[j] # t[j]
            BY <3>2
          <5>. SUFFICES ASSUME i > k PROVE FALSE
            BY <4>3
          <5>2. j \in 1 .. i - 1
            BY <4>3
          <5>. QED
            BY <4>2, <5>1, <5>2
        <4>5. \A j \in 1 .. i : s[j] = r[j]
          <5>1. \A j \in 1 .. k : s[j] = r[j]
            BY <2>5
          <5>2. \A j \in 1 .. i : j \in 1 .. k
            BY <4>3, <4>4
          <5>. QED
            BY <5>1, <5>2
        <4>6. s[i] < t[i] /\ \A j \in 1 .. i - 1 : s[j] = t[j]
          BY <4>2, <4>3, <4>5
        <4>. QED
          BY <4>3, <4>6 DEF Precedes
      <3>. QED
        BY <3>1, <3>2
    <2>. QED
      BY <2>6
  <1>. HIDE DEF A
  <1>3. n \in A
    BY <1>1, <1>2, SetInduction
  <1>4. PICK s \in S : Best(s, n)
    BY <1>3 DEF A
  <1>5. \A t \in S \ {s} : Precedes(s, t)
    <2>. SUFFICES ASSUME NEW t \in S, Same(s, t, n) PROVE t = s
      BY <1>4
    <2>. QED
      OBVIOUS
  <1>. QED
    BY <1>5 DEF Foremost

LEMMA FiniteExtremes ==
  ASSUME NEW S \in SUBSET Int, IsFiniteSet(S), S # {}
  PROVE  /\ Min(S) \in S /\ Max(S) \in S
         /\ \A s \in S : Min(S) <= s /\ s <= Max(S)
  <1>. DEFINE Bounded(T) == \E lo, hi \in T : \A t \in T : lo <= t /\ t <= hi
              A == {n \in Nat : \A T \in SUBSET Int :
                                  IsFiniteSet(T) /\ Cardinality(T) = n /\ T # {} => Bounded(T)}
  <1>1. 0 \in A
    BY FS_EmptySet
  <1>2. ASSUME NEW n \in Nat, n \in A PROVE n + 1 \in A
    <2>. SUFFICES ASSUME NEW T \in SUBSET Int, IsFiniteSet(T), Cardinality(T) = n + 1
                  PROVE  Bounded(T)
      <3>. HIDE DEF Bounded
      <3>. QED
        OBVIOUS
    <2>1. T # {}
      BY FS_EmptySet
    <2>2. PICK x \in T : TRUE
      BY <2>1
    <2>. DEFINE R == T \ {x}
    <2>3. IsFiniteSet(R) /\ Cardinality(R) = n /\ R \in SUBSET Int
      <3>1. IsFiniteSet(R) /\ Cardinality(R) = Cardinality(T) - 1
        BY <2>2, FS_RemoveElement
      <3>. QED
        BY <3>1
    <2>4. CASE R = {}
      <3>1. \A t \in T : t = x
        BY <2>4
      <3>. QED
        BY <3>1
    <2>5. CASE R # {}
      <3>1. Bounded(R)
        <4>. HIDE DEF R, Bounded
        <4>. QED
          BY <1>2, <2>3, <2>5
      <3>2. PICK lo, hi \in R : \A t \in R : lo <= t /\ t <= hi
        BY <3>1
      <3>. DEFINE a == IF x < lo THEN x ELSE lo
                  z == IF hi < x THEN x ELSE hi
      <3>3. a \in T /\ z \in T
        OBVIOUS
      <3>4. ASSUME NEW t \in T PROVE a <= t /\ t <= z
        <4>1. t = x \/ t \in R
          OBVIOUS
        <4>. QED
          BY <3>2, <4>1
      <3>. HIDE DEF a, z
      <3>. QED
        BY <3>3, <3>4
    <2>. QED
      BY <2>4, <2>5
  <1>. HIDE DEF A
  <1>3. Cardinality(S) \in A
    BY <1>1, <1>2, SetInduction, FS_CardinalityType
  <1>4. Bounded(S)
    BY <1>3 DEF A
  <1>5. PICK lo, hi \in S : \A s \in S : lo <= s /\ s <= hi
    BY <1>4
  <1>. QED
    BY <1>5 DEF Min, Max

----------------------------------------------------------------------------
(* A pattern is its members: what it is expanded to are their holes        *)

DrawnHole(n) == ThroughHole(Holes[n].center, Holes[n].radius)
DrawnHoles == [n \in 1 .. Len(circles) |-> DrawnHole(n)]
PatternHoles(p) == [i \in 1 .. p.count |-> ThroughHole(Expanded(p)[i], p.radius)]

(* Holes of the drawing, none of them twice.                               *)
OfDrawing(g) ==
  /\ g \in Seq(HoleRecord)
  /\ \A i \in 1 .. Len(g) : g[i].id \in 1 .. Len(circles) /\ g[i] = Holes[g[i].id]
  /\ \A i, j \in 1 .. Len(g) : g[i].id = g[j].id => i = j

IdsOf(g) == {g[i].id : i \in 1 .. Len(g)}

(* A pattern is its members: expanded, it gives their holes.               *)
SoundPattern(p) ==
  /\ p.members \in SUBSET (1 .. Len(circles))
  /\ p.count \in Nat
  /\ Lists(PatternHoles(p), p.members, DrawnHoles)

LEMMA IdsAre ==
  ASSUME NEW g \in Seq(HoleRecord)
  PROVE  ToSet(Ids(g)) = IdsOf(g)
  BY DEF ToSet, Ids, IdsOf

LEMMA ByCenters ==
  ASSUME NEW g, OfDrawing(g), NEW r, NEW E, NEW n, n = Len(g),
         \A i \in 1 .. n : g[i].radius = r,
         \A i, j \in 1 .. n : E[i] = E[j] => i = j,
         \A i \in 1 .. n : \E j \in 1 .. n : E[i] = g[j].center
  PROVE  Lists([i \in 1 .. n |-> ThroughHole(E[i], r)], IdsOf(g), DrawnHoles)
  <1>0. n \in Nat /\ IsFiniteSet(1 .. n)
    BY FS_Interval DEF OfDrawing
  <1>. DEFINE f == [i \in 1 .. n |-> CHOOSE j \in 1 .. n : E[i] = g[j].center]
              b == [i \in 1 .. n |-> g[f[i]].id]
              s == [i \in 1 .. n |-> ThroughHole(E[i], r)]
  <1>1. \A i \in 1 .. n : f[i] \in 1 .. n /\ E[i] = g[f[i]].center
    OBVIOUS
  <1>2. f \in Injection(1 .. n, 1 .. n)
    <2>1. f \in [1 .. n -> 1 .. n]
      BY <1>1
    <2>. HIDE DEF f
    <2>2. \A i, j \in 1 .. n : f[i] = f[j] => i = j
      <3>. TAKE i, j \in 1 .. n
      <3>. HAVE f[i] = f[j]
      <3>1. E[i] = g[f[i]].center /\ E[j] = g[f[j]].center
        BY <1>1
      <3>2. E[i] = E[j]
        BY <3>1
      <3>. QED
        BY <3>2
    <2>. QED
      BY <2>1, <2>2, Fun_IsInj
  <1>. HIDE DEF f
  <1>3. f \in Surjection(1 .. n, 1 .. n)
    BY <1>0, <1>2, FS_Injection
  <1>4. b \in Bijection(1 .. n, IdsOf(g))
    <2>1. b \in [1 .. n -> IdsOf(g)]
      BY <1>1 DEF IdsOf
    <2>2. ASSUME NEW i \in 1 .. n, NEW j \in 1 .. n, b[i] = b[j] PROVE i = j
      <3>1. f[i] \in 1 .. n /\ f[j] \in 1 .. n /\ g[f[i]].id = g[f[j]].id
        BY <1>1, <2>2
      <3>2. f[i] = f[j]
        BY <3>1 DEF OfDrawing
      <3>3. E[i] = g[f[i]].center /\ E[j] = g[f[j]].center
        BY <1>1
      <3>4. E[i] = E[j]
        BY <3>2, <3>3
      <3>. QED
        BY <3>4
    <2>3. ASSUME NEW z \in IdsOf(g) PROVE \E i \in 1 .. n : b[i] = z
      <3>1. PICK j \in 1 .. n : g[j].id = z
        BY DEF IdsOf
      <3>2. PICK i \in 1 .. n : f[i] = j
        BY <1>3 DEF Surjection
      <3>3. b[i] = z
        BY <3>1, <3>2
      <3>. QED
        BY <3>3
    <2>. HIDE DEF b
    <2>4. \A i, j \in 1 .. n : b[i] = b[j] => i = j
      BY <2>2
    <2>5. \A z \in IdsOf(g) : \E i \in 1 .. n : b[i] = z
      BY <2>3
    <2>. QED
      BY <2>1, <2>4, <2>5, Fun_IsBij
  <1>5. ASSUME NEW i \in 1 .. n PROVE s[i] = DrawnHoles[b[i]]
    <2>1. /\ g[f[i]].id \in 1 .. Len(circles) /\ g[f[i]] = Holes[g[f[i]].id]
          /\ g[f[i]].radius = r /\ E[i] = g[f[i]].center
      BY <1>1 DEF OfDrawing
    <2>2. b[i] = g[f[i]].id /\ s[i] = ThroughHole(E[i], r)
      OBVIOUS
    <2>3. DrawnHoles[b[i]] = ThroughHole(Holes[b[i]].center, Holes[b[i]].radius)
      BY <2>1, <2>2 DEF DrawnHoles, DrawnHole
    <2>4. Holes[b[i]].center = E[i] /\ Holes[b[i]].radius = r
      BY <2>1, <2>2
    <2>. QED
      BY <2>2, <2>3, <2>4
  <1>6. Len(s) = n
    BY <1>0
  <1>. HIDE DEF s, b
  <1>7. Lists(s, IdsOf(g), DrawnHoles)
    BY <1>4, <1>5, <1>6 DEF Lists
  <1>. QED
    BY <1>7 DEF s

(* What turning by a quarter does to the four points it permutes.          *)
LEMMA Orbit ==
  ASSUME NEW s \in [1 .. 2 -> Int],
         NEW A \in SUBSET Point,
         \A p \in A : QuarterTurn4(p, s) \in {<<4 * q[1], 4 * q[2]>> : q \in A},
         NEW p \in A
  PROVE  LET q == QuarterTurn(p, s)
             u == QuarterTurn(q, s)
             w == QuarterTurn(u, s) IN
         /\ q \in A /\ u \in A /\ w \in A
         /\ 4 * p[1] # s[1] \/ 4 * p[2] # s[2] =>
              /\ p # q /\ p # u /\ p # w /\ q # u /\ q # w /\ u # w
              /\ \A e \in {p, q, u, w} : 4 * e[1] # s[1] \/ 4 * e[2] # s[2]
  <1>. DEFINE turn(e) == QuarterTurn(e, s)
  <1>1. ASSUME NEW e \in A
        PROVE  /\ turn(e) \in A
               /\ 4 * turn(e)[1] = s[1] + s[2] - 4 * e[2]
               /\ 4 * turn(e)[2] = s[2] - s[1] + 4 * e[1]
    <2>1. PICK q \in A : QuarterTurn4(e, s) = <<4 * q[1], 4 * q[2]>>
      OBVIOUS
    <2>2. q \in Point /\ q[1] \in Int /\ q[2] \in Int /\ q = <<q[1], q[2]>>
      BY Coordinates
    <2>3. /\ s[1] + s[2] - 4 * e[2] = 4 * q[1] /\ s[2] - s[1] + 4 * e[1] = 4 * q[2]
      BY <2>1 DEF QuarterTurn4
    <2>4. (4 * q[1]) \div 4 = q[1] /\ (4 * q[2]) \div 4 = q[2]
      BY <2>2
    <2>5. turn(e) = [k \in 1 .. 2 |-> <<4 * q[1], 4 * q[2]>>[k] \div 4]
      BY <2>1 DEF QuarterTurn
    <2>6. turn(e) = [k \in 1 .. 2 |-> q[k]]
      BY <2>4, <2>5
    <2>7. q = [k \in 1 .. 2 |-> q[k]]
      BY <2>2
    <2>8. turn(e) = q
      BY <2>6, <2>7
    <2>. QED
      BY <2>3, <2>8
  <1>2. \A e \in A : e \in Point /\ e[1] \in Int /\ e[2] \in Int
    BY Coordinates
  <1>. DEFINE q == turn(p)
              u == turn(q)
              w == turn(u)
  <1>. HIDE DEF turn
  <1>3. q \in A /\ u \in A /\ w \in A
    BY <1>1
  <1>4. /\ 4 * q[1] = s[1] + s[2] - 4 * p[2] /\ 4 * q[2] = s[2] - s[1] + 4 * p[1]
        /\ 4 * u[1] = s[1] + s[2] - 4 * q[2] /\ 4 * u[2] = s[2] - s[1] + 4 * q[1]
        /\ 4 * w[1] = s[1] + s[2] - 4 * u[2] /\ 4 * w[2] = s[2] - s[1] + 4 * u[1]
    BY <1>1, <1>3
  <1>. HIDE DEF q, u, w
  <1>5. ASSUME 4 * p[1] # s[1] \/ 4 * p[2] # s[2]
        PROVE  /\ p # q /\ p # u /\ p # w /\ q # u /\ q # w /\ u # w
               /\ \A e \in {p, q, u, w} : 4 * e[1] # s[1] \/ 4 * e[2] # s[2]
    <2>1. /\ p[1] \in Int /\ p[2] \in Int /\ q[1] \in Int /\ q[2] \in Int
          /\ u[1] \in Int /\ u[2] \in Int /\ w[1] \in Int /\ w[2] \in Int
          /\ s[1] \in Int /\ s[2] \in Int
      BY <1>2, <1>3
    <2>. DEFINE a == 4 * p[1]
                b == 4 * p[2]
                c == s[1]
                d == s[2]
    <2>2. /\ 4 * q[1] = c + d - b /\ 4 * q[2] = d - c + a
          /\ 4 * u[1] = 2 * c - a /\ 4 * u[2] = 2 * d - b
          /\ 4 * w[1] = c - d + b /\ 4 * w[2] = c + d - a
      BY <1>4, <2>1
    <2>3. a \in Int /\ b \in Int /\ c \in Int /\ d \in Int /\ (a # c \/ b # d)
      BY <1>5, <2>1
    <2>. HIDE DEF a, b, c, d
    <2>4. /\ (c + d - b # a \/ d - c + a # b)
          /\ (2 * c - a # a \/ 2 * d - b # b)
          /\ (c - d + b # a \/ c + d - a # b)
          /\ (c + d - b # 2 * c - a \/ d - c + a # 2 * d - b)
          /\ (c + d - b # c - d + b \/ d - c + a # c + d - a)
          /\ (2 * c - a # c - d + b \/ 2 * d - b # c + d - a)
      BY <2>3
    <2>5. /\ (c + d - b # c \/ d - c + a # d)
          /\ (2 * c - a # c \/ 2 * d - b # d)
          /\ (c - d + b # c \/ c + d - a # d)
      BY <2>3
    <2>6. p # q /\ p # u /\ p # w
      BY <2>2, <2>4 DEF a, b
    <2>7. q # u /\ q # w /\ u # w
      BY <2>2, <2>4
    <2>8. \A e \in {p, q, u, w} : 4 * e[1] # s[1] \/ 4 * e[2] # s[2]
      BY <2>2, <2>3, <2>5 DEF a, b, c, d
    <2>. QED
      BY <2>6, <2>7, <2>8
  <1>. QED
    BY <1>3, <1>5 DEF q, u, w, turn

LEMMA CentersAre ==
  ASSUME NEW g \in Seq(HoleRecord), NEW i \in 1 .. Len(g)
  PROVE  /\ g[i].center \in Point /\ g[i].radius \in Int
         /\ g[i].center[1] \in Int /\ g[i].center[2] \in Int
         /\ g[i].center = <<g[i].center[1], g[i].center[2]>>
  <1>1. g[i] \in HoleRecord
    OBVIOUS
  <1>2. g[i].center \in Point /\ g[i].radius \in Int
    BY <1>1 DEF HoleRecord
  <1>. QED
    BY <1>2, Coordinates

LEMMA Values ==
  ASSUME NEW n \in Nat, NEW f, DOMAIN f = 1 .. n
  PROVE  LET V == {f[i] : i \in 1 .. n} IN
         /\ IsFiniteSet(V) /\ Cardinality(V) \in Nat /\ Cardinality(V) <= n
         /\ Cardinality(V) = n => \A i, j \in 1 .. n : f[i] = f[j] => i = j
  <1>. DEFINE V == {f[i] : i \in 1 .. n}
              g == [i \in 1 .. n |-> f[i]]
  <1>1. g \in Surjection(1 .. n, V)
    BY DEF Surjection
  <1>2. IsFiniteSet(1 .. n) /\ Cardinality(1 .. n) = n
    <2>1. IsFiniteSet(1 .. n) /\ Cardinality(1 .. n) = IF 1 > n THEN 0 ELSE n - 1 + 1
      BY FS_Interval
    <2>. QED
      BY <2>1
  <1>. HIDE DEF V, g
  <1>3. /\ IsFiniteSet(V) /\ Cardinality(V) <= Cardinality(1 .. n)
        /\ Cardinality(V) = Cardinality(1 .. n) => g \in Injection(1 .. n, V)
    BY <1>1, <1>2, FS_Surjection
  <1>4. Cardinality(V) \in Nat
    BY <1>3, FS_CardinalityType
  <1>5. g \in Injection(1 .. n, V) => \A i, j \in 1 .. n : g[i] = g[j] => i = j
    BY DEF Injection, IsInjective
  <1>6. \A i \in 1 .. n : g[i] = f[i]
    BY DEF g
  <1>. QED
    BY <1>2, <1>3, <1>4, <1>5, <1>6 DEF V

(* The four corners of a square are where a pattern of them says.          *)
LEMMA CircularSound ==
  ASSUME NEW g, OfDrawing(g), EvenlyOnCircle(g),
         \A i \in 1 .. Len(g) : g[i].radius = g[1].radius
  PROVE  SoundPattern(Circular(g)) /\ Circular(g).members = IdsOf(g)
  <1>. DEFINE c == [i \in 1 .. 4 |-> g[i].center]
              A == {c[i] : i \in 1 .. 4}
              s == CornerSum(g)
              q == QuarterTurn(c[1], s)
              u == QuarterTurn(q, s)
              w == QuarterTurn(u, s)
              E == <<c[1], q, u, w>>
              p == Circular(g)
  <1>1. g \in Seq(HoleRecord) /\ Len(g) = 4 /\ DOMAIN g = 1 .. 4
    BY DEF OfDrawing, EvenlyOnCircle
  <1>2. \A i \in 1 .. 4 : c[i] = g[i].center /\ c[i] \in Point
    BY <1>1, CentersAre
  <1>3. /\ A = {g[i].center : i \in DOMAIN g}
        /\ A \in SUBSET Point
    BY <1>1, <1>2
  <1>4. /\ Cardinality(A) = 4
        /\ \A e \in A : QuarterTurn4(e, s) \in {<<4 * z[1], 4 * z[2]>> : z \in A}
    BY <1>3 DEF EvenlyOnCircle
  <1>5. s \in [1 .. 2 -> Int]
    <2>. DEFINE sum(k) == g[1].center[k] + g[2].center[k] + g[3].center[k] + g[4].center[k]
    <2>1. /\ g[1].center[1] \in Int /\ g[1].center[2] \in Int
          /\ g[2].center[1] \in Int /\ g[2].center[2] \in Int
          /\ g[3].center[1] \in Int /\ g[3].center[2] \in Int
          /\ g[4].center[1] \in Int /\ g[4].center[2] \in Int
      <3>1. /\ 1 \in 1 .. Len(g) /\ 2 \in 1 .. Len(g)
            /\ 3 \in 1 .. Len(g) /\ 4 \in 1 .. Len(g)
        BY <1>1
      <3>. QED
        BY <1>1, <3>1, CentersAre
    <2>2. \A k \in 1 .. 2 : k = 1 \/ k = 2
      OBVIOUS
    <2>3. sum(1) \in Int /\ sum(2) \in Int
      <3>1. \A a, b, e, z \in Int : a + b + e + z \in Int
        OBVIOUS
      <3>. QED
        BY <2>1, <3>1
    <2>4. s = [k \in 1 .. 2 |-> sum(k)]
      BY DEF CornerSum
    <2>. HIDE DEF sum, s
    <2>. QED
      BY <2>2, <2>3, <2>4
  <1>6. \A i, j \in 1 .. 4 : c[i] = c[j] => i = j
    <2>1. DOMAIN c = 1 .. 4
      OBVIOUS
    <2>. HIDE DEF c
    <2>. QED
      BY <1>4, <2>1, Values
  <1>7. c[1] \in A /\ c[2] \in A /\ A = {c[1], c[2], c[3], c[4]}
    <2>1. 1 .. 4 = {1, 2, 3, 4}
      OBVIOUS
    <2>. HIDE DEF c
    <2>. QED
      BY <2>1
  <1>. HIDE DEF c, s, A
  <1>8. ASSUME NEW e \in A, 4 * e[1] # s[1] \/ 4 * e[2] # s[2]
        PROVE  \A z \in A : 4 * z[1] # s[1] \/ 4 * z[2] # s[2]
    <2>. DEFINE q1 == QuarterTurn(e, s)
                u1 == QuarterTurn(q1, s)
                w1 == QuarterTurn(u1, s)
    <2>1. /\ q1 \in A /\ u1 \in A /\ w1 \in A
          /\ e # q1 /\ e # u1 /\ e # w1 /\ q1 # u1 /\ q1 # w1 /\ u1 # w1
          /\ \A z \in {e, q1, u1, w1} : 4 * z[1] # s[1] \/ 4 * z[2] # s[2]
      BY <1>3, <1>4, <1>5, <1>8, Orbit
    <2>. HIDE DEF q1, u1, w1
    <2>2. A = {e, q1, u1, w1}
      BY <1>7, <2>1
    <2>. QED
      BY <2>1, <2>2
  <1>9. 4 * c[1][1] # s[1] \/ 4 * c[1][2] # s[2]
    <2>. SUFFICES ASSUME 4 * c[1][1] = s[1], 4 * c[1][2] = s[2] PROVE FALSE
      OBVIOUS
    <2>1. c[2] # c[1] /\ c[1] \in Point /\ c[2] \in Point
      BY <1>2, <1>6
    <2>2. /\ c[1][1] \in Int /\ c[1][2] \in Int /\ c[2][1] \in Int /\ c[2][2] \in Int
          /\ c[1][1] # c[2][1] \/ c[1][2] # c[2][2]
      BY <2>1, Coordinates
    <2>3. 4 * c[2][1] # s[1] \/ 4 * c[2][2] # s[2]
      BY <2>2
    <2>. QED
      BY <1>7, <1>8, <2>3
  <1>10. /\ q \in A /\ u \in A /\ w \in A
         /\ c[1] # q /\ c[1] # u /\ c[1] # w /\ q # u /\ q # w /\ u # w
    BY <1>3, <1>4, <1>5, <1>7, <1>9, Orbit
  <1>11. /\ p.kind = "circular" /\ p.members = IdsOf(g) /\ p.radius = g[1].radius
         /\ p.count = 4 /\ p.seed = c[1] /\ p.sum = s
    BY <1>1, <1>2, IdsAre DEF Circular, s
  <1>. HIDE DEF p
  <1>12. Expanded(p) = E
    BY <1>11 DEF Expanded
  <1>. HIDE DEF q, u, w
  <1>13. \A i, j \in 1 .. 4 : E[i] = E[j] => i = j
    <2>1. \A i \in 1 .. 4 : i = 1 \/ i = 2 \/ i = 3 \/ i = 4
      OBVIOUS
    <2>2. E[1] = c[1] /\ E[2] = q /\ E[3] = u /\ E[4] = w
      OBVIOUS
    <2>. HIDE DEF E
    <2>. QED
      BY <1>10, <2>1, <2>2
  <1>14. \A i \in 1 .. 4 : \E j \in 1 .. 4 : E[i] = g[j].center
    <2>1. \A i \in 1 .. 4 : E[i] \in A
      <3>1. \A i \in 1 .. 4 : i = 1 \/ i = 2 \/ i = 3 \/ i = 4
        OBVIOUS
      <3>2. E[1] = c[1] /\ E[2] = q /\ E[3] = u /\ E[4] = w
        OBVIOUS
      <3>. HIDE DEF E
      <3>. QED
        BY <1>7, <1>10, <3>1, <3>2
    <2>2. \A e \in A : \E j \in 1 .. 4 : e = g[j].center
      BY <1>1, <1>3
    <2>. HIDE DEF E
    <2>. QED
      BY <2>1, <2>2
  <1>15. Lists([i \in 1 .. 4 |-> ThroughHole(E[i], p.radius)], IdsOf(g), DrawnHoles)
    <2>. HIDE DEF E
    <2>1. \A i \in 1 .. Len(g) : g[i].radius = p.radius
      BY <1>11
    <2>2. /\ \A i, j \in 1 .. Len(g) : E[i] = E[j] => i = j
          /\ \A i \in 1 .. Len(g) : \E j \in 1 .. Len(g) : E[i] = g[j].center
      BY <1>1, <1>13, <1>14
    <2>3. Lists([i \in 1 .. Len(g) |-> ThroughHole(E[i], p.radius)], IdsOf(g), DrawnHoles)
      BY <2>1, <2>2, ByCenters
    <2>. QED
      BY <1>1, <2>3
  <1>16. PatternHoles(p) = [i \in 1 .. 4 |-> ThroughHole(E[i], p.radius)]
    BY <1>11, <1>12 DEF PatternHoles
  <1>17. IdsOf(g) \in SUBSET (1 .. Len(circles))
    BY DEF IdsOf, OfDrawing
  <1>. HIDE DEF E
  <1>. QED
    BY <1>11, <1>15, <1>16, <1>17 DEF SoundPattern, p

(* Whether steps of one size are as far apart as they are many.            *)
LEMMA Steps ==
  ASSUME NEW d \in Int, NEW n \in Int
  PROVE  /\ \A i, j \in Int : i * d \in Int /\ (d # 0 /\ i * d = j * d => i = j)
         /\ d > 0 => \A i, j \in Int : i <= j => i * d <= j * d
         /\ n > 0 => (n * d) \div n = d
         /\ 0 * d = 0 /\ 1 * d = d
  <1>1. \A i, j \in Int : i * d \in Int
    OBVIOUS
  <1>2. ASSUME NEW i \in Int, NEW j \in Int, d # 0, i * d = j * d PROVE i = j
    <2>1. (i - j) * d = 0
      BY <1>2
    <2>. QED
      BY <1>2, <2>1
  <1>3. ASSUME NEW i \in Int, NEW j \in Int, i <= j, d > 0 PROVE i * d <= j * d
    <2>1. (j - i) * d >= 0
      BY <1>3
    <2>2. (j - i) * d = j * d - i * d
      OBVIOUS
    <2>. QED
      BY <2>1, <2>2
  <1>4. ASSUME n > 0 PROVE (n * d) \div n = d
    BY <1>4
  <1>5. 0 * d = 0 /\ 1 * d = d
    OBVIOUS
  <1>. QED
    BY <1>1, <1>2, <1>3, <1>4, <1>5

(* So are the circles of a line, from the first of them on.                *)
LEMMA LinearSound ==
  ASSUME NEW g, OfDrawing(g), NEW k \in 1 .. 2, Len(g) >= 2,
         \A i \in 1 .. Len(g) : g[i].radius = g[1].radius,
         NEW d \in Int, d # 0,
         (Max(Positions(g, k)) - Min(Positions(g, k))) \div (Len(g) - 1) = d,
         \A i \in 0 .. Len(g) - 1 : \E j \in 1 .. Len(g) :
           /\ g[j].center[k] = g[1].center[k] + i * d
           /\ g[j].center[3 - k] = g[1].center[3 - k]
  PROVE  SoundPattern(Linear(g, k)) /\ Linear(g, k).members = IdsOf(g)
  <1>. DEFINE n == Len(g)
              p == Linear(g, k)
              c == g[1].center
              at(i) == [m \in 1 .. 2 |-> c[m] + (IF m = k THEN (i - 1) * d ELSE 0)]
              E == [i \in 1 .. n |-> at(i)]
  <1>1. g \in Seq(HoleRecord) /\ n \in Nat /\ 1 \in 1 .. n
    BY DEF OfDrawing
  <1>2. \A i \in 1 .. n : /\ g[i].center \in Point
                          /\ g[i].center[1] \in Int /\ g[i].center[2] \in Int
                          /\ g[i].center = <<g[i].center[1], g[i].center[2]>>
    BY <1>1, CentersAre
  <1>3. /\ p.kind = "linear" /\ p.members = IdsOf(g) /\ p.radius = g[1].radius
        /\ p.count = n /\ p.seed = c /\ p.direction = k /\ p.spacing = d
    BY <1>1, IdsAre DEF Linear
  <1>. HIDE DEF p
  <1>4. Expanded(p) = E
    BY <1>3 DEF Expanded
  <1>5. k = 1 \/ k = 2
    OBVIOUS
  <1>6. ASSUME NEW i \in 1 .. n
        PROVE  /\ E[i][k] = c[k] + (i - 1) * d /\ E[i][3 - k] = c[3 - k]
               /\ E[i] = <<E[i][1], E[i][2]>>
    <2>1. E[i] = at(i)
      OBVIOUS
    <2>2. c[1] \in Int /\ c[2] \in Int
      BY <1>1, <1>2
    <2>3. CASE k = 1
      BY <2>1, <2>2, <2>3
    <2>4. CASE k = 2
      BY <2>1, <2>2, <2>4
    <2>. QED
      BY <1>5, <2>3, <2>4
  <1>. HIDE DEF E
  <1>7. ASSUME NEW i \in 1 .. n, NEW j \in 1 .. n, E[i] = E[j] PROVE i = j
    <2>1. c[k] + (i - 1) * d = c[k] + (j - 1) * d
      BY <1>6, <1>7
    <2>2. c[k] \in Int /\ (i - 1) * d \in Int /\ (j - 1) * d \in Int
      <3>1. c[1] \in Int /\ c[2] \in Int
        BY <1>1, <1>2
      <3>2. c[k] \in Int
        BY <1>5, <3>1
      <3>3. i - 1 \in Int /\ j - 1 \in Int
        OBVIOUS
      <3>4. (i - 1) * d \in Int /\ (j - 1) * d \in Int
        BY <3>3, Steps
      <3>. QED
        BY <3>2, <3>4
    <2>. DEFINE a == (i - 1) * d
                b == (j - 1) * d
                base == c[k]
    <2>3. a = b
      <3>1. base \in Int /\ a \in Int /\ b \in Int /\ base + a = base + b
        BY <2>1, <2>2
      <3>. HIDE DEF a, b, base
      <3>. QED
        BY <3>1
    <2>4. i - 1 = j - 1
      <3>1. i - 1 \in Int /\ j - 1 \in Int
        OBVIOUS
      <3>. QED
        BY <2>3, <3>1, Steps
    <2>. QED
      BY <2>4
  <1>8. ASSUME NEW i \in 1 .. n PROVE \E j \in 1 .. n : E[i] = g[j].center
    <2>1. i - 1 \in 0 .. n - 1
      BY <1>1
    <2>2. PICK j \in 1 .. n : /\ g[j].center[k] = c[k] + (i - 1) * d
                              /\ g[j].center[3 - k] = c[3 - k]
      BY <2>1
    <2>3. g[j].center[1] = E[i][1] /\ g[j].center[2] = E[i][2]
      <3>1. g[j].center[k] = E[i][k] /\ g[j].center[3 - k] = E[i][3 - k]
        BY <1>6, <2>2
      <3>2. 3 - 1 = 2 /\ 3 - 2 = 1
        OBVIOUS
      <3>. QED
        BY <1>5, <3>1, <3>2
    <2>4. g[j].center = E[i]
      BY <1>2, <1>6, <2>3
    <2>. QED
      BY <2>4
  <1>9. Lists([i \in 1 .. n |-> ThroughHole(E[i], p.radius)], IdsOf(g), DrawnHoles)
    <2>1. \A i, j \in 1 .. n : E[i] = E[j] => i = j
      BY <1>7
    <2>2. \A i \in 1 .. n : \E j \in 1 .. n : E[i] = g[j].center
      BY <1>8
    <2>3. \A i \in 1 .. n : g[i].radius = p.radius
      BY <1>3
    <2>. QED
      BY <2>1, <2>2, <2>3, ByCenters
  <1>10. PatternHoles(p) = [i \in 1 .. n |-> ThroughHole(E[i], p.radius)]
    BY <1>3, <1>4 DEF PatternHoles
  <1>11. IdsOf(g) \in SUBSET (1 .. Len(circles))
    BY DEF IdsOf, OfDrawing
  <1>. HIDE DEF n, c
  <1>12. p.count \in Nat
    BY <1>1, <1>3
  <1>. QED
    BY <1>3, <1>9, <1>10, <1>11, <1>12 DEF SoundPattern, p

----------------------------------------------------------------------------
(* What is found in a group of circles that are alike is such a pattern    *)

(* Holes of the drawing in their order.                                    *)
InOrder(g) ==
  /\ g \in Seq(HoleRecord)
  /\ \A i \in 1 .. Len(g) : g[i].id \in 1 .. Len(circles) /\ g[i] = Holes[g[i].id]
  /\ \A i, j \in 1 .. Len(g) : i < j => g[i].id < g[j].id

Alike(g) == \A i \in 1 .. Len(g) : g[i].radius = g[1].radius

LEMMA OrderedAreDrawn ==
  ASSUME NEW g, InOrder(g)
  PROVE  OfDrawing(g)
  <1>1. ASSUME NEW i \in 1 .. Len(g), NEW j \in 1 .. Len(g), g[i].id = g[j].id PROVE i = j
    <2>1. ~(i < j) /\ ~(j < i)
      BY <1>1 DEF InOrder
    <2>2. Len(g) \in Nat
      BY DEF InOrder
    <2>. QED
      BY <2>1, <2>2
  <1>. QED
    BY <1>1 DEF InOrder, OfDrawing

LEMMA KeepsOrder ==
  ASSUME NEW g, InOrder(g), NEW S
  PROVE  /\ InOrder(Keep(g, S))
         /\ IdsOf(Keep(g, S)) = {e \in IdsOf(g) : Holes[e] \in S}
         /\ \A i \in 1 .. Len(Keep(g, S)) : Keep(g, S)[i] \in S
         /\ \A i \in 1 .. Len(Keep(g, S)) : \E m \in 1 .. Len(g) : Keep(g, S)[i] = g[m]
         /\ \A m \in 1 .. Len(g) :
              g[m] \in S => \E i \in 1 .. Len(Keep(g, S)) : Keep(g, S)[i] = g[m]
  <1>. DEFINE t == Keep(g, S)
  <1>1. g \in Seq(HoleRecord)
    BY DEF InOrder
  <1>2. t \in Seq(HoleRecord)
    BY <1>1, Keeping
  <1>3. PICK f : /\ Picks(f, g, t)
                 /\ \A i \in 1 .. Len(t) : t[i] \in S
                 /\ \A m \in 1 .. Len(g) : g[m] \in S => \E i \in 1 .. Len(t) : f[i] = m
    BY <1>1, Keeping
  <1>. HIDE DEF t
  <1>4. /\ \A i \in 1 .. Len(t) : f[i] \in 1 .. Len(g) /\ t[i] = g[f[i]]
        /\ \A i, j \in 1 .. Len(t) : i < j => f[i] < f[j]
    BY <1>3 DEF Picks
  <1>5. InOrder(t)
    <2>1. \A i \in 1 .. Len(t) : t[i].id \in 1 .. Len(circles) /\ t[i] = Holes[t[i].id]
      BY <1>4 DEF InOrder
    <2>2. \A i, j \in 1 .. Len(t) : i < j => t[i].id < t[j].id
      BY <1>4 DEF InOrder
    <2>. QED
      BY <1>2, <2>1, <2>2 DEF InOrder
  <1>6. \A m \in 1 .. Len(g) : g[m] \in S => \E i \in 1 .. Len(t) : t[i] = g[m]
    BY <1>3, <1>4
  <1>7. IdsOf(t) = {e \in IdsOf(g) : Holes[e] \in S}
    <2>1. ASSUME NEW i \in 1 .. Len(t) PROVE t[i].id \in IdsOf(g) /\ Holes[t[i].id] \in S
      <3>1. t[i] = Holes[t[i].id] /\ t[i] \in S
        BY <1>3, <1>5 DEF InOrder
      <3>2. t[i].id \in IdsOf(g)
        BY <1>4 DEF IdsOf
      <3>. QED
        BY <3>1, <3>2
    <2>2. ASSUME NEW m \in 1 .. Len(g), Holes[g[m].id] \in S PROVE g[m].id \in IdsOf(t)
      <3>1. g[m] \in S
        BY <2>2 DEF InOrder
      <3>2. PICK i \in 1 .. Len(t) : t[i] = g[m]
        BY <1>6, <3>1
      <3>3. g[m].id = t[i].id
        BY <3>2
      <3>. QED
        BY <3>3 DEF IdsOf
    <2>. QED
      BY <2>1, <2>2 DEF IdsOf
  <1>. QED
    BY <1>3, <1>4, <1>5, <1>6, <1>7 DEF t

LEMMA PositionsAre ==
  ASSUME NEW g \in Seq(HoleRecord), Len(g) > 0, NEW k \in 1 .. 2
  PROVE  /\ Positions(g, k) \in SUBSET Int /\ Positions(g, k) # {}
         /\ IsFiniteSet(Positions(g, k))
         /\ Cardinality(Positions(g, k)) \in Nat
         /\ Min(Positions(g, k)) \in Positions(g, k)
         /\ Max(Positions(g, k)) \in Positions(g, k)
         /\ \A v \in Positions(g, k) : Min(Positions(g, k)) <= v /\ v <= Max(Positions(g, k))
         /\ \A i \in 1 .. Len(g) : g[i].center[k] \in Positions(g, k)
         /\ \A v \in Positions(g, k) : \E i \in 1 .. Len(g) : g[i].center[k] = v
  <1>. DEFINE n == Len(g)
              f == [i \in 1 .. n |-> g[i].center[k]]
              V == Positions(g, k)
  <1>1. n \in Nat /\ 1 \in 1 .. n
    OBVIOUS
  <1>2. V = {f[i] : i \in 1 .. n} /\ V = {g[i].center[k] : i \in 1 .. n}
    BY DEF Positions
  <1>3. IsFiniteSet(V) /\ Cardinality(V) \in Nat
    <2>1. DOMAIN f = 1 .. n
      OBVIOUS
    <2>. HIDE DEF f, V
    <2>. QED
      BY <1>1, <1>2, <2>1, Values
  <1>4. \A i \in 1 .. n : g[i].center[k] \in Int
    <2>1. k = 1 \/ k = 2
      OBVIOUS
    <2>. QED
      BY <2>1, CentersAre
  <1>5. V \in SUBSET Int /\ V # {}
    BY <1>1, <1>2, <1>4
  <1>. HIDE DEF V
  <1>6. /\ Min(V) \in V /\ Max(V) \in V
        /\ \A v \in V : Min(V) <= v /\ v <= Max(V)
    BY <1>3, <1>5, FiniteExtremes
  <1>. QED
    BY <1>2, <1>3, <1>5, <1>6 DEF V

LEMMA LineFound ==
  ASSUME circles \in Seq(Drawn), NEW g, InOrder(g), Len(g) >= 3, Alike(g),
         NEW k \in 1 .. 2, EvenlyOnLine(g, k)
  PROVE  SoundPattern(Linear(g, k)) /\ Linear(g, k).members = IdsOf(g)
  <1>. DEFINE n == Len(g)
              V == Positions(g, k)
              W == Positions(g, 3 - k)
              d == (Max(V) - Min(V)) \div (n - 1)
              a == g[1].center[k]
  <1>0. g \in Seq(HoleRecord) /\ n \in Nat /\ n > 0 /\ n - 1 > 0 /\ 1 \in 1 .. n /\ 3 - k \in 1 .. 2
    BY DEF InOrder
  <1>1. /\ Cardinality(W) = 1
        /\ Cardinality(V) = n
        /\ V = {Min(V) + i * d : i \in 0 .. n - 1}
    BY DEF EvenlyOnLine
  <1>2. /\ V \in SUBSET Int /\ IsFiniteSet(V)
        /\ Min(V) \in V /\ Max(V) \in V /\ Min(V) \in Int /\ Max(V) \in Int
        /\ \A v \in V : Min(V) <= v
        /\ \A i \in 1 .. n : g[i].center[k] \in V
        /\ \A v \in V : \E i \in 1 .. n : g[i].center[k] = v
    BY <1>0, PositionsAre
  <1>3. /\ IsFiniteSet(W)
        /\ \A i \in 1 .. n : g[i].center[3 - k] \in W
    BY <1>0, PositionsAre
  <1>. HIDE DEF V, W
  <1>4. \A i \in 1 .. n : g[i].center[3 - k] = g[1].center[3 - k]
    <2>1. PICK x : W = {x}
      BY <1>1, <1>3, FS_Singleton
    <2>. QED
      BY <1>0, <1>3, <2>1
  <1>5. ASSUME NEW i \in 1 .. n PROVE a <= g[i].center[k]
    <2>1. CASE i = 1
      <3>1. a \in V /\ a \in Int
        BY <1>0, <1>2
      <3>. HIDE DEF a
      <3>2. a <= a
        BY <3>1
      <3>. QED
        BY <2>1, <3>2 DEF a
    <2>2. CASE i # 1
      <3>1. g[1].id < g[i].id /\ g[1].id \in 1 .. Len(circles) /\ g[i].id \in 1 .. Len(circles)
        BY <1>0, <2>2 DEF InOrder
      <3>2. ~Before(Holes[g[i].id], Holes[g[1].id])
        BY <3>1, HolesAreCircles
      <3>3. ~Before(g[i], g[1])
        BY <1>0, <3>2 DEF InOrder
      <3>4. /\ ~(g[i].center[1] < g[1].center[1])
            /\ g[i].center[1] = g[1].center[1] => ~(g[i].center[2] < g[1].center[2])
        BY <3>3 DEF Before
      <3>5. ~(g[i].center[k] < g[1].center[k])
        <4>1. CASE k = 1
          BY <3>4, <4>1
        <4>2. CASE k = 2
          <5>1. 3 - 2 = 1
            OBVIOUS
          <5>. QED
            BY <1>4, <3>4, <4>2, <5>1
        <4>. QED
          BY <4>1, <4>2
      <3>6. g[i].center[k] \in Int /\ g[1].center[k] \in Int
        BY <1>0, <1>2
      <3>. QED
        BY <3>5, <3>6
    <2>. QED
      BY <2>1, <2>2
  <1>6. Min(V) = a /\ a \in Int
    <2>1. PICK i \in 1 .. n : g[i].center[k] = Min(V)
      BY <1>2
    <2>2. a <= Min(V) /\ Min(V) <= a /\ a \in Int
      BY <1>0, <1>2, <1>5, <2>1
    <2>. QED
      BY <1>2, <2>2
  <1>7. d \in Int
    BY <1>0, <1>2
  <1>. HIDE DEF d, a
  <1>8. d # 0
    <2>. SUFFICES ASSUME d = 0 PROVE FALSE
      OBVIOUS
    <2>1. \A i \in 0 .. n - 1 : a + i * d = a
      BY <1>6
    <2>2. V \in SUBSET {a}
      BY <1>1, <1>6, <2>1
    <2>3. IsFiniteSet({a}) /\ Cardinality({a}) = 1
      BY FS_Singleton
    <2>4. Cardinality(V) <= 1
      BY <2>2, <2>3, FS_Subset
    <2>. QED
      BY <1>0, <1>1, <2>4
  <1>9. ASSUME NEW i \in 0 .. n - 1
        PROVE  \E j \in 1 .. n : /\ g[j].center[k] = a + i * d
                                 /\ g[j].center[3 - k] = g[1].center[3 - k]
    <2>1. a + i * d \in V
      BY <1>1, <1>6
    <2>. QED
      BY <1>2, <1>4, <2>1
  <1>10. OfDrawing(g)
    BY OrderedAreDrawn
  <1>11. (Max(V) - Min(V)) \div (n - 1) = d
    BY DEF d
  <1>12. /\ \A i \in 1 .. Len(g) : g[i].radius = g[1].radius
         /\ Len(g) >= 2
    BY <1>0 DEF Alike
  <1>13. (Max(Positions(g, k)) - Min(Positions(g, k))) \div (Len(g) - 1) = d
    BY <1>11 DEF V
  <1>14. \A i \in 0 .. Len(g) - 1 : \E j \in 1 .. Len(g) :
           /\ g[j].center[k] = g[1].center[k] + i * d
           /\ g[j].center[3 - k] = g[1].center[3 - k]
    BY <1>9 DEF a
  <1>. QED
    BY <1>7, <1>8, <1>10, <1>12, <1>13, <1>14, LinearSound

LEMMA SquareFound ==
  ASSUME NEW g, InOrder(g), Alike(g), Squares(g) # {}
  PROVE  /\ SoundPattern(Circular(FirstSquare(g)))
         /\ Circular(FirstSquare(g)).members \in SUBSET IdsOf(g)
  <1>1. ASSUME NEW s \in Squares(g)
        PROVE  /\ EvenlyOnCircle(s) /\ InOrder(s) /\ Alike(s) /\ Len(s) = 4
               /\ IdsOf(s) \in SUBSET IdsOf(g)
               /\ Ids(s) \in [1 .. 4 -> Int] /\ \A i \in 1 .. 4 : 0 <= Ids(s)[i]
    <2>1. EvenlyOnCircle(s) /\ \E S : s = Keep(g, S)
      BY DEF Squares
    <2>2. PICK S : s = Keep(g, S)
      BY <2>1
    <2>3. /\ InOrder(s) /\ IdsOf(s) \in SUBSET IdsOf(g)
          /\ \A i \in 1 .. Len(s) : \E m \in 1 .. Len(g) : s[i] = g[m]
      BY <2>2, KeepsOrder
    <2>4. Len(s) = 4 /\ DOMAIN s = 1 .. 4 /\ 1 \in 1 .. 4
      BY <2>1, <2>3 DEF EvenlyOnCircle, InOrder
    <2>5. Alike(s)
      <3>1. \A i \in 1 .. Len(s) : s[i].radius = g[1].radius
        BY <2>3 DEF Alike
      <3>. QED
        BY <2>4, <3>1 DEF Alike
    <2>6. \A i \in 1 .. 4 : s[i].id \in Nat
      <3>1. s \in Seq(HoleRecord)
        BY <2>3 DEF InOrder
      <3>2. \A i \in 1 .. Len(s) : s[i] \in HoleRecord
        BY <3>1
      <3>3. \A i \in 1 .. 4 : s[i] \in HoleRecord
        BY <2>4, <3>2
      <3>. QED
        BY <3>3 DEF HoleRecord
    <2>7. Ids(s) = [i \in 1 .. 4 |-> s[i].id]
      BY <2>4 DEF Ids
    <2>8. Ids(s) \in [1 .. 4 -> Int] /\ \A i \in 1 .. 4 : 0 <= Ids(s)[i]
      BY <2>6, <2>7
    <2>. QED
      BY <2>1, <2>3, <2>4, <2>5, <2>8
  <1>. DEFINE I == {Ids(t) : t \in Squares(g)}
  <1>2. I \in SUBSET [1 .. 4 -> Int] /\ I # {}
    BY <1>1
  <1>2b. \A s \in I : \A i \in 1 .. 4 : 0 <= s[i]
    BY <1>1
  <1>. HIDE DEF I
  <1>3. Foremost(I) \in I
    <2>1. 4 \in Nat /\ 0 \in Int
      OBVIOUS
    <2>. QED
      BY <1>2, <1>2b, <2>1, ForemostOf
  <1>4. \E s \in Squares(g) : Ids(s) = Foremost(I)
    BY <1>3 DEF I
  <1>5. FirstSquare(g) \in Squares(g)
    BY <1>4 DEF FirstSquare, I
  <1>. DEFINE s == FirstSquare(g)
  <1>6. s \in Squares(g)
    BY <1>5
  <1>. HIDE DEF s
  <1>7. /\ EvenlyOnCircle(s) /\ OfDrawing(s) /\ IdsOf(s) \in SUBSET IdsOf(g)
        /\ \A i \in 1 .. Len(s) : s[i].radius = s[1].radius
    BY <1>1, <1>6, OrderedAreDrawn DEF Alike
  <1>8. SoundPattern(Circular(s)) /\ Circular(s).members = IdsOf(s)
    BY <1>7, CircularSound
  <1>. QED
    BY <1>7, <1>8 DEF s

(* A run of circles is where its description says.                         *)
LEMMA RunIs ==
  ASSUME NEW g, InOrder(g), Len(g) > 0, NEW r \in Runs(g)
  PROVE  \E k \in 1 .. 2, L \in Nat, d \in Int :
           \E f \in Positions(g, 3 - k), v \in Positions(g, k) :
             /\ r = <<-L, k, f, v, d>>
             /\ 3 <= L /\ L <= Cardinality(Positions(g, k)) /\ 0 < d
             /\ \A i \in 0 .. L - 1 : \E j \in 1 .. Len(g) :
                  g[j].center[k] = v + i * d /\ g[j].center[3 - k] = f
  <1>. DEFINE kept(k, f) == Keep(g, {h \in ToSet(g) : h.center[3 - k] = f})
              row(k, f) == Positions(kept(k, f), k)
              pairs(k, f) == {e \in row(k, f) \X row(k, f) : e[1] < e[2]}
              from(k, f) == {<<-RunLength(row(k, f), e[1], e[2] - e[1]), k, f, e[1], e[2] - e[1]>> :
                               e \in pairs(k, f)}
  <1>0. g \in Seq(HoleRecord)
    BY DEF InOrder
  <1>1. /\ r[1] <= -3
        /\ \E k \in 1 .. 2 : \E f \in Positions(g, 3 - k) : r \in from(k, f)
    <2>1. Runs(g) = {x \in UNION {UNION {from(k, f) : f \in Positions(g, 3 - k)} : k \in 1 .. 2} :
                       x[1] <= -3}
      BY DEF Runs
    <2>. HIDE DEF from
    <2>. QED
      BY <2>1
  <1>2. PICK k \in 1 .. 2 : \E f \in Positions(g, 3 - k) : r \in from(k, f)
    <2>. HIDE DEF from
    <2>. QED
      BY <1>1
  <1>3. PICK f \in Positions(g, 3 - k) : r \in from(k, f)
    <2>. HIDE DEF from
    <2>. QED
      BY <1>2
  <1>. DEFINE t == kept(k, f)
              V == row(k, f)
  <1>. HIDE DEF kept, row
  <1>4. PICK e \in V \X V :
          /\ e[1] < e[2]
          /\ r = <<-RunLength(V, e[1], e[2] - e[1]), k, f, e[1], e[2] - e[1]>>
    BY <1>3
  <1>. HIDE DEF from, pairs, V, t
  <1>. DEFINE v == e[1]
              d == e[2] - e[1]
              M == {n \in 1 .. Cardinality(V) : \A i \in 0 .. n - 1 : v + i * d \in V}
              L == Max(M)
  <1>5. /\ InOrder(t)
        /\ \A i \in 1 .. Len(t) : \E m \in 1 .. Len(g) :
             t[i] = g[m] /\ g[m].center[3 - k] = f
    <2>1. /\ InOrder(t)
          /\ \A i \in 1 .. Len(t) : t[i] \in {h \in ToSet(g) : h.center[3 - k] = f}
          /\ \A i \in 1 .. Len(t) : \E m \in 1 .. Len(g) : t[i] = g[m]
      BY KeepsOrder DEF t, kept
    <2>2. ASSUME NEW i \in 1 .. Len(t)
          PROVE  \E m \in 1 .. Len(g) : t[i] = g[m] /\ g[m].center[3 - k] = f
      <3>1. t[i].center[3 - k] = f
        BY <2>1
      <3>. QED
        BY <2>1, <3>1
    <2>. QED
      BY <2>1, <2>2
  <1>6. V = Positions(t, k)
    BY DEF V, t, row
  <1>7. e[1] \in V /\ e[2] \in V
    BY <1>4
  <1>8. t \in Seq(HoleRecord) /\ Len(t) > 0
    <2>1. t \in Seq(HoleRecord)
      BY <1>5 DEF InOrder
    <2>2. \E i \in DOMAIN t : TRUE
      BY <1>6, <1>7 DEF Positions
    <2>. QED
      BY <2>1, <2>2
  <1>9. /\ V \in SUBSET Int /\ IsFiniteSet(V) /\ Cardinality(V) \in Nat
        /\ \A z \in V : \E i \in 1 .. Len(t) : t[i].center[k] = z
    <2>. DEFINE P == Positions(t, k)
    <2>1. /\ P \in SUBSET Int /\ IsFiniteSet(P) /\ Cardinality(P) \in Nat
          /\ \A z \in P : \E i \in 1 .. Len(t) : t[i].center[k] = z
      BY <1>8, PositionsAre
    <2>. HIDE DEF P
    <2>2. V = P
      BY <1>6 DEF P
    <2>. QED
      BY <2>1, <2>2
  <1>10. \A z \in V : \E j \in 1 .. Len(g) :
           g[j].center[k] = z /\ g[j].center[3 - k] = f
    <2>. TAKE z \in V
    <2>1. PICK i \in 1 .. Len(t) : t[i].center[k] = z
      BY <1>9
    <2>2. PICK m \in 1 .. Len(g) : t[i] = g[m] /\ g[m].center[3 - k] = f
      BY <1>5
    <2>. QED
      BY <2>1, <2>2
  <1>11. /\ \A j \in 1 .. Len(g) : g[j].center[k] \in Positions(g, k)
         /\ IsFiniteSet(Positions(g, k))
    BY <1>0, PositionsAre
  <1>12. V \in SUBSET Positions(g, k)
    BY <1>10, <1>11
  <1>13. Cardinality(V) <= Cardinality(Positions(g, k))
    BY <1>11, <1>12, FS_Subset
  <1>14. v \in Int /\ d \in Int /\ 0 < d
    <2>1. e[1] \in Int /\ e[2] \in Int /\ e[1] < e[2]
      BY <1>4, <1>7, <1>9
    <2>2. \A x, y \in Int : x < y => y - x \in Int /\ 0 < y - x
      OBVIOUS
    <2>. QED
      BY <2>1, <2>2
  <1>15. 1 \in M
    <2>1. Cardinality(V) # 0
      BY <1>7, <1>9, FS_EmptySet
    <2>2. 1 \in 1 .. Cardinality(V)
      BY <1>9, <2>1
    <2>. HIDE DEF d
    <2>3. \A i \in 0 .. 1 - 1 : i = 0
      OBVIOUS
    <2>4. v + 0 * d = v
      BY <1>14
    <2>. QED
      BY <1>7, <2>2, <2>3, <2>4
  <1>16. M \in SUBSET (1 .. Cardinality(V))
    OBVIOUS
  <1>17. \A n \in M : \A i \in 0 .. n - 1 : v + i * d \in V
    OBVIOUS
  <1>18. L = RunLength(V, v, d)
    BY DEF RunLength
  <1>. HIDE DEF M, v, d
  <1>19. L \in M
    <2>1. IsFiniteSet(1 .. Cardinality(V))
      BY <1>9, FS_Interval
    <2>2. IsFiniteSet(M)
      BY <1>16, <2>1, FS_Subset
    <2>3. M \in SUBSET Int
      BY <1>16
    <2>. QED
      BY <1>15, <2>2, <2>3, FiniteExtremes
  <1>. HIDE DEF L
  <1>20. r = <<-L, k, f, v, d>>
    BY <1>4, <1>18 DEF v, d
  <1>21. L \in Nat /\ L <= Cardinality(V)
    BY <1>9, <1>16, <1>19
  <1>22. 3 <= L
    <2>1. -L <= -3
      BY <1>1, <1>20
    <2>. QED
      BY <1>21, <2>1
  <1>23. L <= Cardinality(Positions(g, k))
    <2>1. Cardinality(Positions(g, k)) \in Nat
      BY <1>11, FS_CardinalityType
    <2>. QED
      BY <1>9, <1>13, <1>21, <2>1
  <1>24. v \in Positions(g, k)
    BY <1>7, <1>12 DEF v
  <1>25. \A i \in 0 .. L - 1 : \E j \in 1 .. Len(g) :
           g[j].center[k] = v + i * d /\ g[j].center[3 - k] = f
    BY <1>10, <1>17, <1>19
  <1>26. f \in Positions(g, 3 - k) /\ L \in Nat /\ d \in Int
    BY <1>3, <1>14, <1>21
  <1>27. \E ff \in Positions(g, 3 - k), vv \in Positions(g, k) :
           /\ r = <<-L, k, ff, vv, d>>
           /\ 3 <= L /\ L <= Cardinality(Positions(g, k)) /\ 0 < d
           /\ \A i \in 0 .. L - 1 : \E j \in 1 .. Len(g) :
                g[j].center[k] = vv + i * d /\ g[j].center[3 - k] = ff
    BY <1>14, <1>20, <1>22, <1>23, <1>24, <1>25, <1>26
  <1>. QED
    BY <1>26, <1>27

LEMMA FirstRun ==
  ASSUME NEW g, InOrder(g), Len(g) > 0, Runs(g) # {}
  PROVE  Foremost(Runs(g)) \in Runs(g)
  <1>. DEFINE P == Positions(g, 1)
              Q == Positions(g, 2)
              least(a, c) == IF a <= c THEN a ELSE c
              b == least(least(Min(P), Min(Q)), least(-Cardinality(P), -Cardinality(Q)))
  <1>0. g \in Seq(HoleRecord)
    BY DEF InOrder
  <1>1. /\ P \in SUBSET Int /\ Cardinality(P) \in Nat /\ Min(P) \in P
        /\ \A v \in P : Min(P) <= v
    <2>1. 1 \in 1 .. 2
      OBVIOUS
    <2>. QED
      BY <1>0, <2>1, PositionsAre
  <1>2. /\ Q \in SUBSET Int /\ Cardinality(Q) \in Nat /\ Min(Q) \in Q
        /\ \A v \in Q : Min(Q) <= v
    <2>1. 2 \in 1 .. 2
      OBVIOUS
    <2>. QED
      BY <1>0, <2>1, PositionsAre
  <1>. DEFINE mp == Min(P)
              mq == Min(Q)
              cp == Cardinality(P)
              cq == Cardinality(Q)
  <1>3. mp \in Int /\ mq \in Int /\ cp \in Nat /\ cq \in Nat
    BY <1>1, <1>2
  <1>4. b = least(least(mp, mq), least(-cp, -cq))
    OBVIOUS
  <1>. HIDE DEF b, mp, mq, cp, cq
  <1>5. b \in Int /\ b <= mp /\ b <= mq /\ b <= -cp /\ b <= -cq /\ b <= 0
    BY <1>3, <1>4
  <1>6. ASSUME NEW r \in Runs(g)
        PROVE  r \in [1 .. 5 -> Int] /\ \A i \in 1 .. 5 : b <= r[i]
    <2>1. PICK k \in 1 .. 2, L \in Nat, d \in Int :
             \E f \in Positions(g, 3 - k), v \in Positions(g, k) :
               /\ r = <<-L, k, f, v, d>>
               /\ 3 <= L /\ L <= Cardinality(Positions(g, k)) /\ 0 < d
      BY <1>0, RunIs
    <2>2. PICK f \in Positions(g, 3 - k), v \in Positions(g, k) :
             /\ r = <<-L, k, f, v, d>>
             /\ 3 <= L /\ L <= Cardinality(Positions(g, k)) /\ 0 < d
      BY <2>1
    <2>3. /\ f \in Int /\ v \in Int /\ b <= f /\ b <= v /\ b <= -L
      <3>1. CASE k = 1
        <4>1. f \in Q /\ v \in P /\ L <= cp
          BY <2>2, <3>1 DEF cp
        <4>. HIDE DEF P, Q
        <4>2. f \in Int /\ v \in Int /\ mq <= f /\ mp <= v
          BY <1>1, <1>2, <4>1 DEF mp, mq
        <4>. QED
          BY <1>3, <1>5, <4>1, <4>2
      <3>2. CASE k = 2
        <4>1. f \in P /\ v \in Q /\ L <= cq
          BY <2>2, <3>2 DEF cq
        <4>. HIDE DEF P, Q
        <4>2. f \in Int /\ v \in Int /\ mp <= f /\ mq <= v
          BY <1>1, <1>2, <4>1 DEF mp, mq
        <4>. QED
          BY <1>3, <1>5, <4>1, <4>2
      <3>. QED
        BY <3>1, <3>2
    <2>4. -L \in Int /\ k \in Int /\ b <= k /\ b <= d
      BY <1>5, <2>2
    <2>5. r[1] = -L /\ r[2] = k /\ r[3] = f /\ r[4] = v /\ r[5] = d
      BY <2>2
    <2>6. \A i \in 1 .. 5 : i = 1 \/ i = 2 \/ i = 3 \/ i = 4 \/ i = 5
      OBVIOUS
    <2>7. \A i \in 1 .. 5 : r[i] \in Int /\ b <= r[i]
      BY <2>3, <2>4, <2>5, <2>6
    <2>8. r = [i \in 1 .. 5 |-> r[i]]
      <3>1. r \in Int \X Int \X Int \X Int \X Int
        BY <2>2, <2>3, <2>4
      <3>. QED
        BY <3>1
    <2>. QED
      BY <2>7, <2>8
  <1>7. Runs(g) \in SUBSET [1 .. 5 -> Int]
    BY <1>6
  <1>8. \A r \in Runs(g) : \A i \in 1 .. 5 : b <= r[i]
    BY <1>6
  <1>9. 5 \in Nat
    OBVIOUS
  <1>. QED
    BY <1>5, <1>7, <1>8, <1>9, ForemostOf

LEMMA RunFound ==
  ASSUME NEW g, InOrder(g), Alike(g), Len(g) > 0, NEW r \in Runs(g)
  PROVE  /\ SoundPattern(Linear(OnRun(g, r), r[2]))
         /\ Linear(OnRun(g, r), r[2]).members \in SUBSET IdsOf(g)
  <1>0. g \in Seq(HoleRecord) /\ DOMAIN g = 1 .. Len(g) /\ Len(g) \in Nat
    BY DEF InOrder
  <1>1. PICK k \in 1 .. 2, L \in Nat, d \in Int :
           \E f \in Positions(g, 3 - k), v \in Positions(g, k) :
             /\ r = <<-L, k, f, v, d>>
             /\ 3 <= L /\ L <= Cardinality(Positions(g, k)) /\ 0 < d
             /\ \A i \in 0 .. L - 1 : \E j \in 1 .. Len(g) :
                  g[j].center[k] = v + i * d /\ g[j].center[3 - k] = f
    BY RunIs
  <1>2. PICK f \in Positions(g, 3 - k), v \in Positions(g, k) :
             /\ r = <<-L, k, f, v, d>>
             /\ 3 <= L /\ 0 < d
             /\ \A i \in 0 .. L - 1 : \E j \in 1 .. Len(g) :
                  g[j].center[k] = v + i * d /\ g[j].center[3 - k] = f
    BY <1>1
  <1>3. r[1] = -L /\ r[2] = k /\ r[3] = f /\ r[4] = v /\ r[5] = d
    BY <1>2
  <1>4. v \in Int /\ f \in Int
    <2>1. Positions(g, k) \in SUBSET Int
      BY <1>0, PositionsAre
    <2>2. 3 - k \in 1 .. 2
      OBVIOUS
    <2>3. Positions(g, 3 - k) \in SUBSET Int
      BY <1>0, <2>2, PositionsAre
    <2>. QED
      BY <2>1, <2>3
  <1>. DEFINE at(i) == IF r[2] = 1 THEN <<r[4] + i * r[5], r[3]>> ELSE <<r[3], r[4] + i * r[5]>>
              J(i) == {j \in DOMAIN g : g[j].center = at(i)}
              h == OnRun(g, r)
              m == [i \in 1 .. L |-> Min(J(i - 1))]
  <1>5. k = 1 \/ k = 2
    OBVIOUS
  <1>6. ASSUME NEW i \in 0 .. L - 1
        PROVE  /\ at(i)[k] = v + i * d /\ at(i)[3 - k] = f
               /\ Min(J(i)) \in 1 .. Len(g) /\ g[Min(J(i))].center = at(i)
    <2>1. at(i) = IF k = 1 THEN <<v + i * d, f>> ELSE <<f, v + i * d>>
      BY <1>3
    <2>2. at(i)[k] = v + i * d /\ at(i)[3 - k] = f
      <3>1. 3 - 1 = 2 /\ 3 - 2 = 1
        OBVIOUS
      <3>. HIDE DEF at
      <3>. QED
        BY <1>5, <2>1, <3>1
    <2>3. PICK j \in 1 .. Len(g) : g[j].center[k] = v + i * d /\ g[j].center[3 - k] = f
      BY <1>2
    <2>4. g[j].center = at(i)
      <3>1. g[j].center = <<g[j].center[1], g[j].center[2]>>
        BY <1>0, CentersAre
      <3>2. 3 - 1 = 2 /\ 3 - 2 = 1
        OBVIOUS
      <3>. HIDE DEF at
      <3>. QED
        BY <1>5, <2>1, <2>3, <3>1, <3>2
    <2>. HIDE DEF at
    <2>5. J(i) \in SUBSET Nat /\ J(i) # {} /\ J(i) \in SUBSET (1 .. Len(g))
      BY <1>0, <2>4
    <2>6. Min(J(i)) \in J(i)
      <3>. HIDE DEF J
      <3>. QED
        BY <2>5, LeastOf
    <2>. QED
      BY <2>2, <2>5, <2>6
  <1>7. h = [i \in 1 .. L |-> g[Min(J(i - 1))]]
    <2>1. -(-L) = L
      OBVIOUS
    <2>. QED
      BY <1>3, <2>1 DEF OnRun
  <1>. HIDE DEF at, J, h
  <1>8. ASSUME NEW i \in 1 .. L
        PROVE  /\ m[i] \in 1 .. Len(g) /\ h[i] = g[m[i]]
               /\ h[i].center[k] = v + (i - 1) * d /\ h[i].center[3 - k] = f
    <2>1. i - 1 \in 0 .. L - 1
      OBVIOUS
    <2>2. h[i] = g[Min(J(i - 1))] /\ m[i] = Min(J(i - 1))
      BY <1>7
    <2>. QED
      BY <1>6, <2>1, <2>2
  <1>. HIDE DEF m
  <1>9. h \in Seq(HoleRecord) /\ Len(h) = L
    <2>1. \A i \in 1 .. L : h[i] \in HoleRecord
      BY <1>0, <1>8
    <2>2. h \in [1 .. L -> HoleRecord]
      BY <1>7, <2>1
    <2>. QED
      BY <2>2
  <1>10. ASSUME NEW i \in 1 .. L, NEW j \in 1 .. L, h[i].center[k] = h[j].center[k]
         PROVE  i = j
    <2>. DEFINE x == (i - 1) * d
                y == (j - 1) * d
    <2>1. i - 1 \in Int /\ j - 1 \in Int
      OBVIOUS
    <2>2. x \in Int /\ y \in Int
      BY <2>1, Steps
    <2>3. v + x = v + y
      BY <1>8, <1>10
    <2>4. x = y
      <3>. HIDE DEF x, y
      <3>. QED
        BY <1>4, <2>2, <2>3
    <2>5. i - 1 = j - 1
      BY <1>2, <2>1, <2>4, Steps
    <2>. QED
      BY <2>5
  <1>11. OfDrawing(h)
    <2>1. \A i \in 1 .. L : h[i].id \in 1 .. Len(circles) /\ h[i] = Holes[h[i].id]
      BY <1>8 DEF InOrder
    <2>2. \A i, j \in 1 .. L : h[i].id = h[j].id => i = j
      <3>. TAKE i, j \in 1 .. L
      <3>. HAVE h[i].id = h[j].id
      <3>1. h[i] = h[j]
        BY <2>1
      <3>. QED
        BY <1>10, <3>1
    <2>. QED
      BY <1>9, <2>1, <2>2 DEF OfDrawing
  <1>12. IdsOf(h) \in SUBSET IdsOf(g)
    <2>1. \A i \in 1 .. L : h[i].id \in IdsOf(g)
      BY <1>8 DEF IdsOf
    <2>. QED
      BY <1>9, <2>1 DEF IdsOf
  <1>13. \A i \in 1 .. Len(h) : h[i].radius = h[1].radius
    <2>1. ASSUME NEW i \in 1 .. L PROVE h[i].radius = g[1].radius
      <3>1. m[i] \in 1 .. Len(g) /\ h[i] = g[m[i]]
        BY <1>8
      <3>2. g[m[i]].radius = g[1].radius
        BY <3>1 DEF Alike
      <3>. QED
        BY <3>1, <3>2
    <2>2. 1 \in 1 .. L
      BY <1>2
    <2>. QED
      BY <1>9, <2>1, <2>2
  <1>14. h[1].center[k] = v /\ h[1].center[3 - k] = f /\ h[L].center[k] = v + (L - 1) * d
    <2>1. 1 \in 1 .. L /\ L \in 1 .. L /\ 1 - 1 = 0 /\ 0 * d = 0 /\ v + 0 = v
      BY <1>2, <1>4
    <2>. QED
      BY <1>8, <2>1
  <1>15. (Max(Positions(h, k)) - Min(Positions(h, k))) \div (L - 1) = d
    <2>. DEFINE V == Positions(h, k)
                z == (L - 1) * d
    <2>1. /\ V \in SUBSET Int
          /\ Min(V) \in V /\ Max(V) \in V /\ \A w \in V : Min(V) <= w /\ w <= Max(V)
          /\ \A i \in 1 .. L : h[i].center[k] \in V
          /\ \A w \in V : \E i \in 1 .. L : h[i].center[k] = w
      <3>1. Len(h) > 0
        BY <1>2, <1>9
      <3>. QED
        BY <1>9, <3>1, PositionsAre
    <2>. HIDE DEF V
    <2>2. z \in Int /\ L - 1 \in Int /\ L - 1 > 0
      <3>1. L - 1 \in Int /\ L - 1 > 0
        BY <1>2
      <3>. QED
        BY <3>1, Steps
    <2>3. ASSUME NEW w \in V PROVE v <= w /\ w <= v + z
      <3>1. PICK i \in 1 .. L : h[i].center[k] = w
        BY <2>1
      <3>2. i - 1 \in Int /\ 0 <= i - 1 /\ i - 1 <= L - 1
        OBVIOUS
      <3>. DEFINE y == (i - 1) * d
      <3>3. y \in Int /\ 0 * d <= y /\ y <= z /\ 0 * d = 0
        BY <1>2, <2>2, <3>2, Steps
      <3>4. w = v + y
        BY <1>8, <3>1
      <3>. HIDE DEF y, z
      <3>. QED
        BY <1>4, <2>2, <3>3, <3>4
    <2>4. v \in V /\ v + z \in V
      <3>1. 1 \in 1 .. L /\ L \in 1 .. L
        BY <1>2
      <3>. QED
        BY <1>14, <2>1, <3>1
    <2>. DEFINE lo == Min(V)
                hi == Max(V)
    <2>5. lo = v /\ hi = v + z
      <3>1. /\ lo \in Int /\ hi \in Int /\ lo <= v /\ v + z <= hi
            /\ v <= lo /\ hi <= v + z /\ v + z \in Int
        BY <2>1, <2>3, <2>4
      <3>. HIDE DEF lo, hi, z
      <3>. QED
        BY <1>4, <3>1
    <2>6. hi - lo = z
      <3>. HIDE DEF lo, hi, z
      <3>. QED
        BY <1>4, <2>2, <2>5
    <2>7. z \div (L - 1) = d
      BY <2>2, Steps
    <2>. QED
      BY <2>6, <2>7 DEF V
  <1>16. ASSUME NEW i \in 0 .. L - 1
         PROVE  \E j \in 1 .. L : /\ h[j].center[k] = h[1].center[k] + i * d
                                  /\ h[j].center[3 - k] = h[1].center[3 - k]
    <2>1. i + 1 \in 1 .. L /\ (i + 1) - 1 = i
      OBVIOUS
    <2>. QED
      BY <1>8, <1>14, <2>1
  <1>17. SoundPattern(Linear(h, k)) /\ Linear(h, k).members = IdsOf(h)
    <2>1. \A i \in 0 .. Len(h) - 1 : \E j \in 1 .. Len(h) :
            /\ h[j].center[k] = h[1].center[k] + i * d
            /\ h[j].center[3 - k] = h[1].center[3 - k]
      BY <1>9, <1>16
    <2>2. (Max(Positions(h, k)) - Min(Positions(h, k))) \div (Len(h) - 1) = d
      BY <1>9, <1>15
    <2>3. Len(h) >= 2 /\ d # 0
      BY <1>2, <1>9
    <2>. QED
      BY <1>11, <1>13, <2>1, <2>2, <2>3, LinearSound
  <1>. QED
    BY <1>3, <1>12, <1>17 DEF h

(* Whatever pattern is found, it is holes of the group.                    *)
LEMMA PatternSound ==
  ASSUME circles \in Seq(Drawn), NEW g, InOrder(g), Alike(g), PatternOf(g) # NoPattern
  PROVE  SoundPattern(PatternOf(g)) /\ PatternOf(g).members \in SUBSET IdsOf(g)
  <1>1. Len(g) \in Nat /\ ~(Len(g) < 3)
    <2>1. Len(g) \in Nat
      BY DEF InOrder
    <2>2. ~(Len(g) < 3)
      BY DEF PatternOf
    <2>. QED
      BY <2>1, <2>2
  <1>2. Len(g) >= 3 /\ Len(g) > 0
    BY <1>1
  <1>3. CASE EvenlyOnCircle(g)
    <2>1. PatternOf(g) = Circular(g)
      BY <1>1, <1>3 DEF PatternOf
    <2>. QED
      BY <1>3, <2>1, CircularSound, OrderedAreDrawn DEF Alike
  <1>4. CASE ~EvenlyOnCircle(g) /\ EvenlyOnLine(g, 1)
    <2>1. PatternOf(g) = Linear(g, 1)
      BY <1>1, <1>4 DEF PatternOf
    <2>2. 1 \in 1 .. 2
      OBVIOUS
    <2>. QED
      BY <1>2, <1>4, <2>1, <2>2, LineFound
  <1>5. CASE ~EvenlyOnCircle(g) /\ ~EvenlyOnLine(g, 1) /\ EvenlyOnLine(g, 2)
    <2>1. PatternOf(g) = Linear(g, 2)
      BY <1>1, <1>5 DEF PatternOf
    <2>2. 2 \in 1 .. 2
      OBVIOUS
    <2>. QED
      BY <1>2, <1>5, <2>1, <2>2, LineFound
  <1>6. CASE ~EvenlyOnCircle(g) /\ ~EvenlyOnLine(g, 1) /\ ~EvenlyOnLine(g, 2)
    <2>1. PatternOf(g) = IF Squares(g) # {} THEN Circular(FirstSquare(g))
                         ELSE IF Runs(g) # {}
                         THEN LET r == Foremost(Runs(g)) IN Linear(OnRun(g, r), r[2])
                         ELSE NoPattern
      BY <1>1, <1>6 DEF PatternOf
    <2>2. CASE Squares(g) # {}
      BY <2>1, <2>2, SquareFound
    <2>3. CASE Squares(g) = {}
      <3>1. Runs(g) # {}
        BY <2>1, <2>3
      <3>. DEFINE r == Foremost(Runs(g))
      <3>2. PatternOf(g) = Linear(OnRun(g, r), r[2])
        BY <2>1, <2>3, <3>1
      <3>3. r \in Runs(g)
        BY <1>2, <3>1, FirstRun
      <3>. HIDE DEF r
      <3>. QED
        BY <1>2, <3>2, <3>3, RunFound
    <2>. QED
      BY <2>2, <2>3
  <1>. QED
    BY <1>3, <1>4, <1>5, <1>6

----------------------------------------------------------------------------
(* The feature tree: what its nodes stand for is cut once                  *)

LEMMA ConcatMembers ==
  ASSUME NEW T, NEW s \in Seq(T), NEW t \in Seq(T)
  PROVE  s \o t \in Seq(T) /\ ToSet(s \o t) = ToSet(s) \cup ToSet(t)
  <1>. DEFINE c == s \o t
  <1>1. /\ c \in Seq(T) /\ Len(c) = Len(s) + Len(t)
        /\ \A i \in 1 .. Len(s) + Len(t) : c[i] = IF i <= Len(s) THEN s[i] ELSE t[i - Len(s)]
    BY ConcatProperties
  <1>2. /\ Len(s) \in Nat /\ Len(t) \in Nat /\ DOMAIN s = 1 .. Len(s)
        /\ DOMAIN t = 1 .. Len(t) /\ DOMAIN c = 1 .. Len(s) + Len(t)
    BY <1>1
  <1>. HIDE DEF c
  <1>3. ASSUME NEW i \in 1 .. Len(s) + Len(t) PROVE c[i] \in ToSet(s) \cup ToSet(t)
    <2>1. CASE i <= Len(s)
      <3>1. i \in 1 .. Len(s) /\ c[i] = s[i]
        BY <1>1, <1>2, <2>1
      <3>. QED
        BY <1>2, <3>1 DEF ToSet
    <2>2. CASE ~(i <= Len(s))
      <3>1. i - Len(s) \in 1 .. Len(t) /\ c[i] = t[i - Len(s)]
        BY <1>1, <1>2, <2>2
      <3>. QED
        BY <1>2, <3>1 DEF ToSet
    <2>. QED
      BY <2>1, <2>2
  <1>4. ASSUME NEW i \in 1 .. Len(s) PROVE s[i] \in ToSet(c)
    <2>1. i \in DOMAIN c /\ c[i] = s[i]
      BY <1>1, <1>2
    <2>. QED
      BY <2>1 DEF ToSet
  <1>5. ASSUME NEW i \in 1 .. Len(t) PROVE t[i] \in ToSet(c)
    <2>1. /\ i + Len(s) \in 1 .. Len(s) + Len(t) /\ ~(i + Len(s) <= Len(s))
          /\ (i + Len(s)) - Len(s) = i
      BY <1>2
    <2>2. i + Len(s) \in DOMAIN c /\ c[i + Len(s)] = t[i]
      BY <1>1, <1>2, <2>1
    <2>. QED
      BY <2>2 DEF ToSet
  <1>6. ToSet(c) = ToSet(s) \cup ToSet(t)
    BY <1>2, <1>3, <1>4, <1>5 DEF ToSet
  <1>. QED
    BY <1>1, <1>6 DEF c

HoleNode(x) == x.op \in {"circle_hole", "hole_pattern"}

(* The circles a node of the tree stands for.                              *)
Owned(x) == IF x.op = "circle_hole" THEN {x.id[2]} ELSE x.data.members

IsNode(x) == x = Node(x.id, x.op, x.parent, x.data)

SoundNode(x) ==
  /\ IsNode(x)
  /\ x.op = "circle_hole" =>
       /\ x.id[2] \in 1 .. Len(circles)
       /\ x.data.center = Holes[x.id[2]].center /\ x.data.radius = Holes[x.id[2]].radius
  /\ x.op = "hole_pattern" => SoundPattern(x.data)

SoundTree(t) ==
  /\ \E T : t \in Seq(T)
  /\ \A x \in ToSet(t) : SoundNode(x)
  /\ \A x, y \in ToSet(t) :
       HoleNode(x) /\ HoleNode(y) /\ x.id # y.id => Owned(x) \cap Owned(y) = {}

WholeTree(t) ==
  \A n \in 1 .. Len(circles) : \E x \in ToSet(t) : HoleNode(x) /\ n \in Owned(x)

AnyHole == {DrawnHoles[n] : n \in 1 .. Len(circles)}

LEMMA NodeHoles ==
  ASSUME NEW x, SoundNode(x), HoleNode(x)
  PROVE  /\ HolesOf(x) \in Seq(AnyHole)
         /\ Lists(HolesOf(x), Owned(x), DrawnHoles)
         /\ Owned(x) \in SUBSET (1 .. Len(circles))
  <1>1. CASE x.op = "circle_hole"
    <2>. DEFINE m == x.id[2]
                s == <<DrawnHoles[m]>>
    <2>1. /\ m \in 1 .. Len(circles)
          /\ x.data.center = Holes[m].center /\ x.data.radius = Holes[m].radius
      BY <1>1 DEF SoundNode
    <2>2. Owned(x) = {m}
      BY <1>1 DEF Owned
    <2>. HIDE DEF m
    <2>3. HolesOf(x) = s
      BY <1>1, <2>1 DEF HolesOf, DrawnHoles, DrawnHole
    <2>4. s \in Seq(AnyHole) /\ Len(s) = 1 /\ s[1] = DrawnHoles[m]
      <3>1. DrawnHoles[m] \in AnyHole
        BY <2>1 DEF AnyHole
      <3>. QED
        BY <3>1
    <2>. DEFINE f == [i \in 1 .. 1 |-> m]
    <2>5. f \in Bijection(1 .. 1, {m})
      <3>1. f \in [1 .. 1 -> {m}] /\ \A i, j \in 1 .. 1 : i = j
        OBVIOUS
      <3>2. \A z \in {m} : \E i \in 1 .. 1 : f[i] = z
        OBVIOUS
      <3>. QED
        BY <3>1, <3>2, Bijections
    <2>6. \A i \in 1 .. 1 : s[i] = DrawnHoles[f[i]]
      BY <2>4
    <2>. HIDE DEF f, s
    <2>7. Lists(s, {m}, DrawnHoles)
      BY <2>4, <2>5, <2>6 DEF Lists
    <2>. QED
      BY <2>1, <2>2, <2>3, <2>4, <2>7
  <1>2. CASE x.op = "hole_pattern"
    <2>. DEFINE p == x.data
    <2>1. /\ p.members \in SUBSET (1 .. Len(circles)) /\ p.count \in Nat
          /\ Lists(PatternHoles(p), p.members, DrawnHoles)
      BY <1>2 DEF SoundNode, SoundPattern
    <2>2. Owned(x) = p.members
      BY <1>2 DEF Owned
    <2>. HIDE DEF p
    <2>3. HolesOf(x) = PatternHoles(p)
      BY <1>2 DEF HolesOf, PatternHoles, p
    <2>4. /\ DOMAIN PatternHoles(p) = 1 .. p.count
          /\ PatternHoles(p) = [i \in 1 .. p.count |-> PatternHoles(p)[i]]
      BY DEF PatternHoles
    <2>5. Len(PatternHoles(p)) = p.count
      BY <2>1, <2>4
    <2>6. PICK f \in Bijection(1 .. p.count, p.members) :
             \A i \in 1 .. p.count : PatternHoles(p)[i] = DrawnHoles[f[i]]
      BY <2>1, <2>5 DEF Lists
    <2>7. \A i \in 1 .. p.count : f[i] \in 1 .. Len(circles)
      BY <2>1, <2>6, Bijections
    <2>8. \A i \in 1 .. p.count : PatternHoles(p)[i] \in AnyHole
      BY <2>6, <2>7 DEF AnyHole
    <2>9. PatternHoles(p) \in Seq(AnyHole)
      <3>. DEFINE P == PatternHoles(p)
      <3>1. P = [i \in 1 .. p.count |-> P[i]] /\ \A i \in 1 .. p.count : P[i] \in AnyHole
        BY <2>4, <2>8
      <3>. HIDE DEF P
      <3>2. P \in [1 .. p.count -> AnyHole]
        BY <3>1
      <3>3. P \in Seq(AnyHole)
        BY <2>1, <3>2
      <3>. QED
        BY <3>3 DEF P
    <2>. QED
      BY <2>1, <2>2, <2>3, <2>9
  <1>. QED
    BY <1>1, <1>2 DEF HoleNode

(* A tree whose nodes are told apart by their ids cuts every circle its    *)
(* nodes stand for, once.                                                  *)
LEMMA TreeHolesAre ==
  ASSUME SoundTree(tree), WellBuilt
  PROVE  /\ TreeHoles \in Seq(AnyHole)
         /\ \E B \in SUBSET (1 .. Len(circles)) :
              /\ Lists(TreeHoles, B, DrawnHoles)
              /\ WholeTree(tree) => B = 1 .. Len(circles)
  <1>. DEFINE a == Nodes("circle_hole")
              b == Nodes("hole_pattern")
              nodes == a \o b
              n == Len(tree)
  <1>1. PICK T : tree \in Seq(T)
    BY DEF SoundTree
  <1>2. n \in Nat /\ DOMAIN tree = 1 .. n /\ \A i \in 1 .. n : tree[i] \in ToSet(tree)
    BY <1>1 DEF ToSet
  <1>3. \A i, j \in 1 .. n : tree[i].id = tree[j].id => i = j
    <2>. DEFINE ids == [i \in 1 .. n |-> tree[i].id]
    <2>1. Cardinality({ids[i] : i \in 1 .. n}) = n
      <3>1. {ids[i] : i \in 1 .. n} = {tree[i].id : i \in DOMAIN tree}
        BY <1>2
      <3>. QED
        BY <3>1 DEF WellBuilt
    <2>2. DOMAIN ids = 1 .. n /\ \A i \in 1 .. n : ids[i] = tree[i].id
      OBVIOUS
    <2>. HIDE DEF ids
    <2>3. \A i, j \in 1 .. n : ids[i] = ids[j] => i = j
      BY <1>2, <2>1, <2>2, Values
    <2>. QED
      BY <2>2, <2>3
  <1>4. /\ a \in Seq(T)
        /\ \E f : /\ Picks(f, tree, a)
                  /\ \A i \in 1 .. Len(a) : a[i].op = "circle_hole"
                  /\ \A m \in 1 .. n :
                       tree[m].op = "circle_hole" => \E i \in 1 .. Len(a) : f[i] = m
    <2>. DEFINE S == {x \in ToSet(tree) : x.op = "circle_hole"}
    <2>1. a = Keep(tree, S)
      BY DEF Nodes
    <2>2. \A m \in 1 .. n : tree[m].op = "circle_hole" => tree[m] \in S
      BY <1>2
    <2>3. \A x \in S : x.op = "circle_hole"
      OBVIOUS
    <2>. HIDE DEF S, a
    <2>. QED
      BY <1>1, <2>1, <2>2, <2>3, Keeping
  <1>5. /\ b \in Seq(T)
        /\ \E f : /\ Picks(f, tree, b)
                  /\ \A i \in 1 .. Len(b) : b[i].op = "hole_pattern"
                  /\ \A m \in 1 .. n :
                       tree[m].op = "hole_pattern" => \E i \in 1 .. Len(b) : f[i] = m
    <2>. DEFINE S == {x \in ToSet(tree) : x.op = "hole_pattern"}
    <2>1. b = Keep(tree, S)
      BY DEF Nodes
    <2>2. \A m \in 1 .. n : tree[m].op = "hole_pattern" => tree[m] \in S
      BY <1>2
    <2>3. \A x \in S : x.op = "hole_pattern"
      OBVIOUS
    <2>. HIDE DEF S, b
    <2>. QED
      BY <1>1, <2>1, <2>2, <2>3, Keeping
  <1>. HIDE DEF a, b
  <1>6. PICK f : /\ Picks(f, tree, a)
                 /\ \A i \in 1 .. Len(a) : a[i].op = "circle_hole"
                 /\ \A m \in 1 .. n :
                      tree[m].op = "circle_hole" => \E i \in 1 .. Len(a) : f[i] = m
    BY <1>4
  <1>7. PICK g : /\ Picks(g, tree, b)
                 /\ \A i \in 1 .. Len(b) : b[i].op = "hole_pattern"
                 /\ \A m \in 1 .. n :
                      tree[m].op = "hole_pattern" => \E i \in 1 .. Len(b) : g[i] = m
    BY <1>5
  <1>8. /\ \A i \in 1 .. Len(a) : f[i] \in 1 .. n /\ a[i] = tree[f[i]]
        /\ \A i, j \in 1 .. Len(a) : i < j => f[i] < f[j]
    BY <1>6 DEF Picks
  <1>9. /\ \A i \in 1 .. Len(b) : g[i] \in 1 .. n /\ b[i] = tree[g[i]]
        /\ \A i, j \in 1 .. Len(b) : i < j => g[i] < g[j]
    BY <1>7 DEF Picks
  <1>10. /\ nodes \in Seq(T) /\ Len(nodes) = Len(a) + Len(b)
         /\ Len(a) \in Nat /\ Len(b) \in Nat
         /\ \A i \in 1 .. Len(a) + Len(b) :
              nodes[i] = IF i <= Len(a) THEN a[i] ELSE b[i - Len(a)]
    BY <1>4, <1>5, ConcatProperties
  <1>. DEFINE k == Len(a) + Len(b)
              at == [i \in 1 .. k |-> IF i <= Len(a) THEN f[i] ELSE g[i - Len(a)]]
  <1>11. ASSUME NEW i \in 1 .. k
         PROVE  /\ IF i <= Len(a) THEN i \in 1 .. Len(a) ELSE i - Len(a) \in 1 .. Len(b)
                /\ at[i] = IF i <= Len(a) THEN f[i] ELSE g[i - Len(a)]
    BY <1>10
  <1>. HIDE DEF at, nodes
  <1>12. ASSUME NEW i \in 1 .. k
         PROVE  /\ at[i] \in 1 .. n /\ nodes[i] = tree[at[i]] /\ HoleNode(nodes[i])
                /\ nodes[i].op = IF i <= Len(a) THEN "circle_hole" ELSE "hole_pattern"
    <2>1. CASE i <= Len(a)
      <3>1. i \in 1 .. Len(a) /\ at[i] = f[i] /\ nodes[i] = a[i]
        BY <1>10, <1>11, <2>1
      <3>. QED
        BY <1>6, <1>8, <2>1, <3>1 DEF HoleNode
    <2>2. CASE ~(i <= Len(a))
      <3>1. i - Len(a) \in 1 .. Len(b) /\ at[i] = g[i - Len(a)] /\ nodes[i] = b[i - Len(a)]
        BY <1>10, <1>11, <2>2
      <3>. QED
        BY <1>7, <1>9, <2>2, <3>1 DEF HoleNode
    <2>. QED
      BY <2>1, <2>2
  <1>13. ASSUME NEW i \in 1 .. k, NEW j \in 1 .. k, i # j PROVE at[i] # at[j]
    <2>1. CASE i <= Len(a) /\ j <= Len(a)
      <3>1. i \in 1 .. Len(a) /\ j \in 1 .. Len(a) /\ at[i] = f[i] /\ at[j] = f[j]
        BY <1>11, <2>1
      <3>2. f[i] \in Int /\ f[j] \in Int /\ (i < j \/ j < i)
        BY <1>8, <1>13, <3>1
      <3>. QED
        BY <1>8, <3>1, <3>2
    <2>2. CASE ~(i <= Len(a)) /\ ~(j <= Len(a))
      <3>. DEFINE x == i - Len(a)
                  y == j - Len(a)
      <3>1. x \in 1 .. Len(b) /\ y \in 1 .. Len(b) /\ at[i] = g[x] /\ at[j] = g[y]
        BY <1>11, <2>2
      <3>2. x < y \/ y < x
        BY <1>10, <1>13
      <3>. HIDE DEF x, y
      <3>3. g[x] \in Int /\ g[y] \in Int
        BY <1>9, <3>1
      <3>. QED
        BY <1>9, <3>1, <3>2, <3>3
    <2>3. CASE (i <= Len(a)) # (j <= Len(a))
      <3>1. nodes[i].op # nodes[j].op
        BY <1>12, <2>3
      <3>. QED
        BY <1>12, <3>1
    <2>. QED
      BY <2>1, <2>2, <2>3
  <1>. DEFINE own == [i \in 1 .. k |-> Owned(nodes[i])]
              seqs == [i \in 1 .. k |-> HolesOf(nodes[i])]
  <1>14. ASSUME NEW i \in 1 .. k
         PROVE  /\ nodes[i] \in ToSet(tree)
                /\ HolesOf(nodes[i]) \in Seq(AnyHole)
                /\ Lists(HolesOf(nodes[i]), Owned(nodes[i]), DrawnHoles)
                /\ Owned(nodes[i]) \in SUBSET (1 .. Len(circles))
    <2>1. nodes[i] \in ToSet(tree) /\ HoleNode(nodes[i])
      BY <1>2, <1>12
    <2>2. SoundNode(nodes[i])
      BY <2>1 DEF SoundTree
    <2>. QED
      BY <2>1, <2>2, NodeHoles
  <1>15. ASSUME NEW i \in 1 .. k, NEW j \in 1 .. k, i # j
         PROVE  Owned(nodes[i]) \cap Owned(nodes[j]) = {}
    <2>1. nodes[i].id # nodes[j].id
      <3>1. at[i] \in 1 .. n /\ at[j] \in 1 .. n /\ at[i] # at[j]
        BY <1>12, <1>13, <1>15
      <3>2. tree[at[i]].id # tree[at[j]].id
        BY <1>3, <3>1
      <3>3. nodes[i] = tree[at[i]] /\ nodes[j] = tree[at[j]]
        BY <1>12
      <3>. QED
        BY <3>2, <3>3
    <2>. QED
      BY <1>12, <1>14, <2>1 DEF SoundTree
  <1>16. seqs \in Seq(Seq(AnyHole)) /\ Len(seqs) = k
    <2>1. k \in Nat
      BY <1>10
    <2>. HIDE DEF k
    <2>. QED
      BY <1>14, <2>1
  <1>17. TreeHoles = FlattenSeq(seqs)
    <2>1. DOMAIN nodes = 1 .. k
      BY <1>10
    <2>. HIDE DEF k
    <2>. QED
      BY <2>1 DEF TreeHoles, nodes, a, b
  <1>18. /\ \A i, j \in 1 .. Len(seqs) : i # j => own[i] \cap own[j] = {}
         /\ \A i \in 1 .. Len(seqs) : Lists(seqs[i], own[i], DrawnHoles)
    <2>1. \A i \in 1 .. k : own[i] = Owned(nodes[i]) /\ seqs[i] = HolesOf(nodes[i])
      OBVIOUS
    <2>. HIDE DEF own, seqs, k
    <2>. QED
      BY <1>14, <1>15, <1>16, <2>1
  <1>19. /\ FlattenSeq(seqs) \in Seq(AnyHole)
         /\ Lists(FlattenSeq(seqs), UNION {own[i] : i \in 1 .. Len(seqs)}, DrawnHoles)
    <2>. HIDE DEF own, seqs
    <2>. QED
      BY <1>16, <1>18, ListsAll
  <1>. DEFINE B == UNION {own[i] : i \in 1 .. k}
  <1>20. B \in SUBSET (1 .. Len(circles))
    BY <1>14
  <1>21. ASSUME WholeTree(tree) PROVE B = 1 .. Len(circles)
    <2>. SUFFICES ASSUME NEW m \in 1 .. Len(circles) PROVE \E i \in 1 .. k : m \in own[i]
      BY <1>20
    <2>1. PICK x \in ToSet(tree) : HoleNode(x) /\ m \in Owned(x)
      BY <1>21 DEF WholeTree
    <2>2. PICK j \in 1 .. n : x = tree[j]
      BY <1>2, <2>1 DEF ToSet
    <2>3. PICK i \in 1 .. k : at[i] = j
      <3>1. CASE x.op = "circle_hole"
        <4>1. PICK i \in 1 .. Len(a) : f[i] = j
          BY <1>6, <2>2, <3>1
        <4>2. i \in 1 .. k /\ i <= Len(a)
          BY <1>10
        <4>3. at[i] = f[i]
          BY <1>11, <4>2
        <4>. QED
          BY <4>1, <4>2, <4>3
      <3>2. CASE x.op = "hole_pattern"
        <4>1. PICK i \in 1 .. Len(b) : g[i] = j
          BY <1>7, <2>2, <3>2
        <4>2. /\ i + Len(a) \in 1 .. k /\ ~(i + Len(a) <= Len(a))
              /\ (i + Len(a)) - Len(a) = i
          BY <1>10
        <4>3. at[i + Len(a)] = g[(i + Len(a)) - Len(a)]
          BY <1>11, <4>2
        <4>. QED
          BY <4>1, <4>2, <4>3
      <3>. QED
        BY <2>1, <3>1, <3>2 DEF HoleNode
    <2>4. nodes[i] = x
      BY <1>12, <2>2, <2>3
    <2>. QED
      BY <2>1, <2>4
  <1>22. Lists(TreeHoles, B, DrawnHoles) /\ TreeHoles \in Seq(AnyHole)
    <2>. HIDE DEF own, seqs
    <2>. QED
      BY <1>16, <1>17, <1>19
  <1>. HIDE DEF B
  <1>. QED
    BY <1>20, <1>21, <1>22

(* A part of a sequence, in any order, has no more of anything, and all of *)
(* it has as much of everything.                                           *)
LEMMA BagsOf ==
  ASSUME NEW T, NEW s \in Seq(T), NEW t \in Seq(T),
         NEW g \in [1 .. Len(s) -> 1 .. Len(t)],
         \A i, j \in 1 .. Len(s) : g[i] = g[j] => i = j,
         \A i \in 1 .. Len(s) : s[i] = t[g[i]]
  PROVE  /\ \A e \in DOMAIN Bagged(s) : Bagged(s)[e] <= Times(Bagged(t), e)
         /\ (\A j \in 1 .. Len(t) : \E i \in 1 .. Len(s) : g[i] = j) => Bagged(s) = Bagged(t)
  <1>0. /\ Len(s) \in Nat /\ DOMAIN s = 1 .. Len(s)
        /\ Len(t) \in Nat /\ DOMAIN t = 1 .. Len(t) /\ IsFiniteSet(1 .. Len(t))
    <2>1. /\ Len(s) \in Nat /\ DOMAIN s = 1 .. Len(s)
          /\ Len(t) \in Nat /\ DOMAIN t = 1 .. Len(t)
      OBVIOUS
    <2>2. 1 \in Int /\ Len(t) \in Int
      BY <2>1
    <2>. QED
      BY <2>1, <2>2, FS_Interval
  <1>. DEFINE I(e) == {i \in DOMAIN s : s[i] = e}
              J(e) == {j \in DOMAIN t : t[j] = e}
              h(e) == [i \in I(e) |-> g[i]]
  <1>1. ASSUME NEW e
        PROVE  /\ h(e) \in Injection(I(e), J(e)) /\ IsFiniteSet(J(e))
               /\ Cardinality(I(e)) <= Cardinality(J(e))
               /\ (\A j \in 1 .. Len(t) : \E i \in 1 .. Len(s) : g[i] = j) =>
                    Cardinality(I(e)) = Cardinality(J(e))
    <2>1. h(e) \in [I(e) -> J(e)]
      BY <1>0
    <2>2. \A i, j \in I(e) : h(e)[i] = h(e)[j] => i = j
      BY <1>0
    <2>3. J(e) \in SUBSET (1 .. Len(t))
      BY <1>0
    <2>4. (\A j \in 1 .. Len(t) : \E i \in 1 .. Len(s) : g[i] = j)
            => \A j \in J(e) : \E i \in I(e) : h(e)[i] = j
      <3>. SUFFICES ASSUME \A j \in 1 .. Len(t) : \E i \in 1 .. Len(s) : g[i] = j,
                           NEW j \in J(e)
                    PROVE  \E i \in I(e) : h(e)[i] = j
        OBVIOUS
      <3>1. PICK i \in 1 .. Len(s) : g[i] = j
        BY <1>0
      <3>2. i \in I(e)
        BY <1>0, <3>1
      <3>. QED
        BY <3>1, <3>2
    <2>. DEFINE f == h(e)
                A == I(e)
                B == J(e)
    <2>5. /\ f \in [A -> B] /\ \A i, j \in A : f[i] = f[j] => i = j
          /\ B \in SUBSET (1 .. Len(t))
          /\ (\A j \in 1 .. Len(t) : \E i \in 1 .. Len(s) : g[i] = j)
               => \A j \in B : \E i \in A : f[i] = j
      BY <2>1, <2>2, <2>3, <2>4
    <2>. HIDE DEF f, A, B
    <2>6. f \in Injection(A, B)
      BY <2>5, Fun_IsInj
    <2>7. IsFiniteSet(B)
      BY <1>0, <2>5, FS_Subset
    <2>8. /\ Cardinality(A) <= Cardinality(B)
          /\ Cardinality(A) = Cardinality(B) <=> f \in Surjection(A, B)
      BY <2>6, <2>7, FS_Injection
    <2>9. (\A j \in B : \E i \in A : f[i] = j) => f \in Surjection(A, B)
      BY <2>5 DEF Surjection
    <2>. QED
      BY <2>5, <2>6, <2>7, <2>8, <2>9 DEF f, A, B
  <1>. HIDE DEF I, J, h
  <1>2. /\ DOMAIN Bagged(s) = ToSet(s) /\ DOMAIN Bagged(t) = ToSet(t)
        /\ Bagged(s) = [e \in ToSet(s) |-> Cardinality(I(e))]
        /\ Bagged(t) = [e \in ToSet(t) |-> Cardinality(J(e))]
    BY DEF Bagged, I, J
  <1>3. ToSet(s) \subseteq ToSet(t)
    BY <1>0 DEF ToSet
  <1>4. ASSUME NEW e \in ToSet(s) PROVE Bagged(s)[e] <= Times(Bagged(t), e)
    <2>1. Bagged(s)[e] = Cardinality(I(e)) /\ Times(Bagged(t), e) = Cardinality(J(e))
      BY <1>2, <1>3 DEF Times
    <2>. QED
      BY <1>1, <2>1
  <1>5. ASSUME \A j \in 1 .. Len(t) : \E i \in 1 .. Len(s) : g[i] = j
        PROVE  Bagged(s) = Bagged(t)
    <2>1. ToSet(t) \subseteq ToSet(s)
      <3>. SUFFICES ASSUME NEW j \in 1 .. Len(t) PROVE t[j] \in ToSet(s)
        BY <1>0 DEF ToSet
      <3>1. PICK i \in 1 .. Len(s) : g[i] = j
        BY <1>5
      <3>2. s[i] = t[j] /\ i \in DOMAIN s
        BY <1>0, <3>1
      <3>. QED
        BY <3>2 DEF ToSet
    <2>2. \A e : Cardinality(I(e)) = Cardinality(J(e))
      BY <1>1, <1>5
    <2>. QED
      BY <1>2, <1>3, <2>1, <2>2
  <1>. QED
    BY <1>2, <1>4, <1>5

LEMMA HoleInPlane ==
  ASSUME NEW c \in Point, NEW r \in Int
  PROVE  /\ InPlane(ThroughHole(c, r)) = c
         /\ ThroughHole(c, r).diameter \div 2 = r
  <1>. DEFINE h == ThroughHole(c, r)
  <1>1. h.at = <<c[1], c[2], 0>> /\ h.axis = Z /\ h.diameter = 2 * r
    BY DEF ThroughHole
  <1>2. (2 * r) \div 2 = r
    OBVIOUS
  <1>3. PlaneAxes(h.axis) = <<X, Y>>
    BY <1>1 DEF PlaneAxes, X, Z
  <1>. HIDE DEF h
  <1>4. InPlane(h) = [k \in 1 .. 2 |-> h.at[<<1, 2>>[k]]]
    BY <1>3 DEF InPlane, X, Y
  <1>5. c \in Int \X Int /\ c = <<c[1], c[2]>>
    BY Coordinates DEF Point
  <1>6. \A k \in 1 .. 2 : k = 1 \/ k = 2
    OBVIOUS
  <1>7. \A k \in 1 .. 2 : h.at[<<1, 2>>[k]] = c[k]
    BY <1>1, <1>6
  <1>8. InPlane(h) = [k \in 1 .. 2 |-> c[k]]
    BY <1>4, <1>7
  <1>9. c = [k \in 1 .. 2 |-> c[k]]
    BY <1>5
  <1>. QED
    BY <1>1, <1>2, <1>8, <1>9 DEF h

(* A document with every circle, or with no circle twice.                  *)
LEMMA CirclesOfDocument ==
  ASSUME circles \in Seq(Drawn), document.holes \in Seq(AnyHole),
         NEW B \in SUBSET (1 .. Len(circles)), Lists(document.holes, B, DrawnHoles)
  PROVE  /\ \A c \in DOMAIN Bagged(DocumentCircles) :
              Bagged(DocumentCircles)[c] <= Times(Bagged(circles), c)
         /\ B = 1 .. Len(circles) => Bagged(DocumentCircles) = Bagged(circles)
  <1>. DEFINE N == Len(circles)
              hs == document.holes
              L == Len(hs)
  <1>1. PICK at \in Bijection(1 .. N, 1 .. N) :
              \A n \in 1 .. N :
                /\ Holes[n].center = circles[at[n]].center
                /\ Holes[n].radius = circles[at[n]].radius
    BY HolesAreCircles
  <1>2. PICK f \in Bijection(1 .. L, B) : \A i \in 1 .. L : hs[i] = DrawnHoles[f[i]]
    BY DEF Lists
  <1>3. /\ at \in [1 .. N -> 1 .. N]
        /\ \A m, n \in 1 .. N : at[m] = at[n] => m = n
        /\ \A i \in 1 .. N : \E n \in 1 .. N : at[n] = i
    <2>. HIDE DEF N
    <2>. QED
      BY DEF Bijection, Injection, Surjection, IsInjective
  <1>4. /\ f \in [1 .. L -> B]
        /\ \A i, j \in 1 .. L : f[i] = f[j] => i = j
        /\ \A n \in B : \E i \in 1 .. L : f[i] = n
    BY <1>2, Bijections
  <1>5. L \in Nat /\ DOMAIN hs = 1 .. L
    OBVIOUS
  <1>. DEFINE g == [i \in 1 .. L |-> at[f[i]]]
              s == DocumentCircles
  <1>6. /\ DOMAIN s = 1 .. L
        /\ \A i \in 1 .. L : s[i] = [center |-> InPlane(hs[i]), radius |-> hs[i].diameter \div 2]
        /\ s = [i \in 1 .. L |-> s[i]]
    BY <1>5 DEF DocumentCircles
  <1>. HIDE DEF s
  <1>7. ASSUME NEW i \in 1 .. L
        PROVE  /\ g[i] \in 1 .. N /\ g[i] = at[f[i]] /\ s[i] = circles[g[i]] /\ s[i] \in Drawn
    <2>1. f[i] \in 1 .. N /\ g[i] = at[f[i]] /\ g[i] \in 1 .. N
      BY <1>3, <1>4
    <2>. DEFINE c == circles[g[i]]
    <2>2. c \in Drawn /\ c.center \in Point /\ c.radius \in Int
          /\ c = [center |-> c.center, radius |-> c.radius]
      <3>1. c \in Drawn
        BY <2>1
      <3>. QED
        BY <3>1 DEF Drawn
    <2>3. hs[i] = ThroughHole(c.center, c.radius)
      <3>1. hs[i] = DrawnHoles[f[i]]
        BY <1>2
      <3>2. DrawnHoles[f[i]] = ThroughHole(Holes[f[i]].center, Holes[f[i]].radius)
        BY <2>1 DEF DrawnHoles, DrawnHole
      <3>3. Holes[f[i]].center = c.center /\ Holes[f[i]].radius = c.radius
        BY <1>1, <2>1
      <3>. QED
        BY <3>1, <3>2, <3>3
    <2>. HIDE DEF c
    <2>4. InPlane(hs[i]) = c.center /\ hs[i].diameter \div 2 = c.radius
      BY <2>2, <2>3, HoleInPlane
    <2>5. s[i] = c
      BY <1>6, <2>2, <2>4
    <2>. QED
      BY <2>1, <2>2, <2>5 DEF c
  <1>8. s \in Seq(Drawn) /\ Len(s) = L
    <2>. HIDE DEF L
    <2>1. s \in [1 .. L -> Drawn]
      BY <1>6, <1>7
    <2>. QED
      BY <1>5, <2>1
  <1>9. g \in [1 .. Len(s) -> 1 .. Len(circles)]
    BY <1>7, <1>8
  <1>10. \A i, j \in 1 .. L : g[i] = g[j] => i = j
    <2>. TAKE i, j \in 1 .. L
    <2>. HAVE g[i] = g[j]
    <2>1. at[f[i]] = at[f[j]] /\ f[i] \in 1 .. N /\ f[j] \in 1 .. N
      BY <1>4, <1>7
    <2>. QED
      BY <1>3, <1>4, <2>1
  <1>11. ASSUME B = 1 .. N PROVE \A j \in 1 .. N : \E i \in 1 .. L : g[i] = j
    <2>. TAKE j \in 1 .. N
    <2>1. PICK n \in 1 .. N : at[n] = j
      BY <1>3
    <2>2. PICK i \in 1 .. L : f[i] = n
      BY <1>4, <1>11, <2>1
    <2>. QED
      BY <1>7, <2>1, <2>2
  <1>. HIDE DEF g
  <1>12. /\ \A i, j \in 1 .. Len(s) : g[i] = g[j] => i = j
         /\ \A i \in 1 .. Len(s) : s[i] = circles[g[i]]
         /\ B = 1 .. Len(circles) =>
              \A j \in 1 .. Len(circles) : \E i \in 1 .. Len(s) : g[i] = j
    BY <1>7, <1>8, <1>10, <1>11
  <1>13. /\ \A e \in DOMAIN Bagged(s) : Bagged(s)[e] <= Times(Bagged(circles), e)
         /\ (\A j \in 1 .. Len(circles) : \E i \in 1 .. Len(s) : g[i] = j)
              => Bagged(s) = Bagged(circles)
    <2>. HIDE DEF N, L, hs
    <2>. QED
      BY <1>8, <1>9, <1>12, BagsOf
  <1>. QED
    BY <1>12, <1>13 DEF s

----------------------------------------------------------------------------
(* HolesSurvive: the invariant, and each step                              *)

(* Every circle is in one pattern, in none but free, or was passed over.   *)
GroupsInv(rest, found) ==
  /\ InOrder(rest)
  /\ \E T : found \in Seq(T)
  /\ \A i \in 1 .. Len(found) :
       SoundPattern(found[i]) /\ found[i].members \cap IdsOf(rest) = {}
  /\ \A i, j \in 1 .. Len(found) : i # j => found[i].members \cap found[j].members = {}

CutsInv(made) ==
  /\ made \in Seq(AnyHole)
  /\ \E B \in SUBSET (1 .. Len(circles)) :
       /\ Lists(made, B, DrawnHoles)
       /\ confirmed # "edited" => B = 1 .. Len(circles)

TreeInv == SoundTree(tree) /\ (confirmed # "edited" => WholeTree(tree))

Planned == {"plan", "standard", "rule", "call", "planned"}

HolesInv ==
  /\ circles \in Seq(Drawn)
  /\ pc \in {"read", "chain"} => patterns = <<>> /\ confirmed = "no"
  /\ pc \in {"patterns", "tree"} => confirmed = "no"
  /\ pc = "patterns" => ~Revolves /\ GroupsInv(free, patterns)
  /\ pc = "tree" => Revolves /\ circles = <<>>
  /\ pc \in {"convert", "validate", "analysed"} /\ drawing.mode # "posted" => TreeInv
  /\ pc = "validate" /\ drawing.mode # "posted" => CutsInv(document.holes)
  /\ pc = "analysed" => confirmed = "no"
  /\ pc \in Planned => drawing.mode = "posted"

LEMMA SameCircles ==
  ASSUME circles' = circles
  PROVE  /\ Holes' = Holes /\ DrawnHoles' = DrawnHoles /\ AnyHole' = AnyHole
  <1>1. Holes' = Holes
    BY DEF Holes, Rank, Before
  <1>2. DrawnHoles' = DrawnHoles
    BY <1>1 DEF DrawnHoles, DrawnHole
  <1>. QED
    BY <1>1, <1>2 DEF AnyHole

LEMMA SameGroups ==
  ASSUME circles' = circles, GroupsInv(free', patterns')
  PROVE  GroupsInv(free, patterns)'
  BY SameCircles DEF GroupsInv, InOrder, SoundPattern, IdsOf

LEMMA SameTree ==
  ASSUME circles' = circles, SoundTree(tree'),
         confirmed' # "edited" => WholeTree(tree')
  PROVE  TreeInv'
  BY SameCircles DEF TreeInv, SoundTree, WholeTree, SoundNode, SoundPattern

LEMMA SameCuts ==
  ASSUME circles' = circles, confirmed' = confirmed, CutsInv(document'.holes)
  PROVE  CutsInv(document.holes)'
  BY SameCircles DEF CutsInv

(* A step that leaves the circles alone, and what was made of them.        *)
LEMMA RestStays ==
  ASSUME HolesInv, circles' = circles,
         pc' \in {"read", "chain"} => /\ pc \in {"read", "chain"}
                                      /\ UNCHANGED <<patterns, confirmed>>,
         pc' \notin {"patterns", "tree", "convert"},
         pc' \in {"validate", "analysed"} =>
           \/ /\ pc = pc' \/ (pc = "validate" /\ pc' = "analysed")
              /\ UNCHANGED <<drawing, tree, document, confirmed>>
           \/ drawing'.mode = "posted",
         pc' = "analysed" => confirmed' = "no",
         pc' \in Planned => drawing'.mode = "posted"
  PROVE  HolesInv'
  <1>1. circles' \in Seq(Drawn)
    BY DEF HolesInv, Drawn, Planned
  <1>2. pc' \in {"read", "chain"} => patterns' = <<>> /\ confirmed' = "no"
    BY DEF HolesInv
  <1>3. pc' \in {"convert", "validate", "analysed"} /\ drawing'.mode # "posted" => TreeInv'
    <2>. SUFFICES ASSUME pc' \in {"validate", "analysed"}, drawing'.mode # "posted"
                  PROVE  TreeInv'
      OBVIOUS
    <2>1. /\ pc \in {"validate", "analysed"}
          /\ UNCHANGED <<drawing, tree, confirmed>>
      OBVIOUS
    <2>2. TreeInv
      BY <2>1 DEF HolesInv
    <2>. QED
      BY <2>1, <2>2, SameTree DEF TreeInv
  <1>4. pc' = "validate" /\ drawing'.mode # "posted" => CutsInv(document.holes)'
    <2>. SUFFICES ASSUME pc' = "validate", drawing'.mode # "posted"
                  PROVE  CutsInv(document.holes)'
      OBVIOUS
    <2>1. pc = "validate" /\ UNCHANGED <<drawing, document, confirmed>>
      OBVIOUS
    <2>2. CutsInv(document.holes)
      BY <2>1 DEF HolesInv
    <2>. QED
      BY <2>1, <2>2, SameCuts
  <1>. QED
    BY <1>1, <1>2, <1>3, <1>4 DEF HolesInv, Planned

LEMMA ReadsCircles ==
  ASSUME ChainTypeOK, HolesInv, ReadEntity
  PROVE  HolesInv'
  <1>. DEFINE e == Head(todo)
  <1>1. e \in Entity
    BY HeadTailProperties DEF ChainTypeOK, ReadEntity
  <1>2. circles' = IF e.kind = "circle"
                   THEN Append(circles, [center |-> e.center, radius |-> e.radius])
                   ELSE circles
    BY DEF ReadEntity
  <1>3. e.kind = "circle" => [center |-> e.center, radius |-> e.radius] \in Drawn
    BY <1>1 DEF Entity, Drawn
  <1>4. circles \in Seq(Drawn) /\ pc = "read" /\ patterns = <<>> /\ confirmed = "no"
    BY DEF HolesInv, ReadEntity
  <1>. HIDE DEF e
  <1>5. circles' \in Seq(Drawn)
    BY <1>2, <1>3, <1>4, AppendProperties
  <1>6. pc' \in {"read", "refused"} /\ UNCHANGED <<patterns, confirmed>>
    BY <1>4 DEF ReadEntity, holes
  <1>7. (Drawn)' = Drawn
    BY DEF Drawn
  <1>. QED
    BY <1>4, <1>5, <1>6, <1>7 DEF HolesInv, Planned

LEMMA InferStep ==
  ASSUME HolesInv, InferOperation
  PROVE  HolesInv'
  <1>1. /\ circles \in Seq(Drawn) /\ pc = "chain" /\ patterns = <<>> /\ confirmed = "no"
        /\ UNCHANGED <<circles, drawing, axes, patterns, confirmed>> /\ free' = Holes
        /\ Revolves => circles = <<>>
        /\ pc' = IF Revolves THEN "tree" ELSE "patterns"
    BY DEF HolesInv, InferOperation, input, result
  <1>2. Revolves' = Revolves
    BY <1>1 DEF Revolves
  <1>3. InOrder(Holes)
    <2>1. /\ Holes \in Seq(HoleRecord) /\ Len(Holes) = Len(circles)
          /\ \A n \in 1 .. Len(circles) : Holes[n].id = n
      BY <1>1, HolesAreCircles
    <2>. QED
      BY <2>1 DEF InOrder
  <1>4. GroupsInv(free', patterns')
    <2>1. patterns' \in Seq({}) /\ Len(patterns') = 0
      BY <1>1
    <2>2. \E T : patterns' \in Seq(T)
      BY <2>1
    <2>3. InOrder(free')
      BY <1>1, <1>3
    <2>4. 1 .. Len(patterns') = {}
      BY <2>1
    <2>. QED
      BY <2>2, <2>3, <2>4 DEF GroupsInv
  <1>5. GroupsInv(free, patterns)'
    BY <1>1, <1>4, SameGroups
  <1>6. circles' \in Seq(Drawn)
    BY <1>1
  <1>7. CASE Revolves
    BY <1>1, <1>2, <1>6, <1>7 DEF HolesInv, Drawn, Planned
  <1>8. CASE ~Revolves
    BY <1>1, <1>2, <1>5, <1>6, <1>8 DEF HolesInv, Drawn, Planned
  <1>. QED
    BY <1>7, <1>8

LEMMA InOrderTail ==
  ASSUME NEW g, InOrder(g), Len(g) > 0
  PROVE  InOrder(Tail(g)) /\ IdsOf(Tail(g)) \in SUBSET IdsOf(g)
  <1>1. g \in Seq(HoleRecord) /\ g # <<>> /\ Len(g) \in Nat
    BY DEF InOrder
  <1>2. /\ Tail(g) \in Seq(HoleRecord) /\ Len(Tail(g)) = Len(g) - 1
        /\ \A i \in 1 .. Len(Tail(g)) : Tail(g)[i] = g[i + 1]
    BY <1>1, HeadTailProperties
  <1>3. \A i \in 1 .. Len(g) - 1 : i + 1 \in 1 .. Len(g)
    BY <1>1
  <1>4. \A i \in 1 .. Len(g) - 1 : /\ Tail(g)[i].id = g[i + 1].id
                                   /\ g[i + 1].id \in 1 .. Len(circles)
                                   /\ Tail(g)[i] = Holes[g[i + 1].id]
    BY <1>2, <1>3 DEF InOrder
  <1>5. ASSUME NEW i \in 1 .. Len(g) - 1, NEW j \in 1 .. Len(g) - 1, i < j
        PROVE  Tail(g)[i].id < Tail(g)[j].id
    <2>1. i + 1 < j + 1 /\ i + 1 \in 1 .. Len(g) /\ j + 1 \in 1 .. Len(g)
      BY <1>3, <1>5
    <2>2. g[i + 1].id < g[j + 1].id
      BY <2>1 DEF InOrder
    <2>. QED
      BY <1>4, <2>2
  <1>6. InOrder(Tail(g))
    BY <1>2, <1>4, <1>5 DEF InOrder
  <1>7. \A i \in 1 .. Len(Tail(g)) : Tail(g)[i].id \in IdsOf(g)
    BY <1>2, <1>3 DEF IdsOf
  <1>. QED
    BY <1>6, <1>7 DEF IdsOf

LEMMA SkipStep ==
  ASSUME HolesInv, SkipCircle
  PROVE  HolesInv'
  <1>1. /\ circles \in Seq(Drawn) /\ pc = "patterns" /\ pc' = "patterns" /\ confirmed = "no"
        /\ ~Revolves /\ GroupsInv(free, patterns) /\ Len(free) >= 3
        /\ free' = Tail(free)
        /\ UNCHANGED <<circles, drawing, axes, patterns, confirmed>>
    BY DEF HolesInv, SkipCircle, input, result
  <1>2. InOrder(free) /\ Len(free) \in Nat
    BY <1>1 DEF GroupsInv, InOrder
  <1>3. InOrder(Tail(free)) /\ IdsOf(Tail(free)) \in SUBSET IdsOf(free)
    BY <1>1, <1>2, InOrderTail
  <1>4. GroupsInv(free', patterns')
    BY <1>1, <1>3 DEF GroupsInv
  <1>5. GroupsInv(free, patterns)'
    BY <1>1, <1>4, SameGroups
  <1>6. ~Revolves'
    BY <1>1 DEF Revolves
  <1>. QED
    BY <1>1, <1>5, <1>6 DEF HolesInv, Drawn, Planned

LEMMA GroupStep ==
  ASSUME HolesInv, GroupPattern
  PROVE  HolesInv'
  <1>. DEFINE found == PatternOf(Group)
              S == {h \in ToSet(free) : h.id \notin found.members}
              n == Len(patterns)
  <1>1. /\ circles \in Seq(Drawn) /\ pc = "patterns" /\ pc' = "patterns" /\ confirmed = "no"
        /\ ~Revolves /\ GroupsInv(free, patterns) /\ Len(free) >= 3
        /\ found # NoPattern
        /\ patterns' = Append(patterns, found)
        /\ free' = Keep(free, S)
        /\ UNCHANGED <<circles, drawing, axes, confirmed>>
    BY DEF HolesInv, GroupPattern, input, result
  <1>2. InOrder(free)
    BY <1>1 DEF GroupsInv
  <1>3. InOrder(Group) /\ Alike(Group) /\ IdsOf(Group) \in SUBSET IdsOf(free)
    <2>. DEFINE R == {h \in ToSet(free) : h.radius = free[1].radius}
    <2>1. \A h \in R : h.radius = free[1].radius
      OBVIOUS
    <2>. HIDE DEF R
    <2>2. /\ InOrder(Keep(free, R)) /\ IdsOf(Keep(free, R)) \in SUBSET IdsOf(free)
          /\ \A i \in 1 .. Len(Keep(free, R)) : Keep(free, R)[i] \in R
      BY <1>2, KeepsOrder
    <2>3. Group = Keep(free, R)
      BY DEF Group, R
    <2>4. Alike(Group)
      <3>1. \A i \in 1 .. Len(Group) : Group[i].radius = free[1].radius
        BY <2>1, <2>2, <2>3
      <3>2. Len(Group) \in Nat
        BY <2>2, <2>3 DEF InOrder
      <3>3. \A i \in 1 .. Len(Group) : 1 \in 1 .. Len(Group)
        BY <3>2
      <3>. QED
        BY <3>1, <3>3 DEF Alike
    <2>. QED
      BY <2>2, <2>3, <2>4
  <1>4. SoundPattern(found) /\ found.members \in SUBSET IdsOf(free)
    BY <1>1, <1>3, PatternSound
  <1>. HIDE DEF found
  <1>5. /\ InOrder(Keep(free, S)) /\ IdsOf(Keep(free, S)) \in SUBSET IdsOf(free)
        /\ \A i \in 1 .. Len(Keep(free, S)) : Keep(free, S)[i].id \notin found.members
    <2>1. \A h \in S : h.id \notin found.members
      OBVIOUS
    <2>. HIDE DEF S
    <2>2. /\ InOrder(Keep(free, S)) /\ IdsOf(Keep(free, S)) \in SUBSET IdsOf(free)
          /\ \A i \in 1 .. Len(Keep(free, S)) : Keep(free, S)[i] \in S
      BY <1>2, KeepsOrder
    <2>. QED
      BY <2>1, <2>2
  <1>. HIDE DEF S
  <1>6. found.members \cap IdsOf(free') = {}
    BY <1>1, <1>5 DEF IdsOf
  <1>7. PICK T : patterns \in Seq(T)
    BY <1>1 DEF GroupsInv
  <1>8. /\ n \in Nat /\ Len(patterns') = n + 1 /\ patterns' \in Seq(T \cup {found})
        /\ \A i \in 1 .. n : patterns'[i] = patterns[i]
        /\ patterns'[n + 1] = found
    <2>1. patterns \in Seq(T \cup {found})
      BY <1>7
    <2>. QED
      BY <1>1, <2>1, AppendProperties
  <1>9. \A i \in 1 .. n + 1 : i \in 1 .. n \/ i = n + 1
    BY <1>8
  <1>10. \A i \in 1 .. n : /\ SoundPattern(patterns[i])
                           /\ patterns[i].members \cap IdsOf(free) = {}
    BY <1>1 DEF GroupsInv
  <1>11. ASSUME NEW i \in 1 .. n + 1
         PROVE  SoundPattern(patterns'[i]) /\ patterns'[i].members \cap IdsOf(free') = {}
    <2>1. CASE i = n + 1
      BY <1>4, <1>6, <1>8, <2>1
    <2>2. CASE i # n + 1
      <3>1. i \in 1 .. n /\ patterns'[i] = patterns[i]
        BY <1>8, <1>9, <2>2
      <3>2. IdsOf(free') \in SUBSET IdsOf(free)
        BY <1>1, <1>5
      <3>3. SoundPattern(patterns[i]) /\ patterns[i].members \cap IdsOf(free) = {}
        BY <1>10, <3>1
      <3>4. patterns[i].members \cap IdsOf(free') = {}
        BY <3>2, <3>3
      <3>. QED
        BY <3>1, <3>3, <3>4
    <2>. QED
      BY <2>1, <2>2
  <1>12. ASSUME NEW i \in 1 .. n + 1, NEW j \in 1 .. n + 1, i # j
         PROVE  patterns'[i].members \cap patterns'[j].members = {}
    <2>1. \A k \in 1 .. n : patterns'[k].members \cap found.members = {}
      BY <1>4, <1>8, <1>10
    <2>2. CASE i = n + 1
      <3>1. j \in 1 .. n
        BY <1>9, <1>12, <2>2
      <3>2. patterns'[j].members \cap found.members = {} /\ patterns'[i] = found
        BY <1>8, <2>1, <2>2, <3>1
      <3>. QED
        BY <3>2
    <2>3. CASE j = n + 1
      <3>1. i \in 1 .. n
        BY <1>9, <1>12, <2>3
      <3>2. patterns'[i].members \cap found.members = {} /\ patterns'[j] = found
        BY <1>8, <2>1, <2>3, <3>1
      <3>. QED
        BY <3>2
    <2>4. CASE i \in 1 .. n /\ j \in 1 .. n
      BY <1>1, <1>8, <1>12, <2>4 DEF GroupsInv
    <2>. QED
      BY <1>9, <2>2, <2>3, <2>4
  <1>13. GroupsInv(free', patterns')
    BY <1>1, <1>5, <1>8, <1>11, <1>12 DEF GroupsInv
  <1>14. GroupsInv(free, patterns)'
    BY <1>1, <1>13, SameGroups
  <1>15. ~Revolves'
    BY <1>1 DEF Revolves
  <1>. QED
    BY <1>1, <1>14, <1>15 DEF HolesInv, Drawn, Planned

LEMMA Joined ==
  ASSUME NEW s, NEW t, \E T : s \in Seq(T), \E T : t \in Seq(T)
  PROVE  (\E T : s \o t \in Seq(T)) /\ ToSet(s \o t) = ToSet(s) \cup ToSet(t)
  <1>1. PICK S : s \in Seq(S)
    OBVIOUS
  <1>2. PICK T : t \in Seq(T)
    OBVIOUS
  <1>3. s \in Seq(S \cup T) /\ t \in Seq(S \cup T)
    BY <1>1, <1>2
  <1>. QED
    BY <1>3, ConcatMembers

LEMMA OfOne ==
  ASSUME NEW x
  PROVE  (\E T : <<x>> \in Seq(T)) /\ ToSet(<<x>>) = {x}
  <1>1. <<x>> \in Seq({x})
    OBVIOUS
  <1>2. DOMAIN <<x>> = 1 .. 1 /\ <<x>>[1] = x /\ 1 \in 1 .. 1 /\ \A i \in 1 .. 1 : i = 1
    OBVIOUS
  <1>. QED
    BY <1>1, <1>2 DEF ToSet

LEMMA OfTwo ==
  ASSUME NEW x, NEW y
  PROVE  (\E T : <<x, y>> \in Seq(T)) /\ ToSet(<<x, y>>) = {x, y}
  <1>1. <<x, y>> \in Seq({x, y})
    OBVIOUS
  <1>2. /\ DOMAIN <<x, y>> = 1 .. 2 /\ <<x, y>>[1] = x /\ <<x, y>>[2] = y
        /\ 1 \in 1 .. 2 /\ 2 \in 1 .. 2 /\ \A i \in 1 .. 2 : i = 1 \/ i = 2
    OBVIOUS
  <1>. QED
    BY <1>1, <1>2 DEF ToSet

LEMMA MadeList ==
  ASSUME NEW N \in Nat, NEW f, f = [i \in 1 .. N |-> f[i]]
  PROVE  DOMAIN f = 1 .. N /\ \E T : f \in Seq(T)
  <1>. DEFINE T == {f[i] : i \in 1 .. N}
  <1>1. \A i \in 1 .. N : f[i] \in T
    OBVIOUS
  <1>. HIDE DEF T
  <1>2. f \in [1 .. N -> T]
    BY <1>1
  <1>3. f \in Seq(T)
    BY <1>2
  <1>. QED
    BY <1>2, <1>3

LEMMA HolesInOrder ==
  ASSUME circles \in Seq(Drawn)
  PROVE  InOrder(Holes) /\ IdsOf(Holes) = 1 .. Len(circles)
  <1>1. /\ Holes \in Seq(HoleRecord) /\ Len(Holes) = Len(circles)
        /\ \A n \in 1 .. Len(circles) : Holes[n].id = n
    BY HolesAreCircles
  <1>2. InOrder(Holes)
    BY <1>1 DEF InOrder
  <1>. QED
    BY <1>1, <1>2 DEF IdsOf

(* A circle in no pattern has a node of its own.                           *)
LEMMA SingleNodes ==
  ASSUME circles \in Seq(Drawn)
  PROVE  /\ \E T : HoleNodes \in Seq(T)
         /\ \A x \in ToSet(HoleNodes) :
              /\ IsNode(x) /\ x.op = "circle_hole" /\ x.id = <<"circle", x.id[2]>>
              /\ x.id[2] \in (1 .. Len(circles)) \ Patterned
              /\ x.data.center = Holes[x.id[2]].center
              /\ x.data.radius = Holes[x.id[2]].radius
         /\ \A n \in (1 .. Len(circles)) \ Patterned :
              \E x \in ToSet(HoleNodes) : x.op = "circle_hole" /\ x.id[2] = n
  <1>. DEFINE S == {h \in ToSet(Holes) : h.id \notin Patterned}
              single == Keep(Holes, S)
              node(h) == Node(<<"circle", h.id>>, "circle_hole", ProfileNode,
                              [center |-> h.center, radius |-> h.radius])
              N == Len(single)
              nodes == [i \in 1 .. N |-> node(single[i])]
  <1>1. InOrder(Holes) /\ IdsOf(Holes) = 1 .. Len(circles)
    BY HolesInOrder
  <1>2. \A h : h \in S <=> h \in ToSet(Holes) /\ h.id \notin Patterned
    OBVIOUS
  <1>3. HoleNodes = [i \in DOMAIN single |-> node(single[i])]
    BY DEF HoleNodes
  <1>. HIDE DEF S
  <1>4. /\ InOrder(single) /\ IdsOf(single) = {e \in IdsOf(Holes) : Holes[e] \in S}
        /\ \A i \in 1 .. N : single[i] \in S
    BY <1>1, KeepsOrder
  <1>. HIDE DEF single
  <1>5. single \in Seq(HoleRecord) /\ N \in Nat /\ DOMAIN single = 1 .. N
    BY <1>4 DEF InOrder
  <1>6. HoleNodes = nodes
    BY <1>3, <1>5
  <1>7. \A i \in 1 .. N : nodes[i] = node(single[i])
    OBVIOUS
  <1>8. \A h : /\ IsNode(node(h)) /\ node(h).op = "circle_hole" /\ node(h).id = <<"circle", h.id>>
               /\ node(h).id[2] = h.id
               /\ node(h).data.center = h.center /\ node(h).data.radius = h.radius
    BY DEF Node, IsNode
  <1>9. DOMAIN nodes = 1 .. N /\ \E T : nodes \in Seq(T)
    BY <1>5, MadeList
  <1>. HIDE DEF node, nodes
  <1>10. ToSet(HoleNodes) = {nodes[i] : i \in 1 .. N}
    BY <1>6, <1>9 DEF ToSet
  <1>11. ASSUME NEW i \in 1 .. N
         PROVE  /\ IsNode(nodes[i])
                /\ nodes[i].op = "circle_hole" /\ nodes[i].id = <<"circle", nodes[i].id[2]>>
                /\ nodes[i].id[2] \in (1 .. Len(circles)) \ Patterned
                /\ nodes[i].data.center = Holes[nodes[i].id[2]].center
                /\ nodes[i].data.radius = Holes[nodes[i].id[2]].radius
    <2>1. /\ single[i].id \in 1 .. Len(circles) /\ single[i] = Holes[single[i].id]
          /\ single[i].id \notin Patterned
      BY <1>2, <1>4 DEF InOrder
    <2>2. /\ IsNode(nodes[i])
          /\ nodes[i].op = "circle_hole" /\ nodes[i].id = <<"circle", single[i].id>>
          /\ nodes[i].id[2] = single[i].id /\ nodes[i].data.center = single[i].center
          /\ nodes[i].data.radius = single[i].radius
      BY <1>7, <1>8
    <2>. QED
      BY <2>1, <2>2
  <1>12. ASSUME NEW n \in (1 .. Len(circles)) \ Patterned
         PROVE  \E i \in 1 .. N : nodes[i].op = "circle_hole" /\ nodes[i].id[2] = n
    <2>1. Holes[n].id = n /\ Holes[n] \in ToSet(Holes)
      <3>1. /\ Holes \in Seq(HoleRecord) /\ Len(Holes) = Len(circles) /\ Holes[n].id = n
        BY HolesAreCircles
      <3>2. DOMAIN Holes = 1 .. Len(circles)
        BY <3>1
      <3>. QED
        BY <3>1, <3>2 DEF ToSet
    <2>2. n \in IdsOf(single)
      BY <1>1, <1>2, <1>4, <2>1
    <2>3. PICK i \in 1 .. N : single[i].id = n
      BY <2>2 DEF IdsOf
    <2>4. nodes[i].op = "circle_hole" /\ nodes[i].id[2] = single[i].id
      BY <1>7, <1>8
    <2>. QED
      BY <2>3, <2>4
  <1>13. \E T : HoleNodes \in Seq(T)
    BY <1>6, <1>9
  <1>14. \A x \in ToSet(HoleNodes) :
              /\ IsNode(x) /\ x.op = "circle_hole" /\ x.id = <<"circle", x.id[2]>>
              /\ x.id[2] \in (1 .. Len(circles)) \ Patterned
              /\ x.data.center = Holes[x.id[2]].center
              /\ x.data.radius = Holes[x.id[2]].radius
    BY <1>10, <1>11
  <1>15. \A n \in (1 .. Len(circles)) \ Patterned :
              \E x \in ToSet(HoleNodes) : x.op = "circle_hole" /\ x.id[2] = n
    BY <1>10, <1>12
  <1>. QED
    BY <1>13, <1>14, <1>15

LEMMA GroupNodes ==
  ASSUME \E T : patterns \in Seq(T)
  PROVE  /\ \E T : PatternNodes \in Seq(T)
         /\ \A x \in ToSet(PatternNodes) :
              /\ IsNode(x) /\ x.op = "hole_pattern" /\ x.id = <<"pattern", x.id[2]>>
              /\ x.id[2] \in 1 .. Len(patterns) /\ x.data = patterns[x.id[2]]
         /\ \A i \in 1 .. Len(patterns) :
              \E x \in ToSet(PatternNodes) : x.op = "hole_pattern" /\ x.data = patterns[i]
         /\ Patterned = UNION {patterns[i].members : i \in 1 .. Len(patterns)}
  <1>. DEFINE N == Len(patterns)
              node(i) == Node(<<"pattern", i>>, "hole_pattern", ProfileNode, patterns[i])
              nodes == [i \in 1 .. N |-> node(i)]
  <1>1. N \in Nat /\ DOMAIN patterns = 1 .. N
    OBVIOUS
  <1>2. PatternNodes = nodes
    BY <1>1 DEF PatternNodes
  <1>3. \A i \in 1 .. N : nodes[i] = node(i)
    OBVIOUS
  <1>4. \A i : /\ IsNode(node(i)) /\ node(i).op = "hole_pattern" /\ node(i).id = <<"pattern", i>>
               /\ node(i).id[2] = i /\ node(i).data = patterns[i]
    BY DEF Node, IsNode
  <1>5. DOMAIN nodes = 1 .. N /\ \E T : nodes \in Seq(T)
    BY <1>1, MadeList
  <1>6. Patterned = UNION {patterns[i].members : i \in 1 .. N}
    BY <1>1 DEF Patterned
  <1>. HIDE DEF node, nodes
  <1>7. ToSet(PatternNodes) = {nodes[i] : i \in 1 .. N}
    BY <1>2, <1>5 DEF ToSet
  <1>. QED
    BY <1>2, <1>3, <1>4, <1>5, <1>6, <1>7

Plain(x) == IsNode(x) /\ x.op \notin {"circle_hole", "hole_pattern"}

LEMMA PlainIsSound ==
  ASSUME NEW x, Plain(x)
  PROVE  SoundNode(x) /\ ~HoleNode(x)
  BY DEF Plain, SoundNode, HoleNode

(* Circles of their own and patterns share none.                           *)
LEMMA BuiltTree ==
  ASSUME circles \in Seq(Drawn), GroupsInv(free, patterns),
         NEW t, \E T : t \in Seq(T), NEW P,
         ToSet(t) = P \cup ToSet(HoleNodes) \cup ToSet(PatternNodes),
         \A x \in P : Plain(x)
  PROVE  SoundTree(t) /\ WholeTree(t)
  <1>. DEFINE A == ToSet(HoleNodes)
              B == ToSet(PatternNodes)
              N == Len(circles)
  <1>1. /\ \A x \in A : /\ IsNode(x) /\ x.op = "circle_hole" /\ x.id = <<"circle", x.id[2]>>
                        /\ x.id[2] \in (1 .. N) \ Patterned
                        /\ x.data.center = Holes[x.id[2]].center
                        /\ x.data.radius = Holes[x.id[2]].radius
        /\ \A n \in (1 .. N) \ Patterned : \E x \in A : x.op = "circle_hole" /\ x.id[2] = n
    BY SingleNodes
  <1>2. \E T : patterns \in Seq(T)
    BY DEF GroupsInv
  <1>3. /\ \A x \in B : /\ IsNode(x) /\ x.op = "hole_pattern" /\ x.id = <<"pattern", x.id[2]>>
                        /\ x.id[2] \in 1 .. Len(patterns) /\ x.data = patterns[x.id[2]]
        /\ \A i \in 1 .. Len(patterns) :
             \E x \in B : x.op = "hole_pattern" /\ x.data = patterns[i]
        /\ Patterned = UNION {patterns[i].members : i \in 1 .. Len(patterns)}
    BY <1>2, GroupNodes
  <1>. HIDE DEF A, B
  <1>4. \A x : x \in ToSet(t) <=> x \in P \/ x \in A \/ x \in B
    BY DEF A, B
  <1>5. \A x \in A : /\ SoundNode(x) /\ HoleNode(x) /\ Owned(x) = {x.id[2]}
                     /\ Owned(x) \cap Patterned = {}
    BY <1>1 DEF SoundNode, HoleNode, Owned
  <1>6. \A x \in B : /\ SoundNode(x) /\ HoleNode(x)
                     /\ Owned(x) = patterns[x.id[2]].members
                     /\ Owned(x) \in SUBSET Patterned
    <2>1. \A i \in 1 .. Len(patterns) : SoundPattern(patterns[i])
      BY DEF GroupsInv
    <2>. QED
      BY <1>3, <2>1 DEF SoundNode, HoleNode, Owned
  <1>7. \A x \in ToSet(t) : SoundNode(x)
    BY <1>4, <1>5, <1>6, PlainIsSound
  <1>8. ASSUME NEW x \in ToSet(t), NEW y \in ToSet(t), HoleNode(x), HoleNode(y), x.id # y.id
        PROVE  Owned(x) \cap Owned(y) = {}
    <2>1. x \in A \cup B /\ y \in A \cup B
      BY <1>4, <1>8, PlainIsSound
    <2>2. CASE x \in A /\ y \in A
      <3>1. x.id[2] # y.id[2]
        <4>1. x.id = <<"circle", x.id[2]>> /\ y.id = <<"circle", y.id[2]>>
          BY <1>1, <2>2
        <4>. QED
          BY <1>8, <4>1, Zenon
      <3>. QED
        BY <1>5, <2>2, <3>1
    <2>3. CASE x \in B /\ y \in B
      <3>1. /\ x.id[2] # y.id[2] /\ x.id[2] \in 1 .. Len(patterns)
            /\ y.id[2] \in 1 .. Len(patterns)
        <4>1. /\ x.id = <<"pattern", x.id[2]>> /\ y.id = <<"pattern", y.id[2]>>
              /\ x.id[2] \in 1 .. Len(patterns) /\ y.id[2] \in 1 .. Len(patterns)
          BY <1>3, <2>3
        <4>. QED
          BY <1>8, <4>1, Zenon
      <3>2. patterns[x.id[2]].members \cap patterns[y.id[2]].members = {}
        BY <3>1 DEF GroupsInv
      <3>. QED
        BY <1>6, <2>3, <3>2
    <2>4. CASE x \in A /\ y \in B
      BY <1>5, <1>6, <2>4
    <2>5. CASE x \in B /\ y \in A
      BY <1>5, <1>6, <2>5
    <2>. QED
      BY <2>1, <2>2, <2>3, <2>4, <2>5
  <1>9. ASSUME NEW n \in 1 .. N
        PROVE  \E x \in ToSet(t) : HoleNode(x) /\ n \in Owned(x)
    <2>1. CASE n \in Patterned
      <3>1. PICK i \in 1 .. Len(patterns) : n \in patterns[i].members
        BY <1>3, <2>1
      <3>2. PICK x \in B : x.op = "hole_pattern" /\ x.data = patterns[i]
        BY <1>3
      <3>3. HoleNode(x) /\ n \in Owned(x)
        BY <3>1, <3>2 DEF HoleNode, Owned
      <3>. QED
        BY <1>4, <3>3
    <2>2. CASE n \notin Patterned
      <3>1. PICK x \in A : x.op = "circle_hole" /\ x.id[2] = n
        BY <1>1, <2>2
      <3>2. HoleNode(x) /\ n \in Owned(x)
        BY <3>1 DEF HoleNode, Owned
      <3>. QED
        BY <1>4, <3>2
    <2>. QED
      BY <2>1, <2>2
  <1>10. SoundTree(t)
    BY <1>7, <1>8 DEF SoundTree
  <1>11. WholeTree(t)
    BY <1>9 DEF WholeTree
  <1>. QED
    BY <1>10, <1>11

(* A revolved part has no holes.                                           *)
LEMMA TurnedTree ==
  ASSUME circles = <<>>, NEW t, \E T : t \in Seq(T), \A x \in ToSet(t) : Plain(x)
  PROVE  SoundTree(t) /\ WholeTree(t)
  <1>1. 1 .. Len(circles) = {}
    OBVIOUS
  <1>2. WholeTree(t)
    BY <1>1 DEF WholeTree
  <1>3. \A x \in ToSet(t) : SoundNode(x) /\ ~HoleNode(x)
    BY PlainIsSound
  <1>. QED
    BY <1>2, <1>3 DEF SoundTree

LEMMA BuildStep ==
  ASSUME HolesInv, BuildTree
  PROVE  HolesInv'
  <1>. DEFINE turned ==
                <<Node(ProfileNode, "profile_loop", ProfileNode, chain),
                  Node(<<"revolve", 1>>, "revolve_profile", ProfileNode, RevolutionAxis)>>
              base ==
                <<Node(ProfileNode, "profile_loop", ProfileNode,
                       IF Chamfered(chain) THEN SharpRectangle(chain) ELSE chain),
                  Node(<<"extrude", 1>>, "extrude_profile", ProfileNode, Thickness)>>
              cut == Node(<<"chamfer", 1>>, "chamfer_edges", ProfileNode, ChamferSize(chain))
              cuts == IF Chamfered(chain) THEN <<cut>> ELSE <<>>
  <1>1. /\ pc \in {"tree", "patterns"} /\ pc' = "convert"
        /\ UNCHANGED <<circles, drawing, axes, confirmed>> /\ confirmed = "no"
        /\ circles \in Seq(Drawn)
        /\ pc = "tree" => Revolves /\ circles = <<>>
        /\ pc = "patterns" => ~Revolves /\ GroupsInv(free, patterns)
        /\ tree' = IF Revolves THEN turned ELSE base \o HoleNodes \o PatternNodes \o cuts
    BY DEF HolesInv, BuildTree, input
  <1>2. \A id, parent, data, op :
          /\ Node(id, op, parent, data).op = op
          /\ op \in {"profile_loop", "revolve_profile", "extrude_profile", "chamfer_edges"}
               => Plain(Node(id, op, parent, data))
    BY DEF Node, Plain, IsNode
  <1>3. /\ (\E T : turned \in Seq(T)) /\ \A x \in ToSet(turned) : Plain(x)
    <2>. DEFINE a == Node(ProfileNode, "profile_loop", ProfileNode, chain)
                b == Node(<<"revolve", 1>>, "revolve_profile", ProfileNode, RevolutionAxis)
    <2>1. Plain(a) /\ Plain(b)
      BY <1>2
    <2>. HIDE DEF a, b
    <2>2. (\E T : <<a, b>> \in Seq(T)) /\ ToSet(<<a, b>>) = {a, b}
      BY OfTwo
    <2>. QED
      BY <2>1, <2>2 DEF a, b
  <1>4. /\ (\E T : base \in Seq(T)) /\ \A x \in ToSet(base) : Plain(x)
    <2>. DEFINE a == Node(ProfileNode, "profile_loop", ProfileNode,
                          IF Chamfered(chain) THEN SharpRectangle(chain) ELSE chain)
                b == Node(<<"extrude", 1>>, "extrude_profile", ProfileNode, Thickness)
    <2>1. Plain(a) /\ Plain(b)
      BY <1>2
    <2>. HIDE DEF a, b
    <2>2. (\E T : <<a, b>> \in Seq(T)) /\ ToSet(<<a, b>>) = {a, b}
      BY OfTwo
    <2>. QED
      BY <2>1, <2>2 DEF a, b
  <1>5. /\ (\E T : cuts \in Seq(T)) /\ \A x \in ToSet(cuts) : Plain(x)
    <2>1. Plain(cut)
      BY <1>2
    <2>. HIDE DEF cut
    <2>2. (\E T : <<cut>> \in Seq(T)) /\ ToSet(<<cut>>) = {cut}
      BY OfOne
    <2>3. /\ \E T : <<>> \in Seq(T)
          /\ ToSet(<<>>) = {}
      <3>1. <<>> \in Seq({})
        OBVIOUS
      <3>. QED
        BY <3>1 DEF ToSet
    <2>. QED
      BY <2>1, <2>2, <2>3
  <1>. HIDE DEF turned, base, cut, cuts
  <1>6. ASSUME Revolves PROVE SoundTree(tree') /\ WholeTree(tree')
    <2>1. circles = <<>> /\ tree' = turned
      BY <1>1, <1>6
    <2>. QED
      BY <1>3, <2>1, TurnedTree
  <1>7. ASSUME ~Revolves PROVE SoundTree(tree') /\ WholeTree(tree')
    <2>1. GroupsInv(free, patterns) /\ tree' = base \o HoleNodes \o PatternNodes \o cuts
      BY <1>1, <1>7
    <2>2. \E T : HoleNodes \in Seq(T)
      BY <1>1, SingleNodes
    <2>3. \E T : PatternNodes \in Seq(T)
      BY <2>1, GroupNodes DEF GroupsInv
    <2>. DEFINE one == base \o HoleNodes
                two == one \o PatternNodes
                all == two \o cuts
                P == ToSet(base) \cup ToSet(cuts)
    <2>4. (\E T : one \in Seq(T)) /\ ToSet(one) = ToSet(base) \cup ToSet(HoleNodes)
      BY <1>4, <2>2, Joined
    <2>. HIDE DEF one
    <2>5. (\E T : two \in Seq(T)) /\ ToSet(two) = ToSet(one) \cup ToSet(PatternNodes)
      BY <2>3, <2>4, Joined
    <2>. HIDE DEF two
    <2>6. (\E T : all \in Seq(T)) /\ ToSet(all) = ToSet(two) \cup ToSet(cuts)
      BY <1>5, <2>5, Joined
    <2>7. tree' = all
      BY <2>1 DEF two, one
    <2>. HIDE DEF all
    <2>8. ToSet(all) = P \cup ToSet(HoleNodes) \cup ToSet(PatternNodes)
      BY <2>4, <2>5, <2>6
    <2>9. \A x \in P : Plain(x)
      BY <1>4, <1>5
    <2>. HIDE DEF P
    <2>10. SoundTree(all) /\ WholeTree(all)
      BY <1>1, <2>1, <2>6, <2>8, <2>9, BuiltTree
    <2>. QED
      BY <2>7, <2>10
  <1>8. TreeInv'
    BY <1>1, <1>6, <1>7, SameTree
  <1>. QED
    BY <1>1, <1>8 DEF HolesInv, Drawn, Planned

LEMMA ConvertStep ==
  ASSUME HolesInv, Convert
  PROVE  HolesInv'
  <1>1. /\ pc = "convert" /\ pc' = "validate" /\ WellBuilt
        /\ UNCHANGED <<circles, drawing, tree, confirmed>>
        /\ circles \in Seq(Drawn)
        /\ drawing.mode # "posted" => TreeInv
    BY DEF HolesInv, Convert, Convertible, input
  <1>2. document'.holes = TreeHoles
    BY DEF Convert, Converted
  <1>3. ASSUME drawing.mode # "posted"
        PROVE  TreeInv' /\ CutsInv(document.holes)'
    <2>1. SoundTree(tree) /\ (confirmed # "edited" => WholeTree(tree))
      BY <1>1, <1>3 DEF TreeInv
    <2>2. CutsInv(TreeHoles)
      BY <1>1, <2>1, TreeHolesAre DEF CutsInv
    <2>. QED
      BY <1>1, <1>2, <2>1, <2>2, SameTree, SameCuts
  <1>. QED
    BY <1>1, <1>3 DEF HolesInv, Drawn, Planned

(* A tree of the same nodes, wherever they hang.                           *)
LEMMA SoundAgain ==
  ASSUME NEW s, SoundTree(s), NEW t, \E T : t \in Seq(T),
         \A i \in 1 .. Len(t) : IsNode(t[i]) /\ \E y \in ToSet(s) :
           t[i].op = y.op /\ t[i].id = y.id /\ t[i].data = y.data
  PROVE  SoundTree(t)
  <1>1. DOMAIN t = 1 .. Len(t)
    OBVIOUS
  <1>2. \A x \in ToSet(t) : IsNode(x) /\ \E y \in ToSet(s) :
          x.op = y.op /\ x.id = y.id /\ x.data = y.data
    BY <1>1 DEF ToSet
  <1>3. ASSUME NEW x \in ToSet(t) PROVE SoundNode(x)
    <2>1. PICK y \in ToSet(s) : x.op = y.op /\ x.id = y.id /\ x.data = y.data
      BY <1>2
    <2>2. SoundNode(y)
      BY DEF SoundTree
    <2>. QED
      BY <1>2, <2>1, <2>2 DEF SoundNode
  <1>4. ASSUME NEW x \in ToSet(t), NEW y \in ToSet(t),
               HoleNode(x), HoleNode(y), x.id # y.id
        PROVE  Owned(x) \cap Owned(y) = {}
    <2>1. PICK v \in ToSet(s) : x.op = v.op /\ x.id = v.id /\ x.data = v.data
      BY <1>2
    <2>2. PICK w \in ToSet(s) : y.op = w.op /\ y.id = w.id /\ y.data = w.data
      BY <1>2
    <2>3. HoleNode(v) /\ HoleNode(w) /\ v.id # w.id
      BY <1>4, <2>1, <2>2 DEF HoleNode
    <2>4. Owned(x) = Owned(v) /\ Owned(y) = Owned(w)
      BY <2>1, <2>2 DEF Owned
    <2>5. Owned(v) \cap Owned(w) = {}
      BY <2>3 DEF SoundTree
    <2>. QED
      BY <2>4, <2>5
  <1>. QED
    BY <1>3, <1>4 DEF SoundTree

(* Whatever the user does, the nodes are those the tree had.               *)
LEMMA EditedNodes ==
  ASSUME \E T : tree \in Seq(T), \A x \in ToSet(tree) : IsNode(x),
         NEW t \in Repeated \cup Dropped \cup Moved
  PROVE  /\ \E T : t \in Seq(T)
         /\ \A i \in 1 .. Len(t) : IsNode(t[i]) /\ \E y \in ToSet(tree) :
              t[i].op = y.op /\ t[i].id = y.id /\ t[i].data = y.data
  <1>1. PICK T : tree \in Seq(T)
    OBVIOUS
  <1>. DEFINE n == Len(tree)
              Known(x) == IsNode(x) /\ \E y \in ToSet(tree) :
                            x.op = y.op /\ x.id = y.id /\ x.data = y.data
  <1>2. n \in Nat /\ DOMAIN tree = 1 .. n /\ \A i \in 1 .. n : tree[i] \in ToSet(tree)
    BY <1>1 DEF ToSet
  <1>3. \A i \in 1 .. n : Known(tree[i])
    BY <1>2
  <1>4. CASE t \in Repeated
    <2>1. PICK i \in 1 .. n : t = Append(tree, tree[i])
      BY <1>2, <1>4 DEF Repeated
    <2>2. tree[i] \in T
      BY <1>1
    <2>3. /\ t \in Seq(T) /\ Len(t) = n + 1
          /\ \A j \in 1 .. n : t[j] = tree[j]
          /\ t[n + 1] = tree[i]
      BY <1>1, <2>1, <2>2, AppendProperties
    <2>. HIDE DEF Known
    <2>4. \A j \in 1 .. n + 1 : j \in 1 .. n \/ j = n + 1
      BY <1>2
    <2>5. \A j \in 1 .. Len(t) : Known(t[j])
      BY <1>3, <2>3, <2>4
    <2>. QED
      BY <2>3, <2>5 DEF Known
  <1>5. CASE t \in Dropped
    <2>1. PICK m \in 1 .. n : t = RemoveAt(tree, m)
      BY <1>2, <1>5 DEF Dropped
    <2>2. t \in Seq(T) /\ Without(t, tree, m)
      BY <1>1, <2>1, Removal
    <2>3. \A j \in 1 .. Len(t) : \E i \in 1 .. n : t[j] = tree[i]
      <3>1. /\ Len(t) = n - 1
            /\ \A j \in 1 .. n - 1 : t[j] = tree[IF j < m THEN j ELSE j + 1]
        BY <2>2 DEF Without
      <3>2. \A j \in 1 .. n - 1 : (IF j < m THEN j ELSE j + 1) \in 1 .. n
        BY <1>2
      <3>. QED
        BY <3>1, <3>2
    <2>. HIDE DEF Known
    <2>4. \A j \in 1 .. Len(t) : Known(t[j])
      BY <1>3, <2>3
    <2>. QED
      BY <2>2, <2>4 DEF Known
  <1>6. CASE t \in Moved
    <2>1. PICK i \in 1 .. n : t = [tree EXCEPT ![i].parent = tree[Len(tree)].id]
      BY <1>2, <1>6 DEF Moved
    <2>. DEFINE v == tree[Len(tree)].id
                x == [tree[i] EXCEPT !.parent = v]
    <2>2. /\ t = [j \in 1 .. n |-> IF j = i THEN x ELSE tree[j]]
      BY <1>2, <2>1
    <2>3. Known(x)
      <3>1. tree[i] = Node(tree[i].id, tree[i].op, tree[i].parent, tree[i].data)
        BY <1>3 DEF IsNode
      <3>2. /\ IsNode(x)
            /\ x.op = tree[i].op /\ x.id = tree[i].id /\ x.data = tree[i].data
        BY <3>1 DEF IsNode, Node
      <3>. QED
        BY <1>2, <3>2
    <2>. HIDE DEF x, Known
    <2>4. t = [j \in 1 .. n |-> t[j]] /\ \A j \in 1 .. n : Known(t[j])
      BY <1>3, <2>2, <2>3
    <2>5. DOMAIN t = 1 .. n /\ \E S : t \in Seq(S)
      BY <1>2, <2>4, MadeList
    <2>6. Len(t) = n
      BY <1>2, <2>5
    <2>7. \A j \in 1 .. Len(t) : Known(t[j])
      BY <2>4, <2>6
    <2>. QED
      BY <2>5, <2>7 DEF Known
  <1>. QED
    BY <1>4, <1>5, <1>6

LEMMA EditedTree ==
  ASSUME SoundTree(tree), NEW t \in Repeated \cup Dropped \cup Moved
  PROVE  SoundTree(t)
  <1>1. (\E T : tree \in Seq(T)) /\ \A x \in ToSet(tree) : IsNode(x)
    BY DEF SoundTree, SoundNode
  <1>2. /\ \E T : t \in Seq(T)
        /\ \A i \in 1 .. Len(t) : IsNode(t[i]) /\ \E y \in ToSet(tree) :
             t[i].op = y.op /\ t[i].id = y.id /\ t[i].data = y.data
    BY <1>1, EditedNodes
  <1>. QED
    BY <1>2, SoundAgain

LEMMA ConfirmStep ==
  ASSUME HolesInv, Confirm
  PROVE  HolesInv'
  <1>1. /\ pc = "analysed" /\ pc' = "convert" /\ confirmed = "no"
        /\ UNCHANGED <<circles, drawing>> /\ circles \in Seq(Drawn)
        /\ \/ confirmed' = "as_is" /\ tree' = tree
           \/ confirmed' = "edited" /\ tree' \in Repeated \cup Dropped \cup Moved
        /\ drawing.mode # "posted" => TreeInv
    BY DEF HolesInv, Confirm, input
  <1>2. ASSUME drawing.mode # "posted" PROVE TreeInv'
    <2>1. SoundTree(tree) /\ WholeTree(tree)
      BY <1>1, <1>2 DEF TreeInv
    <2>2. CASE confirmed' = "as_is" /\ tree' = tree
      BY <1>1, <2>1, <2>2, SameTree
    <2>3. CASE confirmed' = "edited" /\ tree' \in Repeated \cup Dropped \cup Moved
      <3>1. SoundTree(tree')
        BY <2>1, <2>3, EditedTree
      <3>. QED
        BY <1>1, <2>3, <3>1, SameTree
    <2>. QED
      BY <1>1, <2>2, <2>3
  <1>. QED
    BY <1>1, <1>2 DEF HolesInv, Drawn, Planned

LEMMA HolesInit ==
  ASSUME PartInit
  PROVE  HolesInv
  <1>1. circles \in Seq(Drawn)
    <2>1. circles = <<>>
      BY DEF PartInit, Init, PlanInit, Begin
    <2>. QED
      BY <2>1
  <1>2. /\ patterns = <<>> /\ confirmed = "no"
        /\ \/ pc = "read"
           \/ pc \in {"validate", "plan"} /\ drawing.mode = "posted"
    BY DEF PartInit, Init, PlanInit, Begin, NoDrawing
  <1>. QED
    BY <1>1, <1>2 DEF HolesInv, Planned

LEMMA SameState ==
  ASSUME HolesInv, UNCHANGED vars
  PROVE  HolesInv'
  <1>1. UNCHANGED <<circles, pc, drawing, patterns, free, axes, tree, document, confirmed>>
    BY DEF vars
  <1>2. /\ circles' \in Seq(Drawn)
        /\ ((Revolves)') <=> Revolves
    BY <1>1 DEF HolesInv, Revolves
  <1>3. pc = "patterns" => GroupsInv(free, patterns)'
    BY <1>1, SameGroups DEF HolesInv
  <1>4. pc \in {"convert", "validate", "analysed"} /\ drawing.mode # "posted" => TreeInv'
    BY <1>1, SameTree DEF HolesInv, TreeInv
  <1>5. pc = "validate" /\ drawing.mode # "posted" => CutsInv(document.holes)'
    BY <1>1, SameCuts DEF HolesInv
  <1>. QED
    BY <1>1, <1>2, <1>3, <1>4, <1>5 DEF HolesInv, Drawn, Planned

LEMMA HolesNext ==
  ASSUME ChainInv, HolesInv, [PartNext]_partVars
  PROVE  HolesInv'
  <1>1. CASE UNCHANGED partVars
    <2>1. UNCHANGED vars
      BY <1>1 DEF partVars
    <2>. QED
      BY <2>1, SameState
  <1>2. CASE ReadEntity
    BY <1>2, ReadsCircles DEF ChainInv
  <1>3. CASE RefuseEntity \/ RefuseLines \/ RefuseShape \/ RefuseTree \/ RefuseChain
    <2>1. UNCHANGED circles /\ pc' = "refused"
      BY <1>3 DEF RefuseEntity, RefuseLines, RefuseShape, RefuseTree, RefuseChain,
                  Refuse, input
    <2>. QED
      BY <2>1, RestStays DEF Planned
  <1>4. CASE EndOfDrawing \/ Link \/ Retry
    <2>1. /\ UNCHANGED circles /\ pc \in {"read", "chain"} /\ pc' \in {"read", "chain"}
          /\ UNCHANGED <<patterns, confirmed>>
      BY <1>4 DEF EndOfDrawing, Link, Retry, input, holes, result
    <2>. QED
      BY <2>1, RestStays DEF Planned
  <1>5. CASE InferOperation
    BY <1>5, InferStep
  <1>6. CASE GroupPattern
    BY <1>6, GroupStep
  <1>7. CASE SkipCircle
    BY <1>7, SkipStep
  <1>8. CASE BuildTree
    BY <1>8, BuildStep
  <1>9. CASE Convert
    BY <1>9, ConvertStep
  <1>10. CASE Validate
    <2>1. /\ pc = "validate" /\ pc' \in {"done", "analysed"}
          /\ pc' = "analysed" => confirmed = "no"
          /\ UNCHANGED <<circles, drawing, tree, document, confirmed>>
      BY <1>10 DEF Validate, input
    <2>. QED
      BY <2>1, RestStays DEF Planned
  <1>11. CASE Confirm
    BY <1>11, ConfirmStep
  <1>12. CASE PlanNext
    <2>1. UNCHANGED <<circles, drawing>> /\ pc \in Planned
      BY <1>12
      DEF PlanNext, PlanByAgent, AgentFails, AskRules, NotConfigured, AskLlm, Answered,
          CallFails, Declined, Unforeseen, PlanByRules, UsePlan, upload, input, Planned
    <2>2. pc' \in Planned \cup {"validate", "refused"}
      BY <1>12
      DEF PlanNext, PlanByAgent, AgentFails, AskRules, NotConfigured, AskLlm, Answered,
          CallFails, Declined, Unforeseen, PlanByRules, UsePlan, Made, LlmFails,
          PlannerError, Planned
    <2>3. drawing'.mode = "posted"
      BY <2>1 DEF HolesInv
    <2>. QED
      BY <2>1, <2>2, <2>3, RestStays DEF Planned
  <1>13. ASSUME NEW b \in Backends, Build(b) PROVE HolesInv'
    <2>1. UNCHANGED circles /\ pc' = "built"
      BY <1>13 DEF Build, request, input
    <2>. QED
      BY <2>1, RestStays DEF Planned
  <1>14. CASE Template
    <2>1. /\ UNCHANGED <<circles, drawing, tree, document, confirmed>>
          /\ pc \in {"analysed", "done"} /\ pc' \in {pc, "packaged"}
      BY <1>14 DEF Template, request, input, result
    <2>2. pc = "analysed" => confirmed = "no"
      BY DEF HolesInv
    <2>. QED
      BY <2>1, <2>2, RestStays DEF Planned
  <1>15. ASSUME NEW more \in Additions, Package(more) PROVE HolesInv'
    <2>1. UNCHANGED circles /\ pc' = "packaged"
      BY <1>15 DEF Package, request, input
    <2>. QED
      BY <2>1, RestStays DEF Planned
  <1>. QED
    BY <1>1, <1>2, <1>3, <1>4, <1>5, <1>6, <1>7, <1>8, <1>9, <1>10, <1>11, <1>12,
       <1>13, <1>14, <1>15
    DEF PartNext, Next

LEMMA HolesAreKept ==
  ASSUME HolesInv
  PROVE  HolesSurvive
  <1>. SUFFICES ASSUME pc = "validate", drawing.mode # "posted"
                PROVE  LET drawn == Bagged(circles)
                           made == Bagged(DocumentCircles)
                       IN /\ confirmed # "edited" => made = drawn
                          /\ \A c \in DOMAIN made : made[c] <= Times(drawn, c)
    BY DEF HolesSurvive
  <1>1. circles \in Seq(Drawn) /\ CutsInv(document.holes)
    BY DEF HolesInv
  <1>2. PICK B \in SUBSET (1 .. Len(circles)) :
          /\ Lists(document.holes, B, DrawnHoles)
          /\ confirmed # "edited" => B = 1 .. Len(circles)
    BY <1>1 DEF CutsInv
  <1>3. document.holes \in Seq(AnyHole)
    BY <1>1 DEF CutsInv
  <1>. QED
    BY <1>1, <1>2, <1>3, CirclesOfDocument

LEMMA HolesInvariant == PartSpec => [](ChainInv /\ HolesInv)
  <1>1. HolesInv /\ ChainInv /\ [PartNext]_<<vars, plan, part, paper>> => HolesInv'
    BY HolesNext DEF partVars
  <1>2. PartInit => HolesInv
    BY HolesInit
  <1>. QED
    BY <1>1, <1>2, ChainInvariant, PTL DEF PartSpec

(* Every circle of a drawing is a hole of the document made of it, as      *)
(* often as it was drawn, whichever patterns the circles were taken for;   *)
(* and if the user repeated, dropped or moved a node of the tree, there is *)
(* still no hole that was not drawn, and none too often.  For every        *)
(* drawing, whatever the number of its circles.                            *)
THEOREM HolesKept == PartSpec => []HolesSurvive
  <1>. QED
    BY HolesInvariant, HolesAreKept, PTL

=============================================================================
