--------------------------- MODULE PartSolidProofs ---------------------------
(***************************************************************************)
(* What is proved of the part that is made from a document, and of its     *)
(* manufacturing drawing, for any document that is uploaded, planned or    *)
(* posted.  Either has an invariant, which needs those of DocumentProofs.  *)
(*                                                                         *)
(*   DrawInv    a drawing that is accepted tells the truth about its part  *)
(*   SolidInv   every compiler makes the part that the document means      *)
(*                                                                         *)
(* Each begins with geometry: how far a solid reaches, what a drawing has  *)
(* a target for, which places a cutter cuts, and the points between the    *)
(* planes of a document.                                                   *)
(***************************************************************************)
EXTENDS DocumentProofs

(* A point in a loop is in the box around the loop's corners.              *)

Closed(l) == \A i \in 1 .. Len(l) : l[i].end = l[(i % Len(l)) + 1].start

LEMMA ClosedBoundary ==
  ASSUME NEW l \in Seq(Segment), l # <<>>, Closed(l)
  PROVE  Boundary(l) = l
  <1>. DEFINE n == Len(l)
              line(i) == Line(IF i = 1 THEN l[1].start ELSE l[i - 1].end, l[i].end)
  <1>1. n \in Nat \ {0} /\ l = [i \in 1 .. n |-> l[i]] /\ \A i \in 1 .. n : l[i] \in Segment
    OBVIOUS
  <1>2. ASSUME NEW i \in 1 .. n PROVE line(i) = l[i]
    <2>1. l[i] = Line(l[i].start, l[i].end)
      BY <1>1 DEF Segment, Line
    <2>2. CASE i = 1
      BY <2>1, <2>2
    <2>3. CASE i # 1
      <3>1. i - 1 \in 1 .. n /\ i - 1 < n /\ (i - 1) + 1 = i
        BY <1>1, <2>3
      <3>2. (i - 1) % n = i - 1
        BY <1>1, <3>1
      <3>3. l[i - 1].end = l[((i - 1) % n) + 1].start
        BY <3>1 DEF Closed
      <3>4. l[i - 1].end = l[i].start
        BY <3>1, <3>2, <3>3
      <3>. QED
        BY <2>1, <2>3, <3>4
    <2>. QED
      BY <2>2, <2>3
  <1>3. Polyline(l) = l
    <2>1. Polyline(l) = [i \in 1 .. n |-> line(i)]
      BY DEF Polyline
    <2>. HIDE DEF line
    <2>. QED
      BY <1>1, <1>2, <2>1
  <1>4. l[n].end = l[1].start
    <2>1. n \in 1 .. n /\ n % n = 0
      BY <1>1
    <2>2. l[n].end = l[(n % n) + 1].start
      BY <2>1 DEF Closed
    <2>. QED
      BY <2>1, <2>2
  <1>. QED
    BY <1>3, <1>4 DEF Boundary

(* Around a loop, something changes an even number of times.               *)
LEMMA EvenlyChanged ==
  ASSUME NEW n \in Nat, n > 0, NEW b \in [1 .. n -> BOOLEAN]
  PROVE  Cardinality({i \in 1 .. n : b[i] # b[(i % n) + 1]}) % 2 = 0
  <1>. DEFINE D(k) == {i \in 1 .. k : b[i] # b[i + 1]}
              S == {k \in Nat : k <= n - 1 =>
                      /\ IsFiniteSet(D(k)) /\ Cardinality(D(k)) \in Nat
                      /\ Cardinality(D(k)) % 2 = 0 <=> b[1] = b[k + 1]}
  <1>1. 0 \in S
    <2>1. D(0) = {}
      OBVIOUS
    <2>. HIDE DEF D
    <2>2. IsFiniteSet(D(0)) /\ Cardinality(D(0)) = 0
      BY <2>1, FS_EmptySet
    <2>. QED
      BY <2>2
  <1>2. ASSUME NEW k \in Nat, k \in S PROVE k + 1 \in S
    <2>. SUFFICES ASSUME k + 1 <= n - 1
                  PROVE  /\ IsFiniteSet(D(k + 1)) /\ Cardinality(D(k + 1)) \in Nat
                         /\ Cardinality(D(k + 1)) % 2 = 0 <=> b[1] = b[(k + 1) + 1]
      OBVIOUS
    <2>1. /\ IsFiniteSet(D(k)) /\ Cardinality(D(k)) \in Nat
          /\ Cardinality(D(k)) % 2 = 0 <=> b[1] = b[k + 1]
      BY <1>2
    <2>2. /\ 1 \in 1 .. n /\ k + 1 \in 1 .. n /\ k + 2 \in 1 .. n /\ (k + 1) + 1 = k + 2
          /\ b[1] \in BOOLEAN /\ b[k + 1] \in BOOLEAN /\ b[k + 2] \in BOOLEAN
      OBVIOUS
    <2>3. \A i \in 1 .. k + 1 : i \in 1 .. k \/ i = k + 1
      OBVIOUS
    <2>4. k + 1 \notin D(k)
      OBVIOUS
    <2>5. CASE b[k + 1] = b[k + 2]
      <3>1. D(k + 1) = D(k)
        BY <2>2, <2>3, <2>5
      <3>. HIDE DEF D
      <3>. QED
        BY <2>1, <2>2, <2>5, <3>1
    <2>6. CASE b[k + 1] # b[k + 2]
      <3>1. D(k + 1) = D(k) \cup {k + 1}
        BY <2>2, <2>3, <2>6
      <3>. HIDE DEF D
      <3>2. /\ IsFiniteSet(D(k + 1))
            /\ Cardinality(D(k + 1)) = Cardinality(D(k)) + 1
        BY <2>1, <2>4, <3>1, FS_AddElement
      <3>. DEFINE c == Cardinality(D(k))
      <3>3. /\ Cardinality(D(k + 1)) = c + 1 /\ c \in Nat
            /\ c % 2 = 0 <=> b[1] = b[k + 1]
        BY <2>1, <3>2
      <3>. HIDE DEF c
      <3>4. (c + 1) % 2 = 0 <=> ~(c % 2 = 0)
        BY <3>3
      <3>5. b[1] = b[k + 2] <=> ~(b[1] = b[k + 1])
        BY <2>2, <2>6
      <3>. QED
        BY <2>2, <3>2, <3>3, <3>4, <3>5
    <2>. QED
      BY <2>5, <2>6
  <1>. HIDE DEF S
  <1>3. n - 1 \in S
    BY <1>1, <1>2, SetInduction
  <1>. DEFINE m == n - 1
              All == {i \in 1 .. n : b[i] # b[(i % n) + 1]}
  <1>4. /\ m \in Nat /\ m + 1 = n /\ IsFiniteSet(D(m)) /\ Cardinality(D(m)) \in Nat
        /\ Cardinality(D(m)) % 2 = 0 <=> b[1] = b[n]
    BY <1>3 DEF S
  <1>5. /\ \A i \in 1 .. m : i \in 1 .. n /\ (i % n) + 1 = i + 1
        /\ n \in 1 .. n /\ (n % n) + 1 = 1
        /\ \A i \in 1 .. n : i \in 1 .. m \/ i = n
        /\ n \notin 1 .. m
    OBVIOUS
  <1>6. n \notin D(m)
    BY <1>5
  <1>7. CASE b[1] = b[n]
    <2>1. All = D(m)
      BY <1>5, <1>7
    <2>. QED
      BY <1>4, <1>7, <2>1
  <1>8. CASE b[1] # b[n]
    <2>1. All = D(m) \cup {n}
      BY <1>5, <1>8
    <2>. HIDE DEF D, All
    <2>. DEFINE c == Cardinality(D(m))
    <2>2. Cardinality(All) = c + 1
      BY <1>4, <1>6, <2>1, FS_AddElement
    <2>3. c \in Nat /\ ~(c % 2 = 0)
      BY <1>4, <1>8
    <2>. HIDE DEF c
    <2>4. Cardinality(All) % 2 = 0
      BY <2>2, <2>3
    <2>. QED
      BY <2>4 DEF All
  <1>. QED
    BY <1>7, <1>8

LEMMA Products ==
  ASSUME NEW a \in Int, NEW b \in Int, NEW c \in Int, a <= b, 0 <= c
  PROVE  a * c <= b * c
  OBVIOUS

LEMMA StrictProducts ==
  ASSUME NEW a \in Int, NEW b \in Int, NEW c \in Int, a < b, 0 < c
  PROVE  a * c < b * c
  OBVIOUS

(* A segment that passes beside p, to the left.                            *)
LEMMA RayRight ==
  ASSUME NEW a \in Int, NEW b \in Int, NEW u \in Int, NEW r \in Int,
         a < b, 0 < b, 0 <= u, u <= r
  PROVE  a * u <= b * r
  <1>1. a * u <= b * u
    BY Products
  <1>2. u * b <= r * b
    BY Products
  <1>3. u * b = b * u /\ r * b = b * r /\ a * u \in Int /\ b * u \in Int /\ b * r \in Int
    OBVIOUS
  <1>. QED
    BY <1>1, <1>2, <1>3

(* ... and to the right.                                                   *)
LEMMA RayLeft ==
  ASSUME NEW a \in Int, NEW b \in Int, NEW u \in Int, NEW r \in Int,
         b < a, b < 0, 0 <= u, u <= r, 0 < r, (0 < u \/ u < r)
  PROVE  b * r < a * u
  <1>0. /\ u * b = b * u /\ r * b = b * r /\ a * u \in Int /\ b * u \in Int /\ b * r \in Int
        /\ u * (-b) = -(b * u) /\ r * (-b) = -(b * r)
    OBVIOUS
  <1>1. CASE 0 < u
    <2>1. b * u < a * u
      BY <1>1, StrictProducts
    <2>2. u * (-b) <= r * (-b)
      BY Products
    <2>. QED
      BY <1>0, <2>1, <2>2
  <1>2. CASE u < r
    <2>1. b * u <= a * u
      BY Products
    <2>2. u * (-b) < r * (-b)
      BY <1>2, StrictProducts
    <2>. QED
      BY <1>0, <2>1, <2>2
  <1>. QED
    BY <1>1, <1>2

LEMMA RaysBeside ==
  ASSUME NEW s \in Segment, NEW p \in Point
  PROVE  /\ (\A q \in {s.start, s.end} : q[2] <= p[2]) => ~RayCrosses(p, s)
         /\ (\A q \in {s.start, s.end} : p[2] < q[2]) => ~RayCrosses(p, s)
         /\ (\A q \in {s.start, s.end} : q[1] < p[1]) => ~RayCrosses(p, s)
         /\ (\A q \in {s.start, s.end} : p[1] < q[1]) =>
              (RayCrosses(p, s) <=> (s.start[2] > p[2]) # (s.end[2] > p[2]))
  <1>. DEFINE x == p[1]
              y == p[2]
              x1 == s.start[1]
              y1 == s.start[2]
              x2 == s.end[1]
              y2 == s.end[2]
              Hits == IF y2 - y1 > 0 THEN (x - x1) * (y2 - y1) < (x2 - x1) * (y - y1)
                      ELSE (x - x1) * (y2 - y1) > (x2 - x1) * (y - y1)
  <1>1. x \in Int /\ y \in Int /\ x1 \in Int /\ y1 \in Int /\ x2 \in Int /\ y2 \in Int
    BY SegmentEnds DEF Point
  <1>2. RayCrosses(p, s) <=> ((y1 > y) # (y2 > y)) /\ Hits
    BY DEF RayCrosses
  <1>3. \A q : q \in {s.start, s.end} <=> q = s.start \/ q = s.end
    OBVIOUS
  <1>. HIDE DEF x, y, x1, y1, x2, y2
  <1>4. ASSUME (y1 > y) # (y2 > y), x1 < x, x2 < x PROVE ~Hits
    <2>. DEFINE a == x2 - x1
                b == x - x1
    <2>1. a \in Int /\ b \in Int /\ a < b /\ 0 < b
      BY <1>1, <1>4
    <2>2. CASE y2 - y1 > 0
      <3>. DEFINE u == y - y1
                  r == y2 - y1
      <3>1. u \in Int /\ r \in Int /\ 0 <= u /\ u <= r
        BY <1>1, <1>4, <2>2
      <3>. HIDE DEF a, b, u, r
      <3>2. a * u <= b * r /\ a * u \in Int /\ b * r \in Int
        BY <2>1, <3>1, RayRight
      <3>3. ~(b * r < a * u)
        BY <3>2
      <3>. QED
        BY <2>2, <3>3 DEF a, b, u, r
    <2>3. CASE ~(y2 - y1 > 0)
      <3>. DEFINE u == y1 - y
                  r == y1 - y2
      <3>1. u \in Int /\ r \in Int /\ 0 <= u /\ u <= r
        BY <1>1, <1>4, <2>3
      <3>2. y2 - y1 = -r /\ y - y1 = -u
        BY <1>1
      <3>. HIDE DEF a, b, u, r
      <3>3. a * u <= b * r /\ a * u \in Int /\ b * r \in Int
        BY <2>1, <3>1, RayRight
      <3>4. b * (-r) = -(b * r) /\ a * (-u) = -(a * u)
        BY <2>1, <3>1
      <3>5. ~(b * (-r) > a * (-u))
        BY <3>3, <3>4
      <3>6. ~(b * (y2 - y1) > a * (y - y1))
        BY <3>2, <3>5
      <3>. QED
        BY <2>3, <3>6 DEF a, b
    <2>. QED
      BY <2>2, <2>3
  <1>5. ASSUME (y1 > y) # (y2 > y), x < x1, x < x2 PROVE Hits
    <2>. DEFINE a == x2 - x1
                b == x - x1
    <2>1. a \in Int /\ b \in Int /\ b < a /\ b < 0
      BY <1>1, <1>5
    <2>2. CASE y2 - y1 > 0
      <3>. DEFINE u == y - y1
                  r == y2 - y1
      <3>1. u \in Int /\ r \in Int /\ 0 <= u /\ u <= r /\ 0 < r /\ u < r
        BY <1>1, <1>5, <2>2
      <3>. HIDE DEF a, b, u, r
      <3>2. b * r < a * u
        BY <2>1, <3>1, RayLeft
      <3>. QED
        BY <2>2, <3>2 DEF a, b, u, r
    <2>3. CASE ~(y2 - y1 > 0)
      <3>. DEFINE u == y1 - y
                  r == y1 - y2
      <3>1. u \in Int /\ r \in Int /\ 0 <= u /\ u <= r /\ 0 < r /\ 0 < u
        BY <1>1, <1>5, <2>3
      <3>2. y2 - y1 = -r /\ y - y1 = -u
        BY <1>1
      <3>. HIDE DEF a, b, u, r
      <3>3. b * r < a * u /\ a * u \in Int /\ b * r \in Int
        BY <2>1, <3>1, RayLeft
      <3>4. b * (-r) = -(b * r) /\ a * (-u) = -(a * u)
        BY <2>1, <3>1
      <3>5. b * (-r) > a * (-u)
        BY <3>3, <3>4
      <3>6. b * (y2 - y1) > a * (y - y1)
        BY <3>2, <3>5
      <3>. QED
        BY <2>3, <3>6 DEF a, b
    <2>. QED
      BY <2>2, <2>3
  <1>. HIDE DEF Hits
  <1>6. (\A q \in {s.start, s.end} : q[2] <= p[2]) => ~((y1 > y) # (y2 > y))
    BY <1>1 DEF y1, y2, y
  <1>7. (\A q \in {s.start, s.end} : p[2] < q[2]) => ~((y1 > y) # (y2 > y))
    BY <1>1 DEF y1, y2, y
  <1>8. (\A q \in {s.start, s.end} : q[1] < p[1]) => x1 < x /\ x2 < x
    BY <1>3 DEF x1, x2, x
  <1>9. (\A q \in {s.start, s.end} : p[1] < q[1]) => x < x1 /\ x < x2
    BY <1>3 DEF x1, x2, x
  <1>10. ((s.start[2] > p[2]) # (s.end[2] > p[2])) <=> ((y1 > y) # (y2 > y))
    BY DEF y1, y2, y
  <1>. QED
    BY <1>2, <1>4, <1>5, <1>6, <1>7, <1>8, <1>9, <1>10

LEMMA PairExtremes ==
  ASSUME NEW a \in Int, NEW b \in Int
  PROVE  /\ Min({a, b}) \in {a, b} /\ Min({a, b}) <= a /\ Min({a, b}) <= b
         /\ Max({a, b}) \in {a, b} /\ a <= Max({a, b}) /\ b <= Max({a, b})
  <1>1. \E x \in {a, b} : \A y \in {a, b} : x <= y
    <2>1. CASE a <= b
      BY <2>1
    <2>2. CASE ~(a <= b)
      BY <2>2
    <2>. QED
      BY <2>1, <2>2
  <1>2. \E x \in {a, b} : \A y \in {a, b} : x >= y
    <2>1. CASE a >= b
      BY <2>1
    <2>2. CASE ~(a >= b)
      BY <2>2
    <2>. QED
      BY <2>1, <2>2
  <1>3. Min({a, b}) \in {a, b} /\ \A y \in {a, b} : Min({a, b}) <= y
    BY <1>1 DEF Min
  <1>4. Max({a, b}) \in {a, b} /\ \A y \in {a, b} : Max({a, b}) >= y
    BY <1>2 DEF Max
  <1>5. Max({a, b}) \in Int
    BY <1>4
  <1>. QED
    BY <1>3, <1>4, <1>5

LEMMA StartsOnSegment ==
  ASSUME NEW s \in Segment
  PROVE  OnSegment(s.start, s)
  <1>1. \A k \in 1 .. 2 : s.start[k] \in Int /\ s.end[k] \in Int
    BY SegmentEnds DEF Point
  <1>2. Cross(s.start, s.end, s.start) = 0
    <2>1. /\ s.start[1] \in Int /\ s.start[2] \in Int /\ s.end[1] \in Int /\ s.end[2] \in Int
      BY <1>1
    <2>2. s.start[1] - s.start[1] = 0 /\ s.start[2] - s.start[2] = 0
      BY <2>1
    <2>3. \A x \in Int : x * 0 = 0
      OBVIOUS
    <2>. QED
      BY <2>1, <2>2, <2>3 DEF Cross
  <1>. QED
    BY <1>1, <1>2, PairExtremes DEF OnSegment

(* A loop is within every box its corners are in.                          *)
LEMMA InLoopInBox ==
  ASSUME NEW l \in Seq(Segment), l # <<>>, Closed(l),
         NEW p \in Point, InLoop(p, l),
         NEW lo \in [1 .. 2 -> Int], NEW hi \in [1 .. 2 -> Int],
         \A i \in 1 .. Len(l) : \A k \in 1 .. 2 :
           lo[k] <= l[i].start[k] /\ l[i].start[k] <= hi[k]
  PROVE  \A k \in 1 .. 2 : lo[k] <= p[k] /\ p[k] <= hi[k]
  <1>. DEFINE n == Len(l)
  <1>1. /\ n \in Nat /\ n > 0 /\ DOMAIN l = 1 .. n
        /\ \A i \in 1 .. n : l[i] \in Segment /\ (i % n) + 1 \in 1 .. n
    OBVIOUS
  <1>2. \A i \in 1 .. n : l[i].end = l[(i % n) + 1].start
    BY DEF Closed
  <1>3. ASSUME NEW i \in 1 .. n, NEW q \in {l[i].start, l[i].end}, NEW k \in 1 .. 2
        PROVE  q[k] \in Int /\ lo[k] <= q[k] /\ q[k] <= hi[k]
    <2>1. l[i].start \in Point /\ l[i].end \in Point
      BY <1>1, SegmentEnds
    <2>2. q \in Point
      BY <2>1
    <2>3. \E j \in 1 .. n : q = l[j].start
      BY <1>1, <1>2
    <2>. QED
      BY <2>2, <2>3 DEF Point
  <1>4. p[1] \in Int /\ p[2] \in Int /\ \A k \in 1 .. 2 : p[k] \in Int /\ (k = 1 \/ k = 2)
    BY DEF Point
  <1>5. \/ \E i \in 1 .. n : OnSegment(p, l[i])
        \/ Cardinality({i \in 1 .. n : RayCrosses(p, l[i])}) % 2 = 1
    BY <1>1, ClosedBoundary DEF InLoop
  <1>6. CASE \E i \in 1 .. n : OnSegment(p, l[i])
    <2>1. PICK i \in 1 .. n : OnSegment(p, l[i])
      BY <1>6
    <2>2. ASSUME NEW k \in 1 .. 2 PROVE lo[k] <= p[k] /\ p[k] <= hi[k]
      <3>. DEFINE a == l[i].start[k]
                  b == l[i].end[k]
      <3>1. /\ Min({a, b}) <= p[k] /\ p[k] <= Max({a, b})
        BY <2>1 DEF OnSegment
      <3>2. a \in Int /\ b \in Int /\ lo[k] <= a /\ a <= hi[k] /\ lo[k] <= b /\ b <= hi[k]
        BY <1>3
      <3>. HIDE DEF a, b
      <3>3. Min({a, b}) \in {a, b} /\ Max({a, b}) \in {a, b}
        BY <3>2, PairExtremes
      <3>4. /\ Min({a, b}) \in Int /\ lo[k] <= Min({a, b})
            /\ Max({a, b}) \in Int /\ Max({a, b}) <= hi[k]
        BY <3>2, <3>3
      <3>. QED
        BY <1>4, <3>1, <3>4
    <2>. QED
      BY <2>2
  <1>7. CASE Cardinality({i \in 1 .. n : RayCrosses(p, l[i])}) % 2 = 1
    <2>1. ASSUME NEW W, W = {i \in 1 .. n : RayCrosses(p, l[i])}, Cardinality(W) % 2 = 0
          PROVE  FALSE
      BY <1>7, <2>1
    <2>2. ASSUME \A i \in 1 .. n : ~RayCrosses(p, l[i]) PROVE FALSE
      <3>1. {i \in 1 .. n : RayCrosses(p, l[i])} = {}
        BY <2>2
      <3>2. Cardinality({i \in 1 .. n : RayCrosses(p, l[i])}) = 0
        BY <3>1, FS_EmptySet
      <3>. QED
        BY <1>7, <3>2
    <2>3. ~(p[2] > hi[2])
      <3>. SUFFICES ASSUME p[2] > hi[2] PROVE FALSE
        OBVIOUS
      <3>1. \A i \in 1 .. n : \A q \in {l[i].start, l[i].end} : q[2] <= p[2]
        BY <1>3, <1>4
      <3>. QED
        BY <1>1, <2>2, <3>1, RaysBeside
    <2>4. ~(p[2] < lo[2])
      <3>. SUFFICES ASSUME p[2] < lo[2] PROVE FALSE
        OBVIOUS
      <3>1. \A i \in 1 .. n : \A q \in {l[i].start, l[i].end} : p[2] < q[2]
        BY <1>3, <1>4
      <3>. QED
        BY <1>1, <2>2, <3>1, RaysBeside
    <2>5. ~(p[1] > hi[1])
      <3>. SUFFICES ASSUME p[1] > hi[1] PROVE FALSE
        OBVIOUS
      <3>1. \A i \in 1 .. n : \A q \in {l[i].start, l[i].end} : q[1] < p[1]
        BY <1>3, <1>4
      <3>. QED
        BY <1>1, <2>2, <3>1, RaysBeside
    <2>6. ~(p[1] < lo[1])
      <3>. SUFFICES ASSUME p[1] < lo[1] PROVE FALSE
        OBVIOUS
      <3>1. \A i \in 1 .. n : \A q \in {l[i].start, l[i].end} : p[1] < q[1]
        BY <1>3, <1>4
      <3>. DEFINE b == [i \in 1 .. n |-> l[i].start[2] > p[2]]
                  W == {i \in 1 .. n : b[i] # b[(i % n) + 1]}
      <3>2. b \in [1 .. n -> BOOLEAN] /\ \A i \in 1 .. n : b[i] = (l[i].start[2] > p[2])
        OBVIOUS
      <3>3. Cardinality(W) % 2 = 0
        <4>. HIDE DEF b
        <4>. QED
          BY <1>1, <3>2, EvenlyChanged
      <3>4. ASSUME NEW i \in 1 .. n
            PROVE  RayCrosses(p, l[i]) <=> b[i] # b[(i % n) + 1]
        <4>1. RayCrosses(p, l[i]) <=> (l[i].start[2] > p[2]) # (l[i].end[2] > p[2])
          BY <1>1, <3>1, RaysBeside
        <4>2. /\ b[i] = (l[i].start[2] > p[2])
              /\ b[(i % n) + 1] = (l[i].end[2] > p[2])
          BY <1>1, <1>2, <3>2
        <4>. HIDE DEF b
        <4>. QED
          BY <4>1, <4>2, Zenon
      <3>. HIDE DEF b
      <3>5. W = {i \in 1 .. n : RayCrosses(p, l[i])}
        BY <3>4
      <3>. QED
        BY <2>1, <3>3, <3>5
    <2>. QED
      BY <1>4, <2>3, <2>4, <2>5, <2>6
  <1>. QED
    BY <1>5, <1>6, <1>7

LEMMA PairOf ==
  ASSUME NEW f, f = [k \in 1 .. 2 |-> f[k]], f[1] \in Int, f[2] \in Int
  PROVE  f = <<f[1], f[2]>> /\ f \in Point
  <1>1. <<f[1], f[2]>> = [k \in 1 .. 2 |-> f[k]]
    <2>1. \A k \in 1 .. 2 : k = 1 \/ k = 2
      OBVIOUS
    <2>2. /\ DOMAIN <<f[1], f[2]>> = 1 .. 2
          /\ <<f[1], f[2]>> = [k \in 1 .. 2 |-> <<f[1], f[2]>>[k]]
      OBVIOUS
    <2>. QED
      BY <2>1, <2>2
  <1>2. f = <<f[1], f[2]>>
    BY <1>1
  <1>3. <<f[1], f[2]>> \in Point
    BY DEF Point
  <1>. QED
    BY <1>2, <1>3

LEMMA FiniteRange ==
  ASSUME NEW S, IsFiniteSet(S), NEW f, DOMAIN f = S, f = [x \in S |-> f[x]],
         NEW V, \A x \in S : f[x] \in V, \A v \in V : \E x \in S : f[x] = v
  PROVE  IsFiniteSet(V)
  <1>1. f \in Surjection(S, V)
    BY DEF Surjection
  <1>. QED
    BY <1>1, FS_Surjection

Sides(l, k) == {p[k] : p \in Corners(l)}

LEMMA SidesOf ==
  ASSUME NEW l \in Seq(Segment), l # <<>>, NEW k \in 1 .. 2
  PROVE  /\ Sides(l, k) \in SUBSET Int /\ IsFiniteSet(Sides(l, k)) /\ Sides(l, k) # {}
         /\ Min(Sides(l, k)) \in Sides(l, k) /\ Max(Sides(l, k)) \in Sides(l, k)
         /\ \A c \in Corners(l) : Min(Sides(l, k)) <= c[k] /\ c[k] <= Max(Sides(l, k))
  <1>. DEFINE n == Len(l)
              A == {l[i].start : i \in 1 .. n}
              B == {l[i].end : i \in 1 .. n}
  <1>1. n \in Nat /\ n > 0 /\ DOMAIN l = 1 .. n /\ \A i \in 1 .. n : l[i] \in Segment
    OBVIOUS
  <1>2. IsFiniteSet(1 .. n)
    BY <1>1, FS_Interval
  <1>3. IsFiniteSet(A) /\ IsFiniteSet(B)
    <2>1. IsFiniteSet(A)
      <3>. DEFINE a == [i \in 1 .. n |-> l[i].start]
      <3>1. /\ DOMAIN a = 1 .. n /\ a = [i \in 1 .. n |-> a[i]]
            /\ \A i \in 1 .. n : a[i] \in A
            /\ \A v \in A : \E i \in 1 .. n : a[i] = v
        OBVIOUS
      <3>. HIDE DEF a, A
      <3>. QED
        BY <1>2, <3>1, FiniteRange
    <2>2. IsFiniteSet(B)
      <3>. DEFINE b == [i \in 1 .. n |-> l[i].end]
      <3>1. /\ DOMAIN b = 1 .. n /\ b = [i \in 1 .. n |-> b[i]]
            /\ \A i \in 1 .. n : b[i] \in B
            /\ \A v \in B : \E i \in 1 .. n : b[i] = v
        OBVIOUS
      <3>. HIDE DEF b, B
      <3>. QED
        BY <1>2, <3>1, FiniteRange
    <2>. QED
      BY <2>1, <2>2
  <1>4. Corners(l) = A \cup B
    BY <1>1 DEF Corners
  <1>5. A \cup B \in SUBSET Point /\ A # {}
    BY <1>1, SegmentEnds
  <1>. HIDE DEF A, B
  <1>6. IsFiniteSet(Corners(l))
    BY <1>3, <1>4, FS_Union
  <1>7. Sides(l, k) \in SUBSET Int /\ Sides(l, k) # {}
    BY <1>4, <1>5 DEF Sides, Point
  <1>8. IsFiniteSet(Sides(l, k))
    <2>. DEFINE c == [p \in Corners(l) |-> p[k]]
    <2>1. /\ DOMAIN c = Corners(l) /\ c = [p \in Corners(l) |-> c[p]]
          /\ \A p \in Corners(l) : c[p] \in Sides(l, k)
          /\ \A v \in Sides(l, k) : \E p \in Corners(l) : c[p] = v
      BY DEF Sides
    <2>. HIDE DEF c
    <2>. QED
      BY <1>6, <2>1, FiniteRange
  <1>9. /\ Min(Sides(l, k)) \in Sides(l, k) /\ Max(Sides(l, k)) \in Sides(l, k)
        /\ \A s \in Sides(l, k) : Min(Sides(l, k)) <= s /\ s <= Max(Sides(l, k))
    BY <1>7, <1>8, FiniteExtremes
  <1>10. \A c \in Corners(l) : c[k] \in Sides(l, k)
    BY DEF Sides
  <1>. QED
    BY <1>7, <1>8, <1>9, <1>10

LEMMA CornersOfClosed ==
  ASSUME NEW l \in Seq(Segment), Closed(l)
  PROVE  \A c : c \in Corners(l) <=> \E i \in 1 .. Len(l) : c = l[i].start
  <1>. DEFINE n == Len(l)
  <1>1. n \in Nat /\ DOMAIN l = 1 .. n /\ \A i \in 1 .. n : (i % n) + 1 \in 1 .. n
    OBVIOUS
  <1>2. \A i \in 1 .. n : l[i].end = l[(i % n) + 1].start
    BY DEF Closed
  <1>3. ASSUME NEW i \in 1 .. n PROVE l[i].start \in Corners(l)
    <2>1. l[i].start \in {l[i].start, l[i].end} /\ i \in DOMAIN l
      BY <1>1
    <2>. QED
      BY <2>1 DEF Corners
  <1>4. ASSUME NEW c \in Corners(l) PROVE \E i \in 1 .. n : c = l[i].start
    <2>1. PICK i \in 1 .. n : c = l[i].start \/ c = l[i].end
      BY <1>1 DEF Corners
    <2>. QED
      BY <1>1, <1>2, <2>1
  <1>. QED
    BY <1>3, <1>4

LEMMA Scaled ==
  ASSUME NEW l \in Seq(Segment), l # <<>>, Closed(l)
  PROVE  /\ FullSize(l) \in Seq(Segment) /\ Len(FullSize(l)) = Len(l)
         /\ FullSize(l) # <<>> /\ Closed(FullSize(l))
         /\ \A i \in 1 .. Len(l) :
              FullSize(l)[i].start = <<Full(l[i].start[1]), Full(l[i].start[2])>>
  <1>. DEFINE n == Len(l)
              at(q) == [k \in 1 .. 2 |-> Full(q[k])]
              f == FullSize(l)
              F == [i \in 1 .. n |-> Line(at(l[i].start), at(l[i].end))]
  <1>1. n \in Nat /\ n > 0 /\ DOMAIN l = 1 .. n /\ \A i \in 1 .. n : l[i] \in Segment
    OBVIOUS
  <1>2. ASSUME NEW q \in Point
        PROVE  at(q) = <<Full(q[1]), Full(q[2])>> /\ at(q) \in Point
    <2>1. q[1] \in Int /\ q[2] \in Int
      BY DEF Point
    <2>2. /\ at(q) = [k \in 1 .. 2 |-> at(q)[k]] /\ at(q)[1] = Full(q[1]) /\ at(q)[2] = Full(q[2])
      OBVIOUS
    <2>3. Full(q[1]) \in Int /\ Full(q[2]) \in Int
      BY <2>1 DEF Full
    <2>. HIDE DEF at
    <2>. QED
      BY <2>2, <2>3, PairOf
  <1>3. f = F
    BY <1>1 DEF FullSize
  <1>. HIDE DEF f, at
  <1>4. \A i \in 1 .. n : /\ F[i].start = at(l[i].start) /\ F[i].end = at(l[i].end)
                          /\ F[i] \in Segment
    BY <1>1, <1>2, SegmentEnds DEF Line, Segment
  <1>5. F \in Seq(Segment) /\ Len(F) = n
    <2>1. F \in [1 .. n -> Segment]
      BY <1>4
    <2>. HIDE DEF F
    <2>. QED
      BY <1>1, <2>1
  <1>. HIDE DEF F
  <1>6. Closed(F)
    <2>1. \A i \in 1 .. n : (i % n) + 1 \in 1 .. n
      BY <1>1
    <2>. QED
      BY <1>4, <1>5, <2>1 DEF Closed
  <1>7. \A i \in 1 .. n : F[i].start = <<Full(l[i].start[1]), Full(l[i].start[2])>>
    BY <1>1, <1>2, <1>4, SegmentEnds
  <1>. QED
    BY <1>1, <1>3, <1>5, <1>6, <1>7 DEF f

LEMMA ScaledBox ==
  ASSUME NEW l \in Seq(Segment), Len(l) > 1, Closed(l)
  PROVE  /\ \A p \in Point : InLoop(p, FullSize(l)) =>
              \A k \in 1 .. 2 : /\ Full(Min(Sides(l, k))) <= p[k]
                                /\ p[k] <= Full(Max(Sides(l, k)))
         /\ \A c \in Corners(l) : InLoop(<<Full(c[1]), Full(c[2])>>, FullSize(l))
  <1>. DEFINE n == Len(l)
  <1>a. PICK f : f = FullSize(l)
    OBVIOUS
  <1>b. PICK lo : lo = [k \in 1 .. 2 |-> Full(Min(Sides(l, k)))]
    OBVIOUS
  <1>c. PICK hi : hi = [k \in 1 .. 2 |-> Full(Max(Sides(l, k)))]
    OBVIOUS
  <1>0. n \in Nat /\ l # <<>> /\ DOMAIN l = 1 .. n /\ \A i \in 1 .. n : l[i] \in Segment
    OBVIOUS
  <1>1. /\ f \in Seq(Segment) /\ Len(f) = n /\ f # <<>> /\ Closed(f) /\ DOMAIN f = 1 .. n
        /\ \A i \in 1 .. n : f[i].start = <<Full(l[i].start[1]), Full(l[i].start[2])>>
    BY <1>0, <1>a, Scaled
  <1>2. ASSUME NEW k \in 1 .. 2
        PROVE  /\ Min(Sides(l, k)) \in Int /\ Max(Sides(l, k)) \in Int
               /\ \A c \in Corners(l) : c[k] \in Int /\ Min(Sides(l, k)) <= c[k]
                                                     /\ c[k] <= Max(Sides(l, k))
    <2>1. \A c \in Corners(l) : c[k] \in Sides(l, k)
      BY DEF Sides
    <2>. QED
      BY <1>0, <2>1, SidesOf
  <1>3. /\ lo \in [1 .. 2 -> Int] /\ hi \in [1 .. 2 -> Int]
        /\ \A k \in 1 .. 2 : lo[k] = Full(Min(Sides(l, k))) /\ hi[k] = Full(Max(Sides(l, k)))
    BY <1>2, <1>b, <1>c DEF Full
  <1>4. ASSUME NEW i \in 1 .. n, NEW k \in 1 .. 2
        PROVE  lo[k] <= f[i].start[k] /\ f[i].start[k] <= hi[k]
    <2>1. l[i].start \in Corners(l)
      BY CornersOfClosed
    <2>2. f[i].start[k] = Full(l[i].start[k])
      <3>1. f[i].start = <<Full(l[i].start[1]), Full(l[i].start[2])>>
        BY <1>1
      <3>2. CASE k = 1
        BY <3>1, <3>2
      <3>3. CASE k = 2
        BY <3>1, <3>3
      <3>. QED
        BY <3>2, <3>3
    <2>. DEFINE a == Min(Sides(l, k))
                b == Max(Sides(l, k))
                v == l[i].start[k]
    <2>3. /\ a \in Int /\ b \in Int /\ v \in Int /\ a <= v /\ v <= b
      BY <1>2, <2>1
    <2>4. lo[k] = Full(a) /\ hi[k] = Full(b) /\ f[i].start[k] = Full(v)
      BY <1>3, <2>2
    <2>. HIDE DEF a, b, v
    <2>. QED
      BY <2>3, <2>4 DEF Full
  <1>5. ASSUME NEW p \in Point, InLoop(p, f)
        PROVE  \A k \in 1 .. 2 : lo[k] <= p[k] /\ p[k] <= hi[k]
    <2>. DEFINE Boxed(g, u, v) == \A i \in 1 .. Len(g) : \A k \in 1 .. 2 :
                                     u[k] <= g[i].start[k] /\ g[i].start[k] <= v[k]
                Bounds(q, u, v) == \A k \in 1 .. 2 : u[k] <= q[k] /\ q[k] <= v[k]
    <2>1. f \in Seq(Segment) /\ f # <<>> /\ Closed(f) /\ InLoop(p, f)
      BY <1>1, <1>5
    <2>2. lo \in [1 .. 2 -> Int] /\ hi \in [1 .. 2 -> Int]
      BY <1>3
    <2>3. Boxed(f, lo, hi)
      BY <1>1, <1>4
    <2>4. ASSUME NEW g \in Seq(Segment), g # <<>>, Closed(g), NEW q \in Point, InLoop(q, g),
                 NEW u \in [1 .. 2 -> Int], NEW v \in [1 .. 2 -> Int], Boxed(g, u, v)
          PROVE  Bounds(q, u, v)
      BY <2>4, InLoopInBox
    <2>5. ASSUME Bounds(p, lo, hi)
          PROVE  \A k \in 1 .. 2 : lo[k] <= p[k] /\ p[k] <= hi[k]
      BY <2>5
    <2>. HIDE DEF Boxed, Bounds
    <2>6. Bounds(p, lo, hi)
      BY <2>1, <2>2, <2>3, <2>4
    <2>. QED
      BY <2>5, <2>6
  <1>6. ASSUME NEW c \in Corners(l)
        PROVE  InLoop(<<Full(c[1]), Full(c[2])>>, f)
    <2>1. PICK i \in 1 .. n : c = l[i].start
      BY CornersOfClosed
    <2>2. f[i] \in Segment
      BY <1>1
    <2>3. OnSegment(f[i].start, f[i])
      BY <2>2, StartsOnSegment
    <2>. QED
      BY <1>1, <2>1, <2>3, ClosedBoundary DEF InLoop
  <1>. QED
    BY <1>3, <1>5, <1>6, <1>a

----------------------------------------------------------------------------
(* How far a solid reaches in each direction, and what its round body is.  *)

(* The ends of a set of numbers that are known are its minimum and its     *)
(* maximum.                                                                *)
LEMMA SpanOf ==
  ASSUME NEW base, NEW k, NEW lo \in Int, NEW hi \in Int, Reached(base, k) \in SUBSET Int,
         lo \in Reached(base, k), hi \in Reached(base, k),
         \A s \in Reached(base, k) : lo <= s /\ s <= hi
  PROVE  Span(base, k) = hi - lo
  <1>. DEFINE S == Reached(base, k)
  <1>1. /\ S \in SUBSET Int /\ lo \in S /\ hi \in S
        /\ \A s \in S : lo <= s /\ s <= hi
    OBVIOUS
  <1>. HIDE DEF S
  <1>2. Max(S) \in S /\ \A s \in S : Max(S) >= s
    <2>1. \A s \in S : hi >= s
      BY <1>1
    <2>. QED
      BY <1>1, <2>1 DEF Max
  <1>3. Min(S) \in S /\ \A s \in S : Min(S) <= s
    BY <1>1 DEF Min
  <1>4. Max(S) = hi /\ Min(S) = lo
    <2>. DEFINE a == Max(S)
                b == Min(S)
    <2>1. /\ a \in Int /\ b \in Int /\ a >= hi /\ a <= hi /\ b <= lo /\ lo <= b
      BY <1>1, <1>2, <1>3
    <2>. HIDE DEF a, b
    <2>2. a = hi /\ b = lo
      BY <2>1
    <2>. QED
      BY <2>2 DEF a, b
  <1>. QED
    BY <1>4 DEF Span, S

OnPlanes(base, k) == BasePlanes(base, k) \cup {0}

Coordinate(p, k) == p[k]

HasPoint(base, k, s) ==
  \E a \in OnPlanes(base, X), b \in OnPlanes(base, Y), c \in OnPlanes(base, Z) :
    InBase(<<a, b, c>>, base) /\ Coordinate(<<a, b, c>>, k) = s

LEMMA ReachedFrom ==
  ASSUME NEW base, NEW k, NEW s \in Reached(base, k)
  PROVE  HasPoint(base, k, s)
  <1>. DEFINE planes == [i \in 1 .. 3 |-> BasePlanes(base, i) \cup {0}]
  <1>1. /\ planes[X] = OnPlanes(base, X) /\ planes[Y] = OnPlanes(base, Y)
        /\ planes[Z] = OnPlanes(base, Z)
    BY DEF OnPlanes, X, Y, Z
  <1>2. PICK p \in planes[X] \X planes[Y] \X planes[Z] : p[k] = s /\ InBase(p, base)
    BY DEF Reached
  <1>. HIDE DEF planes
  <1>3. p = <<p[1], p[2], p[3]>> /\ p[1] \in planes[X] /\ p[2] \in planes[Y] /\ p[3] \in planes[Z]
    OBVIOUS
  <1>. QED
    BY <1>1, <1>2, <1>3 DEF Coordinate, HasPoint

LEMMA ReachedBy ==
  ASSUME NEW base, NEW k \in 1 .. 3,
         NEW a \in OnPlanes(base, X), NEW b \in OnPlanes(base, Y), NEW c \in OnPlanes(base, Z),
         InBase(<<a, b, c>>, base)
  PROVE  Coordinate(<<a, b, c>>, k) \in Reached(base, k)
  <1>. DEFINE planes == [i \in 1 .. 3 |-> BasePlanes(base, i) \cup {0}]
  <1>0. k = X \/ k = Y \/ k = Z
    BY DEF X, Y, Z
  <1>1. /\ planes[X] = OnPlanes(base, X) /\ planes[Y] = OnPlanes(base, Y)
        /\ planes[Z] = OnPlanes(base, Z)
    BY DEF OnPlanes, X, Y, Z
  <1>2. Reached(base, k) =
          {s \in planes[k] :
             \E p \in planes[X] \X planes[Y] \X planes[Z] : p[k] = s /\ InBase(p, base)}
    BY DEF Reached
  <1>. HIDE DEF planes
  <1>3. <<a, b, c>> \in planes[X] \X planes[Y] \X planes[Z]
    BY <1>1
  <1>4. Coordinate(<<a, b, c>>, k) \in planes[k]
    BY <1>0, <1>1 DEF X, Y, Z, Coordinate
  <1>5. Coordinate(<<a, b, c>>, k) = <<a, b, c>>[k]
    BY DEF Coordinate
  <1>. QED
    BY <1>2, <1>3, <1>4, <1>5

Flat == {"plate", "cylinder", "ring", "l_bracket", "enclosure"}

(* The ends of a part that is not made of a profile.                       *)
LEMMA FlatExtents ==
  ASSUME NEW base \in BaseFeature, BaseFits(base), base.kind \in Flat
  PROVE  /\ Extents(base) = <<Half(base.size[1]), Half(base.size[2]), Full(base.size[3])>>
         /\ \A k \in 1 .. 3 : base.size[k] \in Int /\ base.size[k] > 0
         /\ base.wall \in Int /\ base.inner \in Int
         /\ BaseExtents(base) = base.size /\ Dimensions(base) = base.size
         /\ \A k \in 1 .. 3 : Sizes(base)[k] = Full(base.size[k])
  <1>1. base.kind \notin Profiled /\ base.kind # "profile_extrusion"
          /\ base.kind # "profile_revolution"
    BY DEF Flat, Profiled
  <1>2. base.size \in Int \X Int \X Int /\ base.wall \in Int /\ base.inner \in Int
    BY DEF BaseFeature
  <1>3. \A k \in 1 .. 3 : base.size[k] \in Int /\ base.size[k] > 0
    BY <1>1, <1>2 DEF BaseFits
  <1>4. /\ Extents(base) = <<Half(base.size[1]), Half(base.size[2]), Full(base.size[3])>>
        /\ BaseExtents(base) = base.size /\ Dimensions(base) = base.size
    BY <1>1 DEF Extents, BaseExtents, Dimensions, X, Y, Z
  <1>. QED
    BY <1>2, <1>3, <1>4 DEF Sizes

LEMMA FlatPlanes ==
  ASSUME NEW base \in BaseFeature, BaseFits(base), base.kind \in Flat, NEW k \in 1 .. 3
  PROVE  /\ OnPlanes(base, k) \in SUBSET Int
         /\ Extents(base)[k] \in OnPlanes(base, k)
         /\ NegativeFace(Extents(base), k) \in OnPlanes(base, k)
         /\ 0 \in OnPlanes(base, k)
  <1>. DEFINE e == Extents(base)[k]
              w == Wall(base)
              i == Half(base.inner)
  <1>0. k = 1 \/ k = 2 \/ k = 3
    OBVIOUS
  <1>1. e \in Int /\ w \in Int /\ -e \in Int /\ w - e \in Int /\ e - w \in Int
        /\ i \in Int /\ -i \in Int
    <2>1. /\ Extents(base) = <<Half(base.size[1]), Half(base.size[2]), Full(base.size[3])>>
          /\ base.size[1] \in Int /\ base.size[2] \in Int /\ base.size[3] \in Int
          /\ base.wall \in Int /\ base.inner \in Int
      BY FlatExtents
    <2>2. Half(base.size[1]) \in Int /\ Half(base.size[2]) \in Int /\ Full(base.size[3]) \in Int
          /\ Half(base.inner) \in Int /\ Full(base.wall) \in Int
      BY <2>1 DEF Half, Full
    <2>3. e \in Int
      BY <1>0, <2>1, <2>2
    <2>. HIDE DEF e
    <2>. QED
      BY <2>2, <2>3 DEF Wall
  <1>2. NegativeFace(Extents(base), k) \in {0, -e}
    BY DEF NegativeFace
  <1>. DEFINE others == CASE base.kind \in {"l_bracket", "enclosure"} -> {w, w - e, e - w}
                          [] base.kind = "ring" /\ k # Z -> {-i, i}
                          [] OTHER -> {}
  <1>3. BasePlanes(base, k) = {e, NegativeFace(Extents(base), k)} \cup others
    BY DEF BasePlanes, Flat
  <1>4. others \in SUBSET Int
    BY <1>1
  <1>. DEFINE f == NegativeFace(Extents(base), k)
  <1>5. OnPlanes(base, k) = ({e, f} \cup others) \cup {0} /\ f \in {0, -e}
    BY <1>2, <1>3 DEF OnPlanes
  <1>. HIDE DEF others, e, f
  <1>6. f \in Int
    BY <1>1, <1>5
  <1>7. /\ OnPlanes(base, k) \in SUBSET Int
        /\ e \in OnPlanes(base, k) /\ f \in OnPlanes(base, k) /\ 0 \in OnPlanes(base, k)
    BY <1>1, <1>4, <1>5, <1>6
  <1>. QED
    BY <1>7 DEF e, f

(* All of such a part is between its faces.                                *)
LEMMA FlatInBase ==
  ASSUME NEW base \in BaseFeature, BaseFits(base), base.kind \in Flat,
         NEW a \in Int, NEW b \in Int, NEW c \in Int
  PROVE  InBase(<<a, b, c>>, base) <=>
           /\ -Half(base.size[1]) <= a /\ a <= Half(base.size[1])
           /\ -Half(base.size[2]) <= b /\ b <= Half(base.size[2])
           /\ 0 <= c /\ c <= Full(base.size[3])
           /\ base.kind \in {"cylinder", "ring"} =>
                4 * Distance2(<<a, b>>, <<0, 0>>) <= Square(Full(base.size[1]))
           /\ base.kind = "ring" =>
                4 * Distance2(<<a, b>>, <<0, 0>>) > Square(Full(base.inner))
           /\ base.kind = "l_bracket" =>
                c <= Wall(base) \/ b <= Wall(base) - Half(base.size[2])
           /\ base.kind = "enclosure" =>
                \/ c <= Wall(base)
                \/ Abs(a) >= Half(base.size[1]) - Wall(base)
                \/ Abs(b) >= Half(base.size[2]) - Wall(base)
  <1>. DEFINE p == <<a, b, c>>
              e == Extents(base)
              within == \A k \in 1 .. 3 : p[k] <= e[k] /\ p[k] >= NegativeFace(e, k)
              Faces == /\ -Half(base.size[1]) <= a /\ a <= Half(base.size[1])
                       /\ -Half(base.size[2]) <= b /\ b <= Half(base.size[2])
                       /\ 0 <= c /\ c <= Full(base.size[3])
              r2 == 4 * Distance2(<<p[X], p[Y]>>, <<0, 0>>)
              size == Sizes(base)
  <1>1. /\ e = <<Half(base.size[1]), Half(base.size[2]), Full(base.size[3])>>
        /\ base.size[1] \in Int /\ base.size[2] \in Int /\ base.size[3] \in Int
        /\ size[X] = Full(base.size[1]) /\ size[Y] = Full(base.size[2])
    BY FlatExtents DEF X, Y
  <1>2. within <=> Faces
    <2>1. /\ p[1] = a /\ p[2] = b /\ p[3] = c
          /\ e[1] = Half(base.size[1]) /\ e[2] = Half(base.size[2]) /\ e[3] = Full(base.size[3])
      BY <1>1
    <2>2. /\ NegativeFace(e, 1) = -Half(base.size[1]) /\ NegativeFace(e, 2) = -Half(base.size[2])
          /\ NegativeFace(e, 3) = 0
      BY <2>1 DEF NegativeFace, Z
    <2>3. Half(base.size[1]) \in Int /\ Half(base.size[2]) \in Int /\ Full(base.size[3]) \in Int
      BY <1>1 DEF Half, Full
    <2>4. within <=> /\ p[1] <= e[1] /\ p[1] >= NegativeFace(e, 1)
                     /\ p[2] <= e[2] /\ p[2] >= NegativeFace(e, 2)
                     /\ p[3] <= e[3] /\ p[3] >= NegativeFace(e, 3)
      <3>1. \A k \in 1 .. 3 : k = 1 \/ k = 2 \/ k = 3
        OBVIOUS
      <3>. HIDE DEF p, e
      <3>. QED
        BY <3>1
    <2>. HIDE DEF p, e, within
    <2>. QED
      BY <2>1, <2>2, <2>3, <2>4
  <1>3. p[X] = a /\ p[Y] = b /\ p[Z] = c
    BY DEF X, Y, Z
  <1>4. InBase(p, base) <=>
          CASE base.kind = "plate" -> within
            [] base.kind = "cylinder" -> within /\ r2 <= Square(size[X])
            [] base.kind = "ring" ->
                 within /\ r2 <= Square(size[X]) /\ r2 > Square(Full(base.inner))
            [] base.kind = "l_bracket" ->
                 within /\ (p[Z] <= Wall(base) \/ p[Y] <= Wall(base) - Half(base.size[Y]))
            [] OTHER ->
                 within /\ (\/ p[Z] <= Wall(base)
                            \/ \E k \in {X, Y} : Abs(p[k]) >= Half(base.size[k]) - Wall(base))
    <2>1. CASE base.kind = "plate"
      BY <2>1 DEF InBase
    <2>2. CASE base.kind = "cylinder"
      BY <2>2 DEF InBase
    <2>3. CASE base.kind = "ring"
      BY <2>3 DEF InBase
    <2>4. CASE base.kind = "l_bracket"
      BY <2>4 DEF InBase
    <2>5. CASE base.kind = "enclosure"
      BY <2>5 DEF InBase
    <2>. QED
      BY <2>1, <2>2, <2>3, <2>4, <2>5 DEF Flat
  <1>5. (\E k \in {X, Y} : Abs(p[k]) >= Half(base.size[k]) - Wall(base))
          <=> \/ Abs(a) >= Half(base.size[1]) - Wall(base)
              \/ Abs(b) >= Half(base.size[2]) - Wall(base)
    BY <1>3 DEF X, Y
  <1>6. r2 = 4 * Distance2(<<a, b>>, <<0, 0>>) /\ base.size[Y] = base.size[2]
    BY <1>3 DEF Y
  <1>. HIDE DEF within, r2, p, size
  <1>7. CASE base.kind = "plate"
    BY <1>1, <1>2, <1>3, <1>4, <1>5, <1>6, <1>7 DEF p
  <1>8. CASE base.kind = "cylinder"
    BY <1>1, <1>2, <1>3, <1>4, <1>5, <1>6, <1>8 DEF p
  <1>9. CASE base.kind = "ring"
    BY <1>1, <1>2, <1>3, <1>4, <1>5, <1>6, <1>9 DEF p
  <1>10. CASE base.kind = "l_bracket"
    BY <1>1, <1>2, <1>3, <1>4, <1>5, <1>6, <1>10 DEF p
  <1>11. CASE base.kind = "enclosure"
    BY <1>1, <1>2, <1>3, <1>4, <1>5, <1>6, <1>11 DEF p
  <1>. QED
    BY <1>7, <1>8, <1>9, <1>10, <1>11 DEF Flat

LEMMA LargerSquare ==
  ASSUME NEW a \in Int, NEW b \in Int, 0 <= a, a < b
  PROVE  a * a < b * b
  <1>1. a * a <= b * a
    BY Products
  <1>2. a * b < b * b
    BY StrictProducts
  <1>3. b * a = a * b /\ a * a \in Int /\ b * a \in Int /\ b * b \in Int
    OBVIOUS
  <1>. DEFINE u == a * a
              v == b * a
              w == b * b
  <1>4. u <= v /\ v < w /\ u \in Int /\ v \in Int /\ w \in Int
    BY <1>1, <1>2, <1>3
  <1>. HIDE DEF u, v, w
  <1>5. u < w
    BY <1>4
  <1>. QED
    BY <1>5 DEF u, w

(* Where a part that is not made of a profile touches its faces.           *)
LEMMA RoundTouches ==
  ASSUME NEW base \in BaseFeature, BaseFits(base), base.kind \in {"cylinder", "ring"}
  PROVE  LET x == Half(base.size[1])
             y == Half(base.size[2])
             z == Full(base.size[3]) IN
         /\ InBase(<<x, 0, z>>, base) /\ InBase(<<x, 0, 0>>, base) /\ InBase(<<-x, 0, 0>>, base)
         /\ InBase(<<0, y, 0>>, base) /\ InBase(<<0, -y, 0>>, base)
  <1>. DEFINE x == Half(base.size[1])
              y == Half(base.size[2])
              z == Full(base.size[3])
              d == Full(base.size[1])
              r == Full(base.inner)
  <1>1. /\ base.kind \in Flat /\ base.kind # "l_bracket" /\ base.kind # "enclosure"
        /\ base.size[1] = base.size[2]
        /\ base.kind = "ring" => 0 < base.inner /\ base.inner < base.size[1]
    BY DEF Flat, BaseFits, X, Y
  <1>2. /\ base.size[1] \in Int /\ base.size[2] \in Int /\ base.size[3] \in Int
        /\ base.size[1] > 0 /\ base.size[2] > 0 /\ base.size[3] > 0 /\ base.inner \in Int
    BY <1>1, FlatExtents
  <1>3. /\ x \in Int /\ z \in Int /\ d \in Int /\ r \in Int /\ x > 0 /\ z > 0 /\ y = x
        /\ d = 2 * x /\ -x \in Int /\ -x <= 0
        /\ base.kind = "ring" => 0 <= r /\ r < d
    BY <1>1, <1>2 DEF Half, Full
  <1>. HIDE DEF x, y, z, d, r
  <1>4. 4 * (x * x) = d * d /\ (-x) * (-x) = x * x
    BY <1>3
  <1>5. base.kind = "ring" => d * d > r * r
    <2>. SUFFICES ASSUME base.kind = "ring" PROVE d * d > r * r
      OBVIOUS
    <2>1. r * r < d * d
      BY <1>3, LargerSquare
    <2>. QED
      BY <1>3, <2>1
  <1>6. /\ 4 * Distance2(<<x, 0>>, <<0, 0>>) = d * d
        /\ 4 * Distance2(<<-x, 0>>, <<0, 0>>) = d * d
        /\ 4 * Distance2(<<0, x>>, <<0, 0>>) = d * d
        /\ 4 * Distance2(<<0, -x>>, <<0, 0>>) = d * d
    <2>1. /\ Distance2(<<x, 0>>, <<0, 0>>) = x * x + 0
          /\ Distance2(<<-x, 0>>, <<0, 0>>) = (-x) * (-x) + 0
          /\ Distance2(<<0, x>>, <<0, 0>>) = 0 + x * x
          /\ Distance2(<<0, -x>>, <<0, 0>>) = 0 + (-x) * (-x)
      BY <1>3 DEF Distance2, Square
    <2>. QED
      BY <1>3, <1>4, <2>1
  <1>7. d * d \in Int /\ r * r \in Int
    BY <1>3
  <1>8. ASSUME NEW a \in {-x, 0, x}, NEW b \in {-x, 0, x}, NEW c \in {0, z},
               4 * Distance2(<<a, b>>, <<0, 0>>) = d * d
        PROVE  InBase(<<a, b, c>>, base)
    <2>1. a \in Int /\ b \in Int /\ c \in Int
      BY <1>3
    <2>2. /\ -x <= a /\ a <= x /\ -x <= b /\ b <= x /\ 0 <= c /\ c <= z
      BY <1>3
    <2>3. d * d <= d * d
      BY <1>7
    <2>. QED
      BY <1>1, <1>3, <1>5, <1>8, <2>1, <2>2, <2>3, FlatInBase DEF x, y, z, d, r, Square
  <1>. QED
    BY <1>3, <1>6, <1>8 DEF x, y, z

LEMMA FlatTouches ==
  ASSUME NEW base \in BaseFeature, BaseFits(base), base.kind \in {"plate", "l_bracket", "enclosure"}
  PROVE  LET x == Half(base.size[1])
             y == Half(base.size[2])
             z == Full(base.size[3]) IN
         /\ InBase(<<x, -y, z>>, base) /\ InBase(<<-x, -y, 0>>, base)
         /\ InBase(<<-x, y, 0>>, base)
  <1>. DEFINE x == Half(base.size[1])
              y == Half(base.size[2])
              z == Full(base.size[3])
              w == Wall(base)
  <1>1. /\ base.kind \in Flat /\ base.kind \notin {"cylinder", "ring"}
        /\ base.kind # "plate" => base.wall > 0
    BY DEF Flat, BaseFits
  <1>2. /\ base.size[1] \in Int /\ base.size[2] \in Int /\ base.size[3] \in Int
        /\ base.size[1] > 0 /\ base.size[2] > 0 /\ base.size[3] > 0 /\ base.wall \in Int
    BY <1>1, FlatExtents
  <1>3. /\ x \in Int /\ y \in Int /\ z \in Int /\ w \in Int /\ x > 0 /\ y > 0 /\ z > 0
        /\ base.kind # "plate" => w > 0
    BY <1>1, <1>2 DEF Half, Full, Wall
  <1>4. /\ base.kind \notin {"cylinder", "ring"} /\ base.kind # "ring"
    BY <1>1
  <1>. HIDE DEF x, y, z, w
  <1>5. Abs(x) = x
    BY <1>3 DEF Abs
  <1>6. /\ -x \in Int /\ -y \in Int /\ -x <= -x /\ -x <= x /\ -y <= -y /\ -y <= y /\ x <= x
        /\ y <= y /\ 0 <= z /\ z <= z /\ 0 <= 0 /\ 0 \in Int
        /\ base.kind # "plate" => 0 <= w /\ -y <= w - y /\ x >= x - w
    BY <1>3
  <1>7. InBase(<<x, -y, z>>, base)
    BY <1>1, <1>3, <1>4, <1>5, <1>6, FlatInBase DEF x, y, z, w
  <1>8. InBase(<<-x, -y, 0>>, base)
    BY <1>1, <1>3, <1>4, <1>5, <1>6, FlatInBase DEF x, y, z, w
  <1>9. InBase(<<-x, y, 0>>, base)
    BY <1>1, <1>3, <1>4, <1>5, <1>6, FlatInBase DEF x, y, z, w
  <1>. QED
    BY <1>7, <1>8, <1>9 DEF x, y, z

LEMMA FlatSpan ==
  ASSUME NEW base \in BaseFeature, BaseFits(base), base.kind \in Flat, NEW k \in 1 .. 3
  PROVE  Full(BaseExtents(base)[k]) = Span(base, k)
  <1>. DEFINE x == Half(base.size[1])
              y == Half(base.size[2])
              z == Full(base.size[3])
              e == Extents(base)
              lo == CASE k = 1 -> -x [] k = 2 -> -y [] k = 3 -> 0
              hi == CASE k = 1 -> x [] k = 2 -> y [] k = 3 -> z
  <1>0. k = 1 \/ k = 2 \/ k = 3
    OBVIOUS
  <1>1. /\ e = <<x, y, z>> /\ BaseExtents(base) = base.size
        /\ base.size[1] \in Int /\ base.size[2] \in Int /\ base.size[3] \in Int
    BY FlatExtents
  <1>2. /\ x \in Int /\ y \in Int /\ z \in Int /\ -x \in Int /\ -y \in Int
        /\ Full(base.size[1]) = x - (-x) /\ Full(base.size[2]) = y - (-y)
        /\ Full(base.size[3]) = z - 0
    BY <1>1 DEF Half, Full
  <1>3. e[1] = x /\ e[2] = y /\ e[3] = z
    BY <1>1
  <1>4. NegativeFace(e, 1) = -x /\ NegativeFace(e, 2) = -y /\ NegativeFace(e, 3) = 0
    BY <1>3 DEF NegativeFace, Z
  <1>5. /\ x \in OnPlanes(base, X) /\ -x \in OnPlanes(base, X) /\ 0 \in OnPlanes(base, X)
        /\ y \in OnPlanes(base, Y) /\ -y \in OnPlanes(base, Y) /\ 0 \in OnPlanes(base, Y)
        /\ z \in OnPlanes(base, Z) /\ 0 \in OnPlanes(base, Z)
    <2>1. 1 \in 1 .. 3 /\ 2 \in 1 .. 3 /\ 3 \in 1 .. 3
      OBVIOUS
    <2>2. \A i \in 1 .. 3 : /\ e[i] \in OnPlanes(base, i)
                            /\ NegativeFace(e, i) \in OnPlanes(base, i)
                            /\ 0 \in OnPlanes(base, i)
      BY FlatPlanes
    <2>. HIDE DEF e, x, y, z
    <2>. QED
      BY <1>3, <1>4, <2>1, <2>2 DEF X, Y, Z
  <1>6. \A i \in 1 .. 3 : OnPlanes(base, i) \in SUBSET Int
    BY FlatPlanes
  <1>. HIDE DEF x, y, z, e
  <1>7. lo \in Int /\ hi \in Int /\ Full(BaseExtents(base)[k]) = hi - lo
    BY <1>0, <1>1, <1>2
  <1>8. ASSUME NEW s \in Reached(base, k)
        PROVE  s \in Int /\ lo <= s /\ s <= hi
    <2>1. PICK a \in OnPlanes(base, X), b \in OnPlanes(base, Y), c \in OnPlanes(base, Z) :
                 InBase(<<a, b, c>>, base) /\ Coordinate(<<a, b, c>>, k) = s
      <3>1. HasPoint(base, k, s)
        BY ReachedFrom
      <3>. QED
        BY <3>1 DEF HasPoint
    <2>2. a \in Int /\ b \in Int /\ c \in Int
      BY <1>6 DEF X, Y, Z
    <2>3. -x <= a /\ a <= x /\ -y <= b /\ b <= y /\ 0 <= c /\ c <= z
      BY <2>1, <2>2, FlatInBase DEF x, y, z
    <2>. QED
      BY <1>0, <2>1, <2>2, <2>3 DEF Coordinate
  <1>9. lo \in Reached(base, k) /\ hi \in Reached(base, k)
    <2>1. ASSUME NEW a \in OnPlanes(base, X), NEW b \in OnPlanes(base, Y),
                 NEW c \in OnPlanes(base, Z), InBase(<<a, b, c>>, base)
          PROVE  Coordinate(<<a, b, c>>, k) \in Reached(base, k)
      BY <2>1, ReachedBy
    <2>2. CASE base.kind \in {"cylinder", "ring"}
      <3>1. /\ InBase(<<x, 0, z>>, base) /\ InBase(<<x, 0, 0>>, base) /\ InBase(<<-x, 0, 0>>, base)
            /\ InBase(<<0, y, 0>>, base) /\ InBase(<<0, -y, 0>>, base)
        BY <2>2, RoundTouches DEF x, y, z
      <3>2. /\ Coordinate(<<x, 0, z>>, k) \in Reached(base, k)
            /\ Coordinate(<<x, 0, 0>>, k) \in Reached(base, k)
            /\ Coordinate(<<-x, 0, 0>>, k) \in Reached(base, k)
            /\ Coordinate(<<0, y, 0>>, k) \in Reached(base, k)
            /\ Coordinate(<<0, -y, 0>>, k) \in Reached(base, k)
        BY <1>5, <2>1, <3>1
      <3>. QED
        BY <1>0, <3>2 DEF Coordinate
    <2>3. CASE base.kind \in {"plate", "l_bracket", "enclosure"}
      <3>1. /\ InBase(<<x, -y, z>>, base) /\ InBase(<<-x, -y, 0>>, base)
            /\ InBase(<<-x, y, 0>>, base)
        BY <2>3, FlatTouches DEF x, y, z
      <3>2. /\ Coordinate(<<x, -y, z>>, k) \in Reached(base, k)
            /\ Coordinate(<<-x, -y, 0>>, k) \in Reached(base, k)
            /\ Coordinate(<<-x, y, 0>>, k) \in Reached(base, k)
        BY <1>5, <2>1, <3>1
      <3>. QED
        BY <1>0, <3>2 DEF Coordinate
    <2>. QED
      BY <2>2, <2>3 DEF Flat
  <1>. HIDE DEF lo, hi
  <1>10. Reached(base, k) \in SUBSET Int
    BY <1>8
  <1>11. Span(base, k) = hi - lo
    BY <1>7, <1>8, <1>9, <1>10, SpanOf
  <1>. QED
    BY <1>7, <1>11

(* What a valid profile is.                                                *)
LEMMA SoundOutline ==
  ASSUME NEW base \in BaseFeature, BaseFits(base), base.kind \in Profiled, ProfileErrors(base) = {}
  PROVE  /\ base.outer \in Seq(Segment) /\ base.outer # <<>>
         /\ Len(base.outer) > 1 /\ Closed(base.outer)
         /\ base.kind = "profile_revolution" =>
              ~(Max(Sides(base.outer, 1)) <= 0) /\ ~(Min(Sides(base.outer, 1)) < 0)
  <1>. DEFINE l == base.outer
              n == Len(l)
  <1>1. l \in Seq(Segment) /\ l # <<>>
    BY DEF BaseFeature, BaseFits
  <1>2. n \in Nat /\ n > 0 /\ DOMAIN l = 1 .. n
    BY <1>1
  <1>3. BrokenSegments(l) = {}
    BY DEF ProfileErrors
  <1>4. /\ \A i \in 1 .. n : l[i].start # l[i].end
        /\ \A i \in 1 .. n : l[i].end = l[(i % n) + 1].start
    BY <1>3 DEF BrokenSegments, Code, IsDegenerate
  <1>5. n > 1
    <2>1. n # 1
      <3>. SUFFICES ASSUME n = 1 PROVE FALSE
        OBVIOUS
      <3>1. 1 \in 1 .. n /\ (1 % n) + 1 = 1
        OBVIOUS
      <3>. QED
        BY <1>4, <3>1
    <2>. HIDE DEF n
    <2>. QED
      BY <1>2, <2>1
  <1>6. ASSUME base.kind = "profile_revolution"
        PROVE  ~(Max(Sides(l, 1)) <= 0) /\ ~(Min(Sides(l, 1)) < 0)
    <2>1. Xs(l) = Sides(l, 1)
      BY DEF Xs, Sides
    <2>2. RevolutionErrors(l) = {}
      BY <1>6 DEF ProfileErrors
    <2>3. Code(Min(Xs(l)) < 0, "revolution_negative_radius") = {}
      BY <1>3, <1>6 DEF ProfileErrors
    <2>. QED
      BY <2>1, <2>2, <2>3 DEF RevolutionErrors, Code
  <1>. QED
    BY <1>1, <1>4, <1>5, <1>6 DEF Closed

LEMMA LargestSize ==
  ASSUME NEW S \in SUBSET Int, IsFiniteSet(S), S # {}
  PROVE  /\ Max({Abs(x) : x \in S}) \in Int
         /\ \A x \in S : Abs(x) <= Max({Abs(y) : y \in S})
  <1>. DEFINE T == {Abs(x) : x \in S}
              f == [x \in S |-> Abs(x)]
  <1>1. /\ DOMAIN f = S /\ f = [x \in S |-> f[x]]
        /\ \A x \in S : f[x] \in T
        /\ \A v \in T : \E x \in S : f[x] = v
    OBVIOUS
  <1>2. T \in SUBSET Int /\ T # {}
    <2>1. \A x \in S : Abs(x) \in Int
      BY DEF Abs
    <2>. QED
      BY <2>1
  <1>. HIDE DEF T, f
  <1>3. IsFiniteSet(T)
    BY <1>1, FiniteRange
  <1>4. Max(T) \in T /\ \A v \in T : v <= Max(T)
    BY <1>2, <1>3, FiniteExtremes
  <1>5. \A x \in S : Abs(x) \in T
    BY DEF T
  <1>. QED
    BY <1>2, <1>4, <1>5 DEF T

LEMMA ExtrudedPlanes ==
  ASSUME NEW base \in BaseFeature, BaseFits(base), ProfileErrors(base) = {},
         base.kind = "profile_extrusion"
  PROVE  /\ OnPlanes(base, X) \in SUBSET Int /\ OnPlanes(base, Y) \in SUBSET Int
         /\ \A c \in Corners(base.outer) :
              Full(c[1]) \in OnPlanes(base, X) /\ Full(c[2]) \in OnPlanes(base, Y)
         /\ OnPlanes(base, Z) = {Full(base.size[3]), 0}
         /\ base.size[3] \in Int /\ base.size[3] > 0
  <1>. DEFINE l == base.outer
              e == Extents(base)
              C(k) == {Full(c[k]) : c \in Corners(l)}
  <1>1. l \in Seq(Segment) /\ l # <<>>
    BY SoundOutline DEF Profiled
  <1>2. \A k \in 1 .. 2 : /\ Sides(l, k) \in SUBSET Int /\ IsFiniteSet(Sides(l, k))
                          /\ Sides(l, k) # {}
    BY <1>1, SidesOf
  <1>3. base.size \in Int \X Int \X Int /\ base.size[3] > 0
    BY DEF BaseFeature, BaseFits, Z
  <1>4. Xs(l) = Sides(l, 1) /\ Ys(l) = Sides(l, 2)
    BY DEF Xs, Ys, Sides
  <1>5. /\ Max({Abs(x) : x \in Xs(l)}) \in Int /\ Max({Abs(x) : x \in Ys(l)}) \in Int
    BY <1>2, <1>4, LargestSize
  <1>6. e = <<Full(Max({Abs(x) : x \in Xs(l)})), Full(Max({Abs(y) : y \in Ys(l)})),
              Full(base.size[Z])>>
    BY DEF Extents
  <1>7. e[1] \in Int /\ e[2] \in Int /\ e[3] = Full(base.size[3]) /\ e[3] \in Int
    BY <1>3, <1>5, <1>6 DEF Full, Z
  <1>. HIDE DEF e
  <1>8. \A k \in 1 .. 3 : NegativeFace(e, k) = IF k = 3 THEN 0 ELSE -e[k]
    BY DEF NegativeFace, Z
  <1>9. /\ BasePlanes(base, X) = {e[1], NegativeFace(e, 1)} \cup C(1)
        /\ BasePlanes(base, Y) = {e[2], NegativeFace(e, 2)} \cup C(2)
        /\ BasePlanes(base, Z) = {e[3], NegativeFace(e, 3)}
    BY DEF BasePlanes, X, Y, Z, e
  <1>10. \A k \in 1 .. 2 : C(k) \in SUBSET Int
    <2>1. \A k \in 1 .. 2 : \A c \in Corners(l) : c[k] \in Sides(l, k)
      BY DEF Sides
    <2>2. \A k \in 1 .. 2 : \A c \in Corners(l) : Full(c[k]) \in Int
      BY <1>2, <2>1 DEF Full
    <2>. QED
      BY <2>2
  <1>11. OnPlanes(base, X) \in SUBSET Int /\ OnPlanes(base, Y) \in SUBSET Int
    <2>1. OnPlanes(base, X) = {e[1], -e[1], 0} \cup C(1)
      BY <1>8, <1>9 DEF OnPlanes
    <2>2. OnPlanes(base, Y) = {e[2], -e[2], 0} \cup C(2)
      BY <1>8, <1>9 DEF OnPlanes
    <2>3. C(1) \in SUBSET Int /\ C(2) \in SUBSET Int
      BY <1>10
    <2>. HIDE DEF C
    <2>. QED
      BY <1>7, <2>1, <2>2, <2>3
  <1>12. OnPlanes(base, Z) = {Full(base.size[3]), 0}
    BY <1>7, <1>8, <1>9 DEF OnPlanes
  <1>13. \A c \in Corners(l) : Full(c[1]) \in OnPlanes(base, X) /\ Full(c[2]) \in OnPlanes(base, Y)
    BY <1>9 DEF OnPlanes
  <1>. QED
    BY <1>3, <1>11, <1>12, <1>13

LEMMA ExtrudedSpan ==
  ASSUME NEW base \in BaseFeature, BaseFits(base), ProfileErrors(base) = {},
         base.kind = "profile_extrusion", NEW k \in 1 .. 3
  PROVE  Full(BaseExtents(base)[k]) = Span(base, k)
  <1>. DEFINE l == base.outer
              z == Full(base.size[3])
              mn(i) == Min(Sides(l, i))
              mx(i) == Max(Sides(l, i))
              lo == IF k = 3 THEN 0 ELSE Full(mn(k))
              hi == IF k = 3 THEN z ELSE Full(mx(k))
  <1>0. k = 1 \/ k = 2 \/ k = 3
    OBVIOUS
  <1>1. l \in Seq(Segment) /\ l # <<>> /\ Len(l) > 1 /\ Closed(l)
    BY SoundOutline DEF Profiled
  <1>2. /\ OnPlanes(base, X) \in SUBSET Int /\ OnPlanes(base, Y) \in SUBSET Int
        /\ \A c \in Corners(l) :
             Full(c[1]) \in OnPlanes(base, X) /\ Full(c[2]) \in OnPlanes(base, Y)
        /\ OnPlanes(base, Z) = {z, 0} /\ base.size[3] \in Int /\ base.size[3] > 0
    BY ExtrudedPlanes
  <1>3. z \in Int /\ 0 <= z
    BY <1>2 DEF Full
  <1>4. \A i \in 1 .. 2 :
          /\ mn(i) \in Int /\ mx(i) \in Int
          /\ (\E c \in Corners(l) : c[i] = mn(i)) /\ (\E c \in Corners(l) : c[i] = mx(i))
    <2>1. \A i \in 1 .. 2 : /\ Sides(l, i) \in SUBSET Int
                            /\ mn(i) \in Sides(l, i) /\ mx(i) \in Sides(l, i)
      BY <1>1, SidesOf
    <2>2. \A i \in 1 .. 2 : \A s \in Sides(l, i) : \E c \in Corners(l) : c[i] = s
      BY DEF Sides
    <2>. HIDE DEF mn, mx
    <2>. QED
      BY <2>1, <2>2
  <1>5. BaseExtents(base) = <<mx(1) - mn(1), mx(2) - mn(2), base.size[3]>>
    <2>1. Xs(l) = Sides(l, 1) /\ Ys(l) = Sides(l, 2)
      BY DEF Xs, Ys, Sides
    <2>. QED
      BY <2>1 DEF BaseExtents, Width, Height, Z
  <1>6. ASSUME NEW a \in Int, NEW b \in Int, NEW c \in Int
        PROVE  InBase(<<a, b, c>>, base) <=>
                 0 <= c /\ c <= z /\ InLoop(<<a, b>>, FullSize(l))
    <2>1. Sizes(base)[3] = z
      BY DEF Sizes
    <2>. QED
      BY <2>1 DEF InBase, X, Y, Z
  <1>7. /\ \A p \in Point : InLoop(p, FullSize(l)) =>
             \A i \in 1 .. 2 : Full(mn(i)) <= p[i] /\ p[i] <= Full(mx(i))
        /\ \A c \in Corners(l) : InLoop(<<Full(c[1]), Full(c[2])>>, FullSize(l))
    BY <1>1, ScaledBox
  <1>. HIDE DEF l, z, mn, mx
  <1>8. lo \in Int /\ hi \in Int /\ Full(BaseExtents(base)[k]) = hi - lo
    <2>1. CASE k = 3
      BY <1>3, <1>5, <2>1 DEF z
    <2>2. CASE k # 3
      <3>1. k \in 1 .. 2 /\ BaseExtents(base)[k] = mx(k) - mn(k)
        BY <1>0, <1>5, <2>2
      <3>2. mx(k) \in Int /\ mn(k) \in Int
        BY <1>4, <3>1
      <3>. QED
        BY <2>2, <3>1, <3>2 DEF Full
    <2>. QED
      BY <2>1, <2>2
  <1>9. ASSUME NEW s \in Reached(base, k)
        PROVE  s \in Int /\ lo <= s /\ s <= hi
    <2>1. PICK a \in OnPlanes(base, X), b \in OnPlanes(base, Y), c \in OnPlanes(base, Z) :
                 InBase(<<a, b, c>>, base) /\ Coordinate(<<a, b, c>>, k) = s
      <3>1. HasPoint(base, k, s)
        BY ReachedFrom
      <3>. QED
        BY <3>1 DEF HasPoint
    <2>2. a \in Int /\ b \in Int /\ c \in Int
      BY <1>2, <1>3
    <2>3. 0 <= c /\ c <= z /\ InLoop(<<a, b>>, FullSize(l))
      BY <1>6, <2>1, <2>2
    <2>4. <<a, b>> \in Point
      BY <2>2 DEF Point
    <2>5. \A i \in 1 .. 2 : Full(mn(i)) <= <<a, b>>[i] /\ <<a, b>>[i] <= Full(mx(i))
      BY <1>7, <2>3, <2>4
    <2>6. /\ Full(mn(1)) <= a /\ a <= Full(mx(1)) /\ Full(mn(2)) <= b /\ b <= Full(mx(2))
      BY <2>5
    <2>7. CASE k = 1
      BY <2>1, <2>2, <2>6, <2>7 DEF Coordinate
    <2>8. CASE k = 2
      BY <2>1, <2>2, <2>6, <2>8 DEF Coordinate
    <2>9. CASE k = 3
      BY <2>1, <2>2, <2>3, <2>9 DEF Coordinate
    <2>. QED
      BY <1>0, <2>7, <2>8, <2>9
  <1>10. ASSUME NEW c \in Corners(l), NEW h \in {0, z}
         PROVE  Coordinate(<<Full(c[1]), Full(c[2]), h>>, k) \in Reached(base, k)
    <2>1. Full(c[1]) \in OnPlanes(base, X) /\ Full(c[2]) \in OnPlanes(base, Y)
            /\ h \in OnPlanes(base, Z)
      BY <1>2
    <2>2. Full(c[1]) \in Int /\ Full(c[2]) \in Int /\ h \in Int /\ 0 <= h /\ h <= z
      BY <1>2, <1>3, <2>1
    <2>3. InBase(<<Full(c[1]), Full(c[2]), h>>, base)
      BY <1>6, <1>7, <2>2
    <2>. QED
      BY <2>1, <2>3, ReachedBy
  <1>11. lo \in Reached(base, k) /\ hi \in Reached(base, k)
    <2>1. CASE k = 3
      <3>1. PICK c \in Corners(l) : c[1] = mn(1)
        BY <1>4
      <3>2. /\ Coordinate(<<Full(c[1]), Full(c[2]), 0>>, k) \in Reached(base, k)
            /\ Coordinate(<<Full(c[1]), Full(c[2]), z>>, k) \in Reached(base, k)
        BY <1>10
      <3>. QED
        BY <2>1, <3>2 DEF Coordinate
    <2>2. CASE k # 3
      <3>0. k \in 1 .. 2
        BY <1>0, <2>2
      <3>1. PICK c \in Corners(l) : c[k] = mn(k)
        BY <1>4, <3>0
      <3>2. PICK d \in Corners(l) : d[k] = mx(k)
        BY <1>4, <3>0
      <3>3. /\ Coordinate(<<Full(c[1]), Full(c[2]), 0>>, k) \in Reached(base, k)
            /\ Coordinate(<<Full(d[1]), Full(d[2]), 0>>, k) \in Reached(base, k)
        BY <1>10
      <3>4. CASE k = 1
        BY <3>1, <3>2, <3>3, <3>4 DEF Coordinate
      <3>5. CASE k = 2
        BY <3>1, <3>2, <3>3, <3>5 DEF Coordinate
      <3>. QED
        BY <3>0, <3>4, <3>5
    <2>. QED
      BY <2>1, <2>2
  <1>. HIDE DEF lo, hi
  <1>12. Reached(base, k) \in SUBSET Int
    BY <1>9
  <1>13. Span(base, k) = hi - lo
    BY <1>8, <1>9, <1>11, <1>12, SpanOf
  <1>. QED
    BY <1>8, <1>13

LEMMA Squares1 ==
  ASSUME NEW a \in Int, NEW b \in Int, 0 <= a, 0 <= b
  PROVE  a * a < b * b <=> a < b
  <1>. DEFINE u == a * a
              v == b * b
  <1>1. u \in Int /\ v \in Int
    OBVIOUS
  <1>2. a < b => u < v
    BY LargerSquare
  <1>3. b < a => v < u
    BY LargerSquare
  <1>4. a = b => u = v
    OBVIOUS
  <1>. HIDE DEF u, v
  <1>5. u < v <=> a < b
    BY <1>1, <1>2, <1>3, <1>4
  <1>. QED
    BY <1>5 DEF u, v

LEMMA AbsSquare ==
  ASSUME NEW a \in Int
  PROVE  Abs(a) \in Int /\ 0 <= Abs(a) /\ Abs(a) * Abs(a) = a * a
         /\ -Abs(a) <= a /\ a <= Abs(a)
  <1>1. CASE a < 0
    BY <1>1 DEF Abs
  <1>2. CASE ~(a < 0)
    BY <1>2 DEF Abs
  <1>. QED
    BY <1>1, <1>2

(* Every number has a square root, rounded down.                           *)
LEMMA RootExists ==
  ASSUME NEW n \in Nat, NEW m \in Nat, n <= m * m
  PROVE  \E r \in 0 .. m : r * r <= n /\ n < (r + 1) * (r + 1)
  <1>. DEFINE goal == \E r \in 0 .. m : r * r <= n /\ n < (r + 1) * (r + 1)
              T == {j \in Nat : j <= m => ((m - j) * (m - j) <= n => goal)}
  <1>1. 0 \in T
    <2>. SUFFICES ASSUME m * m <= n PROVE goal
      OBVIOUS
    <2>1. m * m = n
      OBVIOUS
    <2>2. n < (m + 1) * (m + 1)
      <3>1. m * m < (m + 1) * (m + 1)
        BY LargerSquare
      <3>. QED
        BY <2>1, <3>1
    <2>. QED
      BY <2>1, <2>2
  <1>2. ASSUME NEW j \in Nat, j \in T PROVE j + 1 \in T
    <2>. SUFFICES ASSUME j + 1 <= m, (m - (j + 1)) * (m - (j + 1)) <= n PROVE goal
      OBVIOUS
    <2>. DEFINE r == m - (j + 1)
    <2>1. r \in 0 .. m /\ r + 1 = m - j /\ r * r <= n /\ j <= m
      OBVIOUS
    <2>2. (r + 1) * (r + 1) \in Int
      BY <2>1
    <2>. HIDE DEF r, goal
    <2>3. CASE n < (r + 1) * (r + 1)
      BY <2>1, <2>3 DEF goal
    <2>4. CASE ~(n < (r + 1) * (r + 1))
      <3>1. (r + 1) * (r + 1) <= n
        BY <2>2, <2>4
      <3>2. (m - j) * (m - j) <= n
        BY <2>1, <3>1
      <3>. QED
        BY <1>2, <2>1, <3>2
    <2>. QED
      BY <2>3, <2>4
  <1>. HIDE DEF T, goal
  <1>3. m \in T
    BY <1>1, <1>2, SetInduction
  <1>4. (m - m) * (m - m) <= n
    <2>1. m - m = 0 /\ 0 * 0 = 0
      OBVIOUS
    <2>. QED
      BY <2>1
  <1>. QED
    BY <1>3, <1>4 DEF T, goal

LEMMA RadiusIs ==
  ASSUME NEW a \in Int, NEW b \in Int, NEW c
  PROVE  LET r == Radius(<<a, b, c>>) IN
         /\ r \in Int /\ 0 <= r
         /\ r * r <= a * a + b * b /\ a * a + b * b < (r + 1) * (r + 1)
  <1>. DEFINE n == a * a + b * b
              m == Abs(a) + Abs(b)
              u == Abs(a)
              v == Abs(b)
  <1>1. /\ u \in Nat /\ v \in Nat /\ u * u = a * a /\ v * v = b * b
    BY AbsSquare
  <1>2. Distance2(<<a, b>>, <<0, 0>>) = n
    BY DEF Distance2, Square
  <1>. HIDE DEF u, v
  <1>3. u * u + v * v <= (u + v) * (u + v) /\ u * u + v * v \in Nat /\ u + v \in Nat
    <2>. DEFINE p == u * u
                q == v * v
                w == u * v
    <2>1. p \in Nat /\ q \in Nat /\ w \in Nat /\ (u + v) * (u + v) = p + q + 2 * w
      BY <1>1
    <2>. HIDE DEF p, q, w
    <2>2. p + q <= (u + v) * (u + v) /\ p + q \in Nat
      BY <2>1
    <2>. QED
      BY <1>1, <2>2 DEF p, q
  <1>4. n \in Nat /\ m \in Nat /\ n <= m * m
    BY <1>1, <1>3 DEF u, v
  <1>. HIDE DEF n, m
  <1>5. \E r \in 0 .. m : r * r <= n /\ n < (r + 1) * (r + 1)
    BY <1>4, RootExists
  <1>6. Radius(<<a, b, c>>) = CHOOSE r \in 0 .. m : r * r <= n /\ n < (r + 1) * (r + 1)
    <2>1. <<a, b, c>>[X] = a /\ <<a, b, c>>[Y] = b
      BY DEF X, Y
    <2>. QED
      BY <1>2, <2>1 DEF Radius, m
  <1>. DEFINE r == Radius(<<a, b, c>>)
  <1>7. r \in 0 .. m /\ r * r <= n /\ n < (r + 1) * (r + 1)
    BY <1>5, <1>6
  <1>. HIDE DEF r
  <1>8. r \in Int /\ 0 <= r
    BY <1>4, <1>7
  <1>. QED
    BY <1>7, <1>8 DEF r, n

(* A point is no farther from the axis than its radius, but for the        *)
(* rounding, and one on a plane through the axis is exactly there.         *)
LEMMA RadiusReaches ==
  ASSUME NEW a \in Int, NEW b \in Int, NEW c
  PROVE  LET r == Radius(<<a, b, c>>) IN
         /\ r \in Int /\ 0 <= r
         /\ -r <= a /\ a <= r /\ -r <= b /\ b <= r
         /\ a = 0 => r = Abs(b)
         /\ b = 0 => r = Abs(a)
  <1>. DEFINE r == Radius(<<a, b, c>>)
              u == Abs(a)
              v == Abs(b)
              aa == a * a
              bb == b * b
  <1>1. /\ r \in Int /\ 0 <= r
        /\ r * r <= aa + bb /\ aa + bb < (r + 1) * (r + 1)
    BY RadiusIs
  <1>2. /\ u \in Int /\ 0 <= u /\ u * u = aa /\ -u <= a /\ a <= u
        /\ v \in Int /\ 0 <= v /\ v * v = bb /\ -v <= b /\ b <= v
    BY AbsSquare
  <1>3. aa \in Int /\ bb \in Int /\ (a = 0 => aa = 0) /\ (b = 0 => bb = 0)
    OBVIOUS
  <1>4. 0 <= aa /\ 0 <= bb
    <2>1. \A x \in Int : 0 <= x => 0 <= x * x
      OBVIOUS
    <2>. HIDE DEF u, v, aa, bb
    <2>. QED
      BY <1>2, <2>1
  <1>. HIDE DEF r, u, v, aa, bb
  <1>5. r * r \in Int /\ (r + 1) * (r + 1) \in Int /\ r + 1 \in Int /\ 0 <= r + 1
    BY <1>1
  <1>6. u < r + 1 /\ v < r + 1
    <2>1. u * u < (r + 1) * (r + 1) /\ v * v < (r + 1) * (r + 1)
      BY <1>1, <1>2, <1>3, <1>4, <1>5
    <2>. QED
      BY <1>2, <1>5, <2>1, Squares1
  <1>7. u <= r /\ v <= r
    BY <1>1, <1>2, <1>6
  <1>8. ASSUME a = 0 PROVE r = v
    <2>1. r * r <= v * v
      BY <1>1, <1>2, <1>3, <1>8
    <2>2. ~(v * v < r * r)
      BY <1>2, <1>3, <1>5, <2>1
    <2>3. ~(v < r)
      BY <1>1, <1>2, <2>2, Squares1
    <2>. QED
      BY <1>1, <1>2, <1>7, <2>3
  <1>9. ASSUME b = 0 PROVE r = u
    <2>1. r * r <= u * u
      BY <1>1, <1>2, <1>3, <1>9
    <2>2. ~(u * u < r * r)
      BY <1>2, <1>3, <1>5, <2>1
    <2>3. ~(u < r)
      BY <1>1, <1>2, <2>2, Squares1
    <2>. QED
      BY <1>1, <1>2, <1>7, <2>3
  <1>10. -r <= a /\ a <= r /\ -r <= b /\ b <= r
    BY <1>1, <1>2, <1>7
  <1>. QED
    BY <1>1, <1>8, <1>9, <1>10 DEF r, u, v

LEMMA RevolvedPlanes ==
  ASSUME NEW base \in BaseFeature, BaseFits(base), ProfileErrors(base) = {},
         base.kind = "profile_revolution"
  PROVE  LET m == Full(Max(Sides(base.outer, 1))) IN
         /\ OnPlanes(base, X) \in SUBSET Int /\ OnPlanes(base, Y) \in SUBSET Int
         /\ OnPlanes(base, Z) \in SUBSET Int
         /\ m \in OnPlanes(base, X) /\ -m \in OnPlanes(base, X) /\ 0 \in OnPlanes(base, X)
         /\ m \in OnPlanes(base, Y) /\ -m \in OnPlanes(base, Y) /\ 0 \in OnPlanes(base, Y)
         /\ \A c \in Corners(base.outer) :
              Full(c[1]) \in OnPlanes(base, X) /\ Full(c[2]) \in OnPlanes(base, Z)
  <1>. DEFINE l == base.outer
              e == Extents(base)
              m == Full(Max(Sides(l, 1)))
              t == Full(Max(Sides(l, 2)))
              C(k) == {Full(c[k]) : c \in Corners(l)}
  <1>1. l \in Seq(Segment) /\ l # <<>>
    BY SoundOutline DEF Profiled
  <1>2. \A k \in 1 .. 2 : Sides(l, k) \in SUBSET Int /\ Max(Sides(l, k)) \in Sides(l, k)
    BY <1>1, SidesOf
  <1>3. m \in Int /\ t \in Int /\ -m \in Int
    BY <1>2 DEF Full
  <1>4. Xs(l) = Sides(l, 1) /\ Ys(l) = Sides(l, 2)
    BY DEF Xs, Ys, Sides
  <1>5. e = <<m, m, t>>
    BY <1>4 DEF Extents
  <1>. HIDE DEF e, m, t
  <1>6. NegativeFace(e, 1) = -m /\ NegativeFace(e, 2) = -m /\ NegativeFace(e, 3) = 0
    <2>1. e[1] = m /\ e[2] = m
      BY <1>5
    <2>. QED
      BY <2>1 DEF NegativeFace, Z
  <1>7. /\ BasePlanes(base, X) = {m, -m} \cup C(1)
        /\ BasePlanes(base, Y) = {m, -m} \cup C(1)
        /\ BasePlanes(base, Z) = {t, 0} \cup C(2)
    <2>1. \A k \in 1 .. 3 :
            BasePlanes(base, k) = {e[k], NegativeFace(e, k)} \cup C(IF k = Z THEN 2 ELSE 1)
      BY DEF BasePlanes, e
    <2>2. e[1] = m /\ e[2] = m /\ e[3] = t /\ X = 1 /\ Y = 2 /\ Z = 3
      BY <1>5 DEF X, Y, Z
    <2>3. /\ BasePlanes(base, 1) = {e[1], NegativeFace(e, 1)} \cup C(1)
          /\ BasePlanes(base, 2) = {e[2], NegativeFace(e, 2)} \cup C(1)
          /\ BasePlanes(base, 3) = {e[3], NegativeFace(e, 3)} \cup C(2)
      BY <2>1 DEF Z
    <2>. HIDE DEF C
    <2>. QED
      BY <1>6, <2>2, <2>3
  <1>8. C(1) \in SUBSET Int /\ C(2) \in SUBSET Int
    <2>1. \A k \in 1 .. 2 : \A c \in Corners(l) : c[k] \in Sides(l, k)
      BY DEF Sides
    <2>2. \A k \in 1 .. 2 : \A c \in Corners(l) : Full(c[k]) \in Int
      BY <1>2, <2>1 DEF Full
    <2>. QED
      BY <2>2
  <1>9. \A c \in Corners(l) : Full(c[1]) \in C(1) /\ Full(c[2]) \in C(2)
    OBVIOUS
  <1>. HIDE DEF C, l
  <1>10. /\ OnPlanes(base, X) = ({m, -m} \cup C(1)) \cup {0}
         /\ OnPlanes(base, Y) = ({m, -m} \cup C(1)) \cup {0}
         /\ OnPlanes(base, Z) = ({t, 0} \cup C(2)) \cup {0}
    BY <1>7 DEF OnPlanes
  <1>11. /\ OnPlanes(base, X) \in SUBSET Int /\ OnPlanes(base, Y) \in SUBSET Int
         /\ OnPlanes(base, Z) \in SUBSET Int
    BY <1>3, <1>8, <1>10
  <1>12. /\ m \in OnPlanes(base, X) /\ -m \in OnPlanes(base, X) /\ 0 \in OnPlanes(base, X)
         /\ m \in OnPlanes(base, Y) /\ -m \in OnPlanes(base, Y) /\ 0 \in OnPlanes(base, Y)
    BY <1>10
  <1>13. \A c \in Corners(l) : Full(c[1]) \in OnPlanes(base, X) /\ Full(c[2]) \in OnPlanes(base, Z)
    BY <1>9, <1>10
  <1>. QED
    BY <1>11, <1>12, <1>13 DEF l, m

LEMMA RevolvedSpan ==
  ASSUME NEW base \in BaseFeature, BaseFits(base), ProfileErrors(base) = {},
         base.kind = "profile_revolution", NEW k \in 1 .. 3
  PROVE  Full(BaseExtents(base)[k]) = Span(base, k)
  <1>. DEFINE l == base.outer
              right == Max(Sides(l, 1))
              low == Min(Sides(l, 2))
              high == Max(Sides(l, 2))
              m == Full(right)
              lo == IF k = 3 THEN Full(low) ELSE -m
              hi == IF k = 3 THEN Full(high) ELSE m
  <1>0. k = 1 \/ k = 2 \/ k = 3
    OBVIOUS
  <1>1. /\ l \in Seq(Segment) /\ l # <<>> /\ Len(l) > 1 /\ Closed(l)
        /\ ~(right <= 0) /\ ~(Min(Sides(l, 1)) < 0)
    BY SoundOutline DEF Profiled
  <1>2. /\ OnPlanes(base, X) \in SUBSET Int /\ OnPlanes(base, Y) \in SUBSET Int
        /\ OnPlanes(base, Z) \in SUBSET Int
        /\ m \in OnPlanes(base, X) /\ -m \in OnPlanes(base, X) /\ 0 \in OnPlanes(base, X)
        /\ m \in OnPlanes(base, Y) /\ -m \in OnPlanes(base, Y) /\ 0 \in OnPlanes(base, Y)
        /\ \A c \in Corners(l) :
             Full(c[1]) \in OnPlanes(base, X) /\ Full(c[2]) \in OnPlanes(base, Z)
    BY RevolvedPlanes
  <1>3. \A i \in 1 .. 2 :
          /\ Sides(l, i) \in SUBSET Int
          /\ Min(Sides(l, i)) \in Sides(l, i) /\ Max(Sides(l, i)) \in Sides(l, i)
          /\ \A c \in Corners(l) : Min(Sides(l, i)) <= c[i] /\ c[i] <= Max(Sides(l, i))
    BY <1>1, SidesOf
  <1>4. \A i \in 1 .. 2 : \A s \in Sides(l, i) : \E c \in Corners(l) : c[i] = s
    BY DEF Sides
  <1>5. \A i \in 1 .. 2 : \A c \in Corners(l) : c[i] \in Sides(l, i)
    BY DEF Sides
  <1>6. /\ right \in Int /\ low \in Int /\ high \in Int
        /\ right > 0
        /\ (\E c \in Corners(l) : c[1] = right) /\ (\E c \in Corners(l) : c[2] = low)
        /\ (\E c \in Corners(l) : c[2] = high)
    BY <1>1, <1>3, <1>4
  <1>7. \A c \in Corners(l) : c[1] \in Int /\ c[2] \in Int /\ 0 <= c[1]
    <2>1. Min(Sides(l, 1)) \in Int
      BY <1>3
    <2>2. \A c \in Corners(l) : c[1] \in Int /\ c[2] \in Int /\ Min(Sides(l, 1)) <= c[1]
      BY <1>3, <1>5
    <2>. QED
      BY <1>1, <2>1, <2>2
  <1>8. BaseExtents(base) = <<2 * right, 2 * right, high - low>>
    <2>1. Xs(l) = Sides(l, 1) /\ Ys(l) = Sides(l, 2)
      BY DEF Xs, Ys, Sides
    <2>. QED
      BY <2>1 DEF BaseExtents, Height
  <1>9. ASSUME NEW a, NEW b, NEW c
        PROVE  InBase(<<a, b, c>>, base)
                 <=> InLoop(<<Radius(<<a, b, c>>), c>>, FullSize(l))
    BY DEF InBase, Z
  <1>10. /\ \A p \in Point : InLoop(p, FullSize(l)) =>
              \A i \in 1 .. 2 : /\ Full(Min(Sides(l, i))) <= p[i]
                                /\ p[i] <= Full(Max(Sides(l, i)))
         /\ \A c \in Corners(l) : InLoop(<<Full(c[1]), Full(c[2])>>, FullSize(l))
    BY <1>1, ScaledBox
  <1>11. m \in Int /\ m > 0
    BY <1>6 DEF Full
  <1>. HIDE DEF l, right, low, high, m
  <1>12. lo \in Int /\ hi \in Int /\ Full(BaseExtents(base)[k]) = hi - lo
    <2>1. CASE k = 3
      BY <1>6, <1>8, <2>1 DEF Full
    <2>2. CASE k # 3
      <3>1. BaseExtents(base)[k] = 2 * right
        BY <1>0, <1>8, <2>2
      <3>. QED
        BY <1>6, <1>11, <2>2, <3>1 DEF Full, m
    <2>. QED
      BY <2>1, <2>2
  <1>13. ASSUME NEW s \in Reached(base, k)
        PROVE  s \in Int /\ lo <= s /\ s <= hi
    <2>1. PICK a \in OnPlanes(base, X), b \in OnPlanes(base, Y), c \in OnPlanes(base, Z) :
                 InBase(<<a, b, c>>, base) /\ Coordinate(<<a, b, c>>, k) = s
      <3>1. HasPoint(base, k, s)
        BY ReachedFrom
      <3>. QED
        BY <3>1 DEF HasPoint
    <2>2. a \in Int /\ b \in Int /\ c \in Int
      BY <1>2
    <2>. DEFINE r == Radius(<<a, b, c>>)
    <2>3. InLoop(<<r, c>>, FullSize(l))
      BY <1>9, <2>1
    <2>4. r \in Int /\ -r <= a /\ a <= r /\ -r <= b /\ b <= r
      BY <2>2, RadiusReaches
    <2>. HIDE DEF r
    <2>5. <<r, c>> \in Point
      BY <2>2, <2>4 DEF Point
    <2>6. \A i \in 1 .. 2 : /\ Full(Min(Sides(l, i))) <= <<r, c>>[i]
                            /\ <<r, c>>[i] <= Full(Max(Sides(l, i)))
      BY <1>10, <2>3, <2>5
    <2>7. r <= m /\ Full(low) <= c /\ c <= Full(high)
      BY <2>6 DEF m, right, low, high
    <2>8. CASE k = 1
      BY <1>11, <2>1, <2>2, <2>4, <2>7, <2>8 DEF Coordinate
    <2>9. CASE k = 2
      BY <1>11, <2>1, <2>2, <2>4, <2>7, <2>9 DEF Coordinate
    <2>10. CASE k = 3
      BY <2>1, <2>2, <2>7, <2>10 DEF Coordinate
    <2>. QED
      BY <1>0, <2>8, <2>9, <2>10
  <1>14. ASSUME NEW c \in Corners(l), NEW a \in OnPlanes(base, X), NEW b \in OnPlanes(base, Y),
                \/ b = 0 /\ Abs(a) = Full(c[1])
                \/ a = 0 /\ Abs(b) = Full(c[1])
         PROVE  Coordinate(<<a, b, Full(c[2])>>, k) \in Reached(base, k)
    <2>1. a \in Int /\ b \in Int /\ Full(c[2]) \in OnPlanes(base, Z)
      BY <1>2
    <2>2. Radius(<<a, b, Full(c[2])>>) = Full(c[1])
      BY <1>14, <2>1, RadiusReaches
    <2>3. InBase(<<a, b, Full(c[2])>>, base)
      BY <1>9, <1>10, <2>2
    <2>. QED
      BY <2>1, <2>3, ReachedBy
  <1>15. lo \in Reached(base, k) /\ hi \in Reached(base, k)
    <2>1. PICK c \in Corners(l) : c[1] = right
      BY <1>6
    <2>2. Full(c[1]) = m /\ Abs(m) = m /\ Abs(-m) = m
      BY <1>11, <2>1 DEF m, Abs
    <2>3. CASE k = 1
      <3>1. /\ Coordinate(<<m, 0, Full(c[2])>>, k) \in Reached(base, k)
            /\ Coordinate(<<-m, 0, Full(c[2])>>, k) \in Reached(base, k)
        BY <1>2, <1>14, <2>2
      <3>. QED
        BY <2>3, <3>1 DEF Coordinate
    <2>4. CASE k = 2
      <3>1. /\ Coordinate(<<0, m, Full(c[2])>>, k) \in Reached(base, k)
            /\ Coordinate(<<0, -m, Full(c[2])>>, k) \in Reached(base, k)
        BY <1>2, <1>14, <2>2
      <3>. QED
        BY <2>4, <3>1 DEF Coordinate
    <2>5. CASE k = 3
      <3>1. \A d \in Corners(l) : Full(d[1]) \in OnPlanes(base, X) /\ Abs(Full(d[1])) = Full(d[1])
        <4>1. \A d \in Corners(l) : Full(d[1]) \in Int /\ 0 <= Full(d[1])
          BY <1>7 DEF Full
        <4>. QED
          BY <1>2, <4>1 DEF Abs
      <3>2. \A d \in Corners(l) :
              Coordinate(<<Full(d[1]), 0, Full(d[2])>>, k) \in Reached(base, k)
        BY <1>2, <1>14, <3>1
      <3>3. \A d \in Corners(l) : Full(d[2]) \in Reached(base, k)
        BY <2>5, <3>2 DEF Coordinate
      <3>4. PICK d \in Corners(l) : d[2] = low
        BY <1>6
      <3>5. PICK f \in Corners(l) : f[2] = high
        BY <1>6
      <3>. QED
        BY <2>5, <3>3, <3>4, <3>5
    <2>. QED
      BY <1>0, <2>3, <2>4, <2>5
  <1>. HIDE DEF lo, hi
  <1>16. Reached(base, k) \in SUBSET Int
    BY <1>13
  <1>17. Span(base, k) = hi - lo
    BY <1>12, <1>13, <1>15, <1>16, SpanOf
  <1>. QED
    BY <1>12, <1>17

(* The overall dimensions of a drawing are those of the solid, for every   *)
(* base the validator finds nothing wrong with.                            *)
LEMMA TrueSize ==
  ASSUME NEW base \in BaseFeature, BaseFits(base),
         base.kind \in Profiled => ProfileErrors(base) = {}, NEW k \in 1 .. 3
  PROVE  Full(BaseExtents(base)[k]) = Span(base, k)
  <1>1. base.kind \in Flat \cup Profiled
    BY DEF BaseFeature, Flat
  <1>2. CASE base.kind \in Flat
    BY <1>2, FlatSpan
  <1>3. CASE base.kind = "profile_extrusion"
    BY <1>3, ExtrudedSpan DEF Profiled
  <1>4. CASE base.kind = "profile_revolution"
    BY <1>4, RevolvedSpan DEF Profiled
  <1>. QED
    BY <1>1, <1>2, <1>3, <1>4 DEF Profiled

(* An overall dimension is beyond its bound just when the solid is.        *)
LEMMA ExtentsAre ==
  ASSUME NEW base \in BaseFeature, BaseFits(base),
         base.kind \in Profiled => ProfileErrors(base) = {}, NEW k \in 1 .. 3
  PROVE  BaseExtents(base)[k] \in Nat
  <1>. DEFINE l == base.outer
              mn(i) == Min(Sides(l, i))
              mx(i) == Max(Sides(l, i))
  <1>0. k = 1 \/ k = 2 \/ k = 3
    OBVIOUS
  <1>1. base.kind \in Flat \cup Profiled
    BY DEF BaseFeature, Flat
  <1>2. CASE base.kind \in Flat
    <2>1. BaseExtents(base) = base.size /\ base.size[k] \in Int /\ base.size[k] > 0
      BY <1>2, FlatExtents
    <2>. QED
      BY <2>1
  <1>3. CASE base.kind \in Profiled
    <2>1. l \in Seq(Segment) /\ l # <<>> /\ Len(l) > 1 /\ Closed(l)
      BY <1>3, SoundOutline
    <2>2. \A i \in 1 .. 2 :
            /\ Sides(l, i) \in SUBSET Int /\ mn(i) \in Sides(l, i) /\ mx(i) \in Sides(l, i)
            /\ \A c \in Corners(l) : mn(i) <= c[i] /\ c[i] <= mx(i)
      BY <2>1, SidesOf
    <2>3. \A i \in 1 .. 2 : \A n \in Sides(l, i) : \E c \in Corners(l) : c[i] = n
      BY DEF Sides
    <2>. HIDE DEF mn, mx
    <2>4. \A i \in 1 .. 2 : /\ mn(i) \in Int /\ mx(i) \in Int
                            /\ mn(i) <= mx(i) /\ mx(i) - mn(i) \in Nat
      <3>. SUFFICES ASSUME NEW i \in 1 .. 2
                    PROVE  /\ mn(i) \in Int /\ mx(i) \in Int
                           /\ mn(i) <= mx(i) /\ mx(i) - mn(i) \in Nat
        OBVIOUS
      <3>1. PICK c \in Corners(l) : c[i] = mx(i)
        BY <2>2, <2>3
      <3>2. mn(i) \in Int /\ mx(i) \in Int /\ mn(i) <= mx(i)
        BY <2>2, <3>1
      <3>. QED
        BY <3>2
    <2>5. Xs(l) = Sides(l, 1) /\ Ys(l) = Sides(l, 2)
      BY DEF Xs, Ys, Sides
    <2>6. CASE base.kind = "profile_extrusion"
      <3>1. BaseExtents(base) = <<mx(1) - mn(1), mx(2) - mn(2), base.size[3]>>
        BY <2>5, <2>6 DEF BaseExtents, Width, Height, Z, mn, mx
      <3>2. base.size[3] \in Nat
        <4>1. base.size[3] \in Int
          BY DEF BaseFeature
        <4>2. base.size[3] > 0
          BY <2>6 DEF BaseFits, Z
        <4>. QED
          BY <4>1, <4>2
      <3>. QED
        BY <1>0, <2>4, <3>1, <3>2
    <2>7. CASE base.kind = "profile_revolution"
      <3>1. BaseExtents(base) = <<2 * mx(1), 2 * mx(1), mx(2) - mn(2)>>
        BY <2>5, <2>7 DEF BaseExtents, Height, mn, mx
      <3>2. ~(mx(1) <= 0)
        BY <2>7, <1>3, SoundOutline DEF mx
      <3>3. 2 * mx(1) \in Nat
        BY <2>4, <3>2
      <3>. QED
        BY <1>0, <2>4, <3>1, <3>3
    <2>. QED
      BY <1>3, <2>6, <2>7 DEF Profiled
  <1>. QED
    BY <1>1, <1>2, <1>3

LEMMA BeyondTheBound ==
  ASSUME NEW base \in BaseFeature, BaseFits(base),
         base.kind \in Profiled => ProfileErrors(base) = {}
  PROVE  TooLarge(base) <=> \E k \in 1 .. 3 : ~InRange(BaseExtents(base)[k])
  <1>1. ASSUME NEW k \in 1 .. 3
        PROVE  ~InRange(BaseExtents(base)[k]) <=> Span(base, k) > Full(MaxDimension)
    <2>. DEFINE e == BaseExtents(base)[k]
    <2>1. e \in Nat /\ Full(e) = Span(base, k)
      BY ExtentsAre, TrueSize
    <2>2. InRange(e) <=> Abs(e) <= MaxDimension
      BY DEF InRange
    <2>. HIDE DEF e
    <2>3. Abs(e) = e
      BY <2>1 DEF Abs
    <2>4. (e <= MaxDimension) <=> ~(Full(e) > Full(MaxDimension))
      BY <2>1, MaxDimensionAssumption DEF Full
    <2>. QED
      BY <2>1, <2>2, <2>3, <2>4 DEF e
  <1>. QED
    BY <1>1 DEF TooLarge

----------------------------------------------------------------------------
(* The drawing the server proposes for a document.                         *)

LEMMA DistinctIds ==
  ASSUME NEW s, \E T : s \in Seq(T), \A i, j \in 1 .. Len(s) : s[i].id = s[j].id => i = j
  PROVE  Cardinality(IdsIn(s)) = Len(s)
  <1>. DEFINE n == Len(s)
              f == [i \in 1 .. n |-> s[i].id]
  <1>1. n \in Nat /\ DOMAIN s = 1 .. n
    OBVIOUS
  <1>2. f \in Bijection(1 .. n, IdsIn(s))
    <2>1. DOMAIN f = 1 .. n /\ f = [i \in 1 .. n |-> f[i]] /\ \A i \in 1 .. n : f[i] = s[i].id
      OBVIOUS
    <2>2. /\ \A i \in 1 .. n : f[i] \in IdsIn(s)
          /\ \A z \in IdsIn(s) : \E i \in 1 .. n : f[i] = z
      BY <1>1, <2>1 DEF IdsIn
    <2>3. \A i, j \in 1 .. n : f[i] = f[j] => i = j
      BY <2>1
    <2>. HIDE DEF f, n
    <2>4. f \in [1 .. n -> IdsIn(s)]
      BY <2>1, <2>2
    <2>. QED
      BY <2>2, <2>3, <2>4 DEF Bijection, Injection, Surjection, IsInjective
  <1>3. IsFiniteSet(1 .. n) /\ Cardinality(1 .. n) = n
    <2>1. IsFiniteSet(1 .. n) /\ Cardinality(1 .. n) = IF 1 > n THEN 0 ELSE n - 1 + 1
      BY <1>1, FS_Interval
    <2>. QED
      BY <1>1, <2>1
  <1>. HIDE DEF f, n
  <1>4. Cardinality(IdsIn(s)) = n
    <2>. DEFINE N == 1 .. n
                J == IdsIn(s)
    <2>1. f \in Bijection(N, J) /\ IsFiniteSet(N) /\ Cardinality(N) = n
      BY <1>2, <1>3
    <2>. HIDE DEF N, J
    <2>2. Cardinality(J) = Cardinality(N)
      BY <2>1, FS_Bijection DEF ExistsBijection
    <2>. QED
      BY <2>1, <2>2 DEF J
  <1>. QED
    BY <1>4 DEF n

(* Dimensions whose names are different and in I, with datums in L, which  *)
(* the document has values for.                                            *)
Proper(doc, s, I, L) ==
  /\ \E T : s \in Seq(T)
  /\ \A i \in 1 .. Len(s) : s[i].id \in I /\ s[i].datums \subseteq L
                            /\ Resolved(doc, s[i].target) # {}
  /\ \A i, j \in 1 .. Len(s) : s[i].id = s[j].id => i = j

LEMMA NoDimension ==
  ASSUME NEW doc, NEW I, NEW L
  PROVE  Proper(doc, <<>>, I, L)
  BY DEF Proper

LEMMA OneDimension ==
  ASSUME NEW doc, NEW x, NEW I, NEW L,
         x.id \in I, x.datums \subseteq L, Resolved(doc, x.target) # {}
  PROVE  Proper(doc, <<x>>, I, L)
  <1>1. <<x>> \in Seq({x}) /\ Len(<<x>>) = 1 /\ <<x>>[1] = x
    OBVIOUS
  <1>2. \A i \in 1 .. Len(<<x>>) : i = 1
    BY <1>1
  <1>. QED
    BY <1>1, <1>2 DEF Proper

Apart2(I, J) == I \cap J = {}

LEMMA MoreDimensions ==
  ASSUME NEW doc, NEW s, NEW t, NEW I, NEW J, NEW L,
         Proper(doc, s, I, L), Proper(doc, t, J, L), Apart2(I, J)
  PROVE  Proper(doc, s \o t, I \cup J, L) /\ Len(s \o t) = Len(s) + Len(t)
  <1>. DEFINE st == s \o t
  <1>1. PICK S : s \in Seq(S)
    BY DEF Proper
  <1>2. PICK T : t \in Seq(T)
    BY DEF Proper
  <1>3. s \in Seq(S \cup T) /\ t \in Seq(S \cup T) /\ Len(s) \in Nat /\ Len(t) \in Nat
    BY <1>1, <1>2
  <1>4. /\ st \in Seq(S \cup T) /\ Len(st) = Len(s) + Len(t)
        /\ \A i \in 1 .. Len(st) : st[i] = IF i <= Len(s) THEN s[i] ELSE t[i - Len(s)]
    BY <1>3
  <1>. HIDE DEF st
  <1>5. ASSUME NEW i \in 1 .. Len(st)
        PROVE  /\ i <= Len(s) => i \in 1 .. Len(s) /\ st[i] = s[i]
               /\ ~(i <= Len(s)) => i - Len(s) \in 1 .. Len(t) /\ st[i] = t[i - Len(s)]
    BY <1>3, <1>4
  <1>6. /\ \A i \in 1 .. Len(s) : s[i].id \in I /\ s[i].datums \subseteq L
                                  /\ Resolved(doc, s[i].target) # {}
        /\ \A i \in 1 .. Len(t) : t[i].id \in J /\ t[i].datums \subseteq L
                                  /\ Resolved(doc, t[i].target) # {}
        /\ \A i, j \in 1 .. Len(s) : s[i].id = s[j].id => i = j
        /\ \A i, j \in 1 .. Len(t) : t[i].id = t[j].id => i = j
    BY DEF Proper
  <1>7. ASSUME NEW i \in 1 .. Len(st)
        PROVE  /\ st[i].id \in I \cup J /\ st[i].datums \subseteq L
               /\ Resolved(doc, st[i].target) # {}
               /\ i <= Len(s) => st[i].id \in I
               /\ ~(i <= Len(s)) => st[i].id \in J
    <2>1. CASE i <= Len(s)
      <3>1. i \in 1 .. Len(s) /\ st[i] = s[i]
        BY <1>5, <2>1
      <3>. QED
        BY <1>6, <2>1, <3>1
    <2>2. CASE ~(i <= Len(s))
      <3>1. i - Len(s) \in 1 .. Len(t) /\ st[i] = t[i - Len(s)]
        BY <1>5, <2>2
      <3>. QED
        BY <1>6, <2>2, <3>1
    <2>. QED
      BY <2>1, <2>2
  <1>8. ASSUME NEW i \in 1 .. Len(st), NEW j \in 1 .. Len(st), st[i].id = st[j].id
        PROVE  i = j
    <2>1. CASE i <= Len(s) /\ j <= Len(s)
      <3>1. i \in 1 .. Len(s) /\ st[i] = s[i] /\ j \in 1 .. Len(s) /\ st[j] = s[j]
        BY <1>5, <2>1
      <3>. QED
        BY <1>6, <1>8, <3>1
    <2>2. CASE ~(i <= Len(s)) /\ ~(j <= Len(s))
      <3>. DEFINE a == i - Len(s)
                  b == j - Len(s)
      <3>1. a \in 1 .. Len(t) /\ st[i] = t[a] /\ b \in 1 .. Len(t) /\ st[j] = t[b]
        BY <1>5, <2>2
      <3>. HIDE DEF a, b
      <3>2. a = b
        BY <1>6, <1>8, <3>1
      <3>. QED
        BY <1>3, <3>2 DEF a, b
    <2>3. CASE i <= Len(s) /\ ~(j <= Len(s))
      BY <1>7, <1>8, <2>3 DEF Apart2
    <2>4. CASE ~(i <= Len(s)) /\ j <= Len(s)
      BY <1>7, <1>8, <2>4 DEF Apart2
    <2>. QED
      BY <2>1, <2>2, <2>3, <2>4
  <1>. QED
    BY <1>4, <1>7, <1>8 DEF Proper, st

LEMMA ShortSequences ==
  ASSUME NEW x, NEW y, NEW z
  PROVE  /\ <<x>> \o <<>> = <<x>> /\ <<x>> \o <<y>> = <<x, y>>
         /\ <<x>> \o <<y, z>> = <<x, y, z>>
  <1>. DEFINE T == {x, y, z}
  <1>1. <<x>> \in Seq(T) /\ <<y>> \in Seq(T) /\ <<y, z>> \in Seq(T)
        /\ <<x, y>> \in Seq(T) /\ <<x, y, z>> \in Seq(T)
    OBVIOUS
  <1>2. <<x>> \o <<>> = <<x>>
    BY <1>1
  <1>3. <<x>> \o <<y>> = <<x, y>>
    <2>. DEFINE u == <<x>> \o <<y>>
                v == <<x, y>>
    <2>1. u \in Seq(T) /\ v \in Seq(T) /\ Len(u) = 2 /\ Len(v) = 2
      BY <1>1
    <2>2. u[1] = x /\ u[2] = y /\ v[1] = x /\ v[2] = y
      BY <1>1
    <2>. HIDE DEF u, v, T
    <2>3. \A i \in 1 .. Len(u) : i = 1 \/ i = 2
      BY <2>1
    <2>4. u = v
      BY <2>1, <2>2, <2>3, SeqEqual
    <2>. QED
      BY <2>4 DEF u, v
  <1>4. <<x>> \o <<y, z>> = <<x, y, z>>
    <2>. DEFINE u == <<x>> \o <<y, z>>
                v == <<x, y, z>>
    <2>1. u \in Seq(T) /\ v \in Seq(T) /\ Len(u) = 3 /\ Len(v) = 3
      BY <1>1
    <2>2. u[1] = x /\ u[2] = y /\ u[3] = z /\ v[1] = x /\ v[2] = y /\ v[3] = z
      BY <1>1
    <2>. HIDE DEF u, v, T
    <2>3. \A i \in 1 .. Len(u) : i = 1 \/ i = 2 \/ i = 3
      BY <2>1
    <2>4. u = v
      BY <2>1, <2>2, <2>3, SeqEqual
    <2>. QED
      BY <2>4 DEF u, v
  <1>. QED
    BY <1>2, <1>3, <1>4

(* A sequence of datums of the default drawing.                            *)
NamedWell(doc, s) ==
  /\ \E T : s \in Seq(T)
  /\ Len(s) <= 3
  /\ \A i, j \in 1 .. Len(s) : s[i].id = s[j].id => i = j
  /\ "A" \in IdsIn(s)
  /\ ~Axisymmetric(doc.base) => "B" \in IdsIn(s) /\ "C" \in IdsIn(s)
  /\ \A i \in 1 .. Len(s) : HasTarget(doc, s[i].target)

LEMMA DefaultDatumsFit ==
  ASSUME NEW doc, \E T : doc.holes \in Seq(T)
  PROVE  NamedWell(doc, DefaultDatums(doc))
  <1>. DEFINE s == DefaultDatums(doc)
              a == [id |-> "A", target |-> <<"base_face", "bottom">>]
              b1 == [id |-> "B", target |-> <<"hole_axis", 1>>]
              b2 == [id |-> "B", target |-> <<"base_face", "negative_x">>]
              c == [id |-> "C", target |-> <<"base_face", "negative_y">>]
  <1>1. /\ a.id = "A" /\ b1.id = "B" /\ b2.id = "B" /\ c.id = "C"
        /\ HasTarget(doc, a.target)
        /\ doc.holes # <<>> => HasTarget(doc, b1.target)
        /\ ~Axisymmetric(doc.base) => HasTarget(doc, b2.target) /\ HasTarget(doc, c.target)
    <2>1. HasTarget(doc, a.target)
      BY DEF HasTarget, SideFaces
    <2>2. doc.holes # <<>> => HasTarget(doc, b1.target)
      <3>1. doc.holes # <<>> => 1 <= Len(doc.holes)
        OBVIOUS
      <3>. QED
        BY <3>1 DEF HasTarget
    <2>3. ~Axisymmetric(doc.base) => HasTarget(doc, b2.target) /\ HasTarget(doc, c.target)
      BY DEF HasTarget
    <2>. QED
      BY <2>1, <2>2, <2>3
  <1>2. /\ Axisymmetric(doc.base) /\ doc.holes = <<>> => s = <<a>>
        /\ Axisymmetric(doc.base) /\ doc.holes # <<>> => s = <<a, b1>>
        /\ ~Axisymmetric(doc.base) => s = <<a, b2, c>>
    <2>. DEFINE t == CASE Axisymmetric(doc.base) /\ doc.holes = <<>> -> <<>>
                       [] Axisymmetric(doc.base) /\ doc.holes # <<>> -> <<b1>>
                       [] OTHER -> <<b2, c>>
    <2>1. s = <<a>> \o t
      BY DEF DefaultDatums
    <2>. HIDE DEF s, a, b1, b2, c
    <2>2. /\ Axisymmetric(doc.base) /\ doc.holes = <<>> => t = <<>>
          /\ Axisymmetric(doc.base) /\ doc.holes # <<>> => t = <<b1>>
          /\ ~Axisymmetric(doc.base) => t = <<b2, c>>
      OBVIOUS
    <2>. HIDE DEF t
    <2>3. ASSUME Axisymmetric(doc.base), doc.holes = <<>>
          PROVE  s = <<a>>
      BY <2>1, <2>2, <2>3, ShortSequences
    <2>4. ASSUME Axisymmetric(doc.base), doc.holes # <<>>
          PROVE  s = <<a, b1>>
      BY <2>1, <2>2, <2>4, ShortSequences
    <2>5. ASSUME ~Axisymmetric(doc.base)
          PROVE  s = <<a, b2, c>>
      BY <2>1, <2>2, <2>5, ShortSequences
    <2>. QED
      BY <2>3, <2>4, <2>5
  <1>. HIDE DEF a, b1, b2, c, s
  <1>3. ASSUME Axisymmetric(doc.base) /\ doc.holes = <<>>
        PROVE  NamedWell(doc, s)
    <2>1. s = <<a>>
      BY <1>2, <1>3
    <2>2. \E T : s \in Seq(T)
      <3>1. <<a>> \in Seq({a})
        OBVIOUS
      <3>. QED
        BY <2>1, <3>1
    <2>3. Len(s) = 1 /\ DOMAIN s = 1 .. 1 /\ s[1] = a
      BY <2>1
    <2>4. \A i \in 1 .. Len(s) : i = 1
      BY <2>3
    <2>5. "A" \in IdsIn(s)
      BY <1>1, <2>3 DEF IdsIn
    <2>6. \A i, j \in 1 .. Len(s) : s[i].id = s[j].id => i = j
      BY <1>1, <2>3, <2>4
    <2>7. \A i \in 1 .. Len(s) : HasTarget(doc, s[i].target)
      BY <1>1, <1>3, <2>3, <2>4
    <2>8. Len(s) <= 3
      BY <2>3
    <2>. QED
      BY <1>3, <2>2, <2>5, <2>6, <2>7, <2>8 DEF NamedWell
  <1>4. ASSUME Axisymmetric(doc.base) /\ doc.holes # <<>>
        PROVE  NamedWell(doc, s)
    <2>1. s = <<a, b1>>
      BY <1>2, <1>4
    <2>2. \E T : s \in Seq(T)
      <3>1. <<a, b1>> \in Seq({a, b1})
        OBVIOUS
      <3>. QED
        BY <2>1, <3>1
    <2>3. Len(s) = 2 /\ DOMAIN s = 1 .. 2 /\ s[1] = a /\ s[2] = b1
      BY <2>1
    <2>4. \A i \in 1 .. Len(s) : i = 1 \/ i = 2
      BY <2>3
    <2>5. "A" \in IdsIn(s)
      BY <1>1, <2>3 DEF IdsIn
    <2>6. \A i, j \in 1 .. Len(s) : s[i].id = s[j].id => i = j
      BY <1>1, <2>3, <2>4
    <2>7. \A i \in 1 .. Len(s) : HasTarget(doc, s[i].target)
      BY <1>1, <1>4, <2>3, <2>4
    <2>8. Len(s) <= 3
      BY <2>3
    <2>. QED
      BY <1>4, <2>2, <2>5, <2>6, <2>7, <2>8 DEF NamedWell
  <1>5. ASSUME ~Axisymmetric(doc.base)
        PROVE  NamedWell(doc, s)
    <2>1. s = <<a, b2, c>>
      BY <1>2, <1>5
    <2>2. \E T : s \in Seq(T)
      <3>1. <<a, b2, c>> \in Seq({a, b2, c})
        OBVIOUS
      <3>. QED
        BY <2>1, <3>1
    <2>3. Len(s) = 3 /\ DOMAIN s = 1 .. 3 /\ s[1] = a /\ s[2] = b2 /\ s[3] = c
      BY <2>1
    <2>4. \A i \in 1 .. Len(s) : i = 1 \/ i = 2 \/ i = 3
      BY <2>3
    <2>5. "A" \in IdsIn(s) /\ "B" \in IdsIn(s) /\ "C" \in IdsIn(s)
      BY <1>1, <2>3 DEF IdsIn
    <2>6. \A i, j \in 1 .. Len(s) : s[i].id = s[j].id => i = j
      BY <1>1, <2>3, <2>4
    <2>7. \A i \in 1 .. Len(s) : HasTarget(doc, s[i].target)
      BY <1>1, <1>5, <2>3, <2>4
    <2>8. Len(s) <= 3
      BY <2>3
    <2>. QED
      BY <1>5, <2>2, <2>5, <2>6, <2>7, <2>8 DEF NamedWell
  <1>. QED
    BY <1>3, <1>4, <1>5 DEF s

OverallIds == {<<"overall_x">>, <<"overall_y">>, <<"overall_z">>}
LocatedIds(i) == {<<"hole", i, "diameter">>, <<"hole", i, "x">>, <<"hole", i, "y">>}

LEMMA ThreeDimensions ==
  ASSUME NEW doc, NEW x, NEW y, NEW z, NEW L,
         x.datums \subseteq L, Resolved(doc, x.target) # {},
         y.datums \subseteq L, Resolved(doc, y.target) # {},
         z.datums \subseteq L, Resolved(doc, z.target) # {},
         x.id # y.id, x.id # z.id, y.id # z.id
  PROVE  Proper(doc, <<x, y, z>>, {x.id, y.id, z.id}, L) /\ Len(<<x, y, z>>) = 3
  <1>. DEFINE s == <<x, y, z>>
  <1>1. s \in Seq({x, y, z}) /\ Len(s) = 3 /\ s[1] = x /\ s[2] = y /\ s[3] = z
    OBVIOUS
  <1>. HIDE DEF s
  <1>2. \A i \in 1 .. Len(s) : i = 1 \/ i = 2 \/ i = 3
    BY <1>1
  <1>3. \A i, j \in 1 .. Len(s) : s[i].id = s[j].id => i = j
    BY <1>1, <1>2
  <1>4. \A i \in 1 .. Len(s) : s[i].id \in {x.id, y.id, z.id} /\ s[i].datums \subseteq L
                               /\ Resolved(doc, s[i].target) # {}
    BY <1>1, <1>2
  <1>5. \E T : s \in Seq(T)
    BY <1>1
  <1>6. Proper(doc, s, {x.id, y.id, z.id}, L)
    BY <1>3, <1>4, <1>5 DEF Proper
  <1>. QED
    BY <1>1, <1>6 DEF s

LEMMA DefaultDimensionsFit ==
  ASSUME NEW doc, \E T : doc.holes \in Seq(T), WithinLimits(doc),
         \A k \in 1 .. 3 : InRange(BaseExtents(doc.base)[k])
  PROVE  LET s == DefaultDimensions(doc)
             L == IF Axisymmetric(doc.base) THEN {} ELSE {"B", "C"} IN
         (\E I : Proper(doc, s, I, L)) /\ Len(s) <= 12
  <1>. DEFINE L == IF Axisymmetric(doc.base) THEN {} ELSE {"B", "C"}
              from(datum) == IF Axisymmetric(doc.base) THEN {} ELSE {datum}
              overall(measure) == Dimensioned(<<measure>>, <<"base", measure>>, {})
              located(i) ==
                <<Dimensioned(<<"hole", i, "diameter">>, <<"hole", i, "diameter">>, {}),
                  Dimensioned(<<"hole", i, "x">>, <<"hole", i, "x">>, from("B")),
                  Dimensioned(<<"hole", i, "y">>, <<"hole", i, "y">>, from("C"))>>
              P == <<overall("overall_x"), overall("overall_y"), overall("overall_z")>>
              Q == IF doc.base.kind = "ring" THEN <<overall("inner_diameter")>> ELSE <<>>
              R == IF doc.base.kind = "enclosure" THEN <<overall("wall_thickness")>> ELSE <<>>
              S1 == IF Len(doc.holes) >= 1 THEN located(1) ELSE <<>>
              S2 == IF Len(doc.holes) >= 2 THEN located(2) ELSE <<>>
              IQ == {<<"inner_diameter">>}
              IR == {<<"wall_thickness">>}
  <1>1. DefaultDimensions(doc) = P \o Q \o R \o S1 \o S2
    BY DEF DefaultDimensions
  <1>2. Proper(doc, P, OverallIds, L) /\ Len(P) = 3
    <2>. DEFINE x == overall("overall_x")
                y == overall("overall_y")
                z == overall("overall_z")
    <2>1. /\ x.id = <<"overall_x">> /\ y.id = <<"overall_y">> /\ z.id = <<"overall_z">>
          /\ x.datums = {} /\ y.datums = {} /\ z.datums = {}
          /\ x.target = <<"base", "overall_x">> /\ y.target = <<"base", "overall_y">>
          /\ z.target = <<"base", "overall_z">>
      BY DEF Dimensioned
    <2>2. /\ Resolved(doc, <<"base", "overall_x">>) = {BaseExtents(doc.base)[X]}
          /\ Resolved(doc, <<"base", "overall_y">>) = {BaseExtents(doc.base)[Y]}
          /\ Resolved(doc, <<"base", "overall_z">>) = {BaseExtents(doc.base)[Z]}
      BY DEF Resolved, BaseField, Nominal, X, Y, Z
    <2>3. x.id # y.id /\ x.id # z.id /\ y.id # z.id
      BY <2>1
    <2>. HIDE DEF x, y, z
    <2>4. Proper(doc, <<x, y, z>>, {x.id, y.id, z.id}, L) /\ Len(<<x, y, z>>) = 3
      BY <2>1, <2>2, <2>3, ThreeDimensions
    <2>. QED
      BY <2>1, <2>4 DEF OverallIds, x, y, z
  <1>3. Proper(doc, Q, IQ, L) /\ Len(Q) <= 1 /\ Len(Q) \in Nat
    <2>1. CASE doc.base.kind = "ring"
      <3>. DEFINE x == overall("inner_diameter")
      <3>1. x.id = <<"inner_diameter">> /\ x.datums = {} /\ x.target = <<"base", "inner_diameter">>
        BY DEF Dimensioned
      <3>0. InRange(doc.base.inner)
        BY DEF WithinLimits, BaseNumbers
      <3>2. Resolved(doc, <<"base", "inner_diameter">>) = {doc.base.inner}
        BY <2>1, <3>0 DEF Resolved, BaseField, Nominal
      <3>3. x.id \in IQ /\ x.datums \subseteq L /\ Resolved(doc, x.target) # {}
        BY <3>1, <3>2
      <3>. HIDE DEF x, IQ, L
      <3>4. Proper(doc, <<x>>, IQ, L)
        BY <3>3, OneDimension
      <3>. QED
        BY <2>1, <3>4 DEF x
    <2>2. CASE doc.base.kind # "ring"
      BY <2>2, NoDimension
    <2>. QED
      BY <2>1, <2>2
  <1>4. Proper(doc, R, IR, L) /\ Len(R) <= 1 /\ Len(R) \in Nat
    <2>1. CASE doc.base.kind = "enclosure"
      <3>. DEFINE x == overall("wall_thickness")
      <3>1. x.id = <<"wall_thickness">> /\ x.datums = {} /\ x.target = <<"base", "wall_thickness">>
        BY DEF Dimensioned
      <3>0. InRange(doc.base.wall)
        BY DEF WithinLimits, BaseNumbers
      <3>2. Resolved(doc, <<"base", "wall_thickness">>) = {doc.base.wall}
        BY <2>1, <3>0 DEF Resolved, BaseField, Nominal
      <3>3. x.id \in IR /\ x.datums \subseteq L /\ Resolved(doc, x.target) # {}
        BY <3>1, <3>2
      <3>. HIDE DEF x, IR, L
      <3>4. Proper(doc, <<x>>, IR, L)
        BY <3>3, OneDimension
      <3>. QED
        BY <2>1, <3>4 DEF x
    <2>2. CASE doc.base.kind # "enclosure"
      BY <2>2, NoDimension
    <2>. QED
      BY <2>1, <2>2
  <1>5. ASSUME NEW i \in 1 .. 2, Len(doc.holes) >= i
        PROVE  Proper(doc, located(i), LocatedIds(i), L) /\ Len(located(i)) = 3
    <2>. DEFINE x == Dimensioned(<<"hole", i, "diameter">>, <<"hole", i, "diameter">>, {})
                y == Dimensioned(<<"hole", i, "x">>, <<"hole", i, "x">>, from("B"))
                z == Dimensioned(<<"hole", i, "y">>, <<"hole", i, "y">>, from("C"))
    <2>1. /\ x.id = <<"hole", i, "diameter">> /\ y.id = <<"hole", i, "x">>
          /\ z.id = <<"hole", i, "y">>
          /\ x.datums = {} /\ y.datums = from("B") /\ z.datums = from("C")
          /\ x.target = <<"hole", i, "diameter">> /\ y.target = <<"hole", i, "x">>
          /\ z.target = <<"hole", i, "y">>
      BY DEF Dimensioned
    <2>2. from("B") \subseteq L /\ from("C") \subseteq L
      OBVIOUS
    <2>3. i <= Len(doc.holes)
      BY <1>5
    <2>4. /\ Resolved(doc, <<"hole", i, "diameter">>) = {doc.holes[i].diameter}
          /\ Resolved(doc, <<"hole", i, "x">>) = {doc.holes[i].at[X]}
          /\ Resolved(doc, <<"hole", i, "y">>) = {doc.holes[i].at[Y]}
      <3>1. i \in DOMAIN doc.holes
        BY <2>3
      <3>. DEFINE h == doc.holes[i]
      <3>2. \A n \in HoleNumbers(h) : InRange(n)
        BY <3>1 DEF WithinLimits
      <3>. HIDE DEF h
      <3>3. InRange(h.diameter) /\ InRange(h.at[X]) /\ InRange(h.at[Y])
        BY <3>2 DEF HoleNumbers
      <3>. USE DEF h
      <3>. QED
        BY <2>3, <3>3 DEF Resolved, HoleField, Nominal
    <2>5. x.id # y.id /\ x.id # z.id /\ y.id # z.id
      <3>1. /\ <<"hole", i, "diameter">>[3] = "diameter" /\ <<"hole", i, "x">>[3] = "x"
            /\ <<"hole", i, "y">>[3] = "y"
        OBVIOUS
      <3>2. /\ x.id = <<"hole", i, "diameter">> /\ y.id = <<"hole", i, "x">>
            /\ z.id = <<"hole", i, "y">>
        BY <2>1
      <3>. HIDE DEF x, y, z
      <3>. QED
        BY <3>1, <3>2
    <2>. HIDE DEF x, y, z, from, L
    <2>6. Proper(doc, <<x, y, z>>, {x.id, y.id, z.id}, L) /\ Len(<<x, y, z>>) = 3
      BY <2>1, <2>2, <2>4, <2>5, ThreeDimensions
    <2>. QED
      BY <2>1, <2>6 DEF LocatedIds, x, y, z
  <1>. HIDE DEF L, P, Q, R, located
  <1>6. Len(doc.holes) \in Nat
    OBVIOUS
  <1>7. Proper(doc, S1, LocatedIds(1), L) /\ Len(S1) <= 3 /\ Len(S1) \in Nat
    <2>1. CASE Len(doc.holes) >= 1
      <3>1. Proper(doc, located(1), LocatedIds(1), L) /\ Len(located(1)) = 3
        BY <1>5, <2>1
      <3>2. S1 = located(1)
        BY <2>1
      <3>. DEFINE l == located(1)
      <3>3. S1 = l
        BY <3>2
      <3>4. Proper(doc, l, LocatedIds(1), L) /\ Len(l) = 3
        BY <3>1
      <3>. HIDE DEF S1, l
      <3>5. Len(S1) = 3
        BY <3>3, <3>4
      <3>6. Proper(doc, S1, LocatedIds(1), L)
        BY <3>3, <3>4
      <3>. QED
        BY <3>5, <3>6
    <2>2. CASE ~(Len(doc.holes) >= 1)
      <3>1. S1 = <<>>
        BY <2>2
      <3>. HIDE DEF S1
      <3>. QED
        BY <3>1, NoDimension
    <2>. QED
      BY <2>1, <2>2
  <1>8. Proper(doc, S2, LocatedIds(2), L) /\ Len(S2) <= 3 /\ Len(S2) \in Nat
    <2>1. CASE Len(doc.holes) >= 2
      <3>1. Proper(doc, located(2), LocatedIds(2), L) /\ Len(located(2)) = 3
        BY <1>5, <2>1
      <3>2. S2 = located(2)
        BY <2>1
      <3>. DEFINE l == located(2)
      <3>3. S2 = l
        BY <3>2
      <3>4. Proper(doc, l, LocatedIds(2), L) /\ Len(l) = 3
        BY <3>1
      <3>. HIDE DEF S2, l
      <3>5. Len(S2) = 3
        BY <3>3, <3>4
      <3>6. Proper(doc, S2, LocatedIds(2), L)
        BY <3>3, <3>4
      <3>. QED
        BY <3>5, <3>6
    <2>2. CASE ~(Len(doc.holes) >= 2)
      <3>1. S2 = <<>>
        BY <2>2
      <3>. HIDE DEF S2
      <3>. QED
        BY <3>1, NoDimension
    <2>. QED
      BY <2>1, <2>2
  <1>. HIDE DEF S1, S2
  <1>9. /\ Apart2(OverallIds, IQ)
        /\ Apart2(OverallIds \cup IQ, IR)
        /\ Apart2((OverallIds \cup IQ) \cup IR, LocatedIds(1))
        /\ Apart2(((OverallIds \cup IQ) \cup IR) \cup LocatedIds(1), LocatedIds(2))
    <2>1. \A p \in OverallIds : p[1] \in {"overall_x", "overall_y", "overall_z"}
      BY DEF OverallIds
    <2>2. \A p \in IQ : p[1] = "inner_diameter"
      OBVIOUS
    <2>3. \A p \in IR : p[1] = "wall_thickness"
      OBVIOUS
    <2>4. \A p \in LocatedIds(1) : p[1] = "hole" /\ p[2] = 1
      BY DEF LocatedIds
    <2>5. \A p \in LocatedIds(2) : p[1] = "hole" /\ p[2] = 2
      BY DEF LocatedIds
    <2>. HIDE DEF IQ, IR
    <2>. QED
      BY <2>1, <2>2, <2>3, <2>4, <2>5 DEF Apart2
  <1>. HIDE DEF IQ, IR
  <1>10. Proper(doc, P \o Q, OverallIds \cup IQ, L) /\ Len(P \o Q) = Len(P) + Len(Q)
    BY <1>2, <1>3, <1>9, MoreDimensions
  <1>11. /\ Proper(doc, (P \o Q) \o R, (OverallIds \cup IQ) \cup IR, L)
         /\ Len((P \o Q) \o R) = Len(P \o Q) + Len(R)
    BY <1>4, <1>9, <1>10, MoreDimensions
  <1>12. /\ Proper(doc, ((P \o Q) \o R) \o S1, ((OverallIds \cup IQ) \cup IR) \cup LocatedIds(1), L)
         /\ Len(((P \o Q) \o R) \o S1) = Len((P \o Q) \o R) + Len(S1)
    BY <1>7, <1>9, <1>11, MoreDimensions
  <1>13. /\ Proper(doc, (((P \o Q) \o R) \o S1) \o S2,
                   (((OverallIds \cup IQ) \cup IR) \cup LocatedIds(1)) \cup LocatedIds(2), L)
         /\ Len((((P \o Q) \o R) \o S1) \o S2) = Len(((P \o Q) \o R) \o S1) + Len(S2)
    BY <1>8, <1>9, <1>12, MoreDimensions
  <1>14. Len((((P \o Q) \o R) \o S1) \o S2) <= 12
    BY <1>2, <1>3, <1>4, <1>7, <1>8, <1>10, <1>11, <1>12, <1>13
  <1>. QED
    BY <1>1, <1>13, <1>14 DEF L

(* The drawing the server proposes fits the document it is made for, if    *)
(* its overall dimensions are within the bound.                            *)
LEMMA TemplateFits ==
  ASSUME NEW doc, \E T : doc.holes \in Seq(T), WithinLimits(doc),
         \A k \in 1 .. 3 : InRange(BaseExtents(doc.base)[k])
  PROVE  WellFormed(DefaultDrawing(doc)) /\ Fits(doc, DefaultDrawing(doc))
  <1>. DEFINE d == DefaultDrawing(doc)
              s == DefaultDimensions(doc)
              t == DefaultDatums(doc)
              finish == [target |-> <<"base_face", "top">>, datum |-> "A"]
              L == IF Axisymmetric(doc.base) THEN {} ELSE {"B", "C"}
  <1>1. /\ d.cad = doc /\ d.dimensions = s /\ d.datums = t /\ d.finishes = <<finish>>
    BY DEF DefaultDrawing
  <1>2. NamedWell(doc, t)
    BY DefaultDatumsFit
  <1>3. PICK I : Proper(doc, s, I, L) /\ Len(s) <= 12
    BY DefaultDimensionsFit
  <1>4. finish.datum = "A" /\ HasTarget(doc, finish.target)
    BY DEF HasTarget, SideFaces
  <1>5. DOMAIN <<finish>> = {1} /\ <<finish>>[1] = finish
    OBVIOUS
  <1>6. ~Axisymmetric(doc.base) => L = {"B", "C"}
    OBVIOUS
  <1>7. Axisymmetric(doc.base) => L = {}
    OBVIOUS
  <1>. HIDE DEF d, s, t, finish, L
  <1>8. /\ \E T : t \in Seq(T)
        /\ Len(t) <= 3
        /\ \A i, j \in 1 .. Len(t) : t[i].id = t[j].id => i = j
        /\ "A" \in IdsIn(t)
        /\ L \subseteq IdsIn(t)
        /\ \A i \in 1 .. Len(t) : HasTarget(doc, t[i].target)
    BY <1>2, <1>6, <1>7 DEF NamedWell
  <1>9. /\ \E T : s \in Seq(T)
        /\ \A i, j \in 1 .. Len(s) : s[i].id = s[j].id => i = j
        /\ \A i \in 1 .. Len(s) : s[i].datums \subseteq L /\ Resolved(doc, s[i].target) # {}
    BY <1>3 DEF Proper
  <1>10. Cardinality(IdsIn(s)) = Len(s) /\ Cardinality(IdsIn(t)) = Len(t)
    BY <1>8, <1>9, DistinctIds
  <1>11. DOMAIN s = 1 .. Len(s) /\ DOMAIN t = 1 .. Len(t)
    BY <1>8, <1>9
  <1>12. WellFormed(d)
    <2>1. \A i \in DOMAIN s : s[i].datums \subseteq IdsIn(t)
      BY <1>8, <1>9, <1>11
    <2>2. \A i \in DOMAIN d.finishes : d.finishes[i].datum \in IdsIn(t)
      BY <1>1, <1>4, <1>5, <1>8
    <2>3. Len(s) <= MaxDimensions /\ Len(t) <= MaxDatums
      BY <1>3, <1>8 DEF MaxDimensions, MaxDatums
    <2>. QED
      BY <1>1, <1>10, <2>1, <2>2, <2>3 DEF WellFormed
  <1>13. Fits(doc, d)
    <2>1. \A i \in DOMAIN s : Resolved(doc, s[i].target) # {}
      BY <1>9, <1>11
    <2>2. \A i \in DOMAIN t : HasTarget(doc, t[i].target)
      BY <1>8, <1>11
    <2>3. \A i \in DOMAIN d.finishes : HasTarget(doc, d.finishes[i].target)
      BY <1>1, <1>4, <1>5
    <2>. QED
      BY <1>1, <2>1, <2>2, <2>3 DEF Fits
  <1>. QED
    BY <1>12, <1>13 DEF d

(* The drawing gives the three overall dimensions first.                   *)
LEMMA OverallGiven ==
  ASSUME NEW doc, NEW u, \E T : u \in Seq(T),
         \A i \in DOMAIN (DefaultDimensions(doc) \o u) :
           Resolved(doc, (DefaultDimensions(doc) \o u)[i].target) # {}
  PROVE  \A k \in 1 .. 3 : InRange(BaseExtents(doc.base)[k])
  <1>. DEFINE from(datum) == IF Axisymmetric(doc.base) THEN {} ELSE {datum}
              overall(measure) == Dimensioned(<<measure>>, <<"base", measure>>, {})
              located(i) ==
                <<Dimensioned(<<"hole", i, "diameter">>, <<"hole", i, "diameter">>, {}),
                  Dimensioned(<<"hole", i, "x">>, <<"hole", i, "x">>, from("B")),
                  Dimensioned(<<"hole", i, "y">>, <<"hole", i, "y">>, from("C"))>>
              P == <<overall("overall_x"), overall("overall_y"), overall("overall_z")>>
              Q == IF doc.base.kind = "ring" THEN <<overall("inner_diameter")>> ELSE <<>>
              R == IF doc.base.kind = "enclosure" THEN <<overall("wall_thickness")>> ELSE <<>>
              S1 == IF Len(doc.holes) >= 1 THEN located(1) ELSE <<>>
              S2 == IF Len(doc.holes) >= 2 THEN located(2) ELSE <<>>
              s == DefaultDimensions(doc)
  <1>1. s = P \o Q \o R \o S1 \o S2
    BY DEF DefaultDimensions
  <1>2. P \in Seq({P[1], P[2], P[3]}) /\ Len(P) = 3
    OBVIOUS
  <1>3. (\E T : Q \in Seq(T)) /\ (\E T : R \in Seq(T))
        /\ (\E T : S1 \in Seq(T)) /\ (\E T : S2 \in Seq(T))
    <2>1. \A x : <<x>> \in Seq({x})
      OBVIOUS
    <2>2. \A x, y, z : <<x, y, z>> \in Seq({x, y, z})
      OBVIOUS
    <2>3. <<>> \in Seq({})
      OBVIOUS
    <2>. QED
      BY <2>1, <2>2, <2>3
  <1>4. P[1].target = <<"base", "overall_x">> /\ P[2].target = <<"base", "overall_y">>
        /\ P[3].target = <<"base", "overall_z">>
    BY DEF Dimensioned
  <1>. HIDE DEF P, Q, R, S1, S2
  <1>5. ASSUME NEW a, NEW b, \E T : a \in Seq(T), \E T : b \in Seq(T), Len(a) >= 3
        PROVE  /\ \E T : a \o b \in Seq(T)
               /\ Len(a \o b) >= 3
               /\ \A k \in 1 .. 3 : (a \o b)[k] = a[k]
    <2>1. PICK A : a \in Seq(A)
      BY <1>5
    <2>2. PICK B : b \in Seq(B)
      BY <1>5
    <2>3. a \in Seq(A \cup B) /\ b \in Seq(A \cup B)
      BY <2>1, <2>2
    <2>4. /\ a \o b \in Seq(A \cup B) /\ Len(a \o b) = Len(a) + Len(b)
          /\ Len(a) \in Nat /\ Len(b) \in Nat
          /\ \A k \in 1 .. Len(a) : (a \o b)[k] = a[k]
      BY <2>3
    <2>. QED
      BY <1>5, <2>4
  <1>6. (\E T : P \in Seq(T)) /\ Len(P) >= 3
    BY <1>2
  <1>7. (\E T : P \o Q \in Seq(T)) /\ Len(P \o Q) >= 3
        /\ \A k \in 1 .. 3 : (P \o Q)[k] = P[k]
    BY <1>3, <1>5, <1>6
  <1>8. (\E T : P \o Q \o R \in Seq(T)) /\ Len(P \o Q \o R) >= 3
        /\ \A k \in 1 .. 3 : (P \o Q \o R)[k] = P[k]
    BY <1>3, <1>5, <1>7
  <1>9. (\E T : P \o Q \o R \o S1 \in Seq(T)) /\ Len(P \o Q \o R \o S1) >= 3
        /\ \A k \in 1 .. 3 : (P \o Q \o R \o S1)[k] = P[k]
    BY <1>3, <1>5, <1>8
  <1>10. (\E T : s \in Seq(T)) /\ Len(s) >= 3 /\ \A k \in 1 .. 3 : s[k] = P[k]
    <2>. DEFINE a == P \o Q \o R \o S1
    <2>1. (\E T : a \in Seq(T)) /\ Len(a) >= 3 /\ \A k \in 1 .. 3 : a[k] = P[k]
      BY <1>9
    <2>2. s = a \o S2
      BY <1>1
    <2>. HIDE DEF a, s
    <2>3. /\ \E T : a \o S2 \in Seq(T)
          /\ Len(a \o S2) >= 3 /\ \A k \in 1 .. 3 : (a \o S2)[k] = a[k]
      BY <1>3, <1>5, <2>1
    <2>. QED
      BY <2>1, <2>2, <2>3
  <1>0. \A i \in DOMAIN (s \o u) : Resolved(doc, (s \o u)[i].target) # {}
    OBVIOUS
  <1>. HIDE DEF s
  <1>11. /\ \E T : s \o u \in Seq(T)
         /\ Len(s \o u) >= 3 /\ \A k \in 1 .. 3 : (s \o u)[k] = P[k]
    BY <1>5, <1>10
  <1>12. /\ Resolved(doc, <<"base", "overall_x">>) # {}
         /\ Resolved(doc, <<"base", "overall_y">>) # {}
         /\ Resolved(doc, <<"base", "overall_z">>) # {}
    <2>1. \A k \in 1 .. 3 : k \in DOMAIN (s \o u)
      BY <1>11
    <2>2. \A k \in 1 .. 3 : Resolved(doc, P[k].target) # {}
      BY <1>0, <1>11, <2>1
    <2>3. 1 \in 1 .. 3 /\ 2 \in 1 .. 3 /\ 3 \in 1 .. 3
      OBVIOUS
    <2>. QED
      BY <1>4, <2>2, <2>3
  <1>13. InRange(BaseExtents(doc.base)[1]) /\ InRange(BaseExtents(doc.base)[2])
         /\ InRange(BaseExtents(doc.base)[3])
    BY <1>12 DEF Resolved, BaseField, Nominal, X, Y, Z
  <1>14. \A k \in 1 .. 3 : k = 1 \/ k = 2 \/ k = 3
    OBVIOUS
  <1>. QED
    BY <1>13, <1>14

----------------------------------------------------------------------------
(* DrawingTellsTheTruth: the invariant, and each step                      *)

(* The void of a ring that nobody gave is half of it.                      *)
LEMMA BaseIsOne ==
  ASSUME NEW i, IsIntent(i), OnLattice(i)
  PROVE  IntentBase(i.template, i.params) \in BaseFeature
  <1>. DEFINE base == IntentBase(i.template, i.params)
              p == i.params
              given == p["inner_diameter"]
  <1>1. /\ base.kind \in {"plate", "cylinder", "ring", "l_bracket", "enclosure"}
        /\ base.size[1] \in Int /\ base.size[2] \in Int /\ base.size[3] \in Int
        /\ base.wall \in Int
    BY BaseOfIntent DEF X, Y, Z
  <1>2. given \in Int
    BY DEF IsIntent, Parameters
  <1>3. i.template = "ring" /\ (given = 0 \/ given >= base.size[1]) =>
          Whole(base.size[1], 1, 2)
    BY DEF OnLattice, X
  <1>4. \E x, y, z, wall, inner :
          /\ base = BaseOf(i.template, x, y, z, wall, inner)
          /\ i.template # "ring" => inner = 0
          /\ i.template = "ring" =>
               inner = IF given = 0 \/ given >= x THEN Share(x, 1, 2) ELSE given
    <2>1. CASE i.template = "plate"
      BY <2>1 DEF IntentBase
    <2>2. CASE i.template = "cylinder"
      BY <2>2 DEF IntentBase
    <2>3. CASE i.template = "ring"
      BY <2>3 DEF IntentBase
    <2>4. CASE i.template = "l_bracket"
      BY <2>4 DEF IntentBase
    <2>5. CASE i.template = "enclosure"
      BY <2>5 DEF IntentBase
    <2>. QED
      BY <2>1, <2>2, <2>3, <2>4, <2>5 DEF IsIntent
  <1>. HIDE DEF base, given
  <1>5. PICK x, y, z, wall, inner :
          /\ base = BaseOf(i.template, x, y, z, wall, inner)
          /\ i.template # "ring" => inner = 0
          /\ i.template = "ring" =>
               inner = IF given = 0 \/ given >= x THEN Share(x, 1, 2) ELSE given
    BY <1>4
  <1>6. /\ base.size[1] = x /\ base.size[2] = y /\ base.size[3] = z /\ base.wall = wall
        /\ base.kind = i.template
    BY <1>5 DEF BaseOf
  <1>7. /\ x \in Int /\ y \in Int /\ z \in Int /\ wall \in Int
        /\ i.template \in {"plate", "cylinder", "ring", "l_bracket", "enclosure"}
    BY <1>1, <1>6
  <1>8. inner \in Int
    <2>1. CASE i.template # "ring"
      BY <1>5, <2>1
    <2>2. CASE i.template = "ring" /\ (given = 0 \/ given >= x)
      <3>1. Whole(x, 1, 2) /\ inner = Share(x, 1, 2)
        BY <1>3, <1>5, <1>6, <2>2
      <3>. QED
        BY <1>7, <3>1, ShareOf
    <2>3. CASE i.template = "ring" /\ ~(given = 0 \/ given >= x)
      BY <1>2, <1>5, <2>3
    <2>. QED
      BY <2>1, <2>2, <2>3
  <1>9. <<x, y, z>> \in Int \X Int \X Int /\ <<>> \in Seq(Segment)
    BY <1>7
  <1>10. BaseOf(i.template, x, y, z, wall, inner) \in BaseFeature
    BY <1>7, <1>8, <1>9 DEF BaseOf, BaseFeature
  <1>. QED
    BY <1>5, <1>10 DEF base

(* A document as far as its drawing is concerned.                          *)
SoundDoc(doc) ==
  /\ doc.base \in BaseFeature /\ BaseFits(doc.base)
  /\ \E T : doc.holes \in Seq(T)
  /\ WithinLimits(doc)

LEMMA PlannedDocument ==
  ASSUME PlanInv, pc = "planned"
  PROVE  SoundDoc(document)
  <1>1. intent \in Intents /\ document = IntentDocument(intent) /\ FitsSchema(document)
    BY DEF PlanInv
  <1>2. IsIntent(intent) /\ OnLattice(intent)
    BY <1>1, PlansAssumption
  <1>3. /\ document.base = IntentBase(intent.template, intent.params)
        /\ \E T : document.holes \in Seq(T)
    BY <1>1, <1>2, HolesOfGroups, Zenon
  <1>4. document.base \in BaseFeature
    BY <1>2, <1>3, BaseIsOne
  <1>5. BaseFits(document.base) /\ WithinLimits(document)
    BY <1>1 DEF FitsSchema
  <1>. QED
    BY <1>3, <1>4, <1>5 DEF SoundDoc

LEMMA PostedDocument ==
  ASSUME NEW doc \in Documents
  PROVE  SoundDoc(doc)
  BY DocumentsAssumption DEF SoundDoc, FitsSchema

Turning == [radial : 1 .. 2, at : Int]

(* What the base of a part is made of, in a node of the tree.              *)
Based(x) ==
  /\ IsNode(x)
  /\ x.op = "profile_loop" => x.data \in Seq(Segment) /\ x.data # <<>>
  /\ x.op = "extrude_profile" => x.data = Thickness
  /\ x.op = "revolve_profile" => x.data \in Turning

BasedTree(t) == (\E T : t \in Seq(T)) /\ \A x \in ToSet(t) : Based(x)

LEMMA SharpIsOutline ==
  ASSUME NEW l \in Seq(Segment), l # <<>>
  PROVE  SharpRectangle(l) \in Seq(Segment) /\ SharpRectangle(l) # <<>>
  <1>. DEFINE e(k) == <<Min(Sides(l, k)), Max(Sides(l, k))>>
  <1>1. Edges(l, 1) = e(1) /\ Edges(l, 2) = e(2)
    BY DEF Edges, Sides
  <1>2. \A k \in 1 .. 2 : Min(Sides(l, k)) \in Int /\ Max(Sides(l, k)) \in Int
    BY SidesOf
  <1>. DEFINE a == Min(Sides(l, 1))
              b == Max(Sides(l, 1))
              c == Min(Sides(l, 2))
              d == Max(Sides(l, 2))
              r == <<<<a, c>>, <<b, c>>, <<b, d>>, <<a, d>>>>
  <1>3. a \in Int /\ b \in Int /\ c \in Int /\ d \in Int
    BY <1>2
  <1>4. SharpRectangle(l) = PolySegments(r)
    <2>1. /\ Edges(l, 1)[1] = a /\ Edges(l, 1)[2] = b
          /\ Edges(l, 2)[1] = c /\ Edges(l, 2)[2] = d
      BY <1>1
    <2>2. SharpRectangle(l) =
            PolySegments(<<<<Edges(l, 1)[1], Edges(l, 2)[1]>>, <<Edges(l, 1)[2], Edges(l, 2)[1]>>,
                           <<Edges(l, 1)[2], Edges(l, 2)[2]>>, <<Edges(l, 1)[1], Edges(l, 2)[2]>>>>)
      BY DEF SharpRectangle
    <2>. HIDE DEF a, b, c, d
    <2>. QED
      BY <2>1, <2>2
  <1>. HIDE DEF a, b, c, d
  <1>5. r \in Seq(Point) /\ Len(r) = 4
    BY <1>3 DEF Point
  <1>. HIDE DEF r
  <1>6. PolySegments(r) \in Seq(Segment)
    BY <1>5, SeveralSegments
  <1>7. PolySegments(r) # <<>>
    <2>1. DOMAIN PolySegments(r) = DOMAIN r /\ DOMAIN r = 1 .. 4
      BY <1>5 DEF PolySegments
    <2>. QED
      BY <2>1
  <1>. QED
    BY <1>4, <1>6, <1>7

LEMMA AxisIs ==
  ASSUME axes \in Seq(Segment), axes # <<>>
  PROVE  RevolutionAxis \in Turning
  <1>1. axes[1] \in Segment
    OBVIOUS
  <1>2. axes[1].start[1] \in Int /\ axes[1].start[2] \in Int
    BY <1>1 DEF Segment, Point
  <1>. QED
    BY <1>2 DEF RevolutionAxis, Turning

LEMMA BuiltBase ==
  ASSUME ChainInv, HolesInv, pc = "tree" => axes # <<>>, BuildTree
  PROVE  BasedTree(tree')
  <1>. DEFINE outline == IF Chamfered(chain) THEN SharpRectangle(chain) ELSE chain
              a == Node(ProfileNode, "profile_loop", ProfileNode, chain)
              b == Node(<<"revolve", 1>>, "revolve_profile", ProfileNode, RevolutionAxis)
              c == Node(ProfileNode, "profile_loop", ProfileNode, outline)
              d == Node(<<"extrude", 1>>, "extrude_profile", ProfileNode, Thickness)
              turned == <<a, b>>
              base == <<c, d>>
              cut == Node(<<"chamfer", 1>>, "chamfer_edges", ProfileNode, ChamferSize(chain))
              cuts == IF Chamfered(chain) THEN <<cut>> ELSE <<>>
  <1>1. /\ pc \in {"tree", "patterns"}
        /\ circles \in Seq(Drawn)
        /\ pc = "tree" => Revolves
        /\ pc = "patterns" => ~Revolves /\ GroupsInv(free, patterns)
        /\ chain \in Seq(Segment) /\ chain # <<>> /\ axes \in Seq(Segment)
        /\ tree' = IF Revolves THEN turned ELSE base \o HoleNodes \o PatternNodes \o cuts
    BY DEF HolesInv, BuildTree, ChainInv, ChainTypeOK
  <1>2. \A id, op, data : LET x == Node(id, op, ProfileNode, data) IN
          IsNode(x) /\ x.op = op /\ x.data = data
    BY DEF Node, IsNode
  <1>3. outline \in Seq(Segment) /\ outline # <<>>
    BY <1>1, SharpIsOutline
  <1>. HIDE DEF outline
  <1>4. Based(a) /\ Based(c) /\ Based(d) /\ Based(cut)
    BY <1>1, <1>2, <1>3 DEF Based
  <1>5. Revolves => Based(b)
    <2>. SUFFICES ASSUME Revolves PROVE Based(b)
      OBVIOUS
    <2>1. RevolutionAxis \in Turning
      BY <1>1, AxisIs
    <2>. QED
      BY <1>2, <2>1 DEF Based
  <1>. HIDE DEF a, b, c, d, cut
  <1>6. (\E T : turned \in Seq(T)) /\ ToSet(turned) = {a, b}
    BY OfTwo
  <1>7. (\E T : base \in Seq(T)) /\ ToSet(base) = {c, d}
    BY OfTwo
  <1>8. (\E T : cuts \in Seq(T)) /\ ToSet(cuts) \subseteq {cut}
    <2>1. (\E T : <<cut>> \in Seq(T)) /\ ToSet(<<cut>>) = {cut}
      BY OfOne
    <2>2. (\E T : <<>> \in Seq(T)) /\ ToSet(<<>>) = {}
      <3>1. <<>> \in Seq({})
        OBVIOUS
      <3>. QED
        BY <3>1 DEF ToSet
    <2>. QED
      BY <2>1, <2>2
  <1>. HIDE DEF turned, base, cuts
  <1>9. CASE Revolves
    <2>1. tree' = turned
      BY <1>1, <1>9
    <2>2. \A x \in ToSet(turned) : Based(x)
      BY <1>4, <1>5, <1>6, <1>9
    <2>. QED
      BY <1>6, <2>1, <2>2 DEF BasedTree
  <1>10. CASE ~Revolves
    <2>1. GroupsInv(free, patterns) /\ tree' = base \o HoleNodes \o PatternNodes \o cuts
      BY <1>1, <1>10
    <2>2. /\ \E T : HoleNodes \in Seq(T)
          /\ \A x \in ToSet(HoleNodes) : IsNode(x) /\ x.op = "circle_hole"
      BY <1>1, SingleNodes
    <2>3. /\ \E T : PatternNodes \in Seq(T)
          /\ \A x \in ToSet(PatternNodes) : IsNode(x) /\ x.op = "hole_pattern"
      BY <2>1, GroupNodes DEF GroupsInv
    <2>. DEFINE one == base \o HoleNodes
                two == one \o PatternNodes
                all == two \o cuts
    <2>4. (\E T : one \in Seq(T)) /\ ToSet(one) = ToSet(base) \cup ToSet(HoleNodes)
      BY <1>7, <2>2, Joined
    <2>. HIDE DEF one
    <2>5. (\E T : two \in Seq(T)) /\ ToSet(two) = ToSet(one) \cup ToSet(PatternNodes)
      BY <2>3, <2>4, Joined
    <2>. HIDE DEF two
    <2>6. (\E T : all \in Seq(T)) /\ ToSet(all) = ToSet(two) \cup ToSet(cuts)
      BY <1>8, <2>5, Joined
    <2>7. tree' = all
      BY <2>1 DEF two, one
    <2>. HIDE DEF all
    <2>8. ASSUME NEW x \in ToSet(all) PROVE Based(x)
      <3>1. x \in {c, d} \/ x = cut \/ x \in ToSet(HoleNodes) \/ x \in ToSet(PatternNodes)
        BY <1>7, <1>8, <2>4, <2>5, <2>6
      <3>2. x \in ToSet(HoleNodes) \/ x \in ToSet(PatternNodes) => Based(x)
        BY <2>2, <2>3 DEF Based
      <3>. QED
        BY <1>4, <3>1, <3>2
    <2>. QED
      BY <2>6, <2>7, <2>8 DEF BasedTree
  <1>. QED
    BY <1>9, <1>10

LEMMA EditedBase ==
  ASSUME BasedTree(tree), NEW t \in Repeated \cup Dropped \cup Moved
  PROVE  BasedTree(t)
  <1>1. (\E T : tree \in Seq(T)) /\ \A x \in ToSet(tree) : IsNode(x)
    BY DEF BasedTree, Based
  <1>2. /\ \E T : t \in Seq(T)
        /\ \A i \in 1 .. Len(t) : IsNode(t[i]) /\ \E y \in ToSet(tree) :
             t[i].op = y.op /\ t[i].id = y.id /\ t[i].data = y.data
    BY <1>1, EditedNodes
  <1>3. DOMAIN t = 1 .. Len(t)
    BY <1>2
  <1>4. ASSUME NEW x \in ToSet(t) PROVE Based(x)
    <2>1. PICK y \in ToSet(tree) : IsNode(x) /\ x.op = y.op /\ x.data = y.data
      BY <1>2, <1>3 DEF ToSet
    <2>2. Based(y)
      BY DEF BasedTree
    <2>. QED
      BY <2>1, <2>2 DEF Based
  <1>. QED
    BY <1>2, <1>4 DEF BasedTree

(* The nodes of one kind.                                                  *)
LEMMA NodesAre ==
  ASSUME BasedTree(tree), NEW op
  PROVE  /\ \E T : Nodes(op) \in Seq(T)
         /\ \A i \in 1 .. Len(Nodes(op)) : Based(Nodes(op)[i]) /\ Nodes(op)[i].op = op
  <1>. DEFINE S == {n \in ToSet(tree) : n.op = op}
              s == Keep(tree, S)
  <1>1. PICK T : tree \in Seq(T)
    BY DEF BasedTree
  <1>2. Nodes(op) = s
    BY DEF Nodes
  <1>3. s \in Seq(T) /\ \A i \in 1 .. Len(s) : s[i] \in S
    <2>. HIDE DEF S
    <2>. QED
      BY <1>1, Keeping
  <1>4. \A x \in S : Based(x) /\ x.op = op
    BY DEF BasedTree
  <1>. HIDE DEF S, s
  <1>5. \A i \in 1 .. Len(s) : Based(s[i]) /\ s[i].op = op
    BY <1>3, <1>4
  <1>6. \E U : s \in Seq(U)
    BY <1>3
  <1>. QED
    BY <1>2, <1>5, <1>6

LEMMA ProfileAndBase ==
  ASSUME BasedTree(tree), WellBuilt
  PROVE  /\ TreeProfile.data \in Seq(Segment) /\ TreeProfile.data # <<>>
         /\ ~Revolution => TreeBase.data = Thickness
         /\ Revolution => TreeBase.data \in Turning
  <1>. DEFINE p == Nodes("profile_loop")
              e == Nodes("extrude_profile")
              r == Nodes("revolve_profile")
              b == e \o r
  <1>1. Len(p) = 1 /\ Len(b) = 1
    BY DEF WellBuilt, BaseNodes
  <1>2. /\ \E T : p \in Seq(T)
        /\ \A i \in 1 .. Len(p) : Based(p[i]) /\ p[i].op = "profile_loop"
    BY NodesAre
  <1>3. /\ \E T : e \in Seq(T)
        /\ \A i \in 1 .. Len(e) : Based(e[i]) /\ e[i].op = "extrude_profile"
    BY NodesAre
  <1>4. /\ \E T : r \in Seq(T)
        /\ \A i \in 1 .. Len(r) : Based(r[i]) /\ r[i].op = "revolve_profile"
    BY NodesAre
  <1>5. TreeProfile = Head(p) /\ TreeBase = Head(b)
    BY DEF TreeProfile, TreeBase, BaseNodes
  <1>. HIDE DEF p, e, r
  <1>6. Head(p) = p[1] /\ 1 \in 1 .. Len(p)
    BY <1>1, <1>2
  <1>7. PICK S : e \in Seq(S)
    BY <1>3
  <1>8. PICK T : r \in Seq(T)
    BY <1>4
  <1>9. e \in Seq(S \cup T) /\ r \in Seq(S \cup T) /\ Len(e) \in Nat /\ Len(r) \in Nat
    BY <1>7, <1>8
  <1>10. /\ b \in Seq(S \cup T) /\ Len(b) = Len(e) + Len(r)
         /\ \A i \in 1 .. Len(b) : b[i] = IF i <= Len(e) THEN e[i] ELSE r[i - Len(e)]
    BY <1>9
  <1>. HIDE DEF b
  <1>11. Head(b) = b[1] /\ 1 \in 1 .. Len(b)
    BY <1>1, <1>10
  <1>12. Len(e) + Len(r) = 1
    BY <1>1, <1>10
  <1>13. \/ 1 \in 1 .. Len(e) /\ Head(b) = e[1]
         \/ 1 \in 1 .. Len(r) /\ Head(b) = r[1]
    <2>1. CASE Len(e) = 1
      BY <1>10, <1>11, <2>1
    <2>2. CASE Len(e) = 0
      <3>1. Len(r) = 1 /\ ~(1 <= Len(e)) /\ 1 - Len(e) = 1
        BY <1>9, <1>12, <2>2
      <3>2. b[1] = r[1 - Len(e)]
        BY <1>10, <1>11, <3>1
      <3>. QED
        BY <1>11, <3>1, <3>2
    <2>3. Len(e) = 1 \/ Len(e) = 0
      <3>. DEFINE m == Len(e)
                  n == Len(r)
      <3>1. m \in Nat /\ n \in Nat /\ m + n = 1
        BY <1>9, <1>12
      <3>. HIDE DEF m, n
      <3>2. m = 1 \/ m = 0
        BY <3>1
      <3>. QED
        BY <3>2 DEF m
    <2>. QED
      BY <2>1, <2>2, <2>3
  <1>14. Based(Head(p)) /\ Head(p).op = "profile_loop"
    BY <1>2, <1>6
  <1>15. Based(Head(b)) /\ Head(b).op \in {"extrude_profile", "revolve_profile"}
    BY <1>3, <1>4, <1>13
  <1>. QED
    BY <1>5, <1>14, <1>15 DEF Based, Revolution

LEMMA TurnedProfile ==
  ASSUME NEW l \in Seq(Segment), l # <<>>, NEW axis \in Turning
  PROVE  ProfileForRevolution(l, axis) \in Seq(Segment) /\ ProfileForRevolution(l, axis) # <<>>
  <1>. DEFINE k == axis.radial
              m == 3 - axis.radial
              line(i) == Line(OnAxis(l[i].start, l, axis), OnAxis(l[i].end, l, axis))
  <1>1. k \in 1 .. 2 /\ m \in 1 .. 2 /\ axis.at \in Int
    BY DEF Turning
  <1>2. Edges(l, m)[1] = Min(Sides(l, m))
    BY DEF Edges, Sides
  <1>3. Edges(l, m)[1] \in Int
    <2>. HIDE DEF m
    <2>. QED
      BY <1>1, <1>2, SidesOf
  <1>4. ASSUME NEW p \in Point PROVE OnAxis(p, l, axis) \in Point
    <2>. DEFINE sign == IF Min(Radii(l, axis)) < 0 THEN -1 ELSE 1
                low == Edges(l, m)[1]
    <2>1. sign \in Int /\ low \in Int
      BY <1>3
    <2>2. p[k] \in Int /\ p[m] \in Int
      BY <1>1 DEF Point
    <2>3. OnAxis(p, l, axis) = <<sign * (p[k] - axis.at), p[m] - low>>
      BY DEF OnAxis, Radial
    <2>. HIDE DEF sign, low, k, m
    <2>4. sign * (p[k] - axis.at) \in Int /\ p[m] - low \in Int
      BY <1>1, <2>1, <2>2
    <2>. QED
      BY <2>3, <2>4 DEF Point
  <1>5. Len(l) \in Nat /\ Len(l) # 0 /\ DOMAIN l = 1 .. Len(l)
    OBVIOUS
  <1>6. \A i \in 1 .. Len(l) : l[i].start \in Point /\ l[i].end \in Point
    <2>1. \A i \in 1 .. Len(l) : l[i] \in Segment
      OBVIOUS
    <2>2. \A s \in Segment : s.start \in Point /\ s.end \in Point
      BY DEF Segment
    <2>. QED
      BY <2>1, <2>2
  <1>7. \A i \in 1 .. Len(l) : line(i) \in Segment
    BY <1>4, <1>6 DEF Line, Segment
  <1>8. ProfileForRevolution(l, axis) = [i \in 1 .. Len(l) |-> line(i)]
    BY <1>5 DEF ProfileForRevolution
  <1>. HIDE DEF line
  <1>9. [i \in 1 .. Len(l) |-> line(i)] \in Seq(Segment)
    BY <1>5, <1>7
  <1>10. DOMAIN ProfileForRevolution(l, axis) # {}
    BY <1>5, <1>8
  <1>. QED
    BY <1>8, <1>9, <1>10

LEMMA ConvertedBase ==
  ASSUME BasedTree(tree), Convert
  PROVE  /\ document'.base \in BaseFeature /\ BaseFits(document'.base)
         /\ WithinLimits(document')
  <1>. DEFINE outer == IF Revolution THEN ProfileForRevolution(TreeProfile.data, TreeBase.data)
                                     ELSE TreeProfile.data
              kind == IF Revolution THEN "profile_revolution" ELSE "profile_extrusion"
              high == IF Revolution THEN 0 ELSE TreeBase.data
              base == [kind |-> kind, size |-> <<0, 0, high>>, wall |-> 0, inner |-> 0,
                       outer |-> outer]
  <1>1. document'.base = base /\ WithinLimits(document')
    BY DEF Convert, Converted, Convertible, FitsSchema
  <1>2. /\ TreeProfile.data \in Seq(Segment) /\ TreeProfile.data # <<>>
        /\ ~Revolution => TreeBase.data = Thickness
        /\ Revolution => TreeBase.data \in Turning
    BY ProfileAndBase DEF Convert, Convertible
  <1>3. outer \in Seq(Segment) /\ outer # <<>>
    BY <1>2, TurnedProfile
  <1>4. /\ kind \in Profiled /\ high \in Int
        /\ kind = "profile_extrusion" => high > 0
    BY <1>2, ThicknessAssumption DEF Profiled
  <1>5. kind \notin {"plate", "cylinder", "ring", "l_bracket", "enclosure"}
    OBVIOUS
  <1>. HIDE DEF outer, kind, high
  <1>6. <<0, 0, high>> \in Int \X Int \X Int /\ <<0, 0, high>>[3] = high
    BY <1>4
  <1>7. base \in BaseFeature
    BY <1>3, <1>4, <1>6 DEF BaseFeature
  <1>8. base.kind = kind /\ base.size[3] = high /\ base.outer = outer
    BY <1>6
  <1>. HIDE DEF base
  <1>9. BaseFits(base)
    BY <1>3, <1>4, <1>5, <1>8 DEF BaseFits, Z
  <1>. QED
    BY <1>1, <1>7, <1>9

(* Where the request of an upload may be, but that of a document not.      *)
Uploaded == {"read", "chain", "patterns", "tree", "convert", "analysed"}

(* A drawing as the server proposed it: it did fit its document.           *)
Proposed(drawn) ==
  /\ drawn = DefaultDrawing(drawn.cad) /\ Errors(drawn.cad) = {}
  /\ WellFormed(drawn) /\ Fits(drawn.cad, drawn)

DrawInv ==
  /\ pc \in Uploaded => drawing.mode # "posted"
  /\ BasedTree(tree)
  /\ pc = "tree" => axes # <<>>
  /\ pc \in {"validate", "analysed", "done"} => SoundDoc(document)
  /\ pc \in {"analysed", "done"} => errors = Errors(document)
  /\ pc # "packaged" => package = "none" /\ (sheet # NoSheet => Proposed(sheet))
  /\ DrawingTellsTheTruth

(* A step that leaves the drawing alone.                                   *)
LEMMA PaperStays ==
  ASSUME DrawInv, pc # "packaged", pc' # "packaged", UNCHANGED paper,
         pc' \in Uploaded => drawing'.mode # "posted",
         BasedTree(tree'), pc' = "tree" => axes' # <<>>,
         pc' \in {"validate", "analysed", "done"} => SoundDoc(document'),
         pc' \in {"analysed", "done"} => errors' = Errors(document')
  PROVE  DrawInv'
  <1>1. /\ package = "none" /\ package' = package /\ sheet' = sheet
        /\ sheet # NoSheet => Proposed(sheet)
    BY DEF DrawInv, paper
  <1>2. DrawingTellsTheTruth'
    BY <1>1 DEF DrawingTellsTheTruth
  <1>3. sheet' # NoSheet => Proposed(sheet')
    BY <1>1
  <1>4. package' = "none"
    BY <1>1
  <1>5. BasedTree(tree)' /\ (pc' = "tree" => axes' # <<>>)
    OBVIOUS
  <1>6. /\ pc' \in {"validate", "analysed", "done"} => SoundDoc(document)'
        /\ pc' \in {"analysed", "done"} => errors' = Errors(document)'
    OBVIOUS
  <1>. QED
    BY <1>2, <1>3, <1>4, <1>5, <1>6 DEF DrawInv, NoSheet, NoDocument, Uploaded

LEMMA ValidProfile ==
  ASSUME NEW doc, Errors(doc) = {}, doc.base.kind \in Profiled
  PROVE  ProfileErrors(doc.base) = {}
  <1>1. ProfileErrors(doc.base) \subseteq Errors(doc)
    BY DEF Errors
  <1>. QED
    BY <1>1

LEMMA TemplateStep ==
  ASSUME DrawInv, Template
  PROVE  DrawInv'
  <1>. DEFINE drawn == DefaultDrawing(document)
              fine == WellFormed(drawn) /\ Fits(document, drawn)
  <1>1. /\ pc \in {"analysed", "done"} /\ errors = {} /\ sheet = NoSheet /\ package = "none"
        /\ IF fine THEN sheet' = drawn /\ UNCHANGED <<package, pc>>
           ELSE package' = "no_template" /\ pc' = "packaged" /\ UNCHANGED sheet
        /\ UNCHANGED <<drawing, tree, document, errors>>
    BY DEF Template, request, result
  <1>2. SoundDoc(document) /\ errors = Errors(document) /\ BasedTree(tree)
    BY <1>1 DEF DrawInv
  <1>3. drawn.cad = document
    BY DEF DefaultDrawing
  <1>4. ~fine => TooLarge(document.base)
    <2>1. /\ \E T : document.holes \in Seq(T)
          /\ WithinLimits(document)
          /\ document.base \in BaseFeature /\ BaseFits(document.base)
      BY <1>2 DEF SoundDoc
    <2>2. document.base.kind \in Profiled => ProfileErrors(document.base) = {}
      BY <1>1, <1>2, ValidProfile
    <2>3. (\A k \in 1 .. 3 : InRange(BaseExtents(document.base)[k])) => fine
      BY <2>1, TemplateFits
    <2>. HIDE DEF fine
    <2>. QED
      BY <2>1, <2>2, <2>3, BeyondTheBound
  <1>5. BasedTree(tree)' /\ SoundDoc(document)' /\ errors' = Errors(document)'
    BY <1>1, <1>2
  <1>6. CASE fine
    <2>1. sheet' = drawn /\ package' = "none" /\ pc' = pc
      BY <1>1, <1>6
    <2>2. Proposed(drawn)
      BY <1>1, <1>2, <1>3, <1>6 DEF Proposed
    <2>3. DrawingTellsTheTruth'
      BY <2>1 DEF DrawingTellsTheTruth
    <2>4. Proposed(sheet)'
      BY <2>1, <2>2
    <2>. HIDE DEF drawn, fine
    <2>5. pc' \in Uploaded => drawing'.mode # "posted"
      BY <1>1, <2>1 DEF DrawInv
    <2>. QED
      BY <1>1, <1>5, <2>1, <2>3, <2>4, <2>5 DEF DrawInv
  <1>7. CASE ~fine
    <2>. HIDE DEF drawn, fine
    <2>1. package' = "no_template" /\ pc' = "packaged" /\ TooLarge(document.base)
      BY <1>1, <1>4, <1>7
    <2>2. TooLarge(document.base)'
      BY <1>1, <2>1
    <2>3. DrawingTellsTheTruth'
      BY <2>1, <2>2 DEF DrawingTellsTheTruth
    <2>. QED
      BY <1>5, <2>1, <2>3 DEF DrawInv, Uploaded
  <1>. QED
    BY <1>6, <1>7

LEMMA PackageStep ==
  ASSUME DrawInv, NEW more \in Additions, Package(more)
  PROVE  DrawInv'
  <1>. DEFINE asked == Asked(more)
              fine == WellFormed(asked) /\ errors = {} /\ Fits(document, asked)
  <1>1. /\ pc = "done" /\ sheet # NoSheet /\ pc' = "packaged"
        /\ sheet' = asked
        /\ package' = IF fine THEN "accepted" ELSE "refused"
        /\ tree' = tree /\ document' = document
    BY DEF Package, request, result
  <1>2. /\ SoundDoc(document) /\ errors = Errors(document) /\ BasedTree(tree)
        /\ sheet = DefaultDrawing(sheet.cad) /\ Errors(sheet.cad) = {}
        /\ WellFormed(sheet) /\ Fits(sheet.cad, sheet)
    BY <1>1 DEF DrawInv, Proposed
  <1>3. asked.cad = sheet.cad /\ asked.dimensions = DefaultDimensions(sheet.cad) \o more
    <2>1. sheet = [cad |-> sheet.cad, dimensions |-> DefaultDimensions(sheet.cad),
                   datums |-> DefaultDatums(sheet.cad),
                   finishes |-> <<[target |-> <<"base_face", "top">>, datum |-> "A"]>>]
      BY <1>2 DEF DefaultDrawing
    <2>. QED
      BY <2>1 DEF Asked
  <1>. HIDE DEF asked
  <1>4. ~fine => asked # DefaultDrawing(document)
    <2>. SUFFICES ASSUME asked = DefaultDrawing(document) PROVE fine
      OBVIOUS
    <2>1. asked.cad = document
      BY DEF DefaultDrawing
    <2>2. errors = {}
      BY <1>2, <1>3, <2>1
    <2>3. asked = sheet
      BY <1>2, <1>3, <2>1
    <2>4. WellFormed(asked) /\ Fits(document, asked)
      BY <1>2, <1>3, <2>1, <2>3
    <2>. QED
      BY <2>2, <2>4
  <1>5. ASSUME fine, NEW k \in 1 .. 3
        PROVE  Full(BaseExtents(document.base)[k]) = Span(document.base, k)
    <2>1. document.base.kind \in Profiled => ProfileErrors(document.base) = {}
      BY <1>2, <1>5, ValidProfile
    <2>2. document.base \in BaseFeature /\ BaseFits(document.base)
      BY <1>2 DEF SoundDoc
    <2>. QED
      BY <2>1, <2>2, TrueSize
  <1>6. fine => asked.cad = document
    BY DEF Fits
  <1>7. fine => ~TooLarge(document.base)
    <2>. SUFFICES ASSUME fine PROVE ~TooLarge(document.base)
      OBVIOUS
    <2>1. document.base.kind \in Profiled => ProfileErrors(document.base) = {}
      BY <1>2, ValidProfile
    <2>2. document.base \in BaseFeature /\ BaseFits(document.base)
      BY <1>2 DEF SoundDoc
    <2>3. asked.dimensions = DefaultDimensions(document) \o more
      BY <1>3, <1>6
    <2>4. \E T : more \in Seq(T)
      <3>1. more = <<>> \/ \E target \in Targets : more = <<Dimensioned(<<"added">>, target, {"B"})>>
        BY DEF Additions
      <3>2. <<>> \in Seq({}) /\ \A x : <<x>> \in Seq({x})
        OBVIOUS
      <3>. QED
        BY <3>1, <3>2
    <2>5. \A i \in DOMAIN asked.dimensions : Resolved(document, asked.dimensions[i].target) # {}
      BY DEF Fits
    <2>6. \A k \in 1 .. 3 : InRange(BaseExtents(document.base)[k])
      BY <2>3, <2>4, <2>5, OverallGiven
    <2>. QED
      BY <2>1, <2>2, <2>6, BeyondTheBound
  <1>. HIDE DEF fine
  <1>8. package' = "accepted" =>
          /\ ~TooLarge(document'.base)
          /\ \A k \in 1 .. 3 : Full(BaseExtents(document'.base)[k]) = Span(document'.base, k)
          /\ sheet'.cad = document'
    BY <1>1, <1>5, <1>6, <1>7
  <1>9. /\ package' # "no_template"
        /\ package' = "refused" => sheet' # DefaultDrawing(document')
    BY <1>1, <1>4
  <1>10. DrawingTellsTheTruth'
    BY <1>8, <1>9 DEF DrawingTellsTheTruth
  <1>11. BasedTree(tree)' /\ pc' = "packaged"
    BY <1>1, <1>2
  <1>. QED
    BY <1>10, <1>11 DEF DrawInv, Uploaded

LEMMA DrawInit ==
  ASSUME PartInit
  PROVE  DrawInv
  <1>1. /\ tree = <<>> /\ sheet = NoSheet /\ package = "none"
        /\ pc \in {"read", "plan", "validate"}
        /\ pc = "validate" => document \in Documents
    BY DEF PartInit, Init, PlanInit, Begin
  <1>2. BasedTree(tree)
    <2>1. <<>> \in Seq({}) /\ ToSet(<<>>) = {}
      BY DEF ToSet
    <2>. QED
      BY <1>1, <2>1 DEF BasedTree
  <1>3. pc = "validate" => SoundDoc(document)
    BY <1>1, PostedDocument
  <1>4. DrawingTellsTheTruth
    BY <1>1 DEF DrawingTellsTheTruth
  <1>5. pc = "read" => drawing.mode # "posted"
    BY DrawingsAssumption DEF PartInit, Init, PlanInit
  <1>. QED
    BY <1>1, <1>2, <1>3, <1>4, <1>5 DEF DrawInv, Uploaded

(* The steps that have nothing to do with the document.                    *)
EarlyStep ==
  \/ ReadEntity \/ RefuseEntity \/ RefuseLines \/ EndOfDrawing \/ Link \/ Retry
  \/ RefuseChain \/ RefuseShape \/ InferOperation \/ GroupPattern \/ SkipCircle
  \/ RefuseTree

LEMMA EarlyStays ==
  ASSUME DrawInv, EarlyStep, UNCHANGED paper
  PROVE  DrawInv'
  <1>1. tree' = tree /\ pc \in {"read", "chain", "patterns", "convert"}
    BY DEF EarlyStep, ReadEntity, RefuseEntity, RefuseLines, EndOfDrawing, Link, Retry,
           RefuseChain, RefuseShape, InferOperation, GroupPattern, SkipCircle, RefuseTree,
           Refuse, result
  <1>2. pc' \in {"read", "chain", "patterns", "tree", "refused"}
    BY DEF EarlyStep, ReadEntity, RefuseEntity, RefuseLines, EndOfDrawing, Link, Retry,
           RefuseChain, RefuseShape, InferOperation, GroupPattern, SkipCircle, RefuseTree,
           Refuse
  <1>3. pc' = "tree" => axes' # <<>>
    BY DEF EarlyStep, ReadEntity, RefuseEntity, RefuseLines, EndOfDrawing, Link, Retry,
           RefuseChain, RefuseShape, InferOperation, GroupPattern, SkipCircle, RefuseTree,
           Refuse, input
  <1>4. BasedTree(tree')
    BY <1>1 DEF DrawInv
  <1>5. drawing' = drawing /\ drawing.mode # "posted"
    BY <1>1
    DEF EarlyStep, ReadEntity, RefuseEntity, RefuseLines, EndOfDrawing, Link, Retry,
        RefuseChain, RefuseShape, InferOperation, GroupPattern, SkipCircle, RefuseTree,
        Refuse, DrawInv, Uploaded
  <1>. QED
    BY <1>1, <1>2, <1>3, <1>4, <1>5, PaperStays

LEMMA LateSteps ==
  ASSUME DrawInv, ChainInv, HolesInv, HolesInv', UNCHANGED paper,
         BuildTree \/ Convert \/ Validate \/ Confirm
  PROVE  DrawInv'
  <1>1. CASE BuildTree
    <2>1. /\ pc # "packaged" /\ pc' = "convert"
          /\ drawing' = drawing /\ drawing.mode # "posted"
      BY <1>1 DEF BuildTree, DrawInv, Uploaded
    <2>2. pc = "tree" => axes # <<>>
      BY DEF DrawInv
    <2>3. BasedTree(tree')
      BY <1>1, <2>2, BuiltBase
    <2>. QED
      BY <2>1, <2>3, PaperStays
  <1>2. CASE Convert
    <2>1. pc = "convert" /\ pc' = "validate" /\ tree' = tree /\ UNCHANGED <<circles, drawing>>
          /\ document'.holes = TreeHoles
      BY <1>2 DEF Convert, Converted, input
    <2>2. drawing.mode # "posted" /\ pc' \notin Uploaded
      BY <2>1 DEF DrawInv, Uploaded
    <2>3. BasedTree(tree) /\ BasedTree(tree')
      BY <2>1 DEF DrawInv
    <2>4. document'.base \in BaseFeature /\ BaseFits(document'.base) /\ WithinLimits(document')
      BY <1>2, <2>3, ConvertedBase
    <2>5. \E T : document'.holes \in Seq(T)
      <3>1. drawing.mode # "posted" => CutsInv(document.holes)'
        BY <2>1 DEF HolesInv
      <3>. QED
        BY <2>2, <3>1 DEF CutsInv
    <2>6. SoundDoc(document')
      BY <2>4, <2>5 DEF SoundDoc
    <2>. QED
      BY <2>1, <2>2, <2>3, <2>6, PaperStays
  <1>3. CASE Validate
    <2>1. /\ pc = "validate" /\ pc' \in {"done", "analysed"} /\ errors' = Errors(document)
          /\ document' = document /\ tree' = tree /\ drawing' = drawing
          /\ pc' = "analysed" => drawing.mode # "posted"
      BY <1>3 DEF Validate
    <2>2. SoundDoc(document) /\ BasedTree(tree)
      BY <2>1 DEF DrawInv
    <2>3. SoundDoc(document') /\ BasedTree(tree') /\ errors' = Errors(document')
      BY <2>1, <2>2
    <2>. QED
      BY <2>1, <2>3, PaperStays DEF Uploaded
  <1>4. CASE Confirm
    <2>1. /\ pc = "analysed" /\ pc' = "convert"
          /\ tree' = tree \/ tree' \in Repeated \cup Dropped \cup Moved
          /\ drawing' = drawing /\ drawing.mode # "posted"
      BY <1>4 DEF Confirm, DrawInv, Uploaded
    <2>2. BasedTree(tree)
      BY DEF DrawInv
    <2>3. BasedTree(tree')
      BY <2>1, <2>2, EditedBase
    <2>. QED
      BY <2>1, <2>3, PaperStays
  <1>. QED
    BY <1>1, <1>2, <1>3, <1>4

LEMMA PlannersStay ==
  ASSUME DrawInv, PlanInv, PlanNext, UNCHANGED paper
  PROVE  DrawInv'
  <1>1. tree' = tree /\ pc \in Planned
    BY DEF PlanNext, PlanByAgent, AgentFails, AskRules, NotConfigured, AskLlm, Answered,
           CallFails, Declined, Unforeseen, PlanByRules, UsePlan, upload, Planned
  <1>2. \/ pc' \in Planned \cup {"refused"}
        \/ pc = "planned" /\ pc' = "validate" /\ document' = document
    BY DEF PlanNext, PlanByAgent, AgentFails, AskRules, NotConfigured, AskLlm, Answered,
           CallFails, Declined, Unforeseen, PlanByRules, UsePlan, Made, LlmFails,
           PlannerError, Planned
  <1>3. BasedTree(tree')
    BY <1>1 DEF DrawInv
  <1>4. CASE pc' \in Planned \cup {"refused"}
    <2>1. /\ pc # "packaged" /\ pc' \notin {"packaged", "tree", "validate", "analysed", "done"}
          /\ pc' \notin Uploaded
      BY <1>1, <1>4 DEF Planned, Uploaded
    <2>. QED
      BY <1>3, <2>1, PaperStays
  <1>5. CASE pc = "planned" /\ pc' = "validate" /\ document' = document
    <2>1. SoundDoc(document')
      BY <1>5, PlannedDocument
    <2>. QED
      BY <1>3, <1>5, <2>1, PaperStays DEF Uploaded
  <1>. QED
    BY <1>2, <1>4, <1>5

LEMMA DrawNext ==
  ASSUME DrawInv, ChainInv, HolesInv, PlanInv, HolesInv', [PartNext]_partVars
  PROVE  DrawInv'
  <1>1. CASE UNCHANGED partVars
    <2>1. /\ UNCHANGED <<pc, drawing, tree, axes, document, errors, sheet, package>>
      BY <1>1 DEF partVars, vars, paper
    <2>2. (DrawingTellsTheTruth <=> DrawingTellsTheTruth')
      BY <2>1 DEF DrawingTellsTheTruth
    <2>. QED
      BY <2>1, <2>2 DEF DrawInv, Uploaded
  <1>2. CASE Next /\ UNCHANGED <<plan, part, paper>>
    <2>1. EarlyStep \/ BuildTree \/ Convert \/ Validate \/ Confirm
      BY <1>2 DEF Next, EarlyStep
    <2>2. UNCHANGED paper
      BY <1>2 DEF paper
    <2>. QED
      BY <2>1, <2>2, EarlyStays, LateSteps
  <1>3. CASE PlanNext /\ UNCHANGED <<part, paper>>
    <2>1. UNCHANGED paper
      BY <1>3 DEF paper
    <2>. QED
      BY <1>3, <2>1, PlannersStay
  <1>4. ASSUME NEW b \in Backends, Build(b) PROVE DrawInv'
    <2>1. pc = "done" /\ pc' = "built" /\ tree' = tree /\ UNCHANGED paper
      BY <1>4 DEF Build, request, result, paper
    <2>2. BasedTree(tree')
      BY <2>1 DEF DrawInv
    <2>. QED
      BY <2>1, <2>2, PaperStays DEF Uploaded
  <1>5. CASE Template
    BY <1>5, TemplateStep
  <1>6. ASSUME NEW more \in Additions, Package(more) PROVE DrawInv'
    BY <1>6, PackageStep
  <1>. QED
    BY <1>1, <1>2, <1>3, <1>4, <1>5, <1>6 DEF PartNext

LEMMA DrawInvariant == PartSpec => []DrawInv
  <1>1. DrawInv /\ ChainInv /\ HolesInv /\ PlanInv /\ HolesInv'
          /\ [PartNext]_<<vars, plan, part, paper>> => DrawInv'
    BY DrawNext DEF partVars
  <1>2. PartInit => DrawInv
    BY DrawInit
  <1>. QED
    BY <1>1, <1>2, HolesInvariant, PlanInvariant, PTL DEF PartSpec

(* The server has no template only for a part that reaches beyond the      *)
(* bound of a dimension, and no drawing of such a part is ever accepted; a *)
(* template sent back as it came, for the document it was made for, is     *)
(* never refused; and whatever drawing is accepted, it gives the           *)
(* dimensions of the solid the document means, for every kind of base, and *)
(* the values the document had when the user saw the drawing.  For every   *)
(* drawing, prompt and posted document, and every bound.                   *)
THEOREM DrawingsAreTrue == PartSpec => []DrawingTellsTheTruth
  <1>1. DrawInv => DrawingTellsTheTruth
    BY DEF DrawInv
  <1>. QED
    BY <1>1, DrawInvariant, PTL

----------------------------------------------------------------------------
(* What the compilers make of a base: the same as it means.                *)

Place == Int \X Int \X Int

(* A place has three coordinates.                                          *)
LEMMA PlaceOf ==
  ASSUME NEW p \in Place
  PROVE  /\ p[1] \in Int /\ p[2] \in Int /\ p[3] \in Int
         /\ p = <<p[1], p[2], p[3]>>
  BY DEF Place

(* What is made of primitives: the points in some, but not in others.      *)
Remains(p, s) == (\E x \in s.add : In(p, x)) /\ \A x \in s.sub : ~In(p, x)

(* Which places are in a box.                                              *)
LEMMA InBox ==
  ASSUME NEW p, NEW a, NEW b, NEW c, NEW u, NEW v, NEW w
  PROVE  In(p, Box(<<a, b, c>>, <<u, v, w>>)) <=>
           /\ a <= p[1] /\ p[1] <= a + u
           /\ b <= p[2] /\ p[2] <= b + v
           /\ c <= p[3] /\ p[3] <= c + w
  <1>. DEFINE box == Box(<<a, b, c>>, <<u, v, w>>)
  <1>1. /\ box.shape = "box" /\ box.low = <<a, b, c>> /\ box.size = <<u, v, w>>
    BY DEF Box
  <1>. HIDE DEF box
  <1>2. In(p, box) <=> \A k \in 1 .. 3 : box.low[k] <= p[k] /\ p[k] <= box.low[k] + box.size[k]
    BY <1>1 DEF In
  <1>3. \A k \in 1 .. 3 : k = 1 \/ k = 2 \/ k = 3
    OBVIOUS
  <1>4. 1 \in 1 .. 3 /\ 2 \in 1 .. 3 /\ 3 \in 1 .. 3
    OBVIOUS
  <1>5. /\ <<a, b, c>>[1] = a /\ <<a, b, c>>[2] = b /\ <<a, b, c>>[3] = c
        /\ <<u, v, w>>[1] = u /\ <<u, v, w>>[2] = v /\ <<u, v, w>>[3] = w
    OBVIOUS
  <1>6. (\A k \in 1 .. 3 : box.low[k] <= p[k] /\ p[k] <= box.low[k] + box.size[k]) <=>
           /\ a <= p[1] /\ p[1] <= a + u
           /\ b <= p[2] /\ p[2] <= b + v
           /\ c <= p[3] /\ p[3] <= c + w
    BY <1>1, <1>3, <1>4, <1>5
  <1>. QED
    BY <1>2, <1>6 DEF box

(* Which places are in a cylinder, or in a cone.                           *)
LEMMA InCone ==
  ASSUME NEW p, NEW at, NEW axis, NEW direction, NEW length, NEW diameter, NEW taper
  PROVE  In(p, Cone(at, axis, direction, length, diameter, taper)) <=>
           LET t == direction * (p[axis] - at[axis]) IN
           /\ 0 <= t /\ t <= length
           /\ 4 * FromAxis2(p, at, axis) <= Square(diameter - taper * t)
  <1>. DEFINE cone == Cone(at, axis, direction, length, diameter, taper)
  <1>1. /\ cone.shape = "cone" /\ cone.at = at /\ cone.axis = axis /\ cone.direction = direction
        /\ cone.length = length /\ cone.diameter = diameter /\ cone.taper = taper
    BY DEF Cone
  <1>. HIDE DEF cone
  <1>. QED
    BY <1>1 DEF In, cone

(* How a part is placed: by centres or by corners, it is the same.         *)
WholeBox(base) == Box(Corner(base, 0, 0), Sizes(base))
LyingBox(base) == Box(Corner(base, 0, 0), PlateSize(base))
RisingBox(base) == Box(Corner(base, 0, Wall(base)), UprightSize(base))
Pocket(base, height) == Box(Corner(base, Wall(base), Wall(base)), InnerSize(base, height))

LEMMA SamePlacement ==
  ASSUME NEW base \in BaseFeature, BaseFits(base), base.kind \in Flat
  PROVE  /\ StandingBox(Sizes(base), Origin) = WholeBox(base)
         /\ StandingBox(PlateSize(base), Origin) = LyingBox(base)
         /\ StandingBox(UprightSize(base),
                        <<0, Half(base.wall) - Half(base.size[Y]), Wall(base)>>) = RisingBox(base)
         /\ \A h : StandingBox(InnerSize(base, h), <<0, 0, Wall(base)>>) = Pocket(base, h)
  <1>. DEFINE x == base.size[1]
              y == base.size[2]
              z == base.size[3]
              w == base.wall
  <1>1. x \in Int /\ y \in Int /\ z \in Int /\ w \in Int
    BY FlatExtents
  <1>2. Sizes(base) = <<Full(x), Full(y), Full(z)>>
    <2>1. Sizes(base) = [k \in 1 .. 3 |-> Full(base.size[k])]
      BY DEF Sizes
    <2>2. \A k \in 1 .. 3 : k = 1 \/ k = 2 \/ k = 3
      OBVIOUS
    <2>. QED
      BY <2>1, <2>2
  <1>3. /\ PlateSize(base) = <<Full(x), Full(y), Full(w)>>
        /\ UprightSize(base) = <<Full(x), Full(w), Full(z) - Full(w)>>
        /\ \A h : InnerSize(base, h) = <<Full(x) - 2 * Full(w), Full(y) - 2 * Full(w), h>>
        /\ Wall(base) = Full(w)
    BY DEF PlateSize, UprightSize, InnerSize, Wall, X, Y, Z
  <1>4. \A i, s : Corner(base, i, s) = <<i - Half(x), i - Half(y), s>>
    BY DEF Corner, X, Y
  <1>. HIDE DEF x, y, z, w
  <1>5. /\ 0 - (Full(x) \div 2) = 0 - Half(x) /\ 0 - (Full(y) \div 2) = 0 - Half(y)
        /\ Half(w) - Half(y) - (Full(w) \div 2) = 0 - Half(y)
        /\ 0 - ((Full(x) - 2 * Full(w)) \div 2) = Full(w) - Half(x)
        /\ 0 - ((Full(y) - 2 * Full(w)) \div 2) = Full(w) - Half(y)
    BY <1>1 DEF Full, Half
  <1>6. StandingBox(Sizes(base), Origin) = WholeBox(base)
    BY <1>2, <1>4, <1>5 DEF StandingBox, WholeBox, Origin, X, Y, Z
  <1>7. StandingBox(PlateSize(base), Origin) = LyingBox(base)
    BY <1>3, <1>4, <1>5 DEF StandingBox, LyingBox, Origin, X, Y, Z
  <1>8. StandingBox(UprightSize(base),
                    <<0, Half(base.wall) - Half(base.size[Y]), Wall(base)>>) = RisingBox(base)
    BY <1>3, <1>4, <1>5 DEF StandingBox, RisingBox, X, Y, Z, w, y
  <1>9. ASSUME NEW h
        PROVE  StandingBox(InnerSize(base, h), <<0, 0, Wall(base)>>) = Pocket(base, h)
    BY <1>3, <1>4, <1>5 DEF StandingBox, Pocket, X, Y, Z
  <1>. QED
    BY <1>6, <1>7, <1>8, <1>9

BaseBy(b, base) ==
  CASE b = "cadquery"  -> CadQueryBase(base)
    [] b = "openscad"  -> OpenScadBase(base)
    [] b = "build123d" -> Build123dBase(base)
    [] b = "freecad"   -> FreeCadBase(base)

RoundBody(base) == Cylinder(Origin, Z, 1, Full(base.size[3]), Full(base.size[1]))
Core(base) == Cylinder(Origin, Z, 1, Full(base.size[3]), Full(base.inner))

(* The four compilers make the bases of the same bodies, but for the ends  *)
(* of what they take out of one.                                           *)
LEMMA FlatBodies ==
  ASSUME NEW base \in BaseFeature, BaseFits(base), base.kind \in Flat, NEW b \in Backends
  PROVE  /\ base.kind = "plate" => BaseBy(b, base) = Solid({WholeBox(base)}, {})
         /\ base.kind = "cylinder" => BaseBy(b, base) = Solid({RoundBody(base)}, {})
         /\ base.kind = "ring" =>
              \E s \in {Core(base), Bore(base)} : BaseBy(b, base) = Solid({RoundBody(base)}, {s})
         /\ base.kind = "l_bracket" =>
              BaseBy(b, base) = Solid({LyingBox(base), RisingBox(base)}, {})
         /\ base.kind = "enclosure" =>
              \E h \in Int : /\ Full(base.size[3]) <= h + Wall(base)
                             /\ BaseBy(b, base) = Solid({WholeBox(base)}, {Pocket(base, h)})
  <1>. DEFINE z == Full(base.size[3])
              w == Wall(base)
              h1 == z - w + 2 * Tenth
  <1>1. /\ Sizes(base)[X] = Full(base.size[1]) /\ Sizes(base)[Z] = z
        /\ z \in Int /\ w \in Int
        /\ base.kind = "enclosure" => 0 <= w
    <2>1. base.size[3] \in Int /\ base.wall \in Int /\ Sizes(base)[1] = Full(base.size[1])
            /\ Sizes(base)[3] = z
      BY FlatExtents
    <2>2. base.kind = "enclosure" => 0 < base.wall
      BY DEF BaseFits
    <2>3. z \in Int /\ w \in Int /\ (0 < base.wall => 0 <= w)
      BY <2>1 DEF Full, Wall
    <2>. HIDE DEF z, w
    <2>. QED
      BY <2>1, <2>2, <2>3 DEF X, Z
  <1>2. CASE base.kind = "plate"
    <2>1. CadQueryBase(base) = Solid({WholeBox(base)}, {})
      BY <1>1, <1>2, SamePlacement DEF CadQueryBase
    <2>2. OpenScadBase(base) = Solid({WholeBox(base)}, {})
      BY <1>1, <1>2, <2>1 DEF OpenScadBase, WholeBox
    <2>3. Build123dBase(base) = CadQueryBase(base) /\ FreeCadBase(base) = OpenScadBase(base)
      BY <1>2 DEF Build123dBase, FreeCadBase
    <2>4. BaseBy(b, base) = Solid({WholeBox(base)}, {})
      BY <2>1, <2>2, <2>3 DEF BaseBy, Backends
    <2>. QED
      BY <1>2, <2>4
  <1>3. CASE base.kind = "cylinder"
    <2>1. CadQueryBase(base) = Solid({RoundBody(base)}, {})
      BY <1>1, <1>3, SamePlacement DEF CadQueryBase, RoundBody
    <2>2. OpenScadBase(base) = Solid({RoundBody(base)}, {})
      BY <1>1, <1>3, <2>1 DEF OpenScadBase
    <2>3. Build123dBase(base) = CadQueryBase(base) /\ FreeCadBase(base) = OpenScadBase(base)
      BY <1>3 DEF Build123dBase, FreeCadBase
    <2>4. BaseBy(b, base) = Solid({RoundBody(base)}, {})
      BY <2>1, <2>2, <2>3 DEF BaseBy, Backends
    <2>. QED
      BY <1>3, <2>4
  <1>4. CASE base.kind = "l_bracket"
    <2>1. CadQueryBase(base) = Solid({LyingBox(base), RisingBox(base)}, {})
      BY <1>1, <1>4, SamePlacement DEF CadQueryBase
    <2>2. OpenScadBase(base) = Solid({LyingBox(base), RisingBox(base)}, {})
      BY <1>1, <1>4, <2>1 DEF OpenScadBase, LyingBox, RisingBox
    <2>3. Build123dBase(base) = CadQueryBase(base) /\ FreeCadBase(base) = OpenScadBase(base)
      BY <1>4 DEF Build123dBase, FreeCadBase
    <2>4. BaseBy(b, base) = Solid({LyingBox(base), RisingBox(base)}, {})
      BY <2>1, <2>2, <2>3 DEF BaseBy, Backends
    <2>. QED
      BY <1>4, <2>4
  <1>5. CASE base.kind = "ring"
    <2>1. CadQueryBase(base) = Solid({RoundBody(base)}, {Core(base)})
      BY <1>1, <1>5 DEF CadQueryBase, RoundBody, Core
    <2>2. CadQueryBase(base).add = {RoundBody(base)}
      BY <2>1 DEF Solid
    <2>3. /\ OpenScadBase(base) = Solid({RoundBody(base)}, {Bore(base)})
          /\ Build123dBase(base) = Solid({RoundBody(base)}, {Bore(base)})
          /\ FreeCadBase(base) = OpenScadBase(base)
      BY <1>5, <2>2 DEF OpenScadBase, Build123dBase, FreeCadBase
    <2>4. \E s \in {Core(base), Bore(base)} : BaseBy(b, base) = Solid({RoundBody(base)}, {s})
      BY <2>1, <2>3 DEF BaseBy, Backends
    <2>. QED
      BY <1>5, <2>4
  <1>6. CASE base.kind = "enclosure"
    <2>0. h1 \in Int /\ z <= h1 + w /\ z <= z + w
      BY <1>1, <1>6 DEF Tenth
    <2>1. CadQueryBase(base) = Solid({WholeBox(base)}, {Pocket(base, h1)})
      BY <1>1, <1>6, SamePlacement DEF CadQueryBase
    <2>2. OpenScadBase(base) = Solid({WholeBox(base)}, {Pocket(base, z)})
      BY <1>1, <1>6 DEF OpenScadBase, WholeBox, Pocket, Z
    <2>3. Build123dBase(base) = CadQueryBase(base)
      BY <1>6 DEF Build123dBase
    <2>4. FreeCadBase(base) = Solid({WholeBox(base)}, {Pocket(base, h1)})
      BY <1>1, <1>6 DEF FreeCadBase, WholeBox, Pocket, Z
    <2>5. \E h \in {h1, z} : BaseBy(b, base) = Solid({WholeBox(base)}, {Pocket(base, h)})
      BY <2>1, <2>2, <2>3, <2>4 DEF BaseBy, Backends
    <2>. HIDE DEF h1
    <2>6. \A h \in {h1, z} : h \in Int /\ Full(base.size[3]) <= h + Wall(base)
      BY <1>1, <2>0
    <2>. QED
      BY <1>6, <2>5, <2>6
  <1>. QED
    BY <1>2, <1>3, <1>4, <1>5, <1>6 DEF Flat


(* A cylinder that stands on the axis of a part.                           *)
LEMMA InUpright ==
  ASSUME NEW p \in Place, NEW c \in Int, NEW length \in Int, NEW diameter \in Int
  PROVE  In(p, Cylinder(<<0, 0, c>>, Z, 1, length, diameter)) <=>
           /\ c <= p[3] /\ p[3] <= c + length
           /\ 4 * Distance2(<<p[1], p[2]>>, <<0, 0>>) <= Square(diameter)
  <1>. DEFINE at == <<0, 0, c>>
              t == 1 * (p[3] - c)
  <1>1. p[1] \in Int /\ p[2] \in Int /\ p[3] \in Int
    BY PlaceOf
  <1>2. FromAxis2(p, at, Z) = Distance2(<<p[1], p[2]>>, <<0, 0>>)
    <2>1. PlaneAxes(Z) = <<1, 2>> /\ at[1] = 0 /\ at[2] = 0
      BY DEF PlaneAxes, X, Y, Z
    <2>. HIDE DEF at
    <2>. QED
      BY <2>1 DEF FromAxis2
  <1>3. In(p, Cylinder(at, Z, 1, length, diameter)) <=>
           /\ 0 <= t /\ t <= length
           /\ 4 * FromAxis2(p, at, Z) <= Square(diameter - 0 * t)
    BY InCone DEF Cylinder, Z
  <1>4. (0 <= t <=> c <= p[3]) /\ (t <= length <=> p[3] <= c + length) /\ diameter - 0 * t = diameter
    BY <1>1
  <1>. QED
    BY <1>2, <1>3, <1>4

(* A disk is within the square around it.                                  *)
LEMMA DiskInSquare ==
  ASSUME NEW a \in Int, NEW b \in Int, NEW h \in Int, 0 <= h,
         4 * Distance2(<<a, b>>, <<0, 0>>) <= Square(2 * h)
  PROVE  -h <= a /\ a <= h /\ -h <= b /\ b <= h
  <1>1. 4 * (a * a + b * b) <= 4 * (h * h)
    <2>1. Distance2(<<a, b>>, <<0, 0>>) = a * a + b * b
      BY DEF Distance2, Square
    <2>2. Square(2 * h) = 4 * (h * h)
      BY DEF Square
    <2>. QED
      BY <2>1, <2>2
  <1>2. \A u \in Int : 0 <= u * u
    <2>1. ASSUME NEW u \in Int PROVE 0 <= u * u
      <3>1. CASE 0 <= u
        BY <3>1, Products
      <3>2. CASE u <= 0
        <4>1. 0 * (-u) <= (-u) * (-u)
          BY <3>2, Products
        <4>. QED
          BY <4>1
      <3>. QED
        BY <3>1, <3>2
    <2>. QED
      BY <2>1
  <1>3. ASSUME NEW u \in Int, u * u <= h * h PROVE -h <= u /\ u <= h
    <2>1. ~(h < u)
      BY <1>3, LargerSquare
    <2>2. ~(h < -u)
      <3>1. (-u) * (-u) = u * u
        OBVIOUS
      <3>2. h < -u => h * h < (-u) * (-u)
        BY LargerSquare
      <3>. QED
        BY <1>3, <3>1, <3>2
    <2>. QED
      BY <2>1, <2>2
  <1>4. a * a <= h * h /\ b * b <= h * h
    <2>. DEFINE aa == a * a
                bb == b * b
                hh == h * h
    <2>1. aa \in Int /\ bb \in Int /\ hh \in Int /\ 0 <= aa /\ 0 <= bb
      BY <1>2
    <2>2. 4 * (aa + bb) <= 4 * hh
      BY <1>1
    <2>. HIDE DEF aa, bb, hh
    <2>3. aa <= hh /\ bb <= hh
      BY <2>1, <2>2
    <2>. QED
      BY <2>3 DEF aa, bb, hh
  <1>. QED
    BY <1>3, <1>4

(* A point in what is made for a flat base is in the base.                 *)
LEMMA FlatIsMade ==
  ASSUME NEW base \in BaseFeature, BaseFits(base), base.kind \in Flat, NEW b \in Backends,
         NEW p \in Place,
         base.kind = "enclosure" =>
           /\ p[Z] # Wall(base)
           /\ \A k \in {X, Y} : Abs(p[k]) # Half(base.size[k]) - Wall(base)
  PROVE  Remains(p, BaseBy(b, base)) <=> InBase(p, base)
  <1>. DEFINE x == base.size[1]
              y == base.size[2]
              z == base.size[3]
              w == base.wall
              i == base.inner
              within == /\ -Half(x) <= p[1] /\ p[1] <= Half(x)
                        /\ -Half(y) <= p[2] /\ p[2] <= Half(y)
                        /\ 0 <= p[3] /\ p[3] <= Full(z)
              d2 == 4 * Distance2(<<p[1], p[2]>>, <<0, 0>>)
  <1>1. /\ x \in Int /\ y \in Int /\ z \in Int /\ w \in Int /\ i \in Int
        /\ 0 < x /\ 0 < y /\ 0 < z
    BY FlatExtents
  <1>2. p[1] \in Int /\ p[2] \in Int /\ p[3] \in Int /\ p = <<p[1], p[2], p[3]>>
    BY PlaceOf
  <1>3. InBase(p, base) <=>
           /\ within
           /\ base.kind \in {"cylinder", "ring"} => d2 <= Square(Full(x))
           /\ base.kind = "ring" => d2 > Square(Full(i))
           /\ base.kind = "l_bracket" => p[3] <= Full(w) \/ p[2] <= Full(w) - Half(y)
           /\ base.kind = "enclosure" =>
                \/ p[3] <= Full(w)
                \/ Abs(p[1]) >= Half(x) - Full(w)
                \/ Abs(p[2]) >= Half(y) - Full(w)
    <2>. DEFINE a == p[1]
                b2 == p[2]
                c == p[3]
    <2>1. p = <<a, b2, c>> /\ a \in Int /\ b2 \in Int /\ c \in Int
      BY <1>2
    <2>. HIDE DEF a, b2, c
    <2>2. InBase(<<a, b2, c>>, base) <=>
           /\ -Half(x) <= a /\ a <= Half(x)
           /\ -Half(y) <= b2 /\ b2 <= Half(y)
           /\ 0 <= c /\ c <= Full(z)
           /\ base.kind \in {"cylinder", "ring"} =>
                4 * Distance2(<<a, b2>>, <<0, 0>>) <= Square(Full(x))
           /\ base.kind = "ring" =>
                4 * Distance2(<<a, b2>>, <<0, 0>>) > Square(Full(i))
           /\ base.kind = "l_bracket" =>
                c <= Full(w) \/ b2 <= Full(w) - Half(y)
           /\ base.kind = "enclosure" =>
                \/ c <= Full(w)
                \/ Abs(a) >= Half(x) - Full(w)
                \/ Abs(b2) >= Half(y) - Full(w)
      BY <2>1, FlatInBase DEF Wall
    <2>. QED
      BY <2>1, <2>2 DEF a, b2, c
  <1>4. \A inset, s : Corner(base, inset, s) = <<inset - Half(x), inset - Half(y), s>>
    BY DEF Corner, X, Y
  <1>5. Sizes(base) = <<Full(x), Full(y), Full(z)>>
    <2>1. Sizes(base) = [k \in 1 .. 3 |-> Full(base.size[k])]
      BY DEF Sizes
    <2>2. \A k \in 1 .. 3 : k = 1 \/ k = 2 \/ k = 3
      OBVIOUS
    <2>. QED
      BY <2>1, <2>2
  <1>6. Half(x) \in Int /\ Half(y) \in Int /\ Full(x) = 2 * Half(x) /\ Full(y) = 2 * Half(y)
        /\ Full(z) \in Int /\ Full(w) \in Int
    BY <1>1 DEF Full, Half
  <1>7. In(p, WholeBox(base)) <=> within
    <2>1. In(p, WholeBox(base)) <=>
           /\ 0 - Half(x) <= p[1] /\ p[1] <= (0 - Half(x)) + Full(x)
           /\ 0 - Half(y) <= p[2] /\ p[2] <= (0 - Half(y)) + Full(y)
           /\ 0 <= p[3] /\ p[3] <= 0 + Full(z)
      BY <1>4, <1>5, InBox DEF WholeBox
    <2>. QED
      BY <1>2, <1>6, <2>1
  <1>8. \A v \in Int : \A c, length \in Int :
          In(p, Cylinder(<<0, 0, c>>, Z, 1, length, v)) <=>
            /\ c <= p[3] /\ p[3] <= c + length
            /\ d2 <= Square(v)
    BY InUpright
  <1>9. base.kind \in {"cylinder", "ring"} =>
          (In(p, RoundBody(base)) <=> within /\ d2 <= Square(Full(x)))
    <2>1. In(p, RoundBody(base)) <=>
            /\ 0 <= p[3] /\ p[3] <= 0 + Full(z)
            /\ d2 <= Square(Full(x))
      BY <1>1, <1>6, <1>8 DEF RoundBody, Origin
    <2>2. base.kind \in {"cylinder", "ring"} => x = y
      BY DEF BaseFits, X, Y
    <2>3. ASSUME d2 <= Square(Full(x)), x = y
          PROVE  /\ -Half(x) <= p[1] /\ p[1] <= Half(x)
                 /\ -Half(y) <= p[2] /\ p[2] <= Half(y)
      <3>1. 0 <= Half(x)
        BY <1>1 DEF Half
      <3>. QED
        BY <1>2, <1>6, <2>3, <3>1, DiskInSquare
    <2>. HIDE DEF d2
    <2>. QED
      BY <1>2, <1>6, <2>1, <2>2, <2>3
  <1>. DEFINE made == BaseBy(b, base)
  <1>10. \A A, S : Solid(A, S).add = A /\ Solid(A, S).sub = S
    BY DEF Solid
  <1>11. CASE base.kind = "plate"
    <2>1. made = Solid({WholeBox(base)}, {})
      BY <1>11, FlatBodies
    <2>2. Remains(p, made) <=> In(p, WholeBox(base))
      BY <1>10, <2>1 DEF Remains
    <2>. QED
      BY <1>3, <1>7, <1>11, <2>2
  <1>12. CASE base.kind = "cylinder"
    <2>1. made = Solid({RoundBody(base)}, {})
      BY <1>12, FlatBodies
    <2>2. Remains(p, made) <=> In(p, RoundBody(base))
      BY <1>10, <2>1 DEF Remains
    <2>. QED
      BY <1>3, <1>9, <1>12, <2>2
  <1>13. CASE base.kind = "ring"
    <2>1. PICK s \in {Core(base), Bore(base)} : made = Solid({RoundBody(base)}, {s})
      BY <1>13, FlatBodies
    <2>2. Remains(p, made) <=> In(p, RoundBody(base)) /\ ~In(p, s)
      BY <1>10, <2>1 DEF Remains
    <2>3. Full(i) \in Int
      BY <1>1 DEF Full
    <2>4. In(p, Core(base)) <=> /\ 0 <= p[3] /\ p[3] <= 0 + Full(z)
                                /\ d2 <= Square(Full(i))
      BY <1>6, <1>8, <2>3 DEF Core, Origin
    <2>5. In(p, Bore(base)) <=> /\ -Mm <= p[3] /\ p[3] <= -Mm + (Full(z) + 2 * Mm)
                                /\ d2 <= Square(Full(i))
      BY <1>6, <1>8, <2>3 DEF Bore, Mm, Z
    <2>6. within => (In(p, s) <=> d2 <= Square(Full(i)))
      <3>. DEFINE thin == d2 <= Square(Full(i))
      <3>. HIDE DEF thin, d2
      <3>. QED
        BY <1>2, <1>6, <2>1, <2>4, <2>5 DEF Mm, thin
    <2>7. d2 \in Int /\ Square(Full(i)) \in Int
      BY <1>2, <2>3 DEF Distance2, Square
    <2>8. (d2 > Square(Full(i))) <=> ~(d2 <= Square(Full(i)))
      <3>. HIDE DEF d2
      <3>. QED
        BY <2>7
    <2>. HIDE DEF d2, within
    <2>. QED
      BY <1>3, <1>9, <1>13, <2>2, <2>6, <2>8
  <1>14. CASE base.kind = "l_bracket"
    <2>1. made = Solid({LyingBox(base), RisingBox(base)}, {})
      BY <1>14, FlatBodies
    <2>2. Remains(p, made) <=> In(p, LyingBox(base)) \/ In(p, RisingBox(base))
      BY <1>10, <2>1 DEF Remains
    <2>3. 0 < w /\ w < y /\ w < z - w
      BY <1>14 DEF BaseFits, Y, Z
    <2>4. 0 < Full(w) /\ Full(w) < Full(y) /\ Full(w) < Full(z)
      BY <1>1, <2>3 DEF Full
    <2>5. In(p, LyingBox(base)) <=>
           /\ 0 - Half(x) <= p[1] /\ p[1] <= (0 - Half(x)) + Full(x)
           /\ 0 - Half(y) <= p[2] /\ p[2] <= (0 - Half(y)) + Full(y)
           /\ 0 <= p[3] /\ p[3] <= 0 + Full(w)
      BY <1>4, InBox DEF LyingBox, PlateSize, Wall, X, Y
    <2>6. In(p, RisingBox(base)) <=>
           /\ 0 - Half(x) <= p[1] /\ p[1] <= (0 - Half(x)) + Full(x)
           /\ 0 - Half(y) <= p[2] /\ p[2] <= (0 - Half(y)) + Full(w)
           /\ Full(w) <= p[3] /\ p[3] <= Full(w) + (Full(z) - Full(w))
      BY <1>4, InBox DEF RisingBox, UprightSize, Wall, X, Y, Z
    <2>7. In(p, LyingBox(base)) \/ In(p, RisingBox(base)) <=>
            within /\ (p[3] <= Full(w) \/ p[2] <= Full(w) - Half(y))
      BY <1>2, <1>6, <2>4, <2>5, <2>6
    <2>. HIDE DEF within
    <2>. QED
      BY <1>3, <1>14, <2>2, <2>7
  <1>15. CASE base.kind = "enclosure"
    <2>1. PICK h \in Int : Full(z) <= h + Full(w) /\ made = Solid({WholeBox(base)}, {Pocket(base, h)})
      BY <1>15, FlatBodies DEF Wall
    <2>2. Remains(p, made) <=> In(p, WholeBox(base)) /\ ~In(p, Pocket(base, h))
      BY <1>10, <2>1 DEF Remains
    <2>3. /\ p[3] # Full(w)
          /\ Abs(p[1]) # Half(x) - Full(w) /\ Abs(p[2]) # Half(y) - Full(w)
      BY <1>15 DEF X, Y, Z, Wall
    <2>4. In(p, Pocket(base, h)) <=>
           /\ Full(w) - Half(x) <= p[1] /\ p[1] <= (Full(w) - Half(x)) + (Full(x) - 2 * Full(w))
           /\ Full(w) - Half(y) <= p[2] /\ p[2] <= (Full(w) - Half(y)) + (Full(y) - 2 * Full(w))
           /\ Full(w) <= p[3] /\ p[3] <= Full(w) + h
      BY <1>4, InBox DEF Pocket, InnerSize, Wall, X, Y
    <2>5. \A u, v \in Int : Abs(u) # v => (Abs(u) >= v <=> ~(-v <= u /\ u <= v))
      BY DEF Abs
    <2>6. /\ Abs(p[1]) >= Half(x) - Full(w) <=>
                ~(Full(w) - Half(x) <= p[1] /\ p[1] <= Half(x) - Full(w))
          /\ Abs(p[2]) >= Half(y) - Full(w) <=>
                ~(Full(w) - Half(y) <= p[2] /\ p[2] <= Half(y) - Full(w))
      <3>1. Half(x) - Full(w) \in Int /\ Half(y) - Full(w) \in Int
              /\ -(Half(x) - Full(w)) = Full(w) - Half(x)
              /\ -(Half(y) - Full(w)) = Full(w) - Half(y)
        BY <1>6
      <3>. QED
        BY <1>2, <2>3, <2>5, <3>1
    <2>7. within => (~In(p, Pocket(base, h)) <=>
                       \/ p[3] <= Full(w)
                       \/ Abs(p[1]) >= Half(x) - Full(w)
                       \/ Abs(p[2]) >= Half(y) - Full(w))
      BY <1>2, <1>6, <2>1, <2>3, <2>4, <2>6
    <2>. HIDE DEF within
    <2>. QED
      BY <1>3, <1>7, <1>15, <2>2, <2>7
  <1>. QED
    BY <1>11, <1>12, <1>13, <1>14, <1>15 DEF Flat

Scaling(corners) == [i \in DOMAIN corners |-> <<Full(corners[i][1]), Full(corners[i][2])>>]
Path(l) == Scaling(<<Start(l)>> \o Stops(l))

(* The corners of a path are those of its loop, and the first of them once *)
(* more at the end.                                                        *)
LEMMA PathOf ==
  ASSUME NEW l \in Seq(Segment), l # <<>>, Closed(l)
  PROVE  /\ Polygon(Path(l)) \in Seq(Segment) /\ Len(Polygon(Path(l))) = Len(l) + 1
         /\ \A i \in 1 .. Len(l) : Polygon(Path(l))[i] = FullSize(l)[i]
         /\ Polygon(Path(l))[Len(l) + 1].start = FullSize(l)[1].start
         /\ Polygon(Path(l))[Len(l) + 1].end = FullSize(l)[1].start
  <1>. DEFINE n == Len(l)
              full(q) == <<Full(q[1]), Full(q[2])>>
              c == <<Start(l)>> \o Stops(l)
              d == Path(l)
              F == FullSize(l)
              P == Polygon(d)
  <1>1. /\ n \in Nat /\ 1 <= n /\ DOMAIN l = 1 .. n
        /\ \A i \in 1 .. n : l[i] \in Segment /\ l[i].start \in Point /\ l[i].end \in Point
    BY SegmentEnds
  <1>2. Stops(l) \in Seq(Point) /\ Len(Stops(l)) = n /\ \A i \in 1 .. n : Stops(l)[i] = l[i].end
    <2>1. Stops(l) = [i \in 1 .. n |-> l[i].end]
      BY <1>1 DEF Stops
    <2>. QED
      BY <1>1, <2>1
  <1>3. /\ c \in Seq(Point) /\ Len(c) = n + 1 /\ DOMAIN c = 1 .. n + 1
        /\ c[1] = l[1].start /\ \A i \in 1 .. n : c[i + 1] = l[i].end
    <2>. DEFINE t == Stops(l)
    <2>1. Start(l) = l[1].start /\ Start(l) \in Point
      BY <1>1 DEF Start
    <2>2. t \in Seq(Point) /\ Len(t) = n /\ \A i \in 1 .. n : t[i] = l[i].end
      BY <1>2
    <2>. HIDE DEF t
    <2>3. /\ <<Start(l)>> \o t \in Seq(Point) /\ Len(<<Start(l)>> \o t) = 1 + n
          /\ (<<Start(l)>> \o t)[1] = Start(l)
          /\ \A i \in 1 .. n : (<<Start(l)>> \o t)[i + 1] = t[i]
      BY <1>1, <2>1, <2>2
    <2>. QED
      BY <1>1, <2>1, <2>2, <2>3 DEF t
  <1>4. d = [i \in 1 .. n + 1 |-> full(c[i])]
    BY <1>3 DEF Path, Scaling
  <1>5. \A i \in 1 .. n : c[i] = l[i].start
    <2>1. ASSUME NEW i \in 1 .. n, i # 1 PROVE c[i] = l[i].start
      <3>1. i - 1 \in 1 .. n /\ (i - 1) + 1 = i /\ i - 1 < n
        BY <1>1, <2>1
      <3>2. c[i] = l[i - 1].end
        BY <1>3, <3>1
      <3>3. (i - 1) % n = i - 1
        BY <1>1, <3>1
      <3>4. l[i - 1].end = l[((i - 1) % n) + 1].start
        BY <3>1 DEF Closed
      <3>. QED
        BY <3>1, <3>2, <3>3, <3>4
    <2>. QED
      BY <1>3, <2>1
  <1>6. c[n + 1] = l[1].start
    <2>1. n % n = 0 /\ n \in 1 .. n
      BY <1>1
    <2>2. l[n].end = l[(n % n) + 1].start
      BY <2>1 DEF Closed
    <2>. QED
      BY <1>3, <2>1, <2>2
  <1>7. F = [i \in 1 .. n |-> Line(full(l[i].start), full(l[i].end))]
    <2>1. \A q : [k \in 1 .. 2 |-> Full(q[k])] = full(q)
      <3>1. \A q : [k \in 1 .. 2 |-> Full(q[k])] = [k \in 1 .. 2 |-> IF k = 1 THEN Full(q[1]) ELSE Full(q[2])]
        <4>1. \A k \in 1 .. 2 : k = 1 \/ k = 2
          OBVIOUS
        <4>. QED
          BY <4>1
      <3>. QED
        BY <3>1
    <2>. HIDE DEF full
    <2>. QED
      BY <1>1, <2>1 DEF FullSize
  <1>8. \A q \in Point : full(q) \in Point
    BY DEF Point, Full
  <1>9. P = [i \in 1 .. n + 1 |-> Line(d[i], d[(i % (n + 1)) + 1])]
    <2>1. Len(d) = n + 1 /\ DOMAIN d = 1 .. n + 1
      BY <1>1, <1>4
    <2>. HIDE DEF d
    <2>. QED
      BY <2>1 DEF Polygon
  <1>. HIDE DEF c, d, full, F, n
  <1>10. \A i \in 1 .. n + 1 : d[i] \in Point
    BY <1>1, <1>3, <1>4, <1>8
  <1>11. ASSUME NEW i \in 1 .. n PROVE P[i] = F[i]
    <2>1. i % (n + 1) = i /\ i \in 1 .. n + 1 /\ i + 1 \in 1 .. n + 1
      BY <1>1
    <2>2. P[i] = Line(d[i], d[i + 1])
      BY <1>9, <2>1
    <2>3. d[i] = full(l[i].start) /\ d[i + 1] = full(l[i].end)
      BY <1>3, <1>4, <1>5, <2>1
    <2>. QED
      BY <1>7, <2>2, <2>3
  <1>12. P[n + 1] = Line(d[1], d[1])
    <2>1. (n + 1) % (n + 1) = 0 /\ n + 1 \in 1 .. n + 1 /\ 1 \in 1 .. n + 1
      BY <1>1
    <2>2. P[n + 1] = Line(d[n + 1], d[1])
      BY <1>9, <2>1
    <2>3. d[n + 1] = full(l[1].start) /\ d[1] = full(l[1].start)
      BY <1>3, <1>4, <1>6, <2>1
    <2>. QED
      BY <2>2, <2>3
  <1>13. F[1].start = d[1]
    <2>1. 1 \in 1 .. n /\ 1 \in 1 .. n + 1
      BY <1>1
    <2>. QED
      BY <1>3, <1>4, <1>7, <2>1 DEF Line
  <1>14. P \in Seq(Segment) /\ Len(P) = n + 1
    <2>1. ASSUME NEW i \in 1 .. n + 1 PROVE Line(d[i], d[(i % (n + 1)) + 1]) \in Segment
      <3>1. (i % (n + 1)) + 1 \in 1 .. n + 1
        BY <1>1
      <3>. QED
        BY <1>10, <3>1 DEF Line, Segment
    <2>. QED
      BY <1>1, <1>9, <2>1
  <1>. HIDE DEF P
  <1>. QED
    BY <1>11, <1>12, <1>13, <1>14 DEF P, F, n, d, Line

(* An edge more that is a point, and on the loop already.                  *)
LEMMA SameLoop ==
  ASSUME NEW l \in Seq(Segment), Len(l) > 1, Closed(l), NEW q \in Point
  PROVE  InLoop(q, Polygon(Path(l))) <=> InLoop(q, FullSize(l))
  <1>. DEFINE n == Len(l)
              F == FullSize(l)
              P == Polygon(Path(l))
  <1>1. n \in Nat /\ n > 1 /\ l # <<>>
    OBVIOUS
  <1>2. F \in Seq(Segment) /\ Len(F) = n /\ F # <<>> /\ Closed(F)
    BY <1>1, Scaled
  <1>3. /\ P \in Seq(Segment) /\ Len(P) = n + 1
        /\ \A i \in 1 .. n : P[i] = F[i]
        /\ P[n + 1].start = F[1].start /\ P[n + 1].end = F[1].start
    BY <1>1, PathOf
  <1>. HIDE DEF n, F, P
  <1>4. Closed(P)
    <2>1. ASSUME NEW i \in 1 .. n + 1 PROVE P[i].end = P[(i % (n + 1)) + 1].start
      <3>1. CASE i < n
        <4>1. i % (n + 1) = i /\ i % n = i /\ i \in 1 .. n /\ i + 1 \in 1 .. n
          BY <1>1, <3>1
        <4>2. F[i].end = F[(i % n) + 1].start
          BY <1>2, <4>1 DEF Closed
        <4>. QED
          BY <1>3, <4>1, <4>2
      <3>2. CASE i = n
        <4>1. n % (n + 1) = n /\ n % n = 0 /\ n \in 1 .. n
          BY <1>1
        <4>2. F[n].end = F[(n % n) + 1].start
          BY <1>2, <4>1 DEF Closed
        <4>3. (n % n) + 1 = 1
          BY <4>1
        <4>. QED
          BY <1>3, <3>2, <4>1, <4>2, <4>3
      <3>3. CASE i = n + 1
        <4>1. (n + 1) % (n + 1) = 0 /\ 1 \in 1 .. n
          BY <1>1
        <4>2. P[1] = F[1]
          BY <1>3, <4>1
        <4>. QED
          BY <1>3, <3>3, <4>1, <4>2
      <3>. QED
        BY <1>1, <3>1, <3>2, <3>3
    <2>. QED
      BY <1>3, <2>1 DEF Closed
  <1>5. Boundary(F) = F /\ Boundary(P) = P
    <2>1. P # <<>>
      BY <1>1, <1>3
    <2>. QED
      BY <1>2, <1>3, <1>4, <2>1, ClosedBoundary
  <1>6. DOMAIN F = 1 .. n /\ DOMAIN P = 1 .. n + 1
    BY <1>2, <1>3
  <1>. DEFINE z == P[n + 1]
  <1>7. z \in Segment /\ F[1] \in Segment /\ 1 \in 1 .. n /\ n + 1 \in 1 .. n + 1
    BY <1>1, <1>2, <1>3, <1>6
  <1>8. OnSegment(q, z) => OnSegment(q, F[1])
    <2>1. ASSUME OnSegment(q, z) PROVE q = F[1].start
      <3>. DEFINE s == F[1].start
      <3>1. s \in Point /\ z.start = s /\ z.end = s
        BY <1>3, <1>7, SegmentEnds
      <3>. HIDE DEF s, z
      <3>2. \A k \in 1 .. 2 : Min({s[k], s[k]}) <= q[k] /\ q[k] <= Max({s[k], s[k]})
        BY <2>1, <3>1 DEF OnSegment
      <3>3. s[1] \in Int /\ s[2] \in Int /\ q[1] \in Int /\ q[2] \in Int
            /\ s = <<s[1], s[2]>> /\ q = <<q[1], q[2]>>
        BY <3>1 DEF Point
      <3>4. \A a \in Int : Min({a, a}) = a /\ Max({a, a}) = a
        BY PairExtremes
      <3>5. q[1] = s[1] /\ q[2] = s[2]
        BY <3>2, <3>3, <3>4
      <3>. QED
        BY <3>3, <3>5 DEF s
    <2>. QED
      BY <1>7, <2>1, StartsOnSegment
  <1>9. ~RayCrosses(q, z)
    BY <1>3 DEF RayCrosses
  <1>. HIDE DEF z
  <1>10. (\E i \in 1 .. n + 1 : OnSegment(q, P[i])) <=> \E i \in 1 .. n : OnSegment(q, F[i])
    <2>1. \A i \in 1 .. n + 1 : i \in 1 .. n \/ i = n + 1
      BY <1>1
    <2>2. \A i \in 1 .. n : i \in 1 .. n + 1
      BY <1>1
    <2>. QED
      BY <1>3, <1>7, <1>8, <2>1, <2>2 DEF z
  <1>11. {i \in 1 .. n + 1 : RayCrosses(q, P[i])} = {i \in 1 .. n : RayCrosses(q, F[i])}
    <2>1. \A i \in 1 .. n + 1 : i \in 1 .. n \/ i = n + 1
      BY <1>1
    <2>2. \A i \in 1 .. n : i \in 1 .. n + 1
      BY <1>1
    <2>. QED
      BY <1>3, <1>9, <2>1, <2>2 DEF z
  <1>12. n > 1 /\ n + 1 > 1
    BY <1>1
  <1>. QED
    BY <1>2, <1>3, <1>5, <1>6, <1>10, <1>11, <1>12 DEF InLoop, F, P

(* What is made of a profile is the profile.                               *)
LEMMA ProfileIsMade ==
  ASSUME NEW base \in BaseFeature, BaseFits(base), base.kind \in Profiled,
         ProfileErrors(base) = {}, NEW b \in Backends, NEW p \in Place
  PROVE  Remains(p, BaseBy(b, base)) <=> InBase(p, base)
  <1>. DEFINE l == base.outer
  <1>1. l \in Seq(Segment) /\ Len(l) > 1 /\ Closed(l)
    BY SoundOutline
  <1>2. p[1] \in Int /\ p[2] \in Int /\ p[3] \in Int /\ p = <<p[1], p[2], p[3]>>
    BY PlaceOf
  <1>3. BaseBy(b, base) = CadQueryBase(base)
    BY DEF BaseBy, Backends, Build123dBase, FreeCadBase, OpenScadBase, Profiled
  <1>4. \A A, S : Solid(A, S).add = A /\ Solid(A, S).sub = S
    BY DEF Solid
  <1>5. CASE base.kind = "profile_extrusion"
    <2>. DEFINE body == Extruded(Path(l), Sizes(base)[Z])
    <2>1. CadQueryBase(base) = Solid({body}, {})
      BY <1>5 DEF CadQueryBase, Path, Scaling
    <2>2. Remains(p, BaseBy(b, base)) <=> In(p, body)
      BY <1>3, <1>4, <2>1 DEF Remains
    <2>3. In(p, body) <=> /\ 0 <= p[Z] /\ p[Z] <= Sizes(base)[Z]
                          /\ InLoop(<<p[X], p[Y]>>, Polygon(Path(l)))
      <3>1. /\ body.shape = "prism" /\ body.corners = Path(l) /\ body.length = Sizes(base)[Z]
        BY DEF Extruded
      <3>. HIDE DEF body
      <3>. QED
        BY <3>1 DEF In
    <2>4. InLoop(<<p[X], p[Y]>>, Polygon(Path(l))) <=> InLoop(<<p[X], p[Y]>>, FullSize(l))
      <3>1. <<p[X], p[Y]>> \in Point
        BY <1>2 DEF Point, X, Y
      <3>. QED
        BY <1>1, <3>1, SameLoop
    <2>5. InBase(p, base) <=> /\ 0 <= p[Z] /\ p[Z] <= Sizes(base)[Z]
                              /\ InLoop(<<p[X], p[Y]>>, FullSize(l))
      BY <1>5 DEF InBase
    <2>. QED
      BY <2>2, <2>3, <2>4, <2>5
  <1>6. CASE base.kind = "profile_revolution"
    <2>. DEFINE body == Revolved(Path(l))
    <2>1. CadQueryBase(base) = Solid({body}, {})
      BY <1>6 DEF CadQueryBase, Path, Scaling
    <2>2. Remains(p, BaseBy(b, base)) <=> In(p, body)
      BY <1>3, <1>4, <2>1 DEF Remains
    <2>3. In(p, body) <=> InLoop(<<Radius(p), p[Z]>>, Polygon(Path(l)))
      <3>1. /\ body.shape = "turned" /\ body.corners = Path(l)
        BY DEF Revolved
      <3>. HIDE DEF body
      <3>. QED
        BY <3>1 DEF In
    <2>4. InLoop(<<Radius(p), p[Z]>>, Polygon(Path(l))) <=> InLoop(<<Radius(p), p[Z]>>, FullSize(l))
      <3>1. Radius(p) \in Int
        BY <1>2, RadiusIs
      <3>2. <<Radius(p), p[Z]>> \in Point
        BY <1>2, <3>1 DEF Point, Z
      <3>. QED
        BY <1>1, <3>2, SameLoop
    <2>5. InBase(p, base) <=> InLoop(<<Radius(p), p[Z]>>, FullSize(l))
      BY <1>6 DEF InBase
    <2>. QED
      BY <2>2, <2>3, <2>4, <2>5
  <1>. QED
    BY <1>5, <1>6 DEF Profiled

----------------------------------------------------------------------------
(* What they cut for a hole or a cutout.                                   *)

(* Nothing of a part that is not turned is beyond its faces.               *)
LEMMA WithinFaces ==
  ASSUME NEW base \in BaseFeature, BaseFits(base), base.kind # "profile_revolution",
         base.kind \in Profiled => ProfileErrors(base) = {},
         NEW p \in Place, InBase(p, base)
  PROVE  LET e == Extents(base) IN
         \A k \in 1 .. 3 : /\ e[k] \in Int /\ NegativeFace(e, k) \in Int
                           /\ NegativeFace(e, k) <= p[k] /\ p[k] <= e[k]
  <1>. DEFINE e == Extents(base)
  <1>0. \A k \in 1 .. 3 : k = 1 \/ k = 2 \/ k = 3
    OBVIOUS
  <1>1. p[1] \in Int /\ p[2] \in Int /\ p[3] \in Int /\ p = <<p[1], p[2], p[3]>>
    BY PlaceOf
  <1>2. SUFFICES /\ e[1] \in Int /\ e[2] \in Int /\ e[3] \in Int
                 /\ -e[1] <= p[1] /\ p[1] <= e[1]
                 /\ -e[2] <= p[2] /\ p[2] <= e[2]
                 /\ 0 <= p[3] /\ p[3] <= e[3]
    <2>1. /\ NegativeFace(e, 1) = -e[1] /\ NegativeFace(e, 2) = -e[2] /\ NegativeFace(e, 3) = 0
      BY DEF NegativeFace, Z
    <2>2. ASSUME NEW k \in 1 .. 3
          PROVE  /\ e[k] \in Int /\ NegativeFace(e, k) \in Int
                 /\ NegativeFace(e, k) <= p[k] /\ p[k] <= e[k]
      <3>. HIDE DEF e
      <3>1. CASE k = 1
        BY <1>2, <2>1, <3>1
      <3>2. CASE k = 2
        BY <1>2, <2>1, <3>2
      <3>3. CASE k = 3
        BY <1>2, <2>1, <3>3
      <3>. QED
        BY <1>0, <3>1, <3>2, <3>3
    <2>. QED
      BY <2>2
  <1>3. CASE base.kind \in Flat
    <2>. DEFINE x == base.size[1]
                y == base.size[2]
                z == base.size[3]
    <2>1. e = <<Half(x), Half(y), Full(z)>> /\ x \in Int /\ y \in Int /\ z \in Int
      BY <1>3, FlatExtents
    <2>2. Half(x) \in Int /\ Half(y) \in Int /\ Full(z) \in Int
      BY <2>1 DEF Half, Full
    <2>3. /\ -Half(x) <= p[1] /\ p[1] <= Half(x)
          /\ -Half(y) <= p[2] /\ p[2] <= Half(y)
          /\ 0 <= p[3] /\ p[3] <= Full(z)
      <3>. DEFINE a == p[1]
                  b == p[2]
                  c == p[3]
      <3>1. a \in Int /\ b \in Int /\ c \in Int /\ InBase(<<a, b, c>>, base)
        BY <1>1
      <3>. HIDE DEF a, b, c
      <3>2. /\ -Half(x) <= a /\ a <= Half(x)
            /\ -Half(y) <= b /\ b <= Half(y)
            /\ 0 <= c /\ c <= Full(z)
        BY <1>3, <3>1, FlatInBase
      <3>. QED
        BY <3>2 DEF a, b, c
    <2>. HIDE DEF e, x, y, z
    <2>. QED
      BY <2>1, <2>2, <2>3
  <1>4. CASE base.kind = "profile_extrusion"
    <2>. DEFINE l == base.outer
                m(i) == Max({Abs(v) : v \in Sides(l, i)})
                q == <<p[1], p[2]>>
    <2>1. l \in Seq(Segment) /\ l # <<>> /\ Len(l) > 1 /\ Closed(l)
      BY <1>4, SoundOutline DEF Profiled
    <2>2. Xs(l) = Sides(l, 1) /\ Ys(l) = Sides(l, 2)
      BY DEF Xs, Ys, Sides
    <2>3. e = <<Full(m(1)), Full(m(2)), Full(base.size[3])>>
      BY <1>4, <2>2 DEF Extents, Z
    <2>4. base.size[3] \in Int /\ Sizes(base)[3] = Full(base.size[3])
      <3>1. base.size[3] \in Int
        BY DEF BaseFeature
      <3>2. Sizes(base)[3] = Full(base.size[3])
        BY DEF Sizes
      <3>. QED
        BY <3>1, <3>2
    <2>5. 0 <= p[3] /\ p[3] <= Full(base.size[3]) /\ InLoop(q, FullSize(l))
      BY <1>4, <2>4 DEF InBase, X, Y, Z
    <2>6. q \in Point /\ q[1] = p[1] /\ q[2] = p[2]
      BY <1>1 DEF Point
    <2>. HIDE DEF q, l
    <2>7. ASSUME NEW i \in 1 .. 2
          PROVE  m(i) \in Int /\ -Full(m(i)) <= q[i] /\ q[i] <= Full(m(i))
      <3>. DEFINE S == Sides(l, i)
                  lo == Min(S)
                  hi == Max(S)
      <3>1. S \in SUBSET Int /\ IsFiniteSet(S) /\ S # {} /\ lo \in S /\ hi \in S
        BY <2>1, SidesOf
      <3>2. Full(lo) <= q[i] /\ q[i] <= Full(hi)
        BY <2>1, <2>5, <2>6, ScaledBox
      <3>3. q[i] \in Int
        BY <2>6 DEF Point
      <3>. HIDE DEF S, lo, hi
      <3>4. m(i) \in Int /\ Abs(lo) <= m(i) /\ Abs(hi) <= m(i)
        BY <3>1, LargestSize DEF S
      <3>. HIDE DEF m
      <3>5. lo \in Int /\ hi \in Int
        BY <3>1
      <3>6. -m(i) <= lo /\ hi <= m(i)
        BY <3>4, <3>5 DEF Abs
      <3>. QED
        BY <3>2, <3>3, <3>4, <3>5, <3>6 DEF Full
    <2>8. /\ m(1) \in Int /\ -Full(m(1)) <= q[1] /\ q[1] <= Full(m(1))
          /\ m(2) \in Int /\ -Full(m(2)) <= q[2] /\ q[2] <= Full(m(2))
      BY <2>7
    <2>. HIDE DEF m, e
    <2>9. e[1] = Full(m(1)) /\ e[2] = Full(m(2)) /\ e[3] = Full(base.size[3])
      BY <2>3
    <2>10. Full(m(1)) \in Int /\ Full(m(2)) \in Int /\ Full(base.size[3]) \in Int
      BY <2>4, <2>8 DEF Full
    <2>. QED
      BY <2>5, <2>6, <2>8, <2>9, <2>10
  <1>. QED
    BY <1>3, <1>4 DEF Flat, Profiled, BaseFeature

(* What a hole must be for its cutters to make it.                         *)
Cuttable(h) ==
  /\ h \in HoleFeature
  /\ h.type = "blind" => 0 < h.depth
  /\ h.type = "counterbore" => 0 < h.depth /\ 0 < h.head
  /\ h.type = "countersink" => h.depth = 0 /\ 0 < h.head
  /\ 0 <= h.depth /\ (0 < h.head => 0 < h.diameter)

(* The numbers of a hole that can be cut.                                  *)
LEMMA HoleIntegers ==
  ASSUME NEW h, Cuttable(h)
  PROVE  /\ h.at \in Place /\ h.axis \in 1 .. 3
         /\ h.diameter \in Int /\ h.depth \in Int /\ h.head \in Int
         /\ h.type \in {"through", "blind", "counterbore", "countersink"}
  <1>1. h \in HoleFeature
    BY DEF Cuttable
  <1>2. /\ h.at \in Int \X Int \X Int /\ h.axis \in {X, Y, Z}
        /\ h.diameter \in Int /\ h.depth \in Int /\ h.head \in Int
        /\ h.type \in {"through", "blind", "counterbore", "countersink"}
    BY <1>1 DEF HoleFeature
  <1>. QED
    BY <1>2 DEF Place, X, Y, Z

(* The distance from the line of a hole, wherever on the line it begins.   *)
LEMMA FromLine ==
  ASSUME NEW h, Cuttable(h), NEW p \in Place, NEW c
  PROVE  /\ FromAxis2(p, HoleAt(h, h.axis, c), h.axis) = FromAxis2(p, HoleAt(h, h.axis, 0), h.axis)
         /\ FromAxis2(p, HoleAt(h, h.axis, 0), h.axis) \in Int
         /\ HoleAt(h, h.axis, c)[h.axis] = c
  <1>1. h.axis \in 1 .. 3
    BY HoleIntegers
  <1>2. ASSUME NEW k \in 1 .. 3
        PROVE  HoleAt(h, h.axis, c)[k] = IF k = h.axis THEN c ELSE Full(h.at[k])
    BY DEF HoleAt
  <1>3. ASSUME NEW k \in 1 .. 3
        PROVE  HoleAt(h, h.axis, 0)[k] = IF k = h.axis THEN 0 ELSE Full(h.at[k])
    BY DEF HoleAt
  <1>4. \A i \in 1 .. 2 : PlaneAxes(h.axis)[i] \in 1 .. 3 /\ PlaneAxes(h.axis)[i] # h.axis
    <2>1. h.axis = 1 \/ h.axis = 2 \/ h.axis = 3
      BY <1>1
    <2>2. /\ PlaneAxes(1) = <<2, 3>> /\ PlaneAxes(2) = <<1, 3>> /\ PlaneAxes(3) = <<1, 2>>
      BY DEF PlaneAxes, X, Y, Z
    <2>3. \A i \in 1 .. 2 : i = 1 \/ i = 2
      OBVIOUS
    <2>. QED
      BY <2>1, <2>2, <2>3
  <1>. DEFINE u == PlaneAxes(h.axis)[1]
              v == PlaneAxes(h.axis)[2]
  <1>5. u \in 1 .. 3 /\ v \in 1 .. 3 /\ u # h.axis /\ v # h.axis
    BY <1>4
  <1>. HIDE DEF u, v
  <1>6. /\ HoleAt(h, h.axis, c)[u] = Full(h.at[u]) /\ HoleAt(h, h.axis, c)[v] = Full(h.at[v])
        /\ HoleAt(h, h.axis, 0)[u] = Full(h.at[u]) /\ HoleAt(h, h.axis, 0)[v] = Full(h.at[v])
    BY <1>2, <1>3, <1>5
  <1>7. \A s : FromAxis2(p, s, h.axis) = Distance2(<<p[u], p[v]>>, <<s[u], s[v]>>)
    BY DEF FromAxis2, u, v
  <1>8. Distance2(<<p[u], p[v]>>, <<Full(h.at[u]), Full(h.at[v])>>) \in Int
    <2>1. \A k \in 1 .. 3 : p[k] \in Int /\ h.at[k] \in Int
      <3>1. h.at \in Place
        BY HoleIntegers
      <3>2. \A k \in 1 .. 3 : k = 1 \/ k = 2 \/ k = 3
        OBVIOUS
      <3>. QED
        BY <3>1, <3>2, PlaceOf
    <2>2. p[u] \in Int /\ p[v] \in Int /\ Full(h.at[u]) \in Int /\ Full(h.at[v]) \in Int
      BY <1>5, <2>1 DEF Full
    <2>. QED
      BY <2>2 DEF Distance2, Square
  <1>9. HoleAt(h, h.axis, c)[h.axis] = c
    BY <1>1, <1>2
  <1>. QED
    BY <1>6, <1>7, <1>8, <1>9

(* A cutter that goes from the positive face of an axis against it.        *)
LEMMA InFromFace ==
  ASSUME NEW h, Cuttable(h), NEW p \in Place, NEW e, e[h.axis] \in Int, NEW outside \in Int,
         NEW length, NEW diameter, NEW taper
  PROVE  In(p, FromFace(h, e, outside, length, diameter, taper)) <=>
           LET t == (e[h.axis] - p[h.axis]) + outside IN
           /\ 0 <= t /\ t <= length
           /\ 4 * FromAxis2(p, HoleAt(h, h.axis, 0), h.axis) <= Square(diameter - taper * t)
  <1>. DEFINE top == e[h.axis]
              c == top + outside
              q == p[h.axis]
              t == (top - q) + outside
              s == (-1) * (q - c)
              far == FromAxis2(p, HoleAt(h, h.axis, 0), h.axis)
  <1>1. h.axis \in 1 .. 3 /\ q \in Int /\ top \in Int
    <2>1. h.axis = 1 \/ h.axis = 2 \/ h.axis = 3
      BY HoleIntegers
    <2>. QED
      BY <2>1, PlaceOf
  <1>2. /\ FromAxis2(p, HoleAt(h, h.axis, c), h.axis) = far
        /\ HoleAt(h, h.axis, c)[h.axis] = c
    BY FromLine
  <1>3. In(p, FromFace(h, e, outside, length, diameter, taper)) <=>
           /\ 0 <= s /\ s <= length
           /\ 4 * far <= Square(diameter - taper * s)
    <2>. DEFINE at == HoleAt(h, h.axis, c)
    <2>1. FromFace(h, e, outside, length, diameter, taper) =
            Cone(at, h.axis, -1, length, diameter, taper)
      BY DEF FromFace
    <2>2. at[h.axis] = c /\ FromAxis2(p, at, h.axis) = far
      BY <1>2
    <2>. HIDE DEF at, c, far
    <2>3. In(p, Cone(at, h.axis, -1, length, diameter, taper)) <=>
            /\ 0 <= (-1) * (q - at[h.axis]) /\ (-1) * (q - at[h.axis]) <= length
            /\ 4 * FromAxis2(p, at, h.axis) <=
                 Square(diameter - taper * ((-1) * (q - at[h.axis])))
      BY InCone
    <2>. QED
      BY <2>1, <2>2, <2>3
  <1>4. s = t
    <2>. HIDE DEF top, q
    <2>. QED
      BY <1>1
  <1>. QED
    BY <1>3, <1>4

(* The cutters of a hole, one by one.                                      *)
LEMMA Cutters ==
  ASSUME NEW h, Cuttable(h), NEW p \in Place, NEW base, NEW e, e = Extents(base),
         e[h.axis] \in Int, NegativeFace(e, h.axis) \in Int,
         NegativeFace(e, h.axis) <= p[h.axis], p[h.axis] <= e[h.axis],
         h.depth > 0 => Below(p, h, base) - Full(h.depth) \notin 1 .. Tenth
  PROVE  /\ In(p, MainCutter(h, e)) <=>
              /\ Near(p, h, h.diameter)
              /\ h.type = "blind" => Below(p, h, base) <= Full(h.depth)
         /\ h.depth > 0 =>
              (In(p, Counterbore(h, e)) <=>
                 Near(p, h, h.head) /\ Below(p, h, base) <= Full(h.depth))
         /\ In(p, Countersink(h, e)) <=>
              /\ Below(p, h, base) <= Half(h.head - h.diameter)
              /\ 4 * FromAxis2(p, HoleAt(h, h.axis, 0), h.axis) <=
                   Square(Full(h.head) - 2 * Below(p, h, base))
  <1>. DEFINE top == e[h.axis]
              low == NegativeFace(e, h.axis)
              q == p[h.axis]
              below == top - q
              far == FromAxis2(p, HoleAt(h, h.axis, 0), h.axis)
  <1>1. /\ h.axis \in 1 .. 3 /\ q \in Int /\ top \in Int /\ low \in Int
        /\ low <= q /\ q <= top
    <2>1. h.axis = 1 \/ h.axis = 2 \/ h.axis = 3
      BY HoleIntegers
    <2>. QED
      BY <2>1, PlaceOf
  <1>2. Below(p, h, base) = below /\ below \in Int /\ 0 <= below
    <2>1. Below(p, h, base) = below
      BY DEF Below
    <2>. HIDE DEF top, q
    <2>. QED
      BY <1>1, <2>1
  <1>3. /\ h.diameter \in Int /\ h.depth \in Int /\ h.head \in Int
        /\ Full(h.depth) \in Int /\ Full(h.diameter) \in Int /\ Full(h.head) \in Int
    BY HoleIntegers DEF Full
  <1>4. \A d : Near(p, h, d) <=> 4 * far <= Square(Full(d))
    BY DEF Near
  <1>5. ASSUME h.depth > 0
        PROVE  below + Tenth <= Full(h.depth) + 2 * Tenth <=> below <= Full(h.depth)
    <2>1. below - Full(h.depth) \notin 1 .. Tenth
      BY <1>2, <1>5
    <2>. HIDE DEF below
    <2>. QED
      BY <1>2, <1>3, <2>1 DEF Tenth
  <1>6. \A d \in Int : \A t \in Int : d - 0 * t = d
    OBVIOUS
  <1>7. ASSUME NEW d \in Int, h.depth > 0
        PROVE  In(p, FromFace(h, e, Tenth, Full(h.depth) + 2 * Tenth, d, 0)) <=>
                 4 * far <= Square(d) /\ below <= Full(h.depth)
    <2>1. In(p, FromFace(h, e, Tenth, Full(h.depth) + 2 * Tenth, d, 0)) <=>
            /\ 0 <= below + Tenth /\ below + Tenth <= Full(h.depth) + 2 * Tenth
            /\ 4 * far <= Square(d - 0 * (below + Tenth))
      BY InFromFace DEF Tenth
    <2>2. below + Tenth \in Int /\ 0 <= below + Tenth
      BY <1>2 DEF Tenth
    <2>3. d - 0 * (below + Tenth) = d
      BY <1>6, <2>2
    <2>. HIDE DEF below, far
    <2>. QED
      BY <1>5, <1>7, <2>1, <2>2, <2>3
  <1>8. In(p, MainCutter(h, e)) <=>
          /\ Near(p, h, h.diameter)
          /\ h.type = "blind" => Below(p, h, base) <= Full(h.depth)
    <2>1. CASE h.type = "blind"
      <3>1. h.depth > 0
        BY <1>3, <2>1 DEF Cuttable
      <3>2. MainCutter(h, e) = FromFace(h, e, Tenth, Full(h.depth) + 2 * Tenth, Full(h.diameter), 0)
        BY <2>1 DEF MainCutter
      <3>. QED
        BY <1>2, <1>3, <1>4, <1>7, <2>1, <3>1, <3>2
    <2>2. CASE h.type # "blind"
      <3>. DEFINE c == low - Mm
                  length == top - low + 2 * Mm
                  t == 1 * (q - c)
      <3>1. MainCutter(h, e) = Cone(HoleAt(h, h.axis, c), h.axis, 1, length, Full(h.diameter), 0)
        BY <2>2 DEF MainCutter, Cylinder
      <3>2. /\ FromAxis2(p, HoleAt(h, h.axis, c), h.axis) = far
            /\ HoleAt(h, h.axis, c)[h.axis] = c
        BY FromLine
      <3>3. In(p, MainCutter(h, e)) <=>
              /\ 0 <= t /\ t <= length
              /\ 4 * far <= Square(Full(h.diameter) - 0 * t)
        BY <3>1, <3>2, InCone
      <3>4. 0 <= t /\ t <= length /\ t \in Int
        <4>. HIDE DEF low, top, q
        <4>. QED
          BY <1>1 DEF Mm
      <3>5. Full(h.diameter) - 0 * t = Full(h.diameter)
        BY <1>3, <1>6, <3>4
      <3>. QED
        BY <1>4, <2>2, <3>3, <3>4, <3>5
    <2>. QED
      BY <2>1, <2>2
  <1>9. ASSUME h.depth > 0
        PROVE  In(p, Counterbore(h, e)) <=>
                 Near(p, h, h.head) /\ Below(p, h, base) <= Full(h.depth)
    BY <1>2, <1>3, <1>4, <1>7, <1>9 DEF Counterbore
  <1>10. In(p, Countersink(h, e)) <=>
           /\ Below(p, h, base) <= Half(h.head - h.diameter)
           /\ 4 * far <= Square(Full(h.head) - 2 * Below(p, h, base))
    <2>1. In(p, Countersink(h, e)) <=>
            /\ 0 <= below + 0 /\ below + 0 <= Half(h.head - h.diameter)
            /\ 4 * far <= Square(Full(h.head) - 2 * (below + 0))
      BY InFromFace DEF Countersink
    <2>2. below + 0 = below
      BY <1>2
    <2>. QED
      BY <1>2, <2>1, <2>2
  <1>. QED
    BY <1>8, <1>9, <1>10

(* Where a cone is as wide as the hole, the hole goes on.                  *)
LEMMA ConeAndHole ==
  ASSUME NEW far \in Int, NEW below \in Int, 0 <= below, NEW head \in Int, NEW diameter \in Int,
         0 < diameter
  PROVE  LET d == Full(head) - 2 * below IN
         \/ 4 * far <= Square(Full(diameter))
         \/ below <= Half(head - diameter) /\ 4 * far <= Square(d)
         <=>
         \/ 4 * far <= Square(Full(diameter))
         \/ d > 0 /\ 4 * far <= Square(d)
  <1>. DEFINE d == Full(head) - 2 * below
              f == Full(diameter)
  <1>1. d \in Int /\ f \in Int /\ 0 < f /\ (below <= Half(head - diameter) <=> d >= f)
    BY DEF Full, Half
  <1>2. ASSUME d > 0, d < f PROVE Square(d) < Square(f)
    BY <1>1, <1>2, LargerSquare DEF Square
  <1>3. Square(d) \in Int /\ Square(f) \in Int
    BY <1>1 DEF Square
  <1>. HIDE DEF d, f
  <1>4. \/ 4 * far <= Square(f)
        \/ below <= Half(head - diameter) /\ 4 * far <= Square(d)
        <=>
        \/ 4 * far <= Square(f)
        \/ d > 0 /\ 4 * far <= Square(d)
    <2>1. ASSUME below <= Half(head - diameter) PROVE d > 0
      BY <1>1, <2>1
    <2>2. ASSUME d > 0, 4 * far <= Square(d), ~(below <= Half(head - diameter))
          PROVE  4 * far <= Square(f)
      <3>1. d < f
        BY <1>1, <2>2
      <3>2. Square(d) < Square(f)
        BY <1>2, <2>2, <3>1
      <3>. DEFINE a == Square(d)
                  b == Square(f)
      <3>3. a \in Int /\ b \in Int /\ a < b /\ 4 * far <= a
        BY <1>3, <2>2, <3>2
      <3>. HIDE DEF a, b
      <3>4. 4 * far <= b
        BY <3>3
      <3>. QED
        BY <3>4 DEF b
    <2>. QED
      BY <2>1, <2>2
  <1>. QED
    BY <1>4 DEF d, f

(* What is cut for a hole where its type is asked for, and where it is not. *)
CutByType(p, h, e) ==
  \/ In(p, MainCutter(h, e))
  \/ h.type = "counterbore" /\ In(p, Counterbore(h, e))
  \/ h.type = "countersink" /\ In(p, Countersink(h, e))

CutByHead(p, h, e) ==
  \/ In(p, MainCutter(h, e))
  \/ HasCounterbore(h) /\ In(p, Counterbore(h, e))
  \/ HasCountersink(h) /\ In(p, Countersink(h, e))

(* A hole is cut as it is meant; where nobody asks for its type, a head is *)
(* cut that is not.                                                        *)
LEMMA HoleIsCut ==
  ASSUME NEW h, Cuttable(h), NEW p \in Place, NEW base, NEW e, e = Extents(base),
         e[h.axis] \in Int, NegativeFace(e, h.axis) \in Int,
         NegativeFace(e, h.axis) <= p[h.axis], p[h.axis] <= e[h.axis],
         h.depth > 0 => Below(p, h, base) - Full(h.depth) \notin 1 .. Tenth
  PROVE  /\ CutByType(p, h, e) <=> InHole(p, h, base)
         /\ CutByHead(p, h, e) <=>
              InHole(p, h, base) \/ (HasStrayHead(h) /\ InHead(p, h, base))
  <1>. DEFINE below == Below(p, h, base)
              far == FromAxis2(p, HoleAt(h, h.axis, 0), h.axis)
              d == Full(h.head) - 2 * below
              main == In(p, MainCutter(h, e))
              bore == In(p, Counterbore(h, e))
              sink == In(p, Countersink(h, e))
              near == Near(p, h, h.diameter)
              head == InHead(p, h, base)
              short == below <= Full(h.depth)
              coned == below <= Half(h.head - h.diameter) /\ 4 * far <= Square(d)
  <1>1. /\ h.diameter \in Int /\ h.depth \in Int /\ h.head \in Int
        /\ h.type \in {"through", "blind", "counterbore", "countersink"}
        /\ far \in Int
    BY HoleIntegers, FromLine
  <1>2. below \in Int /\ 0 <= below
    <2>1. p[h.axis] \in Int
      <3>1. h.axis = 1 \/ h.axis = 2 \/ h.axis = 3
        BY HoleIntegers
      <3>. QED
        BY <3>1, PlaceOf
    <2>. QED
      BY <2>1 DEF Below
  <1>3. /\ main <=> near /\ (h.type = "blind" => short)
        /\ h.depth > 0 => (bore <=> Near(p, h, h.head) /\ short)
        /\ sink <=> coned
    BY Cutters
  <1>4. h.depth > 0 => (head <=> Near(p, h, h.head) /\ short)
    BY DEF InHead
  <1>5. ~(h.depth > 0) => (head <=> d > 0 /\ 4 * far <= Square(d))
    BY DEF InHead
  <1>6. near <=> 4 * far <= Square(Full(h.diameter))
    BY DEF Near
  <1>7. 0 < h.diameter => (near \/ coned <=> near \/ (d > 0 /\ 4 * far <= Square(d)))
    <2>. HIDE DEF far, below, near
    <2>. QED
      BY <1>1, <1>2, <1>6, ConeAndHole
  <1>8. InHole(p, h, base) <=>
          \/ near /\ (h.type = "blind" => short)
          \/ h.type \in {"counterbore", "countersink"} /\ head
    BY DEF InHole
  <1>9. /\ h.type = "blind" => h.depth > 0
        /\ h.type = "counterbore" => h.depth > 0 /\ h.head > 0
        /\ h.type = "countersink" => h.depth = 0 /\ h.head > 0
        /\ h.depth = 0 \/ h.depth > 0
        /\ h.head > 0 => 0 < h.diameter
    BY <1>1 DEF Cuttable
  <1>10. /\ HasCounterbore(h) <=> h.head > 0 /\ h.depth > 0
         /\ HasCountersink(h) <=> h.head > 0 /\ h.depth = 0
         /\ HasStrayHead(h) <=> h.type \in {"through", "blind"} /\ h.head > 0
    BY DEF HasCounterbore, HasCountersink, HasStrayHead
  <1>11. h.depth > 0 => ~(h.depth = 0)
    BY <1>1
  <1>. HIDE DEF far, d, near, main, bore, sink, head, short, coned
  <1>12. h.depth > 0 => (bore <=> head)
    BY <1>3, <1>4
  <1>13. h.depth = 0 /\ h.head > 0 => (near \/ sink <=> near \/ head)
    BY <1>1, <1>3, <1>5, <1>7, <1>9, <1>11
  <1>14. CutByType(p, h, e) <=>
           \/ main \/ (h.type = "counterbore" /\ bore) \/ (h.type = "countersink" /\ sink)
    BY DEF CutByType, main, bore, sink
  <1>15. CutByHead(p, h, e) <=>
           \/ main \/ (HasCounterbore(h) /\ bore) \/ (HasCountersink(h) /\ sink)
    BY DEF CutByHead, main, bore, sink
  <1>16. CASE h.type = "through"
    BY <1>3, <1>8, <1>9, <1>10, <1>11, <1>12, <1>13, <1>14, <1>15, <1>16 DEF head
  <1>17. CASE h.type = "blind"
    BY <1>3, <1>8, <1>9, <1>10, <1>11, <1>12, <1>14, <1>15, <1>17 DEF head
  <1>18. CASE h.type = "counterbore"
    BY <1>3, <1>8, <1>9, <1>10, <1>11, <1>12, <1>14, <1>15, <1>18 DEF head
  <1>19. CASE h.type = "countersink"
    BY <1>3, <1>8, <1>9, <1>10, <1>11, <1>13, <1>14, <1>15, <1>19 DEF head
  <1>. QED
    BY <1>1, <1>16, <1>17, <1>18, <1>19

(* The cutters of all holes, of a document.                                *)
LEMMA HolesAreCut ==
  ASSUME NEW doc, NEW p
  PROVE  LET e == Extents(doc.base) IN
         /\ (\A s \in HolesByType(doc) : ~In(p, s)) <=>
              \A i \in DOMAIN doc.holes : ~CutByType(p, doc.holes[i], e)
         /\ (\A s \in OpenScadHoles(doc) : ~In(p, s)) <=>
              \A i \in DOMAIN doc.holes : ~CutByHead(p, doc.holes[i], e)
  <1>. DEFINE e == Extents(doc.base)
              all == {doc.holes[i] : i \in DOMAIN doc.holes}
              A == {MainCutter(h, e) : h \in all}
              B == {Counterbore(h, e) : h \in {g \in all : g.type = "counterbore"}}
              C == {Countersink(h, e) : h \in {g \in all : g.type = "countersink"}}
              D == {Counterbore(h, e) : h \in {g \in all : HasCounterbore(g)}}
              E == {Countersink(h, e) : h \in {g \in all : HasCountersink(g)}}
  <1>1. HolesByType(doc) = A \cup B \cup C /\ OpenScadHoles(doc) = A \cup D \cup E
    BY DEF HolesByType, OpenScadHoles
  <1>2. (\A s \in HolesByType(doc) : ~In(p, s)) <=>
          \A h \in all : ~CutByType(p, h, e)
    <2>1. (\A s \in HolesByType(doc) : ~In(p, s)) <=>
            /\ \A s \in A : ~In(p, s)
            /\ \A s \in B : ~In(p, s)
            /\ \A s \in C : ~In(p, s)
      BY <1>1
    <2>2. (\A s \in A : ~In(p, s)) <=> \A h \in all : ~In(p, MainCutter(h, e))
      OBVIOUS
    <2>3. (\A s \in B : ~In(p, s)) <=>
            \A h \in all : h.type = "counterbore" => ~In(p, Counterbore(h, e))
      OBVIOUS
    <2>4. (\A s \in C : ~In(p, s)) <=>
            \A h \in all : h.type = "countersink" => ~In(p, Countersink(h, e))
      OBVIOUS
    <2>. QED
      BY <2>1, <2>2, <2>3, <2>4 DEF CutByType
  <1>3. (\A s \in OpenScadHoles(doc) : ~In(p, s)) <=>
          \A h \in all : ~CutByHead(p, h, e)
    <2>1. (\A s \in OpenScadHoles(doc) : ~In(p, s)) <=>
            /\ \A s \in A : ~In(p, s)
            /\ \A s \in D : ~In(p, s)
            /\ \A s \in E : ~In(p, s)
      BY <1>1
    <2>2. (\A s \in A : ~In(p, s)) <=> \A h \in all : ~In(p, MainCutter(h, e))
      OBVIOUS
    <2>3. (\A s \in D : ~In(p, s)) <=>
            \A h \in all : HasCounterbore(h) => ~In(p, Counterbore(h, e))
      OBVIOUS
    <2>4. (\A s \in E : ~In(p, s)) <=>
            \A h \in all : HasCountersink(h) => ~In(p, Countersink(h, e))
      OBVIOUS
    <2>. QED
      BY <2>1, <2>2, <2>3, <2>4 DEF CutByHead
  <1>4. \A h : h \in all <=> \E i \in DOMAIN doc.holes : h = doc.holes[i]
    OBVIOUS
  <1>. HIDE DEF all
  <1>. QED
    BY <1>2, <1>3, <1>4

(* The cutter of a cutout: out of the wall by 0.2 mm on both sides.        *)
WallCutter(c, base) ==
  LET far == Extents(base)[c.face] + 2 * Tenth
      low == IF c.side = 1 THEN far - Wall(base) - 4 * Tenth ELSE -far
      along == Full(IF c.face = X THEN c.at[Y] ELSE c.at[X]) - Half(c.width)
  IN Box(OnFace(c, low, along, Full(c.at[Z]) - Half(c.height)),
         OnFace(c, Wall(base) + 4 * Tenth, Full(c.width), Full(c.height)))

(* By its centre or by its lowest corner, a cutter is the same.            *)
LEMMA SameCutter ==
  ASSUME NEW base \in BaseFeature, base.kind = "enclosure", NEW c \in CutoutFeature,
         NEW e, e = Extents(base)
  PROVE  /\ CenteredBox(CutterSize(c, base, e), CutoutCenter(c, base, e)) = WallCutter(c, base)
         /\ FreeCadCutout(c, base, e) = WallCutter(c, base)
         /\ OpenScadCutout(c, base, e) = WallCutter(c, base)
  <1>. DEFINE w == base.wall
              s == c.side
              m == IF c.face = X THEN c.at[Y] ELSE c.at[X]
              f == e[c.face]
              up == c.at[Z]
              wide == c.width
              high == c.height
              low == IF s = 1 THEN (f + 2 * Tenth) - Full(w) - 4 * Tenth ELSE -(f + 2 * Tenth)
              across == s * (f - (Full(w) \div 2))
              size == OnFace(c, Full(w) + 4 * Tenth, Full(wide), Full(high))
              corner == OnFace(c, low, Full(m) - Half(wide), Full(up) - Half(high))
              center == OnFace(c, across, Full(m), Full(up))
  <1>1. /\ w \in Int /\ s \in {1, -1} /\ m \in Int /\ up \in Int /\ wide \in Int /\ high \in Int
        /\ c.face \in {1, 2}
    <2>1. /\ c.face \in {X, Y} /\ c.side \in {1, -1} /\ c.at \in Int \X Int \X Int
          /\ c.width \in Int /\ c.height \in Int
      BY DEF CutoutFeature
    <2>2. c.at[1] \in Int /\ c.at[2] \in Int /\ c.at[3] \in Int
      BY <2>1
    <2>3. w \in Int
      BY DEF BaseFeature
    <2>. QED
      BY <2>1, <2>2, <2>3 DEF X, Y, Z
  <1>2. f \in Int
    <2>1. e = <<Half(base.size[1]), Half(base.size[2]), Full(base.size[3])>>
            /\ base.size[1] \in Int /\ base.size[2] \in Int
      <3>1. base.size \in Int \X Int \X Int
        BY DEF BaseFeature
      <3>2. base.size[1] \in Int /\ base.size[2] \in Int
        BY <3>1
      <3>. QED
        BY <3>2 DEF Extents, X, Y, Z
    <2>2. e[1] \in Int /\ e[2] \in Int
      BY <2>1 DEF Half
    <2>. HIDE DEF f
    <2>3. c.face = 1 \/ c.face = 2
      BY <1>1
    <2>. QED
      BY <2>2, <2>3 DEF f
  <1>3. WallCutter(c, base) = Box(corner, size)
    <2>. DEFINE far == Extents(base)[c.face] + 2 * Tenth
                l == IF c.side = 1 THEN far - Wall(base) - 4 * Tenth ELSE -far
                a == Full(IF c.face = X THEN c.at[Y] ELSE c.at[X]) - Half(c.width)
    <2>1. l = low /\ Full(w) = Wall(base) /\ a = Full(m) - Half(wide)
      BY DEF Wall
    <2>2. WallCutter(c, base) = Box(OnFace(c, l, a, Full(c.at[Z]) - Half(c.height)),
                                    OnFace(c, Wall(base) + 4 * Tenth, Full(c.width), Full(c.height)))
      BY DEF WallCutter
    <2>. HIDE DEF l, a, low, m
    <2>. QED
      BY <2>1, <2>2
  <1>4. CutterSize(c, base, e) = size /\ CutoutCenter(c, base, e) = center
    <2>1. CutoutDepth(c, base, e) = Full(w)
      BY DEF CutoutDepth, Wall
    <2>2. Full(m) = IF c.face = X THEN Full(c.at[Y]) ELSE Full(c.at[X])
      OBVIOUS
    <2>. QED
      BY <2>1, <2>2 DEF CutterSize, CutoutCenter
  <1>5. OpenScadCutout(c, base, e) = Box(corner, size)
    <2>1. CutoutDepth(c, base, e) = Full(w) /\ Full(w) \in Int
      BY <1>1 DEF CutoutDepth, Wall, Full
    <2>2. (IF s = 1 THEN f - CutoutDepth(c, base, e) - 2 * Tenth ELSE -f - 2 * Tenth) = low
      <3>. HIDE DEF f, s, w
      <3>. QED
        BY <1>2, <2>1 DEF Tenth
    <2>. QED
      BY <1>4, <2>2 DEF OpenScadCutout
  <1>6. [k \in 1 .. 3 |-> center[k] - (size[k] \div 2)] = corner
    <2>1. across - ((Full(w) + 4 * Tenth) \div 2) = low
      <3>. HIDE DEF f, s, w
      <3>1. s = 1 \/ s = -1
        BY <1>1
      <3>2. CASE s = 1
        BY <1>1, <1>2, <3>2 DEF Tenth, Full
      <3>3. CASE s = -1
        BY <1>1, <1>2, <3>3 DEF Tenth, Full
      <3>. QED
        BY <3>1, <3>2, <3>3
    <2>2. /\ Full(m) - (Full(wide) \div 2) = Full(m) - Half(wide)
          /\ Full(up) - (Full(high) \div 2) = Full(up) - Half(high)
      <3>. HIDE DEF m, up, wide, high
      <3>. QED
        BY <1>1 DEF Full, Half
    <2>. HIDE DEF across, low, m, w, up, wide, high
    <2>3. CASE c.face = X
      BY <2>1, <2>2, <2>3 DEF OnFace
    <2>4. CASE c.face # X
      BY <2>1, <2>2, <2>4 DEF OnFace
    <2>. QED
      BY <2>3, <2>4
  <1>. HIDE DEF center, size, corner
  <1>7. CenteredBox(size, center) = Box(corner, size)
    BY <1>6 DEF CenteredBox
  <1>8. FreeCadCutout(c, base, e) = Box(corner, size)
    BY <1>4, <1>6 DEF FreeCadCutout
  <1>. QED
    BY <1>3, <1>4, <1>5, <1>7, <1>8

(* What it takes out of a wall is the cutout.                              *)
LEMMA CutoutIsCut ==
  ASSUME NEW base \in BaseFeature, BaseFits(base), base.kind = "enclosure",
         NEW c \in CutoutFeature, NEW p \in Place, InBase(p, base),
         Extents(base)[c.face] - Wall(base) - c.side * p[c.face] \notin 1 .. 2 * Tenth
  PROVE  In(p, WallCutter(c, base)) <=> InCutout(p, c, base)
  <1>. DEFINE w == Wall(base)
              s == c.side
              along == IF c.face = X THEN Y ELSE X
              f == Extents(base)[c.face]
              q == p[c.face]
              u == p[along]
              v == p[3]
              m == Full(c.at[along])
              up == Full(c.at[3])
              wide == Half(c.width)
              high == Half(c.height)
              low == IF s = 1 THEN (f + 2 * Tenth) - w - 4 * Tenth ELSE -(f + 2 * Tenth)
  <1>1. /\ w \in Int /\ s \in {1, -1} /\ m \in Int /\ up \in Int /\ wide \in Int /\ high \in Int
        /\ c.face \in {1, 2} /\ Full(c.width) = 2 * wide /\ Full(c.height) = 2 * high
        /\ 0 <= w
    <2>1. /\ c.face \in {X, Y} /\ c.side \in {1, -1} /\ c.at \in Int \X Int \X Int
          /\ c.width \in Int /\ c.height \in Int
      BY DEF CutoutFeature
    <2>2. c.at[1] \in Int /\ c.at[2] \in Int /\ c.at[3] \in Int
      BY <2>1
    <2>3. base.wall \in Int /\ 0 < base.wall
      BY DEF BaseFeature, BaseFits
    <2>4. along \in {1, 2}
      BY DEF X, Y
    <2>5. m \in Int
      <3>. HIDE DEF along
      <3>1. along = 1 \/ along = 2
        BY <2>4
      <3>2. c.at[along] \in Int
        BY <2>2, <3>1
      <3>. QED
        BY <3>2 DEF Full
    <2>. QED
      BY <2>1, <2>2, <2>3, <2>5 DEF X, Y, Full, Half, Wall
  <1>2. /\ q \in Int /\ u \in Int /\ v \in Int /\ f \in Int
        /\ -f <= q /\ q <= f
    <2>1. LET e == Extents(base) IN
         \A k \in 1 .. 3 : /\ e[k] \in Int /\ NegativeFace(e, k) \in Int
                           /\ NegativeFace(e, k) <= p[k] /\ p[k] <= e[k]
      BY WithinFaces DEF Profiled
    <2>2. c.face \in 1 .. 3 /\ NegativeFace(Extents(base), c.face) = -f
      BY <1>1 DEF NegativeFace, Z
    <2>3. p[1] \in Int /\ p[2] \in Int /\ p[3] \in Int
      BY PlaceOf
    <2>4. along = 1 \/ along = 2
      BY DEF X, Y
    <2>5. u \in Int /\ q \in Int
      <3>. HIDE DEF along
      <3>1. c.face = 1 \/ c.face = 2
        BY <1>1
      <3>. QED
        BY <2>3, <2>4, <3>1
    <2>. QED
      BY <2>1, <2>2, <2>3, <2>5
  <1>3. WallCutter(c, base) = Box(OnFace(c, low, m - wide, up - high),
                                  OnFace(c, w + 4 * Tenth, Full(c.width), Full(c.height)))
    <2>1. m = Full(IF c.face = X THEN c.at[Y] ELSE c.at[X]) /\ up = Full(c.at[Z])
      BY DEF Z
    <2>. DEFINE far == Extents(base)[c.face] + 2 * Tenth
                l == IF c.side = 1 THEN far - Wall(base) - 4 * Tenth ELSE -far
                a == Full(IF c.face = X THEN c.at[Y] ELSE c.at[X])
    <2>2. l = low
      OBVIOUS
    <2>3. WallCutter(c, base) = Box(OnFace(c, l, a - Half(c.width), Full(c.at[Z]) - Half(c.height)),
                                    OnFace(c, Wall(base) + 4 * Tenth, Full(c.width), Full(c.height)))
      BY DEF WallCutter
    <2>. HIDE DEF l, a, low, m
    <2>4. m = a
      BY <2>1 DEF a
    <2>. QED
      BY <2>1, <2>2, <2>3, <2>4
  <1>4. InCutout(p, c, base) <=> /\ Abs(u - m) <= wide
                                 /\ Abs(v - up) <= high
                                 /\ s * q >= f - w
    BY DEF InCutout, Z
  <1>5. f - w - s * q \notin 1 .. 2 * Tenth
    OBVIOUS
  <1>6. In(p, WallCutter(c, base)) <=>
          /\ low <= q /\ q <= low + (w + 4 * Tenth)
          /\ m - wide <= u /\ u <= (m - wide) + Full(c.width)
          /\ up - high <= v /\ v <= (up - high) + Full(c.height)
    <2>1. CASE c.face = X
      <3>1. q = p[1] /\ u = p[2]
        BY <2>1 DEF X, Y
      <3>2. WallCutter(c, base) = Box(<<low, m - wide, up - high>>,
                                      <<w + 4 * Tenth, Full(c.width), Full(c.height)>>)
        BY <1>3, <2>1 DEF OnFace
      <3>. HIDE DEF low, m, wide, up, high, w, q, u, v
      <3>. QED
        BY <3>1, <3>2, InBox DEF v
    <2>2. CASE c.face # X
      <3>1. q = p[2] /\ u = p[1]
        BY <1>1, <2>2 DEF X, Y
      <3>2. WallCutter(c, base) = Box(<<m - wide, low, up - high>>,
                                      <<Full(c.width), w + 4 * Tenth, Full(c.height)>>)
        BY <1>3, <2>2 DEF OnFace
      <3>. HIDE DEF low, m, wide, up, high, w, q, u, v
      <3>. QED
        BY <3>1, <3>2, InBox DEF v
    <2>. QED
      BY <2>1, <2>2
  <1>7. s = 1 \/ s = -1
    BY <1>1
  <1>. HIDE DEF m, wide, up, high, w, q, u, v, f, s
  <1>8. low <= q /\ q <= low + (w + 4 * Tenth) <=> s * q >= f - w
    <2>1. CASE s = 1
      BY <1>1, <1>2, <1>5, <2>1 DEF Tenth
    <2>2. CASE s = -1
      BY <1>1, <1>2, <1>5, <2>2 DEF Tenth
    <2>. QED
      BY <1>7, <2>1, <2>2
  <1>9. \A a, b, r \in Int : Abs(a - b) <= r <=> b - r <= a /\ a <= (b - r) + 2 * r
    BY DEF Abs
  <1>10. /\ Abs(u - m) <= wide <=> m - wide <= u /\ u <= (m - wide) + 2 * wide
         /\ Abs(v - up) <= high <=> up - high <= v /\ v <= (up - high) + 2 * high
    BY <1>1, <1>2, <1>9
  <1>. HIDE DEF low
  <1>. QED
    BY <1>1, <1>4, <1>6, <1>8, <1>10

(* What a document must be for its sources to make it.                     *)
SoundPart(doc) ==
  /\ doc.base \in BaseFeature /\ BaseFits(doc.base)
  /\ doc.base.kind \in Profiled => ProfileErrors(doc.base) = {}
  /\ \A i \in DOMAIN doc.holes : Cuttable(doc.holes[i])
  /\ doc.cutouts \subseteq CutoutFeature
  /\ doc.cutouts # {} => doc.base.kind = "enclosure"
  /\ doc.base.kind = "profile_revolution" => DOMAIN doc.holes = {} /\ doc.cutouts = {}

HolesBy(b, doc) == IF b = "openscad" THEN OpenScadHoles(doc) ELSE HolesByType(doc)

CutoutsBy(b, doc) ==
  CASE b = "openscad" -> {OpenScadCutout(c, doc.base, Extents(doc.base)) : c \in doc.cutouts}
    [] b = "freecad"  -> {FreeCadCutout(c, doc.base, Extents(doc.base)) : c \in doc.cutouts}
    [] OTHER          -> CenteredCutouts(doc)

(* Every source is a base, what is cut for holes and what is for cutouts.  *)
LEMMA AssembledBy ==
  ASSUME NEW b \in Backends, NEW doc
  PROVE  SourceOf(b, doc) = Assembled(doc, BaseBy(b, doc.base), HolesBy(b, doc), CutoutsBy(b, doc))
  <1>. USE DEF SourceOf, BaseBy, HolesBy, CutoutsBy
  <1>1. CASE b = "cadquery"
    BY <1>1 DEF CadQuerySource
  <1>2. CASE b = "openscad"
    BY <1>2 DEF OpenScadSource
  <1>3. CASE b = "build123d"
    BY <1>3 DEF Build123dSource
  <1>4. CASE b = "freecad"
    BY <1>4 DEF FreeCadSource
  <1>. QED
    BY <1>1, <1>2, <1>3, <1>4 DEF Backends

StrayHeadAt(p, doc) ==
  \E i \in DOMAIN doc.holes : HasStrayHead(doc.holes[i]) /\ InHead(p, doc.holes[i], doc.base)

(* A source makes what its document means.                                 *)
LEMMA SourceMeans ==
  ASSUME NEW doc, SoundPart(doc), NEW b \in Backends, NEW p \in Place, Clear(p, doc)
  PROVE  /\ SourceOf(b, doc).edges = doc.edges
         /\ InSource(p, SourceOf(b, doc)) <=>
              Means(p, doc) /\ (b = "openscad" => ~StrayHeadAt(p, doc))
  <1>. DEFINE base == doc.base
              e == Extents(base)
              B == BaseBy(b, base)
              H == HolesBy(b, doc)
              C == CutoutsBy(b, doc)
              src == SourceOf(b, doc)
              I == DOMAIN doc.holes
  <1>1. /\ base \in BaseFeature /\ BaseFits(base)
        /\ base.kind \in Profiled => ProfileErrors(base) = {}
        /\ \A i \in I : Cuttable(doc.holes[i])
        /\ doc.cutouts \subseteq CutoutFeature
        /\ doc.cutouts # {} => base.kind = "enclosure"
        /\ base.kind = "profile_revolution" => I = {} /\ doc.cutouts = {}
    BY DEF SoundPart
  <1>2. /\ \A i \in I : doc.holes[i].depth > 0 =>
             Below(p, doc.holes[i], base) - Full(doc.holes[i].depth) \notin 1 .. Tenth
        /\ base.kind = "enclosure" =>
             /\ p[Z] # Wall(base)
             /\ \A k \in {X, Y} : Abs(p[k]) # Half(base.size[k]) - Wall(base)
             /\ \A c \in doc.cutouts :
                  Extents(base)[c.face] - Wall(base) - c.side * p[c.face] \notin 1 .. 2 * Tenth
    BY DEF Clear
  <1>3. /\ src.add = B.add /\ src.sub = B.sub \cup H \cup C /\ src.edges = doc.edges
    <2>1. src = Assembled(doc, B, H, C)
      BY AssembledBy
    <2>. HIDE DEF src, B, H, C
    <2>. QED
      BY <2>1 DEF Assembled
  <1>4. InSource(p, src) <=>
          /\ Remains(p, B)
          /\ \A s \in H : ~In(p, s)
          /\ \A s \in C : ~In(p, s)
    <2>. HIDE DEF src, B, H, C
    <2>. QED
      BY <1>3 DEF InSource, Remains
  <1>5. Remains(p, B) <=> InBase(p, base)
    <2>1. CASE base.kind \in Flat
      BY <1>1, <1>2, <2>1, FlatIsMade
    <2>2. CASE base.kind \in Profiled
      BY <1>1, <2>2, ProfileIsMade
    <2>3. base.kind \in Flat \cup Profiled
      BY <1>1 DEF BaseFeature, Flat
    <2>. QED
      BY <2>1, <2>2, <2>3
  <1>6. ASSUME InBase(p, base), NEW i \in I
        PROVE  /\ CutByType(p, doc.holes[i], e) <=> InHole(p, doc.holes[i], base)
               /\ CutByHead(p, doc.holes[i], e) <=>
                    \/ InHole(p, doc.holes[i], base)
                    \/ HasStrayHead(doc.holes[i]) /\ InHead(p, doc.holes[i], base)
    <2>. DEFINE h == doc.holes[i]
    <2>1. Cuttable(h) /\ base.kind # "profile_revolution"
      BY <1>1, <1>6
    <2>2. \A k \in 1 .. 3 : /\ e[k] \in Int /\ NegativeFace(e, k) \in Int
                            /\ NegativeFace(e, k) <= p[k] /\ p[k] <= e[k]
      BY <1>1, <1>6, <2>1, WithinFaces
    <2>3. h.axis \in 1 .. 3
      BY <2>1, HoleIntegers
    <2>4. h.depth > 0 => Below(p, h, base) - Full(h.depth) \notin 1 .. Tenth
      BY <1>2
    <2>. HIDE DEF h, base
    <2>. QED
      BY <2>1, <2>2, <2>3, <2>4, HoleIsCut DEF h
  <1>7. InBase(p, base) =>
          ((\A s \in H : ~In(p, s)) <=>
             /\ \A i \in I : ~InHole(p, doc.holes[i], base)
             /\ b = "openscad" => ~StrayHeadAt(p, doc))
    <2>1. (\A s \in H : ~In(p, s)) <=>
            \A i \in I : ~(IF b = "openscad" THEN CutByHead(p, doc.holes[i], e)
                                             ELSE CutByType(p, doc.holes[i], e))
      BY HolesAreCut DEF HolesBy
    <2>. HIDE DEF H, e
    <2>. QED
      BY <1>6, <2>1 DEF StrayHeadAt
  <1>8. InBase(p, base) =>
          ((\A s \in C : ~In(p, s)) <=> \A c \in doc.cutouts : ~InCutout(p, c, base))
    <2>1. CASE doc.cutouts = {}
      BY <2>1 DEF CutoutsBy, CenteredCutouts
    <2>2. CASE doc.cutouts # {}
      <3>1. base.kind = "enclosure"
        BY <1>1, <2>2
      <3>2. ASSUME NEW c \in doc.cutouts
            PROVE  /\ CenteredBox(CutterSize(c, base, e), CutoutCenter(c, base, e))
                        = WallCutter(c, base)
                   /\ FreeCadCutout(c, base, e) = WallCutter(c, base)
                   /\ OpenScadCutout(c, base, e) = WallCutter(c, base)
        <4>1. c \in CutoutFeature
          BY <1>1
        <4>. QED
          BY <1>1, <3>1, <4>1, SameCutter
      <3>3. C = {WallCutter(c, base) : c \in doc.cutouts}
        BY <3>2 DEF CutoutsBy, CenteredCutouts
      <3>4. ASSUME InBase(p, base), NEW c \in doc.cutouts
            PROVE  In(p, WallCutter(c, base)) <=> InCutout(p, c, base)
        <4>1. c \in CutoutFeature
          BY <1>1
        <4>2. Extents(base)[c.face] - Wall(base) - c.side * p[c.face] \notin 1 .. 2 * Tenth
          BY <1>2, <3>1
        <4>. QED
          BY <1>1, <3>1, <3>4, <4>1, <4>2, CutoutIsCut
      <3>. HIDE DEF C, base
      <3>. QED
        BY <3>3, <3>4
    <2>. QED
      BY <2>1, <2>2
  <1>9. Means(p, doc) <=>
          /\ InBase(p, base)
          /\ \A i \in I : ~InHole(p, doc.holes[i], base)
          /\ \A c \in doc.cutouts : ~InCutout(p, c, base)
    BY DEF Means
  <1>. HIDE DEF src, B, H, C, base
  <1>. QED
    BY <1>3, <1>4, <1>5, <1>7, <1>8, <1>9 DEF src

----------------------------------------------------------------------------
(* The points between the planes of a document.                            *)

Numbers(S) == S \subseteq Int /\ IsFiniteSet(S)

(* A few numbers, or those of two sets, are numbers.                       *)
LEMMA FewNumbers ==
  /\ Numbers({})
  /\ \A S, T : Numbers(S) /\ Numbers(T) => Numbers(S \cup T)
  /\ \A S, T : Numbers(S) /\ T \subseteq S => Numbers(T)
  /\ \A a \in Int : Numbers({a})
  /\ \A a, b \in Int : Numbers({a, b})
  /\ \A a, b, c \in Int : Numbers({a, b, c})
  <1>1. Numbers({})
    BY FS_EmptySet DEF Numbers
  <1>2. \A S, T : Numbers(S) /\ Numbers(T) => Numbers(S \cup T)
    BY FS_Union DEF Numbers
  <1>3. \A S, T : Numbers(S) /\ T \subseteq S => Numbers(T)
    BY FS_Subset DEF Numbers
  <1>4. \A a \in Int : Numbers({a})
    BY FS_Singleton DEF Numbers
  <1>5. \A a, b \in Int : Numbers({a, b})
    <2>1. ASSUME NEW a \in Int, NEW b \in Int PROVE Numbers({a, b})
      <3>1. {a, b} = {a} \cup {b}
        OBVIOUS
      <3>2. Numbers({a}) /\ Numbers({b})
        BY <1>4
      <3>3. Numbers({a} \cup {b})
        BY <1>2, <3>2
      <3>. QED
        BY <3>1, <3>3
    <2>. QED
      BY <2>1
  <1>6. \A a, b, c \in Int : Numbers({a, b, c})
    <2>1. ASSUME NEW a \in Int, NEW b \in Int, NEW c \in Int PROVE Numbers({a, b, c})
      <3>1. {a, b, c} = {a, b} \cup {c}
        OBVIOUS
      <3>2. Numbers({a, b}) /\ Numbers({c})
        BY <1>4, <1>5
      <3>3. Numbers({a, b} \cup {c})
        BY <1>2, <3>2
      <3>. QED
        BY <3>1, <3>3
    <2>. QED
      BY <2>1
  <1>. QED
    BY <1>1, <1>2, <1>3, <1>4, <1>5, <1>6

(* The middles of numbers are numbers.                                     *)
LEMMA MiddlesAre ==
  ASSUME NEW S, Numbers(S), S # {}
  PROVE  Middles(S) \subseteq Int
  <1>1. S \in SUBSET Int /\ IsFiniteSet(S)
    BY DEF Numbers
  <1>2. Max(S) \in S /\ \A s \in S : s <= Max(S)
    BY <1>1, FiniteExtremes
  <1>3. ASSUME NEW s \in S, s # Max(S)
        PROVE  (s + Min({t \in S : t > s})) \div 2 \in Int
    <2>. DEFINE T == {t \in S : t > s}
    <2>1. Max(S) \in T
      <3>1. s \in Int /\ Max(S) \in Int /\ s <= Max(S)
        BY <1>1, <1>2
      <3>2. Max(S) > s
        BY <1>3, <3>1
      <3>. QED
        BY <1>2, <3>2
    <2>2. T \in SUBSET Int /\ IsFiniteSet(T) /\ T # {}
      BY <1>1, <2>1, FS_Subset
    <2>3. Min(T) \in T
      BY <2>2, FiniteExtremes
    <2>. HIDE DEF T
    <2>4. Min(T) \in Int /\ s \in Int
      BY <1>1, <2>2, <2>3
    <2>5. (s + Min(T)) \div 2 \in Int
      BY <2>4
    <2>. QED
      BY <2>5 DEF T
  <1>. QED
    BY <1>3 DEF Middles

(* The numbers of a loop, at full size.                                    *)
LEMMA ScaledNumbers ==
  ASSUME NEW l \in Seq(Segment), l # <<>>, NEW k \in 1 .. 2
  PROVE  Numbers({Full(c[k]) : c \in Corners(l)})
  <1>. DEFINE S == Sides(l, k)
              T == {Full(c[k]) : c \in Corners(l)}
              f == [s \in S |-> Full(s)]
  <1>1. S \in SUBSET Int /\ IsFiniteSet(S)
    BY SidesOf
  <1>2. T = {Full(s) : s \in S}
    BY DEF Sides
  <1>3. \A s \in S : Full(s) \in Int
    BY <1>1 DEF Full
  <1>. HIDE DEF S, T
  <1>4. /\ DOMAIN f = S /\ f = [s \in S |-> f[s]]
        /\ \A s \in S : f[s] \in T
        /\ \A v \in T : \E s \in S : f[s] = v
    BY <1>2
  <1>. HIDE DEF f
  <1>5. IsFiniteSet(T)
    BY <1>1, <1>4, FiniteRange
  <1>. QED
    BY <1>2, <1>3, <1>5 DEF T, Numbers

(* The planes of a base are at numbers.                                    *)
LEMMA BasePlanesAre ==
  ASSUME NEW base \in BaseFeature, BaseFits(base),
         base.kind \in Profiled => ProfileErrors(base) = {}, NEW k \in 1 .. 3
  PROVE  /\ Numbers(BasePlanes(base, k)) /\ BasePlanes(base, k) # {}
         /\ Extents(base)[k] \in Int
  <1>. DEFINE e == Extents(base)
              n == NegativeFace(e, k)
              w == Wall(base)
              i == Half(base.inner)
              l == base.outer
              B == BasePlanes(base, k)
              More == CASE base.kind \in {"l_bracket", "enclosure"} -> {w, w - e[k], e[k] - w}
                        [] base.kind = "ring" /\ k # Z -> {-i, i}
                        [] base.kind = "profile_extrusion" /\ k # Z -> {Full(c[k]) : c \in Corners(l)}
                        [] base.kind = "profile_revolution" ->
                             {Full(c[IF k = Z THEN 2 ELSE 1]) : c \in Corners(l)}
                        [] OTHER -> {}
  <1>1. B = {e[k], n} \cup More
    BY DEF BasePlanes
  <1>2. B \subseteq Int
    <2>1. CASE base.kind \in Flat
      BY <2>1, FlatPlanes DEF OnPlanes
    <2>2. CASE base.kind = "profile_extrusion"
      <3>1. /\ OnPlanes(base, X) \in SUBSET Int /\ OnPlanes(base, Y) \in SUBSET Int
            /\ OnPlanes(base, Z) = {Full(base.size[3]), 0} /\ base.size[3] \in Int
        BY <2>2, ExtrudedPlanes DEF Profiled
      <3>2. Full(base.size[3]) \in Int
        BY <3>1 DEF Full
      <3>3. k = X \/ k = Y \/ k = Z
        BY DEF X, Y, Z
      <3>. QED
        BY <3>1, <3>2, <3>3 DEF OnPlanes
    <2>3. CASE base.kind = "profile_revolution"
      <3>1. /\ OnPlanes(base, X) \in SUBSET Int /\ OnPlanes(base, Y) \in SUBSET Int
            /\ OnPlanes(base, Z) \in SUBSET Int
        BY <2>3, RevolvedPlanes DEF Profiled
      <3>3. k = X \/ k = Y \/ k = Z
        BY DEF X, Y, Z
      <3>. QED
        BY <3>1, <3>3 DEF OnPlanes
    <2>. QED
      BY <2>1, <2>2, <2>3 DEF BaseFeature, Flat, Profiled
  <1>. HIDE DEF B, More
  <1>3. e[k] \in Int /\ n \in Int
    BY <1>1, <1>2
  <1>4. w \in Int /\ i \in Int
    BY DEF BaseFeature, Wall, Full, Half
  <1>5. Numbers(More)
    <2>1. CASE base.kind \in {"l_bracket", "enclosure"}
      <3>1. More = {w, w - e[k], e[k] - w}
        BY <2>1 DEF More
      <3>2. w - e[k] \in Int /\ e[k] - w \in Int
        BY <1>3, <1>4
      <3>. HIDE DEF w, e
      <3>. QED
        BY <1>4, <3>1, <3>2, FewNumbers
    <2>2. CASE base.kind = "ring" /\ k # Z
      <3>1. More = {-i, i}
        BY <2>2 DEF More
      <3>2. -i \in Int
        BY <1>4
      <3>. HIDE DEF i
      <3>. QED
        BY <1>4, <3>1, <3>2, FewNumbers
    <2>3. CASE base.kind = "profile_extrusion" /\ k # Z
      <3>1. More = {Full(c[k]) : c \in Corners(l)}
        BY <2>3 DEF More
      <3>2. l \in Seq(Segment) /\ l # <<>> /\ k \in 1 .. 2
        BY <2>3, SoundOutline DEF Profiled, Z
      <3>. QED
        BY <3>1, <3>2, ScaledNumbers
    <2>4. CASE base.kind = "profile_revolution"
      <3>. DEFINE j == IF k = Z THEN 2 ELSE 1
      <3>1. More = {Full(c[j]) : c \in Corners(l)}
        BY <2>4 DEF More
      <3>2. l \in Seq(Segment) /\ l # <<>> /\ j \in 1 .. 2
        BY <2>4, SoundOutline DEF Profiled
      <3>. HIDE DEF j
      <3>. QED
        BY <3>1, <3>2, ScaledNumbers
    <2>5. CASE /\ base.kind \notin {"l_bracket", "enclosure"}
               /\ ~(base.kind = "ring" /\ k # Z)
               /\ ~(base.kind = "profile_extrusion" /\ k # Z)
               /\ base.kind # "profile_revolution"
      <3>1. More = {}
        BY <2>5 DEF More
      <3>. QED
        BY <3>1, FewNumbers
    <2>. QED
      BY <2>1, <2>2, <2>3, <2>4, <2>5
  <1>6. Numbers({e[k], n})
    <2>. HIDE DEF e, n
    <2>. QED
      BY <1>3, FewNumbers
  <1>7. Numbers(B)
    BY <1>1, <1>5, <1>6, FewNumbers
  <1>8. B # {}
    BY <1>1
  <1>. QED
    BY <1>3, <1>7, <1>8 DEF B

(* Those of a hole are, too.                                               *)
LEMMA HolePlanesAre ==
  ASSUME NEW h, Cuttable(h), NEW base, NEW k \in 1 .. 3, Extents(base)[k] \in Int
  PROVE  Numbers(HolePlanes(h, base, k))
  <1>. DEFINE top == Extents(base)[k]
              a == Full(h.at[k])
              u == Half(h.diameter)
              v == Half(h.head)
  <1>1. /\ h.diameter \in Int /\ h.depth \in Int /\ h.head \in Int /\ a \in Int
    <2>1. k = 1 \/ k = 2 \/ k = 3
      OBVIOUS
    <2>2. h.at[k] \in Int
      BY <2>1, HoleIntegers, PlaceOf
    <2>. QED
      BY <2>2, HoleIntegers DEF Full
  <1>2. CASE h.axis = k
    <2>. DEFINE depth == Half(h.head - h.diameter)
                A == {top - Full(h.depth)}
                B == {top - depth, top - (depth \div 2)}
    <2>1. top \in Int /\ depth \in Int /\ Full(h.depth) \in Int
      BY <1>1 DEF Half, Full
    <2>. HIDE DEF top, depth
    <2>2. top - Full(h.depth) \in Int /\ top - depth \in Int /\ top - (depth \div 2) \in Int
      BY <2>1
    <2>3. Numbers(A) /\ Numbers(B) /\ Numbers({})
      BY <2>2, FewNumbers
    <2>4. HolePlanes(h, base, k) = A \cup (IF HasCountersink(h) THEN B ELSE {})
      BY <1>2 DEF HolePlanes, top, depth
    <2>5. Numbers(IF HasCountersink(h) THEN B ELSE {})
      BY <2>3
    <2>. QED
      BY <2>3, <2>4, <2>5, FewNumbers
  <1>3. CASE h.axis # k
    <2>. DEFINE T == {a + Half(side * d) : side \in {1, -1}, d \in {h.diameter, h.head} \ {0}}
    <2>1. HolePlanes(h, base, k) = T
      BY <1>3 DEF HolePlanes
    <2>2. u \in Int /\ v \in Int
      BY <1>1 DEF Half
    <2>3. \A d \in Int : Half(1 * d) = Half(d) /\ Half((-1) * d) = -Half(d)
      BY DEF Half
    <2>4. ASSUME NEW t \in T PROVE t \in {a + u, a - u} \cup {a + v, a - v}
      <3>1. PICK side \in {1, -1}, d \in {h.diameter, h.head} : t = a + Half(side * d)
        OBVIOUS
      <3>2. CASE d = h.diameter
        BY <1>1, <2>2, <2>3, <3>1, <3>2
      <3>3. CASE d = h.head
        BY <1>1, <2>2, <2>3, <3>1, <3>3
      <3>. QED
        BY <3>2, <3>3
    <2>. HIDE DEF T, a, u, v
    <2>5. a + u \in Int /\ a - u \in Int /\ a + v \in Int /\ a - v \in Int
      BY <1>1, <2>2
    <2>6. Numbers({a + u, a - u} \cup {a + v, a - v})
      BY <2>5, FewNumbers
    <2>7. T \subseteq {a + u, a - u} \cup {a + v, a - v}
      BY <2>4
    <2>. QED
      BY <2>1, <2>6, <2>7, FewNumbers
  <1>. QED
    BY <1>2, <1>3

(* And those of a cutout.                                                  *)
LEMMA CutoutPlanesAre ==
  ASSUME NEW c \in CutoutFeature, NEW base \in BaseFeature, NEW k \in 1 .. 3,
         Extents(base)[k] \in Int
  PROVE  Numbers(CutoutPlanes(c, base, k))
  <1>. DEFINE top == Extents(base)[k]
              w == Wall(base)
              s == c.side
              a == Full(c.at[k])
              reach == Half(IF k = Z THEN c.height ELSE c.width)
  <1>1. w \in Int /\ s \in {1, -1} /\ a \in Int /\ reach \in Int
    <2>1. /\ c.side \in {1, -1} /\ c.at \in Int \X Int \X Int /\ c.width \in Int /\ c.height \in Int
      BY DEF CutoutFeature
    <2>2. k = 1 \/ k = 2 \/ k = 3
      OBVIOUS
    <2>3. c.at[k] \in Int
      BY <2>1, <2>2
    <2>4. base.wall \in Int
      BY DEF BaseFeature
    <2>. QED
      BY <2>1, <2>3, <2>4 DEF Full, Half, Wall
  <1>2. CutoutPlanes(c, base, k) = IF c.face = k THEN {s * (top - (w \div 2))}
                                   ELSE {a - reach, a + reach}
    BY DEF CutoutPlanes
  <1>3. top \in Int
    OBVIOUS
  <1>. HIDE DEF top, w, s, a, reach
  <1>4. s * (top - (w \div 2)) \in Int /\ a - reach \in Int /\ a + reach \in Int
    <2>1. s = 1 \/ s = -1
      BY <1>1
    <2>. QED
      BY <1>1, <1>3, <2>1
  <1>. QED
    BY <1>2, <1>4, FewNumbers

(* Numbers of finitely many things.                                        *)
LEMMA NumbersOfAll ==
  ASSUME NEW S, IsFiniteSet(S), NEW f, DOMAIN f = S, f = [x \in S |-> f[x]],
         \A x \in S : Numbers(f[x])
  PROVE  Numbers(UNION {f[x] : x \in S})
  <1>. DEFINE V == {f[x] : x \in S}
  <1>1. /\ \A x \in S : f[x] \in V
        /\ \A v \in V : \E x \in S : f[x] = v
    OBVIOUS
  <1>2. \A v \in V : v \subseteq Int /\ IsFiniteSet(v)
    BY DEF Numbers
  <1>. HIDE DEF V
  <1>3. IsFiniteSet(V)
    BY <1>1, FiniteRange
  <1>4. IsFiniteSet(UNION V)
    BY <1>2, <1>3, FS_UNION
  <1>5. UNION V \subseteq Int
    BY <1>2
  <1>. QED
    BY <1>4, <1>5 DEF Numbers, V

(* A document has finitely many planes, and at least one.                  *)
LEMMA PlanesAre ==
  ASSUME NEW doc, SoundPart(doc), IsFiniteSet(DOMAIN doc.holes), IsFiniteSet(doc.cutouts),
         NEW k \in 1 .. 3
  PROVE  Numbers(Planes(doc, k)) /\ Planes(doc, k) # {}
  <1>. DEFINE base == doc.base
              B == BasePlanes(base, k)
              f == [i \in DOMAIN doc.holes |-> HolePlanes(doc.holes[i], base, k)]
              g == [c \in doc.cutouts |-> CutoutPlanes(c, base, k)]
              H == UNION {HolePlanes(doc.holes[i], base, k) : i \in DOMAIN doc.holes}
              C == UNION {CutoutPlanes(c, base, k) : c \in doc.cutouts}
              planes == B \cup H \cup C
  <1>1. /\ base \in BaseFeature /\ BaseFits(base)
        /\ base.kind \in Profiled => ProfileErrors(base) = {}
        /\ \A i \in DOMAIN doc.holes : Cuttable(doc.holes[i])
        /\ doc.cutouts \subseteq CutoutFeature
    BY DEF SoundPart
  <1>2. Numbers(B) /\ B # {} /\ Extents(base)[k] \in Int
    BY <1>1, BasePlanesAre
  <1>3. Numbers(H)
    <2>1. \A i \in DOMAIN doc.holes : Numbers(HolePlanes(doc.holes[i], base, k))
      BY <1>1, <1>2, HolePlanesAre
    <2>2. /\ DOMAIN f = DOMAIN doc.holes /\ f = [i \in DOMAIN doc.holes |-> f[i]]
          /\ \A i \in DOMAIN doc.holes : Numbers(f[i])
      BY <2>1
    <2>3. H = UNION {f[i] : i \in DOMAIN doc.holes}
      OBVIOUS
    <2>. HIDE DEF f, H
    <2>. QED
      BY <2>2, <2>3, NumbersOfAll
  <1>4. Numbers(C)
    <2>1. \A c \in doc.cutouts : Numbers(CutoutPlanes(c, base, k))
      BY <1>1, <1>2, CutoutPlanesAre
    <2>2. /\ DOMAIN g = doc.cutouts /\ g = [c \in doc.cutouts |-> g[c]]
          /\ \A c \in doc.cutouts : Numbers(g[c])
      BY <2>1
    <2>3. C = UNION {g[c] : c \in doc.cutouts}
      OBVIOUS
    <2>. HIDE DEF g, C
    <2>. QED
      BY <2>2, <2>3, NumbersOfAll
  <1>5. Planes(doc, k) = planes \cup {Min(planes) - Mm, Max(planes) + Mm}
    BY DEF Planes
  <1>. HIDE DEF B, H, C
  <1>6. Numbers(B \cup H)
    BY <1>2, <1>3, FewNumbers
  <1>7. Numbers(planes) /\ planes # {}
    BY <1>2, <1>4, <1>6, FewNumbers
  <1>. HIDE DEF planes
  <1>8. Min(planes) - Mm \in Int /\ Max(planes) + Mm \in Int
    <2>1. planes \in SUBSET Int /\ IsFiniteSet(planes)
      BY <1>7 DEF Numbers
    <2>2. Min(planes) \in Int /\ Max(planes) \in Int
      BY <1>7, <2>1, FiniteExtremes
    <2>. QED
      BY <2>2 DEF Mm
  <1>9. Numbers({Min(planes) - Mm, Max(planes) + Mm})
    <2>. DEFINE a == Min(planes) - Mm
                b == Max(planes) + Mm
    <2>1. a \in Int /\ b \in Int
      BY <1>8
    <2>. HIDE DEF a, b
    <2>2. Numbers({a, b})
      BY <2>1, FewNumbers
    <2>. QED
      BY <2>2 DEF a, b
  <1>. QED
    BY <1>5, <1>7, <1>9, FewNumbers

(* The points between them are places.                                     *)
LEMMA PointsArePlaces ==
  ASSUME NEW doc, SoundPart(doc), IsFiniteSet(DOMAIN doc.holes), IsFiniteSet(doc.cutouts)
  PROVE  Points(doc) \subseteq Place
  <1>1. \A k \in 1 .. 3 : Middles(Planes(doc, k)) \subseteq Int
    BY PlanesAre, MiddlesAre
  <1>2. X \in 1 .. 3 /\ Y \in 1 .. 3 /\ Z \in 1 .. 3
    BY DEF X, Y, Z
  <1>3. /\ Middles(Planes(doc, X)) \subseteq Int /\ Middles(Planes(doc, Y)) \subseteq Int
        /\ Middles(Planes(doc, Z)) \subseteq Int
    BY <1>1, <1>2
  <1>. QED
    BY <1>3 DEF Points, Place

----------------------------------------------------------------------------
(* Every hole that a drawing, a plan or a posted document has can be cut.  *)

(* A hole that goes through a drawing can be cut.                          *)
LEMMA DrawnHolesAreCut ==
  ASSUME circles \in Seq(Drawn), NEW h \in AnyHole
  PROVE  Cuttable(h)
  <1>1. PICK n \in 1 .. Len(circles) : h = DrawnHoles[n]
    BY DEF AnyHole
  <1>. DEFINE c == Holes[n].center
              r == Holes[n].radius
  <1>2. c \in Point /\ r \in Int
    <2>1. Holes \in Seq(HoleRecord) /\ Len(Holes) = Len(circles)
      BY HolesAreCircles
    <2>2. Holes[n] \in HoleRecord
      BY <2>1
    <2>. QED
      BY <2>2 DEF HoleRecord
  <1>3. h = [at |-> <<c[1], c[2], 0>>, axis |-> Z, diameter |-> 2 * r,
             type |-> "through", depth |-> 0, head |-> 0]
    BY <1>1 DEF DrawnHoles, DrawnHole, ThroughHole
  <1>. HIDE DEF c, r
  <1>4. c[1] \in Int /\ c[2] \in Int /\ 2 * r \in Int
    BY <1>2 DEF Point
  <1>5. <<c[1], c[2], 0>> \in Int \X Int \X Int
    BY <1>4
  <1>6. h \in HoleFeature
    BY <1>3, <1>4, <1>5 DEF HoleFeature
  <1>7. h.type = "through" /\ h.depth = 0 /\ h.head = 0
    BY <1>3
  <1>. QED
    BY <1>6, <1>7 DEF Cuttable

(* A hole the schema lets pass can be cut.                                 *)
LEMMA FittingHolesAreCut ==
  ASSUME NEW h \in HoleFeature, HoleFits(h), h.type = "countersink" => h.depth = 0
  PROVE  Cuttable(h)
  <1>1. h.diameter \in Int /\ h.depth \in Int /\ h.head \in Int
    BY DEF HoleFeature
  <1>. QED
    BY <1>1 DEF HoleFits, Cuttable

(* A plan has the holes of its groups, and no others.                      *)
LEMMA PlannedHolesIn ==
  ASSUME NEW i, IsIntent(i), NEW T,
         \A n \in DOMAIN i.groups : \A k \in 1 .. HolesAsked(i.groups[n]) :
           GroupHoles(IntentBase(i.template, i.params), i.groups[n], Margin(i.params))[k] \in T
  PROVE  IntentDocument(i).holes \in Seq(T)
  <1>. DEFINE base == IntentBase(i.template, i.params)
              N == Len(i.groups)
              seqs == [n \in 1 .. N |-> GroupHoles(base, i.groups[n], Margin(i.params))]
  <1>1. /\ i.groups \in Seq(HoleGroup) /\ N \in Nat /\ DOMAIN i.groups = 1 .. N
        /\ \A n \in 1 .. N : i.groups[n] \in HoleGroup
    BY DEF IsIntent
  <1>2. IntentDocument(i).holes = FlattenSeq(seqs)
    BY <1>1 DEF IntentDocument
  <1>3. \A n \in 1 .. N : GroupHoles(base, i.groups[n], Margin(i.params)) \in Seq(T)
    BY <1>1, InSequence
  <1>. HIDE DEF base
  <1>4. seqs \in Seq(Seq(T)) /\ Len(seqs) = N
    <2>. HIDE DEF N
    <2>. QED
      BY <1>1, <1>3
  <1>. HIDE DEF seqs, N
  <1>5. PICK f \in [0 .. Len(seqs) -> Seq(T)] : FlattenSeq(seqs) = f[Len(seqs)]
    BY <1>4, Flattening
  <1>. QED
    BY <1>1, <1>2, <1>4, <1>5

(* Where nobody gave positions for holes, they are on the lattice too.     *)
LEMMA PositionsOnLattice ==
  ASSUME NEW base, \A k \in {X, Y, Z} : Dimensions(base)[k] \in Int,
         NEW g \in HoleGroup, NEW margin \in Int,
         \A k \in 1 .. 2 : Whole(Spread(base, g.axis)[k], 1, 2),
         \A k \in 1 .. g.count :
           /\ (g.layout \in {"center", "line_x"} \/ (g.layout = "explicit" /\ g.positions = <<>>))
                /\ g.count > 1 => Whole(2 * HalfSpread(base, g.axis, margin)[1], k - 1, g.count - 1)
           /\ g.layout = "centered_line_x" =>
                Whole(Spread(base, g.axis)[1], 2 * k - g.count - 1, 2 * (g.count + 1)),
         NEW i \in 1 .. HolesAsked(g)
  PROVE  GroupPositions(base, g, margin)[i] \in Int \X Int \X Int
  <1>. DEFINE axis == g.axis
              safe == SafeMargin(base, axis, margin)
              spread == Spread(base, axis)
              half == HalfSpread(base, axis, margin)
              center == PlaneCenter(base, axis)
  <1>1. /\ axis \in {X, Y, Z} /\ g.count \in Nat
        /\ \A k \in 1 .. 2 : PlaneAxes(axis)[k] \in {X, Y, Z}
        /\ g.positions \in Seq(Int \X Int \X Int)
        /\ g.layout \in {"explicit", "center", "line_x", "centered_line_x", "four_corners"}
    BY DEF HoleGroup, PlaneAxes
  <1>2. \A k \in 1 .. 2 : spread[k] \in Int
    BY <1>1 DEF Spread
  <1>3. \A k \in 1 .. 2 : center[k] \in Int
    <2>1. Dimensions(base)[Z] \in Int
      OBVIOUS
    <2>2. Dimensions(base)[Z] \div 2 \in Int
      BY <2>1
    <2>. QED
      BY <2>2 DEF PlaneCenter
  <1>4. ASSUME NEW k \in 1 .. 2 PROVE Share(spread[k], 1, 2) \in Int
    <2>1. spread[k] \in Int /\ Whole(spread[k], 1, 2)
      BY <1>2
    <2>. HIDE DEF spread
    <2>. QED
      BY <2>1, ShareOf
  <1>. HIDE DEF spread, center
  <1>5. safe \in Int
    <2>. DEFINE narrow == Lesser(spread[1], spread[2])
    <2>1. narrow = spread[1] \/ narrow = spread[2]
      BY DEF Lesser
    <2>2. Share(narrow, 1, 2) \in Int
      BY <1>4, <2>1
    <2>3. safe = Lesser(Greater(margin, 0), Greater(Share(narrow, 1, 2) - 1, 0))
      BY DEF SafeMargin, spread
    <2>. HIDE DEF narrow, safe
    <2>. QED
      BY <2>2, <2>3 DEF Lesser, Greater
  <1>6. \A k \in 1 .. 2 : half[k] \in Int
    <2>1. \A k \in 1 .. 2 : half[k] = Greater(Share(spread[k], 1, 2) - safe, 0)
      BY DEF HalfSpread, spread
    <2>. HIDE DEF half, safe
    <2>. QED
      BY <1>4, <1>5, <2>1 DEF Greater
  <1>. HIDE DEF half, safe
  <1>7. ASSUME NEW q, q[1] \in Int, q[2] \in Int
        PROVE  OnPlane(axis, q) \in Int \X Int \X Int
    <2>. DEFINE v(k) == IF \E j \in 1 .. 2 : PlaneAxes(axis)[j] = k
                        THEN q[CHOOSE j \in 1 .. 2 : PlaneAxes(axis)[j] = k] ELSE 0
    <2>1. ASSUME NEW k \in 1 .. 3 PROVE v(k) \in Int
      <3>1. CASE \E j \in 1 .. 2 : PlaneAxes(axis)[j] = k
        <4>. DEFINE j == CHOOSE j \in 1 .. 2 : PlaneAxes(axis)[j] = k
        <4>1. j \in 1 .. 2
          BY <3>1
        <4>. HIDE DEF j
        <4>2. j = 1 \/ j = 2
          BY <4>1
        <4>3. q[j] \in Int
          BY <1>7, <4>2
        <4>. QED
          BY <3>1, <4>3 DEF j
      <3>2. CASE ~\E j \in 1 .. 2 : PlaneAxes(axis)[j] = k
        BY <3>2
      <3>. QED
        BY <3>1, <3>2
    <2>2. OnPlane(axis, q) = [k \in 1 .. 3 |-> v(k)]
      BY DEF OnPlane
    <2>. HIDE DEF v
    <2>3. [k \in 1 .. 3 |-> v(k)] = <<v(1), v(2), v(3)>>
      <3>1. \A k \in 1 .. 3 : k = 1 \/ k = 2 \/ k = 3
        OBVIOUS
      <3>. QED
        BY <3>1
    <2>. QED
      BY <2>1, <2>2, <2>3
  <1>8. CASE g.layout = "explicit" /\ g.positions # <<>>
    <2>1. GroupPositions(base, g, margin) = g.positions
      BY <1>8 DEF GroupPositions
    <2>2. i \in 1 .. Len(g.positions)
      <3>1. Len(g.positions) \in Nat /\ HolesAsked(g) = Lesser(g.count, Len(g.positions))
        BY <1>1, <1>8 DEF HolesAsked
      <3>. QED
        BY <1>1, <3>1 DEF Lesser
    <2>. QED
      BY <1>1, <2>1, <2>2
  <1>9. CASE g.layout = "four_corners"
    <2>. DEFINE corners == <<<<-1, -1>>, <<1, -1>>, <<1, 1>>, <<-1, 1>>>>
                q == [k \in 1 .. 2 |-> center[k] + corners[i][k] * half[k]]
    <2>1. i \in 1 .. Lesser(g.count, 4) /\ i \in 1 .. 4
      <3>1. HolesAsked(g) = Lesser(g.count, 4)
        BY <1>9 DEF HolesAsked
      <3>. QED
        BY <1>1, <3>1 DEF Lesser
    <2>2. GroupPositions(base, g, margin)[i] = OnPlane(axis, q)
      BY <1>9, <2>1 DEF GroupPositions, DefaultPositions, center, half
    <2>3. \A k \in 1 .. 2 : corners[i][k] = 1 \/ corners[i][k] = -1
      BY <2>1
    <2>. HIDE DEF corners
    <2>4. ASSUME NEW k \in 1 .. 2
          PROVE  q[k] = center[k] + half[k] \/ q[k] = center[k] - half[k]
      <3>. DEFINE a == corners[i][k]
                  c == center[k]
                  m == half[k]
      <3>1. q[k] = c + a * m
        OBVIOUS
      <3>2. a = 1 \/ a = -1
        BY <2>3
      <3>3. c \in Int /\ m \in Int
        BY <1>3, <1>6
      <3>. HIDE DEF a, c, m, q
      <3>4. q[k] = c + m \/ q[k] = c - m
        BY <3>1, <3>2, <3>3
      <3>. QED
        BY <3>4 DEF c, m
    <2>. HIDE DEF q
    <2>5. q[1] \in Int /\ q[2] \in Int
      BY <1>3, <1>6, <2>4
    <2>. QED
      BY <1>7, <2>2, <2>5
  <1>10. CASE g.layout # "four_corners" /\ ~(g.layout = "explicit" /\ g.positions # <<>>)
    <2>. DEFINE row == CASE g.layout = "centered_line_x" ->
                              center[1] + Share(spread[1], 2 * i - g.count - 1, 2 * (g.count + 1))
                         [] g.layout # "centered_line_x" /\ g.count = 1 -> center[1]
                         [] OTHER -> center[1] - half[1] + Share(2 * half[1], i - 1, g.count - 1)
                q == <<row, center[2]>>
    <2>1. i \in 1 .. g.count
      BY <1>10 DEF HolesAsked
    <2>2. GroupPositions(base, g, margin)[i] = OnPlane(axis, q)
      BY <1>10, <2>1 DEF GroupPositions, DefaultPositions, center, half, spread
    <2>3. row \in Int
      <3>1. CASE g.layout = "centered_line_x"
        <4>1. Whole(spread[1], 2 * i - g.count - 1, 2 * (g.count + 1))
          BY <2>1, <3>1 DEF spread
        <4>2. 2 * i - g.count - 1 \in Int /\ 2 * (g.count + 1) \in Nat \ {0}
          BY <1>1, <2>1
        <4>3. Share(spread[1], 2 * i - g.count - 1, 2 * (g.count + 1)) \in Int
          BY <1>2, <4>1, <4>2, ShareOf
        <4>. QED
          BY <1>3, <3>1, <4>3
      <3>2. CASE g.layout # "centered_line_x" /\ g.count = 1
        BY <1>3, <3>2
      <3>3. CASE g.layout # "centered_line_x" /\ g.count # 1
        <4>1. g.count > 1
          BY <1>1, <2>1, <3>3
        <4>2. Whole(2 * half[1], i - 1, g.count - 1)
          BY <1>1, <1>10, <2>1, <3>3, <4>1 DEF half
        <4>3. 2 * half[1] \in Int /\ i - 1 \in Int /\ g.count - 1 \in Nat \ {0}
          BY <1>1, <1>6, <2>1, <4>1
        <4>4. Share(2 * half[1], i - 1, g.count - 1) \in Int
          BY <4>2, <4>3, ShareOf
        <4>. QED
          BY <1>3, <1>6, <3>3, <4>4
      <3>. QED
        BY <3>1, <3>2, <3>3
    <2>. HIDE DEF row
    <2>4. q[1] \in Int /\ q[2] \in Int
      BY <1>3, <2>3
    <2>. HIDE DEF q
    <2>. QED
      BY <1>7, <2>2, <2>4
  <1>. QED
    BY <1>8, <1>9, <1>10

(* How deep the material is that a plan has to do with.                    *)
LEMMA MaterialOfIntent ==
  ASSUME NEW i, IsIntent(i), NEW axis \in {X, Y, Z}
  PROVE  MaterialDepth(IntentBase(i.template, i.params), axis) \in Int
  <1>. DEFINE base == IntentBase(i.template, i.params)
  <1>1. /\ \A k \in {X, Y, Z} : Dimensions(base)[k] \in Int /\ base.size[k] \in Int
        /\ base.wall \in Int
    BY BaseOfIntent
  <1>. HIDE DEF base
  <1>2. MaterialDepth(base, axis) \in {base.wall, base.size[X], Dimensions(base)[axis]}
    BY DEF MaterialDepth
  <1>. QED
    BY <1>1, <1>2 DEF base

(* How deep the holes of a plan are is a number.                           *)
LEMMA DepthOfGroup ==
  ASSUME NEW g \in HoleGroup, NEW material \in Int, GroupDiameter(g) \in Int,
         g.type = "blind" /\ g.depth = 0 => Whole(GroupDiameter(g), 3, 2) /\ Whole(material, 3, 4),
         g.type = "counterbore" /\ g.depth = 0 =>
           Whole(GroupDiameter(g), 3, 5) /\ Whole(material, 1, 2)
  PROVE  GroupDepth(g, material) \in Int /\ (g.type = "countersink" => GroupDepth(g, material) = 0)
  <1>. DEFINE d == GroupDiameter(g)
  <1>1. g.depth \in Int
    BY DEF HoleGroup
  <1>2. CASE g.depth # 0 \/ g.type \notin {"blind", "counterbore"}
    BY <1>1, <1>2 DEF GroupDepth, Or
  <1>3. CASE g.depth = 0 /\ g.type = "blind"
    <2>1. Share(d, 3, 2) \in Int /\ Share(material, 3, 4) \in Int
      BY <1>3, ShareOf
    <2>2. GroupDepth(g, material) = Lesser(Greater(Share(d, 3, 2), 2), Share(material, 3, 4))
      BY <1>3 DEF GroupDepth, Or
    <2>. QED
      BY <1>3, <2>1, <2>2 DEF Lesser, Greater
  <1>4. CASE g.depth = 0 /\ g.type = "counterbore"
    <2>1. Share(d, 3, 5) \in Int /\ Share(material, 1, 2) \in Int
      BY <1>4, ShareOf
    <2>2. GroupDepth(g, material) = Lesser(Share(d, 3, 5), Share(material, 1, 2))
      BY <1>4 DEF GroupDepth, Or
    <2>. QED
      BY <1>4, <2>1, <2>2 DEF Lesser
  <1>. QED
    BY <1>2, <1>3, <1>4

Cuttables == {h \in HoleFeature : Cuttable(h)}

Unbored == {h \in HoleFeature : h.type = "countersink" => h.depth = 0}

(* The holes of a plan the schema lets pass can be cut.                    *)
LEMMA PlannedHolesAreCut ==
  ASSUME NEW i, IsIntent(i), OnLattice(i), FitsSchema(IntentDocument(i))
  PROVE  IntentDocument(i).holes \in Seq(Cuttables)
  <1>. DEFINE base == IntentBase(i.template, i.params)
              margin == Margin(i.params)
              made == IntentDocument(i).holes
  <1>1. /\ \A k \in {X, Y, Z} : Dimensions(base)[k] \in Int
        /\ margin \in Int
    BY BaseOfIntent
  <1>2. \A n \in DOMAIN i.groups : i.groups[n] \in HoleGroup
    BY DEF IsIntent
  <1>3. ASSUME NEW n \in DOMAIN i.groups, NEW k \in 1 .. HolesAsked(i.groups[n])
        PROVE  GroupHoles(base, i.groups[n], margin)[k] \in Unbored
    <2>. DEFINE g == i.groups[n]
                h == GroupHoles(base, g, margin)[k]
                material == MaterialDepth(base, g.axis)
                half == HalfSpread(base, g.axis, margin)
    <2>1. g \in HoleGroup
      BY <1>2
    <2>2. /\ \A j \in 1 .. 2 : Whole(Spread(base, g.axis)[j], 1, 2)
          /\ \A j \in 1 .. g.count :
               /\ (g.layout \in {"center", "line_x"} \/ (g.layout = "explicit" /\ g.positions = <<>>))
                    /\ g.count > 1 => Whole(2 * half[1], j - 1, g.count - 1)
               /\ g.layout = "centered_line_x" =>
                    Whole(Spread(base, g.axis)[1], 2 * j - g.count - 1, 2 * (g.count + 1))
          /\ g.type = "blind" /\ g.depth = 0 =>
               Whole(GroupDiameter(g), 3, 2) /\ Whole(material, 3, 4)
          /\ g.type = "counterbore" /\ g.depth = 0 =>
               Whole(GroupDiameter(g), 3, 5) /\ Whole(material, 1, 2)
          /\ g.type = "counterbore" /\ g.head = 0 => Whole(GroupDiameter(g), 9, 5)
      BY DEF OnLattice
    <2>. DEFINE depth == GroupDepth(g, material)
                at == GroupPositions(base, g, margin)[k]
                type == IF g.type \in {"tapped", "clearance"} THEN "through" ELSE g.type
    <2>3. h = [at |-> at, axis |-> g.axis, diameter |-> GroupDiameter(g), type |-> type,
               depth |-> depth, head |-> GroupHead(g)]
      BY <2>1, InSequence DEF GroupHoles
    <2>4. /\ g.axis \in {X, Y, Z}
          /\ g.type \in {"through", "blind", "counterbore", "countersink", "tapped", "clearance"}
      BY <2>1 DEF HoleGroup
    <2>5. material \in Int
      BY <2>4, MaterialOfIntent
    <2>6. k \in 1 .. HolesAsked(g)
      OBVIOUS
    <2>7. at \in Int \X Int \X Int
      <3>. HIDE DEF base, margin, g
      <3>. QED
        BY <1>1, <2>1, <2>2, <2>6, PositionsOnLattice
    <2>. HIDE DEF material, base, margin
    <2>8. GroupDiameter(g) \in Int /\ GroupHead(g) \in Int
      BY <2>1, <2>2, GroupNumbers
    <2>9. depth \in Int /\ (g.type = "countersink" => depth = 0)
      BY <2>1, <2>2, <2>5, <2>8, DepthOfGroup
    <2>. HIDE DEF h, g, depth, at
    <2>10. /\ type \in {"through", "blind", "counterbore", "countersink"}
           /\ type = "countersink" => g.type = "countersink"
      BY <2>4
    <2>. HIDE DEF type
    <2>11. h \in HoleFeature
      BY <2>3, <2>4, <2>7, <2>8, <2>9, <2>10 DEF HoleFeature
    <2>12. h.type = "countersink" => h.depth = 0
      BY <2>3, <2>9, <2>10
    <2>. QED
      BY <2>11, <2>12 DEF Unbored, h, g
  <1>4. made \in Seq(Unbored)
    BY <1>3, PlannedHolesIn
  <1>5. \A n \in DOMAIN made : HoleFits(made[n])
    BY DEF FitsSchema
  <1>. HIDE DEF made
  <1>6. ASSUME NEW n \in DOMAIN made PROVE made[n] \in Cuttables
    <2>1. made[n] \in Unbored
      BY <1>4
    <2>. QED
      BY <1>5, <2>1, FittingHolesAreCut DEF Unbored, Cuttables
  <1>7. made \in Seq(Cuttables)
    BY <1>4, <1>6
  <1>. QED
    BY <1>7 DEF made

----------------------------------------------------------------------------
(* SameSolid: the invariant, and each step                                 *)

(* What the holes and cutouts of a document must be to be cut.             *)
SoundHoles(doc) ==
  /\ IsFiniteSet(DOMAIN doc.holes)
  /\ \A n \in DOMAIN doc.holes : Cuttable(doc.holes[n])
  /\ doc.cutouts \subseteq CutoutFeature /\ IsFiniteSet(doc.cutouts)

SolidInv ==
  /\ Built => pc = "built" /\ SameSolid
  /\ pc \in {"validate", "analysed", "done"} => SoundHoles(document)

(* The three ways to a document.                                           *)
LEMMA PostedHoles ==
  ASSUME NEW doc \in Documents
  PROVE  SoundHoles(doc)
  <1>1. /\ doc.holes \in Seq(HoleFeature) /\ FitsSchema(doc)
        /\ doc.cutouts \subseteq CutoutFeature /\ IsFiniteSet(doc.cutouts)
        /\ \A n \in DOMAIN doc.holes :
             doc.holes[n].type = "countersink" => doc.holes[n].depth = 0
    BY DocumentsAssumption
  <1>2. Len(doc.holes) \in Nat /\ DOMAIN doc.holes = 1 .. Len(doc.holes)
    BY <1>1
  <1>3. IsFiniteSet(DOMAIN doc.holes)
    BY <1>2, FS_Interval
  <1>4. ASSUME NEW n \in DOMAIN doc.holes PROVE Cuttable(doc.holes[n])
    <2>1. doc.holes[n] \in HoleFeature
      BY <1>1
    <2>2. HoleFits(doc.holes[n])
      BY <1>1 DEF FitsSchema
    <2>. QED
      BY <1>1, <2>1, <2>2, FittingHolesAreCut
  <1>. QED
    BY <1>1, <1>3, <1>4 DEF SoundHoles

LEMMA PlannedHoles ==
  ASSUME PlanInv, pc = "planned"
  PROVE  SoundHoles(document)
  <1>1. intent \in Intents /\ document = IntentDocument(intent) /\ FitsSchema(document)
    BY DEF PlanInv
  <1>2. IsIntent(intent) /\ OnLattice(intent)
    BY <1>1, PlansAssumption
  <1>3. document.holes \in Seq(Cuttables)
    BY <1>1, <1>2, PlannedHolesAreCut
  <1>4. document.cutouts = intent.cutouts
    BY <1>1 DEF IntentDocument
  <1>5. document.cutouts \subseteq CutoutFeature /\ IsFiniteSet(document.cutouts)
    BY <1>2, <1>4 DEF IsIntent
  <1>6. Len(document.holes) \in Nat /\ DOMAIN document.holes = 1 .. Len(document.holes)
    BY <1>3
  <1>7. IsFiniteSet(DOMAIN document.holes)
    BY <1>6, FS_Interval
  <1>8. \A n \in DOMAIN document.holes : Cuttable(document.holes[n])
    BY <1>3 DEF Cuttables
  <1>. QED
    BY <1>5, <1>7, <1>8 DEF SoundHoles

(* A document made from a drawing has the drawing's circles for holes.     *)
LEMMA ConvertedHoles ==
  ASSUME HolesInv, drawing.mode # "posted", Convert
  PROVE  SoundHoles(document')
  <1>1. pc = "convert" /\ WellBuilt /\ document'.holes = TreeHoles /\ document'.cutouts = {}
    BY DEF Convert, Converted, Convertible
  <1>2. circles \in Seq(Drawn) /\ SoundTree(tree)
    BY <1>1 DEF HolesInv, TreeInv
  <1>3. TreeHoles \in Seq(AnyHole)
    BY <1>1, <1>2, TreeHolesAre
  <1>. DEFINE made == TreeHoles
  <1>. HIDE DEF made
  <1>4. made \in Seq(AnyHole)
    BY <1>3 DEF made
  <1>5. Len(made) \in Nat /\ DOMAIN made = 1 .. Len(made)
    BY <1>4
  <1>6. IsFiniteSet(DOMAIN made)
    BY <1>5, FS_Interval
  <1>7. ASSUME NEW n \in DOMAIN made PROVE Cuttable(made[n])
    <2>1. made[n] \in AnyHole
      BY <1>4
    <2>. QED
      BY <1>2, <2>1, DrawnHolesAreCut
  <1>8. {} \subseteq CutoutFeature /\ IsFiniteSet({})
    BY FS_EmptySet
  <1>9. document'.holes = made
    BY <1>1 DEF made
  <1>. QED
    BY <1>1, <1>6, <1>7, <1>8, <1>9 DEF SoundHoles

(* A document without errors, whose holes and cutouts can be cut.          *)
LEMMA ValidPart ==
  ASSUME NEW doc, SoundDoc(doc), SoundHoles(doc), Errors(doc) = {}
  PROVE  SoundPart(doc)
  <1>1. doc.base \in BaseFeature /\ BaseFits(doc.base)
    BY DEF SoundDoc
  <1>2. doc.base.kind \in Profiled => ProfileErrors(doc.base) = {}
    BY ValidProfile
  <1>3. doc.cutouts # {} => doc.base.kind = "enclosure"
    <2>1. CutoutErrors(doc) = {}
      BY DEF Errors
    <2>2. Code(doc.cutouts # {} /\ doc.base.kind # "enclosure", "cutout_requires_enclosure") = {}
      BY <2>1 DEF CutoutErrors
    <2>. QED
      BY <2>2 DEF Code
  <1>4. doc.base.kind = "profile_revolution" => DOMAIN doc.holes = {} /\ doc.cutouts = {}
    <2>. SUFFICES ASSUME doc.base.kind = "profile_revolution"
                  PROVE  doc.holes = <<>> /\ doc.cutouts = {}
      OBVIOUS
    <2>1. RevolutionFeatureErrors(doc) = {}
      BY DEF Errors
    <2>2. Code(doc.holes # <<>> \/ doc.cutouts # {},
               "revolution_secondary_feature_unsupported") = {}
      BY <2>1 DEF RevolutionFeatureErrors
    <2>. QED
      BY <2>2 DEF Code
  <1>. QED
    BY <1>1, <1>2, <1>3, <1>4 DEF SoundPart, SoundHoles

(* A backend is chosen.                                                    *)
LEMMA BuildMakesIt ==
  ASSUME DrawInv, SolidInv, NEW b \in Backends, Build(b)
  PROVE  SolidInv'
  <1>1. /\ pc = "done" /\ errors = {} /\ pc' = "built"
        /\ backend' = b /\ source' = SourceOf(b, document) /\ document' = document
    BY DEF Build, request, result
  <1>2. SoundDoc(document) /\ errors = Errors(document) /\ SoundHoles(document)
    BY <1>1 DEF DrawInv, SolidInv
  <1>3. SoundPart(document)
    BY <1>1, <1>2, ValidPart
  <1>4. Points(document) \subseteq Place
    BY <1>2, <1>3, PointsArePlaces DEF SoundHoles
  <1>5. SourceOf(b, document).edges = document.edges
    <2>1. SourceOf(b, document)
            = Assembled(document, BaseBy(b, document.base), HolesBy(b, document),
                        CutoutsBy(b, document))
      BY AssembledBy
    <2>. QED
      BY <2>1 DEF Assembled
  <1>6. ASSUME NEW p \in Points(document), Clear(p, document)
        PROVE  InSource(p, SourceOf(b, document)) <=>
                 Means(p, document) /\ (b = "openscad" => ~StrayHeadAt(p, document))
    BY <1>3, <1>4, <1>6, SourceMeans
  <1>7. SameSolid'
    <2>1. /\ source'.edges = document'.edges
          /\ \A p \in {q \in Points(document') : Clear(q, document')} :
               InSource(p, source') <=>
                 Means(p, document') /\ (backend' = "openscad" => ~StrayHeadAt(p, document'))
      BY <1>1, <1>5, <1>6
    <2>. QED
      BY <2>1 DEF SameSolid, StrayHeadAt
  <1>. QED
    BY <1>1, <1>7 DEF SolidInv

(* A step that compiles nothing.                                           *)
LEMMA SolidStays ==
  ASSUME SolidInv, backend' = backend, pc # "built",
         pc' \in {"validate", "analysed", "done"} => SoundHoles(document')
  PROVE  SolidInv'
  <1>1. ~Built
    BY DEF SolidInv
  <1>2. ~Built' /\ SameSolid'
    BY <1>1 DEF Built, SameSolid
  <1>3. pc' \in {"validate", "analysed", "done"} => SoundHoles(document)'
    OBVIOUS
  <1>. QED
    BY <1>2, <1>3 DEF SolidInv

LEMMA SolidInit ==
  ASSUME PartInit
  PROVE  SolidInv
  <1>1. /\ backend = "none" /\ pc \in {"read", "plan", "validate"}
        /\ pc = "validate" => document \in Documents
    BY DEF PartInit, Init, PlanInit
  <1>2. pc = "validate" => SoundHoles(document)
    BY <1>1, PostedHoles
  <1>. QED
    BY <1>1, <1>2 DEF SolidInv, Built

(* Every step keeps the invariant.                                         *)
LEMMA SolidNext ==
  ASSUME SolidInv, DrawInv, HolesInv, PlanInv, [PartNext]_partVars
  PROVE  SolidInv'
  <1>1. CASE UNCHANGED partVars
    <2>1. UNCHANGED <<pc, document, backend, source>>
      BY <1>1 DEF partVars, vars, part
    <2>2. (SameSolid <=> SameSolid') /\ (Built <=> Built')
      BY <2>1 DEF SameSolid, Built
    <2>3. SoundHoles(document) <=> SoundHoles(document)'
      BY <2>1
    <2>. QED
      BY <2>1, <2>2, <2>3 DEF SolidInv
  <1>2. CASE Next /\ UNCHANGED <<plan, part, paper>>
    <2>1. backend' = backend
      BY <1>2 DEF part
    <2>2. CASE EarlyStep \/ BuildTree \/ Confirm
      <3>1. pc # "built" /\ pc' \notin {"validate", "analysed", "done"}
        BY <2>2
        DEF EarlyStep, ReadEntity, RefuseEntity, RefuseLines, EndOfDrawing, Link, Retry,
            RefuseChain, RefuseShape, InferOperation, GroupPattern, SkipCircle, RefuseTree,
            Refuse, BuildTree, Confirm
      <3>. QED
        BY <2>1, <3>1, SolidStays
    <2>3. CASE Convert
      <3>1. pc = "convert" /\ drawing.mode # "posted"
        BY <2>3 DEF Convert, DrawInv, Uploaded
      <3>2. SoundHoles(document')
        BY <2>3, <3>1, ConvertedHoles
      <3>. QED
        BY <2>1, <3>1, <3>2, SolidStays
    <2>4. CASE Validate
      <3>1. pc = "validate" /\ document' = document
        BY <2>4 DEF Validate
      <3>2. SoundHoles(document')
        BY <3>1 DEF SolidInv
      <3>. QED
        BY <2>1, <3>1, <3>2, SolidStays
    <2>. QED
      BY <1>2, <2>2, <2>3, <2>4 DEF Next, EarlyStep
  <1>3. CASE PlanNext /\ UNCHANGED <<part, paper>>
    <2>1. backend' = backend
      BY <1>3 DEF part
    <2>2. pc \in Planned
      BY <1>3 DEF PlanNext, PlanByAgent, AgentFails, AskRules, NotConfigured, AskLlm, Answered,
             CallFails, Declined, Unforeseen, PlanByRules, UsePlan, Planned
    <2>3. \/ pc' \in Planned \cup {"refused"}
          \/ pc = "planned" /\ pc' = "validate" /\ document' = document
      BY <1>3, <2>2 DEF PlanNext, PlanByAgent, AgentFails, AskRules, NotConfigured, AskLlm,
             Answered, CallFails, Declined, Unforeseen, PlanByRules, UsePlan, Made, LlmFails,
             PlannerError, Planned
    <2>4. pc' \in {"validate", "analysed", "done"} => SoundHoles(document')
      <3>1. pc' \in {"validate", "analysed", "done"} => pc = "planned" /\ document' = document
        BY <2>3 DEF Planned
      <3>2. pc = "planned" => SoundHoles(document)
        BY PlannedHoles
      <3>. QED
        BY <3>1, <3>2
    <2>. QED
      BY <2>1, <2>2, <2>4, SolidStays DEF Planned
  <1>4. ASSUME NEW b \in Backends, Build(b) PROVE SolidInv'
    BY <1>4, BuildMakesIt
  <1>5. CASE Template
    <2>1. /\ pc \in {"analysed", "done"} /\ backend' = backend
          /\ pc' \in {pc, "packaged"} /\ document' = document
      BY <1>5 DEF Template, part, request, result
    <2>2. SoundHoles(document')
      BY <2>1 DEF SolidInv
    <2>. QED
      BY <2>1, <2>2, SolidStays
  <1>6. ASSUME NEW more \in Additions, Package(more) PROVE SolidInv'
    <2>1. pc = "done" /\ pc' = "packaged" /\ backend' = backend
      BY <1>6 DEF Package, part
    <2>. QED
      BY <2>1, SolidStays
  <1>. QED
    BY <1>1, <1>2, <1>3, <1>4, <1>5, <1>6 DEF PartNext

LEMMA SolidInvariant == PartSpec => []SolidInv
  <1>1. SolidInv /\ DrawInv /\ HolesInv /\ PlanInv
          /\ [PartNext]_<<vars, plan, part, paper>> => SolidInv'
    BY SolidNext DEF partVars
  <1>2. PartInit => SolidInv
    BY SolidInit
  <1>. QED
    BY <1>1, <1>2, DrawInvariant, HolesInvariant, PlanInvariant, PTL DEF PartSpec

(* Whichever of the four compilers makes a part from a document without    *)
(* errors, the part is the same: at every point between the planes, edges  *)
(* and rims of the document, away from where cutters stand out, there is   *)
(* material exactly where the document means it, but for the heads that    *)
(* OpenSCAD cuts for holes whose type has none.  For every drawing, prompt *)
(* and posted document.                                                    *)
THEOREM CompilersAgree == PartSpec => []SameSolid
  <1>1. SolidInv => SameSolid
    BY DEF SolidInv, SameSolid
  <1>. QED
    BY <1>1, SolidInvariant, PTL

=============================================================================
