---------------------- MODULE CollisionDetectorProofs ----------------------
(***************************************************************************)
(* Theorems about Movement and CollisionDetector, which extends it, for    *)
(* all roads, positions, widths, lengths and tolerances.                   *)
(*                                                                         *)
(* In Movement: what one road of the loop does, and what the whole loop    *)
(* does in any order (Reaches); a dog is always at a point of some road,   *)
(* so it stays at the roads and never hangs; and if no tick leads past a   *)
(* whole point (ShortTicks), two ticks are as good as one, and a dog stops *)
(* only where no road leads on.                                            *)
(*                                                                         *)
(* In CollisionDetector: what TryCollectPoint computes; the difference of  *)
(* squares in the code is the squared distance from the line (Lagrange's   *)
(* identity), its proj_ratio compares as the two half-planes at the ends   *)
(* of the segment do, a segment along a road can be cut anywhere without   *)
(* an item being missed, and the events of several dogs come in order.     *)
(***************************************************************************)
EXTENDS CollisionDetector, FiniteSetTheorems, WellFoundedInduction, TLAPS

(* Induction along a sequence.                                             *)

\* A set of numbers has a least one.
LEMMA LeastNumber ==
    ASSUME NEW T \in SUBSET Nat, T # {}
    PROVE  \E x \in T : \A y \in T : x =< y
<1>. DEFINE R == {ss \in Nat \X Nat : ss[1] < ss[2]}
<1>1. IsWellFoundedOn(R, Nat)
  BY NatLessThanWellFounded, Zenon DEF OpToRel
<1>2. \A x \in Nat, y \in Nat : y < x => <<y, x>> \in R
  OBVIOUS
<1>. HIDE DEF R
<1>3. \E x \in T : \A y \in T : <<y, x>> \notin R
  BY <1>1, WFMin, Zenon
<1>4. PICK x \in T : \A y \in T : <<y, x>> \notin R
  BY <1>3
<1>5. ASSUME NEW y \in T PROVE x =< y
  <2>1. ~(y < x) /\ x \in Nat /\ y \in Nat
    BY <1>2, <1>4
  <2>. QED  BY <2>1
<1>. QED  BY <1>5

\* What holds at 0 and is passed on from each number to the next.
LEMMA UpTo ==
    ASSUME NEW n \in Nat, NEW P \in SUBSET (0 .. n), 0 \in P,
           \A k \in 1 .. n : k - 1 \in P => k \in P
    PROVE  P = 0 .. n
<1>1. SUFFICES ASSUME (0 .. n) \ P # {} PROVE FALSE
  OBVIOUS
<1>2. (0 .. n) \ P \in SUBSET Nat
  OBVIOUS
<1>3. PICK k \in (0 .. n) \ P : \A j \in (0 .. n) \ P : k =< j
  BY <1>1, <1>2, LeastNumber, Zenon
<1>4. k \in 1 .. n /\ k - 1 \in 0 .. n /\ ~(k =< k - 1)
  BY <1>3
<1>5. k - 1 \in P
  BY <1>3, <1>4, Zenon
<1>. QED  BY <1>3, <1>4, <1>5, Zenon

Iterates(n, first, step, after) ==
    after[0] = first /\ \A k \in 1 .. n : after[k] = step[k][after[k - 1]]

\* A value that is made from the one before, for each place of a sequence, can be
\* given for all places at once.
LEMMA Iteration ==
    ASSUME NEW S, NEW n \in Nat, NEW first \in S, NEW step \in [1 .. n -> [S -> S]]
    PROVE  \E after \in [0 .. n -> S] : Iterates(n, first, step, after)
<1>. DEFINE Until(k, f) == /\ f \in [0 .. k -> S]
                           /\ f[0] = first
                           /\ \A j \in 1 .. k : f[j] = step[j][f[j - 1]]
            P == {k \in 0 .. n : \E f : Until(k, f)}
<1>1. 0 \in P
  <2>1. Until(0, [j \in 0 .. 0 |-> first])
    OBVIOUS
  <2>2. 0 \in 0 .. n
    OBVIOUS
  <2>. HIDE DEF Until
  <2>. QED  BY <2>1, <2>2
<1>2. ASSUME NEW k \in 1 .. n, k - 1 \in P PROVE k \in P
  <2>1. PICK f : Until(k - 1, f)
    BY <1>2
  <2>. DEFINE g == [j \in 0 .. k |-> IF j = k THEN step[k][f[k - 1]] ELSE f[j]]
  <2>2. f[k - 1] \in S /\ step[k][f[k - 1]] \in S
    BY <2>1
  <2>3. g \in [0 .. k -> S] /\ g[0] = first
    BY <2>1, <2>2
  <2>4. ASSUME NEW j \in 1 .. k PROVE g[j] = step[j][g[j - 1]]
    <3>1. j - 1 \in 0 .. k /\ j - 1 # k /\ g[j - 1] = f[j - 1]
      OBVIOUS
    <3>2. CASE j = k
      BY <3>1, <3>2
    <3>3. CASE j # k
      <4>1. j \in 1 .. k - 1 /\ g[j] = f[j]
        BY <3>3
      <4>. QED  BY <2>1, <3>1, <4>1
    <3>. QED  BY <3>2, <3>3
  <2>5. Until(k, g)
    BY <2>3, <2>4
  <2>6. k \in 0 .. n
    OBVIOUS
  <2>. HIDE DEF Until, g
  <2>. QED  BY <2>5, <2>6
<1>. HIDE DEF Until
<1>3. n \in P
  <2>1. P \in SUBSET (0 .. n)
    OBVIOUS
  <2>. HIDE DEF P
  <2>2. P = 0 .. n
    BY <1>1, <1>2, <2>1, UpTo
  <2>. QED  BY <2>2
<1>4. PICK f : Until(n, f)
  BY <1>3
<1>. QED  BY <1>4 DEF Until, Iterates
-----------------------------------------------------------------------------
(* Movement.                                                               *)

\* How far a dog is after some of the roads, and whether it has to stop.
Progress == [reached : Int, stop : BOOLEAN]

LEMMA LimitType ==
    ASSUME NEW d \in Directions, NEW r \in Roads PROVE Limit(d, r) \in Int
  <1>1. Axis(d) \in {"x", "y"} /\ Sign(d) \in Int
    BY DEF Axis, Sign
  <1>2. r.from[Axis(d)] \in Int /\ r.to[Axis(d)] \in Int
    BY <1>1, RoadsAssumption DEF Points
  <1> QED
    BY <1>1, <1>2 DEF Limit, Larger, Unit, HalfWidth

\* What a road of the loop does to a dog that can go as far as expected.
LEMMA VisitType ==
    ASSUME NEW d \in Directions, NEW r \in Roads, NEW expected \in Int, NEW at \in Progress
    PROVE  Visit(d, expected, at, r) \in Progress
  BY LimitType DEF Visit, Progress, Larger

\* A road takes no dog back, and none farther than it could run in the tick
\* (application.h:69-76).
THEOREM VisitLeadsForward ==
    ASSUME NEW d \in Directions, NEW r \in Roads, NEW expected \in Int,
           NEW at \in Progress, at.reached =< expected
    PROVE  Visit(d, expected, at, r).reached \in at.reached .. expected
  BY LimitType DEF Visit, Progress, Larger

\* Two roads of a cell can be visited in either order: a dog that is stopped at
\* the end of the one and led on by the other runs on, whichever comes first
\* (application.h:68-78; the order is that of the addresses of the roads).
THEOREM VisitsCommute ==
    ASSUME NEW d \in Directions, NEW r \in Roads, NEW s \in Roads,
           NEW expected \in Int, NEW at \in Progress
    PROVE  Visit(d, expected, Visit(d, expected, at, r), s)
             = Visit(d, expected, Visit(d, expected, at, s), r)
  <1>1. Limit(d, r) \in Int /\ Limit(d, s) \in Int
    BY LimitType
  <1>2. CASE expected =< at.reached
    BY <1>2 DEF Visit
  <1>3. CASE expected > at.reached /\ expected > Limit(d, r) /\ expected > Limit(d, s)
    <2> DEFINE Stopped(n) == [reached |-> n, stop |-> TRUE]
    <2>1. /\ Visit(d, expected, at, r) = Stopped(Larger(at.reached, Limit(d, r)))
          /\ Visit(d, expected, at, s) = Stopped(Larger(at.reached, Limit(d, s)))
      BY <1>1, <1>3 DEF Visit, Progress
    <2>2. \A n \in Int, t \in {r, s} : n < expected =>
            Visit(d, expected, Stopped(n), t) = Stopped(Larger(n, Limit(d, t)))
      BY <1>1, <1>3 DEF Visit
    <2>3. /\ Larger(at.reached, Limit(d, r)) \in Int
          /\ Larger(at.reached, Limit(d, s)) \in Int
          /\ Larger(at.reached, Limit(d, r)) < expected
          /\ Larger(at.reached, Limit(d, s)) < expected
          /\ Larger(Larger(at.reached, Limit(d, r)), Limit(d, s))
               = Larger(Larger(at.reached, Limit(d, s)), Limit(d, r))
      BY <1>1, <1>3 DEF Larger, Progress
    <2> HIDE DEF Stopped
    <2> QED
      BY <2>1, <2>2, <2>3
  <1>4. CASE expected > at.reached /\ ~(expected > Limit(d, r))
    BY <1>1, <1>4 DEF Visit, Progress, Larger
  <1>5. CASE expected > at.reached /\ ~(expected > Limit(d, s))
    BY <1>1, <1>5 DEF Visit, Progress, Larger
  <1> QED
    BY <1>1, <1>2, <1>3, <1>4, <1>5 DEF Progress
-----------------------------------------------------------------------------
(* The loop over the roads as a whole.                                     *)

\* What the loop comes to after the roads of a set, in whatever order.
Reaches(d, start, step, S, at) ==
    /\ at \in Progress
    /\ step = 0 => at = [reached |-> start, stop |-> FALSE]
    /\ step > 0 =>
         IF \E r \in S : start + step =< Limit(d, r)
         THEN at = [reached |-> start + step, stop |-> FALSE]
         ELSE /\ start =< at.reached /\ at.reached < start + step
              /\ \A r \in S : Limit(d, r) =< at.reached
              /\ at.reached = start \/ \E r \in S : at.reached = Limit(d, r)
              /\ at.stop <=> S # {}

LEMMA ReachesOneMore ==
    ASSUME NEW d \in Directions, NEW start \in Int, NEW step \in Nat,
           NEW S \in SUBSET Roads, NEW r \in Roads, NEW T, T = S \cup {r},
           NEW at, Reaches(d, start, step, S, at)
    PROVE  Reaches(d, start, step, T, Visit(d, start + step, at, r))
  <1>. DEFINE expected == start + step
              to == Visit(d, expected, at, r)
  <1>1. /\ at \in Progress /\ to \in Progress /\ expected \in Int
        /\ \A q \in T : Limit(d, q) \in Int
    BY LimitType, VisitType DEF Reaches
  <1>2. at.reached \in Int /\ at.stop \in BOOLEAN /\ Limit(d, r) \in Int
    BY <1>1 DEF Progress
  <1>3. CASE step = 0
    <2>1. at = [reached |-> start, stop |-> FALSE] /\ expected = start
      BY <1>3 DEF Reaches
    <2>2. to = at
      BY <2>1 DEF Visit
    <2>. QED  BY <1>3, <1>1, <2>1, <2>2 DEF Reaches
  <1>4. CASE step > 0 /\ \E q \in S : expected =< Limit(d, q)
    <2>1. at = [reached |-> expected, stop |-> FALSE]
      BY <1>4 DEF Reaches
    <2>2. to = at
      BY <1>1, <2>1 DEF Visit
    <2>. QED  BY <1>4, <1>1, <2>1, <2>2 DEF Reaches
  <1>5. CASE step > 0 /\ ~ \E q \in S : expected =< Limit(d, q)
    <2>1. /\ start =< at.reached /\ at.reached < expected
          /\ \A q \in S : Limit(d, q) =< at.reached
          /\ at.reached = start \/ \E q \in S : at.reached = Limit(d, q)
      BY <1>5 DEF Reaches
    <2>2. ~(expected =< at.reached)
      BY <1>1, <1>2, <2>1
    <2>3. CASE expected =< Limit(d, r)
      <3>1. to = [reached |-> expected, stop |-> FALSE]
        BY <1>1, <1>2, <2>2, <2>3 DEF Visit
      <3>. QED  BY <1>1, <1>5, <2>3, <3>1 DEF Reaches
    <2>4. CASE ~(expected =< Limit(d, r))
      <3>1. to = [reached |-> Larger(at.reached, Limit(d, r)), stop |-> TRUE]
        BY <1>1, <1>2, <2>2, <2>4 DEF Visit
      <3>2. /\ to.stop = TRUE
            /\ to.reached = Larger(at.reached, Limit(d, r))
        BY <3>1
      <3>3. /\ to.reached \in Int /\ start =< to.reached /\ to.reached < expected
            /\ at.reached =< to.reached /\ Limit(d, r) =< to.reached
            /\ to.reached = at.reached \/ to.reached = Limit(d, r)
        BY <1>1, <1>2, <2>1, <2>4, <3>2 DEF Larger
      <3>4. \A q \in T : Limit(d, q) =< to.reached
        BY <1>1, <1>2, <2>1, <3>3
      <3>5. to.reached = start \/ \E q \in T : to.reached = Limit(d, q)
        BY <2>1, <3>3
      <3>6. ~ \E q \in T : expected =< Limit(d, q)
        BY <1>1, <3>3, <3>4
      <3>. HIDE DEF to, expected
      <3>7. to.stop <=> T # {}
        BY <3>2
      <3>8. /\ start =< to.reached /\ to.reached < start + step
            /\ ~ \E q \in T : start + step =< Limit(d, q)
        BY <3>3, <3>6 DEF expected
      <3>9. Reaches(d, start, step, T, to)
        BY <1>1, <1>5, <3>8, <3>4, <3>5, <3>7 DEF Reaches
      <3>. QED  BY <3>9 DEF to, expected
    <2>. QED  BY <2>3, <2>4
  <1>. QED  BY <1>3, <1>4, <1>5

\* The loop as it goes from road to road.
LEMMA RunUnfolds ==
    ASSUME NEW d \in Directions, NEW p \in Points, NEW step \in Nat,
           NEW n \in Nat, NEW order \in [1 .. n -> Roads]
    PROVE  \E after \in [0 .. n -> Progress] :
             /\ after[0] = [reached |-> Along(d, p), stop |-> FALSE]
             /\ \A k \in 1 .. n :
                  after[k] = Visit(d, Along(d, p) + step, after[k - 1], order[k])
             /\ Run(d, p, step, order) = after[n]
  <1>. DEFINE first == [reached |-> Along(d, p), stop |-> FALSE]
              expected == Along(d, p) + step
              visit == [k \in 1 .. n |-> [at \in Progress |-> Visit(d, expected, at, order[k])]]
              Whole(f) == f = [k \in 0 .. n |-> IF k = 0 THEN first
                                               ELSE Visit(d, expected, f[k - 1], order[k])]
              chosen == CHOOSE f : Whole(f)
  <1>1. Axis(d) \in {"x", "y"} /\ Sign(d) \in Int
    BY DEF Axis, Sign
  <1>2. Along(d, p) \in Int /\ expected \in Int
    BY <1>1 DEF Along, Points
  <1>3. first \in Progress
    BY <1>2 DEF Progress
  <1>4. visit \in [1 .. n -> [Progress -> Progress]]
    BY <1>2, VisitType
  <1>5. PICK after \in [0 .. n -> Progress] :
          after[0] = first /\ \A k \in 1 .. n : after[k] = visit[k][after[k - 1]]
    <2>. HIDE DEF first, visit
    <2>1. PICK after \in [0 .. n -> Progress] : Iterates(n, first, visit, after)
      BY <1>3, <1>4, Iteration
    <2>. QED  BY <2>1 DEF Iterates
  <1>6. \A k \in 1 .. n : after[k] = Visit(d, expected, after[k - 1], order[k])
    <2>1. \A k \in 1 .. n : k - 1 \in 0 .. n
      OBVIOUS
    <2>. QED  BY <1>5, <2>1
  <1>7. Whole(after)
    <2>. HIDE DEF first, expected
    <2>. QED  BY <1>5, <1>6
  <1>8. Whole(chosen)
    <2>. HIDE DEF Whole
    <2>. QED  BY <1>7
  <1>9. /\ chosen[0] = first
        /\ \A k \in 1 .. n : chosen[k] = Visit(d, expected, chosen[k - 1], order[k])
        /\ DOMAIN chosen = 0 .. n
    <2>. HIDE DEF first, expected, chosen
    <2>. QED  BY <1>8
  <1>. HIDE DEF first, expected, visit
  <1>10. \A k \in 0 .. n : chosen[k] = after[k]
    <2>. HIDE DEF chosen
    <2>. DEFINE P == {k \in 0 .. n : chosen[k] = after[k]}
    <2>1. 0 \in P
      BY <1>5, <1>9
    <2>2. \A k \in 1 .. n : k - 1 \in P => k \in P
      BY <1>6, <1>9
    <2>3. P \in SUBSET (0 .. n)
      OBVIOUS
    <2>. HIDE DEF P
    <2>4. P = 0 .. n
      BY <2>1, <2>2, <2>3, UpTo
    <2>. QED  BY <2>4 DEF P
  <1>11. Run(d, p, step, order) = chosen[n]
    <2>1. Len(order) = n
      OBVIOUS
    <2>. QED  BY <2>1 DEF Run, first, expected
  <1>12. Run(d, p, step, order) = after[n]
    BY <1>10, <1>11
  <1>. HIDE DEF chosen
  <1>. QED  BY <1>5, <1>6, <1>12, Zenon DEF first, expected

LEMMA RunReaches ==
    ASSUME NEW d \in Directions, NEW p \in Points, NEW step \in Nat,
           NEW n \in Nat, NEW order \in [1 .. n -> Roads]
    PROVE  Reaches(d, Along(d, p), step, {order[k] : k \in 1 .. n}, Run(d, p, step, order))
  <1>. DEFINE start == Along(d, p)
  <1>1. start \in Int
    BY DEF Along, Axis, Sign, Directions, Points
  <1>2. PICK after \in [0 .. n -> Progress] :
             /\ after[0] = [reached |-> start, stop |-> FALSE]
             /\ \A k \in 1 .. n : after[k] = Visit(d, start + step, after[k - 1], order[k])
             /\ Run(d, p, step, order) = after[n]
    BY RunUnfolds, Zenon
  <1>. HIDE DEF start
  <1>. DEFINE Visited(k) == {order[j] : j \in 1 .. k}
              P == {k \in 0 .. n : Reaches(d, start, step, Visited(k), after[k])}
  <1>3. 0 \in P
    <2>1. Visited(0) = {}
      OBVIOUS
    <2>. HIDE DEF Visited
    <2>. QED  BY <1>1, <1>2, <2>1 DEF Reaches
  <1>4. ASSUME NEW k \in 1 .. n, k - 1 \in P PROVE k \in P
    <2>1. Visited(k) = Visited(k - 1) \cup {order[k]}
      <3>1. \A j : j \in 1 .. k <=> j \in 1 .. k - 1 \/ j = k
        OBVIOUS
      <3>. QED  BY <3>1
    <2>2. Visited(k - 1) \in SUBSET Roads /\ order[k] \in Roads
      <3>1. \A j \in 1 .. k - 1 : j \in 1 .. n
        OBVIOUS
      <3>. QED  BY <3>1
    <2>. HIDE DEF Visited
    <2>3. Reaches(d, start, step, Visited(k - 1), after[k - 1])
      BY <1>4
    <2>4. after[k] = Visit(d, start + step, after[k - 1], order[k])
      BY <1>2
    <2>. DEFINE before == Visited(k - 1)
                at == after[k - 1]
                r == order[k]
    <2>5. Reaches(d, start, step, before \cup {r}, Visit(d, start + step, at, r))
      <3>1. before \in SUBSET Roads /\ r \in Roads /\ Reaches(d, start, step, before, at)
        BY <2>2, <2>3
      <3>. HIDE DEF before, at, r
      <3>. QED  BY <1>1, <3>1, ReachesOneMore
    <2>6. Reaches(d, start, step, Visited(k), after[k])
      BY <2>1, <2>4, <2>5, Zenon
    <2>. QED  BY <2>6
  <1>5. P \in SUBSET (0 .. n)
    OBVIOUS
  <1>. HIDE DEF P
  <1>6. P = 0 .. n
    BY <1>3, <1>4, <1>5, UpTo
  <1>7. n \in P
    BY <1>6
  <1>8. Reaches(d, start, step, Visited(n), after[n])
    BY <1>7 DEF P
  <1>. QED  BY <1>2, <1>8 DEF start

\* All roads of the place of a dog are visited, in each of the orders.
LEMMA OrdersVisitAll ==
    ASSUME NEW p, NEW o \in Orders(p)
    PROVE  \E n \in Nat : o \in [1 .. n -> Roads] /\ {o[k] : k \in 1 .. n} = RoadMap(Cell(p))
  <1>. DEFINE S == RoadMap(Cell(p))
              n == Cardinality(S)
              T == {o[k] : k \in 1 .. n}
  <1>1. S \in SUBSET Roads
    BY DEF RoadMap
  <1>2. IsFiniteSet(S) /\ n \in Nat
    BY <1>1, RoadsAssumption, FS_Subset, FS_CardinalityType
  <1>3. o \in [1 .. n -> S] /\ \A i, j \in 1 .. n : i # j => o[i] # o[j]
    BY DEF Orders, SetToSeqs
  <1>. HIDE DEF S, n
  <1>4. o \in Injection(1 .. n, S)
    BY <1>3 DEF Injection, IsInjective
  <1>5. Cardinality(1 .. n) = Cardinality(S)
    <2>1. Cardinality(1 .. n) = n
      BY <1>2, FS_Interval
    <2>. QED  BY <2>1 DEF n
  <1>6. o \in Surjection(1 .. n, S)
    BY <1>2, <1>4, <1>5, FS_Injection
  <1>7. T = S
    BY <1>3, <1>6 DEF Surjection
  <1>8. o \in [1 .. n -> Roads]
    BY <1>1, <1>3
  <1>. QED  BY <1>2, <1>7, <1>8 DEF S

LEMMA OrdersExist == ASSUME NEW p PROVE Orders(p) # {}
  <1>. DEFINE S == RoadMap(Cell(p))
              n == Cardinality(S)
  <1>1. S \in SUBSET Roads
    BY DEF RoadMap
  <1>2. ExistsBijection(1 .. n, S)
    BY <1>1, RoadsAssumption, FS_Subset, FS_CardinalityType
  <1>3. PICK o : o \in Injection(1 .. n, S)
    BY <1>2 DEF ExistsBijection, Bijection
  <1>4. o \in [1 .. n -> S] /\ \A i, j \in 1 .. n : i # j => o[i] # o[j]
    <2>. HIDE DEF S, n
    <2>. QED  BY <1>3 DEF Injection, IsInjective
  <1>5. o \in Orders(p)
    BY <1>4 DEF Orders, SetToSeqs
  <1>. QED  BY <1>5

\* What the loop comes to at a place.
LEMMA RunAtPlace ==
    ASSUME NEW d \in Directions, NEW p \in Points, NEW step \in Nat, NEW o \in Orders(p)
    PROVE  Reaches(d, Along(d, p), step, RoadMap(Cell(p)), Run(d, p, step, o))
  <1>1. PICK n \in Nat : o \in [1 .. n -> Roads] /\ {o[k] : k \in 1 .. n} = RoadMap(Cell(p))
    BY OrdersVisitAll
  <1>2. Reaches(d, Along(d, p), step, {o[k] : k \in 1 .. n}, Run(d, p, step, o))
    BY <1>1, RunReaches
  <1>. QED  BY <1>1, <1>2

\* There is one place that the loop can come to.
LEMMA ReachesOnce ==
    ASSUME NEW d \in Directions, NEW start \in Int, NEW step \in Nat,
           NEW S \in SUBSET Roads, NEW at, NEW to,
           Reaches(d, start, step, S, at), Reaches(d, start, step, S, to)
    PROVE  at = to
  <1>1. CASE step = 0
    BY <1>1 DEF Reaches
  <1>2. CASE step > 0 /\ \E r \in S : start + step =< Limit(d, r)
    BY <1>2 DEF Reaches
  <1>3. CASE step > 0 /\ ~ \E r \in S : start + step =< Limit(d, r)
    <2>1. /\ at \in Progress /\ to \in Progress
          /\ start =< at.reached /\ start =< to.reached
          /\ \A r \in S : Limit(d, r) =< at.reached /\ Limit(d, r) =< to.reached
          /\ at.reached = start \/ \E r \in S : at.reached = Limit(d, r)
          /\ to.reached = start \/ \E r \in S : to.reached = Limit(d, r)
          /\ at.stop <=> to.stop
      BY <1>3 DEF Reaches
    <2>2. at.reached \in Int /\ to.reached \in Int
          /\ at.stop \in BOOLEAN /\ to.stop \in BOOLEAN
      BY <2>1 DEF Progress
    <2>3. at.reached =< to.reached /\ to.reached =< at.reached
      BY <2>1
    <2>4. at.reached = to.reached /\ at.stop = to.stop
      BY <2>1, <2>2, <2>3
    <2>. QED  BY <2>1, <2>4 DEF Progress
  <1>. QED  BY <1>1, <1>2, <1>3

LEMMA AlongType ==
    ASSUME NEW d \in Directions, NEW p \in Points PROVE Along(d, p) \in Int
  BY DEF Along, Axis, Sign, Directions, Points

\* All orders of the roads lead a dog to one place (model.h:197,
\* application.h:68-78; the order is that of the addresses of the roads).
LEMMA OneResult ==
    ASSUME NEW d \in Directions, NEW p \in Points, NEW step \in Nat,
           NEW o1 \in Orders(p), NEW o2 \in Orders(p)
    PROVE  Run(d, p, step, o1) = Run(d, p, step, o2)
  <1>1. RoadMap(Cell(p)) \in SUBSET Roads
    BY DEF RoadMap
  <1>. QED  BY <1>1, AlongType, RunAtPlace, ReachesOnce
-----------------------------------------------------------------------------
(* Rounding and the points of roads.                                       *)

LEMMA RoundType == ASSUME NEW v \in Int PROVE Round(v) \in Int
  BY DEF Round, Unit

\* Rounding leads at most half a unit away.
LEMMA RoundIsNear ==
    ASSUME NEW v \in Int
    PROVE  Unit * Round(v) - 5 =< v /\ v =< Unit * Round(v) + 5
  BY DEF Round, Unit

\* Rounding keeps the order of coordinates.
LEMMA RoundIsMonotone ==
    ASSUME NEW v \in Int, NEW w \in Int, v =< w PROVE Round(v) =< Round(w)
  BY DEF Round, Unit

\* Less than half a unit away from a whole number, rounding finds it.
LEMMA RoundIsExact ==
    ASSUME NEW n \in Int, NEW v \in Int, Unit * n - HalfWidth =< v, v =< Unit * n + HalfWidth
    PROVE  Round(v) = n
  BY DEF Round, Unit, HalfWidth

\* Rounding knows no direction.
LEMMA RoundIsOdd == ASSUME NEW v \in Int PROVE Round(-v) = -Round(v)
  BY DEF Round, Unit

\* The whole points of a road; the road map may enter the road at one more.
PointsOf(r) ==
    {c \in Points : \A z \in {"x", "y"} : /\ Smaller(r.from[z], r.to[z]) =< c[z]
                                         /\ c[z] =< Larger(r.from[z], r.to[z])}

\* Where a road ends for a dog that runs on it or across it.
Far(d, r) == Larger(Sign(d) * r.from[Axis(d)], Sign(d) * r.to[Axis(d)])

LEMMA RoadTypes ==
    ASSUME NEW r \in Roads
    PROVE  /\ r.axis \in {"x", "y"}
           /\ r.from \in Points /\ r.to \in Points
           /\ \A z \in {"x", "y"} : r.from[z] \in Int /\ r.to[z] \in Int
           /\ \A z \in {"x", "y"} : z # r.axis => r.from[z] = r.to[z]
  BY RoadsAssumption DEF Points

LEMMA DirectionTypes ==
    ASSUME NEW d \in Directions
    PROVE  Axis(d) \in {"x", "y"} /\ Sign(d) \in {1, -1}
  BY DEF Axis, Sign

LEMMA CellType == ASSUME NEW p \in Points PROVE Cell(p) \in Points
  BY RoundType DEF Cell, Points

LEMMA CellAt ==
    ASSUME NEW p \in Points, NEW z \in {"x", "y"} PROVE Cell(p)[z] = Round(p[z])
  BY DEF Cell

\* Where the road map enters a road.
LEMMA CellsOfRoad ==
    ASSUME NEW r \in Roads, NEW c \in Points
    PROVE  c \in CellsOf(r) <=>
             /\ \A z \in {"x", "y"} : z # r.axis => c[z] = r.from[z]
             /\ Smaller(r.from[r.axis], r.to[r.axis]) =< c[r.axis]
             /\ c[r.axis] =< IF r.from[r.axis] =< r.to[r.axis] THEN r.to[r.axis] + 1
                             ELSE r.from[r.axis]
  <1>. DEFINE a == r.from[r.axis]
              b == r.to[r.axis]
              last == IF a =< b THEN b + 1 ELSE a
              At(i) == [r.from EXCEPT ![r.axis] = i]
  <1>1. a \in Int /\ b \in Int /\ r.axis \in {"x", "y"} /\ r.from \in Points
    BY RoadTypes
  <1>2. Smaller(a, b) \in Int /\ last \in Int
    BY <1>1 DEF Smaller
  <1>3. c[r.axis] \in Int
    BY <1>1 DEF Points
  <1>4. \A i : At(i)[r.axis] = i /\ \A z \in {"x", "y"} : z # r.axis => At(i)[z] = r.from[z]
    BY <1>1 DEF Points
  <1>5. ASSUME NEW i, i = c[r.axis], \A z \in {"x", "y"} : z # r.axis => c[z] = r.from[z]
        PROVE  c = At(i)
    BY <1>1, <1>5 DEF Points
  <1>6. CellsOf(r) = {At(i) : i \in Smaller(a, b) .. last}
    BY DEF CellsOf
  <1>. HIDE DEF At, a, b, last
  <1>7. c \in CellsOf(r) <=> \E i \in Smaller(a, b) .. last : c = At(i)
    BY <1>6
  <1>8. c \in CellsOf(r) <=>
             /\ \A z \in {"x", "y"} : z # r.axis => c[z] = r.from[z]
             /\ Smaller(a, b) =< c[r.axis]
             /\ c[r.axis] =< last
    <2>1. ASSUME c \in CellsOf(r)
          PROVE  /\ \A z \in {"x", "y"} : z # r.axis => c[z] = r.from[z]
                 /\ Smaller(a, b) =< c[r.axis] /\ c[r.axis] =< last
      BY <2>1, <1>2, <1>4, <1>7
    <2>2. ASSUME \A z \in {"x", "y"} : z # r.axis => c[z] = r.from[z],
                 Smaller(a, b) =< c[r.axis], c[r.axis] =< last
          PROVE  c \in CellsOf(r)
      <3>1. c[r.axis] \in Smaller(a, b) .. last
        BY <1>2, <1>3, <2>2
      <3>. QED  BY <1>5, <1>7, <2>2, <3>1
    <2>. QED  BY <2>1, <2>2
  <1>. QED  BY <1>8 DEF a, b, last

LEMMA PointsAreEntered ==
    ASSUME NEW r \in Roads, NEW c \in PointsOf(r) PROVE c \in CellsOf(r)
  <1>1. c \in Points /\ \A z \in {"x", "y"} : c[z] \in Int
    BY DEF PointsOf, Points
  <1>2. \A z \in {"x", "y"} : /\ Smaller(r.from[z], r.to[z]) =< c[z]
                              /\ c[z] =< Larger(r.from[z], r.to[z])
    BY DEF PointsOf
  <1>3. \A z \in {"x", "y"} : z # r.axis => c[z] = r.from[z]
    BY <1>1, <1>2, RoadTypes DEF Smaller, Larger
  <1>4. c[r.axis] =< IF r.from[r.axis] =< r.to[r.axis] THEN r.to[r.axis] + 1
                     ELSE r.from[r.axis]
    <2>1. c[r.axis] =< Larger(r.from[r.axis], r.to[r.axis])
      BY <1>2, RoadTypes
    <2>. QED  BY <1>1, <2>1, RoadTypes DEF Larger
  <1>5. Smaller(r.from[r.axis], r.to[r.axis]) =< c[r.axis]
    BY <1>2, RoadTypes
  <1>. QED  BY <1>1, <1>3, <1>4, <1>5, CellsOfRoad

LEMMA LimitOfFar ==
    ASSUME NEW d \in Directions, NEW r \in Roads
    PROVE  Far(d, r) \in Int /\ Limit(d, r) = Unit * Far(d, r) + HalfWidth
  <1>1. r.from[Axis(d)] \in Int /\ r.to[Axis(d)] \in Int /\ Sign(d) \in Int
    BY RoadTypes, DirectionTypes
  <1>. QED  BY <1>1 DEF Limit, Far, Larger

\* On from a point where a road is entered, to no farther than its end, there
\* are only points of the road.
LEMMA Onward ==
    ASSUME NEW d \in Directions, NEW r \in Roads, NEW c \in CellsOf(r), c \in Points,
           NEW n \in Int, n # c[Axis(d)],
           Sign(d) * c[Axis(d)] =< Sign(d) * n, Sign(d) * n =< Far(d, r)
    PROVE  [c EXCEPT ![Axis(d)] = n] \in PointsOf(r)
  <1>. DEFINE e == [c EXCEPT ![Axis(d)] = n]
  <1>1. Axis(d) \in {"x", "y"} /\ Sign(d) \in {1, -1}
    BY DirectionTypes
  <1>2. c[Axis(d)] \in Int /\ e \in Points /\ e[Axis(d)] = n
        /\ \A z \in {"x", "y"} : z # Axis(d) => e[z] = c[z]
    BY <1>1 DEF Points
  <1>3. /\ \A z \in {"x", "y"} : z # r.axis => c[z] = r.from[z]
        /\ Smaller(r.from[r.axis], r.to[r.axis]) =< c[r.axis]
        /\ c[r.axis] =< IF r.from[r.axis] =< r.to[r.axis] THEN r.to[r.axis] + 1
                        ELSE r.from[r.axis]
    BY CellsOfRoad
  <1>4. Axis(d) = r.axis
    <2>1. ASSUME Axis(d) # r.axis PROVE FALSE
      <3>1. c[Axis(d)] = r.from[Axis(d)] /\ r.from[Axis(d)] = r.to[Axis(d)]
        BY <1>1, <1>3, <2>1, RoadTypes
      <3>2. Far(d, r) = Sign(d) * c[Axis(d)]
        BY <1>1, <1>2, <3>1 DEF Far, Larger
      <3>. QED  BY <1>1, <1>2, <3>2
    <2>. QED  BY <2>1
  <1>5. /\ Smaller(r.from[r.axis], r.to[r.axis]) =< n
        /\ n =< Larger(r.from[r.axis], r.to[r.axis])
    <2>. DEFINE a == r.from[r.axis]
                b == r.to[r.axis]
                k == c[r.axis]
    <2>1. a \in Int /\ b \in Int /\ k \in Int /\ k # n
      BY <1>2, <1>4, RoadTypes
    <2>2. /\ Smaller(a, b) =< k
          /\ k =< IF a =< b THEN b + 1 ELSE a
      BY <1>3
    <2>3. /\ Sign(d) * k =< Sign(d) * n
          /\ Sign(d) * n =< Larger(Sign(d) * a, Sign(d) * b)
      BY <1>4 DEF Far
    <2>. HIDE DEF a, b, k
    <2>4. ASSUME Sign(d) = 1 PROVE Smaller(a, b) =< n /\ n =< Larger(a, b)
      BY <2>1, <2>2, <2>3, <2>4 DEF Smaller, Larger
    <2>5. ASSUME Sign(d) = -1 PROVE Smaller(a, b) =< n /\ n =< Larger(a, b)
      BY <2>1, <2>2, <2>3, <2>5 DEF Smaller, Larger
    <2>6. Smaller(a, b) =< n /\ n =< Larger(a, b)
      BY <1>1, <2>4, <2>5
    <2>. QED  BY <2>6 DEF a, b
  <1>6. ASSUME NEW z \in {"x", "y"}, z # r.axis
        PROVE  /\ Smaller(r.from[z], r.to[z]) =< e[z]
               /\ e[z] =< Larger(r.from[z], r.to[z])
    <2>1. e[z] = r.from[z] /\ r.from[z] = r.to[z] /\ r.from[z] \in Int
      BY <1>2, <1>3, <1>4, <1>6, RoadTypes
    <2>. QED  BY <2>1 DEF Smaller, Larger
  <1>. QED  BY <1>2, <1>4, <1>5, <1>6 DEF PointsOf

LEMMA RoundAlong ==
    ASSUME NEW d \in Directions, NEW p \in Points
    PROVE  /\ Along(d, p) = Sign(d) * p[Axis(d)] /\ p[Axis(d)] \in Int
           /\ Round(Along(d, p)) = Sign(d) * Cell(p)[Axis(d)]
  <1>1. Axis(d) \in {"x", "y"} /\ Sign(d) \in {1, -1} /\ p[Axis(d)] \in Int
    BY DirectionTypes DEF Points
  <1>2. Cell(p)[Axis(d)] = Round(p[Axis(d)])
    BY <1>1, CellAt
  <1>3. /\ Round(p[Axis(d)]) \in Int
        /\ Round(-p[Axis(d)]) = -Round(p[Axis(d)])
    BY <1>1, RoundType, RoundIsOdd
  <1>4. CASE Sign(d) = 1
    BY <1>1, <1>2, <1>3, <1>4 DEF Along
  <1>5. CASE Sign(d) = -1
    <2>1. Along(d, p) = -p[Axis(d)]
      BY <1>1, <1>5 DEF Along
    <2>. QED  BY <1>1, <1>2, <1>3, <1>5, <2>1
  <1>. QED  BY <1>1, <1>4, <1>5

\* Places that differ along a direction only.
InLine(d, p, q) == \A z \in {"x", "y"} : z # Axis(d) => q[z] = p[z]

\* A dog that runs no farther than a road of its place leads is at a place of the
\* same point, or at one of a point of that road.
LEMMA StaysOnRoad ==
    ASSUME NEW d \in Directions, NEW p \in Points, NEW q \in Points, InLine(d, p, q),
           NEW r \in RoadMap(Cell(p)),
           Along(d, p) =< Along(d, q), Along(d, q) =< Limit(d, r)
    PROVE  Cell(q) = Cell(p) \/ Cell(q) \in PointsOf(r)
  <1>. DEFINE n == Cell(q)[Axis(d)]
  <1>1. Axis(d) \in {"x", "y"} /\ Sign(d) \in {1, -1}
    BY DirectionTypes
  <1>2. r \in Roads /\ Cell(p) \in CellsOf(r)
    BY DEF RoadMap
  <1>3. Along(d, p) \in Int /\ Along(d, q) \in Int /\ Limit(d, r) \in Int
        /\ Far(d, r) \in Int /\ Limit(d, r) = Unit * Far(d, r) + HalfWidth
    BY <1>2, AlongType, LimitType, LimitOfFar
  <1>4. Cell(p) \in Points /\ Cell(q) \in Points
    BY CellType
  <1>5. n \in Int /\ Cell(q) = [Cell(p) EXCEPT ![Axis(d)] = n]
    <2>1. \A z \in {"x", "y"} : z # Axis(d) => Cell(q)[z] = Cell(p)[z]
      BY CellAt DEF InLine
    <2>. QED  BY <1>1, <1>4, <2>1 DEF Points
  <1>6. Sign(d) * Cell(p)[Axis(d)] =< Sign(d) * n
    BY <1>3, RoundAlong, RoundIsMonotone
  <1>7. Sign(d) * n =< Far(d, r)
    <2>1. Round(Limit(d, r)) = Far(d, r)
      BY <1>3, RoundIsExact DEF Unit, HalfWidth
    <2>. QED  BY <1>3, <2>1, RoundAlong, RoundIsMonotone
  <1>8. CASE n = Cell(p)[Axis(d)]
    BY <1>1, <1>4, <1>5, <1>8 DEF Points
  <1>9. CASE n # Cell(p)[Axis(d)]
    <2>. DEFINE c == Cell(p)
    <2>1. /\ c \in CellsOf(r) /\ c \in Points /\ n # c[Axis(d)]
          /\ Sign(d) * c[Axis(d)] =< Sign(d) * n
      BY <1>2, <1>4, <1>6, <1>9
    <2>2. [c EXCEPT ![Axis(d)] = n] \in PointsOf(r)
      <3>. HIDE DEF c, n
      <3>. QED  BY <1>2, <1>5, <1>7, <2>1, Onward
    <2>. QED  BY <1>5, <2>2
  <1>. QED  BY <1>8, <1>9

LEMMA RoadStays ==
    ASSUME NEW d \in Directions, NEW p \in Points, NEW q \in Points, InLine(d, p, q),
           NEW r \in RoadMap(Cell(p)),
           Along(d, p) =< Along(d, q), Along(d, q) =< Limit(d, r)
    PROVE  r \in RoadMap(Cell(q))
  BY StaysOnRoad, PointsAreEntered DEF RoadMap

\* The place that a tick leads to.
LEMMA MovedTo ==
    ASSUME NEW d \in Directions, NEW p \in Points, NEW step \in Nat, NEW o \in Orders(p)
    PROVE  /\ Moved(d, p, step, o) \in Points
           /\ InLine(d, p, Moved(d, p, step, o))
           /\ Along(d, Moved(d, p, step, o)) = Run(d, p, step, o).reached
           /\ Along(d, p) =< Along(d, Moved(d, p, step, o))
           /\ \/ Along(d, Moved(d, p, step, o)) = Along(d, p)
              \/ \E r \in RoadMap(Cell(p)) : Along(d, Moved(d, p, step, o)) =< Limit(d, r)
  <1>. DEFINE q == Moved(d, p, step, o)
              at == Run(d, p, step, o)
              start == Along(d, p)
  <1>1. Axis(d) \in {"x", "y"} /\ Sign(d) \in {1, -1}
    BY DirectionTypes
  <1>2. Reaches(d, start, step, RoadMap(Cell(p)), at)
    BY RunAtPlace
  <1>3. start \in Int /\ at.reached \in Int
    BY <1>2, AlongType DEF Reaches, Progress
  <1>. HIDE DEF at, start
  <1>4. q = [p EXCEPT ![Axis(d)] = Sign(d) * at.reached]
    BY DEF Moved, at
  <1>5. Sign(d) * at.reached \in Int
    BY <1>1, <1>3
  <1>6. q \in Points /\ InLine(d, p, q) /\ q[Axis(d)] = Sign(d) * at.reached
    BY <1>1, <1>4, <1>5 DEF Points, InLine
  <1>. HIDE DEF q
  <1>7. Along(d, q) = at.reached
    BY <1>1, <1>3, <1>6 DEF Along
  <1>8. /\ start =< at.reached
        /\ at.reached = start \/ \E r \in RoadMap(Cell(p)) : at.reached =< Limit(d, r)
    <2>1. \A r \in RoadMap(Cell(p)) : Limit(d, r) \in Int
      BY LimitType DEF RoadMap
    <2>2. CASE step = 0
      BY <1>2, <1>3, <2>2 DEF Reaches
    <2>3. CASE step > 0 /\ \E r \in RoadMap(Cell(p)) : start + step =< Limit(d, r)
      BY <1>2, <1>3, <2>1, <2>3 DEF Reaches
    <2>4. CASE step > 0 /\ ~ \E r \in RoadMap(Cell(p)) : start + step =< Limit(d, r)
      BY <1>2, <1>3, <2>1, <2>4 DEF Reaches
    <2>. QED  BY <2>2, <2>3, <2>4
  <1>. QED  BY <1>6, <1>7, <1>8 DEF q, at, start
-----------------------------------------------------------------------------
(* The invariant.                                                          *)

\* The whole point that is nearest to the dog is one of a road.
AtPointOfRoad == \E r \in Roads : Cell(coords) \in PointsOf(r)

LEMMA PointOfRoadStays ==
    ASSUME NEW d \in Directions, NEW p \in Points, NEW step \in Nat, NEW o \in Orders(p),
           \E r \in Roads : Cell(p) \in PointsOf(r)
    PROVE  \E r \in Roads : Cell(Moved(d, p, step, o)) \in PointsOf(r)
  <1>. DEFINE q == Moved(d, p, step, o)
  <1>1. /\ q \in Points /\ InLine(d, p, q) /\ Along(d, p) =< Along(d, q)
        /\ \/ Along(d, q) = Along(d, p)
           \/ \E r \in RoadMap(Cell(p)) : Along(d, q) =< Limit(d, r)
    BY MovedTo
  <1>. HIDE DEF q
  <1>2. CASE Along(d, q) = Along(d, p)
    <2>1. Axis(d) \in {"x", "y"} /\ Sign(d) \in {1, -1}
      BY DirectionTypes
    <2>2. p[Axis(d)] \in Int /\ q[Axis(d)] \in Int
      BY <1>1, <2>1 DEF Points
    <2>3. q[Axis(d)] = p[Axis(d)]
      BY <1>2, <2>1, <2>2 DEF Along
    <2>4. q = p
      BY <1>1, <2>1, <2>3 DEF InLine, Points
    <2>. QED  BY <2>4 DEF q
  <1>3. CASE \E r \in RoadMap(Cell(p)) : Along(d, q) =< Limit(d, r)
    <2>1. PICK r \in RoadMap(Cell(p)) : Along(d, q) =< Limit(d, r)
      BY <1>3
    <2>2. Cell(q) = Cell(p) \/ Cell(q) \in PointsOf(r)
      BY <1>1, <2>1, StaysOnRoad
    <2>3. r \in Roads
      BY DEF RoadMap
    <2>. QED  BY <2>2, <2>3 DEF q
  <1>. QED  BY <1>1, <1>2, <1>3

IndInv == TypeOK /\ AtPointOfRoad

LEMMA InitInv == Init => IndInv
  <1>. SUFFICES ASSUME Init PROVE IndInv
    OBVIOUS
  <1>1. PICK w \in Spawns : coords = [x |-> Unit * w.x, y |-> Unit * w.y]
    BY DEF Init
  <1>2. PICK r \in Roads :
          w \in [x : Smaller(r.from.x, r.to.x) .. Larger(r.from.x, r.to.x),
                 y : Smaller(r.from.y, r.to.y) .. Larger(r.from.y, r.to.y)]
    BY SpawnsAssumption DEF RandomLocations
  <1>3. r.from.x \in Int /\ r.from.y \in Int /\ r.to.x \in Int /\ r.to.y \in Int
    BY RoadTypes DEF Points
  <1>4. /\ Smaller(r.from.x, r.to.x) \in Int /\ Larger(r.from.x, r.to.x) \in Int
        /\ Smaller(r.from.y, r.to.y) \in Int /\ Larger(r.from.y, r.to.y) \in Int
    BY <1>3 DEF Smaller, Larger
  <1>5. w \in Points /\ w.x \in Int /\ w.y \in Int /\ w \in PointsOf(r)
    BY <1>2, <1>4 DEF Points, PointsOf
  <1>6. coords \in Points /\ coords.x = Unit * w.x /\ coords.y = Unit * w.y
    BY <1>1, <1>5 DEF Points, Unit
  <1>7. Cell(coords) = w
    <2>1. Round(Unit * w.x) = w.x /\ Round(Unit * w.y) = w.y
      BY <1>5, RoundIsExact DEF Unit, HalfWidth
    <2>. QED  BY <1>5, <1>6, <2>1 DEF Cell, Points
  <1>8. TypeOK
    BY <1>6 DEF Init, TypeOK, Directions
  <1>. QED  BY <1>5, <1>7, <1>8 DEF IndInv, AtPointOfRoad

LEMMA StepInv == IndInv /\ [Next]_vars => IndInv'
  <1>. SUFFICES ASSUME IndInv, [Next]_vars PROVE IndInv'
    OBVIOUS
  <1>. USE DEF IndInv
  <1>1. ASSUME NEW d \in Directions \cup {"none"}, SetDirection(d) PROVE IndInv'
    <2>1. /\ dir' = d /\ moving' = (d \in Directions /\ NominalSpeed > 0)
          /\ coords' = coords /\ startCoords' = startCoords
      BY <1>1 DEF SetDirection
    <2>2. moving' \in BOOLEAN
      BY <2>1
    <2>3. moving' => dir' \in Directions /\ NominalSpeed > 0
      BY <2>1
    <2>4. dir' \in Directions \cup {"none"}
      BY <2>1
    <2>. QED  BY <2>1, <2>2, <2>3, <2>4 DEF TypeOK, AtPointOfRoad
  <1>2. ASSUME NEW step \in Steps, Tick(step) PROVE IndInv'
    <2>1. step \in Nat
      BY StepsAssumption
    <2>2. CASE moving
      <3>1. PICK o \in Orders(coords) : /\ coords' = Moved(dir, coords, step, o)
                                       /\ moving' = ~Run(dir, coords, step, o).stop
        BY <1>2, <2>2 DEF Tick
      <3>2. dir \in Directions /\ coords \in Points /\ startCoords' = coords /\ dir' = dir
        BY <1>2, <2>2 DEF Tick, TypeOK
      <3>a. NominalSpeed > 0
        BY <2>2 DEF TypeOK
      <3>b. coords' \in Points
        BY <2>1, <3>1, <3>2, MovedTo
      <3>c. moving' \in BOOLEAN
        BY <3>1
      <3>3. TypeOK'
        BY <3>2, <3>a, <3>b, <3>c DEF TypeOK
      <3>4. AtPointOfRoad'
        BY <2>1, <3>1, <3>2, PointOfRoadStays DEF AtPointOfRoad
      <3>. QED  BY <3>3, <3>4
    <2>3. CASE ~moving
      BY <1>2, <2>3 DEF Tick, TypeOK, AtPointOfRoad
    <2>. QED  BY <2>2, <2>3
  <1>3. CASE UNCHANGED vars
    BY <1>3 DEF vars, TypeOK, AtPointOfRoad
  <1>. QED  BY <1>1, <1>2, <1>3 DEF Next

LEMMA Invariant == Spec => []IndInv
  BY InitInv, StepInv, PTL DEF Spec

\* Every variable has its type.
THEOREM MovementTypeCorrect == Spec => []TypeOK
  BY Invariant, PTL DEF IndInv

\* A dog stays at the roads wherever it turns (application.h:53-58,
\* json_loader.cpp:28-35).
THEOREM DogsStayAtRoads == Spec => []AtRoads
  <1>1. ASSUME IndInv PROVE AtRoads
    <2>1. PICK r \in Roads : Cell(coords) \in PointsOf(r)
      BY <1>1 DEF IndInv, AtPointOfRoad
    <2>2. ASSUME NEW z \in {"x", "y"}
          PROVE  /\ coords[z] >= Unit * Smaller(r.from[z], r.to[z]) - Unit \div 2
                 /\ coords[z] =< Unit * Larger(r.from[z], r.to[z]) + Unit \div 2
      <3>1. coords \in Points /\ coords[z] \in Int
        BY <1>1 DEF IndInv, TypeOK, Points
      <3>2. /\ Smaller(r.from[z], r.to[z]) =< Round(coords[z])
            /\ Round(coords[z]) =< Larger(r.from[z], r.to[z])
        BY <2>1, <3>1, CellAt DEF PointsOf
      <3>3. /\ Round(coords[z]) \in Int
            /\ Unit * Round(coords[z]) - 5 =< coords[z]
            /\ coords[z] =< Unit * Round(coords[z]) + 5
        BY <3>1, RoundType, RoundIsNear
      <3>4. Smaller(r.from[z], r.to[z]) \in Int /\ Larger(r.from[z], r.to[z]) \in Int
        BY RoadTypes DEF Smaller, Larger
      <3>. QED  BY <3>1, <3>2, <3>3, <3>4 DEF Unit
    <2>. QED  BY <2>2 DEF AtRoads, Covers
  <1>. QED  BY <1>1, Invariant, PTL

\* Whatever the order of the roads, a dog comes to one place (model.h:197,
\* application.h:68-78).
THEOREM OrderOfRoadsIsIrrelevant == Spec => []RoadOrderIsIrrelevant
  <1>1. TypeOK => RoadOrderIsIrrelevant
    BY StepsAssumption, OneResult DEF TypeOK, RoadOrderIsIrrelevant
  <1>. QED  BY <1>1, MovementTypeCorrect, PTL

LEMMA SamePlace ==
    ASSUME NEW d \in Directions, NEW p \in Points, NEW q \in Points,
           InLine(d, p, q), Along(d, p) = Along(d, q)
    PROVE  p = q
  <1>1. Axis(d) \in {"x", "y"} /\ Sign(d) \in {1, -1}
    BY DirectionTypes
  <1>2. p[Axis(d)] \in Int /\ q[Axis(d)] \in Int
    BY <1>1 DEF Points
  <1>3. q[Axis(d)] = p[Axis(d)]
    BY <1>1, <1>2 DEF Along
  <1>. QED  BY <1>1, <1>3 DEF InLine, Points

LEMMA NeverHangs == IndInv => RunsOrStops
  <1>1. ASSUME IndInv, moving, NEW step \in Steps \ {0}, NEW o \in Orders(coords)
        PROVE  Run(dir, coords, step, o).stop \/ Moved(dir, coords, step, o) # coords
    <2>1. dir \in Directions /\ coords \in Points /\ step \in Nat /\ step > 0
      BY <1>1, StepsAssumption DEF IndInv, TypeOK
    <2>. DEFINE S == RoadMap(Cell(coords))
                start == Along(dir, coords)
                at == Run(dir, coords, step, o)
    <2>2. Reaches(dir, start, step, S, at)
      BY <2>1, RunAtPlace
    <2>3. S # {}
      BY <1>1, PointsAreEntered DEF IndInv, AtPointOfRoad, RoadMap
    <2>4. start \in Int /\ Along(dir, Moved(dir, coords, step, o)) = at.reached
      BY <2>1, AlongType, MovedTo
    <2>5. at.stop \/ at.reached # start
      <3>. HIDE DEF S, start, at
      <3>1. CASE \E r \in S : start + step =< Limit(dir, r)
        <4>1. at = [reached |-> start + step, stop |-> FALSE]
          BY <2>1, <2>2, <3>1 DEF Reaches
        <4>. QED  BY <2>1, <2>4, <4>1
      <3>2. CASE ~ \E r \in S : start + step =< Limit(dir, r)
        BY <2>1, <2>2, <2>3, <3>2 DEF Reaches
      <3>. QED  BY <3>1, <3>2
    <2>. QED  BY <2>4, <2>5
  <1>. QED  BY <1>1 DEF RunsOrStops

\* A dog with a speed runs in every tick that lasts or is stopped, because the
\* point that its place is rounded to has a road (application.h:58).
THEOREM NoDogHangs == Spec => []RunsOrStops
  BY NeverHangs, Invariant, PTL

\* What Game takes a tick to do with a dog (its Outcomes): one that has a speed and
\* time runs on, runs into the end of the road or is stopped where it stands, and
\* every other one stays as it is.
OutcomesOfGame ==
    [][\A step \in Steps : Tick(step) =>
         IF moving /\ step > 0 THEN moving' => startCoords' # coords'
         ELSE moving' = moving /\ startCoords' = coords']_vars

\* Every tick of a dog on its roads is one of those that Game allows, for any roads
\* and ticks of any length (application.h:45-138).
THEOREM TicksAreThoseOfGame == Spec => OutcomesOfGame
  <1>1. ASSUME IndInv, NEW step \in Steps, Tick(step)
        PROVE  IF moving /\ step > 0 THEN moving' => startCoords' # coords'
               ELSE moving' = moving /\ startCoords' = coords'
    <2>1. step \in Nat /\ startCoords' = coords
      BY <1>1, StepsAssumption DEF Tick
    <2>2. CASE ~moving
      BY <1>1, <2>1, <2>2 DEF Tick
    <2>3. CASE moving
      <3>1. PICK o \in Orders(coords) : /\ coords' = Moved(dir, coords, step, o)
                                        /\ moving' = ~Run(dir, coords, step, o).stop
        BY <1>1, <2>3 DEF Tick
      <3>2. CASE step > 0
        <4>1. RunsOrStops
          BY <1>1, NeverHangs
        <4>2. step \in Steps \ {0}
          BY <2>1, <3>2
        <4>3. Run(dir, coords, step, o).stop \/ Moved(dir, coords, step, o) # coords
          BY <2>3, <4>1, <4>2 DEF RunsOrStops
        <4>. QED  BY <2>1, <2>3, <3>1, <3>2, <4>3
      <3>3. CASE step = 0
        <4>. DEFINE q == Moved(dir, coords, step, o)
                    at == Run(dir, coords, step, o)
        <4>1. dir \in Directions /\ coords \in Points
          BY <1>1, <2>3 DEF IndInv, TypeOK
        <4>2. Reaches(dir, Along(dir, coords), step, RoadMap(Cell(coords)), at)
          BY <2>1, <4>1, RunAtPlace
        <4>3. at = [reached |-> Along(dir, coords), stop |-> FALSE]
          BY <3>3, <4>2 DEF Reaches
        <4>4. q \in Points /\ InLine(dir, coords, q) /\ Along(dir, q) = at.reached
          BY <2>1, <4>1, MovedTo
        <4>. HIDE DEF q, at
        <4>5. q = coords
          BY <4>1, <4>3, <4>4, SamePlace
        <4>6. coords' = q /\ moving' = ~at.stop
          BY <3>1 DEF q, at
        <4>7. at.stop = FALSE
          BY <4>3
        <4>8. coords' = coords /\ moving'
          BY <4>5, <4>6, <4>7
        <4>9. ~(step > 0)
          BY <3>3
        <4>. QED  BY <2>1, <2>3, <4>8, <4>9
      <3>. QED  BY <2>1, <3>2, <3>3
    <2>. QED  BY <2>2, <2>3
  <1>2. IndInv /\ [Next]_vars =>
          [\A step \in Steps : Tick(step) =>
             IF moving /\ step > 0 THEN moving' => startCoords' # coords'
             ELSE moving' = moving /\ startCoords' = coords']_vars
    BY <1>1
  <1>. QED  BY <1>2, Invariant, PTL DEF Spec, OutcomesOfGame
-----------------------------------------------------------------------------
(* Ticks that lead past no whole point.                                    *)

\* A dog that comes to another point by a road of its place can run a tick along
\* that road.
LEMMA RoadToTheNextPoint ==
    ASSUME NEW d \in Directions, NEW p \in Points, NEW q \in Points, InLine(d, p, q),
           Cell(q) # Cell(p), NEW r \in RoadMap(Cell(p)),
           Along(d, p) =< Along(d, q), Along(d, q) =< Limit(d, r)
    PROVE  Along(d, p) + (Unit - 1) =< Limit(d, r)
  <1>1. Axis(d) \in {"x", "y"} /\ Sign(d) \in {1, -1}
    BY DirectionTypes
  <1>2. /\ Along(d, p) \in Int /\ Along(d, q) \in Int /\ Limit(d, r) \in Int
        /\ Far(d, r) \in Int /\ Limit(d, r) = Unit * Far(d, r) + HalfWidth
    BY AlongType, LimitType, LimitOfFar DEF RoadMap
  <1>3. Round(Along(d, p)) # Round(Along(d, q))
    <2>1. \A z \in {"x", "y"} : z # Axis(d) => Cell(q)[z] = Cell(p)[z]
      BY CellAt DEF InLine
    <2>2. Cell(p) \in Points /\ Cell(q) \in Points
      BY CellType
    <2>3. Cell(p)[Axis(d)] # Cell(q)[Axis(d)]
      BY <1>1, <2>1, <2>2 DEF Points
    <2>4. Cell(p)[Axis(d)] \in Int /\ Cell(q)[Axis(d)] \in Int
      BY <1>1, <2>2 DEF Points
    <2>5. /\ Round(Along(d, p)) = Sign(d) * Cell(p)[Axis(d)]
          /\ Round(Along(d, q)) = Sign(d) * Cell(q)[Axis(d)]
      BY RoundAlong
    <2>. QED  BY <1>1, <2>3, <2>4, <2>5
  <1>4. Round(Along(d, q)) =< Far(d, r)
    <2>1. Round(Limit(d, r)) = Far(d, r)
      BY <1>2, RoundIsExact DEF Unit, HalfWidth
    <2>. QED  BY <1>2, <2>1, RoundIsMonotone
  <1>5. /\ Round(Along(d, p)) \in Int /\ Round(Along(d, q)) \in Int
        /\ Round(Along(d, p)) =< Round(Along(d, q))
        /\ Along(d, p) =< Unit * Round(Along(d, p)) + 5
    BY <1>2, RoundType, RoundIsMonotone, RoundIsNear
  <1>6. Round(Along(d, p)) + 1 =< Far(d, r)
    BY <1>2, <1>3, <1>4, <1>5
  <1>. QED  BY <1>2, <1>5, <1>6 DEF Unit, HalfWidth

\* Two ticks along the same roads, on numbers: where the second begins at the end
\* of the first, it ends where one tick would.
LEMMA ReachesTwice ==
    ASSUME NEW d \in Directions, NEW start \in Int, NEW a \in Nat, NEW b \in Nat,
           NEW S \in SUBSET Roads, NEW first, NEW second, NEW whole,
           Reaches(d, start, a, S, first), Reaches(d, first.reached, b, S, second),
           Reaches(d, start, a + b, S, whole)
    PROVE  second.reached = whole.reached
  <1>1. /\ first.reached \in Int /\ second.reached \in Int /\ whole.reached \in Int
        /\ \A r \in S : Limit(d, r) \in Int
    BY LimitType DEF Reaches, Progress
  <1>2. CASE a = 0 \/ b = 0
    <2>1. CASE b = 0
      <3>1. second.reached = first.reached
        BY <2>1 DEF Reaches
      <3>2. first = whole
        BY <2>1, ReachesOnce
      <3>. QED  BY <3>1, <3>2
    <2>2. CASE a = 0
      <3>1. first.reached = start
        BY <2>2 DEF Reaches
      <3>2. second = whole
        BY <2>2, <3>1, ReachesOnce
      <3>. QED  BY <3>2
    <2>. QED  BY <1>2, <2>1, <2>2
  <1>3. CASE a > 0 /\ b > 0 /\ \E r \in S : start + (a + b) =< Limit(d, r)
    <2>1. PICK r \in S : start + (a + b) =< Limit(d, r)
      BY <1>3
    <2>2. start + a =< Limit(d, r) /\ a + b \in Nat /\ a + b > 0
      BY <1>1, <1>3, <2>1
    <2>3. first = [reached |-> start + a, stop |-> FALSE]
      BY <1>3, <2>2 DEF Reaches
    <2>4. first.reached + b =< Limit(d, r) /\ first.reached + b = start + (a + b)
      BY <2>1, <2>3
    <2>5. second = [reached |-> first.reached + b, stop |-> FALSE]
      BY <1>3, <2>4 DEF Reaches
    <2>6. whole = [reached |-> start + (a + b), stop |-> FALSE]
      BY <1>3, <2>1, <2>2 DEF Reaches
    <2>. QED  BY <2>4, <2>5, <2>6
  <1>4. CASE a > 0 /\ b > 0 /\ ~ \E r \in S : start + (a + b) =< Limit(d, r)
    <2>1. /\ start =< whole.reached
          /\ \A r \in S : Limit(d, r) =< whole.reached
          /\ whole.reached = start \/ \E r \in S : whole.reached = Limit(d, r)
      <3>1. a + b > 0
        BY <1>4
      <3>. QED  BY <1>4, <3>1 DEF Reaches
    <2>2. /\ start =< first.reached
          /\ first.reached = start + a \/ first.reached = start
               \/ \E r \in S : first.reached = Limit(d, r)
          /\ first.reached = start + a => \E r \in S : first.reached =< Limit(d, r)
          /\ first.reached # start + a => \A r \in S : Limit(d, r) =< first.reached
      <3>1. CASE \E r \in S : start + a =< Limit(d, r)
        <4>1. first.reached = start + a
          BY <1>4, <3>1 DEF Reaches
        <4>. QED  BY <1>4, <3>1, <4>1
      <3>2. CASE ~ \E r \in S : start + a =< Limit(d, r)
        <4>1. /\ start =< first.reached /\ first.reached < start + a
              /\ \A r \in S : Limit(d, r) =< first.reached
              /\ first.reached = start \/ \E r \in S : first.reached = Limit(d, r)
          BY <1>4, <3>2 DEF Reaches
        <4>. QED  BY <1>1, <4>1
      <3>. QED  BY <3>1, <3>2
    <2>3. ~ \E r \in S : first.reached + b =< Limit(d, r)
      <3>1. CASE first.reached = start + a
        BY <1>1, <1>4, <3>1
      <3>2. CASE first.reached # start + a
        BY <1>1, <1>4, <2>2, <3>2
      <3>. QED  BY <3>1, <3>2
    <2>4. /\ first.reached =< second.reached
          /\ \A r \in S : Limit(d, r) =< second.reached
          /\ second.reached = first.reached \/ \E r \in S : second.reached = Limit(d, r)
      BY <1>4, <2>3 DEF Reaches
    <2>5. whole.reached =< second.reached
      BY <1>1, <2>1, <2>2, <2>4
    <2>6. first.reached =< whole.reached
      <3>1. CASE first.reached = start + a
        BY <1>1, <2>1, <2>2, <3>1
      <3>2. CASE first.reached # start + a
        BY <1>1, <2>1, <2>2, <3>2
      <3>. QED  BY <3>1, <3>2
    <2>7. second.reached =< whole.reached
      BY <1>1, <2>1, <2>4, <2>6
    <2>. QED  BY <1>1, <2>5, <2>7
  <1>. QED  BY <1>2, <1>3, <1>4

LEMMA ShortTicksAddUp ==
    ASSUME ShortTicks, NEW d \in Directions, NEW p \in Points,
           NEW a \in Steps, NEW b \in Steps, a + b \in Steps,
           NEW o \in Orders(p), NEW oo \in Orders(Moved(d, p, a, o))
    PROVE  Moved(d, Moved(d, p, a, o), b, oo) = Moved(d, p, a + b, o)
  <1>. DEFINE start == Along(d, p)
              S == RoadMap(Cell(p))
              half == Moved(d, p, a, o)
              first == Run(d, p, a, o)
              second == Run(d, half, b, oo)
              whole == Run(d, p, a + b, o)
  <1>1. a \in Nat /\ b \in Nat /\ a + b \in Nat /\ a + b =< Unit - 1
    BY StepsAssumption DEF ShortTicks, Unit
  <1>2. /\ half \in Points /\ InLine(d, p, half) /\ Along(d, half) = first.reached
        /\ start =< first.reached
        /\ first.reached = start \/ \E r \in S : first.reached =< Limit(d, r)
    BY <1>1, MovedTo
  <1>3. Reaches(d, start, a, S, first) /\ Reaches(d, start, a + b, S, whole)
    BY <1>1, RunAtPlace
  <1>4. Reaches(d, first.reached, b, RoadMap(Cell(half)), second)
    BY <1>1, <1>2, RunAtPlace
  <1>5. start \in Int /\ first.reached \in Int /\ S \in SUBSET Roads
        /\ \A r \in S : Limit(d, r) \in Int
    BY <1>2, AlongType, LimitType DEF RoadMap
  <1>6. second.reached = whole.reached
    <2>1. CASE Cell(half) = Cell(p)
      <3>1. Reaches(d, first.reached, b, S, second)
        BY <1>4, <2>1
      <3>. HIDE DEF start, S, first, second, whole
      <3>. QED  BY <1>1, <1>3, <1>5, <3>1, ReachesTwice
    <2>2. CASE Cell(half) # Cell(p)
      <3>1. first.reached # start
        <4>1. first.reached = start => half = p
          BY <1>2, SamePlace
        <4>. QED  BY <2>2, <4>1
      <3>2. PICK r \in S : first.reached =< Limit(d, r)
        BY <1>2, <3>1
      <3>3. start + (Unit - 1) =< Limit(d, r)
        BY <1>2, <2>2, <3>2, RoadToTheNextPoint
      <3>4. r \in RoadMap(Cell(half))
        BY <1>2, <3>2, RoadStays
      <3>. HIDE DEF start, S, first, second, whole, half
      <3>5. start + (a + b) =< Limit(d, r) /\ start + a =< Limit(d, r)
        BY <1>1, <1>5, <3>3 DEF Unit
      <3>6. a > 0
        BY <1>1, <1>3, <3>1 DEF Reaches
      <3>7. first.reached = start + a
        BY <1>3, <3>2, <3>5, <3>6 DEF Reaches
      <3>8. whole.reached = start + (a + b)
        BY <1>1, <1>3, <3>2, <3>5, <3>6 DEF Reaches
      <3>9. first.reached + b =< Limit(d, r) /\ first.reached + b = start + (a + b)
        BY <1>1, <1>5, <3>5, <3>7
      <3>10. second.reached = first.reached + b
        <4>1. CASE b = 0
          <5>1. second = [reached |-> first.reached, stop |-> FALSE]
            BY <1>4, <4>1 DEF Reaches
          <5>. QED  BY <1>5, <4>1, <5>1
        <4>2. CASE b > 0
          BY <1>4, <3>4, <3>9, <4>2 DEF Reaches
        <4>. QED  BY <1>1, <4>1, <4>2
      <3>. QED  BY <3>8, <3>9, <3>10
    <2>. QED  BY <2>1, <2>2
  <1>7. Moved(d, p, a + b, o) = [p EXCEPT ![Axis(d)] = Sign(d) * whole.reached]
    BY DEF Moved
  <1>8. Moved(d, half, b, oo) = [half EXCEPT ![Axis(d)] = Sign(d) * second.reached]
    BY DEF Moved
  <1>9. half = [p EXCEPT ![Axis(d)] = Sign(d) * first.reached]
    BY DEF Moved
  <1>. HIDE DEF half, first, second, whole
  <1>10. Moved(d, half, b, oo) = Moved(d, p, a + b, o)
    BY <1>6, <1>7, <1>8, <1>9 DEF Points
  <1>. QED  BY <1>10 DEF half

\* The period of the ticks does not decide where dogs go, as long as no tick leads
\* past a whole point (application.h:53-118).
THEOREM PeriodOfTicksIsIrrelevant == ASSUME ShortTicks PROVE Spec => []TicksAddUp
  <1>1. ASSUME TypeOK PROVE TicksAddUp
    <2>. SUFFICES ASSUME moving, NEW a \in Steps, NEW b \in Steps, a + b \in Steps
                  PROVE  LET o == CHOOSE o \in Orders(coords) : TRUE
                             half == Moved(dir, coords, a, o)
                             oo == CHOOSE oo \in Orders(half) : TRUE
                         IN  Moved(dir, half, b, oo) = Moved(dir, coords, a + b, o)
      BY DEF TicksAddUp
    <2>. DEFINE o == CHOOSE o \in Orders(coords) : TRUE
                half == Moved(dir, coords, a, o)
                oo == CHOOSE oo \in Orders(half) : TRUE
    <2>1. o \in Orders(coords) /\ oo \in Orders(half)
      BY OrdersExist
    <2>2. dir \in Directions /\ coords \in Points
      BY <1>1 DEF TypeOK
    <2>. HIDE DEF o, oo
    <2>3. Moved(dir, half, b, oo) = Moved(dir, coords, a + b, o)
      BY <2>1, <2>2, ShortTicksAddUp
    <2>. QED  BY <2>3 DEF o, oo
  <1>. QED  BY <1>1, MovementTypeCorrect, PTL

\* What a road covers is near its points.
LEMMA CoveredPoint ==
    ASSUME NEW r \in Roads, NEW q \in Points, Covers(r, q, HalfWidth)
    PROVE  Cell(q) \in PointsOf(r)
  <1>1. ASSUME NEW z \in {"x", "y"}
        PROVE  /\ Smaller(r.from[z], r.to[z]) =< Round(q[z])
               /\ Round(q[z]) =< Larger(r.from[z], r.to[z])
    <2>. DEFINE low == Smaller(r.from[z], r.to[z])
                high == Larger(r.from[z], r.to[z])
    <2>1. low \in Int /\ high \in Int /\ q[z] \in Int
      BY RoadTypes DEF Smaller, Larger, Points
    <2>2. Unit * low - HalfWidth =< q[z] /\ q[z] =< Unit * high + HalfWidth
      BY DEF Covers
    <2>. HIDE DEF low, high
    <2>3. Round(Unit * low - HalfWidth) = low /\ Round(Unit * high + HalfWidth) = high
      BY <2>1, RoundIsExact DEF Unit, HalfWidth
    <2>4. Unit * low - HalfWidth \in Int /\ Unit * high + HalfWidth \in Int
      BY <2>1 DEF Unit, HalfWidth
    <2>5. low =< Round(q[z]) /\ Round(q[z]) =< high
      BY <2>1, <2>2, <2>3, <2>4, RoundIsMonotone
    <2>. QED  BY <2>5 DEF low, high
  <1>. QED  BY <1>1, CellAt, CellType DEF PointsOf

\* A road that covers the next place ahead leads on.
LEMMA CoveredAhead ==
    ASSUME NEW d \in Directions, NEW r \in Roads, NEW q \in Points,
           Covers(r, [q EXCEPT ![Axis(d)] = @ + Sign(d)], HalfWidth)
    PROVE  Along(d, q) + 1 =< Limit(d, r)
  <1>. DEFINE a == r.from[Axis(d)]
              b == r.to[Axis(d)]
              v == q[Axis(d)]
  <1>1. Axis(d) \in {"x", "y"} /\ Sign(d) \in {1, -1}
    BY DirectionTypes
  <1>2. a \in Int /\ b \in Int /\ v \in Int
    BY <1>1, RoadTypes DEF Points
  <1>3. /\ v + Sign(d) >= Unit * Smaller(a, b) - HalfWidth
        /\ v + Sign(d) =< Unit * Larger(a, b) + HalfWidth
    <2>1. [q EXCEPT ![Axis(d)] = @ + Sign(d)][Axis(d)] = v + Sign(d)
      BY <1>1 DEF Points
    <2>. QED  BY <1>1, <2>1 DEF Covers
  <1>4. Along(d, q) = Sign(d) * v
        /\ Limit(d, r) = Unit * Larger(Sign(d) * a, Sign(d) * b) + HalfWidth
    BY DEF Along, Limit
  <1>. HIDE DEF a, b, v
  <1>5. CASE Sign(d) = 1
    BY <1>2, <1>3, <1>4, <1>5 DEF Larger, Unit, HalfWidth
  <1>6. CASE Sign(d) = -1
    BY <1>2, <1>3, <1>4, <1>6 DEF Smaller, Larger, Unit, HalfWidth
  <1>. QED  BY <1>1, <1>5, <1>6

LEMMA StopsWhereNoRoadLeadsOn ==
    ASSUME ShortTicks, NEW d \in Directions, NEW p \in Points, NEW step \in Steps,
           NEW o \in Orders(p), Run(d, p, step, o).stop,
           NEW q, q = Moved(d, p, step, o), NEW r \in Roads,
           Covers(r, q, HalfWidth),
           Covers(r, [q EXCEPT ![Axis(d)] = @ + Sign(d)], HalfWidth)
    PROVE  FALSE
  <1>. DEFINE start == Along(d, p)
              S == RoadMap(Cell(p))
              at == Run(d, p, step, o)
  <1>1. step \in Nat /\ step =< Unit - 1
    BY StepsAssumption DEF ShortTicks, Unit
  <1>2. q \in Points /\ InLine(d, p, q) /\ Along(d, q) = at.reached /\ start =< at.reached
    BY <1>1, MovedTo
  <1>3. Reaches(d, start, step, S, at)
    BY <1>1, RunAtPlace
  <1>4. start \in Int /\ at.reached \in Int /\ \A t \in Roads : Limit(d, t) \in Int
    BY <1>2, AlongType, LimitType
  <1>5. at.stop
    OBVIOUS
  <1>6. at.reached + 1 =< Limit(d, r)
    BY <1>2, CoveredAhead
  <1>7. r \in RoadMap(Cell(q))
    BY <1>2, CoveredPoint, PointsAreEntered DEF RoadMap
  <1>8. S \in SUBSET Roads
    BY DEF RoadMap
  <1>9. /\ step > 0
        /\ \A t \in S : Limit(d, t) < start + step /\ Limit(d, t) =< at.reached
        /\ at.reached = start \/ \E t \in S : at.reached = Limit(d, t)
    <2>. HIDE DEF start, S, at
    <2>1. step > 0 /\ ~ \E t \in S : start + step =< Limit(d, t)
      BY <1>1, <1>3, <1>5 DEF Reaches
    <2>. QED  BY <1>1, <1>3, <1>4, <1>8, <2>1 DEF Reaches
  <1>10. CASE Cell(q) = Cell(p)
    <2>1. Limit(d, r) =< at.reached
      BY <1>7, <1>9, <1>10
    <2>. QED  BY <1>4, <1>6, <2>1
  <1>11. CASE Cell(q) # Cell(p)
    <2>1. at.reached # start
      <3>1. at.reached = start => q = p
        BY <1>2, SamePlace
      <3>. QED  BY <1>11, <3>1
    <2>2. PICK t \in S : at.reached = Limit(d, t)
      BY <1>9, <2>1
    <2>3. t \in Roads /\ Limit(d, t) < start + step
      BY <1>8, <1>9
    <2>4. at.reached =< Limit(d, t)
      BY <1>4, <2>2
    <2>5. start + (Unit - 1) =< Limit(d, t)
      BY <1>2, <1>11, <2>4, RoadToTheNextPoint
    <2>. QED  BY <1>1, <1>4, <2>3, <2>5 DEF Unit
  <1>. QED  BY <1>10, <1>11

\* A tick stops a dog only where no road that it is on leads on, as long as no
\* tick leads past a whole point (application.h:53-77).
THEOREM DogsStopAtDeadEnds == ASSUME ShortTicks PROVE Spec => StopsOnlyAtDeadEnd
  <1>. DEFINE A == moving /\ ~moving' /\ dir' = dir =>
                     ~ \E r \in Roads :
                         /\ Covers(r, coords', HalfWidth)
                         /\ Covers(r, [coords' EXCEPT ![Axis(dir)] = @ + Sign(dir)], HalfWidth)
  <1>1. ASSUME TypeOK, Next PROVE A
    <2>. SUFFICES ASSUME moving, ~moving', dir' = dir, NEW r \in Roads,
                         Covers(r, coords', HalfWidth),
                         Covers(r, [coords' EXCEPT ![Axis(dir)] = @ + Sign(dir)], HalfWidth)
                  PROVE  FALSE
      OBVIOUS
    <2>1. dir \in Directions /\ coords \in Points /\ NominalSpeed > 0
      BY <1>1 DEF TypeOK
    <2>2. ASSUME NEW d \in Directions \cup {"none"}, SetDirection(d) PROVE FALSE
      BY <2>1, <2>2 DEF SetDirection
    <2>3. ASSUME NEW step \in Steps, Tick(step) PROVE FALSE
      <3>1. PICK o \in Orders(coords) : /\ coords' = Moved(dir, coords, step, o)
                                       /\ moving' = ~Run(dir, coords, step, o).stop
        BY <2>3 DEF Tick
      <3>2. Run(dir, coords, step, o).stop
        BY <3>1
      <3>. QED  BY <2>1, <3>1, <3>2, StopsWhereNoRoadLeadsOn
    <2>. QED  BY <1>1, <2>2, <2>3 DEF Next
  <1>2. ASSUME TypeOK, [Next]_vars PROVE [A]_vars
    BY <1>1, <1>2
  <1>. QED  BY <1>2, MovementTypeCorrect, PTL DEF Spec, StopsOnlyAtDeadEnd

-----------------------------------------------------------------------------
Items == [position : Points, width : Nat]

\* Lagrange's identity.
LEMMA Lagrange ==
    ASSUME NEW p \in Int, NEW q \in Int, NEW r \in Int, NEW s \in Int
    PROVE  (p * p + q * q) * (r * r + s * s) - (p * r + q * s) * (p * r + q * s)
             = (p * s - q * r) * (p * s - q * r)
  OBVIOUS

LEMMA LagrangeOfVectors ==
    ASSUME NEW u \in Points, NEW v \in Points
    PROVE  Dot(u, u) * Dot(v, v) - Dot(u, v) * Dot(u, v) = Cross(u, v) * Cross(u, v)
  <1>1. u.x \in Int /\ u.y \in Int /\ v.x \in Int /\ v.y \in Int
    BY DEF Points
  <1> QED
    BY <1>1, Lagrange DEF Dot, Cross

\* A point is not past the end exactly when it is not behind it.
LEMMA NotPastTheEnd ==
    ASSUME NEW a \in Points, NEW b \in Points, NEW c \in Points
    PROVE  Dot(Minus(c, a), Minus(b, a)) =< Dot(Minus(b, a), Minus(b, a))
             <=> Dot(Minus(c, b), Minus(a, b)) >= 0
  <1>1. /\ a.x \in Int /\ a.y \in Int
        /\ b.x \in Int /\ b.y \in Int
        /\ c.x \in Int /\ c.y \in Int
    BY DEF Points
  <1> QED
    BY <1>1 DEF Dot, Minus
-----------------------------------------------------------------------------
\* What is gathered on a segment is what is near it.
LEMMA CollectedIsNear ==
    ASSUME NEW a \in Points, NEW b \in Points, NEW item \in Items
    PROVE  IsCollected(a, b, item)
             <=> NearSegment(a, b, item.position, GathererWidth + item.width)
  <1> DEFINE c == item.position
  <1>0. c \in Points
    BY DEF Items
  <1>1. Minus(c, a) \in Points /\ Minus(b, a) \in Points
    BY <1>0 DEF Points, Minus
  <1>2. Dot(Minus(c, a), Minus(c, a)) * Dot(Minus(b, a), Minus(b, a))
          - Dot(Minus(c, a), Minus(b, a)) * Dot(Minus(c, a), Minus(b, a))
          = Cross(Minus(c, a), Minus(b, a)) * Cross(Minus(c, a), Minus(b, a))
    BY <1>1, LagrangeOfVectors
  <1>3. Dot(Minus(c, a), Minus(b, a)) =< Dot(Minus(b, a), Minus(b, a))
          <=> Dot(Minus(c, b), Minus(a, b)) >= 0
    BY <1>0, NotPastTheEnd
  <1> QED
    BY <1>2, <1>3, Zenon DEF IsCollected, NearSegment

LEMMA ItemTypes ==
    ASSUME NEW items \in {LootItems, OfficeItems}, NEW i \in DOMAIN items
    PROVE  items[i] \in Items
  <1>1. CASE items = LootItems
    BY <1>1, ItemsAssumption DEF LootItems, Items
  <1>2. CASE items = OfficeItems
    BY <1>2, ItemsAssumption DEF OfficeItems, Items
  <1> QED
    BY <1>1, <1>2

\* A dog that is somewhere gathers exactly the loot, and visits exactly the
\* offices, near the segment it ran (collision_detector.cpp:12-16,
\* collision_detector.h:13-15).
THEOREM GatheringCorrect == Spec => []GathersWhatIsNear
  <1>. SUFFICES TypeOK => GathersWhatIsNear
    BY MovementTypeCorrect, PTL
  <1>. SUFFICES ASSUME TypeOK, NEW items \in {LootItems, OfficeItems}, NEW i \in DOMAIN items
               PROVE  IsCollected(startCoords, coords, items[i])
                        <=> NearSegment(startCoords, coords, items[i].position,
                                        GathererWidth + items[i].width)
    BY DEF GathersWhatIsNear
  <1>1. startCoords \in Points /\ coords \in Points
    BY DEF TypeOK
  <1> QED
    BY <1>1, ItemTypes, CollectedIsNear
-----------------------------------------------------------------------------
(* Segments along a road.                                                  *)

LEMMA Cancel ==
    ASSUME NEW p \in Int, NEW q \in Int, NEW n \in Int, n > 0
    PROVE  p * n =< q * n <=> p =< q
  <1>1. ASSUME p =< q PROVE p * n =< q * n
    BY <1>1
  <1>2. ASSUME q < p PROVE q * n < p * n
    BY <1>2
  <1> QED
    BY <1>1, <1>2

LEMMA Square == ASSUME NEW n \in Int, n # 0 PROVE n * n \in Int /\ n * n > 0
  <1>1. CASE n > 0
    BY <1>1
  <1>2. CASE n < 0
    BY <1>2
  <1> QED
    BY <1>1, <1>2

LEMMA SignOfProduct ==
    ASSUME NEW p \in Int, NEW n \in Int
    PROVE  /\ n > 0 => (p * n >= 0 <=> p >= 0)
           /\ n < 0 => (p * n >= 0 <=> p =< 0)
  <1>1. CASE p > 0
    BY <1>1
  <1>2. CASE p = 0
    BY <1>2
  <1>3. CASE p < 0
    BY <1>3
  <1> QED
    BY <1>1, <1>2, <1>3
Within(p, q, n) == (p =< n /\ n =< q) \/ (q =< n /\ n =< p)

\* Between the ends of a segment: on the inner side of both.
LEMMA InnerSides ==
    ASSUME NEW p \in Int, NEW q \in Int, NEW n \in Int, p # q
    PROVE  (n - p) * (q - p) >= 0 /\ (n - q) * (p - q) >= 0 <=> Within(p, q, n)
  <1>1. CASE p < q
    <2>1. q - p \in Int /\ q - p > 0 /\ p - q \in Int /\ p - q < 0
      BY <1>1
    <2>2. (n - p) * (q - p) >= 0 <=> n - p >= 0
      BY <2>1, SignOfProduct
    <2>3. (n - q) * (p - q) >= 0 <=> n - q =< 0
      BY <2>1, SignOfProduct
    <2> QED
      BY <1>1, <2>2, <2>3 DEF Within
  <1>2. CASE q < p
    <2>1. q - p \in Int /\ q - p < 0 /\ p - q \in Int /\ p - q > 0
      BY <1>2
    <2>2. (n - p) * (q - p) >= 0 <=> n - p =< 0
      BY <2>1, SignOfProduct
    <2>3. (n - q) * (p - q) >= 0 <=> n - q >= 0
      BY <2>1, SignOfProduct
    <2> QED
      BY <1>2, <2>2, <2>3 DEF Within
  <1> QED
    BY <1>1, <1>2

\* With no length across the road, the distance from the segment is that across.
LEMMA Across ==
    ASSUME NEW e \in Int, NEW length \in Int, length # 0, NEW radius \in Int
    PROVE  (e * length) * (e * length) =< radius * radius * (length * length)
             <=> e * e =< radius * radius
  <1>1. (e * length) * (e * length) = (e * e) * (length * length)
    OBVIOUS
  <1>2. length * length \in Int /\ length * length > 0
    BY Square
  <1>3. e * e \in Int /\ radius * radius \in Int
    OBVIOUS
  <1> HIDE DEF Square
  <1> QED
    BY <1>1, <1>2, <1>3, Cancel

LEMMA CollectedAlongX ==
    ASSUME NEW a \in Points, NEW b \in Points, NEW item \in Items, a.y = b.y, a.x # b.x
    PROVE  IsCollected(a, b, item) <=>
             /\ Within(a.x, b.x, item.position.x)
             /\ (item.position.y - a.y) * (item.position.y - a.y)
                  =< (GathererWidth + item.width) * (GathererWidth + item.width)
  <1> DEFINE c == item.position
             radius == GathererWidth + item.width
             length == b.x - a.x
             e == c.y - a.y
  <1>1. /\ a.x \in Int /\ a.y \in Int /\ b.x \in Int /\ b.y \in Int
        /\ c.x \in Int /\ c.y \in Int /\ radius \in Int
    BY DEF Points, Items, GathererWidth
  <1>2. length \in Int /\ length # 0 /\ e \in Int
    BY <1>1
  <1>3. /\ Dot(Minus(c, a), Minus(b, a)) = (c.x - a.x) * (b.x - a.x)
        /\ Dot(Minus(c, b), Minus(a, b)) = (c.x - b.x) * (a.x - b.x)
        /\ Dot(Minus(b, a), Minus(b, a)) = length * length
    BY <1>1 DEF Dot, Minus
  <1>4. Cross(Minus(c, a), Minus(b, a)) = -(e * length)
    BY <1>1 DEF Cross, Minus
  <1>5. Cross(Minus(c, a), Minus(b, a)) * Cross(Minus(c, a), Minus(b, a))
          = (e * length) * (e * length)
    BY <1>2, <1>4
  <1>6. NearSegment(a, b, c, radius) <=> Within(a.x, b.x, c.x) /\ e * e =< radius * radius
    <2> HIDE DEF length, e, radius, c
    <2>1. (c.x - a.x) * (b.x - a.x) >= 0 /\ (c.x - b.x) * (a.x - b.x) >= 0
            <=> Within(a.x, b.x, c.x)
      BY <1>1, InnerSides
    <2>2. (e * length) * (e * length) =< radius * radius * (length * length)
            <=> e * e =< radius * radius
      BY <1>1, <1>2, Across
    <2> QED
      BY <1>3, <1>5, <2>1, <2>2, Zenon DEF NearSegment
  <1> QED
    BY <1>6, CollectedIsNear
LEMMA CutAlongX ==
    ASSUME NEW a \in Points, NEW m \in Points, NEW b \in Points, NEW item \in Items,
           a.y = m.y, m.y = b.y, a.x # m.x, m.x # b.x, Within(a.x, b.x, m.x)
    PROVE  IsCollected(a, b, item) <=> IsCollected(a, m, item) \/ IsCollected(m, b, item)
  <1>1. /\ a.x \in Int /\ m.x \in Int /\ b.x \in Int /\ item.position.x \in Int
        /\ item.position \in Points
    BY DEF Points, Items
  <1>2. a.x # b.x
    BY <1>1 DEF Within
  <1>3. Within(a.x, b.x, item.position.x)
          <=> Within(a.x, m.x, item.position.x) \/ Within(m.x, b.x, item.position.x)
    BY <1>1 DEF Within
  <1> QED
    BY <1>2, <1>3, CollectedAlongX

\* The map with its axes exchanged.
Flip(p) == [x |-> p.y, y |-> p.x]
FlipItem(item) == [position |-> Flip(item.position), width |-> item.width]

LEMMA FlipTypes ==
    ASSUME NEW p \in Points, NEW item \in Items
    PROVE  /\ Flip(p) \in Points /\ Flip(p).x = p.y /\ Flip(p).y = p.x
           /\ FlipItem(item) \in Items
  BY DEF Flip, FlipItem, Points, Items

LEMMA CollectedOnFlippedMap ==
    ASSUME NEW a \in Points, NEW b \in Points, NEW item \in Items
    PROVE  IsCollected(a, b, item) <=> IsCollected(Flip(a), Flip(b), FlipItem(item))
  <1> DEFINE c == item.position
  <1>1. c \in Points /\ FlipItem(item).position = Flip(c) /\ FlipItem(item).width = item.width
    BY DEF Items, FlipItem
  <1>2. ASSUME NEW p \in Points, NEW q \in Points
        PROVE  Minus(Flip(p), Flip(q)) = Flip(Minus(p, q)) /\ Minus(p, q) \in Points
    BY DEF Minus, Flip, Points
  <1>3. ASSUME NEW u \in Points, NEW v \in Points
        PROVE  Dot(Flip(u), Flip(v)) = Dot(u, v)
    BY DEF Dot, Flip, Points
  <1> DEFINE u == Minus(c, a)
             v == Minus(b, a)
  <1>4. u \in Points /\ v \in Points
        /\ Minus(Flip(c), Flip(a)) = Flip(u) /\ Minus(Flip(b), Flip(a)) = Flip(v)
    BY <1>1, <1>2
  <1>5. Dot(Flip(u), Flip(v)) = Dot(u, v) /\ Dot(Flip(u), Flip(u)) = Dot(u, u)
        /\ Dot(Flip(v), Flip(v)) = Dot(v, v)
    BY <1>3, <1>4
  <1> QED
    BY <1>1, <1>4, <1>5, Zenon DEF IsCollected

\* A dog that runs along a road in two steps meets what it meets in one, whatever
\* lies there and wherever the way is cut: both ends belong to a segment
\* (collision_detector.h:13-15).
THEOREM NothingIsMissedAtACut ==
    ASSUME NEW axis \in {"x", "y"}, NEW other \in {"x", "y"} \ {axis},
           NEW a \in Points, NEW m \in Points, NEW b \in Points, NEW item \in Items,
           a[other] = m[other], m[other] = b[other],
           a[axis] # m[axis], m[axis] # b[axis], Within(a[axis], b[axis], m[axis])
    PROVE  IsCollected(a, b, item) <=> IsCollected(a, m, item) \/ IsCollected(m, b, item)
  <1>1. CASE axis = "x"
    BY <1>1, CutAlongX
  <1>2. CASE axis = "y"
    <2>1. /\ a.x = m.x /\ m.x = b.x /\ a.y # m.y /\ m.y # b.y /\ Within(a.y, b.y, m.y)
      BY <1>2
    <2>2. IsCollected(Flip(a), Flip(b), FlipItem(item))
            <=> \/ IsCollected(Flip(a), Flip(m), FlipItem(item))
                \/ IsCollected(Flip(m), Flip(b), FlipItem(item))
      BY <2>1, FlipTypes, CutAlongX
    <2> QED
      BY <2>2, CollectedOnFlippedMap
  <1> QED
    BY <1>1, <1>2
-----------------------------------------------------------------------------
(* What a segment meets.                                                   *)

LEMMA ItemSequences ==
    ASSUME NEW items \in {LootItems, OfficeItems}
    PROVE  items \in Seq(Items) /\ Len(items) \in Nat /\ DOMAIN items = 1 .. Len(items)
  <1>1. PICK n \in Nat : DOMAIN items = 1 .. n
    <2>1. Len(Loot) \in Nat /\ DOMAIN Loot = 1 .. Len(Loot)
          /\ Len(Offices) \in Nat /\ DOMAIN Offices = 1 .. Len(Offices)
      BY ItemsAssumption
    <2>. QED  BY <2>1 DEF LootItems, OfficeItems
  <1>2. \A i \in 1 .. n : items[i] \in Items
    BY <1>1, ItemTypes
  <1>3. items = [i \in 1 .. n |-> items[i]]
    BY <1>1 DEF LootItems, OfficeItems
  <1>4. items \in [1 .. n -> Items]
    BY <1>2, <1>3
  <1>. QED  BY <1>1, <1>4

LEMMA AppendRange ==
    ASSUME NEW T, NEW s \in Seq(T), NEW e \in T
    PROVE  Append(s, e) \in Seq(T) /\ Range(Append(s, e)) = Range(s) \cup {e}
  <1>1. /\ Append(s, e) \in Seq(T) /\ Len(Append(s, e)) = Len(s) + 1
        /\ \A k \in 1 .. Len(s) : Append(s, e)[k] = s[k]
        /\ Append(s, e)[Len(s) + 1] = e
        /\ Len(s) \in Nat /\ DOMAIN s = 1 .. Len(s)
        /\ DOMAIN Append(s, e) = 1 .. Len(s) + 1
    OBVIOUS
  <1>2. \A k : k \in 1 .. Len(s) + 1 <=> k \in 1 .. Len(s) \/ k = Len(s) + 1
    BY <1>1
  <1>. QED  BY <1>1, <1>2 DEF Range

\* The items met are those that are near, and no others.
LEMMA MetItems ==
    ASSUME NEW a \in Points, NEW b \in Points, NEW items \in {LootItems, OfficeItems}
    PROVE  /\ Met(a, b, items) \in Seq(DOMAIN items)
           /\ Range(Met(a, b, items)) =
                {i \in DOMAIN items : a # b /\ IsCollected(a, b, items[i])}
  <1>. DEFINE n == Len(items)
              S == Seq(1 .. n)
              Body(i, s) == IF IsCollected(a, b, items[i]) THEN Append(s, i) ELSE s
              visit == [i \in 1 .. n |-> [s \in S |-> Body(i, s)]]
              Whole(f) == f = [i \in 0 .. n |-> IF i = 0 THEN <<>> ELSE Body(i, f[i - 1])]
              met == CHOOSE f : Whole(f)
              P == {k \in 0 .. n : /\ met[k] \in S
                                   /\ Range(met[k]) = {i \in 1 .. k : IsCollected(a, b, items[i])}}
  <1>1. n \in Nat /\ DOMAIN items = 1 .. n
    BY ItemSequences
  <1>2. <<>> \in S
    OBVIOUS
  <1>3. \A i \in 1 .. n, s \in S : Body(i, s) \in S
    BY AppendRange
  <1>. HIDE DEF n, S
  <1>4. visit \in [1 .. n -> [S -> S]]
    <2>. HIDE DEF Body
    <2>. QED  BY <1>3
  <1>5. PICK after \in [0 .. n -> S] : Iterates(n, <<>>, visit, after)
    <2>. HIDE DEF visit
    <2>. QED  BY <1>1, <1>2, <1>4, Iteration
  <1>6. Whole(after)
    <2>. HIDE DEF Body
    <2>1. \A k \in 1 .. n : k - 1 \in 0 .. n
      BY <1>1
    <2>2. after[0] = <<>> /\ \A k \in 1 .. n : after[k] = visit[k][after[k - 1]]
      BY <1>5 DEF Iterates
    <2>3. \A k \in 1 .. n : after[k] = Body(k, after[k - 1])
      BY <2>1, <2>2
    <2>. HIDE DEF visit
    <2>. QED  BY <1>1, <2>2, <2>3
  <1>7. Whole(met)
    <2>. HIDE DEF Whole
    <2>. QED  BY <1>6
  <1>8. met[0] = <<>> /\ \A k \in 1 .. n : met[k] = Body(k, met[k - 1])
    <2>. HIDE DEF Body, met
    <2>. QED  BY <1>1, <1>7
  <1>9. n \in P
    <2>. HIDE DEF met, Body
    <2>1. 0 \in P
      BY <1>1, <1>2, <1>8 DEF Range
    <2>2. ASSUME NEW k \in 1 .. n, k - 1 \in P PROVE k \in P
      <3>1. met[k - 1] \in Seq(1 .. n)
        BY <2>2 DEF S
      <3>2. Range(met[k - 1]) = {i \in 1 .. k - 1 : IsCollected(a, b, items[i])}
        BY <2>2
      <3>3. met[k] = Body(k, met[k - 1])
        BY <1>8
      <3>4. \A i : i \in 1 .. k <=> i \in 1 .. k - 1 \/ i = k
        BY <1>1
      <3>5. CASE IsCollected(a, b, items[k])
        <4>. DEFINE before == met[k - 1]
        <4>1. met[k] = Append(before, k)
          BY <3>3, <3>5 DEF Body
        <4>2. met[k] \in Seq(1 .. n) /\ Range(met[k]) = Range(before) \cup {k}
          <5>. DEFINE T == 1 .. n
          <5>1. before \in Seq(T) /\ k \in T
            BY <3>1
          <5>. HIDE DEF before, T
          <5>2. met[k] \in Seq(T) /\ Range(met[k]) = Range(before) \cup {k}
            BY <4>1, <5>1, AppendRange
          <5>. QED  BY <5>2 DEF T
        <4>3. Range(met[k]) = {i \in 1 .. k : IsCollected(a, b, items[i])}
          BY <3>2, <3>4, <3>5, <4>2
        <4>. QED  BY <1>1, <4>2, <4>3 DEF S
      <3>6. CASE ~IsCollected(a, b, items[k])
        <4>1. met[k] = met[k - 1]
          BY <3>3, <3>6 DEF Body
        <4>2. Range(met[k]) = {i \in 1 .. k : IsCollected(a, b, items[i])}
          BY <3>2, <3>4, <3>6, <4>1
        <4>. QED  BY <1>1, <3>1, <4>1, <4>2 DEF S
      <3>. QED  BY <3>5, <3>6
    <2>3. P \in SUBSET (0 .. n)
      OBVIOUS
    <2>. HIDE DEF P
    <2>4. P = 0 .. n
      BY <1>1, <2>1, <2>2, <2>3, UpTo
    <2>. QED  BY <1>1, <2>4
  <1>10. CASE a = b
    <2>1. Met(a, b, items) = <<>>
      BY <1>10 DEF Met
    <2>. QED  BY <1>10, <2>1 DEF Range
  <1>11. CASE a # b
    <2>1. Met(a, b, items) = met[n]
      BY <1>11 DEF Met, n
    <2>. HIDE DEF met
    <2>. QED  BY <1>1, <1>9, <1>11, <2>1 DEF S
  <1>. QED  BY <1>10, <1>11

\* A way along a direction that is cut at a place on it, maybe at an end.
LEMMA CutAlong ==
    ASSUME NEW d \in Directions, NEW a \in Points, NEW m \in Points, NEW b \in Points,
           InLine(d, a, m), InLine(d, m, b),
           Along(d, a) =< Along(d, m), Along(d, m) =< Along(d, b),
           NEW item \in Items
    PROVE  a # b /\ IsCollected(a, b, item)
             <=> \/ a # m /\ IsCollected(a, m, item)
                 \/ m # b /\ IsCollected(m, b, item)
  <1>1. CASE a = m
    BY <1>1
  <1>2. CASE m = b
    BY <1>2
  <1>3. CASE a # m /\ m # b
    <2>1. Axis(d) \in {"x", "y"} /\ Sign(d) \in {1, -1}
      BY DirectionTypes
    <2>2. PICK other \in {"x", "y"} \ {Axis(d)} : TRUE
      BY <2>1
    <2>3. a[other] = m[other] /\ m[other] = b[other]
      BY <2>2 DEF InLine
    <2>4. a[Axis(d)] \in Int /\ m[Axis(d)] \in Int /\ b[Axis(d)] \in Int
      BY <2>1 DEF Points
    <2>5. a[Axis(d)] # m[Axis(d)] /\ m[Axis(d)] # b[Axis(d)]
      <3>1. Along(d, a) # Along(d, m) /\ Along(d, m) # Along(d, b)
        BY <1>3, SamePlace
      <3>. QED  BY <3>1 DEF Along
    <2>6. Within(a[Axis(d)], b[Axis(d)], m[Axis(d)]) /\ a[Axis(d)] # b[Axis(d)]
      <3>1. CASE Sign(d) = 1
        BY <2>4, <2>5, <3>1 DEF Along, Within
      <3>2. CASE Sign(d) = -1
        BY <2>4, <2>5, <3>2 DEF Along, Within
      <3>. QED  BY <2>1, <3>1, <3>2
    <2>7. IsCollected(a, b, item) <=> IsCollected(a, m, item) \/ IsCollected(m, b, item)
      BY <2>1, <2>3, <2>5, <2>6, NothingIsMissedAtACut
    <2>. QED  BY <1>3, <2>6, <2>7
  <1>. QED  BY <1>1, <1>2, <1>3

\* A dog gathers in two ticks what it gathers in one that lasts as long as both:
\* the period of the ticks does not decide what is gathered
\* (collision_detector.h:13-15, application.h:53-136).
THEOREM NothingIsMissedBetweenTicks == ASSUME ShortTicks PROVE Spec => []GatheringAddsUp
  <1>1. ASSUME TypeOK, moving, NEW a \in Steps, NEW b \in Steps, a + b \in Steps,
               NEW o \in Orders(coords), NEW oo \in Orders(Moved(dir, coords, a, o)),
               NEW items \in {LootItems, OfficeItems}
        PROVE  LET half == Moved(dir, coords, a, o)
                   there == Moved(dir, half, b, oo)
               IN  Range(Met(coords, Moved(dir, coords, a + b, o), items))
                     = Range(Met(coords, half, items)) \cup Range(Met(half, there, items))
    <2>. DEFINE half == Moved(dir, coords, a, o)
                there == Moved(dir, half, b, oo)
    <2>1. dir \in Directions /\ coords \in Points /\ a \in Nat /\ b \in Nat
      BY <1>1, StepsAssumption DEF TypeOK
    <2>2. /\ half \in Points /\ InLine(dir, coords, half)
          /\ Along(dir, coords) =< Along(dir, half)
      BY <2>1, MovedTo
    <2>3. /\ there \in Points /\ InLine(dir, half, there)
          /\ Along(dir, half) =< Along(dir, there)
      BY <2>1, <2>2, MovedTo
    <2>4. Moved(dir, coords, a + b, o) = there
      BY <1>1, <2>1, ShortTicksAddUp
    <2>. HIDE DEF half, there
    <2>5. \A i \in DOMAIN items :
            coords # there /\ IsCollected(coords, there, items[i])
              <=> \/ coords # half /\ IsCollected(coords, half, items[i])
                  \/ half # there /\ IsCollected(half, there, items[i])
      BY <2>1, <2>2, <2>3, ItemTypes, CutAlong
    <2>6. ASSUME NEW p \in Points, NEW q \in Points
          PROVE  Range(Met(p, q, items))
                   = {i \in DOMAIN items : p # q /\ IsCollected(p, q, items[i])}
      BY <2>6, MetItems
    <2>7. Range(Met(coords, there, items))
            = Range(Met(coords, half, items)) \cup Range(Met(half, there, items))
      BY <2>1, <2>2, <2>3, <2>5, <2>6
    <2>. QED  BY <2>4, <2>7 DEF half, there
  <1>2. ASSUME TypeOK PROVE GatheringAddsUp
    <2>. SUFFICES ASSUME moving, NEW a \in Steps, NEW b \in Steps, a + b \in Steps,
                         NEW items \in {LootItems, OfficeItems}
                  PROVE  LET o == CHOOSE o \in Orders(coords) : TRUE
                             half == Moved(dir, coords, a, o)
                             oo == CHOOSE oo \in Orders(half) : TRUE
                             there == Moved(dir, half, b, oo)
                         IN  Range(Met(coords, Moved(dir, coords, a + b, o), items))
                               = Range(Met(coords, half, items))
                                   \cup Range(Met(half, there, items))
      BY Zenon DEF GatheringAddsUp
    <2>. DEFINE o == CHOOSE o \in Orders(coords) : TRUE
                half == Moved(dir, coords, a, o)
                oo == CHOOSE oo \in Orders(half) : TRUE
    <2>1. o \in Orders(coords) /\ oo \in Orders(half)
      BY OrdersExist
    <2>. HIDE DEF o, oo
    <2>2. Range(Met(coords, Moved(dir, coords, a + b, o), items))
            = Range(Met(coords, half, items))
                \cup Range(Met(half, Moved(dir, half, b, oo), items))
      BY <1>1, <1>2, <2>1
    <2>. QED  BY <2>2 DEF o, oo
  <1>. QED  BY <1>2, MovementTypeCorrect, PTL-----------------------------------------------------------------------------
(* The sort.                                                               *)

TimedEvents == [item : Nat, gatherer : {1, 2}, den : Nat, num : Int]

InOrder(s) == \A k \in 1 .. Len(s) - 1 : ~Before(s[k + 1], s[k])

\* Of two events one is not before the other.
LEMMA BeforeIsAsymmetric ==
    ASSUME NEW e \in TimedEvents, NEW f \in TimedEvents, Before(e, f)
    PROVE  ~Before(f, e)
  <1>. DEFINE p == Tolerance * e.num * f.den
              q == Tolerance * f.num * e.den
              dd == e.den * f.den
  <1>1. e.num \in Int /\ e.den \in Nat /\ f.num \in Int /\ f.den \in Nat /\ Tolerance \in Nat
    BY ToleranceAssumption DEF TimedEvents
  <1>2. p \in Int /\ q \in Int
    BY <1>1
  <1>3. dd \in Nat
    BY <1>1
  <1>4. f.den * e.den = dd
    BY <1>1
  <1>5. p < q - dd
    BY DEF Before
  <1>6. Before(f, e) <=> q < p - dd
    BY <1>4 DEF Before
  <1>. HIDE DEF p, q, dd
  <1>. QED  BY <1>2, <1>3, <1>5, <1>6

LEMMA PutInFront ==
    ASSUME NEW s \in Seq(TimedEvents), InOrder(s), NEW e \in TimedEvents,
           s = <<>> \/ Before(e, s[1])
    PROVE  <<e>> \o s \in Seq(TimedEvents) /\ InOrder(<<e>> \o s)
  <1>. DEFINE t == <<e>> \o s
  <1>1. Len(s) \in Nat /\ \A k \in 1 .. Len(s) : s[k] \in TimedEvents
    OBVIOUS
  <1>2. /\ t \in Seq(TimedEvents) /\ Len(t) = Len(s) + 1 /\ t[1] = e
        /\ \A k \in 1 .. Len(s) : t[k + 1] = s[k]
    OBVIOUS
  <1>. HIDE DEF t
  <1>3. ASSUME NEW k \in 1 .. Len(t) - 1 PROVE ~Before(t[k + 1], t[k])
    <2>1. CASE k = 1
      <3>1. Len(s) >= 1 /\ s # <<>>
        BY <1>1, <1>2, <2>1
      <3>2. t[k + 1] = s[1] /\ t[k] = e /\ s[1] \in TimedEvents /\ Before(e, s[1])
        BY <1>1, <1>2, <2>1, <3>1
      <3>. QED  BY <3>2, BeforeIsAsymmetric
    <2>2. CASE k # 1
      <3>1. k - 1 \in 1 .. Len(s) - 1 /\ k - 1 \in 1 .. Len(s) /\ k \in 1 .. Len(s)
            /\ (k - 1) + 1 = k
        BY <1>1, <1>2, <2>2
      <3>2. t[k + 1] = s[k] /\ t[k] = s[k - 1]
        BY <1>2, <3>1
      <3>3. ~Before(s[(k - 1) + 1], s[k - 1])
        BY <3>1 DEF InOrder
      <3>. QED  BY <3>1, <3>2, <3>3
    <2>. QED  BY <2>1, <2>2
  <1>. QED  BY <1>2, <1>3 DEF InOrder, t

LEMMA Concatenation ==
    ASSUME NEW T, NEW u \in Seq(T), NEW v \in Seq(T)
    PROVE  /\ u \o v \in Seq(T) /\ Len(u \o v) = Len(u) + Len(v)
           /\ \A j \in 1 .. Len(u) : (u \o v)[j] = u[j]
           /\ \A j \in 1 .. Len(v) : (u \o v)[Len(u) + j] = v[j]
  OBVIOUS

LEMMA PutAfter ==
    ASSUME NEW s \in Seq(TimedEvents), InOrder(s), NEW e \in TimedEvents,
           NEW k \in 1 .. Len(s), ~Before(e, s[k]),
           \A j \in 1 .. Len(s) : ~Before(e, s[j]) => j =< k
    PROVE  InsertAt(s, k + 1, e) \in Seq(TimedEvents) /\ InOrder(InsertAt(s, k + 1, e))
  <1>. DEFINE left == SubSeq(s, 1, k)
              right == SubSeq(s, k + 1, Len(s))
              t == (left \o <<e>>) \o right
  <1>1. Len(s) \in Nat /\ k \in Nat /\ \A j \in 1 .. Len(s) : s[j] \in TimedEvents
    OBVIOUS
  <1>2. /\ left \in Seq(TimedEvents) /\ Len(left) = k
        /\ \A j \in 1 .. k : left[j] = s[j]
    BY <1>1
  <1>3. /\ right \in Seq(TimedEvents) /\ Len(right) = Len(s) - k
        /\ \A j \in 1 .. Len(s) - k : right[j] = s[k + j]
    BY <1>1
  <1>4. InsertAt(s, k + 1, e) = t
    <2>1. (k + 1) - 1 = k
      BY <1>1
    <2>. QED  BY <2>1 DEF InsertAt
  <1>. HIDE DEF left, right
  <1>5. /\ t \in Seq(TimedEvents) /\ Len(t) = Len(s) + 1
        /\ \A j \in 1 .. k : t[j] = s[j]
        /\ t[k + 1] = e
        /\ \A j \in k + 1 .. Len(s) : t[j + 1] = s[j]
    <2>. DEFINE m == left \o <<e>>
    <2>1. /\ m \in Seq(TimedEvents) /\ Len(m) = k + 1 /\ m[k + 1] = e
          /\ \A j \in 1 .. k : m[j] = s[j]
      BY <1>1, <1>2
    <2>. HIDE DEF m
    <2>2. t = m \o right
      BY DEF m
    <2>. HIDE DEF t
    <2>3. t \in Seq(TimedEvents) /\ Len(t) = Len(m) + Len(right)
          /\ (\A j \in 1 .. Len(m) : t[j] = m[j])
          /\ \A j \in 1 .. Len(right) : t[Len(m) + j] = right[j]
      <3>1. right \in Seq(TimedEvents) /\ m \in Seq(TimedEvents)
        BY <1>3, <2>1
      <3>2. /\ m \o right \in Seq(TimedEvents) /\ Len(m \o right) = Len(m) + Len(right)
            /\ \A j \in 1 .. Len(m) : (m \o right)[j] = m[j]
            /\ \A j \in 1 .. Len(right) : (m \o right)[Len(m) + j] = right[j]
        BY <3>1, Concatenation
      <3>. QED  BY <2>2, <3>2, Zenon
    <2>4. ASSUME NEW j \in k + 1 .. Len(s) PROVE t[j + 1] = s[j]
      <3>1. j - k \in 1 .. Len(right) /\ Len(m) + (j - k) = j + 1 /\ k + (j - k) = j
        BY <1>1, <1>3, <2>1
      <3>2. t[Len(m) + (j - k)] = right[j - k]
        BY <2>3, <3>1
      <3>3. right[j - k] = s[k + (j - k)]
        BY <1>3, <3>1
      <3>. QED  BY <3>1, <3>2, <3>3
    <2>5. \A j \in 1 .. k : j \in 1 .. k + 1
      BY <1>1
    <2>6. k + 1 \in 1 .. k + 1
      BY <1>1
    <2>7. Len(t) = Len(s) + 1
      BY <1>1, <1>3, <2>1, <2>3
    <2>8. \A j \in 1 .. k : t[j] = s[j]
      BY <2>1, <2>3, <2>5
    <2>9. t[k + 1] = e
      BY <2>1, <2>3, <2>6
    <2>. QED  BY <2>3, <2>4, <2>7, <2>8, <2>9
  <1>. HIDE DEF t
  <1>6. ASSUME NEW j \in 1 .. Len(t) - 1 PROVE ~Before(t[j + 1], t[j])
    <2>1. CASE j < k
      <3>1. j \in 1 .. k /\ j + 1 \in 1 .. k /\ j \in 1 .. Len(s) - 1
        BY <1>1, <2>1
      <3>. QED  BY <1>5, <3>1 DEF InOrder
    <2>2. CASE j = k
      <3>1. t[j + 1] = e /\ t[j] = s[k]
        BY <1>1, <1>5, <2>2
      <3>. QED  BY <3>1
    <2>3. CASE j = k + 1
      <3>1. j \in k + 1 .. Len(s) /\ j \in 1 .. Len(s) /\ ~(j =< k)
        BY <1>1, <1>5, <2>3
      <3>2. t[j + 1] = s[j] /\ t[j] = e /\ s[j] \in TimedEvents
        BY <1>1, <1>5, <2>3, <3>1
      <3>3. Before(e, s[j])
        BY <3>1
      <3>. QED  BY <3>2, <3>3, BeforeIsAsymmetric
    <2>4. CASE j > k + 1
      <3>1. j \in k + 1 .. Len(s) /\ j - 1 \in k + 1 .. Len(s) /\ (j - 1) + 1 = j
            /\ j - 1 \in 1 .. Len(s) - 1
        BY <1>1, <1>5, <2>4
      <3>2. t[j + 1] = s[j] /\ t[(j - 1) + 1] = s[j - 1]
        BY <1>5, <3>1
      <3>3. ~Before(s[(j - 1) + 1], s[j - 1])
        BY <3>1 DEF InOrder
      <3>. QED  BY <3>1, <3>2, <3>3
    <2>. QED  BY <1>1, <2>1, <2>2, <2>3, <2>4
  <1>. QED  BY <1>4, <1>5, <1>6 DEF InOrder

\* An event that is put into a row leaves its neighbours in order.
LEMMA InsertKeepsOrder ==
    ASSUME NEW s \in Seq(TimedEvents), InOrder(s), NEW e \in TimedEvents
    PROVE  Insert(s, e) \in Seq(TimedEvents) /\ InOrder(Insert(s, e))
  <1>1. CASE s = <<>> \/ Before(e, s[1])
    BY <1>1, PutInFront DEF Insert
  <1>2. CASE ~(s = <<>> \/ Before(e, s[1]))
    <2>. DEFINE n == Len(s)
                stops == {k \in DOMAIN s : ~Before(e, s[k])}
                k == CHOOSE k \in stops : \A j \in stops : j =< k
                T == {n - j : j \in stops}
    <2>1. n \in Nat /\ n >= 1 /\ DOMAIN s = 1 .. n
      BY <1>2
    <2>2. 1 \in stops
      BY <1>2, <2>1
    <2>3. T \in SUBSET Nat /\ T # {}
      BY <2>1, <2>2
    <2>4. PICK x \in T : \A y \in T : x =< y
      <3>. HIDE DEF T
      <3>. QED  BY <2>3, LeastNumber
    <2>5. PICK i \in stops : x = n - i
      BY <2>4
    <2>6. \A j \in stops : n - i =< n - j
      BY <2>4, <2>5
    <2>7. \A j \in stops : j =< i
      BY <2>1, <2>5, <2>6
    <2>8. k \in stops /\ \A j \in stops : j =< k
      <3>. HIDE DEF stops
      <3>. QED  BY <2>5, <2>7
    <2>9. Insert(s, e) = InsertAt(s, k + 1, e)
      BY <1>2 DEF Insert
    <2>. HIDE DEF k
    <2>10. k \in 1 .. Len(s) /\ ~Before(e, s[k])
           /\ \A j \in 1 .. Len(s) : ~Before(e, s[j]) => j =< k
      BY <2>1, <2>8
    <2>. QED  BY <2>9, <2>10, PutAfter
  <1>. QED  BY <1>1, <1>2
LEMMA DotType ==
    ASSUME NEW u \in Points, NEW v \in Points
    PROVE  Dot(u, v) \in Int /\ Dot(v, v) \in Nat
  <1>1. u.x \in Int /\ u.y \in Int /\ v.x \in Int /\ v.y \in Int
    BY DEF Points
  <1>2. \A n \in Int : n * n \in Int /\ n * n >= 0
    BY Square
  <1>3. u.x * v.x \in Int /\ u.y * v.y \in Int
    BY <1>1
  <1>4. v.x * v.x \in Nat /\ v.y * v.y \in Nat
    BY <1>1, <1>2
  <1>. QED  BY <1>3, <1>4 DEF Dot

\* The events of a dog are a sequence of events.
LEMMA EventsOfADog ==
    ASSUME NEW gatherers \in [1 .. 2 -> Segments], NEW g \in 1 .. 2,
           NEW items \in {LootItems, OfficeItems}
    PROVE  EventsOf(gatherers, g, items) \in Seq(TimedEvents)
  <1>. DEFINE a == gatherers[g].start
              b == gatherers[g].end
              met == Met(a, b, items)
  <1>1. a \in Points /\ b \in Points
    BY DEF Segments
  <1>2. met \in Seq(DOMAIN items) /\ DOMAIN items \subseteq Nat
    BY <1>1, MetItems, ItemSequences
  <1>3. ASSUME NEW i \in DOMAIN items PROVE Event(gatherers, g, items, i) \in TimedEvents
    <2>1. items[i].position \in Points
      BY ItemTypes DEF Items
    <2>2. Minus(b, a) \in Points /\ Minus(items[i].position, a) \in Points
      BY <1>1, <2>1 DEF Minus, Points
    <2>3. /\ Dot(Minus(b, a), Minus(b, a)) \in Nat
          /\ Dot(Minus(items[i].position, a), Minus(b, a)) \in Int
      BY <2>2, DotType
    <2>4. i \in Nat /\ g \in {1, 2}
      BY <1>2
    <2>. QED  BY <2>3, <2>4 DEF Event, TimedEvents
  <1>. HIDE DEF met
  <1>4. Len(met) \in Nat /\ DOMAIN met = 1 .. Len(met)
        /\ \A k \in DOMAIN met : met[k] \in DOMAIN items
    BY <1>2
  <1>5. EventsOf(gatherers, g, items)
          = [k \in 1 .. Len(met) |-> Event(gatherers, g, items, met[k])]
    BY <1>4, Zenon DEF EventsOf, met
  <1>6. \A k \in 1 .. Len(met) : Event(gatherers, g, items, met[k]) \in TimedEvents
    BY <1>3, <1>4
  <1>. QED  BY <1>4, <1>5, <1>6

\* The events of two dogs follow each other.
LEMMA RawEventsType ==
    ASSUME NEW gatherers \in [1 .. 2 -> Segments], NEW items \in {LootItems, OfficeItems}
    PROVE  RawEvents(gatherers, items) \in Seq(TimedEvents)
  <1>. DEFINE seqs == [g \in 1 .. 2 |-> EventsOf(gatherers, g, items)]
              Whole(f) == f = [i \in 1 .. Len(seqs) |->
                                 IF i = 1 THEN seqs[i] ELSE f[i - 1] \o seqs[i]]
              flat == CHOOSE f : Whole(f)
  <1>1. seqs[1] \in Seq(TimedEvents) /\ seqs[2] \in Seq(TimedEvents)
    BY EventsOfADog
  <1>2. Len(seqs) = 2
    OBVIOUS
  <1>. HIDE DEF seqs
  <1>. DEFINE both == seqs[1] \o seqs[2]
  <1>3. Whole([i \in 1 .. 2 |-> IF i = 1 THEN seqs[1] ELSE both])
    <2>. DEFINE g == [i \in 1 .. 2 |-> IF i = 1 THEN seqs[1] ELSE both]
    <2>1. \A i \in 1 .. 2 : g[i] = IF i = 1 THEN seqs[i] ELSE g[i - 1] \o seqs[i]
      <3>1. g[1] = seqs[1] /\ g[2] = seqs[1] \o seqs[2]
        <4>. HIDE DEF both
        <4>1. g[1] = seqs[1] /\ g[2] = both
          OBVIOUS
        <4>. QED  BY <4>1 DEF both
      <3>. HIDE DEF g
      <3>2. ASSUME NEW i \in 1 .. 2, i # 1 PROVE g[i] = g[i - 1] \o seqs[i]
        <4>1. i = 2 /\ i - 1 = 1
          BY <3>2
        <4>. QED  BY <3>1, <4>1
      <3>. QED  BY <3>1, <3>2
    <2>2. g = [i \in 1 .. 2 |-> g[i]]
      OBVIOUS
    <2>. HIDE DEF g
    <2>3. Whole(g)
      BY <1>2, <2>1, <2>2
    <2>. QED  BY <2>3 DEF g
  <1>4. Whole(flat)
    <2>. HIDE DEF Whole
    <2>. QED  BY <1>3
  <1>5. flat[1] = seqs[1] /\ flat[2] = flat[1] \o seqs[2]
    <2>. HIDE DEF flat
    <2>. QED  BY <1>2, <1>4
  <1>6. flat[2] \in Seq(TimedEvents)
    <2>. HIDE DEF flat
    <2>. QED  BY <1>1, <1>5
  <1>7. RawEvents(gatherers, items) = FlattenSeq(seqs)
    BY DEF RawEvents, seqs
  <1>8. FlattenSeq(seqs) = flat[Len(seqs)]
    BY <1>2 DEF FlattenSeq
  <1>. HIDE DEF flat
  <1>. QED  BY <1>2, <1>6, <1>7, <1>8

\* Sorted events are in order.
LEMMA EventsInOrder ==
    ASSUME NEW gatherers \in [1 .. 2 -> Segments], NEW items \in {LootItems, OfficeItems}
    PROVE  InOrder(Events(gatherers, items))
  <1>. DEFINE raw == RawEvents(gatherers, items)
              n == Len(raw)
              S == {s \in Seq(TimedEvents) : InOrder(s)}
              put == [k \in 1 .. n |-> [s \in S |-> Insert(s, raw[k])]]
              Whole(f) == f = [k \in 0 .. n |-> IF k = 0 THEN <<>>
                                              ELSE Insert(f[k - 1], raw[k])]
              sorted == CHOOSE f : Whole(f)
              P == {k \in 0 .. n : sorted[k] \in S}
  <1>1. n \in Nat /\ \A k \in 1 .. n : raw[k] \in TimedEvents
    BY RawEventsType
  <1>2. <<>> \in S
    BY DEF InOrder
  <1>. HIDE DEF raw, n
  <1>3. \A k \in 1 .. n, s \in S : Insert(s, raw[k]) \in S
    BY <1>1, InsertKeepsOrder
  <1>. HIDE DEF S
  <1>4. put \in [1 .. n -> [S -> S]]
    BY <1>3
  <1>5. PICK after \in [0 .. n -> S] : Iterates(n, <<>>, put, after)
    <2>. HIDE DEF put
    <2>. QED  BY <1>1, <1>2, <1>4, Iteration
  <1>6. Whole(after)
    <2>1. \A k \in 1 .. n : k - 1 \in 0 .. n
      BY <1>1
    <2>2. after[0] = <<>> /\ \A k \in 1 .. n : after[k] = put[k][after[k - 1]]
      BY <1>5 DEF Iterates
    <2>3. \A k \in 1 .. n : after[k] = Insert(after[k - 1], raw[k])
      BY <2>1, <2>2
    <2>. HIDE DEF put
    <2>. QED  BY <1>1, <2>2, <2>3
  <1>7. Whole(sorted)
    <2>. HIDE DEF Whole
    <2>. QED  BY <1>6
  <1>8. sorted[0] = <<>> /\ \A k \in 1 .. n : sorted[k] = Insert(sorted[k - 1], raw[k])
    <2>. HIDE DEF sorted
    <2>. QED  BY <1>1, <1>7
  <1>9. n \in P
    <2>. HIDE DEF sorted
    <2>1. 0 \in P /\ P \in SUBSET (0 .. n)
      BY <1>1, <1>2, <1>8
    <2>2. \A k \in 1 .. n : k - 1 \in P => k \in P
      BY <1>1, <1>3, <1>8
    <2>. HIDE DEF P
    <2>3. P = 0 .. n
      BY <1>1, <2>1, <2>2, UpTo
    <2>. QED  BY <1>1, <2>3
  <1>10. Events(gatherers, items) = sorted[n]
    BY DEF Events, n, raw
  <1>. HIDE DEF sorted
  <1>. QED  BY <1>9, <1>10 DEF S

\* Whatever two dogs run and meet, of two events in a row the second is not before
\* the first by more than the tolerance (collision_detector.cpp:39-42).
THEOREM EventsComeInOrder == Spec => []NeighboursInOrder
  <1>1. ASSUME TypeOK, NEW other \in Others, NEW items \in {LootItems, OfficeItems}
        PROVE  InOrder(Events(Gatherers(other), items))
    <2>1. Dog \in Segments /\ other \in Segments
      BY <1>1, OthersAssumption DEF TypeOK, Dog, Segments
    <2>2. Gatherers(other) \in [1 .. 2 -> Segments]
      BY <2>1 DEF Gatherers
    <2>. QED  BY <2>2, EventsInOrder
  <1>2. TypeOK => NeighboursInOrder
    BY <1>1 DEF NeighboursInOrder, InOrder
  <1>. QED  BY <1>2, MovementTypeCorrect, PTL
=============================================================================
