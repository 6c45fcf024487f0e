------------------------ MODULE LootGeneratorProofs ------------------------
(***************************************************************************)
(* Theorems about LootGenerator, for all maps, durations, chances and      *)
(* bounds: the loot of a session never exceeds its players, whatever the   *)
(* order in which the sessions are served and whatever time has run up,    *)
(* and the bound on the clock hides nothing.                               *)
(***************************************************************************)
EXTENDS LootGenerator, FiniteSetTheorems, WellFoundedInduction, TLAPS

(* Induction along a sequence.                                             *)

\* A set of numbers has a least one.
LEMMA LeastNumber ==
    ASSUME NEW T \in SUBSET Nat, T # {}
    PROVE  \E x \in T : \A y \in T : x =< y
<1>. DEFINE R == {ss \in Nat \X Nat : ss[1] < ss[2]}
<1>1. IsWellFoundedOn(R, Nat)
  BY NatLessThanWellFounded, Zenon DEF OpToRel
<1>2. \A x \in Nat, y \in Nat : y < x => <<y, x>> \in R
  OBVIOUS
<1>. HIDE DEF R
<1>3. \E x \in T : \A y \in T : <<y, x>> \notin R
  BY <1>1, WFMin, Zenon
<1>4. PICK x \in T : \A y \in T : <<y, x>> \notin R
  BY <1>3
<1>5. ASSUME NEW y \in T PROVE x =< y
  <2>1. ~(y < x) /\ x \in Nat /\ y \in Nat
    BY <1>2, <1>4
  <2>. QED  BY <2>1
<1>. QED  BY <1>5

\* What holds at 0 and is passed on from each number to the next.
LEMMA UpTo ==
    ASSUME NEW n \in Nat, NEW P \in SUBSET (0 .. n), 0 \in P,
           \A k \in 1 .. n : k - 1 \in P => k \in P
    PROVE  P = 0 .. n
<1>1. SUFFICES ASSUME (0 .. n) \ P # {} PROVE FALSE
  OBVIOUS
<1>2. (0 .. n) \ P \in SUBSET Nat
  OBVIOUS
<1>3. PICK k \in (0 .. n) \ P : \A j \in (0 .. n) \ P : k =< j
  BY <1>1, <1>2, LeastNumber, Zenon
<1>4. k \in 1 .. n /\ k - 1 \in 0 .. n /\ ~(k =< k - 1)
  BY <1>3
<1>5. k - 1 \in P
  BY <1>3, <1>4, Zenon
<1>. QED  BY <1>3, <1>4, <1>5, Zenon

Iterates(n, first, step, after) ==
    after[0] = first /\ \A k \in 1 .. n : after[k] = step[k][after[k - 1]]

\* A value that is made from the one before, for each place of a sequence, can be
\* given for all places at once.
LEMMA Iteration ==
    ASSUME NEW S, NEW n \in Nat, NEW first \in S, NEW step \in [1 .. n -> [S -> S]]
    PROVE  \E after \in [0 .. n -> S] : Iterates(n, first, step, after)
<1>. DEFINE Until(k, f) == /\ f \in [0 .. k -> S]
                           /\ f[0] = first
                           /\ \A j \in 1 .. k : f[j] = step[j][f[j - 1]]
            P == {k \in 0 .. n : \E f : Until(k, f)}
<1>1. 0 \in P
  <2>1. Until(0, [j \in 0 .. 0 |-> first])
    OBVIOUS
  <2>2. 0 \in 0 .. n
    OBVIOUS
  <2>. HIDE DEF Until
  <2>. QED  BY <2>1, <2>2
<1>2. ASSUME NEW k \in 1 .. n, k - 1 \in P PROVE k \in P
  <2>1. PICK f : Until(k - 1, f)
    BY <1>2
  <2>. DEFINE g == [j \in 0 .. k |-> IF j = k THEN step[k][f[k - 1]] ELSE f[j]]
  <2>2. f[k - 1] \in S /\ step[k][f[k - 1]] \in S
    BY <2>1
  <2>3. g \in [0 .. k -> S] /\ g[0] = first
    BY <2>1, <2>2
  <2>4. ASSUME NEW j \in 1 .. k PROVE g[j] = step[j][g[j - 1]]
    <3>1. j - 1 \in 0 .. k /\ j - 1 # k /\ g[j - 1] = f[j - 1]
      OBVIOUS
    <3>2. CASE j = k
      BY <3>1, <3>2
    <3>3. CASE j # k
      <4>1. j \in 1 .. k - 1 /\ g[j] = f[j]
        BY <3>3
      <4>. QED  BY <2>1, <3>1, <4>1
    <3>. QED  BY <3>2, <3>3
  <2>5. Until(k, g)
    BY <2>3, <2>4
  <2>6. k \in 0 .. n
    OBVIOUS
  <2>. HIDE DEF Until, g
  <2>. QED  BY <2>5, <2>6
<1>. HIDE DEF Until
<1>3. n \in P
  <2>1. P \in SUBSET (0 .. n)
    OBVIOUS
  <2>. HIDE DEF P
  <2>2. P = 0 .. n
    BY <1>1, <1>2, <2>1, UpTo
  <2>. QED  BY <2>2
<1>4. PICK f : Until(n, f)
  BY <1>3
<1>. QED  BY <1>4 DEF Until, Iterates

\* What holds at 0 and is passed on for ever.
LEMMA ForEver ==
    ASSUME NEW P \in SUBSET Nat, 0 \in P, \A k \in Nat : k \in P => k + 1 \in P
    PROVE  P = Nat
<1>1. SUFFICES ASSUME Nat \ P # {} PROVE FALSE
  OBVIOUS
<1>2. PICK k \in Nat \ P : \A j \in Nat \ P : k =< j
  BY <1>1, LeastNumber
<1>3. k - 1 \in Nat /\ (k - 1) + 1 = k /\ ~(k =< k - 1)
  BY <1>2
<1>4. k - 1 \in P
  BY <1>2, <1>3, Zenon
<1>5. (k - 1) + 1 \in P
  BY <1>3, <1>4
<1>. QED  BY <1>2, <1>3, <1>5

Endless(first, step, f) == f[0] = first /\ \A t \in Nat : f[t + 1] = step[f[t]]

\* A sequence of values, each made from the one before, goes on for ever.
LEMMA EndlessIteration ==
    ASSUME NEW S, NEW first \in S, NEW step \in [S -> S]
    PROVE  \E f \in [Nat -> S] : Endless(first, step, f)
<1>. DEFINE Until(n, f) == f \in [0 .. n -> S] /\ Iterates(n, first, [k \in 1 .. n |-> step], f)
            chosen(t) == CHOOSE f : Until(t, f)
            G == [t \in Nat |-> chosen(t)[t]]
<1>1. ASSUME NEW n \in Nat PROVE \E f : Until(n, f)
  <2>. DEFINE steps == [k \in 1 .. n |-> step]
  <2>1. steps \in [1 .. n -> [S -> S]]
    OBVIOUS
  <2>. HIDE DEF steps
  <2>2. PICK f \in [0 .. n -> S] : Iterates(n, first, steps, f)
    BY <2>1, Iteration
  <2>. QED  BY <2>2 DEF steps
<1>2. ASSUME NEW t \in Nat PROVE Until(t, chosen(t))
  <2>. HIDE DEF Until
  <2>. QED  BY <1>1
<1>3. ASSUME NEW n \in Nat, NEW f, Until(n, f), NEW k \in 1 .. n
      PROVE  f[k] = step[f[k - 1]]
  <2>1. [j \in 1 .. n |-> step][k] = step
    OBVIOUS
  <2>. QED  BY <1>3, <2>1 DEF Iterates
<1>4. ASSUME NEW n \in Nat, NEW f, Until(n, f) PROVE f[0] = first /\ f[n] \in S
  <2>1. n \in 0 .. n
    OBVIOUS
  <2>. QED  BY <1>4, <2>1 DEF Iterates
<1>. HIDE DEF Until, chosen
<1>5. ASSUME NEW t \in Nat PROVE chosen(t + 1)[t] = chosen(t)[t]
  <2>. DEFINE f == chosen(t)
              g == chosen(t + 1)
              P == {k \in 0 .. t : f[k] = g[k]}
  <2>1. Until(t, f) /\ Until(t + 1, g) /\ t + 1 \in Nat
    BY <1>2
  <2>. HIDE DEF f, g
  <2>2. 0 \in P /\ P \in SUBSET (0 .. t)
    BY <1>4, <2>1
  <2>3. ASSUME NEW k \in 1 .. t, k - 1 \in P PROVE k \in P
    <3>1. k \in 1 .. t + 1
      OBVIOUS
    <3>2. f[k] = step[f[k - 1]] /\ g[k] = step[g[k - 1]]
      BY <1>3, <2>1, <3>1
    <3>. QED  BY <2>3, <3>2
  <2>. HIDE DEF P
  <2>4. P = 0 .. t
    BY <2>2, <2>3, UpTo
  <2>. QED  BY <2>4 DEF P, f, g
<1>6. G \in [Nat -> S]
  BY <1>2, <1>4
<1>7. G[0] = first
  BY <1>2, <1>4
<1>8. ASSUME NEW t \in Nat PROVE G[t + 1] = step[G[t]]
  <2>. DEFINE g == chosen(t + 1)
  <2>1. Until(t + 1, g) /\ t + 1 \in Nat /\ t + 1 \in 1 .. t + 1 /\ (t + 1) - 1 = t
    BY <1>2
  <2>. HIDE DEF g
  <2>2. g[t + 1] = step[g[(t + 1) - 1]]
    BY <1>3, <2>1
  <2>3. g[t + 1] = step[g[t]]
    BY <2>1, <2>2
  <2>. QED  BY <1>5, <2>1, <2>3 DEF g
<1>. HIDE DEF G
<1>. QED  BY <1>6, <1>7, <1>8 DEF Endless
-----------------------------------------------------------------------------
(* The chance that no loot comes.                                          *)

\* The powers of a number, as the function of the exponent that is meant.
ArePowers(n, power) ==
    power = CHOOSE f : f = [t \in Nat |-> IF t = 0 THEN 1 ELSE n * f[t - 1]]

LEMMA Powers ==
    ASSUME NEW n \in Nat, NEW power, ArePowers(n, power)
    PROVE  /\ power \in [Nat -> Nat] /\ power[0] = 1
           /\ \A t \in Nat : power[t + 1] = n * power[t]
<1>. DEFINE Whole(f) == f = [t \in Nat |-> IF t = 0 THEN 1 ELSE n * f[t - 1]]
            times == [v \in Nat |-> n * v]
<1>1. times \in [Nat -> Nat] /\ 1 \in Nat
  OBVIOUS
<1>2. PICK f \in [Nat -> Nat] : f[0] = 1 /\ \A t \in Nat : f[t + 1] = times[f[t]]
  <2>. HIDE DEF times
  <2>1. PICK f \in [Nat -> Nat] : Endless(1, times, f)
    BY <1>1, EndlessIteration
  <2>. QED  BY <2>1 DEF Endless
<1>3. ASSUME NEW t \in Nat, t # 0 PROVE f[t] = n * f[t - 1]
  <2>1. t - 1 \in Nat /\ (t - 1) + 1 = t
    BY <1>3
  <2>2. f[(t - 1) + 1] = times[f[t - 1]]
    BY <1>2, <2>1
  <2>3. times[f[t - 1]] = n * f[t - 1]
    BY <1>2, <2>1
  <2>. QED  BY <2>1, <2>2, <2>3
<1>4. Whole(f)
  <2>. HIDE DEF times
  <2>. QED  BY <1>2, <1>3
<1>5. Whole(power)
  <2>. HIDE DEF Whole
  <2>1. power = CHOOSE g : Whole(g)
    BY DEF Whole, ArePowers
  <2>. QED  BY <1>4, <2>1
<1>6. power[0] = 1
  BY <1>5
<1>7. ASSUME NEW t \in Nat PROVE power[t + 1] = n * power[t]
  <2>1. t + 1 \in Nat /\ t + 1 # 0 /\ (t + 1) - 1 = t
    OBVIOUS
  <2>2. power[t + 1] = n * power[(t + 1) - 1]
    BY <1>5, <2>1
  <2>. QED  BY <2>1, <2>2
<1>8. power \in [Nat -> Nat]
  <2>. DEFINE P == {t \in Nat : power[t] \in Nat}
  <2>1. 0 \in P /\ P \in SUBSET Nat
    BY <1>6
  <2>2. ASSUME NEW t \in Nat, t \in P PROVE t + 1 \in P
    <3>1. power[t] \in Nat /\ power[t + 1] = n * power[t]
      BY <1>7, <2>2
    <3>. HIDE DEF Whole
    <3>. QED  BY <3>1
  <2>. HIDE DEF P
  <2>3. P = Nat
    BY <2>1, <2>2, ForEver
  <2>4. power = [t \in Nat |-> power[t]]
    BY <1>5
  <2>5. \A t \in Nat : power[t] \in Nat
    BY <2>3 DEF P
  <2>. HIDE DEF Whole
  <2>. QED  BY <2>4, <2>5
<1>. QED  BY <1>6, <1>7, <1>8

LEMMA KeepNumIs ==
    /\ KeepNumTo \in [Nat -> Nat] /\ KeepNumTo[0] = 1
    /\ \A t \in Nat : KeepNumTo[t + 1] = KeepNum * KeepNumTo[t]
<1>1. KeepNum \in Nat
  BY NumbersAssumption
<1>2. ArePowers(KeepNum, KeepNumTo)
  BY DEF KeepNumTo, ArePowers
<1>. QED  BY <1>1, <1>2, Powers

LEMMA KeepDenIs ==
    /\ KeepDenTo \in [Nat -> Nat] /\ KeepDenTo[0] = 1
    /\ \A t \in Nat : KeepDenTo[t + 1] = KeepDen * KeepDenTo[t]
<1>1. KeepDen \in Nat
  BY NumbersAssumption
<1>2. ArePowers(KeepDen, KeepDenTo)
  BY DEF KeepDenTo, ArePowers
<1>. QED  BY <1>1, <1>2, Powers

LEMMA Multiply ==
    ASSUME NEW a \in Nat, NEW b \in Nat, NEW c \in Nat, NEW e \in Nat, a =< b, c =< e
    PROVE  a * c \in Nat /\ b * e \in Nat /\ a * c =< b * e
<1>1. a * c =< a * e /\ a * e =< b * e
  OBVIOUS
<1>. QED  BY <1>1

\* The chance that no loot comes is more than nothing and not more than certain.
LEMMA ChanceType ==
    ASSUME NEW t \in Nat
    PROVE  /\ KeepNumTo[t] \in Nat /\ KeepDenTo[t] \in Nat
           /\ KeepNumTo[t] >= 1 /\ KeepNumTo[t] =< KeepDenTo[t]
<1>. DEFINE P == {k \in Nat : KeepNumTo[k] >= 1 /\ KeepNumTo[k] =< KeepDenTo[k]}
<1>1. 0 \in P /\ P \in SUBSET Nat
  BY KeepNumIs, KeepDenIs
<1>2. ASSUME NEW k \in Nat, k \in P PROVE k + 1 \in P
  <2>. DEFINE a == KeepNumTo[k]
              b == KeepDenTo[k]
  <2>1. a \in Nat /\ b \in Nat /\ a >= 1 /\ a =< b
    BY <1>2, KeepNumIs, KeepDenIs
  <2>2. KeepNum \in Nat /\ KeepDen \in Nat /\ KeepNum >= 1 /\ KeepNum =< KeepDen
    BY NumbersAssumption
  <2>3. KeepNumTo[k + 1] = KeepNum * a /\ KeepDenTo[k + 1] = KeepDen * b
    BY KeepNumIs, KeepDenIs
  <2>. HIDE DEF a, b
  <2>4. KeepNum * a =< KeepDen * b /\ 1 * 1 =< KeepNum * a
    BY <2>1, <2>2, Multiply
  <2>5. KeepNum * a \in Nat /\ KeepDen * b \in Nat
    BY <2>1, <2>2, Multiply
  <2>. QED  BY <2>3, <2>4, <2>5
<1>. HIDE DEF P
<1>3. P = Nat
  BY <1>1, <1>2, ForEver
<1>. QED  BY <1>3, KeepNumIs, KeepDenIs DEF P
-----------------------------------------------------------------------------
(* How much loot comes.                                                    *)

LEMMA Quotient ==
    ASSUME NEW x \in Nat, NEW y \in Nat \ {0}
    PROVE  x \div y \in Nat /\ y * (x \div y) =< x /\ x < y * (x \div y + 1)
  OBVIOUS

LEMMA QuotientIs ==
    ASSUME NEW x \in Nat, NEW y \in Nat \ {0}, NEW q \in Nat, y * q =< x, x < y * (q + 1)
    PROVE  x \div y = q
  <1>. DEFINE r == x \div y
  <1>1. r \in Nat /\ y * r =< x /\ x < y * (r + 1)
    BY Quotient
  <1>. HIDE DEF r
  <1>2. ASSUME r + 1 =< q PROVE FALSE
    <2>1. y * (r + 1) =< y * q
      BY <1>1, <1>2
    <2>2. y * (r + 1) \in Nat /\ y * q \in Nat
      BY <1>1
    <2>. QED  BY <1>1, <2>1, <2>2
  <1>3. ASSUME q + 1 =< r PROVE FALSE
    <2>1. y * (q + 1) =< y * r
      BY <1>1, <1>3
    <2>2. y * (q + 1) \in Nat /\ y * r \in Nat
      BY <1>1
    <2>. QED  BY <1>1, <2>1, <2>2
  <1>4. r = q
    BY <1>1, <1>2, <1>3
  <1>. QED  BY <1>4 DEF r

\* The number that is rounded: in units of which KeepDenTo[time] make an object,
\* doubled, with half an object more.
LEMMA Numerator ==
    ASSUME NEW s \in Nat, NEW a \in Nat, NEW b \in Nat, a >= 1, a =< b
    PROVE  /\ 2 * s * (b - a) + b \in Nat
           /\ 2 * s * (b - a) + b = (2 * b) * s + (b - 2 * (s * a))
           /\ (2 * b) * (s + 1) = (2 * b) * s + 2 * b
           /\ s * a \in Nat /\ (2 * b) * s \in Nat
  <1>1. s * a \in Nat /\ s * b \in Nat /\ s * (b - a) \in Nat
    <2>1. b - a \in Nat
      OBVIOUS
    <2>. QED  BY <2>1
  <1>2. s * (b - a) = s * b - s * a
    OBVIOUS
  <1>3. 2 * s * (b - a) = 2 * (s * (b - a)) /\ (2 * b) * s = 2 * (s * b)
    OBVIOUS
  <1>4. (2 * b) * (s + 1) = (2 * b) * s + 2 * b
    OBVIOUS
  <1>. QED  BY <1>1, <1>2, <1>3, <1>4

\* Rounding never brings more than what is short, whatever time has run up
\* (loot_generator.cpp:19-23).
THEOREM NoMoreThanTheShortage ==
    ASSUME NEW s \in Nat, NEW t \in Nat
    PROVE  Generated(s, t) \in 0 .. s
  <1>. DEFINE a == KeepNumTo[t]
              b == KeepDenTo[t]
              x == 2 * s * (b - a) + b
              q == x \div (2 * b)
  <1>1. a \in Nat /\ b \in Nat /\ a >= 1 /\ a =< b
    BY ChanceType
  <1>2. Generated(s, t) = q
    BY DEF Generated
  <1>. HIDE DEF a, b
  <1>3. /\ x \in Nat /\ x = (2 * b) * s + (b - 2 * (s * a))
        /\ (2 * b) * (s + 1) = (2 * b) * s + 2 * b
        /\ s * a \in Nat /\ (2 * b) * s \in Nat
    BY <1>1, Numerator
  <1>4. 2 * b \in Nat \ {0}
    BY <1>1
  <1>. HIDE DEF x
  <1>5. q \in Nat /\ (2 * b) * q =< x
    BY <1>3, <1>4, Quotient
  <1>6. x < (2 * b) * (s + 1)
    BY <1>1, <1>3
  <1>. HIDE DEF q
  <1>7. ASSUME s + 1 =< q PROVE FALSE
    <2>. DEFINE c == 2 * b
    <2>1. c \in Nat /\ c * q =< x /\ x < c * (s + 1)
      BY <1>4, <1>5, <1>6
    <2>. HIDE DEF c
    <2>2. c * (s + 1) =< c * q
      BY <1>5, <1>7, <2>1
    <2>3. c * (s + 1) \in Nat /\ c * q \in Nat
      BY <1>5, <2>1
    <2>. QED  BY <1>3, <2>1, <2>2, <2>3
  <1>8. q =< s
    BY <1>5, <1>7
  <1>. QED  BY <1>2, <1>5, <1>8

\* What comes is what Game lets come (its EnoughLoot): nothing, or no more than the
\* session lacks, whatever loot and players it has (loot_generator.cpp:16-28).
THEOREM GeneratorIsThatOfGame ==
    ASSUME NEW loot \in Nat, NEW players \in Nat, NEW t \in Nat
    PROVE  LET n == Generated(Shortage(loot, players), t)
           IN  n \in Nat /\ (n = 0 \/ loot + n =< players)
  <1>. DEFINE s == Shortage(loot, players)
              n == Generated(s, t)
  <1>1. s \in Nat /\ (s = 0 \/ loot + s = players)
    BY DEF Shortage
  <1>. HIDE DEF s
  <1>2. n \in 0 .. s
    BY <1>1, NoMoreThanTheShortage
  <1>. HIDE DEF n
  <1>3. n \in Nat /\ (n = 0 \/ loot + n =< players)
    BY <1>1, <1>2
  <1>. QED  BY <1>3 DEF n, s

\* Less than half an object is missing for ever.
LEMMA AfterLongest ==
    ASSUME NEW k \in Nat
    PROVE  2 * MaxPlayers * KeepNumTo[Longest + k] < KeepDenTo[Longest + k]
  <1>. DEFINE Missing(t) == 2 * MaxPlayers * KeepNumTo[t] < KeepDenTo[t]
              P == {j \in Nat : Missing(Longest + j)}
  <1>1. Longest \in Nat /\ MaxPlayers \in Nat
    BY NumbersAssumption
  <1>2. 0 \in P /\ P \in SUBSET Nat
    <2>1. Longest + 0 = Longest
      BY <1>1
    <2>. QED  BY <2>1, LongestAssumption
  <1>3. ASSUME NEW j \in Nat, j \in P PROVE j + 1 \in P
    <2>. DEFINE t == Longest + j
                a == KeepNumTo[t]
                b == KeepDenTo[t]
                m == 2 * MaxPlayers
    <2>1. t \in Nat /\ Longest + (j + 1) = t + 1
      BY <1>1
    <2>2. a \in Nat /\ b \in Nat /\ m \in Nat
      BY <1>1, <2>1, ChanceType
    <2>3. m * a < b
      BY <1>3
    <2>4. KeepNumTo[t + 1] = KeepNum * a /\ KeepDenTo[t + 1] = KeepDen * b
      BY <2>1, KeepNumIs, KeepDenIs
    <2>5. KeepNum \in Nat /\ KeepDen \in Nat /\ KeepNum >= 1 /\ KeepNum =< KeepDen
      BY NumbersAssumption
    <2>. HIDE DEF t, a, b, m
    <2>6. m * (KeepNum * a) < KeepDen * b
      <3>. DEFINE ma == m * a
      <3>1. ma \in Nat /\ ma + 1 =< b /\ m * (KeepNum * a) = KeepNum * ma
        BY <2>2, <2>3, <2>5
      <3>. HIDE DEF ma
      <3>2. KeepNum * (ma + 1) =< KeepDen * b
        BY <2>2, <2>5, <3>1, Multiply
      <3>3. KeepNum * (ma + 1) = KeepNum * ma + KeepNum
        BY <2>5, <3>1
      <3>4. KeepNum * ma \in Nat /\ KeepDen * b \in Nat
        BY <2>2, <2>5, <3>1
      <3>. QED  BY <2>5, <3>1, <3>2, <3>3, <3>4
    <2>7. m * KeepNumTo[t + 1] < KeepDenTo[t + 1]
      BY <2>4, <2>6
    <2>8. Missing(Longest + (j + 1))
      BY <2>1, <2>7 DEF m
    <2>. HIDE DEF Missing
    <2>. QED  BY <2>8
  <1>. HIDE DEF P
  <1>4. P = Nat
    BY <1>2, <1>3, ForEver
  <1>. QED  BY <1>4 DEF P

\* All that is short comes when the clock has run to Longest, and for ever after:
\* the bound on the clock hides nothing (loot_generator.cpp:18-23).
THEOREM NothingIsHiddenByLongest ==
    ASSUME NEW s \in 0 .. MaxPlayers, NEW t \in Nat, t >= Longest
    PROVE  Generated(s, t) = s
  <1>. DEFINE a == KeepNumTo[t]
              b == KeepDenTo[t]
              x == 2 * s * (b - a) + b
  <1>1. s \in Nat /\ MaxPlayers \in Nat /\ Longest \in Nat /\ s =< MaxPlayers
    BY NumbersAssumption
  <1>2. a \in Nat /\ b \in Nat /\ a >= 1 /\ a =< b
    BY ChanceType
  <1>3. 2 * MaxPlayers * a < b
    <2>1. t - Longest \in Nat /\ Longest + (t - Longest) = t
      BY <1>1
    <2>2. 2 * MaxPlayers * KeepNumTo[Longest + (t - Longest)] < KeepDenTo[Longest + (t - Longest)]
      BY <2>1, AfterLongest
    <2>. QED  BY <2>1, <2>2
  <1>4. Generated(s, t) = x \div (2 * b)
    BY DEF Generated
  <1>. HIDE DEF a, b
  <1>5. /\ x \in Nat /\ x = (2 * b) * s + (b - 2 * (s * a))
        /\ (2 * b) * (s + 1) = (2 * b) * s + 2 * b
        /\ s * a \in Nat /\ (2 * b) * s \in Nat
    BY <1>1, <1>2, Numerator
  <1>6. 2 * (s * a) < b
    <2>1. s * a =< MaxPlayers * a /\ MaxPlayers * a \in Nat
      BY <1>1, <1>2, Multiply
    <2>2. 2 * MaxPlayers * a = 2 * (MaxPlayers * a)
      BY <1>1, <1>2
    <2>. QED  BY <1>2, <1>3, <1>5, <2>1, <2>2
  <1>. HIDE DEF x
  <1>7. 2 * b \in Nat \ {0} /\ (2 * b) * s =< x /\ x < (2 * b) * (s + 1)
    BY <1>2, <1>5, <1>6
  <1>8. x \div (2 * b) = s
    BY <1>1, <1>5, <1>7, QuotientIs
  <1>. QED  BY <1>4, <1>8
-----------------------------------------------------------------------------
(* The sessions that are served in turn.                                   *)

\* What the generator may leave: its clock and the loot of each session.
Fit == [time : 0 .. Longest, floor : {f \in [Maps -> Nat] : \A m \in Maps : f[m] =< looters[m]}]

LEMMA GenerateFits ==
    ASSUME TypeOK, NEW v \in Fit, NEW m \in Maps, NEW delta \in Deltas
    PROVE  Generate(v, m, delta) \in Fit
<1>. DEFINE sum == v.time + delta
            time == IF sum > Longest THEN Longest ELSE sum
            short == Shortage(v.floor[m], looters[m])
            loot == Generated(short, time)
            floors == [v.floor EXCEPT ![m] = @ + loot]
<1>1. /\ v.time \in 0 .. Longest /\ v.floor \in [Maps -> Nat]
      /\ \A n \in Maps : v.floor[n] =< looters[n]
  BY DEF Fit
<1>2. Longest \in Nat /\ MaxPlayers \in Nat /\ delta \in Nat
  BY NumbersAssumption
<1>3. time \in 0 .. Longest
  BY <1>1, <1>2
<1>4. looters[m] \in Nat /\ v.floor[m] \in Nat /\ short \in Nat /\ short = looters[m] - v.floor[m]
  BY <1>1, <1>2 DEF TypeOK, Shortage
<1>5. loot \in 0 .. short
  <2>1. time \in Nat
    BY <1>2, <1>3
  <2>. HIDE DEF time, short
  <2>. QED  BY <1>4, <2>1, NoMoreThanTheShortage
<1>6. Generate(v, m, delta) = [time |-> IF loot > 0 THEN 0 ELSE time, floor |-> floors]
  BY DEF Generate
<1>. HIDE DEF short, loot, time
<1>7. floors \in [Maps -> Nat] /\ \A n \in Maps : floors[n] =< looters[n]
  <2>1. v.floor[m] + loot \in Nat /\ v.floor[m] + loot =< looters[m]
    BY <1>4, <1>5
  <2>. QED  BY <1>1, <2>1
<1>8. (IF loot > 0 THEN 0 ELSE time) \in 0 .. Longest
  BY <1>2, <1>3
<1>. HIDE DEF floors
<1>. QED  BY <1>6, <1>7, <1>8 DEF Fit

LEMMA GenerateLootFits ==
    ASSUME TypeOK, LootForEveryLooter, NEW delta \in Deltas, GenerateLoot(delta)
    PROVE  timeWithoutLoot' \in 0 .. Longest /\ floor' \in [Maps -> Nat]
           /\ \A m \in Maps : floor'[m] =< looters[m]
<1>. DEFINE n == Len(order)
            S == Fit
            first == [time |-> timeWithoutLoot, floor |-> floor]
            Body(k, v) == Generate(v, order[k], delta)
            serve == [k \in 1 .. n |-> [v \in S |-> Body(k, v)]]
            Whole(f) == f = [k \in 0 .. n |-> IF k = 0 THEN first ELSE Body(k, f[k - 1])]
            served == CHOOSE f : Whole(f)
            P == {k \in 0 .. n : served[k] \in S}
<1>1. n \in Nat /\ \A k \in 1 .. n : order[k] \in Maps
  BY DEF TypeOK
<1>2. first \in S
  BY DEF TypeOK, LootForEveryLooter, Fit
<1>3. timeWithoutLoot' = served[n].time /\ floor' = served[n].floor
  BY DEF GenerateLoot
<1>. HIDE DEF n, S, first
<1>4. \A k \in 1 .. n, v \in S : Body(k, v) \in S
  BY <1>1, GenerateFits DEF S
<1>5. serve \in [1 .. n -> [S -> S]]
  <2>. HIDE DEF Body
  <2>. QED  BY <1>4
<1>6. PICK after \in [0 .. n -> S] : Iterates(n, first, serve, after)
  <2>. HIDE DEF serve
  <2>. QED  BY <1>1, <1>2, <1>5, Iteration
<1>7. Whole(after)
  <2>. HIDE DEF Body
  <2>1. \A k \in 1 .. n : k - 1 \in 0 .. n
    BY <1>1
  <2>2. after[0] = first /\ \A k \in 1 .. n : after[k] = serve[k][after[k - 1]]
    BY <1>6 DEF Iterates
  <2>3. \A k \in 1 .. n : after[k] = Body(k, after[k - 1])
    BY <2>1, <2>2
  <2>. HIDE DEF serve
  <2>. QED  BY <1>1, <2>2, <2>3
<1>8. Whole(served)
  <2>. HIDE DEF Whole
  <2>. QED  BY <1>7
<1>9. served[0] = first /\ \A k \in 1 .. n : served[k] = Body(k, served[k - 1])
  <2>. HIDE DEF Body, served
  <2>. QED  BY <1>1, <1>8
<1>10. n \in P
  <2>. HIDE DEF served, Body
  <2>1. 0 \in P
    BY <1>1, <1>2, <1>9
  <2>2. ASSUME NEW k \in 1 .. n, k - 1 \in P PROVE k \in P
    BY <1>1, <1>4, <1>9, <2>2
  <2>3. P \in SUBSET (0 .. n)
    OBVIOUS
  <2>. HIDE DEF P
  <2>4. P = 0 .. n
    BY <1>1, <2>1, <2>2, <2>3, UpTo
  <2>. QED  BY <1>1, <2>4
<1>. HIDE DEF served
<1>. QED  BY <1>3, <1>10 DEF S, Fit
-----------------------------------------------------------------------------
IndInv == TypeOK /\ LootForEveryLooter

\* A new order of the sessions is a sequence of maps.
LEMMA OrderType ==
    ASSUME NEW T \in SUBSET Maps, NEW s \in SetToSeqs(T)
    PROVE  s \in Seq(Maps)
<1>1. Cardinality(T) \in Nat
  BY MapsAssumption, FS_Subset, FS_CardinalityType
<1>2. s \in [1 .. Cardinality(T) -> T]
  BY DEF SetToSeqs
<1>. HIDE DEF SetToSeqs
<1>. QED  BY <1>1, <1>2

LEMMA InitInv == Init => IndInv
<1>. SUFFICES ASSUME Init PROVE IndInv
  OBVIOUS
<1>. QED  BY NumbersAssumption DEF Init, IndInv, TypeOK, LootForEveryLooter

LEMMA StepInv == IndInv /\ [Next]_vars => IndInv'
<1>. SUFFICES ASSUME IndInv, [Next]_vars PROVE IndInv'
  OBVIOUS
<1>. USE DEF IndInv
<1>1. ASSUME NEW m \in Maps, Join(m) PROVE IndInv'
  <2>1. order' \in Seq(Maps)
    <3>1. CASE m \in Range(order)
      BY <1>1, <3>1 DEF Join, TypeOK
    <3>2. CASE m \notin Range(order)
      <4>1. Range(order) \cup {m} \in SUBSET Maps
        BY DEF Range, TypeOK
      <4>2. order' \in SetToSeqs(Range(order) \cup {m})
        BY <1>1, <3>2 DEF Join
      <4>. QED  BY <4>1, <4>2, OrderType
    <3>. QED  BY <3>1, <3>2
  <2>2. looters' \in [Maps -> 0 .. MaxPlayers] /\ \A n \in Maps : looters[n] =< looters'[n]
    BY <1>1, NumbersAssumption DEF Join, TypeOK
  <2>3. floor' = floor /\ timeWithoutLoot' = timeWithoutLoot
    BY <1>1 DEF Join
  <2>4. TypeOK'
    BY <2>1, <2>2, <2>3 DEF TypeOK
  <2>5. \A n \in Maps : looters[n] \in Int /\ looters'[n] \in Int /\ floor[n] \in Int
    BY <2>2, NumbersAssumption DEF TypeOK
  <2>6. LootForEveryLooter'
    BY <2>2, <2>3, <2>5 DEF LootForEveryLooter
  <2>. QED  BY <2>4, <2>6
<1>2. ASSUME NEW m \in Maps, Gather(m) PROVE IndInv'
  <2>1. floor' \in [Maps -> Nat] /\ \A n \in Maps : floor'[n] =< floor[n]
    BY <1>2 DEF Gather, TypeOK
  <2>2. \A n \in Maps : floor[n] \in Int /\ floor'[n] \in Int /\ looters[n] \in Int
    BY <2>1, NumbersAssumption DEF TypeOK
  <2>3. UNCHANGED <<order, looters, timeWithoutLoot>>
    BY <1>2 DEF Gather
  <2>. QED  BY <2>1, <2>2, <2>3 DEF TypeOK, LootForEveryLooter
<1>3. ASSUME NEW delta \in Deltas, GenerateLoot(delta) PROVE IndInv'
  <2>1. UNCHANGED <<order, looters>>
    BY <1>3 DEF GenerateLoot
  <2>2. /\ timeWithoutLoot' \in 0 .. Longest /\ floor' \in [Maps -> Nat]
        /\ \A m \in Maps : floor'[m] =< looters[m]
    BY <1>3, GenerateLootFits
  <2>. QED  BY <2>1, <2>2 DEF TypeOK, LootForEveryLooter
<1>4. CASE UNCHANGED vars
  BY <1>4 DEF vars, TypeOK, LootForEveryLooter
<1>. QED  BY <1>1, <1>2, <1>3, <1>4 DEF Next

LEMMA Invariant == Spec => []IndInv
<1>. QED  BY InitInv, StepInv, PTL DEF Spec

\* The state of the generator and of its sessions has its type.
THEOREM LootTypeCorrect == Spec => []TypeOK
<1>1. IndInv => TypeOK
  BY DEF IndInv
<1>. QED  BY <1>1, Invariant, PTL

\* In whatever order the sessions are served by the one clock, and whenever
\* players join between two ticks, no session has more loot than players
\* (loot_generator.cpp:19-23, Game::GenerateLoot of model.cpp).
THEOREM NoLootWithoutLooter == Spec => []LootForEveryLooter
<1>1. IndInv => LootForEveryLooter
  BY DEF IndInv
<1>. QED  BY <1>1, Invariant, PTL
=============================================================================
