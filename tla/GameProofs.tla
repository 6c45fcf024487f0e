----------------------------- MODULE GameProofs -----------------------------
(***************************************************************************)
(* Theorems about Game and GamePersistence, for every configuration of     *)
(* maps, bags, times and bounds: about the running game, with and without  *)
(* failures of the database, and about what its file holds across          *)
(* shutdowns, crashes and restores.                                        *)
(***************************************************************************)
EXTENDS GamePersistence, FiniteSetTheorems, WellFoundedInduction, TLAPS

\* The identifiers of players and loot are finite intervals.
LEMMA IdsAreFinite == IsFiniteSet(PlayerIds) /\ IsFiniteSet(LootIds)
<1>1. MaxPlayers - 1 \in Int /\ MaxLoot - 1 \in Int
  BY BoundsAssumption
<1>. QED  BY <1>1, FS_Interval DEF PlayerIds, LootIds

\* The number of dogs of a session is a number.
LEMMA DogsIsNat == ASSUME NEW m PROVE Dogs(m) \in Nat
<1>1. Residents(m) \subseteq PlayerIds
  BY DEF Residents, Joined
<1>. QED  BY <1>1, IdsAreFinite, FS_Subset, FS_CardinalityType DEF Dogs

\* The clock of activity stays below its cap.
LEMMA IdleAfterType ==
    ASSUME TypeOK, NEW p \in PlayerIds
    PROVE  IdleAfter(p) \in 0 .. RetirementTime
<1>1. delta \in Nat /\ idle[p] \in Nat
  BY TimeAssumption DEF TypeOK
<1>. QED  BY <1>1, TimeAssumption DEF IdleAfter

\* A round of the movement loop keeps speeds and segments Boolean.
LEMMA SetPositionType ==
    ASSUME TypeOK, NEW p \in PlayerIds, SetPosition(p)
    PROVE  /\ moving' \in [PlayerIds -> BOOLEAN]
           /\ segment' \in [PlayerIds -> BOOLEAN]
           /\ \A q \in PlayerIds : segment'[q] => q = p \/ segment[q]
<1>1. PICK outcome \in Outcomes(p) :
        /\ moving' = [moving EXCEPT ![p] = outcome.moving]
        /\ segment' = [segment EXCEPT ![p] = outcome.segment]
  BY DEF SetPosition
<1>2. outcome \in [moving : BOOLEAN, segment : BOOLEAN]
  BY DEF Outcomes
<1>3. moving' \in [PlayerIds -> BOOLEAN]
  BY <1>1, <1>2 DEF TypeOK
<1>4. segment' \in [PlayerIds -> BOOLEAN]
  BY <1>1, <1>2 DEF TypeOK
<1>5. \A q \in PlayerIds : segment'[q] => q = p \/ segment[q]
  BY <1>1 DEF TypeOK
<1>. QED  BY <1>3, <1>4, <1>5

\* The rows of the table are typed.
LEMMA RowType ==
    ASSUME TypeOK, NEW p \in PlayerIds
    PROVE  Row(p) \in [id : Nat, score : SUBSET (LootIds \X Maps)]
BY DEF TypeOK, Row

-----------------------------------------------------------------------------
LEMMA TypeOKInit == Init => TypeOK
<1>. SUFFICES ASSUME Init PROVE TypeOK
  OBVIOUS
<1>1. NoMap \notin Maps /\ MaxPlayers \in Nat /\ MaxLoot \in Nat /\ RetirementTime \in Nat
  BY MapsAssumption, BoundsAssumption, TimeAssumption
<1>2. \A p \in PlayerIds : p \in Nat
  BY DEF PlayerIds
<1>. QED  BY <1>1, <1>2 DEF Init, TypeOK

\* Every step keeps the types: the steps that index a player by cursor or by
\* playerCount stay within the players there are.
LEMMA TypeOKNext == TypeOK /\ [Next]_vars => TypeOK'
<1>. SUFFICES ASSUME TypeOK, [Next]_vars PROVE TypeOK'
  OBVIOUS
<1>0. /\ NoMap \notin Maps /\ MaxPlayers \in Nat /\ MaxLoot \in Nat
      /\ RetirementTime \in Nat \ {0} /\ Deltas \subseteq Nat
  BY MapsAssumption, BoundsAssumption, TimeAssumption
<1>. USE DEF worldVars, dogVars, lootVars, tickVars
<1>1. ASSUME NEW m \in Maps, Join(m) PROVE TypeOK'
  <2>1. playerCount \in PlayerIds /\ playerCount + 1 \in 0 .. issued + 1 /\ issued + 1 \in 0 .. MaxPlayers
    BY <1>0, <1>1 DEF Join, TypeOK, PlayerIds
  <2>2. Dogs(m) + 1 \in Nat
    BY DogsIsNat
  <2>3. \A p \in PlayerIds : home'[p] \in Maps <=> p < playerCount'
    BY <1>0, <1>1, <2>1 DEF Join, TypeOK, PlayerIds
  <2>4. \A p \in PlayerIds : online'[p] \/ segment'[p] => p < playerCount'
    <3>1. \A p \in PlayerIds : p < playerCount => p < playerCount + 1
      BY <1>0 DEF TypeOK, PlayerIds
    <3>2. playerCount < playerCount + 1
      BY DEF TypeOK
    <3>3. \A p \in PlayerIds : online'[p] => p = playerCount \/ online[p]
      BY <1>1, <2>1 DEF Join, TypeOK
    <3>. QED  BY <1>1, <3>1, <3>2, <3>3 DEF Join, TypeOK
  <2>5. uuid' \in [PlayerIds -> Nat] /\ snapshot' \in [PlayerIds -> Nat]
    BY <1>1, <2>1, <2>2 DEF Join, TypeOK
  <2>6. home' \in [PlayerIds -> Maps \cup {NoMap}]
    BY <1>1, <2>1 DEF Join, TypeOK
  <2>7. online' \in [PlayerIds -> BOOLEAN] /\ heading' \in [PlayerIds -> BOOLEAN]
    BY <1>1, <2>1 DEF Join, TypeOK
  <2>. QED  BY <1>1, <2>1, <2>3, <2>4, <2>5, <2>6, <2>7 DEF Join, TypeOK
<1>2. ASSUME NEW p \in PlayerIds, NEW go \in BOOLEAN, Action(p, go) PROVE TypeOK'
  BY <1>2 DEF Action, TypeOK
<1>3. ASSUME NEW d \in Deltas, BeginTick(d) PROVE TypeOK'
  <2>1. Sessions \subseteq Maps
    BY DEF Sessions, Joined, TypeOK
  <2>. QED  BY <1>3, <2>1 DEF BeginTick, TypeOK
<1>4. ASSUME NEW m \in Maps, GenerateLoot(m) PROVE TypeOK'
  <2>1. PICK n \in 0 .. MaxLoot - lootNumber :
          LET spawned == {l \in LootIds : lootNumber =< l /\ l < lootNumber + n} IN
          /\ lootNumber' = lootNumber + n
          /\ floor' = [floor EXCEPT ![m] = @ \cup spawned]
          /\ visible' = visible \cup spawned
    BY <1>4 DEF GenerateLoot
  <2>2. lootNumber' \in 0 .. MaxLoot
    BY <1>0, <2>1 DEF TypeOK
  <2>3. floor' \in [Maps -> SUBSET LootIds] /\ visible' \in SUBSET LootIds
    BY <2>1 DEF TypeOK
  <2>. QED  BY <1>4, <2>2, <2>3 DEF GenerateLoot, TypeOK
<1>5. CASE StartMoves
  BY <1>0, <1>5 DEF StartMoves, TypeOK
<1>6. CASE SkipOffline
  <2>1. cursor + 1 \in 0 .. MaxPlayers
    BY <1>0, <1>6 DEF SkipOffline, TypeOK
  <2>. QED  BY <1>6, <2>1 DEF SkipOffline, TypeOK
<1>7. ASSUME cursor < playerCount
      PROVE  cursor \in PlayerIds /\ cursor + 1 \in 0 .. MaxPlayers
  BY <1>0, <1>7 DEF PlayerIds, TypeOK
<1>8. CASE MovePlayer
  <2>1. cursor < playerCount /\ SetPosition(cursor)
    BY <1>8 DEF MovePlayer
  <2>2. idle' \in [PlayerIds -> 0 .. RetirementTime]
    BY <1>7, <1>8, <2>1, IdleAfterType DEF MovePlayer, TypeOK
  <2>3. /\ moving' \in [PlayerIds -> BOOLEAN]
        /\ segment' \in [PlayerIds -> BOOLEAN]
        /\ \A q \in PlayerIds : segment'[q] => q = cursor \/ segment[q]
    BY <1>7, <2>1, SetPositionType
  <2>. QED  BY <1>7, <1>8, <2>1, <2>2, <2>3 DEF MovePlayer, TypeOK
<1>9. CASE RetireOk
  <2>1. cursor < playerCount /\ SetPosition(cursor)
    BY <1>9 DEF RetireOk
  <2>2. idle' \in [PlayerIds -> 0 .. RetirementTime]
    BY <1>7, <1>9, <2>1, IdleAfterType DEF RetireOk, TypeOK
  <2>3. /\ moving' \in [PlayerIds -> BOOLEAN]
        /\ segment' \in [PlayerIds -> BOOLEAN]
        /\ \A q \in PlayerIds : segment'[q] => q = cursor \/ segment[q]
    BY <1>7, <2>1, SetPositionType
  <2>4. records' \in SUBSET [id : Nat, score : SUBSET (LootIds \X Maps)]
    BY <1>7, <1>9, <2>1, RowType DEF RetireOk, TypeOK
  <2>5. /\ online' \in [PlayerIds -> BOOLEAN]
        /\ \A q \in PlayerIds : online'[q] => online[q]
    BY <1>7, <1>9, <2>1 DEF RetireOk, TypeOK
  <2>. QED  BY <1>7, <1>9, <2>1, <2>2, <2>3, <2>4, <2>5 DEF RetireOk, TypeOK
<1>10. CASE RetireFail
  <2>1. cursor < playerCount
    BY <1>10 DEF RetireFail
  <2>2. idle' \in [PlayerIds -> 0 .. RetirementTime]
    BY <1>7, <1>10, <2>1, IdleAfterType DEF RetireFail, TypeOK
  <2>3. records' \in SUBSET [id : Nat, score : SUBSET (LootIds \X Maps)]
    BY <1>7, <1>10, <2>1, RowType DEF RetireFail, TypeOK
  <2>4. /\ online' \in [PlayerIds -> BOOLEAN]
        /\ \A q \in PlayerIds : online'[q] => online[q]
    BY <1>7, <1>10, <2>1 DEF RetireFail, TypeOK
  <2>. QED  BY <1>0, <1>10, <2>2, <2>3, <2>4 DEF RetireFail, TypeOK
<1>11. CASE EndMoves
  BY <1>0, <1>11 DEF EndMoves, TypeOK
<1>12. ASSUME NEW p \in PlayerIds, NEW l \in LootIds, NEW m \in Maps, Gather(p, l, m) PROVE TypeOK'
  <2>1. floor' \in [Maps -> SUBSET LootIds] /\ visible' \in SUBSET LootIds
    BY <1>12 DEF Gather, TypeOK
  <2>2. bag' \in [PlayerIds -> SUBSET LootIds]
    BY <1>12 DEF Gather, TypeOK
  <2>. QED  BY <1>12, <2>1, <2>2 DEF Gather, TypeOK
<1>13. CASE EndGather
  BY <1>13 DEF EndGather, TypeOK
<1>14. ASSUME NEW p \in PlayerIds, OfficeEvent(p) PROVE TypeOK'
  <2>1. BankingSessions(p) \subseteq Maps
    BY DEF BankingSessions, Sessions, Joined, TypeOK
  <2>2. /\ score' \in [PlayerIds -> SUBSET (LootIds \X Maps)]
        /\ bag' \in [PlayerIds -> SUBSET LootIds]
    BY <1>14, <2>1 DEF OfficeEvent, TypeOK
  <2>. QED  BY <1>0, <1>14, <2>2 DEF OfficeEvent, EndTick, TypeOK
<1>15. CASE NoOfficeEvent
  BY <1>0, <1>15 DEF NoOfficeEvent, EndTick, TypeOK
<1>16. CASE UNCHANGED vars
  BY <1>16 DEF vars, TypeOK
<1>. QED
  BY <1>1, <1>2, <1>3, <1>4, <1>5, <1>6, <1>8, <1>9, <1>10, <1>11, <1>12, <1>13, <1>14, <1>15, <1>16
  DEF Next, Request, TickStep

\* The state of the game stays well formed, for every configuration: ids are
\* those of players that joined, the loop over the players stays within them.
THEOREM TypeCorrect == Spec => []TypeOK
<1>. QED  BY TypeOKInit, TypeOKNext, PTL DEF Spec
-----------------------------------------------------------------------------
(* The life of loot.  LootInOnePlace is inductive with the types: only three *)
(* steps move loot, and each moves it between two kinds of places.           *)

\* Scoring a bag adds the loot of the bag, and nothing else, to what the
\* player scored.
LEMMA ScoredAfterBanking ==
    ASSUME NEW p \in PlayerIds, NEW m \in Maps, TypeOK,
           score' = [score EXCEPT ![p] = @ \cup (bag[p] \X {m})]
    PROVE  /\ Scored(p)' = Scored(p) \cup bag[p]
           /\ \A q \in PlayerIds \ {p} : Scored(q)' = Scored(q)
           /\ \A e \in score'[p] : e \in score[p] \/ (e[1] \in bag[p] /\ e[2] = m)
<1>1. score'[p] = score[p] \cup (bag[p] \X {m})
  BY DEF TypeOK
<1>2. \A q \in PlayerIds \ {p} : score'[q] = score[q]
  BY DEF TypeOK
<1>3. \A l \in bag[p] : <<l, m>> \in score'[p] /\ <<l, m>>[1] = l
  BY <1>1
<1>4. \A e \in score'[p] : e \in score[p] \/ (e[1] \in bag[p] /\ e[2] = m)
  BY <1>1
<1>5. Scored(p)' \subseteq Scored(p) \cup bag[p]
  BY <1>4 DEF Scored
<1>6. Scored(p) \subseteq Scored(p)'
  BY <1>1 DEF Scored
<1>7. bag[p] \subseteq Scored(p)'
  BY <1>3 DEF Scored
<1>. QED  BY <1>2, <1>4, <1>5, <1>6, <1>7 DEF Scored

\* The new objects of a session are the next ids, and only its floor grows.
LEMMA SpawnEffect ==
    ASSUME TypeOK, NEW m \in Maps, GenerateLoot(m)
    PROVE  \E spawned \in SUBSET LootIds :
            /\ \A l \in LootIds : l \in spawned <=> lootNumber =< l /\ l < lootNumber'
            /\ lootNumber =< lootNumber'
            /\ floor' = [floor EXCEPT ![m] = @ \cup spawned]
            /\ visible' = visible \cup spawned
<1>1. PICK n \in 0 .. MaxLoot - lootNumber :
        LET spawned == {l \in LootIds : lootNumber =< l /\ l < lootNumber + n} IN
        /\ lootNumber' = lootNumber + n
        /\ floor' = [floor EXCEPT ![m] = @ \cup spawned]
        /\ visible' = visible \cup spawned
  BY DEF GenerateLoot
<1>2. lootNumber =< lootNumber'
  BY <1>1 DEF TypeOK
<1>. WITNESS {l \in LootIds : lootNumber =< l /\ l < lootNumber + n} \in SUBSET LootIds
<1>. QED  BY <1>1, <1>2

LEMMA LootStays ==
    ASSUME UNCHANGED <<lootNumber, floor, visible, bag, score>>, LootInOnePlace, VisibleIffOnFloor
    PROVE  LootInOnePlace' /\ VisibleIffOnFloor'
BY DEF LootInOnePlace, NothingLost, NothingTwice, Holds, Scored, VisibleIffOnFloor

LEMMA LootAfterSpawn ==
    ASSUME TypeOK, LootInOnePlace, NEW m \in Maps, GenerateLoot(m)
    PROVE  LootInOnePlace'
<1>1. PICK spawned \in SUBSET LootIds :
        /\ \A l \in LootIds : l \in spawned <=> lootNumber =< l /\ l < lootNumber'
        /\ lootNumber =< lootNumber'
        /\ floor' = [floor EXCEPT ![m] = @ \cup spawned]
  BY SpawnEffect
<1>2. lootNumber \in Nat /\ lootNumber' \in Nat /\ (\A l \in LootIds : l \in Nat)
  BY TypeOKNext, BoundsAssumption DEF Next, TickStep, TypeOK, LootIds
<1>3. \A n \in Maps : floor'[n] = IF n = m THEN floor[m] \cup spawned ELSE floor[n]
  BY <1>1 DEF TypeOK
<1>4. \A p \in PlayerIds, l \in LootIds : Holds(p, l)' <=> Holds(p, l)
  BY DEF GenerateLoot, Holds, Scored
<1>5. \A l \in LootIds : l < lootNumber' <=> l < lootNumber \/ l \in spawned
  BY <1>1, <1>2
<1>6. \A l \in spawned : /\ \A n \in Maps : l \notin floor[n]
                         /\ \A p \in PlayerIds : ~Holds(p, l)
  <2>1. \A l \in spawned : l \in LootIds /\ ~(l < lootNumber)
    BY <1>1, <1>2
  <2>. QED  BY <2>1 DEF LootInOnePlace, NothingLost
<1>7. NothingLost'
  BY <1>3, <1>4, <1>5 DEF LootInOnePlace, NothingLost
<1>8. NothingTwice'
  <2>1. \A l \in LootIds, n \in Maps, k \in Maps : l \in floor'[n] /\ l \in floor'[k] => n = k
    BY <1>3, <1>6 DEF LootInOnePlace, NothingTwice
  <2>2. \A l \in LootIds, n \in Maps, p \in PlayerIds : ~(l \in floor'[n] /\ Holds(p, l)')
    BY <1>3, <1>4, <1>6 DEF LootInOnePlace, NothingTwice
  <2>3. UNCHANGED <<bag, score>>
    BY DEF GenerateLoot
  <2>. QED  BY <1>4, <2>1, <2>2, <2>3 DEF LootInOnePlace, NothingTwice, Scored
<1>. QED  BY <1>7, <1>8 DEF LootInOnePlace

LEMMA LootAfterGather ==
    ASSUME TypeOK, LootInOnePlace,
           NEW p \in PlayerIds, NEW l \in LootIds, NEW m \in Maps, Gather(p, l, m)
    PROVE  LootInOnePlace'
<1>1. \A n \in Maps : floor'[n] = IF n = m THEN floor[m] \ {l} ELSE floor[n]
  BY DEF Gather, TypeOK
<1>2. \A q \in PlayerIds : bag'[q] = IF q = p THEN bag[p] \cup {l} ELSE bag[q]
  BY DEF Gather, TypeOK
<1>3. \A q \in PlayerIds : Scored(q)' = Scored(q)
  BY DEF Gather, Scored
<1>4. \A q \in PlayerIds, k \in LootIds : Holds(q, k)' <=> Holds(q, k) \/ (q = p /\ k = l)
  BY <1>2, <1>3 DEF Holds
<1>5. l \in floor[m] /\ lootNumber' = lootNumber /\ score' = score
  BY DEF Gather
<1>6. \A n \in Maps : l \notin floor'[n]
  BY <1>1, <1>5 DEF LootInOnePlace, NothingTwice
<1>7. \A q \in PlayerIds : ~Holds(q, l)
  BY <1>5 DEF LootInOnePlace, NothingTwice
<1>8. NothingLost'
  BY <1>1, <1>4, <1>5 DEF LootInOnePlace, NothingLost
<1>9. NothingTwice'
  <2>1. \A k \in LootIds, n \in Maps, j \in Maps : k \in floor'[n] /\ k \in floor'[j] => n = j
    BY <1>1 DEF LootInOnePlace, NothingTwice
  <2>2. \A k \in LootIds, n \in Maps, q \in PlayerIds : ~(k \in floor'[n] /\ Holds(q, k)')
    BY <1>1, <1>4, <1>6 DEF LootInOnePlace, NothingTwice
  <2>3. \A k \in LootIds, q \in PlayerIds, r \in PlayerIds : Holds(q, k)' /\ Holds(r, k)' => q = r
    BY <1>4, <1>7 DEF LootInOnePlace, NothingTwice
  <2>4. \A k \in LootIds, q \in PlayerIds : ~(k \in bag'[q] /\ k \in Scored(q)')
    BY <1>2, <1>3, <1>7 DEF LootInOnePlace, NothingTwice, Holds
  <2>. QED  BY <1>5, <2>1, <2>2, <2>3, <2>4 DEF LootInOnePlace, NothingTwice
<1>. QED  BY <1>8, <1>9 DEF LootInOnePlace

LEMMA LootAfterOffice ==
    ASSUME TypeOK, LootInOnePlace, NEW p \in PlayerIds, OfficeEvent(p)
    PROVE  LootInOnePlace'
<1>1. CASE UNCHANGED <<score, bag>>
  BY <1>1 DEF OfficeEvent, LootInOnePlace, NothingLost, NothingTwice, Holds, Scored
<1>2. ASSUME NEW m \in BankingSessions(p),
             score' = [score EXCEPT ![p] = @ \cup (bag[p] \X {m})],
             bag' = [bag EXCEPT ![p] = {}]
      PROVE  LootInOnePlace'
  <2>1. m \in Maps
    BY DEF BankingSessions, Sessions, Joined, TypeOK
  <2>2. /\ Scored(p)' = Scored(p) \cup bag[p]
        /\ \A q \in PlayerIds \ {p} : Scored(q)' = Scored(q)
        /\ \A e \in score'[p] : e \in score[p] \/ (e[1] \in bag[p] /\ e[2] = m)
    BY <1>2, <2>1, ScoredAfterBanking
  <2>3. \A q \in PlayerIds : bag'[q] = IF q = p THEN {} ELSE bag[q]
    BY <1>2 DEF TypeOK
  <2>4. \A q \in PlayerIds, l \in LootIds : Holds(q, l)' <=> Holds(q, l)
    BY <2>2, <2>3 DEF Holds
  <2>5. UNCHANGED <<lootNumber, floor>>
    BY DEF OfficeEvent
  <2>6. NothingLost'
    BY <2>4, <2>5 DEF LootInOnePlace, NothingLost
  <2>7. \A l \in LootIds, q \in PlayerIds : ~(l \in bag'[q] /\ l \in Scored(q)')
    BY <2>2, <2>3 DEF LootInOnePlace, NothingTwice
  <2>8. \A q \in PlayerIds : \A e \in score'[q], f \in score'[q] : e[1] = f[1] => e = f
    <3>1. ASSUME NEW e \in score'[p], NEW f \in score'[p], e[1] = f[1] PROVE e = f
      <4>1. e \in LootIds \X Maps /\ f \in LootIds \X Maps
        BY <1>2, <2>1 DEF TypeOK
      <4>2. e \in score[p] => e[1] \notin bag[p]
        BY <4>1 DEF LootInOnePlace, NothingTwice, Scored
      <4>3. f \in score[p] => f[1] \notin bag[p]
        BY <4>1 DEF LootInOnePlace, NothingTwice, Scored
      <4>4. CASE e \in score[p] /\ f \in score[p]
        BY <3>1, <4>4 DEF LootInOnePlace, NothingTwice
      <4>5. CASE e[2] = m /\ f[2] = m
        BY <3>1, <4>1, <4>5
      <4>. QED  BY <2>2, <3>1, <4>2, <4>3, <4>4, <4>5
    <3>2. \A q \in PlayerIds \ {p} : score'[q] = score[q]
      BY <1>2 DEF TypeOK
    <3>. QED  BY <3>1, <3>2 DEF LootInOnePlace, NothingTwice
  <2>9. NothingTwice'
    BY <2>4, <2>5, <2>7, <2>8 DEF LootInOnePlace, NothingTwice
  <2>. QED  BY <2>6, <2>9 DEF LootInOnePlace
<1>. QED  BY <1>1, <1>2 DEF OfficeEvent

LEMMA VisibleAfterSpawn ==
    ASSUME TypeOK, VisibleIffOnFloor, NEW m \in Maps, GenerateLoot(m)
    PROVE  VisibleIffOnFloor'
<1>1. PICK spawned \in SUBSET LootIds :
        /\ floor' = [floor EXCEPT ![m] = @ \cup spawned]
        /\ visible' = visible \cup spawned
  BY SpawnEffect
<1>2. \A n \in Maps : floor'[n] = IF n = m THEN floor[m] \cup spawned ELSE floor[n]
  BY <1>1 DEF TypeOK
<1>. QED  BY <1>1, <1>2 DEF VisibleIffOnFloor

LEMMA VisibleAfterGather ==
    ASSUME TypeOK, LootInOnePlace, VisibleIffOnFloor,
           NEW p \in PlayerIds, NEW l \in LootIds, NEW m \in Maps, Gather(p, l, m)
    PROVE  VisibleIffOnFloor'
<1>1. \A n \in Maps : floor'[n] = IF n = m THEN floor[m] \ {l} ELSE floor[n]
  BY DEF Gather, TypeOK
<1>2. visible' = visible \ {l} /\ l \in floor[m]
  BY DEF Gather
<1>3. \A n \in Maps \ {m} : l \notin floor[n]
  BY <1>2 DEF LootInOnePlace, NothingTwice
<1>. QED  BY <1>1, <1>2, <1>3 DEF VisibleIffOnFloor

LootInv == TypeOK /\ LootInOnePlace /\ VisibleIffOnFloor

LEMMA LootInvInit == Init => LootInv
<1>. SUFFICES ASSUME Init PROVE LootInv
  OBVIOUS
<1>1. \A l \in LootIds : ~(l < lootNumber)
  BY BoundsAssumption DEF Init, LootIds
<1>2. LootInOnePlace
  BY <1>1 DEF Init, LootInOnePlace, NothingLost, NothingTwice, Holds, Scored
<1>3. VisibleIffOnFloor
  BY DEF Init, VisibleIffOnFloor
<1>. QED  BY <1>2, <1>3, TypeOKInit DEF LootInv

LEMMA LootInvNext == LootInv /\ [Next]_vars => LootInv'
<1>. SUFFICES ASSUME LootInv, [Next]_vars PROVE LootInOnePlace' /\ VisibleIffOnFloor'
  BY TypeOKNext DEF LootInv
<1>. USE DEF LootInv
<1>1. CASE UNCHANGED lootVars
  BY <1>1, LootStays DEF lootVars
<1>2. ASSUME NEW m \in Maps, GenerateLoot(m) PROVE LootInOnePlace' /\ VisibleIffOnFloor'
  BY <1>2, LootAfterSpawn, VisibleAfterSpawn
<1>3. ASSUME NEW p \in PlayerIds, NEW l \in LootIds, NEW m \in Maps, Gather(p, l, m)
      PROVE  LootInOnePlace' /\ VisibleIffOnFloor'
  BY <1>3, LootAfterGather, VisibleAfterGather
<1>4. ASSUME NEW p \in PlayerIds, OfficeEvent(p) PROVE LootInOnePlace' /\ VisibleIffOnFloor'
  <2>1. UNCHANGED <<floor, visible>>
    BY <1>4 DEF OfficeEvent
  <2>. QED  BY <1>4, <2>1, LootAfterOffice DEF VisibleIffOnFloor
<1>5. Request \/ (\E d \in Deltas : BeginTick(d)) => UNCHANGED lootVars
  BY DEF Request, Join, Action, BeginTick
<1>6. StartMoves \/ SkipOffline \/ MovePlayer \/ RetireOk \/ RetireFail
        \/ EndMoves \/ EndGather \/ NoOfficeEvent => UNCHANGED lootVars
  BY DEF StartMoves, SkipOffline, MovePlayer, RetireOk, RetireFail, EndMoves, EndGather, NoOfficeEvent
<1>. QED
  BY <1>1, <1>2, <1>3, <1>4, <1>5, <1>6 DEF Next, TickStep, vars

\* No loot is lost, doubled or scored twice, in any number of sessions, with
\* any number of players, when ticks run to their end and when they do not.
THEOREM LootIsInOnePlace == Spec => []LootInOnePlace
<1>. QED  BY LootInvInit, LootInvNext, PTL DEF Spec, LootInv

\* What is shown to the players is what lies on the floors.
THEOREM VisibleIsOnFloor == Spec => []VisibleIffOnFloor
<1>. QED  BY LootInvInit, LootInvNext, PTL DEF Spec, LootInv
-----------------------------------------------------------------------------
(* Supply: the loot on a floor never exceeds the dogs of its session.        *)

LEMMA FloorIsFinite ==
    ASSUME TypeOK, NEW m \in Maps
    PROVE  IsFiniteSet(floor[m]) /\ Cardinality(floor[m]) \in Nat
<1>1. floor[m] \subseteq LootIds
  BY DEF TypeOK
<1>. QED  BY <1>1, IdsAreFinite, FS_Subset, FS_CardinalityType

\* A session loses no dog, and gains one at most, when a player joins.
LEMMA DogsAfterJoin ==
    ASSUME TypeOK, NEW m \in Maps, Join(m), NEW n \in Maps
    PROVE  Dogs(n) =< Dogs(n)'
<1>1. playerCount' = playerCount + 1 /\ home' = [home EXCEPT ![playerCount] = m]
  BY DEF Join
<1>2. playerCount \in Nat /\ (\A p \in PlayerIds : p \in Nat)
  BY DEF TypeOK, PlayerIds
<1>3. Residents(n) \subseteq Residents(n)'
  BY <1>1, <1>2 DEF Residents, Joined, TypeOK
<1>4. Residents(n)' \subseteq PlayerIds
  BY DEF Residents, Joined
<1>5. IsFiniteSet(Residents(n)')
  BY <1>4, IdsAreFinite, FS_Subset
<1>6. Cardinality(Residents(n)) =< Cardinality(Residents(n)')
  BY <1>3, <1>5, FS_Subset
<1>. QED  BY <1>6 DEF Dogs

\* A session that spawns n objects has room for n more.
LEMMA FloorAfterSpawn ==
    ASSUME TypeOK, NEW m \in Maps, GenerateLoot(m), Cardinality(floor[m]) =< Dogs(m)
    PROVE  Cardinality(floor'[m]) =< Dogs(m)
<1>1. PICK n \in 0 .. MaxLoot - lootNumber :
        /\ EnoughLoot(m, n)
        /\ floor' = [floor EXCEPT
              ![m] = @ \cup {l \in LootIds : lootNumber =< l /\ l < lootNumber + n}]
  BY DEF GenerateLoot
<1>. DEFINE spawned == {l \in LootIds : lootNumber =< l /\ l < lootNumber + n}
<1>2. lootNumber \in Nat /\ n \in Nat /\ (\A l \in LootIds : l \in Int)
  BY DEF TypeOK, LootIds
<1>3. spawned \subseteq lootNumber .. lootNumber + n - 1
  BY <1>2
<1>4. /\ IsFiniteSet(lootNumber .. lootNumber + n - 1)
      /\ Cardinality(lootNumber .. lootNumber + n - 1) = n
  <2>1. lootNumber \in Int /\ lootNumber + n - 1 \in Int
    BY <1>2
  <2>2. /\ IsFiniteSet(lootNumber .. lootNumber + n - 1)
        /\ Cardinality(lootNumber .. lootNumber + n - 1) =
              IF lootNumber > lootNumber + n - 1 THEN 0
              ELSE (lootNumber + n - 1) - lootNumber + 1
    BY ONLY <2>1, FS_Interval
  <2>. QED  BY <1>2, <2>2
<1>5. IsFiniteSet(spawned) /\ Cardinality(spawned) =< n
  BY <1>3, <1>4, FS_Subset
<1>6. Cardinality(spawned) \in Nat /\ (n = 0 => Cardinality(spawned) = 0)
  BY <1>5, FS_CardinalityType
<1>7. floor'[m] = floor[m] \cup spawned
  BY <1>1 DEF TypeOK
<1>8. IsFiniteSet(floor[m] \cap spawned) /\ Cardinality(floor[m] \cap spawned) \in Nat
  BY <1>5, FS_Subset, FS_CardinalityType
<1>9. Cardinality(floor[m] \cup spawned) =
          Cardinality(floor[m]) + Cardinality(spawned) - Cardinality(floor[m] \cap spawned)
  BY <1>5, FloorIsFinite, FS_Union
<1>. HIDE DEF spawned
<1>10. Cardinality(floor'[m]) =< Cardinality(floor[m]) + Cardinality(spawned)
  BY <1>6, <1>7, <1>8, <1>9, FloorIsFinite
<1>11. Cardinality(floor'[m]) \in Int
  BY <1>6, <1>7, <1>8, <1>9, FloorIsFinite
<1>. QED  BY <1>1, <1>2, <1>5, <1>6, <1>10, <1>11, FloorIsFinite, DogsIsNat DEF EnoughLoot

LEMMA FloorBoundInit == Init => FloorBoundedByDogs
<1>. SUFFICES ASSUME Init, NEW m \in Maps PROVE Cardinality(floor[m]) =< Dogs(m)
  BY DEF FloorBoundedByDogs
<1>1. floor[m] = {}
  BY DEF Init
<1>. QED  BY <1>1, FS_EmptySet, DogsIsNat

LEMMA FloorBoundNext ==
    TypeOK /\ FloorBoundedByDogs /\ [Next]_vars => FloorBoundedByDogs'
<1>. SUFFICES ASSUME TypeOK, FloorBoundedByDogs, [Next]_vars, NEW m \in Maps
              PROVE  Cardinality(floor'[m]) =< Dogs(m)'
  BY DEF FloorBoundedByDogs
<1>0. Cardinality(floor[m]) =< Dogs(m)
  BY DEF FloorBoundedByDogs
<1>1. CASE UNCHANGED <<floor, home, playerCount>>
  BY <1>0, <1>1 DEF Dogs, Residents, Joined
<1>2. ASSUME NEW n \in Maps, Join(n) PROVE Cardinality(floor'[m]) =< Dogs(m)'
  <2>1. Dogs(m)' \in Nat /\ Dogs(m) \in Nat
    <3>1. Residents(m)' \subseteq PlayerIds
      BY DEF Residents, Joined
    <3>. QED  BY <3>1, DogsIsNat, IdsAreFinite, FS_Subset, FS_CardinalityType DEF Dogs
  <2>2. floor' = floor
    BY <1>2 DEF Join, lootVars
  <2>. QED  BY <1>0, <1>2, <2>1, <2>2, DogsAfterJoin, FloorIsFinite
<1>3. ASSUME NEW n \in Maps, GenerateLoot(n) PROVE Cardinality(floor'[m]) =< Dogs(m)'
  <2>1. Dogs(m)' = Dogs(m)
    BY <1>3 DEF GenerateLoot, worldVars, Dogs, Residents, Joined
  <2>2. CASE n = m
    BY <1>0, <1>3, <2>1, <2>2, FloorAfterSpawn
  <2>3. CASE n # m
    <3>1. floor'[m] = floor[m]
      BY <1>3, <2>3 DEF GenerateLoot, TypeOK
    <3>. QED  BY <1>0, <2>1, <3>1
  <2>. QED  BY <2>2, <2>3
<1>4. ASSUME NEW p \in PlayerIds, NEW l \in LootIds, NEW n \in Maps, Gather(p, l, n)
      PROVE  Cardinality(floor'[m]) =< Dogs(m)'
  <2>1. Dogs(m)' = Dogs(m)
    BY <1>4 DEF Gather, worldVars, Dogs, Residents, Joined
  <2>2. floor'[m] \subseteq floor[m]
    BY <1>4 DEF Gather, TypeOK
  <2>3. Cardinality(floor'[m]) =< Cardinality(floor[m]) /\ Cardinality(floor'[m]) \in Nat
    BY <2>2, FloorIsFinite, FS_Subset, FS_CardinalityType
  <2>. QED  BY <1>0, <2>1, <2>3, FloorIsFinite, DogsIsNat
<1>5. (\E p \in PlayerIds, go \in BOOLEAN : Action(p, go)) \/ (\E d \in Deltas : BeginTick(d))
        => UNCHANGED <<floor, home, playerCount>>
  BY DEF Action, BeginTick, worldVars, lootVars
<1>6. StartMoves \/ SkipOffline \/ MovePlayer \/ RetireOk \/ RetireFail \/ EndMoves
        \/ EndGather \/ (\E p \in PlayerIds : OfficeEvent(p)) \/ NoOfficeEvent
        => UNCHANGED <<floor, home, playerCount>>
  BY DEF StartMoves, SkipOffline, MovePlayer, RetireOk, RetireFail, EndMoves, EndGather,
         OfficeEvent, NoOfficeEvent, worldVars, lootVars
<1>7. UNCHANGED vars => UNCHANGED <<floor, home, playerCount>>
  BY DEF vars, worldVars, lootVars
<1>. QED  BY <1>1, <1>2, <1>3, <1>4, <1>5, <1>6, <1>7 DEF Next, Request, TickStep

\* A session never holds more loot than dogs, for every number of players, of
\* maps and of loot.
THEOREM FloorIsBounded == Spec => []FloorBoundedByDogs
<1>. QED  BY TypeOKInit, TypeOKNext, FloorBoundInit, FloorBoundNext, PTL DEF Spec
-----------------------------------------------------------------------------
(* Records.  The argument: a dog that is due has been standing through its   *)
(* last round of the loop, so its segment is a point; it gathers and scores  *)
(* nothing any more, in this tick or in a later one.  For a dog whose        *)
(* retirement the database refuses, its last round is an earlier tick: then  *)
(* it matters that no single tick is as long as the retirement time.         *)

PromptRetirement == ~DbMayFail \/ (\A d \in Deltas : d < RetirementTime)

StandingHasNoSegment == \A p \in PlayerIds : idle[p] > 0 => ~segment[p]

UuidsAreFresh ==
    /\ \A p \in Joined : uuid[p] < issued
    /\ \A row \in records : row.id < issued
    /\ \A p \in Joined, q \in Joined : uuid[p] = uuid[q] => p = q

RecordedIsRetired ==
    \A row \in records, p \in Joined :
        row.id = uuid[p] => ~online[p] /\ idle[p] = RetirementTime /\ row.score = score[p]

RecordInv == TypeOK /\ StandingHasNoSegment /\ UuidsAreFresh /\ RecordedIsRetired

LEMMA RecordInvInit == Init => RecordInv
<1>. SUFFICES ASSUME Init PROVE RecordInv
  OBVIOUS
<1>1. Joined = {} /\ records = {}
  BY DEF Init, Joined, PlayerIds
<1>2. StandingHasNoSegment
  BY DEF Init, StandingHasNoSegment
<1>. QED  BY <1>1, <1>2, TypeOKInit DEF RecordInv, UuidsAreFresh, RecordedIsRetired

\* A round of the loop leaves a standing dog without a segment.
LEMMA StandingAfterRound ==
    ASSUME TypeOK, StandingHasNoSegment, NEW p \in PlayerIds, SetPosition(p),
           idle' = [idle EXCEPT ![p] = IdleAfter(p)]
    PROVE  StandingHasNoSegment'
<1>1. PICK outcome \in Outcomes(p) : segment' = [segment EXCEPT ![p] = outcome.segment]
  BY DEF SetPosition
<1>2. ~moving[p] => ~outcome.segment
  BY DEF Outcomes
<1>3. moving[p] => idle'[p] = 0
  BY DEF IdleAfter, TypeOK
<1>4. \A q \in PlayerIds \ {p} : idle'[q] = idle[q] /\ segment'[q] = segment[q]
  BY <1>1 DEF TypeOK
<1>5. segment'[p] = outcome.segment
  BY <1>1 DEF TypeOK
<1>6. idle'[p] > 0 => ~segment'[p]
  BY <1>2, <1>3, <1>5
<1>. QED  BY <1>4, <1>6 DEF StandingHasNoSegment

\* A dog that is refused was standing already before the tick that retires it.
LEMMA StandingAfterRefusal ==
    ASSUME PromptRetirement, RecordInv, RetireFail
    PROVE  StandingHasNoSegment'
<1>. USE DEF RecordInv
<1>1. cursor < playerCount /\ online[cursor] /\ RetirementDue(cursor)
  BY DEF RetireFail
<1>2. cursor \in PlayerIds /\ cursor \in Joined
  BY <1>1, BoundsAssumption DEF TypeOK, PlayerIds, Joined
<1>3. ~Recorded(cursor)
  BY <1>1, <1>2 DEF Recorded, RecordedIsRetired
<1>4. \A d \in Deltas : d < RetirementTime
  BY <1>3 DEF RetireFail, PromptRetirement
<1>5. delta < RetirementTime /\ delta \in Nat /\ idle[cursor] \in Nat
  BY <1>2, <1>4, TimeAssumption DEF TypeOK
<1>6. idle[cursor] > 0
  BY <1>1, <1>5, TimeAssumption DEF RetirementDue, IdleAfter
<1>7. ~segment[cursor]
  BY <1>2, <1>6 DEF StandingHasNoSegment
<1>8. \A q \in PlayerIds \ {cursor} : idle'[q] = idle[q]
  BY <1>2 DEF RetireFail, TypeOK
<1>9. segment' = segment
  BY DEF RetireFail
<1>. QED  BY <1>7, <1>8, <1>9 DEF StandingHasNoSegment

\* Retiring a player, with or without its row, keeps the rows final.
LEMMA RecordsAfterRetirement ==
    ASSUME RecordInv, cursor < playerCount, online[cursor], RetirementDue(cursor),
           online' = [online EXCEPT ![cursor] = FALSE],
           idle' = [idle EXCEPT ![cursor] = IdleAfter(cursor)],
           records' \in {records, records \cup {Row(cursor)}},
           UNCHANGED <<playerCount, issued, uuid, score>>
    PROVE  UuidsAreFresh' /\ RecordedIsRetired'
<1>. USE DEF RecordInv
<1>1. cursor \in PlayerIds /\ cursor \in Joined
  BY BoundsAssumption DEF TypeOK, PlayerIds, Joined
<1>2. Joined' = Joined /\ Joined \subseteq PlayerIds
  BY DEF Joined
<1>3. Row(cursor).id = uuid[cursor] /\ Row(cursor).score = score[cursor]
  BY DEF Row
<1>4. \A row \in records' : row \in records \/ row = Row(cursor)
  OBVIOUS
<1>5. UuidsAreFresh'
  BY <1>1, <1>2, <1>3, <1>4 DEF UuidsAreFresh
<1>6. ~online'[cursor] /\ idle'[cursor] = RetirementTime
  BY <1>1 DEF TypeOK, RetirementDue
<1>7. \A q \in PlayerIds \ {cursor} : online'[q] = online[q] /\ idle'[q] = idle[q]
  BY <1>1 DEF TypeOK
<1>8. ASSUME NEW row \in records', NEW p \in Joined, row.id = uuid[p]
      PROVE  ~online'[p] /\ idle'[p] = RetirementTime /\ row.score = score[p]
  <2>1. CASE row \in records
    BY <1>2, <1>6, <1>7, <1>8, <2>1 DEF RecordedIsRetired
  <2>2. CASE row = Row(cursor)
    <3>1. p = cursor
      BY <1>1, <1>3, <1>8, <2>2 DEF UuidsAreFresh
    <3>. QED  BY <1>3, <1>6, <2>2, <3>1
  <2>. QED  BY <1>4, <2>1, <2>2
<1>. QED  BY <1>2, <1>5, <1>8 DEF RecordedIsRetired

LEMMA RecordInvNext == PromptRetirement /\ RecordInv /\ [Next]_vars => RecordInv'
<1>. SUFFICES ASSUME PromptRetirement, RecordInv, [Next]_vars
              PROVE  StandingHasNoSegment' /\ UuidsAreFresh' /\ RecordedIsRetired'
  BY TypeOKNext DEF RecordInv
<1>. USE DEF RecordInv
<1>1. UNCHANGED <<segment, idle>> => StandingHasNoSegment'
  BY DEF StandingHasNoSegment
<1>2. UNCHANGED <<playerCount, issued, uuid, records>> => UuidsAreFresh'
  BY DEF UuidsAreFresh, Joined
<1>3. UNCHANGED <<playerCount, uuid, records, online, idle, score>> => RecordedIsRetired'
  BY DEF RecordedIsRetired, Joined
<1>. DEFINE Goal == StandingHasNoSegment' /\ UuidsAreFresh' /\ RecordedIsRetired'
            Quiet == UNCHANGED <<segment, playerCount, issued, uuid, records, online, idle, score>>
<1>4. Quiet => Goal
  BY <1>1, <1>2, <1>3
<1>5. ASSUME NEW m \in Maps, Join(m) PROVE Goal
  <2>1. playerCount \in PlayerIds /\ playerCount \notin Joined
    BY <1>5, BoundsAssumption DEF Join, TypeOK, PlayerIds, Joined
  <2>2. Joined' = Joined \cup {playerCount} /\ Joined \subseteq PlayerIds
    BY <1>5, <2>1 DEF Join, TypeOK, Joined, PlayerIds
  <2>3. /\ uuid'[playerCount] = issued /\ issued' = issued + 1 /\ issued \in Nat
        /\ UNCHANGED <<records, segment, idle, score>>
    BY <1>5, <2>1 DEF Join, TypeOK, lootVars
  <2>4. \A p \in Joined : uuid'[p] = uuid[p] /\ online'[p] = online[p] /\ uuid[p] \in Nat
    BY <1>5, <2>1, <2>2 DEF Join, TypeOK
  <2>5. \A row \in records : row.id \in Nat /\ row.id # uuid'[playerCount]
    BY <2>3 DEF UuidsAreFresh, TypeOK
  <2>6. UuidsAreFresh'
    BY <2>2, <2>3, <2>4, <2>5 DEF UuidsAreFresh
  <2>7. RecordedIsRetired'
    BY <2>2, <2>3, <2>4, <2>5 DEF RecordedIsRetired
  <2>. QED  BY <1>1, <2>3, <2>6, <2>7
<1>6. CASE MovePlayer
  <2>1. cursor \in PlayerIds /\ cursor \in Joined /\ online[cursor]
    BY <1>6, BoundsAssumption DEF MovePlayer, TypeOK, PlayerIds, Joined
  <2>2. /\ SetPosition(cursor) /\ idle' = [idle EXCEPT ![cursor] = IdleAfter(cursor)]
        /\ UNCHANGED <<playerCount, issued, uuid, records, online, score>>
    BY <1>6 DEF MovePlayer, worldVars, lootVars
  <2>3. \A p \in PlayerIds \ {cursor} : idle'[p] = idle[p]
    BY <2>1, <2>2 DEF TypeOK
  <2>4. RecordedIsRetired'
    BY <2>1, <2>2, <2>3 DEF RecordedIsRetired, Joined
  <2>. QED  BY <1>2, <2>1, <2>2, <2>4, StandingAfterRound
<1>7. CASE RetireOk
  <2>1. /\ cursor < playerCount /\ online[cursor] /\ RetirementDue(cursor)
        /\ online' = [online EXCEPT ![cursor] = FALSE]
        /\ idle' = [idle EXCEPT ![cursor] = IdleAfter(cursor)]
        /\ records' = records \cup {Row(cursor)}
        /\ SetPosition(cursor)
        /\ UNCHANGED <<playerCount, issued, uuid, score>>
    BY <1>7 DEF RetireOk, worldVars, lootVars
  <2>2. cursor \in PlayerIds
    BY <2>1, BoundsAssumption DEF TypeOK, PlayerIds
  <2>. QED  BY <2>1, <2>2, RecordsAfterRetirement, StandingAfterRound
<1>8. CASE RetireFail
  <2>1. /\ cursor < playerCount /\ online[cursor] /\ RetirementDue(cursor)
        /\ online' = [online EXCEPT ![cursor] = FALSE]
        /\ idle' = [idle EXCEPT ![cursor] = IdleAfter(cursor)]
        /\ records' \in {records, records \cup {Row(cursor)}}
        /\ UNCHANGED <<playerCount, issued, uuid, score>>
    BY <1>8 DEF RetireFail, worldVars, lootVars
  <2>. QED  BY <1>8, <2>1, RecordsAfterRetirement, StandingAfterRefusal
<1>9. ASSUME NEW p \in PlayerIds, OfficeEvent(p) PROVE Goal
  <2>1. segment[p] /\ UNCHANGED <<segment, playerCount, issued, uuid, records, online, idle>>
    BY <1>9 DEF OfficeEvent, worldVars, dogVars
  <2>2. ~(idle[p] = RetirementTime)
    BY <2>1, TimeAssumption DEF StandingHasNoSegment, TypeOK
  <2>3. \A q \in PlayerIds \ {p} : score'[q] = score[q]
    BY <1>9 DEF OfficeEvent, TypeOK
  <2>4. RecordedIsRetired'
    BY <2>1, <2>2, <2>3 DEF RecordedIsRetired, Joined
  <2>. QED  BY <1>1, <1>2, <2>1, <2>4
<1>10. (\E p \in PlayerIds, go \in BOOLEAN : Action(p, go)) \/ (\E d \in Deltas : BeginTick(d)) => Quiet
  BY DEF Action, BeginTick, worldVars, dogVars, lootVars
<1>11. (\E m \in Maps : GenerateLoot(m)) \/ StartMoves \/ SkipOffline \/ EndMoves \/ EndGather
          \/ (\E p \in PlayerIds, l \in LootIds, m \in Maps : Gather(p, l, m)) \/ NoOfficeEvent
          => Quiet
  BY DEF GenerateLoot, StartMoves, SkipOffline, EndMoves, EndGather, Gather, NoOfficeEvent,
         worldVars, dogVars, lootVars
<1>12. UNCHANGED vars => Quiet
  BY DEF vars, worldVars, dogVars, lootVars
<1>. HIDE DEF Quiet
<1>13. CASE Request
  BY <1>4, <1>5, <1>10, <1>13 DEF Request
<1>14. CASE TickStep
  BY <1>4, <1>6, <1>7, <1>8, <1>9, <1>11, <1>14 DEF TickStep
<1>. QED  BY <1>4, <1>10, <1>12, <1>13, <1>14 DEF Next

\* A row of the table of records shows the final score of its player, if the
\* database does not fail or no tick is as long as the retirement time.
THEOREM RecordsAreFinal ==
    ASSUME PromptRetirement
    PROVE  Spec => []RecordIsFinal
<1>1. RecordInv => RecordIsFinal
  BY DEF RecordInv, RecordedIsRetired, RecordIsFinal
<1>2. RecordInv /\ [Next]_vars => RecordInv'
  BY RecordInvNext
<1>. QED  BY <1>1, <1>2, RecordInvInit, PTL DEF Spec

\* Only a dog that moved in its last round of the loop fills or empties its bag.
LEMMA GatherersHaveASegment ==
    ASSUME TypeOK, [Next]_vars, NEW p \in PlayerIds
    PROVE  ~segment[p] => bag'[p] = bag[p] /\ score'[p] = score[p]
<1>. SUFFICES ASSUME ~segment[p] PROVE bag'[p] = bag[p] /\ score'[p] = score[p]
  OBVIOUS
<1>1. CASE UNCHANGED <<bag, score>>
  BY <1>1
<1>2. ASSUME NEW q \in PlayerIds, NEW l \in LootIds, NEW m \in Maps, Gather(q, l, m)
      PROVE  bag'[p] = bag[p] /\ score'[p] = score[p]
  BY <1>2 DEF Gather, TypeOK
<1>3. ASSUME NEW q \in PlayerIds, OfficeEvent(q)
      PROVE  bag'[p] = bag[p] /\ score'[p] = score[p]
  BY <1>3 DEF OfficeEvent, TypeOK
<1>4. Request \/ (\E d \in Deltas : BeginTick(d)) \/ (\E m \in Maps : GenerateLoot(m))
        => UNCHANGED <<bag, score>>
  BY DEF Request, Join, Action, BeginTick, GenerateLoot, lootVars
<1>5. StartMoves \/ SkipOffline \/ MovePlayer \/ RetireOk \/ RetireFail
        \/ EndMoves \/ EndGather \/ NoOfficeEvent => UNCHANGED <<bag, score>>
  BY DEF StartMoves, SkipOffline, MovePlayer, RetireOk, RetireFail, EndMoves, EndGather,
         NoOfficeEvent, lootVars
<1>6. UNCHANGED vars => UNCHANGED <<bag, score>>
  BY DEF vars, lootVars
<1>. QED  BY <1>1, <1>2, <1>3, <1>4, <1>5, <1>6 DEF Next, TickStep

\* A dog that stands gathers and scores nothing, under the same condition.
THEOREM StandingDogsAreIdle ==
    ASSUME PromptRetirement
    PROVE  Spec => StandingDogsGatherNothing
<1>1. RecordInv /\ [Next]_vars =>
        [\A p \in PlayerIds : idle[p] > 0 => bag'[p] = bag[p] /\ score'[p] = score[p]]_vars
  BY GatherersHaveASegment DEF RecordInv, StandingHasNoSegment
<1>2. RecordInv /\ [Next]_vars => RecordInv'
  BY RecordInvNext
<1>. QED  BY <1>1, <1>2, RecordInvInit, PTL DEF Spec, StandingDogsGatherNothing
-----------------------------------------------------------------------------
(* The ledger.  With the types and LootInOnePlace, an object has one stage   *)
(* and one holder, so a step that moves loot is one entry of the ledger.     *)

StageNow == [l \in LootIds |-> StageOf(l)]
HolderNow == [l \in LootIds |-> HolderOf(l)]

\* Who holds an object is what its holder is made of.
LEMMA HolderIsUnique ==
    ASSUME LootInOnePlace, NEW l \in LootIds, NEW p \in PlayerIds, Holds(p, l)
    PROVE  HolderOf(l) = p
<1>1. \A q \in PlayerIds : Holds(q, l) => q = p
  BY DEF LootInOnePlace, NothingTwice
<1>. QED  BY <1>1 DEF HolderOf

LEMMA HolderStays ==
    ASSUME NEW l \in LootIds, \A p \in PlayerIds : Holds(p, l)' <=> Holds(p, l)
    PROVE  HolderOf(l)' = HolderOf(l)
BY DEF HolderOf

LEMMA StageStays ==
    ASSUME NEW l \in LootIds,
           (\E m \in Maps : l \in floor'[m]) <=> (\E m \in Maps : l \in floor[m]),
           (\E p \in PlayerIds : l \in bag'[p]) <=> (\E p \in PlayerIds : l \in bag[p]),
           (\E p \in PlayerIds : l \in Scored(p)') <=> (\E p \in PlayerIds : l \in Scored(p))
    PROVE  StageOf(l)' = StageOf(l)
BY DEF StageOf

LEMMA LedgerStays ==
    ASSUME UNCHANGED <<floor, bag, score>>
    PROVE  UNCHANGED <<StageNow, HolderNow>>
BY DEF StageNow, HolderNow, StageOf, HolderOf, Holds, Scored

LEMMA SpawnIsInLedger ==
    ASSUME LootInv, NEW m \in Maps, GenerateLoot(m)
    PROVE  \E S \in SUBSET LootIds : Ledger!Spawn(S)
<1>0. TypeOK /\ LootInOnePlace
  BY DEF LootInv
<1>1. PICK spawned \in SUBSET LootIds :
        /\ \A l \in LootIds : l \in spawned <=> lootNumber =< l /\ l < lootNumber'
        /\ floor' = [floor EXCEPT ![m] = @ \cup spawned]
  BY <1>0, SpawnEffect
<1>2. lootNumber \in Nat /\ (\A l \in LootIds : l \in Nat)
  BY <1>0 DEF TypeOK, LootIds
<1>3. UNCHANGED <<bag, score>>
  BY DEF GenerateLoot
<1>4. \A p \in PlayerIds, l \in LootIds : Holds(p, l)' <=> Holds(p, l)
  BY <1>3 DEF Holds, Scored
<1>5. \A p \in PlayerIds : bag'[p] = bag[p] /\ Scored(p)' = Scored(p)
  BY <1>3 DEF Scored
<1>6. \A l \in spawned : l \in LootIds /\ ~(l < lootNumber)
  BY <1>1, <1>2
<1>7. ASSUME NEW l \in spawned PROVE StageOf(l) = "unborn" /\ StageOf(l)' = "floor"
  <2>1. /\ \A n \in Maps : l \notin floor[n]
        /\ \A p \in PlayerIds : ~Holds(p, l)
    BY <1>0, <1>6 DEF LootInOnePlace, NothingLost
  <2>2. l \in floor'[m]
    BY <1>0, <1>1 DEF TypeOK
  <2>. QED  BY <2>1, <2>2 DEF StageOf, Holds
<1>8. ASSUME NEW l \in LootIds, l \notin spawned PROVE StageOf(l)' = StageOf(l)
  <2>1. \A n \in Maps : l \in floor'[n] <=> l \in floor[n]
    BY <1>0, <1>1, <1>8 DEF TypeOK
  <2>. QED  BY <1>5, <2>1, StageStays
<1>9. \A l \in LootIds : HolderOf(l)' = HolderOf(l)
  BY <1>4, HolderStays
<1>10. Ledger!Spawn(spawned)
  BY <1>7, <1>8, <1>9 DEF Ledger!Spawn
<1>. QED  BY <1>10

LEMMA GatherIsInLedger ==
    ASSUME LootInv, NEW p \in PlayerIds, NEW l \in LootIds, NEW m \in Maps, Gather(p, l, m)
    PROVE  Ledger!Pick(l, p)
<1>0. TypeOK /\ LootInOnePlace /\ LootInOnePlace'
  BY LootAfterGather DEF LootInv
<1>1. /\ \A n \in Maps : floor'[n] = IF n = m THEN floor[m] \ {l} ELSE floor[n]
      /\ \A q \in PlayerIds : bag'[q] = IF q = p THEN bag[p] \cup {l} ELSE bag[q]
  BY <1>0 DEF Gather, TypeOK
<1>2. l \in floor[m] /\ score' = score
  BY DEF Gather
<1>3. \A q \in PlayerIds : Scored(q)' = Scored(q)
  BY <1>2 DEF Scored
<1>4. StageOf(l) = "floor"
  BY <1>2 DEF StageOf
<1>5. Holds(p, l)' /\ l \in bag'[p]
  BY <1>1 DEF Holds
<1>6. \A n \in Maps : l \notin floor'[n]
  BY <1>0, <1>5 DEF LootInOnePlace, NothingTwice
<1>7. StageOf(l)' = "bag"
  BY <1>5, <1>6 DEF StageOf
<1>8. HolderOf(l)' = p
  <2>1. \A q \in PlayerIds : Holds(q, l)' => q = p
    BY <1>0, <1>5 DEF LootInOnePlace, NothingTwice
  <2>. QED  BY <1>5, <2>1 DEF HolderOf
<1>9. ASSUME NEW k \in LootIds, k # l PROVE StageOf(k)' = StageOf(k) /\ HolderOf(k)' = HolderOf(k)
  <2>1. \A n \in Maps : k \in floor'[n] <=> k \in floor[n]
    BY <1>1, <1>9
  <2>2. \A q \in PlayerIds : k \in bag'[q] <=> k \in bag[q]
    BY <1>1, <1>9
  <2>3. \A q \in PlayerIds : Holds(q, k)' <=> Holds(q, k)
    BY <1>3, <2>2 DEF Holds
  <2>. QED  BY <1>3, <2>1, <2>2, <2>3, StageStays, HolderStays
<1>10. StageNow' = [StageNow EXCEPT ![l] = "bag"]
  BY <1>7, <1>9 DEF StageNow
<1>11. HolderNow' = [HolderNow EXCEPT ![l] = p]
  BY <1>8, <1>9 DEF HolderNow
<1>. QED  BY <1>4, <1>10, <1>11 DEF Ledger!Pick, StageNow, HolderNow

LEMMA BankIsInLedger ==
    ASSUME LootInv, NEW p \in PlayerIds, NEW m \in Maps,
           floor' = floor,
           score' = [score EXCEPT ![p] = @ \cup (bag[p] \X {m})],
           bag' = [bag EXCEPT ![p] = {}]
    PROVE  Ledger!Bank(p)
<1>0. TypeOK /\ LootInOnePlace
  BY DEF LootInv
<1>1. /\ Scored(p)' = Scored(p) \cup bag[p]
      /\ \A q \in PlayerIds \ {p} : Scored(q)' = Scored(q)
  BY <1>0, ScoredAfterBanking
<1>2. \A q \in PlayerIds : bag'[q] = IF q = p THEN {} ELSE bag[q]
  BY <1>0 DEF TypeOK
<1>3. \A q \in PlayerIds, l \in LootIds : Holds(q, l)' <=> Holds(q, l)
  BY <1>1, <1>2 DEF Holds
<1>4. \A l \in LootIds : HolderOf(l)' = HolderOf(l)
  BY <1>3, HolderStays
<1>5. ASSUME NEW l \in LootIds, l \in bag[p]
      PROVE  StageOf(l) = "bag" /\ HolderOf(l) = p /\ StageOf(l)' = "scored"
  <2>1. Holds(p, l)
    BY <1>5 DEF Holds
  <2>2. \A n \in Maps : l \notin floor[n]
    BY <1>0, <2>1 DEF LootInOnePlace, NothingTwice
  <2>3. \A q \in PlayerIds : l \notin bag'[q]
    BY <1>0, <1>2, <2>1 DEF LootInOnePlace, NothingTwice, Holds
  <2>4. l \in Scored(p)'
    BY <1>1, <1>5
  <2>. QED  BY <1>0, <1>5, <2>1, <2>2, <2>3, <2>4, HolderIsUnique DEF StageOf
<1>6. ASSUME NEW l \in LootIds, l \notin bag[p]
      PROVE  StageOf(l)' = StageOf(l) /\ ~(StageOf(l) = "bag" /\ HolderOf(l) = p)
  <2>1. \A q \in PlayerIds : (l \in bag'[q] <=> l \in bag[q]) /\ (l \in Scored(q)' <=> l \in Scored(q))
    BY <1>1, <1>2, <1>6
  <2>2. StageOf(l)' = StageOf(l)
    BY <2>1, StageStays
  <2>3. ASSUME NEW q \in PlayerIds, l \in bag[q] PROVE HolderOf(l) # p
    <3>1. Holds(q, l) /\ q # p
      BY <1>6, <2>3 DEF Holds
    <3>. QED  BY <1>0, <3>1, HolderIsUnique
  <2>4. StageOf(l) = "bag" => \E q \in PlayerIds : l \in bag[q]
    BY DEF StageOf
  <2>. QED  BY <2>2, <2>3, <2>4
<1>. QED  BY <1>4, <1>5, <1>6 DEF Ledger!Bank

LEMMA LedgerInitial == Init => Ledger!LedgerInit
<1>. SUFFICES ASSUME Init, NEW l \in LootIds PROVE StageOf(l) = "unborn" /\ HolderOf(l) = MaxPlayers
  BY DEF Ledger!LedgerInit
<1>. QED  BY DEF Init, StageOf, HolderOf, Holds, Scored

LEMMA LedgerStep == LootInv /\ [Next]_vars => [Ledger!LedgerNext]_<<StageNow, HolderNow>>
<1>. SUFFICES ASSUME LootInv, [Next]_vars
              PROVE  Ledger!LedgerNext \/ UNCHANGED <<StageNow, HolderNow>>
  OBVIOUS
<1>1. CASE UNCHANGED lootVars
  BY <1>1, LedgerStays DEF lootVars
<1>2. ASSUME NEW m \in Maps, GenerateLoot(m) PROVE Ledger!LedgerNext
  BY <1>2, SpawnIsInLedger DEF Ledger!LedgerNext
<1>3. ASSUME NEW p \in PlayerIds, NEW l \in LootIds, NEW m \in Maps, Gather(p, l, m)
      PROVE  Ledger!LedgerNext
  BY <1>3, GatherIsInLedger DEF Ledger!LedgerNext
<1>4. ASSUME NEW p \in PlayerIds, OfficeEvent(p)
      PROVE  Ledger!LedgerNext \/ UNCHANGED <<StageNow, HolderNow>>
  <2>1. floor' = floor
    BY <1>4 DEF OfficeEvent
  <2>2. CASE UNCHANGED <<score, bag>>
    BY <2>1, <2>2, LedgerStays
  <2>3. ASSUME NEW m \in BankingSessions(p),
               score' = [score EXCEPT ![p] = @ \cup (bag[p] \X {m})],
               bag' = [bag EXCEPT ![p] = {}]
        PROVE  Ledger!LedgerNext
    <3>1. m \in Maps
      BY DEF BankingSessions, Sessions, Joined, TypeOK, LootInv
    <3>. QED  BY <2>1, <2>3, <3>1, BankIsInLedger DEF Ledger!LedgerNext
  <2>. QED  BY <1>4, <2>2, <2>3 DEF OfficeEvent
<1>5. Request \/ (\E d \in Deltas : BeginTick(d)) => UNCHANGED lootVars
  BY DEF Request, Join, Action, BeginTick
<1>6. StartMoves \/ SkipOffline \/ MovePlayer \/ RetireOk \/ RetireFail
        \/ EndMoves \/ EndGather \/ NoOfficeEvent => UNCHANGED lootVars
  BY DEF StartMoves, SkipOffline, MovePlayer, RetireOk, RetireFail, EndMoves, EndGather, NoOfficeEvent
<1>. QED  BY <1>1, <1>2, <1>3, <1>4, <1>5, <1>6 DEF Next, TickStep, vars

\* The game implements the ledger of loot, for any number of maps, players and
\* objects: nothing that is gathered or scored changes hands or goes back.
THEOREM LedgerIsKept == Spec => LedgerSpec
<1>1. Spec => Ledger!LedgerInit /\ [][Ledger!LedgerNext]_<<StageNow, HolderNow>>
  BY LedgerInitial, LedgerStep, LootInvInit, LootInvNext, PTL DEF Spec
<1>. QED  BY <1>1, PTL DEF LedgerSpec, Ledger!LedgerSpec, StageNow, HolderNow
-----------------------------------------------------------------------------
(* The game and its file: what is saved can always be restored, the table  *)
(* of records survives every restart unharmed, and a clean shutdown of a   *)
(* server with one map loses nothing.                                      *)

\* A set of numbers has a least one.
LEMMA Least ==
    ASSUME NEW T \in SUBSET Nat, T # {}
    PROVE  \E x \in T : \A y \in T : x =< y
<1>. DEFINE R == {ss \in Nat \X Nat : ss[1] < ss[2]}
<1>1. IsWellFoundedOn(R, Nat)
  BY NatLessThanWellFounded, Zenon DEF OpToRel
<1>2. \A x \in Nat, y \in Nat : y < x => <<y, x>> \in R
  OBVIOUS
<1>. HIDE DEF R
<1>3. \E x \in T : \A y \in T : <<y, x>> \notin R
  BY <1>1, WFMin, Zenon
<1>4. PICK x \in T : \A y \in T : <<y, x>> \notin R
  BY <1>3
<1>5. ASSUME NEW y \in T PROVE x =< y
  <2>1. ~(y < x) /\ x \in Nat /\ y \in Nat
    BY <1>2, <1>4
  <2>. QED  BY <2>1
<1>. QED  BY <1>5

\* A step of the tick or of a request, with what it may do to the file.
LEMMA RunSteps == ASSUME Run PROVE Next
BY DEF Run
-----------------------------------------------------------------------------
(* Types.  What is in the file has the types of the game it was taken from. *)

SavedTypeOK(s) ==
    /\ s.playerCount \in 0 .. issued
    /\ s.uuid \in [PlayerIds -> Nat]
    /\ s.home \in [PlayerIds -> Maps \cup {NoMap}]
    /\ \A p \in PlayerIds : s.home[p] \in Maps <=> p < s.playerCount
    /\ s.online \in [PlayerIds -> BOOLEAN]
    /\ s.heading \in [PlayerIds -> BOOLEAN]
    /\ s.segment \in [PlayerIds -> BOOLEAN]
    /\ \A p \in PlayerIds : s.online[p] \/ s.segment[p] => p < s.playerCount
    /\ s.idle \in [PlayerIds -> 0 .. RetirementTime]
    /\ s.lootNumber \in 0 .. MaxLoot
    /\ s.floor \in [Maps -> SUBSET LootIds]
    /\ s.visible \in SUBSET LootIds
    /\ s.bag \in [PlayerIds -> SUBSET LootIds]
    /\ s.score \in [PlayerIds -> SUBSET (LootIds \X Maps)]
    /\ s.tokens \subseteq [token : Nat, player : PlayerIds]

TokensTypeOK == tokens \subseteq [token : Nat, player : PlayerIds]

PersistentTypes == TypeOK /\ TokensTypeOK /\ SavedTypeOK(saved)

LEMMA MemoryType == TypeOK /\ TokensTypeOK => SavedTypeOK(Memory)
BY DEF TypeOK, TokensTypeOK, SavedTypeOK, Memory

\* Sessions are counted in the order of the maps, of which there is a first.
LEMMA FirstSessionIsSaved ==
    ASSUME NEW s, SavedTypeOK(s), NEW m \in SavedSessions(s)
    PROVE  FirstSession(s) \in Maps
<1>1. SavedSessions(s) \subseteq Maps
  BY DEF SavedSessions, SavedPlayers, SavedTypeOK
<1>. DEFINE T == {MapRank[n] : n \in SavedSessions(s)}
<1>2. T \in SUBSET Nat /\ T # {}
  BY <1>1, RankAssumption
<1>3. \E x \in T : \A y \in T : x =< y
  BY <1>2, Least
<1>4. \E f \in SavedSessions(s) : \A n \in SavedSessions(s) : MapRank[f] =< MapRank[n]
  BY <1>3
<1>5. FirstSession(s) \in SavedSessions(s)
  BY <1>4 DEF FirstSession
<1>. QED  BY <1>1, <1>5

LEMMA RestoreType ==
    ASSUME TypeOK, NEW s, SavedTypeOK(s), Restore(s)
    PROVE  TypeOK' /\ TokensTypeOK'
<1>0. /\ MaxPlayers \in Nat /\ issued \in 0 .. MaxPlayers
      /\ \A p \in PlayerIds : p \in Nat
  BY BoundsAssumption DEF TypeOK, PlayerIds
<1>1. snapshot' \in [PlayerIds -> Nat]
  <2>1. ASSUME NEW p PROVE JoinPosition(s, p) \in Nat
    <3>1. {q \in SavedPlayers(s) : q =< p /\ s.home[q] = s.home[p]} \subseteq PlayerIds
      BY DEF SavedPlayers
    <3>. QED  BY <3>1, IdsAreFinite, FS_Subset, FS_CardinalityType DEF JoinPosition
  <2>. QED  BY <2>1 DEF Restore
<1>2. floor' \in [Maps -> SUBSET LootIds]
  <2>1. ASSUME NEW m \in Maps PROVE RestoredFloor(s, m) \in SUBSET LootIds
    BY FirstSessionIsSaved DEF RestoredFloor, SavedTypeOK
  <2>. QED  BY <2>1 DEF Restore
<1>3. /\ issued' = issued /\ playerCount' = s.playerCount /\ records' = records
      /\ pc' = "idle" /\ cursor' = 0 /\ todo' = {} /\ delta' = 0
  BY DEF Restore
<1>4. /\ uuid' = s.uuid /\ home' = s.home /\ online' = s.online
      /\ heading' = s.heading /\ moving' = s.heading /\ segment' = s.segment
      /\ idle' = s.idle /\ lootNumber' = s.lootNumber /\ visible' = s.visible
      /\ bag' = s.bag /\ score' = s.score
  BY DEF Restore
<1>5. TokensTypeOK'
  BY DEF Restore, RestoredTokens, SavedTypeOK, TokensTypeOK
<1>. QED  BY <1>0, <1>1, <1>2, <1>3, <1>4, <1>5 DEF TypeOK, SavedTypeOK

\* DogId::New never takes an identifier back.
LEMMA IssuedGrows ==
    ASSUME TypeOK, [Next]_vars
    PROVE  issued \in Nat /\ issued' \in Nat /\ issued =< issued'
<1>1. issued \in Nat /\ issued' \in Nat
  BY TypeOKNext, BoundsAssumption DEF TypeOK
<1>2. issued' = issued + 1 \/ issued' = issued
  BY DEF Next, Request, TickStep, Join, Action, BeginTick, GenerateLoot, StartMoves, SkipOffline,
         MovePlayer, RetireOk, RetireFail, EndMoves, Gather, EndGather, OfficeEvent, NoOfficeEvent,
         vars, worldVars
<1>. QED  BY <1>1, <1>2

LEMMA PersistentTypesInit == PersistentInit => PersistentTypes
BY TypeOKInit, MemoryType DEF PersistentInit, PersistentTypes, TokensTypeOK

LEMMA PersistentTypesNext ==
    PersistentTypes /\ [PersistentNext]_persistentVars => PersistentTypes'
<1>. SUFFICES ASSUME PersistentTypes, [PersistentNext]_persistentVars PROVE PersistentTypes'
  OBVIOUS
<1>0. TypeOK /\ TokensTypeOK /\ SavedTypeOK(saved) /\ SavedTypeOK(Memory)
  BY MemoryType DEF PersistentTypes
<1>1. CASE Run
  <2>1. TypeOK' /\ issued \in Nat /\ issued' \in Nat /\ issued =< issued'
    BY <1>0, <1>1, RunSteps, TypeOKNext, IssuedGrows
  <2>2. saved' = saved \/ saved' = Memory
    BY <1>1 DEF Run
  <2>3. SavedTypeOK(saved)'
    BY <1>0, <2>1, <2>2 DEF SavedTypeOK
  <2>4. TokensTypeOK'
    BY <1>0, <1>1, <2>1 DEF Run, GiveTokens, Joined, TokensTypeOK
  <2>. QED  BY <2>1, <2>3, <2>4 DEF PersistentTypes
<1>2. CASE Shutdown
  <2>1. Restore(Memory) /\ saved' = Memory
    BY <1>2 DEF Shutdown
  <2>2. TypeOK' /\ TokensTypeOK' /\ issued' = issued
    BY <1>0, <2>1, RestoreType DEF Restore
  <2>3. SavedTypeOK(saved)'
    BY <1>0, <2>1, <2>2 DEF SavedTypeOK
  <2>. QED  BY <2>2, <2>3 DEF PersistentTypes
<1>3. CASE Crash
  <2>1. Restore(saved) /\ saved' = saved
    BY <1>3 DEF Crash
  <2>2. TypeOK' /\ TokensTypeOK' /\ issued' = issued
    BY <1>0, <2>1, RestoreType DEF Restore
  <2>3. SavedTypeOK(saved)'
    BY <1>0, <2>1, <2>2 DEF SavedTypeOK
  <2>. QED  BY <2>2, <2>3 DEF PersistentTypes
<1>4. CASE UNCHANGED persistentVars
  <2>1. UNCHANGED vars /\ saved' = saved /\ issued' = issued /\ tokens' = tokens
    BY <1>4 DEF persistentVars, vars, worldVars
  <2>2. TypeOK'
    BY <1>0, <2>1, TypeOKNext
  <2>. QED  BY <1>0, <2>1, <2>2 DEF PersistentTypes, TokensTypeOK, SavedTypeOK
<1>. QED  BY <1>1, <1>2, <1>3, <1>4 DEF PersistentNext

\* Whatever is restored at whatever moment, the game is well typed and so is
\* the next file (serialization.cpp:13-114).
THEOREM PersistentTypesCorrect == PersistentSpec => []PersistentTypeOK
<1>1. PersistentTypes => PersistentTypeOK
  BY DEF PersistentTypes, TokensTypeOK, SavedTypeOK, PersistentTypeOK
<1>. QED  BY <1>1, PersistentTypesInit, PersistentTypesNext, PTL DEF PersistentSpec
-----------------------------------------------------------------------------
(* The table of records, which no restart changes.                          *)

\* What a step of the game does to the table: nothing, or one new row.
LEMMA RecordSteps ==
    ASSUME [Next]_vars
    PROVE  records' \in {records, records \cup {Row(cursor)}}
BY DEF Next, Request, TickStep, Join, Action, BeginTick, GenerateLoot, StartMoves, SkipOffline,
       MovePlayer, RetireOk, RetireFail, EndMoves, Gather, EndGather, OfficeEvent, NoOfficeEvent, vars

-----------------------------------------------------------------------------
(* Nobody is retired without a record, if the database works.  In the file  *)
(* there are players online that have been retired since; those offline     *)
(* have their rows, because rows outlive the process.                       *)

SavedRecorded(s) ==
    \A p \in SavedPlayers(s) : s.online[p] \/ \E row \in records : row.id = s.uuid[p]

RecordedInv == PersistentTypes /\ RetiredPlayersRecorded /\ SavedRecorded(saved)

\* A step of the game that touches neither ids nor who is online.
LEMMA RecordedStays ==
    ASSUME UNCHANGED <<playerCount, uuid, online>>, records \subseteq records', RetiredPlayersRecorded
    PROVE  RetiredPlayersRecorded'
BY DEF RetiredPlayersRecorded, Recorded, Joined

LEMMA RecordsGrow == ASSUME [Next]_vars PROVE records \subseteq records'
BY RecordSteps

LEMMA RecordedNext ==
    ASSUME ~DbMayFail, TypeOK, RetiredPlayersRecorded, [Next]_vars
    PROVE  RetiredPlayersRecorded'
<1>0. records \subseteq records'
  BY RecordsGrow
<1>1. ASSUME NEW m \in Maps, Join(m) PROVE RetiredPlayersRecorded'
  <2>1. /\ playerCount' = playerCount + 1
        /\ uuid' = [uuid EXCEPT ![playerCount] = issued]
        /\ online' = [online EXCEPT ![playerCount] = TRUE]
    BY <1>1 DEF Join
  <2>2. ASSUME NEW p \in Joined' PROVE online'[p] \/ Recorded(p)'
    <3>1. p \in PlayerIds /\ p \in Int /\ p < playerCount + 1 /\ playerCount \in Int
      BY <2>1 DEF Joined, PlayerIds, TypeOK
    <3>2. CASE p = playerCount
      BY <2>1, <3>1, <3>2 DEF TypeOK
    <3>3. CASE p # playerCount
      <4>1. p \in Joined
        BY <3>1, <3>3 DEF Joined
      <4>2. online'[p] = online[p] /\ uuid'[p] = uuid[p]
        BY <2>1, <3>1, <3>3 DEF TypeOK
      <4>. QED  BY <1>0, <4>1, <4>2 DEF RetiredPlayersRecorded, Recorded
    <3>. QED  BY <3>2, <3>3
  <2>. QED  BY <2>2 DEF RetiredPlayersRecorded
<1>2. ASSUME RetireOk \/ RetireFail PROVE RetiredPlayersRecorded'
  <2>1. /\ UNCHANGED <<playerCount, uuid>>
        /\ online' = [online EXCEPT ![cursor] = FALSE]
    BY <1>2 DEF RetireOk, RetireFail, worldVars
  <2>2. \E row \in records' : row.id = uuid[cursor]
    <3>1. CASE Recorded(cursor)
      BY <1>0, <3>1 DEF Recorded
    <3>2. CASE ~Recorded(cursor)
      <4>1. records' = records \cup {Row(cursor)}
        BY <1>2, <3>2 DEF RetireOk, RetireFail
      <4>2. Row(cursor) \in records' /\ Row(cursor).id = uuid[cursor]
        BY <4>1 DEF Row
      <4>. QED  BY <4>2
    <3>. QED  BY <3>1, <3>2
  <2>3. ASSUME NEW p \in Joined' PROVE online'[p] \/ Recorded(p)'
    <3>1. p \in Joined /\ p \in PlayerIds
      BY <2>1 DEF Joined
    <3>2. p # cursor => online'[p] = online[p]
      BY <2>1, <3>1 DEF TypeOK
    <3>. QED  BY <1>0, <2>1, <2>2, <3>1, <3>2 DEF RetiredPlayersRecorded, Recorded
  <2>. QED  BY <2>3 DEF RetiredPlayersRecorded
<1>3. CASE UNCHANGED <<playerCount, uuid, online>>
  BY <1>0, <1>3, RecordedStays
<1>4. \/ UNCHANGED <<playerCount, uuid, online>> \/ (\E m \in Maps : Join(m))
      \/ RetireOk \/ RetireFail
  BY DEF Next, Request, TickStep, Action, BeginTick, GenerateLoot, StartMoves, SkipOffline,
         MovePlayer, EndMoves, Gather, EndGather, OfficeEvent, NoOfficeEvent, vars, worldVars, dogVars
<1>. QED  BY <1>1, <1>2, <1>3, <1>4

LEMMA RecordedRestore ==
    ASSUME NEW s, Restore(s), SavedRecorded(s)
    PROVE  RetiredPlayersRecorded' /\ records' = records
<1>1. playerCount' = s.playerCount /\ uuid' = s.uuid /\ online' = s.online /\ records' = records
  BY DEF Restore
<1>. QED  BY <1>1 DEF SavedRecorded, SavedPlayers, RetiredPlayersRecorded, Recorded, Joined

LEMMA RecordedInvInit == PersistentInit => RecordedInv
<1>1. Init => RetiredPlayersRecorded
  BY DEF Init, RetiredPlayersRecorded, Joined, PlayerIds
<1>2. RetiredPlayersRecorded => SavedRecorded(Memory)
  BY DEF RetiredPlayersRecorded, SavedRecorded, Memory, SavedPlayers, Joined, Recorded
<1>. QED  BY <1>1, <1>2, PersistentTypesInit DEF PersistentInit, RecordedInv

LEMMA RecordedInvNext ==
    ~DbMayFail /\ RecordedInv /\ [PersistentNext]_persistentVars => RecordedInv'
<1>. SUFFICES ASSUME ~DbMayFail, RecordedInv, [PersistentNext]_persistentVars PROVE RecordedInv'
  OBVIOUS
<1>0. PersistentTypes' /\ TypeOK /\ RetiredPlayersRecorded /\ SavedRecorded(saved)
  BY PersistentTypesNext DEF RecordedInv, PersistentTypes
<1>1. SavedRecorded(Memory)
  BY <1>0 DEF RetiredPlayersRecorded, SavedRecorded, Memory, SavedPlayers, Joined, Recorded
<1>2. ASSUME records \subseteq records', saved' \in {saved, Memory}
      PROVE  SavedRecorded(saved)'
  BY <1>0, <1>1, <1>2 DEF SavedRecorded, SavedPlayers
<1>3. CASE Run
  <2>1. RetiredPlayersRecorded' /\ records \subseteq records'
    BY <1>0, <1>3, RunSteps, RecordedNext, RecordsGrow
  <2>2. saved' \in {saved, Memory}
    BY <1>3 DEF Run
  <2>. QED  BY <1>0, <1>2, <2>1, <2>2 DEF RecordedInv
<1>4. CASE Shutdown
  <2>1. Restore(Memory) /\ saved' = Memory
    BY <1>4 DEF Shutdown
  <2>2. RetiredPlayersRecorded' /\ records' = records
    BY <1>1, <2>1, RecordedRestore
  <2>. QED  BY <1>0, <1>2, <2>1, <2>2 DEF RecordedInv
<1>5. CASE Crash
  <2>1. Restore(saved) /\ saved' = saved
    BY <1>5 DEF Crash
  <2>2. RetiredPlayersRecorded' /\ records' = records
    BY <1>0, <2>1, RecordedRestore
  <2>. QED  BY <1>0, <1>2, <2>1, <2>2 DEF RecordedInv
<1>6. CASE UNCHANGED persistentVars
  <2>1. UNCHANGED <<playerCount, uuid, online, records, saved>>
    BY <1>6 DEF persistentVars, vars, worldVars, dogVars
  <2>2. RetiredPlayersRecorded'
    BY <1>0, <2>1, RecordedStays
  <2>. QED  BY <1>0, <1>2, <2>1, <2>2 DEF RecordedInv
<1>. QED  BY <1>3, <1>4, <1>5, <1>6 DEF PersistentNext

\* With a database that works, whoever has been retired has a row, also when the
\* process died between the row and the next save, or between two saves
\* (application.h:118-132, serialization.cpp:53-62).
THEOREM RetiredStayRecorded ==
    ASSUME ~DbMayFail
    PROVE  PersistentSpec => []RetiredPlayersRecorded
<1>1. RecordedInv => RetiredPlayersRecorded
  BY DEF RecordedInv
<1>2. RecordedInv /\ [PersistentNext]_persistentVars => RecordedInv'
  BY RecordedInvNext
<1>. QED  BY <1>1, <1>2, RecordedInvInit, PTL DEF PersistentSpec
-----------------------------------------------------------------------------
(* A clean shutdown of a server with one map.  The copies that the players  *)
(* have of the session count the dogs up to their own, as if all of them    *)
(* had joined in a row, and loot lies in sessions only.                     *)

OneMap == \A m \in Maps, n \in Maps : m = n

CopiesInOrder ==
    snapshot = [p \in PlayerIds |-> IF p \in Joined THEN JoinPosition(Memory, p) ELSE 0]

LootInSessions ==
    /\ \A m \in Maps : m \notin Sessions => floor[m] = {}
    /\ todo \subseteq Sessions

KeptInv == PersistentTypes /\ CopiesInOrder /\ LootInSessions

\* The dogs a player counted are those that joined its session before it.
LEMMA PositionInMemory ==
    ASSUME NEW p
    PROVE  JoinPosition(Memory, p) = Cardinality({q \in Joined : q =< p /\ home[q] = home[p]})
BY DEF JoinPosition, SavedPlayers, Memory, Joined

LEMMA CopiesStay ==
    ASSUME UNCHANGED <<playerCount, home, snapshot>>, CopiesInOrder
    PROVE  CopiesInOrder'
<1>1. Joined' = Joined
  BY DEF Joined
<1>2. \A p : JoinPosition(Memory, p)' = JoinPosition(Memory, p)
  BY <1>1, PositionInMemory DEF JoinPosition, SavedPlayers, Memory
<1>. QED  BY <1>1, <1>2 DEF CopiesInOrder

\* A join does not change what the players before it counted, and the new copy
\* counts the dogs of the session and the player's own.
LEMMA CopiesAfterJoin ==
    ASSUME TypeOK, CopiesInOrder, NEW m \in Maps, Join(m)
    PROVE  CopiesInOrder'
<1>1. /\ playerCount' = playerCount + 1
      /\ home' = [home EXCEPT ![playerCount] = m]
      /\ snapshot' = [snapshot EXCEPT ![playerCount] = Dogs(m) + 1]
  BY DEF Join
<1>2. /\ playerCount \in Nat /\ playerCount \in PlayerIds
      /\ \A p \in PlayerIds : p \in Nat
  BY BoundsAssumption DEF Join, TypeOK, PlayerIds
<1>3. Joined' = Joined \cup {playerCount} /\ playerCount \notin Joined
  <2>1. \A n \in Nat, k \in Nat : n < k + 1 <=> n < k \/ n = k
    OBVIOUS
  <2>2. \A p \in PlayerIds : p < playerCount' <=> p < playerCount \/ p = playerCount
    BY <1>1, <1>2, <2>1, Zenon
  <2>3. \A p : p \in Joined' <=> p \in Joined \/ p = playerCount
    BY <1>2, <2>2, Zenon DEF Joined
  <2>4. ~(playerCount < playerCount)
    BY <1>2
  <2>5. playerCount \notin Joined
    BY <2>4, Zenon DEF Joined
  <2>. QED  BY <2>3, <2>5, Zenon
<1>4. /\ home'[playerCount] = m
      /\ \A q \in PlayerIds \ {playerCount} : home'[q] = home[q]
  BY <1>1, <1>2 DEF TypeOK
<1>. DEFINE Before(p) == {q \in Joined : q =< p /\ home[q] = home[p]}
<1>. DEFINE BeforeNow(p) == {q \in Joined' : q =< p /\ home'[q] = home'[p]}
<1>5. \A p \in PlayerIds : JoinPosition(Memory, p) = Cardinality(Before(p))
  BY PositionInMemory
<1>6. \A p \in PlayerIds : JoinPosition(Memory, p)' = Cardinality(BeforeNow(p))
  BY DEF JoinPosition, SavedPlayers, Memory, Joined
<1>7. ASSUME NEW p \in Joined PROVE BeforeNow(p) = Before(p)
  <2>1. p \in PlayerIds /\ p \in Nat /\ p < playerCount
    BY <1>2 DEF Joined
  <2>2. \A q \in Joined : q \in PlayerIds /\ q # playerCount
    BY <1>3 DEF Joined
  <2>3. home'[p] = home[p]
    BY <1>4, <2>1, <1>2
  <2>4. ~(playerCount =< p)
    BY <1>2, <2>1
  <2>. QED  BY <1>3, <1>4, <2>2, <2>3, <2>4
<1>8. BeforeNow(playerCount) = Residents(m) \cup {playerCount}
  <2>1. \A q \in Joined : q \in PlayerIds /\ q # playerCount /\ q =< playerCount
    BY <1>2 DEF Joined
  <2>2. playerCount =< playerCount
    BY <1>2
  <2>. QED  BY <1>3, <1>4, <2>1, <2>2 DEF Residents
<1>9. Cardinality(BeforeNow(playerCount)) = Dogs(m) + 1
  <2>1. Residents(m) \subseteq PlayerIds /\ playerCount \notin Residents(m)
    BY <1>3 DEF Residents, Joined
  <2>2. IsFiniteSet(Residents(m))
    BY <2>1, IdsAreFinite, FS_Subset
  <2>. QED  BY <1>8, <2>1, <2>2, FS_AddElement DEF Dogs
<1>. HIDE DEF Before, BeforeNow
<1>10. ASSUME NEW p \in PlayerIds
       PROVE  snapshot'[p] = IF p \in Joined' THEN JoinPosition(Memory, p)' ELSE 0
  <2>1. CASE p = playerCount
    BY <1>1, <1>2, <1>3, <1>6, <1>9, <2>1 DEF TypeOK
  <2>2. CASE p # playerCount
    <3>1. snapshot'[p] = IF p \in Joined THEN JoinPosition(Memory, p) ELSE 0
      BY <1>1, <2>2 DEF CopiesInOrder, TypeOK
    <3>. QED  BY <1>3, <1>5, <1>6, <1>7, <2>2, <3>1
  <2>. QED  BY <2>1, <2>2
<1>11. snapshot' \in [PlayerIds -> Nat]
  BY TypeOKNext DEF Next, Request, TypeOK
<1>. QED  BY <1>10, <1>11 DEF CopiesInOrder

LEMMA CopiesNext == ASSUME TypeOK, CopiesInOrder, [Next]_vars PROVE CopiesInOrder'
<1>1. UNCHANGED <<playerCount, home, snapshot>> \/ (\E m \in Maps : Join(m))
  BY DEF Next, Request, TickStep, Action, BeginTick, GenerateLoot, StartMoves, SkipOffline,
         MovePlayer, RetireOk, RetireFail, EndMoves, Gather, EndGather, OfficeEvent, NoOfficeEvent,
         vars, worldVars
<1>. QED  BY <1>1, CopiesStay, CopiesAfterJoin
LEMMA CopiesAfterRestore ==
    ASSUME NEW s, Restore(s)
    PROVE  CopiesInOrder'
<1>1. playerCount' = s.playerCount /\ home' = s.home
  BY DEF Restore
<1>2. snapshot' = [p \in PlayerIds |-> IF p \in SavedPlayers(s) THEN JoinPosition(s, p) ELSE 0]
  BY DEF Restore
<1>3. Joined' = SavedPlayers(s)
  BY <1>1 DEF Joined, SavedPlayers
<1>4. \A p : JoinPosition(Memory, p)' = JoinPosition(s, p)
  BY <1>1 DEF JoinPosition, SavedPlayers, Memory
<1>. QED  BY <1>2, <1>3, <1>4 DEF CopiesInOrder

\* Loot comes to sessions, and sessions do not end.
LEMMA LootInSessionsNext ==
    ASSUME TypeOK, LootInSessions, [Next]_vars
    PROVE  LootInSessions'
<1>1. CASE UNCHANGED <<playerCount, home, floor>> /\ todo' \subseteq todo \cup Sessions
  <2>1. Sessions' = Sessions
    BY <1>1 DEF Sessions, Joined
  <2>. QED  BY <1>1, <2>1 DEF LootInSessions
<1>2. ASSUME NEW m \in Maps, Join(m) PROVE LootInSessions'
  <2>1. /\ playerCount' = playerCount + 1
        /\ home' = [home EXCEPT ![playerCount] = m]
        /\ UNCHANGED <<floor, todo>>
    BY <1>2 DEF Join, lootVars, tickVars
  <2>2. \A p \in Joined : p \in Joined' /\ home'[p] = home[p]
    <3>1. playerCount \in Nat /\ \A p \in PlayerIds : p \in Nat
      BY DEF TypeOK, PlayerIds
    <3>. QED  BY <2>1, <3>1 DEF Joined, TypeOK
  <2>3. Sessions \subseteq Sessions'
    BY <2>2 DEF Sessions
  <2>. QED  BY <2>1, <2>3 DEF LootInSessions
<1>3. ASSUME NEW m \in Maps, GenerateLoot(m) PROVE LootInSessions'
  <2>1. PICK spawned \in SUBSET LootIds : floor' = [floor EXCEPT ![m] = @ \cup spawned]
    BY <1>3, SpawnEffect
  <2>2. m \in todo /\ todo' = todo \ {m} /\ UNCHANGED <<playerCount, home>>
    BY <1>3 DEF GenerateLoot, worldVars
  <2>3. Sessions' = Sessions
    BY <2>2 DEF Sessions, Joined
  <2>. QED  BY <2>1, <2>2, <2>3 DEF LootInSessions, TypeOK
<1>4. ASSUME NEW p \in PlayerIds, NEW l \in LootIds, NEW m \in Maps, Gather(p, l, m)
      PROVE  LootInSessions'
  <2>1. floor' = [floor EXCEPT ![m] = @ \ {l}] /\ UNCHANGED <<playerCount, home, todo>>
    BY <1>4 DEF Gather, worldVars, tickVars
  <2>2. Sessions' = Sessions
    BY <2>1 DEF Sessions, Joined
  <2>. QED  BY <2>1, <2>2 DEF LootInSessions, TypeOK
<1>5. \/ UNCHANGED <<playerCount, home, floor>> /\ todo' \subseteq todo \cup Sessions
      \/ (\E m \in Maps : Join(m) \/ GenerateLoot(m))
      \/ (\E p \in PlayerIds, l \in LootIds, m \in Maps : Gather(p, l, m))
  BY DEF Next, Request, TickStep, Action, BeginTick, StartMoves, SkipOffline, MovePlayer,
         RetireOk, RetireFail, EndMoves, EndGather, OfficeEvent, NoOfficeEvent, EndTick,
         vars, worldVars, lootVars, tickVars
<1>. QED  BY <1>1, <1>2, <1>3, <1>4, <1>5

LEMMA LootInSessionsRestored ==
    ASSUME NEW s, Restore(s)
    PROVE  LootInSessions'
<1>1. Sessions' = SavedSessions(s)
  BY DEF Restore, Sessions, Joined, SavedSessions, SavedPlayers
<1>. QED  BY <1>1 DEF Restore, RestoredFloor, LootInSessions

LEMMA KeptInvInit == PersistentInit => KeptInv
<1>. SUFFICES ASSUME PersistentInit PROVE KeptInv
  OBVIOUS
<1>1. Joined = {} /\ (\A m \in Maps : floor[m] = {}) /\ todo = {}
      /\ snapshot = [p \in PlayerIds |-> 0]
  BY DEF PersistentInit, Init, Joined, PlayerIds
<1>. QED  BY <1>1, PersistentTypesInit DEF KeptInv, CopiesInOrder, LootInSessions

LEMMA KeptInvNext == KeptInv /\ [PersistentNext]_persistentVars => KeptInv'
<1>. SUFFICES ASSUME KeptInv, [PersistentNext]_persistentVars PROVE KeptInv'
  OBVIOUS
<1>0. PersistentTypes' /\ TypeOK /\ CopiesInOrder /\ LootInSessions
  BY PersistentTypesNext DEF KeptInv, PersistentTypes
<1>1. CASE [Next]_vars
  BY <1>0, <1>1, CopiesNext, LootInSessionsNext DEF KeptInv
<1>2. ASSUME NEW s, Restore(s) PROVE KeptInv'
  BY <1>0, <1>2, CopiesAfterRestore, LootInSessionsRestored DEF KeptInv
<1>. QED  BY <1>1, <1>2, RunSteps DEF PersistentNext, Shutdown, Crash, persistentVars

\* With one map, the loot of the first session is that of the only one.
LEMMA OneFloorIsRestored ==
    ASSUME OneMap, TypeOK, TokensTypeOK, LootInSessions, NEW m \in Maps
    PROVE  RestoredFloor(Memory, m) = floor[m]
<1>1. SavedSessions(Memory) = Sessions
  BY DEF SavedSessions, SavedPlayers, Memory, Sessions, Joined
<1>2. CASE m \in Sessions
  <2>1. FirstSession(Memory) = m
    BY <1>1, <1>2, MemoryType, FirstSessionIsSaved DEF OneMap
  <2>. QED  BY <1>1, <1>2, <2>1 DEF RestoredFloor, Memory
<1>3. CASE m \notin Sessions
  BY <1>1, <1>3 DEF RestoredFloor, LootInSessions
<1>. QED  BY <1>2, <1>3

LEMMA ShutdownKeeps ==
    ASSUME OneMap, KeptInv, Shutdown
    PROVE  UNCHANGED <<worldVars, online, heading, segment, idle, lootVars, records, tokens>>
<1>0. TypeOK /\ TokensTypeOK /\ CopiesInOrder /\ LootInSessions /\ Restore(Memory)
  BY DEF KeptInv, PersistentTypes, Shutdown
<1>1. UNCHANGED <<playerCount, issued, uuid, home, online, heading, segment, idle,
                  lootNumber, visible, bag, score, records, tokens>>
  BY <1>0 DEF Restore, Memory, RestoredTokens
<1>2. snapshot' = snapshot
  <2>1. SavedPlayers(Memory) = Joined
    BY DEF SavedPlayers, Memory, Joined
  <2>. QED  BY <1>0, <2>1 DEF Restore, CopiesInOrder
<1>3. floor' = floor
  <2>1. floor' = [m \in Maps |-> floor[m]]
    BY <1>0, OneFloorIsRestored DEF Restore
  <2>. QED  BY <1>0, <2>1 DEF TypeOK
<1>. QED  BY <1>1, <1>2, <1>3 DEF worldVars, lootVars

\* A server with one map that is told to stop and started again goes on with
\* the game it had, but for the speeds: the copies of the session come back
\* though they are not saved (serialization.cpp:13-114).
THEOREM ShutdownLosesNothing ==
    ASSUME OneMap
    PROVE  PersistentSpec => ShutdownKeepsGame
<1>1. KeptInv /\ [PersistentNext]_persistentVars
        => [Shutdown => UNCHANGED <<worldVars, online, heading, segment, idle, lootVars, records, tokens>>]_persistentVars
  BY ShutdownKeeps
<1>. QED  BY <1>1, KeptInvInit, KeptInvNext, PTL DEF PersistentSpec, ShutdownKeepsGame
-----------------------------------------------------------------------------
(* Tokens.  In the game and in the file each player has the token that was  *)
(* drawn when it joined, and the numbers of joins are not used again.       *)

TokensOf(n, ids) == {[token |-> ids[p], player |-> p] : p \in {q \in PlayerIds : q < n}}

JoinNumbers(n, ids) ==
    \A p \in {r \in PlayerIds : r < n}, q \in {r \in PlayerIds : r < n} :
        ids[p] < issued /\ (ids[p] = ids[q] => p = q)

TokensMatch(n, ids, given) == given = TokensOf(n, ids) /\ JoinNumbers(n, ids)

TokensInv ==
    /\ PersistentTypes
    /\ TokensMatch(playerCount, uuid, tokens)
    /\ TokensMatch(saved.playerCount, saved.uuid, saved.tokens)

\* A join draws a token and gives it to the new player.
LEMMA TokensAfterJoin ==
    ASSUME TypeOK, TokensMatch(playerCount, uuid, tokens), NEW m \in Maps, Join(m), GiveTokens
    PROVE  TokensMatch(playerCount, uuid, tokens)'
<1>0. /\ playerCount \in Nat /\ issued \in Nat /\ MaxPlayers \in Nat
      /\ playerCount =< issued /\ issued < MaxPlayers
      /\ \A p \in PlayerIds : p \in Nat
  BY BoundsAssumption DEF TypeOK, PlayerIds, Join
<1>1. /\ playerCount' = playerCount + 1 /\ issued' = issued + 1
      /\ uuid' = [uuid EXCEPT ![playerCount] = issued]
  BY DEF Join
<1>2. playerCount \in PlayerIds
  BY <1>0 DEF PlayerIds
<1>3. Joined' = Joined \cup {playerCount} /\ playerCount \notin Joined
  <2>1. \A p \in PlayerIds : p < playerCount + 1 <=> p < playerCount \/ p = playerCount
    BY <1>0
  <2>2. Joined' = {p \in PlayerIds : p < playerCount + 1}
    BY <1>1 DEF Joined
  <2>3. ~(playerCount < playerCount)
    BY <1>0
  <2>. QED  BY <1>2, <2>1, <2>2, <2>3 DEF Joined
<1>4. uuid'[playerCount] = issued /\ \A p \in Joined : uuid'[p] = uuid[p] /\ uuid[p] \in Nat
  BY <1>1, <1>2, <1>3 DEF TypeOK, Joined
<1>5. tokens = {[token |-> uuid[p], player |-> p] : p \in Joined}
  BY DEF TokensMatch, TokensOf, Joined
<1>6. tokens' = tokens \cup {[token |-> issued, player |-> playerCount]}
  BY <1>3 DEF GiveTokens
<1>7. tokens' = {[token |-> uuid'[p], player |-> p] : p \in Joined'}
  BY <1>3, <1>4, <1>5, <1>6
<1>8. JoinNumbers(playerCount, uuid)'
  <2>1. \A p \in Joined, q \in Joined : uuid[p] < issued /\ (uuid[p] = uuid[q] => p = q)
    BY DEF TokensMatch, JoinNumbers, Joined
  <2>2. ASSUME NEW p \in Joined', NEW q \in Joined'
        PROVE  uuid'[p] < issued' /\ (uuid'[p] = uuid'[q] => p = q)
    BY <1>0, <1>1, <1>3, <1>4, <2>1, <2>2
  <2>. QED  BY <2>2 DEF JoinNumbers, Joined
<1>. QED  BY <1>7, <1>8 DEF TokensMatch, TokensOf, Joined

LEMMA TokensAfterRun ==
    ASSUME TypeOK, TokensMatch(playerCount, uuid, tokens), Next, GiveTokens
    PROVE  TokensMatch(playerCount, uuid, tokens)'
<1>1. CASE UNCHANGED <<playerCount, issued, uuid>>
  <2>1. Joined' = Joined
    BY <1>1 DEF Joined
  <2>2. tokens' = tokens
    BY <2>1 DEF GiveTokens
  <2>. QED  BY <1>1, <2>2 DEF TokensMatch, TokensOf, JoinNumbers
<1>2. UNCHANGED <<playerCount, issued, uuid>> \/ (\E m \in Maps : Join(m))
  BY DEF Next, Request, TickStep, Action, BeginTick, GenerateLoot, StartMoves, SkipOffline,
         MovePlayer, RetireOk, RetireFail, EndMoves, Gather, EndGather, OfficeEvent, NoOfficeEvent, worldVars
<1>. QED  BY <1>1, <1>2, TokensAfterJoin

LEMMA TokensAfterRestore ==
    ASSUME NEW s, Restore(s), TokensMatch(s.playerCount, s.uuid, s.tokens)
    PROVE  TokensMatch(playerCount, uuid, tokens)' /\ issued' = issued
<1>1. playerCount' = s.playerCount /\ uuid' = s.uuid /\ tokens' = s.tokens /\ issued' = issued
  BY DEF Restore, RestoredTokens
<1>. QED  BY <1>1 DEF TokensMatch, TokensOf, JoinNumbers

LEMMA TokensInvInit == PersistentInit => TokensInv
<1>. SUFFICES ASSUME PersistentInit PROVE TokensInv
  OBVIOUS
<1>1. playerCount = 0 /\ tokens = {} /\ {q \in PlayerIds : q < 0} = {}
  BY DEF PersistentInit, Init, PlayerIds
<1>2. TokensMatch(playerCount, uuid, tokens)
  BY <1>1 DEF TokensMatch, TokensOf, JoinNumbers
<1>3. saved.playerCount = playerCount /\ saved.uuid = uuid /\ saved.tokens = tokens
  BY DEF PersistentInit, Memory
<1>. QED  BY <1>2, <1>3, PersistentTypesInit DEF TokensInv

LEMMA TokensInvNext == TokensInv /\ [PersistentNext]_persistentVars => TokensInv'
<1>. SUFFICES ASSUME TokensInv, [PersistentNext]_persistentVars PROVE TokensInv'
  OBVIOUS
<1>0. /\ PersistentTypes' /\ TypeOK /\ SavedTypeOK(saved)
      /\ TokensMatch(playerCount, uuid, tokens)
      /\ TokensMatch(saved.playerCount, saved.uuid, saved.tokens)
  BY PersistentTypesNext DEF TokensInv, PersistentTypes
<1>1. ASSUME saved' \in {saved, Memory}, issued \in Nat, issued' \in Nat, issued =< issued'
      PROVE  TokensMatch(saved.playerCount, saved.uuid, saved.tokens)'
  <2>1. CASE saved' = saved
    <3>1. saved.uuid \in [PlayerIds -> Nat]
      BY <1>0 DEF SavedTypeOK
    <3>. QED  BY <1>0, <1>1, <2>1, <3>1 DEF TokensMatch, TokensOf, JoinNumbers
  <2>2. CASE saved' = Memory
    <3>1. saved'.playerCount = playerCount /\ saved'.uuid = uuid /\ saved'.tokens = tokens
      BY <2>2 DEF Memory
    <3>2. uuid \in [PlayerIds -> Nat]
      BY <1>0 DEF TypeOK
    <3>. QED  BY <1>0, <1>1, <3>1, <3>2 DEF TokensMatch, TokensOf, JoinNumbers
  <2>. QED  BY <1>1, <2>1, <2>2
<1>2. issued \in Nat
  BY <1>0 DEF TypeOK
<1>3. CASE Run
  <2>1. issued' \in Nat /\ issued =< issued'
    BY <1>0, <1>3, RunSteps, IssuedGrows
  <2>2. saved' \in {saved, Memory} /\ GiveTokens
    BY <1>3 DEF Run
  <2>. QED  BY <1>0, <1>1, <1>2, <1>3, <2>1, <2>2, RunSteps, TokensAfterRun DEF TokensInv
<1>4. CASE Shutdown
  <2>1. Restore(Memory) /\ saved' = Memory
    BY <1>4 DEF Shutdown
  <2>2. Memory.playerCount = playerCount /\ Memory.uuid = uuid /\ Memory.tokens = tokens
    BY DEF Memory
  <2>3. TokensMatch(playerCount, uuid, tokens)' /\ issued' = issued
    BY <1>0, <2>1, <2>2, TokensAfterRestore
  <2>. QED  BY <1>0, <1>1, <1>2, <2>1, <2>3 DEF TokensInv
<1>5. CASE Crash
  <2>1. Restore(saved) /\ saved' = saved
    BY <1>5 DEF Crash
  <2>2. TokensMatch(playerCount, uuid, tokens)' /\ issued' = issued
    BY <1>0, <2>1, TokensAfterRestore
  <2>. QED  BY <1>0, <1>1, <1>2, <2>1, <2>2 DEF TokensInv
<1>6. CASE UNCHANGED persistentVars
  <2>1. UNCHANGED <<playerCount, issued, uuid, tokens, saved>>
    BY <1>6 DEF persistentVars, vars, worldVars
  <2>. QED  BY <1>0, <2>1 DEF TokensInv, TokensMatch, TokensOf, JoinNumbers
<1>. QED  BY <1>3, <1>4, <1>5, <1>6 DEF PersistentNext

\* After any crashes and restarts a token leads to the dog it was given for, and
\* the token of a join that was lost leads nowhere, though another player now
\* has its place (player.h:60-63, serialization.cpp:65-70).
THEOREM TokensFindTheirs == PersistentSpec => []TokensFindTheirDogs
<1>1. TokensInv => TokensFindTheirDogs
  BY DEF TokensInv, TokensMatch, TokensOf, JoinNumbers, TokensFindTheirDogs, Joined
<1>. QED  BY <1>1, TokensInvInit, TokensInvNext, PTL DEF PersistentSpec
=============================================================================
