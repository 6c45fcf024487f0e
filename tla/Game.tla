------------------------------- MODULE Game --------------------------------
(***************************************************************************)
(* The game world: sessions, players, dogs and loot, with the requests     *)
(* that change it (join, player action) and the tick that advances it.     *)
(*                                                                         *)
(* Requests and ticks run on one strand (request_handler.h:121-135 and     *)
(* 44-75), so a request is atomic and is taken between two ticks.  The     *)
(* tick is split into the steps of Application::Tick (application.h:30-174,*)
(* repeated in RequestHandler::UpdateGameState, request_handler.cpp:540)   *)
(* because an exception of the database leaves it halfway, with what it    *)
(* changed so far kept: Ticker::OnTick swallows the exception.             *)
(*                                                                         *)
(* Abstracted: positions.  Of a dog's position the game uses the segment   *)
(* [start_coords_, coords_] of the last tick, and only a dog whose segment *)
(* is not a point gathers (collision_detector.cpp:27), so a dog keeps the  *)
(* bit segment[p]; which loot or office a segment meets is left open.      *)
(* Abstracted: the clock.  idle[p] is current_time_ - last_activity_,      *)
(* counted up to the retirement time.                                      *)
(***************************************************************************)
EXTENDS Naturals, FiniteSets

CONSTANTS
    Maps,            \* the maps of the configuration file
    NoMap,           \* the home of a player that has not joined
    MaxPlayers,      \* bound: players that ever join
    MaxLoot,         \* bound: loot objects generated
    BagCapacity,     \* bag capacity of the dogs of a map
    RetirementTime,  \* dogRetirementTime, in units of the clock
    Deltas,          \* durations of a tick, in units of the clock
    DbMayFail        \* whether inserting a record may throw

ASSUME MapsAssumption == IsFiniteSet(Maps) /\ NoMap \notin Maps
ASSUME BoundsAssumption == MaxPlayers \in Nat /\ MaxLoot \in Nat
ASSUME BagAssumption == BagCapacity \in [Maps -> Nat]
ASSUME TimeAssumption == RetirementTime \in Nat \ {0} /\ Deltas \subseteq Nat
ASSUME DbAssumption == DbMayFail \in BOOLEAN

PlayerIds == 0 .. MaxPlayers - 1
LootIds == 0 .. MaxLoot - 1

VARIABLES
    playerCount,  \* Players::ids_: ids are given in order of joining
    issued,       \* how many identifiers DogId::New gave out
    uuid,         \* Dog::uuid_
    home,         \* the map whose session a player joined
    snapshot,     \* dogs_.size() of the copy of the session a Player keeps
    online,       \* Player::online_
    heading,      \* Dog::dir_ is one of L, R, U, D
    moving,       \* Dog::speed_ is not zero
    segment,      \* the dog changed place in the last tick it took part in
    idle,         \* Dog::current_time_ - Dog::last_activity_, capped
    lootNumber,   \* Game::loot_number_: ids are given in order of spawning
    floor,        \* GameSession::loot_objects_, per map
    visible,      \* the loot whose LootObject::visible_ is TRUE
    bag,          \* Dog::bag_
    score,        \* the AddValue calls so far: the loot, the map pricing it
    records,      \* the rows of retired_players
    pc,           \* where the tick is; "idle" between two ticks
    cursor,       \* index of the player the movement loop is at
    todo,         \* sessions that still generate loot in this tick
    delta         \* duration of this tick

worldVars == <<playerCount, issued, uuid, home, snapshot>>
dogVars == <<online, heading, moving, segment, idle>>
lootVars == <<lootNumber, floor, visible, bag, score>>
tickVars == <<pc, cursor, todo, delta>>
vars == <<worldVars, dogVars, lootVars, records, tickVars>>

Joined == {p \in PlayerIds : p < playerCount}
Residents(m) == {p \in Joined : home[p] = m}

\* GameSession::dogs_.size(), which is also GetNumberOfPlayers(): retired_
\* is only ever incremented on copies of the session (application.h:122).
Dogs(m) == Cardinality(Residents(m))

\* Game::sessions_: a session is started by the first join of its map.
Sessions == {home[p] : p \in Joined}
-----------------------------------------------------------------------------
Init ==
    /\ playerCount = 0
    /\ issued = 0
    /\ uuid = [p \in PlayerIds |-> 0]
    /\ home = [p \in PlayerIds |-> NoMap]
    /\ snapshot = [p \in PlayerIds |-> 0]
    /\ online = [p \in PlayerIds |-> FALSE]
    /\ heading = [p \in PlayerIds |-> FALSE]
    /\ moving = [p \in PlayerIds |-> FALSE]
    /\ segment = [p \in PlayerIds |-> FALSE]
    /\ idle = [p \in PlayerIds |-> 0]
    /\ lootNumber = 0
    /\ floor = [m \in Maps |-> {}]
    /\ visible = {}
    /\ bag = [p \in PlayerIds |-> {}]
    /\ score = [p \in PlayerIds |-> {}]
    /\ records = {}
    /\ pc = "idle"
    /\ cursor = 0
    /\ todo = {}
    /\ delta = 0

-----------------------------------------------------------------------------
(* Slips that the code could contain and does not: each takes the place of *)
(* the definition it is a variation of, to see that a property notices.    *)

\* The objects on the floor are left out of the count.
ShortageForgetsFloor(m, n) == n =< Dogs(m)

\* The continue of the loop comes before its increment.
SkipOfflineForEver ==
    /\ pc = "move"
    /\ cursor < playerCount
    /\ ~online[cursor]
    /\ UNCHANGED vars

\* The clock of the dog is not refreshed.
IdleClockStands(p) == IF moving[p] THEN 0 ELSE idle[p]

\* SetPosition leaves start_coords_ behind when the dog does not move.
SegmentLeftBehind(p) ==
    {outcome \in [moving : BOOLEAN, segment : BOOLEAN] :
        IF moving[p] /\ delta > 0
        THEN outcome.moving => outcome.segment
        ELSE outcome = [moving |-> moving[p], segment |-> segment[p]]}

GatherChanges(p, l, m) ==
    /\ bag' = [bag EXCEPT ![p] = @ \cup {l}]
    /\ visible' = visible \ {l}
    /\ floor' = [floor EXCEPT ![m] = @ \ {l}]
    /\ UNCHANGED <<worldVars, dogVars, lootNumber, score, records, tickVars>>

\* DeleteLootObject is not called.
GatherLeavesOnFloor(p, l, m) ==
    /\ pc = "gather"
    /\ segment[p]
    /\ l \in floor[m]
    /\ Cardinality(bag[p]) < BagCapacity[home[p]]
    /\ bag' = [bag EXCEPT ![p] = @ \cup {l}]
    /\ visible' = visible \ {l}
    /\ UNCHANGED <<worldVars, dogVars, lootNumber, floor, score, records, tickVars>>

\* SetInvisible is not called.
GatherLeavesVisible(p, l, m) ==
    /\ pc = "gather"
    /\ segment[p]
    /\ l \in floor[m]
    /\ Cardinality(bag[p]) < BagCapacity[home[p]]
    /\ bag' = [bag EXCEPT ![p] = @ \cup {l}]
    /\ floor' = [floor EXCEPT ![m] = @ \ {l}]
    /\ UNCHANGED <<worldVars, dogVars, lootNumber, visible, score, records, tickVars>>

\* A later event of the tick takes what an earlier one has taken.
GatherWhatIsGone(p, l, m) ==
    /\ pc = "gather"
    /\ segment[p]
    /\ l < lootNumber
    /\ Cardinality(bag[p]) < BagCapacity[home[p]]
    /\ GatherChanges(p, l, m)

\* The row has the number of the dog in place of its uuid.
RowOfNumber(p) == [id |-> p, score |-> score[p]]
-----------------------------------------------------------------------------
\* A player joins map m.  The session gets the dog first and the Player
\* copies the session then, so the copy counts the player's own dog.  A new
\* dog faces up and has no speed.
Join(m) ==
    /\ pc = "idle"
    /\ issued < MaxPlayers
    /\ playerCount' = playerCount + 1
    /\ issued' = issued + 1
    /\ uuid' = [uuid EXCEPT ![playerCount] = issued]
    /\ home' = [home EXCEPT ![playerCount] = m]
    /\ snapshot' = [snapshot EXCEPT ![playerCount] = Dogs(m) + 1]
    /\ online' = [online EXCEPT ![playerCount] = TRUE]
    /\ heading' = [heading EXCEPT ![playerCount] = TRUE]
    /\ UNCHANGED <<moving, segment, idle, lootVars, records, tickVars>>

\* The request that sets a dog's direction: go stands for L, R, U or D, any
\* other text stops the dog.  The clock of activity is not touched here.
Action(p, go) ==
    /\ pc = "idle"
    /\ online[p]
    /\ heading' = [heading EXCEPT ![p] = go]
    /\ moving' = [moving EXCEPT ![p] = go]
    /\ UNCHANGED <<worldVars, online, segment, idle, lootVars, records, tickVars>>
-----------------------------------------------------------------------------
(* The tick.                                                               *)

BeginTick(d) ==
    /\ pc = "idle"
    /\ pc' = "generate"
    /\ todo' = Sessions
    /\ delta' = d
    /\ UNCHANGED <<worldVars, dogVars, lootVars, records, cursor>>

\* A session asks the generator for at most what its dogs lack.
EnoughLoot(m, n) == n = 0 \/ Cardinality(floor[m]) + n =< Dogs(m)

\* Game::GenerateLoot for the session of m; the ids continue loot_number_.
GenerateLoot(m) ==
    /\ pc = "generate"
    /\ m \in todo
    /\ \E n \in 0 .. MaxLoot - lootNumber :
        LET spawned == {l \in LootIds : lootNumber =< l /\ l < lootNumber + n} IN
        /\ EnoughLoot(m, n)
        /\ lootNumber' = lootNumber + n
        /\ floor' = [floor EXCEPT ![m] = @ \cup spawned]
        /\ visible' = visible \cup spawned
    /\ todo' = todo \ {m}
    /\ UNCHANGED <<worldVars, dogVars, bag, score, records, pc, cursor, delta>>

StartMoves ==
    /\ pc = "generate"
    /\ todo = {}
    /\ pc' = "move"
    /\ cursor' = 0
    /\ UNCHANGED <<worldVars, dogVars, lootVars, records, todo, delta>>

SkipOffline ==
    /\ pc = "move"
    /\ cursor < playerCount
    /\ ~online[cursor]
    /\ cursor' = cursor + 1
    /\ UNCHANGED <<worldVars, dogVars, lootVars, records, pc, todo, delta>>

\* Dog::RefreshTime and then Dog::GetRetirementTime, whose value is counted
\* from the last tick the dog had a speed.
IdleAfter(p) ==
    IF moving[p] THEN 0
    ELSE IF idle[p] + delta < RetirementTime THEN idle[p] + delta
    ELSE RetirementTime

\* What the road loop can do with a dog, as its speed and its segment after
\* it: a dog with a speed runs on, runs into the end of the road or is at the
\* end already; the others, and all of them if no time passed, stay.
Outcomes(p) ==
    {outcome \in [moving : BOOLEAN, segment : BOOLEAN] :
        IF moving[p] /\ delta > 0
        THEN outcome.moving => outcome.segment
        ELSE outcome.moving = moving[p] /\ ~outcome.segment}

\* Dog::Stop if the road ended, then Dog::SetPosition.
SetPosition(p) ==
    \E outcome \in Outcomes(p) :
        /\ moving' = [moving EXCEPT ![p] = outcome.moving]
        /\ segment' = [segment EXCEPT ![p] = outcome.segment]

RetirementDue(p) == IdleAfter(p) = RetirementTime

\* One round of the loop over the players, for a dog that plays on.
MovePlayer ==
    /\ pc = "move"
    /\ cursor < playerCount
    /\ online[cursor]
    /\ ~RetirementDue(cursor)
    /\ idle' = [idle EXCEPT ![cursor] = IdleAfter(cursor)]
    /\ SetPosition(cursor)
    /\ cursor' = cursor + 1
    /\ UNCHANGED <<worldVars, online, heading, lootVars, records, pc, todo, delta>>

\* The row of retired_players; its id is the primary key.
Row(p) == [id |-> uuid[p], score |-> score[p]]
Recorded(p) == \E row \in records : row.id = uuid[p]

\* The loop reaches a dog whose time has come and its record is inserted.
RetireOk ==
    /\ pc = "move"
    /\ cursor < playerCount
    /\ online[cursor]
    /\ RetirementDue(cursor)
    /\ ~Recorded(cursor)
    /\ online' = [online EXCEPT ![cursor] = FALSE]
    /\ records' = records \cup {Row(cursor)}
    /\ idle' = [idle EXCEPT ![cursor] = IdleAfter(cursor)]
    /\ SetPosition(cursor)
    /\ cursor' = cursor + 1
    /\ UNCHANGED <<worldVars, heading, lootVars, pc, todo, delta>>

\* The insertion throws: the row breaks the primary key or the database
\* fails, before or after it committed.  The player is offline already; the
\* rest of the tick, the dog's own SetPosition included, does not happen.
RetireFail ==
    /\ pc = "move"
    /\ cursor < playerCount
    /\ online[cursor]
    /\ RetirementDue(cursor)
    /\ \/ Recorded(cursor) /\ UNCHANGED records
       \/ DbMayFail /\ ~Recorded(cursor) /\ records' \in {records, records \cup {Row(cursor)}}
    /\ online' = [online EXCEPT ![cursor] = FALSE]
    /\ idle' = [idle EXCEPT ![cursor] = IdleAfter(cursor)]
    /\ pc' = "idle"
    /\ cursor' = 0
    /\ delta' = 0
    /\ UNCHANGED <<worldVars, heading, moving, segment, lootVars, todo>>

EndMoves ==
    /\ pc = "move"
    /\ cursor = playerCount
    /\ pc' = "gather"
    /\ cursor' = 0
    /\ UNCHANGED <<worldVars, dogVars, lootVars, records, todo, delta>>

\* One gathering event that takes effect.  The provider lists every dog and
\* every loot object of the game whatever their maps, and m is the session
\* that holds the loot.
Gather(p, l, m) ==
    /\ pc = "gather"
    /\ segment[p]
    /\ l \in floor[m]
    /\ Cardinality(bag[p]) < BagCapacity[home[p]]
    /\ bag' = [bag EXCEPT ![p] = @ \cup {l}]
    /\ visible' = visible \ {l}
    /\ floor' = [floor EXCEPT ![m] = @ \ {l}]
    /\ UNCHANGED <<worldVars, dogVars, lootNumber, score, records, tickVars>>

EndGather ==
    /\ pc = "gather"
    /\ pc' = "office"
    /\ UNCHANGED <<worldVars, dogVars, lootVars, records, cursor, todo, delta>>

EndTick == pc' = "idle" /\ cursor' = 0 /\ delta' = 0 /\ UNCHANGED todo

\* The sessions an office event of p looks up: those with as many dogs as
\* the copy of the session p keeps from its join.
BankingSessions(p) == {m \in Sessions : Dogs(m) = snapshot[p]}

\* The first office event of the tick, the only one the loop handles: the
\* bag is returned in the first session found, at the prices of its map.
OfficeEvent(p) ==
    /\ pc = "office"
    /\ segment[p]
    /\ \/ \E m \in BankingSessions(p) :
            /\ score' = [score EXCEPT ![p] = @ \cup (bag[p] \X {m})]
            /\ bag' = [bag EXCEPT ![p] = {}]
       \/ BankingSessions(p) = {} /\ UNCHANGED <<score, bag>>
    /\ EndTick
    /\ UNCHANGED <<worldVars, dogVars, lootNumber, floor, visible, records>>

NoOfficeEvent ==
    /\ pc = "office"
    /\ EndTick
    /\ UNCHANGED <<worldVars, dogVars, lootVars, records>>
-----------------------------------------------------------------------------
Request ==
    \/ \E m \in Maps : Join(m)
    \/ \E p \in PlayerIds, go \in BOOLEAN : Action(p, go)

TickStep ==
    \/ \E m \in Maps : GenerateLoot(m)
    \/ StartMoves
    \/ SkipOffline \/ MovePlayer \/ RetireOk \/ RetireFail
    \/ EndMoves
    \/ \E p \in PlayerIds, l \in LootIds, m \in Maps : Gather(p, l, m)
    \/ EndGather
    \/ \E p \in PlayerIds : OfficeEvent(p)
    \/ NoOfficeEvent

Next == Request \/ (\E d \in Deltas : BeginTick(d)) \/ TickStep

Spec == Init /\ [][Next]_vars

\* A tick that has begun runs to its end (its handler does not wait for
\* anything), and the ticker always schedules the next one.
Fairness == WF_vars(TickStep) /\ WF_vars(\E d \in Deltas : BeginTick(d))
FairSpec == Spec /\ Fairness
-----------------------------------------------------------------------------
\* Every variable has its type.
TypeOK ==
    /\ issued \in 0 .. MaxPlayers
    /\ playerCount \in 0 .. issued
    /\ uuid \in [PlayerIds -> Nat]
    /\ home \in [PlayerIds -> Maps \cup {NoMap}]
    /\ \A p \in PlayerIds : home[p] \in Maps <=> p < playerCount
    /\ snapshot \in [PlayerIds -> Nat]
    /\ online \in [PlayerIds -> BOOLEAN]
    /\ \A p \in PlayerIds : online[p] \/ segment[p] => p < playerCount
    /\ heading \in [PlayerIds -> BOOLEAN]
    /\ moving \in [PlayerIds -> BOOLEAN]
    /\ segment \in [PlayerIds -> BOOLEAN]
    /\ idle \in [PlayerIds -> 0 .. RetirementTime]
    /\ lootNumber \in 0 .. MaxLoot
    /\ floor \in [Maps -> SUBSET LootIds]
    /\ visible \in SUBSET LootIds
    /\ bag \in [PlayerIds -> SUBSET LootIds]
    /\ score \in [PlayerIds -> SUBSET (LootIds \X Maps)]
    /\ records \in SUBSET [id : Nat, score : SUBSET (LootIds \X Maps)]
    /\ pc \in {"idle", "generate", "move", "gather", "office"}
    /\ cursor \in 0 .. MaxPlayers
    /\ todo \in SUBSET Maps
    /\ delta \in Deltas \cup {0}
-----------------------------------------------------------------------------
Scored(p) == {entry[1] : entry \in score[p]}
Holds(p, l) == l \in bag[p] \/ l \in Scored(p)

\* Every object that was spawned is somewhere, and nothing else is anywhere.
NothingLost ==
    \A l \in LootIds :
        l < lootNumber <=> \/ \E m \in Maps : l \in floor[m]
                           \/ \E p \in PlayerIds : Holds(p, l)

\* No object is in two places: on two floors, on a floor and with a player,
\* with two players, in a bag and scored, or scored at two prices.
NothingTwice ==
    /\ \A l \in LootIds, m \in Maps, n \in Maps :
        l \in floor[m] /\ l \in floor[n] => m = n
    /\ \A l \in LootIds, m \in Maps, p \in PlayerIds :
        ~(l \in floor[m] /\ Holds(p, l))
    /\ \A l \in LootIds, p \in PlayerIds, q \in PlayerIds :
        Holds(p, l) /\ Holds(q, l) => p = q
    /\ \A l \in LootIds, p \in PlayerIds : ~(l \in bag[p] /\ l \in Scored(p))
    /\ \A p \in PlayerIds : \A e \in score[p], f \in score[p] : e[1] = f[1] => e = f

\* A loot object is in exactly one place from its spawning on: one floor, one
\* bag or one score.  Gathering moves it between containers of the session,
\* of the dog and of the player in separate steps (application.h:142-154,
\* 164-169), and any loot may be gathered by any dog of any map.
LootInOnePlace == NothingLost /\ NothingTwice

\* The objects shown to the players are the ones that lie on a floor: the flag
\* is on the object of the game, the floor is in the session, and the game
\* keeps the object for ever (application.h:148-151).
VisibleIffOnFloor == visible = UNION {floor[m] : m \in Maps}

\* A session never holds more loot than dogs, however pickups, joins and
\* ticks alternate (model.cpp:136-138).
FloorBoundedByDogs == \A m \in Maps : Cardinality(floor[m]) =< Dogs(m)

\* A row of the table of records shows the player's final score: what is
\* inserted in the middle of a tick is not overtaken by the gathering and the
\* office events of the same tick or of a later one (application.h:120-173), as
\* long as ticks are shorter than the retirement time or the database works: a
\* dog that begins to stand and is retired within one tick keeps, when its insert
\* fails, the segment of the tick before, and gathers along it.
RecordIsFinal ==
    \A row \in records, p \in Joined : row.id = uuid[p] => row.score = score[p]

\* A dog that has been standing for some time gathers nothing and scores
\* nothing, retired or not: the events of a tick are found from the segment of
\* the dog, which for an offline player is the one of an earlier tick
\* (application.h:60, collision_detector.h:80-84).  The same condition on ticks
\* and the database holds here.
StandingDogsGatherNothing ==
    [][\A p \in PlayerIds : idle[p] > 0 => bag'[p] = bag[p] /\ score'[p] = score[p]]_vars

\* A player that was retired has its row in the table of records, as long as
\* the database does not fail: the loop sets it offline before it inserts the
\* row, and never looks at it again (application.h:43-50, 121-130).
RetiredPlayersRecorded == \A p \in Joined : online[p] \/ Recorded(p)

\* Every tick that begins ends, whatever it meets on its way.
TickCompletes == pc # "idle" ~> pc = "idle"

\* A player whose dog stands still is retired in the end, also when ticks are
\* cut short by the database (application.h:120-132).
StandingDogRetires ==
    \A p \in PlayerIds : online[p] /\ ~moving[p] ~> moving[p] \/ ~online[p]
-----------------------------------------------------------------------------
\* The life of loot, as the ledger sees it.
HolderOf(l) ==
    IF \E p \in PlayerIds : Holds(p, l)
    THEN CHOOSE p \in PlayerIds : Holds(p, l)
    ELSE MaxPlayers

StageOf(l) ==
    IF \E m \in Maps : l \in floor[m] THEN "floor"
    ELSE IF \E p \in PlayerIds : l \in bag[p] THEN "bag"
    ELSE IF \E p \in PlayerIds : l \in Scored(p) THEN "scored"
    ELSE "unborn"

Ledger == INSTANCE LootLedger WITH
    Loot <- LootIds, Players <- PlayerIds, Nobody <- MaxPlayers,
    stage <- [l \in LootIds |-> StageOf(l)],
    owner <- [l \in LootIds |-> HolderOf(l)]

\* The game implements the ledger: whatever is gathered was on a floor and
\* free, whatever is scored was in the bag of the player who scores it.
LedgerSpec == Ledger!LedgerSpec
=============================================================================
