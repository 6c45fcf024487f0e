--------------------------- MODULE LootGenerator ---------------------------
(***************************************************************************)
(* How much loot comes, and when: LootGenerator::Generate                  *)
(* (loot_generator.cpp) and its caller Game::GenerateLoot (model.cpp),     *)
(* which asks one generator, with one clock, for all sessions in turn.     *)
(*                                                                         *)
(* A unit of time is what the factor of the clock is a fraction for:       *)
(* (1 - probability)^(1 / base_interval) is KeepNum / KeepDen.             *)
(* Abstracted: the rounding errors of doubles, the types and places of the *)
(* loot, and the random generator, which is the default one: always 1.     *)
(***************************************************************************)
EXTENDS Integers, FiniteSets, SequencesExt

CONSTANTS
    Maps,       \* maps, each with at most one session
    Deltas,     \* durations of ticks
    KeepNum,    \* the chance that no loot comes in a unit of time is
    KeepDen,    \* KeepNum / KeepDen
    MaxPlayers, \* bound: players of a session
    Longest     \* bound: the clock stops here, where all that is short comes

ASSUME MapsAssumption == IsFiniteSet(Maps)
ASSUME NumbersAssumption ==
    /\ KeepNum \in Nat \ {0} /\ KeepDen \in Nat /\ KeepNum < KeepDen
    /\ MaxPlayers \in Nat /\ Longest \in Nat /\ Deltas \subseteq Nat

\* std::pow: the chance that no loot comes in t units is KeepNumTo[t] / KeepDenTo[t].
KeepNumTo[t \in Nat] == IF t = 0 THEN 1 ELSE KeepNum * KeepNumTo[t - 1]
KeepDenTo[t \in Nat] == IF t = 0 THEN 1 ELSE KeepDen * KeepDenTo[t - 1]

\* At Longest less than half an object is missing of the largest shortage.
ASSUME LongestAssumption == 2 * MaxPlayers * KeepNumTo[Longest] < KeepDenTo[Longest]

VARIABLES
    order,           \* Game::sessions_, in the order of the hash table
    looters,         \* GameSession::GetNumberOfPlayers
    floor,           \* how much loot lies in a session
    timeWithoutLoot  \* LootGenerator::time_without_loot_

vars == <<order, looters, floor, timeWithoutLoot>>
-----------------------------------------------------------------------------
(* Slips that the code could contain and does not.                         *)

\* The loot that lies there is forgotten.
ShortageOfAll(loot, players) == players

\* The conversion to unsigned alone, without std::round.
GeneratedCutOff(shortage, time) ==
    (shortage * (KeepDenTo[time] - KeepNumTo[time])) \div KeepDenTo[time]

Shortage(loot, players) == IF loot > players THEN 0 ELSE players - loot

\* shortage * (1 - (1 - probability)^ratio), rounded with halves away from zero.
Generated(shortage, time) ==
    (2 * shortage * (KeepDenTo[time] - KeepNumTo[time]) + KeepDenTo[time]) \div (2 * KeepDenTo[time])

\* Generate, called for the session of map m.
Generate(clockAndFloor, m, delta) ==
    LET sum == clockAndFloor.time + delta
        time == IF sum > Longest THEN Longest ELSE sum
        loot == Generated(Shortage(clockAndFloor.floor[m], looters[m]), time)
    IN  [time |-> IF loot > 0 THEN 0 ELSE time,
         floor |-> [clockAndFloor.floor EXCEPT ![m] = @ + loot]]
-----------------------------------------------------------------------------
Init ==
    /\ order = <<>>
    /\ looters = [m \in Maps |-> 0]
    /\ floor = [m \in Maps |-> 0]
    /\ timeWithoutLoot = 0

\* A player joins.  The first one starts the session, and a new entry of the
\* hash table may change the order of all.
Join(m) ==
    /\ looters[m] < MaxPlayers
    /\ looters' = [looters EXCEPT ![m] = @ + 1]
    /\ IF m \in Range(order) THEN UNCHANGED order
       ELSE order' \in SetToSeqs(Range(order) \cup {m})
    /\ UNCHANGED <<floor, timeWithoutLoot>>

\* A dog gathers loot.
Gather(m) ==
    /\ floor[m] > 0
    /\ floor' = [floor EXCEPT ![m] = @ - 1]
    /\ UNCHANGED <<order, looters, timeWithoutLoot>>

\* GenerateLoot: the clock is advanced for every session anew, and put back by
\* each that gets loot.
GenerateLoot(delta) ==
    LET after[k \in 0 .. Len(order)] ==
            IF k = 0 THEN [time |-> timeWithoutLoot, floor |-> floor]
            ELSE Generate(after[k - 1], order[k], delta)
    IN  /\ timeWithoutLoot' = after[Len(order)].time
        /\ floor' = after[Len(order)].floor
        /\ UNCHANGED <<order, looters>>

Next ==
    \/ \E m \in Maps : Join(m) \/ Gather(m)
    \/ \E delta \in Deltas : GenerateLoot(delta)

Spec == Init /\ [][Next]_vars

\* The ticker goes on for ever.
FairSpec == Spec /\ WF_vars(\E delta \in Deltas \ {0} : GenerateLoot(delta))
-----------------------------------------------------------------------------
\* Every variable has its type.
TypeOK ==
    /\ order \in Seq(Maps)
    /\ looters \in [Maps -> 0 .. MaxPlayers] /\ floor \in [Maps -> Nat]
    /\ timeWithoutLoot \in 0 .. Longest

\* Nothing is generated that nobody is short of, whatever time has run up
\* (loot_generator.cpp:19-23, tests/loot_generator_tests.cpp:18-27).
LootForEveryLooter == \A m \in Maps : floor[m] =< looters[m]

\* When loot is short for ever, loot comes for ever, to some session: the clock
\* that all of them put back does not keep each of them from its loot
\* (loot_generator.cpp:24-26).
ShortageIsMet ==
    \/ []<>(\A m \in Maps : floor[m] >= looters[m])
    \/ []<><<\E m \in Maps : floor'[m] > floor[m]>>_vars
=============================================================================
