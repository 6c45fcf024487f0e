--------------------------- MODULE GamePersistence --------------------------
(***************************************************************************)
(* The game with its state file: the server writes the file in the middle  *)
(* of a tick (application.h:36-39) and after the last request of a clean   *)
(* shutdown (main.cpp:194-199), loses its memory at a crash, and rebuilds  *)
(* the game from the file when it starts again (serialization.cpp:13-114). *)
(* The table of records is in the database and survives both.              *)
(*                                                                         *)
(* Abstracted: writing the file is one step here; StateFile takes it apart.*)
(* Abstracted: between the end of one process and the start of the next    *)
(* nothing of the game exists, so they are one step.                       *)
(***************************************************************************)
EXTENDS Game

CONSTANTS
    MapRank,     \* the place of a map in the configuration file
    SavesInTick  \* whether save_path and save_period of the tick are set

ASSUME RankAssumption ==
    /\ MapRank \in [Maps -> Nat]
    /\ \A m \in Maps, n \in Maps : MapRank[m] = MapRank[n] => m = n
ASSUME SavesAssumption == SavesInTick \in BOOLEAN

VARIABLES
    tokens,  \* PlayerTokens::token_to_player_
    saved    \* what the state file holds

persistentVars == <<vars, tokens, saved>>

\* PlayerTokens::AddPlayer: whoever has just joined gets a token that nobody
\* had before; like the dogs, tokens are named by the number of the join.
GiveTokens == tokens' = tokens \cup {[token |-> issued, player |-> p] : p \in Joined' \ Joined}

\* ApplicationSerializer: what is written of the game.  Speeds are written,
\* but never read back; a player's copy of the session is not written.
Memory ==
    [playerCount |-> playerCount, home |-> home, uuid |-> uuid,
     online |-> online, heading |-> heading, segment |-> segment, idle |-> idle,
     lootNumber |-> lootNumber, floor |-> floor, visible |-> visible,
     bag |-> bag, score |-> score, tokens |-> tokens]

SavedPlayers(s) == {p \in PlayerIds : p < s.playerCount}
SavedSessions(s) == {s.home[p] : p \in SavedPlayers(s)}

\* The sessions are written in the order of the maps, and every session is
\* restored from the first of them: the index restarts with each map.
FirstSession(s) ==
    CHOOSE m \in SavedSessions(s) : \A n \in SavedSessions(s) : MapRank[m] =< MapRank[n]

\* The loot that a session has again.
RestoredFloor(s, m) == IF m \in SavedSessions(s) THEN s.floor[FirstSession(s)] ELSE {}

\* A slip the code does not contain: the copies are made when all dogs are back.
CopiesAfterAll(s, p) == Cardinality({q \in SavedPlayers(s) : s.home[q] = s.home[p]})

\* The players join again in their order, so each copies a session that has
\* the dogs of the players before it.
JoinPosition(s, p) ==
    Cardinality({q \in SavedPlayers(s) : q =< p /\ s.home[q] = s.home[p]})

\* A slip the code does not contain: tokens are kept apart from the game.
TokensKeptApart(s) == tokens

\* TokensSerializer::Restore: a token is given to the player that has the place
\* in the list of players which its player had.
RestoredTokens(s) == s.tokens

\* ApplicationSerializer::Restore into a game that has just been constructed.
\* A dog is set going again in the direction it last faced, and the loot of a
\* session is added to it as if it were new.
Restore(s) ==
    /\ playerCount' = s.playerCount
    /\ home' = s.home
    /\ uuid' = s.uuid
    /\ snapshot' = [p \in PlayerIds |->
                        IF p \in SavedPlayers(s) THEN JoinPosition(s, p) ELSE 0]
    /\ online' = s.online
    /\ heading' = s.heading
    /\ moving' = s.heading
    /\ segment' = s.segment
    /\ idle' = s.idle
    /\ lootNumber' = s.lootNumber
    /\ visible' = s.visible
    /\ floor' = [m \in Maps |-> RestoredFloor(s, m)]
    /\ bag' = s.bag
    /\ score' = s.score
    /\ tokens' = RestoredTokens(s)
    /\ pc' = "idle"
    /\ cursor' = 0
    /\ todo' = {}
    /\ delta' = 0
    /\ UNCHANGED <<issued, records>>
-----------------------------------------------------------------------------
\* A missing file restores nothing, as if an empty game had been written.
PersistentInit ==
    /\ Init
    /\ tokens = {}
    /\ saved = Memory

\* A step of the game.  The tick saves after the loot is generated and before
\* the dogs move, if the save period is over.
Run ==
    /\ Next
    /\ GiveTokens
    /\ \/ UNCHANGED saved
       \/ SavesInTick /\ StartMoves /\ saved' = Memory

\* The process is told to stop: the running tick ends, the game is saved, and
\* the next process restores it.
Shutdown ==
    /\ pc = "idle"
    /\ saved' = Memory
    /\ Restore(Memory)

\* The process dies at any point and the next one restores the last file.
Crash ==
    /\ Restore(saved)
    /\ UNCHANGED saved

PersistentNext == Run \/ Shutdown \/ Crash

PersistentSpec == PersistentInit /\ [][PersistentNext]_persistentVars
-----------------------------------------------------------------------------
\* Every variable has its type, the file included.
PersistentTypeOK ==
    /\ TypeOK
    /\ tokens \subseteq [token : Nat, player : PlayerIds]
    /\ saved.playerCount \in 0 .. issued
    /\ saved.home \in [PlayerIds -> Maps \cup {NoMap}]
    /\ saved.floor \in [Maps -> SUBSET LootIds]
    /\ saved.lootNumber \in 0 .. MaxLoot
    /\ saved.tokens \subseteq [token : Nat, player : PlayerIds]

\* A token finds the dog that it was given for, and each player that is there
\* has its own, after any crash: the places of players are given anew, to others,
\* when their joins were not saved (player.h:60-63, serialization.cpp:65-70).
TokensFindTheirDogs ==
    /\ tokens = {[token |-> uuid[p], player |-> p] : p \in Joined}
    /\ \A p \in Joined, q \in Joined : uuid[p] = uuid[q] => p = q

\* A clean shutdown and a start keep the game, but for the speeds of the dogs:
\* in particular the copies of the sessions, which are not saved, come back as
\* they were (player.h:18-24, serialization.cpp:53-62).
ShutdownKeepsGame ==
    [][Shutdown => UNCHANGED <<worldVars, online, heading, segment, idle, lootVars, records, tokens>>]_persistentVars
=============================================================================
