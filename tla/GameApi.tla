------------------------------ MODULE GameApi -------------------------------
(***************************************************************************)
(* What a client sees of the game: the handlers behind HandleApiRequest    *)
(* (request_handler.cpp:89-116), their checks in the order of the code,    *)
(* the tokens (player.cpp:33-52) and the answer each request gets.         *)
(*                                                                         *)
(* Requests and ticks are taken one after another on the strand, so a      *)
(* handler is one action.  HttpServer has the way of a request to the      *)
(* strand, and Game the tick: here a tick is what the answers depend on,   *)
(* the players it retires and the records it inserts.  The clocks, the     *)
(* loot and the places and speeds of the dogs are not part of this state.  *)
(*                                                                         *)
(* Abstracted: a request is a method, a target, the token of its           *)
(* authorization header, if there is a well-formed one, whether its        *)
(* content type is JSON, and what its body gives when it is read; an       *)
(* answer is its status, the methods it allows, and whom it answers.       *)
(***************************************************************************)
EXTENDS Naturals, FiniteSets

CONSTANTS
    Maps,        \* the maps of the configuration file
    NoMap,       \* any other name of a map, and the home of nobody
    Tokens,      \* well-formed tokens
    NoToken,     \* no authorization header, or a malformed one
    Moves,       \* texts a player action may carry
    Unreadable,  \* a body, or an argument, that cannot be parsed
    TickPeriods, \* periods of the ticker; 0 if the clients tick the game
    MaxPlayers   \* bound: players that ever join

ASSUME MapsAssumption == NoMap \notin Maps
ASSUME TokensAssumption == NoToken \notin Tokens
ASSUME MovesAssumption == "U" \in Moves /\ Unreadable \notin Moves
ASSUME NumbersAssumption == TickPeriods \subseteq Nat /\ MaxPlayers \in Nat

VARIABLES
    tickPeriod,   \* RequestHandler::tick_period_, which nothing changes
    playerCount,  \* Players::ids_
    home,         \* the map of a player's session
    online,       \* the players whose online_ is TRUE
    heading,      \* Dog::dir_
    owner,        \* PlayerTokens::token_to_player_
    records,      \* the players with a row in retired_players
    answer        \* the response to the last request

gameVars == <<playerCount, home, online, heading, owner, records>>
vars == <<tickPeriod, gameVars, answer>>

PlayerIds == 0 .. MaxPlayers - 1
Nobody == MaxPlayers
Joined == {p \in PlayerIds : p < playerCount}

Methods == {"GET", "HEAD", "POST", "other"}
Reading == {"GET", "HEAD"}
Posting == {"POST"}

\* MakeStringResponse and MakeStringResponseAllowed.
Response(code, to, auth, allow) == [code |-> code, to |-> to, auth |-> auth, allow |-> allow]
NoAnswer == Response(0, "none", NoToken, {})

Answer(code, to, auth) == answer' = Response(code, to, auth, {})
Refuse(code, to, auth) == Answer(code, to, auth) /\ UNCHANGED gameVars
NotAllowed(to, auth, allow) == answer' = Response(405, to, auth, allow) /\ UNCHANGED gameVars
-----------------------------------------------------------------------------
Init ==
    /\ tickPeriod \in TickPeriods
    /\ playerCount = 0
    /\ home = [p \in PlayerIds |-> NoMap]
    /\ online = {}
    /\ heading = [p \in PlayerIds |-> "U"]
    /\ owner = [t \in Tokens |-> Nobody]
    /\ records = {}
    /\ answer = NoAnswer
-----------------------------------------------------------------------------
(* Slips that the code could contain and does not.                         *)

\* GenerateToken is called once.
AnyTokens == Tokens

\* FindPlayerByToken alone.
AcceptedOffline(auth) == auth \in Tokens /\ owner[auth] # Nobody

\* The dogs of a session share the direction.
TurnSession(p, move) ==
    heading' = [q \in PlayerIds |-> IF home[q] = home[p] THEN move ELSE heading[q]]

\* The content type is looked at after the action.
ActionCheckedLate(method, auth, isJson, move) ==
    /\ method = "POST" /\ auth \in Tokens
    /\ owner[auth] \in online
    /\ move # Unreadable
    /\ heading' = [heading EXCEPT ![owner[auth]] = move]
    /\ UNCHANGED <<playerCount, home, online, owner, records>>
    /\ Answer(IF isJson THEN 200 ELSE 400, "action", auth)
-----------------------------------------------------------------------------
(* Joining.                                                                *)

\* PlayerTokens::AddPlayer generates tokens until one is new.
FreshTokens == {t \in Tokens : owner[t] = Nobody}

\* AddDog, Players::Add and PlayerTokens::AddPlayer.
Register(m, t) ==
    /\ playerCount' = playerCount + 1
    /\ home' = [home EXCEPT ![playerCount] = m]
    /\ online' = online \cup {playerCount}
    /\ heading' = [heading EXCEPT ![playerCount] = "U"]
    /\ owner' = [owner EXCEPT ![t] = playerCount]
    /\ UNCHANGED records

JoinBodies == [name : {"empty", "given", Unreadable}, map : Maps \cup {NoMap}]

\* A body without userName or mapId is as unreadable as one that is no JSON.
JoinRefused(method, body) ==
    \/ method # "POST" /\ NotAllowed("join", NoToken, Posting)
    \/ method = "POST" /\ body.name \in {"empty", Unreadable} /\ Refuse(400, "join", NoToken)
    \/ method = "POST" /\ body.name = "given" /\ body.map \notin Maps /\ Refuse(404, "join", NoToken)

JoinGame(body) ==
    /\ playerCount < MaxPlayers
    /\ body.name = "given" /\ body.map \in Maps
    /\ \E t \in FreshTokens : Register(body.map, t) /\ Answer(200, "join", t)
-----------------------------------------------------------------------------
(* Questions.                                                              *)

\* ConvertMapsToString, whatever the method.
GetMaps == Refuse(200, "maps", NoToken)

\* The method is looked at before the result of the search.
GetMap(method, m) ==
    \/ method \notin Reading /\ NotAllowed("map", NoToken, Reading)
    \/ method \in Reading /\ Refuse(IF m \in Maps THEN 200 ELSE 404, "map", NoToken)

\* ValidToken, FindPlayerByToken and IsOnline.
Accepted(auth) == auth \in Tokens /\ owner[auth] \in online

\* The list of the players and the state of the game, to a player of it.
GetGame(method, to, auth) ==
    \/ method \notin Reading /\ NotAllowed(to, auth, Reading)
    \/ method \in Reading /\ Refuse(IF Accepted(auth) THEN 200 ELSE 401, to, auth)

\* The page of the records that the arguments name: no arguments name the
\* first hundred, "many" is a number of items above a hundred, and "negative"
\* a number the database does not take.  The database may fail.
RecordPages == {"first", "page", "many", "negative", Unreadable}

GetRecords(method, auth, page) ==
    \/ method \notin Reading /\ NotAllowed("records", auth, Posting)
    \/ method \in Reading /\ page \in {"many", Unreadable} /\ Refuse(400, "records", auth)
    \/ method \in Reading /\ page \in {"first", "page"} /\ Refuse(200, "records", auth)
    \/ method \in Reading /\ page \notin {"many", Unreadable} /\ Refuse(500, "records", auth)

\* A target no handler is for; that of the tick is one when the ticker runs.
Unknown == Refuse(400, "unknown", NoToken)
-----------------------------------------------------------------------------
(* The player's action.                                                    *)

\* Dog::SetDirection.
Turn(p, move) == heading' = [heading EXCEPT ![p] = move]

ActionRefused(method, auth, isJson, move) ==
    \/ method # "POST" /\ NotAllowed("action", auth, Posting)
    \/ method = "POST" /\ ~Accepted(auth) /\ Refuse(401, "action", auth)
    \/ method = "POST" /\ Accepted(auth) /\ ~isJson /\ Refuse(400, "action", auth)
    \/ method = "POST" /\ Accepted(auth) /\ isJson /\ move = Unreadable /\ Refuse(401, "action", auth)

PlayerAction(method, auth, isJson, move) ==
    /\ method = "POST" /\ Accepted(auth) /\ isJson
    /\ move # Unreadable
    /\ Turn(owner[auth], move)
    /\ UNCHANGED <<playerCount, home, online, owner, records>>
    /\ Answer(200, "action", auth)
-----------------------------------------------------------------------------
(* The tick.                                                               *)

\* The loop of the tick goes over the players that are due, in the order they
\* joined, and takes each offline before it inserts its record; the database
\* may throw at one of them, before or after the row is there.  By then the tick
\* has also moved the clock, the loot and the dogs before that one (see Game).
Retire(due) ==
    /\ online' = online \ due
    /\ records' = records \cup due
    /\ UNCHANGED <<playerCount, home, heading, owner>>

RetireUntil(due, failing) ==
    LET reached == {p \in due : p < failing} IN
    /\ failing \in due
    /\ online' = online \ (reached \cup {failing})
    /\ records' \in {records \cup reached, records \cup reached \cup {failing}}
    /\ UNCHANGED <<playerCount, home, heading, owner>>

TickRefused(method, isJson, readable) ==
    /\ tickPeriod = 0
    /\ \/ method # "POST" /\ NotAllowed("tick", NoToken, Posting)
       \/ method = "POST" /\ ~(isJson /\ readable) /\ Refuse(400, "tick", NoToken)

\* HandleApiRequestGameTick, with the exception of UpdateGameState caught as
\* if it were one of the parser.
GameTick(due) ==
    /\ tickPeriod = 0
    /\ \/ Retire(due) /\ Answer(200, "tick", NoToken)
       \/ \E failing \in due : RetireUntil(due, failing) /\ Answer(400, "tick", NoToken)

\* Application::Tick, run by the ticker, which swallows exceptions.
TickerTick(due) ==
    /\ tickPeriod # 0
    /\ Retire(due) \/ \E failing \in due : RetireUntil(due, failing)
    /\ answer' = NoAnswer
-----------------------------------------------------------------------------
\* HandleApiRequest.
Request ==
    \/ \E method \in Methods, body \in JoinBodies : JoinRefused(method, body)
    \/ \E body \in JoinBodies : JoinGame(body)
    \/ GetMaps
    \/ \E method \in Methods, m \in Maps \cup {NoMap} : GetMap(method, m)
    \/ \E method \in Methods, auth \in Tokens \cup {NoToken} :
        \/ GetGame(method, "players", auth) \/ GetGame(method, "state", auth)
        \/ \E page \in RecordPages : GetRecords(method, auth, page)
        \/ \E isJson \in BOOLEAN, move \in Moves \cup {Unreadable} :
            \/ ActionRefused(method, auth, isJson, move)
            \/ PlayerAction(method, auth, isJson, move)
    \/ \E method \in Methods, isJson \in BOOLEAN, readable \in BOOLEAN :
        TickRefused(method, isJson, readable)
    \/ Unknown

Next ==
    /\ \/ Request
       \/ \E due \in SUBSET online : GameTick(due) \/ TickerTick(due)
    /\ UNCHANGED tickPeriod

Spec == Init /\ [][Next]_vars
-----------------------------------------------------------------------------
Answers == [code : {0, 200, 400, 401, 404, 405, 500},
            to : {"none", "join", "maps", "map", "players", "state", "action",
                  "tick", "records", "unknown"},
            auth : Tokens \cup {NoToken}, allow : SUBSET Methods]

\* Every variable has its type.
TypeOK ==
    /\ tickPeriod \in TickPeriods
    /\ playerCount \in 0 .. MaxPlayers
    /\ home \in [PlayerIds -> Maps \cup {NoMap}]
    /\ online \subseteq Joined
    /\ heading \in [PlayerIds -> Moves]
    /\ owner \in [Tokens -> Joined \cup {Nobody}]
    /\ records \subseteq Joined
    /\ answer \in Answers

\* Each player is found by one token and no more, whoever joined after it
\* (player.cpp:37-44).
TokenOfEachPlayer ==
    \A p \in Joined : \E t \in Tokens :
        /\ owner[t] = p
        /\ \A u \in Tokens : owner[u] = p => u = t

NeedsToken == {"players", "state", "action"}

\* Who is told of the game, or plays it, is a player that has not been retired,
\* by whatever tick since it joined (request_handler.cpp:210, 248, 331).
AuthorizedIsPlaying ==
    answer.code = 200 /\ answer.to \in NeedsToken =>
        answer.auth \in Tokens /\ owner[answer.auth] \in online

\* A dog is turned by its own player, while it plays
\* (request_handler.cpp:329-341).
TurnsOnlyOwnDog ==
    [][\A p \in Joined : heading'[p] # heading[p] =>
        /\ p \in online
        /\ answer'.to = "action" /\ answer'.code = 200
        /\ answer'.auth \in Tokens /\ owner[answer'.auth] = p]_vars

\* A request that is refused leaves the players, their directions, the tokens and
\* the records as they were, and the client may send it again
\* (request_handler.cpp:144, 346).  Nothing is said of a tick that is answered
\* with 400: it may have been cut short by the database, when it had done a part
\* of its work (request_handler.cpp:369-376).
RefusedChangesNothing ==
    [][answer'.code >= 400 =>
        UNCHANGED gameVars \/ (answer'.to = "tick" /\ answer'.code = 400)]_vars
=============================================================================
