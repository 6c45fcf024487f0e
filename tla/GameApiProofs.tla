--------------------------- MODULE GameApiProofs ----------------------------
(***************************************************************************)
(* Proofs about GameApi: the types, the tokens, and who is answered.       *)
(*                                                                         *)
(* Only JoinGame changes the tokens; requests that are refused or only ask *)
(* change nothing but the answer, and ticks only take players offline.  So *)
(* every step is one of four kinds (StepKinds), and each invariant is      *)
(* proved of the kinds.                                                    *)
(***************************************************************************)
EXTENDS GameApi, TLAPS

\* The answer to a request of the kind that needs a token is 200 only if the
\* token is accepted; nothing else changes.
Refusal ==
    /\ UNCHANGED gameVars
    /\ answer' \in Answers
    /\ answer'.code = 200 /\ answer'.to \in NeedsToken => Accepted(answer'.auth)

Joining ==
    /\ playerCount < MaxPlayers
    /\ \E m \in Maps, t \in FreshTokens : Register(m, t) /\ Answer(200, "join", t)

Turning ==
    \E auth \in Tokens, move \in Moves :
        /\ Accepted(auth)
        /\ Turn(owner[auth], move)
        /\ UNCHANGED <<playerCount, home, online, owner, records>>
        /\ Answer(200, "action", auth)

Ticking ==
    /\ UNCHANGED <<playerCount, home, heading, owner>>
    /\ online' \subseteq online
    /\ records' \subseteq records \cup online
    /\ answer' \in Answers
    /\ answer'.to \notin NeedsToken
    /\ (answer'.to = "tick" /\ answer'.code \in {200, 400}) \/ answer'.code = 0
-----------------------------------------------------------------------------
LEMMA ResponseType ==
    ASSUME NEW code \in {0, 200, 400, 401, 404, 405, 500},
           NEW to \in {"none", "join", "maps", "map", "players", "state", "action",
                       "tick", "records", "unknown"},
           NEW auth \in Tokens \cup {NoToken}, NEW allow \in SUBSET Methods
    PROVE  /\ Response(code, to, auth, allow) \in Answers
           /\ Response(code, to, auth, allow).code = code
           /\ Response(code, to, auth, allow).to = to
           /\ Response(code, to, auth, allow).auth = auth
  BY DEF Response, Answers

LEMMA RefuseIsRefusal ==
    ASSUME NEW code \in {0, 200, 400, 401, 404, 405, 500},
           NEW to \in {"none", "join", "maps", "map", "players", "state", "action",
                       "tick", "records", "unknown"},
           NEW auth \in Tokens \cup {NoToken},
           Refuse(code, to, auth),
           code = 200 /\ to \in NeedsToken => Accepted(auth)
    PROVE  Refusal
  <1>1. answer' = Response(code, to, auth, {}) /\ UNCHANGED gameVars
    BY DEF Refuse, Answer
  <1>2. {} \in SUBSET Methods
    OBVIOUS
  <1>3. QED BY <1>1, <1>2, ResponseType DEF Refusal

LEMMA NotAllowedIsRefusal ==
    ASSUME NEW to \in {"none", "join", "maps", "map", "players", "state", "action",
                       "tick", "records", "unknown"},
           NEW auth \in Tokens \cup {NoToken}, NEW allow \in SUBSET Methods,
           NotAllowed(to, auth, allow)
    PROVE  Refusal
  <1>1. answer' = Response(405, to, auth, allow) /\ UNCHANGED gameVars
    BY DEF NotAllowed
  <1>2. QED BY <1>1, ResponseType DEF Refusal

LEMMA MethodSets == Reading \in SUBSET Methods /\ Posting \in SUBSET Methods
  BY DEF Reading, Posting, Methods

LEMMA TickKinds ==
    ASSUME NEW due \in SUBSET online, GameTick(due) \/ TickerTick(due)
    PROVE  Ticking
  <1>1. Retire(due) \/ \E failing \in due : RetireUntil(due, failing)
    BY DEF GameTick, TickerTick
  <1>2. /\ UNCHANGED <<playerCount, home, heading, owner>>
        /\ online' \subseteq online
        /\ records' \subseteq records \cup online
    BY <1>1 DEF Retire, RetireUntil
  <1>3. \/ answer' = Response(200, "tick", NoToken, {})
        \/ answer' = Response(400, "tick", NoToken, {})
        \/ answer' = Response(0, "none", NoToken, {})
    BY DEF GameTick, TickerTick, Answer, NoAnswer
  <1>4. /\ answer' \in Answers /\ answer'.to \in {"tick", "none"}
        /\ (answer'.to = "tick" /\ answer'.code \in {200, 400}) \/ answer'.code = 0
    BY <1>3, ResponseType
  <1>5. QED BY <1>2, <1>4 DEF Ticking, NeedsToken

LEMMA StepKinds ==
    ASSUME Next
    PROVE  Refusal \/ Joining \/ Turning \/ Ticking
  <1>1. ASSUME NEW method \in Methods, NEW body \in JoinBodies, JoinRefused(method, body)
        PROVE  Refusal
    <2>1. CASE NotAllowed("join", NoToken, Posting)
      BY <2>1, NotAllowedIsRefusal, MethodSets
    <2>2. CASE Refuse(400, "join", NoToken) \/ Refuse(404, "join", NoToken)
      BY <2>2, RefuseIsRefusal
    <2>3. QED BY <1>1, <2>1, <2>2 DEF JoinRefused
  <1>2. ASSUME NEW body \in JoinBodies, JoinGame(body)
        PROVE  Joining
    BY <1>2 DEF JoinGame, Joining
  <1>3. ASSUME GetMaps
        PROVE  Refusal
    BY <1>3, RefuseIsRefusal DEF GetMaps, NeedsToken
  <1>4. ASSUME NEW method \in Methods, NEW m \in Maps \cup {NoMap}, GetMap(method, m)
        PROVE  Refusal
    <2>1. CASE NotAllowed("map", NoToken, Reading)
      BY <2>1, NotAllowedIsRefusal, MethodSets
    <2>2. CASE Refuse(200, "map", NoToken) \/ Refuse(404, "map", NoToken)
      BY <2>2, RefuseIsRefusal DEF NeedsToken
    <2>3. QED BY <1>4, <2>1, <2>2 DEF GetMap
  <1>5. ASSUME NEW method \in Methods, NEW auth \in Tokens \cup {NoToken},
               NEW to \in {"players", "state"}, GetGame(method, to, auth)
        PROVE  Refusal
    <2>1. CASE NotAllowed(to, auth, Reading)
      BY <2>1, NotAllowedIsRefusal, MethodSets
    <2>2. CASE Refuse(IF Accepted(auth) THEN 200 ELSE 401, to, auth)
      BY <2>2, RefuseIsRefusal
    <2>3. QED BY <1>5, <2>1, <2>2 DEF GetGame
  <1>6. ASSUME NEW method \in Methods, NEW auth \in Tokens \cup {NoToken},
               NEW page \in RecordPages, GetRecords(method, auth, page)
        PROVE  Refusal
    <2>1. CASE NotAllowed("records", auth, Posting)
      BY <2>1, NotAllowedIsRefusal, MethodSets
    <2>2. CASE \/ Refuse(400, "records", auth) \/ Refuse(200, "records", auth)
               \/ Refuse(500, "records", auth)
      BY <2>2, RefuseIsRefusal DEF NeedsToken
    <2>3. QED BY <1>6, <2>1, <2>2 DEF GetRecords
  <1>7. ASSUME NEW method \in Methods, NEW auth \in Tokens \cup {NoToken},
               NEW isJson \in BOOLEAN, NEW move \in Moves \cup {Unreadable},
               ActionRefused(method, auth, isJson, move)
        PROVE  Refusal
    <2>1. CASE NotAllowed("action", auth, Posting)
      BY <2>1, NotAllowedIsRefusal, MethodSets
    <2>2. CASE Refuse(401, "action", auth) \/ Refuse(400, "action", auth)
      BY <2>2, RefuseIsRefusal
    <2>3. QED BY <1>7, <2>1, <2>2 DEF ActionRefused
  <1>8. ASSUME NEW method \in Methods, NEW auth \in Tokens \cup {NoToken},
               NEW isJson \in BOOLEAN, NEW move \in Moves \cup {Unreadable},
               PlayerAction(method, auth, isJson, move)
        PROVE  Turning
    BY <1>8 DEF PlayerAction, Turning, Accepted
  <1>9. ASSUME NEW method \in Methods, NEW isJson \in BOOLEAN, NEW readable \in BOOLEAN,
               TickRefused(method, isJson, readable)
        PROVE  Refusal
    <2>1. CASE NotAllowed("tick", NoToken, Posting)
      BY <2>1, NotAllowedIsRefusal, MethodSets
    <2>2. CASE Refuse(400, "tick", NoToken)
      BY <2>2, RefuseIsRefusal
    <2>3. QED BY <1>9, <2>1, <2>2 DEF TickRefused
  <1>10. ASSUME Unknown
         PROVE  Refusal
    BY <1>10, RefuseIsRefusal DEF Unknown
  <1>11. CASE Request
    BY <1>1, <1>2, <1>3, <1>4, <1>5, <1>6, <1>7, <1>8, <1>9, <1>10, <1>11 DEF Request
  <1>12. CASE \E due \in SUBSET online : GameTick(due) \/ TickerTick(due)
    BY <1>12, TickKinds
  <1>13. QED BY <1>11, <1>12 DEF Next
-----------------------------------------------------------------------------
LEMMA InitTypes == Init => TypeOK
  <1> SUFFICES ASSUME Init PROVE TypeOK
    OBVIOUS
  <1>1. answer \in Answers
    BY DEF Init, NoAnswer, Response, Answers
  <1>2. QED BY <1>1, MovesAssumption, NumbersAssumption
        DEF Init, TypeOK, PlayerIds, Joined, Nobody

LEMMA JoiningTypes ==
    ASSUME TypeOK, NEW m \in Maps, NEW t \in FreshTokens, playerCount < MaxPlayers,
           Register(m, t), Answer(200, "join", t), UNCHANGED tickPeriod
    PROVE  TypeOK'
  <1>1. t \in Tokens
    BY DEF FreshTokens
  <1>2. playerCount \in PlayerIds /\ playerCount' \in 0 .. MaxPlayers
    BY NumbersAssumption DEF TypeOK, PlayerIds, Register
  <1>3. Joined' = Joined \cup {playerCount}
    BY <1>2 DEF TypeOK, PlayerIds, Joined, Register
  <1>4. home' \in [PlayerIds -> Maps \cup {NoMap}]
    BY <1>2 DEF TypeOK, Register
  <1>5. online' \subseteq Joined' /\ records' \subseteq Joined'
    BY <1>3 DEF TypeOK, Register
  <1>6. heading' \in [PlayerIds -> Moves]
    BY <1>2, MovesAssumption DEF TypeOK, Register
  <1>7. owner' \in [Tokens -> Joined' \cup {Nobody}]
    BY <1>1, <1>3 DEF TypeOK, Register
  <1>8. answer' \in Answers
    BY <1>1, ResponseType DEF Answer
  <1>9. QED BY <1>2, <1>4, <1>5, <1>6, <1>7, <1>8 DEF TypeOK

LEMMA NextTypes == TypeOK /\ [Next]_vars => TypeOK'
  <1> SUFFICES ASSUME TypeOK, [Next]_vars PROVE TypeOK'
    OBVIOUS
  <1>0. UNCHANGED tickPeriod
    BY DEF Next, vars
  <1>1. CASE Refusal
    BY <1>0, <1>1 DEF Refusal, TypeOK, gameVars, Joined
  <1>2. CASE Joining
    BY <1>0, <1>2, JoiningTypes DEF Joining
  <1>3. CASE Turning
    <2>1. PICK auth \in Tokens, move \in Moves :
            /\ Accepted(auth)
            /\ Turn(owner[auth], move)
            /\ UNCHANGED <<playerCount, home, online, owner, records>>
            /\ Answer(200, "action", auth)
      BY <1>3 DEF Turning
    <2>2. heading' \in [PlayerIds -> Moves]
      BY <2>1 DEF TypeOK, Turn
    <2>3. answer' \in Answers
      BY <2>1, ResponseType DEF Answer
    <2>4. QED BY <1>0, <2>1, <2>2, <2>3 DEF TypeOK, Joined
  <1>4. CASE Ticking
    BY <1>0, <1>4 DEF Ticking, TypeOK, Joined
  <1>5. CASE UNCHANGED vars
    BY <1>5 DEF vars, gameVars, TypeOK, Joined
  <1>6. QED BY <1>1, <1>2, <1>3, <1>4, <1>5, StepKinds

\* The variables of the game keep their types whatever is asked, and tokens,
\* records and players who are online are those of players who have joined.
THEOREM TypeCorrect == Spec => []TypeOK
  BY InitTypes, NextTypes, PTL DEF Spec
-----------------------------------------------------------------------------
LEMMA JoiningTokens ==
    ASSUME TypeOK, TokenOfEachPlayer, NEW m \in Maps, NEW t \in FreshTokens,
           playerCount < MaxPlayers, Register(m, t)
    PROVE  TokenOfEachPlayer'
  <1>1. t \in Tokens /\ owner[t] = Nobody
    BY DEF FreshTokens
  <1>2. playerCount \in Nat /\ playerCount \notin Joined /\ Nobody # playerCount
    BY NumbersAssumption DEF TypeOK, Joined, Nobody
  <1>3. Joined' = Joined \cup {playerCount}
    BY NumbersAssumption DEF TypeOK, PlayerIds, Joined, Register
  <1>4. owner' = [owner EXCEPT ![t] = playerCount] /\ owner \in [Tokens -> Joined \cup {Nobody}]
    BY DEF TypeOK, Register
  <1>5. Nobody \notin Joined
    BY NumbersAssumption DEF Joined, PlayerIds, Nobody
  <1> SUFFICES ASSUME NEW p \in Joined'
               PROVE  \E s \in Tokens : /\ owner'[s] = p
                                        /\ \A u \in Tokens : owner'[u] = p => u = s
    BY DEF TokenOfEachPlayer
  <1>6. CASE p = playerCount
    <2>1. owner'[t] = p /\ \A u \in Tokens : owner'[u] = p => u = t
      BY <1>1, <1>2, <1>4, <1>6
    <2>2. QED BY <1>1, <2>1
  <1>7. CASE p \in Joined
    <2>1. PICK s \in Tokens : owner[s] = p /\ \A u \in Tokens : owner[u] = p => u = s
      BY <1>7 DEF TokenOfEachPlayer
    <2>2. s # t
      BY <1>1, <1>5, <1>7, <2>1
    <2>3. owner'[s] = p /\ \A u \in Tokens : owner'[u] = p => u = s
      BY <1>1, <1>2, <1>4, <1>7, <2>1, <2>2
    <2>4. QED BY <2>3
  <1>8. QED BY <1>3, <1>6, <1>7

\* A token finds one player and a player has one token, however many join:
\* AddPlayer goes on until the token is new.
THEOREM TokensAreTheirOwn == Spec => []TokenOfEachPlayer
  <1>1. Init => TokenOfEachPlayer
    BY DEF Init, TokenOfEachPlayer, Joined, PlayerIds
  <1>2. TypeOK /\ TokenOfEachPlayer /\ [Next]_vars => TokenOfEachPlayer'
    <2> SUFFICES ASSUME TypeOK, TokenOfEachPlayer, [Next]_vars PROVE TokenOfEachPlayer'
      OBVIOUS
    <2>1. CASE Joining
      BY <2>1, JoiningTokens DEF Joining
    <2>2. CASE Refusal \/ Turning \/ Ticking \/ UNCHANGED vars
      BY <2>2 DEF Refusal, Turning, Ticking, vars, gameVars, TokenOfEachPlayer, Joined
    <2>3. QED BY <2>1, <2>2, StepKinds
  <1>3. QED BY <1>1, <1>2, TypeCorrect, PTL DEF Spec

\* Whoever is answered with the state of the game, or turns a dog, is a player
\* no tick has retired.
THEOREM AnsweredArePlaying == Spec => []AuthorizedIsPlaying
  <1>1. Init => AuthorizedIsPlaying
    <2> SUFFICES ASSUME Init PROVE AuthorizedIsPlaying
      OBVIOUS
    <2>1. answer.code = 0
      BY ResponseType DEF Init, NoAnswer
    <2>2. QED BY <2>1 DEF AuthorizedIsPlaying
  <1>2. AuthorizedIsPlaying /\ [Next]_vars => AuthorizedIsPlaying'
    <2> SUFFICES ASSUME AuthorizedIsPlaying, [Next]_vars PROVE AuthorizedIsPlaying'
      OBVIOUS
    <2>1. CASE Refusal
      BY <2>1 DEF Refusal, gameVars, Accepted, AuthorizedIsPlaying
    <2>2. CASE Joining
      <3>1. PICK t \in FreshTokens : answer' = Response(200, "join", t, {})
        BY <2>2 DEF Joining, Answer
      <3>2. answer'.to = "join"
        BY <3>1, ResponseType DEF FreshTokens
      <3>3. QED BY <3>2 DEF AuthorizedIsPlaying, NeedsToken
    <2>3. CASE Turning
      <3>1. PICK auth \in Tokens :
              /\ Accepted(auth)
              /\ UNCHANGED <<online, owner>>
              /\ answer' = Response(200, "action", auth, {})
        BY <2>3 DEF Turning, Answer
      <3>2. answer'.auth = auth
        BY <3>1, ResponseType
      <3>3. QED BY <3>1, <3>2 DEF Accepted, AuthorizedIsPlaying
    <2>4. CASE Ticking
      BY <2>4 DEF Ticking, AuthorizedIsPlaying
    <2>5. CASE UNCHANGED vars
      BY <2>5 DEF vars, gameVars, AuthorizedIsPlaying
    <2>6. QED BY <2>1, <2>2, <2>3, <2>4, <2>5, StepKinds
  <1>3. QED BY <1>1, <1>2, PTL DEF Spec

\* A dog is turned by its own player only, and only while the player plays.
THEOREM DogsObeyTheirPlayers == Spec => TurnsOnlyOwnDog
  <1> DEFINE Own == \A p \in Joined : heading'[p] # heading[p] =>
                /\ p \in online
                /\ answer'.to = "action" /\ answer'.code = 200
                /\ answer'.auth \in Tokens /\ owner[answer'.auth] = p
  <1>1. TypeOK /\ [Next]_vars => [Own]_vars
    <2> SUFFICES ASSUME TypeOK, Next PROVE Own
      OBVIOUS
    <2>1. CASE Refusal \/ Ticking
      BY <2>1 DEF Refusal, Ticking, gameVars
    <2>2. CASE Joining
      <3>1. heading' = [heading EXCEPT ![playerCount] = "U"]
        BY <2>2 DEF Joining, Register
      <3>2. QED BY <3>1 DEF TypeOK, Joined
    <2>3. CASE Turning
      <3>1. PICK auth \in Tokens, move \in Moves :
              /\ Accepted(auth)
              /\ heading' = [heading EXCEPT ![owner[auth]] = move]
              /\ answer' = Response(200, "action", auth, {})
        BY <2>3 DEF Turning, Turn, Answer
      <3>2. answer'.to = "action" /\ answer'.code = 200 /\ answer'.auth = auth
        BY <3>1, ResponseType
      <3>3. \A p \in Joined : heading'[p] # heading[p] => p = owner[auth]
        BY <3>1 DEF TypeOK, Joined
      <3>4. QED BY <3>1, <3>2, <3>3 DEF Accepted
    <2>4. QED BY <2>1, <2>2, <2>3, StepKinds
  <1>2. QED BY <1>1, TypeCorrect, PTL DEF Spec, TurnsOnlyOwnDog

\* A request that is refused changes no player, direction, token or record,
\* whatever it asked for and whoever sent it, unless it is a tick answered with
\* 400, of which nothing is claimed.
THEOREM RefusalsChangeNothing == Spec => RefusedChangesNothing
  <1> DEFINE Kept == answer'.code >= 400 =>
                UNCHANGED gameVars \/ (answer'.to = "tick" /\ answer'.code = 400)
  <1>1. [Next]_vars => [Kept]_vars
    <2> SUFFICES ASSUME Next PROVE Kept
      OBVIOUS
    <2>1. CASE Refusal
      BY <2>1 DEF Refusal, gameVars
    <2>2. CASE Joining
      <3>1. PICK t \in FreshTokens : answer' = Response(200, "join", t, {})
        BY <2>2 DEF Joining, Answer
      <3>2. answer'.code = 200
        BY <3>1, ResponseType DEF FreshTokens
      <3>3. QED BY <3>2
    <2>3. CASE Turning
      <3>1. PICK auth \in Tokens : answer' = Response(200, "action", auth, {})
        BY <2>3 DEF Turning, Answer
      <3>2. answer'.code = 200
        BY <3>1, ResponseType
      <3>3. QED BY <3>2
    <2>4. CASE Ticking
      BY <2>4 DEF Ticking
    <2>5. QED BY <2>1, <2>2, <2>3, <2>4, StepKinds
  <1>2. QED BY <1>1, PTL DEF Spec, RefusedChangesNothing
=============================================================================
