# A formal model of game-backend

The repository is the server of a multi-player game, in C++: players join a map
with a dog, the dogs run along the roads, gather loot and bring it to offices,
and dogs that stand still for too long are retired and recorded in a PostgreSQL
table.  This directory holds TLA+ models of it, the TLC configurations that
check them, and proofs checked by TLAPS.

Source paths below are relative to the root of the repository.

## 1. Inventory

| Component | State | Operations | Talks to |
| --- | --- | --- | --- |
| Game world: `src/model.h`, `src/model.cpp` | `Game::sessions_` (map to session), `loot_objects_` (all loot that ever was), `loot_number_`, `timer_`; a session's `dogs_`, `loot_objects_`, `retired_`; a dog's position, segment, speed, direction, bag, clocks | `GenerateLoot`, `StartGameSession`, `AddDog`, `AddNewLoot`, `DeleteLootObject`, `TakeLoot`, `ReturnLoot`, `SetDirection` | called by the tick and by requests |
| Players and tokens: `src/player.h`, `src/player.cpp` | players in order of joining: `online_`, `value_`, the dog, **a copy** of the session; tokens | `Add`, `AddValue`, `SetOffline`, `FindPlayerByToken` | requests, the tick |
| The tick: `src/application.h`, and again in `src/request_handler.cpp:540-683` | `prev_saving_` | generate, save, move, retire, gather, bank | game world, players, pool, state file |
| Loot generator: `src/loot_generator.cpp` | `time_without_loot_`, one for all sessions | `Generate` | `Game::GenerateLoot` |
| Collision detector: `src/collision_detector.*` | none; two providers of dogs and objects | `FindGatherEvents` | the tick |
| Movement on roads: `src/application.h:52-118`, `src/json_loader.cpp:21-57` | the road map of a map | the road loop | the tick |
| Persistence: `src/serialization.*` | the state file and `_tmp` | `SerializeGame`, `DeserializeGame`, the serializers | `main`, the tick |
| Connection pool: `src/db_connection.h` | `pool_`, `used_connections_`, a mutex, a condition variable | `GetConnection`, the destructor of the wrapper | the tick, the records request |
| Ticker: `src/request_handler.h:33-84` | `last_tick_` | `OnTick`, `ScheduleTick` | strand, `Application::Tick` |
| API handlers: `src/request_handler.cpp:89-440` | none of their own | join, action, tick, and the queries | game world, players, pool |
| Routing and log: `src/request_handler.h:112-152`, `src/log_response.h` | `status_`, `content_type_`, shared by all threads | dispatch to the strand, file requests, log | every thread |
| HTTP: `src/http_server.*` | a connection's buffer and request | accept, read, write, close | routing |
| Server: `src/main.cpp` | options | start, restore, signals, worker threads, final save | everything |

How they interact: all API requests and all ticks run on one strand, so they
exclude one another; file requests and the log run on any of the worker threads.
The tick and the records request take connections from the pool and block the
thread they are on; as all of them run on that strand, the server has at most
one connection lent at a time, and the pool is modelled as the component it is,
for any threads that use it.  A player keeps a copy of its session from the moment it
joined, which shares the dogs with the session but not their list, nor the loot
or the number of the retired.

What is hard here:

- *A tick that is cut short.*  `Ticker::OnTick` swallows any exception and
  schedules the next tick.  The database is called in the middle of the loop
  over the players, after the player was set offline.
- *Copies.*  The retirement is counted on a copy of a copy of the session; the
  office loop identifies a session by comparing the number of its dogs with the
  number in the player's old copy.
- *Loot in three containers* (game, session, bag) that are changed one at a
  time, by dogs of every map: the collision provider does not look at maps.
- *Order within a tick.*  Retiring comes before gathering; retired dogs keep the
  segment of their last tick and are still offered to the collision detector.
- *Requests beside one another.*  A session reads, hands its request on, writes
  and reads again on whatever thread is free; a request for the API may be
  handled before or after the call that dispatched it returns; the log takes the
  status of a response from variables that every thread writes.
- *Exceptions.*  What leaves a handler ends a worker thread and the process, or
  takes the main thread out of service and past the last save.
- *Orders the code leaves open.*  The roads of a dog are a set of pointers,
  sessions a hash table, events sorted by a comparison that is no order.
- *Rounding.*  Which roads a dog finds, how much loot comes.
- *Crashes.*  The state file is older than the table of records; it is renamed
  before it is complete; some state is derived anew when it is restored.
- *Threads.*  The pool notifies outside its mutex.

For each component, what makes it correct: loot is conserved and shown iff it
lies on a floor, sessions do not overflow with loot, records are final and
complete, idle dogs do nothing and are retired, ticks end (game world); a
restart keeps the game, and whoever was retired stays recorded (persistence); the last good
save outlives crashes and failures of the next (state file); connections are exclusive and no sleeper is
forgotten (pool); what is near a dog's way is met, and nothing is missed between
ticks (collisions); dogs stay at roads and go where they go whatever the order
of the roads and the length of the ticks (movement); loot comes when it is short
and never beyond it (generator); a token is one player's, only players who play
are answered, a refused request changes nothing, but for a tick (API); a session waits for one
thing at a time, requests are answered in order, the game is touched by one
thread (HTTP and routing); the log is true of what was sent (log); a stopped
server ends, with its game saved (server).  The hazards, each at its line, are in
PROJECT.json.

## 2. The modules

| Module | What it is |
| --- | --- |
| `Game` | the game world, the players, the requests that change them and the tick |
| `LootLedger` | what the game promises about loot: unborn, floor, bag of one player, scored by that player |
| `GamePersistence` | `Game` with the state file, shutdowns, crashes and restarts |
| `GameProofs` | theorems about `Game` and `GamePersistence` |
| `StateFile` | how the file is written and found again, step by step |
| `StateFileProofs` | theorems about `StateFile` |
| `ConnectionPool` | the pool and its threads |
| `ExclusiveUse` | what a pool promises: one user at a time |
| `ConnectionPoolProofs` | theorems about `ConnectionPool` |
| `GameApi` | the handlers of the API: their checks, tokens and answers |
| `GameApiProofs` | theorems about `GameApi` |
| `HttpServer` | listener, sessions, routing, the strand and the log, on several threads |
| `Exchange` | what an HTTP server promises: answers in order, each once |
| `HttpServerProofs` | theorems about `HttpServer` |
| `ServerLifecycle` | the process: options, start, threads, signals, exceptions, saves |
| `ServerLifecycleProofs` | theorems about `ServerLifecycle` |
| `Movement` | the road map and the road loop, on integers |
| `CollisionDetector` | extends `Movement`: the geometry of gathering and the sort of the events, for the loot, the offices and the dog of a town |
| `CollisionDetectorProofs` | theorems about `Movement` and `CollisionDetector` |
| `LootGenerator` | how much loot comes and when |
| `LootGeneratorProofs` | theorems about `LootGenerator` |
| `MCGame`, `MCGamePersistence`, `MCConnectionPool`, `MCStateFile`, `MCGameApi`, `MCHttpServer`, `MCServerLifecycle`, `MCMovement` (of `CollisionDetector`), `MCLootGenerator` | instances for TLC |

`GamePersistence` extends `Game` and uses its actions unchanged.  `Game`,
`ConnectionPool` and `HttpServer` instantiate their abstract specifications with
a refinement mapping (`Ledger`, `Exclusive`, `Promise`).  The others stand for
what `Game` leaves open: `LootGenerator` for the amount of loot, `Movement` for
what the road loop does to a dog, `CollisionDetector` for whom a dog meets and
in which order, `GameApi` for the requests that are refused.  `HttpServer` shows
that handlers and ticks exclude one another, which is what lets `Game` and
`GameApi` take them as steps.

In all of these some definitions are marked as slips the code does not contain.  No specification uses them; put in the place of the
definition they vary (listed in PROJECT.json under `mutants`), each makes a
property fail, which shows that the property depends on that piece of code.

### Game

A step is a request or a step of the tick.  The tick is not one step because an
exception leaves it halfway, and what it did until then stays.

| Definition | Code |
| --- | --- |
| `Join(m)` | the join request: find or start the session, `AddDog`, `Players::Add`, which copies the session (`snapshot` is the number of dogs in the copy) |
| `Action(p, go)` | the action request, refused for players that are offline; `go` is whether the text is one of L, R, U, D |
| `BeginTick(d)`, `GenerateLoot(m)`, `StartMoves` | `Application::Tick` up to the loop over the players; `EnoughLoot` is what `LootGenerator::Generate` may return |
| `SkipOffline`, `MovePlayer`, `RetireOk`, `RetireFail` | one round of that loop; `Outcomes` is what the road loop can do to a dog, `IdleAfter` the two clocks of the dog |
| `RetireFail` | the INSERT throws, because the id is in the table already or because the database fails, before or after it committed; the tick is over |
| `EndMoves`, `Gather(p, l, m)`, `EndGather` | the gathering events |
| `OfficeEvent(p)`, `NoOfficeEvent` | the first office event, the only one handled because of the `break` at `src/application.h:172` |

Abstractions.  Positions: only whether a dog's segment is a point
(`src/collision_detector.cpp:26` skips those), so which objects a moving dog
meets and in which order is left open.  Time: `idle[p]` is the time since the
last tick in which the dog moved, capped at the retirement time; nothing else
depends on clocks, except when saves happen, which is left open.  Points:
`score[p]` holds the objects that were scored with the map that priced them;
the number is a function of it.  A loot type without a price on the map that
prices it is not modelled: indexing past the end of `lootTypes` is undefined.
Durations are not negative, although a tick request may send such a number:
nothing says what it should do.
Both copies of the tick are the same as far as the model goes, and the tick
request is `BeginTick` with any duration; when it meets an exception it answers
400 and the game is as after `RetireFail`.

### GamePersistence

`Memory` is what `ApplicationSerializer` collects and `Restore(s)` what its
`Restore` makes of it in a new process: the dogs get their speed from their
direction (`src/serialization.cpp:18`), sessions their loot from the first saved
session (`:83`), players their copies of sessions by joining again in order
(`:53-62`), tokens the players that have the places of those they were given to
(`:65-70`).  A join draws a token (`GiveTokens`).  `Shutdown` is a signal, the final save of `main` and the next
start; `Crash` may strike between any two steps.
Where an object lies is not modelled: loot that is restored is put in a new place
(`:34`) when places are random.
Saves within a tick are there
as `Application` is written, if the constant `SavesInTick` says so; `main`
passes a period of 0 whenever the option is given by its name, because it reads
`save-period` where the option is `save-state-period` (`src/main.cpp:65,92`), so
the process as it is built takes only the steps with `SavesInTick = FALSE`.

### ConnectionPool

A step is a critical section.  `Take` is the predicate of the wait and what
follows it; a thread whose predicate is false falls asleep and gives up the
mutex at once.  `ReturnConnection` ends with its critical section and `Notify`
is the `notify_one` after it.  `SpuriousWakeup` is allowed at any time.

### StateFile

`Open`, `Write`, `Rename`, `Close` are the lines of `SerializeGame`; `Close` is
the destructor of the stream, which writes the last block after the rename.
`SaveFails` is an exception of the archive or of the rename.  `CloseShort` is a
destructor that cannot write, on a full disk: it tells nobody, and `SerializeGame`
returns.  `lost` says that this befell the last save.
`Start` is `DeserializeGame`: it fails on a file that is cut short.

### GameApi

An action is a handler with its checks in the order of the code; `Request` is
`HandleApiRequest`.  A request is a method, a target, a token or none, whether
its content type is JSON and what its body gives; an answer is a code, the
methods it allows, and whom it answers.  `Register` is `AddDog`, `Players::Add`
and `PlayerTokens::AddPlayer`, whose loop draws tokens until one is new
(`FreshTokens`).  `tickPeriod` is an option of the server: with 0 the clients send ticks (`GameTick`),
otherwise the ticker makes them (`TickerTick`): here a tick is the set of
players it retires, all of them or up to the one at which the database throws;
clocks, loot and the places and speeds of dogs are not part of this state.
What the answers list is left out.

### HttpServer

| Definition | Code |
| --- | --- |
| `OnAccept`, `OnAcceptError` | `Listener::OnAccept` |
| `OnRead`, `OnReadEnd`, `OnWrite`, `OnWriteError`, `Close` | the handlers of a session; `reads` and `writes` are the operations it has begun |
| `Favicon`, `DispatchApi`, `FileRequest` | what `LoggingRequestHandler` and `RequestHandler::operator()` do with a request |
| `RunNext`, `TickIsDue`, `TickDone` | the strand: `running` is the task in it, `queue` those that wait |
| `EndpointFails` | `local_endpoint()` throws for a client that is gone |
| `Make`, `SetContentType`, `SetStatus`, `Send` | a handler makes its response, writes the two shared variables one after the other, and begins the write |
| `SendFails`, `ReportingFails` | `send` throws: `ReportServerError` is sent in its place, and that may throw, too |
| `Leave` | the end of the lambda of the API, which reads `content_type_` once more, in the strand |
| `Report` | `GetLogInfo` and `LogResponse` on the thread that read the request |
| `Deadline` | `expires_after`: set when a read begins, and in force during the write |

A session is `front`, where the call that began in `OnRead` is, and `stage`,
where the making of the response is; the second may outlive the first, because
the handler of a dispatched request runs later.  When no operation and no
handler holds a session any more, it is destroyed (`Drop`) and the client sees
the end of the connection.  Two assignments of `content_type_` at a time are a
data race: the string holds anything, or the process ends.  An exception out of
a handler (`Throw`) ends the process on a worker thread; on the main thread it
takes that thread out of service.  `Threads` bounds how many handlers are under
way at a time; a thread is not told from another.

### ServerLifecycle

The phases of `main`: the options (`ParseEnds`, `Parse`), the start with its
failures, the threads in `io_context::run`, the end of `RunWorkers`, the last
save, and the catch block (`Unwound`).  The game is the number of its changes,
and a change takes two steps, so that a save may find one half made (`Written`
is then no game).  `unsaved` is the time since `prev_saving_`; a restored game
is ahead of it (`src/application.h:36` compares with a `prev_saving_` that
begins at 100).  With `SavesMayFail` any save may fail and leave the file as it was; in
`save_period` none does, so that a save that does not come was not tried.

### Movement

Lengths are in tenths of the unit of a map, so that a road is 8 wide.  `CellsOf`
are the cells a road is entered in, one beyond its end included; `Visit` is one
round of the road loop, and `Run` all of it, in any of the orders that a set of
pointers may have.  A tick's input is how far a dog can run in it.  `Visit`
holds for the four directions at once, because each of the four branches of the
code is the same seen in its own direction (`Along`).  `DogSpeed` is the speed of
the map, which `AddDog` cuts to an int (`NominalSpeed`): where it is below one no
dog ever runs.  `Game` assumes that dogs can run.

### CollisionDetector

`IsCollected` is `TryCollectPoint` and the test of its result, multiplied by the
square of the length of the segment, which leaves integers.  `Insert` is the
insertion sort that `std::sort` is for up to 16 events, with the comparison of
the code.  The module has no state of its own: the segment of the dog is the one
that `Movement` leaves behind (`startCoords` to `coords`), and a second dog runs
any of the segments `Others` in the same tick.  The tick asks twice, with the
loot and with the offices (`LootItems`, `OfficeItems`).

### LootGenerator

`Generated` is the formula with `(1 - probability)^(1 / base_interval)` as the
fraction `KeepNum / KeepDen`, rounded as `std::round` does; `GenerateLoot` asks
for each session in the order of the hash table, with the one clock.  The clock
stops at `Longest`, from where on all that is short comes.

## 3. The runs

| Run | Question | Bounds |
| --- | --- | --- |
| `two_maps` | loot, records and idle dogs with two sessions and a failing database; refinement of `LootLedger`; ticks end and standing dogs retire | 2 maps, 2 players, 2 objects, bags of 1 and 2, retirement after 2 ticks |
| `persistence` | restarts on one map, with saves in ticks, shutdowns and crashes: records, tokens, what a shutdown keeps | 2 players, 1 object, retirement after 1 tick |
| `restore_two_maps` | *violation*, see section 4 | 2 maps, 2 players, 1 object |
| `pool` | safety, refinement of `ExclusiveUse`, free connections are taken | 5 threads, 3 connections |
| `state_file` | crashes and failures while saving | 3 blocks, 5 saves |
| `http` | sessions, strand, refinement of `Exchange`; requests are settled | 2 connections with 1 request each, or with 2 on one, 2 threads |
| `http_log` | *violation*, see section 4 | 2 connections with 1 request, 2 threads, 2 answers of each kind |
| `movement` | dogs, roads, what they meet and in which order | a town of 6 roads, ticks of 0, 3, 6 and 9 tenths, 6 objects, 2 offices, a second dog on 2 segments, tolerance 1/4 |
| `loot_generator` | how much loot, when | 2 sessions of up to 4 players, ticks of 0, 1 and 4 |
| `lifecycle` | saves, and that a signal ends the server | 3 threads, 4 changes, 5 command lines |
| `save_period` | *violation*, see section 4 | the same, with saves that do not fail |
| `api` | tokens, who is answered, whose dog turns, refused requests | 3 players, 2 maps, 3 tokens, 2 directions; a ticker, or ticks from clients |

A run checks one system at one instance for all that is asked of it, safety,
refinement and liveness together.  Types that a theorem shows to be kept for all values
of the constants (section 5) are not checked again by a run.

Why the bounds are enough.  Two maps and two players give players of the same
map and of different maps, sessions with equal and with different numbers of
dogs, and two dogs that compete for one object; two objects let a full bag meet
a second object.  Three players are needed for one to join between another's
join and its office.  A retirement time of two ticks separates a dog that has
just stopped, one that has been standing, and one that is due.  Five threads on
three connections let two threads sleep while all three connections are out and
come back in any order.  Two connections on two threads with a request each let a
request wait for the strand behind another's and behind a tick, run on another
thread than the one that read it, and race with a file request for the shared
variables; two requests on one of them (`Loads`) let a client send its second
request before the first answer, beside a client that comes and goes.  Three
requests at a time are not checked by TLC; the safety properties of this run are
proved for any number of them.
Three players on three tokens give players of one map and of two, and draw
tokens that are taken; the third join draws while one player has retired.
The town of `movement` has a crossing, a corner, a loop, a road that goes on as
another and roads given in both directions; ticks of 3, 6 and 9 tenths stop a dog
between cells, on the edge of a road (4) and where a position is rounded up.
They satisfy `ShortTicks`, as the theorems on ticks assume (section 5); what
holds for longer ticks too, `AtRoads`, `RoadOrderIsIrrelevant` and
`RunsOrStops`, is proved for ticks of any length.  Loot lies on roads, at
their ends, at the turns and twice in one place; the offices stand beside roads,
within reach and at its limit.  The tolerance of the sort is 1e-5 in the code;
with 1/4 of a segment, chains of close times occur in a small town.
A quarter of the loot per unit of time gives every
shortage from 1 to 5 another number of ticks until it is rounded up.  A server
with three threads has its main thread and two workers, of which one may be in a
handler while the other takes the signal.

The bounds: players, objects and saves ever made (`MaxPlayers`, `MaxLoot`,
`MaxSaves`), requests of a connection (`MaxRequests`), changes of the game and
time since a save (`MaxChanges`, `MaxUnsaved`), the clock of the generator
(`Longest`), how far a dog runs in a tick (`Steps`), the segments of a second dog
(`Others`); everything else is finite.  Tokens and maps are alike to `GameApi`,
which is why its run, which has no liveness property, uses symmetry.

Every state has a successor (a tick can always begin, a thread can always ask, a
process can always crash, dogs can always turn), so deadlock is checked in every
run.  The processes of `HttpServer` and `ServerLifecycle` may end, and have a
step of their own for staying so (`Ended`): any other state without a successor
would be reported.

Fairness.  `two_maps` assumes weak fairness of the steps of a tick that has
begun, because `Application::Tick` waits for nothing but a connection, and of
beginning a tick, because `OnTick` always schedules the next one, also after an
exception.  Requests are not fair: nobody has to send one.  `pool` assumes that a
thread that has left its critical section goes on to notify, and that a thread
that was woken gets the mutex; it does not assume that connections are returned
or asked for.  `http` assumes that handlers go on and end (weak fairness of
`Proceed` and of the end of a task of the strand), that deadlines pass (time does), and strong
fairness of the next task of the strand and of the completion of a failed
operation, which another task may take the last free thread from again and
again: `io_context` runs what is ready in the order in which it became ready, so
that each has its turn.  Clients need not ask, take an answer or hang up.
`lifecycle` assumes the same of the handler of the signal, and that threads
come out of handlers and of `run` once it was stopped; no request and no tick
has to come.  `loot_generator` assumes that ticks of some length go on, as
`OnTick` schedules the next one always; nobody has to join or to gather.

## 4. Where the code does not do what it says

Three runs end in a violation.

- `restore_two_maps`: all sessions get the loot of the first one
  (`src/serialization.cpp:83`), although the README of the repository promises to
  save and restore the state of the game (line 14).
- `http_log`: the log reports the code and type of other responses
  (`README.md:16`, `src/log_response.h:62`).
- `save_period`: with `-p` no tick saves (`README.md:54,63`), because the option is
  `save-state-period` and the code looks for `save-period`
  (`src/main.cpp:65,92`).

The models contain more that a reader of the code should know.  The properties
are stated so that they hold with it, and say what is true all the same:

- A failing INSERT retires the player without a record, for good
  (`src/application.h:120-125`): `RetiredPlayersRecorded` is checked with a
  database that works.
- Sessions ask for loot for players that have retired, because `retired_`
  changes in copies only: `FloorBoundedByDogs` counts all dogs.
- Dogs that stood run after a restart (`src/serialization.cpp:18`):
  `ShutdownKeepsGame` leaves speeds out.
- A crash between the rename and the closing of the stream leaves a file the
  server cannot start with, and the file of the save before is gone:
  `EndedSaveIsWhole` and `LastSaveSurvives` speak of saves that ended.
- An exception in the main thread leaves a server that serves on with its
  workers and does not save when it is stopped: `SuccessKeepsGame` speaks of a
  server that reports success.
- A last block that the disk refuses leaves such a file, too, with no failure
  reported: both properties except that save (`lost`).
- The speed of a map below one is cut to none (`src/model.cpp:95`): `RunsOrStops`
  speaks of dogs that have a speed.
- A dog that can run a whole unit or more in a tick is stopped at the end of its
  road where another one goes on, because the roads of the tick are those of the
  point where it began (`src/application.h:58`): `TicksAddUp`,
  `StopsOnlyAtDeadEnd` and `GatheringAddsUp` speak of `ShortTicks`.
- Events at close times are handled in the order of the dogs, not of their
  times: `NeighboursInOrder` allows for the tolerance.
- A tick request that meets a failing database is answered with "Failed to parse
  tick request JSON" when it has moved clocks, loot and dogs and retired players:
  `RefusedChangesNothing` says nothing of a tick that is answered with 400.
- The records need no token although `README.md:73` says so, and the answer to a
  wrong method for them allows POST: both are in `GameApi` as they are.
- With two sessions, a session whose players gather all the time can put the
  common clock back for ever and keep another one from its loot: `ShortageIsMet`
  says only that loot comes to some session.

## 5. What is proved

TLAPS checks every proof; the constants are arbitrary, under the assumptions in
the modules (finite maps and roads, roads along an axis, dogs that start on
roads, a positive retirement time, at least one connection, an archive of at
least one block, a chance of loot above zero).

`GameProofs`.  `TypeCorrect` is inductive by itself.  `LootIsInOnePlace` and
`VisibleIsOnFloor` are proved together, as `LootInv`: that every object below the
counter is somewhere and no other object is anywhere makes generating safe, and
that no object lies on two floors makes it right to hide an object when it
leaves the one it was found on.  `FloorIsBounded` is inductive on the types; its
lemmas count dogs and objects (a join adds a dog at most, a session that
generates n objects has room for n).  `RecordsAreFinal` and
`StandingDogsAreIdle` come from `RecordInv`: a standing dog has no segment, ids
of dogs are fresh and distinct, and whoever has a row is offline, has stood for
the whole retirement time and has the score of the row.  None of the last three
is inductive without the others: the row stays right because its dog gathers
nothing, and it gathers nothing because it stands.  They
assume `PromptRetirement`: the database does not fail, or each tick is shorter
than the retirement time.  Otherwise a dog that has just run may be retired at
once, by a tick that is cut short before it clears the dog's segment, and the
dog gathers along it in the next tick.  TLC finds that case when the two
are put together, and `two_maps` has ticks shorter than the retirement time.

`LedgerIsKept` is the refinement of `LootLedger`: the mapping reads the stage and
the holder of an object off the floors, the bags and the scores, and `LootInv`
gives it one of each, so that generating is a birth, gathering takes from a
floor, and banking moves all that a bag holds to the same player's score.

The second half of `GameProofs` is about `GamePersistence`.  The file is as well typed as the game it was written
from (`SavedTypeOK`), and what is restored is well typed because the ranks of the
maps are numbers, so that there is a first session whose loot all get
(`PersistentTypesCorrect`).  `RetiredStayRecorded` needs the same of the running game and of the file,
which may be older than the table: the rows outlive the process, so the player
that a crash brings back as playing may have a row, but not the converse.
It assumes a working database.  `TokensFindTheirs` says of the game and of the file
that the tokens are those of the joins they contain, and that the numbers of joins
are not used again, also when the joins were lost.  `ShutdownLosesNothing` assumes one map; its
invariant says that the copy of a session that a player holds is what the
players before it left (`CopiesInOrder`), which is how they are restored, and
that all loot lies in sessions that exist.

`ConnectionPoolProofs`.  The types rest on the count of the connections that are
out (`CountIsRight`): only a thread that holds one returns one, so the counter
stays above zero.  `PoolIsSound` together with the types is inductive:
slots below the counter are empty, no connection is in two hands, and as many
are out as the counter says.  `NoLostWakeup` is inductive with the
types and the count: a return adds a free connection and the thread that will
notify; a notification hands its place to the thread it wakes, unless nobody
sleeps; and a thread falls asleep only when nothing is free.  `PoolIsExclusive` maps a step of the pool to lending, giving back or a
stutter.

`StateFileProofs`.  `FileInv` says what each stage leaves behind; in particular
a process that died left the last good file or one that is visibly cut short,
and a file that is cut short belongs to a save that did not end, or to one whose
last block was refused (`EndedSavesAreWhole`).  `LostIsShort` is needed beside it:
what was lost stays short until the next save is renamed over it.

`HttpServerProofs`.  `GameIsTouchedByOne` rests on the two variables of a
session: a response is being made only for the session that runs in the strand,
or beside it for a file request (`front` is then "page").  The types need that a
request is answered only after it was read: whoever is in a handler has taken
one.  `OneThingIsPending` counts, for each connection, the reads, the writes, the
places in the queue of the strand, the strand and the thread of its reader; three
lemmas count a task in a queue that grows or shrinks.  With the mutual exclusion
it is inductive: a write is begun by whoever holds the request in the strand or
beside it, and never by both.  `ExchangeIsKept` adds that a connected client has
been answered all that was read but the request in hand, which the outstanding
write answers.

`ServerLifecycleProofs`.  One invariant says where the threads are in each phase
and that whoever is in the middle of a change is in a handler.  With the threads
joined nobody is, which makes the last save whole; and a tick that saves is alone
with the game.  `FileNeverGoesBack` needs that the game a server plays is never
behind its file (`GameIsAhead`): it is restored from it before it is changed.

`GameApiProofs`.  `StepKinds` reduces the many requests to four kinds of steps:
a refusal or an answer changes nothing, a player joins, a player's dog turns,
players retire.  Each theorem then has four cases.  `TokensAreTheirOwn` rests on
the fresh token and on players being numbered in the order they join.
`RefusalsChangeNothing` has the same cases: in the handlers no early return and no
catch follows a change, except in a tick, of which it says nothing when the answer
is 400.

`CollisionDetectorProofs`, on `Movement`.  `VisitLeadsForward` and `VisitsCommute`
are about one round of the road loop and about two.  The whole loop is summed up
by `Reaches` (`RunReaches`): it ends at the full distance if some road of the
dog's point allows it, and otherwise at the farthest limit, stopped, in
whatever order the roads come; hence `OrderOfRoadsIsIrrelevant`.
The inductive invariant is `AtPointOfRoad`: the position of a dog is rounded to a
point of some road, one that lies between the ends of the road.  The road map
also enters a road one point beyond its end, so that the invariant has to show
that a dog that is led by such an entry cannot leave: `StaysOnRoad` and
`MovedTo` give each step a road whose points lead from the dog's point to where
it is taken.  `DogsStayAtRoads` and `NoDogHangs` (a point of a
road is entered in the map, so the loop has a road) follow for ticks of
any length, and with them `TicksAreThoseOfGame`: what the road loop does to a
dog is one of the `Outcomes` that `Game` allows.

`PeriodOfTicksIsIrrelevant`, `DogsStopAtDeadEnds` and
`NothingIsMissedBetweenTicks` assume `ShortTicks`: no dog can run a whole unit in
a tick.  The assumption is needed.  The loop sees the roads of the point where
the tick begins; a dog that can run past the next point is stopped at the end of
its road although another one goes on there, which two shorter ticks would have
found.  With it, a dog that comes to another point by a road can run every tick
to its end on that road (`RoadToTheNextPoint`).  Distances below a unit keep the
rounding of halves away from zero, which differs on the two sides of zero, from
mattering.  A ticker of 50 ms keeps to it below a speed of 20 units a second; a
client that ticks with a long `timeDelta` does not.  With ticks of 17 tenths TLC
finds a dog of the town that is stopped where a road goes on, and with ticks of 7
and 14 one that two ticks lead elsewhere than one.

`CollisionDetectorProofs`, on `CollisionDetector`.  `GatheringCorrect` is
Lagrange's identity, |u|^2 |v|^2 - (u.v)^2 = (u x v)^2, and the same for the
second end of the segment.  `NothingIsMissedAtACut`
says that what a segment along an axis meets is met by one of its parts, wherever
it is cut in two, and that its parts meet nothing else; with the movement above
it gives `NothingIsMissedBetweenTicks` for the ways of dogs.  `EventsComeInOrder`
is the invariant of the insertion sort: the comparison with a tolerance is
asymmetric but its negation is not transitive, so that only neighbours are
shown to be in order, which is all that holds.

`LootGeneratorProofs`.  `NoMoreThanTheShortage` bounds what the rounding of the
code can give, for every time that has run up; `NoLootWithoutLooter` follows
along the sequence of the sessions, with the types, and `GeneratorIsThatOfGame`
says that the amount is one that `EnoughLoot` of `Game` allows.  `NothingIsHiddenByLongest`
justifies the bound on the clock: once less than half an object is missing of
the largest shortage, all that is short comes, then and for ever after, so that
times beyond `Longest` need not be told apart.

The loops over roads, items, events and sessions are recursive functions on the
places of a sequence.  The prover has no induction, but it has the
least element of a set of numbers (`LeastNumber`); `UpTo` makes of it a principle
for sets, "what holds at 0 and is passed on", and `Iteration` shows that the
function a loop is defined as exists.  A proof along a sequence names the set of
places where the claim holds and applies `UpTo`.  (These few lemmas stand in
two modules, `CollisionDetectorProofs` and `LootGeneratorProofs`, that share
nothing else.)

Only model-checked: liveness (`TickCompletes`, `StandingDogRetires`,
`FreeConnectionIsTaken`, `RequestIsSettled`, `StopsWhenTold`, `ShortageIsMet`),
which the prover does not handle under fairness.

## 6. Not modelled, and the plan

Left out, and why:

- *Static files* (`src/request_handler.cpp:12-45, 454-528`): which file a path
  names and what type its name gives is input and output without state.  That
  file requests run beside the strand, and what they do to the shared variables,
  is in `HttpServer`.
- *The configuration parser* but for `LoadRoad`: it runs once, before anything
  else, and has no state that several steps share.
- *The utilities* (`src/util`, `src/sdk.h`): typed wrappers.
- *What answers list*: players, positions, loot and records as JSON.
- *Prices of loot*: a score is the objects and the maps that priced them.
- *Restoring names and the clock of a game*: `ShutdownKeepsGame` speaks of
  the rest.  The clock is restored through an int (`src/serialization.cpp:39`),
  which moves the times of saves only.
- *Rounding of doubles* in positions, times and probabilities.
- *Negative durations*, and the part of a millisecond that the ticker forgets
  (`src/request_handler.h:66`).
- *Undefined reads*: the office provider keeps a reference to a parameter
  (`src/collision_detector.h:99`), and a price may be looked up past the end of
  a list (`src/application.h:167`).  `Game` has any dog meet an office or none.

What is left to do: the clock of the game in what is saved and restored.
