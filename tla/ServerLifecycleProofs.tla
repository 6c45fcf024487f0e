----------------------- MODULE ServerLifecycleProofs -----------------------
(***************************************************************************)
(* Theorems about ServerLifecycle, for any number of worker threads.       *)
(***************************************************************************)
EXTENDS ServerLifecycle, TLAPS

LEMMA TypeOKInit == Init => TypeOK
  <1> SUFFICES ASSUME Init PROVE TypeOK
    OBVIOUS
  <1>1. /\ changing \in Threads \cup {Nobody}
        /\ thread \in [Threads -> {"away", "idle", "handling", "back"}]
        /\ \A t \in Threads : thread[t] = "handling" <=> changing = t
    BY ThreadsAssumption DEF Init, Threads
  <1>2. unsaved \in -1 .. MaxUnsaved /\ disk \in Nat \cup {-1} /\ game \in Nat
    BY BoundsAssumption DEF Init
  <1> QED
    BY <1>1, <1>2 DEF Init, TypeOK

\* The strand has one task, and the thread that makes it is the one that is
\* handling: the part of the type that several actions keep together.
LEMMA ChangeType ==
    ASSUME TypeOK, NEW t \in Threads, Change(t)
    PROVE  /\ game' \in Nat
           /\ thread' \in [Threads -> {"away", "idle", "handling", "back"}]
           /\ changing' \in Threads \cup {Nobody}
           /\ \A u \in Threads : thread'[u] = "handling" <=> changing' = u
           /\ changing = t
  <1>1. CASE changing' = Nobody /\ thread' = [thread EXCEPT ![t] = "idle"]
    BY <1>1, ThreadsAssumption DEF Change, TypeOK, Threads
  <1>2. CASE UNCHANGED <<changing, thread>>
    BY <1>2 DEF Change, TypeOK
  <1> QED
    BY <1>1, <1>2 DEF Change

LEMMA TypeOKStep ==
    ASSUME TypeOK, NEW t \in Threads, Alive, Step(t) PROVE TypeOK'
  <1> USE DEF TypeOK, gameVars, Alive
  <1>1. CASE Begin(t)
    BY <1>1, ThreadsAssumption DEF Begin, Threads
  <1>2. CASE Finish(t)
    BY <1>2, ChangeType DEF Finish
  <1>3. CASE FinishTick(t)
    <2>1. changing = t /\ Written(t) = game
      BY <1>3, ChangeType DEF FinishTick, Written
    <2>2. disk' \in Nat \cup {-1}
      BY <1>3, <2>1 DEF FinishTick
    <2>3. unsaved' \in -1 .. MaxUnsaved
      BY <1>3, BoundsAssumption DEF FinishTick
    <2>4. Change(t) /\ UNCHANGED <<given, savePeriod, phase, stopped, signal, exit>>
      BY <1>3 DEF FinishTick
    <2> QED
      BY <2>2, <2>3, <2>4, ChangeType
  <1>4. CASE Throw(t)
    BY <1>4, ThreadsAssumption DEF Throw, End, Threads
  <1>5. CASE HandleSignal(t)
    BY <1>5 DEF HandleSignal
  <1>6. CASE Return(t)
    BY <1>6, ThreadsAssumption DEF Return, Threads
  <1> QED
    BY <1>1, <1>2, <1>3, <1>4, <1>5, <1>6 DEF Step

-----------------------------------------------------------------------------
\* Before the threads run nobody has touched the game or its file.
BeforeServing ==
    phase \in {"parse", "start"} =>
        /\ disk \in Nat /\ ~stopped /\ changing = Nobody
        /\ \A t \in Threads : thread[t] = "away"

\* A thread is back because of the stop, but for a main thread that threw.
BackWhenStopped ==
    \A t \in Threads : thread[t] = "back" =>
        stopped \/ (t = Main /\ phase \in {"unwind", "over"})

\* The last save is made when no thread runs.
AloneAtTheEnd == phase = "save" => stopped /\ \A t \in Threads : thread[t] = "back"

\* The game goes on from the one in the file, for a server that was given one.
GameIsAhead == phase \in {"serve", "unwind", "save"} /\ Saves => disk =< game

LifeInv ==
    /\ TypeOK /\ BeforeServing /\ BackWhenStopped /\ AloneAtTheEnd /\ GameIsAhead
    /\ DiskIsWhole /\ SuccessKeepsGame

LEMMA LifeInit == Init => LifeInv
  <1> SUFFICES ASSUME Init PROVE LifeInv
    OBVIOUS
  <1>1. BeforeServing /\ BackWhenStopped /\ AloneAtTheEnd /\ GameIsAhead
        /\ DiskIsWhole /\ SuccessKeepsGame
    BY DEF Init, BeforeServing, BackWhenStopped, AloneAtTheEnd, GameIsAhead,
       DiskIsWhole, SuccessKeepsGame
  <1> QED
    BY <1>1, TypeOKInit DEF LifeInv

\* What a thread does in run, where a tick may save.
LEMMA LifeStep ==
    ASSUME LifeInv, NEW t \in Threads, Alive, Step(t)
    PROVE  LifeInv' /\ (disk' # disk => Saves /\ disk' > disk)
  <1> USE DEF LifeInv
  <1>1. TypeOK'
    BY TypeOKStep
  <1>2. thread[t] \in {"idle", "handling"}
    BY DEF Step, Begin, Finish, FinishTick, Change, Throw, HandleSignal, Return
  <1>3. phase \in {"serve", "unwind"}
    BY <1>2 DEF BeforeServing, AloneAtTheEnd, TypeOK, Alive
  <1>4. /\ phase' \in {phase, "unwind", "over"}
        /\ exit' \in {exit, "abort"}
        /\ stopped => stopped'
        /\ given' = given
    <2>1. CASE FinishTick(t)
      BY <2>1 DEF FinishTick
    <2> QED
      BY <2>1 DEF Step, Begin, Finish, Throw, HandleSignal, Return, End, gameVars
  <1>a. game' \in {game, game + 1}
    BY DEF Step, Begin, Finish, FinishTick, Change, Throw, HandleSignal, Return, gameVars
  <1>b. disk' = disk \/ (Saves /\ disk' = game)
    <2>1. CASE FinishTick(t)
      <3>1. Written(t) = game
        BY <2>1, ChangeType DEF FinishTick, Written
      <3> QED
        BY <2>1, <3>1 DEF FinishTick
    <2> QED
      BY <2>1 DEF Step, Begin, Finish, Throw, HandleSignal, Return, gameVars
  <1>c. (Saves => disk =< game) /\ game \in Nat /\ disk \in Nat \cup {-1}
    BY <1>3 DEF GameIsAhead, TypeOK
  <1>d. (disk' # disk => Saves /\ disk' > disk) /\ (Saves => disk' =< game')
    BY <1>a, <1>b, <1>c
  <1>e. disk' # -1
    BY <1>b, <1>c DEF DiskIsWhole
  <1>5. BackWhenStopped'
    <2>1. \A u \in Threads \ {t} : thread'[u] = thread[u]
      BY DEF Step, Begin, Finish, FinishTick, Change, Throw, HandleSignal, Return, TypeOK
    <2>2. thread'[t] = "back" => stopped' \/ (t = Main /\ phase' = "unwind")
      BY DEF Step, Begin, Finish, FinishTick, Change, Throw, HandleSignal, Return, TypeOK
    <2>3. phase \in {"unwind", "over"} => phase' \in {"unwind", "over"}
      BY <1>4
    <2> QED
      BY <2>1, <2>2, <2>3, <1>4 DEF BackWhenStopped
  <1>6. exit = "none" /\ phase' # "save"
    BY <1>3, <1>4 DEF Alive
  <1>7. exit' # "success" /\ phase' \notin {"parse", "start", "save"}
    BY <1>3, <1>4, <1>6
  <1> QED
    BY <1>1, <1>4, <1>5, <1>7, <1>d, <1>e DEF BeforeServing, AloneAtTheEnd, GameIsAhead,
       DiskIsWhole, SuccessKeepsGame, Saves

\* What main() does, and the signal.
LEMMA LifeMain ==
    ASSUME LifeInv, Alive,
           ParseEnds \/ Parse \/ StartFails \/ Start \/ LeaveRun \/ Unwound \/ Save \/ SendSignal
    PROVE  LifeInv' /\ (disk' # disk => Saves /\ disk' > disk)
  <1> USE BoundsAssumption, ThreadsAssumption DEF LifeInv, TypeOK, BeforeServing,
          BackWhenStopped, AloneAtTheEnd, GameIsAhead, DiskIsWhole, SuccessKeepsGame,
          Alive, End, gameVars, Saves
  <1>1. CASE ParseEnds
    BY <1>1 DEF ParseEnds
  <1>2. CASE Parse
    BY <1>2 DEF Parse
  <1>3. CASE StartFails
    BY <1>3 DEF StartFails
  <1>4. CASE Start
    BY <1>4 DEF Start
  <1>5. CASE LeaveRun
    BY <1>5 DEF LeaveRun, WorkersJoined, Threads
  <1>6. CASE Unwound
    BY <1>6 DEF Unwound
  <1>7. CASE Save
    <2>1. Written(Main) = game
      BY <1>7 DEF Save, Written
    <2> QED
      BY <1>7, <2>1 DEF Save
  <1>8. CASE SendSignal
    BY <1>8 DEF SendSignal
  <1> QED
    BY <1>1, <1>2, <1>3, <1>4, <1>5, <1>6, <1>7, <1>8

LEMMA LifeNext == LifeInv /\ [Next]_vars => LifeInv'
  <1>1. LifeInv /\ UNCHANGED vars => LifeInv'
    BY DEF LifeInv, TypeOK, BeforeServing, BackWhenStopped, AloneAtTheEnd, GameIsAhead,
       DiskIsWhole, SuccessKeepsGame, Saves, vars, gameVars
  <1> QED
    BY <1>1, LifeStep, LifeMain DEF Next, Ended

\* Every variable keeps its type, whatever threads there are (main.cpp:99-108).
THEOREM TypeCorrect == Spec => []TypeOK
  <1>1. LifeInv => TypeOK
    BY DEF LifeInv
  <1> QED
    BY <1>1, LifeInit, LifeNext, PTL DEF Spec

\* Whoever saves is alone with the game (main.cpp:99-108, 194-199).
THEOREM DiskStaysWhole == Spec => []DiskIsWhole
  <1>1. LifeInv => DiskIsWhole
    BY DEF LifeInv
  <1> QED
    BY <1>1, LifeInit, LifeNext, PTL DEF Spec

\* A server that reports success has lost nothing (main.cpp:161-165, 194-199).
THEOREM SuccessLosesNothing == Spec => []SuccessKeepsGame
  <1>1. LifeInv => SuccessKeepsGame
    BY DEF LifeInv
  <1> QED
    BY <1>1, LifeInit, LifeNext, PTL DEF Spec

\* The file is changed only to a later state of the game it had, with or without
\* a period of saves (main.cpp:114-165, 194-203).
THEOREM FileNeverGoesBack == Spec => FileOnlyAdvances
  <1> DEFINE Advance == disk' # disk => Saves /\ disk' > disk
  <1>1. LifeInv /\ [Next]_vars => [Advance]_vars
    <2> SUFFICES ASSUME LifeInv, Next PROVE Advance
      OBVIOUS
    <2>1. CASE Ended
      BY <2>1 DEF Ended, vars
    <2> QED
      BY <2>1, LifeStep, LifeMain DEF Next
  <1> QED
    BY <1>1, LifeInit, LifeNext, PTL DEF Spec, FileOnlyAdvances
=============================================================================
