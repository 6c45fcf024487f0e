-------------------------- MODULE ServerLifecycle --------------------------
(***************************************************************************)
(* The life of the server process (main.cpp): the options, the start, the  *)
(* threads that run io_context, the signal that stops them, exceptions     *)
(* that leave a handler, and the save of the game at the end.              *)
(*                                                                         *)
(* The game is the number of changes it went through.  A change takes two  *)
(* steps of its thread, so that others can look at it half made.           *)
(* Abstracted: what options say, but for whether they are given; what      *)
(* handlers do, but for changing the game and throwing.  Time counts in    *)
(* the unit in which prev_saving_ begins at one.                           *)
(***************************************************************************)
EXTENDS Integers, FiniteSets

CONSTANTS
    Main,        \* the main thread
    Workers,     \* the threads of RunWorkers: hardware_concurrency() less one
    Nobody,
    CommandLines, \* the command lines: sets of options
    Period,      \* the time that --save-state-period gives
    SavesMayFail, \* whether the state file may not be writable
    MaxChanges,  \* bound: changes of the game
    MaxUnsaved   \* bound: the time since the last save

Options == {"help", "tick-period", "config-file", "www-root",
            "randomize-spawn-points", "state-file", "save-state-period"}

ASSUME ThreadsAssumption ==
    IsFiniteSet(Workers) /\ Main \notin Workers /\ Nobody \notin Workers \cup {Main}
ASSUME OptionsAssumption == CommandLines \subseteq SUBSET Options
ASSUME SavesAssumption == SavesMayFail \in BOOLEAN
ASSUME BoundsAssumption ==
    Period \in Nat \ {0} /\ MaxChanges \in Nat /\ MaxUnsaved \in Nat

Threads == Workers \cup {Main}

VARIABLES
    given,      \* the options on the command line
    savePeriod, \* Args::save_period
    phase,      \* where main() is
    thread,     \* what a thread does: "away", "idle" or "handling" in run, "back" from it
    stopped,    \* io_context::stop was called
    signal,     \* SIGINT or SIGTERM: "none", "sent" or "caught"
    game,       \* the changes of the game
    changing,   \* the thread that is in the middle of one
    disk,       \* the changes that the state file has; -1 when it is no whole game
    unsaved,    \* the time of the game since prev_saving_
    exit        \* how the process ended: success, the failures, abort or kill

gameVars == <<game, changing, unsaved>>
vars == <<given, savePeriod, phase, thread, stopped, signal, gameVars, disk, exit>>

Alive == exit = "none"
Saves == "state-file" \in given

\* What a save writes: a game that is being changed by another thread is torn.
Written(t) == IF changing \in {Nobody, t} THEN game ELSE -1
-----------------------------------------------------------------------------
\* The state file has an earlier game, or there is none: then it is 0.
Init ==
    /\ given \in CommandLines
    /\ savePeriod = 0
    /\ phase = "parse"
    /\ thread = [t \in Threads |-> "away"]
    /\ stopped = FALSE
    /\ signal = "none"
    /\ game = 0
    /\ changing = Nobody
    /\ disk \in {0, 1}
    /\ unsaved = -1
    /\ exit = "none"

End(how) == phase' = "over" /\ exit' = how
-----------------------------------------------------------------------------
(* Start.                                                                  *)

\* Help, or a mistake: an option that is not known, one without its value, the
\* same one twice, a period that is no number, or a needed one that is missing.
ParseEnds ==
    /\ phase = "parse"
    /\ \/ "help" \in given /\ End("success")
       \/ End("failure")
    /\ UNCHANGED <<given, savePeriod, thread, stopped, signal, gameVars, disk>>

\* The period of the saves is looked for under a name that no option has.
Parse ==
    /\ phase = "parse"
    /\ "help" \notin given /\ {"config-file", "www-root"} \subseteq given
    /\ savePeriod' = IF "save-period" \in given /\ Saves THEN Period ELSE 0
    /\ phase' = "start"
    /\ UNCHANGED <<given, thread, stopped, signal, gameVars, disk, exit>>

\* A slip: the state file is opened for writing before the start is complete.
StartFailsEmptying ==
    /\ phase = "start"
    /\ End("failure")
    /\ disk' = IF Saves THEN 0 ELSE disk
    /\ UNCHANGED <<given, savePeriod, thread, stopped, signal, gameVars>>

\* No database, a configuration or a state file that cannot be read, or a port
\* that is in use.
StartFails ==
    /\ phase = "start"
    /\ End("failure")
    /\ UNCHANGED <<given, savePeriod, thread, stopped, signal, gameVars, disk>>

\* The game is restored, signals are waited for, and the threads begin to serve.
\* The clock of a restored game is ahead of prev_saving_, which is not.
Start ==
    /\ phase = "start"
    /\ game' = IF Saves THEN disk ELSE game
    /\ unsaved' = IF Saves /\ disk > 0 THEN MaxUnsaved - 1 ELSE unsaved
    /\ thread' = [t \in Threads |-> "idle"]
    /\ phase' = "serve"
    /\ UNCHANGED <<given, savePeriod, stopped, signal, changing, disk, exit>>
-----------------------------------------------------------------------------
(* Slips that the code could contain and does not.                         *)

\* The workers are detached: main() does not wait for them.
LeaveRunDetached ==
    /\ phase = "serve" /\ thread[Main] = "back"
    /\ phase' = "save"
    /\ UNCHANGED <<given, savePeriod, thread, stopped, signal, gameVars, disk, exit>>

\* The io_context is not stopped: its threads wait for the end of its work.
HandleSignalWithoutStop(t) ==
    /\ thread[t] = "idle" /\ signal = "sent" /\ ~stopped
    /\ signal' = "caught"
    /\ UNCHANGED <<given, savePeriod, phase, thread, stopped, gameVars, disk, exit>>

\* The game is saved by ticks only.
SaveInTicksOnly ==
    /\ phase = "save" /\ End("success")
    /\ UNCHANGED <<given, savePeriod, thread, stopped, signal, gameVars, disk>>

-----------------------------------------------------------------------------
(* The threads in io_context::run.                                         *)

\* A handler of the API or a tick begins, in the strand.
Begin(t) ==
    /\ thread[t] = "idle" /\ ~stopped
    /\ changing = Nobody /\ game < MaxChanges
    /\ changing' = t
    /\ thread' = [thread EXCEPT ![t] = "handling"]
    /\ UNCHANGED <<given, savePeriod, phase, stopped, signal, game, unsaved, disk, exit>>

\* The change is made; the strand may have the next one ready, which the thread
\* goes on with even if run has been stopped meanwhile.
Change(t) ==
    /\ thread[t] = "handling" /\ changing = t
    /\ game' = game + 1
    /\ \/ changing' = Nobody /\ thread' = [thread EXCEPT ![t] = "idle"]
       \/ game' < MaxChanges /\ UNCHANGED <<changing, thread>>

\* The end of a request.
Finish(t) ==
    /\ Change(t)
    /\ UNCHANGED <<given, savePeriod, phase, stopped, signal, unsaved, disk, exit>>

\* The end of a tick, which moves the clock and saves when the period is over.
\* When the save fails, the tick ends there, and the next one saves.
FinishTick(t) ==
    LET time == IF unsaved < MaxUnsaved THEN unsaved + 1 ELSE unsaved
        due == Saves /\ savePeriod # 0 /\ time > savePeriod
    IN  /\ Change(t)
        /\ \E saving \in IF SavesMayFail THEN {due, FALSE} ELSE {due} :
             /\ disk' = IF saving THEN Written(t) ELSE disk
             /\ unsaved' = IF saving THEN 0 ELSE time
        /\ UNCHANGED <<given, savePeriod, phase, stopped, signal, exit>>

\* The handler of a session throws: the exception leaves run.  In a worker it
\* ends the process; in the main thread it destroys, and so joins, the workers.
Throw(t) ==
    /\ thread[t] = "idle" /\ ~stopped
    /\ IF t = Main
       THEN /\ thread' = [thread EXCEPT ![t] = "back"]
            /\ phase' = "unwind"
            /\ UNCHANGED exit
       ELSE End("abort") /\ UNCHANGED thread
    /\ UNCHANGED <<given, savePeriod, stopped, signal, gameVars, disk>>

\* The handler of the signal.
HandleSignal(t) ==
    /\ thread[t] = "idle" /\ signal = "sent" /\ ~stopped
    /\ signal' = "caught"
    /\ stopped' = TRUE
    /\ UNCHANGED <<given, savePeriod, phase, thread, gameVars, disk, exit>>

\* run returns once its thread is in no handler; what is queued is not run.
Return(t) ==
    /\ thread[t] = "idle" /\ stopped
    /\ thread' = [thread EXCEPT ![t] = "back"]
    /\ UNCHANGED <<given, savePeriod, phase, stopped, signal, gameVars, disk, exit>>
-----------------------------------------------------------------------------
(* The end.                                                                *)

WorkersJoined == \A w \in Workers : thread[w] = "back"

\* The end of RunWorkers joins the workers.
LeaveRun ==
    /\ phase = "serve" /\ thread[Main] = "back" /\ WorkersJoined
    /\ phase' = "save"
    /\ UNCHANGED <<given, savePeriod, thread, stopped, signal, gameVars, disk, exit>>

\* The exception of the main thread has reached main().
Unwound ==
    /\ phase = "unwind" /\ WorkersJoined
    /\ End("threw")
    /\ UNCHANGED <<given, savePeriod, thread, stopped, signal, gameVars, disk>>

\* The last save, if a state file was given; it may fail.
Save ==
    /\ phase = "save"
    /\ \/ disk' = (IF Saves THEN Written(Main) ELSE disk) /\ End("success")
       \/ SavesMayFail /\ Saves /\ UNCHANGED disk /\ End("saveFailed")
    /\ UNCHANGED <<given, savePeriod, thread, stopped, signal, gameVars>>

\* Somebody stops the server.  Nothing catches the signal before the start.
SendSignal ==
    /\ signal = "none"
    /\ signal' = "sent"
    /\ IF phase \in {"parse", "start"} THEN End("killed") ELSE UNCHANGED <<phase, exit>>
    /\ UNCHANGED <<given, savePeriod, thread, stopped, gameVars, disk>>

\* The process has ended and stays so.
Ended == ~Alive /\ UNCHANGED vars

Step(t) ==
    Begin(t) \/ Finish(t) \/ FinishTick(t) \/ Throw(t) \/ HandleSignal(t) \/ Return(t)

Next ==
    \/ /\ Alive
       /\ \/ ParseEnds \/ Parse \/ StartFails \/ Start
          \/ LeaveRun \/ Unwound \/ Save \/ SendSignal
          \/ \E t \in Threads : Step(t)
    \/ Ended

Spec == Init /\ [][Next]_vars

Running(A) == Alive /\ A

\* Handlers end, threads that nothing holds go on, and a thread runs the handler
\* of the signal in its turn.  No handler has to begin or to throw.
FairSpec ==
    /\ Spec
    /\ WF_vars(Running(LeaveRun \/ Unwound \/ Save))
    /\ \A t \in Threads :
         /\ WF_vars(Running(Finish(t) \/ FinishTick(t) \/ Return(t)))
         /\ SF_vars(Running(HandleSignal(t)))
-----------------------------------------------------------------------------
\* Every variable has its type.
TypeOK ==
    /\ given \in CommandLines /\ savePeriod \in {0, Period}
    /\ phase \in {"parse", "start", "serve", "unwind", "save", "over"}
    /\ thread \in [Threads -> {"away", "idle", "handling", "back"}]
    /\ stopped \in BOOLEAN /\ signal \in {"none", "sent", "caught"}
    /\ game \in Nat /\ disk \in Nat \cup {-1}
    /\ changing \in Threads \cup {Nobody}
    /\ \A t \in Threads : thread[t] = "handling" <=> changing = t
    /\ unsaved \in -1 .. MaxUnsaved
    /\ exit \in {"none", "success", "failure", "threw", "saveFailed", "abort", "killed"}
    /\ exit = "none" <=> phase # "over"

\* What a save writes is a whole game, for whoever saves is alone with it
\* (main.cpp:194-199, application.h:37-39).  A save is one step here, done or
\* failed with the file as it was: a crash within one is the subject of StateFile.
DiskIsWhole == disk # -1

\* A server that was serving and reports success has saved the last change of
\* its game (main.cpp:161-165, 194-199).
SuccessKeepsGame ==
    exit = "success" /\ stopped /\ Saves => disk = game

\* The state file is changed only by a server that was given it, and only to a
\* later state of the game that it had: a start that fails, a help text, a tick
\* or an end never lose what earlier runs have saved (main.cpp:114-165, 194-203).
FileOnlyAdvances == [][disk' # disk => Saves /\ disk' > disk]_vars

\* With a state file and --save-state-period, no tick goes by without a save once
\* the period is over (README.md:54, 63; main.cpp:92, application.h:37-40).
SavesPeriodically ==
    [][/\ phase = "serve" /\ {"state-file", "save-state-period"} \subseteq given
       /\ unsaved' > unsaved
       => unsaved' =< Period]_vars

\* A server that is told to stop ends, whatever its threads are doing.
StopsWhenTold == signal = "sent" ~> ~Alive
=============================================================================
