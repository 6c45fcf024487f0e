------------------------------ MODULE StateFile -----------------------------
(***************************************************************************)
(* How the state file is written and read (serialization.cpp:95-114), with *)
(* the process dying at any point, and every call failing.  SerializeGame  *)
(* opens path_tmp, writes the archive into the buffer of an ofstream,      *)
(* renames path_tmp to path, and only then, when the stream is destroyed   *)
(* at the end of the function, does the rest of the buffer reach the file. *)
(*                                                                         *)
(* A file is abstracted to the save it comes from and the number of blocks *)
(* that reached it, a block being what the buffer of the stream holds.     *)
(***************************************************************************)
EXTENDS Naturals

CONSTANTS
    Blocks,   \* the length of an archive
    MaxSaves  \* bound: saves ever begun

ASSUME BlocksAssumption == Blocks \in Nat \ {0} /\ MaxSaves \in Nat

VARIABLES
    path,     \* the state file
    tmp,      \* the temporary file
    step,     \* where SerializeGame is, or the state of the process
    written,  \* blocks the archive gave to the stream
    save,     \* the number of the last save begun
    durable,  \* the last save that ended: SerializeGame returned
    lost      \* its stream could not write what it still kept

vars == <<path, tmp, step, written, save, durable, lost>>

\* Save 0 is the file that is not there.
File(s, b) == [save |-> s, blocks |-> b]
Missing == File(0, Blocks)
Complete(file) == file.blocks = Blocks

Init ==
    /\ path = Missing
    /\ tmp = Missing
    /\ step = "running"
    /\ written = 0
    /\ save = 0
    /\ durable = 0
    /\ lost = FALSE

-----------------------------------------------------------------------------
(* Slips that the code could contain and does not.                          *)

\* The archive is written over the state file.
OpenInPlace ==
    /\ step = "running"
    /\ save < MaxSaves
    /\ save' = save + 1
    /\ path' = File(save', 0)
    /\ written' = 0
    /\ step' = "writing"
    /\ UNCHANGED <<tmp, durable, lost>>

\* The stream is neither closed nor destroyed: it lives as long as the process.
CloseLater ==
    /\ step = "renamed"
    /\ durable' = save
    /\ lost' = FALSE
    /\ step' = "running"
    /\ UNCHANGED <<path, tmp, written, save>>

-----------------------------------------------------------------------------
\* std::ofstream out(tmp_path): what was left there is truncated.
Open ==
    /\ step = "running"
    /\ save < MaxSaves
    /\ save' = save + 1
    /\ tmp' = File(save', 0)
    /\ written' = 0
    /\ step' = "writing"
    /\ UNCHANGED <<path, durable, lost>>

\* ar << app_serializer: the stream keeps a block and passes on the earlier ones.
Write ==
    /\ step = "writing"
    /\ written < Blocks
    /\ written' = written + 1
    /\ tmp' = [tmp EXCEPT !.blocks = written]
    /\ UNCHANGED <<path, step, save, durable, lost>>

\* The archive throws, for the stream cannot write or was not opened, or the
\* rename throws, when all is written.  What the stream keeps may still reach
\* the file when it is destroyed.
SaveFails ==
    /\ step = "writing"
    /\ tmp' \in {tmp, [tmp EXCEPT !.blocks = written]}
    /\ step' = "running"
    /\ UNCHANGED <<path, written, save, durable, lost>>

\* std::filesystem::rename: the stream goes on writing to the same file.
Rename ==
    /\ step = "writing"
    /\ written = Blocks
    /\ path' = tmp
    /\ tmp' = Missing
    /\ step' = "renamed"
    /\ UNCHANGED <<written, save, durable, lost>>

\* The destructor of the stream writes what it still keeps.
Close ==
    /\ step = "renamed"
    /\ path' = [path EXCEPT !.blocks = Blocks]
    /\ durable' = save
    /\ lost' = FALSE
    /\ step' = "running"
    /\ UNCHANGED <<tmp, written, save>>

\* The destructor cannot write it, and SerializeGame returns all the same: a
\* destructor does not say that it failed.
CloseShort ==
    /\ step = "renamed"
    /\ durable' = save
    /\ lost' = TRUE
    /\ step' = "running"
    /\ UNCHANGED <<path, tmp, written, save>>

\* The process dies and what its stream kept is gone.
Crash ==
    /\ step \in {"running", "writing", "renamed"}
    /\ step' = "down"
    /\ written' = 0
    /\ UNCHANGED <<path, tmp, save, durable, lost>>

\* DeserializeGame at the next start: a missing file is a new game; reading a
\* file that is cut short throws, and main ends with the exception.
Start ==
    /\ step \in {"down", "refused"}
    /\ step' = IF Complete(path) THEN "running" ELSE "refused"
    /\ UNCHANGED <<path, tmp, written, save, durable, lost>>

Next ==
    \/ Open \/ Write \/ SaveFails \/ Rename \/ Close \/ CloseShort
    \/ Crash \/ Start

Spec == Init /\ [][Next]_vars
-----------------------------------------------------------------------------
\* Every variable has its type.
TypeOK ==
    /\ path \in [save : 0 .. MaxSaves, blocks : 0 .. Blocks]
    /\ tmp \in [save : 0 .. MaxSaves, blocks : 0 .. Blocks]
    /\ step \in {"running", "writing", "renamed", "down", "refused"}
    /\ written \in 0 .. Blocks
    /\ save \in 0 .. MaxSaves
    /\ durable \in 0 .. save
    /\ lost \in BOOLEAN

\* Until a new save is renamed, the state file is the last one that was saved,
\* whole: a crash or a failure while the archive is written costs nothing but
\* that save, and whatever it left in the temporary file is not taken for the
\* game (serialization.cpp:97-102).  Nothing is claimed of a save whose end the
\* disk had no room for, which goes on unnoticed.
LastSaveSurvives ==
    step \in {"running", "writing"} /\ ~lost => path = File(durable, Blocks)

\* A server that starts again plays a save that is whole and not older than
\* the last one that ended; it never goes back to an older one.
NeverGoesBack == path.save >= durable

\* A state file that is cut short, with which no server starts, is that of a
\* save which never ended, by a crash after the rename and before the stream is
\* closed, or of one whose last blocks the disk refused: any other save that has
\* ended can be restored (serialization.cpp:97-103).
EndedSaveIsWhole == ~Complete(path) => path.save > durable \/ lost
=============================================================================
