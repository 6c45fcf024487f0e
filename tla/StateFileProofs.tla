--------------------------- MODULE StateFileProofs --------------------------
(***************************************************************************)
(* Theorems about StateFile, for archives of every length.                 *)
(***************************************************************************)
EXTENDS StateFile, TLAPS

LEMMA TypeOKInit == Init => TypeOK
<1>. SUFFICES ASSUME Init PROVE TypeOK
  OBVIOUS
<1>1. lost \in BOOLEAN
  BY DEF Init
<1>2. /\ path \in [save : 0 .. MaxSaves, blocks : 0 .. Blocks]
      /\ tmp \in [save : 0 .. MaxSaves, blocks : 0 .. Blocks]
      /\ written \in 0 .. Blocks /\ save \in 0 .. MaxSaves /\ durable \in 0 .. save
  BY BlocksAssumption DEF Init, Missing, File
<1>. QED  BY <1>1, <1>2 DEF Init, TypeOK

LEMMA TypeOKNext == TypeOK /\ [Next]_vars => TypeOK'
<1>. SUFFICES ASSUME TypeOK, [Next]_vars PROVE TypeOK'
  OBVIOUS
<1>. USE BlocksAssumption DEF TypeOK
<1>1. CASE Open
  <2>1. save' \in 0 .. MaxSaves /\ durable' \in 0 .. save'
    BY <1>1 DEF Open
  <2>2. tmp' \in [save : 0 .. MaxSaves, blocks : 0 .. Blocks]
    BY <1>1, <2>1 DEF Open, File
  <2>. QED  BY <1>1, <2>1, <2>2 DEF Open
<1>2. CASE Write
  <2>1. tmp' \in [save : 0 .. MaxSaves, blocks : 0 .. Blocks]
    BY <1>2 DEF Write
  <2>. QED  BY <1>2, <2>1 DEF Write
<1>3. CASE Rename
  BY <1>3 DEF Rename, Missing, File
<1>4. CASE Close
  <2>1. path' \in [save : 0 .. MaxSaves, blocks : 0 .. Blocks]
    BY <1>4 DEF Close
  <2>2. lost' \in BOOLEAN
    BY <1>4 DEF Close
  <2>. QED  BY <1>4, <2>1, <2>2 DEF Close
<1>5. CASE Crash
  BY <1>5 DEF Crash
<1>8. CASE SaveFails
  <2>1. tmp' \in [save : 0 .. MaxSaves, blocks : 0 .. Blocks]
    BY <1>8 DEF SaveFails
  <2>. QED  BY <1>8, <2>1 DEF SaveFails
<1>9. CASE CloseShort
  BY <1>9 DEF CloseShort
<1>6. CASE Start
  BY <1>6 DEF Start
<1>7. CASE UNCHANGED vars
  BY <1>7 DEF vars
<1>. QED  BY <1>1, <1>2, <1>3, <1>4, <1>5, <1>6, <1>7, <1>8, <1>9 DEF Next

\* The files hold blocks of saves that were begun (serialization.cpp:95-114).
THEOREM TypeCorrect == Spec => []TypeOK
BY TypeOKInit, TypeOKNext, PTL DEF Spec
-----------------------------------------------------------------------------
\* While an archive is written, the temporary file is the one of this save,
\* which has not ended, and part of the archive is still in the stream.
WritingInTmp ==
    step = "writing" => tmp.save = save /\ tmp.blocks < Blocks /\ durable < save

\* After the rename the state file is such a file.
RenamedUnfinished ==
    step = "renamed" => path.save = save /\ path.blocks < Blocks /\ durable < save

\* A process that died left a file that is cut short or the last good one:
\* without this a start could go on from anything.
DownLeavesGoodOrShort ==
    step \in {"down", "refused"} =>
        /\ durable =< path.save
        /\ Complete(path) => path = File(durable, Blocks) /\ ~lost
        /\ ~Complete(path) => durable < path.save \/ lost

\* A save whose end was lost left a file that is cut short, until the next one
\* takes its place.
LostIsShort ==
    step \in {"running", "writing"} /\ lost => path.save = durable /\ path.blocks < Blocks

FileInv == TypeOK /\ LastSaveSurvives /\ WritingInTmp /\ RenamedUnfinished
           /\ DownLeavesGoodOrShort /\ LostIsShort

LEMMA FileInvInit == Init => FileInv
<1>. SUFFICES ASSUME Init PROVE FileInv
  OBVIOUS
<1>. QED  BY TypeOKInit
    DEF Init, FileInv, LastSaveSurvives, WritingInTmp, RenamedUnfinished,
        DownLeavesGoodOrShort, LostIsShort, Missing, File

LEMMA FileInvNext == FileInv /\ [Next]_vars => FileInv'
<1>. SUFFICES ASSUME FileInv, [Next]_vars PROVE FileInv'
  OBVIOUS
<1>1. TypeOK'
  BY TypeOKNext DEF FileInv
<1>. USE BlocksAssumption DEF FileInv, TypeOK
<1>2. CASE Open
  <2>1. LastSaveSurvives' /\ LostIsShort'
    BY <1>2 DEF Open, LastSaveSurvives, LostIsShort, File
  <2>2. WritingInTmp'
    BY <1>2 DEF Open, WritingInTmp, File
  <2>. QED
    BY <1>1, <1>2, <2>1, <2>2 DEF Open, RenamedUnfinished, DownLeavesGoodOrShort
<1>3. CASE Write
  <2>1. LastSaveSurvives' /\ LostIsShort'
    BY <1>3 DEF Write, LastSaveSurvives, LostIsShort, File
  <2>2. WritingInTmp'
    BY <1>3 DEF Write, WritingInTmp
  <2>. QED
    BY <1>1, <1>3, <2>1, <2>2 DEF Write, RenamedUnfinished, DownLeavesGoodOrShort
<1>4. CASE SaveFails
  <2>1. LastSaveSurvives' /\ LostIsShort'
    BY <1>4 DEF SaveFails, LastSaveSurvives, LostIsShort, File
  <2>. QED
    BY <1>1, <1>4, <2>1
    DEF SaveFails, WritingInTmp, RenamedUnfinished, DownLeavesGoodOrShort
<1>5. CASE Rename
  <2>1. RenamedUnfinished'
    BY <1>5 DEF Rename, RenamedUnfinished, WritingInTmp
  <2>. QED
    BY <1>1, <1>5, <2>1
    DEF Rename, LastSaveSurvives, WritingInTmp, DownLeavesGoodOrShort, LostIsShort
<1>6. CASE Close
  <2>1. path' = File(durable', Blocks) /\ ~lost'
    BY <1>6 DEF Close, RenamedUnfinished, File
  <2>. QED
    BY <1>1, <1>6, <2>1
    DEF Close, LastSaveSurvives, WritingInTmp, RenamedUnfinished, DownLeavesGoodOrShort,
        LostIsShort, File
<1>7. CASE CloseShort
  <2>1. path'.save = durable' /\ path'.blocks < Blocks /\ lost' /\ step' = "running"
    BY <1>7 DEF CloseShort, RenamedUnfinished
  <2>. QED
    BY <1>1, <2>1
    DEF LastSaveSurvives, WritingInTmp, RenamedUnfinished, DownLeavesGoodOrShort, LostIsShort
<1>8. CASE Crash
  <2>1. DownLeavesGoodOrShort'
    <3>1. CASE step \in {"running", "writing"} /\ ~lost
      BY <1>8, <3>1 DEF Crash, LastSaveSurvives, DownLeavesGoodOrShort, File, Complete
    <3>2. CASE step \in {"running", "writing"} /\ lost
      BY <1>8, <3>2 DEF Crash, LostIsShort, DownLeavesGoodOrShort, Complete
    <3>3. CASE step = "renamed"
      BY <1>8, <3>3 DEF Crash, RenamedUnfinished, DownLeavesGoodOrShort, Complete
    <3>. QED  BY <1>8, <3>1, <3>2, <3>3 DEF Crash
  <2>. QED
    BY <1>1, <1>8, <2>1
    DEF Crash, LastSaveSurvives, WritingInTmp, RenamedUnfinished, LostIsShort
<1>9. CASE Start
  <2>1. LastSaveSurvives' /\ LostIsShort'
    BY <1>9 DEF Start, LastSaveSurvives, LostIsShort, DownLeavesGoodOrShort, File
  <2>2. DownLeavesGoodOrShort'
    BY <1>9 DEF Start, DownLeavesGoodOrShort, Complete, File
  <2>. QED
    BY <1>1, <1>9, <2>1, <2>2 DEF Start, WritingInTmp, RenamedUnfinished
<1>10. CASE UNCHANGED vars
  BY <1>10 DEF vars, LastSaveSurvives, WritingInTmp, RenamedUnfinished,
               DownLeavesGoodOrShort, LostIsShort, Complete, File
<1>. QED  BY <1>2, <1>3, <1>4, <1>5, <1>6, <1>7, <1>8, <1>9, <1>10 DEF Next

LEMMA FileInvHolds == Spec => []FileInv
BY FileInvInit, FileInvNext, PTL DEF Spec

\* Writing an archive costs nothing until the rename, wherever it is cut off or
\* fails, if the save before was not cut short by the disk
\* (serialization.cpp:97-102).
THEOREM LastSaveIsKept == Spec => []LastSaveSurvives
<1>1. FileInv => LastSaveSurvives
  BY DEF FileInv
<1>. QED  BY FileInvHolds, <1>1, PTL

\* Only a save that did not end, or whose end the disk refused, leaves a file
\* that is cut short (serialization.cpp:97-103).
THEOREM EndedSavesAreWhole == Spec => []EndedSaveIsWhole
<1>1. FileInv => EndedSaveIsWhole
  BY BlocksAssumption
  DEF FileInv, TypeOK, EndedSaveIsWhole, LastSaveSurvives, RenamedUnfinished,
      DownLeavesGoodOrShort, File, Complete
<1>. QED  BY FileInvHolds, <1>1, PTL

\* The server never goes back before the last save that ended, also through
\* the crash that leaves the file cut short (serialization.cpp:102).
THEOREM SavesGoForward == Spec => []NeverGoesBack
<1>1. FileInv => NeverGoesBack
  BY BlocksAssumption
  DEF FileInv, TypeOK, NeverGoesBack, LastSaveSurvives, RenamedUnfinished,
      DownLeavesGoodOrShort, LostIsShort, File
<1>. QED  BY FileInvHolds, <1>1, PTL
=============================================================================
