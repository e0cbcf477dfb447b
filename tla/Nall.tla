---------------------------------- MODULE Nall ----------------------------------
(***************************************************************************)
(* Files and child processes of nall, a scenario of each: a buffered file, *)
(* and execute() on both platforms.  In each scenario the others rest.     *)
(***************************************************************************)
EXTENDS Integers, SequencesExt, FiniteSetsExt

CONSTANTS
  Scenarios,                                  \* of a run
  Bytes, Zero, NoByte, Page, MaxLength, Seeks,              \* BufferedFile
  ChildPrograms, PipeSize, PosixBuffer, WindowsBuffer       \* Execute, of each scenario

-------------------------------------------------------------------------------
VARIABLES
  scenario,
  stream, mode, file_offset, file_size, buffer, buffer_offset, buffer_dirty, value,
  parent, child, todo, pipe, wrote, collected, result

File == INSTANCE BufferedFile

AllPrograms == UNION {ChildPrograms[n] : n \in DOMAIN ChildPrograms}
OnPosix   == INSTANCE Execute WITH
               Platform <- "posix", Programs <- AllPrograms,
               BufferSize <- PosixBuffer, output <- collected
OnWindows == INSTANCE Execute WITH
               Platform <- "windows", Programs <- AllPrograms,
               BufferSize <- WindowsBuffer, output <- collected

ASSUME NallAssumption ==
  /\ File!PageAssumption
  /\ OnPosix!ExecuteAssumption /\ OnWindows!ExecuteAssumption

fileVars  == <<stream, mode, file_offset, file_size, buffer, buffer_offset, buffer_dirty, value>>
runVars   == <<parent, child, todo, pipe, wrote, collected, result>>
vars      == <<scenario, fileVars, runVars>>

(* A child that rests is one that writes nothing.                          *)
Init ==
  /\ scenario \in Scenarios
  /\ File!Init
  /\ todo \in ChildPrograms[IF scenario \in DOMAIN ChildPrograms THEN scenario ELSE "none"]
  /\ OnPosix!Init

FileNext == scenario = "file" /\ File!Next /\ UNCHANGED <<scenario, runVars>>

OnWhich(Posix, Windows) ==
  /\ scenario \in DOMAIN ChildPrograms
  /\ IF scenario = "windows" THEN Windows ELSE Posix
  /\ UNCHANGED <<scenario, fileVars>>
RunNext == OnWhich(OnPosix!Next, OnWindows!Next)

Next == FileNext \/ RunNext

(* The fairness of Execute.tla.                                            *)
Spec == /\ Init /\ [][Next]_vars
        /\ WF_vars(OnWhich(OnPosix!Parent, OnWindows!Parent))
        /\ WF_vars(OnWhich(OnPosix!Child, OnWindows!Child))

-------------------------------------------------------------------------------
(* Those of BufferedFile.tla; a file that rests is a plain one that rests. *)
IsPlainFile == File!IsPlainFile /\ File!WrittenInOrder

(* Those of Execute.tla; a fork() that fails is left out of                *)
(* SuccessMeansRan on POSIX, where it is taken for success.                *)
OutputIsComplete ==
  /\ scenario \in DOMAIN ChildPrograms \ {"windows"} => OnPosix!OutputIsComplete
  /\ scenario = "windows" => OnWindows!OutputIsComplete /\ OnWindows!SuccessMeansRan
Returns == <>(scenario \in DOMAIN ChildPrograms => parent = "done")
===============================================================================
