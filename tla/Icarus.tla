-------------------------------- MODULE Icarus --------------------------------
(***************************************************************************)
(* What icarus and daedalus do, a scenario of each part: imports into a    *)
(* library, the windows, and the settings file that both programs share.   *)
(* In each scenario the other parts rest.                                  *)
(***************************************************************************)
EXTENDS SuperFamicomCartridge, SequencesExt, FiniteSets

CONSTANTS
  Scenarios,                   \* of a run
  ImportSources, ImportBound,  \* of each scenario of imports: Sources and MaxImports
  MaxImports, MaxLost,         \* of CartridgeImport
  Dirs, Home, Parent, Files, Folders, Libraries, MaxSessions,   \* ImportSession
  Processes, Keys, Own, Programs, Values, DefaultValue, MaxStarts \* SettingsFile

-------------------------------------------------------------------------------
VARIABLES
  scenario,
  pc, source, board, offset, missing, lost, reported, library, imports,
  settings, saved, pathEdit, list, visible, queue, result, abort, stopButton,
  turn, late, sessions,
  file, process, starts, chosen, disturbed

AllSources == UNION {ImportSources[n] : n \in DOMAIN ImportSources}

OfIcarus   == INSTANCE CartridgeImport WITH Program <- "icarus", Sources <- AllSources
OfDaedalus == INSTANCE CartridgeImport WITH Program <- "daedalus", Sources <- AllSources
Session    == INSTANCE ImportSession WITH
                MaxImports <- MaxSessions, imports <- sessions
Shared     == INSTANCE SettingsFile

importVars  == <<pc, source, board, offset, missing, lost, reported, library, imports>>
sessionVars == <<settings, saved, pathEdit, list, visible, queue, result, abort,
                 stopButton, turn, late, sessions>>
sharedVars  == <<file, process, starts, chosen, disturbed>>
vars == <<scenario, importVars, sessionVars, sharedVars>>

ASSUME IcarusAssumption ==
  /\ OfIcarus!ImportAssumption /\ OfDaedalus!ImportAssumption
  /\ Session!SessionAssumption /\ Shared!SettingsAssumption

Init ==
  /\ scenario \in Scenarios
  /\ Session!Init /\ Shared!Init
  /\ IF scenario = "daedalus" THEN OfDaedalus!Init ELSE OfIcarus!Init

ImportNext ==
  /\ scenario \in DOMAIN ImportSources
  /\ \/ /\ imports < ImportBound[scenario]
        /\ \E s \in ImportSources[scenario] :
             \/ scenario # "daedalus" /\ OfIcarus!Import(s)
             \/ scenario = "daedalus" /\ OfDaedalus!Import(s)
     \/ scenario # "daedalus" /\ OfIcarus!Continue
     \/ scenario = "daedalus" /\ OfDaedalus!Continue
  /\ UNCHANGED <<scenario, sessionVars, sharedVars>>
SessionStep(A) == scenario = "windows" /\ A /\ UNCHANGED <<scenario, importVars, sharedVars>>
SharedNext  == /\ scenario = "settings file" /\ Shared!Next
               /\ UNCHANGED <<scenario, importVars, sessionVars>>

Next == ImportNext \/ SessionStep(Session!Next) \/ SharedNext

(* The fairness of ImportSession.tla.                                      *)
Spec == /\ Init /\ [][Next]_vars
        /\ WF_vars(SessionStep(\/ Session!BeginNext \/ Session!ImportNext
                               \/ Session!SkipNext \/ Session!RunEnd))
        /\ WF_vars(SessionStep(Session!DismissMessage))
        /\ WF_vars(SessionStep(Session!Answer))
        /\ WF_vars(SessionStep(Session!CloseError))

-------------------------------------------------------------------------------
(* The properties of CartridgeImport.tla, of the libraries that they are   *)
(* asked of.                                                               *)
SaveIsKept          == [][scenario # "daedalus" => OfIcarus!SavesAreKept]_vars
ImportRoundTrip     ==
  scenario \in {"boards", "systems"} => OfIcarus!ImportRoundTrip /\ OfIcarus!SlicesLieInImage
ReportIsTrue        ==
  scenario # "daedalus" => OfIcarus!FailureNamesMissing /\ OfIcarus!ImportedGameIsThere
ImportedGameIsThere == scenario = "daedalus" => OfDaedalus!ImportedGameIsThere

(* Those of ImportSession.tla and of SettingsFile.tla.                     *)
EveryFileIsAccountedFor ==
  scenario = "windows" => /\ Session!EveryFileIsAccountedFor
                          /\ Session!ImportsWhatWasListed
UserHasAWindow          == scenario = "windows" => Session!UserHasAWindow
StopStops               == scenario = "windows" => Session!StopStops
ScanComesBack           == (scenario = "windows" /\ Session!Running)
                             ~> (visible = {} \/ Session!Interactive("scan"))
ChoicesAreKept          == scenario = "settings file" => Shared!ChoicesAreKept
===============================================================================
