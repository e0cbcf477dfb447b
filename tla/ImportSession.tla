---------------------------- MODULE ImportSession ----------------------------
(***************************************************************************)
(* The windows of icarus (daedalus has the same): the scan dialog, which   *)
(* lists a directory, the import dialog, which imports the checked files   *)
(* and lets events in before each, the message that ends it, the error log *)
(* and the settings dialog, which may stay open throughout.                *)
(*                                                                         *)
(* The import dialog lets events in when it is shown (GTK+'s setVisible)   *)
(* and in every file's turn, after it has looked at abort and before the   *)
(* file is imported.                                                       *)
(*                                                                         *)
(* ScanDialog::refresh lets events in too, but only when all else is done, *)
(* so it is one step with the callback that calls it.                      *)
(***************************************************************************)
EXTENDS Integers, Sequences, SequencesExt

CONSTANTS
  Dirs,       \* directories, as the path edit may name them
  Home,       \* Path::user()
  Parent,     \* [Dirs -> Dirs], Location::dir
  Files,      \* [Dirs -> sets of names], the files that look like ROMs
  Folders,    \* [Dirs -> SUBSET Dirs], without the cartridge folders
  Libraries,  \* what the settings dialog may select
  MaxImports  \* bound: sessions

SessionAssumption ==
  /\ Home \in Dirs /\ Parent \in [Dirs -> Dirs]
  /\ DOMAIN Files = Dirs /\ \A d \in Dirs : IsFiniteSet(Files[d])
  /\ Folders \in [Dirs -> SUBSET Dirs]
  /\ MaxImports \in Nat

VARIABLES
  settings,   \* [path, library], in memory
  saved,      \* settings.bml
  pathEdit,
  list,       \* the scan list: where it comes from, what is checked
  visible,    \* the windows on the screen; "message" and "question" are modal
  queue,      \* locations that run() has not come to
  result,     \* and what became of the others
  abort,
  stopButton, \* enabled
  turn,       \* of run(): "shown", "begun" for the next file, or "over"
  late,       \* history: the files imported since Stop
  imports

vars == <<settings, saved, pathEdit, list, visible, queue, result, abort,
          stopButton, turn, late, imports>>
session == <<queue, result, abort, stopButton, turn, late, imports>>

NoResult == [l \in {} |-> "none"]

Default == [path |-> Home, library |-> CHOOSE l \in Libraries : TRUE]
Modal == {"message", "question", "nothing"}
(* run() has not come to its end.                                          *)
Running == "import" \in visible
Interactive(w) ==
  w \in visible /\ visible \cap Modal = {} /\ (Running => turn # "over")

(* ScanDialog::refresh. *)
MutRefresh(dir) ==                      \* mutant: the list keeps its checks
  /\ settings' = [settings EXCEPT !.path = dir]
  /\ pathEdit' = dir
  /\ list' = [list EXCEPT !.dir = dir]
Refresh(dir) ==
  /\ settings' = [settings EXCEPT !.path = dir]
  /\ pathEdit' = dir
  /\ list' = [dir |-> dir, checked |-> {}]

(* ScanDialog::show, in place of the windows that are shown now.           *)
ShowScan(hidden) ==
  /\ visible' = (visible \ hidden) \cup {"scan"}
  /\ Refresh(settings.path)

Started ==
  /\ settings' = saved /\ pathEdit' = saved.path
  /\ list' = [dir |-> saved.path, checked |-> {}]
  /\ visible' = {"scan"}

Init ==
  /\ settings = Default /\ saved = Default
  /\ pathEdit = Home /\ list = [dir |-> Home, checked |-> {}]
  /\ visible = {"scan"}
  /\ queue = <<>> /\ result = NoResult /\ abort = FALSE /\ stopButton = TRUE
  /\ turn = "over" /\ late = {}
  /\ imports = 0

-------------------------------------------------------------------------------
(* The scan dialog.                                                        *)
TypePath(dir) ==
  /\ Interactive("scan")
  /\ pathEdit' = dir
  /\ UNCHANGED <<settings, saved, list, visible, session>>

(* Enter, the three buttons, and a folder of the list.                     *)
Visit(dir) ==
  /\ Interactive("scan") /\ Refresh(dir)
  /\ UNCHANGED <<saved, visible, session>>
Navigate ==
  \/ Visit(pathEdit)
  \/ Visit(settings.path)
  \/ Visit(Home)
  \/ Visit(Parent[settings.path])
  \/ \E dir \in Folders[list.dir] : Visit(dir)

CheckItems(checked) ==
  /\ Interactive("scan")
  /\ list' = [list EXCEPT !.checked = checked]
  /\ UNCHANGED <<settings, saved, pathEdit, visible, session>>
Check ==
  \/ \E f \in Files[list.dir] :
       \/ f \notin list.checked /\ CheckItems(list.checked \cup {f})
       \/ f \in list.checked /\ CheckItems(list.checked \ {f})
  \/ CheckItems(Files[list.dir])
  \/ CheckItems({})

(* The locations of the checked items.                                     *)
MutLocations == {<<pathEdit, f>> : f \in list.checked} \* mutant: of what is typed
Locations == {<<settings.path, f>> : f \in list.checked}

Import ==
  /\ Interactive("scan")
  /\ \/ /\ list.checked = {}
        /\ visible' = visible \cup {"nothing"}
        /\ UNCHANGED session
     \/ /\ list.checked # {} /\ imports < MaxImports
        /\ visible' = (visible \ {"scan"}) \cup {"import"}
        /\ queue' = SetToSeq(Locations) /\ result' = NoResult /\ abort' = FALSE
        /\ turn' = "shown" /\ late' = {}
        /\ imports' = imports + 1
        /\ UNCHANGED stopButton
  /\ UNCHANGED <<settings, saved, pathEdit, list>>

(* The end of main.                                                        *)
Quit ==
  /\ Interactive("scan")
  /\ visible' = {} /\ saved' = settings
  /\ UNCHANGED <<settings, pathEdit, list, session>>

-------------------------------------------------------------------------------
(* The settings dialog.                                                    *)
OpenSettings ==
  /\ Interactive("scan") /\ visible' = visible \cup {"settings"}
  /\ UNCHANGED <<settings, saved, pathEdit, list, session>>
CloseSettings ==
  /\ Interactive("settings") /\ visible' = visible \ {"settings"}
  /\ UNCHANGED <<settings, saved, pathEdit, list, session>>
ChangeLocation(l) ==
  /\ Interactive("settings") /\ settings' = [settings EXCEPT !.library = l]
  /\ UNCHANGED <<saved, pathEdit, list, visible, session>>

-------------------------------------------------------------------------------
(* ImportDialog::run.                                                      *)
Stop ==
  /\ Interactive("import")
  /\ abort' = TRUE /\ stopButton' = FALSE
  /\ UNCHANGED <<settings, saved, pathEdit, list, visible, queue, result, turn, late,
                 imports>>

(* The turn of the next file: abort is looked at, and events are let in.   *)
MutBeginNext ==                         \* mutant: abort is not looked at
  /\ Running /\ queue # <<>> /\ turn # "begun"
  /\ turn' = "begun"
  /\ UNCHANGED <<settings, saved, pathEdit, list, visible, queue, result, abort, stopButton,
                 late, imports>>
BeginNext ==
  /\ Running /\ queue # <<>> /\ turn # "begun" /\ ~abort
  /\ turn' = "begun"
  /\ UNCHANGED <<settings, saved, pathEdit, list, visible, queue, result, abort, stopButton,
                 late, imports>>

Becomes(outcome) ==
  /\ result' = [l \in DOMAIN result \cup {Head(queue)} |->
                  IF l = Head(queue) THEN outcome ELSE result[l]]
  /\ queue' = Tail(queue) /\ turn' = "over"
  /\ UNCHANGED <<settings, saved, pathEdit, list, visible, abort, stopButton, imports>>

(* Icarus::import lets no event in: an image goes to one library.          *)
ImportNext ==
  /\ Running /\ turn = "begun"
  /\ Becomes(<<"imported", settings.library>>) \/ Becomes(<<"error">>)
  /\ late' = IF abort THEN late \cup {Head(queue)} ELSE late

MutSkipNext ==                          \* mutant: no word of what was not imported
  /\ Running /\ queue # <<>> /\ turn # "begun" /\ abort
  /\ queue' = Tail(queue) /\ turn' = "over"
  /\ UNCHANGED <<settings, saved, pathEdit, list, visible, result, abort, stopButton, late,
                 imports>>
SkipNext ==
  /\ Running /\ queue # <<>> /\ turn # "begun" /\ abort
  /\ Becomes(<<"aborted">>) /\ UNCHANGED late

Errors == {l \in DOMAIN result : result[l][1] # "imported"}

RunEnd ==
  /\ Running /\ queue = <<>>     \* setVisible(false) lets events in, but shows nothing
  /\ visible' = (visible \ {"import"}) \cup
                  {IF Errors # {} THEN "question" ELSE "message"}
  /\ UNCHANGED <<settings, saved, pathEdit, list, session>>

-------------------------------------------------------------------------------
(* What follows.                                                           *)
DismissMessage ==
  /\ \/ "message" \in visible /\ ShowScan({"message"})
     \/ /\ "nothing" \in visible /\ visible' = visible \ {"nothing"}
        /\ UNCHANGED <<settings, pathEdit, list>>
  /\ UNCHANGED <<saved, session>>

Answer ==
  /\ "question" \in visible
  /\ \/ /\ visible' = (visible \ {"question"}) \cup {"error"}
        /\ UNCHANGED <<settings, pathEdit, list>>
     \/ ShowScan({"question"})
  /\ UNCHANGED <<saved, session>>

MutCloseError ==                        \* mutant: it only hides itself
  /\ Interactive("error") /\ visible' = visible \ {"error"}
  /\ UNCHANGED <<settings, pathEdit, list, saved, session>>
CloseError ==
  /\ Interactive("error") /\ ShowScan({"error"})
  /\ UNCHANGED <<saved, session>>

(* The process is started again; or killed, and started again.             *)
Start ==
  /\ Started
  /\ queue' = <<>> /\ result' = NoResult /\ abort' = FALSE /\ stopButton' = TRUE
  /\ turn' = "over" /\ late' = {}
  /\ UNCHANGED <<saved, imports>>

-------------------------------------------------------------------------------
Next ==
  \/ \E dir \in Dirs : TypePath(dir)
  \/ Navigate \/ Check \/ Import \/ Quit
  \/ OpenSettings \/ CloseSettings \/ \E l \in Libraries : ChangeLocation(l)
  \/ Stop \/ BeginNext \/ ImportNext \/ SkipNext \/ RunEnd
  \/ DismissMessage \/ Answer \/ CloseError \/ Start

Spec == Init /\ [][Next]_vars

(* run() goes on whatever events come, and the user answers in the end.    *)
FairSpec == /\ Spec
            /\ WF_vars(BeginNext \/ ImportNext \/ SkipNext \/ RunEnd)
            /\ WF_vars(DismissMessage) /\ WF_vars(Answer) /\ WF_vars(CloseError)

-------------------------------------------------------------------------------
Windows == {"scan", "import", "settings", "error"} \cup Modal
(* What the user checked is what is imported, from the directory where it  *)
(* was listed, whatever was typed into the path edit since.                *)
ImportsWhatWasListed ==
  Running => \A l \in ToSet(queue) \cup DOMAIN result :
               l[1] = list.dir /\ l[2] \in list.checked

(* When the session ends every file that was checked has been imported or  *)
(* has its line in the log; the message says "successfully" only when all  *)
(* were imported.                                                          *)
EveryFileIsAccountedFor ==
  /\ visible \cap {"message", "question"} # {} =>
       DOMAIN result = {<<list.dir, f>> : f \in list.checked}
  /\ "message" \in visible => \A l \in DOMAIN result : result[l][1] = "imported"

(* After Stop at most one more file is imported, the one in whose turn it  *)
(* came (run() does not look at abort again when it has let events in, at  *)
(* import-dialog.cpp:33), and without Stop none is left out.               *)
StopStops ==
  /\ \A l, m \in late : l = m
  /\ (\E l \in DOMAIN result : result[l][1] = "aborted") => abort

(* While the program runs there is a window to work with, and but one of   *)
(* those that may start or end a session.                                  *)
UserHasAWindow ==
  visible # {} =>
    \E w \in {"scan", "import", "error", "message", "question"} :
      visible \cap {"scan", "import", "error", "message", "question"} = {w}

(* Every session ends, and the scan dialog comes back, unless the user     *)
(* leaves.                                                                 *)
ScanComesBack == Running ~> (visible = {} \/ Interactive("scan"))
===============================================================================
