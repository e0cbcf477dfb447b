----------------------------- MODULE BrowserDialog -----------------------------
(***************************************************************************)
(* hiro's BrowserDialog, by which the programs ask for files and folders:  *)
(* a list of a folder's contents, and a modal loop until it is answered.   *)
(* Other programs change the folders meanwhile.                            *)
(***************************************************************************)
EXTENDS Naturals, Sequences, FiniteSets

CONSTANTS
  Actions,        \* of "openFile", "openFiles", "openFolder", "saveFile", "selectFolder"
  Names, Folders, \* all names, and those that folders have
  Top, Sub,       \* a folder, and [Folders -> Places]
  Places,
  Filters,        \* what each item of the filter list matches
  NoName,
  MaxAnswers      \* bound: answers that events in a row give

DialogAssumption ==
  /\ Folders \subseteq Names /\ NoName \notin Names
  /\ Top \in Places /\ Sub \in [Folders -> Places]
  /\ 1 \in DOMAIN Filters

VARIABLES
  Action,         \* state.action
  disk,           \* [Places -> SUBSET Names]
  path,           \* state.path
  view,           \* what is listed
  chosen,         \* the selected rows
  filter,
  fileName,
  selected,       \* response.selected: place, name, the kind it was of then, and
                  \* whether the user was sure
  modal,
  phase,          \* "shown", "loop", "question", "done"
  asked           \* the name that is asked about or was said yes to

vars == <<Action, disk, path, view, chosen, filter, fileName, selected, modal, phase, asked>>

isFolder(n) == n \in Folders /\ n \in disk[path]
exists(n)   == n \in disk[path]
isMatch(n)  == n \in Filters[filter]
Single      == Action # "openFiles"

-------------------------------------------------------------------------------
(* setPath(): the list is made anew and nothing in it selected.            *)
Listed(place, matching) ==
  LET folders == disk[place] \cap Folders
  IN  IF Action = "openFolder" THEN folders
      ELSE folders \cup (disk[place] \cap matching)

MutSetPath(place, f) ==                       \* mutant: the list stays
  /\ path' = place /\ filter' = f
  /\ fileName' = NoName
  /\ UNCHANGED <<view, chosen>>
SetPath(place, f) ==
  /\ path' = place /\ filter' = f
  /\ view' = Listed(place, Filters[f])
  /\ chosen' = {} /\ fileName' = NoName

Init ==
  /\ Action \in Actions /\ disk \in [Places -> SUBSET Names]
  /\ path = Top /\ filter = 1
  /\ view = Listed(Top, Filters[1])
  /\ chosen = {} /\ fileName = NoName
  /\ selected = <<>> /\ asked = NoName
  /\ modal = FALSE /\ phase = "shown"

Listing == <<path, view, chosen, filter, fileName>>
Events  == phase \in {"shown", "loop"}

Answer(names) ==
  /\ Len(selected) < MaxAnswers
  /\ selected' = Append(selected, {[place |-> path, name |-> n,
                                    kind |-> IF ~exists(n) THEN "none"
                                             ELSE IF n \in Folders THEN "folder" ELSE "file",
                                    sure |-> n = asked] : n \in names})
  /\ modal' = FALSE

Quit == UNCHANGED <<selected, modal>> /\ UNCHANGED Listing
Goes(place) == SetPath(place, filter) /\ UNCHANGED <<selected, modal>>

(* accept(), by the button, by Enter or by activate().                     *)
First == CHOOSE n \in chosen : TRUE

OpenFile == IF isFolder(First) THEN Goes(Sub[First]) ELSE Answer({First}) /\ UNCHANGED Listing
OpenFolder == IF isMatch(First) THEN Answer({First}) /\ UNCHANGED Listing ELSE Goes(Sub[First])

MutSelectFolder == Answer({First}) /\ UNCHANGED Listing     \* mutant: not looked at again
SelectFolder ==
  IF isFolder(First) THEN Answer({First}) /\ UNCHANGED Listing ELSE Quit

SaveName == IF fileName # NoName THEN fileName ELSE IF chosen # {} THEN First ELSE NoName

accept ==
  /\ Action # "saveFile"
  /\ IF chosen = {} THEN Quit
     ELSE \/ Action = "openFile" /\ OpenFile
          \/ Action = "openFiles" /\ Answer(chosen) /\ UNCHANGED Listing
          \/ Action = "openFolder" /\ OpenFolder
          \/ Action = "selectFolder" /\ SelectFolder
  /\ UNCHANGED <<asked, phase>>

MutSave(n) ==                                 \* mutant: what is listed is asked about
  IF n \in view THEN phase' = "question" /\ asked' = n /\ Quit
  ELSE Answer({n}) /\ UNCHANGED <<asked, phase, path, view, chosen, filter, fileName>>
Save(n) ==
  IF exists(n) THEN phase' = "question" /\ asked' = n /\ Quit
  ELSE Answer({n}) /\ UNCHANGED <<asked, phase, path, view, chosen, filter, fileName>>

AcceptSave ==
  /\ Action = "saveFile"
  /\ SaveName # NoName /\ ~isFolder(SaveName)
  /\ Save(SaveName)

Accept == Events /\ (accept \/ AcceptSave) /\ UNCHANGED disk

(* activate(): a row is double-clicked.                                    *)
ActivateFolder ==
  /\ Events /\ Action \in {"saveFile", "selectFolder"}
  /\ chosen # {} /\ isFolder(First)
  /\ Goes(Sub[First]) /\ UNCHANGED <<disk, asked, phase>>

(* The question is modal by itself: the dialog has no events meanwhile.    *)
Yes ==
  /\ phase = "question"
  /\ phase' = IF modal THEN "loop" ELSE "shown"
  /\ Answer({asked}) /\ UNCHANGED Listing /\ UNCHANGED <<disk, asked>>
No ==
  /\ phase = "question"
  /\ phase' = IF modal THEN "loop" ELSE "shown"
  /\ asked' = NoName
  /\ Quit /\ UNCHANGED disk

(* change(): for saving, a file that is selected is the name.              *)
Select(rows) ==
  /\ Events /\ rows # chosen
  /\ Single => Cardinality(rows) <= 1
  /\ chosen' = rows
  /\ LET files == {n \in rows : ~isFolder(n)}
     IN  fileName' = IF Action = "saveFile" /\ files # {} THEN CHOOSE n \in files : TRUE ELSE NoName
  /\ UNCHANGED <<disk, path, view, filter, selected, modal, phase, asked>>

Type(n) ==
  /\ Events /\ Action = "saveFile" /\ n # fileName
  /\ fileName' = n
  /\ UNCHANGED <<disk, path, view, chosen, filter, selected, modal, phase, asked>>

Go(place)  == Events /\ Goes(place) /\ UNCHANGED <<disk, phase, asked>>
Pick(f)    == Events /\ Action # "selectFolder" /\ f # filter /\ SetPath(path, f) /\ UNCHANGED <<disk, selected, modal, phase, asked>>
Cancel     == Events /\ modal' = FALSE /\ UNCHANGED <<disk, selected, phase, asked>> /\ UNCHANGED Listing

(* run(): the window is shown, and the loop begins and ends.               *)
Loop ==
  /\ phase = "shown"
  /\ phase' = "loop" /\ modal' = TRUE
  /\ UNCHANGED <<disk, selected, asked>> /\ UNCHANGED Listing
MutEnd ==                                     \* mutant: only an answer ends it
  /\ phase = "loop" /\ ~modal /\ selected # <<>>
  /\ phase' = "done"
  /\ UNCHANGED <<disk, selected, modal, asked>> /\ UNCHANGED Listing
End ==
  /\ phase = "loop" /\ ~modal
  /\ phase' = "done"
  /\ UNCHANGED <<disk, selected, modal, asked>> /\ UNCHANGED Listing

Other(place, n) ==                            \* another program makes or deletes n
  /\ phase # "done"
  /\ disk' = [disk EXCEPT ![place] = IF n \in @ THEN @ \ {n} ELSE @ \cup {n}]
  /\ UNCHANGED <<selected, modal, phase, asked>> /\ UNCHANGED Listing

Step ==
  \/ Accept \/ ActivateFolder \/ Yes \/ No \/ Cancel \/ Loop \/ End
  \/ \E rows \in SUBSET view : Select(rows)
  \/ \E n \in Names : Type(n)
  \/ \E place \in Places : Go(place) \/ \E n \in Names : Other(place, n)
  \/ \E f \in DOMAIN Filters : Pick(f)

Next == Step /\ UNCHANGED Action

Spec     == Init /\ [][Next]_vars
Runs     == (Loop \/ End) /\ UNCHANGED Action
LiveSpec == Spec /\ WF_vars(Runs)

-------------------------------------------------------------------------------
Answers == UNION {selected[i] : i \in DOMAIN selected}

(* saveFile() gives the name of a file that is there only if the user was  *)
(* asked and said that it may be overwritten, though the list may be old.  *)
OverwriteIsConfirmed ==
  Action = "saveFile" => \A a \in Answers : a.kind # "none" => a.sure

(* The kind of thing that is asked for, also from a list that is old:      *)
(* a file is no folder, and the folder that is selected is there.          *)
AnswersAreOfTheKind ==
  \A a \in Answers :
    /\ Action \in {"openFile", "saveFile"} => a.kind # "folder"
    /\ Action = "selectFolder" => a.kind = "folder"

(* An answer in the modal loop ends the dialog, with no need of another,   *)
(* whatever events come behind it, unless they ask a question.             *)
AnswerEnds == (phase = "loop" /\ ~modal) ~> (phase \in {"done", "question"})
===============================================================================
