------------------------------ MODULE Hiro_proofs ------------------------------
(***************************************************************************)
(* Theorems about hiro: the answers of the browser dialog, for any folders *)
(* and whatever other programs do in them; what the controls of four       *)
(* toolkits show, for any number of properties, items and positions; and   *)
(* what the program is told of changes.                                    *)
(***************************************************************************)
EXTENDS Hiro, TLAPS, SequenceTheorems, FiniteSetTheorems

-------------------------------------------------------------------------------
(* BrowserDialog.  A question is only asked for saving, and of a name that *)
(* is no folder's, so Yes answers with a file or nothing; every other      *)
(* answer is checked against the disk when it is given.                    *)

Kinds      == {"none", "folder", "file"}
Response   == [place : Places, name : Names, kind : Kinds, sure : BOOLEAN]
RightAnswer(a) ==
  /\ Action = "saveFile" /\ a.kind # "none" => a.sure
  /\ Action \in {"openFile", "saveFile"} => a.kind # "folder"
  /\ Action = "selectFolder" => a.kind = "folder"

DialogType ==
  /\ disk \in [Places -> SUBSET Names]
  /\ path \in Places /\ filter \in DOMAIN Filters
  /\ view \subseteq Names /\ chosen \subseteq view
  /\ Action = "openFolder" => view \subseteq Folders
  /\ fileName \in Names \cup {NoName} /\ asked \in Names \cup {NoName}
  /\ selected \in Seq(SUBSET Response)
DialogInv ==
  /\ DialogType
  /\ phase = "question" => Action = "saveFile" /\ asked \in Names \ Folders
  /\ \A i \in DOMAIN selected : \A a \in selected[i] : RightAnswer(a)

(* What Answer() is given is right: a question is answered, or nothing of  *)
(* the wrong kind is on the disk.                                          *)
Answerable(names) ==
  \A n \in names :
    /\ Action = "saveFile" => n \notin disk[path] \/ n = asked
    /\ Action \in {"openFile", "saveFile"} => n \notin disk[path] \cap Folders
    /\ Action = "selectFolder" => n \in disk[path] \cap Folders

(* An answer leaves only right answers behind.                             *)
LEMMA AnswerIsRight ==
  ASSUME DialogInv, NEW names \in SUBSET Names, Answerable(names), Dialog!Answer(names),
         Action' = Action
  PROVE  /\ selected' \in Seq(SUBSET Response)
         /\ \A i \in DOMAIN selected' : \A a \in selected'[i] : RightAnswer(a)'
<1> DEFINE kind(n) == IF n \notin disk[path] THEN "none" ELSE IF n \in Folders THEN "folder" ELSE "file"
           answer == {[place |-> path, name |-> n, kind |-> kind(n), sure |-> n = asked] : n \in names}
<1>1. selected' = Append(selected, answer)
  BY DEF Dialog!Answer, Dialog!exists
<1>2. ASSUME NEW n \in names, NEW a,
             a = [place |-> path, name |-> n, kind |-> kind(n), sure |-> n = asked]
      PROVE  a \in Response /\ RightAnswer(a)'
  <2>1. a.kind = kind(n) /\ (a.sure <=> n = asked)
    BY <1>2
  <2>2. a \in Response
    BY <1>2 DEF Response, Kinds, DialogInv, DialogType
  <2>3. RightAnswer(a)'
    BY <2>1 DEF Answerable, RightAnswer
  <2> QED BY <2>2, <2>3
<1>3. answer \in SUBSET Response /\ \A a \in answer : RightAnswer(a)'
  BY <1>2
<1> HIDE DEF answer
<1>4. selected' \in Seq(SUBSET Response)
  BY <1>1, <1>3 DEF DialogInv, DialogType
<1>5. \A i \in DOMAIN selected : \A a \in selected[i] : RightAnswer(a)'
  BY DEF DialogInv, RightAnswer
<1>6. \A i \in DOMAIN selected' :
        \/ i \in DOMAIN selected /\ selected'[i] = selected[i]
        \/ selected'[i] = answer
  BY <1>1 DEF DialogInv, DialogType
<1> QED BY <1>3, <1>4, <1>5, <1>6

(* What is listed anew is of the disk.                                     *)
LEMMA ListIsOfDisk ==
  ASSUME DialogInv, NEW place \in Places, NEW f \in DOMAIN Filters, Dialog!SetPath(place, f),
         Action' = Action, disk' = disk
  PROVE  /\ path' \in Places /\ filter' \in DOMAIN Filters
         /\ view' \subseteq Names /\ chosen' \subseteq view'
         /\ Action' = "openFolder" => view' \subseteq Folders
         /\ fileName' = NoName
  BY DEF DialogInv, DialogType, Dialog!SetPath, Dialog!Listed

LEMMA FirstIsChosen ==
  ASSUME DialogInv, chosen # {}
  PROVE  Dialog!First \in chosen /\ Dialog!First \in Names
  BY DEF Dialog!First, DialogInv, DialogType

(* A folder that is opened is one that Sub has a place for.                *)
LEMMA GoingKeepsInv ==
  ASSUME DialogInv, NEW place \in Places, Dialog!Goes(place),
         Action' = Action, disk' = disk, asked' = asked, phase' = phase
  PROVE  DialogInv'
<1>1. Dialog!SetPath(place, filter) /\ selected' = selected /\ filter \in DOMAIN Filters
  BY DEF Dialog!Goes, DialogInv, DialogType
<1>2. DialogType'
  BY <1>1, ListIsOfDisk DEF DialogInv, DialogType
<1> QED BY <1>1, <1>2 DEF DialogInv, RightAnswer

LEMMA AnsweringKeepsInv ==
  ASSUME DialogInv, NEW names \in SUBSET Names, Answerable(names), Dialog!Answer(names),
         UNCHANGED Dialog!Listing, Action' = Action, disk' = disk, asked' = asked,
         phase' = phase \/ phase' # "question"
  PROVE  DialogInv'
<1>1. /\ selected' \in Seq(SUBSET Response)
      /\ \A i \in DOMAIN selected' : \A a \in selected'[i] : RightAnswer(a)'
  BY AnswerIsRight
<1>2. DialogType'
  BY <1>1 DEF DialogInv, DialogType, Dialog!Listing
<1> QED BY <1>1, <1>2 DEF DialogInv

LEMMA RestKeepsInv ==
  ASSUME DialogInv, selected' = selected, Action' = Action, DialogType',
         phase' = "question" => Action = "saveFile" /\ asked' \in Names \ Folders
  PROVE  DialogInv'
  BY DEF DialogInv, RightAnswer

(* accept(): what it answers is looked up on the disk then, and what it    *)
(* goes to is a folder.                                                    *)
LEMMA AcceptKeepsInv ==
  ASSUME DialogInv, Dialog!DialogAssumption, Dialog!Events, Dialog!accept, disk' = disk, Action' = Action
  PROVE  DialogInv'
<1>1. asked' = asked /\ phase' = phase /\ Action # "saveFile"
  BY DEF Dialog!accept
<1>2. CASE Dialog!Quit
  <2>1. DialogType'
    BY <1>1, <1>2 DEF Dialog!Quit, Dialog!Listing, DialogInv, DialogType
  <2> QED BY <1>1, <1>2, <2>1, RestKeepsInv DEF Dialog!Quit, DialogInv
<1>3. CASE chosen # {} /\ Action = "openFile" /\ Dialog!OpenFile
  <2>1. CASE Dialog!isFolder(Dialog!First)
    <3>1. Sub[Dialog!First] \in Places /\ Dialog!Goes(Sub[Dialog!First])
      BY <1>3, <2>1 DEF Dialog!OpenFile, Dialog!isFolder, Dialog!DialogAssumption
    <3> QED BY <1>1, <3>1, GoingKeepsInv
  <2>2. CASE ~Dialog!isFolder(Dialog!First)
    <3>1. {Dialog!First} \in SUBSET Names /\ Answerable({Dialog!First})
      BY <1>3, <2>2, FirstIsChosen DEF Answerable, Dialog!isFolder
    <3>2. Dialog!Answer({Dialog!First}) /\ UNCHANGED Dialog!Listing
      BY <1>3, <2>2 DEF Dialog!OpenFile
    <3> QED BY <1>1, <3>1, <3>2, AnsweringKeepsInv
  <2> QED BY <2>1, <2>2
<1>4. CASE Action = "openFiles" /\ Dialog!Answer(chosen) /\ UNCHANGED Dialog!Listing
  <2>1. chosen \in SUBSET Names /\ Answerable(chosen)
    BY <1>4 DEF Answerable, DialogInv, DialogType
  <2> QED BY <1>1, <1>4, <2>1, AnsweringKeepsInv
<1>5. CASE chosen # {} /\ Action = "openFolder" /\ Dialog!OpenFolder
  <2>1. CASE Dialog!isMatch(Dialog!First)
    <3>1. {Dialog!First} \in SUBSET Names /\ Answerable({Dialog!First})
      BY <1>5, FirstIsChosen DEF Answerable
    <3>2. Dialog!Answer({Dialog!First}) /\ UNCHANGED Dialog!Listing
      BY <1>5, <2>1 DEF Dialog!OpenFolder
    <3> QED BY <1>1, <3>1, <3>2, AnsweringKeepsInv
  <2>2. CASE ~Dialog!isMatch(Dialog!First)
    <3>1. Dialog!First \in Folders
      BY <1>5, FirstIsChosen DEF DialogInv, DialogType
    <3>2. Sub[Dialog!First] \in Places /\ Dialog!Goes(Sub[Dialog!First])
      BY <1>5, <2>2, <3>1 DEF Dialog!OpenFolder, Dialog!DialogAssumption
    <3> QED BY <1>1, <3>2, GoingKeepsInv
  <2> QED BY <2>1, <2>2
<1>6. CASE chosen # {} /\ Action = "selectFolder" /\ Dialog!SelectFolder
  <2>1. CASE ~Dialog!isFolder(Dialog!First)
    BY <1>2, <1>6, <2>1 DEF Dialog!SelectFolder
  <2>2. CASE Dialog!isFolder(Dialog!First)
    <3>1. {Dialog!First} \in SUBSET Names /\ Answerable({Dialog!First})
      BY <1>6, <2>2, FirstIsChosen DEF Answerable, Dialog!isFolder
    <3>2. Dialog!Answer({Dialog!First}) /\ UNCHANGED Dialog!Listing
      BY <1>6, <2>2 DEF Dialog!SelectFolder
    <3> QED BY <1>1, <3>1, <3>2, AnsweringKeepsInv
  <2> QED BY <2>1, <2>2
<1> QED BY <1>2, <1>3, <1>4, <1>5, <1>6 DEF Dialog!accept

(* Saving: what is on the disk is asked about, and is no folder.           *)
LEMMA SaveKeepsInv ==
  ASSUME DialogInv, Dialog!DialogAssumption, Dialog!Events, Dialog!AcceptSave, disk' = disk,
         Action' = Action
  PROVE  DialogInv'
<1> DEFINE n == Dialog!SaveName
<1>1. Action = "saveFile" /\ n # NoName /\ ~Dialog!isFolder(n) /\ Dialog!Save(n)
  BY DEF Dialog!AcceptSave
<1>2. n \in Names
  BY <1>1, FirstIsChosen DEF Dialog!SaveName, DialogInv, DialogType
<1> HIDE DEF n
<1>3. CASE Dialog!exists(n)
  <2>1. phase' = "question" /\ asked' = n /\ Dialog!Quit
    BY <1>1, <1>3 DEF Dialog!Save
  <2>2. n \in Names \ Folders
    BY <1>1, <1>2, <1>3 DEF Dialog!isFolder, Dialog!exists
  <2>3. DialogType'
    BY <1>2, <2>1 DEF Dialog!Quit, Dialog!Listing, DialogInv, DialogType
  <2> QED BY <1>1, <2>1, <2>2, <2>3, RestKeepsInv DEF Dialog!Quit
<1>4. CASE ~Dialog!exists(n)
  <2>1. /\ Dialog!Answer({n}) /\ asked' = asked /\ phase' = phase
        /\ UNCHANGED Dialog!Listing
    BY <1>1, <1>4 DEF Dialog!Save, Dialog!Listing
  <2>2. {n} \in SUBSET Names /\ Answerable({n})
    BY <1>1, <1>2, <1>4 DEF Answerable, Dialog!exists
  <2> QED BY <2>1, <2>2, AnsweringKeepsInv
<1> QED BY <1>3, <1>4

LEMMA YesKeepsInv ==
  ASSUME DialogInv, Dialog!Yes, Action' = Action
  PROVE  DialogInv'
<1>1. Action = "saveFile" /\ asked \in Names \ Folders
  BY DEF Dialog!Yes, DialogInv
<1>2. {asked} \in SUBSET Names /\ Answerable({asked})
  BY <1>1 DEF Answerable
<1>3. /\ Dialog!Answer({asked}) /\ UNCHANGED Dialog!Listing
      /\ disk' = disk /\ asked' = asked /\ phase' # "question"
  BY DEF Dialog!Yes
<1> QED BY <1>2, <1>3, AnsweringKeepsInv

(* Of the other events none answers; those that list a folder anew look at *)
(* the disk, and what another program does changes the disk alone.         *)
LEMMA ListingKeepsInv ==
  ASSUME DialogInv, NEW place \in Places, NEW f \in DOMAIN Filters, Dialog!SetPath(place, f),
         Action' = Action, UNCHANGED <<disk, selected, modal, phase, asked>>
  PROVE  DialogInv'
<1>1. DialogType'
  BY ListIsOfDisk DEF DialogInv, DialogType
<1> QED BY <1>1, RestKeepsInv DEF DialogInv

LEMMA SelectKeepsInv ==
  ASSUME DialogInv, NEW rows \in SUBSET view, Dialog!Select(rows), Action' = Action
  PROVE  DialogInv'
<1>1. fileName' \in Names \cup {NoName}
  BY DEF Dialog!Select, DialogInv, DialogType
<1>2. chosen' = rows /\ UNCHANGED <<disk, path, view, filter, selected, modal, phase, asked>>
  BY DEF Dialog!Select
<1>3. DialogType'
  BY <1>1, <1>2 DEF DialogInv, DialogType
<1> QED BY <1>2, <1>3, RestKeepsInv DEF DialogInv

LEMMA OtherKeepsInv ==
  ASSUME DialogInv, NEW place \in Places, NEW n \in Names, Dialog!Other(place, n), Action' = Action
  PROVE  DialogInv'
<1>1. disk' = [disk EXCEPT ![place] = IF n \in @ THEN @ \ {n} ELSE @ \cup {n}]
  BY DEF Dialog!Other
<1>2. disk' \in [Places -> SUBSET Names]
  BY <1>1 DEF DialogInv, DialogType
<1>3. UNCHANGED <<selected, modal, phase, asked, path, view, chosen, filter, fileName>>
  BY DEF Dialog!Other, Dialog!Listing
<1>4. DialogType'
  BY <1>2, <1>3 DEF DialogInv, DialogType
<1> QED BY <1>3, <1>4, RestKeepsInv DEF DialogInv

LEMMA QuietKeepsInv ==
  ASSUME DialogInv, UNCHANGED <<disk, selected>>, UNCHANGED Dialog!Listing, Action' = Action,
         asked' \in {asked, NoName}, (phase' = phase /\ asked' = asked) \/ phase' # "question"
  PROVE  DialogInv'
<1>1. DialogType'
  BY DEF DialogInv, DialogType, Dialog!Listing
<1> QED BY <1>1, RestKeepsInv DEF DialogInv

LEMMA TypeKeepsInv ==
  ASSUME DialogInv, NEW n \in Names, Dialog!Type(n), Action' = Action
  PROVE  DialogInv'
<1>1. DialogType'
  BY DEF Dialog!Type, DialogInv, DialogType
<1> QED BY <1>1, RestKeepsInv DEF Dialog!Type, DialogInv

LEMMA DialogStepKeepsInv ==
  ASSUME DialogInv, Dialog!DialogAssumption, Dialog!Next
  PROVE  DialogInv'
<1>1. Action' = Action /\ Dialog!Step
  BY DEF Dialog!Next
<1>2. CASE Dialog!Accept
  BY <1>1, <1>2, AcceptKeepsInv, SaveKeepsInv DEF Dialog!Accept
<1>3. CASE Dialog!ActivateFolder
  <2>1. Sub[Dialog!First] \in Places /\ Dialog!Goes(Sub[Dialog!First])
    BY <1>3 DEF Dialog!ActivateFolder, Dialog!isFolder, Dialog!DialogAssumption
  <2> QED BY <1>1, <1>3, <2>1, GoingKeepsInv DEF Dialog!ActivateFolder
<1>4. CASE Dialog!Yes
  BY <1>1, <1>4, YesKeepsInv
<1>5. CASE Dialog!No
  BY <1>1, <1>5, QuietKeepsInv DEF Dialog!No, Dialog!Quit
<1>6. CASE Dialog!Cancel
  BY <1>1, <1>6, QuietKeepsInv DEF Dialog!Cancel
<1>7. CASE Dialog!Loop
  BY <1>1, <1>7, QuietKeepsInv DEF Dialog!Loop
<1>8. CASE Dialog!End
  BY <1>1, <1>8, QuietKeepsInv DEF Dialog!End
<1>9. ASSUME NEW rows \in SUBSET view, Dialog!Select(rows) PROVE DialogInv'
  BY <1>1, <1>9, SelectKeepsInv
<1>10. ASSUME NEW n \in Names, Dialog!Type(n) PROVE DialogInv'
  BY <1>1, <1>10, TypeKeepsInv
<1>11. ASSUME NEW place \in Places, Dialog!Go(place) PROVE DialogInv'
  BY <1>1, <1>11, GoingKeepsInv DEF Dialog!Go
<1>12. ASSUME NEW place \in Places, NEW n \in Names, Dialog!Other(place, n) PROVE DialogInv'
  BY <1>1, <1>12, OtherKeepsInv
<1>13. ASSUME NEW f \in DOMAIN Filters, Dialog!Pick(f) PROVE DialogInv'
  <2>1. path \in Places
    BY DEF DialogInv, DialogType
  <2> QED BY <1>1, <1>13, <2>1, ListingKeepsInv DEF Dialog!Pick
<1> QED
  BY <1>1, <1>2, <1>3, <1>4, <1>5, <1>6, <1>7, <1>8, <1>9, <1>10, <1>11, <1>12, <1>13
     DEF Dialog!Step

LEMMA DialogStartsRight ==
  ASSUME Dialog!DialogAssumption, Dialog!Init
  PROVE  DialogInv
  BY DEF Dialog!Init, Dialog!Listed, Dialog!DialogAssumption, DialogInv, DialogType

(* OverwriteIsConfirmed: saveFile() gives the name of a file that is there *)
(* only after the user said Yes to that name, and every answer is of the   *)
(* kind that was asked for, for any folders, filters and number of answers *)
(* (browser-dialog.cpp, accept() and activate()).                          *)
THEOREM AnswersAreRight == Spec => []OverwriteIsConfirmed
<1>1. Init => DialogInv
  BY HiroAssumption, DialogStartsRight DEF Init
<1>2. DialogInv /\ [Next]_vars => DialogInv'
  <2> SUFFICES ASSUME DialogInv, [Next]_vars PROVE DialogInv'
    OBVIOUS
  <2>1. CASE DialogStep(Dialog!Next)
    BY <2>1, HiroAssumption, DialogStepKeepsInv DEF DialogStep
  <2>2. CASE UNCHANGED dialogVars
    BY <2>2 DEF dialogVars, DialogInv, DialogType, RightAnswer
  <2>3. DialogStep(Dialog!Next) \/ UNCHANGED dialogVars
    BY DEF Next, vars, TreeNext, RowsNext, WidgetNext, SliderNext, ChoiceNext
  <2> QED BY <2>1, <2>2, <2>3
<1>3. DialogInv => OverwriteIsConfirmed
  BY DEF DialogInv, RightAnswer, OverwriteIsConfirmed, Dialog!OverwriteIsConfirmed,
         Dialog!AnswersAreOfTheKind, Dialog!Answers
<1> QED BY <1>1, <1>2, <1>3, PTL DEF Spec

-------------------------------------------------------------------------------
(* Widgets.  What construct(), the setters and the handlers of each control*)
(* do is hand-written; KeepsRules says what that must obey, of each control*)
(* by itself, and TLC finds that all of the four toolkits do.  From the    *)
(* rules follows what no single handler shows.  A property that is Shown   *)
(* has the same value in the control and in the state while it is attached,*)
(* unless it is one that the control has no room for.                      *)

Shown(r) == Widget!Kept(r) \ Widget!Asked(r)
States   == {0, 1, 2}
Misfit(p) == /\ p \in Widget!Limits(Widget!c)
             /\ wState[p] = 2 \/ (p = "cursor" /\ wNative["text"] = 0 /\ wState[p] # 0)
WidgetType ==
  /\ wToolkit \in DOMAIN Controls /\ wKind \in DOMAIN Controls[wToolkit]
  /\ wUsed \subseteq Widget!c.properties
  /\ wState \in [Widget!c.properties -> States]
  /\ \A p \in Widget!c.properties \ Widget!Limits(Widget!c) : wState[p] \in Widget!Values
  /\ wNative \in [Widget!c.properties -> Widget!Values]
WidgetInv ==
  /\ WidgetType
  /\ wAttached => \A p \in Shown(Widget!c) : wNative[p] = wState[p] \/ Misfit(p)

LEMMA RulesAreKept ==
  ASSUME Widget!WidgetAssumption, WidgetInv
  PROVE  Widget!KeepsRules(Widget!c)
  BY DEF Widget!WidgetAssumption, WidgetInv, WidgetType, Widget!c

(* What the rules say of one property.                                     *)
LEMMA ShownRules ==
  ASSUME NEW r, Widget!KeepsRules(r), NEW q \in Shown(r)
  PROVE  /\ q \in r.properties /\ q \in r.pushed
         /\ q \notin r.ignored /\ q \notin r.sticky /\ q \notin r.forgets
         /\ q \in r.moved \cup r.edited => q \in r.copied
         /\ q = "cursor" /\ q \in Widget!Limits(r) =>
              q \in r.moved /\ "text" \in r.properties \ r.together /\ DOMAIN r.under = {}
  BY DEF Shown, Widget!KeepsRules, Widget!PassesRules, Widget!LimitRules, Widget!Kept, Widget!Asked

LEMMA HeardRules ==
  ASSUME NEW r, Widget!KeepsRules(r), NEW q \in Widget!Heard(r)
  PROVE  /\ q \in r.properties /\ q \in r.edited /\ q \in r.pushed
         /\ q \in Widget!Kept(r) /\ q \notin r.ignored /\ q \notin r.loose /\ q \notin r.forgets
         /\ q \in Widget!Asked(r) => q \in r.asked /\ q \in r.saved /\ q \notin Widget!Limits(r)
                                     /\ q \notin r.together
         /\ q \notin Widget!Asked(r) => q \in Shown(r) /\ q \in r.copied
         /\ q \in Widget!Limits(r) => q \notin r.asked /\ q \notin r.saved /\ q \notin r.together
                                      /\ q \notin DOMAIN r.under
         /\ \A p \in DOMAIN r.under : r.under[p] # q
<1>1. /\ q \in r.edited \ r.loose /\ q \in Widget!Kept(r) /\ q \in r.pushed /\ q \notin r.forgets
      /\ q \in r.copied \cup r.asked
  BY DEF Widget!KeepsRules, Widget!PassesRules, Widget!Heard
<1>2. q \in Widget!Asked(r) => q \in r.asked /\ q \in r.saved /\ q \notin r.together
  BY DEF Widget!KeepsRules, Widget!PassesRules, Widget!Asked
<1>3. q \in Widget!Limits(r) => q \notin r.asked /\ q \notin r.saved /\ q \notin r.together
                                /\ q \notin DOMAIN r.under
  BY DEF Widget!KeepsRules, Widget!PassesRules, Widget!LimitRules
<1>4. \A p \in DOMAIN r.under : r.under[p] # q
  BY DEF Widget!KeepsRules, Widget!UnderRules
<1>5. q \in r.properties /\ q \notin r.ignored /\ q \notin r.loose
  BY <1>1 DEF Widget!Kept
<1>6. q \notin Widget!Asked(r) => q \in Shown(r) /\ q \in r.copied
  BY <1>1 DEF Shown, Widget!Asked
<1> QED BY <1>1, <1>2, <1>3, <1>4, <1>5, <1>6

(* What is shown of a value is the value, but for those that do not fit.   *)
LEMMA LimitedIs ==
  ASSUME NEW r, r = Widget!c, Widget!KeepsRules(r), NEW p, NEW v, NEW n, NEW old
  PROVE  /\ \/ Widget!Limited(p, v, n, old) = v
            \/ /\ p \in Widget!Limits(r)
               /\ v = 2 \/ (p = "cursor" /\ n["text"] = 0 /\ v # 0)
         /\ p \notin Widget!Limits(r) => Widget!Limited(p, v, n, old) = v
         /\ v \in States /\ old \in Widget!Values /\ p \in Widget!Limits(r) =>
              Widget!Limited(p, v, n, old) \in Widget!Values
         /\ v = 0 => Widget!Limited(p, v, n, old) = 0
<1> DEFINE lim == p \in Widget!Limits(r)
           empty == p = "cursor" /\ n["text"] = 0
           far == CASE r.bounds[p] = "start" -> 0 [] r.bounds[p] = "end" -> 1
                    [] r.bounds[p] = "same" -> old
<1>0. Widget!Limited(p, v, n, old) =
        IF p \notin Widget!Limits(Widget!c) THEN v
        ELSE IF p = "cursor" /\ n["text"] = 0 THEN 0
        ELSE IF v # 2 THEN v
        ELSE CASE Widget!c.bounds[p] = "start" -> 0 [] Widget!c.bounds[p] = "end" -> 1
               [] Widget!c.bounds[p] = "same" -> old
  BY DEF Widget!Limited, Widget!Default, Widget!Other, Widget!Beyond
<1>1. Widget!Limited(p, v, n, old) =
        IF ~lim THEN v ELSE IF empty THEN 0 ELSE IF v # 2 THEN v ELSE far
  BY <1>0
<1>2. lim /\ old \in {0, 1} => far \in {0, 1}
  <2>1. lim => r.bounds[p] \in {"start", "end", "same"}
    BY DEF Widget!KeepsRules, Widget!LimitRules
  <2>2. CASE r.bounds[p] = "start"
    BY <2>2
  <2>3. CASE r.bounds[p] = "end"
    BY <2>3
  <2>4. CASE r.bounds[p] = "same"
    BY <2>4
  <2> QED BY <2>1, <2>2, <2>3, <2>4
<1> HIDE DEF lim, empty, far
<1>3. Widget!Values = {0, 1}
  BY DEF Widget!Values, Widget!Default, Widget!Other
<1>4. \/ Widget!Limited(p, v, n, old) = v
      \/ lim /\ (v = 2 \/ (empty /\ v # 0))
  BY <1>1
<1>5. /\ ~lim => Widget!Limited(p, v, n, old) = v
      /\ v \in States /\ old \in Widget!Values /\ lim => Widget!Limited(p, v, n, old) \in Widget!Values
      /\ v = 0 => Widget!Limited(p, v, n, old) = 0
  BY <1>1, <1>2, <1>3 DEF States
<1> QED BY <1>4, <1>5 DEF lim, empty

LEMMA ConstructedIs ==
  ASSUME NEW r, r = Widget!c, Widget!KeepsRules(r), NEW st \in [r.properties -> States],
         \A p \in r.properties \ Widget!Limits(r) : st[p] \in Widget!Values
  PROVE  /\ Widget!Constructed(st) \in [r.properties -> Widget!Values]
         /\ \A q \in r.properties \cap r.pushed :
              \/ Widget!Constructed(st)[q] = st[q]
              \/ /\ q \in Widget!Limits(r)
                 /\ st[q] = 2 \/ (/\ q = "cursor" /\ st[q] # 0
                                  /\ "text" \in r.properties => Widget!Constructed(st)["text"] = 0)
         /\ \A q \in (r.properties \cap r.pushed) \ Widget!Limits(r) : Widget!Constructed(st)[q] = st[q]
<1> DEFINE n == [p \in r.properties |-> IF p \in r.pushed THEN st[p] ELSE 0]
<1>1. Widget!Constructed(st) = [p \in r.properties |-> Widget!Limited(p, n[p], n, 0)]
  BY DEF Widget!Constructed, Widget!Default
<1>2. /\ \A p \in r.properties : n[p] \in States /\ (p \notin Widget!Limits(r) => n[p] \in Widget!Values)
      /\ \A p \in r.properties \cap r.pushed : n[p] = st[p]
  BY DEF States, Widget!Values, Widget!Default
<1> HIDE DEF n
<1>3. ASSUME NEW p \in r.properties PROVE Widget!Limited(p, n[p], n, 0) \in Widget!Values
  <2>1. 0 \in Widget!Values
    BY DEF Widget!Values, Widget!Default
  <2> QED BY <1>2, <2>1, LimitedIs
<1>4. Widget!Constructed(st) \in [r.properties -> Widget!Values]
  BY <1>1, <1>3
<1>5. ASSUME NEW q \in r.properties \cap r.pushed
      PROVE  /\ \/ Widget!Constructed(st)[q] = st[q]
                \/ /\ q \in Widget!Limits(r)
                   /\ st[q] = 2 \/ (/\ q = "cursor" /\ st[q] # 0
                                    /\ "text" \in r.properties => Widget!Constructed(st)["text"] = 0)
             /\ q \notin Widget!Limits(r) => Widget!Constructed(st)[q] = st[q]
  <2>1. Widget!Constructed(st)[q] = Widget!Limited(q, n[q], n, 0) /\ n[q] = st[q]
    BY <1>1, <1>2
  <2>2. "text" \in r.properties /\ n["text"] = 0 => Widget!Constructed(st)["text"] = 0
    BY <1>1, LimitedIs
  <2> QED BY <2>1, <2>2, LimitedIs
<1> QED BY <1>4, <1>5

(* A setter: the state that it makes, and what its control draws.          *)
Drawn(r, p) ==
  UNION {IF q \in r.ignored THEN {} ELSE IF q \in r.together THEN r.together ELSE {q} :
           q \in Widget!WithUnder(p)}
After(r, p, v) ==
  [q \in r.properties |->
     IF q = p THEN v
     ELSE IF q \in Widget!WithUnder(p) THEN 1
     ELSE IF wAttached /\ v = 0 /\ q \in r.forgets /\ r.needs[q] = p THEN 0
     ELSE wState[q]]

Redrawn(r, p, aft) ==
  /\ wState' \in [r.properties -> States] /\ wNative' \in [r.properties -> Widget!Values]
  /\ \A q \in r.properties \ Widget!Limits(r) : wState'[q] \in Widget!Values
  /\ \A q \in r.properties :
       IF p = "text" /\ q \in r.moved
       THEN q \in r.copied => wState'[q] = wNative'[q]
       ELSE /\ wNative'[q] = IF q \in Drawn(r, p) /\ ~(q \in r.sticky /\ aft[q] = 0)
                             THEN Widget!Limited(q, aft[q], wNative, wNative[q]) ELSE wNative[q]
            /\ wState'[q] = IF q \in r.copied /\ q \in r.reports /\ wNative'[q] # wNative[q]
                            THEN wNative'[q] ELSE aft[q]

LEMMA DrawnIs ==
  ASSUME NEW r, NEW p, NEW q, q \notin r.ignored
  PROVE  /\ q \in Widget!WithUnder(p) => q \in Drawn(r, p)
         /\ q \in Drawn(r, p) => q \in Widget!WithUnder(p) \/ q \in r.together
  BY DEF Drawn

LEMMA UnderIs ==
  ASSUME NEW r, r = Widget!c, Widget!KeepsRules(r), NEW p
  PROVE  /\ p \in Widget!WithUnder(p)
         /\ \A q \in Widget!Heard(r) : q \in Widget!WithUnder(p) => q = p
         /\ DOMAIN r.under = {} => Widget!WithUnder(p) = {p}
  BY HeardRules DEF Widget!WithUnder

LEMMA AfterIs ==
  ASSUME WidgetInv, NEW r, r = Widget!c, NEW p \in r.properties, NEW v \in Widget!Settable(p)
  PROVE  /\ After(r, p, v) \in [r.properties -> States]
         /\ \A q \in r.properties \ Widget!Limits(r) : After(r, p, v)[q] \in Widget!Values
         /\ \A q \in r.properties : q \notin Widget!WithUnder(p) /\ q \notin r.forgets =>
              After(r, p, v)[q] = wState[q]
<1>1. /\ wState \in [r.properties -> States]
      /\ \A q \in r.properties \ Widget!Limits(r) : wState[q] \in Widget!Values
  BY DEF WidgetInv, WidgetType
<1>2. v \in States /\ (p \notin Widget!Limits(r) => v \in Widget!Values)
  BY DEF Widget!Settable, Widget!Values, Widget!Default, Widget!Other, Widget!Beyond, States
<1>3. {0, 1} \subseteq States /\ {0, 1} \subseteq Widget!Values
  BY DEF Widget!Values, Widget!Default, Widget!Other, States
<1>4. p \in Widget!WithUnder(p)
  BY DEF Widget!WithUnder
<1> QED BY <1>1, <1>2, <1>3, <1>4 DEF After

LEMMA SetIs ==
  ASSUME WidgetInv, NEW r, r = Widget!c, Widget!KeepsRules(r),
         NEW p \in r.properties, NEW v \in Widget!Settable(p), Widget!Set(p, v)
  PROVE  /\ UNCHANGED <<wToolkit, wKind, wUsed, wAttached>> /\ Widget!c' = Widget!c
         /\ wBy' = "program" /\ wTold' \subseteq r.reports \ r.locked
         /\ ~wAttached => wState' = After(r, p, v) /\ wNative' = wNative
         /\ wAttached /\ p \in r.rebuilds =>
              wState' = Widget!Destructed(After(r, p, v)) /\ wNative' = Widget!Constructed(wState')
         /\ wAttached /\ p \notin r.rebuilds =>
              Redrawn(r, p, After(r, p, v))
<1> DEFINE set == [q \in Widget!c.properties |->
                     IF q = p THEN v
                     ELSE IF q \in Widget!WithUnder(p) THEN 1
                     ELSE IF wAttached /\ v = 0 /\ q \in Widget!c.forgets /\ Widget!c.needs[q] = p THEN 0
                     ELSE wState[q]]
           Does(st) ==
             IF ~wAttached THEN wState' = st /\ wNative' = wNative
             ELSE IF p \in Widget!c.rebuilds
             THEN wState' = Widget!Destructed(st) /\ wNative' = Widget!Constructed(wState')
             ELSE \E to \in Widget!Moves(p, v) :
                    /\ wNative' = [q \in Widget!c.properties |->
                                     IF q \in DOMAIN to THEN to[q] ELSE Widget!Shows(p, st)[q]]
                    /\ wState'  = [q \in Widget!c.properties |->
                                     IF /\ q \in Widget!c.copied
                                        /\ q \in DOMAIN to
                                           \/ (q \in Widget!c.reports /\ wNative'[q] # wNative[q])
                                     THEN wNative'[q] ELSE st[q]]
<1>1. /\ UNCHANGED <<wToolkit, wKind, wUsed, wAttached>> /\ Widget!c' = Widget!c
      /\ wBy' = "program" /\ wTold' \subseteq r.reports \ r.locked
  BY DEF Widget!Set, Widget!c
<1>2. Does(set)
  BY Zenon DEF Widget!Set, Widget!Default, Widget!Other
<1>3. set = After(r, p, v)
  BY DEF After
<1> HIDE DEF set, Does
<1>4. Does(After(r, p, v))
  BY <1>2, <1>3
<1> USE DEF Does
<1> DEFINE aft == After(r, p, v)
<1>5. /\ aft \in [r.properties -> States]
      /\ \A q \in r.properties \ Widget!Limits(r) : aft[q] \in Widget!Values
  BY AfterIs
<1>6. ~wAttached => wState' = aft /\ wNative' = wNative
  BY <1>4
<1>7. wAttached /\ p \in r.rebuilds =>
        wState' = Widget!Destructed(aft) /\ wNative' = Widget!Constructed(wState')
  BY <1>4
<1>8. ASSUME wAttached, p \notin r.rebuilds
      PROVE  Redrawn(r, p, aft)
  <2>1. PICK to \in Widget!Moves(p, v) :
          /\ wNative' = [q \in r.properties |-> IF q \in DOMAIN to THEN to[q] ELSE Widget!Shows(p, aft)[q]]
          /\ wState'  = [q \in r.properties |->
                           IF /\ q \in r.copied
                              /\ q \in DOMAIN to \/ (q \in r.reports /\ wNative'[q] # wNative[q])
                           THEN wNative'[q] ELSE aft[q]]
    BY <1>4, <1>8
  <2>2. /\ DOMAIN to = IF p = "text" THEN r.moved ELSE {}
        /\ \A q \in DOMAIN to : to[q] \in Widget!Values
    BY DEF Widget!Moves, Widget!Values, Widget!Default
  <2>3. \A q \in r.properties : Widget!Shows(p, aft)[q] =
          IF q \in Drawn(r, p) /\ ~(q \in r.sticky /\ aft[q] = 0)
          THEN Widget!Limited(q, aft[q], wNative, wNative[q]) ELSE wNative[q]
    BY DEF Widget!Shows, Widget!Default, Drawn
  <2>4. /\ wNative \in [r.properties -> Widget!Values]
        /\ Widget!Values \subseteq States
    BY DEF WidgetInv, WidgetType, Widget!Values, Widget!Default, Widget!Other, States
  <2> HIDE DEF aft
  <2>5. ASSUME NEW q \in r.properties PROVE Widget!Shows(p, aft)[q] \in Widget!Values
    <3>1. Widget!Limited(q, aft[q], wNative, wNative[q]) \in Widget!Values
      <4>1. CASE q \in Widget!Limits(r)
        BY <1>5, <2>4, <4>1, LimitedIs
      <4>2. CASE q \notin Widget!Limits(r)
        BY <1>5, <4>2, LimitedIs
      <4> QED BY <4>1, <4>2
    <3> QED BY <2>3, <2>4, <3>1
  <2>6. \A q \in r.properties : wNative'[q] \in Widget!Values
    BY <2>1, <2>2, <2>5
  <2>7. wNative' \in [r.properties -> Widget!Values]
    BY <2>1, <2>6
  <2>8. /\ wState' \in [r.properties -> States]
        /\ \A q \in r.properties \ Widget!Limits(r) : wState'[q] \in Widget!Values
    BY <1>5, <2>1, <2>4, <2>6
  <2>9. ASSUME NEW q \in r.properties
        PROVE  IF p = "text" /\ q \in r.moved
               THEN q \in r.copied => wState'[q] = wNative'[q]
               ELSE /\ wNative'[q] = IF q \in Drawn(r, p) /\ ~(q \in r.sticky /\ aft[q] = 0)
                                     THEN Widget!Limited(q, aft[q], wNative, wNative[q]) ELSE wNative[q]
                    /\ wState'[q] = IF q \in r.copied /\ q \in r.reports /\ wNative'[q] # wNative[q]
                                    THEN wNative'[q] ELSE aft[q]
    BY <2>1, <2>2, <2>3
  <2> QED BY <2>7, <2>8, <2>9 DEF Redrawn
<1> QED BY <1>1, <1>6, <1>7, <1>8

(* A control that is made anew, and one that had its state saved before.   *)
LEMMA MadeAnew ==
  ASSUME NEW r, r = Widget!c, Widget!KeepsRules(r), NEW st \in [r.properties -> States],
         \A p \in r.properties \ Widget!Limits(r) : st[p] \in Widget!Values,
         wNative' = Widget!Constructed(st), wState' = st, Widget!c' = Widget!c
  PROVE  /\ wNative' \in [r.properties -> Widget!Values]
         /\ \A q \in Shown(r) : wNative'[q] = wState'[q] \/ Misfit(q)'
         /\ \A q \in Widget!Heard(r) \ Widget!Limits(r) : wNative'[q] = wState'[q]
<1>1. wNative' \in [r.properties -> Widget!Values]
  BY ConstructedIs
<1>2. ASSUME NEW q \in Shown(r) PROVE wNative'[q] = wState'[q] \/ Misfit(q)'
  BY ConstructedIs, ShownRules DEF Misfit
<1>3. ASSUME NEW q \in Widget!Heard(r) \ Widget!Limits(r) PROVE wNative'[q] = wState'[q]
  BY ConstructedIs, HeardRules
<1> QED BY <1>1, <1>2, <1>3

LEMMA DestructedIs ==
  ASSUME NEW r, r = Widget!c, NEW st \in [r.properties -> States], WidgetInv,
         \A p \in r.properties \ Widget!Limits(r) : st[p] \in Widget!Values
  PROVE  /\ Widget!Destructed(st) \in [r.properties -> States]
         /\ \A p \in r.properties \ Widget!Limits(r) : Widget!Destructed(st)[p] \in Widget!Values
         /\ \A p \in r.properties :
              Widget!Destructed(st)[p] = IF p \in r.saved THEN wNative[p] ELSE st[p]
<1>1. wNative \in [r.properties -> Widget!Values] /\ Widget!Values \subseteq States
  BY DEF WidgetInv, WidgetType, Widget!Values, Widget!Default, Widget!Other, States
<1> QED BY <1>1 DEF Widget!Destructed

LEMMA WidgetSetKeepsInv ==
  ASSUME WidgetInv, NEW r, r = Widget!c, Widget!KeepsRules(r),
         NEW p \in wUsed, NEW v \in Widget!Settable(p), Widget!Set(p, v)
  PROVE  WidgetInv'
<1> DEFINE aft == After(r, p, v)
<1>0. p \in r.properties
  BY DEF WidgetInv, WidgetType
<1>1. /\ UNCHANGED <<wToolkit, wKind, wUsed, wAttached>> /\ Widget!c' = Widget!c
      /\ ~wAttached => wState' = aft /\ wNative' = wNative
      /\ wAttached /\ p \in r.rebuilds =>
              wState' = Widget!Destructed(aft) /\ wNative' = Widget!Constructed(wState')
  BY <1>0, SetIs
<1>2. /\ aft \in [r.properties -> States]
      /\ \A q \in r.properties \ Widget!Limits(r) : aft[q] \in Widget!Values
      /\ \A q \in r.properties : q \notin Widget!WithUnder(p) /\ q \notin r.forgets => aft[q] = wState[q]
  BY <1>0, AfterIs
<1>3. /\ wNative \in [r.properties -> Widget!Values]
      /\ wAttached => \A q \in Shown(r) : wNative[q] = wState[q] \/ Misfit(q)
  BY DEF WidgetInv, WidgetType
<1> HIDE DEF aft
<1>4. SUFFICES /\ wState' \in [r.properties -> States]
               /\ \A q \in r.properties \ Widget!Limits(r) : wState'[q] \in Widget!Values
               /\ wNative' \in [r.properties -> Widget!Values]
               /\ wAttached => \A q \in Shown(r) : wNative'[q] = wState'[q] \/ Misfit(q)'
  BY <1>1 DEF WidgetInv, WidgetType
<1>5. CASE ~wAttached
  BY <1>1, <1>2, <1>3, <1>5
<1>6. CASE wAttached /\ p \in r.rebuilds
  <2>1. /\ wState' \in [r.properties -> States]
        /\ \A q \in r.properties \ Widget!Limits(r) : wState'[q] \in Widget!Values
    BY <1>1, <1>2, <1>6, DestructedIs
  <2>2. PICK st : st = wState'
    OBVIOUS
  <2>3. /\ wNative' \in [r.properties -> Widget!Values]
        /\ \A q \in Shown(r) : wNative'[q] = wState'[q] \/ Misfit(q)'
    BY <1>1, <1>6, <2>1, <2>2, MadeAnew
  <2> QED BY <2>1, <2>3
<1>7. CASE wAttached /\ p \notin r.rebuilds
  <2>0. Redrawn(r, p, aft)
    BY <1>0, <1>7, SetIs DEF aft
  <2>1. /\ wState' \in [r.properties -> States] /\ wNative' \in [r.properties -> Widget!Values]
        /\ \A q \in r.properties \ Widget!Limits(r) : wState'[q] \in Widget!Values
        /\ \A q \in r.properties :
             IF p = "text" /\ q \in r.moved
             THEN q \in r.copied => wState'[q] = wNative'[q]
             ELSE /\ wNative'[q] = IF q \in Drawn(r, p) /\ ~(q \in r.sticky /\ aft[q] = 0)
                                   THEN Widget!Limited(q, aft[q], wNative, wNative[q]) ELSE wNative[q]
                  /\ wState'[q] = IF q \in r.copied /\ q \in r.reports /\ wNative'[q] # wNative[q]
                                  THEN wNative'[q] ELSE aft[q]
    BY <2>0 DEF Redrawn
  <2>2. ASSUME NEW q \in Shown(r) PROVE wNative'[q] = wState'[q] \/ Misfit(q)'
    <3>1. /\ q \in r.properties /\ q \notin r.ignored /\ q \notin r.sticky /\ q \notin r.forgets
          /\ q \in r.moved => q \in r.copied
          /\ q = "cursor" /\ q \in Widget!Limits(r) =>
              q \in r.moved /\ "text" \in r.properties \ r.together /\ DOMAIN r.under = {}
      BY ShownRules
    <3>2. CASE p = "text" /\ q \in r.moved
      BY <2>1, <3>1, <3>2
    <3>3. CASE ~(p = "text" /\ q \in r.moved)
      <4>1. /\ wNative'[q] = IF q \in Drawn(r, p)
                             THEN Widget!Limited(q, aft[q], wNative, wNative[q]) ELSE wNative[q]
            /\ wState'[q] = aft[q] \/ wState'[q] = wNative'[q]
        BY <2>1, <3>1, <3>3
      <4>2. q = "cursor" /\ q \in Widget!Limits(r) => wNative'["text"] = wNative["text"]
        <5> SUFFICES ASSUME q = "cursor", q \in Widget!Limits(r) PROVE wNative'["text"] = wNative["text"]
          OBVIOUS
        <5>1. p # "text" /\ "text" \in r.properties \ r.together /\ Widget!WithUnder(p) = {p}
          BY <3>1, <3>3, UnderIs
        <5>2. "text" \notin Drawn(r, p)
          BY <5>1 DEF Drawn
        <5> QED BY <2>1, <5>1, <5>2
      <4>3. CASE q \in Drawn(r, p)
        BY <1>1, <3>1, <4>1, <4>2, <4>3, LimitedIs DEF Misfit
      <4>4. CASE q \notin Drawn(r, p)
        <5>1. aft[q] = wState[q]
          BY <1>2, <3>1, <4>4, DrawnIs
        <5> QED BY <1>1, <1>3, <1>7, <3>1, <4>1, <4>2, <4>4, <5>1 DEF Misfit
      <4> QED BY <4>3, <4>4
    <3> QED BY <3>2, <3>3
  <2> QED BY <2>1, <2>2
<1> QED BY <1>5, <1>6, <1>7

LEMMA WidgetAttachKeepsInv ==
  ASSUME WidgetInv, NEW r, r = Widget!c, Widget!KeepsRules(r), Widget!Attach
  PROVE  /\ WidgetInv' /\ Widget!c' = Widget!c
         /\ \A q \in r.properties \ r.forgets : wState'[q] = wState[q]
         /\ \A q \in Widget!Heard(r) \ Widget!Limits(r) : wNative'[q] = wState'[q]
<1>1. UNCHANGED <<wToolkit, wKind, wUsed>> /\ Widget!c' = Widget!c /\ wNative' = Widget!Constructed(wState')
  BY DEF Widget!Attach, Widget!c
<1>2. wState' = [p \in r.properties |-> IF p \in r.forgets THEN 0 ELSE wState[p]]
  BY DEF Widget!Attach, Widget!Default
<1>3. /\ wState' \in [r.properties -> States]
      /\ \A p \in r.properties \ Widget!Limits(r) : wState'[p] \in Widget!Values
  BY <1>2 DEF WidgetInv, WidgetType, Widget!Values, Widget!Default, States
<1>4. PICK st : st = wState'
  OBVIOUS
<1>5. /\ wNative' \in [r.properties -> Widget!Values]
      /\ \A q \in Shown(r) : wNative'[q] = wState'[q] \/ Misfit(q)'
      /\ \A q \in Widget!Heard(r) \ Widget!Limits(r) : wNative'[q] = wState'[q]
  BY <1>1, <1>3, <1>4, MadeAnew
<1>6. WidgetInv'
  BY <1>1, <1>3, <1>5 DEF WidgetInv, WidgetType
<1> QED BY <1>1, <1>2, <1>5, <1>6

LEMMA WidgetDetach ==
  ASSUME WidgetInv, NEW r, r = Widget!c, Widget!KeepsRules(r), Widget!Detach
  PROVE  /\ WidgetInv' /\ Widget!c' = Widget!c
         /\ \A p \in r.properties : wState'[p] = IF p \in r.saved THEN wNative[p] ELSE wState[p]
<1>1. /\ UNCHANGED <<wToolkit, wKind, wUsed, wNative>> /\ Widget!c' = Widget!c
      /\ wAttached /\ ~wAttached' /\ wState' = Widget!Destructed(wState)
  BY DEF Widget!Detach, Widget!c
<1>2. /\ wState \in [r.properties -> States]
      /\ \A p \in r.properties \ Widget!Limits(r) : wState[p] \in Widget!Values
  BY DEF WidgetInv, WidgetType
<1>3. /\ wState' \in [r.properties -> States]
      /\ \A p \in r.properties \ Widget!Limits(r) : wState'[p] \in Widget!Values
      /\ \A p \in r.properties : wState'[p] = IF p \in r.saved THEN wNative[p] ELSE wState[p]
  BY <1>1, <1>2, DestructedIs
<1>4. WidgetInv'
  BY <1>1, <1>3 DEF WidgetInv, WidgetType
<1> QED BY <1>1, <1>3, <1>4

(* What the user changes, and what a text moves that he types.             *)
LEMMA WidgetEdit ==
  ASSUME WidgetInv, NEW r, r = Widget!c, Widget!KeepsRules(r), NEW p \in r.edited, Widget!Edit(p)
  PROVE  /\ WidgetInv' /\ Widget!c' = Widget!c /\ p \in r.properties /\ wNative'[p] # wNative[p]
         /\ wBy' = "user" /\ wAttached /\ wAttached'
         /\ {p} \cap r.tells \subseteq wTold' /\ wTold' \subseteq ({p} \cup r.moved) \cap r.tells
         /\ \A q \in r.properties :
              IF q = p \/ (p = "text" /\ q \in r.moved)
              THEN q \in r.copied => wState'[q] = wNative'[q]
              ELSE wState'[q] = wState[q] /\ wNative'[q] = wNative[q]
<1>1. UNCHANGED <<wToolkit, wKind, wUsed, wAttached>> /\ Widget!c' = Widget!c /\ wAttached /\ wBy' = "user"
  BY DEF Widget!Edit, Widget!CanEdit, Widget!c
<1>2a. PICK v \in Widget!Values \ {wNative[p]} : \E to \in Widget!Moves(p, v) :
        /\ wNative' = [q \in r.properties |->
                         IF q = p THEN v ELSE IF q \in DOMAIN to THEN to[q] ELSE wNative[q]]
        /\ wState'  = [q \in r.properties |->
                         IF q \in r.copied /\ (q = p \/ q \in DOMAIN to) THEN wNative'[q] ELSE wState[q]]
        /\ wTold' = ({p} \cup {q \in DOMAIN to : to[q] # wState[q]}) \cap r.tells
  BY DEF Widget!Edit
<1>2. PICK to \in Widget!Moves(p, v) :
        /\ wNative' = [q \in r.properties |->
                         IF q = p THEN v ELSE IF q \in DOMAIN to THEN to[q] ELSE wNative[q]]
        /\ wState'  = [q \in r.properties |->
                         IF q \in r.copied /\ (q = p \/ q \in DOMAIN to) THEN wNative'[q] ELSE wState[q]]
        /\ wTold' = ({p} \cup {q \in DOMAIN to : to[q] # wState[q]}) \cap r.tells
  BY <1>2a
<1>3. /\ DOMAIN to = IF p = "text" THEN r.moved ELSE {}
      /\ \A q \in DOMAIN to : to[q] \in Widget!Values
  BY DEF Widget!Moves, Widget!Values, Widget!Default
<1>4. /\ wState \in [r.properties -> States] /\ wNative \in [r.properties -> Widget!Values]
      /\ \A q \in r.properties \ Widget!Limits(r) : wState[q] \in Widget!Values
      /\ \A q \in Shown(r) : wNative[q] = wState[q] \/ Misfit(q)
      /\ Widget!Values \subseteq States
  BY <1>1 DEF WidgetInv, WidgetType, Widget!Values, Widget!Default, Widget!Other, States
<1>5. p \in r.properties
  BY DEF Widget!KeepsRules, Widget!PassesRules
<1>6. wNative' \in [r.properties -> Widget!Values]
  BY <1>2, <1>3, <1>4
<1>7. /\ wState' \in [r.properties -> States]
      /\ \A q \in r.properties \ Widget!Limits(r) : wState'[q] \in Widget!Values
  BY <1>2, <1>4, <1>6
<1>8. \A q \in r.properties :
        IF q = p \/ (p = "text" /\ q \in r.moved)
        THEN q \in r.copied => wState'[q] = wNative'[q]
        ELSE wState'[q] = wState[q] /\ wNative'[q] = wNative[q]
  BY <1>2, <1>3
<1>9. ASSUME NEW q \in Shown(r) PROVE wNative'[q] = wState'[q] \/ Misfit(q)'
  <2>1. /\ q \in r.properties
        /\ q \in r.moved \cup r.edited => q \in r.copied
        /\ q = "cursor" /\ q \in Widget!Limits(r) => q \in r.moved /\ "text" \in r.properties
    BY ShownRules
  <2>2. CASE q = p \/ (p = "text" /\ q \in r.moved)
    BY <1>8, <2>1, <2>2
  <2>3. CASE ~(q = p \/ (p = "text" /\ q \in r.moved))
    <3>1. wState'[q] = wState[q] /\ wNative'[q] = wNative[q]
      BY <1>8, <2>1, <2>3
    <3>2. q = "cursor" /\ q \in Widget!Limits(r) => wNative'["text"] = wNative["text"]
      BY <1>8, <2>1, <2>3
    <3> QED BY <1>1, <1>4, <3>1, <3>2 DEF Misfit
  <2> QED BY <2>2, <2>3
<1>10. WidgetInv'
  BY <1>1, <1>6, <1>7, <1>9 DEF WidgetInv, WidgetType
<1>11. {p} \cap r.tells \subseteq wTold' /\ wTold' \subseteq ({p} \cup r.moved) \cap r.tells
  BY <1>2, <1>3
<1>12. wNative'[p] # wNative[p]
  BY <1>2, <1>5
<1> QED BY <1>1, <1>5, <1>8, <1>10, <1>11, <1>12

LEMMA ShownIsRead ==
  ASSUME WidgetInv, Widget!WidgetAssumption
  PROVE  Widget!NativeShowsState
<1>1. PICK r : r = Widget!c /\ Widget!KeepsRules(r)
  BY RulesAreKept
<1>2. ASSUME wAttached, NEW p \in Widget!Kept(r), Widget!Fits(p)
      PROVE  Widget!Seen(p) = Widget!Read(p)
  <2>1. CASE p \in r.asked
    <3>1. p \notin DOMAIN r.under
      BY <1>1, <2>1 DEF Widget!KeepsRules, Widget!UnderRules
    <3> QED BY <1>1, <1>2, <2>1, <3>1 DEF Widget!Read, Widget!Seen
  <2>2. CASE p \notin r.asked
    <3>1. wNative[p] = wState[p] \/ Misfit(p)
      <4>1. p \in Shown(r)
        BY <2>2 DEF Shown, Widget!Asked
      <4> QED BY <1>1, <1>2, <4>1 DEF WidgetInv
    <3>2. p \in Widget!Limits(r) => p \notin DOMAIN r.under
      BY <1>1 DEF Widget!KeepsRules, Widget!LimitRules
    <3>3. CASE p \notin DOMAIN r.under
      <4>1. Widget!Read(p) = wState[p] /\ Widget!Seen(p) = wNative[p]
        BY <1>1, <2>2, <3>3 DEF Widget!Read, Widget!Seen
      <4>2. ~Misfit(p)
        BY <1>1, <1>2, <4>1 DEF Misfit, Widget!Fits, Widget!Beyond, Widget!Default
      <4> QED BY <3>1, <4>1, <4>2
    <3>4. CASE p \in DOMAIN r.under
      <4> DEFINE u == r.under[p]
      <4>1. u \in Widget!Kept(r) \ (r.asked \cup Widget!Limits(r))
        BY <1>1, <3>4 DEF Widget!KeepsRules, Widget!UnderRules
      <4>2. wNative[u] = wState[u]
        <5>1. u \in Shown(r)
          BY <4>1 DEF Shown, Widget!Asked
        <5> QED BY <1>1, <1>2, <4>1, <5>1 DEF WidgetInv, Misfit
      <4>3. wNative[p] = wState[p]
        BY <1>1, <3>1, <3>2, <3>4 DEF Misfit
      <4> QED BY <1>1, <2>2, <3>4, <4>2, <4>3 DEF Widget!Read, Widget!Seen
    <3> QED BY <3>3, <3>4
  <2> QED BY <2>1, <2>2
<1> QED BY <1>1, <1>2 DEF Widget!NativeShowsState, Widget!Kept

LEMMA WidgetStepKeepsInv ==
  ASSUME WidgetInv, Widget!WidgetAssumption, Widget!Next
  PROVE  WidgetInv'
<1>1. PICK r : r = Widget!c /\ Widget!KeepsRules(r)
  BY RulesAreKept
<1>2. ASSUME NEW p \in wUsed, NEW v \in Widget!Settable(p), Widget!Set(p, v) PROVE WidgetInv'
  BY <1>1, <1>2, WidgetSetKeepsInv
<1>3. CASE Widget!Attach
  BY <1>1, <1>3, WidgetAttachKeepsInv
<1>4. CASE Widget!Detach
  BY <1>1, <1>4, WidgetDetach
<1>5. ASSUME NEW p \in Widget!c.edited, Widget!Edit(p) PROVE WidgetInv'
  BY <1>1, <1>5, WidgetEdit
<1>6. ASSUME NEW e \in Widget!c.events, Widget!Event(e) PROVE WidgetInv'
  <2>1. UNCHANGED <<wToolkit, wKind, wUsed, wAttached, wState, wNative>> /\ Widget!c' = Widget!c
    BY <1>6 DEF Widget!Event, Widget!c
  <2> QED BY <2>1 DEF WidgetInv, WidgetType, Misfit
<1> QED BY <1>2, <1>3, <1>4, <1>5, <1>6 DEF Widget!Next

LEMMA WidgetStartsRight ==
  ASSUME Widget!Init
  PROVE  WidgetInv
<1>1. wUsed \subseteq Widget!c.properties
  BY DEF Widget!Init, Widget!kSubset, Widget!c
<1>2. Shown(Widget!c) \subseteq Widget!c.properties
  BY DEF Shown, Widget!Kept
<1> QED BY <1>1, <1>2 DEF Widget!Init, WidgetInv, WidgetType, Widget!Values, Widget!Default, Widget!c,
           States

(* What the user entered is in the state, or in the control that is asked. *)
LEMMA EnteredIs ==
  ASSUME WidgetInv, Widget!WidgetAssumption
  PROVE  \A q \in Widget!Heard(Widget!c) :
           Widget!Entered(q) = IF wAttached /\ q \in Widget!Asked(Widget!c) THEN wNative[q] ELSE wState[q]
<1>1. PICK r : r = Widget!c /\ Widget!KeepsRules(r)
  BY RulesAreKept
<1>2. ASSUME NEW q \in Widget!Heard(r)
      PROVE  Widget!Entered(q) = IF wAttached /\ q \in Widget!Asked(r) THEN wNative[q] ELSE wState[q]
  <2>1. CASE ~wAttached
    BY <2>1 DEF Widget!Entered
  <2>2. CASE wAttached /\ q \in Widget!Asked(r)
    <3>1. Widget!Fits(q)
      BY <1>1, <2>2, HeardRules DEF Widget!Fits
    <3> QED BY <2>2, <3>1 DEF Widget!Entered
  <2>3. CASE wAttached /\ q \notin Widget!Asked(r)
    <3>1. wNative[q] = wState[q] \/ Misfit(q)
      <4>1. q \in Shown(r)
        BY <1>1, <2>3, HeardRules
      <4> QED BY <1>1, <2>3, <4>1 DEF WidgetInv
    <3>2. Misfit(q) => ~Widget!Fits(q)
      <4> SUFFICES ASSUME Misfit(q) PROVE ~Widget!Fits(q)
        OBVIOUS
      <4>1. q \in Widget!Limits(r) /\ q \notin r.asked /\ q \notin DOMAIN r.under
        BY <1>1, HeardRules DEF Misfit
      <4>2. Widget!Read(q) = wState[q]
        BY <1>1, <4>1 DEF Widget!Read
      <4> QED BY <1>1, <4>1, <4>2 DEF Misfit, Widget!Fits, Widget!Beyond, Widget!Default
    <3> QED BY <2>3, <3>1, <3>2 DEF Widget!Entered
  <2> QED BY <2>1, <2>2, <2>3
<1> QED BY <1>1, <1>2

(* A setter leaves alone what the user entered elsewhere.                  *)
LEMMA SetLeavesEntered ==
  ASSUME WidgetInv, Widget!WidgetAssumption, NEW r, r = Widget!c, Widget!KeepsRules(r),
         NEW p \in wUsed, NEW v \in Widget!Settable(p), Widget!Set(p, v),
         NEW q \in Widget!Heard(r) \ {p}, ~(p = "text" /\ q \in r.moved)
  PROVE  (IF wAttached /\ q \in Widget!Asked(r) THEN wNative'[q] ELSE wState'[q]) =
         (IF wAttached /\ q \in Widget!Asked(r) THEN wNative[q] ELSE wState[q])
<1> DEFINE aft == After(r, p, v)
<1>0. p \in r.properties
  BY DEF WidgetInv, WidgetType
<1>1. /\ ~wAttached => wState' = aft
      /\ wAttached /\ p \in r.rebuilds =>
              wState' = Widget!Destructed(aft) /\ wNative' = Widget!Constructed(wState')
      /\ Widget!c' = Widget!c
  BY <1>0, SetIs
<1>2. q \in r.properties /\ q \notin r.forgets /\ q \notin Widget!WithUnder(p) /\ q \notin r.ignored
  BY HeardRules, UnderIs
<1>3. aft[q] = wState[q]
  BY <1>0, <1>2, AfterIs
<1>4. CASE ~wAttached
  BY <1>1, <1>3, <1>4
<1>5. CASE wAttached /\ p \in r.rebuilds
  <2>1. /\ aft \in [r.properties -> States]
        /\ \A x \in r.properties \ Widget!Limits(r) : aft[x] \in Widget!Values
    BY <1>0, AfterIs
  <2>2. wState'[q] = IF q \in r.saved THEN wNative[q] ELSE wState[q]
    BY <1>1, <1>2, <1>3, <1>5, <2>1, DestructedIs
  <2>3. CASE q \in Widget!Asked(r)
    <3>1. q \in r.saved /\ q \notin Widget!Limits(r)
      BY <2>3, HeardRules
    <3>2. PICK st : st = wState'
      OBVIOUS
    <3>3. wNative'[q] = wState'[q]
      BY <1>1, <1>5, <2>1, <3>1, <3>2, DestructedIs, MadeAnew
    <3> QED BY <1>5, <2>2, <2>3, <3>1, <3>3
  <2>4. CASE q \notin Widget!Asked(r)
    <3>1. q \in Shown(r) /\ (q \in Widget!Limits(r) => q \notin r.saved)
      BY <2>4, HeardRules
    <3>2. q \in r.saved => wNative[q] = wState[q]
      BY <1>5, <3>1 DEF WidgetInv, Misfit
    <3> QED BY <2>2, <2>4, <3>2
  <2> QED BY <2>3, <2>4
<1>6. CASE wAttached /\ p \notin r.rebuilds
  <2>0. Redrawn(r, p, aft)
    BY <1>0, <1>6, SetIs
  <2>1. /\ wNative'[q] = IF q \in Drawn(r, p) /\ ~(q \in r.sticky /\ aft[q] = 0)
                         THEN Widget!Limited(q, aft[q], wNative, wNative[q]) ELSE wNative[q]
        /\ wState'[q] = IF q \in r.copied /\ q \in r.reports /\ wNative'[q] # wNative[q]
                        THEN wNative'[q] ELSE aft[q]
    BY <1>2, <2>0 DEF Redrawn
  <2> HIDE DEF aft
  <2>2. q \in Drawn(r, p) => q \in r.together
    BY <1>2, DrawnIs
  <2>3. CASE q \in Widget!Asked(r)
    <3>1. q \notin r.together
      BY <2>3, HeardRules
    <3> QED BY <1>6, <2>1, <2>2, <2>3, <3>1
  <2>4. CASE q \notin Widget!Asked(r)
    <3>1. q \in Drawn(r, p) => Widget!Limited(q, aft[q], wNative, wNative[q]) = aft[q]
      <4>1. q \in Drawn(r, p) => q \notin Widget!Limits(r)
        BY <2>2, HeardRules
      <4> QED BY <4>1, LimitedIs
    <3>2. wState'[q] = aft[q]
      BY <2>1, <3>1
    <3> QED BY <1>3, <2>4, <3>2
  <2> QED BY <2>3, <2>4
<1> QED BY <1>4, <1>5, <1>6

(* What the program is told of its own changes is loose; what a user's     *)
(* change tells is read as it is shown.                                    *)
LEMMA UserIsAlwaysHeard ==
  ASSUME WidgetInv, Widget!WidgetAssumption, Widget!Next
  PROVE  Widget!UserIsHeard
<1>1. PICK r : r = Widget!c /\ Widget!KeepsRules(r)
  BY RulesAreKept
<1>2. Widget!c' = Widget!c
  BY DEF Widget!Next, Widget!Set, Widget!Attach, Widget!Detach, Widget!Edit, Widget!Event, Widget!c
<1>3. WidgetInv'
  BY WidgetStepKeepsInv
<1>4. \A q \in Widget!Heard(r) :
        /\ Widget!Entered(q) = IF wAttached /\ q \in Widget!Asked(r) THEN wNative[q] ELSE wState[q]
        /\ Widget!Entered(q)' = IF wAttached' /\ q \in Widget!Asked(r) THEN wNative'[q] ELSE wState'[q]
  <2>1. \A q \in Widget!Heard(Widget!c) :
          Widget!Entered(q) = IF wAttached /\ q \in Widget!Asked(Widget!c) THEN wNative[q] ELSE wState[q]
    BY EnteredIs
  <2>2. (\A q \in Widget!Heard(Widget!c) :
          Widget!Entered(q) = IF wAttached /\ q \in Widget!Asked(Widget!c) THEN wNative[q] ELSE wState[q])'
    BY <1>3, EnteredIs, PTL
  <2> QED BY <1>1, <1>2, <2>1, <2>2
<1>5. Widget!Heard(r) = r.edited \ r.loose
  BY DEF Widget!Heard
<1>6. ASSUME NEW p \in wUsed, NEW v \in Widget!Settable(p), Widget!Set(p, v) PROVE Widget!UserIsHeard
  <2>1. wBy' = "program" /\ wAttached' = wAttached /\ wTold' \subseteq r.reports \ r.locked
    BY <1>1, <1>6 DEF Widget!Set
  <2>2. wTold' \subseteq r.loose
    BY <1>1, <2>1 DEF Widget!KeepsRules, Widget!PassesRules
  <2>3. \A q \in Widget!Heard(r) \ {p} :
          Widget!Entered(q)' = Widget!Entered(q) \/ (p = "text" /\ q \in r.moved)
    BY <1>1, <1>4, <1>6, <2>1, SetLeavesEntered
  <2> QED BY <1>1, <1>5, <2>1, <2>2, <2>3 DEF Widget!UserIsHeard
<1>7. CASE Widget!Attach
  <2>1. wBy' = "program" /\ wTold' = {} /\ wAttached' /\ ~wAttached
    BY <1>7 DEF Widget!Attach
  <2>2. ASSUME NEW q \in Widget!Heard(r) PROVE Widget!Entered(q)' = Widget!Entered(q)
    <3>1. /\ q \in r.properties \ r.forgets
          /\ q \in Widget!Asked(r) => q \notin Widget!Limits(r)
      BY <1>1, HeardRules
    <3>2. wState'[q] = wState[q] /\ (q \notin Widget!Limits(r) => wNative'[q] = wState'[q])
      BY <1>1, <1>7, <3>1, WidgetAttachKeepsInv
    <3> QED BY <1>4, <2>1, <3>1, <3>2
  <2> QED BY <1>1, <1>5, <2>1, <2>2 DEF Widget!UserIsHeard
<1>8. CASE Widget!Detach
  <2>1. wBy' = "program" /\ wTold' = {} /\ wAttached /\ ~wAttached'
    BY <1>8 DEF Widget!Detach
  <2>2. ASSUME NEW q \in Widget!Heard(r) PROVE Widget!Entered(q)' = Widget!Entered(q)
    <3>1. /\ q \in r.properties
          /\ q \in Widget!Asked(r) => q \in r.saved
          /\ q \notin Widget!Asked(r) => q \in Shown(r)
          /\ q \in Widget!Limits(r) => q \notin r.saved
      BY <1>1, HeardRules
    <3>2. wState'[q] = IF q \in r.saved THEN wNative[q] ELSE wState[q]
      BY <1>1, <1>8, <3>1, WidgetDetach
    <3>3. q \notin Widget!Asked(r) /\ q \in r.saved => wNative[q] = wState[q]
      BY <1>1, <2>1, <3>1 DEF WidgetInv, Misfit
    <3> QED BY <1>4, <2>1, <3>1, <3>2, <3>3
  <2> QED BY <1>1, <1>5, <2>1, <2>2 DEF Widget!UserIsHeard
<1>9. ASSUME NEW q \in r.properties \ r.loose, q \in {"checkable", "droppable"}, wAttached,
             wNative[q] # Widget!Default
      PROVE  Widget!Read(q) # Widget!Default
  <2>1. /\ q \notin r.asked /\ q \notin Widget!Limits(r) /\ q \notin DOMAIN r.under
        /\ q \notin r.ignored
    BY <1>1, <1>9 DEF Widget!KeepsRules, Widget!EventRules
  <2>2. q \in Shown(r)
    BY <2>1 DEF Shown, Widget!Kept, Widget!Asked
  <2>3. wState[q] = wNative[q]
    BY <1>1, <1>9, <2>1, <2>2 DEF WidgetInv, Misfit
  <2> QED BY <1>1, <1>9, <2>1, <2>3 DEF Widget!Read
<1>10. ASSUME NEW p \in Widget!c.edited, Widget!Edit(p) PROVE Widget!UserIsHeard
  <2>1. /\ p \in r.properties /\ wNative'[p] # wNative[p]
        /\ wBy' = "user" /\ wAttached /\ wAttached'
        /\ {p} \cap r.tells \subseteq wTold' /\ wTold' \subseteq ({p} \cup r.moved) \cap r.tells
        /\ \A q \in r.properties :
             IF q = p \/ (p = "text" /\ q \in r.moved)
             THEN q \in r.copied => wState'[q] = wNative'[q]
             ELSE wState'[q] = wState[q] /\ wNative'[q] = wNative[q]
    BY <1>1, <1>10, WidgetEdit
  <2>2. Widget!CanEdit(p)
    BY <1>10 DEF Widget!Edit
  <2>3. r.moved \subseteq r.edited \ (DOMAIN r.needs \cup DOMAIN r.under) /\ {"none", "drop"} \cap r.edited = {}
    BY <1>1 DEF Widget!KeepsRules, Widget!EventRules
  <2>4. wTold' # {} \/ (\E q \in r.loose : wNative'[q] # wNative[q])
    <3>1. p \notin r.loose => p \in r.tells
      BY <1>1, <1>10 DEF Widget!KeepsRules, Widget!PassesRules, Widget!Heard
    <3> QED BY <2>1, <3>1
  <2>5. ASSUME NEW q \in (wTold' \cap r.properties) \ r.loose
        PROVE  Widget!Read(q)' = wNative'[q]
    <3>1. q \in Widget!Heard(r) /\ (q = p \/ q \in r.moved)
      BY <1>1, <1>5, <1>10, <2>1, <2>3
    <3>2. CASE q \in r.asked
      BY <1>1, <1>2, <2>1, <3>2 DEF Widget!Read
    <3>3. CASE q \notin r.asked
      <4>1. q \in Shown(r) /\ q \in r.copied
        BY <1>1, <3>1, <3>3, HeardRules DEF Widget!Asked
      <4>2. wState'[q] = wNative'[q]
        <5>1. CASE q = p \/ p = "text"
          BY <2>1, <3>1, <4>1, <5>1
        <5>2. CASE q # p /\ p # "text"
          <6>1. wTold' \subseteq {p}
            BY <1>10, <5>2 DEF Widget!Edit, Widget!Moves
          <6> QED BY <5>2, <6>1
        <5> QED BY <5>1, <5>2
      <4>3. CASE q \notin DOMAIN r.under
        BY <1>1, <1>2, <3>3, <4>2, <4>3 DEF Widget!Read
      <4>4. CASE q \in DOMAIN r.under
        <5> DEFINE u == r.under[q]
        <5>1. q = p /\ q \in Widget!Kept(r) /\ q \in r.edited
          BY <1>1, <2>3, <3>1, <4>4, HeardRules
        <5>2. /\ u \in Widget!Kept(r) \ (r.asked \cup Widget!Limits(r)) /\ u \notin Widget!Heard(r)
              /\ q \in DOMAIN r.needs /\ r.needs[q] = u
          BY <1>1, <4>4, <5>1 DEF Widget!KeepsRules, Widget!UnderRules
        <5>3. wNative[u] # Widget!Default
          BY <1>1, <2>2, <5>1, <5>2 DEF Widget!CanEdit
        <5>4. wState[u] = wNative[u]
          <6>1. u \in Shown(r)
            BY <5>2 DEF Shown, Widget!Asked
          <6> QED BY <1>1, <2>1, <5>2, <6>1 DEF WidgetInv, Misfit
        <5>5. u \in r.properties /\ u # p /\ u \notin r.moved
          BY <1>5, <2>3, <3>1, <5>1, <5>2 DEF Widget!Kept
        <5>6. wState'[u] # Widget!Default
          BY <2>1, <5>3, <5>4, <5>5
        <5> QED BY <1>1, <1>2, <3>3, <4>2, <5>6 DEF Widget!Read
      <4> QED BY <4>3, <4>4
    <3> QED BY <3>2, <3>3
  <2>6. ASSUME NEW q \in r.properties \ r.loose, Widget!Requires(q) \in wTold'
        PROVE  Widget!Read(q) # Widget!Default
    <3>1. Widget!Requires(q) \in r.edited /\ Widget!Requires(q) \notin {"none", "drop"}
      BY <1>1, <1>10, <2>1, <2>3, <2>6
    <3>2. q = "checkable" /\ Widget!Requires(q) = "checked"
      BY <3>1 DEF Widget!Requires
    <3>3. "checked" \in DOMAIN r.needs /\ r.needs["checked"] = "checkable"
      BY <1>1, <2>6, <3>1, <3>2 DEF Widget!KeepsRules, Widget!EventRules
    <3>4. p = "checked"
      BY <2>1, <2>3, <2>6, <3>2, <3>3
    <3>5. wNative["checkable"] # Widget!Default
      BY <1>1, <2>2, <3>3, <3>4 DEF Widget!CanEdit
    <3> QED BY <1>9, <2>1, <2>6, <3>2, <3>5
  <2> QED BY <1>1, <2>1, <2>4, <2>5, <2>6 DEF Widget!UserIsHeard
<1>11. ASSUME NEW e \in Widget!c.events, Widget!Event(e) PROVE Widget!UserIsHeard
  <2>1. /\ wBy' = "user" /\ wAttached /\ wAttached' = wAttached /\ wTold' = {e}
        /\ e = "drop" => wNative["droppable"] # Widget!Default
    BY <1>11 DEF Widget!Event
  <2>2. e \notin r.properties /\ e \notin {"none", "checked"}
    BY <1>1, <1>11 DEF Widget!KeepsRules, Widget!EventRules
  <2>3. ASSUME NEW q \in r.properties \ r.loose, Widget!Requires(q) \in wTold'
        PROVE  Widget!Read(q) # Widget!Default
    <3>1. q = "droppable" /\ e = "drop"
      BY <2>1, <2>2, <2>3 DEF Widget!Requires
    <3> QED BY <1>9, <2>1, <2>3, <3>1
  <2> QED BY <1>1, <2>1, <2>2, <2>3 DEF Widget!UserIsHeard
<1> QED BY <1>6, <1>7, <1>8, <1>10, <1>11 DEF Widget!Next

-------------------------------------------------------------------------------
(* Sliders and scroll bars.  As long as the program's position is inside   *)
(* the range, the knob is at it; and if it was not, a control that sets    *)
(* the position again finds back.                                          *)

RangeInv ==
  /\ rControl \in Slider!Gtk \cup Slider!Windows \cup Slider!Cocoa \cup Slider!Qt
  /\ rLength \in Nat /\ rPosition \in Nat /\ rLast \in Nat /\ rKnob \in Nat
  /\ rAttached => rLast = Slider!Last(rLength)
  /\ rAttached /\ rInside => rPosition <= rLast
  /\ rAttached /\ (rInside \/ rControl.again) => rKnob = Slider!Least(rPosition, rLast)

LEMMA RangeControls ==
  ASSUME RangeInv
  PROVE  /\ rControl.least \in {0, 1} /\ rControl.extra \in {0, 1}
         /\ rControl.hears \in BOOLEAN /\ rControl.again \in BOOLEAN
         /\ rControl.early \in BOOLEAN /\ rControl.silent \in BOOLEAN
         /\ rControl.early => rControl.hears
<1>1. rControl \in {Slider!GtkSlider, Slider!GtkScrollBar, Slider!Plain,
                    Slider!CocoaHorizontalSlider, Slider!CocoaHorizontalScrollBar, Slider!QtRange}
  BY DEF RangeInv, Slider!Gtk, Slider!Windows, Slider!Cocoa, Slider!Qt,
     Slider!GtkHorizontalSlider, Slider!GtkVerticalSlider,
     Slider!GtkHorizontalScrollBar, Slider!GtkVerticalScrollBar,
     Slider!WindowsHorizontalSlider, Slider!WindowsVerticalSlider,
     Slider!WindowsHorizontalScrollBar, Slider!WindowsVerticalScrollBar,
     Slider!CocoaHorizontalSlider, Slider!CocoaVerticalSlider,
     Slider!CocoaHorizontalScrollBar, Slider!CocoaVerticalScrollBar,
     Slider!QtHorizontalSlider, Slider!QtVerticalSlider,
     Slider!QtHorizontalScrollBar, Slider!QtVerticalScrollBar
<1>2. CASE rControl = Slider!Plain
  BY <1>2 DEF Slider!Plain
<1>3. CASE rControl = Slider!GtkSlider
  BY <1>3 DEF Slider!GtkSlider, Slider!Plain
<1>4. CASE rControl = Slider!GtkScrollBar
  BY <1>4 DEF Slider!GtkScrollBar, Slider!Plain
<1>5. CASE rControl = Slider!CocoaHorizontalSlider
  BY <1>5 DEF Slider!CocoaHorizontalSlider, Slider!Plain
<1>6. CASE rControl = Slider!CocoaHorizontalScrollBar
  BY <1>6 DEF Slider!CocoaHorizontalScrollBar, Slider!Plain
<1>7. CASE rControl = Slider!QtRange
  BY <1>7 DEF Slider!QtRange, Slider!Plain
<1> QED BY <1>1, <1>2, <1>3, <1>4, <1>5, <1>6, <1>7

LEMMA LeastIs ==
  ASSUME NEW a \in Int, NEW b \in Int
  PROVE  Slider!Least(a, b) = IF a <= b THEN a ELSE b
  BY DEF Slider!Least, Slider!Min

LEMMA LastIs ==
  ASSUME RangeInv, NEW n \in Nat
  PROVE  /\ Slider!Last(n) \in Nat
         /\ rControl.extra = 0 /\ (rControl.least = 0 \/ n > 1) =>
              Slider!Last(n) = IF n = 0 THEN 0 ELSE n - 1
<1>1. PICK least, extra \in {0, 1} : least = rControl.least /\ extra = rControl.extra
  BY RangeControls
<1>2. Slider!Last(n) = Slider!Max({least, n + extra - 1})
  BY <1>1 DEF Slider!Last
<1>3. Slider!Max({least, n + extra - 1}) = IF n + extra - 1 <= least THEN least ELSE n + extra - 1
  BY DEF Slider!Max
<1> QED BY <1>1, <1>2, <1>3

LEMMA KnobIsShown ==
  ASSUME RangeInv
  PROVE  Slider!KnobShowsPosition
<1>1. ASSUME rAttached, rInside, rControl.extra # 1, ~(rControl.least = 1 /\ rLength <= 1)
      PROVE  rPosition < Slider!Max({1, rLength})
  <2>1. Slider!Max({1, rLength}) = IF rLength <= 1 THEN 1 ELSE rLength
    BY DEF Slider!Max, RangeInv
  <2>2. PICK least, extra \in {0, 1} : least = rControl.least /\ extra = rControl.extra
    BY RangeControls
  <2>3. rLast = IF rLength = 0 THEN 0 ELSE rLength - 1
    BY <1>1, <2>2, LastIs DEF RangeInv
  <2> QED BY <1>1, <2>1, <2>3 DEF RangeInv
<1> QED BY <1>1 DEF RangeInv, Slider!KnobShowsPosition

(* The handler is called or not: the position is where the knob is, or     *)
(* what it was set to.                                                     *)
LEMMA KnobMoves ==
  ASSUME NEW to, NEW pos, NEW locked, Slider!Moved(to, pos, locked)
  PROVE  /\ rKnob' = to /\ rPosition' \in {to, pos}
         /\ rPosition' # pos => rTold' \/ locked
         /\ rTold' => rPosition' = to /\ rControl.hears
         /\ rControl.hears /\ to # rKnob => rPosition' = to
  BY DEF Slider!Moved

LEMMA RangeStep ==
  ASSUME RangeInv, Slider!RangeAssumption, Slider!Next
  PROVE  RangeInv' /\ Slider!MovesAreTold
<1>1. /\ rLength \in Nat /\ rPosition \in Nat /\ rLast \in Nat /\ rKnob \in Nat
      /\ MaxLength \in Nat
  BY DEF RangeInv, Slider!RangeAssumption
<1>2. ASSUME NEW n \in 0..MaxLength, Slider!SetLength(n)
      PROVE  RangeInv' /\ Slider!MovesAreTold
  <2>1. rControl' = rControl /\ rAttached' = rAttached /\ rLength' = n /\ n \in Nat
    BY <1>1, <1>2 DEF Slider!SetLength
  <2>2. PICK range \in Nat : range = Slider!Last(n)
    BY <2>1, LastIs
  <2>3. Slider!Last(rLength)' = range
    BY <2>1, <2>2 DEF Slider!Last
  <2>4. CASE ~rAttached
    <3>1. UNCHANGED <<rPosition, rLast, rKnob>> /\ ~rTold'
      BY <1>2, <2>4 DEF Slider!SetLength
    <3> QED BY <2>1, <2>4, <3>1 DEF RangeInv, Slider!MovesAreTold
  <2>5. CASE rAttached
    <3> DEFINE fits == Slider!Least(rKnob, range)
               once == rControl.again /\ (fits = rKnob \/ ~rControl.hears)
    <3>1. PICK to : /\ to = IF once THEN Slider!Least(rPosition, range) ELSE fits
                    /\ rLast' = range /\ Slider!Moved(to, rPosition, rControl.silent)
                    /\ rInside' = (rInside /\ rPosition' <= rLast')
      BY <1>2, <2>2, <2>5 DEF Slider!SetLength
    <3>2. /\ fits = IF rKnob <= range THEN rKnob ELSE range
          /\ Slider!Least(rPosition, range) = IF rPosition <= range THEN rPosition ELSE range
      BY <1>1, LeastIs
    <3> HIDE DEF fits
    <3>3. to \in Nat /\ to <= range
      BY <1>1, <3>1, <3>2
    <3>4. /\ rKnob' = to /\ rPosition' \in {to, rPosition}
          /\ rPosition' # rPosition => rTold' \/ rControl.silent
          /\ rTold' => rPosition' = to /\ rControl.hears
          /\ rControl.hears /\ to # rKnob => rPosition' = to
      BY <3>1, KnobMoves
    <3>5. Slider!MovesAreTold
      BY <3>4 DEF Slider!MovesAreTold
    <3>6. Slider!Least(rPosition', rLast') = IF rPosition' <= range THEN rPosition' ELSE range
      BY <1>1, <3>1, <3>3, <3>4, LeastIs
    <3>7. rInside' => rPosition' <= rLast'
      BY <3>1
    <3>8. ASSUME rControl.again PROVE rKnob' = Slider!Least(rPosition', rLast')
      <4>1. CASE once
        BY <1>1, <3>1, <3>2, <3>4, <3>6, <4>1
      <4>2. CASE ~once
        BY <1>1, <3>1, <3>2, <3>3, <3>4, <3>6, <3>8, <4>2
      <4> QED BY <4>1, <4>2
    <3>9. ASSUME ~rControl.again, rInside' PROVE rKnob' = Slider!Least(rPosition', rLast')
      <4>1. rKnob = rPosition
        <5>1. rInside /\ rPosition <= rLast /\ rKnob = Slider!Least(rPosition, rLast)
          BY <2>5, <3>1, <3>9 DEF RangeInv
        <5> QED BY <1>1, <5>1, LeastIs
      <4>2. to = fits /\ rPosition' <= range
        BY <3>1, <3>9
      <4> QED BY <1>1, <3>2, <3>3, <3>4, <3>6, <4>1, <4>2
    <3> QED BY <2>1, <2>3, <2>5, <3>1, <3>3, <3>4, <3>5, <3>7, <3>8, <3>9 DEF RangeInv
  <2> QED BY <2>4, <2>5
<1>3. ASSUME NEW p \in 0..MaxLength, Slider!SetPosition(p)
      PROVE  RangeInv' /\ Slider!MovesAreTold
  <2>1. /\ UNCHANGED <<rControl, rAttached, rLength, rLast>> /\ p \in Nat
        /\ rInside' = (rInside /\ (rAttached => rPosition' <= rLast))
    BY <1>1, <1>3 DEF Slider!SetPosition
  <2>2. CASE ~rAttached
    <3>1. rPosition' = p /\ ~rTold' /\ rKnob' = rKnob
      BY <1>3, <2>2 DEF Slider!SetPosition
    <3> QED BY <1>3, <2>1, <2>2, <3>1 DEF RangeInv, Slider!MovesAreTold
  <2>3. CASE rAttached
    <3>1. PICK to : to = Slider!Least(p, rLast) /\ Slider!Moved(to, p, FALSE)
      BY <1>3, <2>3 DEF Slider!SetPosition
    <3>2. to = IF p <= rLast THEN p ELSE rLast
      BY <1>1, <2>1, <3>1, LeastIs
    <3>3. /\ rKnob' = to /\ rPosition' \in {to, p}
          /\ rPosition' # p => rTold'
          /\ rTold' => rPosition' = to /\ rControl.hears
      BY <3>1, KnobMoves
    <3>4. Slider!Least(rPosition', rLast') = to
      BY <1>1, <2>1, <3>2, <3>3, LeastIs
    <3>5. rPosition' \in Nat /\ rKnob' \in Nat
      BY <1>1, <2>1, <3>2, <3>3
    <3>6. Slider!Last(rLength)' = Slider!Last(rLength)
      BY <2>1 DEF Slider!Last
    <3>7. Slider!MovesAreTold
      BY <1>3, <3>3 DEF Slider!MovesAreTold
    <3> QED BY <2>1, <2>3, <3>3, <3>4, <3>5, <3>6, <3>7 DEF RangeInv
  <2> QED BY <2>2, <2>3
<1>4. ASSUME Slider!Attach
      PROVE  RangeInv' /\ Slider!MovesAreTold
  <2>1. /\ UNCHANGED <<rControl, rLength>> /\ rAttached'
        /\ rLast' = Slider!Last(rLength) /\ rKnob' = Slider!Least(rPosition, rLast')
        /\ rTold' = (rControl.early /\ rKnob' # 0)
        /\ rPosition' = IF rTold' THEN rKnob' ELSE rPosition
        /\ rInside' = (rPosition' <= rLast')
    BY <1>4 DEF Slider!Attach
  <2>2. rLast' \in Nat
    BY <1>1, <2>1, LastIs
  <2>3. rKnob' = IF rPosition <= rLast' THEN rPosition ELSE rLast'
    BY <1>1, <2>1, <2>2, LeastIs
  <2>4. rKnob' \in Nat /\ rPosition' \in Nat
    BY <1>1, <2>1, <2>2, <2>3
  <2>5. rKnob' = Slider!Least(rPosition', rLast')
    BY <1>1, <2>1, <2>2, <2>3, <2>4, LeastIs
  <2>6. Slider!Last(rLength)' = Slider!Last(rLength)
    BY <2>1 DEF Slider!Last
  <2>7. Slider!MovesAreTold
    BY <2>1, RangeControls DEF Slider!MovesAreTold
  <2> QED BY <2>1, <2>2, <2>4, <2>5, <2>6, <2>7 DEF RangeInv
<1>5. ASSUME Slider!Detach
      PROVE  RangeInv' /\ Slider!MovesAreTold
  BY <1>5 DEF Slider!Detach, RangeInv, Slider!MovesAreTold
<1>6. ASSUME NEW to \in 0..MaxLength, Slider!Drag(to)
      PROVE  RangeInv' /\ Slider!MovesAreTold
  <2>1. /\ UNCHANGED <<rControl, rAttached, rLength, rLast>> /\ to \in 0..rLast
        /\ rKnob' = to /\ rPosition' = to /\ rBy' = "user"
        /\ rTold' = (to # rPosition \/ rControl.early \/ rControl.extra = 1)
    BY <1>6 DEF Slider!Drag
  <2>2. Slider!Least(rPosition', rLast') = to
    BY <1>1, <2>1, LeastIs
  <2>3. Slider!Last(rLength)' = Slider!Last(rLength)
    BY <2>1 DEF Slider!Last
  <2>4. Slider!MovesAreTold
    BY <2>1 DEF Slider!MovesAreTold
  <2> QED BY <1>1, <2>1, <2>2, <2>3, <2>4 DEF RangeInv
<1> QED BY <1>2, <1>3, <1>4, <1>5, <1>6 DEF Slider!Next

LEMMA RangeStartsRight ==
  ASSUME Slider!RangeAssumption, Slider!Init
  PROVE  RangeInv
  BY DEF Slider!RangeAssumption, Slider!Init, RangeInv

-------------------------------------------------------------------------------
(* Combos and tabs.  While what happened is survived, the control has the  *)
(* items in their order and shows the one that is flagged; and what can be *)
(* attached with items has one flagged before it is.                       *)

Distinct(s) == \A j, k \in 1..Len(s) : s[j] = s[k] => j = k
InSync ==
  /\ cRows = cItems
  /\ cItems # <<>> => cShown # 0 /\ cFlags \cap Choice!Members = {cItems[cShown]}
OneFlagged == \E n \in 1..Len(cItems) : cFlags \cap Choice!Members = {cItems[n]}
Survived   == \E h \in cControl.survives : cDid \subseteq h
CanBeFilled ==
  \E h \in cControl.survives : "filled" \in h /\ "lost" \notin h /\ cDid \subseteq h
ChoiceType ==
  /\ cControl \in Choice!Choosers
  /\ cItems \in Seq(Items) /\ Distinct(cItems)
  /\ cRows \in Seq(Items) /\ cShown \in 0..Len(cRows)
ChoiceInv ==
  /\ ChoiceType
  /\ ~cAttached => cRows = <<>>
  /\ cAttached /\ Survived => InSync
  /\ ~cAttached /\ CanBeFilled /\ cItems # <<>> => OneFlagged

(* The controls by what they do.                                           *)
IsGtkCombo(r)     == r.combo /\ r.passes /\ r.picks /\ r.copies /\ r.stores /\ ~r.tells /\ r.drops
IsWindowsCombo(r) == r.combo /\ r.passes /\ r.picks /\ ~r.copies /\ r.stores /\ ~r.tells /\ r.drops
IsCocoaCombo(r)   == r.combo /\ ~r.passes /\ ~r.picks /\ ~r.copies /\ r.stores /\ ~r.tells /\ r.drops
IsQtCombo(r)      == r.combo /\ r.passes /\ ~r.picks /\ r.copies /\ r.stores /\ ~r.tells /\ r.drops
IsGtkTabs(r)      == ~r.combo /\ r.passes /\ ~r.picks /\ r.copies /\ r.stores /\ ~r.tells /\ r.drops
IsWindowsTabs(r)  == ~r.combo /\ r.passes /\ ~r.picks /\ ~r.copies /\ r.stores /\ ~r.tells /\ ~r.drops
IsCocoaTabs(r)    == ~r.combo /\ ~r.passes /\ ~r.picks /\ r.copies /\ r.stores /\ r.tells /\ ~r.drops
IsQtTabs(r)       == ~r.combo /\ r.passes /\ ~r.picks /\ ~r.copies /\ ~r.stores /\ r.tells /\ ~r.drops

LEMMA ChoosersAre ==
  /\ IsGtkCombo(Choice!GtkCombo) /\ IsWindowsCombo(Choice!WindowsCombo)
  /\ IsCocoaCombo(Choice!CocoaCombo) /\ IsQtCombo(Choice!QtCombo)
  /\ IsGtkTabs(Choice!GtkTabs) /\ IsWindowsTabs(Choice!WindowsTabs)
  /\ IsCocoaTabs(Choice!CocoaTabs) /\ IsQtTabs(Choice!QtTabs)
<1>1. IsGtkCombo(Choice!GtkCombo) /\ IsWindowsCombo(Choice!WindowsCombo)
  BY DEF IsGtkCombo, IsWindowsCombo, Choice!GtkCombo, Choice!WindowsCombo, Choice!Combo
<1>2. IsCocoaCombo(Choice!CocoaCombo) /\ IsQtCombo(Choice!QtCombo)
  BY DEF IsCocoaCombo, IsQtCombo, Choice!CocoaCombo, Choice!QtCombo, Choice!Combo
<1>3. IsGtkTabs(Choice!GtkTabs) /\ IsWindowsTabs(Choice!WindowsTabs)
  BY DEF IsGtkTabs, IsWindowsTabs, Choice!GtkTabs, Choice!WindowsTabs, Choice!Tabs, Choice!Combo
<1>4. IsCocoaTabs(Choice!CocoaTabs) /\ IsQtTabs(Choice!QtTabs)
  BY DEF IsCocoaTabs, IsQtTabs, Choice!CocoaTabs, Choice!QtTabs, Choice!Tabs, Choice!Combo
<1> QED BY <1>1, <1>2, <1>3, <1>4

(* What each survives.                                                     *)
LEMMA Survivals ==
  ASSUME NEW r \in Choice!Choosers, NEW h \in r.survives
  PROVE  /\ "preset" \in h => r.passes /\ r.copies
         /\ "lost" \in h \/ "dropped" \in h => r.drops
         /\ "lost" \in h => r \in {Choice!QtCombo, Choice!GtkTabs}
         /\ "filled" \in h => r \in {Choice!QtCombo, Choice!GtkTabs, Choice!QtTabs}
         /\ "filled" \in h => ("lost" \in h <=> r = Choice!QtCombo)
         /\ "filled" \in h /\ "lost" \notin h => "preset" \notin h
         /\ "chosen" \in h => r.stores
<1>1. CASE r = Choice!GtkCombo
  <2>1. Choice!GtkCombo.survives = {{"dropped", "preset", "chosen"}}
    BY DEF Choice!GtkCombo, Choice!Combo
  <2> QED BY <1>1, <2>1, ChoosersAre DEF IsGtkCombo
<1>2. CASE r = Choice!WindowsCombo
  <2>1. Choice!WindowsCombo.survives = {{"dropped", "chosen"}}
    BY DEF Choice!WindowsCombo, Choice!Combo
  <2> QED BY <1>2, <2>1, ChoosersAre DEF IsWindowsCombo
<1>3. CASE r = Choice!CocoaCombo
  <2>1. Choice!CocoaCombo.survives = {{"dropped", "chosen"}}
    BY DEF Choice!CocoaCombo, Choice!Combo
  <2> QED BY <1>3, <2>1, ChoosersAre DEF IsCocoaCombo
<1>4. CASE r = Choice!QtCombo
  <2>1. Choice!QtCombo.survives = {{"filled", "dropped", "lost", "preset", "chosen"}}
    BY DEF Choice!QtCombo, Choice!Combo
  <2> QED BY <1>4, <2>1, ChoosersAre DEF IsQtCombo
<1>5. CASE r = Choice!GtkTabs
  <2>1. Choice!GtkTabs.survives = {{"filled", "dropped", "chosen"}, {"dropped", "lost", "preset", "chosen"}}
    BY DEF Choice!GtkTabs, Choice!Tabs, Choice!Combo
  <2> QED BY <1>5, <2>1, ChoosersAre DEF IsGtkTabs, IsQtCombo
<1>6. CASE r = Choice!WindowsTabs
  <2>1. Choice!WindowsTabs.survives = {{"chosen"}}
    BY DEF Choice!WindowsTabs, Choice!Tabs, Choice!Combo
  <2> QED BY <1>6, <2>1, ChoosersAre DEF IsWindowsTabs
<1>7. CASE r = Choice!CocoaTabs
  <2>1. Choice!CocoaTabs.survives = {{"chosen"}}
    BY DEF Choice!CocoaTabs, Choice!Tabs, Choice!Combo
  <2> QED BY <1>7, <2>1, ChoosersAre DEF IsCocoaTabs
<1>8. CASE r = Choice!QtTabs
  <2>1. Choice!QtTabs.survives = {{"filled"}}
    BY DEF Choice!QtTabs, Choice!Tabs, Choice!Combo
  <2> QED BY <1>8, <2>1, ChoosersAre DEF IsQtTabs, IsQtCombo
<1> QED BY <1>1, <1>2, <1>3, <1>4, <1>5, <1>6, <1>7, <1>8 DEF Choice!Choosers

LEMMA Appended ==
  ASSUME NEW s \in Seq(Items), Distinct(s), NEW i \in Items, i \notin Choice!ToSet(s)
  PROVE  /\ Append(s, i) \in Seq(Items) /\ Distinct(Append(s, i)) /\ Append(s, i) # <<>>
         /\ Len(Append(s, i)) = Len(s) + 1 /\ Append(s, i)[Len(s) + 1] = i
         /\ \A n \in 1..Len(s) : Append(s, i)[n] = s[n]
         /\ Choice!ToSet(Append(s, i)) = Choice!ToSet(s) \cup {i}
<1>1. PICK its : its = Append(s, i)
  OBVIOUS
<1>2. /\ its \in Seq(Items) /\ its # <<>>
      /\ Len(its) = Len(s) + 1 /\ its[Len(s) + 1] = i /\ \A n \in 1..Len(s) : its[n] = s[n]
  BY <1>1
<1>3. DOMAIN its = 1..Len(its) /\ DOMAIN s = 1..Len(s) /\ Len(s) \in Nat
  BY <1>2
<1>4. Choice!ToSet(its) = Choice!ToSet(s) \cup {i}
  BY <1>2, <1>3 DEF Choice!ToSet
<1>5. Distinct(its)
  BY <1>2, <1>3 DEF Distinct, Choice!ToSet
<1> QED BY <1>1, <1>2, <1>4, <1>5

LEMMA Removed ==
  ASSUME NEW s \in Seq(Items), Distinct(s), NEW n \in 1..Len(s)
  PROVE  LET its == Choice!RemoveAt(s, n)
         IN  /\ its \in Seq(Items) /\ Distinct(its)
             /\ Len(its) = Len(s) - 1
             /\ \A k \in 1..Len(its) : its[k] = IF k < n THEN s[k] ELSE s[k + 1]
             /\ Choice!ToSet(its) = Choice!ToSet(s) \ {s[n]}
<1>0. PICK its : its = Choice!RemoveAt(s, n)
  OBVIOUS
<1> DEFINE l == SubSeq(s, 1, n - 1)
           r == SubSeq(s, n + 1, Len(s))
<1>1. Len(s) \in Nat /\ DOMAIN s = 1..Len(s) /\ n \in Nat /\ 1 <= n /\ n <= Len(s)
  OBVIOUS
<1>2. its = l \o r
  BY <1>0 DEF Choice!RemoveAt
<1>3. \A k \in 1..Len(s) : s[k] \in Items
  OBVIOUS
<1>4. /\ l \in Seq(Items) /\ Len(l) = IF 1 <= n - 1 THEN (n - 1) - 1 + 1 ELSE 0
      /\ \A k \in 1..((n - 1) - 1 + 1) : l[k] = s[1 + k - 1]
  <2>1. 1 \in Int /\ n - 1 \in Int /\ \A k \in 1..(n - 1) : s[k] \in Items
    BY <1>1, <1>3
  <2> QED BY <2>1, SubSeqProperties
<1>5. Len(l) = n - 1 /\ \A k \in 1..(n - 1) : l[k] = s[k]
  BY <1>1, <1>4
<1>6. /\ r \in Seq(Items)
      /\ Len(r) = Len(s) - n /\ \A k \in 1..(Len(s) - n) : r[k] = s[n + k]
  <2>1. n + 1 \in Int /\ Len(s) \in Int /\ \A k \in (n + 1)..Len(s) : s[k] \in Items
    BY <1>1, <1>3
  <2>2. /\ r \in Seq(Items) /\ Len(r) = IF n + 1 <= Len(s) THEN Len(s) - (n + 1) + 1 ELSE 0
        /\ \A k \in 1..(Len(s) - (n + 1) + 1) : r[k] = s[(n + 1) + k - 1]
    BY <2>1, SubSeqProperties
  <2> HIDE DEF r
  <2>3. Len(r) = Len(s) - n
    <3>1. PICK length \in Nat : length = Len(s)
      BY <1>1
    <3>2. PICK rest : rest = Len(r)
      OBVIOUS
    <3>3. rest = IF n + 1 <= length THEN length - (n + 1) + 1 ELSE 0
      BY <2>2, <3>1, <3>2
    <3>4. n \in Nat /\ n <= length
      BY <1>1, <3>1
    <3>5. rest = length - n
      BY <3>3, <3>4
    <3> QED BY <3>1, <3>2, <3>5
  <2>4. ASSUME NEW k \in 1..(Len(s) - n) PROVE r[k] = s[n + k]
    <3>1. k \in 1..(Len(s) - (n + 1) + 1) /\ (n + 1) + k - 1 = n + k
      BY <1>1
    <3>2. r[k] = s[(n + 1) + k - 1]
      BY <2>2, <3>1
    <3> QED BY <3>1, <3>2
  <2> QED BY <2>2, <2>3, <2>4
<1> HIDE DEF l, r
<1>7. its \in Seq(Items) /\ Len(its) = Len(s) - 1
  <2>1. l \o r \in Seq(Items) /\ Len(l \o r) = Len(l) + Len(r)
    BY <1>4, <1>6, ConcatProperties
  <2> QED BY <1>1, <1>2, <1>5, <1>6, <2>1
<1>8. ASSUME NEW k \in 1..Len(its) PROVE its[k] = IF k < n THEN s[k] ELSE s[k + 1]
  <2>1. its[k] = IF k <= n - 1 THEN l[k] ELSE r[k - (n - 1)]
    <3>1. k \in 1..(Len(l) + Len(r))
      BY <1>1, <1>5, <1>6, <1>7
    <3>2. (l \o r)[k] = IF k <= Len(l) THEN l[k] ELSE r[k - Len(l)]
      BY <1>4, <1>6, <3>1, ConcatProperties
    <3> QED BY <1>2, <1>5, <3>2
  <2>2. CASE k < n
    BY <1>1, <1>5, <2>1, <2>2
  <2>3. CASE k >= n
    <3>1. k - (n - 1) \in 1..(Len(s) - n) /\ ~(k <= n - 1) /\ n + (k - (n - 1)) = k + 1
      BY <1>1, <1>7, <2>3
    <3> QED BY <1>1, <1>6, <2>1, <2>3, <3>1
  <2> QED BY <1>1, <2>2, <2>3
<1>9. DOMAIN its = 1..Len(its)
  BY <1>7
<1>10. ASSUME NEW j \in 1..Len(its), NEW k \in 1..Len(its), its[j] = its[k] PROVE j = k
  <2> DEFINE at(x) == IF x < n THEN x ELSE x + 1
  <2>1. /\ at(j) \in 1..Len(s) /\ its[j] = s[at(j)]
        /\ at(k) \in 1..Len(s) /\ its[k] = s[at(k)]
    BY <1>1, <1>7, <1>8
  <2>2. at(j) = at(k)
    BY <1>10, <2>1 DEF Distinct
  <2> QED BY <1>1, <1>7, <2>2
<1>11. ASSUME NEW k \in 1..Len(its) PROVE its[k] \in Choice!ToSet(s) \ {s[n]}
  <2>1. PICK m \in 1..Len(s) : its[k] = s[m] /\ m # n
    BY <1>1, <1>7, <1>8
  <2> QED BY <1>1, <2>1 DEF Choice!ToSet, Distinct
<1>12. ASSUME NEW m \in 1..Len(s), m # n PROVE s[m] \in Choice!ToSet(its)
  <2>1. CASE m < n
    <3>1. m \in 1..Len(its) /\ its[m] = s[m]
      BY <1>1, <1>7, <1>8, <2>1
    <3> QED BY <1>9, <3>1 DEF Choice!ToSet
  <2>2. CASE m > n
    <3>1. m - 1 \in 1..Len(its) /\ its[m - 1] = s[m]
      BY <1>1, <1>7, <1>8, <2>2
    <3> QED BY <1>9, <3>1 DEF Choice!ToSet
  <2> QED BY <1>1, <1>12, <2>1, <2>2
<1>13. Choice!ToSet(its) = Choice!ToSet(s) \ {s[n]}
  BY <1>1, <1>9, <1>11, <1>12 DEF Choice!ToSet
<1> QED BY <1>0, <1>7, <1>8, <1>10, <1>13 DEF Distinct

(* What happened only grows, until the control is empty.                   *)
LEMMA DidGrows ==
  ASSUME NEW what, Choice!Did(what), cControl' = cControl, ~(cItems' = <<>> /\ cRows' = <<>>)
  PROVE  /\ Survived' => \E h \in cControl.survives : cDid \subseteq h /\ what \subseteq h
         /\ CanBeFilled' => \E h \in cControl.survives :
                              "filled" \in h /\ "lost" \notin h /\ cDid \subseteq h /\ what \subseteq h
<1>1. cDid' = cDid \cup what
  BY DEF Choice!Did
<1> QED BY <1>1 DEF Survived, CanBeFilled

LEMMA MinMax ==
  ASSUME NEW a \in Int, NEW b \in Int
  PROVE  /\ Choice!Min({a, b}) = IF a <= b THEN a ELSE b
         /\ Choice!Max({a, b}) = IF a <= b THEN b ELSE a
  BY DEF Choice!Min, Choice!Max

LEMMA AppendKeepsSync ==
  ASSUME ChoiceInv, NEW i \in Items, Choice!AppendItem(i)
  PROVE  ChoiceInv'
<1> DEFINE what == IF cItems # <<>> /\ i \in cFlags THEN {"preset"} ELSE {}
<1> DEFINE its0 == Append(cItems, i)
           fs0 == IF cItems = <<>> THEN cFlags \cup {i} ELSE cFlags
           to0 == IF cRows = <<>> \/ (i \in fs0 /\ cControl.passes) \/ (cShown = 0 /\ cControl.picks)
                  THEN Len(its0) ELSE cShown
<1>0. /\ i \notin Choice!Members /\ Choice!Whole
      /\ cItems' = its0
      /\ IF ~cAttached THEN cFlags' = fs0 /\ UNCHANGED <<cRows, cShown>>
         ELSE /\ cRows' = its0 /\ cShown' = to0
              /\ cFlags' = IF to0 # cShown /\ (cControl.copies \/ (cControl.picks /\ i \notin fs0))
                           THEN Choice!Alone(its0[to0], its0) ELSE fs0
      /\ Choice!Did(what)
      /\ UNCHANGED <<cControl, cAttached>>
  BY Zenon DEF Choice!AppendItem
<1>1. PICK its : its = its0
  OBVIOUS
<1>2. PICK fs : fs = fs0
  OBVIOUS
<1>3. PICK to : to = to0
  OBVIOUS
<1>4. /\ fs = IF cItems = <<>> THEN cFlags \cup {i} ELSE cFlags
      /\ to = IF cRows = <<>> \/ (i \in fs /\ cControl.passes) \/ (cShown = 0 /\ cControl.picks)
               THEN Len(its) ELSE cShown
  BY <1>1, <1>2, <1>3
<1>5. /\ i \notin Choice!Members /\ Choice!Whole
      /\ cItems' = its
      /\ IF ~cAttached THEN cFlags' = fs /\ UNCHANGED <<cRows, cShown>>
         ELSE /\ cRows' = its /\ cShown' = to
              /\ cFlags' = IF to # cShown /\ (cControl.copies \/ (cControl.picks /\ i \notin fs))
                           THEN Choice!Alone(its[to], its) ELSE fs
      /\ Choice!Did(what)
      /\ UNCHANGED <<cControl, cAttached>>
  BY <1>0, <1>1, <1>2, <1>3, Zenon
<1> HIDE DEF what, its0, fs0, to0
<1>6. /\ cItems \in Seq(Items) /\ Distinct(cItems) /\ Len(cItems) \in Nat
      /\ cRows \in Seq(Items) /\ Len(cRows) \in Nat /\ cShown \in 0..Len(cRows)
      /\ cItems = <<>> <=> Len(cItems) = 0
      /\ cControl \in Choice!Choosers
  BY DEF ChoiceInv, ChoiceType
<1>7. /\ its \in Seq(Items) /\ Distinct(its) /\ its # <<>>
      /\ Len(its) = Len(cItems) + 1 /\ its[Len(cItems) + 1] = i
      /\ \A n \in 1..Len(cItems) : its[n] = cItems[n]
      /\ Choice!ToSet(its) = Choice!ToSet(cItems) \cup {i}
  <2>1. its = Append(cItems, i) /\ i \notin Choice!ToSet(cItems)
    BY <1>1, <1>5 DEF Choice!Members, its0
  <2> QED BY <1>6, <2>1, Appended
<1>8. Choice!Members = Choice!ToSet(cItems) /\ Choice!Members' = Choice!ToSet(its)
  BY <1>5 DEF Choice!Members
<1>9. CASE ~cAttached
  <2>1. cFlags' = fs /\ UNCHANGED <<cRows, cShown>>
    BY <1>4, <1>5, <1>9
  <2>2. ASSUME CanBeFilled' PROVE OneFlagged'
    <3>1. PICK h \in cControl.survives :
            "filled" \in h /\ "lost" \notin h /\ cDid \subseteq h /\ what \subseteq h
      BY <1>4, <1>5, <1>7, <2>2, DidGrows
    <3>2. "preset" \notin h
      BY <1>6, <3>1, Survivals
    <3>3. CASE cItems = <<>>
      <4>1. Choice!ToSet(cItems) = {} /\ fs = cFlags \cup {i} /\ Len(its) = 1
        BY <1>4, <1>5, <1>6, <1>7, <3>3 DEF Choice!ToSet
      <4>2. cFlags' \cap Choice!Members' = {its[1]}
        BY <1>7, <1>8, <2>1, <4>1
      <4> QED BY <1>4, <1>5, <4>1, <4>2 DEF OneFlagged
    <3>4. CASE cItems # <<>>
      <4>1. i \notin cFlags /\ cFlags' = cFlags
        BY <1>4, <1>5, <2>1, <3>1, <3>2, <3>4 DEF what
      <4>2. CanBeFilled
        BY <3>1 DEF CanBeFilled
      <4>3. PICK n \in 1..Len(cItems) : cFlags \cap Choice!Members = {cItems[n]}
        BY <1>9, <3>4, <4>2 DEF ChoiceInv, OneFlagged
      <4>4. cFlags' \cap Choice!Members' = {its[n]} /\ n \in 1..Len(its)
        BY <1>6, <1>7, <1>8, <4>1, <4>3
      <4> QED BY <1>4, <1>5, <4>4 DEF OneFlagged
    <3> QED BY <3>3, <3>4
  <2> QED BY <1>4, <1>5, <1>6, <1>7, <1>9, <2>1, <2>2 DEF ChoiceInv, ChoiceType
<1>10. CASE cAttached
  <2>1. /\ cRows' = its /\ cShown' = to /\ cRows = cItems
        /\ cFlags' = IF to # cShown /\ (cControl.copies \/ (cControl.picks /\ i \notin fs))
                     THEN Choice!Alone(its[to], its) ELSE fs
    BY <1>4, <1>5, <1>10 DEF Choice!Whole
  <2>2. to \in 0..Len(its)
    BY <1>4, <1>5, <1>6, <1>7, <2>1
  <2>3. Choice!Alone(i, its) \cap Choice!ToSet(its) = {i}
    BY <1>7 DEF Choice!Alone
  <2>4. ASSUME Survived' PROVE InSync'
    <3>1. PICK h \in cControl.survives : cDid \subseteq h /\ what \subseteq h
      BY <1>4, <1>5, <1>7, <2>4, DidGrows
    <3>2. /\ "preset" \in h => cControl.passes /\ cControl.copies
      BY <1>6, Survivals
    <3>3. InSync
      BY <1>10, <3>1 DEF ChoiceInv, Survived
    <3>4. to # 0 /\ cFlags' \cap Choice!ToSet(its) = {its[to]}
      <4>1. CASE cItems = <<>>
        <5>1. to = Len(its) /\ to = 1 /\ cShown = 0 /\ its[to] = i /\ fs = cFlags \cup {i}
          BY <1>4, <1>5, <1>6, <1>7, <2>1, <4>1
        <5>2. Choice!ToSet(its) = {i}
          BY <1>7, <4>1 DEF Choice!ToSet
        <5> QED BY <2>1, <2>3, <5>1, <5>2
      <4>2. CASE cItems # <<>> /\ i \in cFlags
        <5>1. cControl.passes /\ cControl.copies
          BY <3>1, <3>2, <4>2 DEF what
        <5>2. to = Len(its) /\ its[to] = i /\ to # cShown /\ to # 0
          BY <1>4, <1>5, <1>6, <1>7, <2>1, <4>2, <5>1
        <5> QED BY <2>1, <2>3, <5>1, <5>2
      <4>3. CASE cItems # <<>> /\ i \notin cFlags
        <5>1. cShown # 0 /\ cFlags \cap Choice!ToSet(cItems) = {cItems[cShown]}
          BY <3>3, <4>3, <1>8 DEF InSync
        <5>2. to = cShown /\ fs = cFlags /\ cFlags' = cFlags /\ cShown \in 1..Len(cItems)
          BY <1>4, <1>5, <1>6, <2>1, <4>3, <5>1
        <5> QED BY <1>7, <4>3, <5>1, <5>2
      <4> QED BY <4>1, <4>2, <4>3
    <3> QED BY <1>4, <1>5, <1>8, <2>1, <3>4 DEF InSync
  <2> QED BY <1>4, <1>5, <1>6, <1>7, <1>10, <2>1, <2>2, <2>4 DEF ChoiceInv, ChoiceType
<1> QED BY <1>9, <1>10

(* Two controls that do something differently are two.                     *)
LEMMA ChoosersDiffer ==
  ASSUME NEW r \in Choice!Choosers
  PROVE  /\ r = Choice!GtkCombo     <=> r.combo /\ r.picks /\ r.copies
         /\ r = Choice!WindowsCombo <=> r.combo /\ r.picks /\ ~r.copies
         /\ r = Choice!CocoaCombo   <=> r.combo /\ ~r.picks /\ ~r.copies
         /\ r = Choice!QtCombo      <=> r.combo /\ ~r.picks /\ r.copies
         /\ r = Choice!GtkTabs      <=> ~r.combo /\ r.drops
         /\ r = Choice!WindowsTabs  <=> ~r.combo /\ ~r.drops /\ ~r.tells
         /\ r = Choice!CocoaTabs    <=> ~r.combo /\ ~r.drops /\ r.stores /\ r.tells
         /\ r = Choice!QtTabs       <=> ~r.combo /\ ~r.stores
         /\ r.combo => r.drops /\ ~r.tells /\ r.stores
         /\ ~r.combo /\ r.drops => ~r.tells /\ r.stores
         /\ ~r.stores => r.tells
  BY ChoosersAre DEF Choice!Choosers, IsGtkCombo, IsWindowsCombo, IsCocoaCombo, IsQtCombo,
     IsGtkTabs, IsWindowsTabs, IsCocoaTabs, IsQtTabs

LEMMA IndexIs ==
  ASSUME ChoiceType, NEW i \in Choice!Members
  PROVE  Choice!Index(i) \in 1..Len(cItems) /\ cItems[Choice!Index(i)] = i
  BY DEF ChoiceType, Choice!Index, Choice!Members, Choice!ToSet

(* A row that is removed moves those behind it.                            *)
LEMMA CloserIs ==
  ASSUME ChoiceType, NEW n \in 1..Len(cItems), NEW its, its = Choice!RemoveAt(cItems, n),
         cRows = cItems, cShown # n
  PROVE  /\ Choice!Closer(n) \in 0..Len(its)
         /\ cShown # 0 => Choice!Closer(n) # 0 /\ its[Choice!Closer(n)] = cItems[cShown]
<1>1. /\ Len(its) = Len(cItems) - 1
      /\ \A k \in 1..Len(its) : its[k] = IF k < n THEN cItems[k] ELSE cItems[k + 1]
  BY Removed DEF ChoiceType
<1>2. Len(cItems) \in Nat /\ cShown \in 0..Len(cItems)
  BY DEF ChoiceType
<1>3. CASE n < cShown
  <2>1. Choice!Closer(n) = cShown - 1 /\ cShown - 1 \in 1..Len(its)
    BY <1>1, <1>2, <1>3 DEF Choice!Closer
  <2> QED BY <1>1, <1>2, <1>3, <2>1
<1>4. CASE ~(n < cShown)
  <2>1. Choice!Closer(n) = cShown /\ cShown < n /\ cShown \in 0..Len(its)
    BY <1>1, <1>2, <1>4 DEF Choice!Closer
  <2> QED BY <1>1, <1>2, <1>4, <2>1
<1> QED BY <1>3, <1>4

(* What a removal may leave, of a control that was in sync: the item that  *)
(* was shown goes only from those that flag another.                       *)
RemovesRight(n, its) ==
  /\ cRows' = its /\ cShown' \in 0..Len(its)
  /\ InSync /\ (cItems[n] \in cFlags => cControl \in {Choice!QtCombo, Choice!GtkTabs}) /\ its # <<>> =>
       cShown' # 0 /\ cFlags' \cap Choice!ToSet(its) = {its[cShown']}

LEMMA RemovedRight ==
  ASSUME ChoiceType, NEW n \in 1..Len(cItems), NEW its, its = Choice!RemoveAt(cItems, n),
         cRows = cItems
  PROVE  /\ cControl = Choice!GtkCombo /\ Choice!GtkComboRemove(n, its) => RemovesRight(n, its)
         /\ cControl = Choice!WindowsCombo /\ Choice!WindowsComboRemove(n, its) => RemovesRight(n, its)
         /\ cControl = Choice!CocoaCombo /\ Choice!CocoaComboRemove(n, its) => RemovesRight(n, its)
         /\ Choice!QtComboRemove(n, its) => RemovesRight(n, its)
         /\ n = Len(cItems) /\ Choice!GtkTabsRemove(n, its) => RemovesRight(n, its)
<1>1. /\ Len(its) = Len(cItems) - 1 /\ Distinct(its) /\ its \in Seq(Items)
      /\ \A k \in 1..Len(its) : its[k] = IF k < n THEN cItems[k] ELSE cItems[k + 1]
      /\ Choice!ToSet(its) = Choice!ToSet(cItems) \ {cItems[n]}
  BY Removed DEF ChoiceType
<1>2. /\ Len(cItems) \in Nat /\ cShown \in 0..Len(cItems) /\ Len(its) \in Nat
      /\ its = <<>> <=> Len(its) = 0
      /\ cItems # <<>>
  BY <1>1 DEF ChoiceType
<1>3. \A k \in 1..Len(its) : its[k] \in Choice!ToSet(its)
  BY <1>1 DEF Choice!ToSet
<1>4. Choice!Min({1, Len(its)}) = IF its = <<>> THEN 0 ELSE 1
  BY <1>2, MinMax
<1>5. cShown # n => /\ Choice!Closer(n) \in 0..Len(its)
                    /\ cShown # 0 => Choice!Closer(n) # 0 /\ its[Choice!Closer(n)] = cItems[cShown]
  BY CloserIs
<1>6. InSync => cShown # 0 /\ cFlags \cap Choice!ToSet(cItems) = {cItems[cShown]}
  BY <1>2 DEF InSync, Choice!Members
(* The other rows stay as they are.                                        *)
<1>7. ASSUME Choice!Left(its, Choice!Closer(n), cFlags), cShown # n
      PROVE  RemovesRight(n, its)
  <2>1. cRows' = its /\ cShown' = Choice!Closer(n) /\ cFlags' = cFlags
    BY <1>7 DEF Choice!Left
  <2>2. ASSUME InSync PROVE cShown' # 0 /\ cFlags' \cap Choice!ToSet(its) = {its[cShown']}
    <3>1. cShown \in 1..Len(cItems) /\ cItems[cShown] # cItems[n]
      BY <1>2, <1>6, <1>7, <2>2 DEF ChoiceType, Distinct
    <3> QED BY <1>1, <1>5, <1>6, <1>7, <2>1, <2>2, <3>1
  <2> QED BY <1>5, <1>7, <2>1, <2>2 DEF RemovesRight
<1>8. ASSUME cShown = n, InSync PROVE cItems[n] \in cFlags
  BY <1>6, <1>8
<1>9. ASSUME cControl = Choice!GtkCombo, Choice!GtkComboRemove(n, its) PROVE RemovesRight(n, its)
  <2>1. cControl \notin {Choice!QtCombo, Choice!GtkTabs}
    BY <1>9, ChoosersAre DEF IsGtkCombo, IsQtCombo, IsGtkTabs
  <2>2. CASE cShown = n
    <3>1. cRows' = its /\ cShown' = Choice!Min({1, Len(its)})
      BY <1>9, <2>2 DEF Choice!GtkComboRemove, Choice!Left
    <3> QED BY <1>2, <1>4, <1>8, <2>1, <2>2, <3>1 DEF RemovesRight
  <2>3. CASE cShown # n
    BY <1>7, <1>9, <2>3 DEF Choice!GtkComboRemove
  <2> QED BY <2>2, <2>3
<1>10. ASSUME cControl = Choice!WindowsCombo, Choice!WindowsComboRemove(n, its)
       PROVE  RemovesRight(n, its)
  <2>1. cControl \notin {Choice!QtCombo, Choice!GtkTabs}
    BY <1>10, ChoosersAre DEF IsWindowsCombo, IsQtCombo, IsGtkTabs
  <2>2. CASE cItems[n] \in cFlags \/ cShown = n
    <3>1. cRows' = its /\ cShown' \in {Choice!Min({1, Len(its)}), 0}
      BY <1>10, <2>2 DEF Choice!WindowsComboRemove, Choice!Left
    <3> QED BY <1>2, <1>4, <1>8, <2>1, <2>2, <3>1 DEF RemovesRight
  <2>3. CASE ~(cItems[n] \in cFlags \/ cShown = n)
    BY <1>7, <1>10, <2>3 DEF Choice!WindowsComboRemove
  <2> QED BY <2>2, <2>3
<1>11. ASSUME cControl = Choice!CocoaCombo, Choice!CocoaComboRemove(n, its) PROVE RemovesRight(n, its)
  <2>1. cControl \notin {Choice!QtCombo, Choice!GtkTabs}
    BY <1>11, ChoosersAre DEF IsCocoaCombo, IsQtCombo, IsGtkTabs
  <2>2. CASE cShown = n
    <3>1. cRows' = its /\ cShown' \in 0..Choice!Min({1, Len(its)})
      BY <1>11, <2>2 DEF Choice!CocoaComboRemove, Choice!Left
    <3> QED BY <1>2, <1>4, <1>8, <2>1, <2>2, <3>1 DEF RemovesRight
  <2>3. CASE cShown # n
    BY <1>7, <1>11, <2>3 DEF Choice!CocoaComboRemove
  <2> QED BY <2>2, <2>3
<1>12. ASSUME Choice!QtComboRemove(n, its) PROVE RemovesRight(n, its)
  <2>1. PICK s : s = IF cShown = n THEN Choice!Min({n, Len(its)}) ELSE Choice!Closer(n)
    OBVIOUS
  <2>2. /\ cRows' = its /\ cShown' = s
        /\ cFlags' = IF n <= cShown /\ its # <<>> THEN Choice!Alone(its[s], its) ELSE cFlags
    BY <1>12, <2>1 DEF Choice!QtComboRemove, Choice!Left
  <2>3. Choice!Min({n, Len(its)}) = IF n <= Len(its) THEN n ELSE Len(its)
    BY <1>2, MinMax
  <2>4. CASE n <= cShown
    <3>1. s \in 0..Len(its) /\ (its # <<>> => s # 0)
      BY <1>2, <1>5, <2>1, <2>3, <2>4
    <3>2. ASSUME its # <<>> PROVE cFlags' \cap Choice!ToSet(its) = {its[s]}
      <4>1. its[s] \in Choice!ToSet(its) /\ cFlags' = Choice!Alone(its[s], its)
        BY <1>2, <1>3, <2>2, <2>4, <3>1, <3>2
      <4> QED BY <4>1 DEF Choice!Alone
    <3> QED BY <2>2, <3>1, <3>2 DEF RemovesRight
  <2>5. CASE ~(n <= cShown)
    <3>1. cShown # n /\ s = Choice!Closer(n) /\ cFlags' = cFlags
      BY <1>2, <2>1, <2>2, <2>5
    <3> QED BY <1>7, <2>2, <3>1 DEF Choice!Left
  <2> QED BY <2>4, <2>5
<1>13. ASSUME n = Len(cItems), Choice!GtkTabsRemove(n, its) PROVE RemovesRight(n, its)
  <2>1. PICK s : s = Choice!Min({cShown, Len(its)})
    OBVIOUS
  <2>2. /\ cRows' = its /\ cShown' = s
        /\ cFlags' = IF s = 0 THEN cFlags \ Choice!Members ELSE Choice!Alone(cItems[s], cItems)
    BY <1>13, <2>1 DEF Choice!GtkTabsRemove, Choice!Left
  <2>3. s = IF cShown <= Len(its) THEN cShown ELSE Len(its)
    BY <1>2, <2>1, MinMax
  <2>4. s \in 0..Len(its)
    BY <1>2, <2>3
  <2>5. ASSUME InSync, its # <<>> PROVE s # 0 /\ cFlags' \cap Choice!ToSet(its) = {its[s]}
    <3>1. s # 0
      BY <1>2, <1>6, <2>3, <2>5
    <3>2. its[s] = cItems[s] /\ its[s] \in Choice!ToSet(its)
      BY <1>1, <1>2, <1>3, <1>13, <2>4, <3>1
    <3>3. cFlags' = Choice!Alone(its[s], cItems)
      BY <2>2, <3>1, <3>2
    <3> QED BY <1>1, <3>1, <3>2, <3>3 DEF Choice!Alone
  <2> QED BY <2>2, <2>4, <2>5 DEF RemovesRight
<1> QED BY <1>9, <1>10, <1>11, <1>12, <1>13

LEMMA RemoveKeepsSync ==
  ASSUME ChoiceInv, NEW i \in Items, Choice!RemoveItem(i)
  PROVE  ChoiceInv'
<1> DEFINE what == IF i \in cFlags THEN {"lost"} ELSE {"dropped"}
<1>1. PICK n : n = Choice!Index(i)
  OBVIOUS
<1>2. PICK its : its = Choice!RemoveAt(cItems, n)
  OBVIOUS
<1>3. /\ i \in Choice!Members /\ Choice!Whole
      /\ ~cControl.combo => n = Len(cItems)
      /\ cItems' = its
      /\ UNCHANGED <<cControl, cAttached>>
      /\ Choice!Did(what)
  BY <1>1, <1>2, Zenon DEF Choice!RemoveItem
<1>4. /\ ChoiceType /\ n \in 1..Len(cItems) /\ cItems[n] = i
  BY <1>1, <1>3, IndexIs DEF ChoiceInv
<1>5. /\ its \in Seq(Items) /\ Distinct(its) /\ Len(its) = Len(cItems) - 1
      /\ Choice!ToSet(its) = Choice!ToSet(cItems) \ {i}
      /\ \A k \in 1..Len(its) : its[k] = IF k < n THEN cItems[k] ELSE cItems[k + 1]
  BY <1>2, <1>4, Removed DEF ChoiceType
<1>6. /\ Choice!Members = Choice!ToSet(cItems) /\ Choice!Members' = Choice!ToSet(its)
      /\ cControl \in Choice!Choosers /\ cControl' = cControl /\ cAttached' = cAttached
      /\ cItems # <<>> /\ Len(cItems) \in Nat /\ Len(its) \in Nat
      /\ DOMAIN its = 1..Len(its) /\ DOMAIN cItems = 1..Len(cItems)
  BY <1>3, <1>4, <1>5 DEF Choice!Members, ChoiceType
<1>7. CASE ~cAttached \/ ~cControl.drops
  <2>1. UNCHANGED <<cRows, cShown, cFlags>>
    BY <1>7, Zenon DEF Choice!RemoveItem
  <2>2. cAttached => cRows # <<>>
    BY <1>3, <1>6 DEF Choice!Whole
  <2>3. ASSUME cAttached', Survived' PROVE FALSE
    <3>1. PICK h \in cControl.survives : what \subseteq h
      BY <1>3, <1>6, <2>1, <2>2, <2>3, DidGrows
    <3> QED BY <1>6, <1>7, <2>3, <3>1, Survivals
  <2>4. ASSUME ~cAttached', CanBeFilled', cItems' # <<>> PROVE OneFlagged'
    <3>1. PICK h \in cControl.survives :
            "filled" \in h /\ "lost" \notin h /\ cDid \subseteq h /\ what \subseteq h
      BY <1>3, <1>6, <2>4, DidGrows
    <3>2. i \notin cFlags /\ CanBeFilled
      BY <3>1 DEF CanBeFilled
    <3>3. PICK k \in 1..Len(cItems) : cFlags \cap Choice!Members = {cItems[k]}
      BY <1>6, <2>4, <3>2 DEF ChoiceInv, OneFlagged
    <3>4. cItems[k] # i
      BY <3>2, <3>3
    <3>5. cItems[k] \in Choice!ToSet(its)
      BY <1>6, <1>5, <3>3, <3>4 DEF Choice!ToSet
    <3>6. PICK j \in 1..Len(its) : its[j] = cItems[k]
      BY <1>6, <3>5 DEF Choice!ToSet
    <3>7. cFlags' \cap Choice!Members' = {its[j]}
      BY <1>5, <1>6, <2>1, <3>3, <3>5, <3>6, <3>2
    <3> QED BY <1>3, <3>6, <3>7 DEF OneFlagged
  <2>5. ChoiceType'
    BY <1>3, <1>4, <1>5, <1>6, <2>1 DEF ChoiceType
  <2>6. ~cAttached' => cRows' = <<>>
    BY <1>6, <2>1 DEF ChoiceInv
  <2> QED BY <2>3, <2>4, <2>5, <2>6 DEF ChoiceInv
<1>8. CASE cAttached /\ cControl.drops
  <2>1. cRows = cItems
    BY <1>3, <1>8 DEF Choice!Whole
  <2>2. RemovesRight(n, its)
    <3>1. \/ cControl = Choice!GtkCombo /\ Choice!GtkComboRemove(n, its)
          \/ cControl = Choice!WindowsCombo /\ Choice!WindowsComboRemove(n, its)
          \/ cControl = Choice!CocoaCombo /\ Choice!CocoaComboRemove(n, its)
          \/ cControl = Choice!QtCombo /\ Choice!QtComboRemove(n, its)
          \/ cControl = Choice!GtkTabs /\ Choice!GtkTabsRemove(n, its)
      <4>1. CASE cControl = Choice!GtkCombo
        BY <1>1, <1>2, <1>8, <4>1, Zenon DEF Choice!RemoveItem
      <4>2. CASE cControl = Choice!WindowsCombo
        <5>1. cControl # Choice!GtkCombo
          BY <1>6, <4>2, ChoosersAre DEF IsGtkCombo, IsWindowsCombo
        <5> QED BY <1>1, <1>2, <1>8, <4>2, <5>1, Zenon DEF Choice!RemoveItem
      <4>3. CASE cControl = Choice!CocoaCombo
        <5>1. cControl # Choice!GtkCombo /\ cControl # Choice!WindowsCombo
          BY <1>6, <4>3, ChoosersAre DEF IsGtkCombo, IsWindowsCombo, IsCocoaCombo
        <5> QED BY <1>1, <1>2, <1>8, <4>3, <5>1, Zenon DEF Choice!RemoveItem
      <4>4. CASE cControl = Choice!QtCombo
        <5>1. /\ cControl # Choice!GtkCombo /\ cControl # Choice!WindowsCombo
              /\ cControl # Choice!CocoaCombo
          BY <1>6, <4>4, ChoosersAre DEF IsGtkCombo, IsWindowsCombo, IsCocoaCombo, IsQtCombo
        <5> QED BY <1>1, <1>2, <1>8, <4>4, <5>1, Zenon DEF Choice!RemoveItem
      <4>5. CASE cControl = Choice!GtkTabs
        <5>1. /\ cControl # Choice!GtkCombo /\ cControl # Choice!WindowsCombo
              /\ cControl # Choice!CocoaCombo /\ cControl # Choice!QtCombo
          BY <1>6, <4>5, ChoosersAre
          DEF IsGtkCombo, IsWindowsCombo, IsCocoaCombo, IsQtCombo, IsGtkTabs
        <5> QED BY <1>1, <1>2, <1>8, <4>5, <5>1, Zenon DEF Choice!RemoveItem
      <4> QED BY <1>6, <1>8, <4>1, <4>2, <4>3, <4>4, <4>5, ChoosersDiffer
    <3>2. cControl = Choice!GtkTabs => n = Len(cItems)
      BY <1>3, <1>6, ChoosersAre DEF IsGtkTabs
    <3> QED BY <1>2, <1>4, <2>1, <3>1, <3>2, RemovedRight
  <2>3. cRows' = its /\ cShown' \in 0..Len(its)
    BY <2>2 DEF RemovesRight
  <2>4. ASSUME Survived' PROVE InSync'
    <3>1. CASE its = <<>>
      BY <1>3, <2>3, <3>1 DEF InSync
    <3>2. CASE its # <<>>
      <4>1. PICK h \in cControl.survives : cDid \subseteq h /\ what \subseteq h
        BY <1>3, <1>6, <2>4, <3>2, DidGrows
      <4>2. InSync
        BY <1>8, <4>1 DEF ChoiceInv, Survived
      <4>3. i \in cFlags => cControl \in {Choice!QtCombo, Choice!GtkTabs}
        BY <1>6, <4>1, Survivals
      <4>4. cShown' # 0 /\ cFlags' \cap Choice!ToSet(its) = {its[cShown']}
        BY <1>4, <2>2, <3>2, <4>2, <4>3 DEF RemovesRight
      <4> QED BY <1>3, <1>6, <2>3, <4>4 DEF InSync
    <3> QED BY <3>1, <3>2
  <2> QED BY <1>3, <1>5, <1>6, <1>8, <2>3, <2>4 DEF ChoiceInv, ChoiceType
<1> QED BY <1>7, <1>8

LEMMA ResetKeepsSync ==
  ASSUME ChoiceInv, Choice!ResetItems
  PROVE  ChoiceInv'
<1>1. cItems' = <<>> /\ Choice!Did({"lost"}) /\ UNCHANGED <<cControl, cAttached>>
  BY Zenon DEF Choice!ResetItems
<1>2. cControl \in Choice!Choosers /\ cControl' = cControl /\ cAttached' = cAttached
  BY <1>1 DEF ChoiceInv, ChoiceType
<1>3. CASE cAttached /\ cControl.drops
  <2>1. cRows' = <<>> /\ cShown' = 0
    BY <1>3 DEF Choice!ResetItems, Choice!Left
  <2> QED BY <1>1, <1>2, <1>3, <2>1 DEF ChoiceInv, ChoiceType, InSync, Distinct
<1>4. CASE ~(cAttached /\ cControl.drops)
  <2>1. UNCHANGED <<cRows, cShown>>
    BY <1>4 DEF Choice!ResetItems
  <2>2. ASSUME cAttached', Survived' PROVE InSync'
    <3>1. CASE cRows = <<>>
      BY <1>1, <2>1, <3>1 DEF InSync
    <3>2. CASE cRows # <<>>
      <4>1. PICK h \in cControl.survives : "lost" \in h
        BY <1>1, <1>2, <2>1, <2>2, <3>2, DidGrows
      <4> QED BY <1>2, <1>4, <2>2, <4>1, Survivals
    <3> QED BY <3>1, <3>2
  <2> QED BY <1>1, <1>2, <2>1, <2>2 DEF ChoiceInv, ChoiceType, Distinct
<1> QED BY <1>3, <1>4

LEMMA SelectKeepsSync ==
  ASSUME ChoiceInv, NEW i \in Items, Choice!SelectItem(i)
  PROVE  ChoiceInv'
<1>1. /\ Choice!Whole
      /\ UNCHANGED <<cControl, cItems, cAttached, cRows, cDid>>
      /\ Choice!Members' = Choice!Members
  BY DEF Choice!SelectItem, Choice!Members
<1>2. ChoiceType /\ DOMAIN cItems = 1..Len(cItems)
  BY DEF ChoiceInv, ChoiceType
<1>3. Survived' = Survived /\ CanBeFilled' = CanBeFilled
  BY <1>1 DEF Survived, CanBeFilled
<1>4. CASE i \in Choice!Members
  <2>1. cFlags' = Choice!Alone(i, cItems) /\ cShown' = IF cAttached THEN Choice!Index(i) ELSE cShown
    BY <1>4, Zenon DEF Choice!SelectItem
  <2>2. Choice!Index(i) \in 1..Len(cItems) /\ cItems[Choice!Index(i)] = i
    BY <1>2, <1>4, IndexIs
  <2>3. cFlags' \cap Choice!Members' = {i}
    BY <1>1, <1>4, <2>1 DEF Choice!Alone, Choice!Members
  <2>4. ASSUME cAttached PROVE InSync' /\ cShown' \in 0..Len(cRows')
    BY <1>1, <1>2, <2>1, <2>2, <2>3, <2>4 DEF Choice!Whole, InSync, ChoiceType
  <2>5. OneFlagged'
    BY <1>1, <2>2, <2>3 DEF OneFlagged
  <2> QED BY <1>1, <1>2, <2>1, <2>4, <2>5 DEF ChoiceInv, ChoiceType
<1>5. CASE i \notin Choice!Members
  <2>1. cFlags' = cFlags \cup {i} /\ cShown' = cShown
    BY <1>5 DEF Choice!SelectItem
  <2>2. cFlags' \cap Choice!Members' = cFlags \cap Choice!Members
    BY <1>1, <1>5, <2>1
  <2>3. InSync' = InSync
    BY <1>1, <2>1, <2>2 DEF InSync
  <2>4. OneFlagged' = OneFlagged
    BY <1>1, <2>2 DEF OneFlagged
  <2> QED BY <1>1, <1>3, <2>1, <2>3, <2>4 DEF ChoiceInv, ChoiceType
<1> QED BY <1>4, <1>5

LEMMA RenameKeepsSync ==
  ASSUME ChoiceInv, NEW i \in Items, Choice!RenameItem(i)
  PROVE  ChoiceInv'
<1>1. /\ cAttached /\ Choice!Whole /\ i \in Choice!Members
      /\ UNCHANGED <<cControl, cItems, cFlags, cAttached, cRows, cDid>>
      /\ Choice!Members' = Choice!Members
  BY DEF Choice!RenameItem, Choice!Members
<1>2. /\ ChoiceType /\ Survived' = Survived /\ cRows = cItems /\ Len(cItems) \in Nat
      /\ cShown \in 0..Len(cItems)
  BY <1>1 DEF Survived, ChoiceInv, ChoiceType, Choice!Whole
<1>3. Choice!Index(i) \in 1..Len(cItems) /\ cItems[Choice!Index(i)] = i
  BY <1>1, <1>2, IndexIs
<1>4. \/ cShown = Choice!Index(i) /\ i \notin cFlags /\ cShown' = 0
      \/ i \in cFlags /\ cShown' = Choice!Index(i)
      \/ cShown' = cShown
  BY DEF Choice!RenameItem
<1>5. cShown' \in 0..Len(cItems)
  BY <1>2, <1>3, <1>4
<1>6. ASSUME Survived' PROVE InSync'
  <2>1. InSync /\ cItems # <<>>
    BY <1>1, <1>2, <1>3, <1>6 DEF ChoiceInv
  <2>2. cFlags \cap Choice!Members = {cItems[cShown]} /\ cShown # 0
    BY <2>1 DEF InSync
  <2>3. \/ cShown' = cShown
        \/ cShown' = Choice!Index(i) /\ cItems[cShown] = i
    BY <1>1, <1>3, <1>4, <2>2
  <2> QED BY <1>1, <1>2, <1>3, <2>2, <2>3 DEF InSync
<1> QED BY <1>1, <1>2, <1>5, <1>6 DEF ChoiceInv, ChoiceType

(* Induction, of a set of numbers: a set with 0 that has the successor of  *)
(* each of its numbers has them all.  Otherwise adding 1 were an injection *)
(* of the finite set of those below one that is missing, and not onto it.  *)
LEMMA NatSet ==
  ASSUME NEW S, 0 \in S, \A n \in Nat : n \in S => n + 1 \in S
  PROVE  \A n \in Nat : n \in S
<1> SUFFICES ASSUME NEW n \in Nat, n \notin S PROVE FALSE
  OBVIOUS
<1> DEFINE A == (0 .. n) \cap S
           f == [k \in A |-> k + 1]
<1>1. \A k \in A : k \in Nat /\ k + 1 \in A
  <2> TAKE k \in A
  <2>1. k \in Nat /\ k <= n /\ k \in S /\ k # n OBVIOUS
  <2> QED BY <2>1
<1>2. f \in Injection(A, A)
  <2>1. f \in [A -> A] BY <1>1
  <2>2. \A a, b \in A : f[a] = f[b] => a = b BY <1>1
  <2> QED BY <2>1, <2>2 DEF Injection, IsInjective
<1>3. IsFiniteSet(A)
  <2>1. IsFiniteSet(0 .. n) BY FS_Interval
  <2> QED BY <2>1, FS_Intersection
<1>4. f \in Surjection(A, A)
  BY <1>2, <1>3, FS_Injection
<1>5. PICK k \in A : f[k] = 0
  <2>1. 0 \in A OBVIOUS
  <2> QED BY <1>4, <2>1 DEF Surjection
<1> QED
  BY <1>1, <1>5

LEMMA LastOf ==
  ASSUME NEW N \in Nat, NEW I \in SUBSET (1..N), I # {}
  PROVE  Choice!Max(I) \in I /\ \A y \in I : y <= Choice!Max(I)
<1>1. \E x \in I : \A y \in I : x >= y
  <2> SUFFICES ASSUME \A x \in I : \E y \in I : x < y PROVE FALSE
    OBVIOUS
  <2> DEFINE S == {n \in Nat : \E x \in I : x > n}
  <2>1. 0 \in S
    <3>1. PICK x \in I : TRUE
      OBVIOUS
    <3>2. x > 0 /\ 0 \in Nat
      OBVIOUS
    <3> QED BY <3>2
  <2>2. \A n \in Nat : n \in S => n + 1 \in S
    OBVIOUS
  <2> HIDE DEF S
  <2>3. N \in S
    BY <2>1, <2>2, NatSet
  <2> QED BY <2>3 DEF S
<1> QED BY <1>1 DEF Choice!Max

LEMMA LastFlaggedIs ==
  ASSUME ChoiceType
  PROVE  /\ Choice!LastFlagged \in 0..Len(cItems)
         /\ \A n \in 1..Len(cItems) :
              cFlags \cap Choice!Members = {cItems[n]} => Choice!LastFlagged = n
<1> DEFINE I == {n \in 1..Len(cItems) : cItems[n] \in cFlags}
<1>1. Choice!LastFlagged = IF I # {} THEN Choice!Max(I) ELSE 0
  BY DEF Choice!LastFlagged, Choice!SelectLastInSeq
<1>2. Len(cItems) \in Nat /\ DOMAIN cItems = 1..Len(cItems) /\ Distinct(cItems)
  BY DEF ChoiceType
<1>3. I # {} => Choice!Max(I) \in I
  BY <1>2, LastOf
<1>4. Choice!LastFlagged \in 0..Len(cItems)
  BY <1>1, <1>2, <1>3
<1>5. ASSUME NEW n \in 1..Len(cItems), cFlags \cap Choice!Members = {cItems[n]}
      PROVE  Choice!LastFlagged = n
  <2>1. \A m \in 1..Len(cItems) : cItems[m] \in Choice!Members
    BY <1>2 DEF Choice!Members, Choice!ToSet
  <2>2. I = {n}
    BY <1>2, <1>5, <2>1 DEF Distinct
  <2> HIDE DEF I
  <2> QED BY <1>1, <1>3, <2>2
<1> QED BY <1>4, <1>5

(* What construct() of each does when there are items.                     *)
LEMMA Constructs ==
  ASSUME cControl \in Choice!Choosers, Choice!Attach, cItems # <<>>
  PROVE  /\ cControl = Choice!GtkCombo     => Choice!GtkComboConstruct
         /\ cControl = Choice!WindowsCombo => Choice!WindowsComboConstruct
         /\ cControl = Choice!QtCombo      => Choice!QtComboConstruct
         /\ cControl = Choice!GtkTabs      => Choice!GtkTabsConstruct
         /\ cControl = Choice!WindowsTabs  => Choice!WindowsTabsConstruct
         /\ cControl = Choice!QtTabs       => Choice!QtTabsConstruct
         /\ cControl \in {Choice!CocoaCombo, Choice!CocoaTabs} => Choice!CocoaConstruct
<1>1. IF cItems = <<>> THEN Choice!Left(<<>>, 0, cFlags)
      ELSE CASE cControl = Choice!GtkCombo      -> Choice!GtkComboConstruct
             [] cControl = Choice!WindowsCombo  -> Choice!WindowsComboConstruct
             [] cControl = Choice!QtCombo       -> Choice!QtComboConstruct
             [] cControl = Choice!GtkTabs       -> Choice!GtkTabsConstruct
             [] cControl = Choice!WindowsTabs   -> Choice!WindowsTabsConstruct
             [] cControl = Choice!QtTabs        -> Choice!QtTabsConstruct
             [] OTHER                           -> Choice!CocoaConstruct
  BY Zenon DEF Choice!Attach
<1>2. CASE cControl = Choice!GtkCombo
  <2>1. cControl \notin {Choice!WindowsCombo, Choice!QtCombo, Choice!GtkTabs, Choice!WindowsTabs,
                         Choice!QtTabs, Choice!CocoaCombo, Choice!CocoaTabs}
    BY <1>2, ChoosersDiffer
  <2> QED BY <1>1, <1>2, <2>1
<1>3. CASE cControl = Choice!WindowsCombo
  <2>1. cControl \notin {Choice!GtkCombo, Choice!QtCombo, Choice!GtkTabs, Choice!WindowsTabs,
                         Choice!QtTabs, Choice!CocoaCombo, Choice!CocoaTabs}
    BY <1>3, ChoosersDiffer
  <2> QED BY <1>1, <1>3, <2>1
<1>4. CASE cControl = Choice!QtCombo
  <2>1. cControl \notin {Choice!GtkCombo, Choice!WindowsCombo, Choice!GtkTabs, Choice!WindowsTabs,
                         Choice!QtTabs, Choice!CocoaCombo, Choice!CocoaTabs}
    BY <1>4, ChoosersDiffer
  <2> QED BY <1>1, <1>4, <2>1
<1>5. CASE cControl = Choice!GtkTabs
  <2>1. cControl \notin {Choice!GtkCombo, Choice!WindowsCombo, Choice!QtCombo, Choice!WindowsTabs,
                         Choice!QtTabs, Choice!CocoaCombo, Choice!CocoaTabs}
    BY <1>5, ChoosersDiffer
  <2> QED BY <1>1, <1>5, <2>1
<1>6. CASE cControl = Choice!WindowsTabs
  <2>1. cControl \notin {Choice!GtkCombo, Choice!WindowsCombo, Choice!QtCombo, Choice!GtkTabs,
                         Choice!QtTabs, Choice!CocoaCombo, Choice!CocoaTabs}
    BY <1>6, ChoosersDiffer
  <2> QED BY <1>1, <1>6, <2>1
<1>7. CASE cControl = Choice!QtTabs
  <2>1. cControl \notin {Choice!GtkCombo, Choice!WindowsCombo, Choice!QtCombo, Choice!GtkTabs,
                         Choice!WindowsTabs, Choice!CocoaCombo, Choice!CocoaTabs}
    BY <1>7, ChoosersDiffer
  <2> QED BY <1>1, <1>7, <2>1
<1>8. CASE cControl \in {Choice!CocoaCombo, Choice!CocoaTabs}
  <2>1. cControl \notin {Choice!GtkCombo, Choice!WindowsCombo, Choice!QtCombo, Choice!GtkTabs,
                         Choice!WindowsTabs, Choice!QtTabs}
    BY <1>8, ChoosersDiffer
  <2> QED BY <1>1, <1>8, <2>1
<1> QED BY <1>2, <1>3, <1>4, <1>5, <1>6, <1>7, <1>8 DEF Choice!Choosers

LEMMA AttachKeepsSync ==
  ASSUME ChoiceInv, Choice!Attach
  PROVE  ChoiceInv'
<1>1. /\ ~cAttached /\ cAttached' /\ UNCHANGED <<cControl, cItems>> /\ Choice!Did({"filled"})
      /\ cItems = <<>> => Choice!Left(<<>>, 0, cFlags)
  BY Zenon DEF Choice!Attach
<1>2. /\ ChoiceType /\ cControl \in Choice!Choosers /\ Len(cItems) \in Nat
      /\ DOMAIN cItems = 1..Len(cItems) /\ Choice!Members' = Choice!Members
      /\ cItems \in Seq(Items)
  BY <1>1 DEF ChoiceInv, ChoiceType, Choice!Members
<1>3. CASE cItems = <<>>
  <2>1. cRows' = <<>> /\ cShown' = 0
    BY <1>1, <1>3 DEF Choice!Left
  <2>2. InSync'
    BY <1>1, <1>3, <2>1 DEF InSync
  <2> QED BY <1>1, <1>2, <1>3, <2>1, <2>2 DEF ChoiceInv, ChoiceType
<1>4. CASE cItems # <<>>
  <2>0. /\ cControl = Choice!GtkCombo     => Choice!GtkComboConstruct
        /\ cControl = Choice!WindowsCombo => Choice!WindowsComboConstruct
        /\ cControl = Choice!QtCombo      => Choice!QtComboConstruct
        /\ cControl = Choice!GtkTabs      => Choice!GtkTabsConstruct
        /\ cControl = Choice!WindowsTabs  => Choice!WindowsTabsConstruct
        /\ cControl = Choice!QtTabs       => Choice!QtTabsConstruct
        /\ cControl \in {Choice!CocoaCombo, Choice!CocoaTabs} => Choice!CocoaConstruct
    BY <1>2, <1>4, Constructs
  <2>1. PICK last : last = Choice!LastFlagged
    OBVIOUS
  <2>2. /\ last \in 0..Len(cItems)
        /\ \A n \in 1..Len(cItems) : cFlags \cap Choice!Members = {cItems[n]} => last = n
    BY <1>2, <2>1, LastFlaggedIs
  <2>3. Choice!Max({1, last}) = IF 1 <= last THEN last ELSE 1
    <3>1. 1 \in Int /\ last \in Int
      BY <1>2, <2>2
    <3> QED BY <3>1, MinMax
  <2>4. 1 \in 1..Len(cItems) /\ \A n \in 1..Len(cItems) : cItems[n] \in Choice!Members
    BY <1>2, <1>4 DEF Choice!Members, Choice!ToSet
  <2>5. /\ cRows' \in {<<>>, cItems} /\ cShown' \in 0..Len(cRows')
        /\ cControl = Choice!QtCombo =>
             cRows' = cItems /\ cShown' = 1 /\ cFlags' = Choice!Alone(cItems[1], cItems)
        /\ cControl \in {Choice!GtkTabs, Choice!QtTabs} =>
             cRows' = cItems /\ cShown' = Choice!Max({1, last}) /\ cFlags' = cFlags
    <3>1. CASE cControl = Choice!GtkCombo
      BY <1>2, <2>0, <3>1, ChoosersDiffer DEF Choice!GtkComboConstruct, Choice!Left
    <3>2. CASE cControl = Choice!WindowsCombo
      BY <1>2, <2>0, <2>1, <2>2, <3>2, ChoosersDiffer DEF Choice!WindowsComboConstruct, Choice!Left
    <3>3. CASE cControl = Choice!QtCombo
      BY <1>2, <2>0, <2>4, <3>3, ChoosersDiffer DEF Choice!QtComboConstruct, Choice!Left
    <3>4. CASE cControl = Choice!GtkTabs
      BY <1>2, <2>0, <2>1, <2>2, <2>3, <2>4, <3>4, ChoosersDiffer DEF Choice!GtkTabsConstruct, Choice!Left
    <3>5. CASE cControl = Choice!WindowsTabs
      BY <1>2, <2>0, <2>4, <3>5, ChoosersDiffer DEF Choice!WindowsTabsConstruct, Choice!Left
    <3>6. CASE cControl = Choice!QtTabs
      BY <1>2, <2>0, <2>1, <2>2, <2>3, <2>4, <3>6, ChoosersDiffer DEF Choice!QtTabsConstruct, Choice!Left
    <3>7. CASE cControl \in {Choice!CocoaCombo, Choice!CocoaTabs}
      BY <1>2, <2>0, <3>7, ChoosersDiffer DEF Choice!CocoaConstruct, Choice!Left
    <3> QED BY <1>2, <3>1, <3>2, <3>3, <3>4, <3>5, <3>6, <3>7 DEF Choice!Choosers
  <2>6. ASSUME Survived' PROVE InSync'
    <3>1. PICK h \in cControl.survives : cDid \subseteq h /\ "filled" \in h
      BY <1>1, <1>4, <2>6, DidGrows
    <3>2. CASE cControl = Choice!QtCombo
      <4>1. cFlags' \cap Choice!Members = {cItems[1]}
        BY <2>4, <2>5, <3>2 DEF Choice!Alone, Choice!Members
      <4> QED BY <1>1, <1>2, <2>5, <3>2, <4>1 DEF InSync
    <3>3. CASE cControl # Choice!QtCombo
      <4>1. cControl \in {Choice!GtkTabs, Choice!QtTabs} /\ "lost" \notin h
        BY <1>2, <3>1, <3>3, Survivals
      <4>2. PICK n \in 1..Len(cItems) : cFlags \cap Choice!Members = {cItems[n]}
        BY <1>1, <1>4, <3>1, <4>1 DEF ChoiceInv, CanBeFilled, OneFlagged
      <4>3. last = n /\ cShown' = n
        BY <1>2, <2>2, <2>3, <2>5, <4>1, <4>2
      <4> QED BY <1>1, <1>2, <2>5, <4>1, <4>2, <4>3 DEF InSync
    <3> QED BY <3>2, <3>3
  <2> QED BY <1>1, <1>2, <2>5, <2>6 DEF ChoiceInv, ChoiceType
<1> QED BY <1>3, <1>4

LEMMA DetachKeepsSync ==
  ASSUME ChoiceInv, Choice!Detach
  PROVE  ChoiceInv'
<1>1. /\ cAttached /\ ~cAttached' /\ UNCHANGED <<cControl, cItems>> /\ Choice!Did({})
      /\ cRows' = <<>> /\ cShown' = 0
      /\ cControl # Choice!QtCombo => cFlags' = cFlags
  BY DEF Choice!Detach, Choice!Left
<1>2. /\ ChoiceType /\ cControl \in Choice!Choosers /\ Choice!Members' = Choice!Members
      /\ cRows \in Seq(Items) /\ Len(cRows) \in Nat
  BY <1>1 DEF ChoiceInv, ChoiceType, Choice!Members
<1>3. ASSUME CanBeFilled', cItems' # <<>> PROVE OneFlagged'
  <2>1. PICK h \in cControl.survives : "filled" \in h /\ "lost" \notin h /\ cDid \subseteq h
    BY <1>1, <1>3, DidGrows
  <2>2. cControl # Choice!QtCombo
    BY <1>2, <2>1, Survivals
  <2>3. InSync
    BY <1>1, <2>1 DEF ChoiceInv, Survived
  <2>4. cShown \in 1..Len(cItems) /\ cFlags \cap Choice!Members = {cItems[cShown]}
    BY <1>1, <1>2, <1>3, <2>3 DEF InSync, ChoiceType
  <2> QED BY <1>1, <1>2, <2>2, <2>4 DEF OneFlagged
<1>4. ChoiceType'
  BY <1>1, <1>2 DEF ChoiceType
<1> QED BY <1>1, <1>3, <1>4 DEF ChoiceInv

LEMMA ChooseKeepsSync ==
  ASSUME ChoiceInv, NEW n \in Nat, Choice!Choose(n)
  PROVE  ChoiceInv'
<1>1. /\ cAttached /\ Choice!Whole /\ n \in DOMAIN cRows /\ cShown' = n
      /\ cFlags' = IF cControl.stores THEN Choice!Alone(cItems[n], cItems) ELSE cFlags
      /\ UNCHANGED <<cControl, cItems, cAttached, cRows>> /\ Choice!Did({"chosen"})
  BY DEF Choice!Choose
<1>2. /\ ChoiceType /\ cControl \in Choice!Choosers /\ Choice!Members' = Choice!Members
      /\ DOMAIN cItems = 1..Len(cItems) /\ Len(cItems) \in Nat /\ cRows = cItems
      /\ n \in 1..Len(cItems) /\ cItems # <<>> /\ cItems[n] \in Choice!Members
  BY <1>1 DEF ChoiceInv, ChoiceType, Choice!Members, Choice!ToSet, Choice!Whole
<1>3. ASSUME Survived' PROVE InSync'
  <2>1. PICK h \in cControl.survives : "chosen" \in h
    BY <1>1, <1>2, <1>3, DidGrows
  <2>2. cFlags' = Choice!Alone(cItems[n], cItems)
    BY <1>1, <1>2, <2>1, Survivals
  <2>3. cFlags' \cap Choice!Members = {cItems[n]}
    BY <1>2, <2>2 DEF Choice!Alone, Choice!Members
  <2> QED BY <1>1, <1>2, <2>3 DEF InSync
<1> QED BY <1>1, <1>2, <1>3 DEF ChoiceInv, ChoiceType

LEMMA ChoiceStepKeepsSync ==
  ASSUME ChoiceInv, Choice!Next
  PROVE  ChoiceInv'
<1>1. CASE \E i \in Items : Choice!AppendItem(i)
  BY <1>1, AppendKeepsSync
<1>2. CASE \E i \in Items : Choice!RemoveItem(i)
  BY <1>2, RemoveKeepsSync
<1>3. CASE \E i \in Items : Choice!SelectItem(i)
  BY <1>3, SelectKeepsSync
<1>4. CASE \E i \in Items : Choice!RenameItem(i)
  BY <1>4, RenameKeepsSync
<1>5. CASE Choice!ResetItems
  BY <1>5, ResetKeepsSync
<1>6. CASE Choice!Attach
  BY <1>6, AttachKeepsSync
<1>7. CASE Choice!Detach
  BY <1>7, DetachKeepsSync
<1>8. CASE \E n \in 1..Choice!Cardinality(Items) : Choice!Choose(n)
  <2>1. PICK n \in 1..Choice!Cardinality(Items) : Choice!Choose(n)
    BY <1>8
  <2>2. n \in Nat
    BY <2>1
  <2> QED BY <2>1, <2>2, ChooseKeepsSync
<1> QED BY <1>1, <1>2, <1>3, <1>4, <1>5, <1>6, <1>7, <1>8 DEF Choice!Next

LEMMA SelectionIsShown == ChoiceInv => Choice!ChoiceIsShown
  BY DEF ChoiceInv, Survived, InSync, Choice!ChoiceIsShown

LEMMA ChoiceStartsRight == Choice!Init => ChoiceInv
  BY DEF Choice!Init, ChoiceInv, ChoiceType, InSync, OneFlagged, Distinct

LEMMA SelectedIs ==
  ASSUME ChoiceType, NEW n \in 1..Len(cItems),
         cFlags' = Choice!Alone(cItems[n], cItems)
  PROVE  Choice!Selected(cFlags') = cItems[n]
<1>1. PICK fs : fs = cFlags'
  OBVIOUS
<1>2. Len(cItems) \in Nat /\ DOMAIN cItems = 1..Len(cItems) /\ Distinct(cItems)
  BY DEF ChoiceType
<1>3. \A m \in 1..Len(cItems) : cItems[m] \in fs <=> m = n
  BY <1>1, <1>2 DEF Choice!Alone, Choice!ToSet, Distinct
<1> DEFINE I == {m \in 1..Len(cItems) : cItems[m] \in fs}
<1>4. I = {n} /\ n # 0
  BY <1>2, <1>3
<1>5. Choice!Min({n}) = n
  BY <1>2 DEF Choice!Min
<1>6. Choice!SelectInSeq(cItems, LAMBDA i : i \in fs) = IF I # {} THEN Choice!Min(I) ELSE 0
  BY DEF Choice!SelectInSeq
<1>7. Choice!Selected(fs) =
        IF Choice!SelectInSeq(cItems, LAMBDA i : i \in fs) = 0 THEN Choice!None
        ELSE cItems[Choice!SelectInSeq(cItems, LAMBDA i : i \in fs)]
  BY DEF Choice!Selected
<1> QED BY <1>1, <1>4, <1>5, <1>6, <1>7

LEMMA ChoiceStepIsTold ==
  ASSUME ChoiceInv, Choice!Next
  PROVE  Choice!ChoiceIsTold
<1>0. /\ ChoiceType /\ cControl \in Choice!Choosers
      /\ cControl.combo => ~cControl.tells
  BY ChoosersDiffer DEF ChoiceInv, ChoiceType
<1>1. CASE \E i \in Items : Choice!AppendItem(i)
  <2>1. PICK i \in Items : Choice!AppendItem(i)
    BY <1>1
  <2>2. cBy' = "program" /\ cAttached' = cAttached /\ (~cTold' \/ cControl.tells)
    BY <2>1 DEF Choice!AppendItem
  <2> QED BY <2>2 DEF Choice!ChoiceIsTold
<1>2. CASE \E i \in Items : Choice!RemoveItem(i)
  <2>1. PICK i \in Items : Choice!RemoveItem(i)
    BY <1>2
  <2>2. cBy' = "program" /\ cAttached' = cAttached /\ ~cTold'
    BY <2>1, Zenon DEF Choice!RemoveItem
  <2> QED BY <2>2 DEF Choice!ChoiceIsTold
<1>3. CASE \E i \in Items : Choice!SelectItem(i) \/ Choice!RenameItem(i)
  <2>1. PICK i \in Items : Choice!SelectItem(i) \/ Choice!RenameItem(i)
    BY <1>3
  <2>2. cBy' = "program" /\ cAttached' = cAttached /\ (~cTold' \/ cControl.tells)
    BY <2>1 DEF Choice!SelectItem, Choice!RenameItem
  <2> QED BY <2>2 DEF Choice!ChoiceIsTold
<1>4. CASE Choice!ResetItems
  <2>1. cBy' = "program" /\ cAttached' = cAttached /\ ~cTold'
    BY <1>4, Zenon DEF Choice!ResetItems
  <2> QED BY <2>1 DEF Choice!ChoiceIsTold
<1>5. CASE Choice!Attach
  <2>1. cBy' = "program" /\ (cTold' => cControl = Choice!QtTabs)
    BY <1>5, Zenon DEF Choice!Attach
  <2>2. cControl = Choice!QtTabs => cControl.tells
    BY ChoosersAre DEF IsQtTabs
  <2>3. ASSUME ~cControl.combo \/ cControl = Choice!CocoaCombo PROVE cFlags' = cFlags
    <3>1. CASE cItems = <<>>
      BY <1>5, <3>1 DEF Choice!Attach, Choice!Left
    <3>2. CASE cItems # <<>>
      <4>1. cControl \in {Choice!GtkTabs, Choice!WindowsTabs, Choice!QtTabs, Choice!CocoaCombo,
                          Choice!CocoaTabs}
        BY <1>0, <2>3, ChoosersAre DEF Choice!Choosers, IsGtkCombo, IsWindowsCombo, IsQtCombo
      <4> QED BY <1>0, <1>5, <3>2, <4>1, Constructs
              DEF Choice!GtkTabsConstruct, Choice!WindowsTabsConstruct, Choice!QtTabsConstruct,
                  Choice!CocoaConstruct, Choice!Left
    <3> QED BY <3>1, <3>2
  <2> QED BY <2>1, <2>2, <2>3 DEF Choice!ChoiceIsTold
<1>6. CASE Choice!Detach
  <2>1. cBy' = "program" /\ ~cTold' /\ (cControl # Choice!QtCombo => cFlags' = cFlags)
    BY <1>6 DEF Choice!Detach, Choice!Left
  <2>2. cControl = Choice!QtCombo => cControl.combo /\ cControl # Choice!CocoaCombo
    BY ChoosersAre DEF IsQtCombo, IsCocoaCombo
  <2> QED BY <2>1, <2>2 DEF Choice!ChoiceIsTold
<1>7. CASE \E n \in 1..Choice!Cardinality(Items) : Choice!Choose(n)
  <2>1. PICK n \in 1..Choice!Cardinality(Items) : Choice!Choose(n)
    BY <1>7
  <2>2. /\ cAttached /\ Choice!Whole /\ n \in DOMAIN cRows /\ cShown' = n
        /\ cControl.stores => cFlags' = Choice!Alone(cItems[n], cItems)
        /\ cTold' /\ cBy' = "user" /\ cAttached' = cAttached
    BY <2>1 DEF Choice!Choose
  <2>3. cRows = cItems /\ n \in 1..Len(cItems)
    BY <1>0, <2>2 DEF ChoiceType, Choice!Whole
  <2>4. cControl.stores => Choice!Selected(cFlags') = cRows[cShown']
    BY <1>0, <2>2, <2>3, SelectedIs
  <2> QED BY <2>2, <2>4 DEF Choice!ChoiceIsTold
<1> QED BY <1>1, <1>2, <1>3, <1>4, <1>5, <1>6, <1>7 DEF Choice!Next

-------------------------------------------------------------------------------
(* The selection of a table.  Rows are what the items are as soon as the   *)
(* control is there; what was seen last is what is flagged, and what is    *)
(* selected as long as no band is drawn.                                   *)

Held(s) == Rows!Range(s)
TableSet == [items: Seq(Items), chosen: SUBSET Items, rows: Seq(Items), gtk: SUBSET Items,
             current: SUBSET Nat, told: BOOLEAN]
At(t)     == {n \in DOMAIN t.rows : t.rows[n] \in t.gtk}      \* the selected rows
Of(t, ns) == {t.items[n] : n \in ns}

(* A table with a row for each of the first items, or for all of them.     *)
Filled(t) ==
  /\ t \in TableSet /\ Distinct(t.items)
  /\ Len(t.rows) <= Len(t.items) /\ \A n \in 1..Len(t.rows) : t.rows[n] = t.items[n]
  /\ t.gtk \subseteq Held(t.rows)
Agrees(t) == t.chosen \cap Held(t.rows) = t.gtk /\ t.current = At(t)
Noted(t) ==
  /\ Filled(t) /\ t.rows = t.items
  /\ t.current \subseteq 1..Len(t.rows) /\ Rows!Selected(t) = Of(t, t.current)
RowsInv ==
  /\ table \in TableSet /\ Distinct(table.items)
  /\ batchable \in BOOLEAN /\ band \in BOOLEAN /\ attached \in BOOLEAN
  /\ band => attached
  /\ ~attached => table.rows = <<>> /\ table.gtk = {}
  /\ attached => Noted(table)
  /\ attached /\ ~band => table.current = At(table)

LEMMA FilledIs ==
  ASSUME NEW t, Filled(t)
  PROVE  /\ t.items \in Seq(Items) /\ t.rows \in Seq(Items)
         /\ Len(t.items) \in Nat /\ Len(t.rows) \in Nat /\ Len(t.rows) <= Len(t.items)
         /\ DOMAIN t.items = 1..Len(t.items) /\ DOMAIN t.rows = 1..Len(t.rows)
         /\ Held(t.rows) \subseteq Held(t.items) /\ Distinct(t.rows)
         /\ At(t) \subseteq 1..Len(t.rows)
<1>1. /\ t.items \in Seq(Items) /\ t.rows \in Seq(Items)
      /\ Len(t.items) \in Nat /\ Len(t.rows) \in Nat /\ Len(t.rows) <= Len(t.items)
      /\ DOMAIN t.items = 1..Len(t.items) /\ DOMAIN t.rows = 1..Len(t.rows)
  BY DEF Filled, TableSet
<1>2. \A n \in 1..Len(t.rows) : n \in 1..Len(t.items) /\ t.rows[n] = t.items[n]
  BY <1>1 DEF Filled
<1>3. Held(t.rows) \subseteq Held(t.items)
  BY <1>1, <1>2 DEF Held, Rows!Range
<1>4. Distinct(t.rows)
  BY <1>1, <1>2 DEF Filled, Distinct
<1> QED BY <1>1, <1>3, <1>4 DEF At

(* Some rows are selected at positions that are theirs alone.              *)
LEMMA AtIs ==
  ASSUME NEW t, Filled(t)
  PROVE  /\ Of(t, At(t)) = t.gtk
         /\ \A ns \in SUBSET (1..Len(t.rows)) : Of(t, ns) = t.gtk => ns = At(t)
<1>1. \A n \in 1..Len(t.rows) : n \in 1..Len(t.items) /\ t.rows[n] = t.items[n]
  BY FilledIs DEF Filled
<1>2. Of(t, At(t)) = t.gtk
  BY <1>1, FilledIs DEF Of, At, Held, Filled, Rows!Range
<1>3. ASSUME NEW ns \in SUBSET (1..Len(t.rows)), Of(t, ns) = t.gtk PROVE ns = At(t)
  <2>1. ASSUME NEW n \in 1..Len(t.rows), t.rows[n] \in t.gtk PROVE n \in ns
    <3>1. PICK m \in ns : t.items[m] = t.rows[n]
      BY <1>3, <2>1 DEF Of
    <3>2. m \in 1..Len(t.rows) /\ t.rows[m] = t.rows[n]
      BY <1>1, <3>1
    <3>3. m = n
      BY <3>2, FilledIs DEF Distinct
    <3> QED BY <3>1, <3>3
  <2>2. ASSUME NEW n \in ns PROVE n \in 1..Len(t.rows) /\ t.rows[n] \in t.gtk
    BY <1>1, <1>3 DEF Of
  <2>3. \A n : n \in At(t) <=> n \in 1..Len(t.rows) /\ t.rows[n] \in t.gtk
    BY FilledIs DEF At
  <2> QED BY <2>1, <2>2, <2>3
<1> QED BY <1>2, <1>3

(* What updateSelected() makes of one: it tells if the selected rows are   *)
(* others than the ones it saw, and the lock is open.                      *)
IsUpdated(u, t, locked) ==
  /\ Filled(u) /\ u.items = t.items /\ u.rows = t.rows /\ u.gtk = t.gtk
  /\ u.current = At(t) /\ At(u) = At(t)
  /\ u.told = (t.told \/ (~locked /\ At(t) # t.current))
  /\ u.chosen = IF At(t) = t.current THEN t.chosen
                ELSE (t.chosen \ Held(t.items)) \cup t.gtk
LEMMA Updated ==
  ASSUME NEW t, Filled(t), NEW locked \in BOOLEAN
  PROVE  IsUpdated(Rows!UpdateSelected(t, locked), t, locked)
<1>1. PICK u : u = Rows!UpdateSelected(t, locked)
  OBVIOUS
<1>2. t \in TableSet /\ At(t) \subseteq 1..Len(t.rows) /\ At(t) \subseteq DOMAIN t.items
  BY FilledIs DEF Filled
<1>4. CASE At(t) = t.current
  <2>1. u = t
    BY <1>1, <1>4 DEF Rows!UpdateSelected, At
  <2> QED BY <1>1, <1>2, <1>4, <2>1 DEF TableSet, IsUpdated
<1>5. CASE At(t) # t.current
  <2>1. PICK b \in BOOLEAN : b = (t.told \/ ~locked)
    BY <1>2 DEF TableSet
  <2>2. PICK ch : ch = (t.chosen \ Held(t.items)) \cup t.gtk
    OBVIOUS
  <2>3. PICK cur : cur = At(t)
    OBVIOUS
  <2>4. ch \in SUBSET Items /\ cur \in SUBSET Nat
    BY <1>2, <2>2, <2>3 DEF TableSet
  <2>5. u = [t EXCEPT !.current = cur, !.chosen = ch, !.told = b]
    <3>1. {t.items[n] : n \in At(t) \cap DOMAIN t.items} = t.gtk
      BY <1>2, AtIs DEF Of
    <3> QED BY <1>1, <1>2, <1>5, <2>1, <2>2, <2>3, <3>1 DEF Rows!UpdateSelected, At, Held
  <2>6. /\ u \in TableSet /\ u.items = t.items /\ u.rows = t.rows /\ u.gtk = t.gtk
        /\ u.current = cur /\ u.chosen = ch /\ u.told = b
    BY <1>2, <2>4, <2>5 DEF TableSet
  <2>7. At(u) = At(t) /\ Filled(u)
    BY <1>2, <2>3, <2>6 DEF At, Filled
  <2> QED BY <1>1, <1>5, <2>1, <2>2, <2>3, <2>6, <2>7 DEF IsUpdated
<1> QED BY <1>4, <1>5

(* _setState() of the n-th row makes the rest right if only that one was   *)
(* not.                                                                    *)
Selecting(t, i) == IF i \notin t.chosen THEN t.gtk \ {i}
                   ELSE IF batchable THEN t.gtk \cup {i} ELSE {i}
StateIsSet(u, t, i) ==
  /\ Filled(u) /\ Agrees(u)
  /\ u.items = t.items /\ u.rows = t.rows /\ u.told = t.told /\ u.gtk = Selecting(t, i)
  /\ u.chosen = IF Selecting(t, i) = t.gtk THEN t.chosen
                ELSE (t.chosen \ Held(t.items)) \cup Selecting(t, i)

LEMMA StateSet ==
  ASSUME NEW t, Filled(t), NEW n \in 1..Len(t.rows), t.current = At(t),
         (t.chosen \cap Held(t.rows)) \ {t.rows[n]} = t.gtk \ {t.rows[n]}
  PROVE  StateIsSet(Rows!SetState(t, t.rows[n]), t, t.rows[n])
<1>1. PICK i : i = t.rows[n]
  OBVIOUS
<1>2. PICK marked : marked = IF i \notin t.chosen THEN t.gtk \ {i}
                                 ELSE IF batchable THEN t.gtk \cup {i} ELSE {i}
  OBVIOUS
<1>3. PICK v : v = [t EXCEPT !.gtk = marked]
  OBVIOUS
<1>4. PICK u : u = Rows!UpdateSelected(v, TRUE)
  OBVIOUS
<1>5. t \in TableSet
  BY DEF Filled
<1>6. u = Rows!SetState(t, i)
  <2>1. v = IF i \in t.chosen THEN Rows!SelectRow(t, i) ELSE [t EXCEPT !.gtk = @ \ {i}]
    BY <1>2, <1>3, <1>5 DEF Rows!SelectRow, Rows!Multiple, TableSet
  <2> QED BY <1>4, <2>1 DEF Rows!SetState
<1>7. i \in Held(t.rows) /\ marked \subseteq Held(t.rows)
  BY <1>1, <1>2, FilledIs DEF Held, Rows!Range, Filled
<1>8. /\ v \in TableSet /\ v.gtk = marked /\ v.items = t.items /\ v.rows = t.rows
      /\ v.current = t.current /\ v.chosen = t.chosen /\ v.told = t.told
  <2>1. marked \in SUBSET Items
    BY <1>5, <1>7, FilledIs DEF Held, Rows!Range
  <2> QED BY <1>3, <1>5, <2>1 DEF TableSet
<1>9. Filled(v)
  BY <1>7, <1>8 DEF Filled
<1>10. /\ Filled(u) /\ u.items = t.items /\ u.rows = t.rows /\ u.gtk = marked
       /\ u.current = At(v) /\ At(u) = At(v)
       /\ u.told = t.told
       /\ u.chosen = IF At(v) = t.current THEN t.chosen ELSE (t.chosen \ Held(t.items)) \cup marked
  <2>1. TRUE \in BOOLEAN /\ (t.told \/ (~TRUE /\ At(v) # v.current)) = t.told
    BY <1>5 DEF TableSet
  <2>2. PICK locked \in BOOLEAN : locked = TRUE
    OBVIOUS
  <2>3. /\ Filled(u) /\ u.items = v.items /\ u.rows = v.rows /\ u.gtk = v.gtk
        /\ u.current = At(v) /\ At(u) = At(v)
        /\ u.told = (v.told \/ (~locked /\ At(v) # v.current))
        /\ u.chosen = IF At(v) = v.current THEN v.chosen
                      ELSE (v.chosen \ Held(v.items)) \cup v.gtk
    BY <1>4, <1>9, <2>2, Updated DEF IsUpdated
  <2>4. u.told = t.told
    BY <1>8, <2>1, <2>2, <2>3
  <2> QED BY <1>8, <2>3, <2>4
<1>11. At(v) = t.current <=> marked = t.gtk
  <2>1. Of(t, At(t)) = t.gtk /\ Of(v, At(v)) = marked
    BY <1>8, <1>9, AtIs
  <2>2. Of(v, At(t)) = Of(t, At(t))
    BY <1>8 DEF Of
  <2>3. marked = t.gtk => At(v) = At(t)
    BY <1>8 DEF At
  <2> QED BY <2>1, <2>2, <2>3
<1>12. u.chosen \cap Held(t.rows) = marked
  <2>1. CASE marked = t.gtk
    BY <1>1, <1>2, <1>7, <1>10, <1>11, <2>1
  <2>2. CASE marked # t.gtk
    BY <1>7, <1>10, <1>11, <2>2, FilledIs
  <2> QED BY <2>1, <2>2
<1> QED BY <1>1, <1>2, <1>6, <1>10, <1>11, <1>12 DEF Agrees, StateIsSet, Selecting

(* A table that has all rows and agrees has noted all.                     *)
LEMMA AllAgree ==
  ASSUME NEW t, Filled(t), Agrees(t), Len(t.rows) = Len(t.items)
  PROVE  Noted(t) /\ t.current = At(t) /\ Rows!Selected(t) = t.gtk
<1>1. t.rows = t.items
  BY FilledIs DEF Filled
<1>2. Rows!Selected(t) = t.gtk /\ Of(t, t.current) = t.gtk
  BY <1>1, AtIs DEF Agrees, Rows!Selected, Held
<1> QED BY <1>1, <1>2, FilledIs DEF Agrees, Noted

LEMMA NotedAgrees ==
  ASSUME NEW t, Noted(t), t.current = At(t)
  PROVE  Agrees(t) /\ Rows!Selected(t) = t.gtk
BY AtIs DEF Noted, Agrees, Rows!Selected, Held

(* The signal of a change, of what was noted before it.                    *)
LEMMA Signalled ==
  ASSUME NEW t, Noted(t), NEW locked \in BOOLEAN
  PROVE  LET u == Rows!UpdateSelected(t, locked)
         IN  /\ Noted(u) /\ u.current = At(u) /\ u.items = t.items /\ u.rows = t.rows
             /\ u.gtk = t.gtk /\ Rows!Selected(u) = t.gtk
             /\ u.told = (t.told \/ (~locked /\ Rows!Selected(t) # t.gtk))
<1>1. PICK u : u = Rows!UpdateSelected(t, locked)
  OBVIOUS
<1>2. Filled(t) /\ t.rows = t.items
  BY DEF Noted
<1>3. /\ Filled(u) /\ u.items = t.items /\ u.rows = t.rows /\ u.gtk = t.gtk
      /\ u.current = At(t) /\ At(u) = At(t)
      /\ u.told = (t.told \/ (~locked /\ At(t) # t.current))
      /\ u.chosen = IF At(t) = t.current THEN t.chosen
                    ELSE (t.chosen \ Held(t.items)) \cup t.gtk
  BY <1>1, <1>2, Updated DEF IsUpdated
<1>4. At(t) # t.current <=> Rows!Selected(t) # t.gtk
  BY <1>2, AtIs DEF Noted
<1>5. u.chosen \cap Held(u.rows) = t.gtk
  BY <1>2, <1>3, <1>4 DEF Rows!Selected, Held, Filled
<1>6. Agrees(u)
  BY <1>3, <1>5 DEF Agrees
<1>7. Noted(u) /\ Rows!Selected(u) = u.gtk
  BY <1>2, <1>3, <1>6, AllAgree
<1> QED BY <1>1, <1>3, <1>4, <1>7

LEMMA QuietIs ==
  ASSUME table \in TableSet
  PROVE  /\ Rows!Quiet \in TableSet /\ Rows!Quiet.told = FALSE
         /\ Rows!Quiet.items = table.items /\ Rows!Quiet.rows = table.rows
         /\ Rows!Quiet.gtk = table.gtk /\ Rows!Quiet.chosen = table.chosen
         /\ Rows!Quiet.current = table.current
BY DEF Rows!Quiet, TableSet

(* What a table has noted, and how it agrees, does not depend on the rest. *)
LEMMA SameRows ==
  ASSUME NEW t \in TableSet, NEW u \in TableSet,
         u.items = t.items, u.rows = t.rows, u.chosen = t.chosen, u.current = t.current
  PROVE  /\ Noted(t) /\ u.gtk \subseteq Held(t.rows) => Noted(u)
         /\ u.gtk = t.gtk => At(u) = At(t) /\ (Noted(t) => Noted(u))
                             /\ Rows!Selected(u) = Rows!Selected(t)
BY DEF Noted, Filled, At, Of, Rows!Selected

Selects(t, n) == IF t.items[n] \notin t.chosen THEN t.gtk
                   ELSE IF batchable THEN t.gtk \cup {t.items[n]} ELSE {t.items[n]}
RowIsConstructed(u, t, n) ==
  /\ Filled(u) /\ Agrees(u)
  /\ u.items = t.items /\ Len(u.rows) = n /\ u.told = t.told /\ u.gtk = Selects(t, n)
  /\ u.chosen = IF t.items[n] \in t.chosen
                THEN (t.chosen \ Held(t.items)) \cup Selects(t, n) ELSE t.chosen

LEMMA RowConstructed ==
  ASSUME NEW t, Filled(t), Agrees(t), NEW n \in 1..Len(t.items), n = Len(t.rows) + 1
  PROVE  RowIsConstructed(Rows!ConstructRow(t, t.items[n]), t, n)
<1>1. PICK i : i = t.items[n]
  OBVIOUS
<1>2. PICK rows : rows = Append(t.rows, i)
  OBVIOUS
<1>3. PICK v : v = [t EXCEPT !.rows = rows]
  OBVIOUS
<1>4. PICK u : u = Rows!SetState(v, i)
  OBVIOUS
<1>5. u = Rows!ConstructRow(t, i)
  BY <1>2, <1>3, <1>4 DEF Rows!ConstructRow
<1>6. /\ t.items \in Seq(Items) /\ t.rows \in Seq(Items) /\ t \in TableSet
      /\ Len(t.items) \in Nat /\ Len(t.rows) \in Nat
      /\ DOMAIN t.items = 1..Len(t.items) /\ DOMAIN t.rows = 1..Len(t.rows)
  BY FilledIs DEF Filled
<1>7. i \in Items
  BY <1>1, <1>6
<1>8. /\ rows \in Seq(Items) /\ Len(rows) = n /\ rows[n] = i
      /\ \A k \in 1..Len(t.rows) : rows[k] = t.rows[k]
  BY <1>2, <1>6, <1>7
<1>9. \A k \in 1..Len(rows) : rows[k] = t.items[k]
  BY <1>1, <1>6, <1>8 DEF Filled
<1>10. i \notin Held(t.rows) /\ Held(rows) = Held(t.rows) \cup {i}
  <2>1. ASSUME NEW k \in 1..Len(t.rows), t.rows[k] = i PROVE FALSE
    <3>1. k \in 1..Len(t.items) /\ t.items[k] = t.items[n] /\ k # n
      BY <1>1, <1>6, <1>8, <1>9, <2>1
    <3> QED BY <3>1 DEF Filled, Distinct
  <2>2. DOMAIN rows = 1..Len(rows)
    BY <1>8
  <2>3. ASSUME NEW k \in 1..Len(rows) PROVE rows[k] \in Held(t.rows) \cup {i}
    <3>1. k \in 1..Len(t.rows) \/ k = n
      BY <1>6, <1>8
    <3> QED BY <1>6, <1>8, <3>1 DEF Held, Rows!Range
  <2>4. ASSUME NEW k \in 1..Len(t.rows) PROVE t.rows[k] \in Held(rows)
    <3>1. k \in 1..Len(rows) /\ rows[k] = t.rows[k]
      BY <1>6, <1>8
    <3> QED BY <2>2, <3>1 DEF Held, Rows!Range
  <2>5. i \in Held(rows)
    BY <1>6, <1>8, <2>2 DEF Held, Rows!Range
  <2> QED BY <1>6, <2>1, <2>2, <2>3, <2>4, <2>5 DEF Held, Rows!Range
<1>11. /\ v \in TableSet /\ v.rows = rows /\ v.items = t.items /\ v.chosen = t.chosen
       /\ v.gtk = t.gtk /\ v.current = t.current /\ v.told = t.told
  BY <1>3, <1>6, <1>8 DEF TableSet
<1>12. Filled(v)
  BY <1>6, <1>8, <1>9, <1>10, <1>11 DEF Filled
<1>13. At(v) = At(t) /\ v.current = At(v)
  <2>1. i \notin t.gtk
    BY <1>10 DEF Filled
  <2>2. \A k \in 1..Len(rows) : rows[k] \in t.gtk <=> k \in 1..Len(t.rows) /\ t.rows[k] \in t.gtk
    BY <1>6, <1>8, <2>1
  <2>3. DOMAIN rows = 1..Len(rows) /\ 1..Len(t.rows) \subseteq 1..Len(rows)
    BY <1>6, <1>8
  <2> QED BY <1>6, <1>11, <2>2, <2>3 DEF At, Agrees
<1>14. i \notin t.gtk /\ (v.chosen \cap Held(v.rows)) \ {i} = v.gtk \ {i}
  BY <1>10, <1>11 DEF Agrees, Filled
<1>15. StateIsSet(u, v, i)
  <2>1. n \in 1..Len(v.rows) /\ v.rows[n] = i
    BY <1>6, <1>8, <1>11
  <2>2. (v.chosen \cap Held(v.rows)) \ {v.rows[n]} = v.gtk \ {v.rows[n]}
    BY <1>14, <2>1
  <2>3. StateIsSet(Rows!SetState(v, v.rows[n]), v, v.rows[n])
    BY <1>12, <1>13, <2>1, <2>2, StateSet
  <2> QED BY <1>4, <2>1, <2>3
<1>16. Selecting(v, i) = IF i \notin t.chosen THEN t.gtk
                         ELSE IF batchable THEN t.gtk \cup {i} ELSE {i}
  BY <1>11, <1>14 DEF Selecting
<1>17. Selecting(v, i) = t.gtk <=> i \notin t.chosen
  BY <1>14, <1>11, <1>16
<1>18. RowIsConstructed(u, t, n)
  <2>1. Selecting(v, t.items[n]) = Selects(t, n)
    BY <1>1, <1>16 DEF Selects
  <2> QED BY <1>1, <1>8, <1>11, <1>15, <1>17, <2>1 DEF RowIsConstructed, StateIsSet
<1> QED BY <1>1, <1>5, <1>18

LEMMA TopOf ==
  ASSUME NEW N \in Nat, NEW d \in SUBSET (1..N), d # {}
  PROVE  Rows!Max(d) \in d /\ \A y \in d : y <= Rows!Max(d)
<1>1. Rows!Max(d) = Choice!Max(d)
  BY DEF Rows!Max, Choice!Max
<1> QED BY <1>1, LastOf

(* A fold over 1..N, the last first, is a function of its subsets.         *)
Iterated(N, base, step, g) == \A d \in SUBSET (1..N) :
  g[d] = IF d = {} THEN base ELSE step[<<Rows!Max(d), g[d \ {Rows!Max(d)}]>>]
LEMMA Iterates ==
  ASSUME NEW N \in Nat, NEW X, NEW base \in X, NEW step \in [(1..N) \X X -> X]
  PROVE  \E g \in [SUBSET (1..N) -> X] : Iterated(N, base, step, g)
<1> DEFINE Right(n, g) == \A d \in SUBSET (1..n) :
                            g[d] = IF d = {} THEN base ELSE step[<<Rows!Max(d), g[d \ {Rows!Max(d)}]>>]
           Has(n) == \E g \in [SUBSET (1..n) -> X] : Right(n, g)
           S == {n \in Nat : n <= N => Has(n)}
<1>1. Has(0)
  <2>1. SUBSET (1..0) = {{}}
    OBVIOUS
  <2> DEFINE g == [d \in SUBSET (1..0) |-> base]
  <2>2. g \in [SUBSET (1..0) -> X] /\ Right(0, g)
    BY <2>1
  <2> QED BY <2>2
<1>2. ASSUME NEW n \in Nat, n + 1 <= N, Has(n) PROVE Has(n + 1)
  <2>1. PICK g \in [SUBSET (1..n) -> X] : Right(n, g)
    BY <1>2
  <2>2. PICK m \in 1..N : m = n + 1
    BY <1>2
  <2>3. /\ \A d \in SUBSET (1..m) : d \ {m} \in SUBSET (1..n)
        /\ \A d \in SUBSET (1..m) : m \notin d => d \in SUBSET (1..n)
        /\ SUBSET (1..n) \subseteq SUBSET (1..m) /\ SUBSET (1..m) \subseteq SUBSET (1..N)
    BY <2>2
  <2> DEFINE G == [d \in SUBSET (1..m) |-> IF m \in d THEN step[<<m, g[d \ {m}]>>] ELSE g[d]]
  <2>4. ASSUME NEW d \in SUBSET (1..m) PROVE G[d] \in X
    <3>1. g[d \ {m}] \in X /\ (m \notin d => g[d] \in X)
      BY <2>3
    <3>2. step[<<m, g[d \ {m}]>>] \in X
      BY <3>1
    <3> QED BY <3>1, <3>2
  <2>5. G \in [SUBSET (1..m) -> X]
    BY <2>4
  <2>6. ASSUME NEW d \in SUBSET (1..n) PROVE G[d] = g[d]
    <3>1. m \notin d /\ d \in SUBSET (1..m)
      BY <2>2, <2>3
    <3> QED BY <3>1
  <2>7. ASSUME NEW d \in SUBSET (1..m)
        PROVE  G[d] = IF d = {} THEN base ELSE step[<<Rows!Max(d), G[d \ {Rows!Max(d)}]>>]
    <3>1. CASE m \in d
      <4>1. Rows!Max(d) \in d /\ m <= Rows!Max(d) /\ Rows!Max(d) \in 1..m
        BY <2>3, <3>1, TopOf
      <4>2. Rows!Max(d) = m
        BY <2>2, <4>1
      <4>3. d \ {m} \in SUBSET (1..n) /\ G[d \ {m}] = g[d \ {m}]
        BY <2>3, <2>6
      <4> QED BY <3>1, <4>2, <4>3
    <3>2. CASE m \notin d
      <4>1. d \in SUBSET (1..n) /\ d \ {Rows!Max(d)} \in SUBSET (1..n)
        BY <2>3, <3>2
      <4>2. G[d] = g[d] /\ G[d \ {Rows!Max(d)}] = g[d \ {Rows!Max(d)}]
        BY <2>6, <4>1
      <4> QED BY <2>1, <4>1, <4>2
    <3> QED BY <3>1, <3>2
  <2> HIDE DEF G
  <2>8. Right(m, G)
    BY <2>7
  <2> QED BY <2>2, <2>5, <2>8
<1> HIDE DEF Has
<1>3. N \in S
  <2>1. 0 \in S /\ \A n \in Nat : n \in S => n + 1 \in S
    BY <1>1, <1>2
  <2> HIDE DEF S
  <2> QED BY <2>1, NatSet
<1>4. Has(N)
  BY <1>3
<1> QED BY <1>4 DEF Has, Iterated

(* The table after the rows of some items were made; its steps.            *)
LEMMA UpdateKeeps ==
  ASSUME NEW t \in TableSet, NEW locked \in BOOLEAN
  PROVE  LET u == Rows!UpdateSelected(t, locked)
         IN  /\ u \in TableSet /\ u.items = t.items /\ u.rows = t.rows /\ u.gtk = t.gtk
             /\ locked => u.told = t.told
<1>1. PICK rows : rows = {n \in DOMAIN t.rows : t.rows[n] \in t.gtk}
  OBVIOUS
<1>2. PICK ch : ch = (t.chosen \ Held(t.items)) \cup {t.items[n] : n \in rows \cap DOMAIN t.items}
  OBVIOUS
<1>3. PICK b \in BOOLEAN : b = (t.told \/ ~locked)
  BY DEF TableSet
<1>4. PICK u : u = Rows!UpdateSelected(t, locked)
  OBVIOUS
<1>5. u = t \/ u = [t EXCEPT !.current = rows, !.chosen = ch, !.told = b]
  BY <1>1, <1>2, <1>3, <1>4 DEF Rows!UpdateSelected, Held
<1>6. rows \in SUBSET Nat /\ ch \in SUBSET Items
  <2>1. DOMAIN t.rows = 1..Len(t.rows) /\ \A n \in DOMAIN t.items : t.items[n] \in Items
    BY DEF TableSet
  <2> QED BY <1>1, <1>2, <2>1 DEF TableSet
<1>7. locked => b = t.told
  BY <1>3 DEF TableSet
<1> QED BY <1>4, <1>5, <1>6, <1>7 DEF TableSet

LEMMA StepsKeep ==
  ASSUME NEW t \in TableSet, NEW i \in Items
  PROVE  /\ Rows!SetState(t, i) \in TableSet
         /\ Rows!ConstructRow(t, i) \in TableSet
         /\ Rows!UnsetRow(t, i) \in TableSet
<1>1. ASSUME NEW u \in TableSet PROVE Rows!SetState(u, i) \in TableSet
  <2>1. PICK v : v = IF i \in u.chosen THEN Rows!SelectRow(u, i) ELSE [u EXCEPT !.gtk = @ \ {i}]
    OBVIOUS
  <2>2. v \in TableSet
    BY <2>1 DEF TableSet, Rows!SelectRow
  <2>3. Rows!SetState(u, i) = Rows!UpdateSelected(v, TRUE)
    BY <2>1 DEF Rows!SetState
  <2>4. Rows!UpdateSelected(v, TRUE) \in TableSet
    BY <2>2, UpdateKeeps
  <2> QED BY <2>3, <2>4
<1>2. [t EXCEPT !.rows = Append(@, i)] \in TableSet /\ [t EXCEPT !.chosen = @ \ {i}] \in TableSet
  <2>1. t.rows \in Seq(Items)
    BY DEF TableSet
  <2>2. PICK rows : rows = Append(t.rows, i)
    OBVIOUS
  <2>3. rows \in Seq(Items)
    BY <2>1, <2>2
  <2>4. [t EXCEPT !.rows = rows] \in TableSet
    BY <2>3 DEF TableSet
  <2>5. [t EXCEPT !.chosen = @ \ {i}] \in TableSet
    BY DEF TableSet
  <2> QED BY <2>2, <2>4, <2>5
<1> QED BY <1>1, <1>2 DEF Rows!ConstructRow, Rows!UnsetRow

(* remove() of an item, from its list or its row from the control.         *)
LEMMA FirstRemoved ==
  ASSUME NEW s \in Seq(Items), Distinct(s), NEW i
  PROVE  /\ Rows!RemoveFirst(s, i) \in Seq(Items) /\ Distinct(Rows!RemoveFirst(s, i))
         /\ Held(Rows!RemoveFirst(s, i)) = Held(s) \ {i}
         /\ \A n \in 1..Len(s) : s[n] = i =>
              /\ Len(Rows!RemoveFirst(s, i)) = Len(s) - 1
              /\ \A k \in 1..(Len(s) - 1) : Rows!RemoveFirst(s, i)[k] = IF k < n THEN s[k] ELSE s[k + 1]
<1>1. PICK u : u = Rows!RemoveFirst(s, i)
  OBVIOUS
<1>2. Len(s) \in Nat /\ DOMAIN s = 1..Len(s)
  OBVIOUS
<1>3. CASE ~\E n \in 1..Len(s) : s[n] = i
  <2>1. u = s
    BY <1>1, <1>3 DEF Rows!RemoveFirst
  <2>2. i \notin Held(s)
    BY <1>2, <1>3 DEF Held, Rows!Range
  <2> QED BY <1>1, <1>3, <2>1, <2>2
<1>4. ASSUME NEW n \in 1..Len(s), s[n] = i
      PROVE  /\ u \in Seq(Items) /\ Distinct(u) /\ Held(u) = Held(s) \ {i}
             /\ Len(u) = Len(s) - 1
             /\ \A k \in 1..(Len(s) - 1) : u[k] = IF k < n THEN s[k] ELSE s[k + 1]
  <2> DEFINE I == {m \in 1..Len(s) : s[m] = i}
  <2>1. I = {n} /\ n \in Nat
    BY <1>2, <1>4 DEF Distinct
  <2>2. Rows!Min({n}) = n
    BY <2>1 DEF Rows!Min
  <2>3. Rows!SelectInSeq(s, LAMBDA v : v = i) = IF I # {} THEN Rows!Min(I) ELSE 0
    BY DEF Rows!SelectInSeq
  <2>4. Rows!SelectInSeq(s, LAMBDA v : v = i) = n
    BY <2>1, <2>2, <2>3
  <2>5. u = Rows!RemoveAt(s, n)
    BY <1>1, <1>4, <2>4 DEF Rows!RemoveFirst
  <2>6. u = Choice!RemoveAt(s, n)
    BY <2>5 DEF Rows!RemoveAt, Choice!RemoveAt
  <2>7. /\ u \in Seq(Items) /\ Distinct(u) /\ Len(u) = Len(s) - 1
        /\ \A k \in 1..Len(u) : u[k] = IF k < n THEN s[k] ELSE s[k + 1]
        /\ Choice!ToSet(u) = Choice!ToSet(s) \ {s[n]}
    BY <2>6, Removed
  <2>8. Held(u) = Choice!ToSet(u) /\ Held(s) = Choice!ToSet(s)
    BY DEF Held, Rows!Range, Choice!ToSet
  <2> QED BY <1>4, <2>7, <2>8
<1> QED BY <1>1, <1>3, <1>4

Tidy == {t \in TableSet : Distinct(t.rows)}

LEMMA RowDestructed ==
  ASSUME NEW t \in Tidy, NEW i \in Items
  PROVE  LET u == Rows!DestructRow(t, i)
         IN  /\ u \in Tidy /\ Held(u.rows) = Held(t.rows) \ {i} /\ u.gtk = t.gtk \ {i}
             /\ u.items = t.items /\ u.told = t.told
<1>1. PICK rows : rows = Rows!RemoveFirst(t.rows, i)
  OBVIOUS
<1>2. PICK v : v = [t EXCEPT !.rows = rows, !.gtk = @ \ {i}]
  OBVIOUS
<1>3. PICK u : u = Rows!UpdateSelected(v, TRUE)
  OBVIOUS
<1>4. t \in TableSet /\ t.rows \in Seq(Items) /\ Distinct(t.rows)
  BY DEF Tidy, TableSet
<1>5. rows \in Seq(Items) /\ Distinct(rows) /\ Held(rows) = Held(t.rows) \ {i}
  BY <1>1, <1>4, FirstRemoved
<1>6. /\ v \in TableSet /\ v.rows = rows /\ v.gtk = t.gtk \ {i} /\ v.items = t.items
      /\ v.told = t.told
  BY <1>2, <1>4, <1>5 DEF TableSet
<1>7. u \in TableSet /\ u.rows = v.rows /\ u.gtk = v.gtk /\ u.items = v.items /\ u.told = v.told
  BY <1>3, <1>6, UpdateKeeps
<1>8. u = Rows!DestructRow(t, i)
  BY <1>1, <1>2, <1>3 DEF Rows!DestructRow
<1> QED BY <1>5, <1>6, <1>7, <1>8 DEF Tidy

(* What a fold over a sequence goes through.                               *)
LEMMA ConstructFold ==
  ASSUME NEW t \in TableSet, NEW s \in Seq(Items)
  PROVE  \E F : /\ F[0] = t
                /\ \A k \in 1..Len(s) : F[k] = Rows!ConstructRow(F[k - 1], s[k])
                /\ Rows!FoldLeft(Rows!ConstructRow, t, s) = F[Len(s)]
<1>1. PICK N \in Nat : N = Len(s) /\ DOMAIN s = 1..N
  OBVIOUS
<1> DEFINE step == [p \in (1..N) \X TableSet |-> Rows!ConstructRow(p[2], s[p[1]])]
           Next1(d, iter) == IF d = {} THEN t
                             ELSE Rows!ConstructRow(iter[d \ {Rows!Max(d)}], s[Rows!Max(d)])
           Right(iter) == iter = [d \in SUBSET (1..N) |-> Next1(d, iter)]
<1>2. step \in [(1..N) \X TableSet -> TableSet]
  <2>1. ASSUME NEW p \in (1..N) \X TableSet PROVE step[p] \in TableSet
    <3>1. p[2] \in TableSet /\ s[p[1]] \in Items
      BY <1>1
    <3> QED BY <3>1, StepsKeep
  <2> QED BY <2>1
<1>3. PICK g \in [SUBSET (1..N) -> TableSet] : Iterated(N, t, step, g)
  <2> HIDE DEF step
  <2> QED BY <1>2, Iterates
<1>4. ASSUME NEW d \in SUBSET (1..N) PROVE g[d] = Next1(d, g)
  <2>1. CASE d = {}
    BY <1>3, <2>1 DEF Iterated
  <2>2. CASE d # {}
    <3>1. Rows!Max(d) \in 1..N /\ d \ {Rows!Max(d)} \in SUBSET (1..N)
      BY <2>2, TopOf
    <3>2. g[d] = step[<<Rows!Max(d), g[d \ {Rows!Max(d)}]>>] /\ g[d \ {Rows!Max(d)}] \in TableSet
      BY <1>3, <2>2, <3>1 DEF Iterated
    <3> QED BY <2>2, <3>1, <3>2
  <2> QED BY <2>1, <2>2
<1> HIDE DEF Next1
<1>5. Right(g)
  BY <1>4
<1> HIDE DEF Right
<1>6. PICK iter : iter = (CHOOSE it : Right(it)) /\ Right(iter)
  BY <1>5
<1>7. Rows!FoldLeft(Rows!ConstructRow, t, s) = iter[1..N]
  BY <1>1, <1>6 DEF Rows!FoldLeft, Rows!MapThenFoldSet, Right, Next1
<1>8. \A d \in SUBSET (1..N) : iter[d] = Next1(d, iter)
  BY <1>6 DEF Right
<1>9. iter[1..0] = t
  <2>1. 1..0 = {} /\ {} \in SUBSET (1..N)
    OBVIOUS
  <2> QED BY <1>8, <2>1 DEF Next1
<1>10. ASSUME NEW k \in 1..N PROVE iter[1..k] = Rows!ConstructRow(iter[1..(k - 1)], s[k])
  <2>1. 1..k \in SUBSET (1..N) /\ 1..k # {} /\ (1..k) \ {k} = 1..(k - 1)
    OBVIOUS
  <2>2. Rows!Max(1..k) \in 1..k /\ k <= Rows!Max(1..k)
    <3>1. k \in 1..k
      OBVIOUS
    <3> QED BY <2>1, <3>1, TopOf
  <2>3. Rows!Max(1..k) = k
    BY <2>2
  <2> QED BY <1>8, <2>1, <2>3 DEF Next1
<1> DEFINE G == [k \in 0..N |-> iter[1..k]]
<1>11. /\ G[0] = iter[1..0] /\ G[N] = iter[1..N]
       /\ \A k \in 1..N : G[k] = iter[1..k] /\ G[k - 1] = iter[1..(k - 1)]
  OBVIOUS
<1> HIDE DEF G
<1>12. G[0] = t /\ \A k \in 1..N : G[k] = Rows!ConstructRow(G[k - 1], s[k])
  BY <1>9, <1>10, <1>11
<1> QED BY <1>1, <1>7, <1>11, <1>12

LEMMA DestructFold ==
  ASSUME NEW t \in Tidy, NEW s \in Seq(Items)
  PROVE  \E F : /\ F[0] = t
                /\ \A k \in 1..Len(s) : F[k] = Rows!DestructRow(F[k - 1], s[k])
                /\ Rows!FoldLeft(Rows!DestructRow, t, s) = F[Len(s)]
<1>1. PICK N \in Nat : N = Len(s) /\ DOMAIN s = 1..N
  OBVIOUS
<1> DEFINE step == [p \in (1..N) \X Tidy |-> Rows!DestructRow(p[2], s[p[1]])]
           Next1(d, iter) == IF d = {} THEN t
                             ELSE Rows!DestructRow(iter[d \ {Rows!Max(d)}], s[Rows!Max(d)])
           Right(iter) == iter = [d \in SUBSET (1..N) |-> Next1(d, iter)]
<1>2. step \in [(1..N) \X Tidy -> Tidy]
  <2>1. ASSUME NEW p \in (1..N) \X Tidy PROVE step[p] \in Tidy
    <3>1. p[2] \in Tidy /\ s[p[1]] \in Items
      BY <1>1
    <3> QED BY <3>1, RowDestructed
  <2> QED BY <2>1
<1>3. PICK g \in [SUBSET (1..N) -> Tidy] : Iterated(N, t, step, g)
  <2> HIDE DEF step
  <2> QED BY <1>2, Iterates
<1>4. ASSUME NEW d \in SUBSET (1..N) PROVE g[d] = Next1(d, g)
  <2>1. CASE d = {}
    BY <1>3, <2>1 DEF Iterated
  <2>2. CASE d # {}
    <3>1. Rows!Max(d) \in 1..N /\ d \ {Rows!Max(d)} \in SUBSET (1..N)
      BY <2>2, TopOf
    <3>2. g[d] = step[<<Rows!Max(d), g[d \ {Rows!Max(d)}]>>] /\ g[d \ {Rows!Max(d)}] \in Tidy
      BY <1>3, <2>2, <3>1 DEF Iterated
    <3> QED BY <2>2, <3>1, <3>2
  <2> QED BY <2>1, <2>2
<1> HIDE DEF Next1
<1>5. Right(g)
  BY <1>4
<1> HIDE DEF Right
<1>6. PICK iter : iter = (CHOOSE it : Right(it)) /\ Right(iter)
  BY <1>5
<1>7. Rows!FoldLeft(Rows!DestructRow, t, s) = iter[1..N]
  BY <1>1, <1>6 DEF Rows!FoldLeft, Rows!MapThenFoldSet, Right, Next1
<1>8. \A d \in SUBSET (1..N) : iter[d] = Next1(d, iter)
  BY <1>6 DEF Right
<1>9. iter[1..0] = t
  <2>1. 1..0 = {} /\ {} \in SUBSET (1..N)
    OBVIOUS
  <2> QED BY <1>8, <2>1 DEF Next1
<1>10. ASSUME NEW k \in 1..N PROVE iter[1..k] = Rows!DestructRow(iter[1..(k - 1)], s[k])
  <2>1. 1..k \in SUBSET (1..N) /\ 1..k # {} /\ (1..k) \ {k} = 1..(k - 1)
    OBVIOUS
  <2>2. Rows!Max(1..k) \in 1..k /\ k <= Rows!Max(1..k)
    <3>1. k \in 1..k
      OBVIOUS
    <3> QED BY <2>1, <3>1, TopOf
  <2>3. Rows!Max(1..k) = k
    BY <2>2
  <2> QED BY <1>8, <2>1, <2>3 DEF Next1
<1> DEFINE G == [k \in 0..N |-> iter[1..k]]
<1>11. /\ G[0] = iter[1..0] /\ G[N] = iter[1..N]
       /\ \A k \in 1..N : G[k] = iter[1..k] /\ G[k - 1] = iter[1..(k - 1)]
  OBVIOUS
<1> HIDE DEF G
<1>12. G[0] = t /\ \A k \in 1..N : G[k] = Rows!DestructRow(G[k - 1], s[k])
  BY <1>9, <1>10, <1>11
<1> QED BY <1>1, <1>7, <1>11, <1>12

LEMMA UnsetFold ==
  ASSUME NEW t \in TableSet, NEW s \in Seq(Items)
  PROVE  \E F : /\ F[0] = t
                /\ \A k \in 1..Len(s) : F[k] = Rows!UnsetRow(F[k - 1], s[k])
                /\ Rows!FoldLeft(Rows!UnsetRow, t, s) = F[Len(s)]
<1>1. PICK N \in Nat : N = Len(s) /\ DOMAIN s = 1..N
  OBVIOUS
<1> DEFINE step == [p \in (1..N) \X TableSet |-> Rows!UnsetRow(p[2], s[p[1]])]
           Next1(d, iter) == IF d = {} THEN t
                             ELSE Rows!UnsetRow(iter[d \ {Rows!Max(d)}], s[Rows!Max(d)])
           Right(iter) == iter = [d \in SUBSET (1..N) |-> Next1(d, iter)]
<1>2. step \in [(1..N) \X TableSet -> TableSet]
  <2>1. ASSUME NEW p \in (1..N) \X TableSet PROVE step[p] \in TableSet
    <3>1. p[2] \in TableSet /\ s[p[1]] \in Items
      BY <1>1
    <3> QED BY <3>1, StepsKeep
  <2> QED BY <2>1
<1>3. PICK g \in [SUBSET (1..N) -> TableSet] : Iterated(N, t, step, g)
  <2> HIDE DEF step
  <2> QED BY <1>2, Iterates
<1>4. ASSUME NEW d \in SUBSET (1..N) PROVE g[d] = Next1(d, g)
  <2>1. CASE d = {}
    BY <1>3, <2>1 DEF Iterated
  <2>2. CASE d # {}
    <3>1. Rows!Max(d) \in 1..N /\ d \ {Rows!Max(d)} \in SUBSET (1..N)
      BY <2>2, TopOf
    <3>2. g[d] = step[<<Rows!Max(d), g[d \ {Rows!Max(d)}]>>] /\ g[d \ {Rows!Max(d)}] \in TableSet
      BY <1>3, <2>2, <3>1 DEF Iterated
    <3> QED BY <2>2, <3>1, <3>2
  <2> QED BY <2>1, <2>2
<1> HIDE DEF Next1
<1>5. Right(g)
  BY <1>4
<1> HIDE DEF Right
<1>6. PICK iter : iter = (CHOOSE it : Right(it)) /\ Right(iter)
  BY <1>5
<1>7. Rows!FoldLeft(Rows!UnsetRow, t, s) = iter[1..N]
  BY <1>1, <1>6 DEF Rows!FoldLeft, Rows!MapThenFoldSet, Right, Next1
<1>8. \A d \in SUBSET (1..N) : iter[d] = Next1(d, iter)
  BY <1>6 DEF Right
<1>9. iter[1..0] = t
  <2>1. 1..0 = {} /\ {} \in SUBSET (1..N)
    OBVIOUS
  <2> QED BY <1>8, <2>1 DEF Next1
<1>10. ASSUME NEW k \in 1..N PROVE iter[1..k] = Rows!UnsetRow(iter[1..(k - 1)], s[k])
  <2>1. 1..k \in SUBSET (1..N) /\ 1..k # {} /\ (1..k) \ {k} = 1..(k - 1)
    OBVIOUS
  <2>2. Rows!Max(1..k) \in 1..k /\ k <= Rows!Max(1..k)
    <3>1. k \in 1..k
      OBVIOUS
    <3> QED BY <2>1, <3>1, TopOf
  <2>3. Rows!Max(1..k) = k
    BY <2>2
  <2> QED BY <1>8, <2>1, <2>3 DEF Next1
<1> DEFINE G == [k \in 0..N |-> iter[1..k]]
<1>11. /\ G[0] = iter[1..0] /\ G[N] = iter[1..N]
       /\ \A k \in 1..N : G[k] = iter[1..k] /\ G[k - 1] = iter[1..(k - 1)]
  OBVIOUS
<1> HIDE DEF G
<1>12. G[0] = t /\ \A k \in 1..N : G[k] = Rows!UnsetRow(G[k - 1], s[k])
  BY <1>9, <1>10, <1>11
<1> QED BY <1>1, <1>7, <1>11, <1>12

-------------------------------------------------------------------------------
LEMMA AppendKeepsRows ==
  ASSUME RowsInv, NEW i \in Items, Rows!AppendRow(i)
  PROVE  RowsInv'
<1>1. PICK added : added = [Rows!Quiet EXCEPT !.items = Append(@, i)]
  OBVIOUS
<1>2. /\ i \notin Rows!Range(table.items) /\ ~band
      /\ table' = IF attached THEN Rows!ConstructRow(added, i) ELSE added
      /\ UNCHANGED <<attached, batchable, band>>
  BY <1>1 DEF Rows!AppendRow, Rows!Same
<1>3. table \in TableSet /\ table.items \in Seq(Items) /\ Distinct(table.items)
  BY DEF RowsInv, TableSet
<1>4. PICK its : its = Append(table.items, i)
  OBVIOUS
<1>5. /\ its \in Seq(Items) /\ Distinct(its)
      /\ Len(its) = Len(table.items) + 1 /\ its[Len(table.items) + 1] = i
      /\ \A n \in 1..Len(table.items) : its[n] = table.items[n]
  <2>1. i \notin Choice!ToSet(table.items)
    BY <1>2 DEF Rows!Range, Choice!ToSet
  <2> QED BY <1>3, <1>4, <2>1, Appended
<1>6. /\ added \in TableSet /\ added.items = its /\ added.rows = table.rows
      /\ added.gtk = table.gtk /\ added.chosen = table.chosen /\ added.current = table.current
  BY <1>1, <1>3, <1>4, <1>5, QuietIs DEF TableSet
<1>7. CASE ~attached
  BY <1>2, <1>5, <1>6, <1>7 DEF RowsInv
<1>8. CASE attached
  <2>1. Noted(table) /\ Filled(table) /\ Agrees(table) /\ table.rows = table.items
    BY <1>2, <1>8, NotedAgrees DEF RowsInv, Noted
  <2>2. Filled(added) /\ Agrees(added)
    BY <1>5, <1>6, <2>1, FilledIs DEF Filled, Agrees, At
  <2>3. PICK n \in 1..Len(its) : n = Len(table.rows) + 1
    BY <1>5, <2>1, FilledIs
  <2>4. RowIsConstructed(table', added, n)
    <3>1. n \in 1..Len(added.items) /\ n = Len(added.rows) + 1 /\ added.items[n] = i
      BY <1>5, <1>6, <2>1, <2>3
    <3>2. RowIsConstructed(Rows!ConstructRow(added, added.items[n]), added, n)
      BY <2>2, <3>1, RowConstructed
    <3> QED BY <1>2, <1>8, <3>1, <3>2
  <2>5. Filled(table') /\ Agrees(table') /\ Len(table'.rows) = Len(table'.items)
    BY <1>5, <1>6, <2>1, <2>3, <2>4 DEF RowIsConstructed
  <2>6. Noted(table') /\ table'.current = At(table')
    BY <2>5, AllAgree
  <2> QED BY <1>2, <1>8, <2>5, <2>6 DEF RowsInv, Filled
<1> QED BY <1>7, <1>8

(* A row goes, and the selected positions stay the same only if it was not *)
(* selected: else they would shift.                                        *)
LEMMA RemoveKeepsRows ==
  ASSUME RowsInv, NEW i \in Items, Rows!RemoveRow(i)
  PROVE  RowsInv'
<1>1. PICK left : left = [Rows!Quiet EXCEPT !.items = Rows!RemoveFirst(@, i)]
  OBVIOUS
<1>2. /\ i \in Rows!Range(table.items) /\ ~band
      /\ table' = IF attached THEN Rows!DestructRow(left, i) ELSE left
      /\ UNCHANGED <<attached, batchable, band>>
  BY <1>1 DEF Rows!RemoveRow, Rows!Same
<1>3. table \in TableSet /\ table.items \in Seq(Items) /\ Distinct(table.items)
  BY DEF RowsInv, TableSet
<1>4. PICK its : its = Rows!RemoveFirst(table.items, i)
  OBVIOUS
<1>5. PICK n \in 1..Len(table.items) : table.items[n] = i
  BY <1>2, <1>3 DEF Rows!Range
<1>6. /\ its \in Seq(Items) /\ Distinct(its) /\ Held(its) = Held(table.items) \ {i}
      /\ Len(its) = Len(table.items) - 1
      /\ \A k \in 1..Len(its) : its[k] = IF k < n THEN table.items[k] ELSE table.items[k + 1]
  <2>1. \A m \in 1..Len(table.items) : table.items[m] = i =>
          /\ Len(its) = Len(table.items) - 1
          /\ \A k \in 1..(Len(table.items) - 1) :
               its[k] = IF k < m THEN table.items[k] ELSE table.items[k + 1]
    BY <1>3, <1>4, FirstRemoved
  <2>2. its \in Seq(Items) /\ Distinct(its) /\ Held(its) = Held(table.items) \ {i}
    BY <1>3, <1>4, FirstRemoved
  <2>3. /\ Len(its) = Len(table.items) - 1
        /\ \A k \in 1..(Len(table.items) - 1) :
               its[k] = IF k < n THEN table.items[k] ELSE table.items[k + 1]
    BY <1>5, <2>1
  <2> QED BY <2>2, <2>3
<1>7. /\ left \in TableSet /\ left.items = its /\ left.rows = table.rows
      /\ left.gtk = table.gtk /\ left.chosen = table.chosen /\ left.current = table.current
  BY <1>1, <1>3, <1>4, <1>6, QuietIs DEF TableSet
<1>8. CASE ~attached
  BY <1>2, <1>6, <1>7, <1>8 DEF RowsInv
<1>9. CASE attached
  <2>1. Noted(table) /\ Filled(table) /\ Agrees(table) /\ table.rows = table.items
    BY <1>2, <1>9, NotedAgrees DEF RowsInv, Noted
  <2>2. PICK gtk : gtk = table.gtk \ {i}
    OBVIOUS
  <2>3. PICK v : v = [left EXCEPT !.rows = its, !.gtk = gtk]
    OBVIOUS
  <2>4. table' = Rows!UpdateSelected(v, TRUE)
    BY <1>2, <1>4, <1>7, <1>9, <2>1, <2>2, <2>3 DEF Rows!DestructRow
  <2>5. /\ v \in TableSet /\ v.items = its /\ v.rows = its /\ v.gtk = gtk
        /\ v.chosen = table.chosen /\ v.current = At(table)
    <3>1. gtk \in SUBSET Items
      BY <1>3, <2>2 DEF TableSet
    <3> QED BY <1>6, <1>7, <2>1, <2>3, <3>1 DEF TableSet, Agrees
  <2>6. Filled(v)
    BY <1>6, <2>1, <2>2, <2>5 DEF Filled
  <2>7. /\ Filled(table') /\ table'.items = its /\ table'.rows = its /\ table'.gtk = gtk
        /\ table'.current = At(v) /\ At(table') = At(v)
        /\ table'.chosen = IF At(v) = At(table) THEN table.chosen
                           ELSE (table.chosen \ Held(its)) \cup gtk
    <3>1. PICK locked \in BOOLEAN : locked = TRUE
      OBVIOUS
    <3>2. PICK u : u = Rows!UpdateSelected(v, locked)
      OBVIOUS
    <3>3. /\ Filled(u) /\ u.items = v.items /\ u.rows = v.rows /\ u.gtk = v.gtk
          /\ u.current = At(v) /\ At(u) = At(v)
          /\ u.told = (v.told \/ (~locked /\ At(v) # v.current))
          /\ u.chosen = IF At(v) = v.current THEN v.chosen
                        ELSE (v.chosen \ Held(v.items)) \cup v.gtk
      <4>1. IsUpdated(Rows!UpdateSelected(v, locked), v, locked)
        BY <2>6, Updated
      <4> QED BY <3>2, <4>1 DEF IsUpdated
    <3>4. u = table'
      BY <2>4, <3>1, <3>2
    <3> QED BY <2>5, <3>3, <3>4
  <2>8. ASSUME At(v) = At(table), i \in table.gtk PROVE FALSE
    <3> DEFINE S == {k \in Nat : n + k \in At(table)}
    <3>1. At(table) \subseteq 1..Len(table.items) /\ Len(table.items) \in Nat
      BY <2>1, FilledIs
    <3>2. n \in At(table) /\ n \in Nat
      BY <1>5, <2>1, <2>8, FilledIs DEF At
    <3>3. 0 \in S
      BY <3>2
    <3>4. ASSUME NEW k \in Nat, k \in S PROVE k + 1 \in S
      <4>1. n + k \in At(v)
        BY <2>8, <3>4
      <4>2. n + k \in 1..Len(its) /\ its[n + k] \in gtk
        BY <1>6, <2>5, <4>1 DEF At
      <4>3. table.items[(n + k) + 1] \in table.gtk /\ (n + k) + 1 \in 1..Len(table.items)
        BY <1>6, <2>2, <3>1, <3>2, <4>2
      <4>4. (n + k) + 1 \in At(table)
        BY <2>1, <4>3, FilledIs DEF At
      <4>5. (n + k) + 1 = n + (k + 1)
        BY <3>2
      <4> QED BY <4>4, <4>5
    <3> HIDE DEF S
    <3>5. Len(table.items) \in S
      BY <3>1, <3>3, <3>4, NatSet
    <3>6. n + Len(table.items) \in At(table)
      BY <3>5 DEF S
    <3> QED BY <3>1, <3>2, <3>6
  <2>9. table'.chosen \cap Held(its) = gtk
    <3>1. CASE At(v) = At(table)
      <4>1. gtk = table.gtk
        BY <2>2, <2>8, <3>1
      <4>2. table.chosen \cap Held(table.items) = table.gtk
        BY <2>1 DEF Agrees
      <4> QED BY <1>6, <2>2, <2>7, <3>1, <4>1, <4>2
    <3>2. CASE At(v) # At(table)
      <4>1. gtk \subseteq Held(its)
        BY <2>7 DEF Filled
      <4> QED BY <2>7, <3>2, <4>1
    <3> QED BY <3>1, <3>2
  <2>10. Agrees(table')
    BY <2>7, <2>9 DEF Agrees
  <2>11. Noted(table') /\ table'.current = At(table')
    BY <2>7, <2>10, AllAgree
  <2> QED BY <1>2, <1>9, <2>7, <2>11 DEF RowsInv, Filled
<1> QED BY <1>8, <1>9

LEMMA SetSelectedKeepsRows ==
  ASSUME RowsInv, NEW i \in Items, NEW on \in BOOLEAN, Rows!SetSelected(i, on)
  PROVE  RowsInv'
<1>1. PICK set : set = [Rows!Quiet EXCEPT !.chosen = IF on THEN @ \cup {i} ELSE @ \ {i}]
  OBVIOUS
<1>2. /\ (i \in table.chosen) # on /\ ~band
      /\ table' = IF attached /\ i \in Rows!Range(table.items) THEN Rows!SetState(set, i) ELSE set
      /\ UNCHANGED <<attached, batchable, band>>
  BY <1>1 DEF Rows!SetSelected, Rows!Same
<1>3. table \in TableSet
  BY DEF RowsInv
<1>4. /\ set \in TableSet /\ set.items = table.items /\ set.rows = table.rows
      /\ set.gtk = table.gtk /\ set.current = table.current
      /\ set.chosen = IF on THEN table.chosen \cup {i} ELSE table.chosen \ {i}
  BY <1>1, <1>3, QuietIs DEF TableSet
<1>5. CASE ~attached
  BY <1>2, <1>4, <1>5 DEF RowsInv
<1>6. CASE attached
  <2>1. Noted(table) /\ Filled(table) /\ Agrees(table) /\ table.rows = table.items
    BY <1>2, <1>6, NotedAgrees DEF RowsInv, Noted
  <2>2. Filled(set) /\ At(set) = At(table) /\ set.current = At(set)
    BY <1>4, <2>1 DEF Filled, At, Agrees
  <2>3. Filled(table') /\ Agrees(table') /\ table'.rows = table'.items
    <3>1. CASE i \in Held(table.items)
      <4>1. PICK n \in 1..Len(set.rows) : set.rows[n] = i
        BY <1>4, <2>1, <3>1, FilledIs DEF Held, Rows!Range
      <4>2. (set.chosen \cap Held(set.rows)) \ {set.rows[n]} = set.gtk \ {set.rows[n]}
        BY <1>4, <2>1, <4>1 DEF Agrees
      <4>3. StateIsSet(Rows!SetState(set, set.rows[n]), set, set.rows[n])
        BY <2>2, <4>1, <4>2, StateSet
      <4>4. StateIsSet(table', set, i)
        BY <1>2, <1>6, <3>1, <4>1, <4>3 DEF Held
      <4> QED BY <1>4, <2>1, <4>4 DEF StateIsSet
    <3>2. CASE i \notin Held(table.items)
      <4>1. table' = set
        BY <1>2, <3>2 DEF Held
      <4>2. set.chosen \cap Held(set.rows) = table.chosen \cap Held(table.rows)
        BY <1>4, <2>1, <3>2
      <4> QED BY <1>4, <2>1, <2>2, <4>1, <4>2 DEF Agrees
    <3> QED BY <3>1, <3>2
  <2>4. Noted(table') /\ table'.current = At(table')
    BY <2>3, AllAgree
  <2> QED BY <1>2, <1>6, <2>3, <2>4 DEF RowsInv, Filled
<1> QED BY <1>5, <1>6

(* Attach: each row is made of the next item.  What is flagged of those    *)
(* that have rows is selected; a later one stays flagged if it is the only *)
(* one of all.                                                             *)
LEMMA AttachKeepsRows ==
  ASSUME RowsInv, Rows!Attach
  PROVE  RowsInv' /\ Rows!Kept
<1> DEFINE N == Len(table.items)
           its == table.items
<1>1. PICK base : base = [Rows!Quiet EXCEPT !.current = {}]
  OBVIOUS
<1>2. /\ ~attached /\ attached' /\ UNCHANGED <<batchable, band>>
      /\ table' = Rows!FoldLeft(Rows!ConstructRow, base, table.items)
  BY <1>1 DEF Rows!Attach
<1>3. /\ table \in TableSet /\ its \in Seq(Items) /\ Distinct(its) /\ N \in Nat
      /\ DOMAIN its = 1..N
      /\ table.rows = <<>> /\ table.gtk = {} /\ ~band
  BY <1>2 DEF RowsInv, TableSet
<1>4. /\ base \in TableSet /\ base.items = its /\ base.rows = <<>> /\ base.gtk = {}
      /\ base.current = {} /\ base.chosen = table.chosen
  BY <1>1, <1>3, QuietIs DEF TableSet
<1>5. PICK F : /\ F[0] = base
               /\ \A k \in 1..Len(its) : F[k] = Rows!ConstructRow(F[k - 1], its[k])
               /\ Rows!FoldLeft(Rows!ConstructRow, base, its) = F[Len(its)]
  BY <1>3, <1>4, ConstructFold
<1> DEFINE Before == Rows!Selected(table)
           Good(k) == /\ Filled(F[k]) /\ Agrees(F[k]) /\ F[k].items = its /\ Len(F[k].rows) = k
                      /\ (\A i, j \in Before : i = j) => Rows!Selected(F[k]) = Before
<1>6. Good(0)
  <2>1. Len(base.rows) = 0 /\ Held(base.rows) = {} /\ At(base) = {}
    BY <1>4 DEF Held, Rows!Range, At
  <2>2. Filled(base) /\ Agrees(base)
    BY <1>3, <1>4, <2>1 DEF Filled, Agrees
  <2>3. Rows!Selected(base) = Before
    BY <1>4 DEF Rows!Selected
  <2> QED BY <1>4, <1>5, <2>1, <2>2, <2>3
<1>7. ASSUME NEW k \in Nat, k + 1 <= N, Good(k) PROVE Good(k + 1)
  <2>1. PICK n \in 1..N : n = k + 1
    BY <1>3, <1>7
  <2>2. PICK t : t = F[k]
    OBVIOUS
  <2>3. PICK u : u = F[n]
    OBVIOUS
  <2>4. u = Rows!ConstructRow(t, t.items[n]) /\ n \in 1..Len(t.items) /\ n = Len(t.rows) + 1
    <3>1. n - 1 = k /\ n \in 1..Len(its)
      BY <2>1
    <3>2. F[n] = Rows!ConstructRow(F[n - 1], its[n])
      BY <1>5, <3>1
    <3> QED BY <1>7, <2>1, <2>2, <2>3, <3>1, <3>2
  <2>5. Filled(t) /\ Agrees(t) /\ t.items = its /\ Len(t.rows) = k
    BY <1>7, <2>2
  <2>6. RowIsConstructed(u, t, n)
    BY <2>4, <2>5, RowConstructed
  <2>7. ASSUME \A i, j \in Before : i = j PROVE Rows!Selected(u) = Before
    <3>1. Rows!Selected(t) = Before /\ t.chosen \cap Held(its) = Before
      BY <1>7, <2>2, <2>5, <2>7 DEF Rows!Selected, Held
    <3>2. its[n] \in Held(its) /\ its[n] \notin Held(t.rows)
      <4>1. ASSUME NEW m \in 1..Len(t.rows), t.rows[m] = its[n] PROVE FALSE
        <5>1. m \in 1..N /\ its[m] = its[n] /\ m # n
          BY <1>3, <2>1, <2>5, <4>1 DEF Filled
        <5> QED BY <1>3, <5>1 DEF Distinct
      <4> QED BY <1>3, <2>5, <4>1, FilledIs DEF Held, Rows!Range
    <3>3. CASE its[n] \in t.chosen
      <4>1. Before = {its[n]}
        BY <2>7, <3>1, <3>2, <3>3
      <4>2. t.gtk = {}
        BY <2>5, <3>1, <3>2, <4>1, FilledIs DEF Agrees
      <4>3. Selects(t, n) = {its[n]}
        BY <2>5, <3>3, <4>2 DEF Selects
      <4>4. u.chosen = (t.chosen \ Held(its)) \cup {its[n]} /\ u.items = its
        BY <2>5, <2>6, <3>3, <4>3 DEF RowIsConstructed
      <4> QED BY <3>2, <4>1, <4>4 DEF Rows!Selected, Held
    <3>4. CASE its[n] \notin t.chosen
      BY <2>5, <2>6, <3>1, <3>4 DEF RowIsConstructed, Rows!Selected
    <3> QED BY <3>3, <3>4
  <2>8. Good(n)
    BY <2>3, <2>5, <2>6, <2>7 DEF RowIsConstructed
  <2> QED BY <2>1, <2>8
<1> HIDE DEF Good
<1>8. Good(N)
  <2> DEFINE S == {k \in Nat : k <= N => Good(k)}
  <2>1. 0 \in S /\ \A k \in Nat : k \in S => k + 1 \in S
    BY <1>3, <1>6, <1>7
  <2> HIDE DEF S
  <2>2. N \in S
    BY <1>3, <2>1, NatSet
  <2> QED BY <1>3, <2>2 DEF S
<1>9. /\ Filled(table') /\ Agrees(table') /\ Len(table'.rows) = Len(table'.items)
      /\ (\A i, j \in Before : i = j) => Rows!Selected(table') = Before
  BY <1>2, <1>5, <1>8 DEF Good
<1>10. Noted(table') /\ table'.current = At(table') /\ Rows!Selected(table') = table'.gtk
  BY <1>9, AllAgree
<1>11. RowsInv'
  BY <1>2, <1>3, <1>9, <1>10 DEF RowsInv, Filled
<1>12. Rows!Kept
  <2> SUFFICES ASSUME Rows!Cardinality(Before) <= 1 PROVE table'.gtk = Before
    BY DEF Rows!Kept
  <2>1. \A i, j \in Before : i = j
    <3>1. PICK s : s = Before
      OBVIOUS
    <3>2. IsFiniteSet(s)
      <4>1. its \in Seq(Held(its))
        BY <1>3 DEF Held, Rows!Range
      <4>2. \A x \in Held(its) : \E n \in 1..Len(its) : its[n] = x
        BY <1>3 DEF Held, Rows!Range
      <4>3. IsFiniteSet(Held(its))
        BY <4>1, <4>2 DEF IsFiniteSet
      <4>4. s \subseteq Held(its)
        BY <3>1 DEF Rows!Selected, Held
      <4> QED BY <4>3, <4>4, FS_Subset
    <3>3. Rows!Cardinality(s) = Cardinality(s)
      BY DEF Rows!Cardinality, Cardinality
    <3>4. Cardinality(s) = 0 \/ Cardinality(s) = 1
      BY <3>1, <3>2, <3>3, FS_CardinalityType
    <3>5. CASE Cardinality(s) = 0
      BY <3>1, <3>2, <3>5, FS_EmptySet
    <3>6. CASE Cardinality(s) = 1
      BY <3>1, <3>2, <3>6, FS_Singleton
    <3> QED BY <3>4, <3>5, <3>6
  <2> QED BY <1>9, <1>10, <2>1
<1> QED BY <1>11, <1>12

(* What a signal makes of a table whose selected rows are now these.       *)
IsNoted(u, rows) ==
  /\ Noted(u) /\ u \in TableSet /\ Distinct(u.items) /\ u.current = At(u)
  /\ u.gtk = rows /\ Rows!Selected(u) = rows
  /\ u.told <=> Rows!Selected(table) # rows
LEMMA TableSignalled ==
  ASSUME RowsInv, attached, NEW rows \in SUBSET Held(table.rows)
  PROVE  IsNoted(Rows!UpdateSelected([Rows!Quiet EXCEPT !.gtk = rows], FALSE), rows)
<1>1. PICK t : t = [Rows!Quiet EXCEPT !.gtk = rows]
  OBVIOUS
<1>2. PICK locked \in BOOLEAN : locked = FALSE
  OBVIOUS
<1>3. PICK u : u = Rows!UpdateSelected(t, locked)
  OBVIOUS
<1>4. table \in TableSet /\ Noted(table) /\ Filled(table)
  BY DEF RowsInv, Noted
<1>5. /\ t \in TableSet /\ t.items = table.items /\ t.rows = table.rows /\ t.told = FALSE
      /\ t.chosen = table.chosen /\ t.current = table.current /\ t.gtk = rows
  <2>1. rows \in SUBSET Items
    BY <1>4, FilledIs DEF Held, Rows!Range
  <2> QED BY <1>1, <1>4, <2>1, QuietIs DEF TableSet
<1>6. Noted(t)
  BY <1>4, <1>5, SameRows
<1>7. Rows!Selected(t) = Rows!Selected(table)
  BY <1>5 DEF Rows!Selected
<1>8. /\ Noted(u) /\ u.current = At(u) /\ u.items = t.items /\ u.rows = t.rows
      /\ u.gtk = t.gtk /\ Rows!Selected(u) = t.gtk
      /\ u.told = (t.told \/ (~locked /\ Rows!Selected(t) # t.gtk))
  BY <1>3, <1>6, Signalled
<1>9. u \in TableSet /\ Distinct(u.items)
  BY <1>8 DEF Noted, Filled
<1>10. IsNoted(u, rows)
  BY <1>2, <1>5, <1>7, <1>8, <1>9 DEF IsNoted
<1> QED BY <1>1, <1>2, <1>3, <1>10

LEMMA NotedKeepsRows ==
  ASSUME RowsInv, attached, attached' = attached, batchable' \in BOOLEAN, band' \in BOOLEAN,
         NEW rows, IsNoted(table', rows)
  PROVE  RowsInv' /\ (table'.told <=> Rows!Selected(table)' # Rows!Selected(table))
BY DEF RowsInv, IsNoted, Rows!Selected

LEMMA SetBatchableKeepsRows ==
  ASSUME RowsInv, Rows!SetBatchable
  PROVE  RowsInv'
<1>1. PICK kept \in SUBSET table.gtk :
        table' = IF attached THEN Rows!UpdateSelected([Rows!Quiet EXCEPT !.gtk = kept], FALSE)
                 ELSE Rows!Quiet
  BY DEF Rows!SetBatchable
<1>2. UNCHANGED <<attached, band>> /\ batchable' \in BOOLEAN /\ table \in TableSet
  BY DEF Rows!SetBatchable, RowsInv
<1>3. CASE attached
  <2>1. kept \in SUBSET Held(table.rows)
    BY <1>3 DEF RowsInv, Noted, Filled
  <2> QED BY <1>1, <1>2, <1>3, <2>1, TableSignalled, NotedKeepsRows DEF RowsInv
<1>4. CASE ~attached
  BY <1>1, <1>2, <1>4, QuietIs DEF RowsInv
<1> QED BY <1>3, <1>4

LEMMA PressKeepsRows ==
  ASSUME RowsInv, NEW rows \in SUBSET Rows!Range(table.rows), Rows!Press(rows)
  PROVE  RowsInv' /\ (table'.told <=> Rows!Selected(table)' # Rows!Selected(table))
<1>1. /\ attached /\ UNCHANGED <<attached, batchable, band>>
      /\ table' = Rows!UpdateSelected([Rows!Quiet EXCEPT !.gtk = rows], FALSE)
  BY DEF Rows!Press, Rows!Changed, Rows!Same
<1>2. IsNoted(table', rows)
  BY <1>1, TableSignalled DEF Held
<1>3. attached' = attached /\ batchable' \in BOOLEAN /\ band' \in BOOLEAN
  BY <1>1 DEF RowsInv
<1> QED BY <1>1, <1>2, <1>3, NotedKeepsRows

LEMMA QuietKeepsRows ==
  ASSUME RowsInv, table' = Rows!Quiet, attached' = attached, batchable' \in BOOLEAN,
         band' \in BOOLEAN, band' => attached, attached /\ ~band' => ~band
  PROVE  RowsInv' /\ (table'.told <=> Rows!Selected(table)' # Rows!Selected(table))
<1>1. /\ table' \in TableSet /\ table'.told = FALSE
      /\ table'.items = table.items /\ table'.rows = table.rows /\ table'.gtk = table.gtk
      /\ table'.chosen = table.chosen /\ table'.current = table.current /\ table \in TableSet
  BY QuietIs DEF RowsInv
<1>2. At(table') = At(table) /\ (Noted(table) => Noted(table'))
  BY <1>1, SameRows
<1>3. Rows!Selected(table)' = Rows!Selected(table)
  BY <1>1 DEF Rows!Selected
<1> QED BY <1>1, <1>2, <1>3 DEF RowsInv

LEMMA QuietGtk == table \in TableSet => [Rows!Quiet EXCEPT !.gtk = table.gtk] = Rows!Quiet
BY DEF Rows!Quiet, TableSet

LEMMA SetFocusedKeepsRows ==
  ASSUME RowsInv, ~Rows!Multiple, Rows!SetFocused
  PROVE  RowsInv'
<1>1. attached /\ ~band /\ UNCHANGED <<attached, batchable, band>> /\ table \in TableSet
  BY DEF Rows!SetFocused, Rows!Same, RowsInv
<1>2. table' = Rows!Quiet
  <2>1. CASE table.gtk # {}
    BY <2>1 DEF Rows!SetFocused
  <2>2. CASE table.gtk = {}
    BY <1>1, <2>2, QuietGtk DEF Rows!SetFocused
  <2> QED BY <2>1, <2>2
<1> QED BY <1>1, <1>2, QuietKeepsRows DEF RowsInv

LEMMA BandStartKeepsRows ==
  ASSUME RowsInv, Rows!BandStart
  PROVE  RowsInv' /\ (table'.told <=> Rows!Selected(table)' # Rows!Selected(table))
<1>1. /\ attached /\ ~band /\ band' = TRUE /\ UNCHANGED <<attached, batchable>>
      /\ table' = Rows!Quiet
  BY DEF Rows!BandStart
<1> QED BY <1>1, QuietKeepsRows DEF RowsInv

LEMMA BandEndKeepsRows ==
  ASSUME RowsInv, Rows!BandEnd
  PROVE  RowsInv' /\ (table'.told <=> Rows!Selected(table)' # Rows!Selected(table))
<1>1. /\ band /\ band' = FALSE /\ UNCHANGED <<attached, batchable>> /\ attached
      /\ table' = Rows!UpdateSelected(Rows!Quiet, FALSE)
      /\ table \in TableSet /\ table.gtk \in SUBSET Held(table.rows)
  BY DEF Rows!BandEnd, Rows!Changed, RowsInv, Noted, Filled
<1>2. table' = Rows!UpdateSelected([Rows!Quiet EXCEPT !.gtk = table.gtk], FALSE)
  BY <1>1, QuietGtk
<1>3. IsNoted(table', table.gtk)
  BY <1>1, <1>2, TableSignalled
<1>4. attached' = attached /\ batchable' \in BOOLEAN /\ band' \in BOOLEAN
  BY <1>1 DEF RowsInv
<1> QED BY <1>1, <1>3, <1>4, NotedKeepsRows

LEMMA BandMoveKeepsRows ==
  ASSUME RowsInv, NEW rows \in SUBSET Rows!Range(table.rows), Rows!BandMove(rows)
  PROVE  RowsInv' /\ (table'.told <=> Rows!Selected(table)' # Rows!Selected(table))
<1>1. /\ band /\ UNCHANGED <<attached, batchable, band>> /\ attached
      /\ table' = [Rows!UpdateSelected(Rows!Quiet, FALSE) EXCEPT !.gtk = rows]
      /\ table \in TableSet /\ table.gtk \in SUBSET Held(table.rows)
  BY DEF Rows!BandMove, Rows!Same, RowsInv, Noted, Filled
<1>2. PICK u : u = Rows!UpdateSelected(Rows!Quiet, FALSE)
  OBVIOUS
<1>3. IsNoted(u, table.gtk)
  BY <1>1, <1>2, QuietGtk, TableSignalled
<1>4. u \in TableSet /\ u.items = table.items /\ u.rows = table.rows
  BY <1>1, <1>2, QuietIs, UpdateKeeps
<1>5. /\ table' \in TableSet /\ table'.items = u.items /\ table'.rows = u.rows
      /\ table'.chosen = u.chosen /\ table'.current = u.current /\ table'.told = u.told
      /\ table'.gtk = rows
  <2>1. rows \in SUBSET Items
    BY <1>1 DEF TableSet, Rows!Range
  <2> QED BY <1>1, <1>2, <1>4, <2>1 DEF TableSet
<1>6. Noted(table')
  BY <1>3, <1>4, <1>5, SameRows DEF IsNoted, Held
<1>7. Rows!Selected(table)' = Rows!Selected(u)
  BY <1>5 DEF Rows!Selected
<1>8. RowsInv'
  BY <1>1, <1>3, <1>5, <1>6 DEF RowsInv, IsNoted
<1> QED BY <1>3, <1>5, <1>7, <1>8 DEF IsNoted

(* Detach: every row goes, in either order, and what was selected with it. *)
LEMMA AllGo ==
  ASSUME NEW t \in Tidy, NEW s \in Seq(Items), Held(t.rows) \subseteq Held(s),
         t.gtk \subseteq Held(t.rows)
  PROVE  LET u == Rows!FoldLeft(Rows!DestructRow, t, s)
         IN  u \in TableSet /\ u.items = t.items /\ u.rows = <<>> /\ u.gtk = {}
<1>1. PICK N \in Nat : N = Len(s) /\ DOMAIN s = 1..N
  OBVIOUS
<1>2. PICK F : /\ F[0] = t
               /\ \A k \in 1..Len(s) : F[k] = Rows!DestructRow(F[k - 1], s[k])
               /\ Rows!FoldLeft(Rows!DestructRow, t, s) = F[Len(s)]
  BY DestructFold
<1> DEFINE Good(k) == /\ F[k] \in Tidy /\ F[k].items = t.items
                      /\ F[k].gtk \subseteq Held(F[k].rows)
                      /\ Held(F[k].rows) \subseteq Held(s) \ {s[j] : j \in 1..k}
<1>3. Good(0)
  BY <1>2
<1>4. ASSUME NEW k \in Nat, k + 1 <= N, Good(k) PROVE Good(k + 1)
  <2>1. PICK n \in 1..N : n = k + 1
    BY <1>1, <1>4
  <2>2. PICK v : v = F[k]
    OBVIOUS
  <2>3. PICK u : u = F[n]
    OBVIOUS
  <2>4. u = Rows!DestructRow(v, s[n])
    <3>1. n - 1 = k /\ n \in 1..Len(s)
      BY <1>1, <2>1
    <3> QED BY <1>2, <2>2, <2>3, <3>1
  <2>5. s[n] \in Items /\ v \in Tidy
    BY <1>1, <1>4, <2>2
  <2>6. u \in Tidy /\ Held(u.rows) = Held(v.rows) \ {s[n]} /\ u.gtk = v.gtk \ {s[n]} /\ u.items = v.items
    BY <2>4, <2>5, RowDestructed
  <2>7. {s[j] : j \in 1..n} \subseteq {s[j] : j \in 1..k} \cup {s[n]}
    BY <2>1
  <2>8. Good(n)
    BY <1>4, <2>2, <2>3, <2>6, <2>7
  <2> QED BY <2>1, <2>8
<1> HIDE DEF Good
<1>5. Good(N)
  <2> DEFINE S == {k \in Nat : k <= N => Good(k)}
  <2>1. 0 \in S /\ \A k \in Nat : k \in S => k + 1 \in S
    BY <1>1, <1>3, <1>4
  <2> HIDE DEF S
  <2>2. N \in S
    BY <1>1, <2>1, NatSet
  <2> QED BY <1>1, <2>2 DEF S
<1>6. PICK u : u = F[N]
  OBVIOUS
<1>7. Held(s) \subseteq {s[j] : j \in 1..N}
  BY <1>1 DEF Held, Rows!Range
<1>8. u \in TableSet /\ u.rows \in Seq(Items) /\ u.items = t.items /\ Held(u.rows) = {} /\ u.gtk = {}
  BY <1>5, <1>6, <1>7 DEF Good, Tidy, TableSet
<1>9. u.rows = <<>>
  <2>1. ASSUME Len(u.rows) # 0 PROVE FALSE
    <3>1. Len(u.rows) \in Nat /\ DOMAIN u.rows = 1..Len(u.rows) /\ 1 \in 1..Len(u.rows)
      BY <1>8, <2>1
    <3>2. u.rows[1] \in Held(u.rows)
      BY <3>1 DEF Held, Rows!Range
    <3> QED BY <1>8, <3>2
  <2> QED BY <1>8, <2>1
<1> QED BY <1>1, <1>2, <1>6, <1>8, <1>9

LEMMA DetachKeepsRows ==
  ASSUME RowsInv, Rows!Detach
  PROVE  RowsInv'
<1>1. /\ attached /\ ~band /\ attached' = FALSE /\ UNCHANGED <<batchable, band>>
      /\ \E order \in {table.items, Rows!Reverse(table.items)} :
           table' = Rows!FoldLeft(Rows!DestructRow, Rows!Quiet, order)
  BY DEF Rows!Detach
<1>2. PICK order \in {table.items, Rows!Reverse(table.items)} :
        table' = Rows!FoldLeft(Rows!DestructRow, Rows!Quiet, order)
  BY <1>1
<1>3. /\ table \in TableSet /\ table.items \in Seq(Items) /\ Distinct(table.items)
      /\ Filled(table) /\ table.rows = table.items
  BY <1>1 DEF RowsInv, TableSet, Noted
<1>4. order \in Seq(Items) /\ Held(table.items) \subseteq Held(order)
  <2>1. CASE order = table.items
    BY <1>3, <2>1
  <2>2. CASE order = Rows!Reverse(table.items)
    <3>1. PICK N \in Nat : N = Len(table.items) /\ DOMAIN table.items = 1..N
      BY <1>3
    <3>2. order = [i \in 1..N |-> table.items[(N - i) + 1]]
      BY <2>2, <3>1 DEF Rows!Reverse
    <3>3. \A i \in 1..N : (N - i) + 1 \in 1..N /\ (N - ((N - i) + 1)) + 1 = i
      BY <3>1
    <3>4. order \in Seq(Items)
      BY <1>3, <3>1, <3>2, <3>3
    <3>5. ASSUME NEW i \in 1..N PROVE table.items[i] \in Held(order)
      <4>1. PICK j \in 1..N : j = (N - i) + 1
        BY <3>3
      <4>2. order[j] = table.items[i] /\ DOMAIN order = 1..N
        BY <3>2, <3>3, <4>1
      <4> QED BY <4>1, <4>2 DEF Held, Rows!Range
    <3> QED BY <3>1, <3>4, <3>5 DEF Held, Rows!Range
  <2> QED BY <2>1, <2>2
<1>5. PICK q \in TableSet : /\ q = Rows!Quiet /\ q.items = table.items
                            /\ q.rows = table.rows /\ q.gtk = table.gtk
  BY <1>3, QuietIs
<1>6. q \in Tidy /\ Held(q.rows) \subseteq Held(order) /\ q.gtk \subseteq Held(q.rows)
  BY <1>3, <1>4, <1>5 DEF Tidy, Filled
<1>7. PICK u : u = Rows!FoldLeft(Rows!DestructRow, q, order)
  OBVIOUS
<1>8. u \in TableSet /\ u.items = q.items /\ u.rows = <<>> /\ u.gtk = {}
  BY <1>4, <1>6, <1>7, AllGo
<1>9. table' = u
  BY <1>2, <1>5, <1>7
<1> QED BY <1>1, <1>3, <1>5, <1>8, <1>9 DEF RowsInv

(* A press below the rows: one after the other is unset.                   *)
LEMMA RowUnset ==
  ASSUME NEW t, Filled(t), Agrees(t), t.rows = t.items, NEW n \in 1..Len(t.items)
  PROVE  LET u == Rows!UnsetRow(t, t.items[n])
         IN  /\ Filled(u) /\ Agrees(u) /\ u.items = t.items /\ u.rows = t.items
             /\ u.gtk = t.gtk \ {t.items[n]}
<1>1. PICK i : i = t.items[n]
  OBVIOUS
<1>2. PICK v : v = [t EXCEPT !.chosen = @ \ {i}]
  OBVIOUS
<1>3. PICK u : u = Rows!SetState(v, i)
  OBVIOUS
<1>4. /\ v \in TableSet /\ v.items = t.items /\ v.rows = t.rows /\ v.gtk = t.gtk
      /\ v.chosen = t.chosen \ {i} /\ v.current = t.current
  BY <1>2 DEF Filled, TableSet
<1>5. Filled(v) /\ At(v) = At(t)
  BY <1>4 DEF Filled, At
<1>6. /\ v.rows[n] = i /\ n \in 1..Len(v.rows) /\ v.current = At(v)
      /\ (v.chosen \cap Held(v.rows)) \ {v.rows[n]} = v.gtk \ {v.rows[n]}
  BY <1>1, <1>4, <1>5 DEF Agrees
<1>7. StateIsSet(Rows!SetState(v, v.rows[n]), v, v.rows[n])
  BY <1>5, <1>6, StateSet
<1>8. StateIsSet(u, v, i)
  BY <1>3, <1>6, <1>7
<1>9. u = Rows!UnsetRow(t, t.items[n])
  BY <1>1, <1>2, <1>3 DEF Rows!UnsetRow
<1> QED BY <1>1, <1>4, <1>8, <1>9 DEF StateIsSet, Selecting

LEMMA PressBelowKeepsRows ==
  ASSUME RowsInv, Rows!PressBelow
  PROVE  RowsInv' /\ (table'.told <=> Rows!Selected(table)' # Rows!Selected(table))
<1>1. PICK t : t = Rows!FoldLeft(Rows!UnsetRow, Rows!Quiet, table.items)
  OBVIOUS
<1>2. /\ attached /\ ~band /\ table.gtk # {} /\ UNCHANGED <<attached, batchable, band>>
      /\ table' = [t EXCEPT !.told = TRUE]
  BY <1>1 DEF Rows!PressBelow, Rows!Same
<1>3. /\ table \in TableSet /\ Noted(table) /\ table.current = At(table)
      /\ table.items \in Seq(Items) /\ Filled(table) /\ table.rows = table.items
  BY <1>2 DEF RowsInv, TableSet, Noted
<1>4. Agrees(table) /\ Rows!Selected(table) = table.gtk
  BY <1>3, NotedAgrees
<1>5. PICK q \in TableSet : q = Rows!Quiet
  BY <1>3, QuietIs
<1>6. /\ q.items = table.items /\ q.rows = table.rows /\ q.gtk = table.gtk
      /\ q.chosen = table.chosen /\ q.current = table.current
  BY <1>3, <1>5, QuietIs
<1>7. Filled(q) /\ Agrees(q)
  <2>1. Filled(q)
    BY <1>3, <1>6 DEF Filled
  <2>2. At(q) = At(table)
    BY <1>6 DEF At
  <2> QED BY <1>4, <1>6, <2>1, <2>2 DEF Agrees
<1>8. PICK s \in Seq(Items) : s = table.items
  BY <1>3
<1>9. PICK N \in Nat : N = Len(s) /\ DOMAIN s = 1..N
  OBVIOUS
<1>10. PICK F : /\ F[0] = q
                /\ \A k \in 1..Len(s) : F[k] = Rows!UnsetRow(F[k - 1], s[k])
                /\ Rows!FoldLeft(Rows!UnsetRow, q, s) = F[Len(s)]
  BY UnsetFold
<1> DEFINE Good(k) == /\ Filled(F[k]) /\ Agrees(F[k]) /\ F[k].items = s /\ F[k].rows = s
                      /\ F[k].gtk \cap {s[j] : j \in 1..k} = {}
<1>11. Good(0)
  BY <1>3, <1>6, <1>7, <1>8, <1>10
<1>12. ASSUME NEW k \in Nat, k + 1 <= N, Good(k) PROVE Good(k + 1)
  <2>1. PICK n \in 1..N : n = k + 1
    BY <1>9, <1>12
  <2>2. PICK v : v = F[k]
    OBVIOUS
  <2>3. PICK u : u = F[n]
    OBVIOUS
  <2>4. u = Rows!UnsetRow(v, s[n])
    <3>1. n - 1 = k /\ n \in 1..Len(s)
      BY <1>9, <2>1
    <3> QED BY <1>10, <2>2, <2>3, <3>1
  <2>5. Filled(v) /\ Agrees(v) /\ v.rows = v.items /\ n \in 1..Len(v.items) /\ v.items = s
    BY <1>9, <1>12, <2>2
  <2>6. /\ Filled(u) /\ Agrees(u) /\ u.items = v.items /\ u.rows = v.items
        /\ u.gtk = v.gtk \ {v.items[n]}
    BY <2>4, <2>5, RowUnset
  <2>7. {s[j] : j \in 1..n} \subseteq {s[j] : j \in 1..k} \cup {s[n]}
    BY <2>1
  <2>8. Good(n)
    BY <1>12, <2>2, <2>3, <2>5, <2>6, <2>7
  <2> QED BY <2>1, <2>8
<1> HIDE DEF Good
<1>13. Good(N)
  <2> DEFINE S == {k \in Nat : k <= N => Good(k)}
  <2>1. 0 \in S /\ \A k \in Nat : k \in S => k + 1 \in S
    BY <1>9, <1>11, <1>12
  <2> HIDE DEF S
  <2>2. N \in S
    BY <1>9, <2>1, NatSet
  <2> QED BY <1>9, <2>2 DEF S
<1>14. Filled(t) /\ Agrees(t) /\ t.items = s /\ t.rows = s /\ t.gtk \cap {s[j] : j \in 1..N} = {}
  BY <1>1, <1>5, <1>8, <1>9, <1>10, <1>13 DEF Good
<1>15. t.gtk = {}
  BY <1>9, <1>14 DEF Filled, Held, Rows!Range
<1>16. Noted(t) /\ t.current = At(t) /\ Rows!Selected(t) = {} /\ t \in TableSet
  BY <1>14, <1>15, AllAgree DEF Filled
<1>17. /\ table' \in TableSet /\ table'.told = TRUE /\ table'.items = t.items /\ table'.rows = t.rows
       /\ table'.gtk = t.gtk /\ table'.chosen = t.chosen /\ table'.current = t.current
  BY <1>2, <1>16 DEF TableSet
<1>18. Noted(table') /\ At(table') = At(t) /\ Rows!Selected(table)' = Rows!Selected(t)
  BY <1>16, <1>17, SameRows
<1>19. RowsInv'
  BY <1>2, <1>8, <1>14, <1>16, <1>17, <1>18 DEF RowsInv, Filled
<1> QED BY <1>2, <1>4, <1>16, <1>17, <1>18, <1>19

LEMMA RowsStep ==
  ASSUME RowsInv, Rows!Next
  PROVE  RowsInv' /\ Rows!Told /\ Rows!Kept
<1>1. CASE Rows!User
  <2>1. ASSUME NEW rows \in SUBSET Rows!Range(table.rows), Rows!Press(rows) \/ Rows!BandMove(rows)
        PROVE  RowsInv' /\ (table'.told <=> Rows!Selected(table)' # Rows!Selected(table))
    BY <2>1, PressKeepsRows, BandMoveKeepsRows
  <2>2. RowsInv' /\ (table'.told <=> Rows!Selected(table)' # Rows!Selected(table))
    BY <1>1, <2>1, PressBelowKeepsRows, BandStartKeepsRows, BandEndKeepsRows DEF Rows!User
  <2>3. Rows!Selected(table)' = Rows!Selected(table')
    BY DEF Rows!Selected
  <2>4. Rows!Kept
    <3>1. CASE Rows!Attach
      BY <3>1, AttachKeepsRows
    <3>2. CASE ~Rows!Attach
      BY <3>2 DEF Rows!Kept
    <3> QED BY <3>1, <3>2
  <2> QED BY <2>2, <2>3, <2>4 DEF Rows!Told
<1>2. ASSUME ~Rows!User PROVE RowsInv' /\ Rows!Kept
  <2>1. CASE Rows!Attach
    BY <2>1, AttachKeepsRows
  <2>2. ASSUME ~Rows!Attach PROVE RowsInv'
    <3>1. ASSUME NEW i \in Items, Rows!AppendRow(i) \/ Rows!RemoveRow(i) PROVE RowsInv'
      BY <3>1, AppendKeepsRows, RemoveKeepsRows
    <3>2. ASSUME NEW i \in Items, NEW on \in BOOLEAN, Rows!SetSelected(i, on) PROVE RowsInv'
      BY <3>2, SetSelectedKeepsRows
    <3>3. CASE Rows!Detach \/ Rows!SetBatchable
      BY <3>3, DetachKeepsRows, SetBatchableKeepsRows
    <3>4. CASE ~Rows!Multiple /\ Rows!SetFocused
      BY <3>4, SetFocusedKeepsRows
    <3> QED BY <1>2, <2>2, <3>1, <3>2, <3>3, <3>4 DEF Rows!Next, Rows!Program
  <2> QED BY <2>1, <2>2 DEF Rows!Kept
<1> QED BY <1>1, <1>2 DEF Rows!Told

LEMMA RowsStartRight == Rows!Init => RowsInv
<1> SUFFICES ASSUME Rows!Init PROVE RowsInv
  OBVIOUS
<1>1. /\ table.items = <<>> /\ table.rows = <<>> /\ table.gtk = {} /\ attached = FALSE
      /\ band = FALSE /\ batchable \in BOOLEAN
  BY DEF Rows!Init
<1>2. table \in TableSet
  <2>1. <<>> \in Seq(Items)
    OBVIOUS
  <2> QED BY <2>1 DEF Rows!Init, TableSet
<1>3. Distinct(table.items)
  <2>1. \A n \in 1..Len(<<>>) : FALSE
    OBVIOUS
  <2> QED BY <1>1, <2>1 DEF Distinct
<1> QED BY <1>1, <1>2, <1>3 DEF RowsInv

LEMMA SelectedRowsAgree == RowsInv => Rows!SelectionAgrees
<1> SUFFICES ASSUME RowsInv, attached, ~band
             PROVE  Rows!Selected(table) = table.gtk /\ table.rows = table.items
  BY DEF Rows!SelectionAgrees
<1>1. Noted(table) /\ table.current = At(table)
  BY DEF RowsInv
<1> QED BY <1>1, NotedAgrees DEF Noted

LEMMA RowsInvariant == Spec => []RowsInv
<1>1. Init => RowsInv
  BY RowsStartRight DEF Init
<1>2. RowsInv /\ UNCHANGED rowVars => RowsInv'
  BY DEF rowVars, RowsInv, Noted, Filled, At, Of, Rows!Selected
<1>3. RowsInv /\ [Next]_vars => RowsInv'
  <2>1. [Next]_vars => Rows!Next \/ UNCHANGED rowVars
    BY DEF Next, vars, RowsNext, TreeNext, WidgetNext, SliderNext, ChoiceNext, DialogStep
  <2> QED BY <1>2, <2>1, RowsStep
<1> QED BY <1>1, <1>3, PTL DEF Spec

(* SelectionAgrees: as soon as no rubber band is drawn, the items of a     *)
(* table view that say they are selected are the ones GTK+ shows selected, *)
(* in the rows of their items, for any number of items, flags set before   *)
(* the table came to its window, rows removed above the selected ones and  *)
(* changes of batchable() (gtk/widget/table-view.cpp).                     *)
THEOREM SelectedRowsAreShown == Spec => []SelectionAgrees
<1>1. RowsInv => SelectionAgrees
  BY SelectedRowsAgree DEF SelectionAgrees
<1> QED BY <1>1, RowsInvariant, PTL

-------------------------------------------------------------------------------
(* The three together: each rests while the others do something.           *)
ControlsInv == WidgetInv /\ RangeInv /\ ChoiceInv

LEMMA ControlsRest ==
  /\ WidgetInv /\ UNCHANGED widgetVars => WidgetInv'
  /\ RangeInv /\ UNCHANGED rangeVars => RangeInv'
  /\ ChoiceInv /\ UNCHANGED choiceVars => ChoiceInv'
<1>1. WidgetInv /\ UNCHANGED widgetVars => WidgetInv'
  BY DEF widgetVars, WidgetInv, WidgetType, Misfit, Widget!c
<1>2. RangeInv /\ UNCHANGED rangeVars => RangeInv'
  BY DEF rangeVars, RangeInv, Slider!Last
<1>3. ChoiceInv /\ UNCHANGED choiceVars => ChoiceInv'
  <2> SUFFICES ASSUME ChoiceInv, UNCHANGED choiceVars PROVE ChoiceInv'
    OBVIOUS
  <2>1. Survived' = Survived /\ CanBeFilled' = CanBeFilled
    BY DEF choiceVars, Survived, CanBeFilled
  <2>2. InSync' = InSync /\ OneFlagged' = OneFlagged
    BY DEF choiceVars, InSync, OneFlagged, Choice!Members
  <2> QED BY <2>1, <2>2 DEF choiceVars, ChoiceInv, ChoiceType
<1> QED BY <1>1, <1>2, <1>3

LEMMA ControlsKeepInv ==
  ASSUME ControlsInv, [Next]_vars
  PROVE  ControlsInv'
<1>1. CASE WidgetNext
  BY <1>1, HiroAssumption, WidgetStepKeepsInv, ControlsRest DEF WidgetNext, ControlsInv
<1>2. CASE SliderNext
  BY <1>2, HiroAssumption, RangeStep, ControlsRest DEF SliderNext, ControlsInv
<1>3. CASE ChoiceNext
  BY <1>3, ChoiceStepKeepsSync, ControlsRest DEF ChoiceNext, ControlsInv
<1>4. CASE UNCHANGED <<widgetVars, rangeVars, choiceVars>>
  BY <1>4, ControlsRest DEF ControlsInv
<1> QED BY <1>1, <1>2, <1>3, <1>4 DEF Next, vars, TreeNext, RowsNext, DialogStep

LEMMA ControlsInvariant == Spec => []ControlsInv
<1>1. Init => ControlsInv
  BY HiroAssumption, WidgetStartsRight, RangeStartsRight, ChoiceStartsRight DEF Init, ControlsInv
<1> QED BY <1>1, ControlsKeepInv, PTL DEF Spec

(* NativeShowsState: what the control of a widget shows is what the program*)
(* reads of it, unless the control has no room for the value; the knob of a*)
(* slider is at the position that was set, and the row that a combo or a   *)
(* tab frame shows is the item that selected() returns; for any number of  *)
(* items, properties set and positions, in whatever order they were set,   *)
(* attached, taken off and changed by the user.                            *)
THEOREM ControlsShowState == Spec => []NativeShowsState
<1>1. ControlsInv => NativeShowsState
  BY HiroAssumption, ShownIsRead, KnobIsShown, SelectionIsShown DEF ControlsInv, NativeShowsState
<1> QED BY <1>1, ControlsInvariant, PTL

(* ChangesAreTold: onChange() of a table view is called in the step in     *)
(* which the user changed the selection and in no other one of his; a      *)
(* widget, a combo or a tab frame tells of what its user did after the     *)
(* state is what the control shows, and not of what the program did (but   *)
(* where the toolkit is known to), and what the program sets in a widget,  *)
(* or moves it to, changes nothing that its user entered in another        *)
(* property, but for what a new text moves; a slider tells where its knob  *)
(* is.                                                                     *)
THEOREM UserIsTold == Spec => ChangesAreTold
<1>1. ASSUME RowsInv, ControlsInv, [Next]_vars
      PROVE  [/\ scenario = "selection" => Rows!Told /\ Rows!Kept
              /\ scenario = "widgets"   => Widget!UserIsHeard
              /\ scenario = "ranges"    => Slider!MovesAreTold
              /\ scenario = "choices"   => Choice!ChoiceIsTold]_vars
  <2>1. CASE UNCHANGED vars
    BY <2>1
  <2>2. CASE Next
    <3>1. scenario = "selection" => Rows!Told /\ Rows!Kept
      <4>1. scenario = "selection" => Rows!Next
        BY <2>2 DEF Next, TreeNext, RowsNext, WidgetNext, SliderNext, ChoiceNext, DialogStep
      <4> QED BY <1>1, <4>1, RowsStep
    <3>2. scenario = "widgets" => Widget!UserIsHeard
      <4>1. scenario = "widgets" => Widget!Next
        BY <2>2 DEF Next, TreeNext, RowsNext, WidgetNext, SliderNext, ChoiceNext, DialogStep
      <4> QED BY <1>1, <4>1, HiroAssumption, UserIsAlwaysHeard DEF ControlsInv
    <3>3. scenario = "ranges" => Slider!MovesAreTold
      <4>1. scenario = "ranges" => Slider!Next
        BY <2>2 DEF Next, TreeNext, RowsNext, WidgetNext, SliderNext, ChoiceNext, DialogStep
      <4> QED BY <1>1, <4>1, HiroAssumption, RangeStep DEF ControlsInv
    <3>4. scenario = "choices" => Choice!ChoiceIsTold
      <4>1. scenario = "choices" => Choice!Next
        BY <2>2 DEF Next, TreeNext, RowsNext, WidgetNext, SliderNext, ChoiceNext, DialogStep
      <4> QED BY <1>1, <4>1, ChoiceStepIsTold DEF ControlsInv
    <3> QED BY <3>1, <3>2, <3>3, <3>4
  <2> QED BY <1>1, <2>1, <2>2
<1> QED BY <1>1, RowsInvariant, ControlsInvariant, PTL DEF Spec, ChangesAreTold
===============================================================================
