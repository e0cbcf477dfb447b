----------------------------- MODULE Icarus_proofs -----------------------------
(***************************************************************************)
(* Proofs about icarus and daedalus: the windows, the settings file that   *)
(* the programs share, and the library of cartridge folders.               *)
(***************************************************************************)
EXTENDS Icarus, FiniteSetTheorems, TLAPS

-------------------------------------------------------------------------------
(* A step of the whole is, for each part, a step of the part or none.      *)
LEMMA SessionPart ==
  ASSUME [Next]_vars
  PROVE  [Session!Next]_sessionVars
BY DEF Next, ImportNext, SessionStep, SharedNext, vars, sessionVars

LEMMA SharedPart ==
  ASSUME [Next]_vars
  PROVE  [Shared!Next]_sharedVars
BY DEF Next, ImportNext, SessionStep, SharedNext, vars, sharedVars

LEMMA ScenarioStays ==
  ASSUME [Next]_vars
  PROVE  scenario' = scenario
BY DEF Next, ImportNext, SessionStep, SharedNext, vars

-------------------------------------------------------------------------------
(* Sets listed in a sequence.                                              *)
LEMMA SetToSeqLists ==
  ASSUME NEW S, IsFiniteSet(S)
  PROVE  SetToSeq(S) \in Seq(S) /\ ToSet(SetToSeq(S)) = S
<1> DEFINE n == Cardinality(S)
           f == SetToSeq(S)
<1>1. n \in Nat /\ ExistsBijection(1..n, S)
  BY FS_CardinalityType, Zenon
<1>2. PICK b \in Bijection(1..n, S) : TRUE
  BY <1>1 DEF ExistsBijection
<1>3. b \in [1..n -> S] /\ IsInjective(b)
  BY <1>2 DEF Bijection, Injection, IsInjective
<1>4. f \in [1..n -> S] /\ IsInjective(f)
  BY <1>3 DEF SetToSeq
<1>5. f \in Injection(1..n, S)
  BY <1>4 DEF Injection, IsInjective
<1>6. IsFiniteSet(1..n) /\ Cardinality(1..n) = n
  BY <1>1, FS_Interval
<1>7. f \in Surjection(1..n, S)
  BY <1>5, <1>6, FS_Injection, Zenon
<1>8. f \in Seq(S) /\ DOMAIN f = 1..n
  BY <1>1, <1>4
<1>9. ToSet(f) = S
  <2>1. \A x \in S : \E i \in 1..n : f[i] = x
    BY <1>7 DEF Surjection
  <2> QED BY <1>4, <1>8, <2>1 DEF ToSet
<1> QED BY <1>8, <1>9

LEMMA HeadAndTail ==
  ASSUME NEW S, NEW q \in Seq(S), q # <<>>
  PROVE  /\ Head(q) \in S /\ Tail(q) \in Seq(S)
         /\ ToSet(q) = {Head(q)} \cup ToSet(Tail(q))
<1>1. Len(q) \in Nat /\ Len(q) > 0 /\ q \in [1..Len(q) -> S]
  OBVIOUS
<1>2. Head(q) = q[1] /\ Tail(q) \in Seq(S) /\ Len(Tail(q)) = Len(q) - 1
  BY <1>1
<1>3. \A i \in 1..(Len(q) - 1) : Tail(q)[i] = q[i + 1]
  BY <1>1
<1>4. ToSet(q) \subseteq {Head(q)} \cup ToSet(Tail(q))
  <2> SUFFICES ASSUME NEW i \in 1..Len(q)
               PROVE  q[i] \in {Head(q)} \cup ToSet(Tail(q))
    BY <1>1 DEF ToSet
  <2>1. CASE i = 1
    BY <2>1, <1>2
  <2>2. CASE i # 1
    <3>1. i - 1 \in 1..(Len(q) - 1) /\ q[i] = Tail(q)[i - 1]
      BY <1>1, <1>3, <2>2
    <3>2. DOMAIN Tail(q) = 1..(Len(q) - 1)
      BY <1>2
    <3>3. Tail(q)[i - 1] \in ToSet(Tail(q))
      BY <3>1, <3>2, Zenon DEF ToSet
    <3> QED BY <3>1, <3>3
  <2> QED BY <2>1, <2>2
<1>5. {Head(q)} \cup ToSet(Tail(q)) \subseteq ToSet(q)
  BY <1>1, <1>2, <1>3 DEF ToSet
<1> QED BY <1>1, <1>2, <1>4, <1>5

-------------------------------------------------------------------------------
(* The windows.  Settings, list and the log of a session go together: what *)
(* is listed comes from the directory of the settings, and while a session *)
(* runs the queue and the log are the checked files between them.          *)
MainWindows == {"scan", "import", "error", "message", "question"}
Listed      == {<<list.dir, f>> : f \in list.checked}

Settings == [path : Dirs, library : Libraries \cup {CHOOSE l \in Libraries : TRUE}]

SessionType ==
  /\ settings \in Settings /\ saved \in Settings /\ pathEdit \in Dirs
  /\ list \in [dir : Dirs, checked : SUBSET UNION {Files[d] : d \in Dirs}]
  /\ list.checked \subseteq Files[list.dir]

SessionInv ==
  /\ SessionType
  /\ Session!UserHasAWindow
  /\ list.dir = settings.path
  /\ "import" \in visible => /\ queue \in Seq(Listed)
                             /\ ToSet(queue) \cup DOMAIN result = Listed
                             /\ turn = "begun" => queue # <<>>
  /\ visible \cap {"message", "question"} # {} => DOMAIN result = Listed
  /\ "message" \in visible => \A l \in DOMAIN result : result[l][1] = "imported"

LEMMA ListedIsFinite ==
  ASSUME SessionType
  PROVE  IsFiniteSet(list.checked) /\ IsFiniteSet(Listed)
<1>1. IsFiniteSet(list.checked)
  <2>1. IsFiniteSet(Files[list.dir])
    BY IcarusAssumption
       DEF IcarusAssumption, Session!SessionAssumption, Session!IsFiniteSet, IsFiniteSet,
           SessionType
  <2> QED BY <2>1, FS_Subset, Zenon DEF SessionType
<1>2. IsFiniteSet({list.dir}) /\ IsFiniteSet({list.dir} \X list.checked)
  BY <1>1, FS_Singleton, FS_Product, Zenon
<1>3. Listed = {list.dir} \X list.checked
  BY DEF Listed
<1> QED BY <1>1, <1>2, <1>3
LEMMA SameOperators ==
  /\ \A S : Session!SetToSeq(S) = SetToSeq(S)
  /\ \A q : Session!ToSet(q) = ToSet(q)
<1>1. \A S : Session!Cardinality(S) = Cardinality(S)
  BY DEF Session!Cardinality, Cardinality
<1>2. \A f : Session!IsInjective(f) = IsInjective(f)
  BY DEF Session!IsInjective, IsInjective
<1> QED BY <1>1, <1>2 DEF Session!SetToSeq, SetToSeq, Session!ToSet, ToSet

LEMMA SessionInit ==
  ASSUME Session!Init
  PROVE  SessionInv
<1>1. Home \in Dirs
  BY IcarusAssumption DEF IcarusAssumption, Session!SessionAssumption
<1>2. SessionType
  BY <1>1 DEF Session!Init, Session!Default, SessionType, Settings
<1>3. Session!UserHasAWindow
  <2>1. visible \cap MainWindows = {"scan"}
    BY DEF Session!Init, MainWindows
  <2> QED BY <2>1 DEF Session!UserHasAWindow, MainWindows
<1> QED BY <1>2, <1>3 DEF Session!Init, Session!Default, SessionInv

(* What an action leaves alone.                                            *)
LEMMA SameWindows ==
  ASSUME SessionInv, UNCHANGED <<visible, list, queue, result, turn>>,
         SessionType', settings'.path = settings.path
  PROVE  SessionInv'
BY DEF SessionInv, Session!UserHasAWindow, Listed

(* The windows that start, run and end a session.                          *)
LEMMA ScanExcludes ==
  ASSUME SessionInv
  PROVE  /\ "scan" \in visible => visible \cap MainWindows = {"scan"}
         /\ "import" \in visible => visible \cap MainWindows = {"import"}
         /\ "error" \in visible => visible \cap MainWindows = {"error"}
         /\ "message" \in visible => visible \cap MainWindows = {"message"}
         /\ "question" \in visible => visible \cap MainWindows = {"question"}
BY DEF SessionInv, Session!UserHasAWindow, MainWindows

LEMMA ShowsScan ==
  ASSUME SessionInv, Session!Refresh(settings.path), UNCHANGED saved,
         NEW w \in {"message", "question", "error"},
         w \in visible, visible' = (visible \ {w}) \cup {"scan"}
  PROVE  SessionInv'
<1>1. SessionType'
  BY DEF SessionInv, SessionType, Settings, Session!Refresh
<1>2. visible' \cap MainWindows = {"scan"}
  BY ScanExcludes DEF MainWindows
<1>3. Session!UserHasAWindow'
  BY <1>2 DEF Session!UserHasAWindow, MainWindows
<1>4. list'.dir = settings'.path
  BY DEF Session!Refresh, SessionInv, SessionType, Settings
<1>5. visible' \cap {"import", "message", "question"} = {}
  BY <1>2 DEF MainWindows
<1> QED BY <1>1, <1>3, <1>4, <1>5 DEF SessionInv

LEMMA SessionPreserved ==
  ASSUME SessionInv, Session!Next
  PROVE  SessionInv'
<1> USE DEF Session!Interactive, Session!Modal
<1>0. /\ Home \in Dirs /\ Parent \in [Dirs -> Dirs]
      /\ Folders \in [Dirs -> SUBSET Dirs]
  BY IcarusAssumption DEF IcarusAssumption, Session!SessionAssumption
<1>1. ASSUME NEW dir \in Dirs, Session!TypePath(dir)
      PROVE  SessionInv'
  <2>1. SessionType'
    BY <1>1 DEF SessionInv, SessionType, Session!TypePath, Session!session
  <2> QED BY <1>1, <2>1, SameWindows DEF Session!TypePath, Session!session
<1>2. ASSUME NEW dir \in Dirs, Session!Visit(dir)
      PROVE  SessionInv'
  <2>1. SessionType'
    BY <1>2 DEF SessionInv, SessionType, Settings, Session!Visit, Session!Refresh
  <2>2. list'.dir = settings'.path /\ visible' = visible
    BY <1>2 DEF Session!Visit, Session!Refresh, SessionInv, SessionType, Settings
  <2>3. visible \cap {"import", "message", "question"} = {}
    BY <1>2, ScanExcludes DEF Session!Visit, MainWindows
  <2>4. Session!UserHasAWindow'
    BY <2>2 DEF SessionInv, Session!UserHasAWindow
  <2> QED BY <2>1, <2>2, <2>3, <2>4 DEF SessionInv
<1>3. CASE Session!Navigate
  <2>1. /\ pathEdit \in Dirs /\ settings.path \in Dirs
        /\ Folders[list.dir] \subseteq Dirs /\ Parent[settings.path] \in Dirs
    BY <1>0 DEF SessionInv, SessionType, Settings
  <2> QED BY <1>0, <1>2, <1>3, <2>1 DEF Session!Navigate
<1>4. ASSUME NEW checked \in SUBSET Files[list.dir], Session!CheckItems(checked)
      PROVE  SessionInv'
  <2>1. SessionType'
    BY <1>4 DEF SessionInv, SessionType, Session!CheckItems, Session!session
  <2>2. list'.dir = settings'.path /\ visible' = visible
    BY <1>4 DEF Session!CheckItems, SessionInv, SessionType
  <2>3. visible \cap {"import", "message", "question"} = {}
    BY <1>4, ScanExcludes DEF Session!CheckItems, MainWindows
  <2>4. Session!UserHasAWindow'
    BY <2>2 DEF SessionInv, Session!UserHasAWindow
  <2> QED BY <2>1, <2>2, <2>3, <2>4 DEF SessionInv
<1>5. CASE Session!Check
  <2>1. list.checked \subseteq Files[list.dir]
    BY DEF SessionInv, SessionType
  <2>2. \A f \in Files[list.dir] :
          list.checked \cup {f} \in SUBSET Files[list.dir] /\ list.checked \ {f} \in SUBSET Files[list.dir]
    BY <2>1
  <2>3. Files[list.dir] \in SUBSET Files[list.dir] /\ {} \in SUBSET Files[list.dir]
    OBVIOUS
  <2> QED BY <1>4, <1>5, <2>2, <2>3 DEF Session!Check
<1>6. CASE Session!Import
  <2>0. visible \cap MainWindows = {"scan"}
    BY <1>6, ScanExcludes DEF Session!Import
  <2>1. SessionType' /\ list' = list /\ settings' = settings
    BY <1>6 DEF SessionInv, SessionType, Session!Import
  <2>2. CASE visible' = visible \cup {"nothing"} /\ UNCHANGED <<queue, result, turn>>
    <3>1. visible' \cap MainWindows = {"scan"}
      BY <2>0, <2>2 DEF MainWindows
    <3> QED BY <2>1, <3>1 DEF SessionInv, Session!UserHasAWindow, MainWindows
  <2>3. CASE /\ visible' = (visible \ {"scan"}) \cup {"import"}
             /\ queue' = Session!SetToSeq(Session!Locations) /\ result' = Session!NoResult
             /\ turn' = "shown"
    <3>1. visible' \cap MainWindows = {"import"}
      BY <2>0, <2>3 DEF MainWindows
    <3>2. Session!Locations = Listed
      BY DEF Session!Locations, Listed, SessionInv
    <3>3. queue' \in Seq(Listed) /\ ToSet(queue') = Listed
      BY <2>3, <3>2, ListedIsFinite, SetToSeqLists, SameOperators, Zenon DEF SessionInv
    <3>4. DOMAIN result' = {}
      BY <2>3 DEF Session!NoResult
    <3>5. Listed' = Listed
      BY <2>1 DEF Listed
    <3> QED BY <2>1, <2>3, <3>1, <3>3, <3>4, <3>5
            DEF SessionInv, Session!UserHasAWindow, MainWindows
  <2> QED BY <1>6, <2>2, <2>3 DEF Session!Import, Session!session
<1>7. CASE Session!Quit
  <2>1. SessionType' /\ settings' = settings /\ list' = list /\ visible' = {}
    BY <1>7 DEF SessionInv, SessionType, Session!Quit
  <2> QED BY <2>1 DEF SessionInv, Session!UserHasAWindow
<1>8. CASE Session!OpenSettings \/ Session!CloseSettings
  <2>1. SessionType' /\ UNCHANGED <<settings, list, queue, result, turn>>
    BY <1>8 DEF SessionInv, SessionType, Session!OpenSettings, Session!CloseSettings,
                Session!session
  <2>2. visible' \cap MainWindows = visible \cap MainWindows /\ visible # {}
    BY <1>8 DEF Session!OpenSettings, Session!CloseSettings, MainWindows
  <2> QED BY <2>1, <2>2 DEF SessionInv, Session!UserHasAWindow, MainWindows, Listed
<1>9. ASSUME NEW l \in Libraries, Session!ChangeLocation(l)
      PROVE  SessionInv'
  <2>1. SessionType' /\ settings'.path = settings.path
    BY <1>9 DEF SessionInv, SessionType, Settings, Session!ChangeLocation
  <2> QED BY <1>9, <2>1, SameWindows DEF Session!ChangeLocation, Session!session
<1>10. CASE Session!Stop
  <2>1. SessionType' /\ settings'.path = settings.path
    BY <1>10 DEF SessionInv, SessionType, Session!Stop
  <2> QED BY <1>10, <2>1, SameWindows DEF Session!Stop
<1>11. ASSUME NEW outcome, Session!Running, queue # <<>>, Session!Becomes(outcome)
       PROVE  SessionInv'
  <2>0. visible \cap MainWindows = {"import"}
    BY <1>11, ScanExcludes DEF Session!Running
  <2>1. SessionType' /\ UNCHANGED <<settings, list, visible>> /\ turn' = "over"
    BY <1>11 DEF SessionInv, SessionType, Session!Becomes
  <2>2. queue \in Seq(Listed) /\ ToSet(queue) \cup DOMAIN result = Listed
    BY <1>11 DEF Session!Running, SessionInv
  <2>3. queue' \in Seq(Listed) /\ ToSet(queue') \cup DOMAIN result' = Listed
    BY <1>11, <2>2, HeadAndTail DEF Session!Becomes
  <2> QED BY <2>0, <2>1, <2>3 DEF SessionInv, Session!UserHasAWindow, MainWindows, Listed
<1>12. CASE Session!ImportNext \/ Session!SkipNext
  <2>1. Session!Running /\ queue # <<>>
    BY <1>12 DEF Session!ImportNext, Session!SkipNext, Session!Running, SessionInv
  <2> QED BY <1>11, <1>12, <2>1 DEF Session!ImportNext, Session!SkipNext
<1>18. CASE Session!BeginNext
  <2>1. /\ SessionType' /\ UNCHANGED <<settings, list, visible, queue, result>>
        /\ queue # <<>>
    BY <1>18 DEF SessionInv, SessionType, Session!BeginNext
  <2> QED BY <2>1 DEF SessionInv, Session!UserHasAWindow, Listed
<1>13. CASE Session!RunEnd
  <2>0. visible \cap MainWindows = {"import"}
    BY <1>13, ScanExcludes DEF Session!RunEnd, Session!Running
  <2>1. SessionType' /\ UNCHANGED <<settings, list, queue, result, turn>>
    BY <1>13 DEF SessionInv, SessionType, Session!RunEnd, Session!session
  <2>2. DOMAIN result = Listed
    <3>1. ToSet(queue) = {}
      BY <1>13 DEF Session!RunEnd, ToSet
    <3> QED BY <1>13, <3>1 DEF Session!RunEnd, Session!Running, SessionInv
  <2>3. CASE Session!Errors # {}
    <3>1. visible' \cap MainWindows = {"question"}
      BY <1>13, <2>0, <2>3 DEF Session!RunEnd, MainWindows
    <3> QED BY <2>1, <2>2, <3>1 DEF SessionInv, Session!UserHasAWindow, MainWindows, Listed
  <2>4. CASE Session!Errors = {}
    <3>1. visible' \cap MainWindows = {"message"}
      BY <1>13, <2>0, <2>4 DEF Session!RunEnd, MainWindows
    <3>2. \A l \in DOMAIN result : result[l][1] = "imported"
      BY <2>4 DEF Session!Errors
    <3> QED BY <2>1, <2>2, <3>1, <3>2
            DEF SessionInv, Session!UserHasAWindow, MainWindows, Listed
  <2> QED BY <2>3, <2>4
<1>14. CASE Session!DismissMessage
  <2>1. CASE "message" \in visible /\ Session!ShowScan({"message"})
    BY <1>14, <2>1, ShowsScan DEF Session!DismissMessage, Session!ShowScan
  <2>2. CASE /\ "nothing" \in visible /\ visible' = visible \ {"nothing"}
             /\ UNCHANGED <<settings, pathEdit, list>>
    <3>1. SessionType' /\ UNCHANGED <<settings, list, queue, result, turn>>
      BY <1>14, <2>2 DEF SessionInv, SessionType, Session!DismissMessage, Session!session
    <3>2. visible' \cap MainWindows = visible \cap MainWindows /\ visible # {}
      BY <2>2 DEF MainWindows
    <3> QED BY <3>1, <3>2 DEF SessionInv, Session!UserHasAWindow, MainWindows, Listed
  <2> QED BY <1>14, <2>1, <2>2 DEF Session!DismissMessage
<1>15. CASE Session!Answer
  <2>1. CASE /\ visible' = (visible \ {"question"}) \cup {"error"}
             /\ UNCHANGED <<settings, pathEdit, list>>
    <3>0. visible \cap MainWindows = {"question"}
      BY <1>15, ScanExcludes DEF Session!Answer
    <3>1. SessionType' /\ UNCHANGED <<settings, list, queue, result, turn>>
      BY <1>15, <2>1 DEF SessionInv, SessionType, Session!Answer, Session!session
    <3>2. visible' \cap MainWindows = {"error"}
      BY <2>1, <3>0 DEF MainWindows
    <3> QED BY <3>1, <3>2 DEF SessionInv, Session!UserHasAWindow, MainWindows, Listed
  <2>2. CASE Session!ShowScan({"question"})
    BY <1>15, <2>2, ShowsScan DEF Session!Answer, Session!ShowScan
  <2> QED BY <1>15, <2>1, <2>2 DEF Session!Answer
<1>16. CASE Session!CloseError
  BY <1>16, ShowsScan DEF Session!CloseError, Session!ShowScan
<1>17. CASE Session!Start
  <2>1. SessionType'
    BY <1>17 DEF SessionInv, SessionType, Settings, Session!Start, Session!Started
  <2>2. list'.dir = settings'.path /\ visible' = {"scan"}
    BY <1>17 DEF Session!Start, Session!Started
  <2> QED BY <2>1, <2>2 DEF SessionInv, Session!UserHasAWindow
<1> QED
  BY <1>1, <1>3, <1>5, <1>6, <1>7, <1>8, <1>9, <1>10, <1>12, <1>13, <1>14, <1>15, <1>16, <1>17,
     <1>18 DEF Session!Next

LEMMA SessionInvariance == Spec => []SessionInv
<1>1. Init => SessionInv
  BY SessionInit DEF Init
<1>2. SessionInv /\ [Next]_vars => SessionInv'
  <2> SUFFICES ASSUME SessionInv, [Next]_vars
               PROVE  SessionInv'
    OBVIOUS
  <2>1. CASE Session!Next
    BY <2>1, SessionPreserved
  <2>2. CASE UNCHANGED sessionVars
    <3>1. SessionType'
      BY <2>2 DEF sessionVars, SessionInv, SessionType
    <3> QED BY <2>2, <3>1, SameWindows DEF sessionVars
  <2> QED BY <2>1, <2>2, SessionPart
<1> QED BY <1>1, <1>2, PTL DEF Spec

(* Whatever the user does, while the program runs exactly one of the scan  *)
(* dialog, the import dialog, the error log and the two messages is there  *)
(* (ui/scan-dialog.cpp, ui/import-dialog.cpp, ui/error-dialog.cpp).        *)
THEOREM AlwaysAWindow == Spec => []UserHasAWindow
<1>1. SessionInv => UserHasAWindow
  BY DEF SessionInv, UserHasAWindow
<1> QED BY <1>1, SessionInvariance, PTL

(* For any directories and files: a session imports what was checked from  *)
(* the directory it was listed from, and when it ends every checked file   *)
(* has been imported or has a line in the log (ImportDialog::run).         *)
THEOREM FilesAccountedFor == Spec => []EveryFileIsAccountedFor
<1>1. SessionInv => EveryFileIsAccountedFor
  <2> SUFFICES ASSUME SessionInv
               PROVE  Session!EveryFileIsAccountedFor /\ Session!ImportsWhatWasListed
    BY DEF EveryFileIsAccountedFor
  <2>1. Session!EveryFileIsAccountedFor
    BY DEF SessionInv, Session!EveryFileIsAccountedFor, Listed
  <2>2. ASSUME Session!Running, NEW l \in Session!ToSet(queue) \cup DOMAIN result
        PROVE  l[1] = list.dir /\ l[2] \in list.checked
    <3>1. l \in Listed
      BY <2>2, SameOperators DEF SessionInv, Session!Running
    <3> QED BY <3>1 DEF Listed
  <2> QED BY <2>1, <2>2 DEF Session!ImportsWhatWasListed
<1> QED BY <1>1, SessionInvariance, PTL

(* Once Stop is pressed no file's turn begins: what is imported later had  *)
(* its turn already, and there is one such file at most.                   *)
StopInv ==
  /\ late # {} => abort /\ turn = "over"
  /\ \A l, m \in late : l = m
  /\ (\E l \in DOMAIN result : result[l][1] = "aborted") => abort

LEMMA StopPreserved ==
  ASSUME StopInv, Session!Next
  PROVE  StopInv'
<1>1. CASE UNCHANGED <<result, abort, turn, late>>
  BY <1>1 DEF StopInv
<1>2. CASE result' = Session!NoResult /\ abort' = FALSE /\ late' = {}
  BY <1>2 DEF StopInv, Session!NoResult
<1>3. CASE Session!Stop
  BY <1>3 DEF StopInv, Session!Stop
<1>4. CASE Session!BeginNext
  BY <1>4 DEF StopInv, Session!BeginNext
<1>5. CASE Session!ImportNext
  <2>1. turn = "begun" /\ turn' = "over" /\ abort' = abort /\ late = {}
    BY <1>5 DEF Session!ImportNext, Session!Becomes, StopInv
  <2>2. late' # {} => abort /\ late' = {Head(queue)}
    BY <1>5, <2>1 DEF Session!ImportNext
  <2>3. ASSUME NEW l \in DOMAIN result', result'[l][1] = "aborted" PROVE abort
    <3>1. l \in DOMAIN result /\ result'[l] = result[l]
      BY <1>5, <2>3 DEF Session!ImportNext, Session!Becomes
    <3> QED BY <2>3, <3>1 DEF StopInv
  <2> QED BY <2>1, <2>2, <2>3 DEF StopInv
<1>6. CASE Session!SkipNext
  BY <1>6 DEF StopInv, Session!SkipNext, Session!Becomes
<1>7. CASE Session!Import
  BY <1>1, <1>2, <1>7 DEF Session!Import, Session!session
<1>8. CASE Session!Start
  BY <1>2, <1>8 DEF Session!Start
<1> QED
  BY <1>1, <1>3, <1>4, <1>5, <1>6, <1>7, <1>8
     DEF Session!Next, Session!TypePath, Session!Navigate, Session!Visit, Session!Check,
         Session!CheckItems, Session!Quit, Session!OpenSettings, Session!CloseSettings,
         Session!ChangeLocation, Session!RunEnd, Session!DismissMessage, Session!Answer,
         Session!CloseError, Session!session

(* For any directories and files, and events at any of the points where    *)
(* ImportDialog::run lets them in: after Stop at most the file in whose    *)
(* turn it came is imported, and without Stop none is left out.            *)
THEOREM StopIsObeyed == Spec => []StopStops
<1>1. Init => StopInv
  BY DEF Init, Session!Init, Session!NoResult, StopInv
<1>2. StopInv /\ [Next]_vars => StopInv'
  <2> SUFFICES ASSUME StopInv, [Next]_vars
               PROVE  StopInv'
    OBVIOUS
  <2>1. CASE UNCHANGED sessionVars
    BY <2>1 DEF sessionVars, StopInv
  <2> QED BY <2>1, StopPreserved, SessionPart
<1>3. StopInv => StopStops
  BY DEF StopInv, StopStops, Session!StopStops
<1> QED BY <1>1, <1>2, <1>3, PTL DEF Spec

-------------------------------------------------------------------------------
(* The settings file.  While no process disturbs another, one with windows *)
(* is alone; the file has the user's choices unless it is being saved, and *)
(* a process has them in memory but for those it changed itself.           *)
Contents == UNION {[D -> Values] : D \in SUBSET Keys}

Process ==
  [at : {"off", "running", "saving"}, program : Programs \cup {CHOOSE g \in Programs : TRUE},
   gui : BOOLEAN, memory : Contents, changed : SUBSET Keys]

Keeps(contents, ks) == \A k \in ks : k \in DOMAIN contents /\ contents[k] = chosen[k]

SharedType ==
  /\ file \in Contents /\ chosen \in Contents
  /\ process \in [Processes -> Process]
  /\ disturbed \in BOOLEAN
  /\ \A p \in Shared!Alive :
       /\ process[p].program \in Programs
       /\ Own[process[p].program] \cup process[p].changed \subseteq DOMAIN process[p].memory
       /\ process[p].at = "saving" => process[p].gui

SharedInv ==
  /\ SharedType
  /\ ~disturbed =>
       /\ \A p \in Shared!Alive : process[p].gui => Shared!Alive = {p}
       /\ (\A p \in Processes : process[p].at # "saving") => Keeps(file, DOMAIN chosen)
       /\ \A p \in Shared!Alive : Keeps(process[p].memory, DOMAIN chosen \ process[p].changed)

LEMMA ContentsIntro ==
  ASSUME NEW f, NEW D \in SUBSET Keys, f = [k \in D |-> f[k]], \A k \in D : f[k] \in Values
  PROVE  f \in Contents
<1>1. f \in [D -> Values]
  OBVIOUS
<1> QED BY <1>1 DEF Contents

LEMMA ContentsElim ==
  ASSUME NEW f \in Contents
  PROVE  /\ DOMAIN f \subseteq Keys /\ f = [k \in DOMAIN f |-> f[k]]
         /\ \A k \in DOMAIN f : f[k] \in Values
BY DEF Contents

LEMMA OffIsProcess ==
  Shared!Empty \in Contents /\ DOMAIN Shared!Empty = {} /\ Shared!Off \in Process /\ Shared!Off.at = "off"
<1>1. Shared!Empty \in [{} -> Values]
  BY DEF Shared!Empty
<1>2. Shared!Empty \in Contents
  BY <1>1 DEF Contents
<1> QED BY <1>1, <1>2 DEF Shared!Off, Process

LEMMA SharedInit ==
  ASSUME Shared!Init
  PROVE  SharedInv
<1>1. Shared!Alive = {}
  BY OffIsProcess DEF Shared!Init, Shared!Alive
<1> QED BY <1>1, OffIsProcess DEF Shared!Init, SharedInv, SharedType, Keeps

LEMMA SharedPreserved ==
  ASSUME SharedInv, Shared!Next
  PROVE  SharedInv'
<1>0. /\ Own \in [Programs -> SUBSET Keys] /\ DefaultValue \in Values
  BY IcarusAssumption DEF IcarusAssumption, Shared!SettingsAssumption
<1>1. ASSUME NEW p \in Processes, NEW g \in Programs, NEW gui \in BOOLEAN, Shared!Start(p, g, gui)
      PROVE  SharedInv'
  <2> DEFINE new == [at |-> "running", program |-> g, gui |-> gui,
                     memory |-> Shared!WithDefaults(g, file), changed |-> {}]
  <2>1. /\ process' = [process EXCEPT ![p] = new]
        /\ UNCHANGED <<file, chosen>>
        /\ disturbed' = (disturbed \/ \E q \in Shared!Alive : gui \/ process[q].gui)
        /\ p \notin Shared!Alive
    BY <1>1 DEF Shared!Start, Shared!Alive
  <2>2. /\ DOMAIN new.memory = DOMAIN file \cup Own[g]
        /\ \A k \in DOMAIN file : new.memory[k] = file[k]
        /\ new.memory \in Contents
    <3>1. file \in Contents
      BY DEF SharedInv, SharedType
    <3>2. /\ new.memory = [k \in DOMAIN file \cup Own[g] |->
                             IF k \in DOMAIN file THEN file[k] ELSE DefaultValue]
          /\ DOMAIN file \cup Own[g] \in SUBSET Keys
      BY <1>0, <3>1, ContentsElim DEF Shared!WithDefaults
    <3>3. \A k \in DOMAIN file \cup Own[g] : new.memory[k] \in Values
      BY <1>0, <3>1, <3>2, ContentsElim
    <3>4. new.memory \in [DOMAIN file \cup Own[g] -> Values]
      BY <3>2, <3>3
    <3> HIDE DEF new
    <3> QED BY <3>2, <3>4 DEF Contents
  <2>3. new \in Process
    BY <2>2 DEF Process
  <2>4. /\ Shared!Alive' = Shared!Alive \cup {p} /\ process'[p] = new
        /\ \A q \in Shared!Alive : process'[q] = process[q]
    BY <2>1, <2>3 DEF SharedInv, SharedType, Shared!Alive
  <2>5. SharedType'
    BY <2>1, <2>2, <2>3, <2>4 DEF SharedInv, SharedType
  <2>6. ASSUME ~disturbed'
        PROVE  /\ \A q \in Shared!Alive' : process'[q].gui => Shared!Alive' = {q}
               /\ Keeps(file, DOMAIN chosen)
    <3>1. ~disturbed /\ \A q \in Shared!Alive : ~gui /\ ~process[q].gui
      BY <2>1, <2>6
    <3>2. \A q \in Processes : process[q].at # "saving"
      BY <3>1 DEF SharedInv, SharedType, Shared!Alive
    <3> QED BY <3>1, <3>2, <2>4 DEF SharedInv
  <2>7. ASSUME ~disturbed', NEW q \in Shared!Alive'
        PROVE  Keeps(process[q].memory, DOMAIN chosen \ process[q].changed)'
    <3>1. CASE q = p
      BY <2>1, <2>2, <2>4, <2>6, <2>7, <3>1 DEF Keeps
    <3>2. CASE q # p
      <4>1. q \in Shared!Alive /\ ~disturbed /\ process'[q] = process[q] /\ chosen' = chosen
        BY <2>1, <2>4, <2>7, <3>2
      <4>2. Keeps(process[q].memory, DOMAIN chosen \ process[q].changed)
        BY <4>1 DEF SharedInv
      <4> QED BY <4>1, <4>2 DEF Keeps
    <3> QED BY <3>1, <3>2
  <2>8. ~disturbed' => Keeps(file, DOMAIN chosen)'
    BY <2>1, <2>6 DEF Keeps
  <2> QED BY <2>5, <2>6, <2>7, <2>8 DEF SharedInv
<1>2. ASSUME NEW p \in Processes, NEW k \in Keys, NEW v \in Values, Shared!Change(p, k, v)
      PROVE  SharedInv'
  <2> DEFINE old == process[p]
             new == process'[p]
  <2>1. /\ UNCHANGED <<file, chosen, disturbed>>
        /\ p \in Shared!Alive /\ old.at = "running" /\ k \in Own[old.program] /\ old \in Process
        /\ \A q \in Processes \ {p} : process'[q] = process[q]
        /\ process' \in [Processes -> {process'[q] : q \in Processes}]
    BY <1>2 DEF Shared!Change, Shared!Alive, SharedInv, SharedType
  <2>2. new = [old EXCEPT !.memory[k] = v, !.changed = @ \cup {k}]
    BY <1>2 DEF Shared!Change, SharedInv, SharedType
  <2>3. k \in DOMAIN old.memory /\ old.memory \in Contents
    BY <2>1 DEF SharedInv, SharedType, Process
  <2>4. /\ new.at = old.at /\ new.program = old.program /\ new.gui = old.gui
        /\ new.changed = old.changed \cup {k}
        /\ new.memory = [old.memory EXCEPT ![k] = v]
    BY <2>1, <2>2 DEF Process
  <2>5. new.memory \in Contents /\ DOMAIN new.memory = DOMAIN old.memory
    <3>1. old.memory \in [DOMAIN old.memory -> Values] /\ DOMAIN old.memory \in SUBSET Keys
      BY <2>3, ContentsElim
    <3>2. new.memory \in [DOMAIN old.memory -> Values]
      BY <2>3, <2>4, <3>1
    <3> HIDE DEF old, new
    <3> QED BY <3>1, <3>2 DEF Contents
  <2>6. new \in Process
    <3>1. new = [at |-> old.at, program |-> old.program, gui |-> old.gui,
                 memory |-> [old.memory EXCEPT ![k] = v], changed |-> old.changed \cup {k}]
      BY <2>1, <2>2 DEF Process
    <3>2. /\ old.at \in {"off", "running", "saving"} /\ old.gui \in BOOLEAN
          /\ old.program \in Programs \cup {CHOOSE g \in Programs : TRUE}
          /\ old.changed \cup {k} \in SUBSET Keys
      BY <2>1 DEF Process
    <3> HIDE DEF old, new
    <3> QED BY <3>1, <3>2, <2>4, <2>5 DEF Process
  <2>7. Shared!Alive' = Shared!Alive /\ process' \in [Processes -> Process]
    BY <2>1, <2>4, <2>6 DEF Shared!Alive, SharedInv, SharedType
  <2> HIDE DEF old, new
  <2>8. SharedType'
    BY <2>1, <2>3, <2>4, <2>5, <2>7 DEF SharedInv, SharedType, old, new, Shared!Alive
  <2>9. ASSUME ~disturbed', NEW q \in Shared!Alive'
        PROVE  Keeps(process[q].memory, DOMAIN chosen \ process[q].changed)'
    <3>1. CASE q = p
      <4>1. Keeps(old.memory, DOMAIN chosen \ old.changed)
        BY <2>1, <2>9 DEF SharedInv, old
      <4>2. Keeps(new.memory, DOMAIN chosen \ new.changed)
        BY <4>1, <2>3, <2>4, <2>5, ContentsElim DEF Keeps
      <4> QED BY <4>2, <3>1, <2>1 DEF Keeps, new
    <3>2. CASE q # p
      BY <2>1, <2>7, <2>9, <3>2 DEF Keeps, SharedInv, Shared!Alive
    <3> QED BY <3>1, <3>2
  <2>10. ASSUME ~disturbed'
         PROVE  /\ \A q \in Shared!Alive' : process'[q].gui => Shared!Alive' = {q}
                /\ (\A q \in Processes : process'[q].at # "saving") => Keeps(file, DOMAIN chosen)'
    <3>1. \A q \in Processes : process'[q].gui = process[q].gui /\ process'[q].at = process[q].at
      BY <2>1, <2>4 DEF old, new
    <3> QED BY <2>1, <2>7, <2>10, <3>1 DEF SharedInv, Keeps, Shared!Alive
  <2> QED BY <2>8, <2>9, <2>10 DEF SharedInv
<1>3. ASSUME NEW p \in Processes, Shared!Truncate(p)
      PROVE  SharedInv'
  <2> DEFINE old == process[p]
             new == process'[p]
  <2>1. /\ UNCHANGED <<chosen, disturbed>> /\ file' = Shared!Empty
        /\ p \in Shared!Alive /\ old.gui /\ old \in Process
        /\ new = [old EXCEPT !.at = "saving"]
        /\ \A q \in Processes \ {p} : process'[q] = process[q]
    BY <1>3 DEF Shared!Truncate, Shared!Alive, SharedInv, SharedType
  <2>2. /\ new.at = "saving" /\ new.program = old.program /\ new.gui = old.gui
        /\ new.changed = old.changed /\ new.memory = old.memory /\ new \in Process
    BY <2>1, ZenonT(40) DEF Process
  <2>3. Shared!Alive' = Shared!Alive /\ process' \in [Processes -> Process]
    BY <1>3, <2>1, <2>2 DEF Shared!Alive, SharedInv, SharedType, Shared!Truncate
  <2> HIDE DEF old, new
  <2>4. SharedType'
    <3>1. ASSUME NEW q \in Shared!Alive
          PROVE  /\ process'[q].program = process[q].program
                 /\ process'[q].memory = process[q].memory
                 /\ process'[q].changed = process[q].changed
                 /\ process'[q].at = "saving" => process'[q].gui
      <4>1. CASE q = p
        BY <2>1, <2>2, <4>1 DEF old, new
      <4>2. CASE q # p
        BY <2>1, <4>2 DEF SharedInv, SharedType, Shared!Alive
      <4> QED BY <4>1, <4>2
    <3> QED BY <2>1, <2>3, <3>1, OffIsProcess DEF SharedInv, SharedType
  <2>5. /\ \A q \in Processes : /\ process'[q].gui = process[q].gui
                                /\ process'[q].memory = process[q].memory
                                /\ process'[q].changed = process[q].changed
        /\ process'[p].at = "saving"
    BY <2>1, <2>2 DEF old, new
  <2> QED BY <2>1, <2>3, <2>4, <2>5 DEF SharedInv, Keeps, Shared!Alive
<1>4. ASSUME NEW p \in Processes, process' = [process EXCEPT ![p] = Shared!Off]
      PROVE  /\ process' \in [Processes -> Process]
             /\ Shared!Alive' = Shared!Alive \ {p}
             /\ \A q \in Shared!Alive' : process'[q] = process[q]
  BY <1>4, OffIsProcess DEF Shared!Alive, SharedInv, SharedType
<1>5. ASSUME NEW p \in Processes, Shared!Write(p)
      PROVE  SharedInv'
  <2> DEFINE old == process[p]
  <2>1. /\ p \in Shared!Alive /\ old.at = "saving" /\ old.gui /\ old \in Process
        /\ file' = old.memory
        /\ chosen' = [k \in DOMAIN chosen \cup old.changed |->
                        IF k \in old.changed THEN old.memory[k] ELSE chosen[k]]
        /\ process' = [process EXCEPT ![p] = Shared!Off] /\ disturbed' = disturbed
    BY <1>5 DEF Shared!Write, Shared!Alive, SharedInv, SharedType
  <2>2. /\ old.memory \in Contents /\ chosen \in Contents
        /\ old.changed \subseteq DOMAIN old.memory
    BY <2>1 DEF SharedInv, SharedType, Process
  <2> HIDE DEF old
  <2>3. DOMAIN chosen' = DOMAIN chosen \cup old.changed /\ chosen' \in Contents
    <3>1. /\ DOMAIN chosen \cup old.changed \in SUBSET Keys
          /\ DOMAIN chosen' = DOMAIN chosen \cup old.changed
          /\ chosen' = [k \in DOMAIN chosen \cup old.changed |-> chosen'[k]]
      BY <2>1, <2>2, ContentsElim
    <3>2. \A k \in DOMAIN chosen \cup old.changed : chosen'[k] \in Values
      BY <2>1, <2>2, ContentsElim
    <3> QED BY <3>1, <3>2, ContentsIntro
  <2>4. SharedType'
    BY <1>4, <2>1, <2>2, <2>3 DEF SharedInv, SharedType
  <2>5. ASSUME ~disturbed
        PROVE  Shared!Alive' = {} /\ Keeps(file, DOMAIN chosen)'
    <3>1. Shared!Alive = {p} /\ Keeps(old.memory, DOMAIN chosen \ old.changed)
      BY <2>1, <2>5 DEF SharedInv, old
    <3>2. Keeps(file, DOMAIN chosen)'
      BY <2>1, <2>2, <2>3, <3>1 DEF Keeps
    <3> QED BY <1>4, <2>1, <3>1, <3>2
  <2> QED BY <2>1, <2>4, <2>5 DEF SharedInv
<1>6. ASSUME NEW p \in Processes, Shared!End(p)
      PROVE  SharedInv'
  <2>1. /\ process' = [process EXCEPT ![p] = Shared!Off] /\ UNCHANGED <<file, chosen>>
        /\ disturbed' = (disturbed \/ process[p].at = "saving")
    BY <1>6 DEF Shared!End
  <2>2. SharedType'
    BY <1>4, <2>1 DEF SharedInv, SharedType
  <2>3. ASSUME ~disturbed', \A q \in Processes : process'[q].at # "saving"
        PROVE  \A q \in Processes : process[q].at # "saving"
    BY <2>1, <2>3 DEF SharedInv, SharedType
  <2>4. ASSUME ~disturbed'
        PROVE  /\ \A q \in Shared!Alive' : process'[q].gui => Shared!Alive' = {q}
               /\ (\A q \in Processes : process'[q].at # "saving") => Keeps(file, DOMAIN chosen)
    <3>1. ~disturbed
      BY <2>1, <2>4
    <3> QED BY <1>4, <2>1, <2>3, <2>4, <3>1 DEF SharedInv
  <2>5. ASSUME ~disturbed', NEW q \in Shared!Alive'
        PROVE  Keeps(process'[q].memory, DOMAIN chosen \ process'[q].changed)
    <3>1. ~disturbed /\ q \in Shared!Alive /\ process'[q] = process[q]
      BY <1>4, <2>1, <2>5
    <3> QED BY <3>1 DEF SharedInv
  <2> QED BY <2>1, <2>2, <2>4, <2>5 DEF SharedInv, Keeps
<1> QED BY <1>1, <1>2, <1>3, <1>5, <1>6 DEF Shared!Next

(* For any processes of any programs: as long as none runs beside one that *)
(* saves and none dies saving, what the user chose and a process saved is  *)
(* what the next one has, whichever programs ran in between                *)
(* (icarus/settings.cpp, daedalus/settings.cpp).                           *)
THEOREM UserChoicesAreKept == Spec => []ChoicesAreKept
<1>1. Init => SharedInv
  BY SharedInit DEF Init
<1>2. SharedInv /\ [Next]_vars => SharedInv'
  <2> SUFFICES ASSUME SharedInv, [Next]_vars
               PROVE  SharedInv'
    OBVIOUS
  <2>1. CASE UNCHANGED sharedVars
    BY <2>1 DEF sharedVars, SharedInv, SharedType, Keeps, Shared!Alive
  <2> QED BY <2>1, SharedPreserved, SharedPart
<1>3. SharedInv => ChoicesAreKept
  BY DEF SharedInv, ChoicesAreKept, Shared!ChoicesAreKept, Keeps, Shared!Alive
<1> QED BY <1>1, <1>2, <1>3, PTL DEF Spec

-------------------------------------------------------------------------------
(* The ROM files of a board.                                               *)
AsSequence(q) == \E X : q \in Seq(X)
HasProgram(q) == \E i \in DOMAIN q : q[i].name = "program.rom"

LEMMA Joined ==
  ASSUME NEW p, AsSequence(p), NEW q, AsSequence(q)
  PROVE  AsSequence(p \o q) /\ (HasProgram(p) => HasProgram(p \o q))
<1>1. PICK X : p \in Seq(X)
  BY DEF AsSequence
<1>2. PICK Y : q \in Seq(Y)
  BY DEF AsSequence
<1>3. p \in Seq(X \cup Y) /\ q \in Seq(X \cup Y)
  BY <1>1, <1>2
<1>4. p \o q \in Seq(X \cup Y)
  BY <1>3
<1>5. /\ Len(p) \in Nat /\ Len(q) \in Nat /\ DOMAIN p = 1..Len(p)
      /\ DOMAIN (p \o q) = 1..(Len(p) + Len(q))
      /\ \A i \in 1..Len(p) : (p \o q)[i] = p[i]
  BY <1>3
<1>6. HasProgram(p) => HasProgram(p \o q)
  BY <1>5 DEF HasProgram
<1> QED BY <1>4, <1>6 DEF AsSequence

LEMMA Rows ==
  /\ AsSequence(<<>>)
  /\ \A a : AsSequence(<<a>>) /\ (a.name = "program.rom" => HasProgram(<<a>>))
  /\ \A a, b : AsSequence(<<a, b>>) /\ (a.name = "program.rom" => HasProgram(<<a, b>>))
  /\ \A a, b, c, d : AsSequence(<<a, b, c, d>>)
                       /\ (a.name = "program.rom" => HasProgram(<<a, b, c, d>>))
<1>1. AsSequence(<<>>)
  <2>1. <<>> \in Seq({})
    OBVIOUS
  <2> QED BY <2>1 DEF AsSequence
<1>2. ASSUME NEW a PROVE AsSequence(<<a>>) /\ (a.name = "program.rom" => HasProgram(<<a>>))
  <2>1. <<a>> \in Seq({a})
    OBVIOUS
  <2>2. 1 \in DOMAIN <<a>> /\ <<a>>[1] = a
    OBVIOUS
  <2> QED BY <2>1, <2>2 DEF AsSequence, HasProgram
<1>3. ASSUME NEW a, NEW b
      PROVE  AsSequence(<<a, b>>) /\ (a.name = "program.rom" => HasProgram(<<a, b>>))
  <2>1. <<a, b>> \in Seq({a, b})
    OBVIOUS
  <2>2. 1 \in DOMAIN <<a, b>> /\ <<a, b>>[1] = a
    OBVIOUS
  <2> QED BY <2>1, <2>2 DEF AsSequence, HasProgram
<1>4. ASSUME NEW a, NEW b, NEW c, NEW d
      PROVE  AsSequence(<<a, b, c, d>>) /\ (a.name = "program.rom" => HasProgram(<<a, b, c, d>>))
  <2>1. <<a, b, c, d>> \in Seq({a, b, c, d})
    OBVIOUS
  <2>2. 1 \in DOMAIN <<a, b, c, d>> /\ <<a, b, c, d>>[1] = a
    OBVIOUS
  <2> QED BY <2>1, <2>2 DEF AsSequence, HasProgram
<1> QED BY <1>1, <1>2, <1>3, <1>4

(* No header names two coprocessors, so that ChipOf chooses the one there  *)
(* is (readHeader).                                                        *)
LEMMA OneChip ==
  ASSUME NEW h \in OfIcarus!Header,
         NEW c \in OfIcarus!Coprocessors, NEW d \in OfIcarus!Coprocessors,
         OfIcarus!HasChip(c, h), OfIcarus!HasChip(d, h)
  PROVE  c = d
<1>1. h.romSize \in Int /\ h.mapper \in Int /\ h.romType \in Int /\ h.company \in Int
  BY DEF OfIcarus!Header, OfIcarus!Byte
<1> QED BY <1>1 DEF OfIcarus!HasChip

(* Every board that icarus describes lists the game's program.             *)
LEMMA MarkupLists ==
  ASSUME NEW img, NEW m \in BOOLEAN
  PROVE  /\ AsSequence(OfIcarus!Markup("icarus", img, m))
         /\ \/ OfIcarus!Markup("icarus", img, m) = OfIcarus!NoBoard
            \/ HasProgram(OfIcarus!Markup("icarus", img, m))
<1> USE DEF OfIcarus!Rom
<1>1. ASSUME NEW n PROVE AsSequence(OfIcarus!EventRoms(n)) /\ HasProgram(OfIcarus!EventRoms(n))
  BY Rows, Joined DEF OfIcarus!EventRoms, OfIcarus!NecDsp
<1>2. ASSUME NEW cart, NEW n
      PROVE  AsSequence(OfIcarus!CommonBoard(cart, n)) /\ HasProgram(OfIcarus!CommonBoard(cart, n))
  BY Rows DEF OfIcarus!CommonBoard
<1>3. ASSUME NEW c PROVE AsSequence(OfIcarus!ChipRoms(c))
  BY Rows, SMTT(20) DEF OfIcarus!ChipRoms, OfIcarus!NecDsp, OfIcarus!Seta
<1>4. ASSUME NEW cart
      PROVE  AsSequence(OfIcarus!IcarusBoard(img, cart)) /\ HasProgram(OfIcarus!IcarusBoard(img, cart))
  BY <1>1, <1>2 DEF OfIcarus!IcarusBoard
<1>5. AsSequence(OfIcarus!NoBoard)
  BY Rows DEF OfIcarus!NoBoard
<1> DEFINE cart == OfIcarus!ReadHeader(img)
           last == IF m /\ ("icarus" = "icarus" => ~OfIcarus!IsEvent(cart))
                   THEN <<OfIcarus!Rom("msu1.rom", 0)>> ELSE <<>>
           q == OfIcarus!IcarusBoard(img, cart) \o OfIcarus!ChipRoms(cart.chip) \o last
<1>6. AsSequence(last)
  BY Rows
<1>7. AsSequence(q) /\ HasProgram(q)
  BY <1>3, <1>4, <1>6, Joined
<1>8. OfIcarus!Markup("icarus", img, m) \in {OfIcarus!NoBoard, q}
  BY DEF OfIcarus!Markup
<1> QED BY <1>5, <1>7, <1>8

LEMMA RomsLists ==
  ASSUME NEW s
  PROVE  /\ AsSequence(OfIcarus!Roms(s))
         /\ OfIcarus!Parsed(s) => HasProgram(OfIcarus!Roms(s))
<1>1. CASE OfIcarus!SystemOf(s) = OfIcarus!superFamicom
  <2>0. /\ OfIcarus!superFamicom # OfIcarus!famicom
        /\ OfIcarus!superFamicom # OfIcarus!megaDrive
        /\ OfIcarus!superFamicom # OfIcarus!wonderSwan
        /\ OfIcarus!superFamicom # OfIcarus!wonderSwanColor
        /\ OfIcarus!superFamicom # OfIcarus!gameBoy
        /\ OfIcarus!superFamicom # OfIcarus!gameBoyColor
        /\ OfIcarus!superFamicom # OfIcarus!sufamiTurbo
    BY DEF OfIcarus!System, OfIcarus!superFamicom, OfIcarus!famicom, OfIcarus!megaDrive,
           OfIcarus!wonderSwan, OfIcarus!wonderSwanColor, OfIcarus!gameBoy,
           OfIcarus!gameBoyColor, OfIcarus!sufamiTurbo
  <2>1. OfIcarus!Roms(s) = OfIcarus!Markup("icarus", s.image, FALSE)
    BY <1>1, <2>0 DEF OfIcarus!Roms, OfIcarus!Scanned, OfIcarus!Root
  <2>2. OfIcarus!Parsed(s) => OfIcarus!Markup("icarus", s.image, FALSE) # OfIcarus!NoBoard
    BY <1>1, <2>0 DEF OfIcarus!Parsed
  <2> QED BY <2>1, <2>2, MarkupLists
<1>2. CASE OfIcarus!SystemOf(s) # OfIcarus!superFamicom
  <2>1. AsSequence(OfIcarus!FamicomRoms(s.image)) /\ HasProgram(OfIcarus!FamicomRoms(s.image))
    <3> DEFINE p == <<OfIcarus!Rom("ines.rom", 16),
                      OfIcarus!Rom("program.rom", s.image.prg * \h4000)>>
               q == IF s.image.chr > 0
                    THEN <<OfIcarus!Rom("character.rom", s.image.chr * \h2000)>> ELSE <<>>
    <3>1. AsSequence(p) /\ AsSequence(q)
      BY Rows
    <3>2. HasProgram(p)
      <4>1. 2 \in DOMAIN p /\ p[2].name = "program.rom"
        BY DEF OfIcarus!Rom
      <4> QED BY <4>1 DEF HasProgram
    <3> HIDE DEF p, q
    <3>3. AsSequence(p \o q) /\ HasProgram(p \o q)
      BY <3>1, <3>2, Joined
    <3> QED BY <3>3 DEF OfIcarus!FamicomRoms, p, q
  <2>2. AsSequence(<<OfIcarus!Rom("program.rom", s.image.size)>>)
          /\ HasProgram(<<OfIcarus!Rom("program.rom", s.image.size)>>)
    BY Rows DEF OfIcarus!Rom
  <2> QED BY <1>2, <2>1, <2>2 DEF OfIcarus!Roms
<1> QED BY <1>1, <1>2

-------------------------------------------------------------------------------
(* The library.  A ROM file of the board is still to write, or there, or   *)
(* among those that are missing or whose write failed.                     *)
Folder == OfIcarus!Target(source)
Written(name) == /\ name \in DOMAIN library[Folder].files
                 /\ library[Folder].files[name].of = source
Placed == /\ Folder \in DOMAIN library
          /\ \A i \in DOMAIN OfIcarus!Roms(source) :
               LET name == OfIcarus!Roms(source)[i].name
               IN  name \in missing \cup lost \/ Written(name)

FoldersAreRecords ==
  \A t \in DOMAIN library :
    library[t] = [save |-> library[t].save, files |-> library[t].files]

ImportInv ==
  /\ FoldersAreRecords
  /\ pc \in {"idle", "save", "write"}
  /\ pc # "idle" => /\ OfIcarus!Parsed(source) /\ Folder \in DOMAIN library
                    /\ AsSequence(board)
  /\ pc = "save" => board = OfIcarus!Roms(source) /\ missing = {}
  /\ pc = "write" =>
       \A i \in DOMAIN OfIcarus!Roms(source) :
         LET rom == OfIcarus!Roms(source)[i]
         IN  rom \in ToSet(board) \/ rom.name \in missing \cup lost \/ Written(rom.name)
  /\ pc = "idle" /\ reported = "success" => missing = {} /\ OfIcarus!Parsed(source) /\ Placed
  /\ pc = "idle" /\ missing # {} => reported = "failure" /\ Placed

(* A change of one folder's save file leaves the ROM files alone.          *)
LEMMA SaveChange ==
  ASSUME FoldersAreRecords, NEW u \in DOMAIN library, NEW x,
         library' = [library EXCEPT ![u].save = x]
  PROVE  /\ FoldersAreRecords' /\ DOMAIN library' = DOMAIN library
         /\ library'[u].save = x
         /\ \A t \in DOMAIN library : library'[t].files = library[t].files
         /\ \A t \in DOMAIN library \ {u} : library'[t] = library[t]
<1>1. library[u] = [save |-> library[u].save, files |-> library[u].files]
  BY DEF FoldersAreRecords
<1>2. library'[u] = [library[u] EXCEPT !.save = x]
  OBVIOUS
<1>3. library'[u] = [save |-> x, files |-> library[u].files]
  BY <1>1, <1>2
<1>4. DOMAIN library' = DOMAIN library /\ \A t \in DOMAIN library \ {u} : library'[t] = library[t]
  OBVIOUS
<1>5. library'[u].save = x /\ library'[u].files = library[u].files
  BY <1>3
<1> QED BY <1>3, <1>4, <1>5 DEF FoldersAreRecords

LEMMA FilesChange ==
  ASSUME FoldersAreRecords, NEW u \in DOMAIN library, NEW x,
         library' = [library EXCEPT ![u].files = x]
  PROVE  /\ FoldersAreRecords' /\ DOMAIN library' = DOMAIN library
         /\ library'[u].files = x
         /\ \A t \in DOMAIN library : library'[t].save = library[t].save
<1>1. library[u] = [save |-> library[u].save, files |-> library[u].files]
  BY DEF FoldersAreRecords
<1>2. library'[u] = [library[u] EXCEPT !.files = x]
  OBVIOUS
<1>3. library'[u] = [save |-> library[u].save, files |-> x]
  BY <1>1, <1>2
<1>4. DOMAIN library' = DOMAIN library /\ \A t \in DOMAIN library \ {u} : library'[t] = library[t]
  OBVIOUS
<1>5. library'[u].save = library[u].save /\ library'[u].files = x
  BY <1>3
<1> QED BY <1>3, <1>4, <1>5 DEF FoldersAreRecords

(* What an import leaves of what is there.                                 *)
LEMMA ImportStarts ==
  ASSUME ImportInv, NEW s, OfIcarus!Import(s)
  PROVE  ImportInv' /\ OfIcarus!SavesAreKept
<1>1. source' = s /\ missing' = {}
  BY DEF OfIcarus!Import
<1>2. CASE OfIcarus!Failure
  <2>1. pc' = "idle" /\ reported' = "failure" /\ library' = library
    BY <1>2 DEF OfIcarus!Failure
  <2> QED BY <1>1, <2>1 DEF ImportInv, FoldersAreRecords, OfIcarus!SavesAreKept
<1>3. CASE ~OfIcarus!Failure
  <2>1. /\ OfIcarus!Parsed(s) /\ pc' = "save" /\ board' = OfIcarus!Roms(s)
        /\ library' = [t \in DOMAIN library \cup {OfIcarus!Target(s)} |->
                         IF t \in DOMAIN library THEN library[t] ELSE OfIcarus!NewFolder]
    BY <1>3 DEF OfIcarus!Import
  <2>2. FoldersAreRecords'
    <3>1. OfIcarus!NewFolder =
            [save |-> OfIcarus!NewFolder.save, files |-> OfIcarus!NewFolder.files]
      BY DEF OfIcarus!NewFolder
    <3> QED BY <2>1, <3>1 DEF ImportInv, FoldersAreRecords
  <2>3. OfIcarus!Target(s) \in DOMAIN library'
    BY <2>1
  <2> QED BY <1>1, <2>1, <2>2, <2>3, RomsLists DEF ImportInv, Folder, OfIcarus!SavesAreKept
<1> QED BY <1>2, <1>3

LEMMA ImportGoesOn ==
  ASSUME ImportInv, OfIcarus!Continue
  PROVE  ImportInv' /\ OfIcarus!SavesAreKept
<1>1. CASE OfIcarus!CopySave
  <2>1. /\ pc = "save" /\ pc' = "write" /\ UNCHANGED <<source, board, missing, lost, reported>>
        /\ \/ library' = library
           \/ /\ library' = [library EXCEPT ![Folder].save = "copied"]
              /\ library[Folder].save = "none"
    BY <1>1 DEF OfIcarus!CopySave, Folder
  <2>2. /\ Folder \in DOMAIN library /\ FoldersAreRecords /\ Folder' = Folder
        /\ OfIcarus!Parsed(source) /\ AsSequence(board) /\ board = OfIcarus!Roms(source)
    BY <2>1 DEF ImportInv, Folder
  <2>3. FoldersAreRecords' /\ DOMAIN library' = DOMAIN library /\ OfIcarus!SavesAreKept
    <3>1. CASE library' = library
      BY <2>2, <3>1 DEF FoldersAreRecords, OfIcarus!SavesAreKept
    <3>2. CASE /\ library' = [library EXCEPT ![Folder].save = "copied"]
               /\ library[Folder].save = "none"
      BY <2>2, <3>2, SaveChange DEF OfIcarus!SavesAreKept
    <3> QED BY <2>1, <3>1, <3>2
  <2>4. \A i \in DOMAIN OfIcarus!Roms(source) : OfIcarus!Roms(source)[i] \in ToSet(board)
    BY <2>2 DEF ToSet
  <2> QED BY <2>1, <2>2, <2>3, <2>4 DEF ImportInv, Folder
<1>2. CASE OfIcarus!WriteRom
  <2> DEFINE head == Head(board)
  <2>1. /\ pc = "write" /\ board # <<>> /\ board' = Tail(board)
        /\ UNCHANGED <<pc, source, reported>>
    BY <1>2 DEF OfIcarus!WriteRom
  <2>2. PICK X : board \in Seq(X)
    BY <2>1 DEF ImportInv, AsSequence
  <2>3. board' \in Seq(X) /\ ToSet(board) = {head} \cup ToSet(board')
    BY <2>1, <2>2, HeadAndTail
  <2>4. /\ Folder \in DOMAIN library /\ FoldersAreRecords /\ Folder' = Folder
        /\ OfIcarus!Parsed(source)
    BY <2>1 DEF ImportInv, Folder
  <2>5. CASE /\ missing \subseteq missing' /\ lost \subseteq lost'
             /\ head.name \in missing' \cup lost' /\ library' = library
    BY <2>1, <2>3, <2>4, <2>5 DEF ImportInv, AsSequence, Written, FoldersAreRecords, Folder,
                                  OfIcarus!SavesAreKept
  <2>6. ASSUME NEW slice, slice.of = source, OfIcarus!PutRom(head.name, slice),
               missing' = missing, lost \subseteq lost'
        PROVE  ImportInv' /\ OfIcarus!SavesAreKept
    <3> DEFINE new == OfIcarus!Put(library[Folder].files, head.name, slice)
    <3>1. library' = [library EXCEPT ![Folder].files = new]
      BY <2>6 DEF OfIcarus!PutRom, Folder
    <3>2. /\ FoldersAreRecords' /\ DOMAIN library' = DOMAIN library
          /\ library'[Folder].files = new
          /\ \A t \in DOMAIN library : library'[t].save = library[t].save
      BY <2>4, <3>1, FilesChange
    <3>3. /\ DOMAIN new = DOMAIN library[Folder].files \cup {head.name}
          /\ new[head.name].of = source
          /\ \A n \in DOMAIN library[Folder].files : n # head.name => new[n] = library[Folder].files[n]
      BY <2>6 DEF OfIcarus!Put
    <3> HIDE DEF new
    <3>4. \A n : n = head.name \/ Written(n) => Written(n)'
      BY <2>1, <2>4, <3>2, <3>3 DEF Written
    <3>5. ASSUME NEW i \in DOMAIN OfIcarus!Roms(source)
          PROVE  LET rom == OfIcarus!Roms(source)[i]
                 IN  \/ rom \in ToSet(board') \/ rom.name \in missing' \cup lost'
                     \/ Written(rom.name)'
      <4> DEFINE rom == OfIcarus!Roms(source)[i]
      <4>1. rom \in ToSet(board) \/ rom.name \in missing \cup lost \/ Written(rom.name)
        BY <2>1, <3>5 DEF ImportInv
      <4>2. CASE rom = head
        BY <2>1, <3>4, <4>2
      <4>3. CASE rom # head
        BY <2>1, <2>3, <2>6, <3>4, <4>1, <4>3
      <4> QED BY <4>2, <4>3
    <3> QED BY <2>1, <2>3, <2>4, <3>2, <3>5 DEF ImportInv, AsSequence, OfIcarus!SavesAreKept
  <2>7. \A from, size : OfIcarus!Slice(source, from, size).of = source
    BY DEF OfIcarus!Slice
  <2>8. CASE OfIcarus!TooShort(head.size)
    BY <1>2, <2>5, <2>8 DEF OfIcarus!WriteRom
  <2>9. CASE ~OfIcarus!TooShort(head.size)
    <3>1. /\ missing' = missing
          /\ \/ /\ OfIcarus!PutRom(head.name, OfIcarus!Slice(source, offset, head.size))
                /\ lost' = lost
             \/ /\ lost' = lost \cup {head.name}
                /\ OfIcarus!PutRom(head.name, OfIcarus!Slice(source, 0, 0)) \/ library' = library
      BY <1>2, <2>9, Zenon DEF OfIcarus!WriteRom
    <3> HIDE DEF head
    <3> QED BY <2>5, <2>6, <2>7, <3>1
  <2> QED BY <2>8, <2>9
<1>3. CASE OfIcarus!End
  <2>1. /\ pc = "write" /\ board = <<>> /\ pc' = "idle" /\ UNCHANGED <<source, missing, lost, library>>
        /\ reported' = IF missing = {} THEN "success" ELSE "failure"
    BY <1>3 DEF OfIcarus!End
  <2>2. ToSet(board) = {}
    BY <2>1 DEF ToSet
  <2>3. Placed /\ OfIcarus!Parsed(source) /\ FoldersAreRecords
    BY <2>1, <2>2 DEF ImportInv, Placed
  <2>4. Placed' /\ FoldersAreRecords' /\ OfIcarus!SavesAreKept
    BY <2>1, <2>3 DEF Placed, Written, Folder, FoldersAreRecords, OfIcarus!SavesAreKept
  <2> QED BY <2>1, <2>3, <2>4 DEF ImportInv
<1>4. CASE OfIcarus!Kill
  BY <1>4 DEF OfIcarus!Kill, ImportInv, FoldersAreRecords, OfIcarus!SavesAreKept
<1>5. ASSUME NEW t \in DOMAIN library, OfIcarus!Play(t)
      PROVE  ImportInv' /\ OfIcarus!SavesAreKept
  <2>1. /\ pc = "idle" /\ UNCHANGED <<pc, source, board, missing, lost, reported>>
        /\ library' = [library EXCEPT ![t].save = "played"]
    BY <1>5 DEF OfIcarus!Play
  <2>2. /\ FoldersAreRecords' /\ DOMAIN library' = DOMAIN library
        /\ \A u \in DOMAIN library : library'[u].files = library[u].files
        /\ OfIcarus!SavesAreKept
    BY <2>1, SaveChange DEF ImportInv, OfIcarus!SavesAreKept
  <2>3. ASSUME Placed PROVE Placed'
    BY <2>1, <2>2, <2>3 DEF Placed, Written, Folder
  <2> QED BY <2>1, <2>2, <2>3 DEF ImportInv
<1> QED BY <1>1, <1>2, <1>3, <1>4, <1>5 DEF OfIcarus!Continue

LEMMA ImportInvariance ==
  Spec => [](scenario # "daedalus" => ImportInv) /\ SaveIsKept
<1> DEFINE I == scenario # "daedalus" => ImportInv
<1>1. Init => I
  <2> SUFFICES ASSUME OfIcarus!Init
               PROVE  ImportInv
    BY DEF Init
  <2>1. DOMAIN library = {} /\ pc = "idle" /\ reported = "none" /\ missing = {}
    BY DEF OfIcarus!Init
  <2> QED BY <2>1 DEF ImportInv, FoldersAreRecords
<1>2. I /\ [Next]_vars => I' /\ [scenario # "daedalus" => OfIcarus!SavesAreKept]_vars
  <2> SUFFICES ASSUME I, [Next]_vars, scenario # "daedalus"
               PROVE  ImportInv' /\ OfIcarus!SavesAreKept
    BY ScenarioStays
  <2>1. ImportInv
    OBVIOUS
  <2>2. CASE ImportNext
    BY <2>1, <2>2, ImportStarts, ImportGoesOn DEF ImportNext
  <2>3. CASE UNCHANGED importVars
    BY <2>1, <2>3 DEF importVars, ImportInv, FoldersAreRecords, Placed, Written, Folder,
                      OfIcarus!SavesAreKept
  <2> QED BY <2>2, <2>3 DEF Next, SessionStep, SharedNext, vars, importVars
<1> QED BY <1>1, <1>2, PTL DEF Spec, SaveIsKept

(* For any image files: an import never replaces the progress of a game    *)
(* that was played (Icarus::import, the copy of the save file).            *)
THEOREM ProgressIsKept == Spec => SaveIsKept
BY ImportInvariance

(* For any image files, kills, failing writes and imports over what is     *)
(* there: when an import has ended, every ROM file of the board is there   *)
(* from its image, or was named in the failure that is reported, or is one *)
(* whose write failed; the game's program among them (icarus/core).        *)
THEOREM ReportsAreTrue == Spec => []ReportIsTrue
<1>1. (scenario # "daedalus" => ImportInv) => ReportIsTrue
  <2> SUFFICES ASSUME ImportInv
               PROVE  OfIcarus!FailureNamesMissing /\ OfIcarus!ImportedGameIsThere
    BY DEF ReportIsTrue
  <2>1. OfIcarus!FailureNamesMissing
    <3> SUFFICES ASSUME pc = "idle", reported = "success" \/ missing # {}
                 PROVE  /\ missing # {} => reported = "failure"
                        /\ \A i \in DOMAIN OfIcarus!Roms(source) :
                             LET rom == OfIcarus!Roms(source)[i]
                                 files == library[Folder].files
                             IN  \/ rom.name \in missing \cup lost
                                 \/ rom.name \in DOMAIN files /\ files[rom.name].of = source
      BY DEF OfIcarus!FailureNamesMissing, OfIcarus!Range, Folder
    <3> QED BY DEF ImportInv, Placed, Written
  <2>2. OfIcarus!ImportedGameIsThere
    <3> SUFFICES ASSUME pc = "idle", reported = "success"
                 PROVE  "program.rom" \in DOMAIN library[Folder].files \cup lost
      BY DEF OfIcarus!ImportedGameIsThere, OfIcarus!Succeeded, Folder
    <3>1. missing = {} /\ OfIcarus!Parsed(source) /\ Placed
      BY DEF ImportInv
    <3>2. PICK i \in DOMAIN OfIcarus!Roms(source) : OfIcarus!Roms(source)[i].name = "program.rom"
      BY <3>1, RomsLists DEF HasProgram
    <3> QED BY <3>1, <3>2 DEF Placed, Written
  <2> QED BY <2>1, <2>2
<1> QED BY <1>1, ImportInvariance, PTL

-------------------------------------------------------------------------------
(* What a folder has, in the order in which --manifest asks for it.        *)
LEMMA NatSet ==
  ASSUME NEW S, 0 \in S, \A n \in Nat : n \in S => n + 1 \in S
  PROVE  \A n \in Nat : n \in S
<1> SUFFICES ASSUME NEW n \in Nat, n \notin S PROVE FALSE
  OBVIOUS
<1> DEFINE A == (0..n) \cap S
           f == [k \in A |-> k + 1]
<1>1. \A k \in A : k \in Nat /\ k + 1 \in A
  <2> TAKE k \in A
  <2>1. k \in Nat /\ k <= n /\ k \in S /\ k # n
    OBVIOUS
  <2> QED BY <2>1
<1>2. f \in Injection(A, A)
  <2>1. f \in [A -> A] /\ \A a, b \in A : f[a] = f[b] => a = b
    BY <1>1
  <2> QED BY <2>1 DEF Injection, IsInjective
<1>3. IsFiniteSet(A)
  <2>1. IsFiniteSet(0..n)
    BY FS_Interval
  <2> QED BY <2>1, FS_Intersection
<1>4. PICK k \in A : f[k] = 0
  <2>1. f \in Surjection(A, A)
    BY <1>2, <1>3, FS_Injection
  <2>2. 0 \in A
    OBVIOUS
  <2> QED BY <2>1, <2>2 DEF Surjection
<1> QED BY <1>1, <1>4

(* The function by which Among is defined, up to n.                        *)
Turn(order, names, f, i) ==
  IF i = 0 THEN <<>>
  ELSE IF order[i] \in names THEN Append(f[i - 1], order[i]) ELSE f[i - 1]
Taken(order, names, n, f) == f = [i \in 0..n |-> Turn(order, names, f, i)]

LEMMA TakenExists ==
  ASSUME NEW order, NEW names
  PROVE  \A n \in Nat : \E f : Taken(order, names, n, f)
<1> DEFINE T(f, i) == Turn(order, names, f, i)
           S == {n \in Nat : \E f : f = [i \in 0..n |-> T(f, i)]}
<1>1. 0 \in S
  <2> DEFINE f == [i \in 0..0 |-> <<>>]
  <2>1. \A i \in 0..0 : T(f, i) = <<>>
    BY DEF Turn
  <2>2. f = [i \in 0..0 |-> T(f, i)]
    <3> HIDE DEF T
    <3> QED BY <2>1
  <2> HIDE DEF f, T
  <2> QED BY <2>2
<1>2. \A n \in Nat : n \in S => n + 1 \in S
  <2> SUFFICES ASSUME NEW n \in Nat, n \in S PROVE n + 1 \in S
    OBVIOUS
  <2> HIDE DEF T
  <2>1. PICK g : g = [i \in 0..n |-> T(g, i)]
    OBVIOUS
  <2> DEFINE h == [i \in 0..(n + 1) |-> IF i <= n THEN g[i] ELSE T(g, i)]
  <2>2. \A i \in 0..n : g[i] = T(g, i) /\ i \in 0..(n + 1) /\ i <= n
    BY <2>1
  <2>3. \A i \in 0..n : h[i] = g[i]
    BY <2>2
  <2>4. \A i \in 0..(n + 1) : h[i] = T(g, i)
    <3> SUFFICES ASSUME NEW i \in 0..(n + 1) PROVE h[i] = T(g, i)
      OBVIOUS
    <3>1. CASE i <= n
      <4>1. i \in 0..n
        BY <3>1
      <4> QED BY <2>2, <2>3, <4>1
    <3>2. CASE ~(i <= n)
      BY <3>2
    <3> QED BY <3>1, <3>2
  <2>5. h = [i \in 0..(n + 1) |-> h[i]]
    OBVIOUS
  <2> HIDE DEF h
  <2>6. \A i \in 0..(n + 1) : T(g, i) = T(h, i)
    <3> SUFFICES ASSUME NEW i \in 0..(n + 1) PROVE T(g, i) = T(h, i)
      OBVIOUS
    <3>1. CASE i = 0
      BY <3>1 DEF T, Turn
    <3>2. CASE i # 0
      <4>1. i - 1 \in 0..n
        BY <3>2
      <4>2. g[i - 1] = h[i - 1]
        BY <2>3, <4>1
      <4> QED BY <4>2 DEF T, Turn
    <3> QED BY <3>1, <3>2
  <2>7. h = [i \in 0..(n + 1) |-> T(h, i)]
    BY <2>4, <2>5, <2>6
  <2> QED BY <2>7
<1>3. \A n \in Nat : n \in S
  <2> HIDE DEF S
  <2> QED BY <1>1, <1>2, NatSet
<1> QED BY <1>3 DEF Taken

LEMMA AmongIs ==
  ASSUME NEW X, NEW order \in Seq(X), NEW names
  PROVE  \E f : /\ \A i \in 0..Len(order) : f[i] = Turn(order, names, f, i)
                /\ OfIcarus!Among(order, names) = f[Len(order)]
<1> DEFINE n == Len(order)
           f == CHOOSE f : f = [i \in 0..n |-> Turn(order, names, f, i)]
<1>1. n \in Nat
  OBVIOUS
<1>2. Taken(order, names, n, f)
  BY <1>1, TakenExists DEF Taken
<1>3. OfIcarus!Among(order, names) = f[n]
  BY DEF OfIcarus!Among, Turn
<1>4. \A i \in 0..n : f[i] = Turn(order, names, f, i)
  <2> HIDE DEF f
  <2> QED BY <1>2 DEF Taken
<1> HIDE DEF f
<1> QED BY <1>3, <1>4

(* A list in the order of another: where each of its members is there.     *)
Once(order) == \A i, j \in DOMAIN order : order[i] = order[j] => i = j
InPlaces(q, order, places) ==
  /\ places \in [DOMAIN q -> DOMAIN order]
  /\ \A k \in DOMAIN q : order[places[k]] = q[k]
  /\ \A k, l \in DOMAIN q : k < l => places[k] < places[l]

(* What the members of such a list are among the order is the list.        *)
LEMMA AmongGives ==
  ASSUME NEW X, NEW order \in Seq(X), Once(order), NEW q \in Seq(X), NEW places,
         InPlaces(q, order, places)
  PROVE  OfIcarus!Among(order, {q[k] : k \in DOMAIN q}) = q
<1> DEFINE names == {q[k] : k \in DOMAIN q}
           n == Len(order)
           m == Len(q)
<1>1. n \in Nat /\ DOMAIN order = 1..n /\ m \in Nat /\ DOMAIN q = 1..m
  OBVIOUS
<1>2. PICK f : /\ \A i \in 0..n : f[i] = Turn(order, names, f, i)
               /\ OfIcarus!Among(order, names) = f[n]
  <2> HIDE DEF names
  <2> QED BY AmongIs
<1>3. /\ \A k \in 1..m : places[k] \in 1..n /\ order[places[k]] = q[k]
      /\ \A k, l \in 1..m : k < l => places[k] < places[l]
  BY <1>1 DEF InPlaces
<1> DEFINE Upto(i) == \E k \in 0..m : /\ f[i] = SubSeq(q, 1, k)
                                      /\ \A l \in 1..m : l <= k <=> places[l] <= i
           S == {i \in Nat : i <= n => Upto(i)}
<1>4. 0 \in S
  <2>1. f[0] = <<>>
    <3>1. 0 \in 0..n
      BY <1>1
    <3>2. f[0] = Turn(order, names, f, 0)
      BY <1>2, <3>1
    <3> QED BY <3>2 DEF Turn
  <2>2. SubSeq(q, 1, 0) = <<>>
    OBVIOUS
  <2>3. \A l \in 1..m : l <= 0 <=> places[l] <= 0
    BY <1>3
  <2>4. 0 \in 0..m
    BY <1>1
  <2>5. Upto(0)
    BY <2>1, <2>2, <2>3, <2>4
  <2> HIDE DEF Upto
  <2> QED BY <2>5
<1>5. ASSUME NEW i \in Nat, i \in S PROVE i + 1 \in S
  <2> SUFFICES ASSUME i + 1 <= n PROVE Upto(i + 1)
    OBVIOUS
  <2>1. Upto(i)
    <3> HIDE DEF Upto
    <3> QED BY <1>1, <1>5
  <2>2. PICK k \in 0..m : /\ f[i] = SubSeq(q, 1, k)
                          /\ \A l \in 1..m : l <= k <=> places[l] <= i
    BY <2>1
  <2>3. i + 1 \in 0..n /\ i + 1 \in 1..n /\ i + 1 # 0 /\ (i + 1) - 1 = i
    BY <1>1
  <2>4. f[i + 1] = IF order[i + 1] \in names THEN Append(f[i], order[i + 1]) ELSE f[i]
    <3>1. f[i + 1] = Turn(order, names, f, i + 1)
      BY <1>2, <2>3
    <3> HIDE DEF names
    <3> QED BY <2>3, <3>1 DEF Turn
  <2>5. CASE order[i + 1] \in names
    <3>1. PICK l \in 1..m : q[l] = order[i + 1]
      BY <1>1, <2>5
    <3>2. places[l] = i + 1
      <4>1. order[places[l]] = order[i + 1] /\ places[l] \in 1..n
        BY <1>3, <3>1
      <4> QED BY <1>1, <2>3, <4>1 DEF Once
    <3>3. l = k + 1
      <4>1. l > k
        BY <2>2, <3>2
      <4>2. ASSUME l > k + 1 PROVE FALSE
        <5>1. k + 1 \in 1..m /\ k + 1 < l
          BY <4>2
        <5>2. places[k + 1] < i + 1 /\ places[k + 1] \in 1..n
          BY <1>3, <3>2, <5>1
        <5>3. k + 1 <= k
          BY <2>2, <5>1, <5>2
        <5> QED BY <5>3
      <4> QED BY <4>1, <4>2
    <3>4. Append(SubSeq(q, 1, k), q[k + 1]) = SubSeq(q, 1, k + 1)
      BY <3>3
    <3>5. \A j \in 1..m : j <= k + 1 <=> places[j] <= i + 1
      <4> TAKE j \in 1..m
      <4>1. CASE j <= k
        BY <1>3, <2>2, <4>1
      <4>2. CASE j = k + 1
        BY <3>2, <3>3, <4>2
      <4>3. CASE j > k + 1
        BY <1>3, <3>2, <3>3, <4>3
      <4> QED BY <4>1, <4>2, <4>3
    <3>6. k + 1 \in 0..m /\ f[i + 1] = SubSeq(q, 1, k + 1)
      BY <2>2, <2>4, <2>5, <3>1, <3>3, <3>4
    <3> QED BY <3>5, <3>6
  <2>6. CASE order[i + 1] \notin names
    <3>1. \A l \in 1..m : places[l] # i + 1
      BY <1>1, <1>3, <2>6
    <3>2. \A l \in 1..m : l <= k <=> places[l] <= i + 1
      BY <1>3, <2>2, <3>1
    <3> QED BY <2>2, <2>4, <2>6, <3>2
  <2> QED BY <2>5, <2>6
<1>6. \A i \in Nat : i \in S
  <2> HIDE DEF S
  <2> QED BY <1>4, <1>5, NatSet
<1>7. Upto(n)
  <2> HIDE DEF Upto
  <2> QED BY <1>1, <1>6
<1>8. PICK k \in 0..m : /\ f[n] = SubSeq(q, 1, k)
                        /\ \A l \in 1..m : l <= k <=> places[l] <= n
  BY <1>7
<1>9. k = m
  <2>1. CASE m = 0
    BY <2>1
  <2>2. CASE m # 0
    <3>1. m \in 1..m
      BY <1>1, <2>2
    <3> QED BY <1>3, <1>8, <3>1
  <2> QED BY <2>1, <2>2
<1>10. SubSeq(q, 1, m) = q
  OBVIOUS
<1> QED BY <1>2, <1>8, <1>9, <1>10

(* Which place a name has in the order for the Super Famicom.              *)
NamesAre(q) ==
  /\ q[1] = "program.rom"  /\ q[2] = "data.rom"
  /\ q[3] = "slot-1.rom"  /\ q[4] = "slot-2.rom"
  /\ q[5] = "slot-3.rom"  /\ q[6] = "sgb1.boot.rom"
  /\ q[7] = "sgb2.boot.rom"  /\ q[8] = "dsp1.program.rom"
  /\ q[9] = "dsp1b.program.rom"  /\ q[10] = "dsp2.program.rom"
  /\ q[11] = "dsp3.program.rom"  /\ q[12] = "dsp4.program.rom"
  /\ q[13] = "st010.program.rom"  /\ q[14] = "st011.program.rom"
  /\ q[15] = "st018.program.rom"  /\ q[16] = "cx4.data.rom"
  /\ q[17] = "dsp1.data.rom"  /\ q[18] = "dsp1b.data.rom"
  /\ q[19] = "dsp2.data.rom"  /\ q[20] = "dsp3.data.rom"
  /\ q[21] = "dsp4.data.rom"  /\ q[22] = "st010.data.rom"
  /\ q[23] = "st011.data.rom"  /\ q[24] = "st018.data.rom"

LEMMA OrdersAre ==
  /\ AsSequence(OfIcarus!SuperFamicomFiles) /\ Once(OfIcarus!SuperFamicomFiles)
  /\ DOMAIN OfIcarus!SuperFamicomFiles = 1..24 /\ NamesAre(OfIcarus!SuperFamicomFiles)
  /\ AsSequence(OfIcarus!FamicomFiles) /\ Once(OfIcarus!FamicomFiles)
  /\ AsSequence(<<"program.rom">>) /\ Once(<<"program.rom">>)
<1>1. /\ AsSequence(OfIcarus!SuperFamicomFiles) /\ Once(OfIcarus!SuperFamicomFiles)
      /\ DOMAIN OfIcarus!SuperFamicomFiles = 1..24 /\ NamesAre(OfIcarus!SuperFamicomFiles)
  <2> DEFINE q == OfIcarus!SuperFamicomFiles
  <2>1. q = [i \in 1..24 |-> q[i]]
    BY DEF OfIcarus!SuperFamicomFiles
  <2>2. NamesAre(q)
    BY DEF OfIcarus!SuperFamicomFiles, NamesAre
  <2> HIDE DEF q
  <2>3. q \in Seq({q[i] : i \in 1..24})
    BY <2>1
  <2>4. \A i, j \in 1..24 : q[i] = q[j] => i = j
    BY <2>2, SMTT(60) DEF NamesAre
  <2> QED BY <2>1, <2>2, <2>3, <2>4 DEF Once, AsSequence, q
<1>2. AsSequence(OfIcarus!FamicomFiles) /\ Once(OfIcarus!FamicomFiles)
  <2> DEFINE q == OfIcarus!FamicomFiles
  <2>1. q = [i \in 1..3 |-> q[i]] /\ q[1] = "ines.rom" /\ q[2] = "program.rom" /\ q[3] = "character.rom"
    BY DEF OfIcarus!FamicomFiles
  <2> HIDE DEF q
  <2>2. q \in Seq({q[i] : i \in 1..3})
    BY <2>1
  <2>3. \A i, j \in 1..3 : q[i] = q[j] => i = j
    BY <2>1
  <2> QED BY <2>1, <2>2, <2>3 DEF Once, AsSequence, q
<1>3. AsSequence(<<"program.rom">>) /\ Once(<<"program.rom">>)
  BY Rows DEF Once
<1> QED BY <1>1, <1>2, <1>3

-------------------------------------------------------------------------------
(* The boards: their ROM files come in the order of Concatenated, and their*)
(* sizes add up to the image's.                                            *)
InOrder(q, order) ==
  \E places : InPlaces([i \in DOMAIN q |-> q[i].name], order, places)

(* If files of these sizes, one behind the other from a place on, all lie  *)
(* in the image (where that is asked for), they end where it ends.         *)
Fills(q, from, size, within) ==
  \A to : /\ to[0] = from
          /\ \A i \in DOMAIN q : /\ to[i] = to[i - 1] + q[i].size
                                 /\ within => to[i] <= size
          => to[Len(q)] = size

LEMMA Listing ==
  ASSUME NEW order, AsSequence(order)
  PROVE  /\ \A i \in DOMAIN order : \A a : a.name = order[i] => InOrder(<<a>>, order)
         /\ \A i, j \in DOMAIN order : \A a, b :
              i < j /\ a.name = order[i] /\ b.name = order[j] => InOrder(<<a, b>>, order)
         /\ \A i, j, k \in DOMAIN order : \A a, b, c :
              i < j /\ j < k /\ a.name = order[i] /\ b.name = order[j] /\ c.name = order[k]
                => InOrder(<<a, b, c>>, order)
<1>1. DOMAIN order = 1..Len(order) /\ Len(order) \in Nat
  BY DEF AsSequence
<1>2. ASSUME NEW i \in DOMAIN order, NEW a, a.name = order[i] PROVE InOrder(<<a>>, order)
  <2> DEFINE q == <<a>>
             names == [n \in DOMAIN q |-> q[n].name]
             p == [n \in 1..1 |-> i]
  <2>1. DOMAIN names = 1..1 /\ names[1] = order[i] /\ p \in [1..1 -> DOMAIN order] /\ p[1] = i
    BY <1>2
  <2> HIDE DEF names, p
  <2>2. InPlaces(names, order, p)
    BY <2>1 DEF InPlaces
  <2> QED BY <2>2 DEF InOrder, names
<1>3. ASSUME NEW i \in DOMAIN order, NEW j \in DOMAIN order, i < j, NEW a, NEW b,
             a.name = order[i], b.name = order[j]
      PROVE  InOrder(<<a, b>>, order)
  <2> DEFINE q == <<a, b>>
             names == [n \in DOMAIN q |-> q[n].name]
             p == [n \in 1..2 |-> IF n = 1 THEN i ELSE j]
  <2>1. /\ DOMAIN names = 1..2 /\ names[1] = order[i] /\ names[2] = order[j]
        /\ p \in [1..2 -> DOMAIN order] /\ p[1] = i /\ p[2] = j
    BY <1>3
  <2> HIDE DEF names, p
  <2>2. InPlaces(names, order, p)
    BY <1>1, <1>3, <2>1 DEF InPlaces
  <2> QED BY <2>2 DEF InOrder, names
<1>4. ASSUME NEW i \in DOMAIN order, NEW j \in DOMAIN order, NEW k \in DOMAIN order, i < j, j < k,
             NEW a, NEW b, NEW c, a.name = order[i], b.name = order[j], c.name = order[k]
      PROVE  InOrder(<<a, b, c>>, order)
  <2> DEFINE q == <<a, b, c>>
             names == [n \in DOMAIN q |-> q[n].name]
             p == [n \in 1..3 |-> IF n = 1 THEN i ELSE IF n = 2 THEN j ELSE k]
  <2>1. /\ DOMAIN names = 1..3
        /\ names[1] = order[i] /\ names[2] = order[j] /\ names[3] = order[k]
        /\ p \in [1..3 -> DOMAIN order] /\ p[1] = i /\ p[2] = j /\ p[3] = k
    BY <1>4
  <2> HIDE DEF names, p
  <2>2. InPlaces(names, order, p)
    BY <1>1, <1>4, <2>1 DEF InPlaces
  <2> QED BY <2>2 DEF InOrder, names
<1> QED BY <1>2, <1>3, <1>4

(* Lists of one to three files; `left' is what remains for the others.     *)
LEMMA Filling ==
  ASSUME NEW from \in Int, NEW size \in Int, NEW within \in BOOLEAN
  PROVE  /\ \A a : a.size = size - from => Fills(<<a>>, from, size, within)
         /\ \A a, b : a.size \in Int /\ b.size \in Int /\ a.size + b.size = size - from
                        => Fills(<<a, b>>, from, size, within)
         /\ \A a, b, c : /\ a.size \in Int /\ b.size \in Int /\ c.size \in Int
                         /\ a.size + b.size + c.size = size - from
                         => Fills(<<a, b, c>>, from, size, within)
         /\ \A a, b : a.size = size - from /\ b.size \in Nat \ {0}
                        => Fills(<<a, b>>, from, size, TRUE)
         /\ \A a, b, c : a.size = size - from /\ b.size \in Nat \ {0}
                           => Fills(<<a, b, c>>, from, size, TRUE)
<1>1. ASSUME NEW a, a.size = size - from
      PROVE  Fills(<<a>>, from, size, within)
  <2> DEFINE q == <<a>>
  <2>1. Len(q) = 1 /\ DOMAIN q = 1..1 /\ q[1].size = size - from
    BY <1>1
  <2> HIDE DEF q
  <2> QED BY <2>1 DEF Fills, q
<1>2. ASSUME NEW a, NEW b, a.size \in Int, b.size \in Int
      PROVE  /\ a.size + b.size = size - from => Fills(<<a, b>>, from, size, within)
             /\ a.size = size - from /\ b.size > 0 => Fills(<<a, b>>, from, size, TRUE)
  <2> DEFINE q == <<a, b>>
  <2>1. Len(q) = 2 /\ DOMAIN q = 1..2 /\ q[1].size = a.size /\ q[2].size = b.size
    OBVIOUS
  <2> HIDE DEF q
  <2>2. ASSUME NEW to, to[0] = from, \A i \in DOMAIN q : to[i] = to[i - 1] + q[i].size
        PROVE  to[1] = from + a.size /\ to[2] = from + a.size + b.size
    BY <1>2, <2>1, <2>2
  <2> QED BY <1>2, <2>1, <2>2 DEF Fills, q
<1>3. ASSUME NEW a, NEW b, NEW c, a.size \in Int, b.size \in Int
      PROVE  /\ c.size \in Int /\ a.size + b.size + c.size = size - from
                  => Fills(<<a, b, c>>, from, size, within)
             /\ a.size = size - from /\ b.size > 0 => Fills(<<a, b, c>>, from, size, TRUE)
  <2> DEFINE q == <<a, b, c>>
  <2>1. /\ Len(q) = 3 /\ DOMAIN q = 1..3
        /\ q[1].size = a.size /\ q[2].size = b.size /\ q[3].size = c.size
    OBVIOUS
  <2> HIDE DEF q
  <2>2. ASSUME NEW to, to[0] = from, \A i \in DOMAIN q : to[i] = to[i - 1] + q[i].size
        PROVE  /\ to[1] = from + a.size /\ to[2] = from + a.size + b.size
               /\ to[3] = from + a.size + b.size + c.size
    BY <1>3, <2>1, <2>2
  <2> QED BY <1>3, <2>1, <2>2 DEF Fills, q
<1>4. ASSUME NEW a, NEW b, a.size = size - from, b.size \in Nat \ {0}
      PROVE  /\ Fills(<<a, b>>, from, size, TRUE)
             /\ \A c : Fills(<<a, b, c>>, from, size, TRUE)
  <2>1. a.size \in Int /\ b.size \in Int /\ b.size > 0
    BY <1>4
  <2> QED BY <1>2, <1>3, <1>4, <2>1
<1>5. /\ \A a, b : a.size \in Int /\ b.size \in Int /\ a.size + b.size = size - from
                    => Fills(<<a, b>>, from, size, within)
      /\ \A a, b, c : /\ a.size \in Int /\ b.size \in Int /\ c.size \in Int
                      /\ a.size + b.size + c.size = size - from
                      => Fills(<<a, b, c>>, from, size, within)
  <2> HIDE DEF Fills
  <2> QED BY <1>2, <1>3
<1> QED BY <1>1, <1>4, <1>5

LEMMA FourAndTwo ==
  ASSUME NEW a, NEW b, NEW c, NEW d, NEW e, NEW f, NEW q, q = <<a, b, c, d>> \o <<e, f>>
  PROVE  /\ DOMAIN q = 1..6 /\ Len(q) = 6
         /\ q[1] = a /\ q[2] = b /\ q[3] = c /\ q[4] = d /\ q[5] = e /\ q[6] = f
<1> DEFINE X == {a, b, c, d, e, f}
           p == <<a, b, c, d>>
           r == <<e, f>>
<1>1. p \in Seq(X) /\ Len(p) = 4 /\ p[1] = a /\ p[2] = b /\ p[3] = c /\ p[4] = d
  OBVIOUS
<1>2. r \in Seq(X) /\ Len(r) = 2 /\ r[1] = e /\ r[2] = f
  OBVIOUS
<1> HIDE DEF X, p, r
<1>3. \A u, v \in Seq(X) : /\ u \o v \in Seq(X) /\ Len(u \o v) = Len(u) + Len(v)
                           /\ \A i \in 1..Len(u) : (u \o v)[i] = u[i]
                           /\ \A i \in 1..Len(v) : (u \o v)[Len(u) + i] = v[i]
  OBVIOUS
<1>4. q = p \o r
  BY DEF p, r
<1> QED BY <1>1, <1>2, <1>3, <1>4

(* The competition cartridges.                                             *)
EventSizes(third) == {\h140000 + third, \h142000 + third}

LEMMA EventIs ==
  ASSUME NEW third \in Nat, NEW from \in Int, NEW size \in Int,
         size - from \in EventSizes(third)
  PROVE  LET q == OfIcarus!EventRoms(third)
         IN  /\ AsSequence(q) /\ InOrder(q, OfIcarus!SuperFamicomFiles)
             /\ \A i \in DOMAIN q : q[i].size \in Int
             /\ Fills(q, from, size, TRUE)
<1> DEFINE q == OfIcarus!EventRoms(third)
           order == OfIcarus!SuperFamicomFiles
<1>1. AsSequence(q)
  BY Rows, Joined, SMT DEF OfIcarus!EventRoms, OfIcarus!NecDsp
<1>2. /\ DOMAIN q = 1..6 /\ Len(q) = 6
      /\ q[1] = OfIcarus!Rom("program.rom", \h40000)
      /\ q[2] = OfIcarus!Rom("slot-1.rom", \h80000)
      /\ q[3] = OfIcarus!Rom("slot-2.rom", \h80000)
      /\ q[4] = OfIcarus!Rom("slot-3.rom", third)
      /\ q[5] = OfIcarus!Rom("dsp1.program.rom", \h1800)
      /\ q[6] = OfIcarus!Rom("dsp1.data.rom", \h800)
  BY FourAndTwo, SMT DEF OfIcarus!EventRoms, OfIcarus!NecDsp
<1> HIDE DEF q
<1>3. /\ q[1].name = "program.rom" /\ q[2].name = "slot-1.rom" /\ q[3].name = "slot-2.rom"
      /\ q[4].name = "slot-3.rom" /\ q[5].name = "dsp1.program.rom"
      /\ q[6].name = "dsp1.data.rom"
      /\ q[1].size = \h40000 /\ q[2].size = \h80000 /\ q[3].size = \h80000
      /\ q[4].size = third /\ q[5].size = \h1800 /\ q[6].size = \h800
  BY <1>2, SMT DEF OfIcarus!Rom
<1>4. InOrder(q, order)
  <2> DEFINE names == [n \in DOMAIN q |-> q[n].name]
             p == [n \in 1..6 |-> IF n = 1 THEN 1 ELSE IF n = 5 THEN 8
                                  ELSE IF n = 6 THEN 17 ELSE n + 1]
  <2>1. DOMAIN order = 1..24 /\ NamesAre(order)
    BY OrdersAre, SMT
  <2>2. p \in [1..6 -> 1..24]
    BY SMT
  <2>3. p[1] = 1 /\ p[2] = 3 /\ p[3] = 4 /\ p[4] = 5 /\ p[5] = 8 /\ p[6] = 17
    BY SMT
  <2>4. DOMAIN names = 1..6 /\ \A n \in 1..6 : names[n] = q[n].name
    BY <1>2, SMT
  <2> HIDE DEF names, p, order
  <2>5. \A n \in 1..6 : n \in {1, 2, 3, 4, 5, 6}
    BY SMT
  <2>6. \A k \in DOMAIN names : order[p[k]] = names[k]
    BY <1>3, <2>1, <2>3, <2>4, <2>5, SMT DEF NamesAre
  <2>7. \A k, l \in DOMAIN names : k < l => p[k] < p[l]
    BY <2>3, <2>4, <2>5, SMT
  <2>8. InPlaces(names, order, p)
    BY <2>1, <2>2, <2>4, <2>6, <2>7, SMT DEF InPlaces
  <2> QED BY <2>8, SMT DEF InOrder, names
<1>5. Fills(q, from, size, TRUE)
  <2> SUFFICES ASSUME NEW to, to[0] = from,
                      \A i \in DOMAIN q : to[i] = to[i - 1] + q[i].size /\ to[i] <= size
               PROVE  to[6] = size
    BY <1>2, SMT DEF Fills
  <2>1. /\ to[1] = from + \h40000 /\ to[2] = from + \hc0000 /\ to[3] = from + \h140000
        /\ to[4] = from + \h140000 + third /\ to[4] <= size
    BY <1>2, <1>3, SMT
  <2>2. /\ to[5] = from + \h141800 + third /\ to[5] <= size
        /\ to[6] = from + \h142000 + third
    BY <1>2, <1>3, <2>1, SMT
  <2> QED BY <2>1, <2>2, SMT DEF EventSizes
<1>6. \A i \in DOMAIN q : q[i].size \in Int
  BY <1>2, <1>3, SMT
<1>7. /\ AsSequence(q) /\ InOrder(q, order)
      /\ \A i \in DOMAIN q : q[i].size \in Int
      /\ Fills(q, from, size, TRUE)
  <2> HIDE DEF order
  <2> QED BY <1>1, <1>4, <1>5, <1>6, Zenon
<1> QED BY <1>7, Zenon DEF q, order

StandardTypes == {"SuperFX", "SA1", "LoROMSatellaview", "HiROMSatellaview", "ExLoROM",
                  "HiROM", "ExHiROM", "LoROM"}
BoardTypes == {"SufamiTurboBIOS", "SuperGameBoy1BIOS", "SuperGameBoy2BIOS", "SatellaviewBIOS"}

(* The conditions by names of their own, which the provers can count.      *)
LEMMA SpecialIs ==
  ASSUME NEW img, NEW head
  PROVE  LET special == OfIcarus!SpecialType(img, head)
         IN  /\ special \in {"none", "GameBoy", "Satellaview", "SufamiTurbo",
                            "SufamiTurboBIOS", "SuperGameBoy2BIOS", "SuperGameBoy1BIOS",
                            "SatellaviewBIOS", "CampusChallenge92", "Powerfest94"}
             /\ special = "CampusChallenge92" => OfIcarus!Payload(img) \in {\h1c0000, \h1c2000}
             /\ special = "Powerfest94" => OfIcarus!Payload(img) \in {\h240000, \h242000}
<1> DEFINE size == OfIcarus!Payload(img)
           flash == OfIcarus!IsFlash(head)
           campus == size \in {\h1c0000, \h1c2000}
           power == size \in {\h240000, \h242000}
           a == img.start = "GameBoy"
           b == img.start # "GameBoy" /\ flash
           c == img.start = "SufamiTurbo" /\ ~flash
           d == img.start = "SufamiTurboBIOS" /\ ~flash
           e == img.start = "other" /\ head.title = "Super GAMEBOY2"
           f == img.start = "other" /\ head.title = "Super GAMEBOY"
           g == img.start = "other" /\ head.title = "CC92" /\ campus
           h == img.start = "other" /\ head.title \in {"PF94", "PREHISTORIK MAN"}
                  /\ power
           i == img.start = "other" /\ OfIcarus!HasSatellaviewSlot(head)
                  /\ head.title = "Satellaview BS-X"
           special == OfIcarus!SpecialType(img, head)
<1>1. special = CASE a -> "GameBoy" [] b -> "Satellaview" [] c -> "SufamiTurbo"
                  [] d -> "SufamiTurboBIOS" [] e -> "SuperGameBoy2BIOS"
                  [] f -> "SuperGameBoy1BIOS" [] g -> "CampusChallenge92"
                  [] h -> "Powerfest94" [] i -> "SatellaviewBIOS" [] OTHER -> "none"
  BY SMT DEF OfIcarus!SpecialType
<1> HIDE DEF campus, power
<1>2. (g => campus) /\ (h => power)
  OBVIOUS
<1> HIDE DEF a, b, c, d, e, f, g, h, i, special
<1>3. /\ special \in {"none", "GameBoy", "Satellaview", "SufamiTurbo",
                      "SufamiTurboBIOS", "SuperGameBoy2BIOS", "SuperGameBoy1BIOS",
                      "SatellaviewBIOS", "CampusChallenge92", "Powerfest94"}
      /\ special = "CampusChallenge92" => g
      /\ special = "Powerfest94" => h
  BY <1>1, SMT
<1> QED BY <1>2, <1>3, SMT DEF special, campus, power

LEMMA CartIs ==
  ASSUME NEW img, NEW cart, cart = OfIcarus!ReadHeader(img)
  PROVE  \/ cart.chip = "none" /\ cart.type \in {"GameBoy", "Satellaview", "SufamiTurbo"}
         \/ cart.chip = "none" /\ cart.type \in BoardTypes
         \/ /\ cart.chip = "none" /\ cart.type = "CampusChallenge92"
            /\ OfIcarus!Payload(img) \in {\h1c0000, \h1c2000}
         \/ /\ cart.chip = "none" /\ cart.type = "Powerfest94"
            /\ OfIcarus!Payload(img) \in {\h240000, \h242000}
         \/ /\ cart.chip \in OfIcarus!Coprocessors \cup {"none"}
            /\ cart.type \in StandardTypes
<1> DEFINE place == OfIcarus!FindHeader(img)
           h == img.headers[place]
           special == OfIcarus!SpecialType(img, h)
<1>1. cart = IF special # "none" THEN [type |-> special, chip |-> "none"]
             ELSE [type |-> OfIcarus!StandardType(place, h, OfIcarus!Payload(img)),
                   chip |-> OfIcarus!ChipOf(h)]
  BY SMT DEF OfIcarus!ReadHeader
<1> HIDE DEF place, h
<1>2. OfIcarus!ChipOf(h) \in OfIcarus!Coprocessors \cup {"none"}
  BY SMT DEF OfIcarus!ChipOf
<1>3. OfIcarus!StandardType(place, h, OfIcarus!Payload(img)) \in StandardTypes
  BY SMT DEF OfIcarus!StandardType, StandardTypes
<1>4. /\ special \in {"none", "GameBoy", "Satellaview", "SufamiTurbo", "CampusChallenge92",
                      "Powerfest94"} \cup BoardTypes
      /\ special = "CampusChallenge92" => OfIcarus!Payload(img) \in {\h1c0000, \h1c2000}
      /\ special = "Powerfest94" => OfIcarus!Payload(img) \in {\h240000, \h242000}
  BY SpecialIs, SMT DEF BoardTypes
<1> HIDE DEF special
<1>5. CASE special # "none"
  BY <1>1, <1>4, <1>5, SMT DEF BoardTypes
<1>6. CASE special = "none"
  BY <1>1, <1>2, <1>3, <1>6, SMT
<1> QED BY <1>5, <1>6, SMT

(* A list of ROM files as icarus' boards are.                              *)
Suits(q, order, from, size, within) ==
  /\ AsSequence(q) /\ InOrder(q, order)
  /\ \A i \in DOMAIN q : q[i].size \in Int
  /\ Fills(q, from, size, within)

LEMMA SuitsOne ==
  ASSUME NEW order, AsSequence(order), NEW from \in Int, NEW size \in Int, NEW within \in BOOLEAN,
         NEW i \in DOMAIN order, NEW a, a.name = order[i], a.size = size - from
  PROVE  Suits(<<a>>, order, from, size, within)
<1>1. AsSequence(<<a>>) /\ InOrder(<<a>>, order) /\ Fills(<<a>>, from, size, within)
  BY Rows, Listing, Filling
<1>2. \A n \in DOMAIN <<a>> : <<a>>[n].size \in Int
  OBVIOUS
<1> QED BY <1>1, <1>2 DEF Suits

(* Firmware behind the program is in the image, or there is too little of  *)
(* it.                                                                     *)
LEMMA SuitsTwo ==
  ASSUME NEW order, AsSequence(order), NEW from \in Int, NEW size \in Int,
         NEW i \in DOMAIN order, NEW j \in DOMAIN order, i < j,
         NEW a, NEW b, a.name = order[i], b.name = order[j], b.size \in Nat \ {0},
         NEW less \in {0, b.size}, a.size = size - from - less
  PROVE  Suits(<<a, b>>, order, from, size, TRUE)
<1>1. AsSequence(<<a, b>>) /\ InOrder(<<a, b>>, order)
  BY Rows, Listing
<1>2. a.size \in Int /\ b.size \in Int
  OBVIOUS
<1>3. Fills(<<a, b>>, from, size, TRUE)
  <2>1. CASE less = 0
    <3>1. a.size = size - from
      BY <2>1
    <3> QED BY <3>1, Filling
  <2>2. CASE less = b.size
    <3>1. a.size + b.size = size - from
      BY <2>2
    <3> QED BY <1>2, <3>1, Filling
  <2> QED BY <2>1, <2>2
<1>4. \A n \in DOMAIN <<a, b>> : <<a, b>>[n].size \in Int
  <2>1. DOMAIN <<a, b>> = {1, 2} /\ <<a, b>>[1] = a /\ <<a, b>>[2] = b
    OBVIOUS
  <2> QED BY <1>2, <2>1
<1> QED BY <1>1, <1>3, <1>4 DEF Suits

LEMMA SuitsThree ==
  ASSUME NEW order, AsSequence(order), NEW from \in Int, NEW size \in Int,
         NEW i \in DOMAIN order, NEW j \in DOMAIN order, NEW k \in DOMAIN order, i < j, j < k,
         NEW a, NEW b, NEW c, a.name = order[i], b.name = order[j], c.name = order[k],
         b.size \in Nat \ {0}, c.size \in Nat \ {0},
         NEW less \in {0, b.size + c.size}, a.size = size - from - less
  PROVE  Suits(<<a, b, c>>, order, from, size, TRUE)
<1>1. AsSequence(<<a, b, c>>) /\ InOrder(<<a, b, c>>, order)
  <2>1. <<a, b, c>> \in Seq({a, b, c})
    OBVIOUS
  <2> QED BY <2>1, Listing DEF AsSequence
<1>2. a.size \in Int /\ b.size \in Int /\ c.size \in Int
  OBVIOUS
<1>3. Fills(<<a, b, c>>, from, size, TRUE)
  <2>1. CASE less = 0
    <3>1. a.size = size - from
      BY <2>1
    <3> QED BY <3>1, Filling
  <2>2. CASE less = b.size + c.size
    <3>1. a.size + b.size + c.size = size - from
      BY <1>2, <2>2
    <3> QED BY <1>2, <3>1, Filling
  <2> QED BY <2>1, <2>2
<1>4. \A n \in DOMAIN <<a, b, c>> : <<a, b, c>>[n].size \in Int
  <2>1. /\ DOMAIN <<a, b, c>> = {1, 2, 3}
        /\ <<a, b, c>>[1] = a /\ <<a, b, c>>[2] = b /\ <<a, b, c>>[3] = c
    OBVIOUS
  <2> QED BY <1>2, <2>1
<1> QED BY <1>1, <1>3, <1>4 DEF Suits

LEMMA Glued ==
  /\ \A p : AsSequence(p) => p \o <<>> = p
  /\ \A a, b, c : <<a>> \o <<b, c>> = <<a, b, c>>
<1>1. ASSUME NEW p, AsSequence(p) PROVE p \o <<>> = p
  BY <1>1 DEF AsSequence
<1>2. ASSUME NEW a, NEW b, NEW c PROVE <<a>> \o <<b, c>> = <<a, b, c>>
  <2> DEFINE X == {a, b, c}
             p == <<a>>
             r == <<b, c>>
             t == <<a, b, c>>
  <2>1. /\ p \in Seq(X) /\ Len(p) = 1 /\ p[1] = a
        /\ r \in Seq(X) /\ Len(r) = 2 /\ r[1] = b /\ r[2] = c
        /\ t \in Seq(X) /\ Len(t) = 3 /\ t[1] = a /\ t[2] = b /\ t[3] = c
    OBVIOUS
  <2> HIDE DEF X, p, r, t
  <2>2. /\ p \o r \in Seq(X) /\ Len(p \o r) = 3
        /\ (p \o r)[1] = a /\ (p \o r)[2] = b /\ (p \o r)[3] = c
    <3>1. \A u, v \in Seq(X) : /\ u \o v \in Seq(X) /\ Len(u \o v) = Len(u) + Len(v)
                               /\ \A i \in 1..Len(u) : (u \o v)[i] = u[i]
                               /\ \A i \in 1..Len(v) : (u \o v)[Len(u) + i] = v[i]
      OBVIOUS
    <3>4. /\ p \o r \in Seq(X) /\ Len(p \o r) = Len(p) + Len(r)
          /\ \A i \in 1..Len(p) : (p \o r)[i] = p[i]
          /\ \A i \in 1..Len(r) : (p \o r)[Len(p) + i] = r[i]
      BY <2>1, <3>1, Zenon
    <3>2. /\ p \o r \in Seq(X) /\ Len(p \o r) = 1 + 2 /\ (p \o r)[1] = p[1]
          /\ \A i \in 1..2 : (p \o r)[1 + i] = r[i]
      BY <2>1, <3>4
    <3>3. (p \o r)[1 + 1] = r[1] /\ (p \o r)[1 + 2] = r[2]
      BY <3>2
    <3> QED BY <2>1, <3>2, <3>3
  <2>3. \A n \in 1..3 : (p \o r)[n] = t[n]
    BY <2>1, <2>2
  <2>4. p \o r = t
    BY <2>1, <2>2, <2>3
  <2> QED BY <2>4 DEF p, r, t
<1> QED BY <1>1, <1>2

LEMMA TwoAndOne ==
  \A a, b, c : <<a, b>> \o <<c>> = <<a, b, c>>
<1> SUFFICES ASSUME NEW a, NEW b, NEW c PROVE <<a, b>> \o <<c>> = <<a, b, c>>
  OBVIOUS
<1> DEFINE X == {a, b, c}
           p == <<a, b>>
           r == <<c>>
           t == <<a, b, c>>
<1>1. /\ p \in Seq(X) /\ Len(p) = 2 /\ p[1] = a /\ p[2] = b
      /\ r \in Seq(X) /\ Len(r) = 1 /\ r[1] = c
      /\ t \in Seq(X) /\ Len(t) = 3 /\ t[1] = a /\ t[2] = b /\ t[3] = c
  OBVIOUS
<1> HIDE DEF X, p, r, t
<1>2. \A u, v \in Seq(X) : /\ u \o v \in Seq(X) /\ Len(u \o v) = Len(u) + Len(v)
                           /\ \A i \in 1..Len(u) : (u \o v)[i] = u[i]
                           /\ \A i \in 1..Len(v) : (u \o v)[Len(u) + i] = v[i]
  OBVIOUS
<1>3. /\ p \o r \in Seq(X) /\ Len(p \o r) = Len(p) + Len(r)
      /\ \A i \in 1..Len(p) : (p \o r)[i] = p[i]
      /\ \A i \in 1..Len(r) : (p \o r)[Len(p) + i] = r[i]
  BY <1>1, <1>2, Zenon
<1>4. /\ p \o r \in Seq(X) /\ Len(p \o r) = 2 + 1 /\ (p \o r)[1] = p[1]
      /\ (p \o r)[2] = p[2] /\ \A i \in 1..1 : (p \o r)[2 + i] = r[i]
  BY <1>1, <1>3
<1>5. (p \o r)[2 + 1] = r[1]
  BY <1>4
<1>6. \A n \in 1..3 : (p \o r)[n] = t[n]
  BY <1>1, <1>4, <1>5
<1>7. p \o r = t
  BY <1>1, <1>4, <1>6
<1> QED BY <1>7 DEF p, r, t

LEMMA FirmwareIs ==
  ASSUME NEW img, NEW cart
  PROVE  LET fw == OfIcarus!FirmwareSize(img, cart)
         IN  /\ cart.chip \in {"DSP1", "DSP2", "DSP3", "DSP4"} => fw \in {0, \h2000}
             /\ cart.chip \in {"ST010", "ST011"} => fw \in {0, \hd000}
             /\ cart.chip = "ST018" => fw \in {0, \h28000}
             /\ cart.chip = "CX4" => fw \in {0, \hc00}
             /\ cart.chip = "SPC7110" => fw = 0
             /\ cart.chip = "none" =>
                  IF cart.type \in {"SuperGameBoy1BIOS", "SuperGameBoy2BIOS"}
                  THEN fw \in {0, \h100}
                  ELSE cart.type \in StandardTypes \cup BoardTypes => fw = 0
<1> DEFINE c == IF cart.chip = "none" THEN cart.type ELSE cart.chip
           fw == OfIcarus!FirmwareSize(img, cart)
<1>1. fw \in {0, OfIcarus!Appended(c).size}
  <2> DEFINE a == OfIcarus!Appended(c)
  <2>1. fw = IF OfIcarus!Payload(img) % a.unit = a.size THEN a.size ELSE 0
    BY SMT DEF OfIcarus!FirmwareSize
  <2> HIDE DEF a
  <2>2. fw \in {0, a.size}
    BY <2>1, SMT
  <2> QED BY <2>2, SMT DEF a
<1> HIDE DEF fw, c
<1>2. c \in {"DSP1", "DSP2", "DSP3", "DSP4"} => OfIcarus!Appended(c).size = \h2000
  BY SMT DEF OfIcarus!Appended
<1>3. c \in {"ST010", "ST011"} => OfIcarus!Appended(c).size = \hd000
  BY SMT DEF OfIcarus!Appended
<1>4. c = "ST018" => OfIcarus!Appended(c).size = \h28000
  BY SMT DEF OfIcarus!Appended
<1>5. c = "CX4" => OfIcarus!Appended(c).size = \hc00
  BY SMT DEF OfIcarus!Appended
<1>6. c \in {"SuperGameBoy1BIOS", "SuperGameBoy2BIOS"} => OfIcarus!Appended(c).size = \h100
  BY SMT DEF OfIcarus!Appended
<1>7. c \notin {"DSP1", "DSP2", "DSP3", "DSP4", "ST010", "ST011", "ST018", "CX4",
                "SuperGameBoy1BIOS", "SuperGameBoy2BIOS"} => OfIcarus!Appended(c).size = 0
  BY SMT DEF OfIcarus!Appended
<1>8. cart.chip \in {"DSP1", "DSP2", "DSP3", "DSP4"} => fw \in {0, \h2000}
  BY <1>1, <1>2, SMT DEF c
<1>9. /\ cart.chip \in {"ST010", "ST011"} => fw \in {0, \hd000}
      /\ cart.chip = "ST018" => fw \in {0, \h28000}
      /\ cart.chip = "CX4" => fw \in {0, \hc00}
      /\ cart.chip = "SPC7110" => fw = 0
  BY <1>1, <1>3, <1>4, <1>5, <1>7, SMT DEF c
<1>10. cart.chip = "none" =>
         IF cart.type \in {"SuperGameBoy1BIOS", "SuperGameBoy2BIOS"}
         THEN fw \in {0, \h100}
         ELSE cart.type \in StandardTypes \cup BoardTypes => fw = 0
  BY <1>1, <1>6, <1>7, SMT DEF c, StandardTypes, BoardTypes
<1> QED BY <1>8, <1>9, <1>10, SMT DEF fw

LEMMA CommonIs ==
  ASSUME NEW cart, NEW size,
         cart.type \in {"SuperGameBoy1BIOS", "SuperGameBoy2BIOS"} => cart.chip = "none"
  PROVE  LET q == OfIcarus!CommonBoard(cart, size)
             rom == OfIcarus!Rom("program.rom", size)
         IN  /\ cart.type = "SuperGameBoy1BIOS" => q = <<rom, OfIcarus!Rom("sgb1.boot.rom", \h100)>>
             /\ cart.type = "SuperGameBoy2BIOS" => q = <<rom, OfIcarus!Rom("sgb2.boot.rom", \h100)>>
             /\ cart.chip = "CX4" => q = <<rom, OfIcarus!Rom("cx4.data.rom", \hc00)>>
             /\ cart.chip = "SPC7110" =>
                  q = <<OfIcarus!Rom("program.rom", \h100000),
                        OfIcarus!Rom("data.rom", OfIcarus!Wrapped(size - \h100000))>>
             /\ cart.type \notin {"SuperGameBoy1BIOS", "SuperGameBoy2BIOS"}
                  /\ cart.chip \notin {"CX4", "SPC7110"} => q = <<rom>>
<1> DEFINE q == OfIcarus!CommonBoard(cart, size)
           rom == OfIcarus!Rom("program.rom", size)
           a == <<rom, OfIcarus!Rom("sgb1.boot.rom", \h100)>>
           b == <<rom, OfIcarus!Rom("sgb2.boot.rom", \h100)>>
           c == <<rom, OfIcarus!Rom("cx4.data.rom", \hc00)>>
           d == <<OfIcarus!Rom("program.rom", \h100000),
                  OfIcarus!Rom("data.rom", OfIcarus!Wrapped(size - \h100000))>>
           e == <<rom>>
<1>1. q = CASE cart.type = "SuperGameBoy1BIOS" -> a [] cart.type = "SuperGameBoy2BIOS" -> b
            [] cart.chip = "CX4" -> c [] cart.chip = "SPC7110" -> d [] OTHER -> e
  BY SMT DEF OfIcarus!CommonBoard
<1> HIDE DEF q, a, b, c, d, e
<1>2. /\ cart.type = "SuperGameBoy1BIOS" => q = a
      /\ cart.type = "SuperGameBoy2BIOS" => q = b
      /\ cart.chip = "CX4" => q = c
      /\ cart.chip = "SPC7110" => q = d
      /\ cart.type \notin {"SuperGameBoy1BIOS", "SuperGameBoy2BIOS"}
           /\ cart.chip \notin {"CX4", "SPC7110"} => q = e
  BY <1>1, SMT
<1> QED BY <1>2, SMT DEF q, a, b, c, d, e

FitsImage(q, from, size) == Suits(q, OfIcarus!SuperFamicomFiles, from, size, TRUE)

(* The firmware of a chip behind a program.                                *)
Behind(n, m) ==
  \E j, k \in 1..24 : /\ 1 < j /\ j < k
                      /\ n = OfIcarus!SuperFamicomFiles[j] /\ m = OfIcarus!SuperFamicomFiles[k]

LEMMA FirmwareBehind ==
  ASSUME NEW from \in Int, NEW size \in Int, NEW n, NEW m, Behind(n, m),
         NEW u \in Nat \ {0}, NEW v \in Nat \ {0}, NEW less \in {0, u + v}
  PROVE  Suits(<<OfIcarus!Rom("program.rom", size - from - less)>>
                 \o <<OfIcarus!Rom(n, u), OfIcarus!Rom(m, v)>>,
               OfIcarus!SuperFamicomFiles, from, size, TRUE)
<1> DEFINE order == OfIcarus!SuperFamicomFiles
           a == OfIcarus!Rom("program.rom", size - from - less)
           b == OfIcarus!Rom(n, u)
           d == OfIcarus!Rom(m, v)
<1>0. PICK j \in 1..24, k \in 1..24 : 1 < j /\ j < k /\ n = order[j] /\ m = order[k]
  BY DEF Behind
<1>1. AsSequence(order) /\ DOMAIN order = 1..24 /\ order[1] = "program.rom"
  BY OrdersAre DEF NamesAre
<1>2. /\ a.name = "program.rom" /\ a.size = size - from - less
      /\ b.name = order[j] /\ b.size = u /\ d.name = order[k] /\ d.size = v
  BY <1>0 DEF OfIcarus!Rom
<1> HIDE DEF order, a, b, d
<1>3. 1 \in DOMAIN order /\ j \in DOMAIN order /\ k \in DOMAIN order /\ a.name = order[1]
  BY <1>0, <1>1, <1>2
<1>4. less \in {0, b.size + d.size} /\ b.size \in Nat \ {0} /\ d.size \in Nat \ {0}
  BY <1>2
<1>5. Suits(<<a, b, d>>, order, from, size, TRUE)
  BY <1>0, <1>1, <1>2, <1>3, <1>4, SuitsThree
<1>6. <<a>> \o <<b, d>> = <<a, b, d>>
  BY Glued
<1> QED BY <1>5, <1>6 DEF order, a, b, d

LEMMA FirmwareThere ==
  ASSUME NEW from \in Int, NEW size \in Int, NEW n, NEW m, Behind(n, m),
         NEW u \in Nat \ {0}, NEW v \in Nat \ {0}, NEW less \in {0, u + v},
         NEW total, total = size - from - less,
         NEW roms, roms = <<OfIcarus!Rom(n, u), OfIcarus!Rom(m, v)>>
  PROVE  FitsImage(<<OfIcarus!Rom("program.rom", total)>> \o roms, from, size)
BY FirmwareBehind DEF FitsImage

LEMMA ChipsAre ==
  /\ Behind("dsp1b.program.rom", "dsp1b.data.rom") /\ Behind("dsp2.program.rom", "dsp2.data.rom")
  /\ Behind("dsp3.program.rom", "dsp3.data.rom") /\ Behind("dsp4.program.rom", "dsp4.data.rom")
  /\ Behind("st010.program.rom", "st010.data.rom") /\ Behind("st011.program.rom", "st011.data.rom")
  /\ Behind("st018.program.rom", "st018.data.rom")
<1> DEFINE order == OfIcarus!SuperFamicomFiles
<1>1. NamesAre(order)
  BY OrdersAre, SMT
<1> HIDE DEF order
<1>3. Behind("dsp1b.program.rom", "dsp1b.data.rom")
  <2>1. 9 \in 1..24 /\ 18 \in 1..24 /\ order[9] = "dsp1b.program.rom" /\ order[18] = "dsp1b.data.rom"
    BY <1>1, SMT DEF NamesAre
  <2> QED BY <2>1, SMT DEF Behind, order
<1>4. Behind("dsp2.program.rom", "dsp2.data.rom")
  <2>1. 10 \in 1..24 /\ 19 \in 1..24 /\ order[10] = "dsp2.program.rom" /\ order[19] = "dsp2.data.rom"
    BY <1>1, SMT DEF NamesAre
  <2> QED BY <2>1, SMT DEF Behind, order
<1>5. Behind("dsp3.program.rom", "dsp3.data.rom")
  <2>1. 11 \in 1..24 /\ 20 \in 1..24 /\ order[11] = "dsp3.program.rom" /\ order[20] = "dsp3.data.rom"
    BY <1>1, SMT DEF NamesAre
  <2> QED BY <2>1, SMT DEF Behind, order
<1>6. Behind("dsp4.program.rom", "dsp4.data.rom")
  <2>1. 12 \in 1..24 /\ 21 \in 1..24 /\ order[12] = "dsp4.program.rom" /\ order[21] = "dsp4.data.rom"
    BY <1>1, SMT DEF NamesAre
  <2> QED BY <2>1, SMT DEF Behind, order
<1>7. Behind("st010.program.rom", "st010.data.rom")
  <2>1. 13 \in 1..24 /\ 22 \in 1..24 /\ order[13] = "st010.program.rom" /\ order[22] = "st010.data.rom"
    BY <1>1, SMT DEF NamesAre
  <2> QED BY <2>1, SMT DEF Behind, order
<1>8. Behind("st011.program.rom", "st011.data.rom")
  <2>1. 14 \in 1..24 /\ 23 \in 1..24 /\ order[14] = "st011.program.rom" /\ order[23] = "st011.data.rom"
    BY <1>1, SMT DEF NamesAre
  <2> QED BY <2>1, SMT DEF Behind, order
<1>9. Behind("st018.program.rom", "st018.data.rom")
  <2>1. 15 \in 1..24 /\ 24 \in 1..24 /\ order[15] = "st018.program.rom" /\ order[24] = "st018.data.rom"
    BY <1>1, SMT DEF NamesAre
  <2> QED BY <2>1, SMT DEF Behind, order
<1> QED BY <1>3, <1>4, <1>5, <1>6, <1>7, <1>8, <1>9, SMT

LEMMA ChipIs ==
  ASSUME NEW c \in {"DSP1", "DSP2", "DSP3", "DSP4", "ST010", "ST011", "ST018"},
         NEW from \in Int, NEW size \in Int, NEW less, NEW total, total = size - from - less,
         c \in {"DSP1", "DSP2", "DSP3", "DSP4"} => less \in {0, \h2000},
         c \in {"ST010", "ST011"} => less \in {0, \hd000},
         c = "ST018" => less \in {0, \h28000}
  PROVE  FitsImage(<<OfIcarus!Rom("program.rom", total)>> \o OfIcarus!ChipRoms(c), from, size)
<1> DEFINE Fits == FitsImage(<<OfIcarus!Rom("program.rom", total)>> \o OfIcarus!ChipRoms(c), from, size)
<1>1. ASSUME NEW n, NEW m, Behind(n, m), NEW u \in Nat \ {0}, NEW v \in Nat \ {0}, less \in {0, u + v},
             OfIcarus!ChipRoms(c) = <<OfIcarus!Rom(n, u), OfIcarus!Rom(m, v)>>
      PROVE  Fits
  BY <1>1, FirmwareThere, SMT
<1> HIDE DEF Fits
<1>2. ASSUME c = "DSP1" PROVE Fits
  <2>1. OfIcarus!ChipRoms(c) = <<OfIcarus!Rom("dsp1b.program.rom", \h1800),
                                 OfIcarus!Rom("dsp1b.data.rom", \h800)>>
    BY <1>2, SMT DEF OfIcarus!ChipRoms, OfIcarus!NecDsp
  <2>2. less \in {0, \h1800 + \h800}
    BY <1>2, SMT
  <2> QED BY <1>1, <2>1, <2>2, ChipsAre, SMT
<1>3. ASSUME c = "DSP2" PROVE Fits
  <2>1. OfIcarus!ChipRoms(c) = <<OfIcarus!Rom("dsp2.program.rom", \h1800),
                                 OfIcarus!Rom("dsp2.data.rom", \h800)>>
    BY <1>3, SMT DEF OfIcarus!ChipRoms, OfIcarus!NecDsp
  <2>2. less \in {0, \h1800 + \h800}
    BY <1>3, SMT
  <2> QED BY <1>1, <2>1, <2>2, ChipsAre, SMT
<1>4. ASSUME c = "DSP3" PROVE Fits
  <2>1. OfIcarus!ChipRoms(c) = <<OfIcarus!Rom("dsp3.program.rom", \h1800),
                                 OfIcarus!Rom("dsp3.data.rom", \h800)>>
    BY <1>4, SMT DEF OfIcarus!ChipRoms, OfIcarus!NecDsp
  <2>2. less \in {0, \h1800 + \h800}
    BY <1>4, SMT
  <2> QED BY <1>1, <2>1, <2>2, ChipsAre, SMT
<1>5. ASSUME c = "DSP4" PROVE Fits
  <2>1. OfIcarus!ChipRoms(c) = <<OfIcarus!Rom("dsp4.program.rom", \h1800),
                                 OfIcarus!Rom("dsp4.data.rom", \h800)>>
    BY <1>5, SMT DEF OfIcarus!ChipRoms, OfIcarus!NecDsp
  <2>2. less \in {0, \h1800 + \h800}
    BY <1>5, SMT
  <2> QED BY <1>1, <2>1, <2>2, ChipsAre, SMT
<1>6. ASSUME c = "ST010" PROVE Fits
  <2>1. OfIcarus!ChipRoms(c) = <<OfIcarus!Rom("st010.program.rom", \hc000),
                                 OfIcarus!Rom("st010.data.rom", \h1000)>>
    BY <1>6, SMT DEF OfIcarus!ChipRoms, OfIcarus!Seta
  <2>2. less \in {0, \hc000 + \h1000}
    BY <1>6, SMT
  <2> QED BY <1>1, <2>1, <2>2, ChipsAre, SMT
<1>7. ASSUME c = "ST011" PROVE Fits
  <2>1. OfIcarus!ChipRoms(c) = <<OfIcarus!Rom("st011.program.rom", \hc000),
                                 OfIcarus!Rom("st011.data.rom", \h1000)>>
    BY <1>7, SMT DEF OfIcarus!ChipRoms, OfIcarus!Seta
  <2>2. less \in {0, \hc000 + \h1000}
    BY <1>7, SMT
  <2> QED BY <1>1, <2>1, <2>2, ChipsAre, SMT
<1>8. ASSUME c = "ST018" PROVE Fits
  <2>1. OfIcarus!ChipRoms(c) = <<OfIcarus!Rom("st018.program.rom", \h20000),
                                 OfIcarus!Rom("st018.data.rom", \h8000)>>
    BY <1>8, SMT DEF OfIcarus!ChipRoms
  <2>2. less \in {0, \h20000 + \h8000}
    BY <1>8, SMT
  <2> QED BY <1>1, <2>1, <2>2, ChipsAre, SMT
<1>9. Fits
  BY <1>2, <1>3, <1>4, <1>5, <1>6, <1>7, <1>8, SMT
<1> QED BY <1>9, SMT DEF Fits

LEMMA ProgramAlone ==
  ASSUME NEW from \in Int, NEW size \in Int, NEW total, total = size - from
  PROVE  FitsImage(<<OfIcarus!Rom("program.rom", total)>>, from, size)
<1> DEFINE order == OfIcarus!SuperFamicomFiles
           a == OfIcarus!Rom("program.rom", total)
<1>1. AsSequence(order) /\ 1 \in DOMAIN order /\ a.name = order[1] /\ a.size = size - from
  BY OrdersAre DEF NamesAre, OfIcarus!Rom
<1> HIDE DEF order, a
<1>2. Suits(<<a>>, order, from, size, TRUE)
  BY <1>1, SuitsOne
<1> QED BY <1>2 DEF FitsImage, order, a

LEMMA BootBehind ==
  ASSUME NEW from \in Int, NEW size \in Int, NEW n \in {"sgb1.boot.rom", "sgb2.boot.rom", "cx4.data.rom"},
         NEW u \in Nat \ {0}, NEW less \in {0, u}, NEW total, total = size - from - less
  PROVE  FitsImage(<<OfIcarus!Rom("program.rom", total), OfIcarus!Rom(n, u)>>, from, size)
<1> DEFINE order == OfIcarus!SuperFamicomFiles
           a == OfIcarus!Rom("program.rom", total)
           b == OfIcarus!Rom(n, u)
<1>1. /\ AsSequence(order) /\ DOMAIN order = 1..24 /\ order[1] = "program.rom"
      /\ order[6] = "sgb1.boot.rom" /\ order[7] = "sgb2.boot.rom" /\ order[16] = "cx4.data.rom"
  BY OrdersAre DEF NamesAre
<1>2. /\ a.name = "program.rom" /\ a.size = size - from - less
      /\ b.name = n /\ b.size = u
  BY DEF OfIcarus!Rom
<1> HIDE DEF order, a, b
<1>3. PICK j \in DOMAIN order : 1 < j /\ n = order[j]
  <2>1. 6 \in DOMAIN order /\ 7 \in DOMAIN order /\ 16 \in DOMAIN order
    BY <1>1
  <2> QED BY <1>1, <2>1
<1>4. 1 \in DOMAIN order
  BY <1>1
<1>5. Suits(<<a, b>>, order, from, size, TRUE)
  BY <1>1, <1>2, <1>3, <1>4, SuitsTwo
<1> QED BY <1>5 DEF FitsImage, order, a, b

(* Of an SPC7110 image below 1 MB the program does not fit.                *)
LEMMA DataBehind ==
  ASSUME NEW from \in Int, NEW size \in Int, NEW u \in Nat, NEW v \in Int,
         u + v = size - from \/ u > size - from
  PROVE  FitsImage(<<OfIcarus!Rom("program.rom", u), OfIcarus!Rom("data.rom", v)>>, from, size)
<1> DEFINE order == OfIcarus!SuperFamicomFiles
           a == OfIcarus!Rom("program.rom", u)
           b == OfIcarus!Rom("data.rom", v)
           q == <<a, b>>
<1>1. /\ AsSequence(order) /\ DOMAIN order = 1..24 /\ order[1] = "program.rom"
      /\ order[2] = "data.rom"
  BY OrdersAre DEF NamesAre
<1>2. /\ a.name = "program.rom" /\ a.size = u
      /\ b.name = "data.rom" /\ b.size = v
  BY DEF OfIcarus!Rom
<1> HIDE DEF order, a, b
<1>3. 1 \in DOMAIN order /\ 2 \in DOMAIN order
  BY <1>1
<1>4. AsSequence(q) /\ InOrder(q, order)
  BY <1>1, <1>2, <1>3, Rows, Listing
<1>5. DOMAIN q = {1, 2} /\ Len(q) = 2 /\ q[1] = a /\ q[2] = b
  OBVIOUS
<1>6. \A n \in DOMAIN q : q[n].size \in Int
  <2> HIDE DEF q
  <2> QED BY <1>2, <1>5
<1>7. Fills(q, from, size, TRUE)
  <2> HIDE DEF q
  <2> SUFFICES ASSUME NEW to, to[0] = from,
                      \A i \in DOMAIN q : to[i] = to[i - 1] + q[i].size /\ to[i] <= size
               PROVE  to[2] = size
    BY <1>5 DEF Fills
  <2>1. to[1] = to[0] + u /\ to[1] <= size /\ to[2] = to[1] + v
    BY <1>2, <1>5
  <2> QED BY <2>1
<1>8. Suits(q, order, from, size, TRUE)
  <2> HIDE DEF q
  <2> QED BY <1>4, <1>6, <1>7 DEF Suits
<1> QED BY <1>8 DEF FitsImage, order, q, a, b

LEMMA FittingIsList ==
  ASSUME NEW q, NEW from, NEW size, FitsImage(q, from, size)
  PROVE  AsSequence(q)
BY DEF FitsImage, Suits

LEMMA EventFits ==
  ASSUME NEW third \in Nat, NEW from \in Int, NEW size \in Int,
         size - from \in EventSizes(third),
         NEW q, q = OfIcarus!EventRoms(third)
  PROVE  FitsImage(q, from, size)
BY EventIs DEF FitsImage, Suits

LEMMA WithNothing ==
  ASSUME NEW p, AsSequence(p), NEW none, none = <<>>, NEW q, q = p \o none
  PROVE  q = p
BY Glued

(* The constructor: each board's files are the image, with or without the  *)
(* firmware that its chip has.                                             *)
LEMMA BoardIs ==
  ASSUME NEW img, img.size \in Nat, NEW q, q = OfIcarus!Markup("icarus", img, FALSE),
         q # OfIcarus!NoBoard
  PROVE  FitsImage(q, OfIcarus!CopierHeader(img), img.size)
<1> DEFINE cart == OfIcarus!ReadHeader(img)
           from == OfIcarus!CopierHeader(img)
           size == img.size
           payload == OfIcarus!Payload(img)
           fw == OfIcarus!FirmwareSize(img, cart)
           total == payload - fw
           main == OfIcarus!IcarusBoard(img, cart)
           chips == OfIcarus!ChipRoms(cart.chip)
           rom == OfIcarus!Rom("program.rom", total)
           last == <<>>
           whole == main \o chips
           Fits == FitsImage(q, from, size)
<1>1. from \in Int /\ size \in Int /\ payload = size - from
  BY SMT DEF OfIcarus!CopierHeader, OfIcarus!Payload
<1>0. q = whole \o last
  BY SMT DEF OfIcarus!Markup
<1>2. cart.type \notin {"GameBoy", "Satellaview", "SufamiTurbo"}
  BY SMT DEF OfIcarus!Markup
<1>3. /\ cart.type = "CampusChallenge92" => main = OfIcarus!EventRoms(\h80000)
      /\ cart.type = "Powerfest94" => main = OfIcarus!EventRoms(\h100000)
      /\ cart.type \notin {"CampusChallenge92", "Powerfest94"}
           => main = OfIcarus!CommonBoard(cart, total)
  BY SMT DEF OfIcarus!IcarusBoard
<1>4. cart.chip \in {"none", "CX4", "SPC7110"} => chips = <<>>
  BY SMT DEF OfIcarus!ChipRoms
<1>5. /\ cart.chip \in {"DSP1", "DSP2", "DSP3", "DSP4"} => fw \in {0, \h2000}
      /\ cart.chip \in {"ST010", "ST011"} => fw \in {0, \hd000}
      /\ cart.chip = "ST018" => fw \in {0, \h28000}
      /\ cart.chip = "CX4" => fw \in {0, \hc00}
      /\ cart.chip = "SPC7110" => fw = 0
      /\ cart.chip = "none" =>
           IF cart.type \in {"SuperGameBoy1BIOS", "SuperGameBoy2BIOS"}
           THEN fw \in {0, \h100}
           ELSE cart.type \in StandardTypes \cup BoardTypes => fw = 0
  BY FirmwareIs, SMT
<1>6. \/ cart.chip = "none" /\ cart.type \in BoardTypes
      \/ /\ cart.chip = "none" /\ cart.type = "CampusChallenge92"
         /\ payload \in {\h1c0000, \h1c2000}
      \/ /\ cart.chip = "none" /\ cart.type = "Powerfest94"
         /\ payload \in {\h240000, \h242000}
      \/ cart.chip \in OfIcarus!Coprocessors \cup {"none"} /\ cart.type \in StandardTypes
  BY <1>2, CartIs, SMT
<1>7. cart.type \in {"SuperGameBoy1BIOS", "SuperGameBoy2BIOS"} => cart.chip = "none"
  BY <1>6, SMT DEF StandardTypes
<1> DEFINE common == OfIcarus!CommonBoard(cart, total)
<1>8. /\ cart.type = "SuperGameBoy1BIOS" => common = <<rom, OfIcarus!Rom("sgb1.boot.rom", \h100)>>
      /\ cart.type = "SuperGameBoy2BIOS" => common = <<rom, OfIcarus!Rom("sgb2.boot.rom", \h100)>>
      /\ cart.chip = "CX4" => common = <<rom, OfIcarus!Rom("cx4.data.rom", \hc00)>>
      /\ cart.chip = "SPC7110" =>
           common = <<OfIcarus!Rom("program.rom", \h100000),
                      OfIcarus!Rom("data.rom", OfIcarus!Wrapped(total - \h100000))>>
      /\ cart.type \notin {"SuperGameBoy1BIOS", "SuperGameBoy2BIOS"}
           /\ cart.chip \notin {"CX4", "SPC7110"} => common = <<rom>>
  BY <1>7, CommonIs, SMT
<1>9. total = payload - fw
  BY SMT
<1>21. last = <<>> /\ whole = main \o chips /\ chips = OfIcarus!ChipRoms(cart.chip)
  BY SMT
<1> HIDE DEF cart, from, size, payload, fw, total, main, chips, last, whole, Fits
<1> SUFFICES Fits
  BY DEF Fits, from, size
<1>10. ASSUME FitsImage(main, from, size), chips = <<>> PROVE Fits
  <2>1. AsSequence(main)
    BY <1>10, FittingIsList, SMT
  <2>2. whole = main
    BY <1>10, <1>21, <2>1, WithNothing
  <2>3. q = main
    BY <1>0, <1>21, <2>1, <2>2, WithNothing
  <2> QED BY <1>10, <2>3 DEF Fits
<1>11. ASSUME cart.type = "CampusChallenge92", cart.chip = "none", payload \in {\h1c0000, \h1c2000}
       PROVE  Fits
  <2>1. size - from \in EventSizes(\h80000)
    BY <1>1, <1>11, SMT DEF EventSizes
  <2>2. FitsImage(main, from, size)
    BY <1>1, <1>3, <1>11, <2>1, EventFits, SMT
  <2> QED BY <1>4, <1>10, <1>11, <2>2, SMT
<1>12. ASSUME cart.type = "Powerfest94", cart.chip = "none", payload \in {\h240000, \h242000}
       PROVE  Fits
  <2>1. size - from \in EventSizes(\h100000)
    BY <1>1, <1>12, SMT DEF EventSizes
  <2>2. FitsImage(main, from, size)
    BY <1>1, <1>3, <1>12, <2>1, EventFits, SMT
  <2> QED BY <1>4, <1>10, <1>12, <2>2, SMT
<1>13. ASSUME cart.type \in BoardTypes \cup StandardTypes
       PROVE  main = common
  BY <1>3, <1>13, SMT DEF BoardTypes, StandardTypes
<1>14. ASSUME cart.chip = "none", cart.type \in BoardTypes \cup StandardTypes,
              cart.type \notin {"SuperGameBoy1BIOS", "SuperGameBoy2BIOS"}
       PROVE  Fits
  <2>1. main = <<rom>>
    BY <1>8, <1>13, <1>14, SMT
  <2>2. total = size - from
    BY <1>1, <1>5, <1>9, <1>14, SMT
  <2>3. FitsImage(main, from, size)
    BY <1>1, <2>1, <2>2, ProgramAlone, SMT
  <2> QED BY <1>4, <1>10, <1>14, <2>3, SMT
<1>15. ASSUME cart.chip = "none", cart.type \in {"SuperGameBoy1BIOS", "SuperGameBoy2BIOS"}
       PROVE  Fits
  <2>1. main = common
    BY <1>13, <1>15, SMT DEF BoardTypes
  <2>2. fw \in {0, \h100} /\ total = size - from - fw
    BY <1>1, <1>5, <1>9, <1>15, SMT
  <2>3. CASE cart.type = "SuperGameBoy1BIOS"
    <3>1. main = <<rom, OfIcarus!Rom("sgb1.boot.rom", \h100)>>
      BY <1>8, <2>1, <2>3, SMT
    <3>2. FitsImage(main, from, size)
      BY <1>1, <2>2, <3>1, BootBehind, SMT
    <3> QED BY <1>4, <1>10, <1>15, <3>2, SMT
  <2>4. CASE cart.type = "SuperGameBoy2BIOS"
    <3>1. main = <<rom, OfIcarus!Rom("sgb2.boot.rom", \h100)>>
      BY <1>8, <2>1, <2>4, SMT
    <3>2. FitsImage(main, from, size)
      BY <1>1, <2>2, <3>1, BootBehind, SMT
    <3> QED BY <1>4, <1>10, <1>15, <3>2, SMT
  <2> QED BY <1>15, <2>3, <2>4, SMT
<1>16. ASSUME cart.chip = "CX4", cart.type \in StandardTypes
       PROVE  Fits
  <2>1. main = <<rom, OfIcarus!Rom("cx4.data.rom", \hc00)>>
    BY <1>8, <1>13, <1>16, SMT
  <2>2. fw \in {0, \hc00} /\ total = size - from - fw
    BY <1>1, <1>5, <1>9, <1>16, SMT
  <2>3. FitsImage(main, from, size)
    BY <1>1, <2>1, <2>2, BootBehind, SMT
  <2> QED BY <1>4, <1>10, <1>16, <2>3, SMT
<1>17. ASSUME cart.chip = "SPC7110", cart.type \in StandardTypes
       PROVE  Fits
  <2> DEFINE u == \h100000
             v == OfIcarus!Wrapped(total - \h100000)
  <2>1. main = <<OfIcarus!Rom("program.rom", u), OfIcarus!Rom("data.rom", v)>>
    BY <1>8, <1>13, <1>17, SMT
  <2>2. u \in Nat /\ v \in Int /\ (u + v = size - from \/ u > size - from)
    BY <1>1, <1>5, <1>9, <1>17, SMT DEF OfIcarus!Wrapped
  <2> HIDE DEF u, v
  <2>3. FitsImage(main, from, size)
    BY <1>1, <2>1, <2>2, DataBehind, SMT
  <2> QED BY <1>4, <1>10, <1>17, <2>3, SMT
<1>18. ASSUME cart.chip \in {"DSP1", "DSP2", "DSP3", "DSP4", "ST010", "ST011", "ST018"},
              cart.type \in StandardTypes
       PROVE  Fits
  <2>1. main = <<rom>>
    BY <1>8, <1>13, <1>18, SMT DEF StandardTypes
  <2>2. total = size - from - fw
    BY <1>1, <1>5, <1>9, <1>18, SMT
  <2>3. FitsImage(<<rom>> \o OfIcarus!ChipRoms(cart.chip), from, size)
    <3> DEFINE c == cart.chip
    <3>1. /\ c \in {"DSP1", "DSP2", "DSP3", "DSP4"} => fw \in {0, \h2000}
          /\ c \in {"ST010", "ST011"} => fw \in {0, \hd000}
          /\ c = "ST018" => fw \in {0, \h28000}
          /\ c \in {"DSP1", "DSP2", "DSP3", "DSP4", "ST010", "ST011", "ST018"}
      BY <1>5, <1>18, SMT
    <3> HIDE DEF c
    <3>2. FitsImage(<<rom>> \o OfIcarus!ChipRoms(c), from, size)
      BY <1>1, <2>2, <3>1, ChipIs, SMT
    <3> QED BY <3>2, SMT DEF c
  <2>6. FitsImage(whole, from, size)
    BY <1>21, <2>1, <2>3, SMT
  <2>4. AsSequence(whole)
    BY <2>6, FittingIsList, SMT
  <2>5. q = whole
    BY <1>0, <1>21, <2>4, WithNothing
  <2> QED BY <2>5, <2>6 DEF Fits
<1>19. cart.type \in StandardTypes => cart.type \notin {"SuperGameBoy1BIOS", "SuperGameBoy2BIOS"}
  BY SMT DEF StandardTypes
<1>20. ASSUME cart.chip \in OfIcarus!Coprocessors
       PROVE  cart.chip \in {"DSP1", "DSP2", "DSP3", "DSP4", "ST010", "ST011", "ST018", "CX4", "SPC7110"}
  BY <1>20, SMT DEF OfIcarus!Coprocessors
<1> QED BY <1>6, <1>11, <1>12, <1>14, <1>15, <1>16, <1>17, <1>18, <1>19, <1>20, SMT

-------------------------------------------------------------------------------
(* The files of a source: in the order of its folder, and, of a Super      *)
(* Famicom image if they all lie in it, up to its end.                     *)
Lined(q, order) ==
  /\ AsSequence(q) /\ InOrder(q, order)
  /\ \A i \in DOMAIN q : q[i].size \in Int
FillsInside(q, from, size) == Fills(q, from, size, TRUE)
FillsAnyway(q, from, size) == Fills(q, from, size, FALSE)

RomsFit(s) ==
  LET q == OfIcarus!Roms(s)
      from == OfIcarus!FirstByte(s)
  IN  /\ Lined(q, OfIcarus!Order(OfIcarus!SystemOf(s).folder)) /\ from \in Int
      /\ OfIcarus!SystemOf(s) = OfIcarus!superFamicom => FillsInside(q, from, s.image.size)
      /\ OfIcarus!SystemOf(s) # OfIcarus!superFamicom /\ OfIcarus!WellSized(s)
           => FillsAnyway(q, from, s.image.size)

LEMMA FoldersDiffer ==
  ASSUME NEW sys \in OfIcarus!Systems
  PROVE  /\ sys.folder = "Super Famicom" <=> sys = OfIcarus!superFamicom
         /\ sys.folder = "Famicom" <=> sys = OfIcarus!famicom
<1>1. sys \in {OfIcarus!famicom, OfIcarus!superFamicom, OfIcarus!masterSystem,
             OfIcarus!megaDrive, OfIcarus!pcEngine, OfIcarus!superGrafx, OfIcarus!gameBoy,
             OfIcarus!gameBoyColor, OfIcarus!gameBoyAdvance, OfIcarus!gameGear,
             OfIcarus!wonderSwan, OfIcarus!wonderSwanColor, OfIcarus!bsMemory,
             OfIcarus!sufamiTurbo}
  BY SMT DEF OfIcarus!Systems
<1>2. /\ OfIcarus!famicom.folder = "Famicom"
      /\ OfIcarus!superFamicom.folder = "Super Famicom"
      /\ OfIcarus!masterSystem.folder = "Master System"
      /\ OfIcarus!megaDrive.folder = "Mega Drive"
      /\ OfIcarus!pcEngine.folder = "PC Engine"
      /\ OfIcarus!superGrafx.folder = "SuperGrafx"
      /\ OfIcarus!gameBoy.folder = "Game Boy"
      /\ OfIcarus!gameBoyColor.folder = "Game Boy Color"
      /\ OfIcarus!gameBoyAdvance.folder = "Game Boy Advance"
      /\ OfIcarus!gameGear.folder = "Game Gear"
      /\ OfIcarus!wonderSwan.folder = "WonderSwan"
      /\ OfIcarus!wonderSwanColor.folder = "WonderSwan Color"
      /\ OfIcarus!bsMemory.folder = "BS Memory"
      /\ OfIcarus!sufamiTurbo.folder = "Sufami Turbo"
  BY SMT DEF OfIcarus!System, OfIcarus!famicom, OfIcarus!superFamicom, OfIcarus!masterSystem,
         OfIcarus!megaDrive, OfIcarus!pcEngine, OfIcarus!superGrafx, OfIcarus!gameBoy,
         OfIcarus!gameBoyColor, OfIcarus!gameBoyAdvance, OfIcarus!gameGear,
         OfIcarus!wonderSwan, OfIcarus!wonderSwanColor, OfIcarus!bsMemory, OfIcarus!sufamiTurbo
<1> QED BY <1>1, <1>2, Zenon

LEMMA SystemIs ==
  ASSUME NEW s, OfIcarus!Recognized(s)
  PROVE  OfIcarus!SystemOf(s) \in OfIcarus!Systems
BY DEF OfIcarus!Recognized, OfIcarus!SystemOf

LEMMA FamicomFits ==
  ASSUME NEW img, img.prg \in Nat, img.chr \in Nat
  PROVE  LET q == OfIcarus!FamicomRoms(img)
         IN  /\ Lined(q, OfIcarus!FamicomFiles)
             /\ \A size \in Nat : size = 16 + img.prg * \h4000 + img.chr * \h2000
                                   => FillsAnyway(q, 0, size)
<1> DEFINE order == OfIcarus!FamicomFiles
           u == img.prg * \h4000
           v == img.chr * \h2000
           a == OfIcarus!Rom("ines.rom", 16)
           b == OfIcarus!Rom("program.rom", u)
           c == OfIcarus!Rom("character.rom", v)
           more == IF img.chr > 0 THEN <<c>> ELSE <<>>
           q == OfIcarus!FamicomRoms(img)
<1>1. q = <<a, b>> \o more
  BY SMT DEF OfIcarus!FamicomRoms
<1>2. u \in Nat /\ v \in Nat /\ (~(img.chr > 0) => v = 0)
  BY SMT
<1>3. /\ a.name = "ines.rom" /\ a.size = 16 /\ b.name = "program.rom" /\ b.size = u
      /\ c.name = "character.rom" /\ c.size = v
  BY SMT DEF OfIcarus!Rom
<1>4. DOMAIN order = 1..3 /\ order[1] = "ines.rom" /\ order[2] = "program.rom" /\ order[3] = "character.rom"
  BY SMT DEF OfIcarus!FamicomFiles
<1>5. AsSequence(order)
  BY OrdersAre
<1>6. \A size \in Nat : size = 16 + u + v <=> size = 16 + img.prg * \h4000 + img.chr * \h2000
  BY SMT
<1> HIDE DEF order, u, v, a, b, c
<1>7. CASE img.chr > 0
  <2>1. q = <<a, b, c>>
    <3>1. q = <<a, b>> \o <<c>>
      BY <1>1, <1>7
    <3> QED BY <3>1, TwoAndOne
  <2>2. Lined(<<a, b, c>>, order)
    <3>1. AsSequence(<<a, b, c>>)
      <4>1. <<a, b, c>> \in Seq({a, b, c})
        OBVIOUS
      <4> QED BY <4>1 DEF AsSequence
    <3>2. InOrder(<<a, b, c>>, order)
      <4>1. 1 \in DOMAIN order /\ 2 \in DOMAIN order /\ 3 \in DOMAIN order /\ 1 < 2 /\ 2 < 3
        BY <1>4
      <4> QED BY <1>3, <1>4, <1>5, <4>1, Listing
    <3>3. DOMAIN <<a, b, c>> = {1, 2, 3} /\ <<a, b, c>>[1] = a /\ <<a, b, c>>[2] = b /\ <<a, b, c>>[3] = c
      OBVIOUS
    <3>4. \A i \in DOMAIN <<a, b, c>> : <<a, b, c>>[i].size \in Int
      BY <1>2, <1>3, <3>3
    <3> QED BY <3>1, <3>2, <3>4 DEF Lined
  <2>3. ASSUME NEW size \in Nat, size = 16 + u + v
        PROVE  Fills(<<a, b, c>>, 0, size, FALSE)
    <3>1. a.size \in Int /\ b.size \in Int /\ c.size \in Int /\ a.size + b.size + c.size = size - 0
      BY <1>2, <1>3, <2>3
    <3>2. 0 \in Int /\ size \in Int
      OBVIOUS
    <3> QED BY <3>1, <3>2, Filling
  <2>4. Lined(q, order) /\ \A size \in Nat : size = 16 + u + v => FillsAnyway(q, 0, size)
    BY <2>1, <2>2, <2>3 DEF FillsAnyway
  <2> HIDE DEF q
  <2>5. Lined(q, order) /\ \A size \in Nat : size = 16 + img.prg * \h4000 + img.chr * \h2000
                                              => FillsAnyway(q, 0, size)
    BY <1>6, <2>4, SMT
  <2> QED BY <2>5, SMT DEF q, order
<1>8. CASE ~(img.chr > 0)
  <2>1. q = <<a, b>>
    <3>1. q = <<a, b>> \o <<>>
      BY <1>1, <1>8
    <3>2. AsSequence(<<a, b>>)
      BY Rows
    <3> QED BY <3>1, <3>2, Glued
  <2>2. Lined(<<a, b>>, order)
    <3>1. AsSequence(<<a, b>>)
      BY Rows
    <3>2. InOrder(<<a, b>>, order)
      <4>1. 1 \in DOMAIN order /\ 2 \in DOMAIN order /\ 1 < 2
        BY <1>4
      <4> QED BY <1>3, <1>4, <1>5, <4>1, Listing
    <3>3. DOMAIN <<a, b>> = {1, 2} /\ <<a, b>>[1] = a /\ <<a, b>>[2] = b
      OBVIOUS
    <3>4. \A i \in DOMAIN <<a, b>> : <<a, b>>[i].size \in Int
      BY <1>2, <1>3, <3>3
    <3> QED BY <3>1, <3>2, <3>4 DEF Lined
  <2>3. ASSUME NEW size \in Nat, size = 16 + u + v
        PROVE  Fills(<<a, b>>, 0, size, FALSE)
    <3>1. a.size \in Int /\ b.size \in Int /\ a.size + b.size = size - 0
      BY <1>2, <1>3, <1>8, <2>3
    <3>2. 0 \in Int /\ size \in Int
      OBVIOUS
    <3> QED BY <3>1, <3>2, Filling
  <2>4. Lined(q, order) /\ \A size \in Nat : size = 16 + u + v => FillsAnyway(q, 0, size)
    BY <2>1, <2>2, <2>3 DEF FillsAnyway
  <2> HIDE DEF q
  <2>5. Lined(q, order) /\ \A size \in Nat : size = 16 + img.prg * \h4000 + img.chr * \h2000
                                              => FillsAnyway(q, 0, size)
    BY <1>6, <2>4, SMT
  <2> QED BY <2>5, SMT DEF q, order
<1> QED BY <1>7, <1>8, SMT

LEMMA RomsAreFit ==
  ASSUME NEW s \in AllSources, OfIcarus!Recognized(s), OfIcarus!Parsed(s)
  PROVE  RomsFit(s)
<1> DEFINE sys == OfIcarus!SystemOf(s)
           img == s.image
           q == OfIcarus!Roms(s)
           from == OfIcarus!FirstByte(s)
           order == OfIcarus!Order(sys.folder)
           super == OfIcarus!superFamicom
           fami == OfIcarus!famicom
<1>1. img.size \in Nat /\ img.prg \in Nat /\ img.chr \in Nat
  <2>1. OfIcarus!ImportAssumption
    BY IcarusAssumption DEF IcarusAssumption
  <2>2. s.image.size \in Nat /\ s.image.prg \in OfIcarus!Byte /\ s.image.chr \in OfIcarus!Byte
    BY <2>1, Zenon DEF OfIcarus!ImportAssumption
  <2>3. \A b \in OfIcarus!Byte : b \in Nat
    BY SMT DEF OfIcarus!Byte
  <2> QED BY <2>2, <2>3, Zenon
<1>2. sys \in OfIcarus!Systems
  BY SystemIs
<1>3. /\ sys.folder = "Super Famicom" <=> sys = super
      /\ sys.folder = "Famicom" <=> sys = fami
  BY <1>2, FoldersDiffer
<1>4. super # fami
  <2>1. super.folder = "Super Famicom" /\ fami.folder = "Famicom"
    BY SMT DEF OfIcarus!System, OfIcarus!superFamicom, OfIcarus!famicom
  <2> HIDE DEF super, fami
  <2> QED BY <2>1, Zenon
<1>5. /\ sys = super => order = OfIcarus!SuperFamicomFiles
      /\ sys = fami => order = OfIcarus!FamicomFiles
      /\ sys # super /\ sys # fami => order = <<"program.rom">>
  <2> DEFINE folder == sys.folder
  <2>1. order = CASE folder = "Super Famicom" -> OfIcarus!SuperFamicomFiles
                  [] folder = "Famicom" -> OfIcarus!FamicomFiles
                  [] OTHER -> <<"program.rom">>
    BY SMT DEF OfIcarus!Order
  <2> HIDE DEF order, sys, super, fami
  <2> QED BY <1>3, <2>1, Zenon
<1>6. /\ sys = super => q = OfIcarus!Markup("icarus", img, FALSE)
      /\ sys = fami => q = OfIcarus!FamicomRoms(img)
      /\ sys # super /\ sys # fami => q = <<OfIcarus!Rom("program.rom", img.size)>>
  BY <1>4 DEF OfIcarus!Roms, OfIcarus!Scanned, OfIcarus!Root
<1>7. /\ sys = super => from = OfIcarus!CopierHeader(img)
      /\ sys # super => from = 0
  BY SMT DEF OfIcarus!FirstByte
<1>8. sys = super => OfIcarus!Markup("icarus", img, FALSE) # OfIcarus!NoBoard
  <2>1. /\ super # fami /\ super # OfIcarus!megaDrive /\ super # OfIcarus!wonderSwan
        /\ super # OfIcarus!wonderSwanColor /\ super # OfIcarus!gameBoy
        /\ super # OfIcarus!gameBoyColor /\ super # OfIcarus!sufamiTurbo
    BY DEF OfIcarus!System, OfIcarus!superFamicom, OfIcarus!famicom, OfIcarus!megaDrive,
           OfIcarus!wonderSwan, OfIcarus!wonderSwanColor, OfIcarus!gameBoy,
           OfIcarus!gameBoyColor, OfIcarus!sufamiTurbo
  <2> QED BY <2>1 DEF OfIcarus!Parsed
<1>9. OfIcarus!WellSized(s) /\ sys = fami => img.size = 16 + img.prg * \h4000 + img.chr * \h2000
  BY SMT DEF OfIcarus!WellSized
<1>10. OfIcarus!CopierHeader(img) \in Int
  BY SMT DEF OfIcarus!CopierHeader
<1> DEFINE Right == /\ Lined(q, order) /\ from \in Int
                    /\ sys = super => FillsInside(q, from, img.size)
                    /\ sys # super /\ OfIcarus!WellSized(s) => FillsAnyway(q, from, img.size)
<1>11. CASE sys = super
  <2> DEFINE layout == OfIcarus!Markup("icarus", img, FALSE)
  <2>1. FitsImage(layout, OfIcarus!CopierHeader(img), img.size)
    BY <1>1, <1>8, <1>11, BoardIs
  <2>2. /\ Lined(layout, OfIcarus!SuperFamicomFiles)
        /\ FillsInside(layout, OfIcarus!CopierHeader(img), img.size)
    BY <2>1 DEF FitsImage, Suits, Lined, FillsInside
  <2>3. q = layout /\ order = OfIcarus!SuperFamicomFiles /\ from = OfIcarus!CopierHeader(img)
    BY <1>5, <1>6, <1>7, <1>11
  <2> HIDE DEF q, order, from, sys, super, layout
  <2>4. Right
    BY <1>10, <1>11, <2>2, <2>3
  <2> QED BY <2>4, SMT DEF RomsFit, q, order, from, sys, super
<1>12. CASE sys = fami
  <2> DEFINE rows == OfIcarus!FamicomRoms(img)
  <2>1. /\ Lined(rows, OfIcarus!FamicomFiles)
        /\ OfIcarus!WellSized(s) => FillsAnyway(rows, 0, img.size)
    BY <1>1, <1>9, <1>12, FamicomFits, SMT
  <2>2. q = rows /\ order = OfIcarus!FamicomFiles /\ from = 0 /\ sys # super
    BY <1>4, <1>5, <1>6, <1>7, <1>12
  <2> HIDE DEF q, order, from, sys, super, rows
  <2>3. Right
    BY <2>1, <2>2
  <2> QED BY <2>3, SMT DEF RomsFit, q, order, from, sys, super
<1>13. CASE sys # super /\ sys # fami
  <2> DEFINE a == OfIcarus!Rom("program.rom", img.size)
             whole == <<a>>
             alone == <<"program.rom">>
  <2>1. a.name = "program.rom" /\ a.size = img.size - 0
    BY <1>1, SMT DEF OfIcarus!Rom
  <2>2. AsSequence(alone) /\ 1 \in DOMAIN alone /\ alone[1] = "program.rom"
    BY OrdersAre
  <2> HIDE DEF a, alone
  <2>3. Suits(whole, alone, 0, img.size, FALSE)
    <3>1. 0 \in Int /\ img.size \in Int /\ FALSE \in BOOLEAN
      BY <1>1
    <3> QED BY <2>1, <2>2, <3>1, SuitsOne, Zenon
  <2>4. Lined(whole, alone) /\ FillsAnyway(whole, 0, img.size)
    BY <2>3 DEF Suits, Lined, FillsAnyway
  <2>5. q = whole /\ order = alone /\ from = 0
    BY <1>5, <1>6, <1>7, <1>13 DEF alone, a
  <2> HIDE DEF q, order, from, sys, super, whole
  <2>6. Right
    BY <1>13, <2>4, <2>5
  <2> QED BY <2>6, SMT DEF RomsFit, q, order, from, sys, super
<1> QED BY <1>11, <1>12, <1>13

LEMMA NamesDiffer ==
  ASSUME NEW order, Once(order), AsSequence(order), NEW q, Lined(q, order)
  PROVE  \A i, j \in DOMAIN q : q[i].name = q[j].name => i = j
<1> DEFINE names == [i \in DOMAIN q |-> q[i].name]
<1>1. PICK places : InPlaces(names, order, places)
  BY DEF Lined, InOrder
<1>2. DOMAIN names = DOMAIN q /\ \A i \in DOMAIN q : names[i] = q[i].name
  OBVIOUS
<1>3. \A i \in DOMAIN q : places[i] \in DOMAIN order /\ order[places[i]] = q[i].name
  BY <1>1, <1>2 DEF InPlaces
<1>4. \A i, j \in DOMAIN q : i < j => places[i] < places[j]
  BY <1>1, <1>2 DEF InPlaces
<1>5. DOMAIN q \subseteq Int /\ DOMAIN order \subseteq Int
  BY DEF Lined, AsSequence
<1> HIDE DEF names
<1> SUFFICES ASSUME NEW i \in DOMAIN q, NEW j \in DOMAIN q, q[i].name = q[j].name, i # j
             PROVE  FALSE
  OBVIOUS
<1>6. places[i] = places[j]
  BY <1>3 DEF Once
<1>7. i < j \/ j < i
  BY <1>5
<1>8. places[i] \in Int /\ places[j] \in Int
  BY <1>3, <1>5
<1> QED BY <1>4, <1>6, <1>7, <1>8

LEMMA OrderLists ==
  \A folder : AsSequence(OfIcarus!Order(folder)) /\ Once(OfIcarus!Order(folder))
<1> SUFFICES ASSUME NEW folder
             PROVE  AsSequence(OfIcarus!Order(folder)) /\ Once(OfIcarus!Order(folder))
  OBVIOUS
<1>1. OfIcarus!Order(folder) \in {OfIcarus!SuperFamicomFiles, OfIcarus!FamicomFiles, <<"program.rom">>}
  BY DEF OfIcarus!Order
<1> QED BY <1>1, OrdersAre

(* The names of such a list are what --manifest asks for of them.          *)
LEMMA NamesAreFound ==
  ASSUME NEW order, Once(order), AsSequence(order), NEW q, Lined(q, order),
         NEW there, there = {q[i].name : i \in DOMAIN q}
  PROVE  OfIcarus!Among(order, there) = [i \in DOMAIN q |-> q[i].name]
<1> DEFINE names == [i \in DOMAIN q |-> q[i].name]
<1>1. PICK places : InPlaces(names, order, places)
  BY DEF Lined, InOrder
<1>2. PICK X : order \in Seq(X)
  BY DEF AsSequence
<1>3. PICK Y : q \in Seq(Y)
  BY DEF Lined, AsSequence
<1>4. DOMAIN q = 1..Len(q) /\ Len(q) \in Nat
  BY <1>3
<1>5. DOMAIN names = DOMAIN q /\ \A i \in DOMAIN q : names[i] = q[i].name
  OBVIOUS
<1>6. \A i \in DOMAIN q : names[i] \in X
  BY <1>1, <1>2, <1>5 DEF InPlaces
<1>7. names \in Seq(X)
  <2>1. names \in [1..Len(q) -> X]
    BY <1>4, <1>6
  <2> HIDE DEF names
  <2> QED BY <1>4, <2>1
<1>8. there = {names[k] : k \in DOMAIN names}
  BY <1>5
<1> HIDE DEF names
<1>9. OfIcarus!Among(order, there) = names
  BY <1>1, <1>2, <1>7, <1>8, AmongGives
<1> QED BY <1>9 DEF names

-------------------------------------------------------------------------------
(* The files that an import has written, one behind the other; what it has *)
(* still to write; and what is in any folder, whoever wrote it.            *)
Chained(q, to, k) ==
  /\ to[0] = OfIcarus!FirstByte(source) /\ to[k] = offset
  /\ \A i \in 1..k :
       /\ to[i] = to[i - 1] + q[i].size
       /\ OfIcarus!SystemOf(source) = OfIcarus!superFamicom => to[i] <= source.image.size
       /\ q[i].name \in DOMAIN library[Folder].files
       /\ library[Folder].files[q[i].name] = OfIcarus!Slice(source, to[i - 1], q[i].size)
WrittenUpTo(k) == \E to : Chained(OfIcarus!Roms(source), to, k)

Remains(q, k) == Len(board) = Len(q) - k /\ \A i \in 1..Len(board) : board[i] = q[k + i]

KnownFile(t, n, f) ==
  /\ \E i \in DOMAIN OfIcarus!Roms(f.of) : n = OfIcarus!Roms(f.of)[i].name
  /\ t[1] = "Super Famicom" => f.to <= f.of.image.size
FilesAreKnown ==
  \A t \in DOMAIN library : \A n \in DOMAIN library[t].files :
    KnownFile(t, n, library[t].files[n])

Sound == source \in AllSources /\ OfIcarus!Recognized(source)

(* A step of an import leaves no gap: so far, the files follow each other  *)
(* in the image; unless one of them was too long for it, or not written.   *)
RoundInv ==
  /\ FilesAreKnown
  /\ pc # "idle" => Sound
  /\ pc = "save" => offset = OfIcarus!FirstByte(source)
  /\ pc = "write" =>
       \E k \in 0..Len(OfIcarus!Roms(source)) : /\ Remains(OfIcarus!Roms(source), k)
                                                /\ missing \cup lost = {} => WrittenUpTo(k)
  /\ pc = "write" => offset \in Int
  /\ OfIcarus!Succeeded =>
       Sound /\ (missing \cup lost = {} => WrittenUpTo(Len(OfIcarus!Roms(source))))

LEMMA SoundFits ==
  ASSUME ImportInv, Sound, pc # "idle" \/ OfIcarus!Succeeded
  PROVE  RomsFit(source)
<1>1. OfIcarus!Parsed(source)
  BY DEF ImportInv, OfIcarus!Succeeded
<1> QED BY <1>1, RomsAreFit DEF Sound

LEMMA RoundTrips ==
  ASSUME ImportInv, RoundInv
  PROVE  OfIcarus!ImportRoundTrip /\ OfIcarus!SlicesLieInImage
<1>1. OfIcarus!SlicesLieInImage
  BY DEF RoundInv, FilesAreKnown, KnownFile, OfIcarus!SlicesLieInImage
<1>2. OfIcarus!ImportRoundTrip
  <2> DEFINE names == OfIcarus!Concatenated(Folder)
             At(i) == library[Folder].files[names[i]]
             n == Len(names)
  <2> SUFFICES ASSUME OfIcarus!Succeeded, lost = {}, OfIcarus!Strangers = {},
                      OfIcarus!WellSized(source)
               PROVE  /\ names # <<>>
                      /\ At(1).from = OfIcarus!FirstByte(source)
                      /\ \A i \in 1..(n - 1) : At(i).to = At(i + 1).from
                      /\ At(n).to = source.image.size
    BY DEF OfIcarus!ImportRoundTrip, Folder
  <2> DEFINE q == OfIcarus!Roms(source)
             files == library[Folder].files
             from == OfIcarus!FirstByte(source)
             order == OfIcarus!Order(Folder[1])
             super == OfIcarus!SystemOf(source) = OfIcarus!superFamicom
             size == source.image.size
  <2>1. Sound /\ RomsFit(source) /\ Placed /\ OfIcarus!Parsed(source)
    BY SoundFits DEF RoundInv, ImportInv, OfIcarus!Succeeded
  <2>2. PICK to : Chained(q, to, Len(q))
    <3>1. missing \cup lost = {}
      BY DEF ImportInv, OfIcarus!Succeeded
    <3> QED BY <3>1 DEF RoundInv, WrittenUpTo
  <2>3. Folder[1] = OfIcarus!SystemOf(source).folder
    BY DEF Folder, OfIcarus!Target
  <2>4. Lined(q, order) /\ AsSequence(order) /\ Once(order) /\ AsSequence(q)
    BY <2>1, <2>3, OrderLists DEF RomsFit, Lined
  <2>5. PICK X : q \in Seq(X)
    BY <2>4 DEF AsSequence
  <2>6. Len(q) \in Nat /\ DOMAIN q = 1..Len(q)
    BY <2>5
  <2>7. Len(q) # 0
    BY <2>1, <2>6, RomsLists DEF HasProgram
  <2>8. DOMAIN files = {q[i].name : i \in DOMAIN q}
    <3>1. \A i \in DOMAIN q : q[i].name \in DOMAIN files
      BY <2>2, <2>6 DEF Chained
    <3>2. ASSUME NEW x \in DOMAIN files PROVE \E i \in DOMAIN q : x = q[i].name
      <4>1. Folder \in DOMAIN library
        BY <2>1 DEF Placed
      <4>2. files[x].of = source
        BY DEF OfIcarus!Strangers, Folder
      <4>3. KnownFile(Folder, x, files[x])
        BY <4>1 DEF RoundInv, FilesAreKnown
      <4> QED BY <4>2, <4>3 DEF KnownFile
    <3> HIDE DEF q, files
    <3> QED BY <3>1, <3>2
  <2>9. names = [i \in DOMAIN q |-> q[i].name]
    <3>1. names = OfIcarus!Among(order, DOMAIN files)
      BY DEF OfIcarus!Concatenated
    <3> HIDE DEF names, order, files, q
    <3> QED BY <2>4, <2>8, <3>1, NamesAreFound
  <2>10. DOMAIN names = 1..Len(q) /\ n = Len(q) /\ \A i \in 1..Len(q) : names[i] = q[i].name
    <3> HIDE DEF names, q
    <3>1. DOMAIN names = 1..Len(q) /\ \A i \in 1..Len(q) : names[i] = q[i].name
      BY <2>6, <2>9
    <3>2. n = Len(q)
      BY <2>6, <2>9
    <3> QED BY <3>1, <3>2
  <2>11. /\ to[0] = from
         /\ \A i \in 1..Len(q) : /\ to[i] = to[i - 1] + q[i].size
                                 /\ super => to[i] <= size
                                 /\ files[q[i].name] = OfIcarus!Slice(source, to[i - 1], q[i].size)
    BY <2>2 DEF Chained
  <2> HIDE DEF names, q, files, from, order, super, size
  <2>12. ASSUME NEW i \in 1..Len(q) PROVE At(i).from = to[i - 1] /\ At(i).to = to[i]
    <3>1. At(i) = files[q[i].name]
      BY <2>10 DEF files
    <3>2. At(i) = OfIcarus!Slice(source, to[i - 1], q[i].size) /\ to[i] = to[i - 1] + q[i].size
      BY <2>11, <3>1
    <3> HIDE DEF At
    <3> QED BY <3>2 DEF OfIcarus!Slice
  <2>13. to[Len(q)] = size
    <3>1. CASE super
      <4>1. FillsInside(q, from, size)
        BY <2>1, <3>1 DEF RomsFit, super, q, from, size
      <4> QED BY <2>6, <2>11, <3>1, <4>1 DEF FillsInside, Fills
    <3>2. CASE ~super
      <4>1. FillsAnyway(q, from, size)
        BY <2>1, <3>2 DEF RomsFit, super, q, from, size
      <4> QED BY <2>6, <2>11, <4>1 DEF FillsAnyway, Fills
    <3> QED BY <3>1, <3>2
  <2>14. n \in Nat /\ n >= 1 /\ names # <<>>
    BY <2>6, <2>7, <2>10
  <2>15. At(1).from = from /\ At(n).to = size
    <3>1. 1 \in 1..Len(q) /\ n \in 1..Len(q) /\ 1 - 1 = 0
      BY <2>6, <2>10, <2>14
    <3>2. At(1).from = to[0] /\ At(n).to = to[n]
      BY <2>12, <3>1
    <3> QED BY <2>10, <2>11, <2>13, <3>2
  <2>16. ASSUME NEW i \in 1..(n - 1) PROVE At(i).to = At(i + 1).from
    <3>1. i \in 1..Len(q) /\ i + 1 \in 1..Len(q) /\ (i + 1) - 1 = i
      BY <2>6, <2>10
    <3>2. At(i).to = to[i] /\ At(i + 1).from = to[(i + 1) - 1]
      BY <2>12, <3>1
    <3> QED BY <3>1, <3>2
  <2> QED BY <2>14, <2>15, <2>16 DEF from, size
<1> QED BY <1>1, <1>2

LEMMA RoundStarts ==
  ASSUME RoundInv, NEW s \in AllSources, OfIcarus!Import(s)
  PROVE  RoundInv'
<1>1. source' = s
  BY DEF OfIcarus!Import
<1>2. CASE OfIcarus!Failure
  <2>1. pc' = "idle" /\ reported' = "failure" /\ library' = library
    BY <1>2 DEF OfIcarus!Failure
  <2>2. FilesAreKnown'
    BY <2>1 DEF RoundInv, FilesAreKnown
  <2> QED BY <2>1, <2>2 DEF RoundInv, OfIcarus!Succeeded
<1>3. CASE ~OfIcarus!Failure
  <2>1. /\ OfIcarus!Recognized(s) /\ pc' = "save" /\ offset' = OfIcarus!FirstByte(s)
        /\ library' = [t \in DOMAIN library \cup {OfIcarus!Target(s)} |->
                         IF t \in DOMAIN library THEN library[t] ELSE OfIcarus!NewFolder]
    BY <1>3 DEF OfIcarus!Import
  <2>2. DOMAIN OfIcarus!NewFolder.files = {}
    BY DEF OfIcarus!NewFolder
  <2>3. FilesAreKnown'
    <3> SUFFICES ASSUME NEW t \in DOMAIN library', NEW n \in DOMAIN library'[t].files
                 PROVE  KnownFile(t, n, library'[t].files[n])
      BY DEF FilesAreKnown, KnownFile
    <3>1. t \in DOMAIN library /\ library'[t] = library[t]
      BY <2>1, <2>2
    <3> QED BY <3>1 DEF RoundInv, FilesAreKnown
  <2>4. Sound'
    BY <1>1, <2>1 DEF Sound, AllSources
  <2> QED BY <1>1, <2>1, <2>3, <2>4 DEF RoundInv, OfIcarus!Succeeded
<1> QED BY <1>2, <1>3

LEMMA FilesStay ==
  ASSUME RoundInv, UNCHANGED <<source, offset>>, DOMAIN library' = DOMAIN library,
         \A t \in DOMAIN library : library'[t].files = library[t].files
  PROVE  /\ FilesAreKnown'
         /\ Folder \in DOMAIN library => \A k : WrittenUpTo(k) => WrittenUpTo(k)'
<1>1. FilesAreKnown'
  BY DEF RoundInv, FilesAreKnown
<1>2. ASSUME Folder \in DOMAIN library, NEW k, WrittenUpTo(k) PROVE WrittenUpTo(k)'
  <2>1. PICK to : Chained(OfIcarus!Roms(source), to, k)
    BY <1>2 DEF WrittenUpTo
  <2>2. library'[Folder].files = library[Folder].files /\ Folder' = Folder
    BY <1>2 DEF Folder
  <2>3. Chained(OfIcarus!Roms(source), to, k)'
    BY <2>1, <2>2 DEF Chained
  <2> QED BY <2>3 DEF WrittenUpTo
<1> QED BY <1>1, <1>2

(* The next file is written behind the others, or is missing.              *)
LEMMA RoundWrites ==
  ASSUME ImportInv, RoundInv, OfIcarus!WriteRom
  PROVE  RoundInv'
<1> DEFINE q == OfIcarus!Roms(source)
           head == Head(board)
           super == OfIcarus!SystemOf(source) = OfIcarus!superFamicom
           files == library[Folder].files
<1>1. /\ pc = "write" /\ board # <<>> /\ board' = Tail(board)
      /\ UNCHANGED <<pc, source, reported>>
  BY DEF OfIcarus!WriteRom
<1>2. /\ Folder \in DOMAIN library /\ FoldersAreRecords /\ Folder' = Folder
      /\ AsSequence(board) /\ Sound /\ FilesAreKnown /\ RomsFit(source) /\ offset \in Int
  BY <1>1, SoundFits DEF ImportInv, RoundInv, Folder
<1>3. PICK k \in 0..Len(q) : Remains(q, k) /\ (missing \cup lost = {} => WrittenUpTo(k))
  BY <1>1 DEF RoundInv
<1>4. PICK X : board \in Seq(X)
  BY <1>2 DEF AsSequence
<1>5. Lined(q, OfIcarus!Order(Folder[1])) /\ Folder[1] = OfIcarus!SystemOf(source).folder
  BY <1>2 DEF RomsFit, Folder, OfIcarus!Target
<1>6. \A i, j \in DOMAIN q : q[i].name = q[j].name => i = j
  <2> HIDE DEF q
  <2> QED BY <1>5, OrderLists, NamesDiffer
<1>7. Len(q) \in Nat /\ DOMAIN q = 1..Len(q) /\ \A i \in DOMAIN q : q[i].size \in Int
  BY <1>5 DEF Lined, AsSequence
<1>8. /\ Len(board) \in Nat /\ Len(board) > 0 /\ head = board[1]
      /\ Len(board') = Len(board) - 1
      /\ \A i \in 1..Len(board') : board'[i] = board[i + 1]
  BY <1>1, <1>4
<1> HIDE DEF q, head, super, files
<1>9. k + 1 \in DOMAIN q /\ head = q[k + 1] /\ head.size \in Int /\ k \in Nat
  BY <1>3, <1>7, <1>8 DEF Remains
<1>10. Remains(q, k + 1)'
  <2>1. q' = q
    BY <1>1 DEF q
  <2>2. Len(board') = Len(q) - (k + 1)
    BY <1>3, <1>7, <1>8, <1>9 DEF Remains
  <2>3. ASSUME NEW i \in 1..Len(board') PROVE board'[i] = q[(k + 1) + i]
    <3>1. i + 1 \in 1..Len(board) /\ k + (i + 1) = (k + 1) + i
      BY <1>8, <1>9
    <3>2. board'[i] = board[i + 1] /\ board[i + 1] = q[k + (i + 1)]
      BY <1>3, <1>8, <3>1 DEF Remains
    <3> QED BY <3>1, <3>2
  <2> QED BY <2>1, <2>2, <2>3 DEF Remains
<1>11. k + 1 \in 0..Len(q)
  BY <1>7, <1>9
<1>12. CASE OfIcarus!TooShort(head.size)
  <2>1. missing' = missing \cup {head.name} /\ UNCHANGED <<offset, lost, library>>
    BY <1>12 DEF OfIcarus!WriteRom, head
  <2>2. FilesAreKnown'
    BY <1>2, <2>1 DEF FilesAreKnown
  <2>3. missing' # {}
    BY <2>1
  <2> QED BY <1>1, <1>2, <1>10, <1>11, <2>1, <2>2, <2>3 DEF RoundInv, Sound, OfIcarus!Succeeded, q
<1>14. source.image.size \in Nat
  <2>1. OfIcarus!ImportAssumption
    BY IcarusAssumption DEF IcarusAssumption
  <2> QED BY <1>2, <2>1 DEF Sound, OfIcarus!ImportAssumption
<1>15. ASSUME NEW slice, slice.of = source, super => slice.to <= source.image.size,
              OfIcarus!PutRom(head.name, slice)
       PROVE  FilesAreKnown'
  <2> DEFINE new == OfIcarus!Put(files, head.name, slice)
  <2>1. library' = [library EXCEPT ![Folder].files = new]
    BY <1>15 DEF OfIcarus!PutRom, files, Folder
  <2>2. /\ DOMAIN new = DOMAIN files \cup {head.name} /\ new[head.name] = slice
        /\ \A n \in DOMAIN files : n # head.name => new[n] = files[n]
    BY DEF OfIcarus!Put
  <2> HIDE DEF new
  <2>4. /\ DOMAIN library' = DOMAIN library /\ library'[Folder].files = new
        /\ \A t \in DOMAIN library \ {Folder} : library'[t] = library[t]
    BY <1>2, <2>1, FilesChange
  <2> SUFFICES ASSUME NEW t \in DOMAIN library', NEW n \in DOMAIN library'[t].files
               PROVE  KnownFile(t, n, library'[t].files[n])
    BY DEF FilesAreKnown, KnownFile
  <2>5. CASE t # Folder
    BY <1>2, <2>4, <2>5 DEF FilesAreKnown
  <2>6. CASE t = Folder /\ n # head.name
    <3>1. n \in DOMAIN files /\ new[n] = files[n]
      BY <2>2, <2>4, <2>6
    <3> QED BY <1>2, <2>4, <2>6, <3>1 DEF FilesAreKnown, files
  <2>7. CASE t = Folder /\ n = head.name
    <3>1. library'[t].files[n] = slice
      BY <2>2, <2>4, <2>7
    <3>2. \E i \in DOMAIN q : n = q[i].name
      BY <1>9, <2>7
    <3>3. Folder[1] = "Super Famicom" => super
      BY <1>2, <1>5, SystemIs, FoldersDiffer DEF Sound, super
    <3> QED BY <1>15, <2>7, <3>1, <3>2, <3>3 DEF KnownFile, q
  <2> QED BY <2>5, <2>6, <2>7
<1>16. CASE /\ lost' = lost \cup {head.name} /\ offset' = offset + head.size
            /\ OfIcarus!PutRom(head.name, OfIcarus!Slice(source, 0, 0)) \/ library' = library
  <2>1. lost' # {} /\ offset' \in Int
    BY <1>2, <1>9, <1>16
  <2>2. CASE library' = library
    <3>1. FilesAreKnown'
      BY <1>2, <2>2 DEF FilesAreKnown
    <3> QED BY <1>1, <1>2, <1>9, <1>10, <1>11, <2>1, <3>1
            DEF RoundInv, Sound, OfIcarus!Succeeded, q
  <2>3. CASE OfIcarus!PutRom(head.name, OfIcarus!Slice(source, 0, 0))
    <3>1. OfIcarus!Slice(source, 0, 0).of = source /\ OfIcarus!Slice(source, 0, 0).to = 0
      BY DEF OfIcarus!Slice
    <3>2. FilesAreKnown'
      BY <1>14, <1>15, <2>3, <3>1
    <3> QED BY <1>1, <1>2, <1>9, <1>10, <1>11, <2>1, <3>2
            DEF RoundInv, Sound, OfIcarus!Succeeded, q
  <2> QED BY <1>16, <2>2, <2>3
<1>13. CASE /\ ~OfIcarus!TooShort(head.size) /\ lost' = lost
            /\ OfIcarus!PutRom(head.name, OfIcarus!Slice(source, offset, head.size))
            /\ offset' = offset + head.size /\ missing' = missing
  <2> DEFINE slice == OfIcarus!Slice(source, offset, head.size)
             new == OfIcarus!Put(files, head.name, slice)
  <2>1. /\ library' = [library EXCEPT ![Folder].files = new]
        /\ offset' = offset + head.size /\ missing' = missing
    BY <1>13 DEF OfIcarus!PutRom, files, Folder
  <2>2. /\ DOMAIN new = DOMAIN files \cup {head.name} /\ new[head.name] = slice
        /\ \A n \in DOMAIN files : n # head.name => new[n] = files[n]
    BY DEF OfIcarus!Put
  <2>3. slice.of = source /\ slice.to = offset + head.size
    BY DEF OfIcarus!Slice
  <2> HIDE DEF new, slice
  <2>4. /\ DOMAIN library' = DOMAIN library /\ library'[Folder].files = new
        /\ \A t \in DOMAIN library \ {Folder} : library'[t] = library[t]
    BY <1>2, <2>1, FilesChange
  <2>5. super => offset' <= source.image.size
    <3>1. super => ~(head.size > source.image.size - offset)
      BY <1>13 DEF OfIcarus!TooShort, super
    <3> QED BY <1>2, <1>9, <1>14, <2>1, <3>1
  <2>6. FilesAreKnown'
    BY <1>13, <1>15, <2>3, <2>5 DEF slice
  <2>7. ASSUME missing \cup lost = {} PROVE WrittenUpTo(k + 1)'
    <3>1. PICK to : Chained(q, to, k)
      BY <1>3, <2>7 DEF WrittenUpTo, q
    <3>2. PICK tp : tp[k + 1] = offset' /\ \A i \in 0..k : tp[i] = to[i]
      <4> DEFINE longer == [i \in 0..(k + 1) |-> IF i = k + 1 THEN offset' ELSE to[i]]
      <4>1. longer[k + 1] = offset' /\ \A i \in 0..k : longer[i] = to[i]
        BY <1>9
      <4> QED BY <4>1
    <3>3. tp[0] = OfIcarus!FirstByte(source) /\ tp[k] = offset
      BY <1>9, <3>1, <3>2 DEF Chained
    <3>4. ASSUME NEW i \in 1..(k + 1)
          PROVE  /\ tp[i] = tp[i - 1] + q[i].size
                 /\ super => tp[i] <= source.image.size
                 /\ q[i].name \in DOMAIN new
                 /\ new[q[i].name] = OfIcarus!Slice(source, tp[i - 1], q[i].size)
      <4>1. CASE i = k + 1
        <5>1. tp[i - 1] = offset /\ q[i] = head /\ tp[i] = offset'
          BY <1>9, <3>2, <3>3, <4>1
        <5> QED BY <2>1, <2>2, <2>5, <5>1 DEF slice
      <4>2. CASE i # k + 1
        <5>1. i \in 1..k /\ i \in 0..k /\ i - 1 \in 0..k
          BY <1>9, <4>2
        <5>2. tp[i] = to[i] /\ tp[i - 1] = to[i - 1]
          BY <3>2, <5>1
        <5>3. /\ to[i] = to[i - 1] + q[i].size
              /\ super => to[i] <= source.image.size
              /\ q[i].name \in DOMAIN files
              /\ files[q[i].name] = OfIcarus!Slice(source, to[i - 1], q[i].size)
          BY <3>1, <5>1 DEF Chained, super, files
        <5>4. i \in DOMAIN q
          BY <1>7, <1>9, <5>1
        <5>5. q[i].name # head.name
          BY <1>6, <1>9, <4>2, <5>4
        <5> QED BY <2>2, <5>2, <5>3, <5>5
      <4> QED BY <4>1, <4>2
    <3>5. Chained(q, tp, k + 1)'
      <4>1. q' = q /\ source' = source
        BY <1>1 DEF q
      <4> QED BY <1>2, <2>4, <3>2, <3>3, <3>4, <4>1 DEF Chained, super
    <3> QED BY <3>5 DEF WrittenUpTo, q
  <2>8. offset' \in Int
    BY <1>2, <1>9, <2>1
  <2> QED BY <1>1, <1>2, <1>10, <1>11, <1>13, <2>1, <2>6, <2>7, <2>8
          DEF RoundInv, Sound, OfIcarus!Succeeded, q
<1>17. \/ OfIcarus!TooShort(head.size)
       \/ /\ ~OfIcarus!TooShort(head.size)
          /\ offset' = offset + head.size /\ missing' = missing
          /\ \/ /\ OfIcarus!PutRom(head.name, OfIcarus!Slice(source, offset, head.size))
                /\ lost' = lost
             \/ /\ lost' = lost \cup {head.name}
                /\ OfIcarus!PutRom(head.name, OfIcarus!Slice(source, 0, 0)) \/ library' = library
  BY Zenon DEF OfIcarus!WriteRom, head
<1> QED BY <1>12, <1>13, <1>16, <1>17

LEMMA RoundGoesOn ==
  ASSUME ImportInv, RoundInv, OfIcarus!Continue
  PROVE  RoundInv'
<1> DEFINE q == OfIcarus!Roms(source)
<1>1. CASE OfIcarus!CopySave
  <2>1. /\ pc = "save" /\ pc' = "write" /\ UNCHANGED <<source, board, offset, missing, lost, reported>>
        /\ \/ library' = library
           \/ library' = [library EXCEPT ![Folder].save = "copied"]
    BY <1>1 DEF OfIcarus!CopySave, Folder
  <2>2. /\ Folder \in DOMAIN library /\ FoldersAreRecords /\ board = q /\ AsSequence(board)
        /\ Sound /\ offset = OfIcarus!FirstByte(source) /\ RomsFit(source)
    BY <2>1, SoundFits DEF ImportInv, RoundInv
  <2>3. /\ DOMAIN library' = DOMAIN library
        /\ \A t \in DOMAIN library : library'[t].files = library[t].files
    BY <2>1, <2>2, SaveChange
  <2>4. FilesAreKnown'
    BY <2>1, <2>3, FilesStay
  <2>5. offset \in Int
    BY <2>2 DEF RomsFit
  <2>6. Len(q) \in Nat /\ 0 \in 0..Len(q)
    BY <2>2 DEF AsSequence
  <2>7. Remains(q, 0)'
    <3>1. \A i \in 1..Len(board) : board[i] = q[0 + i]
      BY <2>2, <2>6
    <3> QED BY <2>1, <2>2, <2>6, <3>1 DEF Remains
  <2>8. WrittenUpTo(0)'
    <3>1. PICK to : to[0] = offset
      <4>1. [i \in {0} |-> offset][0] = offset
        OBVIOUS
      <4> QED BY <4>1
    <3>2. Chained(q, to, 0)'
      BY <2>1, <2>2, <3>1 DEF Chained
    <3> QED BY <3>2 DEF WrittenUpTo
  <2>9. Sound'
    BY <2>1, <2>2 DEF Sound
  <2>10. \E k \in 0..Len(q) : Remains(q, k)' /\ WrittenUpTo(k)'
    BY <2>6, <2>7, <2>8
  <2> QED BY <2>1, <2>4, <2>5, <2>9, <2>10 DEF RoundInv, OfIcarus!Succeeded
<1>2. CASE OfIcarus!End
  <2>1. /\ pc = "write" /\ board = <<>> /\ pc' = "idle"
        /\ UNCHANGED <<source, offset, missing, lost, library>>
        /\ reported' = "success" => missing = {}
    BY <1>2 DEF OfIcarus!End
  <2>2. Sound /\ RomsFit(source)
    BY <2>1, SoundFits DEF RoundInv
  <2>3. PICK k \in 0..Len(q) : Remains(q, k) /\ (missing \cup lost = {} => WrittenUpTo(k))
    BY <2>1 DEF RoundInv
  <2>4. k = Len(q)
    <3>1. Len(q) \in Nat /\ Len(board) = 0
      BY <2>1, <2>2 DEF RomsFit, Lined, AsSequence
    <3>2. Len(board) = Len(q) - k
      BY <2>3 DEF Remains
    <3> HIDE DEF q
    <3> QED BY <3>1, <3>2
  <2>5. missing \cup lost = {} => WrittenUpTo(Len(q))
    BY <2>3, <2>4
  <2>6. WrittenUpTo(Len(q)) => WrittenUpTo(Len(q))'
    BY <2>1 DEF WrittenUpTo, Chained, Folder
  <2>7. FilesAreKnown' /\ Sound'
    BY <2>1, <2>2 DEF RoundInv, FilesAreKnown, Sound
  <2> QED BY <2>1, <2>5, <2>6, <2>7 DEF RoundInv, OfIcarus!Succeeded
<1>3. CASE OfIcarus!Kill
  <2>1. pc' = "idle" /\ reported' = "none" /\ library' = library
    BY <1>3 DEF OfIcarus!Kill
  <2>2. FilesAreKnown'
    BY <2>1 DEF RoundInv, FilesAreKnown
  <2> QED BY <2>1, <2>2 DEF RoundInv, OfIcarus!Succeeded
<1>4. ASSUME NEW t \in DOMAIN library, OfIcarus!Play(t)
      PROVE  RoundInv'
  <2>1. /\ pc = "idle" /\ UNCHANGED <<pc, source, offset, missing, lost, reported>>
        /\ library' = [library EXCEPT ![t].save = "played"]
    BY <1>4 DEF OfIcarus!Play
  <2>2. /\ DOMAIN library' = DOMAIN library
        /\ \A u \in DOMAIN library : library'[u].files = library[u].files
    BY <2>1, SaveChange DEF ImportInv
  <2>3. /\ FilesAreKnown'
        /\ Folder \in DOMAIN library => \A k : WrittenUpTo(k) => WrittenUpTo(k)'
    BY <2>1, <2>2, FilesStay
  <2>4. ASSUME OfIcarus!Succeeded
        PROVE  Sound' /\ (missing \cup lost = {} => WrittenUpTo(Len(q))')
    <3>1. Folder \in DOMAIN library /\ Sound
          /\ (missing \cup lost = {} => WrittenUpTo(Len(q)))
      BY <2>4 DEF ImportInv, RoundInv, Placed, OfIcarus!Succeeded
    <3>2. Sound'
      BY <2>1, <3>1 DEF Sound
    <3>3. PICK n : n = Len(q)
      OBVIOUS
    <3>4. missing \cup lost = {} => WrittenUpTo(n)'
      BY <2>3, <3>1, <3>3
    <3>5. Len(q)' = n
      BY <2>1, <3>3
    <3>6. missing \cup lost = {} => WrittenUpTo(Len(q))'
      BY <3>4, <3>5 DEF WrittenUpTo, Chained
    <3> QED BY <3>2, <3>6
  <2>5. OfIcarus!Succeeded' <=> OfIcarus!Succeeded
    BY <2>1 DEF OfIcarus!Succeeded
  <2> QED BY <2>1, <2>3, <2>4, <2>5 DEF RoundInv
<1> QED BY <1>1, <1>2, <1>3, <1>4, RoundWrites DEF OfIcarus!Continue

LEMMA RoundInvariance == Spec => [](scenario # "daedalus" => ImportInv /\ RoundInv)
<1> DEFINE I == scenario # "daedalus" => ImportInv
           J == scenario # "daedalus" => RoundInv
<1>1. Init => J
  <2> SUFFICES ASSUME OfIcarus!Init
               PROVE  RoundInv
    BY DEF Init
  <2>1. DOMAIN library = {} /\ pc = "idle" /\ reported = "none"
    BY DEF OfIcarus!Init
  <2> QED BY <2>1 DEF RoundInv, FilesAreKnown, OfIcarus!Succeeded
<1>2. I /\ J /\ [Next]_vars => J'
  <2> SUFFICES ASSUME I, J, [Next]_vars, scenario # "daedalus"
               PROVE  RoundInv'
    BY ScenarioStays
  <2>1. ImportInv /\ RoundInv
    OBVIOUS
  <2>2. CASE ImportNext
    <3>1. \A n \in DOMAIN ImportSources : ImportSources[n] \subseteq AllSources
      BY DEF AllSources
    <3> QED BY <2>1, <2>2, <3>1, RoundStarts, RoundGoesOn DEF ImportNext
  <2>3. CASE UNCHANGED importVars
    <3>1. /\ UNCHANGED <<pc, source, board, offset, missing, lost, reported, library>>
      BY <2>3 DEF importVars
    <3>2. FilesAreKnown'
      BY <2>1, <3>1 DEF RoundInv, FilesAreKnown
    <3>3. \A k : WrittenUpTo(k) => WrittenUpTo(k)'
      BY <3>1 DEF WrittenUpTo, Chained, Folder
    <3>4. \A q, k : Remains(q, k) => Remains(q, k)'
      BY <3>1 DEF Remains
    <3> QED BY <2>1, <3>1, <3>2, <3>3, <3>4 DEF RoundInv, Sound, OfIcarus!Succeeded
  <2> QED BY <2>2, <2>3 DEF Next, SessionStep, SharedNext, vars, importVars
<1> QED BY <1>1, <1>2, ImportInvariance, PTL DEF Spec

(* For any images, kills and imports over what is there: after a success   *)
(* that left nobody else's files in the folder, what --manifest puts       *)
(* together again is the image from its first byte to its last (the        *)
(* heuristics, the importers and Icarus::manifest); and no ROM file of a   *)
(* Super Famicom folder reaches beyond its image.                          *)
THEOREM ImagesComeTogether == Spec => []ImportRoundTrip
<1>1. (scenario # "daedalus" => ImportInv /\ RoundInv) => ImportRoundTrip
  BY RoundTrips DEF ImportRoundTrip
<1> QED BY <1>1, RoundInvariance, PTL
===============================================================================
