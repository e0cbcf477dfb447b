---------------------------------- MODULE Hiro ----------------------------------
(***************************************************************************)
(* hiro, a scenario of each part: the tree of objects (layouts in layouts, *)
(* a table view, and menus with a combo), the selection of a table view,   *)
(* the browser dialog, every kind of widget of the toolkits, their sliders *)
(* and scroll bars, and their combos and tabs.  In each scenario the       *)
(* others rest.                                                            *)
(***************************************************************************)
EXTENDS Integers, FiniteSets

CONSTANTS
  Scenarios,                                      \* of a run
  Lists, Slots, NoObject,                         \* ObjectTree: which kinds hold which,
  LayoutKind, TableKind, MenuKind,                \* and the objects of three trees
  Items,                                          \* TableSelection and Choices
  Actions, Names, Folders, Top, Sub, Places, Filters, NoName, MaxAnswers,   \* BrowserDialog
  Controls, MaxUsed,                              \* Widgets
  MaxLength                                       \* RangeWidgets

-------------------------------------------------------------------------------
VARIABLES
  scenario,
  tree, held,
  table, attached, batchable, band,
  Action, disk, path, view, chosen, filter, fileName, selected, modal, phase, asked,
  wToolkit, wKind, wUsed, wAttached, wState, wNative, wTold, wBy,
  rControl, rAttached, rLength, rPosition, rLast, rKnob, rTold, rBy, rInside,
  cControl, cItems, cFlags, cAttached, cRows, cShown, cTold, cBy, cDid

Layouts == INSTANCE ObjectTree WITH Objects <- DOMAIN LayoutKind, Kind <- LayoutKind
Table   == INSTANCE ObjectTree WITH Objects <- DOMAIN TableKind, Kind <- TableKind
Menus   == INSTANCE ObjectTree WITH Objects <- DOMAIN MenuKind, Kind <- MenuKind
Rows    == INSTANCE TableSelection
Dialog  == INSTANCE BrowserDialog
Widget  == INSTANCE Widgets WITH
             toolkit <- wToolkit, kind <- wKind, used <- wUsed, attached <- wAttached,
             state <- wState, native <- wNative, told <- wTold, by <- wBy
Slider  == INSTANCE RangeWidgets WITH
             control <- rControl, attached <- rAttached, length <- rLength,
             position <- rPosition, last <- rLast, knob <- rKnob, told <- rTold, by <- rBy,
             inside <- rInside
Choice  == INSTANCE Choices WITH
             control <- cControl, items <- cItems, flags <- cFlags,
             attached <- cAttached, rows <- cRows, shown <- cShown, told <- cTold, by <- cBy,
             did <- cDid

ASSUME HiroAssumption ==
  /\ Layouts!TreeAssumption /\ Table!TreeAssumption /\ Menus!TreeAssumption
  /\ Dialog!DialogAssumption
  /\ Widget!WidgetAssumption
  /\ Slider!RangeAssumption

treeVars   == <<tree, held>>
rowVars    == <<table, attached, batchable, band>>
dialogVars == <<Action, disk, path, view, chosen, filter, fileName, selected, modal, phase, asked>>
widgetVars == <<wToolkit, wKind, wUsed, wAttached, wState, wNative, wTold, wBy>>
rangeVars  == <<rControl, rAttached, rLength, rPosition, rLast, rKnob, rTold, rBy, rInside>>
choiceVars == <<cControl, cItems, cFlags, cAttached, cRows, cShown, cTold, cBy, cDid>>
vars       == <<scenario, treeVars, rowVars, dialogVars, widgetVars, rangeVars, choiceVars>>

(* What rests is one of what it could be.                                  *)
Init ==
  /\ scenario \in Scenarios
  /\ IF scenario = "table" THEN Table!Init ELSE IF scenario = "menus" THEN Menus!Init ELSE Layouts!Init
  /\ Rows!Init   /\ (scenario # "selection" => ~batchable)
  /\ Dialog!Init /\ (scenario # "dialog" => /\ Action = CHOOSE a \in Actions : TRUE
                                            /\ \A p \in DOMAIN disk : disk[p] = {})
  /\ Widget!Init /\ (scenario # "widgets" => wToolkit = "qt" /\ wKind = "frame")
  /\ Slider!Init /\ (scenario # "ranges" => rControl = Slider!GtkSlider)
  /\ Choice!Init /\ (scenario # "choices" => cControl = Choice!GtkCombo)

TreeNext   == /\ \/ scenario = "layouts" /\ Layouts!Next
                 \/ scenario = "table" /\ Table!Next
                 \/ scenario = "menus" /\ Menus!Next
              /\ UNCHANGED <<scenario, rowVars, dialogVars, widgetVars, rangeVars, choiceVars>>
RowsNext   == /\ scenario = "selection" /\ Rows!Next
              /\ UNCHANGED <<scenario, treeVars, dialogVars, widgetVars, rangeVars, choiceVars>>
WidgetNext == /\ scenario = "widgets" /\ Widget!Next
              /\ UNCHANGED <<scenario, treeVars, rowVars, dialogVars, rangeVars, choiceVars>>
SliderNext == /\ scenario = "ranges" /\ Slider!Next
              /\ UNCHANGED <<scenario, treeVars, rowVars, dialogVars, widgetVars, choiceVars>>
ChoiceNext == /\ scenario = "choices" /\ Choice!Next
              /\ UNCHANGED <<scenario, treeVars, rowVars, dialogVars, widgetVars, rangeVars>>
DialogStep(A) ==
  /\ scenario = "dialog" /\ A
  /\ UNCHANGED <<scenario, treeVars, rowVars, widgetVars, rangeVars, choiceVars>>

Next == TreeNext \/ RowsNext \/ WidgetNext \/ SliderNext \/ ChoiceNext \/ DialogStep(Dialog!Next)

(* The fairness of BrowserDialog.tla.                                      *)
Spec == Init /\ [][Next]_vars /\ WF_vars(DialogStep(Dialog!Runs))

-------------------------------------------------------------------------------
(* The properties of ObjectTree.tla, of the trees that they are asked of.  *)
TreeIsWellFormed ==
  /\ scenario = "layouts" => Layouts!DelegateIffAttached /\ Layouts!OffsetsAreIndices
  /\ scenario = "menus"   => Menus!DelegateIffAttached /\ Menus!OffsetsAreIndices
  /\ scenario = "table"   => Table!NativeObjectsNest /\ Table!NothingDangles
  /\ scenario = "layouts" => Layouts!NothingDangles

(* Those of the other modules; a part that rests has them too.             *)
NativeShowsState ==
  /\ scenario = "widgets" => Widget!NativeShowsState
  /\ scenario = "ranges"  => Slider!KnobShowsPosition
  /\ scenario = "choices" => Choice!ChoiceIsShown

SelectionAgrees == Rows!SelectionAgrees
ChangesAreTold  ==
  [][/\ scenario = "selection" => Rows!Told /\ Rows!Kept
     /\ scenario = "widgets"   => Widget!UserIsHeard
     /\ scenario = "ranges"    => Slider!MovesAreTold
     /\ scenario = "choices"   => Choice!ChoiceIsTold]_vars

OverwriteIsConfirmed ==
  scenario = "dialog" => Dialog!OverwriteIsConfirmed /\ Dialog!AnswersAreOfTheKind
AnswerEnds == (scenario = "dialog" /\ phase = "loop" /\ ~modal)
                          ~> (phase \in {"done", "question"})
===============================================================================
