-------------------------------- MODULE MCHiro --------------------------------
(***************************************************************************)
(* Small trees, a table of three rows, a folder and one in it, and every   *)
(* control of the four toolkits, for Hiro.tla; and a group of radios, one  *)
(* more scenario.                                                          *)
(***************************************************************************)
EXTENDS Hiro

(* Kinds of containers, in groups that fit one window.                     *)
MCLists ==
  [k \in {"window", "layout", "widget", "table view", "header", "row", "column", "cell",
          "menu bar", "menu", "action", "popup menu", "combo button", "combo edit",
          "combo item", "tab frame", "tab", "frame"} |->
     CASE k = "layout"     -> {"layout", "widget", "table view", "combo button", "combo edit",
                               "tab frame", "frame"}
       [] k = "table view" -> {"row"}
       [] k = "header"     -> {"column"}
       [] k = "row"        -> {"cell"}
       [] k = "menu bar"   -> {"menu"}
       [] k \in {"menu", "popup menu"} -> {"menu", "action"}
       [] k \in {"combo button", "combo edit"} -> {"combo item"}
       [] k = "tab frame"  -> {"tab"}
       [] OTHER            -> {}]
MCSlots ==
  [k \in DOMAIN MCLists |->
     CASE k = "window"        -> {"layout", "menu bar"}
       [] k \in {"tab", "frame"} -> {"layout"}
       [] k = "table view"    -> {"header"}
       [] OTHER               -> {}]

MCLayouts == [w |-> "window", l1 |-> "layout", l2 |-> "layout", b1 |-> "widget", b2 |-> "widget"]
MCTable   == [w |-> "window", l1 |-> "layout", t |-> "table view", h |-> "header",
              c1 |-> "column", r1 |-> "row", x1 |-> "cell"]
MCMenus   == [w |-> "window", m |-> "menu bar", m1 |-> "menu",
              l1 |-> "layout", e |-> "combo edit", i1 |-> "combo item", i2 |-> "combo item"]

(* A folder and one in it, each with or without a file and, above, the     *)
(* folder itself.  The second filter matches everything.                   *)
MCSub     == [n \in Folders |-> "/sub/"]
MCFilters == <<{"rom"}, {"rom", "sub"}>>

(* Every widget, of which the program sets two properties.                 *)
Of == INSTANCE ToolkitWidgets
MCControls ==
  [gtk |-> Of!Gtk, windows |-> Of!Windows, cocoa |-> Of!Cocoa, qt |-> Of!Qt]

(* When the fourth of the radios is activated, the program checks the      *)
(* first.                                                                  *)
MCRadios == {"a", "b", "c", "d"}
MCReacts == [x \in MCRadios |-> IF x = "d" THEN "a" ELSE "nobody"]

-------------------------------------------------------------------------------
VARIABLES kind, s

Group == INSTANCE RadioGroup WITH
           Radios <- MCRadios, Nobody <- "nobody", Kinds <- {"label", "button"},
           Reacts <- MCReacts

groupVars == <<kind, s>>

MCInit == Init /\ Group!Init /\ (scenario # "radios" => kind = "label")
GroupNext == scenario = "radios" /\ Group!Next /\ UNCHANGED vars
MCNext == (Next /\ UNCHANGED groupVars) \/ GroupNext
MCSpec == /\ MCInit /\ [][MCNext]_<<vars, groupVars>>
          /\ WF_<<vars, groupVars>>(DialogStep(Dialog!Runs) /\ UNCHANGED groupVars)

(* The properties of RadioGroup.tla.                                       *)
OneIsChecked ==
  /\ [](scenario = "radios" => Group!OneIsChecked)
  /\ [][scenario = "radios" => Group!Activated]_<<vars, groupVars>>
===============================================================================
