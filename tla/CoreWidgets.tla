----------------------------- MODULE CoreWidgets -----------------------------
(***************************************************************************)
(* hiro's core: the properties of each kind of widget and menu item and    *)
(* the events that it tells the program besides changes of them.  Each     *)
(* setter stores the value and passes it to the delegate, if there is one. *)
(* Of a Canvas, color, gradient and icon are the picture that is painted.  *)
(* What the toolkits' tables have in common is here as well: a control     *)
(* does what is most common, except for what its record says.              *)
(***************************************************************************)
EXTENDS TLC

Widget(properties, events) == [properties |-> properties, events |-> events]

Colors == {"backgroundColor", "foregroundColor"}
Faces == {"bordered", "icon", "orientation", "text"}

CoreButton      == Widget(Faces, {"activate"})
CoreCanvas      == Widget({"picture", "droppable"},
                          {"drop", "mouse leave", "mouse move", "mouse press", "mouse release"})
CoreCheckButton == Widget(Faces \cup {"checked"}, {})
CoreCheckLabel  == Widget({"checked", "text"}, {})
CoreFrame       == Widget({"text"}, {})
CoreLabel       == Widget({"alignment", "text"}, {})
CoreLineEdit    == Widget({"backgroundColor", "editable", "foregroundColor", "text"}, {"activate"})
CoreProgressBar == Widget({"position"}, {})
CoreRadioButton == Widget(Faces, {})          \* the flags and the clicks: RadioGroup.tla
CoreRadioLabel  == Widget({"text"}, {})
CoreSourceEdit  == Widget({"cursor", "text"}, {})
CoreTextEdit    == Widget({"backgroundColor", "cursor", "editable", "foregroundColor", "text",
                           "wordWrap"}, {})
CoreViewport    == Widget({"droppable"},
                          {"drop", "mouse leave", "mouse move", "mouse press", "mouse release"})

(* The items of a table view are painted from what they and, where they    *)
(* have none, their row, column and table have.  A cell that is checked    *)
(* becomes checkable, and one that is not reads as unchecked.  Selections  *)
(* are machines of their own, and so is what a ComboButton or TabFrame     *)
(* shows.                                                                  *)
Painted == {"alignment", "backgroundColor", "foregroundColor"}

CoreComboEdit       == Widget(Colors \cup {"text"}, {"activate"})
CoreConsole         == Widget(Colors \cup {"prompt"}, {"activate"})
CoreIconView        == Widget(Colors \cup {"batchable", "flow", "orientation"}, {"activate", "context"})
CoreIconViewItem    == Widget({"icon", "text"}, {})
CoreTabFrame        == Widget({"navigation"}, {})
CoreTableView       == Widget(Painted \cup {"batchable", "bordered"}, {"activate", "context"})
CoreTableViewHeader == Widget({"visible"}, {})
CoreTableViewColumn == Widget(Painted \cup {"editable", "icon", "resizable", "sortable", "text", "visible"},
                              {"sort"})
CoreTableViewItem   == Widget(Painted, {})
CoreTableViewCell   == [under |-> [checked |-> "checkable"]] @@
                       Widget(Painted \cup {"checkable", "checked", "icon", "text"}, {})
CoreTreeView        == Widget(Colors, {"activate", "context"})
CoreTreeViewItem    == Widget(Colors \cup {"checkable", "checked", "icon", "text"}, {})

CoreStatusBar == Widget({"text", "visible"}, {})
CoreWindow    == Widget({"backgroundColor", "dismissable", "droppable", "resizable", "title"},
                        {"close", "drop", "key press", "key release", "move", "size"})

CoreMenuItem      == Widget({"icon", "text"}, {"activate"})
CoreMenuCheckItem == Widget({"checked", "text"}, {})
CoreMenuRadioItem == Widget({"text"}, {})
CoreMenu          == Widget({"icon", "text"}, {})

Control(core, r) ==
  r @@ core @@
  [pushed |-> core.properties, ignored |-> {}, together |-> {}, locked |-> {}, reports |-> {},
   moved |-> {}, sticky |-> {}, rebuilds |-> {}, edited |-> {}, copied |-> {}, tells |-> {},
   needs |-> << >>, under |-> << >>, bounds |-> << >>, forgets |-> {}, asked |-> {}, saved |-> {},
   born |-> FALSE, loose |-> {}]

(* What the user changes is stored and told.                               *)
Edits(ps)   == [edited |-> ps, copied |-> ps, tells |-> ps]
Checks      == [needs |-> [checked |-> "checkable"]] @@ Edits({"checked"})
Born        == [born |-> TRUE]
Without(ps) == [ignored |-> ps]
Only(core)  == Control(core, [loose |-> {}])
===============================================================================
