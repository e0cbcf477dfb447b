----------------------------- MODULE ToolkitWidgets -----------------------------
(***************************************************************************)
(* The controls of GTK+, Windows, Cocoa and Qt, for Widgets.tla.           *)
(***************************************************************************)
EXTENDS CoreWidgets

-------------------------------------------------------------------------------
(* GTK+ reports each change of a value, the program's as well; setters     *)
(* hold a lock, handlers are connected after construct() has passed on the *)
(* state.                                                                  *)

GtkButton      == Only(CoreButton)

(* Files can be dropped once droppable was set, until the end.             *)
GtkCanvas      == Control(CoreCanvas, [sticky |-> {"droppable"}, loose |-> {"droppable"}])
GtkViewport    == Control(CoreViewport, [sticky |-> {"droppable"}, loose |-> {"droppable"}])

GtkCheckButton == Control(CoreCheckButton,
                    [locked |-> {"checked"}, reports |-> {"checked"}] @@ Edits({"checked"}))
GtkCheckLabel  == Control(CoreCheckLabel,
                    [locked |-> {"checked"}, reports |-> {"checked"}] @@ Edits({"checked"}))
GtkFrame       == Only(CoreFrame)
GtkLabel       == Only(CoreLabel)
GtkLineEdit    == Control(CoreLineEdit,
                    [locked |-> {"text"}, reports |-> {"text"}] @@ Edits({"text"}))

(* A position above 100 is shown as none.                                  *)
GtkProgressBar == Control(CoreProgressBar, [bounds |-> [position |-> "start"]])
GtkRadioButton == Only(CoreRadioButton)
GtkRadioLabel  == Only(CoreRadioLabel)

(* The text is read from the buffer, and a cursor past its end is put      *)
(* there: the handler stores it, but construct() has none yet.  It does    *)
(* not restore the cursor of a SourceEdit.                                 *)
Buffer == [locked  |-> {"cursor", "text"}, reports |-> {"cursor", "text"}, moved |-> {"cursor"},
           bounds  |-> [cursor |-> "end"],
           edited  |-> {"cursor", "text"}, copied |-> {"cursor"}, tells |-> {"cursor", "text"},
           asked   |-> {"text"}, saved |-> {"text"}]
GtkTextEdit    == Control(CoreTextEdit, Buffer)
GtkSourceEdit  == Control(CoreSourceEdit,
                    [pushed |-> {"text"}, loose |-> {"cursor"}] @@ Buffer)

(* construct() does not restore the text of a ComboEdit, nor the prompt.   *)
GtkComboEdit   == Control(CoreComboEdit,
                    [pushed |-> Colors, locked |-> {"text"}, reports |-> {"text"},
                     loose |-> {"text"}] @@ Edits({"text"}))
GtkConsole     == Control(CoreConsole, [pushed |-> Colors, loose |-> {"prompt"}])
GtkIconView     == Only(CoreIconView)
GtkIconViewItem == Only(CoreIconViewItem)
GtkTabFrame     == Only(CoreTabFrame)

(* A column's editable and icon are passed on by their setters only.       *)
GtkTableView       == Only(CoreTableView)
GtkTableViewHeader == Only(CoreTableViewHeader)
GtkTableViewColumn == LET drawn == {"resizable", "sortable", "text", "visible"}
                      IN  Control(CoreTableViewColumn,
                            [pushed |-> Painted \cup drawn, together |-> drawn,
                             loose |-> {"editable", "icon"}])
GtkTableViewItem   == Only(CoreTableViewItem)
GtkTableViewCell   == LET stored == {"checked", "icon", "text"}
                      IN  Control(CoreTableViewCell,
                            [together |-> stored, needs |-> [checked |-> "checkable"]] @@
                            Edits({"checked", "text"}))
GtkTreeView        == Only(CoreTreeView)
GtkTreeViewItem    == Control(CoreTreeViewItem, Checks)

GtkStatusBar == Only(CoreStatusBar)
GtkWindow    == Control(CoreWindow, Born)

GtkMenuItem      == Only(CoreMenuItem)
GtkMenuCheckItem == Control(CoreMenuCheckItem,
                      [locked |-> {"checked"}, reports |-> {"checked"}] @@ Edits({"checked"}))
GtkMenuRadioItem == Only(CoreMenuRadioItem)
GtkMenu          == Only(CoreMenu)

Gtk ==
  [button |-> GtkButton, canvas |-> GtkCanvas, viewport |-> GtkViewport,
   check_button |-> GtkCheckButton, check_label |-> GtkCheckLabel, frame |-> GtkFrame,
   label |-> GtkLabel, line_edit |-> GtkLineEdit, progress_bar |-> GtkProgressBar,
   radio_button |-> GtkRadioButton, radio_label |-> GtkRadioLabel, text_edit |-> GtkTextEdit,
   source_edit |-> GtkSourceEdit, menu_item |-> GtkMenuItem, menu_check_item |-> GtkMenuCheckItem,
   menu_radio_item |-> GtkMenuRadioItem, menu |-> GtkMenu,
   combo_edit |-> GtkComboEdit, console |-> GtkConsole, icon_view |-> GtkIconView,
   icon_view_item |-> GtkIconViewItem, tab_frame |-> GtkTabFrame, table_view |-> GtkTableView,
   table_view_header |-> GtkTableViewHeader, table_view_column |-> GtkTableViewColumn,
   table_view_item |-> GtkTableViewItem, table_view_cell |-> GtkTableViewCell,
   tree_view |-> GtkTreeView, tree_view_item |-> GtkTreeViewItem,
   status_bar |-> GtkStatusBar, window |-> GtkWindow]

-------------------------------------------------------------------------------
(* Windows reports what the user does, and of what the program does the    *)
(* change of an EDIT's text.  Buttons are painted by hiro, from the state; *)
(* colours of an EDIT as well.                                             *)

WindowsButton      == Control(CoreButton, [together |-> Faces])
WindowsCanvas      == Only(CoreCanvas)
WindowsViewport    == Only(CoreViewport)
WindowsCheckButton == Control(CoreCheckButton,
                        [together |-> Faces \cup {"checked"}] @@ Edits({"checked"}))
WindowsCheckLabel  == Control(CoreCheckLabel, Edits({"checked"}))
WindowsFrame       == Only(CoreFrame)
WindowsLabel       == Only(CoreLabel)
WindowsLineEdit    == Control(CoreLineEdit,
                        [locked |-> {"text"}, reports |-> {"text"}] @@ Edits({"text"}))
WindowsProgressBar == Control(CoreProgressBar, [bounds |-> [position |-> "end"]])
WindowsRadioButton == Control(CoreRadioButton, [together |-> Faces])
WindowsRadioLabel  == Only(CoreRadioLabel)

(* Nobody listens to the cursor: the state's is the last one that was set. *)
(* Word wrap needs another control.                                        *)
WindowsTextEdit    == Control(CoreTextEdit,
                        [locked |-> {"text"}, reports |-> {"text"}, moved |-> {"cursor"},
                         bounds |-> [cursor |-> "end"], rebuilds |-> {"wordWrap"}, edited |-> {"cursor", "text"},
                         tells |-> {"text"}, asked |-> {"text"}, saved |-> {"text"},
                         loose |-> {"cursor"}])

(* Rows and cells are painted by hiro, and a column's sortable is asked    *)
(* when its header is clicked.                                             *)
WindowsTabFrame        == Control(CoreTabFrame, Without({"navigation"}))
WindowsTableView       == Only(CoreTableView)
WindowsTableViewHeader == Only(CoreTableViewHeader)
WindowsTableViewColumn == Control(CoreTableViewColumn,
                            [together |-> {"icon", "resizable", "text"}] @@
                            Without({"editable", "visible"}))
WindowsTableViewItem   == Only(CoreTableViewItem)
WindowsTableViewCell   == Control(CoreTableViewCell, Checks)

WindowsStatusBar == Only(CoreStatusBar)
WindowsWindow    == Control(CoreWindow, Born)

(* A menu is built from the state of its items, again after each change.   *)
WindowsMenuItem      == Control(CoreMenuItem, [together |-> {"icon", "text"}])
WindowsMenuCheckItem == Control(CoreMenuCheckItem, Edits({"checked"}))
WindowsMenuRadioItem == Only(CoreMenuRadioItem)
WindowsMenu          == Control(CoreMenu, [together |-> {"icon", "text"}])

Windows ==
  [button |-> WindowsButton, canvas |-> WindowsCanvas, viewport |-> WindowsViewport,
   check_button |-> WindowsCheckButton, check_label |-> WindowsCheckLabel,
   frame |-> WindowsFrame, label |-> WindowsLabel, line_edit |-> WindowsLineEdit,
   progress_bar |-> WindowsProgressBar, radio_button |-> WindowsRadioButton,
   radio_label |-> WindowsRadioLabel, text_edit |-> WindowsTextEdit,
   menu_item |-> WindowsMenuItem, menu_check_item |-> WindowsMenuCheckItem,
   menu_radio_item |-> WindowsMenuRadioItem, menu |-> WindowsMenu,
   tab_frame |-> WindowsTabFrame, table_view |-> WindowsTableView,
   table_view_header |-> WindowsTableViewHeader, table_view_column |-> WindowsTableViewColumn,
   table_view_item |-> WindowsTableViewItem, table_view_cell |-> WindowsTableViewCell,
   status_bar |-> WindowsStatusBar, window |-> WindowsWindow]

-------------------------------------------------------------------------------
(* Cocoa reports what the user does only.  Borders and colours are not     *)
(* implemented.                                                            *)

CocoaButton      == Control(CoreButton, Without({"bordered"}))

(* A new canvas is blank until its geometry or its picture is set.         *)
CocoaCanvas      == Control(CoreCanvas, [pushed |-> {"droppable"}, loose |-> {"picture"}])

(* A new viewport takes no files; and the mouse is not told.               *)
CocoaViewport    == Control([CoreViewport EXCEPT !.events = {"drop"}],
                      [pushed |-> {}, loose |-> {"droppable"}])

CocoaCheckButton == Control(CoreCheckButton, Without({"bordered"}) @@ Edits({"checked"}))
CocoaCheckLabel  == Control(CoreCheckLabel, Edits({"checked"}))
CocoaFrame       == Only(CoreFrame)
CocoaLabel       == Only(CoreLabel)

(* The program is told that the text changed, and reads the old one.       *)
CocoaLineEdit    == Control(CoreLineEdit,
                      Without({"backgroundColor", "foregroundColor"}) @@
                      [edited |-> {"text"}, tells |-> {"text"}, loose |-> {"text"}])
CocoaProgressBar == Control(CoreProgressBar, [bounds |-> [position |-> "end"]])
CocoaRadioButton == Control(CoreRadioButton, Without({"bordered"}))
CocoaRadioLabel  == Only(CoreRadioLabel)

(* The getter asks the control; the handler stores the text nevertheless.  *)
CocoaTextEdit    == Control(CoreTextEdit,
                      Without({"backgroundColor", "foregroundColor"}) @@
                      [moved |-> {"cursor"}, bounds |-> [cursor |-> "end"],
                       edited |-> {"cursor", "text"}, copied |-> {"text"}, tells |-> {"text"}, asked |-> {"text"}, loose |-> {"cursor"}])

(* A cell is painted from its own state alone.  setText() of a column asks *)
(* for a selector that does not exist.  The square before a cell's text    *)
(* can be clicked if the cell is checkable or not; if it is not, what is   *)
(* told reads as unchecked.                                                *)
CocoaTabFrame        == Control(CoreTabFrame, Without({"navigation"}))
CocoaTableView       == Control([CoreTableView EXCEPT !.events = {"activate"}],
                          Without(Painted \cup {"bordered"}))
CocoaTableViewHeader == Control(CoreTableViewHeader, [pushed |-> {}, loose |-> {"visible"}])
CocoaTableViewColumn == Control([CoreTableViewColumn EXCEPT !.events = {}],
                          Without(CoreTableViewColumn.properties \ {"text"}) @@
                          [sticky |-> {"text"}, loose |-> {"text"}])
CocoaTableViewItem   == Control(CoreTableViewItem, Without(Painted))
CocoaTableViewCell   == Control(CoreTableViewCell,
                          Edits({"checked"}) @@ [loose |-> {"checkable", "checked"}])

CocoaStatusBar == Only(CoreStatusBar)

(* No colour at all is shown as a transparent black.                       *)
CocoaWindow    == Control([CoreWindow EXCEPT !.events = @ \ {"key press", "key release"}],
                    [sticky |-> {"backgroundColor"}, loose |-> {"backgroundColor"}] @@
                    Without({"dismissable"}) @@ Born)

CocoaMenuItem      == Only(CoreMenuItem)
CocoaMenuCheckItem == Control(CoreMenuCheckItem, Edits({"checked"}))
CocoaMenuRadioItem == Only(CoreMenuRadioItem)
CocoaMenu          == Only(CoreMenu)

Cocoa ==
  [button |-> CocoaButton, canvas |-> CocoaCanvas, viewport |-> CocoaViewport,
   check_button |-> CocoaCheckButton, check_label |-> CocoaCheckLabel, frame |-> CocoaFrame,
   label |-> CocoaLabel, line_edit |-> CocoaLineEdit, progress_bar |-> CocoaProgressBar,
   radio_button |-> CocoaRadioButton, radio_label |-> CocoaRadioLabel,
   text_edit |-> CocoaTextEdit, menu_item |-> CocoaMenuItem,
   menu_check_item |-> CocoaMenuCheckItem, menu_radio_item |-> CocoaMenuRadioItem,
   menu |-> CocoaMenu, tab_frame |-> CocoaTabFrame, table_view |-> CocoaTableView,
   table_view_header |-> CocoaTableViewHeader, table_view_column |-> CocoaTableViewColumn,
   table_view_item |-> CocoaTableViewItem, table_view_cell |-> CocoaTableViewCell,
   status_bar |-> CocoaStatusBar, window |-> CocoaWindow]

-------------------------------------------------------------------------------
(* Most setters of Qt pass on all of the state by _setState().  A colour   *)
(* that was set is not unset.                                              *)

QtButton      == Only(CoreButton)

(* A new canvas takes no files.                                            *)
QtCanvas      == Control(CoreCanvas, [pushed |-> {"picture"}, loose |-> {"droppable"}])
QtViewport    == Only(CoreViewport)

(* Qt reports each change; the setters hold a lock.                        *)
QtCheckButton == Control(CoreCheckButton,
                   [together |-> Faces \cup {"checked"}, locked |-> Faces \cup {"checked"},
                    reports |-> {"checked"}] @@ Edits({"checked"}))
QtCheckLabel  == Control(CoreCheckLabel,
                   [together |-> {"checked", "text"}, locked |-> {"checked", "text"},
                    reports |-> {"checked"}] @@ Edits({"checked"}))
QtFrame       == Only(CoreFrame)
QtLabel       == Only(CoreLabel)

(* textEdited is the user's only.                                          *)
QtLineEdit    == Control(CoreLineEdit,
                   [together |-> Colors \cup {"editable", "text"}, sticky |-> Colors,
                    loose |-> Colors] @@ Edits({"text"}))

(* QProgressBar ignores a position above 100.                              *)
QtProgressBar == Control(CoreProgressBar, [bounds |-> [position |-> "same"]])

(* Borders of a RadioButton are left to the style.                         *)
QtRadioButton == Control(CoreRadioButton,
                   [together |-> Faces \ {"bordered"}] @@ Without({"bordered"}))
QtRadioLabel  == Only(CoreRadioLabel)

(* _setState() leaves out the text: what was set before the widget was     *)
(* attached is not shown, and what the user typed is gone with the         *)
(* control.  textChanged is the program's as well, and no setter holds a   *)
(* lock.  Nobody listens to the cursor, and _setState() puts it back.      *)
QtTextEdit    == Control(CoreTextEdit,
                   [pushed |-> Colors \cup {"cursor", "editable", "wordWrap"},
                    together |-> Colors \cup {"cursor", "editable", "wordWrap"},
                    reports |-> {"text"}, moved |-> {"cursor"}, bounds |-> [cursor |-> "end"],
                    sticky |-> Colors, edited |-> {"cursor", "text"}, tells |-> {"text"}, asked |-> {"text"},
                    loose |-> Colors \cup {"cursor", "text"}])

(* Cells that set no alignment of their own take the table's when they are *)
(* set.  A new header is hidden, and new columns are bare, until one is    *)
(* appended or set: what was attached as a whole stays so.  A row without  *)
(* a native item, which pTableView::append() alone makes, is not modelled. *)
(* The item of a cell reports whatever is set of it, and the handler stores*)
(* each time if it is checked, locked or not: of one that is just appended *)
(* setBackground() comes first, and it is unchecked; and so is one whose   *)
(* box is taken away.                                                      *)
QtTabFrame        == Only(CoreTabFrame)
QtTableView       == Control(CoreTableView,
                       [sticky |-> Colors, pushed |-> Colors \cup {"batchable", "bordered"},
                        loose |-> Colors] @@ Without({"alignment"}))
QtTableViewHeader == Control(CoreTableViewHeader, [pushed |-> {}, loose |-> {"visible"}])
QtTableViewColumn == LET drawn == Painted \cup {"resizable", "sortable", "text", "visible"}
                     IN  Control(CoreTableViewColumn,
                           Without({"editable", "icon"}) @@
                           [pushed |-> {}, together |-> drawn, loose |-> drawn])
QtTableViewItem   == Control(CoreTableViewItem, [together |-> Painted])
QtTableViewCell   == Control(CoreTableViewCell,
                       [together |-> CoreTableViewCell.properties,
                        locked |-> CoreTableViewCell.properties, reports |-> {"checked"},
                        forgets |-> {"checked"}, loose |-> {"checked"}] @@ Checks)

QtStatusBar == Control(CoreStatusBar, [together |-> {"text", "visible"}])

(* The handlers of keys are commented out.                                 *)
QtWindow    == Control([CoreWindow EXCEPT !.events = @ \ {"key press", "key release"}],
                 [sticky |-> {"backgroundColor"}, loose |-> {"backgroundColor"}] @@ Born)

(* triggered is the user's only.                                           *)
QtMenuItem      == Control(CoreMenuItem, [together |-> {"icon", "text"}])
QtMenuCheckItem == Control(CoreMenuCheckItem, [together |-> {"checked", "text"}] @@ Edits({"checked"}))
QtMenuRadioItem == Only(CoreMenuRadioItem)
QtMenu          == Control(CoreMenu, [together |-> {"icon", "text"}])

Qt ==
  [button |-> QtButton, canvas |-> QtCanvas, viewport |-> QtViewport,
   check_button |-> QtCheckButton, check_label |-> QtCheckLabel, frame |-> QtFrame,
   label |-> QtLabel, line_edit |-> QtLineEdit, progress_bar |-> QtProgressBar,
   radio_button |-> QtRadioButton, radio_label |-> QtRadioLabel, text_edit |-> QtTextEdit,
   menu_item |-> QtMenuItem, menu_check_item |-> QtMenuCheckItem,
   menu_radio_item |-> QtMenuRadioItem, menu |-> QtMenu,
   tab_frame |-> QtTabFrame, table_view |-> QtTableView, table_view_header |-> QtTableViewHeader,
   table_view_column |-> QtTableViewColumn, table_view_item |-> QtTableViewItem,
   table_view_cell |-> QtTableViewCell, status_bar |-> QtStatusBar, window |-> QtWindow]
===============================================================================
