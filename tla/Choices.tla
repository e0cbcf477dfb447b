-------------------------------- MODULE Choices --------------------------------
(***************************************************************************)
(* A combo button or a tab frame of hiro: items of which one is selected.  *)
(* Each item has a flag of its own, in an object or not; the toolkit's     *)
(* control has rows (or pages) and shows one of them.  Both sides are      *)
(* changed by each other: setters change the control, which calls a        *)
(* handler, which changes the flags.  The toolkits differ in most of it.   *)
(*                                                                         *)
(* A control of one toolkit is a record of                                 *)
(*   combo    a combo button, or else a tab frame;                         *)
(*   passes   append() shows the new item if it is flagged;                *)
(*   picks    and if none is shown;                                        *)
(*   copies   the handler stores what is shown, whoever changed it;        *)
(*   stores   it stores what the user chose;                               *)
(*   tells    it tells the program of the program's own changes as well;   *)
(*   again    and of the user's choice of what is shown already;           *)
(*   drops    remove() removes the row;                                    *)
(*   survives sets of what may have happened, the control still showing    *)
(*            what selected() says.                                        *)
(* An index that the control does not have is the toolkit's to answer and  *)
(* not modelled: while rows are missing or left over the program takes the *)
(* control apart, and nothing else.  Nor are a tab removed before the last *)
(* one (mTabFrame::remove() removes the last one), or GTK+'s tabs moved.   *)
(***************************************************************************)
EXTENDS Integers, FiniteSetsExt, SequencesExt

CONSTANT Items

VARIABLES
  control,
  items, flags,        \* state.items and those whose state.selected is set
  attached,
  rows, shown,         \* of the control; 0: none is shown
  told, by,
  did                  \* since it was empty

vars == <<control, items, flags, attached, rows, shown, told, by, did>>

Combo == [combo |-> TRUE, passes |-> TRUE, picks |-> FALSE, copies |-> FALSE, stores |-> TRUE,
          tells |-> FALSE, again |-> FALSE, drops |-> TRUE, survives |-> {}]
Tabs  == [Combo EXCEPT !.combo = FALSE, !.drops = FALSE]

GtkCombo     == [Combo EXCEPT !.picks = TRUE, !.copies = TRUE,
                              !.survives = {{"dropped", "preset", "chosen"}}]
WindowsCombo == [Combo EXCEPT !.picks = TRUE, !.survives = {{"dropped", "chosen"}}]
CocoaCombo   == [Combo EXCEPT !.passes = FALSE, !.again = TRUE, !.survives = {{"dropped", "chosen"}}]
QtCombo      == [Combo EXCEPT !.copies = TRUE,
                              !.survives = {{"filled", "dropped", "lost", "preset", "chosen"}}]
GtkTabs      == [Tabs EXCEPT !.copies = TRUE, !.drops = TRUE,
                             !.survives = {{"filled", "dropped", "chosen"},
                                           {"dropped", "lost", "preset", "chosen"}}]
WindowsTabs  == [Tabs EXCEPT !.survives = {{"chosen"}}]
CocoaTabs    == [Tabs EXCEPT !.passes = FALSE, !.copies = TRUE, !.tells = TRUE,
                             !.survives = {{"chosen"}}]
QtTabs       == [Tabs EXCEPT !.stores = FALSE, !.tells = TRUE, !.survives = {{"filled"}}]

Choosers == {GtkCombo, WindowsCombo, CocoaCombo, QtCombo, GtkTabs, WindowsTabs, CocoaTabs, QtTabs}

Init ==
  /\ control \in Choosers
  /\ items = << >> /\ flags = {}
  /\ attached = FALSE /\ rows = << >> /\ shown = 0
  /\ told = FALSE /\ by = "program" /\ did = {}

-------------------------------------------------------------------------------
Members   == ToSet(items)
Index(i)  == CHOOSE n \in DOMAIN items : items[n] = i
None      == "none"
Selected(fs) == LET n == SelectInSeq(items, LAMBDA i : i \in fs)
                IN  IF n = 0 THEN None ELSE items[n]

(* Of the items of `among', i alone.                                       *)
Alone(i, among) == (flags \ ToSet(among)) \cup {i}

Whole == attached => rows = items
Did(what) == did' = IF items' = << >> /\ rows' = << >> THEN {} ELSE did \cup what

(* mComboButton::append(), mTabFrame::append() and their delegates'.       *)
AppendItem(i) ==
  LET its == Append(items, i)
      fs  == IF items = << >> THEN flags \cup {i} ELSE flags
      to  == IF rows = << >> \/ (i \in fs /\ control.passes) \/ (shown = 0 /\ control.picks)
             THEN Len(its) ELSE shown
  IN  /\ i \notin Members /\ Whole
      /\ items' = its
      /\ IF ~attached THEN flags' = fs /\ UNCHANGED <<rows, shown>> /\ told' = FALSE
         ELSE /\ rows' = its /\ shown' = to
              /\ flags' = IF to # shown /\ (control.copies \/ (control.picks /\ i \notin fs))
                          THEN Alone(its[to], its) ELSE fs
              /\ told' = (to # shown /\ control.tells)
      /\ Did(IF items # << >> /\ i \in flags THEN {"preset"} ELSE {})
      /\ by' = "program" /\ UNCHANGED <<control, attached>>

-------------------------------------------------------------------------------
(* remove() of the n-th item: what is left, shown and flagged.             *)
Left(rs, s, fs) == rows' = rs /\ shown' = s /\ flags' = fs
Closer(n) == IF n < shown THEN shown - 1 ELSE shown

(* If it was shown, the first is selected, which may be the one that goes. *)
GtkComboRemove(n, its) ==
  IF shown = n THEN Left(its, Min({1, Len(its)}), Alone(items[1], items))
  ELSE Left(its, Closer(n), flags)

(* The first is shown, and no other item's flag is set.                    *)
WindowsComboRemove(n, its) ==
  Left(its, IF items[n] \in flags THEN Min({1, Len(its)}) ELSE IF shown = n THEN 0 ELSE Closer(n),
       flags)

(* What Cocoa shows after it is left open.                                 *)
CocoaComboRemove(n, its) ==
  IF shown = n THEN \E s \in 0..Min({1, Len(its)}) : Left(its, s, flags)
  ELSE Left(its, Closer(n), flags)

(* The item removes its own row; the index that is shown changes.          *)
QtComboRemove(n, its) ==
  LET s == IF shown = n THEN Min({n, Len(its)}) ELSE Closer(n)
  IN  Left(its, s, IF n <= shown /\ its # << >> THEN Alone(its[s], its) ELSE flags)

(* The last page goes; the flags are set anew while the item is listed.    *)
GtkTabsRemove(n, its) ==
  LET s == Min({shown, Len(its)})
  IN  Left(its, s, IF s = 0 THEN flags \ Members ELSE Alone(items[s], items))

RemoveItem(i) ==
  LET n   == Index(i)
      its == RemoveAt(items, n)
  IN  /\ i \in Members /\ Whole
      /\ ~control.combo => n = Len(items)
      /\ items' = its
      /\ IF ~attached \/ ~control.drops THEN UNCHANGED <<rows, shown, flags>>
         ELSE CASE control = GtkCombo     -> GtkComboRemove(n, its)
                [] control = WindowsCombo -> WindowsComboRemove(n, its)
                [] control = CocoaCombo   -> CocoaComboRemove(n, its)
                [] control = QtCombo      -> QtComboRemove(n, its)
                [] control = GtkTabs      -> GtkTabsRemove(n, its)
      /\ Did(IF i \in flags THEN {"lost"} ELSE {"dropped"})
      /\ told' = FALSE /\ by' = "program" /\ UNCHANGED <<control, attached>>

(* reset() of a combo clears the list, of tabs removes the last ones.  Qt  *)
(* shows the first row until it is gone.                                   *)
ResetItems ==
  /\ items # << >>
  /\ items' = << >>
  /\ IF attached /\ control.drops
     THEN Left(<< >>, 0,
            CASE control \in {GtkCombo, GtkTabs} /\ shown # 0 -> flags \ Members
              [] control = QtCombo /\ Len(items) > 1 -> Alone(items[1], items)
              [] OTHER -> flags)
     ELSE UNCHANGED <<rows, shown, flags>>
  /\ Did({"lost"})
  /\ told' = FALSE /\ by' = "program" /\ UNCHANGED <<control, attached>>

(* setSelected() of an item, of the control or of none.                    *)
SelectItem(i) ==
  /\ Whole
  /\ IF i \in Members
     THEN /\ flags' = Alone(i, items)
          /\ shown' = IF attached THEN Index(i) ELSE shown
     ELSE flags' = flags \cup {i} /\ UNCHANGED shown
  /\ told' = (control.tells /\ shown' # shown)
  /\ by' = "program" /\ UNCHANGED <<control, items, attached, rows, did>>

(* setText() of an item.  Windows needs a new row; Qt's _setState() shows  *)
(* the item if it is flagged.                                              *)
RenameItem(i) ==
  /\ attached /\ Whole /\ i \in Members
  /\ shown' = CASE control = WindowsCombo /\ shown = Index(i) /\ i \notin flags -> 0
                [] control \in {WindowsCombo, QtCombo, QtTabs} /\ i \in flags   -> Index(i)
                [] OTHER -> shown
  /\ told' = (control.tells /\ shown' # shown)
  /\ by' = "program" /\ UNCHANGED <<control, items, flags, attached, rows, did>>

-------------------------------------------------------------------------------
(* construct() of a control that has items; theirs is called after it.     *)
LastFlagged == SelectLastInSeq(items, LAMBDA i : i \in flags)

(* Items without a delegate get no row; none being active, each one is     *)
(* selected in turn.                                                       *)
GtkComboConstruct     == Left(<< >>, 0, Alone(Last(items), items))

(* Each is selected in turn, without a delegate to show it, unless the     *)
(* first one is.                                                           *)
WindowsComboConstruct ==
  IF items[1] \in flags THEN Left(items, LastFlagged, flags)
  ELSE Left(items, 0, Alone(Last(items), items))

(* Only append() adds rows.                                                *)
CocoaConstruct        == Left(<< >>, 0, flags)

(* The first row of all is shown, and so flagged.                          *)
QtComboConstruct      == Left(items, 1, Alone(items[1], items))

(* The handler is connected later.                                         *)
GtkTabsConstruct      == Left(items, Max({1, LastFlagged}), flags)

(* The items have no delegate yet: no text, no selection.                  *)
WindowsTabsConstruct  == Left(items, 1, flags)
QtTabsConstruct       == Left(items, Max({1, LastFlagged}), flags)

Attach ==
  /\ ~attached
  /\ attached' = TRUE
  /\ IF items = << >> THEN Left(<< >>, 0, flags)
     ELSE CASE control = GtkCombo      -> GtkComboConstruct
            [] control = WindowsCombo  -> WindowsComboConstruct
            [] control = QtCombo       -> QtComboConstruct
            [] control = GtkTabs       -> GtkTabsConstruct
            [] control = WindowsTabs   -> WindowsTabsConstruct
            [] control = QtTabs        -> QtTabsConstruct
            [] OTHER                   -> CocoaConstruct
  /\ told' = (control = QtTabs /\ items # << >>)
  /\ by' = "program" /\ UNCHANGED <<control, items>>
  /\ Did({"filled"})

(* destruct() of the items first.  Those of a Qt combo remove the rows     *)
(* 1, 2, ... of what is left, and what is shown by then is flagged.        *)
QtComboDestructed ==
  LET Step(st, n) ==
        IF n > st.count THEN st
        ELSE LET s == IF n < st.at THEN st.at - 1
                      ELSE IF n = st.at THEN Min({n, st.count - 1}) ELSE st.at
             IN  [count |-> st.count - 1, at |-> s,
                  flag  |-> IF n <= st.at /\ st.count > 1 THEN s ELSE st.flag]
  IN  FoldLeft(Step, [count |-> Len(rows), at |-> shown, flag |-> shown],
               [n \in DOMAIN rows |-> n]).flag

Detach ==
  /\ attached
  /\ attached' = FALSE
  /\ Left(<< >>, 0, IF control = QtCombo /\ Len(items) > 1
                    THEN Alone(items[QtComboDestructed], items) ELSE flags)
  /\ told' = FALSE /\ by' = "program" /\ UNCHANGED <<control, items>>
  /\ Did({})

(* The user chooses a row.  The handler of Qt's tabs shows the item's      *)
(* layout, and stores nothing.                                             *)
Choose(n) ==
  /\ attached /\ Whole /\ n \in DOMAIN rows
  /\ n # shown \/ control.again
  /\ shown' = n
  /\ flags' = IF control.stores THEN Alone(items[n], items) ELSE flags
  /\ told' = TRUE /\ by' = "user" /\ UNCHANGED <<control, items, attached, rows>>
  /\ Did({"chosen"})

Next ==
  \/ \E i \in Items : AppendItem(i) \/ RemoveItem(i) \/ SelectItem(i) \/ RenameItem(i)
  \/ ResetItems \/ Attach \/ Detach
  \/ \E n \in 1..Cardinality(Items) : Choose(n)

Spec == Init /\ [][Next]_vars

-------------------------------------------------------------------------------
(* An attached control has a row for each item, in order, and shows the    *)
(* one that selected() returns, the only one flagged, after everything the *)
(* toolkit survives: all of them the user's choices and setSelected(); few *)
(* an item that was selected before it was appended, the removal of the    *)
(* selected one, or to be attached when they have items already.           *)
ChoiceIsShown ==
  attached /\ (\E happened \in control.survives : did \subseteq happened) =>
    /\ rows = items
    /\ items # << >> => shown # 0 /\ flags \cap Members = {items[shown]}

(* The program is told of what the user chose, selected() being that one   *)
(* but with Qt's tabs; and never of its own changes but by the tabs of     *)
(* Cocoa and Qt.  Nothing but a combo with items changes its selection     *)
(* when it is attached or taken off.                                       *)
ChoiceIsTold ==
  /\ by' = "user" => told' /\ (control.stores => Selected(flags') = rows[shown'])
  /\ by' = "program" => ~told' \/ control.tells
  /\ attached' # attached /\ (~control.combo \/ control = CocoaCombo) => flags' = flags
===============================================================================
