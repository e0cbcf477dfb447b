----------------------------- MODULE TableSelection -----------------------------
(***************************************************************************)
(* The selection of a hiro TableView over GTK+: each item has a flag, the  *)
(* GTK+ tree view selects rows, and the native object caches the positions *)
(* it saw last.  GTK+ tells of changes by a signal, except while a rubber  *)
(* band is drawn; the lock keeps the program's own changes from being told *)
(* to onChange().                                                          *)
(***************************************************************************)
EXTENDS Naturals, SequencesExt, FiniteSets

CONSTANT Items

VARIABLES
  table,      \* [items, chosen, rows, gtk, current, told]
  attached,   \* the native objects are there
  batchable,
  band        \* the user draws a rubber band

vars == <<table, attached, batchable, band>>

Init ==
  /\ table = [items   |-> <<>>,      \* mTableView::state.items
              chosen  |-> {},        \* items with state.selected
              rows    |-> <<>>,      \* of the GtkListStore, by their items
              gtk     |-> {},        \* the selected rows, by their items
              current |-> {},        \* currentSelection, positions from 1
              told    |-> FALSE]     \* doChange() was called in this step
  /\ attached = FALSE /\ batchable \in BOOLEAN /\ band = FALSE

Multiple == batchable
Selected(t) == t.chosen \cap Range(t.items)

-------------------------------------------------------------------------------
(* The native side.                                                        *)
MutUpdateSelected(t, locked) ==       \* mutant: selections of a size are the same
  LET rows == {n \in DOMAIN t.rows : t.rows[n] \in t.gtk}
  IN  IF Cardinality(rows) = Cardinality(t.current) THEN t
      ELSE [t EXCEPT !.current = rows,
                     !.chosen = (@ \ Range(t.items)) \cup {t.items[n] : n \in rows \cap DOMAIN t.items},
                     !.told = @ \/ ~locked]
UpdateSelected(t, locked) ==
  LET rows == {n \in DOMAIN t.rows : t.rows[n] \in t.gtk}
  IN  IF rows = t.current THEN t
      ELSE [t EXCEPT !.current = rows,
                     !.chosen = (@ \ Range(t.items)) \cup {t.items[n] : n \in rows \cap DOMAIN t.items},
                     !.told = @ \/ ~locked]

SelectRow(t, i) == [t EXCEPT !.gtk = IF Multiple THEN @ \cup {i} ELSE {i}]

SetState(t, i) ==                     \* pTableViewItem::_setState()
  UpdateSelected(IF i \in t.chosen THEN SelectRow(t, i) ELSE [t EXCEPT !.gtk = @ \ {i}], TRUE)

ConstructRow(t, i) == SetState([t EXCEPT !.rows = Append(@, i)], i)

MutDestructRow(t, i) ==               \* mutant: the selection is not looked at
  [t EXCEPT !.rows = RemoveFirst(@, i), !.gtk = @ \ {i}]
DestructRow(t, i) ==
  UpdateSelected([t EXCEPT !.rows = RemoveFirst(@, i), !.gtk = @ \ {i}], TRUE)

UnsetRow(t, i) == SetState([t EXCEPT !.chosen = @ \ {i}], i)

-------------------------------------------------------------------------------
(* The program's calls.                                                    *)
Quiet == [table EXCEPT !.told = FALSE]
Same  == UNCHANGED <<attached, batchable, band>>

AppendRow(i) ==
  /\ i \notin Range(table.items) /\ ~band
  /\ LET added == [Quiet EXCEPT !.items = Append(@, i)]
     IN  table' = IF attached THEN ConstructRow(added, i) ELSE added
  /\ Same

RemoveRow(i) ==
  /\ i \in Range(table.items) /\ ~band
  /\ LET left == [Quiet EXCEPT !.items = RemoveFirst(@, i)]
     IN  table' = IF attached THEN DestructRow(left, i) ELSE left
  /\ Same

SetSelected(i, on) ==
  /\ (i \in table.chosen) # on /\ ~band
  /\ LET set == [Quiet EXCEPT !.chosen = IF on THEN @ \cup {i} ELSE @ \ {i}]
     IN  table' = IF attached /\ i \in Range(table.items) THEN SetState(set, i) ELSE set
  /\ Same

(* The table comes to a window: a new native object, and rows for it.      *)
MutAttach ==                          \* mutant: rows of which none is selected
  /\ ~attached
  /\ attached' = TRUE
  /\ table' = [Quiet EXCEPT !.current = {}, !.rows = table.items, !.chosen = {}]
  /\ UNCHANGED <<batchable, band>>
Attach ==
  /\ ~attached
  /\ attached' = TRUE
  /\ table' = FoldLeft(ConstructRow, [Quiet EXCEPT !.current = {}], table.items)
  /\ UNCHANGED <<batchable, band>>

(* It leaves: from the last row on, or from the first if its layout does.  *)
Detach ==
  /\ attached /\ ~band
  /\ attached' = FALSE
  /\ \E order \in {table.items, Reverse(table.items)} :
       table' = FoldLeft(DestructRow, Quiet, order)
  /\ UNCHANGED <<batchable, band>>

(* GTK+ keeps one row, or none, of several when it is set to one.          *)
SetBatchable ==
  /\ ~band
  /\ batchable' = ~batchable
  /\ \E kept \in SUBSET table.gtk :
       /\ IF batchable THEN Cardinality(kept) <= 1 ELSE kept = table.gtk
       /\ table' = IF attached THEN UpdateSelected([Quiet EXCEPT !.gtk = kept], FALSE) ELSE Quiet
  /\ UNCHANGED <<attached, band>>

(* setFocused(): GTK+ selects the first row if none is; get_selected()     *)
(* does not answer for a view with multiple selection.                     *)
SetFocused ==
  /\ attached /\ ~band
  /\ LET selected == ~Multiple /\ table.gtk # {}
     IN  table' = IF selected THEN Quiet ELSE [Quiet EXCEPT !.gtk = {}]
  /\ Same

-------------------------------------------------------------------------------
(* The user's doings.                                                      *)
Changed(t) == UpdateSelected(t, FALSE)        \* the signal

Press(rows) ==
  /\ attached /\ ~band /\ rows # table.gtk
  /\ Multiple \/ Cardinality(rows) <= 1
  /\ table' = Changed([Quiet EXCEPT !.gtk = rows])
  /\ Same

MutPressBelow ==                      \* mutant: the rows only
  /\ attached /\ ~band /\ table.gtk # {}
  /\ table' = [Quiet EXCEPT !.gtk = {}, !.told = TRUE]
  /\ Same
PressBelow ==                         \* below the last row: nothing is selected
  /\ attached /\ ~band /\ table.gtk # {}
  /\ table' = [FoldLeft(UnsetRow, Quiet, table.items) EXCEPT !.told = TRUE]
  /\ Same

BandStart ==
  /\ attached /\ Multiple /\ ~band
  /\ band' = TRUE
  /\ table' = Quiet
  /\ UNCHANGED <<attached, batchable>>

(* The handler of the motion is before GTK+'s own.                         *)
BandMove(rows) ==
  /\ band /\ rows # table.gtk
  /\ table' = [UpdateSelected(Quiet, FALSE) EXCEPT !.gtk = rows]
  /\ Same

BandEnd ==
  /\ band
  /\ band' = FALSE
  /\ table' = Changed(Quiet)
  /\ UNCHANGED <<attached, batchable>>

Program ==
  \/ Attach \/ Detach \/ SetBatchable
  \/ \E i \in Items : AppendRow(i) \/ RemoveRow(i)
  \/ \E i \in Items, on \in BOOLEAN : SetSelected(i, on)

User ==
  \/ PressBelow \/ BandStart \/ BandEnd
  \/ \E rows \in SUBSET Range(table.rows) : Press(rows) \/ BandMove(rows)

Next == Program \/ User \/ (~Multiple /\ SetFocused)

Spec == Init /\ [][Next]_vars

-------------------------------------------------------------------------------
(* Whatever the program and the user did, the items that say they are      *)
(* selected are those GTK+ shows selected, in the rows of their items; a   *)
(* rubber band may be ahead while it is drawn.  Batches that are acted on  *)
(* (mTableView::batched()) rely on it.                                     *)
SelectionAgrees ==
  attached /\ ~band => Selected(table) = table.gtk /\ table.rows = table.items

(* "this prevents firing an onChange event when the actual selection has   *)
(* not changed" (table-view.cpp:362); and no change by the user is missed. *)
Told == User => (table'.told <=> Selected(table') # Selected(table))
ChangesAreTold == [][Told]_vars

(* An item that was selected before its table came to a window is selected *)
(* there, if it is the only one.                                           *)
Kept == Attach /\ Cardinality(Selected(table)) <= 1 => table'.gtk = Selected(table)
AttachKeepsSelection == [][Kept]_vars
===============================================================================
