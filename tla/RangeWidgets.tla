------------------------------ MODULE RangeWidgets ------------------------------
(***************************************************************************)
(* A slider or scroll bar of hiro.  Its position is one of `length' many;  *)
(* the toolkit's control keeps to its own range and moves its knob when    *)
(* the range shrinks, and tells hiro of it or not.                         *)
(*                                                                         *)
(* A control is a record of                                                *)
(*   least    the least last position of the control's range;              *)
(*   extra    by how many its range is too long;                           *)
(*   hears    the handler is called for the program's changes too;         *)
(*   early    also for those that construct() makes;                       *)
(*   silent   but the program is not told of those of setLength();         *)
(*   again    setLength() sets the position once more.                         *)
(* Horizontal and vertical controls are the same code in two files.        *)
(***************************************************************************)
EXTENDS Integers, FiniteSetsExt

CONSTANT MaxLength

RangeAssumption == MaxLength \in Nat

VARIABLES
  control,
  attached,
  length, position,     \* the state
  last, knob,           \* of the control
  told, by,
  inside                \* the program kept the position inside since construct()

vars == <<control, attached, length, position, last, knob, told, by, inside>>

Plain == [least |-> 0, extra |-> 0, hears |-> FALSE, early |-> FALSE, again |-> FALSE,
          silent |-> FALSE]

(* length += length == 0; GTK+ needs a range of at least two.  Its scroll  *)
(* bars hold a lock in setLength(), its sliders do not.                    *)
GtkSlider    == [Plain EXCEPT !.least = 1, !.hears = TRUE]
GtkScrollBar == [Plain EXCEPT !.least = 1, !.hears = TRUE, !.silent = TRUE]
GtkHorizontalSlider    == GtkSlider
GtkVerticalSlider      == GtkSlider
GtkHorizontalScrollBar == GtkScrollBar
GtkVerticalScrollBar   == GtkScrollBar

(* Messages of what the user does only.                                    *)
WindowsHorizontalSlider    == Plain
WindowsVerticalSlider      == Plain
WindowsHorizontalScrollBar == Plain
WindowsVerticalScrollBar   == Plain

(* The length itself can be reached.  The knob of a scroll bar is set to   *)
(* the fraction anew with either; a length of zero would divide by it.     *)
CocoaHorizontalSlider    == [Plain EXCEPT !.extra = 1]
CocoaVerticalSlider      == [Plain EXCEPT !.extra = 1]
CocoaHorizontalScrollBar == [Plain EXCEPT !.extra = 1, !.again = TRUE]
CocoaVerticalScrollBar   == [Plain EXCEPT !.extra = 1, !.again = TRUE]

(* _setState(): the range, then the position; connected before it.         *)
QtRange == [Plain EXCEPT !.hears = TRUE, !.early = TRUE, !.again = TRUE]
QtHorizontalSlider    == QtRange
QtVerticalSlider      == QtRange
QtHorizontalScrollBar == QtRange
QtVerticalScrollBar   == QtRange

Gtk == {GtkHorizontalSlider, GtkVerticalSlider, GtkHorizontalScrollBar, GtkVerticalScrollBar}
Windows == {WindowsHorizontalSlider, WindowsVerticalSlider,
            WindowsHorizontalScrollBar, WindowsVerticalScrollBar}
Cocoa == {CocoaHorizontalSlider, CocoaVerticalSlider,
          CocoaHorizontalScrollBar, CocoaVerticalScrollBar}
Qt == {QtHorizontalSlider, QtVerticalSlider, QtHorizontalScrollBar, QtVerticalScrollBar}

Init ==
  /\ control \in Gtk \cup Windows \cup Cocoa \cup Qt
  /\ attached = FALSE
  /\ length = MaxLength /\ position = 0
  /\ last = 0 /\ knob = 0
  /\ told = FALSE /\ by = "program"
  /\ inside = TRUE

-------------------------------------------------------------------------------
Least(a, b) == Min({a, b})

(* length += length == 0, and GTK+'s max(1u, length - 1).                  *)
Last(n) == Max({control.least, n + control.extra - 1})

(* The knob moves, and the handler, if it is called, stores the position.  *)
(* It tells the program of another one; Qt's of the one it was set to too. *)
Moved(to, pos, locked) ==
  LET called == control.hears /\ to # knob
  IN  /\ knob' = to
      /\ position' = IF called THEN to ELSE pos
      /\ told' = (called /\ (pos # to \/ control.early) /\ ~locked)

SetLength(n) ==
  LET range == Last(n)
      fits  == Least(knob, range)
      once  == control.again /\ (fits = knob \/ ~control.hears)
  IN  /\ n # 0 \/ ~(control.again /\ ~control.hears)
      /\ length' = n
      /\ IF ~attached THEN UNCHANGED <<position, last, knob>> /\ told' = FALSE
         ELSE /\ last' = range
              /\ Moved(IF once THEN Least(position, range) ELSE fits, position, control.silent)
      /\ inside' = (inside /\ (attached => position' <= last'))
      /\ by' = "program" /\ UNCHANGED <<control, attached>>

SetPosition(p) ==
  /\ IF attached THEN Moved(Least(p, last), p, FALSE)
     ELSE position' = p /\ told' = FALSE /\ UNCHANGED knob
  /\ inside' = (inside /\ (attached => position' <= last))
  /\ by' = "program" /\ UNCHANGED <<control, attached, length, last>>

(* construct(): a new control's knob is at zero.                           *)
Attach ==
  /\ ~attached
  /\ attached' = TRUE
  /\ last' = Last(length)
  /\ knob' = Least(position, last')
  /\ told' = (control.early /\ knob' # 0)
  /\ position' = IF told' THEN knob' ELSE position
  /\ inside' = (position' <= last')
  /\ by' = "program" /\ UNCHANGED <<control, length>>

Detach ==
  /\ attached
  /\ attached' = FALSE
  /\ told' = FALSE /\ inside' = TRUE
  /\ by' = "program" /\ UNCHANGED <<control, length, position, last, knob>>

(* The user moves the knob, with an arrow or the mouse.                    *)
Drag(to) ==
  /\ attached /\ to \in 0..last
  /\ to # knob \/ control.extra = 1
  /\ knob' = to
  /\ position' = to
  /\ told' = (to # position \/ control.early \/ control.extra = 1)
  /\ inside' = TRUE
  /\ by' = "user" /\ UNCHANGED <<control, attached, length, last>>

Next ==
  \/ \E n \in 0..MaxLength : SetLength(n)
  \/ \E p \in 0..MaxLength : SetPosition(p)
  \/ Attach
  \/ Detach
  \/ \E to \in 0..MaxLength : Drag(to)

Spec == Init /\ [][Next]_vars

-------------------------------------------------------------------------------
(* The knob of a control shows the program's position, after any order of  *)
(* setters, shrunk ranges and drags, as long as the program has not set a  *)
(* position or a length that does not fit (then Qt and Cocoa's scroll bars *)
(* alone find back).  What position() returns is less than the length, but *)
(* with GTK+ for a length of one, and with Cocoa.                          *)
KnobShowsPosition ==
  attached =>
    /\ inside \/ control.again => knob = Least(position, last)
    /\ inside => \/ position < Max({1, length})
                 \/ control.least = 1 /\ length <= 1
                 \/ control.extra = 1

(* The position is only ever changed by the program itself, by its user,   *)
(* and else (by a range that shrank) not without telling, but by a GTK+    *)
(* scroll bar; and what is told is what is shown.  Windows and Cocoa tell  *)
(* nothing that the program did.                                           *)
MovesAreTold ==
  /\ position' # position /\ ~told' =>
       control.silent \/ \E p \in 0..MaxLength : SetPosition(p) /\ position' = p
  /\ told' => /\ position' = knob'
              /\ by' = "user" \/ control.hears
===============================================================================
