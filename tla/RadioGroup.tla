------------------------------- MODULE RadioGroup -------------------------------
(***************************************************************************)
(* A hiro Group of RadioLabels (as the export methods of Mercurial Magic)  *)
(* or RadioButtons over GTK+.  hiro keeps a flag for each, GTK+ the state  *)
(* of each native button; GTK+'s radio buttons turn each other off, and    *)
(* tell of each change by a signal, in the middle of it, whose handler     *)
(* calls GTK+ again.  A lock of any of the group silences all of it.       *)
(***************************************************************************)
EXTENDS Sequences, FiniteSets, SequencesExt

CONSTANTS
  Radios, Nobody,
  Kinds,         \* of "label", "button"
  Reacts         \* [Radios -> Radios \cup {Nobody}]: whom its onActivate() checks

VARIABLES
  kind,
  s              \* [objects, live, active, rings, checked, locked, calls]

vars == <<kind, s>>

Init ==
  /\ kind \in Kinds
  /\ s = [objects |-> <<>>,                     \* of the group, those that live
          live    |-> Radios,
          active  |-> IF kind = "label" THEN Radios ELSE {},  \* GTK+'s buttons that are on
          rings   |-> {{x} : x \in Radios},     \* GTK+'s groups
          checked |-> {},                       \* state.checked
          locked  |-> {},
          calls   |-> <<>>]                     \* of onActivate(), in this step

Members(t)  == Range(t.objects)
Ring(t, x)  == CHOOSE r \in t.rings : x \in r

-------------------------------------------------------------------------------
RECURSIVE Clicked(_, _), Toggled(_, _), SetAll(_, _)

(* gtk_button_clicked(): a radio button turns off the one that is on, and  *)
(* is only turned off so.  A toggle button just changes.                   *)
Clicked(t, x) ==
  LET others == IF kind = "label" THEN (Ring(t, x) \cap t.active) \ {x} ELSE {}
      on     == [t EXCEPT !.active = @ \cup {x}]
      off    == [t EXCEPT !.active = @ \ {x}]
  IN  IF x \in t.active
      THEN IF kind = "label" /\ others = {} THEN t ELSE Toggled(off, x)
      ELSE Toggled(IF others = {} THEN on ELSE Clicked(on, CHOOSE o \in others : TRUE), x)

SetActive(t, x, value) == IF (x \in t.active) = value THEN t ELSE Clicked(t, x)

Flag(t, x) == [t EXCEPT !.checked = (IF x \in Members(t) THEN @ \ Members(t) ELSE @) \cup {x}]

(* Under the lock of x.                                                    *)
Locked(t, x)   == [t EXCEPT !.locked = @ \cup {x}]
Unlocked(t, x) == [t EXCEPT !.locked = @ \ {x}]

LabelSetChecked(t, x) == Unlocked(SetActive(Locked(t, x), x, TRUE), x)
SetAll(t, xs) ==
  IF xs = <<>> THEN t
  ELSE LET x == Head(xs)
       IN  SetAll(Unlocked(SetActive(Locked(t, x), x, x \in t.checked), x), Tail(xs))
ButtonSetChecked(t) == SetAll(t, t.objects)

setChecked(t, x) ==
  IF kind = "label" THEN LabelSetChecked(Flag(t, x), x) ELSE ButtonSetChecked(Flag(t, x))

MutGroupLocked(t, x) == x \in t.locked       \* mutant: its own lock only
GroupLocked(t, x) == IF x \in Members(t) THEN Members(t) \cap t.locked # {} ELSE x \in t.locked

(* The handler of the signal.                                              *)
MutActivate(t, x) == [t EXCEPT !.calls = Append(@, x)]     \* mutant: also if it was checked
Activate(t, x) ==
  LET set == [setChecked(t, x) EXCEPT !.calls = Append(@, x)]
  IN  IF x \in t.checked THEN setChecked(t, x)
      ELSE IF Reacts[x] \notin Members(t) THEN set ELSE setChecked(set, Reacts[x])

Toggled(t, x) == IF GroupLocked(t, x) THEN t ELSE Activate(t, x)

-------------------------------------------------------------------------------
(* pRadioLabel::setGroup(): all leave GTK+'s group and join the first's.   *)
Leave(t, x)   == SetActive([t EXCEPT !.rings = {r \ {x} : r \in @} \cup {{x}}], x, TRUE)
Join(t, x, f) ==
  SetActive([t EXCEPT !.rings = {r \ {x} : r \in @ \ {Ring(t, f)}} \cup {Ring(t, f) \cup {x}}], x, FALSE)

Regroup(t) ==
  LET first == t.objects[1]
      One(u, x) ==
        LET alone == Leave(Locked(u, x), x)
        IN  Unlocked(IF x = first
                     THEN [SetActive(alone, x, TRUE) EXCEPT !.checked = @ \cup {x}]
                     ELSE [Join(alone, x, first) EXCEPT !.checked = @ \ {x}], x)
  IN  FoldLeft(One, t, t.objects)

MutButtonRegroup(t) == SetAll([t EXCEPT !.checked = @ \cup {t.objects[1]}], t.objects)  \* mutant
ButtonRegroup(t) == SetAll([t EXCEPT !.checked = {t.objects[1]}], t.objects)

-------------------------------------------------------------------------------
Quiet == [s EXCEPT !.calls = <<>>]

(* group.append(): of one that is attached to a window.                    *)
AppendTo(x) ==
  /\ x \in s.live \ Members(s)
  /\ LET now == [Quiet EXCEPT !.objects = Append(@, x)]
     IN  s' = IF kind = "label" THEN Regroup(now) ELSE ButtonRegroup(now)

SetChecked(x) ==                      \* by the program
  /\ x \in Members(s)
  /\ s' = setChecked(Quiet, x)

Click(x) ==                           \* by the user
  /\ x \in Members(s)
  /\ s' = Clicked(Quiet, x)

Destroy(x) ==                         \* the group keeps a weak pointer
  /\ x \in s.live
  /\ s' = [Quiet EXCEPT !.objects = SelectSeq(@, LAMBDA y : y # x), !.live = @ \ {x},
                        !.active = @ \ {x}, !.checked = @ \ {x}, !.rings = {r \ {x} : r \in @}]

Next ==
  /\ \E x \in Radios : AppendTo(x) \/ SetChecked(x) \/ Click(x) \/ Destroy(x)
  /\ UNCHANGED kind

Spec == Init /\ [][Next]_vars

-------------------------------------------------------------------------------
(* What a group's radios say of themselves is what GTK+ shows, at most one *)
(* is checked, one is unless the checked one was destroyed, and no lock    *)
(* is left, however the signals and the calls were nested.                 *)
OneIsChecked ==
  /\ s.active \cap Members(s) = s.checked
  /\ Cardinality(s.checked) <= 1
  /\ s.live = Radios /\ Members(s) # {} => s.checked # {}
  /\ s.locked = {}

(* onActivate() is called once if the user's click checked another, and    *)
(* not otherwise; nor for what the program checks itself.                  *)
Activated ==
  \A x \in Radios :
    /\ Click(x) => s'.calls = IF x \in s.checked THEN <<>> ELSE <<x>>
    /\ SetChecked(x) /\ ~Click(x) => s'.calls = <<>>
ActivatedOnce == [][Activated]_vars
===============================================================================
