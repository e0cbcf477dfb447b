------------------------------- MODULE Widgets -------------------------------
(***************************************************************************)
(* One hiro widget or menu item.  Its properties live twice: in the state  *)
(* that the program sets and reads, attached to a window or not, and in    *)
(* the toolkit's native control, which is made by construct() and gone     *)
(* with destruct().  What construct() passes on, what a setter changes,    *)
(* which changes the toolkit reports and what the handlers do with them    *)
(* differs for each kind of widget and each of the four toolkits; their    *)
(* tables (ToolkitWidgets.tla) say it.                                     *)
(*                                                                         *)
(* A control is a record of                                                *)
(*   properties  that the program can set;                                 *)
(*   pushed      those that construct() passes on;                         *)
(*   ignored     whose setter does nothing, and which nothing shows;       *)
(*   together    that any of their setters passes on together (_setState); *)
(*   locked      whose setter holds the lock while it changes the control; *)
(*   reports     whose change by the program the toolkit reports as well;  *)
(*   moved       that setting the text or typing changes in the control;   *)
(*   bounds      what is shown of values that the control has no room for: *)
(*               its start, its end, or the same as before;                *)
(*   sticky      that the setter does not reset to the default;            *)
(*   rebuilds    whose setter destroys the control and makes it again;     *)
(*   under       of what reads as Default without another property, and    *)
(*               has a setter that sets it first, that property;           *)
(*   edited      that the user can change in the control,                  *)
(*   needs       of these, the ones that need another property to be set,  *)
(*   forgets     and those that the state loses by construct() and if that *)
(*               property is unset;                                        *)
(*   copied      of these, those whose handler stores them in the state,   *)
(*   tells       and those whose handler tells the program;                *)
(*   asked       whose getter asks the control, not the state,             *)
(*   saved       and of these those that destruct() stores;                *)
(*   events      of the user that change no property;                      *)
(*   born        TRUE if the control is made with the object, and stays;   *)
(*   loose       that do not keep to what is claimed below, each with a    *)
(*               comment where it is listed.                               *)
(* A value is Default, or Other: a false editable, a text, a colour; or    *)
(* Beyond, a position above 100 or a cursor past the end of the text (the  *)
(* program sets no negative ones).  What a toolkit reads from the state    *)
(* whenever it paints is as good as pushed.                                *)
(* Of the properties of one control the program sets MaxUsed: a setter     *)
(* disturbs another property alone or does not.                            *)
(***************************************************************************)
EXTENDS Naturals, FiniteSetsExt

CONSTANTS
  Controls,            \* [toolkits -> [kinds -> controls]]
  MaxUsed

Default == 0
Other   == 1
Beyond  == 2
Values  == {Default, Other}

(* The rules that what is hand-written for a control must keep to: each    *)
(* property is passed on by construct() and by its setter, stored when the *)
(* user edits it, or else asked of the control and saved by destruct(),    *)
(* and never told by its setter, nor passed on by another one if the state *)
(* does not have it, but for those that are loose.                         *)
Kept(r)  == r.properties \ (r.ignored \cup r.loose)
Heard(r) == r.edited \ r.loose
Asked(r) == r.asked \ r.copied                    \* and not stored as well
Limits(r) == DOMAIN r.bounds
PassesRules(r) ==
  /\ r.edited \subseteq r.properties /\ Heard(r) \subseteq r.tells \cap Kept(r)
  /\ (Kept(r) \ Asked(r)) \cup Heard(r) \subseteq r.pushed
  /\ Kept(r) \cap (r.moved \cup r.edited) \subseteq r.copied \cup r.asked
  /\ Kept(r) \cap r.sticky \subseteq Asked(r)
  /\ Heard(r) \cap Asked(r) \subseteq r.saved
  /\ Heard(r) \cap (Asked(r) \cup Limits(r)) \cap r.together = {}
  /\ r.reports \subseteq r.locked \cup r.loose
  /\ r.forgets \subseteq r.loose
EventRules(r) ==
  /\ r.events \cap (r.properties \cup {"none", "checked"}) = {}
  /\ {"none", "drop"} \cap r.edited = {}
  /\ r.moved \subseteq r.edited \ (DOMAIN r.needs \cup DOMAIN r.under)
  /\ {"checkable", "droppable"} \cap (r.ignored \cup r.asked \cup Limits(r) \cup DOMAIN r.under)
       \subseteq r.loose
  /\ "checked" \in r.edited /\ "checkable" \in r.properties \ r.loose =>
       "checked" \in DOMAIN r.needs /\ r.needs["checked"] = "checkable"
LimitRules(r) ==
  /\ \A p \in Limits(r) : r.bounds[p] \in {"start", "end", "same"}
  /\ Limits(r) \cap (r.asked \cup r.saved \cup DOMAIN r.under) = {}
  /\ "cursor" \in Limits(r) \cap Kept(r) =>
       /\ "cursor" \in r.moved /\ "text" \in r.properties \ r.together
       /\ DOMAIN r.under = {}
UnderRules(r) ==
  \A p \in DOMAIN r.under :
    /\ r.under[p] \notin Heard(r)
    /\ p \in Kept(r) =>
         /\ p \notin r.asked
         /\ r.under[p] \in Kept(r) \ (r.asked \cup Limits(r) \cup DOMAIN r.under)
         /\ p \in r.edited => p \in DOMAIN r.needs /\ r.needs[p] = r.under[p]
KeepsRules(r) == PassesRules(r) /\ EventRules(r) /\ LimitRules(r) /\ UnderRules(r)
WidgetAssumption ==
  /\ MaxUsed \in Nat
  /\ \A t \in DOMAIN Controls : \A k \in DOMAIN Controls[t] : KeepsRules(Controls[t][k])

VARIABLES
  toolkit, kind,       \* which control it is
  used,                \* the properties that the program sets
  attached,            \* there is a delegate
  state, native,       \* [properties -> Values]
  told,                \* what the last step told the program
  by                   \* and who made it

vars == <<toolkit, kind, used, attached, state, native, told, by>>

c == Controls[toolkit][kind]

Init ==
  /\ toolkit \in DOMAIN Controls
  /\ kind \in DOMAIN Controls[toolkit]
  /\ used \in kSubset(Min({MaxUsed, Cardinality(c.properties)}), c.properties)
  /\ attached = c.born
  /\ state  = [p \in c.properties |-> Default]
  /\ native = [p \in c.properties |-> Default]
  /\ told = {}
  /\ by = "program"

Settable(p) == IF p \in Limits(c) THEN Values \cup {Beyond} ELSE Values

Read(p) == IF p \in c.asked THEN (IF attached THEN native[p] ELSE Default)
           ELSE IF p \in DOMAIN c.under /\ state[c.under[p]] = Default THEN Default
           ELSE state[p]

-------------------------------------------------------------------------------
(* What is shown of a value: nothing past the end of a text, and nothing   *)
(* above 100.  The control is n, and showed old before.                    *)
Limited(p, v, n, old) ==
  IF p \notin Limits(c) THEN v
  ELSE IF p = "cursor" /\ n["text"] = Default THEN Default
  ELSE IF v # Beyond THEN v
  ELSE CASE c.bounds[p] = "start" -> Default
         [] c.bounds[p] = "end"   -> Other
         [] c.bounds[p] = "same"  -> old

(* construct() and destruct(), of a state.                                 *)
MutConstructed(st) == native                            \* mutant: passes nothing on
Constructed(st) ==
  LET n == [p \in c.properties |-> IF p \in c.pushed THEN st[p] ELSE Default]
  IN  [p \in c.properties |-> Limited(p, n[p], n, Default)]
Destructed(st)  == [p \in c.properties |-> IF p \in c.saved THEN native[p] ELSE st[p]]

(* The control after the setter of p, the state being st.                  *)
WithUnder(p) == {p} \cup (IF p \in DOMAIN c.under THEN {c.under[p]} ELSE {})
Shows(p, st) ==
  LET drawn == UNION {IF q \in c.ignored THEN {} ELSE IF q \in c.together THEN c.together ELSE {q} :
                        q \in WithUnder(p)}
  IN  [q \in c.properties |->
         IF q \in drawn /\ ~(q \in c.sticky /\ st[q] = Default)
         THEN Limited(q, st[q], native, native[q]) ELSE native[q]]

(* What a new text moves, and to where it may.                             *)
Moves(p, v) == [IF p = "text" THEN c.moved ELSE {} -> IF v = Default THEN {Default} ELSE Values]

(* A setter of the program: mWidget's, and the delegate's if there is one. *)
(* The handler of what the toolkit reports stores what is shown.           *)
MutSet(p, v) ==                                         \* mutant: all is passed on
  /\ state' = [state EXCEPT ![p] = v]
  /\ native' = IF attached THEN Constructed(state') ELSE native
  /\ told' = {} /\ by' = "program" /\ UNCHANGED <<toolkit, kind, used, attached>>
Set(p, v) ==
  /\ LET set == [q \in c.properties |->
                   IF q = p THEN v
                   ELSE IF q \in WithUnder(p) THEN Other
                   ELSE IF attached /\ v = Default /\ q \in c.forgets /\ c.needs[q] = p THEN Default
                   ELSE state[q]]
     IN  IF ~attached THEN state' = set /\ native' = native
         ELSE IF p \in c.rebuilds
         THEN state' = Destructed(set) /\ native' = Constructed(state')
         ELSE \E to \in Moves(p, v) :
                /\ native' = [q \in c.properties |->
                                IF q \in DOMAIN to THEN to[q] ELSE Shows(p, set)[q]]
                /\ state'  = [q \in c.properties |->
                                IF /\ q \in c.copied
                                   /\ q \in DOMAIN to \/ (q \in c.reports /\ native'[q] # native[q])
                                THEN native'[q] ELSE set[q]]
  /\ told' = IF attached /\ p \in c.reports \ c.locked /\ native'[p] # native[p] THEN {p} ELSE {}
  /\ by' = "program" /\ UNCHANGED <<toolkit, kind, used, attached>>

(* setParent() of it or of what it is in.                                  *)
Attach ==
  /\ ~attached
  /\ attached' = TRUE
  /\ state' = [p \in c.properties |-> IF p \in c.forgets THEN Default ELSE state[p]]
  /\ native' = Constructed(state')
  /\ told' = {} /\ by' = "program" /\ UNCHANGED <<toolkit, kind, used>>

Detach ==
  /\ attached /\ ~c.born
  /\ attached' = FALSE
  /\ state' = Destructed(state)
  /\ told' = {} /\ by' = "program" /\ UNCHANGED <<toolkit, kind, used, native>>

(* The user changes the control, unless it is not editable.                *)
CanEdit(p) ==
  /\ attached
  /\ "editable" \in c.properties => native["editable"] = Default
  /\ p \in DOMAIN c.needs => native[c.needs[p]] # Default
Edit(p) ==
  /\ CanEdit(p)
  /\ \E v \in Values \ {native[p]} : \E to \in Moves(p, v) :
       /\ v = Limited(p, v, native, native[p])
       /\ native' = [q \in c.properties |->
                       IF q = p THEN v ELSE IF q \in DOMAIN to THEN to[q] ELSE native[q]]
       /\ state'  = [q \in c.properties |->
                       IF q \in c.copied /\ (q = p \/ q \in DOMAIN to) THEN native'[q] ELSE state[q]]
       /\ told' = ({p} \cup {q \in DOMAIN to : to[q] # state[q]}) \cap c.tells
  /\ by' = "user" /\ UNCHANGED <<toolkit, kind, used, attached>>

(* A click, a key or the mouse; files can be dropped if the control allows.*)
Event(e) ==
  /\ attached /\ e \in c.events
  /\ e = "drop" => native["droppable"] # Default
  /\ told' = {e}
  /\ by' = "user" /\ UNCHANGED <<toolkit, kind, used, attached, state, native>>

Next ==
  \/ \E p \in used : \E v \in Settable(p) : Set(p, v)
  \/ Attach
  \/ Detach
  \/ \E p \in c.edited : Edit(p)
  \/ \E e \in c.events : Event(e)

Spec == Init /\ [][Next]_vars

-------------------------------------------------------------------------------
(* While a widget is attached its control shows what the program reads of  *)
(* it, whatever was set before or after it was attached and whatever the   *)
(* user did: but for values that it has no room for, which the program     *)
(* still reads.  A box that is not there is shown as one that is unchecked.*)
Fits(p) == p \in Limits(c) => /\ Read(p) # Beyond
                              /\ p = "cursor" /\ native["text"] = Default => Read(p) = Default
Seen(p) == IF p \in DOMAIN c.under /\ native[c.under[p]] = Default THEN Default ELSE native[p]
NativeShowsState ==
  attached => \A p \in c.properties \ (c.ignored \cup c.loose) : Fits(p) => Seen(p) = Read(p)

(* The program is told of what the user did, after the state is what the   *)
(* user made it, and never of what it did itself; and the program's setter *)
(* changes nothing that the user entered elsewhere in the control, but for *)
(* what a new text moves.  What the user entered outlives the control, and *)
(* is in the next one.  Nothing is dropped where it may not be, and nothing*)
(* checked that cannot be.                                                 *)
Requires(p) == CASE p = "droppable" -> "drop" [] p = "checkable" -> "checked" [] OTHER -> "none"
Entered(p)  == IF attached /\ Fits(p) THEN native[p] ELSE state[p]
UserIsHeard ==
  /\ by' = "program" =>
       /\ told' \subseteq c.loose
       /\ \E p \in used \cup {"none"} : \A q \in (c.edited \ c.loose) \ {p} :
            Entered(q)' = Entered(q) \/ (p = "text" /\ q \in c.moved)
  /\ by' = "user" => /\ told' # {} \/ (\E p \in c.loose : native'[p] # native[p])
                     /\ \A p \in (told' \cap c.properties) \ c.loose : Read(p)' = native'[p]
                     /\ \A p \in c.properties \ c.loose :
                          Requires(p) \in told' => Read(p) # Default
OnlyUserIsTold == [][UserIsHeard]_vars
===============================================================================
