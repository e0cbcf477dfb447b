----------------------------- MODULE SettingsFile -----------------------------
(***************************************************************************)
(* settings.bml of icarus and daedalus.  Every process reads it whole when *)
(* it starts, with defaults for the keys of its program that are not       *)
(* there; the ones with windows rewrite it whole when they end.  With the  *)
(* file in the directory of the programs (locate) they all share it.       *)
(***************************************************************************)
EXTENDS Naturals, FiniteSets

CONSTANTS
  Processes,
  Keys,        \* all that may be in the file
  Own,         \* [Programs -> SUBSET Keys], those that a program sets
  Programs,
  Values, DefaultValue,
  MaxStarts    \* bound

SettingsAssumption ==
  /\ Own \in [Programs -> SUBSET Keys]
  /\ DefaultValue \in Values
  /\ MaxStarts \in Nat

VARIABLES
  file,        \* what is in the file: a function on the keys that are there
  process,
  starts,
  chosen,      \* history: what the user chose last, of what was saved
  disturbed    \* history: a process ran beside one that saves, or died saving

vars == <<file, process, starts, chosen, disturbed>>

Empty == [k \in {} |-> DefaultValue]
Off == [at |-> "off", program |-> CHOOSE g \in Programs : TRUE, gui |-> FALSE,
        memory |-> Empty, changed |-> {}]

Init ==
  /\ file = Empty /\ chosen = Empty
  /\ process = [p \in Processes |-> Off]
  /\ starts = 0 /\ disturbed = FALSE

(* set(): a default only where there is no node.                           *)
MutWithDefaults(g, contents) ==         \* mutant: also where there is one
  [k \in DOMAIN contents \cup Own[g] |->
     IF k \in Own[g] THEN DefaultValue ELSE contents[k]]
WithDefaults(g, contents) ==
  [k \in DOMAIN contents \cup Own[g] |->
     IF k \in DOMAIN contents THEN contents[k] ELSE DefaultValue]

Alive == {p \in Processes : process[p].at # "off"}

(* With windows, or for one --import or --manifest.                        *)
Start(p, g, gui) ==
  /\ process[p].at = "off" /\ starts < MaxStarts
  /\ starts' = starts + 1
  /\ process' = [process EXCEPT ![p] =
                   [at |-> "running", program |-> g, gui |-> gui,
                    memory |-> WithDefaults(g, file), changed |-> {}]]
  /\ disturbed' = (disturbed \/ \E q \in Alive : gui \/ process[q].gui)
  /\ UNCHANGED <<file, chosen>>

(* --import sets its path too, and ends without saving it.                 *)
Change(p, k, v) ==
  /\ process[p].at = "running" /\ k \in Own[process[p].program]
  /\ process' = [process EXCEPT ![p].memory[k] = v, ![p].changed = @ \cup {k}]
  /\ UNCHANGED <<file, starts, chosen, disturbed>>

(* file::write: the file is emptied when it is opened.                     *)
Truncate(p) ==
  /\ process[p].at = "running" /\ process[p].gui
  /\ process' = [process EXCEPT ![p].at = "saving"]
  /\ file' = Empty
  /\ UNCHANGED <<starts, chosen, disturbed>>

Write(p) ==
  /\ process[p].at = "saving"
  /\ file' = process[p].memory
  /\ chosen' = [k \in DOMAIN chosen \cup process[p].changed |->
                  IF k \in process[p].changed THEN process[p].memory[k] ELSE chosen[k]]
  /\ process' = [process EXCEPT ![p] = Off]
  /\ UNCHANGED <<starts, disturbed>>

(* The end of a process without windows, or of one that is killed.         *)
End(p) ==
  /\ process[p].at # "off"
  /\ process' = [process EXCEPT ![p] = Off]
  /\ disturbed' = (disturbed \/ process[p].at = "saving")
  /\ UNCHANGED <<file, starts, chosen>>

Next ==
  \E p \in Processes :
    \/ \E g \in Programs, gui \in BOOLEAN : Start(p, g, gui)
    \/ \E k \in Keys, v \in Values : Change(p, k, v)
    \/ Truncate(p) \/ Write(p) \/ End(p)

Spec == Init /\ [][Next]_vars

-------------------------------------------------------------------------------
(* One process after the other: what the user chose and a process saved is *)
(* what the next one starts with, whichever programs ran in between.  (Of  *)
(* processes side by side the one that ends last wins for every key.)      *)
ChoicesAreKept ==
  ~disturbed => \A p \in Processes : process[p].at = "running" =>
    \A k \in DOMAIN chosen \ process[p].changed :
      k \in DOMAIN process[p].memory /\ process[p].memory[k] = chosen[k]
===============================================================================
