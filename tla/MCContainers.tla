----------------------------- MODULE MCContainers -----------------------------
(***************************************************************************)
(* Containers.tla for TLC: a vector through three allocations, strings     *)
(* that outgrow their own room, and a hash set whose elements meet at the  *)
(* end of its pool; and two more scenarios, shared pointers and a tree of  *)
(* up to six values.                                                       *)
(***************************************************************************)
EXTENDS Containers, SharedPointer, TLC

MCHash == [a |-> 7, b |-> 15, c |-> 7, d |-> 0, e |-> 1, f |-> 8]

-------------------------------------------------------------------------------
VARIABLES root, nodes, answer, position, stack, seen

Tree == INSTANCE RedBlackTree WITH Values <- 1..6

ASSUME Tree!ValuesAssumption

treeVars == <<root, nodes, answer, position, stack, seen>>
allVars  == <<vars, heap, treeVars>>

MCInit == Init /\ HeapInit /\ Tree!Init

PointersNext == scenario = "pointers" /\ HeapNext /\ UNCHANGED <<vars, treeVars>>
TreeNext     == scenario = "set" /\ Tree!Next /\ UNCHANGED <<vars, heap>>

MCNext == (Next /\ UNCHANGED <<heap, treeVars>>) \/ PointersNext \/ TreeNext
MCSpec == MCInit /\ [][MCNext]_allVars

(* No string and no character is special.                                  *)
Symmetry == UNION {Permutations(S) : S \in {Variables, Characters, Strong, Weak}}

(* What decides how it goes on: not the call that a vector came from.      *)
view == <<scenario, memory, pool, size, left, right, textVars, hashVars, heap, treeVars>>

-------------------------------------------------------------------------------
(* The properties of RedBlackTree.tla.                                     *)
Balanced      == scenario = "set" => Tree!Balanced /\ Tree!IteratesInOrder
ImplementsSet ==
  /\ Tree!Abstract!Init
  /\ [][scenario = "set" => [Tree!Abstract!Next]_<<Tree!Elements(root), answer>>]_allVars
===============================================================================
