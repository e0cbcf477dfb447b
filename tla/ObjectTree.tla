------------------------------ MODULE ObjectTree ------------------------------
(***************************************************************************)
(* hiro's tree of objects: windows, layouts, widgets with items, menus.    *)
(* An mObject is counted by shared pointers (the program's and its         *)
(* container's) and points back to its parent without being counted; its   *)
(* native delegate (a pObject) is there while it is attached to a window.  *)
(*                                                                         *)
(* Containers that keep their items in the same way are one kind here; the *)
(* table Kinds of the MC module says which holds which.                    *)
(***************************************************************************)
EXTENDS Integers, SequencesExt, FiniteSetsExt

CONSTANTS
  Objects, NoObject,
  Kind,       \* [Objects -> STRING]
  Lists,      \* of a kind: what its vector of items holds
  Slots       \* of a kind: what it holds one of

TreeAssumption == NoObject \notin Objects

VARIABLES
  tree,       \* [parent, offset, items, slots, delegate, live, early]
  held        \* the objects that the program has a shared pointer to

vars == <<tree, held>>

TopLevel == {"window", "popup menu", "timer"}
Abstract(t, o) ==
  LET above[p \in Objects] ==
        Kind[p] \notin TopLevel /\ (t.parent[p] = NoObject \/ above[t.parent[p]])
  IN  above[o]

Holds(t, c)  == t.slots[c] \cup Range(t.items[c])
Contained(t) == UNION {Holds(t, c) : c \in {c \in Objects : t.live[c]}}

(* An object and all below it; what is below the kinds in stop is left out. *)
Family(t, o, stop) ==
  LET below[x \in Objects] ==
        {x} \cup (IF Kind[x] \in stop THEN {} ELSE UNION {below[y] : y \in Holds(t, x)})
  IN  below[o]

-------------------------------------------------------------------------------
(* destruct(): the delegates of an object and of the items below it go,    *)
(* those of the items first; but the kinds below leave that of their items *)
(* to others, who then come too late: early is what was still there.       *)
MutShallow == {"header", "row", "combo edit", "table view"}       \* mutant
Shallow    == {"header", "row", "combo edit"}
Destruct(t, objects) ==
  LET gone == UNION {Family(t, o, Shallow) : o \in objects}
  IN  [t EXCEPT !.delegate = [x \in Objects |-> @[x] /\ x \notin gone],
                !.early    = @ \cup {x \in Objects \ gone :
                    t.delegate[x] /\ \E c \in gone : t.delegate[c] /\ x \in Holds(t, c)}]

(* setParent(): the delegates go, bottom up, and come back, top down, if   *)
(* the object is attached then.                                            *)
MutSetParent(t, o, p, n) ==                   \* mutant: the items stay as they are
  LET set == [Destruct(t, {o}) EXCEPT !.parent[o] = p, !.offset[o] = n]
  IN  [set EXCEPT !.delegate[o] = ~Abstract(set, o)]
SetParent(t, o, p, n) ==
  LET set == [Destruct(t, {o} \cup Holds(t, o)) EXCEPT !.parent[o] = p, !.offset[o] = n]
  IN  [set EXCEPT !.delegate = [x \in Objects |->
                                  IF x \in Family(t, o, {}) THEN ~Abstract(set, o) ELSE @[x]]]

Orphan(t, o) == SetParent(t, o, NoObject, -1)

(* vector::remove(offset), also for the offset ~0u that setParent() leaves:*)
(* the last element, without its destructor.                               *)
Without(items, n) ==
  IF n \in 0..(Len(items) - 1) THEN RemoveAt(items, n + 1) ELSE Front(items)

(* remove(item): it is orphaned and taken from the vector, and the offsets *)
(* of those behind it go down.  A tab frame takes out what is at the       *)
(* item's offset after it is orphaned.                                     *)
MutRemoveItem(t, c, o) ==                     \* mutant: the offsets stay
  Orphan([t EXCEPT !.items[c] = Without(@, t.offset[o])], o)
RemoveItem(t, c, o) ==
  LET n     == t.offset[o]
      items == Without(t.items[c], IF Kind[c] = "tab frame" THEN -1 ELSE n)
      moved == {items[i] : i \in (n + 1)..Len(items)}
  IN  [Orphan([t EXCEPT !.items[c] = items], o)
         EXCEPT !.offset = [x \in Objects |-> IF x \in moved THEN @[x] - 1 ELSE @[x]]]

(* reset() of what keeps a vector: from the right, or for combo and icon   *)
(* items all orphaned and the vector forgotten.                            *)
MutResetItems(t, c) == [t EXCEPT !.items[c] = <<>>]   \* mutant: forgotten only
ResetItems(t, c) ==
  IF Kind[c] \in {"combo button", "combo edit", "icon view"}
  THEN [FoldLeft(Orphan, t, t.items[c]) EXCEPT !.items[c] = <<>>]
  ELSE FoldLeft(LAMBDA s, x : RemoveItem(s, c, x), t, Reverse(t.items[c]))

(* remove() of what there is one of: a menu bar is reset before.           *)
RemoveSlot(t, c, o) ==
  [Orphan(IF Kind[o] = "menu bar" THEN ResetItems(t, o) ELSE t, o) EXCEPT !.slots[c] = @ \ {o}]

RemoveChild(t, c, o) == IF o \in t.slots[c] THEN RemoveSlot(t, c, o) ELSE RemoveItem(t, c, o)

Reset(t, c) ==
  FoldLeft(LAMBDA s, x : RemoveSlot(s, c, x), ResetItems(t, c), SetToSeq(t.slots[c]))

(* ~shared_pointer: unbind() of what nobody points to any more, and of     *)
(* what only that pointed to, one after the other.                         *)
Unbind(t, o) ==
  [Destruct(Reset(t, o), {o}) EXCEPT !.live[o] = FALSE, !.parent[o] = NoObject, !.offset[o] = -1]
Collect(t, pointers) ==
  LET after[n \in 0..Cardinality(Objects)] ==
        IF n = 0 THEN t
        ELSE LET s    == after[n - 1]
                 gone == {o \in Objects : s.live[o] /\ o \notin pointers \cup Contained(s)}
             IN  IF gone = {} THEN s ELSE Unbind(s, CHOOSE o \in gone : TRUE)
  IN  after[Cardinality(Objects)]

-------------------------------------------------------------------------------
Init ==
  /\ tree = [parent   |-> [o \in Objects |-> NoObject],
             offset   |-> [o \in Objects |-> -1],
             items    |-> [o \in Objects |-> <<>>],
             slots    |-> [o \in Objects |-> {}],
             delegate |-> [o \in Objects |-> FALSE],
             live     |-> [o \in Objects |-> FALSE],
             early    |-> {}]
  /\ held = {}

(* The program's calls.                                                    *)
Do(t) == tree' = Collect(t, held) /\ UNCHANGED held
Has(o) == tree.live[o] /\ o \in held

New(o) ==                                    \* Name(): bind()
  /\ ~tree.live[o]
  /\ tree' = [tree EXCEPT !.live[o] = TRUE, !.delegate[o] = Kind[o] \in TopLevel]
  /\ held' = held \cup {o}

(* What is appended is in no container yet, and does not hold the container. *)
Free(o, c) ==
  /\ o \notin Contained(tree)
  /\ LET under[p \in Objects] == p = o \/ (tree.parent[p] # NoObject /\ under[tree.parent[p]])
     IN  ~under[c]

AppendItem(c, o) ==
  /\ Has(c) /\ Has(o) /\ Free(o, c) /\ Kind[o] \in Lists[Kind[c]]
  /\ Do(SetParent([tree EXCEPT !.items[c] = Append(@, o)], o, c, Len(tree.items[c])))

AppendSlot(c, o) ==
  /\ Has(c) /\ Has(o) /\ Free(o, c) /\ Kind[o] \in Slots[Kind[c]]
  /\ LET old  == {x \in tree.slots[c] : Kind[x] = Kind[o]}
         room == FoldLeft(LAMBDA s, x : RemoveSlot(s, c, x), tree, SetToSeq(old))
     IN  Do(SetParent([room EXCEPT !.slots[c] = @ \cup {o}], o, c, 0))

RemoveFrom(c, o) ==                          \* container.remove(item)
  /\ Has(c) /\ o \in Holds(tree, c)
  /\ tree.parent[o] = c
  /\ Do(RemoveChild(tree, c, o))

(* item.remove(): by way of the parent; a layout does not know frames, but *)
(* leaves its parent anyway.                                               *)
RemoveSelf(o) ==
  /\ Has(o) /\ tree.parent[o] # NoObject
  /\ LET c == tree.parent[o]
         Leaves(t) == IF Kind[o] \in {"layout", "widget"} THEN Orphan(t, o) ELSE t
     IN  IF Kind[c] = "frame" THEN Do(Leaves(tree)) ELSE Do(Leaves(RemoveChild(tree, c, o)))

ResetAll(c) == Has(c) /\ Holds(tree, c) # {} /\ Do(Reset(tree, c))

Release(o) ==                                \* the program's last pointer goes
  /\ Has(o)
  /\ held' = held \ {o}
  /\ tree' = Collect(tree, held')

Next ==
  \E o \in Objects :
    \/ New(o) \/ RemoveSelf(o) \/ ResetAll(o) \/ Release(o)
    \/ \E c \in Objects : AppendItem(c, o) \/ AppendSlot(c, o) \/ RemoveFrom(c, o)

Spec == Init /\ [][Next]_vars

-------------------------------------------------------------------------------
Live == {o \in Objects : tree.live[o]}

(* The delegate is allocated exactly while the object has a top-level      *)
(* object above it (object.cpp:34 to 37), however its containers came,     *)
(* went and were destroyed.                                                *)
DelegateIffAttached == \A o \in Objects : tree.delegate[o] <=> o \in Live /\ ~Abstract(tree, o)

(* An item is found at its offset in its parent, and the parent of an item *)
(* in a container is that container.                                       *)
OffsetsAreIndices ==
  \A c \in Live : \A i \in DOMAIN tree.items[c] :
    /\ tree.parent[tree.items[c][i]] = c
    /\ tree.offset[tree.items[c][i]] = i - 1

(* Nothing points to a parent that was deleted, though parents are not     *)
(* counted; and nothing in a container was deleted.                        *)
NothingDangles ==
  \A o \in Live : /\ tree.parent[o] # NoObject => tree.parent[o] \in Live
                  /\ Holds(tree, o) \subseteq Live

(* Native objects nest: one is made after that of its parent, and deleted  *)
(* before it, but for columns, cells and combo items, which the backends   *)
(* expect.                                                                 *)
NativeObjectsNest == \A o \in tree.early : Kind[o] \in {"column", "cell", "combo item"}
===============================================================================
