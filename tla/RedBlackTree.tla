----------------------------- MODULE RedBlackTree -----------------------------
(***************************************************************************)
(* nall::set: a red-black tree with values in order, changed from a leaf   *)
(* up, and the iterator that walks it with a stack of nodes.               *)
(***************************************************************************)
EXTENDS Integers, SequencesExt, FiniteSets

CONSTANT Values

ValuesAssumption == Values \subseteq Int

VARIABLES
  root,        \* a node: [value, red, link[0], link[1]]
  nodes,       \* how many there are
  answer,      \* the last call, and what it returned
  position, stack, seen   \* the iterator, and what it gave so far

vars == <<root, nodes, answer, position, stack, seen>>
iterator == <<position, stack, seen>>

Nil     == [value |-> 0, red |-> FALSE, link |-> <<>>]
Leaf(v) == [value |-> v, red |-> TRUE, link |-> [d \in {0, 1} |-> Nil]]
MutDir(n, v) == IF n.value <= v THEN 1 ELSE 0   \* mutant: the heir is on the left
Dir(n, v) == IF n.value < v THEN 1 ELSE 0
Blackened(n) == [n EXCEPT !.red = FALSE]

Init ==
  /\ root = Nil /\ nodes = 0 /\ answer = <<>>
  /\ position = 0 /\ stack = <<>> /\ seen = <<>>

-------------------------------------------------------------------------------
RECURSIVE Found(_, _), Inserted(_, _), Removed(_, _), Elements(_)
Found(n, v) == n # Nil /\ (n.value = v \/ Found(n.link[Dir(n, v)], v))

Rotate(a, d) ==
  LET b == a.link[1 - d]
  IN  [b EXCEPT !.red = FALSE,
                !.link[d] = [a EXCEPT !.red = TRUE, !.link[1 - d] = b.link[d]]]

MutRotateTwice(a, d) == Rotate(a, d)            \* mutant: once
RotateTwice(a, d) == Rotate([a EXCEPT !.link[1 - d] = Rotate(@, 1 - d)], d)

Inserted(n, v) ==
  LET d == Dir(n, v)
      m == [n EXCEPT !.link[d] = Inserted(@, v)]
  IN  IF n = Nil THEN Leaf(v)
      ELSE IF n.value = v THEN n
      ELSE IF ~m.link[d].red THEN m
      ELSE IF m.link[1 - d].red
      THEN [m EXCEPT !.red = TRUE, !.link = [e \in {0, 1} |-> Blackened(@[e])]]
      ELSE IF m.link[d].link[d].red     THEN Rotate(m, 1 - d)
      ELSE IF m.link[d].link[1 - d].red THEN RotateTwice(m, 1 - d)
      ELSE m

(* After a black node is gone from the side d of n; done: n is as high as  *)
(* it was.                                                                 *)
Balance(n, d) ==
  LET turned == n.link[1 - d].red
      top == IF turned THEN Rotate(n, d) ELSE n
      p   == IF turned THEN top.link[d] ELSE n
      s   == p.link[1 - d]
      low == ~s.link[0].red /\ ~s.link[1].red
      q   == IF s.link[1 - d].red THEN Rotate(p, d) ELSE RotateTwice(p, d)
      new == IF low THEN [p EXCEPT !.red = FALSE, !.link[1 - d].red = TRUE]
             ELSE [q EXCEPT !.red = p.red, !.link = [e \in {0, 1} |-> Blackened(@[e])]]
  IN  IF n.link[1 - d] = Nil THEN [node |-> n, done |-> FALSE]
      ELSE [node |-> IF turned THEN [top EXCEPT !.link[d] = new] ELSE new,
            done |-> low => p.red]

(* A node with two children takes the value of the rightmost on its left,  *)
(* which goes instead.                                                     *)
RECURSIVE Rightmost(_)
Rightmost(n) == IF n.link[1] = Nil THEN n.value ELSE Rightmost(n.link[1])

Removed(n, v) ==
  LET only == IF n.link[0] = Nil THEN n.link[1] ELSE n.link[0]
      heir == Rightmost(n.link[0])
      m    == IF n.value = v THEN [n EXCEPT !.value = heir] ELSE n
      w    == IF n.value = v THEN heir ELSE v
      d    == Dir(m, w)
      sub  == Removed(m.link[d], w)
      new  == [m EXCEPT !.link[d] = sub.node]
  IN  IF n = Nil THEN [node |-> Nil, done |-> TRUE]
      ELSE IF n.value = v /\ Nil \in {n.link[0], n.link[1]}
      THEN [node |-> IF n.red \/ only = Nil THEN only ELSE Blackened(only),
            done |-> n.red \/ only.red]
      ELSE IF sub.done THEN [node |-> new, done |-> TRUE] ELSE Balance(new, d)

-------------------------------------------------------------------------------
(* A change ends what iterators were there.                                *)
Restart == position' = 0 /\ stack' = <<>> /\ seen' = <<>>

Insert(v) ==
  /\ root' = Blackened(Inserted(root, v))
  /\ answer' = <<"insert", ~Found(root, v)>>
  /\ nodes' = IF Found(root, v) THEN nodes ELSE nodes + 1
  /\ Restart

Remove1(v) ==
  /\ root' = IF Removed(root, v).node = Nil THEN Nil ELSE Blackened(Removed(root, v).node)
  /\ answer' = <<"remove", Found(root, v)>>
  /\ nodes' = IF Found(root, v) THEN nodes - 1 ELSE nodes
  /\ Restart

Find(v) == answer' = <<"find", Found(root, v)>> /\ UNCHANGED <<root, nodes, iterator>>

RECURSIVE LeftSpine(_)
LeftSpine(n) == IF n = Nil THEN <<>> ELSE <<n>> \o LeftSpine(n.link[0])

Begin ==                                   \* begin(), and the first *iterator
  /\ stack = <<>> /\ root # Nil
  /\ stack' = LeftSpine(root)
  /\ position' = 0
  /\ seen' = <<Last(stack').value>>
  /\ UNCHANGED <<root, nodes, answer>>

RECURSIVE Climb(_, _)
MutClimb(s, child) == s                    \* mutant: one step up is enough
Climb(s, child) ==                         \* do ... while(child == right()->link[1])
  IF Last(s).link[1] = child THEN Climb(Front(s), Last(s)) ELSE s

Advance ==                                 \* operator++, and *iterator
  /\ stack # <<>> /\ position + 1 < nodes
  /\ position' = position + 1
  /\ stack' = IF Last(stack).link[1] # Nil
              THEN stack \o LeftSpine(Last(stack).link[1])
              ELSE Climb(Front(stack), Last(stack))
  /\ seen' = Append(seen, Last(stack').value)
  /\ UNCHANGED <<root, nodes, answer>>

Next ==
  \/ \E v \in Values : Insert(v) \/ Remove1(v) \/ Find(v)
  \/ Begin \/ Advance

Spec == Init /\ [][Next]_vars

-------------------------------------------------------------------------------
Elements(n) == IF n = Nil THEN {} ELSE {n.value} \cup Elements(n.link[0]) \cup Elements(n.link[1])

(* The tree is a set: an insertion or a removal, however it turns the tree,*)
(* changes one element, and search finds them all.                         *)
Abstract == INSTANCE ElementSet WITH members <- Elements(root)
ImplementsSet == Abstract!Spec

(* "O(log n) worst" (set.hpp:6 to 8): no red node has a red child, and all *)
(* paths down have as many black nodes, so that none is longer than twice  *)
(* another.                                                                *)
RECURSIVE BlackHeights(_), NoRedPair(_)
BlackHeights(n) ==
  IF n = Nil THEN {1}
  ELSE {h + (IF n.red THEN 0 ELSE 1) : h \in BlackHeights(n.link[0]) \cup BlackHeights(n.link[1])}
NoRedPair(n) ==
  n = Nil \/ /\ n.red => ~n.link[0].red /\ ~n.link[1].red
             /\ NoRedPair(n.link[0]) /\ NoRedPair(n.link[1])
Balanced == ~root.red /\ NoRedPair(root) /\ Cardinality(BlackHeights(root)) = 1

(* size() counts the elements, and an iterator gives each of them once, in *)
(* order.                                                                  *)
IteratesInOrder ==
  LET members == Elements(root)
      InOrder == SetToSortSeq(members, <)
  IN  /\ nodes = Cardinality(members)
      /\ stack # <<>> => seen = SubSeq(InOrder, 1, position + 1)
===============================================================================
