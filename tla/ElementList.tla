----------------------------- MODULE ElementList -----------------------------
(***************************************************************************)
(* What nall's vector is to those who use it: a sequence of values, that   *)
(* every call changes in one way.                                          *)
(***************************************************************************)
EXTENDS Integers, Sequences

CONSTANT Value
VARIABLES elements, called

Fill(n, v) == [i \in 1..n |-> v]

Init == elements = <<>>

PrependAll(values) == elements' = values \o elements

AppendAll(values) == elements' = elements \o values

ResizeLeft(n, v) ==
  LET size == Len(elements)
  IN  elements' = IF n < size THEN SubSeq(elements, size - n + 1, size)
                  ELSE Fill(n - size, v) \o elements

ResizeRight(n, v) ==
  LET size == Len(elements)
  IN  elements' = IF n < size THEN SubSeq(elements, 1, n) ELSE elements \o Fill(n - size, v)

Remove(offset, length) ==
  /\ offset + length <= Len(elements)
  /\ elements' = SubSeq(elements, 1, offset)
                  \o SubSeq(elements, offset + length + 1, Len(elements))

Assign(values) == elements' = values

(* The step that the call c promises.                                      *)
Does(c) ==
  \/ c.name = "prepend" /\ PrependAll(c.values)
  \/ c.name = "append" /\ AppendAll(c.values)
  \/ c.name = "resizeLeft" /\ ResizeLeft(c.length, c.values[1])
  \/ c.name = "resizeRight" /\ ResizeRight(c.length, c.values[1])
  \/ c.name = "remove" /\ Remove(c.at, c.length)
  \/ c.name = "reset" /\ Assign(<<>>)
  \/ c.name = "operator=" /\ Assign(c.values)

Next == Does(called')

Spec == Init /\ [][Next]_<<elements, called>>
===============================================================================
