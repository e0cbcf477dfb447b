------------------------------ MODULE ElementSet ------------------------------
(***************************************************************************)
(* What a set promises: insert() and remove() say whether they changed it, *)
(* and find() finds exactly what was inserted and not removed since.       *)
(***************************************************************************)
EXTENDS FiniteSets

CONSTANT Values

VARIABLES members, answer

Init == members = {} /\ answer = <<>>

Insert(v) == members' = members \cup {v} /\ answer' = <<"insert", v \notin members>>
Remove(v) == members' = members \ {v}    /\ answer' = <<"remove", v \in members>>
Find(v)   == UNCHANGED members           /\ answer' = <<"find", v \in members>>

Next == \E v \in Values : Insert(v) \/ Remove(v) \/ Find(v)

Spec == Init /\ [][Next]_<<members, answer>>
===============================================================================
