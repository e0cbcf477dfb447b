-------------------------------- MODULE Strings --------------------------------
(***************************************************************************)
(* What nall::string promises: variables that each hold a text of their    *)
(* own.  Changing one changes no other.                                    *)
(***************************************************************************)
EXTENDS Sequences, Naturals

CONSTANTS Variables, Characters, MaxSize

VARIABLE text

Init == text = [s \in Variables |-> <<>>]

Append1(s, c)  == /\ Len(text[s]) < MaxSize
                  /\ text' = [text EXCEPT ![s] = Append(@, c)]
Shorten(s, n)  == n < Len(text[s]) /\ text' = [text EXCEPT ![s] = SubSeq(@, 1, n)]
Write(s, i, c) == i \in DOMAIN text[s] /\ text' = [text EXCEPT ![s][i] = c]
Copy(s, t)     == text' = [text EXCEPT ![s] = text[t]]
Move(s, t)     == s # t /\ text' = [text EXCEPT ![s] = text[t], ![t] = <<>>]
Reset(s)       == text' = [text EXCEPT ![s] = <<>>]

Next ==
  \E s \in Variables :
    \/ \E c \in Characters : Append1(s, c) \/ \E i \in 1..MaxSize : Write(s, i, c)
    \/ \E n \in 0..MaxSize : Shorten(s, n)
    \/ \E t \in Variables : Copy(s, t) \/ Move(s, t)
    \/ Reset(s)

Spec == Init /\ [][Next]_text
===============================================================================
