---------------------------- MODULE StringAllocator ----------------------------
(***************************************************************************)
(* The adaptive allocator of nall::string: a short text is kept in the     *)
(* string itself, a longer one in a block that copies share until one of   *)
(* them writes (copy-on-write); the block counts who shares it.            *)
(***************************************************************************)
EXTENDS Integers, SequencesExt, FiniteSetsExt

CONSTANTS
  Variables, Characters, MaxSize,
  SSO,         \* what the string itself holds, with the terminator (24)
  Blocks, NoBlock

(* The memory does not run out.                                            *)
AllocatorAssumption ==
  /\ SSO \in Nat \ {0} /\ MaxSize \in Nat /\ NoBlock \notin Blocks
  /\ IsFiniteSet(Variables) /\ IsFiniteSet(Blocks) /\ Cardinality(Variables) <= Cardinality(Blocks)

VARIABLES
  string,      \* [text, block, capacity, size] of a variable
  block        \* [data, refs] of a block; refs = 0: not allocated

vars == <<string, block>>

Zero == "zero"
Junk == "junk"                                 \* memory that nobody wrote

Own(s)   == string[s].capacity < SSO
Data(s)  == IF Own(s) THEN string[s].text ELSE block[string[s].block].data
Text(s)  == SubSeq(Data(s), 1, string[s].size)
Room(n)  == [i \in 1..n |-> Junk]
Filled(data, n) == SubSeq(data \o Room(n), 1, n)

(* bit::round(capacity + 1) - 1                                            *)
Rounded(n) == (CHOOSE p \in {2 ^ e : e \in 0..(n + 1)} :
                 n + 1 <= p /\ (p = 1 \/ p \div 2 < n + 1)) - 1
NoString   == [text |-> <<Zero>> \o Room(SSO - 1), block |-> NoBlock,
               capacity |-> SSO - 1, size |-> 0]

NoMemory   == [data |-> <<>>, refs |-> 0]

Init ==
  /\ string = [s \in Variables |-> NoString]
  /\ block  = [b \in Blocks |-> NoMemory]

-------------------------------------------------------------------------------
(* The steps of the allocator, on a memory m = [string, block].            *)
Memory   == [string |-> string, block |-> block]
Fresh(m) == CHOOSE b \in Blocks : m.block[b].refs = 0
Short(m, s)  == m.string[s].capacity < SSO
Shared(m, s) == ~Short(m, s) /\ m.block[m.string[s].block].refs > 1

(* _allocate(), SSO -> COW                                                 *)
Allocate(m, s, capacity) ==
  LET b == Fresh(m)
  IN  [m EXCEPT !.block[b] = [data |-> Filled(m.string[s].text, capacity + 1), refs |-> 1],
                !.string[s] = [@ EXCEPT !.block = b, !.capacity = capacity]]

(* _copy(), COW -> Unique                                                  *)
Unshare(m, s, capacity) ==
  LET old  == m.string[s].block
      size == Min({capacity, m.string[s].size})
      b    == Fresh(m)
  IN  [m EXCEPT !.block[old].refs = @ - 1,
                !.block[b] = [data |-> Filled(SubSeq(m.block[old].data, 1, size) \o <<Zero>>,
                                              capacity + 1), refs |-> 1],
                !.string[s] = [@ EXCEPT !.block = b, !.capacity = capacity, !.size = size]]

(* _resize(), COW -> Resize: in the place of the block, or in another.     *)
Resized(m, s, capacity) ==
  [m EXCEPT !.block[m.string[s].block] = [data |-> Filled(@.data, capacity + 1), refs |-> 1],
            !.string[s].capacity = capacity]

(* get(): what is written to is not shared.                                *)
MutUnique(m, s) == m                \* mutant: data() instead of get()
Unique(m, s) == IF Shared(m, s) THEN Unshare(m, s, m.string[s].capacity) ELSE m

Reserve(m, s, n) ==
  IF n <= m.string[s].capacity THEN m
  ELSE IF Short(m, s)  THEN Allocate(m, s, Rounded(n))
  ELSE IF Shared(m, s) THEN Unshare(m, s, Rounded(n))
  ELSE Resized(m, s, Rounded(n))

Put(m, s, i, c) ==
  IF Short(m, s) THEN [m EXCEPT !.string[s].text[i] = c]
  ELSE [m EXCEPT !.block[m.string[s].block].data[i] = c]

(* The terminator; what is behind it is not looked at any more.            *)
Terminated(m, s, n) ==
  LET cut(data) == Filled(SubSeq(data, 1, n) \o <<Zero>>, Len(data))
  IN  IF Short(m, s) THEN [m EXCEPT !.string[s].text = cut(@)]
      ELSE [m EXCEPT !.block[m.string[s].block].data = cut(@)]

(* resize(): in get()[_size = size] either side may come first.            *)
MutResize(m, s, n, sizeFirst) ==    \* mutant: without the terminator
  [Unique(Reserve(m, s, n), s) EXCEPT !.string[s].size = n]
Resize(m, s, n, sizeFirst) ==
  LET room == Reserve(m, s, n)
      own  == IF sizeFirst THEN Unique([room EXCEPT !.string[s].size = n], s)
              ELSE [Unique(room, s) EXCEPT !.string[s].size = n]
  IN  Terminated(own, s, n)

Left(m, s) ==
  LET b == m.string[s].block
  IN  IF Short(m, s) THEN m.block
      ELSE IF Shared(m, s) THEN [m.block EXCEPT ![b].refs = @ - 1]
      ELSE [m.block EXCEPT ![b] = NoMemory]
Free(m, s) == [string |-> [m.string EXCEPT ![s] = NoString], block |-> Left(m, s)]

-------------------------------------------------------------------------------
Do(m) == string' = m.string /\ block' = m.block

(* append(c): resize(), then the character before the terminator.          *)
Append1(s, c) ==
  /\ string[s].size < MaxSize
  /\ \E sizeFirst \in BOOLEAN :
       LET m == Resize(Memory, s, string[s].size + 1, sizeFirst)
       IN  Do(Put(Unique(m, s), s, m.string[s].size, c))

Shorten(s, n) ==
  /\ n < string[s].size
  /\ \E sizeFirst \in BOOLEAN : Do(Resize(Memory, s, n, sizeFirst))

Write(s, i, c) ==                              \* get()[i - 1] = c
  /\ i \in 1..string[s].size
  /\ Do(Put(Unique(Memory, s), s, i, c))

MutCopy(s, t) ==                               \* mutant: not counted
  s # t /\ Do([Free(Memory, s) EXCEPT !.string[s] = string[t]])
Copy(s, t) ==                                  \* s = t
  IF s = t THEN UNCHANGED vars
  ELSE LET m == Free(Memory, s)
       IN  IF Own(t) THEN Do([m EXCEPT !.string[s] = string[t]])
           ELSE Do([m EXCEPT !.block[string[t].block].refs = @ + 1, !.string[s] = string[t]])

Move(s, t) ==                                  \* s = move(t)
  /\ s # t
  /\ Do([Free(Memory, s) EXCEPT !.string[s] = string[t], !.string[t] = NoString])

Reset(s) == Do(Free(Memory, s))

Next ==
  \E s \in Variables :
    \/ \E c \in Characters : Append1(s, c) \/ \E i \in 1..MaxSize : Write(s, i, c)
    \/ \E n \in 0..MaxSize : Shorten(s, n)
    \/ \E t \in Variables : Copy(s, t) \/ Move(s, t)
    \/ Reset(s)

Spec == Init /\ [][Next]_vars

-------------------------------------------------------------------------------
(* Though copies share blocks, each variable has a text of its own: the    *)
(* abstract specification, read through what the strings show.             *)
Texts == [s \in Variables |-> Text(s)]
Abstract == INSTANCE Strings WITH text <- Texts
ImplementsStrings == Abstract!Spec

(* A block counts the strings that share it: it is freed with the last of  *)
(* them and not before.                                                    *)
BlocksAreCounted ==
  \A b \in Blocks :
    block[b].refs = Cardinality({s \in Variables : ~Own(s) /\ string[s].block = b})

(* A text ends in a zero, in its capacity, wherever it is and whoever      *)
(* shares it: C functions read it up to there.                             *)
TextIsTerminated ==
  \A s \in Variables :
    /\ string[s].size <= string[s].capacity
    /\ Data(s)[string[s].size + 1] = Zero
===============================================================================
