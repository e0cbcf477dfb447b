------------------------------ MODULE VectorPool ------------------------------
(***************************************************************************)
(* nall::vector: elements constructed in place in one allocation, with     *)
(* room to both sides.  An allocation is a sequence of cells; a cell holds *)
(* a constructed element or is raw.                                        *)
(***************************************************************************)
EXTENDS Integers, SequencesExt

CONSTANTS
  Value,
  Operations,   \* those of modify.hpp and memory.hpp that are called
  MaxSize,      \* bound of the size
  MaxMemory     \* bound of an allocation that is still written: append() and
                \* removeLeft() in turn make it larger and larger

PoolAssumption == MaxSize \in Nat /\ MaxMemory \in Nat /\ "raw" \notin Value

VARIABLES
  memory,       \* the allocation
  pool,         \* _pool, as the number of cells before it
  size, left, right,
  called,       \* the call made last, and
  work          \* the elements it constructed and destroyed, and the cells that
                \* it allocated and freed

vars == <<memory, pool, size, left, right, called, work>>

Raw(n) == [i \in 1..n |-> "raw"]
Cells(from, length) == SubSeq(memory, from + 1, from + length)
Elements == Cells(pool, size)

(* bit::round(): the next power of two.                                    *)
round(n) == IF n = 0 THEN 0
            ELSE CHOOSE p \in {2 ^ e : e \in 0..n} : n <= p /\ (p = 1 \/ p \div 2 < n)

(* The cells of an allocation after some were written; a write beyond it   *)
(* is not seen any more.                                                   *)
Write(cells, from, values) ==
  [i \in DOMAIN cells |-> IF i \in (from + 1)..(from + Len(values))
                          THEN values[i - from] ELSE cells[i]]

Pool(cells, at) == [memory |-> cells, pool |-> at, left |-> left, right |-> right]

(* reserveLeft() and reserveRight(): the elements are moved to a larger    *)
(* allocation, or nothing happens.                                         *)
reserveLeft(capacity) ==
  IF size + left >= capacity THEN Pool(memory, pool)
  ELSE LET room == round(capacity) - size
       IN  [Pool(Raw(room) \o Elements \o Raw(right), room) EXCEPT !.left = room]
MutReserveRight(capacity) ==              \* mutant: the room on the left is lost
  IF size + right >= capacity THEN Pool(memory, pool)
  ELSE LET room == round(capacity) - size
       IN  [Pool(Elements \o Raw(room), 0) EXCEPT !.right = room]
reserveRight(capacity) ==
  IF size + right >= capacity THEN Pool(memory, pool)
  ELSE LET room == round(capacity) - size
       IN  [Pool(Raw(left) \o Elements \o Raw(room), left) EXCEPT !.right = room]

Set(p, n) == /\ memory' = p.memory /\ pool' = p.pool
             /\ left' = p.left /\ right' = p.right /\ size' = n

Works(constructed, destroyed, allocated, freed) ==
  work' = [constructed |-> constructed, destroyed |-> destroyed,
           allocated |-> allocated, freed |-> freed]

(* n elements more.  Those that a larger allocation is filled with are     *)
(* moved from the old one, which is freed with what the move leaves of     *)
(* them: no destructor runs there.                                         *)
Grows(n, room, cells) ==
  IF room >= n THEN Works(n, 0, 0, 0)
  ELSE Works(size + n, 0, Len(cells), Len(memory))
Shrinks(n) == Works(0, n, 0, 0)

Call(name, at, length, values) ==
  [name |-> name, at |-> at, length |-> length, values |-> values]
Made(call) == called' = call

-------------------------------------------------------------------------------
Init == /\ memory = <<>> /\ pool = 0 /\ size = 0 /\ left = 0 /\ right = 0
        /\ called = Call("vector", 0, 0, <<>>)
        /\ work = [constructed |-> 0, destroyed |-> 0, allocated |-> 0, freed |-> 0]

prepend(values) ==
  LET p == reserveLeft(size + Len(values))
      at == p.pool - Len(values)
  IN  /\ Set([p EXCEPT !.memory = Write(p.memory, at, values), !.pool = at,
                       !.left = @ - Len(values)], size + Len(values))
      /\ Grows(Len(values), left, p.memory)

append(values) ==
  LET p == reserveRight(size + Len(values))
  IN  /\ Set([p EXCEPT !.memory = Write(p.memory, p.pool + size, values),
                       !.right = @ - Len(values)], size + Len(values))
      /\ Grows(Len(values), right, p.memory)

(* resizeLeft() and resizeRight(), growing and shrinking.                  *)
resizeLeft(n, v) ==
  \/ /\ n < size
     /\ Set([memory |-> Write(memory, pool, Raw(size - n)), pool |-> pool + size - n,
             left |-> left + size - n, right |-> right], n)
     /\ Shrinks(size - n)
  \/ n > size /\ prepend([i \in 1..(n - size) |-> v])
resizeRight(n, v) ==
  \/ /\ n < size
     /\ Set([memory |-> Write(memory, pool + n, Raw(size - n)), pool |-> pool,
             left |-> left, right |-> right + size - n], n)
     /\ Shrinks(size - n)
  \/ n > size /\ append([i \in 1..(n - size) |-> v])

removeLeft(length, v)  == resizeLeft(size - length, v)
removeRight(length, v) == resizeRight(size - length, v)

(* remove() in the middle: the elements behind are moved up.               *)
MutRemoveWithin(offset, length) ==        \* mutant: the end is not destroyed
  LET kept == Cells(pool + offset + length, size - offset - length)
  IN  Set(Pool(Write(memory, pool + offset, kept), pool), size - length) /\ Shrinks(0)
MutRemoveOther(offset, length) ==         \* mutant: off by one
  LET kept == Cells(pool + offset + length - 1, size - offset - length)
  IN  Set(Pool(Write(memory, pool + offset, kept \o Raw(length)), pool), size - length)
        /\ Shrinks(length)
removeWithin(offset, length) ==
  LET kept == Cells(pool + offset + length, size - offset - length)
  IN  Set(Pool(Write(memory, pool + offset, kept \o Raw(length)), pool), size - length)
        /\ Shrinks(length)

remove(offset, length, v) ==
  \/ offset = 0 /\ removeLeft(length, v)
  \/ offset # 0 /\ offset = size - 1 /\ removeRight(length, v)
  \/ offset # 0 /\ offset # size - 1 /\ removeWithin(offset, length)

reset == /\ Set([memory |-> <<>>, pool |-> 0, left |-> 0, right |-> 0], 0)
         /\ Works(0, size, 0, Len(memory))

(* operator=: an allocation of exactly the source's size.  What this       *)
(* vector had is not destroyed and its allocation not freed; no vector     *)
(* knows of it any more.  operator=(vector&&) forgets it as well, and      *)
(* takes the elements and the allocation of the source instead of making   *)
(* its own.                                                                *)
Assign(values) == /\ Set([memory |-> values, pool |-> 0, left |-> 0, right |-> 0], Len(values))
                  /\ Works(Len(values), 0, Len(values), 0)

Calls(operation) == operation \in Operations /\ Len(memory) <= MaxMemory
Small(n) == size + n <= MaxSize

Next ==
  \E v \in Value :
    \/ \E t \in {<<v>>} \cup {<<v, w>> : w \in Value} :
         /\ Small(Len(t))
         /\ \/ Calls("prepend") /\ Made(Call("prepend", 0, 0, t)) /\ prepend(t)
            \/ Calls("append") /\ Made(Call("append", 0, 0, t)) /\ append(t)
    \/ \E n \in 0..MaxSize :
         /\ n # size /\ n <= size + 3
         /\ \/ Calls("resizeLeft") /\ Made(Call("resizeLeft", 0, n, <<v>>)) /\ resizeLeft(n, v)
            \/ Calls("resizeRight") /\ Made(Call("resizeRight", 0, n, <<v>>)) /\ resizeRight(n, v)
    \/ \E offset \in 0..(size - 1), length \in 1..2 :
         /\ Calls("remove") /\ offset + length <= size
         /\ Made(Call("remove", offset, length, <<>>))
         /\ remove(offset, length, v)
    \/ Calls("reset") /\ size > 0 /\ Made(Call("reset", 0, 0, <<>>)) /\ reset
    \/ \E s \in BoundedSeq(Value, 2) :
         Calls("operator=") /\ Made(Call("operator=", 0, 0, s)) /\ Assign(s)

Spec == Init /\ [][Next]_vars

-------------------------------------------------------------------------------
(* Whatever is called on a vector, its elements become those that the     *)
(* same call, with the same arguments, makes of a plain sequence: moving   *)
(* them between allocations, up and down within one, and growing to both   *)
(* sides lose, repeat and exchange none.                                   *)
List == INSTANCE ElementList WITH elements <- Elements
ImplementsList == List!Spec

(* In the allocation that the vector owns, the cells from _pool on are     *)
(* constructed and no others are: nothing in it is destroyed twice, used   *)
(* before it is constructed, or freed without its destructor.              *)
ConstructedExactly ==
  \A i \in DOMAIN memory : memory[i] # "raw" <=> i \in (pool + 1)..(pool + size)

(* memory::free(_pool - _left) gets what memory::allocate() returned, and  *)
(* what the vector believes to be free on the right is allocated.          *)
StaysInAllocation == pool = left /\ pool + size + right <= Len(memory)

(* What the calls leave to nobody.  Only operator= loses an allocation,    *)
(* all of it, with every element in it; growing into a new allocation      *)
(* frees the old one but destroys none of the elements that it moved from  *)
(* there; every other call destroys what it takes out of the vector, and   *)
(* no more.                                                                *)
LostCells    == work'.allocated - work'.freed - (Len(memory') - Len(memory))
LostElements == work'.constructed - work'.destroyed - (size' - size)
LosesOnly ==
  /\ LostCells = IF called'.name = "operator=" THEN Len(memory) ELSE 0
  /\ LostElements = IF called'.name = "operator=" \/ work'.allocated > 0 THEN size ELSE 0
LosesWhatItMust == [][LosesOnly]_vars
===============================================================================
