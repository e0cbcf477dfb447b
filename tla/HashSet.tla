-------------------------------- MODULE HashSet --------------------------------
(***************************************************************************)
(* nall::hashset: a pool of slots, twice as many as elements.  An element  *)
(* is in the first free slot from its hash on, around the end of the pool, *)
(* where find() looks for it until it meets a free one.                    *)
(***************************************************************************)
EXTENDS Naturals, FiniteSets

CONSTANTS
  Elements, Nothing,
  Hash,         \* [Elements -> Nat]
  Lengths       \* hashset(length)

HashSetAssumption ==
  Nothing \notin Elements /\ Hash \in [Elements -> Nat] /\ Lengths \subseteq Nat \ {0}

VARIABLES
  pool,         \* [0..length - 1 -> element or Nothing]
  count,
  members,      \* what was inserted and not removed
  removed       \* history: an element was removed since the pool was empty

vars == <<pool, count, members, removed>>

Length(p) == Cardinality(DOMAIN p)
Empty(n)  == [i \in 0..(n - 1) |-> Nothing]
Round(n)  == CHOOSE k \in {2 ^ e : e \in 0..n} : k >= n /\ (k = 1 \/ k \div 2 < n)

Init ==
  /\ \E n \in Lengths : pool = Empty(Round(n))
  /\ count = 0 /\ members = {} /\ removed = FALSE

-------------------------------------------------------------------------------
(* The first slot from the hash of e on that holds one of stops.           *)
Search(p, e, stops) ==
  LET n == Length(p)
      Slot(i) == (Hash[e] + i) % n
      first == CHOOSE i \in 0..(n - 1) :
                 p[Slot(i)] \in stops /\ \A j \in 0..(i - 1) : p[Slot(j)] \notin stops
  IN  Slot(first)
FreeSlot(p, e) == Search(p, e, {Nothing})
PlaceOf(p, e)  == Search(p, e, {e, Nothing})
Finds(p, e)    == p[PlaceOf(p, e)] = e

Place(p, e) == [p EXCEPT ![FreeSlot(p, e)] = e]

(* reserve(): all elements go to a larger pool, in the order of the slots. *)
MutReserve(p, n) == [i \in 0..(n - 1) |-> IF i \in DOMAIN p THEN p[i] ELSE Nothing]  \* mutant
Reserve(p, n) ==
  LET moved[i \in 0..Length(p)] ==
        IF i = 0 THEN Empty(n)
        ELSE IF p[i - 1] = Nothing THEN moved[i - 1] ELSE Place(moved[i - 1], p[i - 1])
  IN  moved[Length(p)]

MutGrown(p) == IF count > Length(p) \div 2 THEN Reserve(p, 2 * Length(p)) ELSE p  \* mutant: >
Grown(p) == IF count >= Length(p) \div 2 THEN Reserve(p, 2 * Length(p)) ELSE p

(* Whoever uses a set inserts what is not there yet.                       *)
Insert(e) ==
  /\ e \notin members
  /\ pool' = Place(Grown(pool), e)
  /\ count' = count + 1
  /\ members' = members \cup {e}
  /\ UNCHANGED removed

Remove(e) ==                 \* the slot is free again, those behind it stay
  /\ Finds(pool, e)
  /\ pool' = [pool EXCEPT ![PlaceOf(pool, e)] = Nothing]
  /\ count' = count - 1
  /\ members' = members \ {e}
  /\ removed' = TRUE

Reset ==                     \* also to the default length
  /\ members # {}
  /\ pool' = Empty(8) /\ count' = 0 /\ members' = {} /\ removed' = FALSE

Next == Reset \/ \E e \in Elements : Insert(e) \/ Remove(e)

Spec == Init /\ [][Next]_vars

-------------------------------------------------------------------------------
(* However full the pool is, wherever elements collided and after it was   *)
(* moved, a search finds none that is not there, and those that are, as    *)
(* long as none was removed: remove() leaves a gap that a search for an    *)
(* element that collided stops at.                                         *)
SearchFindsMembers ==
  \A e \in Elements : /\ Finds(pool, e) => e \in members
                      /\ ~removed /\ e \in members => Finds(pool, e)

(* "all items will fit into pool (with <= 50% load)" (hashset.hpp:64):     *)
(* there is always a free slot for a search to end at.                     *)
LoadStaysLow ==
  /\ count = Cardinality({i \in DOMAIN pool : pool[i] # Nothing})
  /\ members # {} => 2 * count <= Length(pool)
===============================================================================
