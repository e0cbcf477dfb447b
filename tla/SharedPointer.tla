----------------------------- MODULE SharedPointer -----------------------------
(***************************************************************************)
(* nall::shared_pointer and shared_pointer_weak.  All pointers to an       *)
(* object share a manager, which counts both kinds, outlives the object    *)
(* while weak pointers are left, and is deleted by whichever goes last.    *)
(*                                                                         *)
(* As in hiro, an object may have a weak pointer to itself (instance) and a*)
(* strong one to a child, and its deleter acquires it once more.  The      *)
(* managers name the objects too.                                          *)
(*                                                                         *)
(* shared_pointer_weak has a destructor but neither copy constructor nor   *)
(* assignment: a copy of one, as vector<wObject> of hiro's mGroup makes,   *)
(* is not counted when it is made and is when it goes.  The managers whose *)
(* weak pointers were copied are kept apart, and where something deleted   *)
(* is used, behaviour is undefined and the model ends.                     *)
(***************************************************************************)
EXTENDS Integers, FiniteSets

CONSTANTS
  Managers, Null,
  Strong, Weak,    \* the program's variables of both kinds
  Temporary,       \* the variable of a deleter
  MaxCopied,       \* bound of the managers with weak pointers that are copied,
  MaxWeak          \* and of their counts when one is

ASSUME SharedPointerAssumption ==
  /\ Null \notin Managers /\ IsFiniteSet(Managers) /\ IsFiniteSet(Strong) /\ IsFiniteSet(Weak)
  /\ Managers \cap Strong = {} /\ Managers \cap Weak = {}
  /\ Temporary \notin Managers \cup Strong

VARIABLE heap

(* A pointer is in a variable of the program or in the object of a manager.*)
StrongSlots == Strong \cup Managers \cup {Temporary}
WeakSlots   == Weak \cup Managers

Life == {"none", "alive", "deleted"}
Heap ==
  [strongTo : [StrongSlots -> Managers \cup {Null}], weakTo : [WeakSlots -> Managers \cup {Null}],
   strong : [Managers -> Int], weak : [Managers -> Int],
   object : [Managers -> Life], manager : [Managers -> Life],
   copied : SUBSET Managers, misused : SUBSET Managers]

HeapInit ==
  heap = [strongTo |-> [p \in StrongSlots |-> Null],
          weakTo   |-> [w \in WeakSlots |-> Null],
          strong   |-> [m \in Managers |-> 0],
          weak     |-> [m \in Managers |-> 0],
          object   |-> [m \in Managers |-> "none"],
          manager  |-> [m \in Managers |-> "none"],
          copied   |-> {},          \* those with weak pointers that were copied
          misused  |-> {}]          \* those used after they were deleted

-------------------------------------------------------------------------------
Use(h, m)    == [h EXCEPT !.misused = @ \cup {x \in {m} : h.manager[x] = "deleted"}]
DeleteManager(h, m) == [Use(h, m) EXCEPT !.manager[m] = "deleted"]

(* shared_pointer = shared_pointer: the other's manager, counted once more.*)
Point(h, p, m) ==
  IF m = Null THEN h
  ELSE IF h.strong[m] = 0 THEN Use(h, m)
  ELSE [Use(h, m) EXCEPT !.strongTo[p] = m, !.strong[m] = @ + 1]

(* shared_pointer_weak::reset()                                            *)
MutResetWeak(h, w) ==            \* mutant: the last weak pointer does not look
  LET m == h.weakTo[w]           \* for strong ones
      g == [Use(h, m) EXCEPT !.weak[m] = @ - 1, !.weakTo[w] = Null]
  IN  IF m = Null THEN h
      ELSE IF g.weak[m] = 0 THEN DeleteManager(g, m) ELSE g
ResetWeak(h, w) ==
  LET m == h.weakTo[w]
      g == [Use(h, m) EXCEPT !.weak[m] = @ - 1, !.weakTo[w] = Null]
  IN  IF m = Null THEN h
      ELSE IF g.weak[m] = 0 /\ g.strong[m] = 0 THEN DeleteManager(g, m) ELSE g

(* The deleter: the object acquires and drops itself (operator sName() in  *)
(* what unbind() calls), drops its child and its weak pointer to itself.   *)
Delete(reset, h, m) ==
  LET own   == Point(h, Temporary, m)
      known == reset[own][Temporary]
      bare  == ResetWeak(reset[known][m], m)
  IN  [bare EXCEPT !.object[m] = "deleted",
                       !.misused = @ \cup {x \in {m} : h.object[x] = "deleted"}]

(* shared_pointer::reset(): the object goes before its count is 0, because *)
(* the weak pointers in it would delete the manager.                       *)
MutResetBy(reset, h, p) ==       \* mutant: the count first
  LET m == h.strongTo[p]
      g == [Use(h, m) EXCEPT !.strong[m] = @ - 1, !.strongTo[p] = Null]
      d == IF g.strong[m] = 0 THEN Delete(reset, g, m) ELSE g
  IN  IF m = Null THEN h
      ELSE IF h.strong[m] = 0 THEN [Use(h, m) EXCEPT !.strongTo[p] = Null]
      ELSE IF d.strong[m] = 0 /\ d.weak[m] = 0 THEN DeleteManager(d, m) ELSE d
ResetBy(reset, h, p) ==
  LET m == h.strongTo[p]
      d == IF h.strong[m] = 1 THEN Delete(reset, h, m) ELSE h
      g == [Use(d, m) EXCEPT !.strong[m] = @ - 1, !.strongTo[p] = Null]
  IN  IF m = Null THEN h
      ELSE IF h.strong[m] = 0 THEN [Use(h, m) EXCEPT !.strongTo[p] = Null]
      ELSE IF g.strong[m] = 0 /\ g.weak[m] = 0 THEN DeleteManager(g, m) ELSE g

(* Deleters run inside one another, but each deletes another object; that  *)
(* more than that are running would be an error too.                       *)
Nesting == Cardinality(Managers) + 1
resetWithin[n \in 0..Nesting] ==
  [h \in Heap |-> [p \in StrongSlots |->
     IF n = 0 THEN [h EXCEPT !.misused = Managers] ELSE ResetBy(resetWithin[n - 1], h, p)]]
ResetStrong(h, p) == resetWithin[Nesting][h][p]

-------------------------------------------------------------------------------
(* What the program's variables and the objects that are there may do.     *)
Usable(h, slot) == slot \in Managers => h.object[slot] = "alive"
Holds(h, m)     == {p \in StrongSlots : h.strongTo[p] = m}
Observers(h, m) == {w \in WeakSlots : h.weakTo[w] = m}

Closed(h, S)     == \A m \in S : h.strongTo[m] \in S \cup {Null}
Reaches(h, m, n) == m # Null /\ \A S \in SUBSET Managers : m \in S /\ Closed(h, S) => n \in S

(* The managers have no order: which is next makes no difference.          *)
Fresh == {m \in Managers : heap.manager[m] = "none"}
New(p) ==                                \* p = new T, with bind() or without
  \E self \in {0, 1} :
    /\ Fresh # {}
    /\ heap' = LET bare == ResetStrong(heap, p)
                   m    == CHOOSE m \in Fresh : TRUE
               IN  [bare EXCEPT !.manager[m] = "alive", !.object[m] = "alive",
                                !.strong[m] = 1, !.strongTo[p] = m,
                                !.weak[m] = self,
                                !.weakTo[m] = IF self = 1 THEN m ELSE Null]

(* p = q.  The program makes no cycles, and never assigns a pointer that   *)
(* is destroyed with what p pointed to.                                    *)
MutAssign(p, q) ==                       \* mutant: what p had is not reset
  /\ p # q /\ Usable(heap, p) /\ Usable(heap, q)
  /\ p \in Managers => ~Reaches(heap, heap.strongTo[q], p)
  /\ q \in Managers => heap.strongTo[p] = Null
  /\ heap' = Point([heap EXCEPT !.strongTo[p] = Null], p, heap.strongTo[q])
Assign(p, q) ==
  /\ p # q /\ Usable(heap, p) /\ Usable(heap, q)
  /\ p \in Managers => ~Reaches(heap, heap.strongTo[q], p)
  /\ q \in Managers => heap.strongTo[p] = Null
  /\ heap' = LET bare == ResetStrong(heap, p)
             IN  Point(bare, p, bare.strongTo[q])

Move(p, q) ==                            \* p = move(q)
  /\ p # q /\ p \in Strong /\ q \in Strong
  /\ heap' = LET bare == ResetStrong(heap, p)
             IN  [bare EXCEPT !.strongTo[p] = bare.strongTo[q], !.strongTo[q] = Null]

Reset(p) == heap.strongTo[p] # Null /\ Usable(heap, p) /\ heap' = ResetStrong(heap, p)

Observe(w, p) ==                         \* weak = strong
  heap' = LET bare == ResetWeak(heap, w)
              m    == heap.strongTo[p]
          IN  IF m = Null THEN bare
              ELSE [Use(bare, m) EXCEPT !.weakTo[w] = m, !.weak[m] = @ + 1]

CopyWeak(w, x) ==                        \* weak = weak, member by member
  LET known == {heap.weakTo[w], heap.weakTo[x]} \ {Null}
  IN  /\ heap.weakTo[w] # heap.weakTo[x]
      /\ Cardinality(heap.copied \cup known) <= MaxCopied
      /\ \A m \in known : heap.weak[m] \in 0..MaxWeak
      /\ heap' = [heap EXCEPT !.weakTo[w] = heap.weakTo[x], !.copied = @ \cup known]

Acquire(p, w) == heap' = Point(ResetStrong(heap, p), p, heap.weakTo[w])

Forget(w) == heap.weakTo[w] # Null /\ heap' = ResetWeak(heap, w)

HeapNext ==
  /\ heap.misused = {}
  /\ \/ \E p \in Strong : New(p) \/ \E q \in Strong : Move(p, q)
     \/ \E p \in Strong \cup Managers : Reset(p) \/ \E q \in Strong \cup Managers : Assign(p, q)
     \/ \E w \in Weak : Forget(w) \/ \E p \in Strong : Observe(w, p) \/ Acquire(p, w)
     \/ \E w, x \in Weak : CopyWeak(w, x)

HeapSpec == HeapInit /\ [][HeapNext]_heap

-------------------------------------------------------------------------------
(* Nothing deleted is used or deleted again (the comment at                *)
(* shared-pointer.hpp:182), also when deleters acquire what they delete,   *)
(* unless it is a manager of which a weak pointer was copied.              *)
NothingUsedAfterDelete == heap.misused \subseteq heap.copied

(* An object is there exactly as long as a strong pointer to it is, copies *)
(* of weak pointers or not.                                                *)
ObjectLivesIffHeld ==
  \A m \in Managers : heap.object[m] = "alive" <=> Holds(heap, m) # {}

(* A manager is there exactly as long as any pointer is, and counts them;  *)
(* after a copy of a weak pointer, the strong ones still keep it there and *)
(* are counted.                                                            *)
ManagerLivesIffKnown ==
  \A m \in Managers :
    /\ heap.strong[m] = Cardinality(Holds(heap, m))
    /\ Holds(heap, m) # {} => heap.manager[m] = "alive"
    /\ m \notin heap.copied =>
         /\ heap.weak[m] = Cardinality(Observers(heap, m))
         /\ heap.manager[m] = "alive" <=> Holds(heap, m) \cup Observers(heap, m) # {}

LivesIffKnown == ObjectLivesIffHeld /\ ManagerLivesIffKnown
===============================================================================
