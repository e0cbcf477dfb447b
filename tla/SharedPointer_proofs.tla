-------------------------- MODULE SharedPointer_proofs --------------------------
(***************************************************************************)
(* Proofs about nall's shared pointers: objects that hold each other, with *)
(* deleters that run inside one another.                                   *)
(***************************************************************************)
EXTENDS SharedPointer, FiniteSetTheorems, TLAPS

-------------------------------------------------------------------------------
(* A set of numbers with 0 and each successor has every number: otherwise  *)
(* adding 1 maps what it has up to n into itself and never to 0.           *)
LEMMA NatSet ==
  ASSUME NEW S, 0 \in S, \A n \in Nat : n \in S => n + 1 \in S
  PROVE  \A n \in Nat : n \in S
<1> SUFFICES ASSUME NEW n \in Nat, n \notin S PROVE FALSE
  OBVIOUS
<1> DEFINE A == (0 .. n) \cap S
           f == [k \in A |-> k + 1]
<1>1. \A k \in A : k \in Nat /\ k + 1 \in A
  <2> TAKE k \in A
  <2>1. k \in Nat /\ k <= n /\ k \in S /\ k # n OBVIOUS
  <2> QED BY <2>1
<1>2. f \in Injection(A, A)
  <2>1. f \in [A -> A] BY <1>1
  <2>2. \A a, b \in A : f[a] = f[b] => a = b BY <1>1
  <2> QED BY <2>1, <2>2 DEF Injection, IsInjective
<1>3. IsFiniteSet(A)
  <2>1. IsFiniteSet(0 .. n) BY FS_Interval
  <2> QED BY <2>1, FS_Intersection
<1>4. f \in Surjection(A, A)
  BY <1>2, <1>3, FS_Injection
<1>5. PICK k \in A : f[k] = 0
  <2>1. 0 \in A OBVIOUS
  <2> QED BY <1>4, <2>1 DEF Surjection
<1> QED
  BY <1>1, <1>5

-------------------------------------------------------------------------------
(* The objects hold each other without a cycle: of some objects, one holds *)
(* none of these.                                                          *)
Rooted(h) == \A S \in SUBSET Managers : S # {} => \E m \in S : h.strongTo[m] \notin S

(* The counts of a manager are right, it and its object are there as long  *)
(* as they must, and an object that is not holds nothing.  Of a manager    *)
(* with copied weak pointers that is true as far as strong ones go.        *)
Sound(h, m) ==
  /\ h.strong[m] = Cardinality(Holds(h, m))
  /\ h.object[m] = "alive" <=> Holds(h, m) # {}
  /\ h.object[m] # "alive" => h.strongTo[m] = Null /\ h.weakTo[m] = Null
  /\ Holds(h, m) # {} => h.manager[m] = "alive"
  /\ m \notin h.copied =>
       /\ h.weak[m] = Cardinality(Observers(h, m))
       /\ h.manager[m] = "alive" <=> Holds(h, m) # {} \/ Observers(h, m) # {}
  /\ m \in h.copied => h.manager[m] # "none"

(* The invariant; no deleter is running.                                   *)
Tidy(h) ==
  /\ h \in Heap /\ h.misused \subseteq h.copied /\ h.strongTo[Temporary] = Null
  /\ \A m \in Managers : Sound(h, m)
  /\ Rooted(h)

LEMMA PointerFacts ==
  ASSUME SharedPointerAssumption
  PROVE  /\ Null \notin Managers /\ IsFiniteSet(Managers) /\ IsFiniteSet(StrongSlots)
         /\ IsFiniteSet(WeakSlots)
         /\ Managers \subseteq StrongSlots /\ Managers \subseteq WeakSlots
         /\ Strong \subseteq StrongSlots /\ Weak \subseteq WeakSlots
         /\ Strong \cap Managers = {} /\ Weak \cap Managers = {}
         /\ Temporary \in StrongSlots /\ Temporary \notin Managers /\ Temporary \notin Strong
<1>1. IsFiniteSet(Managers) /\ IsFiniteSet(Strong) /\ IsFiniteSet(Weak)
  BY DEF SharedPointerAssumption
<1>2. IsFiniteSet(Strong \cup Managers \cup {Temporary}) /\ IsFiniteSet(Weak \cup Managers)
  BY <1>1, FS_Union, FS_Singleton
<1> QED BY <1>1, <1>2 DEF SharedPointerAssumption, StrongSlots, WeakSlots

LEMMA HeapFields ==
  ASSUME NEW h \in Heap
  PROVE  /\ h.strongTo \in [StrongSlots -> Managers \cup {Null}]
         /\ h.weakTo \in [WeakSlots -> Managers \cup {Null}]
         /\ h.strong \in [Managers -> Int] /\ h.weak \in [Managers -> Int]
         /\ h.object \in [Managers -> Life] /\ h.manager \in [Managers -> Life]
         /\ h.copied \in SUBSET Managers /\ h.misused \in SUBSET Managers
BY DEF Heap

LEMMA HoldersCount ==
  ASSUME SharedPointerAssumption, NEW h, NEW m
  PROVE  /\ IsFiniteSet(Holds(h, m)) /\ Cardinality(Holds(h, m)) \in Nat
         /\ (Cardinality(Holds(h, m)) = 0 <=> Holds(h, m) = {})
         /\ IsFiniteSet(Observers(h, m)) /\ Cardinality(Observers(h, m)) \in Nat
         /\ (Cardinality(Observers(h, m)) = 0 <=> Observers(h, m) = {})
<1>1. Holds(h, m) \subseteq StrongSlots /\ Observers(h, m) \subseteq WeakSlots
  BY DEF Holds, Observers
<1>2. IsFiniteSet(Holds(h, m)) /\ IsFiniteSet(Observers(h, m))
  BY <1>1, PointerFacts, FS_Subset
<1> QED BY <1>2, FS_CardinalityType, FS_EmptySet

(* Only a manager that is alive is pointed to, but by weak pointers copied.*)
LEMMA PointedTo ==
  ASSUME SharedPointerAssumption, NEW h, Tidy(h)
  PROVE  /\ \A p \in StrongSlots : h.strongTo[p] # Null =>
              LET m == h.strongTo[p]
              IN  /\ m \in Managers /\ h.manager[m] = "alive" /\ h.object[m] = "alive"
                  /\ p \in Holds(h, m) /\ h.strong[m] \in Nat \ {0}
         /\ \A w \in WeakSlots : h.weakTo[w] # Null =>
              LET m == h.weakTo[w]
              IN  /\ m \in Managers /\ h.manager[m] # "none" /\ w \in Observers(h, m)
                  /\ h.strong[m] \in Nat
                  /\ m \notin h.copied => h.manager[m] = "alive" /\ h.weak[m] \in Nat \ {0}
<1>1. h \in Heap
  BY DEF Tidy
<1>2. ASSUME NEW p \in StrongSlots, h.strongTo[p] # Null
      PROVE  LET m == h.strongTo[p]
             IN  /\ m \in Managers /\ h.manager[m] = "alive" /\ h.object[m] = "alive"
                 /\ p \in Holds(h, m) /\ h.strong[m] \in Nat \ {0}
  <2>1. PICK m \in Managers : m = h.strongTo[p]
    BY <1>1, <1>2, HeapFields
  <2>2. p \in Holds(h, m)
    BY <2>1 DEF Holds
  <2>3. Cardinality(Holds(h, m)) \in Nat \ {0}
    BY <2>2, HoldersCount
  <2> QED BY <2>1, <2>2, <2>3 DEF Tidy, Sound
<1>3. ASSUME NEW w \in WeakSlots, h.weakTo[w] # Null
      PROVE  LET m == h.weakTo[w]
             IN  /\ m \in Managers /\ h.manager[m] # "none" /\ w \in Observers(h, m)
                 /\ h.strong[m] \in Nat
                 /\ m \notin h.copied => h.manager[m] = "alive" /\ h.weak[m] \in Nat \ {0}
  <2>1. PICK m \in Managers : m = h.weakTo[w]
    BY <1>1, <1>3, HeapFields
  <2>2. w \in Observers(h, m)
    BY <2>1 DEF Observers
  <2>3. Cardinality(Observers(h, m)) \in Nat \ {0} /\ Cardinality(Holds(h, m)) \in Nat
    BY <2>2, HoldersCount
  <2> QED BY <2>1, <2>2, <2>3 DEF Tidy, Sound
<1> QED BY <1>2, <1>3

(* Using a manager that is not deleted changes nothing.                    *)
LEMMA UseIs ==
  ASSUME NEW h \in Heap, NEW m, h.manager[m] # "deleted"
  PROVE  Use(h, m) = h
<1>1. PICK M : M = h.misused
  OBVIOUS
<1>2. h = [strongTo |-> h.strongTo, weakTo |-> h.weakTo, strong |-> h.strong, weak |-> h.weak,
           object |-> h.object, manager |-> h.manager, copied |-> h.copied, misused |-> M]
  BY <1>1 DEF Heap
<1>3. h.misused \cup {x \in {m} : h.manager[x] = "deleted"} = M
  BY <1>1
<1>4. Use(h, m) = [h EXCEPT !.misused = M]
  BY <1>3 DEF Use
<1> QED BY <1>2, <1>4

(* Using any notes at most this, of a manager with copied weak pointers.   *)
SameButUse(h, g) ==
  /\ g \in Heap /\ g.misused \subseteq g.copied /\ g.copied = h.copied
  /\ g.strongTo = h.strongTo /\ g.weakTo = h.weakTo /\ g.strong = h.strong
  /\ g.weak = h.weak /\ g.object = h.object /\ g.manager = h.manager

LEMMA Uses ==
  ASSUME NEW h \in Heap, h.misused \subseteq h.copied, NEW m \in Managers,
         h.manager[m] # "deleted" \/ m \in h.copied
  PROVE  SameButUse(h, Use(h, m))
<1>1. CASE h.manager[m] # "deleted"
  BY <1>1, UseIs DEF SameButUse
<1>2. CASE m \in h.copied
  BY <1>2 DEF SameButUse, Use, Heap
<1> QED BY <1>1, <1>2

LEMMA UsesTidy ==
  ASSUME NEW h, Tidy(h), NEW g, SameButUse(h, g)
  PROVE  Tidy(g)
<1>1. \A m : Holds(g, m) = Holds(h, m) /\ Observers(g, m) = Observers(h, m)
  BY DEF SameButUse, Holds, Observers
<1>2. \A m \in Managers : Sound(g, m)
  BY <1>1 DEF SameButUse, Tidy, Sound
<1>3. Rooted(g) /\ g.strongTo[Temporary] = Null
  BY DEF SameButUse, Tidy, Rooted
<1> QED BY <1>2, <1>3 DEF SameButUse, Tidy

(* The edits of a heap: a strong slot and a count, and the same of weak.   *)
Changed(f, k, x, v) == k = [f EXCEPT ![x] = v]

StrongSet(h, g, p, v, m, x) ==
  /\ g \in Heap /\ g.misused = h.misused /\ g.copied = h.copied
  /\ Changed(h.strongTo, g.strongTo, p, v) /\ Changed(h.strong, g.strong, m, x)
  /\ g.weakTo = h.weakTo /\ g.weak = h.weak /\ g.object = h.object /\ g.manager = h.manager

WeakSet(h, g, w, v, m, x) ==
  /\ g \in Heap /\ g.misused = h.misused /\ g.copied = h.copied
  /\ Changed(h.weakTo, g.weakTo, w, v) /\ Changed(h.weak, g.weak, m, x)
  /\ g.strongTo = h.strongTo /\ g.strong = h.strong /\ g.object = h.object /\ g.manager = h.manager

LEMMA Points ==
  ASSUME NEW h \in Heap, NEW p \in StrongSlots, NEW m \in Managers,
         NEW v \in Managers \cup {Null}, NEW x \in Int
  PROVE  StrongSet(h, [h EXCEPT !.strongTo[p] = v, !.strong[m] = x], p, v, m, x)
BY DEF StrongSet, Changed, Heap

LEMMA Unpoints ==
  ASSUME NEW h \in Heap, NEW p \in StrongSlots, NEW m \in Managers,
         NEW v \in Managers \cup {Null}, NEW x \in Int
  PROVE  StrongSet(h, [h EXCEPT !.strong[m] = x, !.strongTo[p] = v], p, v, m, x)
BY DEF StrongSet, Changed, Heap

LEMMA Watches ==
  ASSUME NEW h \in Heap, NEW w \in WeakSlots, NEW m \in Managers,
         NEW v \in Managers \cup {Null}, NEW x \in Int
  PROVE  WeakSet(h, [h EXCEPT !.weakTo[w] = v, !.weak[m] = x], w, v, m, x)
BY DEF WeakSet, Changed, Heap

LEMMA Unwatches ==
  ASSUME NEW h \in Heap, NEW w \in WeakSlots, NEW m \in Managers,
         NEW v \in Managers \cup {Null}, NEW x \in Int
  PROVE  WeakSet(h, [h EXCEPT !.weak[m] = x, !.weakTo[w] = v], w, v, m, x)
BY DEF WeakSet, Changed, Heap

LEMMA SameHeap ==
  ASSUME NEW h \in Heap, NEW g \in Heap,
         g.strongTo = h.strongTo, g.weakTo = h.weakTo, g.strong = h.strong, g.weak = h.weak,
         g.object = h.object, g.manager = h.manager, g.copied = h.copied, g.misused = h.misused
  PROVE  g = h
BY DEF Heap

(* Setting a slot moves it from the holders of one to those of the other.  *)
LEMMA OneMore ==
  ASSUME NEW S, IsFiniteSet(S), NEW T, NEW p, p \notin S, T = S \cup {p}
  PROVE  Cardinality(T) = Cardinality(S) + 1
BY FS_AddElement

LEMMA OneLess ==
  ASSUME NEW S, IsFiniteSet(S), NEW T, NEW p, p \in S, T = S \ {p}
  PROVE  Cardinality(T) = Cardinality(S) - 1
BY FS_RemoveElement

HolderLess(h, g, p, m) ==
  /\ Holds(g, m) = Holds(h, m) \ {p} /\ p \in Holds(h, m)
  /\ Cardinality(Holds(g, m)) = Cardinality(Holds(h, m)) - 1
  /\ \A x \in Managers \ {m} : Holds(g, x) = Holds(h, x)

LEMMA HolderGone ==
  ASSUME SharedPointerAssumption, NEW h, NEW g, NEW p \in StrongSlots, NEW m \in Managers,
         h.strongTo \in [StrongSlots -> Managers \cup {Null}], h.strongTo[p] = m,
         Changed(h.strongTo, g.strongTo, p, Null)
  PROVE  HolderLess(h, g, p, m)
<1>1. Null \notin Managers
  BY PointerFacts
<1>2. Holds(g, m) = Holds(h, m) \ {p} /\ p \in Holds(h, m)
  BY <1>1 DEF Holds, Changed
<1>3. \A x \in Managers \ {m} : Holds(g, x) = Holds(h, x)
  BY <1>1 DEF Holds, Changed
<1>4. Cardinality(Holds(g, m)) = Cardinality(Holds(h, m)) - 1
  <2>1. IsFiniteSet(Holds(h, m))
    BY HoldersCount
  <2> QED BY <1>2, <2>1, OneLess
<1> QED BY <1>2, <1>3, <1>4 DEF HolderLess

HolderMore(h, g, p, m) ==
  /\ Holds(g, m) = Holds(h, m) \cup {p} /\ p \notin Holds(h, m)
  /\ Cardinality(Holds(g, m)) = Cardinality(Holds(h, m)) + 1
  /\ \A x \in Managers \ {m} : Holds(g, x) = Holds(h, x)

LEMMA HolderNew ==
  ASSUME SharedPointerAssumption, NEW h, NEW g, NEW p \in StrongSlots, NEW m \in Managers,
         h.strongTo \in [StrongSlots -> Managers \cup {Null}], h.strongTo[p] = Null,
         Changed(h.strongTo, g.strongTo, p, m)
  PROVE  HolderMore(h, g, p, m)
<1>1. Null \notin Managers
  BY PointerFacts
<1>2. Holds(g, m) = Holds(h, m) \cup {p} /\ p \notin Holds(h, m)
  BY <1>1 DEF Holds, Changed
<1>3. \A x \in Managers \ {m} : Holds(g, x) = Holds(h, x)
  BY <1>1 DEF Holds, Changed
<1>4. Cardinality(Holds(g, m)) = Cardinality(Holds(h, m)) + 1
  <2>1. IsFiniteSet(Holds(h, m))
    BY HoldersCount
  <2> QED BY <1>2, <2>1, OneMore
<1> QED BY <1>2, <1>3, <1>4 DEF HolderMore

WatcherLess(h, g, p, m) ==
  /\ Observers(g, m) = Observers(h, m) \ {p} /\ p \in Observers(h, m)
  /\ Cardinality(Observers(g, m)) = Cardinality(Observers(h, m)) - 1
  /\ \A x \in Managers \ {m} : Observers(g, x) = Observers(h, x)

LEMMA WatcherGone ==
  ASSUME SharedPointerAssumption, NEW h, NEW g, NEW p \in WeakSlots, NEW m \in Managers,
         h.weakTo \in [WeakSlots -> Managers \cup {Null}], h.weakTo[p] = m,
         Changed(h.weakTo, g.weakTo, p, Null)
  PROVE  WatcherLess(h, g, p, m)
<1>1. Null \notin Managers
  BY PointerFacts
<1>2. Observers(g, m) = Observers(h, m) \ {p} /\ p \in Observers(h, m)
  BY <1>1 DEF Observers, Changed
<1>3. \A x \in Managers \ {m} : Observers(g, x) = Observers(h, x)
  BY <1>1 DEF Observers, Changed
<1>4. Cardinality(Observers(g, m)) = Cardinality(Observers(h, m)) - 1
  <2>1. IsFiniteSet(Observers(h, m))
    BY HoldersCount
  <2> QED BY <1>2, <2>1, OneLess
<1> QED BY <1>2, <1>3, <1>4 DEF WatcherLess

WatcherMore(h, g, p, m) ==
  /\ Observers(g, m) = Observers(h, m) \cup {p} /\ p \notin Observers(h, m)
  /\ Cardinality(Observers(g, m)) = Cardinality(Observers(h, m)) + 1
  /\ \A x \in Managers \ {m} : Observers(g, x) = Observers(h, x)

LEMMA WatcherNew ==
  ASSUME SharedPointerAssumption, NEW h, NEW g, NEW p \in WeakSlots, NEW m \in Managers,
         h.weakTo \in [WeakSlots -> Managers \cup {Null}], h.weakTo[p] = Null,
         Changed(h.weakTo, g.weakTo, p, m)
  PROVE  WatcherMore(h, g, p, m)
<1>1. Null \notin Managers
  BY PointerFacts
<1>2. Observers(g, m) = Observers(h, m) \cup {p} /\ p \notin Observers(h, m)
  BY <1>1 DEF Observers, Changed
<1>3. \A x \in Managers \ {m} : Observers(g, x) = Observers(h, x)
  BY <1>1 DEF Observers, Changed
<1>4. Cardinality(Observers(g, m)) = Cardinality(Observers(h, m)) + 1
  <2>1. IsFiniteSet(Observers(h, m))
    BY HoldersCount
  <2> QED BY <1>2, <2>1, OneMore
<1> QED BY <1>2, <1>3, <1>4 DEF WatcherMore

(* shared_pointer = ...: a slot that is empty points to m too.             *)
LEMMA PointIs ==
  ASSUME SharedPointerAssumption, NEW h, Tidy(h), NEW p \in StrongSlots, h.strongTo[p] = Null,
         NEW m \in Managers, h.strong[m] # 0
  PROVE  /\ Point(h, p, m) = [h EXCEPT !.strongTo[p] = m, !.strong[m] = h.strong[m] + 1]
         /\ StrongSet(h, Point(h, p, m), p, m, m, h.strong[m] + 1)
<1>1. h \in Heap /\ h.strong[m] \in Int
  BY HeapFields DEF Tidy
<1>2. h.manager[m] = "alive"
  BY HoldersCount DEF Tidy, Sound
<1>3. Use(h, m) = h
  BY <1>1, <1>2, UseIs
<1>4. m # Null
  BY PointerFacts
<1>5. Point(h, p, m) = [h EXCEPT !.strongTo[p] = m, !.strong[m] = @ + 1]
  BY <1>3, <1>4 DEF Point
<1>6. Point(h, p, m) = [h EXCEPT !.strongTo[p] = m, !.strong[m] = h.strong[m] + 1]
  BY <1>5
<1>7. PICK x \in Int : x = h.strong[m] + 1
  BY <1>1
<1>8. StrongSet(h, [h EXCEPT !.strongTo[p] = m, !.strong[m] = x], p, m, m, x)
  BY <1>1, Points
<1> QED BY <1>6, <1>7, <1>8

(* reset() of a pointer that is not the last.                              *)
LEMMA DropIs ==
  ASSUME NEW h \in Heap, NEW p \in StrongSlots, NEW m \in Managers,
         h.strongTo[p] = m, m # Null, h.manager[m] = "alive",
         h.strong[m] \notin {0, 1}, NEW R
  PROVE  StrongSet(h, ResetBy(R, h, p), p, Null, m, h.strong[m] - 1)
<1>1. Use(h, m) = h /\ h.strong[m] \in Int
  BY UseIs, HeapFields
<1>2. PICK g : g = [h EXCEPT !.strong[m] = h.strong[m] - 1, !.strongTo[p] = Null]
  OBVIOUS
<1>3. StrongSet(h, g, p, Null, m, h.strong[m] - 1)
  <2>1. PICK x \in Int : x = h.strong[m] - 1
    BY <1>1
  <2>2. StrongSet(h, [h EXCEPT !.strong[m] = x, !.strongTo[p] = Null], p, Null, m, x)
    BY Unpoints
  <2> QED BY <1>2, <2>1, <2>2
<1>4. g.strong[m] # 0
  BY <1>1, <1>3, HeapFields DEF StrongSet, Changed
<1>5. g = [Use(h, m) EXCEPT !.strong[m] = @ - 1, !.strongTo[p] = Null]
  BY <1>1, <1>2
<1>6. ResetBy(R, h, p) = g
  BY <1>4, <1>5 DEF ResetBy
<1> QED BY <1>3, <1>6

(* What holds fewer pointers has no cycle either, nor has what has one more*)
(* to something from which nothing leads back.                             *)
LEMMA RootedLess ==
  ASSUME NEW h, NEW g, Rooted(h), Null \notin Managers,
         \A m \in Managers : g.strongTo[m] \in {h.strongTo[m], Null}
  PROVE  Rooted(g)
BY DEF Rooted

LEMMA RootedMore ==
  ASSUME NEW h, NEW g, Rooted(h), Null \notin Managers, NEW p \in StrongSlots, NEW m,
         h.strongTo \in [StrongSlots -> Managers \cup {Null}], Managers \subseteq StrongSlots,
         Changed(h.strongTo, g.strongTo, p, m),
         p \in Managers => \E C \in SUBSET Managers : m \in C /\ p \notin C /\ Closed(h, C)
  PROVE  Rooted(g)
<1> SUFFICES ASSUME NEW S \in SUBSET Managers, S # {}, \A x \in S : g.strongTo[x] \in S PROVE FALSE
  BY DEF Rooted
<1>1. CASE p \in S
  <2>1. PICK C \in SUBSET Managers : m \in C /\ p \notin C /\ Closed(h, C)
    BY <1>1
  <2>2. m \in S
    BY <1>1 DEF Changed
  <2>3. S \cap C # {} /\ S \cap C \in SUBSET Managers
    BY <2>1, <2>2
  <2>4. ASSUME NEW x \in S \cap C PROVE h.strongTo[x] \in S \cap C
    <3>1. x # p /\ x \in StrongSlots
      BY <2>1
    <3>2. g.strongTo[x] = h.strongTo[x] /\ g.strongTo[x] \in S
      BY <3>1 DEF Changed
    <3>3. h.strongTo[x] \in C \cup {Null}
      BY <2>1 DEF Closed
    <3> QED BY <3>2, <3>3
  <2> QED BY <2>3, <2>4 DEF Rooted
<1>2. CASE p \notin S
  <2>1. \A x \in S : h.strongTo[x] \in S
    BY <1>2 DEF Changed
  <2> QED BY <2>1 DEF Rooted
<1> QED BY <1>1, <1>2

(* Whatever m holds does not lead back to it.                              *)
LEMMA Below ==
  ASSUME SharedPointerAssumption, NEW h \in Heap, Rooted(h), NEW m \in Managers
  PROVE  \E C \in SUBSET Managers : /\ h.strongTo[m] \in C \cup {Null} /\ m \notin C
                                    /\ Closed(h, C)
<1> DEFINE S == {x \in Managers : \A C \in SUBSET Managers :
                                    x \in C /\ Closed(h, C) => m \in C}
<1>1. h.strongTo \in [StrongSlots -> Managers \cup {Null}] /\ Managers \subseteq StrongSlots /\ Null \notin Managers
  BY HeapFields, PointerFacts
<1>2. CASE h.strongTo[m] = Null
  <2>1. Closed(h, {}) /\ {} \in SUBSET Managers
    BY DEF Closed
  <2> QED BY <1>2, <2>1
<1>3. CASE h.strongTo[m] \in S
  <2>1. m \in S /\ S # {} /\ S \in SUBSET Managers
    OBVIOUS
  <2> HIDE DEF S
  <2>2. PICK x \in S : h.strongTo[x] \notin S
    BY <2>1 DEF Rooted
  <2>3. x # m /\ x \in Managers
    BY <1>3, <2>1, <2>2
  <2>4. \E C \in SUBSET Managers : x \in C /\ Closed(h, C) /\ m \notin C
    <3>1. CASE h.strongTo[x] = Null
      <4>1. Closed(h, {x}) /\ {x} \in SUBSET Managers
        BY <2>3, <3>1 DEF Closed
      <4> QED BY <2>3, <4>1
    <3>2. CASE h.strongTo[x] # Null
      <4>1. h.strongTo[x] \in Managers
        BY <1>1, <2>3, <3>2
      <4>2. PICK C \in SUBSET Managers : h.strongTo[x] \in C /\ Closed(h, C) /\ m \notin C
        BY <2>2, <4>1 DEF S
      <4>3. Closed(h, C \cup {x}) /\ C \cup {x} \in SUBSET Managers
        BY <2>3, <4>2 DEF Closed
      <4> QED BY <2>3, <4>2, <4>3
    <3> QED BY <3>1, <3>2
  <2> QED BY <2>4 DEF S
<1>4. CASE h.strongTo[m] \notin S /\ h.strongTo[m] # Null
  <2>1. h.strongTo[m] \in Managers
    BY <1>1, <1>4
  <2> QED BY <1>4, <2>1
<1> QED BY <1>2, <1>3, <1>4

LEMMA TidyDrop ==
  ASSUME SharedPointerAssumption, NEW h, Tidy(h), NEW p \in StrongSlots \ {Temporary},
         NEW m \in Managers, h.strongTo[p] = m, h.strong[m] # 1,
         NEW g, StrongSet(h, g, p, Null, m, h.strong[m] - 1)
  PROVE  Tidy(g)
<1>1. /\ h \in Heap /\ h.strongTo \in [StrongSlots -> Managers \cup {Null}]
      /\ Null \notin Managers /\ Managers \subseteq StrongSlots /\ Temporary \in StrongSlots
  BY HeapFields, PointerFacts DEF Tidy
<1>2. h.strongTo[p] = m /\ Changed(h.strongTo, g.strongTo, p, Null)
  BY DEF StrongSet
<1>3. \A x : Observers(g, x) = Observers(h, x)
  BY DEF StrongSet, Observers
<1>4. /\ Holds(g, m) = Holds(h, m) \ {p} /\ p \in Holds(h, m)
      /\ Cardinality(Holds(g, m)) = Cardinality(Holds(h, m)) - 1
      /\ \A x \in Managers \ {m} : Holds(g, x) = Holds(h, x)
  <2>1. HolderLess(h, g, p, m)
    BY <1>1, <1>2, HolderGone
  <2> QED BY <2>1 DEF HolderLess
<1>5. Cardinality(Holds(g, m)) = h.strong[m] - 1 /\ h.strong[m] \in Nat
  <2>1. Cardinality(Holds(h, m)) = h.strong[m]
    BY DEF Tidy, Sound
  <2> QED BY <1>4, <2>1, HoldersCount
<1>6. Holds(g, m) # {} /\ Holds(h, m) # {}
  <2>1. Cardinality(Holds(g, m)) # 0
    BY <1>5
  <2> QED BY <1>4, <2>1, HoldersCount
<1>7. /\ g.strong \in [Managers -> Int] /\ g.strong[m] = h.strong[m] - 1
      /\ \A x \in Managers \ {m} : g.strong[x] = h.strong[x]
  BY <1>1, HeapFields DEF StrongSet, Changed
<1>8. \A x \in StrongSlots : g.strongTo[x] \in {h.strongTo[x], Null}
  BY <1>1 DEF StrongSet, Changed
<1>9. Rooted(g)
  BY <1>1, <1>8, RootedLess DEF Tidy
<1>10. ASSUME NEW x \in Managers
       PROVE  Sound(g, x)
  <2>1. /\ g.weak = h.weak /\ g.object = h.object /\ g.manager = h.manager /\ g.weakTo = h.weakTo
        /\ g.copied = h.copied
    BY DEF StrongSet
  <2>2. g.strongTo[x] \in {h.strongTo[x], Null} /\ Observers(g, x) = Observers(h, x)
    BY <1>1, <1>3, <1>8
  <2>3. Holds(g, x) # {} <=> Holds(h, x) # {}
    BY <1>4, <1>6
  <2>4. g.strong[x] = Cardinality(Holds(g, x))
    <3>1. h.strong[x] = Cardinality(Holds(h, x))
      BY DEF Tidy, Sound
    <3>2. CASE x = m
      BY <1>5, <1>7, <3>2
    <3>3. CASE x # m
      BY <1>4, <1>7, <3>1, <3>3
    <3> QED BY <3>2, <3>3
  <2>5. Sound(h, x)
    BY DEF Tidy
  <2> QED BY <2>1, <2>2, <2>3, <2>4, <2>5 DEF Sound
<1>11. g \in Heap /\ g.misused \subseteq g.copied /\ g.strongTo[Temporary] = Null
  BY <1>1 DEF StrongSet, Changed, Tidy
<1> QED BY <1>9, <1>10, <1>11 DEF Tidy

LEMMA TidyPoint ==
  ASSUME SharedPointerAssumption, NEW h, Tidy(h), NEW p \in StrongSlots \ {Temporary},
         h.strongTo[p] = Null, NEW m \in Managers, h.strong[m] # 0,
         p \in Managers => /\ h.object[p] = "alive"
                           /\ \E C \in SUBSET Managers : m \in C /\ p \notin C /\ Closed(h, C),
         NEW g, StrongSet(h, g, p, m, m, h.strong[m] + 1)
  PROVE  Tidy(g)
<1>1. /\ h \in Heap /\ h.strongTo \in [StrongSlots -> Managers \cup {Null}]
      /\ Null \notin Managers /\ Managers \subseteq StrongSlots /\ Temporary \in StrongSlots
  BY HeapFields, PointerFacts DEF Tidy
<1>2. h.strongTo[p] = Null /\ Changed(h.strongTo, g.strongTo, p, m)
  BY DEF StrongSet
<1>3. \A x : Observers(g, x) = Observers(h, x)
  BY DEF StrongSet, Observers
<1>4. /\ Holds(g, m) = Holds(h, m) \cup {p} /\ p \notin Holds(h, m)
      /\ Cardinality(Holds(g, m)) = Cardinality(Holds(h, m)) + 1
      /\ \A x \in Managers \ {m} : Holds(g, x) = Holds(h, x)
  <2>1. HolderMore(h, g, p, m)
    BY <1>1, <1>2, HolderNew
  <2> QED BY <2>1 DEF HolderMore
<1>5. Cardinality(Holds(g, m)) = h.strong[m] + 1 /\ h.strong[m] \in Nat
  <2>1. Cardinality(Holds(h, m)) = h.strong[m]
    BY DEF Tidy, Sound
  <2> QED BY <1>4, <2>1, HoldersCount
<1>6. Holds(g, m) # {} /\ Holds(h, m) # {}
  <2>1. Cardinality(Holds(h, m)) = h.strong[m]
    BY DEF Tidy, Sound
  <2> QED BY <1>4, <2>1, HoldersCount
<1>7. /\ g.strong \in [Managers -> Int] /\ g.strong[m] = h.strong[m] + 1
      /\ \A x \in Managers \ {m} : g.strong[x] = h.strong[x]
  BY <1>1, HeapFields DEF StrongSet, Changed
<1>8. \A x \in StrongSlots \ {p} : g.strongTo[x] = h.strongTo[x]
  BY <1>1 DEF StrongSet, Changed
<1>9. Rooted(g)
  <2>1. Changed(h.strongTo, g.strongTo, p, m) /\ Rooted(h)
    BY DEF StrongSet, Tidy
  <2> QED BY <1>1, <2>1, RootedMore
<1>10. ASSUME NEW x \in Managers
       PROVE  Sound(g, x)
  <2>1. /\ g.weak = h.weak /\ g.object = h.object /\ g.manager = h.manager /\ g.weakTo = h.weakTo
        /\ g.copied = h.copied
    BY DEF StrongSet
  <2>2. Observers(g, x) = Observers(h, x) /\ (h.object[x] # "alive" => g.strongTo[x] = h.strongTo[x])
    BY <1>1, <1>3, <1>8
  <2>3. Holds(g, x) # {} <=> Holds(h, x) # {}
    BY <1>4, <1>6
  <2>4. g.strong[x] = Cardinality(Holds(g, x))
    <3>1. h.strong[x] = Cardinality(Holds(h, x))
      BY DEF Tidy, Sound
    <3>2. CASE x = m
      BY <1>5, <1>7, <3>2
    <3>3. CASE x # m
      BY <1>4, <1>7, <3>1, <3>3
    <3> QED BY <3>2, <3>3
  <2>5. Sound(h, x)
    BY DEF Tidy
  <2> QED BY <2>1, <2>2, <2>3, <2>4, <2>5 DEF Sound
<1>11. g \in Heap /\ g.misused \subseteq g.copied /\ g.strongTo[Temporary] = Null
  BY <1>1, <1>8 DEF StrongSet, Changed, Tidy
<1> QED BY <1>9, <1>10, <1>11 DEF Tidy

ManagerGone(h, g, m) ==
  /\ g \in Heap /\ g.misused \subseteq g.copied /\ g.copied = h.copied
  /\ Changed(h.manager, g.manager, m, "deleted")
  /\ g.strongTo = h.strongTo /\ g.weakTo = h.weakTo /\ g.strong = h.strong
  /\ g.weak = h.weak /\ g.object = h.object

LEMMA Frees ==
  ASSUME NEW h \in Heap, h.misused \subseteq h.copied, NEW m \in Managers,
         h.manager[m] # "deleted" \/ m \in h.copied
  PROVE  ManagerGone(h, DeleteManager(h, m), m)
<1>1. PICK u : u = Use(h, m)
  OBVIOUS
<1>2. SameButUse(h, u)
  BY <1>1, Uses
<1>3. PICK g : g = [u EXCEPT !.manager[m] = "deleted"]
  OBVIOUS
<1>4. ManagerGone(h, g, m)
  BY <1>2, <1>3 DEF ManagerGone, SameButUse, Changed, Heap, Life
<1> QED BY <1>1, <1>3, <1>4 DEF DeleteManager

(* shared_pointer_weak::reset().                                           *)
Unwatched(h, g, w) ==
  /\ Tidy(g) /\ g.strongTo = h.strongTo /\ g.strong = h.strong /\ g.object = h.object
  /\ Changed(h.weakTo, g.weakTo, w, Null)

LEMMA ResetWeakIs ==
  ASSUME SharedPointerAssumption, NEW h, Tidy(h), NEW w \in WeakSlots
  PROVE  Unwatched(h, ResetWeak(h, w), w)
<1>1. /\ h \in Heap /\ h.misused \subseteq h.copied /\ Null \notin Managers /\ Rooted(h)
      /\ h.weakTo \in [WeakSlots -> Managers \cup {Null}]
      /\ Managers \subseteq WeakSlots
  BY HeapFields, PointerFacts DEF Tidy
<1>2. CASE h.weakTo[w] = Null
  <2>1. ResetWeak(h, w) = h
    BY <1>2 DEF ResetWeak
  <2>2. Changed(h.weakTo, h.weakTo, w, Null)
    BY <1>1, <1>2 DEF Changed
  <2> QED BY <2>1, <2>2 DEF Unwatched
<1>3. CASE h.weakTo[w] # Null
  <2>1. PICK m \in Managers : /\ h.weakTo[w] = m /\ h.manager[m] # "none"
                              /\ h.strong[m] \in Nat
                              /\ m \notin h.copied => h.manager[m] = "alive"
    BY <1>3, PointedTo
  <2>2. PICK u : u = Use(h, m)
    OBVIOUS
  <2>3. SameButUse(h, u)
    BY <1>1, <2>1, <2>2, Uses
  <2>4. PICK x \in Int : x = u.weak[m] - 1 /\ x = h.weak[m] - 1
    BY <1>1, <2>3, HeapFields DEF SameButUse
  <2>5. PICK g : g = [u EXCEPT !.weak[m] = x, !.weakTo[w] = Null]
    OBVIOUS
  <2>6. WeakSet(u, g, w, Null, m, x)
    BY <2>3, <2>5, Unwatches DEF SameButUse
  <2>7. ResetWeak(h, w) =
          IF g.weak[m] = 0 /\ g.strong[m] = 0 THEN DeleteManager(g, m) ELSE g
    <3>1. g = [Use(h, m) EXCEPT !.weak[m] = @ - 1, !.weakTo[w] = Null]
      BY <2>2, <2>4, <2>5
    <3>2. m # Null
      BY <1>1
    <3> QED BY <2>1, <3>1, <3>2 DEF ResetWeak
  <2>8. /\ g \in Heap /\ g.misused \subseteq g.copied /\ g.copied = h.copied
        /\ g.strongTo = h.strongTo /\ g.strong = h.strong /\ g.object = h.object
        /\ g.manager = h.manager /\ Changed(h.weakTo, g.weakTo, w, Null)
        /\ Changed(h.weak, g.weak, m, x)
    BY <2>3, <2>6 DEF WeakSet, SameButUse
  <2>9. PICK r : r = ResetWeak(h, w)
    OBVIOUS
  <2>10. /\ r \in Heap /\ r.misused \subseteq r.copied /\ r.copied = h.copied
         /\ r.strongTo = h.strongTo /\ r.strong = h.strong /\ r.object = h.object
         /\ r.weak = g.weak /\ r.weakTo = g.weakTo
         /\ IF g.weak[m] = 0 /\ g.strong[m] = 0 THEN Changed(h.manager, r.manager, m, "deleted")
            ELSE r.manager = h.manager
    <3>1. CASE g.weak[m] = 0 /\ g.strong[m] = 0
      <4>1. g.manager[m] # "deleted" \/ m \in g.copied
        BY <2>1, <2>8
      <4>2. ManagerGone(g, r, m)
        BY <2>7, <2>8, <2>9, <3>1, <4>1, Frees
      <4> QED BY <2>8, <3>1, <4>2 DEF ManagerGone
    <3>2. CASE ~(g.weak[m] = 0 /\ g.strong[m] = 0)
      <4>1. r = g
        BY <2>7, <2>9, <3>2
      <4> QED BY <2>8, <3>2, <4>1
    <3> QED BY <3>1, <3>2
  <2>11. \A y : Holds(r, y) = Holds(h, y)
    BY <2>10 DEF Holds
  <2>12. WatcherLess(h, r, w, m)
    <3>1. Changed(h.weakTo, r.weakTo, w, Null)
      BY <2>8, <2>10
    <3> QED BY <1>1, <2>1, <3>1, WatcherGone
  <2>13. /\ Observers(r, m) = Observers(h, m) \ {w} /\ w \in Observers(h, m)
         /\ Cardinality(Observers(r, m)) = Cardinality(Observers(h, m)) - 1
         /\ \A y \in Managers \ {m} : Observers(r, y) = Observers(h, y)
    BY <2>12 DEF WatcherLess
  <2>14. /\ r.weak[m] = x /\ \A y \in Managers \ {m} : r.weak[y] = h.weak[y]
    BY <1>1, <2>8, <2>10, HeapFields DEF Changed
  <2>15. r.manager[m] \in {h.manager[m], "deleted"} /\ (h.strong[m] # 0 => r.manager[m] = h.manager[m])
    BY <1>1, <2>8, <2>10, HeapFields DEF Changed
  <2>16. \A y \in Managers \ {m} : r.manager[y] = h.manager[y]
    BY <1>1, <2>10, HeapFields DEF Changed
  <2>17. ASSUME m \notin h.copied
         PROVE  /\ r.weak[m] = Cardinality(Observers(r, m))
                /\ r.manager[m] = "alive" <=> Holds(r, m) # {} \/ Observers(r, m) # {}
    <3>1. r.weak[m] = Cardinality(Observers(r, m))
      <4>1. h.weak[m] = Cardinality(Observers(h, m))
        BY <2>17 DEF Tidy, Sound
      <4> QED BY <2>4, <2>13, <2>14, <4>1
    <3>2. g.weak[m] = 0 /\ g.strong[m] = 0 <=> ~(Holds(r, m) # {} \/ Observers(r, m) # {})
      <4>1. g.weak[m] = Cardinality(Observers(r, m))
        BY <2>10, <3>1
      <4>2. g.strong[m] = Cardinality(Holds(r, m))
        BY <2>8, <2>11 DEF Tidy, Sound
      <4> QED BY <4>1, <4>2, HoldersCount
    <3>3. CASE g.weak[m] = 0 /\ g.strong[m] = 0
      <4>1. r.manager[m] = "deleted"
        BY <1>1, <2>10, <3>3, HeapFields DEF Changed
      <4> QED BY <3>1, <3>2, <3>3, <4>1
    <3>4. CASE ~(g.weak[m] = 0 /\ g.strong[m] = 0)
      BY <2>1, <2>10, <2>17, <3>1, <3>2, <3>4
    <3> QED BY <3>3, <3>4
  <2>18. ASSUME NEW y \in Managers PROVE Sound(r, y)
    <3>1. r.weakTo[y] \in {h.weakTo[y], Null}
      BY <1>1, <2>8, <2>10 DEF Changed
    <3>2. Sound(h, y)
      BY DEF Tidy
    <3>3. CASE y = m
      <4>1. Holds(r, m) # {} => h.strong[m] # 0
        BY <2>11, <3>2, <3>3, HoldersCount DEF Sound
      <4>2. Holds(r, m) # {} => r.manager[m] = "alive"
        BY <2>11, <2>15, <3>2, <3>3, <4>1 DEF Sound
      <4>3. r.manager[m] # "none"
        BY <2>1, <2>15
      <4> QED BY <2>10, <2>11, <2>17, <3>1, <3>2, <3>3, <4>2, <4>3 DEF Sound
    <3>4. CASE y # m
      BY <2>10, <2>11, <2>13, <2>14, <2>16, <3>1, <3>2, <3>4 DEF Sound
    <3> QED BY <3>3, <3>4
  <2>19. Rooted(r) /\ r.strongTo[Temporary] = Null
    BY <1>1, <2>10 DEF Rooted, Tidy
  <2>20. Tidy(r)
    BY <2>10, <2>18, <2>19 DEF Tidy
  <2>21. Changed(h.weakTo, r.weakTo, w, Null)
    BY <2>8, <2>10
  <2> QED BY <2>9, <2>10, <2>20, <2>21 DEF Unwatched
<1> QED BY <1>2, <1>3

(* The end of reset() of the last pointer to an object, that is deleted.   *)
ObjectGone(h, d, m) ==
  /\ d \in Heap /\ d.misused = h.misused /\ d.copied = h.copied
  /\ Changed(h.object, d.object, m, "deleted")
  /\ d.strongTo = h.strongTo /\ d.weakTo = h.weakTo /\ d.strong = h.strong
  /\ d.weak = h.weak /\ d.manager = h.manager

Ends(d, p, m) ==
  LET g == [Use(d, m) EXCEPT !.strong[m] = @ - 1, !.strongTo[p] = Null]
  IN  IF g.strong[m] = 0 /\ g.weak[m] = 0 THEN DeleteManager(g, m) ELSE g

Finished(h, r, p) ==
  Tidy(r) /\ Changed(h.strongTo, r.strongTo, p, Null) /\ r.weakTo = h.weakTo

LEMMA LastGoes ==
  ASSUME SharedPointerAssumption, NEW h, Tidy(h), NEW p \in StrongSlots \ {Temporary}, NEW m \in Managers,
         h.strongTo[p] = m, h.strong[m] = 1, h.strongTo[m] = Null, h.weakTo[m] = Null,
         NEW d, ObjectGone(h, d, m)
  PROVE  Finished(h, Ends(d, p, m), p)
<1>1. /\ h \in Heap /\ h.misused \subseteq h.copied /\ Null \notin Managers /\ Rooted(h)
      /\ h.strongTo \in [StrongSlots -> Managers \cup {Null}] /\ Managers \subseteq StrongSlots
      /\ d \in Heap /\ d.misused = h.misused /\ d.copied = h.copied
      /\ Temporary \in StrongSlots
  BY HeapFields, PointerFacts DEF Tidy, ObjectGone
<1>2. h.manager[m] = "alive" /\ d.manager[m] = "alive" /\ d.strong[m] = 1
  BY <1>1, PointedTo DEF ObjectGone
<1>3. Use(d, m) = d
  BY <1>1, <1>2, UseIs
<1>4. PICK x \in Int : x = d.strong[m] - 1 /\ x = 0
  BY <1>2
<1> DEFINE g == [d EXCEPT !.strong[m] = x, !.strongTo[p] = Null]
<1>5. StrongSet(d, g, p, Null, m, x)
  BY <1>1, Unpoints
<1>6. g = [Use(d, m) EXCEPT !.strong[m] = @ - 1, !.strongTo[p] = Null]
  BY <1>3, <1>4
<1> HIDE DEF g
<1>7. PICK r : r = Ends(d, p, m)
  OBVIOUS
<1>8. /\ g \in Heap /\ g.misused = h.misused /\ g.copied = h.copied
      /\ g.manager = h.manager /\ g.weak = h.weak
      /\ g.weakTo = h.weakTo /\ g.object = d.object /\ g.strong[m] = 0
      /\ Changed(h.strongTo, g.strongTo, p, Null) /\ Changed(h.strong, g.strong, m, 0)
  <2>1. Changed(d.strong, g.strong, m, 0) /\ d.strong \in [Managers -> Int]
    BY <1>1, <1>4, <1>5, HeapFields DEF StrongSet
  <2>2. g.strong[m] = 0
    BY <2>1 DEF Changed
  <2> QED BY <1>1, <1>4, <1>5, <2>2 DEF StrongSet, ObjectGone
<1>9. r = IF g.weak[m] = 0 THEN DeleteManager(g, m) ELSE g
  BY <1>7, <1>8, <1>6 DEF Ends
<1>10. /\ r \in Heap /\ r.misused \subseteq r.copied /\ r.copied = h.copied
      /\ r.weak = h.weak /\ r.weakTo = h.weakTo
      /\ r.object = d.object /\ r.strongTo = g.strongTo /\ r.strong = g.strong
      /\ IF h.weak[m] = 0 THEN Changed(h.manager, r.manager, m, "deleted")
         ELSE r.manager = h.manager
  <2>1. CASE h.weak[m] = 0
    <3>1. ManagerGone(g, r, m)
      BY <1>1, <1>2, <1>8, <1>9, <2>1, Frees
    <3> QED BY <1>8, <2>1, <3>1 DEF ManagerGone
  <2>2. CASE h.weak[m] # 0
    <3>1. r = g
      BY <1>8, <1>9, <2>2
    <3> QED BY <1>1, <1>8, <2>2, <3>1
  <2> QED BY <2>1, <2>2
<1>11. \A y : Observers(r, y) = Observers(h, y)
  BY <1>10 DEF Observers
<1>12. HolderLess(h, r, p, m)
  <2>1. Changed(h.strongTo, r.strongTo, p, Null)
    BY <1>8, <1>10
  <2> QED BY <1>1, <2>1, HolderGone
<1>13. /\ Holds(r, m) = {} /\ \A y \in Managers \ {m} : Holds(r, y) = Holds(h, y)
  <2>1. Cardinality(Holds(h, m)) = 1
    BY DEF Tidy, Sound
  <2>2. Cardinality(Holds(r, m)) = 0
    BY <1>12, <2>1 DEF HolderLess
  <2> QED BY <1>12, <2>2, HoldersCount DEF HolderLess
<1>14. r.strong[m] = 0 /\ \A y \in Managers \ {m} : r.strong[y] = h.strong[y]
  BY <1>1, <1>8, <1>10, HeapFields DEF Changed
<1>15. r.object[m] = "deleted" /\ \A y \in Managers \ {m} : r.object[y] = h.object[y]
  BY <1>1, <1>10, HeapFields DEF ObjectGone, Changed
<1>16. \A y \in StrongSlots : r.strongTo[y] \in {h.strongTo[y], Null}
  BY <1>1, <1>8, <1>10 DEF Changed
<1>17. r.manager[m] # "none" /\ \A y \in Managers \ {m} : r.manager[y] = h.manager[y]
  BY <1>1, <1>2, <1>10, HeapFields DEF Changed
<1>18. ASSUME NEW y \in Managers PROVE Sound(r, y)
  <2>1. Sound(h, y)
    BY DEF Tidy
  <2>2. CASE y = m
    <3>1. r.strongTo[m] = Null /\ r.weakTo[m] = Null
      BY <1>1, <1>10, <1>16
    <3>2. ASSUME m \notin h.copied
          PROVE  /\ r.weak[m] = Cardinality(Observers(r, m))
                 /\ r.manager[m] = "alive" <=> Observers(r, m) # {}
      <4>1. h.weak[m] = Cardinality(Observers(r, m))
        BY <1>11, <2>1, <2>2, <3>2 DEF Sound
      <4>2. CASE h.weak[m] = 0
        <5>1. r.manager[m] = "deleted"
          BY <1>1, <1>10, <4>2, HeapFields DEF Changed
        <5> QED BY <1>10, <4>1, <4>2, <5>1, HoldersCount
      <4>3. CASE h.weak[m] # 0
        BY <1>2, <1>10, <4>1, <4>3, HoldersCount
      <4> QED BY <4>2, <4>3
    <3>3. r.strong[m] = Cardinality(Holds(r, m))
      BY <1>13, <1>14, FS_EmptySet
    <3> QED BY <1>10, <1>13, <1>15, <1>17, <2>2, <3>1, <3>2, <3>3 DEF Sound
  <2>3. CASE y # m
    <3>1. r.strongTo[y] \in {h.strongTo[y], Null}
      BY <1>1, <1>16
    <3> QED BY <1>10, <1>11, <1>13, <1>14, <1>15, <1>17, <2>1, <2>3, <3>1 DEF Sound
  <2> QED BY <2>2, <2>3
<1>19. Rooted(r)
  BY <1>1, <1>16, RootedLess
<1>20. r.strongTo[Temporary] = Null
  BY <1>1, <1>16 DEF Tidy
<1>21. Tidy(r)
  BY <1>10, <1>18, <1>19, <1>20 DEF Tidy
<1> QED BY <1>7, <1>8, <1>10, <1>21 DEF Finished

-------------------------------------------------------------------------------
(* The deleters that run inside one another.                               *)
Layer(R, n) ==
  [h \in Heap |-> [p \in StrongSlots |->
     IF n = 0 THEN [h EXCEPT !.misused = Managers] ELSE ResetBy(R, h, p)]]

Layers(f, n) == \A i \in 0..n : f[i] = Layer(f[i - 1], i)

LEMMA NestingIs ==
  ASSUME SharedPointerAssumption
  PROVE  Nesting = Cardinality(Managers) + 1 /\ Nesting \in Nat
BY PointerFacts, FS_CardinalityType DEF Nesting

LEMMA Runs ==
  ASSUME SharedPointerAssumption
  PROVE  \A n \in 0..Nesting, h \in Heap, p \in StrongSlots :
           n # 0 => resetWithin[n][h][p] = ResetBy(resetWithin[n - 1], h, p)
<1>1. PICK N \in Nat : N = Nesting
  BY NestingIs
<1> DEFINE Step(f) == [n \in 0..N |-> Layer(f[n - 1], n)]
           S == {k \in Nat : \E f : DOMAIN f = 0..k /\ Layers(f, k)}
<1>2. \A R, Q : Layer(R, 0) = Layer(Q, 0)
  BY DEF Layer
<1>3. \E f : f = Step(f)
  <2>1. 0 \in S
    <3>1. PICK f : f = [i \in 0..0 |-> Layer({}, 0)]
      OBVIOUS
    <3>2. DOMAIN f = 0..0 /\ \A i \in 0..0 : f[i] = Layer({}, i)
      BY <3>1
    <3>3. \A i \in 0..0 : i = 0
      OBVIOUS
    <3>4. Layers(f, 0)
      BY <1>2, <3>2, <3>3 DEF Layers
    <3> QED BY <3>2, <3>4
  <2>2. ASSUME NEW k \in Nat, k \in S PROVE k + 1 \in S
    <3>1. PICK g : DOMAIN g = 0..k /\ Layers(g, k)
      BY <2>2
    <3> DEFINE f == [i \in 0..(k + 1) |-> IF i = k + 1 THEN Layer(g[k], k + 1) ELSE g[i]]
    <3>2. ASSUME NEW i \in 0..(k + 1) PROVE f[i] = Layer(f[i - 1], i)
      <4>1. CASE i = 0
        <5>1. f[i] = g[0] /\ 0 \in 0..k
          BY <4>1
        <5> HIDE DEF f
        <5>2. g[0] = Layer(g[0 - 1], 0)
          BY <3>1, <5>1 DEF Layers
        <5> QED BY <1>2, <4>1, <5>1, <5>2
      <4>2. CASE i # 0
        <5>1. i - 1 \in 0..(k + 1) /\ i - 1 # k + 1
          BY <4>2
        <5>2. f[i - 1] = g[i - 1]
          BY <5>1
        <5>3. CASE i = k + 1
          <6>1. f[i] = Layer(g[k], k + 1) /\ i - 1 = k
            BY <5>3
          <6> HIDE DEF f
          <6> QED BY <5>2, <5>3, <6>1
        <5>4. CASE i # k + 1
          <6>1. f[i] = g[i] /\ i \in 0..k
            BY <5>4
          <6> HIDE DEF f
          <6> QED BY <3>1, <5>2, <6>1 DEF Layers
        <5> QED BY <5>3, <5>4
      <4> QED BY <4>1, <4>2
    <3>3. DOMAIN f = 0..(k + 1)
      OBVIOUS
    <3> HIDE DEF f
    <3> QED BY <3>2, <3>3 DEF Layers
  <2>3. N \in S
    <3> HIDE DEF S
    <3> QED BY <2>1, <2>2, NatSet
  <2>4. PICK f : DOMAIN f = 0..N /\ Layers(f, N)
    BY <2>3
  <2> QED
    <3>1. PICK g : g = Step(f)
      OBVIOUS
    <3>2. DOMAIN g = 0..N /\ g = [i \in 0..N |-> g[i]]
      BY <3>1
    <3>3. \A i \in 0..N : g[i] = f[i]
      BY <2>4, <3>1 DEF Layers
    <3>4. ASSUME NEW i \in 0..N PROVE g[i] = Layer(g[i - 1], i)
      <4>1. g[i] = Layer(f[i - 1], i)
        BY <3>1
      <4>2. CASE i = 0
        BY <1>2, <4>1, <4>2
      <4>3. CASE i # 0
        <5>1. i - 1 \in 0..N
          BY <4>3
        <5> QED BY <3>3, <4>1, <5>1
      <4> QED BY <4>2, <4>3
    <3> QED BY <3>2, <3>4
<1>4. resetWithin = (CHOOSE f : f = Step(f))
  BY <1>1 DEF resetWithin, Layer
<1>5. resetWithin = Step(resetWithin)
  <2>1. PICK f : f = (CHOOSE g : g = Step(g))
    OBVIOUS
  <2>2. f = Step(f)
    <3> HIDE DEF Step
    <3> QED BY <1>3, <2>1
  <2> HIDE DEF Step
  <2> QED BY <1>4, <2>1, <2>2
<1>6. ASSUME NEW n \in 0..N, NEW h \in Heap, NEW p \in StrongSlots, n # 0
      PROVE  resetWithin[n][h][p] = ResetBy(resetWithin[n - 1], h, p)
  <2>1. resetWithin[n] = Layer(resetWithin[n - 1], n)
    BY <1>5
  <2> QED BY <1>6, <2>1 DEF Layer
<1> QED BY <1>1, <1>6

(* reset() of a pointer p, where the objects below it are among A: nothing *)
(* but p and what those hold changes.                                      *)
Within(h, p, A) ==
  /\ Tidy(h) /\ p \in StrongSlots \ {Temporary} /\ A \in SUBSET Managers
  /\ Closed(h, A) /\ h.strongTo[p] \in A \cup {Null}

IsReset(h, r, p, A) ==
  /\ Tidy(r) /\ r.strongTo[p] = Null
  /\ \A q \in StrongSlots \ (A \cup {p}) : r.strongTo[q] = h.strongTo[q]
  /\ \A q \in StrongSlots : r.strongTo[q] \in {h.strongTo[q], Null}
  /\ \A w \in Weak : r.weakTo[w] = h.weakTo[w]
  /\ \A w \in WeakSlots : r.weakTo[w] \in {h.weakTo[w], Null}

Resets(n) ==
  \A h, p, A : Within(h, p, A) /\ Cardinality(A) < n /\ n <= Nesting
               => IsReset(h, resetWithin[n][h][p], p, A)

(* The deleter acquires and drops the object before it goes.               *)
LEMMA Known ==
  ASSUME SharedPointerAssumption, NEW h, Tidy(h), NEW m \in Managers, h.strong[m] = 1, NEW R,
         NEW own, own = Point(h, Temporary, m)
  PROVE  own \in Heap /\ ResetBy(R, own, Temporary) = h
<1>1. /\ h \in Heap /\ h.strongTo[Temporary] = Null
      /\ Temporary \in StrongSlots /\ m # Null /\ h.manager[m] = "alive"
      /\ h.strongTo \in [StrongSlots -> Managers \cup {Null}] /\ h.strong \in [Managers -> Int]
  BY HeapFields, PointerFacts, HoldersCount DEF Tidy, Sound
<1>2. StrongSet(h, own, Temporary, m, m, 2)
  <2>0. h.strong[m] # 0
    OBVIOUS
  <2>1. StrongSet(h, Point(h, Temporary, m), Temporary, m, m, h.strong[m] + 1)
    BY <1>1, <2>0, PointIs
  <2>2. h.strong[m] + 1 = 2
    OBVIOUS
  <2> QED BY <2>1, <2>2
<1>3. /\ own \in Heap /\ own.strongTo[Temporary] = m
      /\ own.manager[m] = "alive" /\ own.strong[m] = 2
  BY <1>1, <1>2 DEF StrongSet, Changed
<1>4. PICK k : k = ResetBy(R, own, Temporary)
  OBVIOUS
<1>5. StrongSet(own, k, Temporary, Null, m, 1)
  <2>0. own.strong[m] \notin {0, 1}
    BY <1>3
  <2>1. StrongSet(own, k, Temporary, Null, m, own.strong[m] - 1)
    BY <1>1, <1>3, <1>4, <2>0, DropIs
  <2>2. own.strong[m] - 1 = 1
    BY <1>3
  <2> QED BY <2>1, <2>2
<1>6. k.strongTo = h.strongTo
  BY <1>1, <1>2, <1>5 DEF StrongSet, Changed
<1>7. k.strong = h.strong
  BY <1>1, <1>2, <1>5 DEF StrongSet, Changed
<1>8. k = h
  <2>1. /\ k \in Heap /\ k.weakTo = h.weakTo /\ k.weak = h.weak /\ k.object = h.object
        /\ k.manager = h.manager /\ k.copied = h.copied /\ k.misused = h.misused
    BY <1>2, <1>5 DEF StrongSet
  <2> QED BY <1>1, <1>6, <1>7, <2>1, SameHeap
<1> QED BY <1>3, <1>4, <1>8

LEMMA ResetStep ==
  ASSUME SharedPointerAssumption, NEW n \in Nat, Resets(n)
  PROVE  Resets(n + 1)
<1> SUFFICES ASSUME NEW h, NEW p, NEW A, Within(h, p, A), Cardinality(A) < n + 1,
                    n + 1 <= Nesting
             PROVE  IsReset(h, resetWithin[n + 1][h][p], p, A)
  BY DEF Resets
<1>1. /\ h \in Heap /\ Null \notin Managers /\ Rooted(h) /\ Tidy(h)
      /\ h.strongTo \in [StrongSlots -> Managers \cup {Null}] /\ Managers \subseteq StrongSlots
      /\ p \in StrongSlots \ {Temporary} /\ p \in StrongSlots /\ A \in SUBSET Managers
      /\ Closed(h, A) /\ h.strongTo[p] \in A \cup {Null} /\ Nesting \in Nat
  BY HeapFields, PointerFacts, NestingIs DEF Tidy, Within
<1>2. PICK R : R = resetWithin[n]
  OBVIOUS
<1>3. PICK r : r = resetWithin[n + 1][h][p]
  OBVIOUS
<1>4. r = ResetBy(R, h, p)
  <2>1. n + 1 \in 0..Nesting /\ n + 1 # 0 /\ (n + 1) - 1 = n
    BY <1>1
  <2> QED BY <1>1, <1>2, <1>3, <2>1, Runs
<1>5. CASE h.strongTo[p] = Null
  <2>1. r = h
    BY <1>4, <1>5 DEF ResetBy
  <2> QED BY <1>1, <1>3, <1>5, <2>1 DEF IsReset
<1>6. CASE h.strongTo[p] # Null
  <2>1. PICK m \in Managers : /\ h.strongTo[p] = m /\ h.manager[m] = "alive" /\ h.object[m] = "alive"
                              /\ h.strong[m] \in Nat \ {0} /\ m \in A /\ m # Null
    BY <1>1, <1>6, PointedTo
  <2>2. CASE h.strong[m] # 1
    <3>1. StrongSet(h, r, p, Null, m, h.strong[m] - 1)
      <4>1. h.strong[m] \notin {0, 1}
        BY <2>1, <2>2
      <4> QED BY <1>1, <1>4, <2>1, <4>1, DropIs
    <3>2. Tidy(r)
      BY <1>1, <2>1, <2>2, <3>1, TidyDrop
    <3>3. Changed(h.strongTo, r.strongTo, p, Null) /\ r.weakTo = h.weakTo
      BY <3>1 DEF StrongSet
    <3> QED BY <1>1, <1>3, <3>2, <3>3 DEF IsReset, Changed
  <2>3. CASE h.strong[m] = 1
    <3>1. PICK C \in SUBSET Managers : /\ h.strongTo[m] \in C \cup {Null} /\ m \notin C
                                       /\ Closed(h, C)
      BY <1>1, Below
    <3>2. PICK B \in SUBSET Managers : B = A \cap C
      OBVIOUS
    <3>3. h.strongTo[m] \in A \cup {Null} /\ Within(h, m, B)
      <4>1. h.strongTo[m] \in A \cup {Null}
        BY <1>1, <2>1 DEF Closed
      <4>2. Closed(h, B)
        BY <1>1, <3>1, <3>2 DEF Closed
      <4>3. m \in StrongSlots \ {Temporary}
        BY <2>1, PointerFacts
      <4> QED BY <1>1, <3>1, <3>2, <4>1, <4>2, <4>3 DEF Within
    <3>4. Cardinality(B) < n /\ n # 0
      <4>1. IsFiniteSet(A) /\ Cardinality(A) \in Nat
        BY <1>1, PointerFacts, FS_Subset, FS_CardinalityType
      <4>2. IsFiniteSet(A \ {m}) /\ Cardinality(A \ {m}) = Cardinality(A) - 1
        BY <2>1, <4>1, FS_RemoveElement
      <4>3. B \subseteq A \ {m}
        BY <3>1, <3>2
      <4>4. Cardinality(B) <= Cardinality(A) - 1 /\ Cardinality(B) \in Nat
        BY <4>2, <4>3, FS_Subset, FS_CardinalityType
      <4> QED BY <4>1, <4>4
    <3>5. p \notin B \cup {m} /\ B \cup {m} \subseteq A
      BY <1>1, <2>1, <3>1, <3>2 DEF Closed
    <3>6. PICK own : own = Point(h, Temporary, m)
      OBVIOUS
    <3>7. own \in Heap /\ R[own][Temporary] = h
      <4>1. /\ own \in Heap
            /\ ResetBy(resetWithin[n - 1], own, Temporary) = h
        BY <1>1, <2>1, <2>3, <3>6, Known
      <4>2. n \in 0..Nesting /\ Temporary \in StrongSlots
        BY <1>1, PointerFacts
      <4> QED BY <1>2, <3>4, <4>1, <4>2, Runs
    <3>8. PICK k : k = R[h][m]
      OBVIOUS
    <3>9. IsReset(h, k, m, B)
      <4>1. n <= Nesting
        BY <1>1
      <4> QED BY <1>2, <3>3, <3>4, <3>8, <4>1 DEF Resets
    <3>10. PICK b : b = ResetWeak(k, m)
      OBVIOUS
    <3>11. Unwatched(k, b, m)
      <4>1. m \in WeakSlots /\ Tidy(k)
        BY <2>1, <3>9, PointerFacts DEF IsReset
      <4> QED BY <3>10, <4>1, ResetWeakIs
    <3>12. /\ Tidy(b) /\ b \in Heap /\ b.strongTo[p] = m
           /\ b.strongTo[m] = Null /\ b.weakTo[m] = Null
           /\ \A q \in StrongSlots \ A : b.strongTo[q] = h.strongTo[q]
           /\ \A q \in StrongSlots : b.strongTo[q] \in {h.strongTo[q], Null}
           /\ \A w \in Weak : b.weakTo[w] = h.weakTo[w]
           /\ \A w \in WeakSlots : b.weakTo[w] \in {h.weakTo[w], Null}
      <4>1. Tidy(b) /\ b \in Heap /\ b.strongTo = k.strongTo
        BY <3>11 DEF Unwatched, Tidy
      <4>2. b.strongTo[p] = m /\ b.strongTo[m] = Null
        BY <1>1, <2>1, <3>5, <3>9, <4>1 DEF IsReset
      <4>3. \A q \in StrongSlots \ A : b.strongTo[q] = h.strongTo[q]
        BY <2>1, <3>2, <3>9, <4>1 DEF IsReset
      <4>4. \A q \in StrongSlots : b.strongTo[q] \in {h.strongTo[q], Null}
        BY <3>9, <4>1 DEF IsReset
      <4>5. /\ b.weakTo[m] = Null /\ \A w \in Weak : b.weakTo[w] = k.weakTo[w]
            /\ \A w \in WeakSlots : b.weakTo[w] \in {k.weakTo[w], Null}
        <5>1. /\ m \in WeakSlots /\ m \notin Weak /\ Weak \subseteq WeakSlots
              /\ k.weakTo \in [WeakSlots -> Managers \cup {Null}]
          BY <2>1, <3>9, PointerFacts, HeapFields DEF IsReset, Tidy
        <5>2. Changed(k.weakTo, b.weakTo, m, Null)
          BY <3>11 DEF Unwatched
        <5> QED BY <5>1, <5>2 DEF Changed
      <4>6. /\ \A w \in Weak : b.weakTo[w] = h.weakTo[w]
            /\ \A w \in WeakSlots : b.weakTo[w] \in {h.weakTo[w], Null}
        BY <3>9, <4>5 DEF IsReset
      <4> QED BY <4>1, <4>2, <4>3, <4>4, <4>5, <4>6
    <3>13. b.strong[m] = 1
      <4>1. Holds(b, m) \subseteq Holds(h, m) /\ p \in Holds(b, m)
        BY <1>1, <2>1, <3>12 DEF Holds
      <4>2. Cardinality(Holds(h, m)) = 1
        BY <2>1, <2>3, <1>1 DEF Tidy, Sound
      <4>3. Cardinality(Holds(b, m)) <= 1
        BY <4>1, <4>2, HoldersCount, FS_Subset
      <4>4. Cardinality(Holds(b, m)) # 0 /\ Cardinality(Holds(b, m)) \in Nat
        BY <4>1, HoldersCount
      <4> QED BY <2>1, <3>12, <4>3, <4>4 DEF Tidy, Sound
    <3>14. PICK M, d : M = b.misused /\ d = [b EXCEPT !.object[m] = "deleted", !.misused = M]
      OBVIOUS
    <3>15. ObjectGone(b, d, m)
      BY <2>1, <3>12, <3>14 DEF ObjectGone, Changed, Heap, Life
    <3>16. Delete(R, h, m) = d
      <4>1. b.misused \cup {x \in {m} : h.object[x] = "deleted"} = M
        BY <2>1, <3>14
      <4>2. d = [b EXCEPT !.object[m] = "deleted",
                          !.misused = @ \cup {x \in {m} : h.object[x] = "deleted"}]
        BY <3>14, <4>1
      <4> QED BY <3>6, <3>7, <3>8, <3>10, <4>2 DEF Delete
    <3>17. r = Ends(d, p, m)
      BY <1>4, <2>1, <2>3, <3>16 DEF ResetBy, Ends
    <3>18. Finished(b, r, p)
      BY <1>1, <2>1, <3>12, <3>13, <3>15, <3>17, LastGoes
    <3>19. Tidy(r) /\ Changed(b.strongTo, r.strongTo, p, Null) /\ r.weakTo = b.weakTo
      BY <3>18 DEF Finished
    <3>20. b.strongTo \in [StrongSlots -> Managers \cup {Null}]
      BY <3>12, HeapFields
    <3>21. r.strongTo[p] = Null /\ \A q \in StrongSlots \ {p} : r.strongTo[q] = b.strongTo[q]
      BY <1>1, <3>19, <3>20 DEF Changed
    <3> QED BY <1>3, <3>12, <3>19, <3>21 DEF IsReset
  <2> QED BY <2>2, <2>3
<1> QED BY <1>5, <1>6

LEMMA ResetIs ==
  ASSUME SharedPointerAssumption, NEW h, NEW p, NEW A, Within(h, p, A)
  PROVE  IsReset(h, ResetStrong(h, p), p, A)
<1> DEFINE S == {n \in Nat : Resets(n)}
<1>1. 0 \in S
  <2> SUFFICES ASSUME NEW g, NEW q, NEW B, Within(g, q, B), Cardinality(B) < 0 PROVE FALSE
    BY DEF Resets
  <2>1. IsFiniteSet(B)
    BY PointerFacts, FS_Subset DEF Within
  <2> QED BY <2>1, FS_CardinalityType
<1>2. \A n \in Nat : n \in S => n + 1 \in S
  BY ResetStep
<1>3. \A n \in Nat : n \in S
  <2> HIDE DEF S
  <2> QED BY <1>1, <1>2, NatSet
<1>4. Resets(Nesting)
  BY <1>3, NestingIs
<1>5. Cardinality(A) < Nesting
  <2>1. IsFiniteSet(Managers) /\ A \subseteq Managers
    BY PointerFacts DEF Within
  <2>2. /\ Cardinality(A) <= Cardinality(Managers) /\ Cardinality(A) \in Nat
        /\ Cardinality(Managers) \in Nat
    BY <2>1, FS_Subset, FS_CardinalityType
  <2> QED BY <2>2, NestingIs
<1>6. Nesting <= Nesting
  BY NestingIs
<1> QED BY <1>4, <1>5, <1>6 DEF Resets, ResetStrong

-------------------------------------------------------------------------------
(* What the program does with its pointers.                                *)
LEMMA ProgramResets ==
  ASSUME SharedPointerAssumption, NEW h, Tidy(h), NEW p \in Strong \cup Managers
  PROVE  \E A \in SUBSET Managers : /\ p \notin A /\ Closed(h, A)
                                    /\ IsReset(h, ResetStrong(h, p), p, A)
<1>1. /\ h \in Heap /\ Rooted(h) /\ p \in StrongSlots \ {Temporary}
      /\ h.strongTo \in [StrongSlots -> Managers \cup {Null}] /\ Managers \subseteq StrongSlots
  BY PointerFacts, HeapFields DEF Tidy
<1>2. \E A \in SUBSET Managers : /\ p \notin A /\ Closed(h, A)
                                 /\ h.strongTo[p] \in A \cup {Null}
  <2>1. CASE p \in Managers
    BY <1>1, <2>1, Below
  <2>2. CASE p \notin Managers
    <3>1. Closed(h, Managers) /\ h.strongTo[p] \in Managers \cup {Null}
      BY <1>1 DEF Closed
    <3> QED BY <2>2, <3>1
  <2> QED BY <2>1, <2>2
<1>3. PICK A \in SUBSET Managers : /\ p \notin A /\ Closed(h, A)
                                   /\ h.strongTo[p] \in A \cup {Null}
  BY <1>2
<1>4. Within(h, p, A)
  BY <1>1, <1>3 DEF Within
<1>5. IsReset(h, ResetStrong(h, p), p, A)
  BY <1>4, ResetIs
<1> QED BY <1>3, <1>5

LEMMA ResetTidies ==
  ASSUME SharedPointerAssumption, NEW h, Tidy(h), NEW p \in Strong \cup Managers,
         NEW r, r = ResetStrong(h, p)
  PROVE  /\ Tidy(r) /\ r.strongTo[p] = Null
         /\ \A q \in StrongSlots : r.strongTo[q] \in {h.strongTo[q], Null}
         /\ \A w \in Weak : r.weakTo[w] = h.weakTo[w]
         /\ \A w \in WeakSlots : r.weakTo[w] \in {h.weakTo[w], Null}
BY ProgramResets DEF IsReset

(* What holds a pointer outlives the reset of it.                          *)
LEMMA OwnerStays ==
  ASSUME SharedPointerAssumption, NEW h, Tidy(h), NEW p \in Managers, h.object[p] = "alive",
         NEW r, r = ResetStrong(h, p)
  PROVE  r.object[p] = "alive"
<1>1. PICK A \in SUBSET Managers : /\ p \notin A /\ Closed(h, A)
                                   /\ IsReset(h, r, p, A)
  BY ProgramResets
<1>2. PICK q \in StrongSlots : h.strongTo[q] = p
  BY DEF Tidy, Holds, Sound
<1>3. q \notin A
  BY <1>1, <1>2, PointerFacts DEF Closed
<1>4. q # p
  <2>1. {p} \in SUBSET Managers /\ {p} # {}
    OBVIOUS
  <2>2. PICK x \in {p} : h.strongTo[x] \notin {p}
    BY <2>1 DEF Tidy, Rooted
  <2> QED BY <1>2, <2>2
<1>5. q \in Holds(r, p) /\ Tidy(r)
  BY <1>1, <1>2, <1>3, <1>4 DEF IsReset, Holds
<1> QED BY <1>5 DEF Tidy, Sound

LEMMA TidyWatch ==
  ASSUME SharedPointerAssumption, NEW h, Tidy(h), NEW w \in Weak, h.weakTo[w] = Null,
         NEW m \in Managers, h.manager[m] = "alive",
         NEW g, WeakSet(h, g, w, m, m, h.weak[m] + 1)
  PROVE  Tidy(g)
<1>1. /\ h \in Heap /\ h.weakTo \in [WeakSlots -> Managers \cup {Null}]
      /\ Null \notin Managers /\ w \in WeakSlots /\ w \notin Managers /\ Rooted(h)
      /\ Managers \subseteq WeakSlots
  BY HeapFields, PointerFacts DEF Tidy
<1>2. Changed(h.weakTo, g.weakTo, w, m)
  BY DEF WeakSet
<1>3. \A x : Holds(g, x) = Holds(h, x)
  BY DEF WeakSet, Holds
<1>4. /\ Observers(g, m) = Observers(h, m) \cup {w}
      /\ Cardinality(Observers(g, m)) = Cardinality(Observers(h, m)) + 1
      /\ \A x \in Managers \ {m} : Observers(g, x) = Observers(h, x)
  <2>1. WatcherMore(h, g, w, m)
    BY <1>1, <1>2, WatcherNew
  <2> QED BY <2>1 DEF WatcherMore
<1>5. /\ g.weak[m] = h.weak[m] + 1 /\ \A x \in Managers \ {m} : g.weak[x] = h.weak[x]
  BY <1>1, HeapFields DEF WeakSet, Changed
<1>6. ASSUME NEW x \in Managers PROVE Sound(g, x)
  <2>1. /\ g.strong = h.strong /\ g.object = h.object /\ g.manager = h.manager
        /\ g.strongTo = h.strongTo /\ g.copied = h.copied
    BY DEF WeakSet
  <2>2. g.weakTo[x] = h.weakTo[x]
    BY <1>1, <1>2 DEF Changed
  <2>3. Sound(h, x)
    BY DEF Tidy
  <2>4. x \notin h.copied => g.weak[x] = Cardinality(Observers(g, x))
    BY <1>4, <1>5, <2>3 DEF Sound
  <2>5. CASE x = m
    BY <1>3, <1>4, <2>1, <2>2, <2>3, <2>4, <2>5 DEF Sound
  <2>6. CASE x # m
    BY <1>3, <1>4, <2>1, <2>2, <2>3, <2>4, <2>6 DEF Sound
  <2> QED BY <2>5, <2>6
<1>7. /\ g \in Heap /\ g.misused \subseteq g.copied /\ g.strongTo[Temporary] = Null /\ Rooted(g)
  BY <1>1 DEF WeakSet, Tidy, Rooted
<1> QED BY <1>6, <1>7 DEF Tidy, Sound

(* operator=: p is empty by now.                                           *)
LEMMA PointTidies ==
  ASSUME SharedPointerAssumption, NEW h, Tidy(h), NEW p \in StrongSlots \ {Temporary},
         h.strongTo[p] = Null, NEW m \in Managers \cup {Null},
         m # Null => h.manager[m] = "alive" \/ m \in h.copied,
         p \in Managers /\ m # Null =>
           /\ h.object[p] = "alive"
           /\ \E C \in SUBSET Managers : m \in C /\ p \notin C /\ Closed(h, C)
  PROVE  Tidy(Point(h, p, m))
<1>1. CASE m = Null
  BY <1>1 DEF Point
<1>2. CASE m # Null /\ h.strong[m] = 0
  <2>1. SameButUse(h, Use(h, m))
    BY <1>2, Uses DEF Tidy
  <2>2. Tidy(Use(h, m))
    BY <2>1, UsesTidy
  <2> QED BY <1>2, <2>2 DEF Point
<1>3. CASE m # Null /\ h.strong[m] # 0
  <2>1. m \in Managers
    BY <1>3
  <2>2. PICK g : g = Point(h, p, m)
    OBVIOUS
  <2>3. StrongSet(h, g, p, m, m, h.strong[m] + 1)
    BY <1>3, <2>1, <2>2, PointIs
  <2>4. Tidy(g)
    BY <1>3, <2>1, <2>3, TidyPoint
  <2> QED BY <2>2, <2>4
<1> QED BY <1>1, <1>2, <1>3

LEMMA NewTidies ==
  ASSUME SharedPointerAssumption, Tidy(heap), NEW p \in Strong, New(p)
  PROVE  Tidy(heap')
<1>1. PICK b : b = ResetStrong(heap, p)
  OBVIOUS
<1>2. PICK m : m = CHOOSE x \in Fresh : TRUE
  OBVIOUS
<1>3. PICK self \in {0, 1} :
        /\ Fresh # {}
        /\ heap' = [b EXCEPT !.manager[m] = "alive", !.object[m] = "alive",
                             !.strong[m] = 1, !.strongTo[p] = m, !.weak[m] = self,
                             !.weakTo[m] = IF self = 1 THEN m ELSE Null]
  BY <1>1, <1>2 DEF New
<1>4. m \in Managers /\ heap.manager[m] = "none"
  BY <1>2, <1>3 DEF Fresh
<1>5. /\ Null \notin Managers /\ Managers \subseteq StrongSlots /\ Managers \subseteq WeakSlots
      /\ p \in StrongSlots /\ p \notin Managers /\ p # Temporary /\ Temporary \notin Managers
      /\ Temporary \in StrongSlots
  BY PointerFacts
<1>6. /\ Tidy(b) /\ b.strongTo[p] = Null
      /\ \A q \in StrongSlots : b.strongTo[q] \in {heap.strongTo[q], Null}
      /\ \A w \in WeakSlots : b.weakTo[w] \in {heap.weakTo[w], Null}
  BY <1>1, ResetTidies
<1>7. /\ b \in Heap /\ b.misused \subseteq b.copied /\ Rooted(b)
      /\ b.strongTo \in [StrongSlots -> Managers \cup {Null}]
      /\ b.weakTo \in [WeakSlots -> Managers \cup {Null}]
      /\ b.strong \in [Managers -> Int] /\ b.weak \in [Managers -> Int]
      /\ b.object \in [Managers -> Life] /\ b.manager \in [Managers -> Life]
  BY <1>6, HeapFields DEF Tidy
<1>8. Holds(b, m) = {} /\ Observers(b, m) = {}
  <2>1. Holds(heap, m) = {} /\ Observers(heap, m) = {}
    BY <1>4 DEF Tidy, Sound
  <2>2. Holds(b, m) \subseteq Holds(heap, m) /\ Observers(b, m) \subseteq Observers(heap, m)
    BY <1>4, <1>5, <1>6 DEF Holds, Observers
  <2> QED BY <2>1, <2>2
<1>9. b.strongTo[m] = Null /\ b.weakTo[m] = Null
  BY <1>4, <1>6, <1>8 DEF Tidy, Sound
<1>10. PICK g, v : g = heap' /\ v = (IF self = 1 THEN m ELSE Null)
  OBVIOUS
<1>11. v \in {m, Null} /\ (v = m <=> self = 1) /\ v \in Managers \cup {Null}
  BY <1>4, <1>5, <1>10
<1>12. g = [b EXCEPT !.manager[m] = "alive", !.object[m] = "alive", !.strong[m] = 1,
                     !.strongTo[p] = m, !.weak[m] = self, !.weakTo[m] = v]
  BY <1>3, <1>10
<1>13. /\ Changed(b.manager, g.manager, m, "alive") /\ Changed(b.object, g.object, m, "alive")
       /\ Changed(b.strong, g.strong, m, 1) /\ Changed(b.strongTo, g.strongTo, p, m)
       /\ Changed(b.weak, g.weak, m, self) /\ Changed(b.weakTo, g.weakTo, m, v)
       /\ g.copied = b.copied /\ g.misused = b.misused
  BY <1>7, <1>12 DEF Changed, Heap
<1>14. g \in Heap
  <2>1. g = [strongTo |-> g.strongTo, weakTo |-> g.weakTo, strong |-> g.strong, weak |-> g.weak,
             object |-> g.object, manager |-> g.manager, copied |-> g.copied,
             misused |-> g.misused]
    BY <1>7, <1>12 DEF Heap
  <2>2. /\ g.strongTo \in [StrongSlots -> Managers \cup {Null}]
        /\ g.weakTo \in [WeakSlots -> Managers \cup {Null}]
    BY <1>4, <1>5, <1>7, <1>11, <1>13 DEF Changed
  <2>3. /\ g.strong \in [Managers -> Int] /\ g.weak \in [Managers -> Int]
        /\ g.object \in [Managers -> Life] /\ g.manager \in [Managers -> Life]
    BY <1>4, <1>7, <1>13 DEF Changed, Life
  <2>4. g.copied \in SUBSET Managers /\ g.misused \in SUBSET Managers
    BY <1>7, <1>13, HeapFields
  <2> QED BY <2>1, <2>2, <2>3, <2>4 DEF Heap
<1>15. /\ Holds(g, m) = {p} /\ \A x \in Managers \ {m} : Holds(g, x) = Holds(b, x)
  BY <1>5, <1>6, <1>7, <1>8, <1>13 DEF Changed, Holds
<1>16. /\ Observers(g, m) = IF self = 1 THEN {m} ELSE {}
       /\ \A x \in Managers \ {m} : Observers(g, x) = Observers(b, x)
  <2>1. g.weakTo[m] = v /\ \A w \in WeakSlots \ {m} : g.weakTo[w] = b.weakTo[w]
    BY <1>4, <1>5, <1>7, <1>13 DEF Changed
  <2>2. \A w \in WeakSlots \ {m} : g.weakTo[w] # m
    BY <1>8, <2>1 DEF Observers
  <2>3. Observers(g, m) = IF self = 1 THEN {m} ELSE {}
    BY <1>4, <1>5, <1>11, <2>1, <2>2 DEF Observers
  <2>4. \A x \in Managers \ {m} : Observers(g, x) = Observers(b, x)
    BY <1>4, <1>5, <1>9, <1>11, <2>1 DEF Observers
  <2> QED BY <2>3, <2>4
<1>17. /\ g.strong[m] = 1 /\ g.weak[m] = self /\ g.object[m] = "alive" /\ g.manager[m] = "alive"
       /\ \A x \in Managers \ {m} : /\ g.strong[x] = b.strong[x] /\ g.weak[x] = b.weak[x]
                                    /\ g.object[x] = b.object[x] /\ g.manager[x] = b.manager[x]
  BY <1>4, <1>7, <1>13 DEF Changed
<1>18. \A x \in Managers : g.strongTo[x] = b.strongTo[x] /\ (x # m => g.weakTo[x] = b.weakTo[x])
  BY <1>5, <1>7, <1>13 DEF Changed
<1>19. ASSUME NEW x \in Managers PROVE Sound(g, x)
  <2>1. CASE x = m
    <3>1. Cardinality({p}) = 1 /\ Cardinality({m}) = 1 /\ Cardinality({}) = 0
      BY FS_Singleton, FS_EmptySet
    <3>2. Cardinality(Observers(g, m)) = self
      BY <1>16, <3>1
    <3>3. Holds(g, m) = {p} /\ Holds(g, m) # {}
      BY <1>15
    <3> QED BY <1>17, <2>1, <3>1, <3>2, <3>3 DEF Sound
  <2>2. CASE x # m
    <3>1. /\ Holds(g, x) = Holds(b, x) /\ Observers(g, x) = Observers(b, x)
          /\ g.strong[x] = b.strong[x] /\ g.weak[x] = b.weak[x]
          /\ g.object[x] = b.object[x] /\ g.manager[x] = b.manager[x]
          /\ g.strongTo[x] = b.strongTo[x] /\ g.weakTo[x] = b.weakTo[x]
      BY <1>15, <1>16, <1>17, <1>18, <2>2
    <3>2. Sound(b, x)
      BY <1>6 DEF Tidy
    <3> QED BY <1>13, <3>1, <3>2 DEF Sound
  <2> QED BY <2>1, <2>2
<1>20. Rooted(g)
  BY <1>5, <1>7, <1>18, RootedLess
<1>21. g.strongTo[Temporary] = Null
  BY <1>5, <1>6, <1>7, <1>13 DEF Changed, Tidy
<1>22. Tidy(g)
  BY <1>7, <1>13, <1>14, <1>19, <1>20, <1>21 DEF Tidy
<1> QED BY <1>10, <1>22

LEMMA AssignTidies ==
  ASSUME SharedPointerAssumption, Tidy(heap), NEW p \in Strong \cup Managers,
         NEW q \in Strong \cup Managers, Assign(p, q)
  PROVE  Tidy(heap')
<1>1. PICK b : b = ResetStrong(heap, p)
  OBVIOUS
<1>2. PICK m : m = b.strongTo[q]
  OBVIOUS
<1>3. /\ p \in Managers => heap.object[p] = "alive" /\ ~Reaches(heap, heap.strongTo[q], p)
      /\ heap' = Point(b, p, m)
  BY <1>1, <1>2 DEF Assign, Usable
<1>4. p \in StrongSlots \ {Temporary} /\ q \in StrongSlots
  BY PointerFacts
<1>5. /\ Tidy(b) /\ b.strongTo[p] = Null
      /\ \A s \in StrongSlots : b.strongTo[s] \in {heap.strongTo[s], Null}
  BY <1>1, ResetTidies
<1>6. m \in Managers \cup {Null}
  BY <1>2, <1>4, <1>5, HeapFields DEF Tidy
<1>7. m # Null => b.manager[m] = "alive"
  BY <1>2, <1>4, <1>5, PointedTo
<1>8. ASSUME p \in Managers, m # Null
      PROVE  /\ b.object[p] = "alive"
             /\ \E C \in SUBSET Managers : m \in C /\ p \notin C /\ Closed(b, C)
  <2>1. b.object[p] = "alive"
    BY <1>1, <1>3, <1>8, OwnerStays
  <2>2. m = heap.strongTo[q]
    BY <1>2, <1>4, <1>5, <1>8
  <2>3. PICK C \in SUBSET Managers : m \in C /\ Closed(heap, C) /\ p \notin C
    BY <1>3, <1>8, <2>2 DEF Reaches
  <2>4. Closed(b, C)
    BY <1>5, <2>3, PointerFacts DEF Closed
  <2> QED BY <2>1, <2>3, <2>4
<1>9. Tidy(Point(b, p, m))
  BY <1>4, <1>5, <1>6, <1>7, <1>8, PointTidies
<1> QED BY <1>3, <1>9

(* Moving a pointer is assigning it and dropping the first.                *)
LEMMA MoveTidies ==
  ASSUME SharedPointerAssumption, Tidy(heap), NEW p \in Strong, NEW q \in Strong, Move(p, q)
  PROVE  Tidy(heap')
<1>1. PICK b : b = ResetStrong(heap, p)
  OBVIOUS
<1>2. PICK m : m = b.strongTo[q]
  OBVIOUS
<1>3. PICK g : g = heap' /\ g = [b EXCEPT !.strongTo[p] = m, !.strongTo[q] = Null]
  BY <1>1, <1>2 DEF Move
<1>4. p # q /\ p \in StrongSlots \ {Temporary} /\ q \in StrongSlots \ {Temporary} /\ p \notin Managers
  BY PointerFacts DEF Move
<1>5. Tidy(b) /\ b.strongTo[p] = Null
  BY <1>1, ResetTidies
<1>6. /\ b \in Heap /\ b.strong \in [Managers -> Int]
      /\ b.strongTo \in [StrongSlots -> Managers \cup {Null}]
  BY <1>5, HeapFields DEF Tidy
<1>7. m \in Managers \cup {Null}
  BY <1>2, <1>4, <1>6
<1>8. PICK f : f = [[b.strongTo EXCEPT ![p] = m] EXCEPT ![q] = Null]
  OBVIOUS
<1>9. /\ g \in Heap /\ g.weakTo = b.weakTo /\ g.strong = b.strong /\ g.weak = b.weak
      /\ g.object = b.object /\ g.manager = b.manager
      /\ g.copied = b.copied /\ g.misused = b.misused
      /\ g.strongTo = [[b.strongTo EXCEPT ![p] = m] EXCEPT ![q] = Null]
  <2>1. g = [b EXCEPT !.strongTo = f]
    BY <1>3, <1>6, <1>8 DEF Heap
  <2>2. f \in [StrongSlots -> Managers \cup {Null}]
    BY <1>4, <1>6, <1>7, <1>8
  <2> QED BY <1>6, <1>8, <2>1, <2>2 DEF Heap
<1>10. CASE m = Null
  <2>1. g.strongTo = b.strongTo
    <3>1. PICK t : t = b.strongTo
      OBVIOUS
    <3>2. t \in [StrongSlots -> Managers \cup {Null}] /\ t[p] = Null /\ t[q] = Null
      BY <1>2, <1>5, <1>6, <1>10, <3>1
    <3>3. [[t EXCEPT ![p] = Null] EXCEPT ![q] = Null] = t
      BY <3>2
    <3> QED BY <1>9, <1>10, <3>1, <3>3
  <2>2. g = b
    BY <1>6, <1>9, <2>1, SameHeap
  <2> QED BY <1>3, <1>5, <2>2
<1>11. CASE m # Null
  <2>1. m \in Managers /\ b.manager[m] = "alive" /\ b.strong[m] \in Nat \ {0}
    BY <1>2, <1>4, <1>5, <1>11, PointedTo
  <2>2. PICK k : k = Point(b, p, m)
    OBVIOUS
  <2>3. StrongSet(b, k, p, m, m, b.strong[m] + 1)
    BY <1>4, <1>5, <2>1, <2>2, PointIs
  <2>4. Tidy(k)
    BY <1>4, <1>5, <2>1, <2>3, TidyPoint
  <2>5. /\ k \in Heap /\ k.manager[m] = "alive"
        /\ k.strongTo[q] = m /\ k.strong[m] = b.strong[m] + 1 /\ k.strong[m] \notin {0, 1}
    <3>1. k \in Heap /\ k.manager[m] = "alive"
      BY <1>6, <2>1, <2>3 DEF StrongSet
    <3>2. k.strongTo[q] = m /\ k.strong[m] = b.strong[m] + 1
      BY <1>2, <1>4, <1>6, <2>1, <2>3 DEF StrongSet, Changed
    <3> QED BY <2>1, <3>1, <3>2
  <2>6. PICK l : l = ResetBy({}, k, q)
    OBVIOUS
  <2>7. StrongSet(k, l, q, Null, m, k.strong[m] - 1)
    BY <1>4, <1>11, <2>1, <2>5, <2>6, DropIs
  <2>8. Tidy(l)
    BY <1>4, <2>1, <2>4, <2>5, <2>7, TidyDrop
  <2>9. l.strongTo = g.strongTo
    BY <1>9, <2>3, <2>7 DEF StrongSet, Changed
  <2>10. l.strong = g.strong
    <3>1. Changed(b.strong, k.strong, m, b.strong[m] + 1)
      BY <2>3 DEF StrongSet
    <3>2. Changed(k.strong, l.strong, m, b.strong[m])
      <4>1. (b.strong[m] + 1) - 1 = b.strong[m]
        BY <2>1
      <4> QED BY <2>5, <2>7, <4>1 DEF StrongSet
    <3> QED BY <1>6, <1>9, <2>1, <3>1, <3>2 DEF Changed
  <2>11. /\ l \in Heap /\ l.weakTo = b.weakTo /\ l.weak = b.weak
         /\ l.object = b.object /\ l.manager = b.manager
         /\ l.copied = b.copied /\ l.misused = b.misused
    BY <2>3, <2>7 DEF StrongSet
  <2>12. l = g
    BY <1>9, <2>9, <2>10, <2>11, SameHeap
  <2> QED BY <1>3, <2>8, <2>12
<1> QED BY <1>10, <1>11

LEMMA ObserveTidies ==
  ASSUME SharedPointerAssumption, Tidy(heap), NEW w \in Weak, NEW p \in Strong, Observe(w, p)
  PROVE  Tidy(heap')
<1>1. PICK b : b = ResetWeak(heap, w)
  OBVIOUS
<1>2. PICK m : m = heap.strongTo[p]
  OBVIOUS
<1>3. heap' = IF m = Null THEN b
              ELSE [Use(b, m) EXCEPT !.weakTo[w] = m, !.weak[m] = @ + 1]
  BY <1>1, <1>2 DEF Observe
<1>4. w \in WeakSlots /\ p \in StrongSlots
  BY PointerFacts
<1>5. Unwatched(heap, b, w)
  BY <1>1, <1>4, ResetWeakIs
<1>6. /\ Tidy(b) /\ b.strongTo = heap.strongTo /\ b \in Heap
  BY <1>5 DEF Unwatched, Tidy
<1>7. b.weakTo[w] = Null
  <2>1. heap.weakTo \in [WeakSlots -> Managers \cup {Null}]
    BY HeapFields DEF Tidy
  <2> QED BY <1>4, <1>5, <2>1 DEF Unwatched, Changed
<1>8. CASE m = Null
  BY <1>3, <1>6, <1>8
<1>9. CASE m # Null
  <2>1. m \in Managers /\ b.manager[m] = "alive"
    BY <1>2, <1>4, <1>6, <1>9, PointedTo
  <2>2. Use(b, m) = b /\ b.weak[m] \in Int
    BY <1>6, <2>1, UseIs, HeapFields
  <2>3. PICK x \in Int : x = b.weak[m] + 1
    BY <2>2
  <2>4. PICK g : g = heap' /\ g = [b EXCEPT !.weakTo[w] = m, !.weak[m] = x]
    BY <1>3, <1>9, <2>2, <2>3
  <2>5. WeakSet(b, g, w, m, m, x)
    <3>1. m \in Managers \cup {Null}
      BY <2>1
    <3>2. WeakSet(b, [b EXCEPT !.weakTo[w] = m, !.weak[m] = x], w, m, m, x)
      BY <1>4, <1>6, <2>1, <3>1, Watches
    <3> QED BY <2>4, <3>2
  <2>6. Tidy(g)
    BY <1>6, <1>7, <2>1, <2>3, <2>5, TidyWatch
  <2> QED BY <2>4, <2>6
<1> QED BY <1>8, <1>9

LEMMA AcquireTidies ==
  ASSUME SharedPointerAssumption, Tidy(heap), NEW w \in Weak, NEW p \in Strong, Acquire(p, w)
  PROVE  Tidy(heap')
<1>1. PICK b : b = ResetStrong(heap, p)
  OBVIOUS
<1>2. PICK m : m = heap.weakTo[w]
  OBVIOUS
<1>3. heap' = Point(b, p, m)
  BY <1>1, <1>2 DEF Acquire
<1>4. w \in WeakSlots /\ p \in StrongSlots \ {Temporary} /\ p \notin Managers
  BY PointerFacts
<1>5. Tidy(b) /\ b.strongTo[p] = Null /\ b.weakTo[w] = m
  BY <1>1, <1>2, ResetTidies
<1>6. m \in Managers \cup {Null}
  BY <1>2, <1>4, HeapFields DEF Tidy
<1>7. m # Null => b.manager[m] = "alive" \/ m \in b.copied
  BY <1>4, <1>5, PointedTo
<1>8. Tidy(Point(b, p, m))
  BY <1>4, <1>5, <1>6, <1>7, PointTidies
<1> QED BY <1>3, <1>8

(* A copy moves a weak pointer from one manager to another, and counts at  *)
(* neither of them.                                                        *)
LEMMA CopyTidies ==
  ASSUME SharedPointerAssumption, Tidy(heap), NEW w \in Weak, NEW x \in Weak, CopyWeak(w, x)
  PROVE  Tidy(heap')
<1>1. PICK h : h = heap
  OBVIOUS
<1>2. PICK known : known = {h.weakTo[w], h.weakTo[x]} \ {Null}
  OBVIOUS
<1>3. PICK v : v = h.weakTo[x]
  OBVIOUS
<1>4. PICK g : g = heap' /\ g = [h EXCEPT !.weakTo[w] = v, !.copied = h.copied \cup known]
  BY <1>1, <1>2, <1>3 DEF CopyWeak
<1>5. /\ Tidy(h) /\ h \in Heap /\ h.weakTo \in [WeakSlots -> Managers \cup {Null}]
      /\ w \in WeakSlots /\ x \in WeakSlots /\ w \notin Managers /\ Null \notin Managers
      /\ h.misused \subseteq h.copied /\ h.copied \in SUBSET Managers
      /\ Managers \subseteq WeakSlots
  BY <1>1, PointerFacts, HeapFields DEF Tidy
<1>6. known \in SUBSET Managers /\ v \in Managers \cup {Null}
  BY <1>2, <1>3, <1>5
<1>7. /\ g \in Heap /\ g.copied = h.copied \cup known /\ g.misused = h.misused
      /\ g.strongTo = h.strongTo /\ g.strong = h.strong /\ g.weak = h.weak
      /\ g.object = h.object /\ g.manager = h.manager /\ Changed(h.weakTo, g.weakTo, w, v)
  <2>1. PICK C, f : C = h.copied \cup known /\ f = [h.weakTo EXCEPT ![w] = v]
    OBVIOUS
  <2>2. C \in SUBSET Managers /\ f \in [WeakSlots -> Managers \cup {Null}]
    BY <1>5, <1>6, <2>1
  <2>3. g = [[h EXCEPT !.weakTo = f] EXCEPT !.copied = C]
    BY <1>4, <2>1
  <2> QED BY <1>5, <2>1, <2>2, <2>3 DEF Heap, Changed
<1>8. ASSUME NEW m \in Managers PROVE Sound(g, m)
  <2>1. Sound(h, m) /\ Holds(g, m) = Holds(h, m)
    BY <1>5, <1>7 DEF Tidy, Holds
  <2>2. g.weakTo[m] = h.weakTo[m]
    BY <1>5, <1>7 DEF Changed
  <2>3. CASE m \in known
    <3>1. h.manager[m] # "none"
      BY <1>2, <1>5, <2>3, PointedTo
    <3> QED BY <1>7, <2>1, <2>2, <2>3, <3>1 DEF Sound
  <2>4. CASE m \notin known
    <3>1. Observers(g, m) = Observers(h, m)
      <4>1. h.weakTo[w] # m /\ v # m
        BY <1>2, <1>3, <1>5, <2>4
      <4> QED BY <1>5, <1>7, <4>1 DEF Observers, Changed
    <3> QED BY <1>7, <2>1, <2>2, <2>4, <3>1 DEF Sound
  <2> QED BY <2>3, <2>4
<1>9. Rooted(g) /\ g.strongTo[Temporary] = Null
  BY <1>5, <1>7 DEF Rooted, Tidy
<1>10. Tidy(g)
  BY <1>5, <1>7, <1>8, <1>9 DEF Tidy
<1> QED BY <1>4, <1>10

LEMMA PointersStep ==
  ASSUME SharedPointerAssumption, Tidy(heap), HeapNext
  PROVE  Tidy(heap')
<1>1. CASE \E p \in Strong : New(p)
  BY <1>1, NewTidies
<1>2. CASE \E p \in Strong : \E q \in Strong : Move(p, q)
  BY <1>2, MoveTidies
<1>3. CASE \E p \in Strong \cup Managers : Reset(p)
  BY <1>3, ResetTidies DEF Reset
<1>4. CASE \E p \in Strong \cup Managers : \E q \in Strong \cup Managers : Assign(p, q)
  BY <1>4, AssignTidies
<1>5. CASE \E w \in Weak : Forget(w)
  BY <1>5, ResetWeakIs, PointerFacts DEF Forget, Unwatched
<1>6. CASE \E w \in Weak : \E p \in Strong : Observe(w, p)
  BY <1>6, ObserveTidies
<1>7. CASE \E w \in Weak : \E p \in Strong : Acquire(p, w)
  BY <1>7, AcquireTidies
<1>8. CASE \E w, x \in Weak : CopyWeak(w, x)
  BY <1>8, CopyTidies
<1> QED BY <1>1, <1>2, <1>3, <1>4, <1>5, <1>6, <1>7, <1>8 DEF HeapNext

LEMMA PointersStart ==
  ASSUME SharedPointerAssumption, HeapInit
  PROVE  Tidy(heap)
<1>1. heap \in Heap
  BY PointerFacts DEF HeapInit, Heap, Life
<1>2. /\ \A p \in StrongSlots : heap.strongTo[p] = Null
      /\ \A w \in WeakSlots : heap.weakTo[w] = Null
      /\ \A m \in Managers : /\ heap.strong[m] = 0 /\ heap.weak[m] = 0
                             /\ heap.object[m] = "none" /\ heap.manager[m] = "none"
      /\ heap.misused = {} /\ heap.copied = {}
  BY DEF HeapInit
<1>3. \A m \in Managers : Holds(heap, m) = {} /\ Observers(heap, m) = {}
  BY <1>2, PointerFacts DEF Holds, Observers
<1>4. Rooted(heap)
  BY <1>2, PointerFacts DEF Rooted
<1>5. \A m \in Managers : Sound(heap, m)
  BY <1>2, <1>3, PointerFacts, FS_EmptySet DEF Sound
<1> QED BY <1>1, <1>2, <1>4, <1>5, PointerFacts DEF Tidy

LEMMA PointersInvariant ==
  ASSUME SharedPointerAssumption, Tidy(heap), [HeapNext]_heap
  PROVE  Tidy(heap')
<1>1. CASE UNCHANGED heap
  BY <1>1
<1>2. CASE HeapNext
  BY <1>2, PointersStep
<1> QED BY <1>1, <1>2

LEMMA PointersMean ==
  ASSUME Tidy(heap)
  PROVE  NothingUsedAfterDelete /\ LivesIffKnown
<1>1. NothingUsedAfterDelete
  BY DEF NothingUsedAfterDelete, Tidy
<1>2. ObjectLivesIffHeld
  BY DEF ObjectLivesIffHeld, Tidy, Sound
<1>3. ManagerLivesIffKnown
  <2> SUFFICES ASSUME NEW m \in Managers
               PROVE  /\ heap.strong[m] = Cardinality(Holds(heap, m))
                      /\ Holds(heap, m) # {} => heap.manager[m] = "alive"
                      /\ m \notin heap.copied =>
                           /\ heap.weak[m] = Cardinality(Observers(heap, m))
                           /\ heap.manager[m] = "alive"
                                <=> Holds(heap, m) \cup Observers(heap, m) # {}
    BY DEF ManagerLivesIffKnown
  <2>1. Sound(heap, m)
    BY DEF Tidy
  <2>2. Holds(heap, m) \cup Observers(heap, m) # {}
          <=> Holds(heap, m) # {} \/ Observers(heap, m) # {}
    OBVIOUS
  <2> QED BY <2>1, <2>2 DEF Sound
<1> QED BY <1>1, <1>2, <1>3 DEF LivesIffKnown

(* nall::shared_pointer: nothing that was deleted is used or deleted again,*)
(* though objects hold each other, deleters run inside one another and each*)
(* points to its own object once more (the comment at shared-pointer.hpp:  *)
(* 182), but for managers of which a weak pointer was copied; and deleters *)
(* never nest deeper than there are objects.                               *)
THEOREM NothingDeletedIsUsed == HeapSpec => []NothingUsedAfterDelete
<1> DEFINE Inv == Tidy(heap)
<1>1. HeapInit => Inv
  BY SharedPointerAssumption, PointersStart
<1>2. Inv /\ [HeapNext]_heap => Inv'
  BY SharedPointerAssumption, PointersInvariant
<1>3. Inv => NothingUsedAfterDelete
  BY PointersMean
<1> QED BY <1>1, <1>2, <1>3, PTL DEF HeapSpec

(* An object is there exactly while a strong pointer to it is, and its     *)
(* manager too, which counts these: whatever weak pointers are copied, and *)
(* as long as the program makes no cycle.  A manager without such a copy   *)
(* stays exactly as long as any pointer to it, and counts both kinds.      *)
THEOREM ObjectsLiveIffHeld == HeapSpec => []LivesIffKnown
<1> DEFINE Inv == Tidy(heap)
<1>1. HeapInit => Inv
  BY SharedPointerAssumption, PointersStart
<1>2. Inv /\ [HeapNext]_heap => Inv'
  BY SharedPointerAssumption, PointersInvariant
<1>3. Inv => LivesIffKnown
  BY PointersMean
<1> QED BY <1>1, <1>2, <1>3, PTL DEF HeapSpec
===============================================================================
