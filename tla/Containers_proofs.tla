--------------------------- MODULE Containers_proofs ---------------------------
(***************************************************************************)
(* Proofs about nall's containers.                                         *)
(***************************************************************************)
EXTENDS Containers, SequenceTheorems, FiniteSetTheorems, TLAPS

-------------------------------------------------------------------------------
(* A set of numbers with 0 and each successor has every number: otherwise  *)
(* adding 1 maps what it has up to n into itself and never to 0.           *)
LEMMA NatSet ==
  ASSUME NEW S, 0 \in S, \A n \in Nat : n \in S => n + 1 \in S
  PROVE  \A n \in Nat : n \in S
<1> SUFFICES ASSUME NEW n \in Nat, n \notin S PROVE FALSE
  OBVIOUS
<1> DEFINE A == (0 .. n) \cap S
           f == [k \in A |-> k + 1]
<1>1. \A k \in A : k \in Nat /\ k + 1 \in A
  <2> TAKE k \in A
  <2>1. k \in Nat /\ k <= n /\ k \in S /\ k # n OBVIOUS
  <2> QED BY <2>1
<1>2. f \in Injection(A, A)
  <2>1. f \in [A -> A] BY <1>1
  <2>2. \A a, b \in A : f[a] = f[b] => a = b BY <1>1
  <2> QED BY <2>1, <2>2 DEF Injection, IsInjective
<1>3. IsFiniteSet(A)
  <2>1. IsFiniteSet(0 .. n) BY FS_Interval
  <2> QED BY <2>1, FS_Intersection
<1>4. f \in Surjection(A, A)
  BY <1>2, <1>3, FS_Injection
<1>5. PICK k \in A : f[k] = 0
  <2>1. 0 \in A OBVIOUS
  <2> QED BY <1>4, <2>1 DEF Surjection
<1> QED
  BY <1>1, <1>5

-------------------------------------------------------------------------------
(* Powers of two, counted as sets of sets.                                 *)
LEMMA Power ==
  ASSUME NEW n \in Nat
  PROVE  /\ IsFiniteSet(SUBSET (1..n)) /\ Cardinality(SUBSET (1..n)) = 2 ^ n
         /\ 2 ^ n \in Nat \ {0}
<1>1. IsFiniteSet(1..n) /\ Cardinality(1..n) = n
  BY FS_Interval
<1>2. IsFiniteSet(SUBSET (1..n)) /\ Cardinality(SUBSET (1..n)) = 2 ^ n
  BY <1>1, FS_SUBSET
<1>3. SUBSET (1..n) # {}
  OBVIOUS
<1> QED BY <1>2, <1>3, FS_CardinalityType, FS_EmptySet

LEMMA Doubled ==
  ASSUME NEW n \in Nat
  PROVE  2 ^ (n + 1) = 2 ^ n + 2 ^ n
<1> DEFINE A == SUBSET (1..n)
           B == {T \in SUBSET (1..(n + 1)) : n + 1 \in T}
           f == [T \in A |-> T \cup {n + 1}]
<1>1. SUBSET (1..(n + 1)) = A \cup B /\ A \cap B = {}
  OBVIOUS
<1>2. f \in Bijection(A, B)
  <2>1. f \in [A -> B]
    OBVIOUS
  <2>2. \A a, b \in A : f[a] = f[b] => a = b
    <3>1. \A a \in A : n + 1 \notin a
      OBVIOUS
    <3> QED BY <3>1
  <2>3. \A t \in B : \E a \in A : f[a] = t
    <3> TAKE t \in B
    <3>1. t \ {n + 1} \in A /\ f[t \ {n + 1}] = t
      OBVIOUS
    <3> QED BY <3>1
  <2> QED BY <2>1, <2>2, <2>3 DEF Bijection, Injection, IsInjective, Surjection
<1>3. IsFiniteSet(A) /\ Cardinality(A) = 2 ^ n /\ 2 ^ n \in Nat
  BY Power
<1>4. IsFiniteSet(B) /\ Cardinality(B) = 2 ^ n
  BY <1>2, <1>3, FS_Bijection DEF ExistsBijection
<1>5. Cardinality(A \cup B) = 2 ^ n + 2 ^ n - Cardinality({})
  <2> HIDE DEF A, B
  <2> QED BY <1>1, <1>3, <1>4, FS_Union
<1>6. Cardinality(A \cup B) = 2 ^ (n + 1)
  <2>1. n + 1 \in Nat
    OBVIOUS
  <2>2. Cardinality(SUBSET (1..(n + 1))) = 2 ^ (n + 1)
    BY <2>1, Power
  <2> QED BY <1>1, <2>2
<1> QED BY <1>3, <1>5, <1>6, FS_EmptySet

(* The power that bit::round() returns exists.                             *)
LEMMA RoundUp ==
  ASSUME NEW n \in Nat \ {0}
  PROVE  /\ \E p \in {2 ^ e : e \in 0..n} : n <= p /\ (p = 1 \/ p \div 2 < n)
         /\ \A p \in {2 ^ e : e \in 0..n} : p \in Nat \ {0}
<1> DEFINE Up(k) == \E e \in 0..k : k <= 2 ^ e /\ (2 ^ e = 1 \/ 2 ^ e \div 2 < k)
           S == {k \in Nat : k = 0 \/ Up(k)}
<1>1. Up(1)
  <2>1. 0 \in 0..1 /\ 2 ^ 0 = 1
    OBVIOUS
  <2> QED BY <2>1
<1>2. ASSUME NEW k \in Nat \ {0}, Up(k) PROVE Up(k + 1)
  <2>1. PICK e \in 0..k : k <= 2 ^ e /\ (2 ^ e = 1 \/ 2 ^ e \div 2 < k)
    BY <1>2
  <2>2. PICK p \in Nat \ {0} : p = 2 ^ e
    <3>1. e \in Nat
      OBVIOUS
    <3> QED BY <3>1, Power
  <2>3. CASE k + 1 <= p
    <3>1. e \in 0..(k + 1) /\ p \div 2 < k + 1
      BY <2>1, <2>2, <2>3
    <3> QED BY <2>2, <2>3, <3>1
  <2>4. CASE ~(k + 1 <= p)
    <3>1. p = k
      BY <2>1, <2>2, <2>4
    <3>2. e + 1 \in 0..(k + 1) /\ e \in Nat
      OBVIOUS
    <3>3. 2 ^ (e + 1) = p + p
      BY <2>2, <3>2, Doubled
    <3>4. k + 1 <= p + p /\ (p + p) \div 2 = p /\ p < k + 1
      BY <3>1
    <3> QED BY <3>2, <3>3, <3>4
  <2> QED BY <2>3, <2>4
<1> HIDE DEF Up
<1>3. 0 \in S /\ \A k \in Nat : k \in S => k + 1 \in S
  BY <1>1, <1>2
<1> HIDE DEF S
<1>4. n \in S
  BY <1>3, NatSet
<1>5. Up(n)
  BY <1>4 DEF S
<1>6. \A e \in 0..n : 2 ^ e \in Nat \ {0}
  <2>1. \A e \in 0..n : e \in Nat
    OBVIOUS
  <2> QED BY <2>1, Power
<1> QED BY <1>5, <1>6 DEF Up

LEMMA RoundType ==
  ASSUME NEW n \in Nat
  PROVE  Vector!round(n) \in Nat /\ n <= Vector!round(n)
<1>1. CASE n = 0
  BY <1>1 DEF Vector!round
<1>2. CASE n # 0
  <2> DEFINE P == {2 ^ e : e \in 0..n}
             Q(p) == n <= p /\ (p = 1 \/ p \div 2 < n)
  <2>1. (\E p \in P : Q(p)) /\ \A p \in P : p \in Nat
    BY <1>2, RoundUp
  <2>2. Vector!round(n) = CHOOSE p \in P : Q(p)
    BY <1>2 DEF Vector!round
  <2> HIDE DEF P
  <2> QED BY <2>1, <2>2
<1> QED BY <1>1, <1>2

-------------------------------------------------------------------------------
(* An allocation in which the elements s lie behind `at` cells, and        *)
(* nothing else does.                                                      *)
Cell == Value \cup {"raw"}

Laid(m, at, l, r, s) ==
  /\ m \in Seq(Cell) /\ s \in Seq(Value)
  /\ at \in Nat /\ l \in Nat /\ r \in Nat
  /\ at = l /\ at + Len(s) + r <= Len(m)
  /\ \A i \in 1..Len(m) : m[i] = IF i \in (at + 1)..(at + Len(s)) THEN s[i - at] ELSE "raw"

VectorInv == \E s \in Seq(Value) : size = Len(s) /\ Laid(memory, pool, left, right, s)

LEMMA AllCells ==
  ASSUME NEW m, NEW at, NEW l, NEW r, NEW s, Laid(m, at, l, r, s)
  PROVE  SubSeq(m, at + 1, at + Len(s)) = s
<1>1. /\ m \in Seq(Cell) /\ s \in Seq(Value) /\ at \in Nat /\ Len(s) \in Nat /\ Len(m) \in Nat
      /\ at + Len(s) <= Len(m)
  BY DEF Laid
<1>2. \A i \in 1..Len(s) : m[at + i] = s[i]
  <2> TAKE i \in 1..Len(s)
  <2>1. at + i \in 1..Len(m) /\ at + i \in (at + 1)..(at + Len(s)) /\ at + i - at = i
    BY <1>1
  <2> QED BY <2>1 DEF Laid
<1> QED BY <1>1, <1>2

LEMMA ElementsAre ==
  ASSUME NEW s, Laid(memory, pool, left, right, s), size = Len(s)
  PROVE  Vector!Elements = s
BY AllCells DEF Vector!Elements, Vector!Cells


(* What is written into an allocation, so that other elements lie in it.   *)
LEMMA Written ==
  ASSUME NEW m, NEW at, NEW l, NEW r, NEW s, Laid(m, at, l, r, s),
         NEW from \in Nat, NEW t \in Seq(Cell),
         NEW b \in Nat, NEW r2 \in Nat, NEW u \in Seq(Value), b + Len(u) + r2 <= Len(m),
         \A i \in 1..Len(m) :
           (IF i \in (from + 1)..(from + Len(t)) THEN t[i - from]
            ELSE IF i \in (at + 1)..(at + Len(s)) THEN s[i - at] ELSE "raw")
             = IF i \in (b + 1)..(b + Len(u)) THEN u[i - b] ELSE "raw"
  PROVE  Laid(Vector!Write(m, from, t), b, b, r2, u)
<1> DEFINE w == Vector!Write(m, from, t)
<1>1. m \in Seq(Cell) /\ Len(m) \in Nat /\ DOMAIN m = 1..Len(m) /\ Len(t) \in Nat
  BY DEF Laid
<1>2. w = [i \in 1..Len(m) |-> IF i \in (from + 1)..(from + Len(t)) THEN t[i - from] ELSE m[i]]
  BY <1>1 DEF Vector!Write
<1>3. ASSUME NEW i \in 1..Len(m)
      PROVE  w[i] \in Cell /\ w[i] = IF i \in (b + 1)..(b + Len(u)) THEN u[i - b] ELSE "raw"
  <2>1. m[i] = IF i \in (at + 1)..(at + Len(s)) THEN s[i - at] ELSE "raw"
    BY DEF Laid
  <2>2. w[i] = IF i \in (b + 1)..(b + Len(u)) THEN u[i - b] ELSE "raw"
    BY <1>2, <2>1
  <2>3. i \in (b + 1)..(b + Len(u)) => u[i - b] \in Value
    <3>1. i \in (b + 1)..(b + Len(u)) => i - b \in 1..Len(u)
      BY <1>1
    <3> QED BY <3>1
  <2> QED BY <2>2, <2>3 DEF Cell
<1>4. w \in Seq(Cell) /\ Len(w) = Len(m)
  <2>1. w = [i \in 1..Len(m) |-> w[i]]
    BY <1>2
  <2> HIDE DEF w
  <2> QED BY <1>1, <1>3, <2>1
<1> HIDE DEF w
<1>5. Laid(w, b, b, r2, u)
  BY <1>1, <1>3, <1>4 DEF Laid
<1> QED BY <1>5 DEF w

LEMMA WroteLeft ==
  ASSUME NEW m, NEW at, NEW l, NEW r, NEW s, Laid(m, at, l, r, s),
         NEW t \in Seq(Value), Len(t) <= l
  PROVE  Laid(Vector!Write(m, at - Len(t), t), at - Len(t), l - Len(t), r, t \o s)
<1> DEFINE u == t \o s
           k == Len(t)
<1>1. /\ s \in Seq(Value) /\ at \in Nat /\ r \in Nat /\ Len(s) \in Nat /\ Len(m) \in Nat
      /\ k \in Nat /\ at - k \in Nat /\ at = l /\ at + Len(s) + r <= Len(m)
  BY DEF Laid
<1>2. u \in Seq(Value) /\ Len(u) = k + Len(s)
  BY <1>1
<1>3. ASSUME NEW i \in 1..Len(m)
      PROVE  (IF i \in (at - k + 1)..(at - k + k) THEN t[i - (at - k)]
              ELSE IF i \in (at + 1)..(at + Len(s)) THEN s[i - at] ELSE "raw")
               = IF i \in (at - k + 1)..(at - k + Len(u)) THEN u[i - (at - k)] ELSE "raw"
  <2>1. CASE i \in (at - k + 1)..at
    <3>1. i - (at - k) \in 1..k /\ i \in (at - k + 1)..(at - k + Len(u))
      BY <1>1, <1>2, <2>1
    <3>2. u[i - (at - k)] = t[i - (at - k)]
      BY <1>1, <3>1
    <3> QED BY <1>1, <2>1, <3>1, <3>2
  <2>2. CASE i \in (at + 1)..(at + Len(s))
    <3>1. i - (at - k) \in (k + 1)..(k + Len(s)) /\ i - (at - k) - k = i - at
      BY <1>1, <2>2
    <3>2. u[i - (at - k)] = s[i - at]
      BY <1>1, <3>1
    <3>3. i \in (at - k + 1)..(at - k + Len(u)) /\ i \notin (at - k + 1)..(at - k + k)
      BY <1>1, <1>2, <2>2
    <3> QED BY <2>2, <3>2, <3>3
  <2>3. CASE i \notin (at - k + 1)..at /\ i \notin (at + 1)..(at + Len(s))
    <3>1. i \notin (at - k + 1)..(at - k + Len(u)) /\ i \notin (at - k + 1)..(at - k + k)
      BY <1>1, <1>2, <2>3
    <3> QED BY <2>3, <3>1
  <2> QED BY <2>1, <2>2, <2>3
<1>4. t \in Seq(Cell) /\ l - k = at - k /\ at - k + Len(u) + r <= Len(m)
  BY <1>1, <1>2 DEF Cell
<1> HIDE DEF u
<1>5. Laid(Vector!Write(m, at - k, t), at - k, at - k, r, u)
  BY <1>1, <1>2, <1>3, <1>4, Written
<1> QED BY <1>4, <1>5 DEF u

LEMMA WroteRight ==
  ASSUME NEW m, NEW at, NEW l, NEW r, NEW s, Laid(m, at, l, r, s),
         NEW t \in Seq(Value), Len(t) <= r
  PROVE  Laid(Vector!Write(m, at + Len(s), t), at, l, r - Len(t), s \o t)
<1> DEFINE u == s \o t
           k == Len(t)
<1>1. /\ s \in Seq(Value) /\ at \in Nat /\ r \in Nat /\ Len(s) \in Nat /\ Len(m) \in Nat
      /\ k \in Nat /\ at + Len(s) \in Nat /\ at = l /\ at + Len(s) + r <= Len(m)
  BY DEF Laid
<1>2. u \in Seq(Value) /\ Len(u) = Len(s) + k
  BY <1>1
<1>3. ASSUME NEW i \in 1..Len(m)
      PROVE  (IF i \in (at + Len(s) + 1)..(at + Len(s) + k) THEN t[i - (at + Len(s))]
              ELSE IF i \in (at + 1)..(at + Len(s)) THEN s[i - at] ELSE "raw")
               = IF i \in (at + 1)..(at + Len(u)) THEN u[i - at] ELSE "raw"
  <2>1. CASE i \in (at + Len(s) + 1)..(at + Len(s) + k)
    <3>1. i - at \in (Len(s) + 1)..(Len(s) + k) /\ i - at - Len(s) = i - (at + Len(s))
      BY <1>1, <2>1
    <3>2. u[i - at] = t[i - (at + Len(s))] /\ i \in (at + 1)..(at + Len(u))
      BY <1>1, <1>2, <2>1, <3>1
    <3> QED BY <2>1, <3>2
  <2>2. CASE i \in (at + 1)..(at + Len(s))
    <3>1. i - at \in 1..Len(s) /\ i \in (at + 1)..(at + Len(u))
      BY <1>1, <1>2, <2>2
    <3>2. u[i - at] = s[i - at] /\ i \notin (at + Len(s) + 1)..(at + Len(s) + k)
      BY <1>1, <2>2, <3>1
    <3> QED BY <2>2, <3>1, <3>2
  <2>3. CASE i \notin (at + Len(s) + 1)..(at + Len(s) + k) /\ i \notin (at + 1)..(at + Len(s))
    <3>1. i \notin (at + 1)..(at + Len(u))
      BY <1>1, <1>2, <2>3
    <3> QED BY <2>3, <3>1
  <2> QED BY <2>1, <2>2, <2>3
<1>4. t \in Seq(Cell) /\ r - k \in Nat /\ at + Len(u) + (r - k) <= Len(m)
  BY <1>1, <1>2 DEF Cell
<1> HIDE DEF u
<1>5. Laid(Vector!Write(m, at + Len(s), t), at, at, r - k, u)
  BY <1>1, <1>2, <1>3, <1>4, Written
<1> QED BY <1>1, <1>5 DEF u

(* Elements that are destroyed on either side, or in the middle.           *)
LEMMA RawCells ==
  ASSUME NEW n \in Nat
  PROVE  /\ Vector!Raw(n) \in Seq(Cell) /\ Len(Vector!Raw(n)) = n
         /\ \A i \in 1..n : Vector!Raw(n)[i] = "raw"
BY DEF Vector!Raw, Cell

LEMMA CutLeft ==
  ASSUME NEW m, NEW at, NEW l, NEW r, NEW s, Laid(m, at, l, r, s), NEW k \in 0..Len(s)
  PROVE  Laid(Vector!Write(m, at, Vector!Raw(k)), at + k, l + k, r, SubSeq(s, k + 1, Len(s)))
<1> DEFINE u == SubSeq(s, k + 1, Len(s))
           t == Vector!Raw(k)
<1>1. /\ s \in Seq(Value) /\ at \in Nat /\ r \in Nat /\ Len(s) \in Nat /\ Len(m) \in Nat
      /\ k \in Nat /\ k <= Len(s) /\ at + k \in Nat /\ at = l /\ at + Len(s) + r <= Len(m)
  BY DEF Laid
<1>2. /\ u \in Seq(Value) /\ Len(u) = Len(s) - k
      /\ \A i \in 1..(Len(s) - k) : u[i] = s[k + i]
  BY <1>1
<1>3. t \in Seq(Cell) /\ Len(t) = k /\ \A i \in 1..k : t[i] = "raw"
  BY <1>1, RawCells
<1> HIDE DEF u, t
<1>4. ASSUME NEW i \in 1..Len(m)
      PROVE  (IF i \in (at + 1)..(at + k) THEN t[i - at]
              ELSE IF i \in (at + 1)..(at + Len(s)) THEN s[i - at] ELSE "raw")
               = IF i \in (at + k + 1)..(at + k + Len(u)) THEN u[i - (at + k)] ELSE "raw"
  <2>1. CASE i \in (at + 1)..(at + k)
    <3>1. i - at \in 1..k /\ i \notin (at + k + 1)..(at + k + Len(u))
      BY <1>1, <2>1
    <3> QED BY <1>3, <2>1, <3>1
  <2>2. CASE i \in (at + k + 1)..(at + Len(s))
    <3>1. /\ i - (at + k) \in 1..(Len(s) - k) /\ k + (i - (at + k)) = i - at
          /\ i \in (at + 1)..(at + Len(s)) /\ i \notin (at + 1)..(at + k)
          /\ i \in (at + k + 1)..(at + k + Len(u))
      BY <1>1, <1>2, <2>2
    <3>2. u[i - (at + k)] = s[i - at]
      BY <1>2, <3>1
    <3> QED BY <3>1, <3>2
  <2>3. CASE i \notin (at + 1)..(at + k) /\ i \notin (at + k + 1)..(at + Len(s))
    <3>1. i \notin (at + 1)..(at + Len(s)) /\ i \notin (at + k + 1)..(at + k + Len(u))
      BY <1>1, <1>2, <2>3
    <3> QED BY <2>3, <3>1
  <2> QED BY <2>1, <2>2, <2>3
<1>5. at + k + Len(u) + r <= Len(m)
  BY <1>1, <1>2
<1>6. Laid(Vector!Write(m, at, t), at + k, at + k, r, u)
  BY <1>1, <1>2, <1>3, <1>4, <1>5, Written
<1> QED BY <1>1, <1>6 DEF u, t

LEMMA CutRight ==
  ASSUME NEW m, NEW at, NEW l, NEW r, NEW s, Laid(m, at, l, r, s), NEW n \in 0..Len(s)
  PROVE  Laid(Vector!Write(m, at + n, Vector!Raw(Len(s) - n)), at, l, r + Len(s) - n, SubSeq(s, 1, n))
<1> DEFINE u == SubSeq(s, 1, n)
           k == Len(s) - n
           t == Vector!Raw(k)
<1>1. /\ s \in Seq(Value) /\ at \in Nat /\ r \in Nat /\ Len(s) \in Nat /\ Len(m) \in Nat
      /\ n \in Nat /\ n <= Len(s) /\ k \in Nat /\ n + k = Len(s) /\ at + n \in Nat
      /\ at = l /\ at + Len(s) + r <= Len(m)
  BY DEF Laid
<1>2. u \in Seq(Value) /\ Len(u) = n /\ \A i \in 1..n : u[i] = s[i]
  BY <1>1
<1>3. t \in Seq(Cell) /\ Len(t) = k /\ \A i \in 1..k : t[i] = "raw"
  BY <1>1, RawCells
<1> HIDE DEF u, t
<1>4. ASSUME NEW i \in 1..Len(m)
      PROVE  (IF i \in (at + n + 1)..(at + n + k) THEN t[i - (at + n)]
              ELSE IF i \in (at + 1)..(at + Len(s)) THEN s[i - at] ELSE "raw")
               = IF i \in (at + 1)..(at + Len(u)) THEN u[i - at] ELSE "raw"
  <2>1. CASE i \in (at + n + 1)..(at + n + k)
    <3>1. i - (at + n) \in 1..k /\ i \notin (at + 1)..(at + Len(u))
      BY <1>1, <1>2, <2>1
    <3> QED BY <1>3, <2>1, <3>1
  <2>2. CASE i \in (at + 1)..(at + n)
    <3>1. /\ i - at \in 1..n /\ i \in (at + 1)..(at + Len(s))
          /\ i \notin (at + n + 1)..(at + n + k) /\ i \in (at + 1)..(at + Len(u))
      BY <1>1, <1>2, <2>2
    <3> QED BY <1>2, <3>1
  <2>3. CASE i \notin (at + n + 1)..(at + n + k) /\ i \notin (at + 1)..(at + n)
    <3>1. i \notin (at + 1)..(at + Len(s)) /\ i \notin (at + 1)..(at + Len(u))
      BY <1>1, <1>2, <2>3
    <3> QED BY <2>3, <3>1
  <2> QED BY <2>1, <2>2, <2>3
<1>5. r + k \in Nat /\ r + k = r + Len(s) - n /\ at + Len(u) + (r + k) <= Len(m)
  BY <1>1, <1>2
<1>6. Laid(Vector!Write(m, at + n, t), at, at, r + k, u)
  BY <1>1, <1>2, <1>3, <1>4, <1>5, Written
<1> QED BY <1>1, <1>5, <1>6 DEF u, t

IsJoin(j, a, b) ==
  /\ Len(j) = Len(a) + Len(b)
  /\ \A i \in 1..Len(a) : j[i] = a[i]
  /\ \A i \in (Len(a) + 1)..(Len(a) + Len(b)) : j[i] = b[i - Len(a)]

LEMMA Joined ==
  ASSUME NEW S, NEW a \in Seq(S), NEW b \in Seq(S)
  PROVE  a \o b \in Seq(S) /\ IsJoin(a \o b, a, b)
BY DEF IsJoin

LEMMA CutWithin ==
  ASSUME NEW m, NEW at, NEW l, NEW r, NEW s, Laid(m, at, l, r, s),
         NEW offset \in 0..Len(s), NEW k \in 0..(Len(s) - offset),
         NEW kept, kept = SubSeq(s, offset + k + 1, Len(s))
  PROVE  Laid(Vector!Write(m, at + offset, kept \o Vector!Raw(k)), at, l, r,
              SubSeq(s, 1, offset) \o kept)
<1> DEFINE front == SubSeq(s, 1, offset)
           raw == Vector!Raw(k)
           t == kept \o raw
           u == front \o kept
           n == Len(s) - offset - k
<1>1. /\ s \in Seq(Value) /\ at \in Nat /\ r \in Nat /\ Len(s) \in Nat /\ Len(m) \in Nat
      /\ offset \in Nat /\ k \in Nat /\ n \in Nat /\ offset + k + n = Len(s) /\ at + offset \in Nat
      /\ at = l /\ at + Len(s) + r <= Len(m)
  BY DEF Laid
<1>2. /\ front \in Seq(Value) /\ Len(front) = offset /\ \A i \in 1..offset : front[i] = s[i]
      /\ kept \in Seq(Value) /\ Len(kept) = n /\ \A i \in 1..n : kept[i] = s[offset + k + i]
  BY <1>1
<1>3. raw \in Seq(Cell) /\ Len(raw) = k /\ \A i \in 1..k : raw[i] = "raw"
  BY <1>1, RawCells
<1> HIDE DEF front, raw, n
<1>4. kept \in Seq(Cell)
  BY <1>2 DEF Cell
<1>5. /\ t \in Seq(Cell) /\ Len(t) = n + k
      /\ (\A i \in 1..n : t[i] = kept[i]) /\ \A i \in (n + 1)..(n + k) : t[i] = raw[i - n]
  <2>1. Len(kept) = n /\ Len(raw) = k
    BY <1>2, <1>3
  <2>2. t \in Seq(Cell) /\ IsJoin(t, kept, raw)
    BY <1>3, <1>4, Joined
  <2> HIDE DEF t
  <2> QED BY <2>1, <2>2 DEF IsJoin
<1>6. /\ u \in Seq(Value) /\ Len(u) = offset + n
      /\ (\A i \in 1..offset : u[i] = front[i])
      /\ \A i \in (offset + 1)..(offset + n) : u[i] = kept[i - offset]
  <2>1. Len(kept) = n /\ Len(front) = offset
    BY <1>2
  <2>2. u \in Seq(Value) /\ IsJoin(u, front, kept)
    BY <1>2, Joined
  <2> HIDE DEF u
  <2> QED BY <2>1, <2>2 DEF IsJoin
<1> HIDE DEF t, u
<1>7. ASSUME NEW i \in 1..Len(m)
      PROVE  (IF i \in (at + offset + 1)..(at + offset + Len(t)) THEN t[i - (at + offset)]
              ELSE IF i \in (at + 1)..(at + Len(s)) THEN s[i - at] ELSE "raw")
               = IF i \in (at + 1)..(at + Len(u)) THEN u[i - at] ELSE "raw"
  <2>1. CASE i \in (at + 1)..(at + offset)
    <3>1. /\ i - at \in 1..offset /\ i \in (at + 1)..(at + Len(s)) /\ i \in (at + 1)..(at + Len(u))
          /\ i \notin (at + offset + 1)..(at + offset + Len(t))
      BY <1>1, <1>5, <1>6, <2>1
    <3>2. u[i - at] = s[i - at]
      BY <1>2, <1>6, <3>1
    <3> QED BY <3>1, <3>2
  <2>2. CASE i \in (at + offset + 1)..(at + offset + n)
    <3>1. /\ i - (at + offset) \in 1..n /\ i - at \in (offset + 1)..(offset + n)
          /\ i - at - offset = i - (at + offset)
          /\ i \in (at + 1)..(at + Len(u)) /\ i \in (at + offset + 1)..(at + offset + Len(t))
      BY <1>1, <1>5, <1>6, <2>2
    <3>2. t[i - (at + offset)] = kept[i - (at + offset)] /\ u[i - at] = kept[i - (at + offset)]
      BY <1>5, <1>6, <3>1
    <3> QED BY <3>1, <3>2
  <2>3. CASE i \in (at + offset + n + 1)..(at + offset + n + k)
    <3>1. /\ i - (at + offset) \in (n + 1)..(n + k) /\ i - (at + offset) - n \in 1..k
          /\ i \notin (at + 1)..(at + Len(u)) /\ i \in (at + offset + 1)..(at + offset + Len(t))
      BY <1>1, <1>5, <1>6, <2>3
    <3>2. t[i - (at + offset)] = "raw"
      BY <1>3, <1>5, <3>1
    <3> QED BY <3>1, <3>2
  <2>4. CASE i \notin (at + 1)..(at + Len(s))
    <3>1. i \notin (at + 1)..(at + Len(u)) /\ i \notin (at + offset + 1)..(at + offset + Len(t))
      BY <1>1, <1>5, <1>6, <2>4
    <3> QED BY <2>4, <3>1
  <2>5. \/ i \in (at + 1)..(at + offset)
        \/ i \in (at + offset + 1)..(at + offset + n)
        \/ i \in (at + offset + n + 1)..(at + offset + n + k)
        \/ i \notin (at + 1)..(at + Len(s))
    BY <1>1
  <2> QED BY <2>1, <2>2, <2>3, <2>4, <2>5
<1>8. at + Len(u) + r <= Len(m)
  <2>1. Len(u) = offset + n
    BY <1>6
  <2> QED BY <1>1, <2>1
<1>9. Laid(Vector!Write(m, at + offset, t), at, at, r, u)
  BY <1>1, <1>5, <1>6, <1>7, <1>8, Written
<1> QED BY <1>1, <1>9 DEF front, raw, t, u

(* Moved to a larger allocation, the elements lie as they lay.             *)
LEMMA Fresh ==
  ASSUME NEW room \in Nat, NEW r \in Nat, NEW s \in Seq(Value)
  PROVE  Laid(Vector!Raw(room) \o s \o Vector!Raw(r), room, room, r, s)
<1> DEFINE a == Vector!Raw(room)
           b == Vector!Raw(r)
           as == a \o s
           m == as \o b
<1>1. /\ a \in Seq(Cell) /\ Len(a) = room /\ \A i \in 1..room : a[i] = "raw"
      /\ b \in Seq(Cell) /\ Len(b) = r /\ \A i \in 1..r : b[i] = "raw"
  BY RawCells
<1>2. s \in Seq(Cell) /\ Len(s) \in Nat
  BY DEF Cell
<1> HIDE DEF a, b
<1>3. as \in Seq(Cell) /\ IsJoin(as, a, s)
  BY <1>1, <1>2, Joined
<1> HIDE DEF as
<1>4. m \in Seq(Cell) /\ IsJoin(m, as, b)
  BY <1>1, <1>3, Joined
<1> HIDE DEF m
<1>5. /\ Len(as) = room + Len(s)
      /\ (\A i \in 1..room : as[i] = a[i])
      /\ \A i \in (room + 1)..(room + Len(s)) : as[i] = s[i - room]
  BY <1>1, <1>3 DEF IsJoin
<1>6. /\ Len(m) = room + Len(s) + r
      /\ (\A i \in 1..(room + Len(s)) : m[i] = as[i])
      /\ \A i \in (room + Len(s) + 1)..(room + Len(s) + r) : m[i] = b[i - (room + Len(s))]
  BY <1>1, <1>4, <1>5 DEF IsJoin
<1>7. ASSUME NEW i \in 1..Len(m)
      PROVE  m[i] = IF i \in (room + 1)..(room + Len(s)) THEN s[i - room] ELSE "raw"
  <2>1. CASE i \in 1..room
    <3>1. i \in 1..(room + Len(s)) /\ i \notin (room + 1)..(room + Len(s))
      BY <1>2, <2>1
    <3> QED BY <1>1, <1>5, <1>6, <2>1, <3>1
  <2>2. CASE i \in (room + 1)..(room + Len(s))
    <3>1. i \in 1..(room + Len(s))
      BY <1>2, <2>2
    <3> QED BY <1>5, <1>6, <2>2, <3>1
  <2>3. CASE i \in (room + Len(s) + 1)..(room + Len(s) + r)
    <3>1. i - (room + Len(s)) \in 1..r /\ i \notin (room + 1)..(room + Len(s))
      BY <1>2, <2>3
    <3> QED BY <1>1, <1>6, <2>3, <3>1
  <2>4. i \in 1..(room + Len(s) + r)
    BY <1>6
  <2> QED BY <1>2, <2>1, <2>2, <2>3, <2>4
<1>8. Laid(m, room, room, r, s)
  BY <1>2, <1>4, <1>6, <1>7 DEF Laid
<1> QED BY <1>8 DEF m, as, a, b

LEMMA ReservedLeft ==
  ASSUME NEW s, Laid(memory, pool, left, right, s), size = Len(s), NEW c \in Nat, size <= c,
         NEW p, p = Vector!reserveLeft(c)
  PROVE  Laid(p.memory, p.pool, p.left, p.right, s) /\ c - size <= p.left
<1>1. /\ s \in Seq(Value) /\ size \in Nat /\ left \in Nat /\ right \in Nat /\ pool \in Nat
  BY DEF Laid
<1>2. CASE size + left >= c
  <2>1. p.memory = memory /\ p.pool = pool /\ p.left = left /\ p.right = right
    BY <1>2 DEF Vector!reserveLeft, Vector!Pool
  <2> QED BY <1>1, <1>2, <2>1
<1>3. CASE ~(size + left >= c)
  <2> DEFINE room == Vector!round(c) - size
  <2>1. room \in Nat /\ c - size <= room
    <3>1. Vector!round(c) \in Nat /\ c <= Vector!round(c)
      BY RoundType
    <3> QED BY <1>1, <3>1
  <2>2. Vector!Elements = s
    BY ElementsAre
  <2>3. /\ p.memory = Vector!Raw(room) \o s \o Vector!Raw(right) /\ p.pool = room
        /\ p.left = room /\ p.right = right
    BY <1>3, <2>2 DEF Vector!reserveLeft, Vector!Pool
  <2> HIDE DEF room
  <2>4. Laid(Vector!Raw(room) \o s \o Vector!Raw(right), room, room, right, s)
    BY <1>1, <2>1, Fresh
  <2> QED BY <2>1, <2>3, <2>4
<1> QED BY <1>2, <1>3

LEMMA ReservedRight ==
  ASSUME NEW s, Laid(memory, pool, left, right, s), size = Len(s), NEW c \in Nat, size <= c,
         NEW p, p = Vector!reserveRight(c)
  PROVE  Laid(p.memory, p.pool, p.left, p.right, s) /\ c - size <= p.right
<1>1. /\ s \in Seq(Value) /\ size \in Nat /\ left \in Nat /\ right \in Nat /\ pool = left
  BY DEF Laid
<1>2. CASE size + right >= c
  <2>1. p.memory = memory /\ p.pool = pool /\ p.left = left /\ p.right = right
    BY <1>2 DEF Vector!reserveRight, Vector!Pool
  <2> QED BY <1>1, <1>2, <2>1
<1>3. CASE ~(size + right >= c)
  <2> DEFINE room == Vector!round(c) - size
  <2>1. room \in Nat /\ c - size <= room
    <3>1. Vector!round(c) \in Nat /\ c <= Vector!round(c)
      BY RoundType
    <3> QED BY <1>1, <3>1
  <2>2. Vector!Elements = s
    BY ElementsAre
  <2>3. /\ p.memory = Vector!Raw(left) \o s \o Vector!Raw(room) /\ p.pool = left
        /\ p.left = left /\ p.right = room
    BY <1>3, <2>2 DEF Vector!reserveRight, Vector!Pool
  <2> HIDE DEF room
  <2>4. Laid(Vector!Raw(left) \o s \o Vector!Raw(room), left, left, room, s)
    BY <1>1, <2>1, Fresh
  <2> QED BY <2>1, <2>3, <2>4
<1> QED BY <1>2, <1>3

-------------------------------------------------------------------------------
(* The elements after a step.                                              *)
Becomes(u) == u \in Seq(Value) /\ size' = Len(u) /\ Laid(memory', pool', left', right', u)

LEMMA Prepended ==
  ASSUME NEW s, Laid(memory, pool, left, right, s), size = Len(s),
         NEW t \in Seq(Value), Vector!prepend(t)
  PROVE  Becomes(t \o s)
<1>1. s \in Seq(Value) /\ size \in Nat /\ Len(t) \in Nat
  BY DEF Laid
<1>2. PICK p : p = Vector!reserveLeft(size + Len(t))
  OBVIOUS
<1>3. Laid(p.memory, p.pool, p.left, p.right, s) /\ Len(t) <= p.left
  <2>1. Laid(p.memory, p.pool, p.left, p.right, s) /\ size + Len(t) - size <= p.left
    BY <1>1, <1>2, ReservedLeft
  <2>2. size + Len(t) - size = Len(t)
    BY <1>1
  <2> QED BY <2>1, <2>2
<1>4. Laid(Vector!Write(p.memory, p.pool - Len(t), t), p.pool - Len(t), p.left - Len(t), p.right, t \o s)
  BY <1>3, WroteLeft
<1>5. \E pool0, mem0, l0, r0 : p = [memory |-> mem0, pool |-> pool0, left |-> l0, right |-> r0]
  BY <1>2 DEF Vector!reserveLeft, Vector!Pool
<1>6. /\ memory' = Vector!Write(p.memory, p.pool - Len(t), t) /\ pool' = p.pool - Len(t)
      /\ left' = p.left - Len(t) /\ right' = p.right /\ size' = size + Len(t)
  BY <1>2, <1>5 DEF Vector!prepend, Vector!Set
<1>7. t \o s \in Seq(Value) /\ Len(t \o s) = size + Len(t)
  BY <1>1
<1> QED BY <1>4, <1>6, <1>7 DEF Becomes

LEMMA Appended ==
  ASSUME NEW s, Laid(memory, pool, left, right, s), size = Len(s),
         NEW t \in Seq(Value), Vector!append(t)
  PROVE  Becomes(s \o t)
<1>1. s \in Seq(Value) /\ size \in Nat /\ Len(t) \in Nat
  BY DEF Laid
<1>2. PICK p : p = Vector!reserveRight(size + Len(t))
  OBVIOUS
<1>3. Laid(p.memory, p.pool, p.left, p.right, s) /\ Len(t) <= p.right
  <2>1. Laid(p.memory, p.pool, p.left, p.right, s) /\ size + Len(t) - size <= p.right
    BY <1>1, <1>2, ReservedRight
  <2>2. size + Len(t) - size = Len(t)
    BY <1>1
  <2> QED BY <2>1, <2>2
<1>4. Laid(Vector!Write(p.memory, p.pool + Len(s), t), p.pool, p.left, p.right - Len(t), s \o t)
  BY <1>3, WroteRight
<1>5. \E pool0, mem0, l0, r0 : p = [memory |-> mem0, pool |-> pool0, left |-> l0, right |-> r0]
  BY <1>2 DEF Vector!reserveRight, Vector!Pool
<1>6. /\ memory' = Vector!Write(p.memory, p.pool + Len(s), t) /\ pool' = p.pool
      /\ left' = p.left /\ right' = p.right - Len(t) /\ size' = size + Len(t)
  BY <1>2, <1>5 DEF Vector!append, Vector!Set
<1>7. s \o t \in Seq(Value) /\ Len(s \o t) = size + Len(t)
  BY <1>1
<1> QED BY <1>4, <1>6, <1>7 DEF Becomes

LEMMA ResizedLeft ==
  ASSUME NEW s, Laid(memory, pool, left, right, s), size = Len(s),
         NEW n \in Nat, n < size,
         Vector!Set([memory |-> Vector!Write(memory, pool, Vector!Raw(size - n)),
                     pool |-> pool + size - n, left |-> left + size - n, right |-> right], n)
  PROVE  Becomes(SubSeq(s, size - n + 1, size))
<1>1. s \in Seq(Value) /\ size \in Nat /\ size - n \in 0..Len(s) /\ pool \in Nat /\ left \in Nat
  BY DEF Laid
<1>2. Laid(Vector!Write(memory, pool, Vector!Raw(size - n)), pool + (size - n), left + (size - n),
           right, SubSeq(s, size - n + 1, Len(s)))
  BY <1>1, CutLeft
<1>3. /\ memory' = Vector!Write(memory, pool, Vector!Raw(size - n)) /\ pool' = pool + size - n
      /\ left' = left + size - n /\ right' = right /\ size' = n
  BY DEF Vector!Set
<1>4. pool + (size - n) = pool + size - n /\ left + (size - n) = left + size - n
  BY <1>1
<1>5. /\ SubSeq(s, size - n + 1, size) \in Seq(Value)
      /\ Len(SubSeq(s, size - n + 1, size)) = n
  BY <1>1
<1> QED BY <1>2, <1>3, <1>4, <1>5 DEF Becomes

LEMMA ResizedRight ==
  ASSUME NEW s, Laid(memory, pool, left, right, s), size = Len(s),
         NEW n \in Nat, n < size,
         Vector!Set([memory |-> Vector!Write(memory, pool + n, Vector!Raw(size - n)), pool |-> pool,
                     left |-> left, right |-> right + size - n], n)
  PROVE  Becomes(SubSeq(s, 1, n))
<1>1. s \in Seq(Value) /\ size \in Nat /\ n \in 0..Len(s)
  BY DEF Laid
<1>2. Laid(Vector!Write(memory, pool + n, Vector!Raw(size - n)), pool, left, right + size - n,
           SubSeq(s, 1, n))
  BY <1>1, CutRight
<1>3. /\ memory' = Vector!Write(memory, pool + n, Vector!Raw(size - n)) /\ pool' = pool
      /\ left' = left /\ right' = right + size - n /\ size' = n
  BY DEF Vector!Set
<1>4. SubSeq(s, 1, n) \in Seq(Value) /\ Len(SubSeq(s, 1, n)) = n
  BY <1>1
<1> QED BY <1>2, <1>3, <1>4 DEF Becomes

LEMMA RemovedWithin ==
  ASSUME NEW s, Laid(memory, pool, left, right, s), size = Len(s),
         NEW offset \in Nat, NEW k \in Nat, offset + k <= size, Vector!removeWithin(offset, k)
  PROVE  Becomes(SubSeq(s, 1, offset) \o SubSeq(s, offset + k + 1, size))
<1>1. /\ s \in Seq(Value) /\ size \in Nat /\ offset \in 0..Len(s) /\ k \in 0..(Len(s) - offset)
      /\ pool \in Nat
  BY DEF Laid
<1> DEFINE kept == SubSeq(s, offset + k + 1, Len(s))
<1>2. Laid(Vector!Write(memory, pool + offset, kept \o Vector!Raw(k)), pool, left, right,
           SubSeq(s, 1, offset) \o kept)
  BY <1>1, CutWithin
<1>3. Vector!Cells(pool + offset + k, size - offset - k) = kept
  <2> DEFINE c == Vector!Cells(pool + offset + k, size - offset - k)
             n == size - offset - k
  <2>1. /\ memory \in Seq(Cell) /\ pool + size <= Len(memory) /\ Len(memory) \in Nat
        /\ n \in Nat /\ offset + k + n = size /\ right \in Nat
    BY <1>1 DEF Laid
  <2>2. c = [i \in 1..n |-> memory[pool + offset + k + i]]
    BY <1>1, <2>1 DEF Vector!Cells
  <2>3. kept = [i \in 1..n |-> s[offset + k + i]]
    BY <1>1, <2>1
  <2>4. \A i \in 1..n : memory[pool + offset + k + i] = s[offset + k + i]
    <3> TAKE i \in 1..n
    <3>1. /\ pool + offset + k + i \in 1..Len(memory)
          /\ pool + offset + k + i \in (pool + 1)..(pool + Len(s))
          /\ pool + offset + k + i - pool = offset + k + i
      BY <1>1, <2>1
    <3> QED BY <3>1 DEF Laid
  <2> QED BY <2>2, <2>3, <2>4
<1>4. /\ memory' = Vector!Write(memory, pool + offset, kept \o Vector!Raw(k)) /\ pool' = pool
      /\ left' = left /\ right' = right /\ size' = size - k
  BY <1>3 DEF Vector!removeWithin, Vector!Pool, Vector!Set
<1>5. SubSeq(s, 1, offset) \o kept \in Seq(Value) /\ Len(SubSeq(s, 1, offset) \o kept) = size - k
  <2>1. SubSeq(s, 1, offset) \in Seq(Value) /\ Len(SubSeq(s, 1, offset)) = offset
    BY <1>1
  <2>2. kept \in Seq(Value) /\ Len(kept) = size - k - offset
    BY <1>1
  <2>3. SubSeq(s, 1, offset) \o kept \in Seq(Value) /\ IsJoin(SubSeq(s, 1, offset) \o kept, SubSeq(s, 1, offset), kept)
    BY <2>1, <2>2, Joined
  <2>4. offset + (size - k - offset) = size - k
    BY <1>1
  <2> QED BY <2>1, <2>2, <2>3, <2>4 DEF IsJoin
<1> QED BY <1>2, <1>4, <1>5 DEF Becomes

-------------------------------------------------------------------------------
(* What ElementList.tla asks of the call that was made, of the elements    *)
(* before and after.                                                       *)
Follows(s, u) ==
  \/ called'.name = "prepend" /\ u = called'.values \o s
  \/ called'.name = "append" /\ u = s \o called'.values
  \/ /\ called'.name = "resizeLeft"
     /\ u = IF called'.length < Len(s) THEN SubSeq(s, Len(s) - called'.length + 1, Len(s))
            ELSE [i \in 1..(called'.length - Len(s)) |-> called'.values[1]] \o s
  \/ /\ called'.name = "resizeRight"
     /\ u = IF called'.length < Len(s) THEN SubSeq(s, 1, called'.length)
            ELSE s \o [i \in 1..(called'.length - Len(s)) |-> called'.values[1]]
  \/ /\ called'.name = "remove" /\ called'.at + called'.length <= Len(s)
     /\ u = SubSeq(s, 1, called'.at) \o SubSeq(s, called'.at + called'.length + 1, Len(s))
  \/ called'.name = "reset" /\ u = <<>>
  \/ called'.name = "operator=" /\ u = called'.values

Moves == \E s, u : /\ Laid(memory, pool, left, right, s) /\ size = Len(s)
                   /\ Becomes(u) /\ Follows(s, u)

LEMMA MovesAreAllowed ==
  ASSUME Moves
  PROVE  VectorInv' /\ Vector!List!Next
<1>1. PICK s, u : /\ Laid(memory, pool, left, right, s) /\ size = Len(s)
                  /\ Becomes(u) /\ Follows(s, u)
  BY DEF Moves
<1>2. Vector!Elements = s
  BY <1>1, ElementsAre
<1>3. Laid(memory', pool', left', right', u) /\ u \in Seq(Value) /\ size' = Len(u)
  BY <1>1 DEF Becomes
<1>4. Vector!Elements' = u
  BY <1>3, AllCells DEF Vector!Elements, Vector!Cells
<1>5. VectorInv'
  BY <1>3 DEF VectorInv
<1>6. Vector!List!Does(called')
  BY <1>1, <1>2, <1>4, Zenon
     DEF Follows, Vector!List!Does, Vector!List!PrependAll, Vector!List!AppendAll,
         Vector!List!ResizeLeft, Vector!List!ResizeRight, Vector!List!Remove, Vector!List!Assign,
         Vector!List!Fill
<1> QED BY <1>5, <1>6 DEF Vector!List!Next

-------------------------------------------------------------------------------
(* What the calls lose.                                                    *)
LEMMA WriteKeepsLength ==
  ASSUME NEW m \in Seq(Cell), NEW from \in Nat, NEW t \in Seq(Cell)
  PROVE  Len(Vector!Write(m, from, t)) = Len(m)
<1> DEFINE w == Vector!Write(m, from, t)
<1>1. Len(m) \in Nat /\ w = [i \in 1..Len(m) |-> w[i]]
  BY DEF Vector!Write
<1> HIDE DEF w
<1>2. Len(w) = Len(m)
  BY <1>1
<1> QED BY <1>2 DEF w

LEMMA GrowingLoses ==
  ASSUME NEW n \in Nat \ {0}, NEW room \in Nat, NEW cells, Len(cells) \in Nat \ {0},
         size \in Nat, size' = size + n, Len(memory) \in Nat, Len(memory') = Len(cells),
         room >= n => cells = memory,
         Vector!Grows(n, room, cells), called'.name # "operator="
  PROVE  Vector!LosesOnly
<1>1. CASE room >= n
  <2>1. /\ work'.constructed = n /\ work'.destroyed = 0 /\ work'.allocated = 0 /\ work'.freed = 0
    BY <1>1 DEF Vector!Grows, Vector!Works
  <2>2. Vector!LostCells = 0
    <3>1. Len(memory') = Len(memory)
      BY <1>1
    <3> QED BY <2>1, <3>1 DEF Vector!LostCells
  <2>3. Vector!LostElements = 0
    BY <2>1 DEF Vector!LostElements
  <2> QED BY <2>1, <2>2, <2>3 DEF Vector!LosesOnly
<1>2. CASE ~(room >= n)
  <2>1. /\ work'.constructed = size + n /\ work'.destroyed = 0
        /\ work'.allocated = Len(cells) /\ work'.freed = Len(memory)
    BY <1>2 DEF Vector!Grows, Vector!Works
  <2> QED BY <1>2, <2>1 DEF Vector!LosesOnly, Vector!LostCells, Vector!LostElements
<1> QED BY <1>1, <1>2

LEMMA PrependLoses ==
  ASSUME NEW s, Laid(memory, pool, left, right, s), size = Len(s),
         NEW t \in Seq(Value), Len(t) > 0, Vector!prepend(t), called'.name # "operator="
  PROVE  Vector!LosesOnly
<1>1. /\ s \in Seq(Value) /\ size \in Nat /\ Len(t) \in Nat \ {0} /\ left \in Nat
      /\ Len(memory) \in Nat /\ t \in Seq(Cell)
  BY DEF Laid, Cell
<1>2. PICK p : p = Vector!reserveLeft(size + Len(t))
  OBVIOUS
<1>3. Laid(p.memory, p.pool, p.left, p.right, s) /\ Len(t) <= p.left
  <2>1. Laid(p.memory, p.pool, p.left, p.right, s) /\ size + Len(t) - size <= p.left
    BY <1>1, <1>2, ReservedLeft
  <2>2. size + Len(t) - size = Len(t)
    BY <1>1
  <2> QED BY <2>1, <2>2
<1>4. \E pool0, mem0, l0, r0 : p = [memory |-> mem0, pool |-> pool0, left |-> l0, right |-> r0]
  BY <1>2 DEF Vector!reserveLeft, Vector!Pool
<1>5. /\ memory' = Vector!Write(p.memory, p.pool - Len(t), t) /\ size' = size + Len(t)
      /\ Vector!Grows(Len(t), left, p.memory)
  BY <1>2, <1>4 DEF Vector!prepend, Vector!Set
<1>6. /\ p.memory \in Seq(Cell) /\ p.pool \in Nat /\ p.left = p.pool /\ p.right \in Nat
      /\ p.pool + Len(s) + p.right <= Len(p.memory) /\ Len(p.memory) \in Nat
  BY <1>3 DEF Laid
<1>7. p.pool - Len(t) \in Nat /\ Len(p.memory) \in Nat \ {0}
  BY <1>1, <1>3, <1>6
<1>8. Len(memory') = Len(p.memory)
  BY <1>1, <1>5, <1>6, <1>7, WriteKeepsLength
<1>9. left >= Len(t) => p.memory = memory
  <2>1. left >= Len(t) => size + left >= size + Len(t)
    BY <1>1
  <2> QED BY <1>2, <2>1 DEF Vector!reserveLeft, Vector!Pool
<1> QED BY <1>1, <1>5, <1>7, <1>8, <1>9, GrowingLoses

LEMMA AppendLoses ==
  ASSUME NEW s, Laid(memory, pool, left, right, s), size = Len(s),
         NEW t \in Seq(Value), Len(t) > 0, Vector!append(t), called'.name # "operator="
  PROVE  Vector!LosesOnly
<1>1. /\ s \in Seq(Value) /\ size \in Nat /\ Len(t) \in Nat \ {0} /\ right \in Nat
      /\ Len(memory) \in Nat /\ t \in Seq(Cell)
  BY DEF Laid, Cell
<1>2. PICK p : p = Vector!reserveRight(size + Len(t))
  OBVIOUS
<1>3. Laid(p.memory, p.pool, p.left, p.right, s) /\ Len(t) <= p.right
  <2>1. Laid(p.memory, p.pool, p.left, p.right, s) /\ size + Len(t) - size <= p.right
    BY <1>1, <1>2, ReservedRight
  <2>2. size + Len(t) - size = Len(t)
    BY <1>1
  <2> QED BY <2>1, <2>2
<1>4. \E pool0, mem0, l0, r0 : p = [memory |-> mem0, pool |-> pool0, left |-> l0, right |-> r0]
  BY <1>2 DEF Vector!reserveRight, Vector!Pool
<1>5. /\ memory' = Vector!Write(p.memory, p.pool + size, t) /\ size' = size + Len(t)
      /\ Vector!Grows(Len(t), right, p.memory)
  BY <1>2, <1>4 DEF Vector!append, Vector!Set
<1>6. /\ p.memory \in Seq(Cell) /\ p.pool \in Nat /\ p.left = p.pool /\ p.right \in Nat
      /\ p.pool + Len(s) + p.right <= Len(p.memory) /\ Len(p.memory) \in Nat
  BY <1>3 DEF Laid
<1>7. p.pool + size \in Nat /\ Len(p.memory) \in Nat \ {0}
  BY <1>1, <1>3, <1>6
<1>8. Len(memory') = Len(p.memory)
  BY <1>1, <1>5, <1>6, <1>7, WriteKeepsLength
<1>9. right >= Len(t) => p.memory = memory
  <2>1. right >= Len(t) => size + right >= size + Len(t)
    BY <1>1
  <2> QED BY <1>2, <2>1 DEF Vector!reserveRight, Vector!Pool
<1> QED BY <1>1, <1>5, <1>7, <1>8, <1>9, GrowingLoses

LEMMA ShrinkingLoses ==
  ASSUME NEW k \in Nat, size \in Nat, size' = size - k,
         Len(memory) \in Nat, Len(memory') = Len(memory),
         Vector!Shrinks(k), called'.name # "operator="
  PROVE  Vector!LosesOnly
<1>1. work'.constructed = 0 /\ work'.destroyed = k /\ work'.allocated = 0 /\ work'.freed = 0
  BY DEF Vector!Shrinks, Vector!Works
<1> QED BY <1>1 DEF Vector!LosesOnly, Vector!LostCells, Vector!LostElements

-------------------------------------------------------------------------------
(* The calls, one by one.                                                  *)
LEMMA GrowsLeft ==
  ASSUME NEW s, Laid(memory, pool, left, right, s), size = Len(s),
         NEW t \in Seq(Value), Len(t) > 0, Vector!prepend(t), called'.name # "operator=",
         Follows(s, t \o s)
  PROVE  Moves /\ Vector!LosesOnly
BY Prepended, PrependLoses DEF Moves

LEMMA GrowsRight ==
  ASSUME NEW s, Laid(memory, pool, left, right, s), size = Len(s),
         NEW t \in Seq(Value), Len(t) > 0, Vector!append(t), called'.name # "operator=",
         Follows(s, s \o t)
  PROVE  Moves /\ Vector!LosesOnly
BY Appended, AppendLoses DEF Moves

LEMMA ShrinksLeft ==
  ASSUME NEW s, Laid(memory, pool, left, right, s), size = Len(s),
         NEW n \in Nat, n < size, NEW v, Vector!resizeLeft(n, v), called'.name # "operator=",
         Follows(s, SubSeq(s, size - n + 1, size))
  PROVE  Moves /\ Vector!LosesOnly
<1>1. /\ s \in Seq(Value) /\ size \in Nat /\ size - n \in Nat /\ ~(n > size) /\ n = size - (size - n)
      /\ pool \in Nat /\ memory \in Seq(Cell) /\ Len(memory) \in Nat
  BY DEF Laid
<1> DEFINE p == [memory |-> Vector!Write(memory, pool, Vector!Raw(size - n)), pool |-> pool + size - n,
                 left |-> left + size - n, right |-> right]
<1>2. Vector!Set(p, n) /\ Vector!Shrinks(size - n)
  BY <1>1 DEF Vector!resizeLeft
<1>3. Becomes(SubSeq(s, size - n + 1, size))
  BY <1>2, ResizedLeft
<1>4. Vector!LosesOnly
  <2>1. memory' = Vector!Write(memory, pool, Vector!Raw(size - n)) /\ size' = n
    BY <1>2 DEF Vector!Set
  <2>2. Len(memory') = Len(memory)
    BY <1>1, <2>1, RawCells, WriteKeepsLength
  <2> QED BY <1>1, <1>2, <2>1, <2>2, ShrinkingLoses
<1> QED BY <1>3, <1>4 DEF Moves

LEMMA ShrinksRight ==
  ASSUME NEW s, Laid(memory, pool, left, right, s), size = Len(s),
         NEW n \in Nat, n < size, NEW v, Vector!resizeRight(n, v), called'.name # "operator=",
         Follows(s, SubSeq(s, 1, n))
  PROVE  Moves /\ Vector!LosesOnly
<1>1. /\ s \in Seq(Value) /\ size \in Nat /\ size - n \in Nat /\ ~(n > size) /\ n = size - (size - n)
      /\ pool \in Nat /\ pool + n \in Nat /\ memory \in Seq(Cell) /\ Len(memory) \in Nat
  BY DEF Laid
<1> DEFINE p == [memory |-> Vector!Write(memory, pool + n, Vector!Raw(size - n)), pool |-> pool,
                 left |-> left, right |-> right + size - n]
<1>2. Vector!Set(p, n) /\ Vector!Shrinks(size - n)
  BY <1>1 DEF Vector!resizeRight
<1>3. Becomes(SubSeq(s, 1, n))
  BY <1>2, ResizedRight
<1>4. Vector!LosesOnly
  <2>1. memory' = Vector!Write(memory, pool + n, Vector!Raw(size - n)) /\ size' = n
    BY <1>2 DEF Vector!Set
  <2>2. Len(memory') = Len(memory)
    BY <1>1, <2>1, RawCells, WriteKeepsLength
  <2> QED BY <1>1, <1>2, <2>1, <2>2, ShrinkingLoses
<1> QED BY <1>3, <1>4 DEF Moves

LEMMA ShrinksWithin ==
  ASSUME NEW s, Laid(memory, pool, left, right, s), size = Len(s),
         NEW offset \in Nat, NEW k \in Nat \ {0}, offset + k <= size, Vector!removeWithin(offset, k),
         called'.name # "operator=",
         Follows(s, SubSeq(s, 1, offset) \o SubSeq(s, offset + k + 1, size))
  PROVE  Moves /\ Vector!LosesOnly
<1>1. /\ s \in Seq(Value) /\ size \in Nat /\ pool \in Nat /\ pool + offset \in Nat
      /\ memory \in Seq(Cell) /\ Len(memory) \in Nat
  BY DEF Laid
<1>2. Becomes(SubSeq(s, 1, offset) \o SubSeq(s, offset + k + 1, size))
  BY RemovedWithin
<1> DEFINE kept == Vector!Cells(pool + offset + k, size - offset - k)
<1>3. /\ memory' = Vector!Write(memory, pool + offset, kept \o Vector!Raw(k))
      /\ size' = size - k /\ Vector!Shrinks(k)
  BY DEF Vector!removeWithin, Vector!Pool, Vector!Set
<1>4. kept \o Vector!Raw(k) \in Seq(Cell)
  <2>1. kept \in Seq(Cell)
    <3>1. /\ size - offset - k \in Nat /\ pool + size <= Len(memory)
      BY <1>1 DEF Laid
    <3> QED BY <1>1, <3>1 DEF Vector!Cells
  <2> QED BY <2>1, RawCells
<1>5. Len(memory') = Len(memory)
  BY <1>1, <1>3, <1>4, WriteKeepsLength
<1>6. Vector!LosesOnly
  BY <1>1, <1>3, <1>5, ShrinkingLoses
<1> QED BY <1>2, <1>6 DEF Moves

LEMMA ResetStep ==
  ASSUME NEW s, Laid(memory, pool, left, right, s), size = Len(s), Vector!reset,
         called' = Vector!Call("reset", 0, 0, <<>>)
  PROVE  Moves /\ Vector!LosesOnly
<1>1. size \in Nat /\ Len(memory) \in Nat
  BY DEF Laid
<1>2. /\ memory' = <<>> /\ pool' = 0 /\ left' = 0 /\ right' = 0 /\ size' = 0
      /\ work'.constructed = 0 /\ work'.destroyed = size /\ work'.allocated = 0
      /\ work'.freed = Len(memory) /\ called'.name = "reset"
  BY DEF Vector!reset, Vector!Set, Vector!Works, Vector!Call
<1>3. Becomes(<<>>)
  BY <1>2 DEF Becomes, Laid
<1>4. Follows(s, <<>>)
  BY <1>2 DEF Follows
<1>5. Vector!LosesOnly
  <2>1. Len(memory') = 0
    BY <1>2
  <2> QED BY <1>1, <1>2, <2>1 DEF Vector!LosesOnly, Vector!LostCells, Vector!LostElements
<1> QED BY <1>3, <1>4, <1>5 DEF Moves

LEMMA AssignStep ==
  ASSUME NEW s, Laid(memory, pool, left, right, s), size = Len(s),
         NEW t \in Seq(Value), Vector!Assign(t), called' = Vector!Call("operator=", 0, 0, t)
  PROVE  Moves /\ Vector!LosesOnly
<1>1. size \in Nat /\ Len(memory) \in Nat /\ Len(t) \in Nat
  BY DEF Laid
<1>2. /\ memory' = t /\ pool' = 0 /\ left' = 0 /\ right' = 0 /\ size' = Len(t)
      /\ work'.constructed = Len(t) /\ work'.destroyed = 0 /\ work'.allocated = Len(t)
      /\ work'.freed = 0 /\ called'.name = "operator=" /\ called'.values = t
  BY DEF Vector!Assign, Vector!Set, Vector!Works, Vector!Call
<1>3. Laid(t, 0, 0, 0, t)
  <2>1. t \in Seq(Cell)
    BY DEF Cell
  <2>2. \A i \in 1..Len(t) : i - 0 = i /\ i \in (0 + 1)..(0 + Len(t))
    BY <1>1
  <2> QED BY <1>1, <2>1, <2>2 DEF Laid
<1>4. Becomes(t)
  BY <1>2, <1>3 DEF Becomes
<1>5. Follows(s, t)
  BY <1>2 DEF Follows
<1>6. Vector!LosesOnly
  BY <1>1, <1>2 DEF Vector!LosesOnly, Vector!LostCells, Vector!LostElements
<1> QED BY <1>4, <1>5, <1>6 DEF Moves

LEMMA ResizeStep ==
  ASSUME NEW s, Laid(memory, pool, left, right, s), size = Len(s),
         NEW n \in Nat, n # size, NEW v \in Value,
         \/ called' = Vector!Call("resizeLeft", 0, n, <<v>>) /\ Vector!resizeLeft(n, v)
         \/ called' = Vector!Call("resizeRight", 0, n, <<v>>) /\ Vector!resizeRight(n, v)
  PROVE  Moves /\ Vector!LosesOnly
<1>1. s \in Seq(Value) /\ size \in Nat
  BY DEF Laid
<1>2. /\ called'.length = n /\ called'.values = <<v>> /\ <<v>>[1] = v
      /\ called'.name # "operator="
  BY DEF Vector!Call
<1>3. CASE n < size
  <2>1. ~(n > size)
    BY <1>1, <1>3
  <2>2. CASE called' = Vector!Call("resizeLeft", 0, n, <<v>>) /\ Vector!resizeLeft(n, v)
    <3>1. called'.name = "resizeLeft"
      BY <2>2 DEF Vector!Call
    <3>2. Follows(s, SubSeq(s, size - n + 1, size))
      BY <1>2, <1>3, <3>1 DEF Follows
    <3> QED BY <1>2, <1>3, <2>2, <3>2, ShrinksLeft
  <2>3. CASE called' = Vector!Call("resizeRight", 0, n, <<v>>) /\ Vector!resizeRight(n, v)
    <3>1. called'.name = "resizeRight"
      BY <2>3 DEF Vector!Call
    <3>2. Follows(s, SubSeq(s, 1, n))
      BY <1>2, <1>3, <3>1 DEF Follows
    <3> QED BY <1>2, <1>3, <2>3, <3>2, ShrinksRight
  <2> QED BY <2>2, <2>3
<1>4. CASE ~(n < size)
  <2> DEFINE t == [i \in 1..(n - size) |-> v]
  <2>1. n > size /\ n - size \in Nat \ {0}
    BY <1>1, <1>4
  <2>2. t \in Seq(Value) /\ Len(t) > 0
    <3>1. PICK k \in Nat \ {0} : k = n - size
      BY <2>1
    <3>2. [i \in 1..k |-> v] \in Seq(Value) /\ Len([i \in 1..k |-> v]) = k
      OBVIOUS
    <3> QED BY <3>1, <3>2
  <2>3. CASE called' = Vector!Call("resizeLeft", 0, n, <<v>>) /\ Vector!resizeLeft(n, v)
    <3>1. called'.name = "resizeLeft"
      BY <2>3 DEF Vector!Call
    <3>2. Vector!prepend(t)
      BY <1>4, <2>3 DEF Vector!resizeLeft
    <3>3. Follows(s, t \o s)
      BY <1>2, <1>4, <3>1 DEF Follows
    <3> HIDE DEF t
    <3> QED BY <1>2, <2>2, <3>2, <3>3, GrowsLeft
  <2>4. CASE called' = Vector!Call("resizeRight", 0, n, <<v>>) /\ Vector!resizeRight(n, v)
    <3>1. called'.name = "resizeRight"
      BY <2>4 DEF Vector!Call
    <3>2. Vector!append(t)
      BY <1>4, <2>4 DEF Vector!resizeRight
    <3>3. Follows(s, s \o t)
      BY <1>2, <1>4, <3>1 DEF Follows
    <3> HIDE DEF t
    <3> QED BY <1>2, <2>2, <3>2, <3>3, GrowsRight
  <2> QED BY <2>3, <2>4
<1> QED BY <1>3, <1>4

LEMMA NothingJoined ==
  ASSUME NEW s \in Seq(Value)
  PROVE  /\ SubSeq(s, 1, 0) = <<>> /\ SubSeq(s, Len(s) + 1, Len(s)) = <<>>
         /\ \A k \in 0..Len(s) : <<>> \o SubSeq(s, k + 1, Len(s)) = SubSeq(s, k + 1, Len(s))
         /\ \A n \in 0..Len(s) : SubSeq(s, 1, n) \o <<>> = SubSeq(s, 1, n)
<1>1. Len(s) \in Nat /\ SubSeq(s, 1, 0) = <<>> /\ SubSeq(s, Len(s) + 1, Len(s)) = <<>>
  OBVIOUS
<1>2. \A k \in 0..Len(s) : SubSeq(s, k + 1, Len(s)) \in Seq(Value)
  OBVIOUS
<1>3. \A n \in 0..Len(s) : SubSeq(s, 1, n) \in Seq(Value)
  OBVIOUS
<1>4. \A x \in Seq(Value) : <<>> \o x = x /\ x \o <<>> = x
  OBVIOUS
<1> QED BY <1>1, <1>2, <1>3, <1>4

LEMMA RemoveStep ==
  ASSUME NEW s, Laid(memory, pool, left, right, s), size = Len(s),
         NEW offset \in Nat, NEW k \in Nat \ {0}, offset + k <= size, NEW v \in Value,
         Vector!remove(offset, k, v), called' = Vector!Call("remove", offset, k, <<>>)
  PROVE  Moves /\ Vector!LosesOnly
<1>1. s \in Seq(Value) /\ Len(s) \in Nat /\ size - k \in Nat /\ size - k < size
  BY DEF Laid
<1> DEFINE u == SubSeq(s, 1, offset) \o SubSeq(s, offset + k + 1, size)
<1>2. called'.name # "operator=" /\ Follows(s, u)
  <2>1. called'.name = "remove" /\ called'.at = offset /\ called'.length = k
    BY DEF Vector!Call
  <2>2. called'.name # "operator="
    BY <2>1
  <2> QED BY <2>1, <2>2 DEF Follows
<1>3. CASE offset = 0 /\ Vector!removeLeft(k, v)
  <2>1. u = SubSeq(s, size - (size - k) + 1, size)
    <3>1. size - (size - k) = k /\ 0 + k + 1 = k + 1 /\ k \in 0..Len(s)
      BY <1>1
    <3> QED BY <1>1, <1>3, <3>1, NothingJoined
  <2>2. Vector!resizeLeft(size - k, v)
    BY <1>3 DEF Vector!removeLeft
  <2> HIDE DEF u
  <2> QED BY <1>1, <1>2, <2>1, <2>2, ShrinksLeft
<1>4. CASE offset = size - 1 /\ Vector!removeRight(k, v)
  <2>1. u = SubSeq(s, 1, size - k)
    <3>1. k = 1 /\ size - k \in 0..Len(s) /\ offset = size - k /\ offset + k + 1 = Len(s) + 1
      BY <1>1, <1>4
    <3> QED BY <1>1, <3>1, NothingJoined
  <2>2. Vector!resizeRight(size - k, v)
    BY <1>4 DEF Vector!removeRight
  <2> HIDE DEF u
  <2> QED BY <1>1, <1>2, <2>1, <2>2, ShrinksRight
<1>5. CASE Vector!removeWithin(offset, k)
  BY <1>2, <1>5, ShrinksWithin
<1> QED BY <1>3, <1>4, <1>5 DEF Vector!remove

LEMMA AddStep ==
  ASSUME NEW s, Laid(memory, pool, left, right, s), size = Len(s),
         NEW t \in Seq(Value), Len(t) > 0,
         \/ called' = Vector!Call("prepend", 0, 0, t) /\ Vector!prepend(t)
         \/ called' = Vector!Call("append", 0, 0, t) /\ Vector!append(t)
  PROVE  Moves /\ Vector!LosesOnly
<1>1. CASE called' = Vector!Call("prepend", 0, 0, t) /\ Vector!prepend(t)
  <2>1. called'.name = "prepend" /\ called'.values = t
    BY <1>1 DEF Vector!Call
  <2>2. Follows(s, t \o s) /\ called'.name # "operator="
    BY <2>1 DEF Follows
  <2> QED BY <1>1, <2>2, GrowsLeft
<1>2. CASE called' = Vector!Call("append", 0, 0, t) /\ Vector!append(t)
  <2>1. called'.name = "append" /\ called'.values = t
    BY <1>2 DEF Vector!Call
  <2>2. Follows(s, s \o t) /\ called'.name # "operator="
    BY <2>1 DEF Follows
  <2> QED BY <1>2, <2>2, GrowsRight
<1> QED BY <1>1, <1>2

LEMMA VectorStep ==
  ASSUME ContainersAssumption, VectorInv, Vector!Next
  PROVE  Moves /\ Vector!LosesOnly
<1>1. PICK s \in Seq(Value) : size = Len(s) /\ Laid(memory, pool, left, right, s)
  BY DEF VectorInv
<1> DEFINE Adds(t) == \/ called' = Vector!Call("prepend", 0, 0, t) /\ Vector!prepend(t)
                      \/ called' = Vector!Call("append", 0, 0, t) /\ Vector!append(t)
           Resizes(n, v) ==
             \/ called' = Vector!Call("resizeLeft", 0, n, <<v>>) /\ Vector!resizeLeft(n, v)
             \/ called' = Vector!Call("resizeRight", 0, n, <<v>>) /\ Vector!resizeRight(n, v)
           Removes(offset, k, v) ==
             /\ offset + k <= size /\ Vector!remove(offset, k, v)
             /\ called' = Vector!Call("remove", offset, k, <<>>)
           Assigns(t) == called' = Vector!Call("operator=", 0, 0, t) /\ Vector!Assign(t)
<1>2. PICK v \in Value :
        \/ \E t \in {<<v>>} \cup {<<v, w>> : w \in Value} : Adds(t)
        \/ \E n \in 0..MaxElements : n # size /\ Resizes(n, v)
        \/ \E offset \in 0..(size - 1), k \in 1..2 : Removes(offset, k, v)
        \/ called' = Vector!Call("reset", 0, 0, <<>>) /\ Vector!reset
        \/ \E t \in Vector!BoundedSeq(Value, 2) : Assigns(t)
  BY DEF Vector!Next, Vector!Made
<1>3. size \in Nat /\ MaxElements \in Nat
  BY <1>1 DEF ContainersAssumption, Vector!PoolAssumption
<1>4. CASE \E t \in {<<v>>} \cup {<<v, w>> : w \in Value} : Adds(t)
  <2>1. PICK t \in {<<v>>} \cup {<<v, w>> : w \in Value} : Adds(t)
    BY <1>4
  <2>2. t = <<v>> \/ \E w \in Value : t = <<v, w>>
    OBVIOUS
  <2>3. t \in Seq(Value) /\ Len(t) > 0
    <3>1. CASE t = <<v>>
      BY <3>1
    <3>2. CASE \E w \in Value : t = <<v, w>>
      <4>1. PICK w \in Value : t = <<v, w>>
        BY <3>2
      <4> QED BY <4>1
    <3> QED BY <2>2, <3>1, <3>2
  <2> QED BY <1>1, <2>1, <2>3, AddStep
<1>5. CASE \E n \in 0..MaxElements : n # size /\ Resizes(n, v)
  <2>1. PICK n \in 0..MaxElements : n # size /\ Resizes(n, v)
    BY <1>5
  <2>2. n \in Nat
    BY <1>3
  <2> QED BY <1>1, <2>1, <2>2, ResizeStep
<1>6. CASE \E offset \in 0..(size - 1), k \in 1..2 : Removes(offset, k, v)
  <2>1. PICK offset \in 0..(size - 1), k \in 1..2 : Removes(offset, k, v)
    BY <1>6
  <2>2. offset \in Nat /\ k \in Nat \ {0}
    BY <1>3
  <2> QED BY <1>1, <2>1, <2>2, RemoveStep
<1>7. CASE called' = Vector!Call("reset", 0, 0, <<>>) /\ Vector!reset
  BY <1>1, <1>7, ResetStep
<1>8. CASE \E t \in Vector!BoundedSeq(Value, 2) : Assigns(t)
  <2>1. PICK t \in Vector!BoundedSeq(Value, 2) : Assigns(t)
    BY <1>8
  <2>2. t \in UNION {[1..m -> Value] : m \in 0..2}
    BY DEF Vector!BoundedSeq, Vector!SeqOf
  <2>3. t \in Seq(Value)
    <3>1. PICK m \in 0..2 : t \in [1..m -> Value]
      BY <2>2
    <3> QED BY <3>1
  <2> QED BY <1>1, <2>1, <2>3, AssignStep
<1> QED BY <1>2, <1>4, <1>5, <1>6, <1>7, <1>8

-------------------------------------------------------------------------------
(* A step of the whole is, for each part, a step of the part or none.      *)
LEMMA VectorPart ==
  ASSUME [Next]_vars
  PROVE  UNCHANGED vectorVars \/ (scenario = "vector" /\ Vector!Next)
BY DEF Next, VectorNext, TextsNext, HashedNext, vars

LEMMA VectorStarts ==
  ASSUME Init
  PROVE  VectorInv /\ Vector!List!Init
<1>1. memory = <<>> /\ pool = 0 /\ size = 0 /\ left = 0 /\ right = 0
  BY DEF Init, Vector!Init
<1>2. <<>> \in Seq(Value) /\ Len(<<>>) = 0
  OBVIOUS
<1>3. Laid(memory, pool, left, right, <<>>)
  BY <1>1 DEF Laid
<1>4. Vector!Elements = <<>>
  BY <1>1, <1>2, <1>3, ElementsAre
<1> QED BY <1>1, <1>2, <1>3, <1>4 DEF VectorInv, Vector!List!Init

LEMMA VectorInvariant ==
  ASSUME ContainersAssumption, VectorInv, [Next]_vars
  PROVE  VectorInv'
<1>1. CASE UNCHANGED vectorVars
  BY <1>1 DEF VectorInv, Laid, vectorVars
<1>2. CASE scenario = "vector" /\ Vector!Next
  BY <1>2, VectorStep, MovesAreAllowed
<1> QED BY <1>1, <1>2, VectorPart

LEMMA VectorFollows ==
  ASSUME ContainersAssumption, VectorInv, [Next]_vars
  PROVE  /\ scenario = "vector" => [Vector!List!Next]_<<Vector!Elements, called>>
         /\ scenario = "vector" => [Vector!LosesOnly]_vectorVars
<1>1. CASE UNCHANGED vectorVars
  BY <1>1 DEF Vector!Elements, Vector!Cells, vectorVars
<1>2. CASE Vector!Next
  BY <1>2, VectorStep, MovesAreAllowed
<1> QED BY <1>1, <1>2, VectorPart

LEMMA VectorMeans ==
  ASSUME ContainersAssumption, VectorInv
  PROVE  Vector!ConstructedExactly /\ Vector!StaysInAllocation
<1>1. PICK s \in Seq(Value) : size = Len(s) /\ Laid(memory, pool, left, right, s)
  BY DEF VectorInv
<1>2. /\ memory \in Seq(Cell) /\ pool \in Nat /\ Len(s) \in Nat /\ right \in Nat
      /\ DOMAIN memory = 1..Len(memory) /\ Len(memory) \in Nat /\ pool = left
      /\ pool + size + right <= Len(memory)
  BY <1>1 DEF Laid
<1>3. "raw" \notin Value
  BY DEF ContainersAssumption, Vector!PoolAssumption
<1>4. ASSUME NEW i \in 1..Len(memory)
      PROVE  memory[i] # "raw" <=> i \in (pool + 1)..(pool + size)
  <2>1. CASE i \in (pool + 1)..(pool + size)
    <3>1. i - pool \in 1..Len(s) /\ memory[i] = s[i - pool]
      BY <1>1, <1>2, <2>1 DEF Laid
    <3>2. s[i - pool] \in Value
      BY <3>1
    <3> QED BY <1>3, <2>1, <3>1, <3>2
  <2>2. CASE i \notin (pool + 1)..(pool + size)
    BY <1>1, <2>2 DEF Laid
  <2> QED BY <2>1, <2>2
<1> QED BY <1>2, <1>4 DEF Vector!ConstructedExactly, Vector!StaysInAllocation

(* nall's vector (modify.hpp, memory.hpp, assign.hpp): whatever is called, *)
(* in whatever order, exactly the cells of its elements are constructed in *)
(* the allocation it owns, they and the room it believes to have are       *)
(* within it, and nothing is lost but the allocation that operator=        *)
(* replaces, with its elements, and the elements that a larger allocation  *)
(* was filled from.                                                        *)
THEOREM CellsAreConstructed == Spec => ConstructedExactly
<1>1. Init => VectorInv
  BY VectorStarts
<1>2. VectorInv /\ [Next]_vars => VectorInv'
  BY ContainersAssumption, VectorInvariant
<1>3. VectorInv => Vector!ConstructedExactly /\ Vector!StaysInAllocation
  BY ContainersAssumption, VectorMeans
<1>4. VectorInv /\ [Next]_vars => (scenario = "vector" => [Vector!LosesOnly]_vectorVars)
  BY ContainersAssumption, VectorFollows
<1> QED BY <1>1, <1>2, <1>3, <1>4, PTL DEF Spec, ConstructedExactly

(* A vector is a sequence: after each call its elements are those that the *)
(* same call, with the same arguments, makes of a plain sequence, though   *)
(* they move between allocations and within one.                           *)
THEOREM VectorIsAList == Spec => ImplementsList
<1>1. Init => VectorInv /\ Vector!List!Init
  BY VectorStarts
<1>2. VectorInv /\ [Next]_vars => VectorInv'
  BY ContainersAssumption, VectorInvariant
<1>3. VectorInv /\ [Next]_vars => (scenario = "vector" => [Vector!List!Next]_<<Vector!Elements, called>>)
  BY ContainersAssumption, VectorFollows
<1> QED BY <1>1, <1>2, <1>3, PTL DEF Spec, ImplementsList

-------------------------------------------------------------------------------
(* The memory of strings: what each has of the rest does not depend on     *)
(* where its data lies.                                                    *)
Char == Characters \cup {"zero", "junk"}

StringSet == [text : Seq(Char), block : Blocks \cup {NoBlock}, capacity : Nat, size : Nat]
BlockSet  == [data : Seq(Char), refs : Nat]
MemorySet == [string : [Variables -> StringSet], block : [Blocks -> BlockSet]]

DataOf(m, s) ==
  IF Texts!Short(m, s) THEN m.string[s].text ELSE m.block[m.string[s].block].data
TextOf(m, s) == SubSeq(DataOf(m, s), 1, m.string[s].size)

Sharers(m, b) == {s \in Variables : ~Texts!Short(m, s) /\ m.string[s].block = b}

Fits(m, s) ==
  /\ m.string[s].size <= m.string[s].capacity
  /\ Len(DataOf(m, s)) = m.string[s].capacity + 1
  /\ IF Texts!Short(m, s) THEN m.string[s].capacity = SSO - 1 ELSE m.string[s].block \in Blocks

Counted(m) == \A b \in Blocks : m.block[b].refs = Cardinality(Sharers(m, b))

Sound(m) == m \in MemorySet /\ (\A s \in Variables : Fits(m, s)) /\ Counted(m)

Ended(m, s) == DataOf(m, s)[m.string[s].size + 1] = "zero"

TextsInv == Sound(Texts!Memory) /\ \A s \in Variables : Ended(Texts!Memory, s)

LEMMA AllocatorFacts ==
  ASSUME ContainersAssumption
  PROVE  /\ SSO \in Nat \ {0} /\ MaxText \in Nat /\ NoBlock \notin Blocks
         /\ IsFiniteSet(Variables) /\ IsFiniteSet(Blocks)
         /\ Cardinality(Variables) <= Cardinality(Blocks)
<1>1. \A S : Texts!Cardinality(S) = Cardinality(S)
  BY DEF Texts!Cardinality, Cardinality
<1>2. \A S : Texts!IsFiniteSet(S) = IsFiniteSet(S)
  BY DEF Texts!IsFiniteSet, IsFiniteSet
<1> QED BY <1>1, <1>2 DEF ContainersAssumption, Texts!AllocatorAssumption

LEMMA RoundedType ==
  ASSUME NEW n \in Nat
  PROVE  Texts!Rounded(n) \in Nat /\ n <= Texts!Rounded(n)
<1> DEFINE P == {2 ^ e : e \in 0..(n + 1)}
           Q(p) == n + 1 <= p /\ (p = 1 \/ p \div 2 < n + 1)
<1>1. n + 1 \in Nat \ {0}
  OBVIOUS
<1>2. (\E p \in P : Q(p)) /\ \A p \in P : p \in Nat
  BY <1>1, RoundUp
<1>3. Texts!Rounded(n) = (CHOOSE p \in P : Q(p)) - 1
  BY DEF Texts!Rounded
<1> HIDE DEF P
<1>4. PICK p \in P : p = (CHOOSE x \in P : Q(x)) /\ Q(p)
  BY <1>2
<1>5. p \in Nat /\ n + 1 <= p /\ Texts!Rounded(n) = p - 1
  BY <1>2, <1>3, <1>4
<1> QED BY <1>5

LEMMA FilledIs ==
  ASSUME NEW data \in Seq(Char), NEW n \in Nat
  PROVE  /\ Texts!Filled(data, n) \in Seq(Char) /\ Len(Texts!Filled(data, n)) = n
         /\ \A i \in 1..n : i <= Len(data) => Texts!Filled(data, n)[i] = data[i]
<1> DEFINE room == Texts!Room(n)
           j == data \o room
<1>1. room \in Seq(Char) /\ Len(room) = n
  BY DEF Texts!Room, Texts!Junk, Char
<1> HIDE DEF room
<1>2. j \in Seq(Char) /\ IsJoin(j, data, room)
  BY <1>1, Joined
<1>3. Texts!Filled(data, n) = SubSeq(j, 1, n)
  BY DEF Texts!Filled, room
<1> HIDE DEF j
<1>4. /\ Len(data) \in Nat /\ Len(j) = Len(data) + n
      /\ \A i \in 1..Len(data) : j[i] = data[i]
  BY <1>1, <1>2 DEF IsJoin
<1>5. SubSeq(j, 1, n) = [i \in 1..n |-> j[i]]
  BY <1>2, <1>4
<1>6. \A i \in 1..n : j[i] \in Char
  BY <1>2, <1>4
<1> QED BY <1>3, <1>4, <1>5, <1>6

(* A change of one variable and of the blocks keeps the counts if each     *)
(* block forgets it and learns of it.                                      *)
Here(m, s, b) == IF ~Texts!Short(m, s) /\ m.string[s].block = b THEN 1 ELSE 0

LEMMA Recount ==
  ASSUME ContainersAssumption, NEW m, NEW m2, NEW s \in Variables, Counted(m),
         \A t \in Variables \ {s} : m2.string[t] = m.string[t],
         \A b \in Blocks : m2.block[b].refs = m.block[b].refs - Here(m, s, b) + Here(m2, s, b)
  PROVE  Counted(m2)
<1> SUFFICES ASSUME NEW b \in Blocks PROVE m2.block[b].refs = Cardinality(Sharers(m2, b))
  BY DEF Counted
<1> DEFINE others == Sharers(m, b) \ {s}
<1>1. IsFiniteSet(Sharers(m, b))
  BY AllocatorFacts, FS_Subset DEF Sharers
<1>2. /\ IsFiniteSet(others) /\ Cardinality(others) \in Nat
      /\ Cardinality(others) = m.block[b].refs - Here(m, s, b)
  <2>1. /\ IsFiniteSet(others)
        /\ Cardinality(others) =
             IF s \in Sharers(m, b) THEN Cardinality(Sharers(m, b)) - 1 ELSE Cardinality(Sharers(m, b))
    BY <1>1, FS_RemoveElement
  <2>2. m.block[b].refs = Cardinality(Sharers(m, b)) /\ Cardinality(Sharers(m, b)) \in Nat
    BY <1>1, FS_CardinalityType DEF Counted
  <2>3. Here(m, s, b) = IF s \in Sharers(m, b) THEN 1 ELSE 0
    BY DEF Here, Sharers
  <2> HIDE DEF others
  <2>4. Cardinality(others) \in Nat
    BY <2>1, FS_CardinalityType
  <2> QED BY <2>1, <2>2, <2>3, <2>4
<1>3. others = Sharers(m2, b) \ {s}
  BY DEF Sharers, Texts!Short
<1>4. Sharers(m2, b) = IF s \in Sharers(m2, b) THEN others \cup {s} ELSE others
  BY <1>3
<1>5. Here(m2, s, b) = IF s \in Sharers(m2, b) THEN 1 ELSE 0
  BY DEF Here, Sharers
<1>6. s \notin others
  OBVIOUS
<1> HIDE DEF others
<1>7. Cardinality(others \cup {s}) = Cardinality(others) + 1
  BY <1>2, <1>6, FS_AddElement
<1>8. m2.block[b].refs = Cardinality(others) + Here(m2, s, b)
  BY <1>2
<1>9. CASE s \in Sharers(m2, b)
  <2>1. Sharers(m2, b) = others \cup {s} /\ Here(m2, s, b) = 1
    BY <1>4, <1>5, <1>9
  <2> QED BY <1>7, <1>8, <2>1
<1>10. CASE s \notin Sharers(m2, b)
  <2>1. Sharers(m2, b) = others /\ Here(m2, s, b) = 0
    BY <1>4, <1>5, <1>10
  <2> QED BY <1>2, <1>8, <2>1
<1> QED BY <1>9, <1>10

(* There is a free block where one is asked for: each block in use is used *)
(* by a variable other than the one that asks.                             *)
LEMMA FreshIs ==
  ASSUME ContainersAssumption, NEW m, Sound(m), NEW s \in Variables,
         Texts!Short(m, s) \/ Texts!Shared(m, s)
  PROVE  Texts!Fresh(m) \in Blocks /\ m.block[Texts!Fresh(m)].refs = 0
<1> SUFFICES ASSUME \A b \in Blocks : m.block[b].refs # 0 PROVE FALSE
  BY DEF Texts!Fresh
<1>1. ASSUME NEW b \in Blocks PROVE \E t \in Variables \ {s} : t \in Sharers(m, b)
  <2>1. IsFiniteSet(Sharers(m, b)) /\ Cardinality(Sharers(m, b)) = m.block[b].refs
    BY AllocatorFacts, FS_Subset DEF Sharers, Sound, Counted
  <2>2. CASE s \notin Sharers(m, b)
    <3>1. Sharers(m, b) # {}
      BY <2>1, FS_EmptySet
    <3> QED BY <2>2, <3>1 DEF Sharers
  <2>3. CASE s \in Sharers(m, b)
    <3>1. m.block[b].refs > 1
      BY <2>3 DEF Sharers, Texts!Shared
    <3>2. Sharers(m, b) # {s}
      <4>1. Cardinality({s}) = 1
        BY FS_Singleton
      <4> QED BY <2>1, <3>1, <4>1
    <3> QED BY <2>3, <3>2 DEF Sharers
  <2> QED BY <2>2, <2>3
<1> DEFINE f == [b \in Blocks |-> CHOOSE t \in Variables \ {s} : t \in Sharers(m, b)]
<1>2. \A b \in Blocks : f[b] \in Variables \ {s} /\ f[b] \in Sharers(m, b)
  BY <1>1
<1>3. f \in [Blocks -> Variables \ {s}]
  BY <1>2
<1> HIDE DEF f
<1>4. \A b, c \in Blocks : f[b] = f[c] => b = c
  BY <1>2 DEF Sharers
<1>5. f \in Injection(Blocks, Variables \ {s})
  BY <1>3, <1>4 DEF Injection, IsInjective
<1>6. /\ IsFiniteSet(Variables \ {s}) /\ Cardinality(Variables \ {s}) = Cardinality(Variables) - 1
      /\ Cardinality(Variables) \in Nat /\ Cardinality(Blocks) \in Nat
      /\ Cardinality(Variables) <= Cardinality(Blocks)
  BY AllocatorFacts, FS_RemoveElement, FS_CardinalityType
<1>7. Cardinality(Blocks) <= Cardinality(Variables \ {s})
  BY <1>5, <1>6, FS_Injection
<1> QED BY <1>6, <1>7

(* What a step leaves of a memory: the other variables have their own,     *)
(* the one it works on has its text up to n.                               *)
Spares(m, m2, s) ==
  \A t \in Variables \ {s} : m2.string[t] = m.string[t] /\ DataOf(m2, t) = DataOf(m, t)
Keeps(m, m2, s, n) == \A i \in 1..n : DataOf(m2, s)[i] = DataOf(m, s)[i]

LEMMA SparesFits ==
  ASSUME NEW m, NEW m2, NEW s, Spares(m, m2, s), NEW t \in Variables \ {s}
  PROVE  /\ Fits(m, t) => Fits(m2, t)
         /\ Ended(m, t) => Ended(m2, t)
         /\ TextOf(m2, t) = TextOf(m, t)
BY DEF Spares, Fits, Ended, TextOf, Texts!Short

(* A memory in which s has another place.                                  *)
LEMMA Placed ==
  ASSUME NEW m \in MemorySet, NEW s \in Variables, NEW r \in StringSet
  PROVE  [m EXCEPT !.string[s] = r] \in MemorySet
BY DEF MemorySet

LEMMA Unused ==
  ASSUME ContainersAssumption, NEW m, Sound(m), NEW b \in Blocks, m.block[b].refs = 0
  PROVE  \A t \in Variables : ~Texts!Short(m, t) => m.string[t].block # b
<1>1. IsFiniteSet(Sharers(m, b)) /\ Cardinality(Sharers(m, b)) = 0
  BY AllocatorFacts, FS_Subset DEF Sharers, Sound, Counted
<1>2. Sharers(m, b) = {}
  BY <1>1, FS_EmptySet
<1> QED BY <1>2 DEF Sharers

LEMMA Unshared ==
  ASSUME ContainersAssumption, NEW m, Sound(m), NEW s \in Variables,
         ~Texts!Short(m, s), ~Texts!Shared(m, s)
  PROVE  /\ m.string[s].block \in Blocks /\ m.block[m.string[s].block].refs = 1
         /\ \A t \in Variables \ {s} :
              ~Texts!Short(m, t) => m.string[t].block # m.string[s].block
<1>1. PICK b \in Blocks : b = m.string[s].block
  BY DEF Sound, Fits
<1>2. /\ IsFiniteSet(Sharers(m, b)) /\ Cardinality(Sharers(m, b)) = m.block[b].refs
      /\ Cardinality(Sharers(m, b)) \in Nat
  BY AllocatorFacts, FS_Subset, FS_CardinalityType DEF Sharers, Sound, Counted
<1>3. s \in Sharers(m, b)
  BY <1>1 DEF Sharers
<1>4. m.block[b].refs = 1
  <2>1. Sharers(m, b) # {}
    BY <1>3
  <2>2. Cardinality(Sharers(m, b)) # 0
    BY <1>2, <2>1, FS_EmptySet
  <2>3. ~(m.block[b].refs > 1)
    BY <1>1 DEF Texts!Shared
  <2> QED BY <1>2, <2>2, <2>3
<1>5. \E x : Sharers(m, b) = {x}
  BY <1>2, <1>4, FS_Singleton
<1>6. Sharers(m, b) = {s}
  BY <1>3, <1>5
<1> QED BY <1>1, <1>4, <1>6 DEF Sharers

(* What _allocate(), _copy() and _resize() make of the memory.             *)
Rehoused(m, m2, s, b, r, d) ==
  /\ m2 \in MemorySet
  /\ \A t \in Variables \ {s} : m2.string[t] = m.string[t]
  /\ m2.string[s] = r
  /\ m2.block[b] = d
  /\ \A x \in Blocks \ {b} : m2.block[x] = m.block[x]

LEMMA Rehouses ==
  ASSUME NEW m \in MemorySet, NEW s \in Variables, NEW b \in Blocks,
         NEW r \in StringSet, NEW d \in BlockSet
  PROVE  Rehoused(m, [m EXCEPT !.block[b] = d, !.string[s] = r], s, b, r, d)
BY DEF Rehoused, MemorySet

LEMMA Edited ==
  ASSUME NEW q \in StringSet, NEW b, NEW c, NEW n
  PROVE  /\ [q EXCEPT !.block = b, !.capacity = c] =
              [text |-> q.text, block |-> b, capacity |-> c, size |-> q.size]
         /\ [q EXCEPT !.capacity = c] =
              [text |-> q.text, block |-> q.block, capacity |-> c, size |-> q.size]
         /\ [q EXCEPT !.size = n] =
              [text |-> q.text, block |-> q.block, capacity |-> q.capacity, size |-> n]
<1>1. q = [text |-> q.text, block |-> q.block, capacity |-> q.capacity, size |-> q.size]
  BY DEF StringSet
<1>2. PICK a, e, f, g : /\ q = [text |-> a, block |-> e, capacity |-> f, size |-> g]
                        /\ a = q.text /\ e = q.block /\ f = q.capacity /\ g = q.size
  BY <1>1
<1>3. [q EXCEPT !.block = b, !.capacity = c] = [text |-> a, block |-> b, capacity |-> c, size |-> g]
  <2>1. PICK x : x = [q EXCEPT !.block = b]
    OBVIOUS
  <2>2. x = [text |-> a, block |-> b, capacity |-> f, size |-> g]
    BY <1>2, <2>1
  <2>3. [q EXCEPT !.block = b, !.capacity = c] = [x EXCEPT !.capacity = c]
    BY <2>1
  <2> QED BY <2>2, <2>3
<1>4. [q EXCEPT !.capacity = c] = [text |-> a, block |-> e, capacity |-> c, size |-> g]
  BY <1>2
<1>5. [q EXCEPT !.size = n] = [text |-> a, block |-> e, capacity |-> f, size |-> n]
  BY <1>2
<1> QED BY <1>2, <1>3, <1>4, <1>5

(* A string in a block of its own, where its old block forgot it.          *)
Housed(m, m2, s, b, data, c, n) ==
  /\ m2 \in MemorySet
  /\ \A t \in Variables \ {s} : m2.string[t] = m.string[t]
  /\ m2.string[s].block = b /\ m2.string[s].capacity = c /\ m2.string[s].size = n
  /\ m2.block[b].data = data /\ m2.block[b].refs = 1
  /\ \A x \in Blocks \ {b} : /\ m2.block[x].data = m.block[x].data
                             /\ m2.block[x].refs = m.block[x].refs - Here(m, s, x)

LEMMA HousedIs ==
  ASSUME ContainersAssumption, NEW m, Sound(m), NEW s \in Variables, NEW b \in Blocks,
         m.block[b].refs = Here(m, s, b),
         \A t \in Variables \ {s} : ~Texts!Short(m, t) => m.string[t].block # b,
         NEW c \in Nat, SSO <= c, NEW n \in Nat, n <= c, NEW data, Len(data) = c + 1,
         NEW m2, Housed(m, m2, s, b, data, c, n)
  PROVE  /\ Sound(m2) /\ Spares(m, m2, s) /\ ~Texts!Shared(m2, s)
         /\ DataOf(m2, s) = data
<1>1. SSO \in Nat
  BY AllocatorFacts
<1>2. ~Texts!Short(m2, s) /\ ~Texts!Shared(m2, s)
  BY <1>1 DEF Housed, Texts!Short, Texts!Shared
<1>3. DataOf(m2, s) = data
  BY <1>2 DEF DataOf, Housed
<1>4. Spares(m, m2, s)
  <2> SUFFICES ASSUME NEW t \in Variables \ {s} PROVE DataOf(m2, t) = DataOf(m, t)
    BY DEF Spares, Housed
  <2>1. ~Texts!Short(m, t) => m.string[t].block # b /\ m.string[t].block \in Blocks
    BY DEF Sound, Fits
  <2> QED BY <2>1 DEF DataOf, Texts!Short, Housed
<1>5. Fits(m2, s)
  BY <1>2, <1>3 DEF Fits, Housed
<1>6. Counted(m2)
  <2>1. ASSUME NEW x \in Blocks PROVE m2.block[x].refs = m.block[x].refs - Here(m, s, x) + Here(m2, s, x)
    <3>1. Here(m2, s, x) = IF x = b THEN 1 ELSE 0
      BY <1>2 DEF Here, Housed
    <3>2. m.block[x].refs \in Nat /\ Here(m, s, x) \in Nat
      BY DEF Sound, MemorySet, BlockSet, Here
    <3>3. CASE x = b
      BY <3>1, <3>2, <3>3 DEF Housed
    <3>4. CASE x # b
      BY <3>1, <3>2, <3>4 DEF Housed
    <3> QED BY <3>3, <3>4
  <2> QED BY <2>1, Recount DEF Sound, Housed
<1>7. \A t \in Variables : Fits(m2, t)
  BY <1>4, <1>5, SparesFits DEF Sound
<1> QED BY <1>2, <1>3, <1>4, <1>6, <1>7 DEF Sound, Housed

(* What becomes of a memory in which s only moved.                         *)
Kept(m, m2, s) ==
  /\ Sound(m2) /\ Spares(m, m2, s)
  /\ m2.string[s].size = m.string[s].size
  /\ Keeps(m, m2, s, m.string[s].size)
  /\ Ended(m, s) => Ended(m2, s)

LEMMA KeptTwice ==
  ASSUME NEW m, NEW m1, NEW m2, NEW s, Kept(m, m1, s), Kept(m1, m2, s)
  PROVE  Kept(m, m2, s)
<1>1. Spares(m, m2, s)
  BY DEF Kept, Spares
<1>2. Keeps(m, m2, s, m.string[s].size)
  BY DEF Kept, Keeps
<1> QED BY <1>1, <1>2 DEF Kept

LEMMA FieldsOf ==
  ASSUME ContainersAssumption, NEW m, Sound(m), NEW s \in Variables
  PROVE  /\ m \in MemorySet /\ m.string[s] \in StringSet /\ SSO \in Nat
         /\ m.string[s].size \in Nat /\ m.string[s].capacity \in Nat
         /\ m.string[s].size <= m.string[s].capacity
         /\ DataOf(m, s) \in Seq(Char) /\ Len(DataOf(m, s)) = m.string[s].capacity + 1
         /\ ~Texts!Short(m, s) =>
              /\ m.string[s].block \in Blocks /\ m.block[m.string[s].block] \in BlockSet
              /\ DataOf(m, s) = m.block[m.string[s].block].data /\ SSO <= m.string[s].capacity
         /\ Texts!Short(m, s) => DataOf(m, s) = m.string[s].text /\ m.string[s].capacity = SSO - 1
<1>1. SSO \in Nat
  BY AllocatorFacts
<1>2. m \in MemorySet /\ m.string[s] \in StringSet
  BY DEF Sound, MemorySet
<1>3. m.string[s].size \in Nat /\ m.string[s].capacity \in Nat /\ m.string[s].text \in Seq(Char)
  BY <1>2 DEF StringSet
<1>4. ~Texts!Short(m, s) => m.string[s].block \in Blocks /\ m.block[m.string[s].block] \in BlockSet
  BY <1>2 DEF Sound, Fits, MemorySet
<1>5. DataOf(m, s) \in Seq(Char)
  BY <1>3, <1>4 DEF DataOf, BlockSet
<1> QED BY <1>1, <1>2, <1>3, <1>4, <1>5 DEF Sound, Fits, DataOf, Texts!Short

LEMMA AllocateIs ==
  ASSUME ContainersAssumption, NEW m, Sound(m), NEW s \in Variables, Texts!Short(m, s),
         NEW c \in Nat, SSO <= c
  PROVE  LET m2 == Texts!Allocate(m, s, c)
         IN  Kept(m, m2, s) /\ ~Texts!Shared(m2, s) /\ m2.string[s].capacity = c
<1> DEFINE m2 == Texts!Allocate(m, s, c)
           old == m.string[s].text
           n == m.string[s].size
           data == Texts!Filled(old, c + 1)
<1>1. PICK b \in Blocks : b = Texts!Fresh(m) /\ m.block[b].refs = 0
  BY FreshIs
<1>2. /\ m \in MemorySet /\ m.string[s] \in StringSet /\ SSO \in Nat /\ n \in Nat /\ n <= SSO - 1
      /\ DataOf(m, s) = old /\ old \in Seq(Char) /\ Len(old) = SSO
  BY FieldsOf
<1>3. /\ data \in Seq(Char) /\ Len(data) = c + 1
      /\ \A i \in 1..(c + 1) : i <= Len(old) => data[i] = old[i]
  <2>1. c + 1 \in Nat
    OBVIOUS
  <2> QED BY <1>2, <2>1, FilledIs
<1> DEFINE r == [text |-> old, block |-> b, capacity |-> c, size |-> n]
           d == [data |-> data, refs |-> 1]
<1>4. r \in StringSet /\ d \in BlockSet
  BY <1>2, <1>3 DEF StringSet, BlockSet
<1>5. m2 = [m EXCEPT !.block[b] = d, !.string[s] = r]
  <2>1. [m.string[s] EXCEPT !.block = b, !.capacity = c] = r
    BY <1>2, Edited
  <2> HIDE DEF data
  <2>2. m2 = [m EXCEPT !.block[b] = d, !.string[s] = [m.string[s] EXCEPT !.block = b, !.capacity = c]]
    BY <1>1 DEF Texts!Allocate, data
  <2> HIDE DEF m2, r
  <2> QED BY <2>1, <2>2
<1> HIDE DEF data, m2, r, d, old, n
<1>6. Rehoused(m, m2, s, b, r, d)
  BY <1>2, <1>4, <1>5, Rehouses
<1>7. \A x \in Blocks : Here(m, s, x) = 0 /\ m.block[x].refs \in Nat
  BY <1>2 DEF Here, MemorySet, BlockSet
<1>8. Housed(m, m2, s, b, data, c, n)
  BY <1>6, <1>7 DEF Rehoused, Housed, r, d
<1>9. Sound(m2) /\ Spares(m, m2, s) /\ ~Texts!Shared(m2, s) /\ DataOf(m2, s) = data
  <2>1. n <= c
    BY <1>2
  <2> QED BY <1>1, <1>2, <1>3, <1>7, <1>8, <2>1, Unused, HousedIs
<1>10. \A i \in 1..(n + 1) : DataOf(m2, s)[i] = DataOf(m, s)[i]
  BY <1>2, <1>3, <1>9
<1>11. m2.string[s].size = n /\ m2.string[s].capacity = c
  BY <1>8 DEF Housed
<1>12. n + 1 \in 1..(n + 1) /\ \A i \in 1..n : i \in 1..(n + 1)
  BY <1>2
<1>13. Keeps(m, m2, s, n)
  BY <1>10, <1>12 DEF Keeps
<1>14. Ended(m, s) => Ended(m2, s)
  BY <1>10, <1>11, <1>12 DEF Ended, n
<1> QED BY <1>9, <1>11, <1>13, <1>14 DEF Kept, m2, n

LEMMA LesserIs ==
  ASSUME NEW a \in Nat, NEW b \in Nat, b <= a
  PROVE  Texts!Min({a, b}) = b
BY DEF Texts!Min

LEMMA Replaced ==
  ASSUME NEW q \in StringSet, NEW b, NEW c, NEW n
  PROVE  [q EXCEPT !.block = b, !.capacity = c, !.size = n] =
           [text |-> q.text, block |-> b, capacity |-> c, size |-> n]
<1>1. PICK x : x = [q EXCEPT !.block = b, !.capacity = c]
  OBVIOUS
<1>2. x = [text |-> q.text, block |-> b, capacity |-> c, size |-> q.size]
  BY <1>1, Edited
<1>3. [q EXCEPT !.block = b, !.capacity = c, !.size = n] = [x EXCEPT !.size = n]
  BY <1>1
<1> QED BY <1>2, <1>3

LEMMA CutIs ==
  ASSUME NEW old \in Seq(Char), NEW n \in Nat, n <= Len(old)
  PROVE  LET cut == SubSeq(old, 1, n) \o <<"zero">>
         IN  /\ cut \in Seq(Char) /\ Len(cut) = n + 1 /\ cut[n + 1] = "zero"
             /\ \A i \in 1..n : cut[i] = old[i]
<1>1. Len(old) \in Nat /\ <<"zero">> \in Seq(Char)
  BY DEF Char
<1>2. /\ SubSeq(old, 1, n) \in Seq(Char) /\ Len(SubSeq(old, 1, n)) = n
      /\ \A i \in 1..n : SubSeq(old, 1, n)[i] = old[i]
  BY <1>1
<1>3. PICK q \in Seq(Char) : q = SubSeq(old, 1, n)
  BY <1>2
<1>4. PICK z \in Seq(Char) : z = <<"zero">>
  BY <1>1
<1>5. Len(q) = n /\ (\A i \in 1..n : q[i] = old[i]) /\ Len(z) = 1 /\ z[1] = "zero"
  BY <1>2, <1>3, <1>4
<1>6. PICK j : j = q \o z
  OBVIOUS
<1>7. j \in Seq(Char) /\ IsJoin(j, q, z)
  BY <1>6, Joined
<1>8. /\ Len(j) = n + 1 /\ j[n + 1] = "zero" /\ \A i \in 1..n : j[i] = old[i]
  <2>1. 1 \in 1..Len(z) /\ n + 1 = Len(q) + 1
    BY <1>5
  <2> QED BY <1>5, <1>7, <2>1 DEF IsJoin
<1> QED BY <1>3, <1>4, <1>6, <1>7, <1>8

LEMMA RefsEdited ==
  ASSUME NEW d \in BlockSet, NEW k \in Nat
  PROVE  [d EXCEPT !.refs = k] = [data |-> d.data, refs |-> k]
<1>1. PICK a, e : d = [data |-> a, refs |-> e] /\ a = d.data
  BY DEF BlockSet
<1> QED BY <1>1

LEMMA UnshareIs ==
  ASSUME ContainersAssumption, NEW m, Sound(m), NEW s \in Variables, Texts!Shared(m, s),
         NEW c \in Nat, m.string[s].capacity <= c
  PROVE  LET m2 == Texts!Unshare(m, s, c)
         IN  Kept(m, m2, s) /\ ~Texts!Shared(m2, s) /\ m2.string[s].capacity = c
<1> DEFINE m2 == Texts!Unshare(m, s, c)
           a == m.string[s].block
           old == m.block[a].data
           n == m.string[s].size
           cut == SubSeq(old, 1, n) \o <<"zero">>
           data == Texts!Filled(cut, c + 1)
<1>1. PICK b \in Blocks : b = Texts!Fresh(m) /\ m.block[b].refs = 0
  BY FreshIs
<1>2. /\ m \in MemorySet /\ m.string[s] \in StringSet /\ SSO \in Nat /\ n \in Nat /\ n <= c
      /\ SSO <= c /\ n <= m.string[s].capacity /\ m.string[s].capacity \in Nat
      /\ a \in Blocks /\ m.block[a] \in BlockSet /\ ~Texts!Short(m, s) /\ m.block[a].refs > 1
      /\ DataOf(m, s) = old /\ old \in Seq(Char) /\ Len(old) = m.string[s].capacity + 1
  BY FieldsOf DEF Texts!Shared
<1>3. /\ data \in Seq(Char) /\ Len(data) = c + 1
      /\ \A i \in 1..n : data[i] = old[i]
      /\ data[n + 1] = "zero"
  <2> HIDE DEF old, n
  <2>1. c + 1 \in Nat /\ n <= Len(old)
    BY <1>2
  <2>2. /\ cut \in Seq(Char) /\ Len(cut) = n + 1 /\ cut[n + 1] = "zero"
        /\ \A i \in 1..n : cut[i] = old[i]
    BY <1>2, <2>1, CutIs
  <2> HIDE DEF cut
  <2>3. /\ data \in Seq(Char) /\ Len(data) = c + 1
        /\ \A i \in 1..(c + 1) : i <= Len(cut) => data[i] = cut[i]
    BY <2>1, <2>2, FilledIs
  <2> HIDE DEF data
  <2>4. (\A i \in 1..n : i \in 1..(c + 1) /\ i <= n + 1) /\ n + 1 \in 1..(c + 1)
    BY <1>2
  <2> QED BY <2>2, <2>3, <2>4
<1> HIDE DEF data
<1> DEFINE r == [text |-> m.string[s].text, block |-> b, capacity |-> c, size |-> n]
           d == [data |-> data, refs |-> 1]
           m1 == [m EXCEPT !.block[a].refs = @ - 1]
<1>4. r \in StringSet /\ d \in BlockSet
  BY <1>2, <1>3 DEF StringSet, BlockSet
<1>5. m2 = [m1 EXCEPT !.block[b] = d, !.string[s] = r]
  <2>1. [m.string[s] EXCEPT !.block = b, !.capacity = c, !.size = n] = r
    BY <1>2, Replaced
  <2>2. Texts!Min({c, n}) = n
    BY <1>2, LesserIs
  <2>3. m2 = [m EXCEPT !.block[a].refs = @ - 1, !.block[b] = d,
                       !.string[s] = [m.string[s] EXCEPT !.block = b, !.capacity = c, !.size = n]]
    BY <1>1, <2>2 DEF Texts!Unshare, data, Texts!Zero
  <2> HIDE DEF m2, r, a
  <2> QED BY <2>1, <2>3
<1>6. /\ m1 \in MemorySet /\ m1.string = m.string
      /\ m1.block[a].data = old /\ m1.block[a].refs = m.block[a].refs - 1
      /\ \A x \in Blocks \ {a} : m1.block[x] = m.block[x]
  <2>1. PICK e \in BlockSet : e = [m.block[a] EXCEPT !.refs = @ - 1]
                              /\ e.data = old /\ e.refs = m.block[a].refs - 1
    <3>1. PICK x \in BlockSet : x = m.block[a]
      BY <1>2
    <3>2. x.data = old /\ x.refs - 1 \in Nat /\ old \in Seq(Char)
      BY <1>2, <3>1 DEF BlockSet
    <3> HIDE DEF a, old, m1, m2, cut, n
    <3>3. [x EXCEPT !.refs = @ - 1] = [data |-> old, refs |-> x.refs - 1]
      BY <3>2, RefsEdited
    <3> QED BY <3>1, <3>2, <3>3 DEF BlockSet
  <2>2. m1 = [m EXCEPT !.block[a] = e]
    BY <2>1
  <2> HIDE DEF m1, a, old
  <2> QED BY <1>2, <2>1, <2>2 DEF MemorySet
<1> HIDE DEF m2, r, d, m1
<1>7. Rehoused(m1, m2, s, b, r, d)
  BY <1>4, <1>5, <1>6, Rehouses
<1>8. Here(m, s, b) = 0 /\ a # b
  BY <1>1, <1>2 DEF Here
<1>9. \A x \in Blocks : Here(m, s, x) = (IF x = a THEN 1 ELSE 0) /\ m.block[x].refs \in Nat
  BY <1>2 DEF Here, MemorySet, BlockSet
<1>10. Housed(m, m2, s, b, data, c, n)
  <2> HIDE DEF a, old, n
  <2> QED BY <1>2, <1>6, <1>7, <1>9 DEF Rehoused, Housed, r, d, old
<1>11. Sound(m2) /\ Spares(m, m2, s) /\ ~Texts!Shared(m2, s) /\ DataOf(m2, s) = data
  <2> HIDE DEF a, old, n
  <2> QED BY <1>1, <1>2, <1>3, <1>8, <1>10, Unused, HousedIs
<1>12. m2.string[s].size = n /\ m2.string[s].capacity = c
  BY <1>10 DEF Housed
<1> HIDE DEF a, old
<1> QED BY <1>2, <1>3, <1>11, <1>12 DEF Kept, Keeps, Ended, m2

LEMMA ResizedIs ==
  ASSUME ContainersAssumption, NEW m, Sound(m), NEW s \in Variables,
         ~Texts!Short(m, s), ~Texts!Shared(m, s),
         NEW c \in Nat, m.string[s].capacity <= c
  PROVE  LET m2 == Texts!Resized(m, s, c)
         IN  Kept(m, m2, s) /\ ~Texts!Shared(m2, s) /\ m2.string[s].capacity = c
<1> DEFINE m2 == Texts!Resized(m, s, c)
           b == m.string[s].block
           old == m.block[b].data
           n == m.string[s].size
           data == Texts!Filled(old, c + 1)
<1>2. /\ m \in MemorySet /\ m.string[s] \in StringSet /\ SSO \in Nat /\ n \in Nat /\ n <= c
      /\ SSO <= c /\ n <= m.string[s].capacity /\ m.string[s].capacity \in Nat
      /\ b \in Blocks /\ m.block[b] \in BlockSet
      /\ DataOf(m, s) = old /\ old \in Seq(Char) /\ Len(old) = m.string[s].capacity + 1
  BY FieldsOf
<1>3. /\ data \in Seq(Char) /\ Len(data) = c + 1
      /\ \A i \in 1..(c + 1) : i <= Len(old) => data[i] = old[i]
  <2>1. c + 1 \in Nat
    OBVIOUS
  <2> QED BY <1>2, <2>1, FilledIs
<1> HIDE DEF data
<1> DEFINE r == [text |-> m.string[s].text, block |-> b, capacity |-> c, size |-> n]
           d == [data |-> data, refs |-> 1]
<1>4. r \in StringSet /\ d \in BlockSet
  BY <1>2, <1>3 DEF StringSet, BlockSet
<1>5. m2 = [m EXCEPT !.block[b] = d, !.string[s] = r]
  <2>1. [m.string[s] EXCEPT !.capacity = c] = r
    BY <1>2, Edited
  <2>3. m2 = [m EXCEPT !.block[b] = d, !.string[s] = [m.string[s] EXCEPT !.capacity = c]]
    BY DEF Texts!Resized, data
  <2> HIDE DEF m2, r, b
  <2> QED BY <2>1, <2>3
<1> HIDE DEF m2, r, d
<1>6. Rehoused(m, m2, s, b, r, d)
  BY <1>2, <1>4, <1>5, Rehouses
<1>7. /\ m.block[b].refs = 1
      /\ \A t \in Variables \ {s} : ~Texts!Short(m, t) => m.string[t].block # b
  BY Unshared
<1>8. \A x \in Blocks : Here(m, s, x) = (IF x = b THEN 1 ELSE 0) /\ m.block[x].refs \in Nat
  BY <1>2 DEF Here, MemorySet, BlockSet
<1>9. Housed(m, m2, s, b, data, c, n)
  <2> HIDE DEF b, old, n
  <2> QED BY <1>2, <1>6, <1>8 DEF Rehoused, Housed, r, d
<1>10. Sound(m2) /\ Spares(m, m2, s) /\ ~Texts!Shared(m2, s) /\ DataOf(m2, s) = data
  <2>1. m.block[b].refs = Here(m, s, b)
    BY <1>2, <1>7, <1>8
  <2>2. PICK x \in Blocks : x = b
    BY <1>2
  <2>3. Housed(m, m2, s, x, data, c, n) /\ m.block[x].refs = Here(m, s, x)
        /\ \A t \in Variables \ {s} : ~Texts!Short(m, t) => m.string[t].block # x
    BY <1>7, <1>9, <2>1, <2>2
  <2>4. SSO <= c /\ n \in Nat /\ n <= c /\ Len(data) = c + 1
    BY <1>2, <1>3
  <2> HIDE DEF b, old, n
  <2> QED BY <2>3, <2>4, HousedIs
<1>11. m2.string[s].size = n /\ m2.string[s].capacity = c
  BY <1>9 DEF Housed
<1>12. \A i \in 1..(n + 1) : DataOf(m2, s)[i] = DataOf(m, s)[i]
  <2> TAKE i \in 1..(n + 1)
  <2>1. i \in 1..(c + 1) /\ i <= Len(old)
    BY <1>2
  <2> QED BY <1>2, <1>3, <1>10, <2>1
<1>13. Kept(m, m2, s)
  <2> HIDE DEF b, old, m2
  <2>1. n + 1 \in 1..(n + 1) /\ \A i \in 1..n : i \in 1..(n + 1)
    BY <1>2
  <2>2. Keeps(m, m2, s, n)
    BY <1>12, <2>1 DEF Keeps
  <2>3. DataOf(m2, s)[n + 1] = DataOf(m, s)[n + 1]
    BY <1>12, <2>1
  <2>4. Ended(m, s) => Ended(m2, s)
    BY <1>11, <2>3 DEF Ended
  <2> QED BY <1>10, <1>11, <2>2, <2>4 DEF Kept
<1> QED BY <1>10, <1>11, <1>13 DEF m2

LEMMA ReserveIs ==
  ASSUME ContainersAssumption, NEW m, Sound(m), NEW s \in Variables, NEW n \in Nat
  PROVE  LET m2 == Texts!Reserve(m, s, n)
         IN  Kept(m, m2, s) /\ n <= m2.string[s].capacity
<1> DEFINE c == Texts!Rounded(n)
<1>1. c \in Nat /\ n <= c
  BY RoundedType
<1>2. m.string[s].capacity \in Nat /\ SSO \in Nat /\ (Texts!Short(m, s) => m.string[s].capacity = SSO - 1)
  BY FieldsOf
<1> HIDE DEF c
<1>3. CASE n <= m.string[s].capacity
  <2>1. Texts!Reserve(m, s, n) = m
    BY <1>3 DEF Texts!Reserve
  <2>2. Kept(m, m, s)
    BY DEF Kept, Spares, Keeps
  <2> QED BY <1>3, <2>1, <2>2
<1>4. CASE ~(n <= m.string[s].capacity)
  <2>1. m.string[s].capacity <= c /\ (Texts!Short(m, s) => SSO <= c)
    BY <1>1, <1>2, <1>4
  <2>2. CASE Texts!Short(m, s)
    <3>1. Texts!Reserve(m, s, n) = Texts!Allocate(m, s, c)
      BY <1>4, <2>2 DEF Texts!Reserve, c
    <3> QED BY <1>1, <2>1, <2>2, <3>1, AllocateIs
  <2>3. CASE Texts!Shared(m, s)
    <3>1. Texts!Reserve(m, s, n) = Texts!Unshare(m, s, c)
      BY <1>4, <2>3 DEF Texts!Reserve, Texts!Shared, c
    <3> QED BY <1>1, <2>1, <2>3, <3>1, UnshareIs
  <2>4. CASE ~Texts!Short(m, s) /\ ~Texts!Shared(m, s)
    <3>1. Texts!Reserve(m, s, n) = Texts!Resized(m, s, c)
      BY <1>4, <2>4 DEF Texts!Reserve, c
    <3> QED BY <1>1, <2>1, <2>4, <3>1, ResizedIs
  <2> QED BY <2>2, <2>3, <2>4
<1> QED BY <1>3, <1>4

LEMMA UniqueIs ==
  ASSUME ContainersAssumption, NEW m, Sound(m), NEW s \in Variables
  PROVE  LET m2 == Texts!Unique(m, s)
         IN  /\ Kept(m, m2, s) /\ ~Texts!Shared(m2, s)
             /\ m2.string[s].capacity = m.string[s].capacity
<1>1. m.string[s].capacity \in Nat
  BY FieldsOf
<1>2. CASE Texts!Shared(m, s)
  BY <1>1, <1>2, UnshareIs DEF Texts!Unique
<1>3. CASE ~Texts!Shared(m, s)
  <2>1. Kept(m, m, s)
    BY DEF Kept, Spares, Keeps
  <2> QED BY <1>3, <2>1 DEF Texts!Unique
<1> QED BY <1>2, <1>3

(* Another size, in what there is.                                         *)
LEMMA SizedIs ==
  ASSUME ContainersAssumption, NEW m, Sound(m), NEW s \in Variables,
         NEW n \in Nat, n <= m.string[s].capacity
  PROVE  LET m2 == [m EXCEPT !.string[s].size = n]
         IN  /\ Sound(m2) /\ Spares(m, m2, s) /\ DataOf(m2, s) = DataOf(m, s)
             /\ m2.string[s].size = n /\ m2.string[s].capacity = m.string[s].capacity
             /\ Texts!Shared(m2, s) = Texts!Shared(m, s)
<1> DEFINE m2 == [m EXCEPT !.string[s].size = n]
           q == m.string[s]
           r == [text |-> q.text, block |-> q.block, capacity |-> q.capacity, size |-> n]
<1>1. m \in MemorySet /\ q \in StringSet /\ m.string \in [Variables -> StringSet]
  BY FieldsOf DEF MemorySet
<1>2. r \in StringSet
  BY <1>1 DEF StringSet
<1>3. m2 = [m EXCEPT !.string[s] = r]
  <2>1. [q EXCEPT !.size = n] = r
    BY <1>1, Edited
  <2>2. m2 = [m EXCEPT !.string[s] = [q EXCEPT !.size = n]]
    OBVIOUS
  <2> HIDE DEF m2, r, q
  <2> QED BY <2>1, <2>2
<1> HIDE DEF m2
<1>4. /\ m2 \in MemorySet /\ m2.string[s] = r /\ m2.block = m.block
      /\ \A t \in Variables \ {s} : m2.string[t] = m.string[t]
  <2> HIDE DEF r
  <2> QED BY <1>1, <1>2, <1>3 DEF MemorySet
<1>5. \A t \in Variables : Texts!Short(m2, t) = Texts!Short(m, t) /\ m2.string[t].block = m.string[t].block
  BY <1>4 DEF Texts!Short
<1>6. \A t \in Variables : DataOf(m2, t) = DataOf(m, t)
  BY <1>4, <1>5 DEF DataOf
<1>7. Spares(m, m2, s)
  BY <1>4, <1>6 DEF Spares
<1>8. Fits(m2, s)
  BY <1>4, <1>5, <1>6 DEF Sound, Fits
<1>9. Counted(m2)
  <2>1. \A b \in Blocks : Sharers(m2, b) = Sharers(m, b)
    BY <1>5 DEF Sharers
  <2> QED BY <1>4, <2>1 DEF Sound, Counted
<1>10. Texts!Shared(m2, s) = Texts!Shared(m, s)
  BY <1>4, <1>5 DEF Texts!Shared
<1>11. \A t \in Variables : Fits(m2, t)
  BY <1>7, <1>8, SparesFits DEF Sound
<1> QED BY <1>4, <1>6, <1>7, <1>9, <1>10, <1>11 DEF Sound, m2

(* Other data, in the same place: nobody shares it.                        *)
Overwritten(m, m2, s, data) ==
  m2 = IF Texts!Short(m, s) THEN [m EXCEPT !.string[s].text = data]
       ELSE [m EXCEPT !.block[m.string[s].block].data = data]

LEMMA InPlace ==
  ASSUME ContainersAssumption, NEW m, Sound(m), NEW s \in Variables, ~Texts!Shared(m, s),
         NEW data \in Seq(Char), Len(data) = Len(DataOf(m, s)),
         NEW m2, Overwritten(m, m2, s, data)
  PROVE  /\ Sound(m2) /\ Spares(m, m2, s) /\ DataOf(m2, s) = data /\ ~Texts!Shared(m2, s)
         /\ m2.string[s].size = m.string[s].size
<1> DEFINE q == m.string[s]
           b == q.block
           r == [text |-> data, block |-> q.block, capacity |-> q.capacity, size |-> q.size]
           d == [data |-> data, refs |-> m.block[b].refs]
<1>1. /\ m \in MemorySet /\ q \in StringSet /\ m.string \in [Variables -> StringSet]
      /\ m.block \in [Blocks -> BlockSet]
  BY FieldsOf DEF MemorySet
<1>2. CASE Texts!Short(m, s)
  <2>1. r \in StringSet
    BY <1>1 DEF StringSet
  <2>2. m2 = [m EXCEPT !.string[s] = r]
    <3>1. q = [text |-> q.text, block |-> q.block, capacity |-> q.capacity, size |-> q.size]
      BY <1>1 DEF StringSet
    <3>2. [q EXCEPT !.text = data] = r
      <4>1. PICK a, e, f, g : /\ q = [text |-> a, block |-> e, capacity |-> f, size |-> g]
                              /\ e = q.block /\ f = q.capacity /\ g = q.size
        BY <3>1
      <4> HIDE DEF q
      <4> QED BY <4>1
    <3>3. m2 = [m EXCEPT !.string[s] = [q EXCEPT !.text = data]]
      BY <1>2 DEF Overwritten
    <3> HIDE DEF r, q
    <3> QED BY <3>2, <3>3
  <2>3. /\ m2 \in MemorySet /\ m2.string[s] = r /\ m2.block = m.block
        /\ \A t \in Variables \ {s} : m2.string[t] = m.string[t]
    <3> HIDE DEF r
    <3> QED BY <1>1, <2>1, <2>2 DEF MemorySet
  <2>4. \A t \in Variables : Texts!Short(m2, t) = Texts!Short(m, t) /\ m2.string[t].block = m.string[t].block
    BY <2>3 DEF Texts!Short
  <2>5. \A t \in Variables \ {s} : DataOf(m2, t) = DataOf(m, t)
    BY <2>3, <2>4 DEF DataOf
  <2>6. DataOf(m2, s) = data /\ ~Texts!Shared(m2, s)
    BY <1>2, <2>3, <2>4 DEF DataOf, Texts!Shared
  <2>7. Spares(m, m2, s)
    BY <2>3, <2>5 DEF Spares
  <2>8. Fits(m2, s)
    BY <2>3, <2>4, <2>6 DEF Sound, Fits
  <2>9. Counted(m2)
    <3>1. \A x \in Blocks : Sharers(m2, x) = Sharers(m, x)
      BY <2>4 DEF Sharers
    <3> QED BY <2>3, <3>1 DEF Sound, Counted
  <2>10. \A t \in Variables : Fits(m2, t)
    BY <2>7, <2>8, SparesFits DEF Sound
  <2> QED BY <2>3, <2>6, <2>7, <2>9, <2>10 DEF Sound
<1>3. CASE ~Texts!Short(m, s)
  <2>1. b \in Blocks /\ m.block[b] \in BlockSet /\ m.block[b].refs \in Nat
    BY <1>3, FieldsOf DEF BlockSet
  <2>2. d \in BlockSet
    BY <2>1 DEF BlockSet
  <2>3. m2 = [m EXCEPT !.block[b] = d]
    <3>1. [m.block[b] EXCEPT !.data = data] = d
      <4>1. PICK a, e : m.block[b] = [data |-> a, refs |-> e] /\ e = m.block[b].refs
        BY <2>1 DEF BlockSet
      <4> HIDE DEF b
      <4> QED BY <4>1
    <3>2. m2 = [m EXCEPT !.block[b] = [m.block[b] EXCEPT !.data = data]]
      BY <1>3 DEF Overwritten
    <3> HIDE DEF d, b
    <3> QED BY <3>1, <3>2
  <2>4. /\ m2 \in MemorySet /\ m2.string = m.string /\ m2.block[b] = d
        /\ \A x \in Blocks \ {b} : m2.block[x] = m.block[x]
    <3> HIDE DEF d, b
    <3> QED BY <1>1, <2>1, <2>2, <2>3 DEF MemorySet
  <2>5. \A t \in Variables \ {s} : ~Texts!Short(m, t) => m.string[t].block # b
    BY <1>3, Unshared
  <2>6. \A t \in Variables : Texts!Short(m2, t) = Texts!Short(m, t)
    BY <2>4 DEF Texts!Short
  <2>7. \A t \in Variables \ {s} : DataOf(m2, t) = DataOf(m, t)
    <3> TAKE t \in Variables \ {s}
    <3>1. ~Texts!Short(m, t) => m.string[t].block \in Blocks
      BY FieldsOf
    <3> QED BY <2>4, <2>5, <2>6, <3>1 DEF DataOf
  <2>8. DataOf(m2, s) = data
    BY <1>3, <2>4, <2>6 DEF DataOf
  <2>9. \A x \in Blocks : m2.block[x].refs = m.block[x].refs
    BY <2>4
  <2>10. ~Texts!Shared(m2, s)
    BY <2>1, <2>4, <2>6, <2>9 DEF Texts!Shared
  <2>11. Spares(m, m2, s)
    BY <2>4, <2>7 DEF Spares
  <2>12. Fits(m2, s)
    BY <2>4, <2>6, <2>8 DEF Sound, Fits
  <2>13. Counted(m2)
    <3>1. \A x \in Blocks : Sharers(m2, x) = Sharers(m, x)
      BY <2>4, <2>6 DEF Sharers
    <3> QED BY <2>9, <3>1 DEF Sound, Counted
  <2>14. \A t \in Variables : Fits(m2, t)
    BY <2>11, <2>12, SparesFits DEF Sound
  <2> QED BY <2>4, <2>8, <2>10, <2>11, <2>13, <2>14 DEF Sound
<1> QED BY <1>2, <1>3

LEMMA TerminatedIs ==
  ASSUME ContainersAssumption, NEW m, Sound(m), NEW s \in Variables, ~Texts!Shared(m, s),
         NEW n \in Nat, n = m.string[s].size
  PROVE  LET m2 == Texts!Terminated(m, s, n)
         IN  /\ Sound(m2) /\ Spares(m, m2, s) /\ ~Texts!Shared(m2, s)
             /\ m2.string[s].size = n /\ Keeps(m, m2, s, n) /\ Ended(m2, s)
<1> DEFINE m2 == Texts!Terminated(m, s, n)
           old == DataOf(m, s)
           cut == SubSeq(old, 1, n) \o <<"zero">>
           data == Texts!Filled(cut, Len(old))
<1>1. /\ old \in Seq(Char) /\ Len(old) \in Nat /\ n + 1 <= Len(old) /\ <<"zero">> \in Seq(Char)
      /\ ~Texts!Short(m, s) => old = m.block[m.string[s].block].data
      /\ Texts!Short(m, s) => old = m.string[s].text
  BY FieldsOf DEF Char
<1>2. /\ cut \in Seq(Char) /\ Len(cut) = n + 1 /\ cut[n + 1] = "zero"
      /\ \A i \in 1..n : cut[i] = old[i]
  <2> HIDE DEF old
  <2>1. n <= Len(old)
    BY <1>1
  <2> QED BY <1>1, <2>1, CutIs
<1> HIDE DEF cut
<1>3. /\ data \in Seq(Char) /\ Len(data) = Len(old)
      /\ \A i \in 1..Len(old) : i <= Len(cut) => data[i] = cut[i]
  BY <1>1, <1>2, FilledIs
<1>4. Overwritten(m, m2, s, data)
  BY <1>1 DEF Overwritten, Texts!Terminated, Texts!Zero, data, cut
<1> HIDE DEF data, m2
<1>5. /\ Sound(m2) /\ Spares(m, m2, s) /\ DataOf(m2, s) = data /\ ~Texts!Shared(m2, s)
      /\ m2.string[s].size = m.string[s].size
  BY <1>3, <1>4, InPlace
<1>6. (\A i \in 1..n : data[i] = old[i]) /\ data[n + 1] = "zero"
  <2> HIDE DEF old
  <2>1. (\A i \in 1..n : i \in 1..Len(old) /\ i <= n + 1) /\ n + 1 \in 1..Len(old)
    BY <1>1
  <2> QED BY <1>2, <1>3, <2>1
<1> QED BY <1>5, <1>6 DEF Keeps, Ended, m2

LEMMA ResizeIs ==
  ASSUME ContainersAssumption, NEW m, Sound(m), NEW s \in Variables, NEW n \in Nat,
         NEW sizeFirst \in BOOLEAN
  PROVE  LET m2 == Texts!Resize(m, s, n, sizeFirst)
         IN  /\ Sound(m2) /\ Spares(m, m2, s) /\ ~Texts!Shared(m2, s)
             /\ m2.string[s].size = n /\ Ended(m2, s)
             /\ \A i \in 1..n : i <= m.string[s].size => DataOf(m2, s)[i] = DataOf(m, s)[i]
<1> DEFINE room == Texts!Reserve(m, s, n)
           own == IF sizeFirst THEN Texts!Unique([room EXCEPT !.string[s].size = n], s)
                  ELSE [Texts!Unique(room, s) EXCEPT !.string[s].size = n]
           k(a) == \A i \in 1..n : i <= m.string[s].size => DataOf(a, s)[i] = DataOf(m, s)[i]
<1>1. Kept(m, room, s) /\ n <= room.string[s].capacity
  BY ReserveIs
<1>2. Sound(room) /\ Spares(m, room, s) /\ k(room)
  BY <1>1 DEF Kept, Keeps
<1> HIDE DEF room
<1>3. /\ Sound(own) /\ Spares(m, own, s) /\ ~Texts!Shared(own, s)
      /\ own.string[s].size = n /\ k(own)
  <2>1. CASE sizeFirst
    <3>1. PICK a : a = [room EXCEPT !.string[s].size = n]
      OBVIOUS
    <3>2. /\ Sound(a) /\ Spares(room, a, s) /\ DataOf(a, s) = DataOf(room, s)
          /\ a.string[s].size = n
      BY <1>1, <1>2, <3>1, SizedIs
    <3>3. PICK o : o = Texts!Unique(a, s)
      OBVIOUS
    <3>4. Kept(a, o, s) /\ ~Texts!Shared(o, s)
      BY <3>2, <3>3, UniqueIs
    <3>5. /\ Sound(o) /\ Spares(a, o, s) /\ o.string[s].size = n
          /\ \A i \in 1..n : DataOf(o, s)[i] = DataOf(a, s)[i]
      BY <3>2, <3>4 DEF Kept, Keeps
    <3>6. Spares(m, o, s)
      BY <1>2, <3>2, <3>5 DEF Spares
    <3>7. own = o
      BY <2>1, <3>1, <3>3
    <3> QED BY <1>2, <3>2, <3>4, <3>5, <3>6, <3>7
  <2>2. CASE ~sizeFirst
    <3>1. PICK a : a = Texts!Unique(room, s)
      OBVIOUS
    <3>2. Kept(room, a, s) /\ ~Texts!Shared(a, s) /\ n <= a.string[s].capacity
      BY <1>1, <1>2, <3>1, UniqueIs
    <3>3. Kept(m, a, s)
      BY <1>1, <3>2, KeptTwice
    <3>4. Sound(a) /\ Spares(m, a, s) /\ k(a)
      BY <3>3 DEF Kept, Keeps
    <3>5. PICK o : o = [a EXCEPT !.string[s].size = n]
      OBVIOUS
    <3>6. /\ Sound(o) /\ Spares(a, o, s) /\ DataOf(o, s) = DataOf(a, s)
          /\ o.string[s].size = n /\ ~Texts!Shared(o, s)
      BY <3>2, <3>4, <3>5, SizedIs
    <3>7. Spares(m, o, s)
      BY <3>4, <3>6 DEF Spares
    <3>8. own = o
      BY <2>2, <3>1, <3>5
    <3> QED BY <3>4, <3>6, <3>7, <3>8
  <2> QED BY <2>1, <2>2
<1>4. Texts!Resize(m, s, n, sizeFirst) = Texts!Terminated(own, s, n)
  BY DEF Texts!Resize, room
<1> HIDE DEF own
<1>5. PICK m2 : m2 = Texts!Resize(m, s, n, sizeFirst)
  OBVIOUS
<1>6. /\ Sound(m2) /\ Spares(own, m2, s) /\ ~Texts!Shared(m2, s)
      /\ m2.string[s].size = n /\ Keeps(own, m2, s, n) /\ Ended(m2, s)
  BY <1>3, <1>4, <1>5, TerminatedIs
<1>7. Spares(m, m2, s) /\ k(m2)
  BY <1>3, <1>6 DEF Spares, Keeps
<1> QED BY <1>5, <1>6, <1>7

-------------------------------------------------------------------------------
(* What the strings show.                                                  *)
LEMMA TextIs ==
  ASSUME ContainersAssumption, NEW m, Sound(m), NEW s \in Variables
  PROVE  /\ TextOf(m, s) \in Seq(Char) /\ Len(TextOf(m, s)) = m.string[s].size
         /\ \A i \in 1..m.string[s].size : TextOf(m, s)[i] = DataOf(m, s)[i]
<1> DEFINE d == DataOf(m, s)
           n == m.string[s].size
<1>1. d \in Seq(Char) /\ Len(d) \in Nat /\ n \in Nat /\ n <= Len(d)
  BY FieldsOf
<1> HIDE DEF d, n
<1>2. SubSeq(d, 1, n) \in Seq(Char) /\ Len(SubSeq(d, 1, n)) = n
      /\ \A i \in 1..n : SubSeq(d, 1, n)[i] = d[i]
  BY <1>1
<1> QED BY <1>2 DEF TextOf, d, n

(* A step that leaves a text u.                                            *)
Spelt(m, m2, s, u) ==
  /\ Sound(m2) /\ Spares(m, m2, s) /\ Ended(m2, s)
  /\ TextOf(m2, s) = u

LEMMA Spells ==
  ASSUME ContainersAssumption, NEW m, NEW m2, NEW s \in Variables,
         Sound(m2), Spares(m, m2, s), Ended(m2, s),
         NEW u \in Seq(Char), Len(u) = m2.string[s].size,
         \A i \in 1..Len(u) : DataOf(m2, s)[i] = u[i]
  PROVE  Spelt(m, m2, s, u)
<1>1. /\ TextOf(m2, s) \in Seq(Char) /\ Len(TextOf(m2, s)) = Len(u)
      /\ \A i \in 1..Len(u) : TextOf(m2, s)[i] = u[i]
  BY TextIs
<1>2. PICK t \in Seq(Char) : t = TextOf(m2, s)
  BY <1>1
<1>3. t = u
  BY <1>1, <1>2
<1> QED BY <1>2, <1>3 DEF Spelt

LEMMA Replacing ==
  ASSUME NEW q \in Seq(Char), NEW i \in 1..Len(q), NEW c \in Char
  PROVE  LET r == [q EXCEPT ![i] = c]
         IN  /\ r \in Seq(Char) /\ Len(r) = Len(q)
             /\ \A j \in 1..Len(q) : r[j] = IF j = i THEN c ELSE q[j]
OBVIOUS

LEMMA PutIs ==
  ASSUME ContainersAssumption, NEW m, Sound(m), NEW s \in Variables, ~Texts!Shared(m, s),
         Ended(m, s), NEW c \in Characters, NEW i \in 1..m.string[s].size
  PROVE  LET m2 == Texts!Put(m, s, i, c)
         IN  /\ Sound(m2) /\ Spares(m, m2, s) /\ Ended(m2, s)
             /\ m2.string[s].size = m.string[s].size
             /\ \A j \in 1..m.string[s].size :
                  DataOf(m2, s)[j] = IF j = i THEN c ELSE DataOf(m, s)[j]
<1> DEFINE m2 == Texts!Put(m, s, i, c)
           old == DataOf(m, s)
           data == [old EXCEPT ![i] = c]
           n == m.string[s].size
<1>1. /\ old \in Seq(Char) /\ Len(old) \in Nat /\ n \in Nat /\ n + 1 <= Len(old) /\ c \in Char
      /\ ~Texts!Short(m, s) => old = m.block[m.string[s].block].data
      /\ Texts!Short(m, s) => old = m.string[s].text
  BY FieldsOf DEF Char
<1>2. /\ data \in Seq(Char) /\ Len(data) = Len(old)
      /\ \A j \in 1..Len(old) : data[j] = IF j = i THEN c ELSE old[j]
  <2>1. i \in 1..Len(old)
    BY <1>1
  <2> HIDE DEF old, n
  <2> QED BY <1>1, <2>1, Replacing
<1>3. Overwritten(m, m2, s, data)
  BY <1>1 DEF Overwritten, Texts!Put
<1> HIDE DEF m2, data
<1>4. /\ Sound(m2) /\ Spares(m, m2, s) /\ DataOf(m2, s) = data /\ m2.string[s].size = n
  BY <1>2, <1>3, InPlace
<1>5. Ended(m2, s)
  <2>1. n + 1 \in 1..Len(old) /\ n + 1 # i
    BY <1>1
  <2> QED BY <1>2, <1>4, <2>1 DEF Ended
<1>6. ASSUME NEW j \in 1..n PROVE DataOf(m2, s)[j] = IF j = i THEN c ELSE old[j]
  <2>1. j \in 1..Len(old)
    BY <1>1
  <2> QED BY <1>2, <1>4, <2>1
<1> QED BY <1>4, <1>5, <1>6 DEF m2

LEMMA AppendIs ==
  ASSUME ContainersAssumption, NEW m, Sound(m), NEW s \in Variables, NEW c \in Characters,
         NEW sizeFirst \in BOOLEAN
  PROVE  LET r == Texts!Resize(m, s, m.string[s].size + 1, sizeFirst)
         IN  Spelt(m, Texts!Put(Texts!Unique(r, s), s, r.string[s].size, c), s,
                   Append(TextOf(m, s), c))
<1> DEFINE n == m.string[s].size
           u == TextOf(m, s)
<1>1. PICK r : r = Texts!Resize(m, s, n + 1, sizeFirst)
  OBVIOUS
<1>2. /\ n \in Nat /\ u \in Seq(Char) /\ Len(u) = n /\ c \in Char
      /\ \A i \in 1..n : u[i] = DataOf(m, s)[i]
  BY FieldsOf, TextIs DEF Char
<1>3. /\ Sound(r) /\ Spares(m, r, s) /\ ~Texts!Shared(r, s)
      /\ r.string[s].size = n + 1 /\ Ended(r, s)
      /\ \A i \in 1..(n + 1) : i <= n => DataOf(r, s)[i] = DataOf(m, s)[i]
  <2>1. n + 1 \in Nat
    BY <1>2
  <2> QED BY <1>1, <2>1, ResizeIs
<1>4. Texts!Unique(r, s) = r
  BY <1>3 DEF Texts!Unique
<1>5. PICK p : p = Texts!Put(r, s, n + 1, c)
  OBVIOUS
<1>6. /\ Sound(p) /\ Spares(r, p, s) /\ Ended(p, s) /\ p.string[s].size = n + 1
      /\ \A j \in 1..(n + 1) : DataOf(p, s)[j] = IF j = n + 1 THEN c ELSE DataOf(r, s)[j]
  <2>1. n + 1 \in 1..(n + 1)
    BY <1>2
  <2> HIDE DEF n
  <2> QED BY <1>3, <1>5, <2>1, PutIs
<1>7. Spares(m, p, s)
  BY <1>3, <1>6 DEF Spares
<1> HIDE DEF n, u
<1>8. PICK a : a = Append(u, c)
  OBVIOUS
<1>9. a \in Seq(Char) /\ Len(a) = n + 1 /\ \A i \in 1..(n + 1) : a[i] = IF i = n + 1 THEN c ELSE u[i]
  BY <1>2, <1>8
<1>10. \A i \in 1..Len(a) : DataOf(p, s)[i] = a[i]
  <2> TAKE i \in 1..Len(a)
  <2>1. CASE i = n + 1
    BY <1>2, <1>6, <1>9, <2>1
  <2>2. CASE i # n + 1
    <3>1. i \in 1..n /\ i \in 1..(n + 1) /\ i <= n
      BY <1>2, <1>9, <2>2
    <3> QED BY <1>2, <1>3, <1>6, <1>9, <2>2, <3>1
  <2> QED BY <2>1, <2>2
<1>11. Spelt(m, p, s, a)
  BY <1>6, <1>7, <1>9, <1>10, Spells
<1> QED BY <1>1, <1>3, <1>4, <1>5, <1>8, <1>11 DEF n, u

LEMMA ShortenIs ==
  ASSUME ContainersAssumption, NEW m, Sound(m), NEW s \in Variables, NEW n \in Nat,
         n < m.string[s].size, NEW sizeFirst \in BOOLEAN
  PROVE  Spelt(m, Texts!Resize(m, s, n, sizeFirst), s, SubSeq(TextOf(m, s), 1, n))
<1> DEFINE u == TextOf(m, s)
<1>1. PICK r : r = Texts!Resize(m, s, n, sizeFirst)
  OBVIOUS
<1>2. /\ m.string[s].size \in Nat /\ u \in Seq(Char) /\ Len(u) = m.string[s].size
      /\ \A i \in 1..m.string[s].size : u[i] = DataOf(m, s)[i]
  BY FieldsOf, TextIs
<1>3. /\ Sound(r) /\ Spares(m, r, s) /\ r.string[s].size = n /\ Ended(r, s)
      /\ \A i \in 1..n : i <= m.string[s].size => DataOf(r, s)[i] = DataOf(m, s)[i]
  <2> HIDE DEF u
  <2>1. PICK k \in BOOLEAN : k = sizeFirst
    OBVIOUS
  <2>2. r = Texts!Resize(m, s, n, k)
    BY <1>1, <2>1
  <2>3. LET q == Texts!Resize(m, s, n, k)
        IN  /\ Sound(q) /\ Spares(m, q, s) /\ q.string[s].size = n /\ Ended(q, s)
            /\ \A i \in 1..n : i <= m.string[s].size => DataOf(q, s)[i] = DataOf(m, s)[i]
    BY ResizeIs
  <2> QED BY <2>2, <2>3
<1> HIDE DEF u
<1>4. PICK a : a = SubSeq(u, 1, n)
  OBVIOUS
<1>5. a \in Seq(Char) /\ Len(a) = n /\ \A i \in 1..n : a[i] = u[i]
  BY <1>2, <1>4
<1>6. \A i \in 1..Len(a) : DataOf(r, s)[i] = a[i]
  <2> TAKE i \in 1..Len(a)
  <2>1. i \in 1..n /\ i \in 1..m.string[s].size /\ i <= m.string[s].size
    BY <1>2, <1>5
  <2> QED BY <1>2, <1>3, <1>5, <2>1
<1>7. Spelt(m, r, s, a)
  BY <1>3, <1>5, <1>6, Spells
<1> QED BY <1>1, <1>4, <1>7 DEF u

LEMMA WriteIs ==
  ASSUME ContainersAssumption, NEW m, Sound(m), NEW s \in Variables, Ended(m, s),
         NEW c \in Characters, NEW i \in 1..m.string[s].size
  PROVE  Spelt(m, Texts!Put(Texts!Unique(m, s), s, i, c), s, [TextOf(m, s) EXCEPT ![i] = c])
<1> DEFINE u == TextOf(m, s)
           n == m.string[s].size
<1>1. PICK r : r = Texts!Unique(m, s)
  OBVIOUS
<1>2. /\ n \in Nat /\ u \in Seq(Char) /\ Len(u) = n /\ c \in Char
      /\ \A j \in 1..n : u[j] = DataOf(m, s)[j]
  BY FieldsOf, TextIs DEF Char
<1>3. /\ Sound(r) /\ Spares(m, r, s) /\ ~Texts!Shared(r, s) /\ r.string[s].size = n /\ Ended(r, s)
      /\ \A j \in 1..n : DataOf(r, s)[j] = DataOf(m, s)[j]
  BY <1>1, UniqueIs DEF Kept, Keeps
<1>4. PICK p : p = Texts!Put(r, s, i, c)
  OBVIOUS
<1> HIDE DEF n, u
<1>5. /\ Sound(p) /\ Spares(r, p, s) /\ Ended(p, s) /\ p.string[s].size = n
      /\ \A j \in 1..n : DataOf(p, s)[j] = IF j = i THEN c ELSE DataOf(r, s)[j]
  <2>1. i \in 1..r.string[s].size
    BY <1>3 DEF n
  <2> QED BY <1>3, <1>4, <2>1, PutIs
<1>6. Spares(m, p, s)
  BY <1>3, <1>5 DEF Spares
<1>7. PICK a : a = [u EXCEPT ![i] = c]
  OBVIOUS
<1>8. a \in Seq(Char) /\ Len(a) = n /\ \A j \in 1..n : a[j] = IF j = i THEN c ELSE u[j]
  <2>1. i \in 1..Len(u)
    BY <1>2 DEF n
  <2> QED BY <1>2, <1>7, <2>1, Replacing
<1>9. \A j \in 1..Len(a) : DataOf(p, s)[j] = a[j]
  BY <1>2, <1>3, <1>5, <1>8
<1>10. Spelt(m, p, s, a)
  BY <1>5, <1>6, <1>8, <1>9, Spells
<1> QED BY <1>1, <1>4, <1>7, <1>10 DEF u

LEMMA NoStringIs ==
  ASSUME ContainersAssumption
  PROVE  /\ Texts!NoString \in StringSet
         /\ Texts!NoString.text \in Seq(Char) /\ Len(Texts!NoString.text) = SSO
         /\ Texts!NoString.text[1] = "zero"
         /\ Texts!NoString.size = 0 /\ Texts!NoString.capacity = SSO - 1
<1> DEFINE room == Texts!Room(SSO - 1)
           text == <<"zero">> \o room
<1>1. SSO \in Nat \ {0}
  BY AllocatorFacts
<1>2. room \in Seq(Char) /\ Len(room) = SSO - 1 /\ <<"zero">> \in Seq(Char)
  BY <1>1 DEF Texts!Room, Texts!Junk, Char
<1> HIDE DEF room
<1>3. text \in Seq(Char) /\ Len(text) = SSO /\ text[1] = "zero"
  BY <1>1, <1>2
<1>4. Texts!NoString = [text |-> text, block |-> NoBlock, capacity |-> SSO - 1, size |-> 0]
  BY DEF Texts!NoString, Texts!Zero, text, room
<1> HIDE DEF text
<1> QED BY <1>1, <1>3, <1>4 DEF StringSet

LEMMA FreeIs ==
  ASSUME ContainersAssumption, NEW m, Sound(m), NEW s \in Variables
  PROVE  LET m2 == Texts!Free(m, s)
         IN  Spelt(m, m2, s, <<>>) /\ m2.string[s] = Texts!NoString
<1> DEFINE m2 == Texts!Free(m, s)
           b == m.string[s].block
           no == Texts!NoString
<1>1. /\ m \in MemorySet /\ m.string \in [Variables -> StringSet] /\ SSO \in Nat \ {0}
      /\ m.block \in [Blocks -> BlockSet]
      /\ ~Texts!Short(m, s) => b \in Blocks /\ m.block[b] \in BlockSet
  BY FieldsOf, AllocatorFacts DEF MemorySet
<1>2. /\ no \in StringSet /\ no.text \in Seq(Char) /\ Len(no.text) = SSO
      /\ no.text[1] = "zero" /\ no.size = 0 /\ no.capacity = SSO - 1
  BY NoStringIs
<1> HIDE DEF no
<1> DEFINE blocks == Texts!Left(m, s)
<1>3. m2 = [string |-> [m.string EXCEPT ![s] = no], block |-> blocks]
  BY DEF Texts!Free, no
<1> HIDE DEF m2, blocks
<1>4. /\ blocks \in [Blocks -> BlockSet]
      /\ \A x \in Blocks : blocks[x].refs = m.block[x].refs - Here(m, s, x)
      /\ \A x \in Blocks : blocks[x].data = m.block[x].data \/ (x = b /\ ~Texts!Short(m, s) /\ ~Texts!Shared(m, s))
  <2>1. CASE Texts!Short(m, s)
    <3>1. \A x \in Blocks : Here(m, s, x) = 0 /\ m.block[x].refs \in Nat
      BY <1>1, <2>1 DEF Here, BlockSet
    <3>2. blocks = m.block
      BY <2>1 DEF blocks, Texts!Left
    <3> QED BY <1>1, <2>1, <3>1, <3>2
  <2>2. CASE Texts!Shared(m, s)
    <3>1. ~Texts!Short(m, s) /\ m.block[b].refs > 1
      BY <2>2 DEF Texts!Shared
    <3>2. PICK e \in BlockSet : /\ e = [m.block[b] EXCEPT !.refs = @ - 1]
                                /\ e.data = m.block[b].data /\ e.refs = m.block[b].refs - 1
      <4>1. PICK x \in BlockSet : x = m.block[b]
        BY <1>1, <3>1
      <4>2. x.refs - 1 \in Nat /\ x.data \in Seq(Char)
        BY <3>1, <4>1 DEF BlockSet
      <4>3. [x EXCEPT !.refs = @ - 1] = [data |-> x.data, refs |-> x.refs - 1]
        BY <4>2, RefsEdited
      <4> QED BY <4>1, <4>2, <4>3 DEF BlockSet
    <3>3. blocks = [m.block EXCEPT ![b] = e]
      <4>1. blocks = [m.block EXCEPT ![b] = [m.block[b] EXCEPT !.refs = @ - 1]]
        BY <2>2, <3>1 DEF blocks, Texts!Left
      <4> QED BY <3>2, <4>1
    <3>4. \A x \in Blocks : Here(m, s, x) = (IF x = b THEN 1 ELSE 0) /\ m.block[x].refs \in Nat
      BY <1>1, <3>1 DEF Here, BlockSet
    <3> HIDE DEF blocks, b
    <3> QED BY <1>1, <3>1, <3>2, <3>3, <3>4
  <2>3. CASE ~Texts!Short(m, s) /\ ~Texts!Shared(m, s)
    <3>1. PICK e \in BlockSet : e = Texts!NoMemory /\ e.refs = 0
      <4>1. PICK x : x = [data |-> <<>>, refs |-> 0]
        OBVIOUS
      <4>2. x \in BlockSet
        <5>1. <<>> \in Seq(Char) /\ 0 \in Nat
          OBVIOUS
        <5> QED BY <4>1, <5>1 DEF BlockSet
      <4>3. x = Texts!NoMemory
        BY <4>1 DEF Texts!NoMemory
      <4> QED BY <4>1, <4>2, <4>3
    <3>2. blocks = [m.block EXCEPT ![b] = e]
      BY <2>3, <3>1 DEF blocks, Texts!Left
    <3>3. m.block[b].refs = 1
      BY <2>3, Unshared
    <3>4. \A x \in Blocks : Here(m, s, x) = (IF x = b THEN 1 ELSE 0) /\ m.block[x].refs \in Nat
      BY <1>1, <2>3 DEF Here, BlockSet
    <3> HIDE DEF blocks, b
    <3> QED BY <1>1, <2>3, <3>1, <3>2, <3>3, <3>4
  <2> QED BY <2>1, <2>2, <2>3
<1>5. /\ m2 \in MemorySet /\ m2.string[s] = no /\ m2.block = blocks
      /\ \A t \in Variables \ {s} : m2.string[t] = m.string[t]
  BY <1>1, <1>2, <1>3, <1>4 DEF MemorySet
<1>6. Texts!Short(m2, s) /\ \A t \in Variables \ {s} : Texts!Short(m2, t) = Texts!Short(m, t)
  BY <1>1, <1>2, <1>5 DEF Texts!Short
<1>7. Spares(m, m2, s)
  <2> SUFFICES ASSUME NEW t \in Variables \ {s} PROVE DataOf(m2, t) = DataOf(m, t)
    BY <1>5 DEF Spares
  <2>1. CASE Texts!Short(m, t)
    BY <1>5, <1>6, <2>1 DEF DataOf
  <2>2. CASE ~Texts!Short(m, t)
    <3>1. PICK x \in Blocks : x = m.string[t].block
      BY <2>2, FieldsOf
    <3>2. x = b => Texts!Short(m, s) \/ Texts!Shared(m, s)
      BY <2>2, <3>1, Unshared
    <3>3. blocks[x].data = m.block[x].data
      BY <1>4, <3>2
    <3> QED BY <1>5, <1>6, <2>2, <3>1, <3>3 DEF DataOf
  <2> QED BY <2>1, <2>2
<1>8. DataOf(m2, s) = no.text
  BY <1>5, <1>6 DEF DataOf
<1>9. Fits(m2, s) /\ Ended(m2, s)
  BY <1>1, <1>2, <1>5, <1>6, <1>8 DEF Fits, Ended
<1>10. Counted(m2)
  <2>1. \A x \in Blocks : m2.block[x].refs = m.block[x].refs - Here(m, s, x) + Here(m2, s, x)
    <3> TAKE x \in Blocks
    <3>1. Here(m2, s, x) = 0
      BY <1>6 DEF Here
    <3>2. blocks[x].refs \in Nat
      BY <1>4 DEF BlockSet
    <3> QED BY <1>4, <1>5, <3>1, <3>2
  <2> QED BY <1>5, <2>1, Recount DEF Sound
<1>11. Sound(m2)
  <2>1. \A t \in Variables : Fits(m2, t)
    BY <1>7, <1>9, SparesFits DEF Sound
  <2> QED BY <1>5, <1>10, <2>1 DEF Sound
<1>12. Spelt(m, m2, s, <<>>)
  <2>1. PICK u \in Seq(Char) : u = <<>> /\ Len(u) = 0
    <3>1. <<>> \in Seq(Char) /\ Len(<<>>) = 0
      OBVIOUS
    <3> QED BY <3>1
  <2>2. Len(u) = m2.string[s].size /\ \A i \in 1..Len(u) : DataOf(m2, s)[i] = u[i]
    BY <1>2, <1>5, <2>1
  <2>3. Spelt(m, m2, s, u)
    BY <1>7, <1>9, <1>11, <2>2, Spells
  <2> QED BY <2>1, <2>3
<1> QED BY <1>5, <1>12 DEF m2, no

(* s takes what t has, and is counted where that lies in a block.          *)
Taken(m, p, s, t) ==
  p = IF Texts!Short(m, t) THEN [m EXCEPT !.string[s] = m.string[t]]
      ELSE [m EXCEPT !.block[m.string[t].block].refs = @ + 1, !.string[s] = m.string[t]]

LEMMA TakesIs ==
  ASSUME ContainersAssumption, NEW m, Sound(m), NEW s \in Variables, NEW t \in Variables, s # t,
         m.string[s] = Texts!NoString, Ended(m, t), NEW p, Taken(m, p, s, t)
  PROVE  Spelt(m, p, s, TextOf(m, t))
<1> DEFINE q == m.string[t]
           b == q.block
<1>1. /\ m \in MemorySet /\ q \in StringSet /\ m.string \in [Variables -> StringSet]
      /\ m.block \in [Blocks -> BlockSet] /\ SSO \in Nat
      /\ ~Texts!Short(m, t) => b \in Blocks /\ m.block[b] \in BlockSet
  BY FieldsOf DEF MemorySet
<1>2. /\ p \in MemorySet /\ p.string[s] = q
      /\ \A v \in Variables \ {s} : p.string[v] = m.string[v]
      /\ \A x \in Blocks : p.block[x].data = m.block[x].data
      /\ \A x \in Blocks : p.block[x].refs = m.block[x].refs + Here(m, t, x)
  <2>1. CASE Texts!Short(m, t)
    <3>1. \A x \in Blocks : Here(m, t, x) = 0 /\ m.block[x].refs \in Nat
      BY <1>1, <2>1 DEF Here, BlockSet
    <3>2. p = [m EXCEPT !.string[s] = q]
      BY <2>1 DEF Taken
    <3> HIDE DEF q
    <3>3. /\ p \in MemorySet /\ p.string[s] = q /\ p.block = m.block
          /\ \A v \in Variables \ {s} : p.string[v] = m.string[v]
      BY <1>1, <3>2 DEF MemorySet
    <3> QED BY <3>1, <3>3
  <2>2. CASE ~Texts!Short(m, t)
    <3>1. PICK e \in BlockSet : /\ e = [m.block[b] EXCEPT !.refs = @ + 1]
                                /\ e.data = m.block[b].data /\ e.refs = m.block[b].refs + 1
      <4>1. PICK x \in BlockSet : x = m.block[b]
        BY <1>1, <2>2
      <4>2. x.refs + 1 \in Nat /\ x.data \in Seq(Char)
        BY <4>1 DEF BlockSet
      <4>3. [x EXCEPT !.refs = @ + 1] = [data |-> x.data, refs |-> x.refs + 1]
        BY <4>2, RefsEdited
      <4> QED BY <4>1, <4>2, <4>3 DEF BlockSet
    <3>2. p = [m EXCEPT !.block[b] = e, !.string[s] = q]
      <4>1. p = [m EXCEPT !.block[b] = [m.block[b] EXCEPT !.refs = @ + 1], !.string[s] = q]
        BY <2>2 DEF Taken
      <4> HIDE DEF q, b
      <4> QED BY <3>1, <4>1
    <3>3. Rehoused(m, p, s, b, q, e)
      <4>1. m \in MemorySet /\ q \in StringSet /\ b \in Blocks /\ e \in BlockSet
        BY <1>1, <2>2, <3>1
      <4> HIDE DEF q, b
      <4>2. Rehoused(m, [m EXCEPT !.block[b] = e, !.string[s] = q], s, b, q, e)
        BY <4>1, Rehouses
      <4> QED BY <3>2, <4>2
    <3>4. \A x \in Blocks : Here(m, t, x) = (IF x = b THEN 1 ELSE 0)
      BY <2>2 DEF Here
    <3>5. \A x \in Blocks : m.block[x].refs \in Nat
      BY <1>1 DEF BlockSet
    <3>6. /\ p \in MemorySet /\ p.string[s] = q /\ p.block[b] = e
          /\ \A v \in Variables \ {s} : p.string[v] = m.string[v]
          /\ \A x \in Blocks \ {b} : p.block[x] = m.block[x]
      BY <3>3 DEF Rehoused
    <3> HIDE DEF q, b
    <3>7. ASSUME NEW x \in Blocks
          PROVE  p.block[x].data = m.block[x].data /\ p.block[x].refs = m.block[x].refs + Here(m, t, x)
      <4>1. CASE x = b
        <5>1. Here(m, t, x) = 1
          BY <3>4, <4>1
        <5> QED BY <3>1, <3>6, <4>1, <5>1
      <4>2. CASE x # b
        <5>1. Here(m, t, x) = 0 /\ p.block[x] = m.block[x] /\ m.block[x].refs \in Nat
          BY <3>4, <3>5, <3>6, <4>2
        <5> QED BY <5>1
      <4> QED BY <4>1, <4>2
    <3> QED BY <3>6, <3>7
  <2> QED BY <2>1, <2>2
<1>3. Texts!Short(m, s)
  BY <1>1, NoStringIs DEF Texts!Short
<1>4. /\ \A v \in Variables \ {s} : Texts!Short(p, v) = Texts!Short(m, v)
      /\ Texts!Short(p, s) = Texts!Short(m, t)
  BY <1>2 DEF Texts!Short
<1>5. Spares(m, p, s)
  <2> SUFFICES ASSUME NEW v \in Variables \ {s} PROVE DataOf(p, v) = DataOf(m, v)
    BY <1>2 DEF Spares
  <2>1. ~Texts!Short(m, v) => m.string[v].block \in Blocks
    BY FieldsOf
  <2> QED BY <1>2, <1>4, <2>1 DEF DataOf
<1>6. DataOf(p, s) = DataOf(m, t)
  BY <1>1, <1>2, <1>4 DEF DataOf
<1>7. Fits(p, s) /\ Ended(p, s) /\ TextOf(p, s) = TextOf(m, t)
  <2>1. Fits(m, t)
    BY DEF Sound
  <2> QED BY <1>2, <1>4, <1>6, <2>1 DEF Fits, Ended, TextOf
<1>8. Counted(p)
  <2>1. \A x \in Blocks : p.block[x].refs = m.block[x].refs - Here(m, s, x) + Here(p, s, x)
    <3> TAKE x \in Blocks
    <3>1. Here(m, s, x) = 0 /\ Here(p, s, x) = Here(m, t, x)
      BY <1>2, <1>3, <1>4 DEF Here
    <3>2. m.block[x].refs \in Nat /\ Here(m, t, x) \in Nat
      BY <1>1 DEF BlockSet, Here
    <3> QED BY <1>2, <3>1, <3>2
  <2> QED BY <1>2, <2>1, Recount DEF Sound
<1>9. \A v \in Variables : Fits(p, v)
  BY <1>5, <1>7, SparesFits DEF Sound
<1> QED BY <1>2, <1>5, <1>7, <1>8, <1>9 DEF Sound, Spelt

(* s takes what t has, and t forgets it.                                   *)
HandedOver(m, p, s, t) ==
  p = [m EXCEPT !.string[s] = m.string[t], !.string[t] = Texts!NoString]

LEMMA HandsOver ==
  ASSUME ContainersAssumption, NEW m, Sound(m), NEW s \in Variables, NEW t \in Variables, s # t,
         m.string[s] = Texts!NoString, Ended(m, t), NEW p, HandedOver(m, p, s, t)
  PROVE  /\ Sound(p) /\ Ended(p, s) /\ Ended(p, t)
         /\ TextOf(p, s) = TextOf(m, t) /\ TextOf(p, t) = <<>>
         /\ \A v \in Variables \ {s, t} :
              TextOf(p, v) = TextOf(m, v) /\ (Ended(m, v) => Ended(p, v))
<1> DEFINE q == m.string[t]
           no == Texts!NoString
<1>1. /\ m \in MemorySet /\ q \in StringSet /\ m.string \in [Variables -> StringSet]
      /\ m.block \in [Blocks -> BlockSet] /\ SSO \in Nat \ {0}
  BY FieldsOf, AllocatorFacts DEF MemorySet
<1>2. /\ no \in StringSet /\ no.text \in Seq(Char) /\ Len(no.text) = SSO
      /\ no.text[1] = "zero" /\ no.size = 0 /\ no.capacity = SSO - 1
  BY NoStringIs
<1>3. /\ p \in MemorySet /\ p.string[s] = q /\ p.string[t] = no /\ p.block = m.block
      /\ \A v \in Variables \ {s, t} : p.string[v] = m.string[v]
  <2>1. PICK a : a = [m EXCEPT !.string[s] = q]
    OBVIOUS
  <2>2. p = [a EXCEPT !.string[t] = no]
    BY <2>1 DEF HandedOver
  <2> HIDE DEF q, no
  <2>3. /\ a \in MemorySet /\ a.string[s] = q /\ a.block = m.block
        /\ \A v \in Variables \ {s} : a.string[v] = m.string[v]
    BY <1>1, <2>1 DEF MemorySet
  <2>4. /\ p \in MemorySet /\ p.string[t] = no /\ p.block = a.block
        /\ \A v \in Variables \ {t} : p.string[v] = a.string[v]
    BY <1>2, <2>2, <2>3 DEF MemorySet
  <2> QED BY <2>3, <2>4
<1> HIDE DEF no
<1>4. /\ Texts!Short(m, s) /\ Texts!Short(p, t) /\ Texts!Short(p, s) = Texts!Short(m, t)
      /\ \A v \in Variables \ {s, t} : Texts!Short(p, v) = Texts!Short(m, v)
  BY <1>1, <1>2, <1>3 DEF Texts!Short, no
<1>5. /\ DataOf(p, s) = DataOf(m, t) /\ DataOf(p, t) = no.text
      /\ \A v \in Variables \ {s, t} : DataOf(p, v) = DataOf(m, v)
  BY <1>3, <1>4 DEF DataOf
<1>6. /\ Fits(p, s) /\ Ended(p, s) /\ TextOf(p, s) = TextOf(m, t)
      /\ Fits(p, t) /\ Ended(p, t)
  <2>1. Fits(m, t)
    BY DEF Sound
  <2> QED BY <1>1, <1>2, <1>3, <1>4, <1>5, <2>1 DEF Fits, Ended, TextOf
<1>7. \A v \in Variables \ {s, t} :
        Fits(p, v) /\ TextOf(p, v) = TextOf(m, v) /\ (Ended(m, v) => Ended(p, v))
  BY <1>3, <1>4, <1>5 DEF Sound, Fits, Ended, TextOf
<1>8. Counted(p)
  <2> SUFFICES ASSUME NEW b \in Blocks PROVE p.block[b].refs = Cardinality(Sharers(p, b))
    BY DEF Counted
  <2> DEFINE old == Sharers(m, b)
  <2>1. IsFiniteSet(old) /\ p.block[b].refs = Cardinality(old) /\ Cardinality(old) \in Nat
    BY <1>3, AllocatorFacts, FS_Subset, FS_CardinalityType DEF Sharers, Sound, Counted
  <2> HIDE DEF old
  <2>2. s \notin old
    BY <1>4 DEF Sharers, old
  <2>3. CASE t \in old
    <3>1. Sharers(p, b) = (old \ {t}) \cup {s}
      BY <1>3, <1>4, <2>2, <2>3 DEF Sharers, old
    <3>2. IsFiniteSet(old \ {t}) /\ Cardinality(old \ {t}) = Cardinality(old) - 1
      BY <2>1, <2>3, FS_RemoveElement
    <3>3. s \notin old \ {t}
      BY <2>2
    <3>4. Cardinality((old \ {t}) \cup {s}) = Cardinality(old \ {t}) + 1
      BY <3>2, <3>3, FS_AddElement
    <3> QED BY <2>1, <3>1, <3>2, <3>4
  <2>4. CASE t \notin old
    <3>1. Sharers(p, b) = old
      BY <1>3, <1>4, <2>2, <2>4 DEF Sharers, old
    <3> QED BY <2>1, <3>1
  <2> QED BY <2>3, <2>4
<1>9. \A v \in Variables : Fits(p, v)
  BY <1>6, <1>7
<1>10. Sound(p)
  BY <1>3, <1>8, <1>9 DEF Sound
<1>11. TextOf(p, t) = <<>>
  <2>1. /\ TextOf(p, t) \in Seq(Char) /\ Len(TextOf(p, t)) = 0
    BY <1>2, <1>3, <1>10, TextIs
  <2> QED BY <2>1
<1> QED BY <1>6, <1>7, <1>10, <1>11

-------------------------------------------------------------------------------
(* Steps of the strings.                                                   *)
TextsOf(m) == [s \in Variables |-> TextOf(m, s)]

LEMMA Done ==
  ASSUME NEW m \in MemorySet, Texts!Do(m)
  PROVE  Texts!Memory' = m /\ (Texts!Texts)' = TextsOf(m)
<1>1. string' = m.string /\ block' = m.block
  BY DEF Texts!Do
<1>2. m = [string |-> m.string, block |-> m.block]
  BY DEF MemorySet
<1>3. Texts!Memory' = m
  BY <1>1, <1>2 DEF Texts!Memory
<1> QED BY <1>1, <1>3 DEF Texts!Texts, Texts!Text, Texts!Data, Texts!Own,
       TextsOf, TextOf, DataOf, Texts!Short

LEMMA Shown ==
  /\ Texts!Texts = TextsOf(Texts!Memory)
  /\ Texts!Memory.string = string /\ Texts!Memory.block = block
BY DEF Texts!Texts, Texts!Text, Texts!Data, Texts!Own, TextsOf, TextOf, DataOf,
   Texts!Short, Texts!Memory

LEMMA SpeltOut ==
  ASSUME TextsInv, NEW s \in Variables, NEW u, NEW p, Texts!Do(p),
         Spelt(Texts!Memory, p, s, u)
  PROVE  TextsInv' /\ (Texts!Texts)' = [Texts!Texts EXCEPT ![s] = u]
<1>1. PICK m : m = Texts!Memory
  OBVIOUS
<1>2. Sound(p) /\ p \in MemorySet /\ Spares(m, p, s) /\ Ended(p, s) /\ TextOf(p, s) = u
  BY <1>1 DEF Spelt, Sound
<1>3. Texts!Memory' = p /\ (Texts!Texts)' = TextsOf(p)
  BY <1>2, Done
<1>4. \A t \in Variables : Ended(p, t)
  BY <1>1, <1>2, SparesFits DEF TextsInv
<1>5. TextsInv'
  BY <1>2, <1>3, <1>4 DEF TextsInv
<1>6. \A t \in Variables \ {s} : TextOf(p, t) = TextOf(m, t)
  BY <1>2, SparesFits
<1>7. TextsOf(p) = [TextsOf(m) EXCEPT ![s] = u]
  BY <1>2, <1>6 DEF TextsOf
<1> QED BY <1>1, <1>3, <1>5, <1>7, Shown

LEMMA TextsStep ==
  ASSUME ContainersAssumption, TextsInv, Texts!Next
  PROVE  TextsInv' /\ [Texts!Abstract!Next]_(Texts!Texts)
<1> DEFINE T == Texts!Texts
           M == Texts!Memory
           Goal == TextsInv' /\ [Texts!Abstract!Next]_(Texts!Texts)
<1>1. Sound(M) /\ (\A s \in Variables : Ended(M, s)) /\ T = TextsOf(M)
      /\ M.string = string /\ M.block = block
  BY Shown DEF TextsInv
<1>2. \A s \in Variables :
        /\ T[s] = TextOf(M, s) /\ T[s] \in Seq(Char) /\ Len(T[s]) = string[s].size
        /\ string[s].size \in Nat
  BY <1>1, TextIs, FieldsOf DEF TextsOf
<1> HIDE DEF T, M
<1>3. ASSUME NEW s \in Variables, NEW c \in Characters, Texts!Append1(s, c) PROVE Goal
  <2>1. PICK sizeFirst \in BOOLEAN :
          LET r == Texts!Resize(M, s, string[s].size + 1, sizeFirst)
          IN  Texts!Do(Texts!Put(Texts!Unique(r, s), s, r.string[s].size, c))
    BY <1>3 DEF Texts!Append1, M
  <2>2. PICK r : r = Texts!Resize(M, s, string[s].size + 1, sizeFirst)
    OBVIOUS
  <2>3. PICK p : p = Texts!Put(Texts!Unique(r, s), s, r.string[s].size, c)
    OBVIOUS
  <2>4. Texts!Do(p)
    BY <2>1, <2>2, <2>3
  <2>5. Spelt(M, p, s, Append(T[s], c))
    BY <1>1, <1>2, <2>2, <2>3, AppendIs
  <2>6. TextsInv' /\ T' = [T EXCEPT ![s] = Append(T[s], c)]
    BY <2>4, <2>5, SpeltOut DEF T, M
  <2>7. Len(T[s]) < MaxText
    BY <1>2, <1>3 DEF Texts!Append1
  <2>8. Texts!Abstract!Append1(s, c)
    BY <2>6, <2>7 DEF Texts!Abstract!Append1, T
  <2> QED BY <2>6, <2>8 DEF Texts!Abstract!Next
<1>4. ASSUME NEW s \in Variables, NEW n \in 0..MaxText, Texts!Shorten(s, n) PROVE Goal
  <2>1. PICK sizeFirst \in BOOLEAN : Texts!Do(Texts!Resize(M, s, n, sizeFirst))
    BY <1>4 DEF Texts!Shorten, M
  <2>2. PICK p : p = Texts!Resize(M, s, n, sizeFirst)
    OBVIOUS
  <2>3. n \in Nat /\ n < Len(T[s])
    BY <1>2, <1>4, AllocatorFacts DEF Texts!Shorten
  <2>5. Spelt(M, p, s, SubSeq(T[s], 1, n))
    BY <1>1, <1>2, <2>2, <2>3, ShortenIs
  <2>6. TextsInv' /\ T' = [T EXCEPT ![s] = SubSeq(T[s], 1, n)]
    BY <2>1, <2>2, <2>5, SpeltOut DEF T, M
  <2>8. Texts!Abstract!Shorten(s, n)
    BY <2>3, <2>6 DEF Texts!Abstract!Shorten, T
  <2> QED BY <2>6, <2>8 DEF Texts!Abstract!Next
<1>5. ASSUME NEW s \in Variables, NEW c \in Characters, NEW i \in 1..MaxText, Texts!Write(s, i, c)
      PROVE  Goal
  <2>1. i \in 1..string[s].size /\ Texts!Do(Texts!Put(Texts!Unique(M, s), s, i, c))
    BY <1>5 DEF Texts!Write, M
  <2>2. PICK p : p = Texts!Put(Texts!Unique(M, s), s, i, c)
    OBVIOUS
  <2>5. Spelt(M, p, s, [T[s] EXCEPT ![i] = c])
    BY <1>1, <1>2, <2>1, <2>2, WriteIs
  <2>6. TextsInv' /\ T' = [T EXCEPT ![s] = [T[s] EXCEPT ![i] = c]]
    BY <2>1, <2>2, <2>5, SpeltOut DEF T, M
  <2>7. i \in DOMAIN T[s]
    BY <1>2, <2>1
  <2>8. Texts!Abstract!Write(s, i, c)
    BY <2>6, <2>7 DEF Texts!Abstract!Write, T
  <2> QED BY <2>6, <2>8 DEF Texts!Abstract!Next
<1>6. ASSUME NEW s \in Variables, Texts!Reset(s) PROVE Goal
  <2>1. PICK p : p = Texts!Free(M, s)
    OBVIOUS
  <2>2. Texts!Do(p)
    BY <1>6, <2>1 DEF Texts!Reset, M
  <2>3. Spelt(M, p, s, <<>>)
    BY <1>1, <2>1, FreeIs
  <2>4. TextsInv' /\ T' = [T EXCEPT ![s] = <<>>]
    BY <2>2, <2>3, SpeltOut DEF T, M
  <2>5. Texts!Abstract!Reset(s)
    BY <2>4 DEF Texts!Abstract!Reset, T
  <2> QED BY <2>4, <2>5 DEF Texts!Abstract!Next
<1>7. ASSUME NEW s \in Variables, NEW t \in Variables, s # t
      PROVE  /\ Spelt(M, Texts!Free(M, s), s, <<>>)
             /\ Sound(Texts!Free(M, s)) /\ Texts!Free(M, s).string[s] = Texts!NoString
             /\ Texts!Free(M, s).string[t] = string[t] /\ Ended(Texts!Free(M, s), t)
             /\ \A v \in Variables \ {s} :
                  TextOf(Texts!Free(M, s), v) = T[v] /\ Ended(Texts!Free(M, s), v)
  <2>1. PICK f : f = Texts!Free(M, s)
    OBVIOUS
  <2>2. Spelt(M, f, s, <<>>) /\ f.string[s] = Texts!NoString
    BY <1>1, <2>1, FreeIs
  <2>3. Sound(f) /\ Spares(M, f, s)
    BY <2>2 DEF Spelt
  <2>4. \A v \in Variables \ {s} : TextOf(f, v) = T[v] /\ Ended(f, v)
    BY <1>1, <1>2, <2>3, SparesFits
  <2>5. f.string[t] = string[t]
    BY <1>1, <1>7, <2>3 DEF Spares
  <2> QED BY <1>7, <2>1, <2>2, <2>3, <2>4, <2>5
<1>8. ASSUME NEW s \in Variables, NEW t \in Variables, Texts!Copy(s, t) PROVE Goal
  <2>1. CASE s = t
    <3>1. UNCHANGED <<string, block>>
      BY <1>8, <2>1 DEF Texts!Copy, Texts!vars
    <3>2. Texts!Memory' = Texts!Memory /\ (Texts!Texts)' = Texts!Texts
      BY <3>1 DEF Texts!Memory, Texts!Texts, Texts!Text, Texts!Data, Texts!Own
    <3>3. TextsInv'
      BY <3>2 DEF TextsInv
    <3> QED BY <3>2, <3>3
  <2>2. CASE s # t
    <3>1. PICK f : f = Texts!Free(M, s)
      OBVIOUS
    <3>2. /\ Spelt(M, f, s, <<>>) /\ Sound(f) /\ f.string[s] = Texts!NoString
          /\ f.string[t] = string[t] /\ Ended(f, t) /\ TextOf(f, t) = T[t]
      BY <1>7, <2>2, <3>1
    <3>3. PICK p : Taken(f, p, s, t)
      BY DEF Taken
    <3>4. Texts!Own(t) = Texts!Short(f, t)
      BY <3>2 DEF Texts!Own, Texts!Short
    <3>5. Texts!Do(p)
      <4>1. CASE Texts!Own(t)
        <5>1. Texts!Do([f EXCEPT !.string[s] = string[t]])
          BY <1>8, <2>2, <3>1, <4>1 DEF Texts!Copy, M
        <5> QED BY <3>2, <3>3, <3>4, <4>1, <5>1 DEF Taken
      <4>2. CASE ~Texts!Own(t)
        <5>1. Texts!Do([f EXCEPT !.block[string[t].block].refs = @ + 1, !.string[s] = string[t]])
          BY <1>8, <2>2, <3>1, <4>2 DEF Texts!Copy, M
        <5> QED BY <3>2, <3>3, <3>4, <4>2, <5>1 DEF Taken
      <4> QED BY <4>1, <4>2
    <3>6. Spelt(f, p, s, T[t])
      BY <2>2, <3>2, <3>3, TakesIs
    <3>7. Spelt(M, p, s, T[t])
      BY <3>2, <3>6 DEF Spelt, Spares
    <3>8. TextsInv' /\ T' = [T EXCEPT ![s] = T[t]]
      BY <3>5, <3>7, SpeltOut DEF T, M
    <3>9. Texts!Abstract!Copy(s, t)
      BY <3>8 DEF Texts!Abstract!Copy, T
    <3> QED BY <3>8, <3>9 DEF Texts!Abstract!Next
  <2> QED BY <2>1, <2>2
<1>9. ASSUME NEW s \in Variables, NEW t \in Variables, Texts!Move(s, t) PROVE Goal
  <2>1. PICK f : f = Texts!Free(M, s)
    OBVIOUS
  <2>2. s # t
    BY <1>9 DEF Texts!Move
  <2>3. /\ Sound(f) /\ f.string[s] = Texts!NoString
        /\ f.string[t] = string[t] /\ Ended(f, t)
        /\ \A v \in Variables \ {s} : TextOf(f, v) = T[v] /\ Ended(f, v)
    BY <1>7, <2>1, <2>2
  <2>4. PICK p : HandedOver(f, p, s, t)
    BY DEF HandedOver
  <2>5. Texts!Do(p)
    BY <1>9, <2>1, <2>3, <2>4 DEF Texts!Move, M, HandedOver
  <2>6. /\ Sound(p) /\ Ended(p, s) /\ Ended(p, t)
        /\ TextOf(p, s) = TextOf(f, t) /\ TextOf(p, t) = <<>>
        /\ \A v \in Variables \ {s, t} :
             TextOf(p, v) = TextOf(f, v) /\ (Ended(f, v) => Ended(p, v))
    BY <2>2, <2>3, <2>4, HandsOver
  <2>7. Texts!Memory' = p /\ (Texts!Texts)' = TextsOf(p)
    BY <2>5, <2>6, Done DEF Sound
  <2>8. TextsInv'
    <3>1. \A v \in Variables : Ended(p, v)
      BY <2>3, <2>6
    <3> QED BY <2>6, <2>7, <3>1 DEF TextsInv
  <2>9. T = [v \in Variables |-> T[v]]
    BY <1>1 DEF TextsOf
  <2>10. TextsOf(p) = [T EXCEPT ![s] = T[t], ![t] = <<>>]
    <3>1. \A v \in Variables : TextOf(p, v) = IF v = t THEN <<>> ELSE IF v = s THEN T[t] ELSE T[v]
      BY <2>2, <2>3, <2>6
    <3> QED BY <2>2, <2>9, <3>1 DEF TextsOf
  <2>11. Texts!Abstract!Move(s, t)
    BY <2>2, <2>7, <2>10 DEF Texts!Abstract!Move, T
  <2> QED BY <2>8, <2>11 DEF Texts!Abstract!Next
<1> QED BY <1>3, <1>4, <1>5, <1>6, <1>8, <1>9 DEF Texts!Next

LEMMA TextsPart ==
  ASSUME [Next]_vars
  PROVE  UNCHANGED textVars \/ Texts!Next
BY DEF Next, VectorNext, TextsNext, HashedNext, vars

LEMMA TextsStart ==
  ASSUME ContainersAssumption, Init
  PROVE  TextsInv /\ Texts!Abstract!Init
<1>1. string = [s \in Variables |-> Texts!NoString] /\ block = [b \in Blocks |-> Texts!NoMemory]
  BY DEF Init, Texts!Init
<1>2. PICK m : m = Texts!Memory
  OBVIOUS
<1>3. m = [string |-> string, block |-> block]
  BY <1>2 DEF Texts!Memory
<1> DEFINE no == Texts!NoString
<1>4. /\ no \in StringSet /\ no.text \in Seq(Char) /\ Len(no.text) = SSO
      /\ no.text[1] = "zero" /\ no.size = 0 /\ no.capacity = SSO - 1
  BY NoStringIs
<1>5. Texts!NoMemory \in BlockSet /\ Texts!NoMemory.refs = 0
  <2>1. <<>> \in Seq(Char)
    OBVIOUS
  <2> QED BY <2>1 DEF Texts!NoMemory, BlockSet
<1>6. SSO \in Nat \ {0}
  BY AllocatorFacts
<1> HIDE DEF no
<1>7. m \in MemorySet
  BY <1>1, <1>3, <1>4, <1>5 DEF MemorySet, no
<1>8. \A s \in Variables : m.string[s] = no /\ Texts!Short(m, s) /\ DataOf(m, s) = no.text
  BY <1>1, <1>3, <1>4, <1>6 DEF Texts!Short, DataOf, no
<1>9. \A s \in Variables : Fits(m, s) /\ Ended(m, s)
  BY <1>4, <1>6, <1>8 DEF Fits, Ended
<1>10. Counted(m)
  <2> SUFFICES ASSUME NEW b \in Blocks PROVE m.block[b].refs = Cardinality(Sharers(m, b))
    BY DEF Counted
  <2>1. Sharers(m, b) = {}
    BY <1>8 DEF Sharers
  <2>2. m.block[b].refs = 0
    BY <1>1, <1>3, <1>5
  <2> QED BY <2>1, <2>2, FS_EmptySet
<1>11. Sound(m)
  BY <1>7, <1>9, <1>10 DEF Sound
<1>12. \A s \in Variables : TextOf(m, s) = <<>>
  <2> TAKE s \in Variables
  <2>1. TextOf(m, s) \in Seq(Char) /\ Len(TextOf(m, s)) = 0
    BY <1>4, <1>8, <1>11, TextIs
  <2> QED BY <2>1
<1>13. Texts!Texts = [s \in Variables |-> <<>>]
  BY <1>2, <1>12, Shown DEF TextsOf
<1> QED BY <1>2, <1>9, <1>11, <1>13 DEF TextsInv, Texts!Abstract!Init

LEMMA TextsInvariant ==
  ASSUME ContainersAssumption, TextsInv, [Next]_vars
  PROVE  TextsInv' /\ [Texts!Abstract!Next]_(Texts!Texts)
<1>1. CASE UNCHANGED textVars
  <2>1. Texts!Memory' = Texts!Memory /\ (Texts!Texts)' = Texts!Texts
    BY <1>1 DEF textVars, Texts!Memory, Texts!Texts, Texts!Text, Texts!Data, Texts!Own
  <2> QED BY <2>1 DEF TextsInv
<1>2. CASE Texts!Next
  BY <1>2, TextsStep
<1> QED BY <1>1, <1>2, TextsPart

LEMMA TextsMean ==
  ASSUME ContainersAssumption, TextsInv
  PROVE  Texts!BlocksAreCounted /\ Texts!TextIsTerminated
<1>1. /\ Sound(Texts!Memory) /\ \A s \in Variables : Ended(Texts!Memory, s)
      /\ Texts!Memory.string = string /\ Texts!Memory.block = block
  BY Shown DEF TextsInv
<1>2. \A s \in Variables : /\ Texts!Own(s) = Texts!Short(Texts!Memory, s)
                           /\ Texts!Data(s) = DataOf(Texts!Memory, s)
  BY <1>1 DEF Texts!Own, Texts!Short, Texts!Data, DataOf
<1>3. Texts!BlocksAreCounted
  <2>1. \A S : Texts!Cardinality(S) = Cardinality(S)
    BY DEF Texts!Cardinality, Cardinality
  <2>2. \A b \in Blocks : Sharers(Texts!Memory, b) = {s \in Variables : ~Texts!Own(s) /\ string[s].block = b}
    BY <1>1, <1>2 DEF Sharers
  <2> QED BY <1>1, <2>1, <2>2 DEF Texts!BlocksAreCounted, Sound, Counted
<1>4. Texts!TextIsTerminated
  <2> SUFFICES ASSUME NEW s \in Variables
               PROVE  /\ string[s].size <= string[s].capacity
                      /\ Texts!Data(s)[string[s].size + 1] = "zero"
    BY DEF Texts!TextIsTerminated, Texts!Zero
  <2>1. string[s].size <= string[s].capacity
    BY <1>1 DEF Sound, Fits
  <2> QED BY <1>1, <1>2, <2>1 DEF Ended
<1> QED BY <1>3, <1>4

(* nall::string (adaptive.hpp): though copies share blocks until one of    *)
(* them writes, each variable has a text of its own; every block counts    *)
(* the strings that share it, and every text ends in a zero.               *)
THEOREM StringsAreApart == Spec => ImplementsStrings
<1>1. Init => TextsInv /\ Texts!Abstract!Init
  BY ContainersAssumption, TextsStart
<1>2. TextsInv /\ [Next]_vars => TextsInv'
  BY ContainersAssumption, TextsInvariant
<1>3. TextsInv /\ [Next]_vars => (scenario = "strings" => [Texts!Abstract!Next]_(Texts!Texts))
  BY ContainersAssumption, TextsInvariant
<1>4. TextsInv => Texts!BlocksAreCounted /\ Texts!TextIsTerminated
  BY ContainersAssumption, TextsMean
<1> QED BY <1>1, <1>2, <1>3, <1>4, PTL DEF Spec, ImplementsStrings

-------------------------------------------------------------------------------
(* The hash set.  Sums modulo n: h + i is h's remainder moved on by i.      *)
LEMMA Remainder ==
  ASSUME NEW n \in Nat \ {0}, NEW q \in Nat, NEW s \in 0..(n-1)
  PROVE (n * q + s) % n = s
OBVIOUS
LEMMA Divided ==
  ASSUME NEW n \in Nat \ {0}, NEW a \in Nat
  PROVE \E q \in Nat : a = n * q + (a % n) /\ (a % n) \in 0..(n-1)
<1>1. a \div n \in Nat /\ a = n * (a \div n) + (a % n) /\ (a % n) \in 0..(n-1)
  OBVIOUS
<1> QED BY <1>1
LEMMA Turned ==
  ASSUME NEW n \in Nat \ {0}, NEW h \in Nat, NEW i \in 0..(n-1)
  PROVE (h + i) % n = IF (h % n) + i < n THEN (h % n) + i ELSE ((h % n) + i) - n
<1>1. PICK q \in Nat : h = n * q + (h % n) /\ (h % n) \in 0..(n-1)
  BY Divided
<1>2. PICK r \in 0..(n-1) : r = h % n
  BY <1>1
<1>3. CASE r + i < n
  <2>1. h + i = n * q + (r + i) /\ r + i \in 0..(n-1)
    BY <1>1, <1>2, <1>3
  <2> QED BY <1>2, <1>3, <2>1, Remainder
<1>4. CASE ~(r + i < n)
  <2>1. r + i - n \in 0..(n-1) /\ q + 1 \in Nat
    BY <1>2, <1>4
  <2>2. n * (q + 1) = n * q + n
    OBVIOUS
  <2>3. h + i = n * (q + 1) + (r + i - n)
    <3>1. PICK x, y : x = n * q /\ x \in Nat /\ y = n * (q + 1)
      OBVIOUS
    <3>2. h = x + r /\ y = x + n
      BY <1>1, <1>2, <2>2, <3>1
    <3>3. h + i = y + (r + i - n)
      BY <1>2, <3>1, <3>2
    <3> QED BY <3>1, <3>3
  <2>4. (n * (q + 1) + (r + i - n)) % n = r + i - n
    BY <2>1, Remainder
  <2> QED BY <1>2, <1>4, <2>3, <2>4
<1> QED BY <1>3, <1>4

(* A search visits every slot once: it turns around the end of the pool.   *)
Ring(n)       == 0 .. (n - 1)
Turn(n, e, i) == (Hash[e] + i) % n

LEMMA HashFacts ==
  ASSUME ContainersAssumption
  PROVE  /\ Nothing \notin Items /\ \A e \in Items : Hash[e] \in Nat
         /\ Lengths \subseteq Nat \ {0}
BY DEF ContainersAssumption, Hashed!HashSetAssumption

LEMMA Turns ==
  ASSUME ContainersAssumption, NEW n \in Nat \ {0}, NEW e \in Items
  PROVE  /\ \A i \in Ring(n) : Turn(n, e, i) \in Ring(n)
         /\ \A k \in Ring(n) : \E i \in Ring(n) : Turn(n, e, i) = k
<1>1. PICK h \in Nat : h = Hash[e]
  BY HashFacts
<1>2. PICK r \in Ring(n) : r = h % n
  BY Divided DEF Ring
<1>3. \A i \in Ring(n) : Turn(n, e, i) = IF r + i < n THEN r + i ELSE (r + i) - n
  BY <1>1, <1>2, Turned DEF Ring, Turn
<1>4. ASSUME NEW k \in Ring(n) PROVE \E i \in Ring(n) : Turn(n, e, i) = k
  <2>1. CASE r <= k
    <3>1. k - r \in Ring(n) /\ r + (k - r) < n /\ r + (k - r) = k
      BY <1>2, <2>1 DEF Ring
    <3> QED BY <1>3, <3>1
  <2>2. CASE ~(r <= k)
    <3>1. /\ k + n - r \in Ring(n) /\ ~(r + (k + n - r) < n)
          /\ (r + (k + n - r)) - n = k
      BY <1>2, <2>2 DEF Ring
    <3> QED BY <1>3, <3>1
  <2> QED BY <1>2, <2>1, <2>2 DEF Ring
<1>5. \A i \in Ring(n) : (IF r + i < n THEN r + i ELSE (r + i) - n) \in Ring(n)
  BY <1>2 DEF Ring
<1> QED BY <1>3, <1>4, <1>5

LEMMA Least ==
  ASSUME NEW T \in SUBSET Nat, T # {}
  PROVE  \E i \in T : \A j \in T : i <= j
<1> SUFFICES ASSUME \A i \in T : \E j \in T : j < i PROVE FALSE
  OBVIOUS
<1> DEFINE S == {k \in Nat : \A j \in 0..k : j \notin T}
<1>1. 0 \in S
  OBVIOUS
<1>2. ASSUME NEW k \in Nat, k \in S PROVE k + 1 \in S
  <2>1. \A j \in 0..(k + 1) : j \in 0..k \/ j = k + 1
    OBVIOUS
  <2>2. \A j \in T : ~(j < k + 1)
    <3> SUFFICES ASSUME NEW j \in T, j < k + 1 PROVE FALSE
      OBVIOUS
    <3>1. j \in 0..k
      OBVIOUS
    <3> QED BY <1>2, <3>1
  <2>3. k + 1 \notin T
    BY <2>2
  <2> QED BY <1>2, <2>1, <2>3
<1> HIDE DEF S
<1>3. \A k \in Nat : k \in S
  BY <1>1, <1>2, NatSet
<1>4. PICK i \in T : TRUE
  OBVIOUS
<1>5. i \in S /\ i \in 0..i
  BY <1>3, <1>4
<1> QED BY <1>5 DEF S

LEMMA LengthIs ==
  ASSUME NEW n \in Nat \ {0}, NEW S, NEW p \in [Ring(n) -> S]
  PROVE  Hashed!Length(p) = n
<1>1. \A T : Hashed!Cardinality(T) = Cardinality(T)
  BY DEF Hashed!Cardinality, Cardinality
<1>2. DOMAIN p = 0..(n - 1)
  BY DEF Ring
<1>3. Cardinality(0..(n - 1)) = n
  BY FS_Interval
<1> QED BY <1>1, <1>2, <1>3 DEF Hashed!Length

(* A search ends at the first slot it meets that holds one of stops.       *)
LEMMA SearchIs ==
  ASSUME ContainersAssumption, NEW n \in Nat \ {0}, NEW S, NEW p \in [Ring(n) -> S],
         NEW e \in Items, NEW stops, \E k \in Ring(n) : p[k] \in stops
  PROVE  \E i \in Ring(n) : /\ Hashed!Search(p, e, stops) = Turn(n, e, i)
                            /\ p[Turn(n, e, i)] \in stops
                            /\ \A j \in 0..(i - 1) : p[Turn(n, e, j)] \notin stops
<1> DEFINE First(i) == /\ p[Turn(n, e, i)] \in stops
                       /\ \A j \in 0..(i - 1) : p[Turn(n, e, j)] \notin stops
           T == {i \in Ring(n) : p[Turn(n, e, i)] \in stops}
<1>1. T # {} /\ T \in SUBSET Nat
  <2>1. PICK k \in Ring(n) : p[k] \in stops
    OBVIOUS
  <2>2. PICK i \in Ring(n) : Turn(n, e, i) = k
    BY Turns
  <2>3. i \in T
    BY <2>1, <2>2
  <2>4. T \subseteq Ring(n) /\ Ring(n) \subseteq Nat
    BY DEF Ring
  <2> QED BY <2>3, <2>4
<1>2. PICK i \in T : \A j \in T : i <= j
  <2> HIDE DEF T
  <2> QED BY <1>1, Least
<1>3. First(i)
  <2> SUFFICES ASSUME NEW j \in 0..(i - 1) PROVE j \notin T /\ j \in Ring(n)
    OBVIOUS
  <2>1. i \in Ring(n)
    BY <1>2
  <2>2. j \in Ring(n) /\ ~(i <= j)
    BY <2>1 DEF Ring
  <2> QED BY <1>2, <2>2
<1>4. Hashed!Search(p, e, stops) = Turn(n, e, CHOOSE k \in Ring(n) : First(k))
  BY LengthIs DEF Hashed!Search, Turn, Ring
<1>5. PICK c : c = CHOOSE k \in Ring(n) : First(k)
  OBVIOUS
<1>6. c \in Ring(n) /\ First(c)
  <2>1. \E k \in Ring(n) : First(k)
    BY <1>2, <1>3
  <2> HIDE DEF First
  <2> QED BY <1>5, <2>1
<1> QED BY <1>4, <1>5, <1>6

-------------------------------------------------------------------------------
(* A pool of n slots with the elements of M, each in one slot.             *)
Holds(p, n, M) ==
  /\ n \in Nat \ {0} /\ p \in [Ring(n) -> Items \cup {Nothing}] /\ M \subseteq Items
  /\ \A i \in Ring(n) : p[i] # Nothing => p[i] \in M
  /\ \A e \in M : \E i \in Ring(n) : p[i] = e
  /\ \A i, j \in Ring(n) : p[i] = p[j] /\ p[i] # Nothing => i = j

(* No free slot lies between an element and the slot of its hash.          *)
Near(p, n, e) ==
  \E i \in Ring(n) : p[Turn(n, e, i)] = e /\ \A j \in 0..(i - 1) : p[Turn(n, e, j)] # Nothing

Occupied(p, n) == {i \in Ring(n) : p[i] # Nothing}

LEMMA Counts ==
  ASSUME ContainersAssumption, NEW p, NEW n, NEW M, Holds(p, n, M)
  PROVE  /\ IsFiniteSet(M) /\ Cardinality(M) = Cardinality(Occupied(p, n))
         /\ Cardinality(M) \in Nat /\ Cardinality(M) <= n
         /\ Cardinality(M) < n => \E i \in Ring(n) : p[i] = Nothing
<1> DEFINE O == Occupied(p, n)
           f == [i \in O |-> p[i]]
<1>1. IsFiniteSet(Ring(n)) /\ Cardinality(Ring(n)) = n /\ n \in Nat \ {0}
  BY FS_Interval DEF Ring, Holds
<1>2. IsFiniteSet(O) /\ Cardinality(O) <= n /\ Cardinality(O) \in Nat
  BY <1>1, FS_Subset, FS_CardinalityType DEF Occupied
<1>3. f \in Bijection(O, M)
  <2>1. f \in [O -> M]
    BY DEF Holds, Occupied
  <2>2. \A i, j \in O : f[i] = f[j] => i = j
    BY DEF Holds, Occupied
  <2>3. \A e \in M : \E i \in O : f[i] = e
    BY HashFacts DEF Holds, Occupied
  <2> HIDE DEF f, O
  <2> QED BY <2>1, <2>2, <2>3 DEF Bijection, Injection, IsInjective, Surjection
<1>4. IsFiniteSet(M) /\ Cardinality(M) = Cardinality(O)
  <2> HIDE DEF f, O
  <2> QED BY <1>2, <1>3, FS_Bijection DEF ExistsBijection
<1>5. ASSUME \A i \in Ring(n) : p[i] # Nothing PROVE Cardinality(O) = n
  <2>1. O = Ring(n)
    BY <1>5 DEF Occupied
  <2> QED BY <1>1, <2>1
<1> HIDE DEF O
<1> QED BY <1>2, <1>4, <1>5 DEF O

(* find() on such a pool, with a free slot to end at.                      *)
LEMMA FindIs ==
  ASSUME ContainersAssumption, NEW p, NEW n, NEW M, Holds(p, n, M), Cardinality(M) < n,
         NEW e \in Items
  PROVE  /\ Hashed!PlaceOf(p, e) \in Ring(n)
         /\ Hashed!Finds(p, e) => e \in M
         /\ e \in M /\ Near(p, n, e) => Hashed!Finds(p, e)
<1>1. n \in Nat \ {0} /\ p \in [Ring(n) -> Items \cup {Nothing}] /\ e # Nothing
  BY HashFacts DEF Holds
<1>2. \E k \in Ring(n) : p[k] \in {e, Nothing}
  BY Counts
<1>3. PICK i \in Ring(n) : /\ Hashed!PlaceOf(p, e) = Turn(n, e, i)
                           /\ p[Turn(n, e, i)] \in {e, Nothing}
                           /\ \A j \in 0..(i - 1) : p[Turn(n, e, j)] \notin {e, Nothing}
  BY <1>1, <1>2, SearchIs DEF Hashed!PlaceOf
<1>4. Turn(n, e, i) \in Ring(n)
  BY <1>1, Turns
<1>5. ASSUME Hashed!Finds(p, e) PROVE e \in M
  BY <1>1, <1>3, <1>4, <1>5 DEF Hashed!Finds, Holds
<1>6. ASSUME Near(p, n, e) PROVE p[Turn(n, e, i)] = e
  <2>1. PICK k \in Ring(n) : /\ p[Turn(n, e, k)] = e
                             /\ \A j \in 0..(k - 1) : p[Turn(n, e, j)] # Nothing
    BY <1>6 DEF Near
  <2>2. CASE i < k
    <3>1. i \in 0..(k - 1)
      BY <2>2 DEF Ring
    <3> QED BY <1>3, <2>1, <3>1
  <2>3. CASE k < i
    <3>1. k \in 0..(i - 1)
      BY <2>3 DEF Ring
    <3> QED BY <1>3, <2>1, <3>1
  <2>4. i < k \/ k < i \/ i = k
    BY <1>1 DEF Ring
  <2> QED BY <2>1, <2>2, <2>3, <2>4
<1> QED BY <1>3, <1>4, <1>5, <1>6 DEF Hashed!Finds

(* insert(), once there is room.                                           *)
LEMMA PlaceIs ==
  ASSUME ContainersAssumption, NEW p, NEW n, NEW M, Holds(p, n, M), Cardinality(M) < n,
         NEW e \in Items \ M
  PROVE  /\ Holds(Hashed!Place(p, e), n, M \cup {e})
         /\ Near(Hashed!Place(p, e), n, e)
         /\ \A x \in M : Near(p, n, x) => Near(Hashed!Place(p, e), n, x)
<1>1. n \in Nat \ {0} /\ p \in [Ring(n) -> Items \cup {Nothing}] /\ e # Nothing
  BY HashFacts DEF Holds
<1>2. \E k \in Ring(n) : p[k] \in {Nothing}
  BY Counts
<1>3. PICK i \in Ring(n) : /\ Hashed!FreeSlot(p, e) = Turn(n, e, i)
                           /\ p[Turn(n, e, i)] \in {Nothing}
                           /\ \A j \in 0..(i - 1) : p[Turn(n, e, j)] \notin {Nothing}
  BY <1>1, <1>2, SearchIs DEF Hashed!FreeSlot
<1>4. PICK k \in Ring(n) : k = Turn(n, e, i)
  BY <1>1, Turns
<1>5. PICK q : q = Hashed!Place(p, e)
  OBVIOUS
<1>6. /\ q \in [Ring(n) -> Items \cup {Nothing}] /\ q[k] = e /\ p[k] = Nothing
      /\ \A j \in Ring(n) \ {k} : q[j] = p[j]
  BY <1>1, <1>3, <1>4, <1>5 DEF Hashed!Place
<1>7. Holds(q, n, M \cup {e})
  <2>1. \A j \in Ring(n) : q[j] # Nothing => q[j] \in M \cup {e}
    BY <1>6 DEF Holds
  <2>2. \A x \in M \cup {e} : \E j \in Ring(n) : q[j] = x
    BY <1>1, <1>6, HashFacts DEF Holds
  <2>3. \A j \in Ring(n) \ {k} : q[j] # e
    BY <1>1, <1>6 DEF Holds
  <2>4. \A j, l \in Ring(n) : q[j] = q[l] /\ q[j] # Nothing => j = l
    BY <1>6, <2>3 DEF Holds
  <2> QED BY <1>1, <1>6, <2>1, <2>2, <2>4 DEF Holds
<1>8. Near(q, n, e)
  <2>1. \A j \in 0..(i - 1) : j \in Ring(n)
    BY <1>1 DEF Ring
  <2>2. \A j \in 0..(i - 1) : Turn(n, e, j) \in Ring(n) /\ p[Turn(n, e, j)] # Nothing
    BY <1>1, <1>3, <2>1, Turns
  <2>3. \A j \in 0..(i - 1) : q[Turn(n, e, j)] # Nothing
    BY <1>1, <1>6, <2>2
  <2> QED BY <1>3, <1>4, <1>6, <2>3 DEF Near
<1>9. ASSUME NEW x \in M, Near(p, n, x) PROVE Near(q, n, x)
  <2>1. PICK l \in Ring(n) : /\ p[Turn(n, x, l)] = x
                             /\ \A j \in 0..(l - 1) : p[Turn(n, x, j)] # Nothing
    BY <1>9 DEF Near
  <2>2. x \in Items /\ x # Nothing
    BY HashFacts DEF Holds
  <2>3. \A j \in 0..l : j \in Ring(n)
    BY <1>1 DEF Ring
  <2>4. \A j \in 0..l : Turn(n, x, j) \in Ring(n)
    BY <1>1, <2>2, <2>3, Turns
  <2>5. l \in 0..l /\ \A j \in 0..(l - 1) : j \in 0..l
    BY DEF Ring
  <2>6. \A j \in Ring(n) : p[j] # Nothing => q[j] = p[j]
    BY <1>6
  <2>7. q[Turn(n, x, l)] = x
    BY <2>1, <2>2, <2>4, <2>5, <2>6
  <2>8. \A j \in 0..(l - 1) : q[Turn(n, x, j)] # Nothing
    BY <2>1, <2>4, <2>5, <2>6
  <2> QED BY <2>7, <2>8 DEF Near
<1> QED BY <1>5, <1>7, <1>8, <1>9

(* reserve() takes the elements over in the order of their slots: what the *)
(* new pool is when slot i - 1 was looked at.                              *)
Carried(p, q, i) == IF p[i - 1] = Nothing THEN q ELSE Hashed!Place(q, p[i - 1])
Carries(p, m, f, k) == f[0] = Hashed!Empty(m) /\ \A i \in 1..k : f[i] = Carried(p, f[i - 1], i)

LEMMA ReserveCarries ==
  ASSUME NEW n \in Nat \ {0}, NEW p \in [Ring(n) -> Items \cup {Nothing}], NEW m
  PROVE  \E f : Hashed!Reserve(p, m) = f[n] /\ Carries(p, m, f, n)
<1> DEFINE Step(f) == [i \in 0..n |-> IF i = 0 THEN Hashed!Empty(m) ELSE Carried(p, f[i - 1], i)]
           S == {k \in Nat : \E f : DOMAIN f = 0..k /\ Carries(p, m, f, k)}
<1>1. \E f : f = Step(f)
  <2>1. 0 \in S
    <3> DEFINE f == [i \in 0..0 |-> Hashed!Empty(m)]
    <3>1. DOMAIN f = 0..0 /\ Carries(p, m, f, 0)
      BY DEF Carries
    <3> QED BY <3>1
  <2>2. ASSUME NEW k \in Nat, k \in S PROVE k + 1 \in S
    <3>1. PICK g : DOMAIN g = 0..k /\ Carries(p, m, g, k)
      BY <2>2
    <3> DEFINE f == [i \in 0..(k + 1) |-> IF i = k + 1 THEN Carried(p, g[k], k + 1) ELSE g[i]]
    <3>2. f[0] = Hashed!Empty(m)
      BY <3>1 DEF Carries
    <3>3. ASSUME NEW i \in 1..(k + 1) PROVE f[i] = Carried(p, f[i - 1], i)
      <4>1. i - 1 \in 0..(k + 1) /\ i - 1 # k + 1 /\ i \in 0..(k + 1)
        OBVIOUS
      <4>2. f[i - 1] = g[i - 1]
        BY <4>1
      <4>3. CASE i = k + 1
        <5>1. f[i] = Carried(p, g[k], k + 1) /\ i - 1 = k
          BY <4>1, <4>3
        <5> QED BY <4>2, <4>3, <5>1
      <4>4. CASE i # k + 1
        <5>1. f[i] = g[i] /\ i \in 1..k
          BY <4>1, <4>4
        <5> QED BY <3>1, <4>2, <5>1 DEF Carries
      <4> QED BY <4>3, <4>4
    <3>4. DOMAIN f = 0..(k + 1)
      OBVIOUS
    <3> HIDE DEF f
    <3> QED BY <3>2, <3>3, <3>4 DEF Carries
  <2>3. n \in S
    <3> HIDE DEF S
    <3> QED BY <2>1, <2>2, NatSet
  <2>4. PICK f : DOMAIN f = 0..n /\ Carries(p, m, f, n)
    BY <2>3
  <2> QED
    <3>1. PICK g : g = Step(f)
      OBVIOUS
    <3>2. DOMAIN g = 0..n /\ g = [i \in 0..n |-> g[i]]
      BY <3>1
    <3> QED BY <2>4, <3>1 DEF Carries
<1>2. Hashed!Reserve(p, m) = (CHOOSE f : f = Step(f))[n]
  <2>1. Hashed!Length(p) = n
    BY LengthIs
  <2> QED BY <2>1 DEF Hashed!Reserve, Carried
<1>3. PICK f : f = (CHOOSE g : g = Step(g))
  OBVIOUS
<1>4. f = Step(f)
  <2> HIDE DEF Step
  <2> QED BY <1>1, <1>3
<1>5. Carries(p, m, f, n)
  <2>1. f[0] = Hashed!Empty(m)
    <3>1. 0 \in 0..n
      OBVIOUS
    <3> QED BY <1>4, <3>1
  <2>2. ASSUME NEW i \in 1..n PROVE f[i] = Carried(p, f[i - 1], i)
    <3>1. i \in 0..n /\ i # 0
      OBVIOUS
    <3> QED BY <1>4, <3>1
  <2> QED BY <2>1, <2>2 DEF Carries
<1> QED BY <1>2, <1>3, <1>5

LEMMA EmptyIs ==
  ASSUME ContainersAssumption, NEW m \in Nat \ {0}
  PROVE  Holds(Hashed!Empty(m), m, {})
BY DEF Hashed!Empty, Holds, Ring

LEMMA MovedIs ==
  ASSUME ContainersAssumption, NEW p, NEW n, NEW M, Holds(p, n, M),
         NEW m \in Nat \ {0}, Cardinality(M) < m
  PROVE  /\ Holds(Hashed!Reserve(p, m), m, M)
         /\ \A e \in M : Near(Hashed!Reserve(p, m), m, e)
<1> DEFINE Part(i) == {e \in M : \E j \in Ring(i) : p[j] = e}
           Good(q, i) == Holds(q, m, Part(i)) /\ \A e \in Part(i) : Near(q, m, e)
<1>1. n \in Nat \ {0} /\ p \in [Ring(n) -> Items \cup {Nothing}]
  BY DEF Holds
<1>2. PICK f : Hashed!Reserve(p, m) = f[n] /\ Carries(p, m, f, n)
  BY <1>1, ReserveCarries
<1> DEFINE S == {i \in Nat : i <= n => Good(f[i], i)}
<1>3. 0 \in S
  <2>1. Part(0) = {}
    BY DEF Ring
  <2>2. Holds(f[0], m, {})
    BY <1>2, EmptyIs DEF Carries
  <2> QED BY <2>1, <2>2
<1>4. ASSUME NEW i \in Nat, i \in S, i + 1 <= n PROVE Good(f[i + 1], i + 1)
  <2>1. Good(f[i], i)
    BY <1>1, <1>4
  <2>2. i \in Ring(n) /\ i + 1 \in 1..n /\ (i + 1) - 1 = i
    BY <1>1, <1>4 DEF Ring
  <2>3. f[i + 1] = IF p[i] = Nothing THEN f[i] ELSE Hashed!Place(f[i], p[i])
    BY <1>2, <2>2 DEF Carries, Carried
  <2>4. Ring(i + 1) = Ring(i) \cup {i} /\ i \notin Ring(i) /\ Ring(i) \subseteq Ring(n)
    BY <1>1, <1>4 DEF Ring
  <2>5. CASE p[i] = Nothing
    <3>1. Part(i + 1) = Part(i)
      BY <2>4, <2>5, HashFacts DEF Holds
    <3> HIDE DEF Part
    <3> QED BY <2>1, <2>3, <2>5, <3>1
  <2>6. CASE p[i] # Nothing
    <3>1. p[i] \in M /\ p[i] \in Items
      BY <2>2, <2>6 DEF Holds
    <3>2. p[i] \notin Part(i)
      BY <2>2, <2>4, <2>6 DEF Holds
    <3>3. Part(i + 1) = Part(i) \cup {p[i]}
      BY <2>4, <3>1
    <3>4. Cardinality(Part(i)) < m
      <4>1. IsFiniteSet(M) /\ Cardinality(M) \in Nat
        BY Counts
      <4>2. Part(i) \subseteq M
        OBVIOUS
      <4> HIDE DEF Part
      <4>3. Cardinality(Part(i)) <= Cardinality(M) /\ Cardinality(Part(i)) \in Nat
        BY <4>1, <4>2, FS_Subset, FS_CardinalityType
      <4> QED BY <4>1, <4>3
    <3> HIDE DEF Part
    <3>5. PICK e : e = p[i]
      OBVIOUS
    <3>6. PICK q : q = Hashed!Place(f[i], e)
      OBVIOUS
    <3>7. /\ Holds(q, m, Part(i) \cup {e}) /\ Near(q, m, e)
          /\ \A x \in Part(i) : Near(f[i], m, x) => Near(q, m, x)
      <4>1. e \in Items \ Part(i) /\ Holds(f[i], m, Part(i))
        BY <2>1, <3>1, <3>2, <3>5
      <4> QED BY <3>4, <3>6, <4>1, PlaceIs
    <3> QED BY <2>1, <2>3, <2>6, <3>3, <3>5, <3>6, <3>7
  <2> QED BY <2>5, <2>6
<1>5. Good(f[n], n)
  <2>1. \A i \in Nat : i \in S => i + 1 \in S
    <3> HIDE DEF Good
    <3> QED BY <1>4
  <2> HIDE DEF S
  <2>2. n \in S
    BY <1>1, <1>3, <2>1, NatSet
  <2> HIDE DEF Good
  <2> QED BY <1>1, <2>2 DEF S
<1>6. Part(n) = M
  BY DEF Holds
<1> HIDE DEF Part
<1> QED BY <1>2, <1>5, <1>6

-------------------------------------------------------------------------------
(* The pool holds the members, at most half of it once there is one, and   *)
(* each lies near its hash as long as none was removed.                    *)
HashInv ==
  /\ count = Cardinality(members)
  /\ \E n \in Nat : /\ Holds(slots, n, members)
                    /\ members # {} => 2 * count <= n
                    /\ ~removed => \A e \in members : Near(slots, n, e)

(* Room for one more, at half the load.                                    *)
LEMMA GrownIs ==
  ASSUME ContainersAssumption, NEW n \in Nat, Holds(slots, n, members),
         count = Cardinality(members), members # {} => 2 * count <= n
  PROVE  \E k \in Nat : /\ Holds(Hashed!Grown(slots), k, members)
                        /\ 2 * (count + 1) <= k
                        /\ \A e \in members : Near(slots, n, e) => Near(Hashed!Grown(slots), k, e)
<1>1. n \in Nat \ {0} /\ count \in Nat /\ (members = {} => count = 0)
  BY Counts, FS_EmptySet DEF Holds
<1>2. Hashed!Length(slots) = n
  BY <1>1, LengthIs DEF Holds
<1>3. CASE count >= n \div 2
  <2>1. Hashed!Grown(slots) = Hashed!Reserve(slots, 2 * n)
    BY <1>2, <1>3 DEF Hashed!Grown
  <2>2. 2 * n \in Nat \ {0} /\ 2 * (count + 1) <= 2 * n /\ count < 2 * n
    BY <1>1
  <2>3. PICK k \in Nat \ {0} : k = 2 * n
    BY <2>2
  <2>4. Cardinality(members) < k
    BY <2>2, <2>3
  <2> QED BY <2>1, <2>2, <2>3, <2>4, MovedIs
<1>4. CASE ~(count >= n \div 2)
  <2>1. Hashed!Grown(slots) = slots
    BY <1>2, <1>4 DEF Hashed!Grown
  <2>2. 2 * (count + 1) <= n
    BY <1>1, <1>4
  <2> QED BY <2>1, <2>2
<1> QED BY <1>3, <1>4

LEMMA HashInsert ==
  ASSUME ContainersAssumption, HashInv, NEW e \in Items, Hashed!Insert(e)
  PROVE  HashInv'
<1>1. PICK n \in Nat : /\ Holds(slots, n, members)
                       /\ members # {} => 2 * count <= n
                       /\ ~removed => \A x \in members : Near(slots, n, x)
  BY DEF HashInv
<1>2. count = Cardinality(members) /\ count \in Nat /\ IsFiniteSet(members)
  BY <1>1, Counts DEF HashInv
<1>3. PICK p : p = Hashed!Grown(slots)
  OBVIOUS
<1>4. PICK k \in Nat : /\ Holds(p, k, members) /\ 2 * (count + 1) <= k
                       /\ \A x \in members : Near(slots, n, x) => Near(p, k, x)
  BY <1>1, <1>2, <1>3, GrownIs
<1>5. /\ e \notin members /\ slots' = Hashed!Place(p, e) /\ count' = count + 1
      /\ members' = members \cup {e} /\ removed' = removed
  BY <1>3 DEF Hashed!Insert
<1>6. Cardinality(members) < k
  BY <1>2, <1>4
<1>7. /\ Holds(slots', k, members') /\ Near(slots', k, e)
      /\ \A x \in members : Near(p, k, x) => Near(slots', k, x)
  BY <1>4, <1>5, <1>6, PlaceIs
<1>8. count' = Cardinality(members')
  BY <1>2, <1>5, FS_AddElement
<1>9. ~removed' => \A x \in members' : Near(slots', k, x)
  BY <1>1, <1>4, <1>5, <1>7
<1> QED BY <1>4, <1>5, <1>7, <1>8, <1>9 DEF HashInv

LEMMA HashRemove ==
  ASSUME ContainersAssumption, HashInv, NEW e \in Items, Hashed!Remove(e)
  PROVE  HashInv'
<1>1. PICK n \in Nat : Holds(slots, n, members) /\ (members # {} => 2 * count <= n)
  BY DEF HashInv
<1>2. count = Cardinality(members) /\ count \in Nat /\ IsFiniteSet(members) /\ n \in Nat \ {0}
  BY <1>1, Counts DEF HashInv, Holds
<1>3. Cardinality(members) < n
  BY <1>1, <1>2, FS_EmptySet
<1>4. PICK k \in Ring(n) : k = Hashed!PlaceOf(slots, e) /\ slots[k] = e /\ e \in members
  BY <1>1, <1>3, FindIs DEF Hashed!Remove, Hashed!Finds
<1>5. /\ slots' = [slots EXCEPT ![k] = Nothing] /\ count' = count - 1
      /\ members' = members \ {e} /\ removed' = TRUE
  BY <1>4 DEF Hashed!Remove
<1>6. Holds(slots', n, members')
  <2>1. /\ slots' \in [Ring(n) -> Items \cup {Nothing}] /\ slots'[k] = Nothing
        /\ \A j \in Ring(n) \ {k} : slots'[j] = slots[j]
    BY <1>1, <1>5 DEF Holds
  <2>2. PICK q : q = slots'
    OBVIOUS
  <2>3. e # Nothing
    BY HashFacts
  <2>4. \A j \in Ring(n) : q[j] # Nothing => q[j] \in members \ {e}
    BY <1>1, <1>4, <2>1, <2>2, <2>3 DEF Holds
  <2>5. \A x \in members \ {e} : \E j \in Ring(n) : q[j] = x
    BY <1>1, <1>4, <2>1, <2>2 DEF Holds
  <2>6. \A j, l \in Ring(n) : q[j] = q[l] /\ q[j] # Nothing => j = l
    BY <1>1, <2>1, <2>2 DEF Holds
  <2>7. q \in [Ring(n) -> Items \cup {Nothing}] /\ members \ {e} \subseteq Items
    BY <1>1, <2>1, <2>2 DEF Holds
  <2> QED BY <1>2, <1>5, <2>2, <2>4, <2>5, <2>6, <2>7 DEF Holds
<1>7. count' = Cardinality(members')
  BY <1>2, <1>4, <1>5, FS_RemoveElement
<1>8. members' # {} => 2 * count' <= n
  BY <1>1, <1>2, <1>5
<1> QED BY <1>2, <1>5, <1>6, <1>7, <1>8 DEF HashInv

LEMMA HashStep ==
  ASSUME ContainersAssumption, HashInv, Hashed!Next
  PROVE  HashInv'
<1>1. CASE Hashed!Reset
  <2>1. slots' = Hashed!Empty(8) /\ count' = 0 /\ members' = {}
    BY <1>1 DEF Hashed!Reset
  <2>2. 8 \in Nat \ {0} /\ 8 \in Nat
    OBVIOUS
  <2>3. Holds(slots', 8, members')
    BY <2>1, <2>2, EmptyIs
  <2>4. count' = Cardinality(members')
    BY <2>1, FS_EmptySet
  <2> QED BY <2>1, <2>2, <2>3, <2>4 DEF HashInv
<1>2. CASE \E e \in Items : Hashed!Insert(e) \/ Hashed!Remove(e)
  BY <1>2, HashInsert, HashRemove
<1> QED BY <1>1, <1>2 DEF Hashed!Next

LEMMA HashStart ==
  ASSUME ContainersAssumption, Init
  PROVE  HashInv
<1>1. PICK n \in Lengths : slots = Hashed!Empty(Hashed!Round(n))
  BY DEF Init, Hashed!Init
<1>2. count = 0 /\ members = {}
  BY DEF Init, Hashed!Init
<1>3. n \in Nat \ {0}
  BY HashFacts
<1>4. PICK m \in Nat \ {0} : m = Hashed!Round(n)
  <2> DEFINE P == {2 ^ e : e \in 0..n}
             Q(p) == n <= p /\ (p = 1 \/ p \div 2 < n)
  <2>1. (\E p \in P : Q(p)) /\ \A p \in P : p \in Nat \ {0}
    BY <1>3, RoundUp
  <2>2. Hashed!Round(n) = CHOOSE p \in P : p >= n /\ (p = 1 \/ p \div 2 < n)
    BY DEF Hashed!Round
  <2>3. \E p \in P : p >= n /\ (p = 1 \/ p \div 2 < n)
    BY <1>3, <2>1
  <2> HIDE DEF P
  <2> QED BY <2>1, <2>2, <2>3
<1>5. Holds(slots, m, members)
  BY <1>1, <1>2, <1>4, EmptyIs
<1> QED BY <1>2, <1>4, <1>5, FS_EmptySet DEF HashInv

LEMMA HashInvariant ==
  ASSUME ContainersAssumption, HashInv, [Next]_vars
  PROVE  HashInv'
<1>1. CASE UNCHANGED hashVars
  BY <1>1 DEF HashInv, hashVars
<1>2. CASE Hashed!Next
  BY <1>2, HashStep
<1> QED BY <1>1, <1>2 DEF Next, VectorNext, TextsNext, HashedNext, vars

LEMMA HashMeans ==
  ASSUME ContainersAssumption, HashInv
  PROVE  SearchFindsMembers
<1>1. PICK n \in Nat : /\ Holds(slots, n, members)
                       /\ members # {} => 2 * count <= n
                       /\ ~removed => \A e \in members : Near(slots, n, e)
  BY DEF HashInv
<1>2. count = Cardinality(members) /\ count \in Nat /\ n \in Nat \ {0} /\ (members = {} => count = 0)
  BY <1>1, Counts, FS_EmptySet DEF HashInv, Holds
<1>3. Hashed!SearchFindsMembers
  <2>1. Cardinality(members) < n
    BY <1>1, <1>2
  <2> QED BY <1>1, <2>1, FindIs DEF Hashed!SearchFindsMembers
<1>4. Hashed!LoadStaysLow
  <2>1. \A S : Hashed!Cardinality(S) = Cardinality(S)
    BY DEF Hashed!Cardinality, Cardinality
  <2>2. {i \in DOMAIN slots : slots[i] # Nothing} = Occupied(slots, n)
    BY <1>1 DEF Holds, Occupied
  <2>3. Hashed!Length(slots) = n
    BY <1>1, <1>2, LengthIs DEF Holds
  <2> QED BY <1>1, <1>2, <2>1, <2>2, <2>3, Counts DEF Hashed!LoadStaysLow
<1> QED BY <1>3, <1>4 DEF SearchFindsMembers

(* nall::hashset: a search finds exactly what was inserted (as long as     *)
(* none was removed), however elements collide and through every growth;   *)
(* "all items will fit into pool (with <= 50% load)" (hashset.hpp:64), so  *)
(* that there is a free slot for every search to end at.                   *)
THEOREM MembersAreFound == Spec => []SearchFindsMembers
<1>1. Init => HashInv
  BY ContainersAssumption, HashStart
<1>2. HashInv /\ [Next]_vars => HashInv'
  BY ContainersAssumption, HashInvariant
<1>3. HashInv => SearchFindsMembers
  BY ContainersAssumption, HashMeans
<1> QED BY <1>1, <1>2, <1>3, PTL DEF Spec
===============================================================================
