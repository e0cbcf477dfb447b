---------------------------- MODULE BpsPatch_proofs ----------------------------
(***************************************************************************)
(* Proof that patches are undone: what either creator makes of a source    *)
(* and a target, either applier turns back into the target, whatever their *)
(* bytes and lengths, and reads nothing outside on the way.                *)
(***************************************************************************)
EXTENDS BpsPatch, SequenceTheorems, FiniteSetTheorems, TLAPS

-------------------------------------------------------------------------------
(* A set of numbers with 0 and each successor has every number: otherwise  *)
(* adding 1 maps what it has up to n into itself and never to 0.           *)
LEMMA NatSet ==
  ASSUME NEW S, 0 \in S, \A n \in Nat : n \in S => n + 1 \in S
  PROVE  \A n \in Nat : n \in S
<1> SUFFICES ASSUME NEW n \in Nat, n \notin S PROVE FALSE
  OBVIOUS
<1> DEFINE A == (0 .. n) \cap S
           f == [k \in A |-> k + 1]
<1>1. \A k \in A : k \in Nat /\ k + 1 \in A
  <2> TAKE k \in A
  <2>1. k \in Nat /\ k <= n /\ k \in S /\ k # n OBVIOUS
  <2> QED BY <2>1
<1>2. f \in Injection(A, A)
  <2>1. f \in [A -> A] BY <1>1
  <2>2. \A a, b \in A : f[a] = f[b] => a = b BY <1>1
  <2> QED BY <2>1, <2>2 DEF Injection, IsInjective
<1>3. IsFiniteSet(A)
  <2>1. IsFiniteSet(0 .. n) BY FS_Interval
  <2> QED BY <2>1, FS_Intersection
<1>4. f \in Surjection(A, A)
  BY <1>2, <1>3, FS_Injection
<1>5. PICK k \in A : f[k] = 0
  <2>1. 0 \in A OBVIOUS
  <2> QED BY <1>4, <2>1 DEF Surjection
<1> QED
  BY <1>1, <1>5

(* The same when a number follows from all that are smaller.               *)
LEMMA StrongNatSet ==
  ASSUME NEW S, \A n \in Nat : (\A m \in Nat : m < n => m \in S) => n \in S
  PROVE  \A n \in Nat : n \in S
<1> DEFINE T == {n \in Nat : \A m \in Nat : m <= n => m \in S}
<1>1. 0 \in T
  OBVIOUS
<1>2. \A n \in Nat : n \in T => n + 1 \in T
  <2> SUFFICES ASSUME NEW n \in Nat, n \in T PROVE n + 1 \in T
    OBVIOUS
  <2>1. \A m \in Nat : m < n + 1 => m \in S
    OBVIOUS
  <2>2. n + 1 \in S
    BY <2>1
  <2>3. \A m \in Nat : m <= n + 1 => m < n + 1 \/ m = n + 1
    OBVIOUS
  <2> QED BY <2>1, <2>2, <2>3
<1>3. \A n \in Nat : n \in T
  <2> HIDE DEF T
  <2> QED BY <1>1, <1>2, NatSet
<1> QED
  BY <1>3

(* A set of numbers up to n has a greatest one.                            *)
LEMMA MaxIs ==
  ASSUME NEW S \in SUBSET Nat, S # {}, NEW n \in Nat, \A k \in S : k <= n
  PROVE  Max(S) \in S /\ \A k \in S : k <= Max(S)
<1> DEFINE T == {m \in Nat : (\A k \in S : k <= m) => \E x \in S : \A k \in S : k <= x}
<1>1. 0 \in T
  <2> SUFFICES ASSUME \A k \in S : k <= 0 PROVE \E x \in S : \A k \in S : k <= x
    OBVIOUS
  <2>1. PICK x \in S : TRUE OBVIOUS
  <2>2. \A k \in S : k = 0 OBVIOUS
  <2> QED BY <2>1, <2>2
<1>2. \A m \in Nat : m \in T => m + 1 \in T
  <2> SUFFICES ASSUME NEW m \in Nat, m \in T, \A k \in S : k <= m + 1
               PROVE  \E x \in S : \A k \in S : k <= x
    OBVIOUS
  <2>1. CASE m + 1 \in S
    BY <2>1
  <2>2. CASE m + 1 \notin S
    <3>1. \A k \in S : k \in Nat /\ k # m + 1 /\ k <= m + 1 BY <2>2
    <3>2. \A k \in S : k <= m BY <3>1
    <3> QED BY <3>2
  <2> QED BY <2>1, <2>2
<1>3. n \in T
  <2> HIDE DEF T
  <2> QED BY <1>1, <1>2, NatSet
<1>4. \E x \in S : \A k \in S : x >= k
  <2>1. \E x \in S : \A k \in S : k <= x BY <1>3
  <2>2. \A x, k \in S : k <= x => x >= k OBVIOUS
  <2> QED BY <2>1, <2>2
<1>5. Max(S) \in S /\ \A k \in S : Max(S) >= k
  BY <1>4 DEF Max
<1> QED
  <2>1. \A x, k \in S : x >= k => k <= x OBVIOUS
  <2> QED BY <1>5, <2>1

-------------------------------------------------------------------------------
(* Numbers.                                                                *)
LEMMA Division ==
  ASSUME NEW n \in Nat, NEW b \in Nat, b > 1
  PROVE  /\ n % b \in 0 .. (b - 1) /\ n \div b \in Nat /\ n = b * (n \div b) + (n % b)
         /\ n >= b => n \div b - 1 \in Nat /\ n \div b - 1 < n
<1>1. n % b \in 0 .. (b - 1)
  OBVIOUS
<1>2. n \div b \in Nat /\ n = b * (n \div b) + (n % b)
  OBVIOUS
<1>3. ASSUME n >= b PROVE n \div b - 1 \in Nat /\ n \div b - 1 < n
  <2> DEFINE q == n \div b  r == n % b
  <2>1. q \in Nat /\ r \in 0 .. (b - 1) /\ n = b * q + r
    BY <1>1, <1>2
  <2> HIDE DEF q, r
  <2>2. q # 0
    <3> SUFFICES ASSUME q = 0 PROVE FALSE OBVIOUS
    <3>1. b * q = 0 OBVIOUS
    <3> QED BY <1>3, <2>1, <3>1
  <2>3. b * q >= q
    <3>1. \A x, y \in Nat : x > 1 => x * y >= y
      OBVIOUS
    <3> QED BY <2>1, <3>1
  <2>4. q - 1 \in Nat /\ q - 1 < n
    <3>1. b * q \in Nat BY <2>1
    <3> QED BY <2>1, <2>2, <2>3, <3>1
  <2> QED BY <2>4 DEF q
<1> QED
  BY <1>1, <1>2, <1>3

LEMMA BaseIs ==
  ASSUME PatchAssumption
  PROVE  Base \in Nat /\ Base > 1 /\ Byte \subseteq Nat /\ 0 \in Byte
BY DEF PatchAssumption, Byte

(* What a number is written as, given how smaller ones are.                *)
Low(n)  == n % Base
Rest(n) == n \div Base - 1
Spell(f, n) == IF n < Base THEN <<Base + n>> ELSE <<Low(n)>> \o f[Rest(n)]

(* What a number is made of again.                                         *)
Joined(low, rest) == low + Base * (rest + 1)

LEMMA Parts ==
  ASSUME PatchAssumption, NEW n \in Nat, ~(n < Base)
  PROVE  /\ Low(n) \in Nat /\ Low(n) < Base /\ Low(n) \in Byte
         /\ Rest(n) \in Nat /\ Rest(n) < n
         /\ Joined(Low(n), Rest(n)) = n
<1>1. Base \in Nat /\ Base > 1 /\ n >= Base
  BY BaseIs
<1> DEFINE q == n \div Base  r == n % Base
<1>2. r \in 0 .. (Base - 1) /\ q \in Nat /\ n = Base * q + r /\ q - 1 \in Nat /\ q - 1 < n
  BY <1>1, Division
<1> HIDE DEF q, r
<1>3. r \in Nat /\ r < Base /\ r \in Byte
  BY <1>1, <1>2 DEF Byte
<1>4. r + Base * ((q - 1) + 1) = n
  <2>1. (q - 1) + 1 = q BY <1>2
  <2>2. Base * q \in Nat BY <1>1, <1>2
  <2>3. r + Base * q = n BY <1>2, <1>3, <2>2
  <2> QED BY <2>1, <2>3
<1> QED
  BY <1>2, <1>3, <1>4 DEF q, r, Low, Rest, Joined

LEMMA SpellType ==
  ASSUME PatchAssumption, NEW n \in Nat, NEW f,
         \A m \in Nat : m < n => f[m] \in Seq(Byte)
  PROVE  Spell(f, n) \in Seq(Byte)
<1>1. CASE n < Base
  <2>1. Base + n \in Byte BY <1>1, BaseIs DEF Byte
  <2> QED BY <1>1, <2>1 DEF Spell
<1>2. CASE ~(n < Base)
  <2>1. Low(n) \in Byte /\ Rest(n) \in Nat /\ Rest(n) < n
    BY <1>2, Parts
  <2>2. f[Rest(n)] \in Seq(Byte) /\ <<Low(n)>> \in Seq(Byte)
    BY <2>1
  <2> QED BY <1>2, <2>2 DEF Spell
<1> QED
  BY <1>1, <1>2

LEMMA SpellSame ==
  ASSUME PatchAssumption, NEW n \in Nat, NEW f, NEW g,
         \A m \in Nat : m < n => f[m] = g[m]
  PROVE  Spell(f, n) = Spell(g, n)
<1>1. CASE n < Base
  BY <1>1 DEF Spell
<1>2. CASE ~(n < Base)
  <2>1. Rest(n) \in Nat /\ Rest(n) < n
    BY <1>2, Parts
  <2> QED BY <1>2, <2>1 DEF Spell
<1> QED
  BY <1>1, <1>2

(* The definition of encode is one: there is such a function.              *)
Spells(m) == {g \in [0 .. m -> Seq(Byte)] : \A n \in 0 .. m : g[n] = Spell(g, n)}

LEMMA SpellsAgree ==
  ASSUME PatchAssumption, NEW m \in Nat, NEW k \in Nat, NEW g \in Spells(m), NEW h \in Spells(k)
  PROVE  \A n \in Nat : n <= m /\ n <= k => g[n] = h[n]
<1> DEFINE S == {n \in Nat : n <= m /\ n <= k => g[n] = h[n]}
<1>1. \A n \in Nat : (\A j \in Nat : j < n => j \in S) => n \in S
  <2> SUFFICES ASSUME NEW n \in Nat, \A j \in Nat : j < n => j \in S, n <= m, n <= k
               PROVE  g[n] = h[n]
    OBVIOUS
  <2>1. \A j \in Nat : j < n => g[j] = h[j]
    OBVIOUS
  <2>2. Spell(g, n) = Spell(h, n)
    BY <2>1, SpellSame
  <2>3. g[n] = Spell(g, n) /\ h[n] = Spell(h, n)
    BY DEF Spells
  <2> QED BY <2>2, <2>3
<1>2. \A n \in Nat : n \in S
  <2> HIDE DEF S
  <2> QED BY <1>1, StrongNatSet
<1> QED
  BY <1>2

LEMMA SpellsExist ==
  ASSUME PatchAssumption
  PROVE  \A m \in Nat : Spells(m) # {}
<1> DEFINE S == {m \in Nat : Spells(m) # {}}
<1>1. 0 \in S
  <2> DEFINE g == [n \in 0 .. 0 |-> Spell(<<>>, n)]
  <2>1. \A n \in 0 .. 0 : n = 0 OBVIOUS
  <2>2. Spell(<<>>, 0) \in Seq(Byte)
    <3>1. \A m \in Nat : ~(m < 0) OBVIOUS
    <3> QED BY <3>1, SpellType
  <2>3. g \in [0 .. 0 -> Seq(Byte)]
    BY <2>1, <2>2
  <2>4. Spell(g, 0) = Spell(<<>>, 0)
    BY SpellSame
  <2>5. \A n \in 0 .. 0 : g[n] = Spell(g, n)
    BY <2>1, <2>4
  <2> QED BY <2>3, <2>5 DEF Spells
<1>2. \A m \in Nat : m \in S => m + 1 \in S
  <2> SUFFICES ASSUME NEW m \in Nat, m \in S PROVE m + 1 \in S
    OBVIOUS
  <2>1. PICK g : g \in Spells(m) OBVIOUS
  <2> DEFINE h == [n \in 0 .. (m + 1) |-> IF n <= m THEN g[n] ELSE Spell(g, n)]
  <2>2. g \in [0 .. m -> Seq(Byte)] /\ \A n \in 0 .. m : g[n] = Spell(g, n)
    BY <2>1 DEF Spells
  <2>3. \A n \in Nat : n <= m => h[n] = g[n]
    OBVIOUS
  <2>4. h[m + 1] = Spell(g, m + 1)
    OBVIOUS
  <2>5. \A n \in 0 .. (m + 1) : n \in Nat /\ (n <= m \/ n = m + 1)
    OBVIOUS
  <2>6. Spell(g, m + 1) \in Seq(Byte)
    <3>1. \A j \in Nat : j < m + 1 => g[j] \in Seq(Byte) BY <2>2
    <3> QED BY <3>1, SpellType
  <2>7. h \in [0 .. (m + 1) -> Seq(Byte)]
    <3>1. \A n \in 0 .. (m + 1) : h[n] \in Seq(Byte)
      <4> SUFFICES ASSUME NEW n \in 0 .. (m + 1) PROVE h[n] \in Seq(Byte) OBVIOUS
      <4>1. CASE n <= m
        <5>1. n \in 0 .. m BY <4>1
        <5>2. h[n] = g[n] BY <2>3, <4>1, <5>1
        <5> QED BY <2>2, <5>1, <5>2
      <4>2. CASE n = m + 1
        BY <2>4, <2>6, <4>2
      <4> QED BY <2>5, <4>1, <4>2
    <3> QED BY <3>1
  <2>8. \A n \in 0 .. (m + 1) : h[n] = Spell(h, n)
    <3> SUFFICES ASSUME NEW n \in 0 .. (m + 1) PROVE h[n] = Spell(h, n) OBVIOUS
    <3>1. \A j \in Nat : j < n => g[j] = h[j] BY <2>3
    <3>2. Spell(g, n) = Spell(h, n)
      <4> HIDE DEF h
      <4> QED BY <3>1, SpellSame
    <3>3. h[n] = Spell(g, n)
      <4>1. CASE n <= m
        <5>1. n \in 0 .. m BY <4>1
        <5> QED BY <2>2, <2>3, <4>1, <5>1
      <4>2. CASE n = m + 1
        BY <2>4, <4>2
      <4> QED BY <2>5, <4>1, <4>2
    <3> QED BY <3>2, <3>3
  <2> HIDE DEF h
  <2>9. h \in Spells(m + 1) BY <2>7, <2>8 DEF Spells
  <2> QED BY <2>9
<1>3. \A m \in Nat : m \in S
  <2> HIDE DEF S
  <2> QED BY <1>1, <1>2, NatSet
<1> QED
  BY <1>3

LEMMA EncodeIs ==
  ASSUME PatchAssumption
  PROVE  \A n \in Nat : encode[n] \in Seq(Byte) /\ encode[n] = Spell(encode, n)
<1> DEFINE G(n) == CHOOSE g \in Spells(n) : TRUE
           f == [n \in Nat |-> G(n)[n]]
<1>1. \A n \in Nat : G(n) \in Spells(n)
  BY SpellsExist
<1> HIDE DEF G
<1>2. \A n, m \in Nat : m <= n => f[m] = G(n)[m]
  <2> SUFFICES ASSUME NEW n \in Nat, NEW m \in Nat, m <= n PROVE f[m] = G(n)[m]
    OBVIOUS
  <2>1. G(m)[m] = G(n)[m]
    BY <1>1, SpellsAgree
  <2> QED BY <2>1
<1>3. \A n \in Nat : f[n] = Spell(f, n) /\ f[n] \in Seq(Byte)
  <2> SUFFICES ASSUME NEW n \in Nat PROVE f[n] = Spell(f, n) /\ f[n] \in Seq(Byte)
    OBVIOUS
  <2>1. n \in 0 .. n OBVIOUS
  <2>2. f[n] = G(n)[n] OBVIOUS
  <2>3. G(n)[n] = Spell(G(n), n) /\ G(n)[n] \in Seq(Byte)
    BY <1>1, <2>1 DEF Spells
  <2>4. \A m \in Nat : m < n => f[m] = G(n)[m]
    BY <1>2
  <2>5. Spell(f, n) = Spell(G(n), n)
    <3> HIDE DEF f
    <3> QED BY <2>4, SpellSame
  <2> QED BY <2>2, <2>3, <2>5
<1>4. f = [n \in Nat |-> Spell(f, n)]
  <2>1. f = [n \in Nat |-> f[n]]
    OBVIOUS
  <2>2. \A n \in Nat : f[n] = Spell(f, n)
    BY <1>3
  <2> HIDE DEF f
  <2> QED BY <2>1, <2>2
<1>5. \E g : g = [n \in Nat |-> Spell(g, n)]
  <2> HIDE DEF f
  <2> QED BY <1>4
<1>6. encode = [n \in Nat |-> Spell(encode, n)]
  BY <1>5 DEF encode, Spell, Low, Rest
<1>7. \A n \in Nat : encode[n] = Spell(encode, n)
  BY <1>6
<1>8. \A n \in Nat : encode[n] \in Seq(Byte)
  <2> DEFINE S == {n \in Nat : encode[n] \in Seq(Byte)}
  <2>1. \A n \in Nat : (\A j \in Nat : j < n => j \in S) => n \in S
    <3> SUFFICES ASSUME NEW n \in Nat, \A j \in Nat : j < n => j \in S PROVE n \in S
      OBVIOUS
    <3>1. \A j \in Nat : j < n => encode[j] \in Seq(Byte) OBVIOUS
    <3>2. Spell(encode, n) \in Seq(Byte) BY <3>1, SpellType
    <3> QED BY <1>7, <3>2
  <2>2. \A n \in Nat : n \in S
    <3> HIDE DEF S
    <3> QED BY <2>1, StrongNatSet
  <2> QED BY <2>2
<1> QED
  BY <1>7, <1>8

-------------------------------------------------------------------------------
(* What the bytes of a number are.                                         *)
LEMMA EncodeSmall ==
  ASSUME PatchAssumption, NEW n \in Nat, n < Base
  PROVE  encode[n] = <<Base + n>> /\ Len(encode[n]) = 1 /\ encode[n][1] = Base + n
<1>1. encode[n] = <<Base + n>>
  BY EncodeIs DEF Spell
<1> QED
  BY <1>1

LEMMA EncodeMore ==
  ASSUME PatchAssumption, NEW n \in Nat, ~(n < Base)
  PROVE  /\ Len(encode[n]) = Len(encode[Rest(n)]) + 1
         /\ encode[n][1] = Low(n)
         /\ \A k \in 1 .. Len(encode[Rest(n)]) : encode[n][k + 1] = encode[Rest(n)][k]
<1> DEFINE r == Low(n)  e == encode[Rest(n)]  w == <<r>> \o e
<1>1. encode[n] = w
  BY EncodeIs DEF Spell
<1>2. r \in Byte /\ e \in Seq(Byte)
  BY EncodeIs, Parts
<1>3. /\ Len(w) = Len(e) + 1 /\ w[1] = r
      /\ \A k \in 1 .. Len(e) : w[k + 1] = e[k]
  <2> HIDE DEF r, e
  <2> QED BY <1>2
<1> QED
  BY <1>1, <1>3

(* The last byte is marked, and no other.                                  *)
LEMMA EncodeShape ==
  ASSUME PatchAssumption
  PROVE  \A n \in Nat : /\ Len(encode[n]) \in Nat /\ Len(encode[n]) >= 1
                        /\ encode[n][Len(encode[n])] >= Base
                        /\ \A k \in 1 .. (Len(encode[n]) - 1) : encode[n][k] < Base
<1> DEFINE Marked(e) == /\ Len(e) \in Nat /\ Len(e) >= 1 /\ e[Len(e)] >= Base
                        /\ \A k \in 1 .. (Len(e) - 1) : e[k] < Base
           S == {n \in Nat : Marked(encode[n])}
<1>1. \A n \in Nat : (\A j \in Nat : j < n => j \in S) => n \in S
  <2> SUFFICES ASSUME NEW n \in Nat, \A j \in Nat : j < n => j \in S
               PROVE  Marked(encode[n])
    OBVIOUS
  <2>1. CASE n < Base
    <3>1. encode[n] = <<Base + n>> /\ Len(encode[n]) = 1 /\ encode[n][1] = Base + n
      BY <2>1, EncodeSmall
    <3>2. Base \in Nat BY BaseIs
    <3> QED BY <3>1, <3>2
  <2>2. CASE ~(n < Base)
    <3> DEFINE e == encode[n]  d == encode[Rest(n)]
    <3>1. Rest(n) \in Nat /\ Rest(n) < n /\ Low(n) < Base
      BY <2>2, Parts
    <3>2. /\ Len(e) = Len(d) + 1 /\ e[1] = Low(n)
          /\ \A k \in 1 .. Len(d) : e[k + 1] = d[k]
      BY <2>2, EncodeMore
    <3>3. Marked(d)
      BY <3>1
    <3>4. e[1] < Base
      BY <3>1, <3>2
    <3> HIDE DEF e, d
    <3>5. e[Len(d) + 1] = d[Len(d)]
      BY <3>2, <3>3
    <3>6. \A k \in 1 .. (Len(e) - 1) : e[k] < Base
      <4> SUFFICES ASSUME NEW k \in 1 .. (Len(e) - 1) PROVE e[k] < Base
        OBVIOUS
      <4>1. CASE k = 1
        BY <3>4, <4>1
      <4>2. CASE k # 1
        <5>1. k - 1 \in 1 .. (Len(d) - 1)
          BY <3>2, <3>3, <4>2
        <5>2. k - 1 \in 1 .. Len(d) /\ (k - 1) + 1 = k
          BY <3>3, <5>1
        <5>3. e[k] = d[k - 1]
          BY <3>2, <5>2
        <5> QED BY <3>3, <5>1, <5>3
      <4> QED BY <4>1, <4>2
    <3>7. Marked(e)
      BY <3>2, <3>3, <3>5, <3>6
    <3> QED BY <3>7 DEF e
  <2> QED BY <2>1, <2>2
<1>2. \A n \in Nat : n \in S
  <2> HIDE DEF S
  <2> QED BY <1>1, StrongNatSet
<1> QED
  BY <1>2

-------------------------------------------------------------------------------
(* The bytes from i on are those of n.                                     *)
After(i, n) == i + Len(encode[n])
Spelled(b, i, n) ==
  After(i, n) <= Len(b) /\ \A k \in 1 .. Len(encode[n]) : b[i + k] = encode[n][k]

(* The loop that reads a number, given what it makes of the bytes behind.  *)
Digit(b, f, last, k) ==
  IF k = last THEN b[k] - Base ELSE b[k] + Base * (f[k + 1] + 1)
DigitsFrom(b, i, last, f) == \A k \in (i + 1) .. last : f[k] = Digit(b, f, last, k)
Reads(b, i, last, f) == f = [k \in (i + 1) .. last |-> Digit(b, f, last, k)]

LEMMA SpelledMore ==
  ASSUME PatchAssumption, NEW b \in Seq(Byte), NEW i \in Nat, NEW n \in Nat, ~(n < Base),
         Spelled(b, i, n)
  PROVE  /\ Spelled(b, i + 1, Rest(n)) /\ After(i + 1, Rest(n)) = After(i, n)
         /\ b[i + 1] = Low(n)
<1> DEFINE e == encode[n]  d == encode[Rest(n)]
<1>1. /\ Len(e) = Len(d) + 1 /\ e[1] = Low(n)
      /\ \A k \in 1 .. Len(d) : e[k + 1] = d[k]
  BY EncodeMore
<1>2. Len(d) \in Nat /\ Len(e) \in Nat
  BY Parts, EncodeShape
<1>3. /\ After(i, n) = i + Len(e) /\ After(i + 1, Rest(n)) = (i + 1) + Len(d)
      /\ After(i, n) <= Len(b) /\ \A k \in 1 .. Len(e) : b[i + k] = e[k]
  BY DEF Spelled, After
<1> HIDE DEF e, d
<1>4. After(i + 1, Rest(n)) = After(i, n)
  BY <1>1, <1>2, <1>3
<1>5. b[i + 1] = Low(n)
  <2>1. 1 \in 1 .. Len(e) BY <1>1, <1>2
  <2> QED BY <1>1, <1>3, <2>1
<1>6. \A k \in 1 .. Len(d) : b[(i + 1) + k] = d[k]
  <2> SUFFICES ASSUME NEW k \in 1 .. Len(d) PROVE b[(i + 1) + k] = d[k]
    OBVIOUS
  <2>1. k + 1 \in 1 .. Len(e) /\ (i + 1) + k = i + (k + 1)
    BY <1>1, <1>2
  <2> QED BY <1>1, <1>3, <2>1
<1> QED
  BY <1>3, <1>4, <1>5, <1>6 DEF Spelled, d

LEMMA LastIs ==
  ASSUME PatchAssumption, NEW b \in Seq(Byte), NEW i \in Nat, NEW n \in Nat, Spelled(b, i, n)
  PROVE  /\ After(i, n) \in Nat /\ After(i, n) > i /\ After(i, n) <= Len(b)
         /\ After(i, n) = CHOOSE k \in (i + 1) .. Len(b) :
              b[k] >= Base /\ \A j \in (i + 1) .. (k - 1) : b[j] < Base
<1> DEFINE l == After(i, n)  e == encode[n]
           Ends(k) == b[k] >= Base /\ \A j \in (i + 1) .. (k - 1) : b[j] < Base
<1>1. /\ Len(e) \in Nat /\ Len(e) >= 1 /\ e[Len(e)] >= Base
      /\ \A k \in 1 .. (Len(e) - 1) : e[k] < Base
  BY EncodeShape
<1>2. l = i + Len(e) /\ l <= Len(b) /\ \A k \in 1 .. Len(e) : b[i + k] = e[k]
  BY DEF Spelled, After
<1>3. \A j \in Nat : b[j] \in Byte \/ j \notin 1 .. Len(b)
  OBVIOUS
<1>4. Base \in Nat /\ Byte \subseteq Nat
  BY BaseIs
<1> HIDE DEF l, e
<1>5. l \in (i + 1) .. Len(b) /\ l \in Nat /\ l > i
  BY <1>1, <1>2
<1>6. Ends(l)
  <2>1. b[l] >= Base
    BY <1>1, <1>2
  <2>2. ASSUME NEW j \in (i + 1) .. (l - 1) PROVE b[j] < Base
    <3>1. j - i \in 1 .. (Len(e) - 1) /\ j - i \in 1 .. Len(e) /\ i + (j - i) = j
      BY <1>1, <1>2, <1>5
    <3> QED BY <1>1, <1>2, <3>1
  <2> QED BY <2>1, <2>2
<1>7. ASSUME NEW k \in (i + 1) .. Len(b), Ends(k) PROVE k = l
  <2>1. k \in 1 .. Len(b) /\ l \in 1 .. Len(b)
    BY <1>5
  <2>2. b[k] \in Nat /\ b[l] \in Nat
    <3>1. k \in Nat /\ l \in Nat BY <1>5
    <3>2. b[k] \in Byte /\ b[l] \in Byte BY <1>3, <2>1, <3>1
    <3> QED BY <1>4, <3>2
  <2>3. ~(k < l)
    <3> SUFFICES ASSUME k < l PROVE FALSE OBVIOUS
    <3>1. k \in (i + 1) .. (l - 1) BY <1>5
    <3>2. b[k] < Base BY <1>6, <3>1
    <3> QED BY <1>4, <1>7, <2>2, <3>2
  <2>4. ~(l < k)
    <3> SUFFICES ASSUME l < k PROVE FALSE OBVIOUS
    <3>1. l \in (i + 1) .. (k - 1) BY <1>5
    <3>2. b[l] < Base BY <1>7, <3>1
    <3> QED BY <1>4, <1>6, <2>2, <3>2
  <2> QED BY <1>5, <2>3, <2>4
<1>8. l = CHOOSE k \in (i + 1) .. Len(b) : Ends(k)
  <2> HIDE DEF Ends
  <2> QED BY <1>5, <1>6, <1>7
<1> QED
  BY <1>2, <1>5, <1>8 DEF l

LEMMA ReadsExist ==
  ASSUME PatchAssumption, NEW b \in Seq(Byte)
  PROVE  \A n, i \in Nat : Spelled(b, i, n) => \E f : Reads(b, i, After(i, n), f)
<1> DEFINE S == {n \in Nat : \A i \in Nat : Spelled(b, i, n) => \E f : Reads(b, i, After(i, n), f)}
<1>1. \A n \in Nat : (\A j \in Nat : j < n => j \in S) => n \in S
  <2> SUFFICES ASSUME NEW n \in Nat, \A j \in Nat : j < n => j \in S,
                      NEW i \in Nat, Spelled(b, i, n)
               PROVE  \E f : Reads(b, i, After(i, n), f)
    OBVIOUS
  <2> DEFINE l == After(i, n)
  <2>1. l \in Nat /\ l > i
    BY LastIs
  <2>2. CASE n < Base
    <3>1. l = i + 1
      BY <2>2, EncodeSmall DEF After
    <3> DEFINE f == [k \in (i + 1) .. l |-> b[k] - Base]
    <3>2. \A k \in (i + 1) .. l : k = l
      BY <2>1, <3>1
    <3>3. \A k \in (i + 1) .. l : Digit(b, f, l, k) = b[k] - Base
      BY <3>2 DEF Digit
    <3>4. f = [k \in (i + 1) .. l |-> Digit(b, f, l, k)]
      <4> HIDE DEF l
      <4> QED BY <3>3
    <3> QED BY <3>4 DEF Reads
  <2>3. CASE ~(n < Base)
    <3>1. /\ Spelled(b, i + 1, Rest(n)) /\ After(i + 1, Rest(n)) = l
          /\ Rest(n) \in Nat /\ Rest(n) < n /\ i + 1 \in Nat
      BY <2>3, SpelledMore, Parts
    <3>2. Rest(n) \in S
      BY <3>1
    <3>3. PICK g : Reads(b, i + 1, l, g)
      BY <3>1, <3>2
    <3> HIDE DEF l
    <3>4. \A k \in ((i + 1) + 1) .. l : g[k] = Digit(b, g, l, k)
      BY <3>3 DEF Reads
    <3> DEFINE h == [k \in (i + 1) .. l |-> IF k = i + 1 THEN Digit(b, g, l, k) ELSE g[k]]
    <3>5. \A k \in ((i + 1) + 1) .. l : k \in (i + 1) .. l /\ k # i + 1
      BY <2>1
    <3>6. \A k \in ((i + 1) + 1) .. l : h[k] = g[k]
      BY <3>5
    <3>7. \A k \in (i + 1) .. l : h[k] = Digit(b, g, l, k)
      <4> SUFFICES ASSUME NEW k \in (i + 1) .. l PROVE h[k] = Digit(b, g, l, k)
        OBVIOUS
      <4>1. CASE k = i + 1
        BY <4>1
      <4>2. CASE k # i + 1
        <5>1. k \in ((i + 1) + 1) .. l BY <2>1, <4>2
        <5> QED BY <3>4, <3>6, <5>1
      <4> QED BY <4>1, <4>2
    <3>8. h = [k \in (i + 1) .. l |-> h[k]]
      OBVIOUS
    <3> HIDE DEF h
    <3>9. \A k \in (i + 1) .. l : Digit(b, g, l, k) = Digit(b, h, l, k)
      <4> SUFFICES ASSUME NEW k \in (i + 1) .. l PROVE Digit(b, g, l, k) = Digit(b, h, l, k)
        OBVIOUS
      <4>1. CASE k = l
        BY <4>1 DEF Digit
      <4>2. CASE k # l
        <5>1. k + 1 \in ((i + 1) + 1) .. l BY <2>1, <4>2
        <5>2. g[k + 1] = h[k + 1] BY <3>6, <5>1
        <5> QED BY <4>2, <5>2 DEF Digit
      <4> QED BY <4>1, <4>2
    <3>10. h = [k \in (i + 1) .. l |-> Digit(b, h, l, k)]
      BY <3>7, <3>8, <3>9
    <3>11. Reads(b, i, l, h)
      BY <3>10 DEF Reads
    <3> QED BY <3>11 DEF l
  <2> QED BY <2>2, <2>3
<1>2. \A n \in Nat : n \in S
  <2> HIDE DEF S
  <2> QED BY <1>1, StrongNatSet
<1> QED
  BY <1>2

LEMMA ReadsBack ==
  ASSUME PatchAssumption, NEW b \in Seq(Byte), NEW l, NEW f
  PROVE  \A n, i \in Nat :
           Spelled(b, i, n) /\ After(i, n) = l /\ DigitsFrom(b, i, l, f) => f[i + 1] = n
<1> DEFINE Here(i) == DigitsFrom(b, i, l, f)
           S == {n \in Nat : \A i \in Nat :
                   Spelled(b, i, n) /\ After(i, n) = l /\ Here(i) => f[i + 1] = n}
<1>1. \A n \in Nat : (\A j \in Nat : j < n => j \in S) => n \in S
  <2> SUFFICES ASSUME NEW n \in Nat, \A j \in Nat : j < n => j \in S,
                      NEW i \in Nat, Spelled(b, i, n), After(i, n) = l, Here(i)
               PROVE  f[i + 1] = n
    OBVIOUS
  <2>1. l \in Nat /\ l > i
    BY LastIs
  <2>2. i + 1 \in (i + 1) .. l /\ i + 1 \in Nat
    BY <2>1
  <2>3. f[i + 1] = Digit(b, f, l, i + 1)
    BY <2>2 DEF DigitsFrom
  <2>4. CASE n < Base
    <3>1. l = i + 1 /\ Len(encode[n]) = 1 /\ encode[n][1] = Base + n
      BY <2>4, EncodeSmall DEF After
    <3>2. b[i + 1] = Base + n
      <4>1. 1 \in 1 .. Len(encode[n]) BY <3>1
      <4> QED BY <3>1, <4>1 DEF Spelled
    <3>3. Digit(b, f, l, i + 1) = b[i + 1] - Base
      BY <3>1 DEF Digit
    <3>4. (Base + n) - Base = n
      BY BaseIs
    <3> QED BY <2>3, <3>2, <3>3, <3>4
  <2>5. CASE ~(n < Base)
    <3>1. /\ Spelled(b, i + 1, Rest(n)) /\ After(i + 1, Rest(n)) = l
          /\ Rest(n) \in Nat /\ Rest(n) < n /\ b[i + 1] = Low(n)
          /\ Joined(Low(n), Rest(n)) = n
      BY <2>5, SpelledMore, Parts
    <3>2. Here(i + 1)
      <4>1. \A k \in ((i + 1) + 1) .. l : k \in (i + 1) .. l
        BY <2>1
      <4> QED BY <4>1 DEF DigitsFrom
    <3>3. Rest(n) \in S
      BY <3>1
    <3>4. f[(i + 1) + 1] = Rest(n)
      BY <2>2, <3>1, <3>2, <3>3
    <3>5. i + 1 # l
      <4>1. l > i + 1 BY <2>2, <3>1, LastIs
      <4> QED BY <2>2, <4>1
    <3>6. Digit(b, f, l, i + 1) = Joined(Low(n), Rest(n))
      BY <3>1, <3>4, <3>5 DEF Digit, Joined
    <3> QED BY <2>3, <3>1, <3>6
  <2> QED BY <2>4, <2>5
<1>2. \A n \in Nat : n \in S
  <2> HIDE DEF S
  <2> QED BY <1>1, StrongNatSet
<1> QED
  BY <1>2

(* What was written is read, and the reader stops behind it.               *)
LEMMA DecodeIs ==
  ASSUME PatchAssumption, NEW b \in Seq(Byte), NEW i \in Nat, NEW n \in Nat, Spelled(b, i, n)
  PROVE  decode(b, i).value = n /\ decode(b, i).next = After(i, n)
<1> DEFINE l == CHOOSE k \in (i + 1) .. Len(b) :
                  b[k] >= Base /\ \A j \in (i + 1) .. (k - 1) : b[j] < Base
           f == CHOOSE g : Reads(b, i, l, g)
<1>1. l = After(i, n) /\ l \in Nat /\ l > i
  BY LastIs
<1>2. decode(b, i) = [value |-> f[i + 1], next |-> l]
  BY DEF decode, Reads, Digit
<1> HIDE DEF l
<1>3. Reads(b, i, l, f)
  BY <1>1, ReadsExist
<1> HIDE DEF f
<1>4. \A k \in (i + 1) .. l : f[k] = Digit(b, f, l, k)
  BY <1>3 DEF Reads
<1>5. f[i + 1] = n
  <2>1. DigitsFrom(b, i, l, f)
    BY <1>4 DEF DigitsFrom
  <2> QED BY <1>1, <2>1, ReadsBack
<1> QED
  BY <1>1, <1>2, <1>5

-------------------------------------------------------------------------------
(* Bytes that follow change nothing.                                       *)
LEMMA Joins ==
  ASSUME NEW b \in Seq(Byte), NEW x \in Seq(Byte)
  PROVE  /\ b \o x \in Seq(Byte) /\ Len(b) \in Nat /\ Len(x) \in Nat
         /\ Len(b \o x) = Len(b) + Len(x)
         /\ \A k \in 1 .. Len(b) : (b \o x)[k] = b[k]
         /\ \A k \in 1 .. Len(x) : (b \o x)[Len(b) + k] = x[k]
OBVIOUS

LEMMA SpelledStays ==
  ASSUME PatchAssumption, NEW b \in Seq(Byte), NEW x \in Seq(Byte), NEW i \in Nat, NEW n \in Nat,
         Spelled(b, i, n)
  PROVE  Spelled(b \o x, i, n)
<1>1. Len(encode[n]) \in Nat
  BY EncodeShape
<1>2. i + Len(encode[n]) <= Len(b) /\ \A k \in 1 .. Len(encode[n]) : b[i + k] = encode[n][k]
  BY DEF Spelled, After
<1>3. \A k \in 1 .. Len(encode[n]) : i + k \in 1 .. Len(b)
  BY <1>1, <1>2, Joins
<1>4. i + Len(encode[n]) <= Len(b \o x)
  BY <1>1, <1>2, Joins
<1> QED
  BY <1>2, <1>3, <1>4, Joins DEF Spelled, After

(* A number that is appended is spelled there.                             *)
LEMMA SpelledBehind ==
  ASSUME PatchAssumption, NEW b \in Seq(Byte), NEW n \in Nat
  PROVE  /\ b \o encode[n] \in Seq(Byte) /\ Spelled(b \o encode[n], Len(b), n)
         /\ After(Len(b), n) = Len(b \o encode[n])
<1>1. encode[n] \in Seq(Byte)
  BY EncodeIs
<1>2. Len(b \o encode[n]) = Len(b) + Len(encode[n])
  BY <1>1, Joins
<1>3. Len(b) + Len(encode[n]) <= Len(b) + Len(encode[n])
  BY <1>1, Joins
<1> QED
  BY <1>1, <1>2, <1>3, Joins DEF Spelled, After

-------------------------------------------------------------------------------
(* What commands do, by the offsets before and behind one.                 *)
Offset == [output : Nat, source : Nat, target : Nat, modify : Nat]
Place(o, x, y, m) == [output |-> o, source |-> x, target |-> y, modify |-> m]

(* So many bytes of s from i on are those of t from j on.                  *)
Same(s, i, t, j, length) ==
  /\ i + length <= Len(s) /\ j + length <= Len(t)
  /\ \A k \in 0 .. (length - 1) : At(s, i + k) = At(t, j + k)

Lengths == Nat \ {0}
CommandOf(mode, length) == 4 * (length - 1) + mode
SignedOf(n) == IF n < 0 THEN 2 * (-n) + 1 ELSE 2 * n

Past(a, mode, length)          == After(a.modify, CommandOf(mode, length))
Behind(a, mode, length, n)     == After(Past(a, mode, length), SignedOf(n))
Given(b, a, mode, length)      == Spelled(b, a.modify, CommandOf(mode, length))
GivenBoth(b, a, mode, length, n) ==
  Given(b, a, mode, length) /\ Spelled(b, Past(a, mode, length), SignedOf(n))

ReadsSource(s, t, b, a, c) == \E length \in Lengths :
  /\ Given(b, a, SourceRead, length)
  /\ Same(s, a.output, t, a.output, length)
  /\ c = Place(a.output + length, a.source, a.target, Past(a, SourceRead, length))
ReadsTarget(s, t, b, a, c) == \E length \in Lengths :
  /\ Given(b, a, TargetRead, length)
  /\ Same(b, Past(a, TargetRead, length), t, a.output, length)
  /\ c = Place(a.output + length, a.source, a.target, Past(a, TargetRead, length) + length)
CopiesSource(s, t, b, a, c) == \E length \in Lengths, from \in Nat :
  /\ GivenBoth(b, a, SourceCopy, length, from - a.source)
  /\ Same(s, from, t, a.output, length)
  /\ c = Place(a.output + length, from + length, a.target,
               Behind(a, SourceCopy, length, from - a.source))
CopiesTarget(s, t, b, a, c) == \E length \in Lengths, from \in Nat :
  /\ GivenBoth(b, a, TargetCopy, length, from - a.target)
  /\ from < a.output /\ Same(t, from, t, a.output, length)
  /\ c = Place(a.output + length, a.source, from + length,
               Behind(a, TargetCopy, length, from - a.target))
Takes(s, t, b, a, c) ==
  \/ ReadsSource(s, t, b, a, c) \/ ReadsTarget(s, t, b, a, c)
  \/ CopiesSource(s, t, b, a, c) \/ CopiesTarget(s, t, b, a, c)

(* The offsets R lead through the patch b, from the start to e, its end.   *)
Within(s, t, a) ==
  /\ a \in Offset /\ a.source <= Len(s) /\ a.target <= a.output /\ a.output <= Len(t)
Trace(s, t, b, R, e) ==
  /\ \A a \in R : Within(s, t, a)
  /\ Start \in R /\ e \in R /\ e.modify = Len(b)
  /\ \A a \in R : a # e => \E c \in R : Takes(s, t, b, a, c)

(* What the patch b has told so far, with its bases at x and y.            *)
Made(s, t, b, o, x, y) == \E R : Trace(s, t, b, R, Place(o, x, y, Len(b)))

LEMMA CommandType ==
  ASSUME NEW length \in Lengths, NEW mode \in 0 .. 3
  PROVE  /\ CommandOf(mode, length) \in Nat
         /\ CommandOf(mode, length) % 4 = mode /\ CommandOf(mode, length) \div 4 + 1 = length
         /\ Command(mode, length) = encode[CommandOf(mode, length)]
BY DEF CommandOf, Lengths, Command

LEMMA ModesAre ==
  SourceRead \in 0 .. 3 /\ TargetRead \in 0 .. 3 /\ SourceCopy \in 0 .. 3 /\ TargetCopy \in 0 .. 3
BY DEF SourceRead, TargetRead, SourceCopy, TargetCopy

LEMMA SignedType ==
  ASSUME NEW n \in Int
  PROVE  /\ SignedOf(n) \in Nat /\ Signed(n) = encode[SignedOf(n)]
         /\ (IF SignedOf(n) % 2 = 1 THEN -(SignedOf(n) \div 2) ELSE SignedOf(n) \div 2) = n
<1>1. CASE n < 0
  BY <1>1 DEF SignedOf, Signed
<1>2. CASE ~(n < 0)
  BY <1>2 DEF SignedOf, Signed
<1> QED
  BY <1>1, <1>2

LEMMA PlaceIs ==
  ASSUME NEW o, NEW x, NEW y, NEW m
  PROVE  /\ Place(o, x, y, m).output = o /\ Place(o, x, y, m).source = x
         /\ Place(o, x, y, m).target = y /\ Place(o, x, y, m).modify = m
BY DEF Place

LEMMA PlaceType ==
  ASSUME NEW o \in Nat, NEW x \in Nat, NEW y \in Nat, NEW m \in Nat
  PROVE  Place(o, x, y, m) \in Offset
BY DEF Place, Offset

LEMMA OffsetIs ==
  ASSUME NEW a \in Offset
  PROVE  /\ a.output \in Nat /\ a.source \in Nat /\ a.target \in Nat /\ a.modify \in Nat
         /\ a = Place(a.output, a.source, a.target, a.modify)
BY DEF Place, Offset

(* Where a command that is spelled ends.                                   *)
LEMMA GivenIs ==
  ASSUME PatchAssumption, NEW b \in Seq(Byte), NEW a \in Offset,
         NEW length \in Lengths, NEW mode \in 0 .. 3, Given(b, a, mode, length)
  PROVE  /\ Past(a, mode, length) \in Nat /\ Past(a, mode, length) > a.modify
         /\ Past(a, mode, length) <= Len(b)
         /\ decode(b, a.modify).value = CommandOf(mode, length)
         /\ decode(b, a.modify).next = Past(a, mode, length)
<1>1. CommandOf(mode, length) \in Nat /\ a.modify \in Nat
  BY CommandType, OffsetIs
<1> QED
  BY <1>1, LastIs, DecodeIs DEF Given, Past

LEMMA GivenBothIs ==
  ASSUME PatchAssumption, NEW b \in Seq(Byte), NEW a \in Offset, NEW n \in Int,
         NEW length \in Lengths, NEW mode \in 0 .. 3, GivenBoth(b, a, mode, length, n)
  PROVE  /\ Behind(a, mode, length, n) \in Nat /\ Behind(a, mode, length, n) > a.modify
         /\ Behind(a, mode, length, n) <= Len(b)
         /\ decode(b, Past(a, mode, length)).value = SignedOf(n)
         /\ decode(b, Past(a, mode, length)).next = Behind(a, mode, length, n)
<1>1. Past(a, mode, length) \in Nat /\ Past(a, mode, length) > a.modify
  BY GivenIs DEF GivenBoth
<1>2. SignedOf(n) \in Nat /\ a.modify \in Nat
  BY SignedType, OffsetIs
<1>3. Spelled(b, Past(a, mode, length), SignedOf(n))
  BY DEF GivenBoth
<1>4. /\ After(Past(a, mode, length), SignedOf(n)) \in Nat
      /\ After(Past(a, mode, length), SignedOf(n)) > Past(a, mode, length)
      /\ After(Past(a, mode, length), SignedOf(n)) <= Len(b)
  BY <1>1, <1>2, <1>3, LastIs
<1>5. /\ decode(b, Past(a, mode, length)).value = SignedOf(n)
      /\ decode(b, Past(a, mode, length)).next = After(Past(a, mode, length), SignedOf(n))
  BY <1>1, <1>2, <1>3, DecodeIs
<1> QED
  BY <1>1, <1>2, <1>4, <1>5 DEF Behind

LEMMA GivenStays ==
  ASSUME PatchAssumption, NEW b \in Seq(Byte), NEW x \in Seq(Byte), NEW a \in Offset,
         NEW length \in Lengths, NEW mode \in 0 .. 3, Given(b, a, mode, length)
  PROVE  Given(b \o x, a, mode, length)
<1>1. CommandOf(mode, length) \in Nat /\ a.modify \in Nat
  BY CommandType, OffsetIs
<1> QED
  BY <1>1, SpelledStays DEF Given

LEMMA GivenBothStays ==
  ASSUME PatchAssumption, NEW b \in Seq(Byte), NEW x \in Seq(Byte), NEW a \in Offset, NEW n \in Int,
         NEW length \in Lengths, NEW mode \in 0 .. 3, GivenBoth(b, a, mode, length, n)
  PROVE  GivenBoth(b \o x, a, mode, length, n)
<1>1. Given(b, a, mode, length) /\ Spelled(b, Past(a, mode, length), SignedOf(n))
  BY DEF GivenBoth
<1>2. Past(a, mode, length) \in Nat /\ SignedOf(n) \in Nat
  BY <1>1, GivenIs, SignedType
<1>3. Spelled(b \o x, Past(a, mode, length), SignedOf(n))
  BY <1>1, <1>2, SpelledStays
<1> QED
  BY <1>1, <1>3, GivenStays DEF GivenBoth

LEMMA SameStays ==
  ASSUME NEW b \in Seq(Byte), NEW x \in Seq(Byte), NEW t, NEW i \in Nat, NEW j \in Nat,
         NEW n \in Nat, Same(b, i, t, j, n)
  PROVE  Same(b \o x, i, t, j, n)
<1>1. i + n <= Len(b) /\ j + n <= Len(t) /\ \A k \in 0 .. (n - 1) : b[i + k + 1] = At(t, j + k)
  BY DEF Same, At
<1>2. \A k \in 0 .. (n - 1) : i + k + 1 \in 1 .. Len(b)
  BY <1>1, Joins
<1> DEFINE w == b \o x
<1>3. i + n <= Len(w)
  BY <1>1, Joins
<1>4. \A k \in 0 .. (n - 1) : w[i + k + 1] = b[i + k + 1]
  BY <1>2, Joins
<1> HIDE DEF w
<1>5. \A k \in 0 .. (n - 1) : At(w, i + k) = At(t, j + k)
  <2> SUFFICES ASSUME NEW k \in 0 .. (n - 1) PROVE At(w, i + k) = At(t, j + k)
    OBVIOUS
  <2>1. w[i + k + 1] = At(t, j + k)
    BY <1>1, <1>4
  <2>2. At(w, i + k) = w[i + k + 1]
    BY DEF At
  <2> QED BY <2>1, <2>2
<1>6. Same(w, i, t, j, n)
  BY <1>1, <1>3, <1>5 DEF Same
<1> QED
  BY <1>6 DEF w

LEMMA TakesStays ==
  ASSUME PatchAssumption, NEW s, NEW t, NEW b \in Seq(Byte), NEW x \in Seq(Byte),
         NEW a \in Offset, NEW c, Takes(s, t, b, a, c)
  PROVE  Takes(s, t, b \o x, a, c)
<1> USE ModesAre
<1>1. CASE ReadsSource(s, t, b, a, c)
  BY <1>1, GivenStays DEF ReadsSource, Takes
<1>2. CASE ReadsTarget(s, t, b, a, c)
  <2>1. PICK length \in Lengths :
          /\ Given(b, a, TargetRead, length)
          /\ Same(b, Past(a, TargetRead, length), t, a.output, length)
          /\ c = Place(a.output + length, a.source, a.target, Past(a, TargetRead, length) + length)
    BY <1>2 DEF ReadsTarget
  <2>2. Past(a, TargetRead, length) \in Nat /\ a.output \in Nat /\ length \in Nat
    BY <2>1, GivenIs, OffsetIs DEF Lengths
  <2>3. Same(b \o x, Past(a, TargetRead, length), t, a.output, length)
    BY <2>1, <2>2, SameStays
  <2>4. Given(b \o x, a, TargetRead, length)
    BY <2>1, GivenStays
  <2> QED BY <2>1, <2>3, <2>4 DEF ReadsTarget, Takes
<1>3. CASE CopiesSource(s, t, b, a, c)
  <2>1. PICK length \in Lengths, from \in Nat :
          /\ GivenBoth(b, a, SourceCopy, length, from - a.source)
          /\ Same(s, from, t, a.output, length)
          /\ c = Place(a.output + length, from + length, a.target,
                       Behind(a, SourceCopy, length, from - a.source))
    BY <1>3 DEF CopiesSource
  <2>2. from - a.source \in Int
    BY OffsetIs
  <2>3. GivenBoth(b \o x, a, SourceCopy, length, from - a.source)
    BY <2>1, <2>2, GivenBothStays
  <2> QED BY <2>1, <2>3 DEF CopiesSource, Takes
<1>4. CASE CopiesTarget(s, t, b, a, c)
  <2>1. PICK length \in Lengths, from \in Nat :
          /\ GivenBoth(b, a, TargetCopy, length, from - a.target)
          /\ from < a.output /\ Same(t, from, t, a.output, length)
          /\ c = Place(a.output + length, a.source, from + length,
                       Behind(a, TargetCopy, length, from - a.target))
    BY <1>4 DEF CopiesTarget
  <2>2. from - a.target \in Int
    BY OffsetIs
  <2>3. GivenBoth(b \o x, a, TargetCopy, length, from - a.target)
    BY <2>1, <2>2, GivenBothStays
  <2> QED BY <2>1, <2>3 DEF CopiesTarget, Takes
<1> QED
  BY <1>1, <1>2, <1>3, <1>4 DEF Takes

(* One more command, at the end.                                           *)
LEMMA OneMore ==
  ASSUME PatchAssumption, NEW s, NEW t, NEW b \in Seq(Byte), NEW x \in Seq(Byte),
         NEW o, NEW u, NEW v, Made(s, t, b, o, u, v),
         NEW p, NEW y, NEW z,
         Takes(s, t, b \o x, Place(o, u, v, Len(b)), Place(p, y, z, Len(b \o x))),
         Within(s, t, Place(p, y, z, Len(b \o x)))
  PROVE  Made(s, t, b \o x, p, y, z)
<1> DEFINE e == Place(o, u, v, Len(b))  c == Place(p, y, z, Len(b \o x))
<1>1. PICK R : Trace(s, t, b, R, e)
  BY DEF Made
<1>2. Takes(s, t, b \o x, e, c) /\ Within(s, t, c) /\ c.modify = Len(b \o x)
  BY PlaceIs
<1> HIDE DEF e, c
<1> DEFINE Q == R \cup {c}
<1>3. \A a \in Q : Within(s, t, a)
  BY <1>1, <1>2 DEF Trace
<1>4. Start \in Q /\ c \in Q
  BY <1>1 DEF Trace
<1>5. ASSUME NEW a \in Q, a # c PROVE \E d \in Q : Takes(s, t, b \o x, a, d)
  <2>1. a \in R
    BY <1>5
  <2>2. CASE a = e
    BY <1>2, <2>2
  <2>3. CASE a # e
    <3>1. PICK d \in R : Takes(s, t, b, a, d)
      BY <1>1, <2>1, <2>3 DEF Trace
    <3>2. a \in Offset
      BY <1>3 DEF Within
    <3>3. Takes(s, t, b \o x, a, d)
      BY <3>1, <3>2, TakesStays
    <3> QED BY <3>1, <3>3
  <2> QED BY <2>2, <2>3
<1>6. Trace(s, t, b \o x, Q, c)
  BY <1>2, <1>3, <1>4, <1>5 DEF Trace
<1> QED
  BY <1>6 DEF Made, c

LEMMA MadeIs ==
  ASSUME NEW s \in Seq(Byte), NEW t \in Seq(Byte), NEW b \in Seq(Byte),
         NEW o, NEW x, NEW y, Made(s, t, b, o, x, y)
  PROVE  /\ o \in Nat /\ x \in Nat /\ y \in Nat /\ x <= Len(s) /\ y <= o /\ o <= Len(t)
         /\ Place(o, x, y, Len(b)) \in Offset
<1> DEFINE e == Place(o, x, y, Len(b))
<1>1. Within(s, t, e)
  BY DEF Made, Trace
<1>2. e.output = o /\ e.source = x /\ e.target = y
  BY PlaceIs
<1> HIDE DEF e
<1>3. e \in Offset /\ e.source <= Len(s) /\ e.target <= e.output /\ e.output <= Len(t)
  BY <1>1 DEF Within
<1>4. e.output \in Nat /\ e.source \in Nat /\ e.target \in Nat
  BY <1>3, OffsetIs
<1> QED
  BY <1>2, <1>3, <1>4 DEF e

LEMMA MadeStart ==
  ASSUME NEW s \in Seq(Byte), NEW t \in Seq(Byte)
  PROVE  Made(s, t, <<>>, 0, 0, 0)
<1>1. Start = Place(0, 0, 0, Len(<<>>))
  BY DEF Start, Place
<1>2. Within(s, t, Start)
  BY DEF Start, Within, Offset
<1>3. Start.modify = Len(<<>>)
  BY DEF Start
<1>4. Trace(s, t, <<>>, {Start}, Start)
  BY <1>2, <1>3 DEF Trace
<1> QED
  BY <1>1, <1>4 DEF Made

-------------------------------------------------------------------------------
(* What the creators append.                                               *)
LEMMA SliceIs ==
  ASSUME NEW t \in Seq(Byte), NEW from \in Nat, NEW n \in Nat, from + n <= Len(t)
  PROVE  /\ Slice(t, from, n) \in Seq(Byte) /\ Len(Slice(t, from, n)) = n
         /\ \A k \in 0 .. (n - 1) : At(Slice(t, from, n), k) = At(t, from + k)
<1> DEFINE w == SubSeq(t, from + 1, from + n)
<1>1. from + 1 \in Int /\ from + n \in Int /\ n = (from + n) - (from + 1) + 1
  OBVIOUS
<1>2. \A i \in (from + 1) .. (from + n) : t[i] \in Byte
  <2>1. \A i \in (from + 1) .. (from + n) : i \in 1 .. Len(t)
    OBVIOUS
  <2> QED BY <2>1
<1>3. /\ w \in Seq(Byte)
      /\ Len(w) = IF from + 1 <= from + n THEN (from + n) - (from + 1) + 1 ELSE 0
      /\ \A i \in 1 .. ((from + n) - (from + 1) + 1) : w[i] = t[(from + 1) + i - 1]
  BY <1>1, <1>2, SubSeqProperties
<1> HIDE DEF w
<1>4. Len(w) = n
  BY <1>3
<1>5. \A k \in 0 .. (n - 1) : w[k + 1] = t[from + k + 1]
  <2> SUFFICES ASSUME NEW k \in 0 .. (n - 1) PROVE w[k + 1] = t[from + k + 1]
    OBVIOUS
  <2>1. k + 1 \in 1 .. ((from + n) - (from + 1) + 1) /\ (from + 1) + (k + 1) - 1 = from + k + 1
    OBVIOUS
  <2>2. w[k + 1] = t[(from + 1) + (k + 1) - 1]
    BY <1>3, <2>1
  <2> QED BY <2>1, <2>2
<1> QED
  BY <1>3, <1>4, <1>5 DEF Slice, At, w

LEMMA CommandBehind ==
  ASSUME PatchAssumption, NEW b \in Seq(Byte), NEW length \in Lengths, NEW mode \in 0 .. 3,
         NEW a, a.modify = Len(b)
  PROVE  /\ b \o Command(mode, length) \in Seq(Byte)
         /\ Given(b \o Command(mode, length), a, mode, length)
         /\ Past(a, mode, length) = Len(b \o Command(mode, length))
<1>1. CommandOf(mode, length) \in Nat /\ Command(mode, length) = encode[CommandOf(mode, length)]
  BY CommandType
<1> QED
  BY <1>1, SpelledBehind DEF Given, Past

(* A command and the offset behind it.                                     *)
Copying(b, mode, length, n) == b \o Command(mode, length) \o Signed(n)

LEMMA CopyExtends ==
  ASSUME PatchAssumption, NEW b \in Seq(Byte), NEW length \in Lengths, NEW mode \in 0 .. 3,
         NEW n \in Int
  PROVE  \E z \in Seq(Byte) : Copying(b, mode, length, n) = b \o z
<1> DEFINE m == Command(mode, length)  w == Signed(n)
<1>1. m \in Seq(Byte) /\ w \in Seq(Byte) /\ Copying(b, mode, length, n) = (b \o m) \o w
  BY CommandType, SignedType, EncodeIs DEF Copying
<1> HIDE DEF m, w
<1>2. (b \o m) \o w = b \o (m \o w) /\ m \o w \in Seq(Byte)
  BY <1>1
<1> QED
  BY <1>1, <1>2

LEMMA CopyBehind ==
  ASSUME PatchAssumption, NEW b \in Seq(Byte), NEW length \in Lengths, NEW mode \in 0 .. 3,
         NEW n \in Int, NEW a \in Offset, a.modify = Len(b)
  PROVE  /\ Copying(b, mode, length, n) \in Seq(Byte)
         /\ GivenBoth(Copying(b, mode, length, n), a, mode, length, n)
         /\ Behind(a, mode, length, n) = Len(Copying(b, mode, length, n))
<1> DEFINE c == b \o Command(mode, length)  d == Copying(b, mode, length, n)
<1>1. c \in Seq(Byte) /\ Given(c, a, mode, length) /\ Past(a, mode, length) = Len(c)
  BY CommandBehind
<1>2. SignedOf(n) \in Nat /\ Signed(n) = encode[SignedOf(n)] /\ Signed(n) \in Seq(Byte)
  BY SignedType, EncodeIs
<1>3. d = c \o Signed(n)
  BY DEF Copying
<1> HIDE DEF c, d
<1>4. d \in Seq(Byte) /\ Spelled(d, Len(c), SignedOf(n)) /\ After(Len(c), SignedOf(n)) = Len(d)
  <2>1. d = c \o encode[SignedOf(n)]
    BY <1>2, <1>3
  <2> QED BY <1>1, <1>2, <2>1, SpelledBehind
<1>5. Given(d, a, mode, length)
  BY <1>1, <1>2, <1>3, GivenStays
<1>6. GivenBoth(d, a, mode, length, n) /\ Behind(a, mode, length, n) = Len(d)
  BY <1>1, <1>4, <1>5 DEF GivenBoth, Behind
<1> QED
  BY <1>4, <1>6 DEF d

LEMMA MakesSourceRead ==
  ASSUME PatchAssumption, NEW s \in Seq(Byte), NEW t \in Seq(Byte), NEW b \in Seq(Byte),
         NEW o, NEW x, NEW y, Made(s, t, b, o, x, y),
         NEW n \in Lengths, Same(s, o, t, o, n)
  PROVE  /\ b \o Command(SourceRead, n) \in Seq(Byte)
         /\ Made(s, t, b \o Command(SourceRead, n), o + n, x, y)
<1> DEFINE m == Command(SourceRead, n)  a == Place(o, x, y, Len(b))
           c == Place(o + n, x, y, Len(b \o m))
<1>1. m \in Seq(Byte) /\ b \o m \in Seq(Byte) /\ Len(b \o m) \in Nat
  <2>1. CommandOf(SourceRead, n) \in Nat /\ m = encode[CommandOf(SourceRead, n)]
    BY CommandType, ModesAre
  <2>2. m \in Seq(Byte)
    BY <2>1, EncodeIs
  <2> HIDE DEF m
  <2>3. b \o m \in Seq(Byte) /\ Len(b) \in Nat /\ Len(m) \in Nat /\ Len(b \o m) = Len(b) + Len(m)
    BY <2>2, Joins
  <2> QED BY <2>2, <2>3
<1>2. Given(b \o m, a, SourceRead, n) /\ Past(a, SourceRead, n) = Len(b \o m)
  <2>1. a.modify = Len(b)
    BY PlaceIs
  <2> HIDE DEF a
  <2> QED BY <2>1, CommandBehind, ModesAre
<1>3. o \in Nat /\ x \in Nat /\ y \in Nat /\ x <= Len(s) /\ y <= o /\ o <= Len(t)
  BY MadeIs
<1>4. a.output = o /\ a.source = x /\ a.target = y
  BY PlaceIs
<1>5. ReadsSource(s, t, b \o m, a, c)
  BY <1>2, <1>4 DEF ReadsSource
<1>6. n \in Nat /\ o + n <= Len(t)
  BY DEF Same, Lengths
<1>7. Within(s, t, c)
  <2>1. o + n \in Nat BY <1>3, <1>6
  <2>2. c \in Offset BY <1>1, <1>3, <2>1, PlaceType
  <2>3. c.output = o + n /\ c.source = x /\ c.target = y BY PlaceIs
  <2> HIDE DEF c
  <2> QED BY <1>3, <1>6, <2>2, <2>3 DEF Within
<1>8. Takes(s, t, b \o m, a, c)
  BY <1>5 DEF Takes
<1> HIDE DEF m
<1> QED
  BY <1>1, <1>7, <1>8, OneMore DEF m

(* A command and the bytes behind it.                                      *)
Writing(b, t, from, length) == b \o Command(TargetRead, length) \o Slice(t, from, length)

LEMMA MakesTargetRead ==
  ASSUME PatchAssumption, NEW s \in Seq(Byte), NEW t \in Seq(Byte), NEW b \in Seq(Byte),
         NEW o, NEW x, NEW y, Made(s, t, b, o, x, y),
         NEW n \in Lengths, o + n <= Len(t), NEW d, d = Writing(b, t, o, n)
  PROVE  d \in Seq(Byte) /\ Made(s, t, d, o + n, x, y)
<1> DEFINE m == Command(TargetRead, n)  w == Slice(t, o, n)  e == b \o m
           a == Place(o, x, y, Len(b))  c == Place(o + n, x, y, Len(d))
<1>1. m \in Seq(Byte) /\ e \in Seq(Byte)
  <2>1. CommandOf(TargetRead, n) \in Nat /\ m = encode[CommandOf(TargetRead, n)]
    BY CommandType, ModesAre
  <2>2. m \in Seq(Byte)
    BY <2>1, EncodeIs
  <2> HIDE DEF m
  <2> QED BY <2>2, Joins
<1>2. Given(e, a, TargetRead, n) /\ Past(a, TargetRead, n) = Len(e)
  <2>1. a.modify = Len(b)
    BY PlaceIs
  <2> HIDE DEF a
  <2> QED BY <2>1, CommandBehind, ModesAre
<1>3. o \in Nat /\ x \in Nat /\ y \in Nat /\ x <= Len(s) /\ y <= o /\ o <= Len(t) /\ a \in Offset
  BY MadeIs
<1>4. a.output = o /\ a.source = x /\ a.target = y
  BY PlaceIs
<1>5. n \in Nat /\ Len(t) \in Nat
  BY DEF Lengths
<1>6. w \in Seq(Byte) /\ Len(w) = n /\ \A k \in 0 .. (n - 1) : At(w, k) = At(t, o + k)
  BY <1>3, <1>5, SliceIs
<1>7. d = e \o w
  BY DEF Writing
<1>8. \E z \in Seq(Byte) : d = b \o z
  <2> HIDE DEF m, w
  <2>1. (b \o m) \o w = b \o (m \o w) /\ m \o w \in Seq(Byte)
    BY <1>1, <1>6
  <2> QED BY <1>7, <2>1 DEF e
<1> HIDE DEF m, w, e, a
<1>9. d \in Seq(Byte) /\ Len(d) = Len(e) + n /\ Len(e) \in Nat /\ Len(d) \in Nat
  <2>1. /\ e \o w \in Seq(Byte) /\ Len(e \o w) = Len(e) + Len(w)
        /\ Len(e) \in Nat /\ Len(w) \in Nat
    BY <1>1, <1>6, Joins
  <2>2. Len(e) + n \in Nat
    BY <1>5, <2>1
  <2> QED BY <1>6, <1>7, <2>1, <2>2
<1>10. Given(d, a, TargetRead, n)
  <2>1. Given(e \o w, a, TargetRead, n)
    BY <1>1, <1>2, <1>3, <1>6, GivenStays, ModesAre
  <2> QED BY <1>7, <2>1
<1>11. Same(d, Len(e), t, o, n)
  <2>1. ASSUME NEW k \in 0 .. (n - 1) PROVE At(d, Len(e) + k) = At(t, o + k)
    <3>1. k + 1 \in 1 .. Len(w) /\ Len(e) + k + 1 = Len(e) + (k + 1)
      BY <1>5, <1>6, <1>9
    <3>2. d[Len(e) + (k + 1)] = w[k + 1]
      BY <1>1, <1>6, <1>7, <3>1, Joins
    <3>3. w[k + 1] = At(t, o + k)
      BY <1>6 DEF At
    <3> QED BY <3>1, <3>2, <3>3 DEF At
  <2>2. Len(e) + n <= Len(d)
    BY <1>5, <1>9
  <2> QED BY <2>1, <2>2 DEF Same
<1>12. ReadsTarget(s, t, d, a, c)
  BY <1>2, <1>4, <1>9, <1>10, <1>11 DEF ReadsTarget
<1>13. Within(s, t, c)
  <2>1. o + n \in Nat BY <1>3, <1>5
  <2>2. c \in Offset BY <1>3, <1>9, <2>1, PlaceType
  <2>3. c.output = o + n /\ c.source = x /\ c.target = y BY PlaceIs
  <2> HIDE DEF c
  <2> QED BY <1>3, <1>5, <2>2, <2>3 DEF Within
<1>14. Takes(s, t, d, a, c)
  BY <1>12 DEF Takes
<1>15. PICK z \in Seq(Byte) : d = b \o z
  BY <1>8
<1> QED
  BY <1>9, <1>13, <1>14, <1>15, OneMore DEF a

LEMMA MakesSourceCopy ==
  ASSUME PatchAssumption, NEW s \in Seq(Byte), NEW t \in Seq(Byte), NEW b \in Seq(Byte),
         NEW o, NEW x, NEW y, Made(s, t, b, o, x, y),
         NEW n \in Lengths, NEW from \in Nat, Same(s, from, t, o, n),
         NEW d, d = Copying(b, SourceCopy, n, from - x)
  PROVE  d \in Seq(Byte) /\ Made(s, t, d, o + n, from + n, y)
<1> DEFINE a == Place(o, x, y, Len(b))  c == Place(o + n, from + n, y, Len(d))
<1>1. o \in Nat /\ x \in Nat /\ y \in Nat /\ x <= Len(s) /\ y <= o /\ o <= Len(t) /\ a \in Offset
  BY MadeIs
<1>2. a.output = o /\ a.source = x /\ a.target = y
  BY PlaceIs
<1>3. from - x \in Int /\ n \in Nat
  BY <1>1 DEF Lengths
<1>4. /\ d \in Seq(Byte) /\ GivenBoth(d, a, SourceCopy, n, from - x)
      /\ Behind(a, SourceCopy, n, from - x) = Len(d)
  <2>1. a.modify = Len(b) /\ SourceCopy \in 0 .. 3
    BY PlaceIs, ModesAre
  <2> HIDE DEF a
  <2> QED BY <1>1, <1>3, <2>1, CopyBehind
<1>5. from + n <= Len(s) /\ o + n <= Len(t)
  BY DEF Same
<1> HIDE DEF a
<1>6. CopiesSource(s, t, d, a, c)
  BY <1>2, <1>4 DEF CopiesSource
<1>7. Within(s, t, c)
  <2>1. Len(d) \in Nat BY <1>4
  <2>2. o + n \in Nat /\ from + n \in Nat BY <1>1, <1>3
  <2>3. c \in Offset BY <1>1, <2>1, <2>2, PlaceType
  <2>4. c.output = o + n /\ c.source = from + n /\ c.target = y BY PlaceIs
  <2> HIDE DEF c
  <2> QED BY <1>1, <1>3, <1>5, <2>3, <2>4 DEF Within
<1>8. Takes(s, t, d, a, c)
  BY <1>6 DEF Takes
<1>9. PICK z \in Seq(Byte) : d = b \o z
  BY <1>3, CopyExtends, ModesAre
<1> QED
  BY <1>4, <1>7, <1>8, <1>9, OneMore DEF a

LEMMA MakesTargetCopy ==
  ASSUME PatchAssumption, NEW s \in Seq(Byte), NEW t \in Seq(Byte), NEW b \in Seq(Byte),
         NEW o, NEW x, NEW y, Made(s, t, b, o, x, y),
         NEW n \in Lengths, NEW from \in Nat, from < o, Same(t, from, t, o, n),
         NEW d, d = Copying(b, TargetCopy, n, from - y)
  PROVE  d \in Seq(Byte) /\ Made(s, t, d, o + n, x, from + n)
<1> DEFINE a == Place(o, x, y, Len(b))  c == Place(o + n, x, from + n, Len(d))
<1>1. o \in Nat /\ x \in Nat /\ y \in Nat /\ x <= Len(s) /\ y <= o /\ o <= Len(t) /\ a \in Offset
  BY MadeIs
<1>2. a.output = o /\ a.source = x /\ a.target = y
  BY PlaceIs
<1>3. from - y \in Int /\ n \in Nat
  BY <1>1 DEF Lengths
<1>4. /\ d \in Seq(Byte) /\ GivenBoth(d, a, TargetCopy, n, from - y)
      /\ Behind(a, TargetCopy, n, from - y) = Len(d)
  <2>1. a.modify = Len(b) /\ TargetCopy \in 0 .. 3
    BY PlaceIs, ModesAre
  <2> HIDE DEF a
  <2> QED BY <1>1, <1>3, <2>1, CopyBehind
<1>5. o + n <= Len(t)
  BY DEF Same
<1> HIDE DEF a
<1>6. CopiesTarget(s, t, d, a, c)
  BY <1>2, <1>4 DEF CopiesTarget
<1>7. Within(s, t, c)
  <2>1. Len(d) \in Nat BY <1>4
  <2>2. o + n \in Nat /\ from + n \in Nat BY <1>1, <1>3
  <2>3. c \in Offset BY <1>1, <2>1, <2>2, PlaceType
  <2>4. c.output = o + n /\ c.source = x /\ c.target = from + n BY PlaceIs
  <2> HIDE DEF c
  <2> QED BY <1>1, <1>3, <1>5, <2>3, <2>4 DEF Within
<1>8. Takes(s, t, d, a, c)
  BY <1>6 DEF Takes
<1>9. PICK z \in Seq(Byte) : d = b \o z
  BY <1>3, CopyExtends, ModesAre
<1> QED
  BY <1>4, <1>7, <1>8, <1>9, OneMore DEF a

-------------------------------------------------------------------------------
(* What the creators find.                                                 *)
LEMMA AgreementIs ==
  ASSUME NEW s \in Seq(Byte), NEW t \in Seq(Byte), NEW i \in Nat, NEW j \in Nat, j <= Len(t),
         NEW n, n = Agreement(s, i, t, j)
  PROVE  /\ n \in Nat /\ n <= Len(t)
         /\ n # 0 => Same(s, i, t, j, n)
<1> DEFINE a == Len(s) - i
           b == Len(t) - j
           most == IF a < b THEN a ELSE b
           Agree(m) == \A k \in 0 .. (m - 1) : At(s, i + k) = At(t, j + k)
           N == {m \in 0 .. most : Agree(m)} \cup {0}
<1>1. n = Max(N)
  BY DEF Agreement
<1>2. Len(t) \in Nat /\ a \in Int /\ b \in Int /\ b <= Len(t)
  OBVIOUS
<1>3. most \in Int /\ most <= a /\ most <= b
  <2> HIDE DEF a, b
  <2> QED BY <1>2
<1> HIDE DEF most
<1>4. \A m \in 0 .. most : m \in Nat /\ m <= a /\ m <= b
  <2> HIDE DEF a, b
  <2> QED BY <1>2, <1>3
<1>5. N \in SUBSET Nat /\ N # {} /\ \A m \in N : m <= Len(t)
  <2> HIDE DEF a, b, Agree
  <2> QED BY <1>2, <1>4
<1>6. n \in N
  <2> HIDE DEF N
  <2> QED BY <1>1, <1>2, <1>5, MaxIs
<1>7. ASSUME n # 0 PROVE Same(s, i, t, j, n)
  <2>1. n \in Nat /\ n <= a /\ n <= b /\ Agree(n)
    <3>1. n \in 0 .. most /\ Agree(n)
      <4> HIDE DEF Agree
      <4> QED BY <1>6, <1>7
    <3> QED BY <1>4, <3>1
  <2>2. i + n <= Len(s) /\ j + n <= Len(t)
    BY <2>1
  <2> QED BY <2>1, <2>2 DEF Same
<1>8. n \in Nat /\ n <= Len(t)
  <2> HIDE DEF N
  <2> QED BY <1>5, <1>6
<1> QED
  BY <1>7, <1>8

(* The run that begins at o.                                               *)
LEMMA RunIs ==
  ASSUME NEW t \in Seq(Byte), NEW o \in Nat, o < Len(t), NEW n,
         n = Max({m \in 0 .. (Len(t) - o - 1) : \A k \in 0 .. m : At(t, o + k) = At(t, o)})
  PROVE  n \in Nat /\ (n # 0 => Same(t, o, t, o + 1, n))
<1> DEFINE Run(m) == \A k \in 0 .. m : At(t, o + k) = At(t, o)
           N == {m \in 0 .. (Len(t) - o - 1) : Run(m)}
<1>1. Len(t) \in Nat
  OBVIOUS
<1>2. 0 \in N
  <2>1. Run(0)
    <3>1. \A k \in 0 .. 0 : o + k = o OBVIOUS
    <3> QED BY <3>1
  <2>2. 0 \in 0 .. (Len(t) - o - 1) BY <1>1
  <2> HIDE DEF Run
  <2> QED BY <2>1, <2>2
<1>3. N \in SUBSET Nat /\ \A m \in N : m <= Len(t)
  <2> HIDE DEF Run
  <2> QED BY <1>1
<1>4. n \in N
  <2>1. n = Max(N) OBVIOUS
  <2> HIDE DEF N
  <2> QED BY <1>1, <1>2, <1>3, <2>1, MaxIs
<1>5. n \in 0 .. (Len(t) - o - 1) /\ Run(n)
  <2> HIDE DEF Run
  <2> QED BY <1>4
<1>6. o + n <= Len(t) /\ (o + 1) + n <= Len(t) /\ n \in Nat
  BY <1>1, <1>5
<1>7. ASSUME NEW k \in 0 .. (n - 1) PROVE At(t, o + k) = At(t, (o + 1) + k)
  <2>1. k \in 0 .. n /\ k + 1 \in 0 .. n /\ (o + 1) + k = o + (k + 1)
    BY <1>6
  <2>2. At(t, o + k) = At(t, o) /\ At(t, o + (k + 1)) = At(t, o)
    BY <1>5, <2>1
  <2> QED BY <2>1, <2>2
<1> QED
  BY <1>6, <1>7 DEF Same

LEMMA LongestIs ==
  ASSUME NEW s \in Seq(Byte), Target \in Seq(Byte), offsets \in Offset,
         offsets.output <= Len(Target), NEW found \in SUBSET Nat,
         NEW h \in Nat, \A m \in found : m <= h, NEW r, r = Longest(s, found)
  PROVE  /\ r.length \in Nat
         /\ r.length # 0 => /\ r.offset \in Nat /\ r.offset \in found
                            /\ Same(s, r.offset, Target, offsets.output, r.length)
<1> DEFINE L(n) == Agreement(s, n, Target, offsets.output)
           best == {n \in found : \A m \in found : L(m) <= L(n)}
<1>1. offsets.output \in Nat
  BY OffsetIs
<1>2. \A n \in found : L(n) \in Nat /\ L(n) <= Len(Target)
  BY <1>1, AgreementIs
<1>3. CASE found = {}
  <2>1. r = NoMatch
    BY <1>3 DEF Longest
  <2> QED BY <2>1 DEF NoMatch
<1>4. CASE found # {}
  <2>1. r = [length |-> L(Max(best)), offset |-> Max(best)]
    BY <1>4 DEF Longest
  <2> HIDE DEF L
  <2>2. best # {}
    <3> DEFINE N == {L(n) : n \in found}
    <3>1. N \in SUBSET Nat /\ N # {} /\ \A m \in N : m <= Len(Target)
      BY <1>2, <1>4
    <3>2. Len(Target) \in Nat OBVIOUS
    <3>3. Max(N) \in N /\ \A m \in N : m <= Max(N)
      <4> HIDE DEF N
      <4> QED BY <3>1, <3>2, MaxIs
    <3>4. PICK n \in found : L(n) = Max(N)
      BY <3>3
    <3>5. \A m \in found : L(m) <= L(n)
      BY <3>3, <3>4
    <3> QED BY <3>5
  <2>3. best \in SUBSET Nat /\ \A m \in best : m <= h
    OBVIOUS
  <2>4. Max(best) \in best
    <3> HIDE DEF best
    <3> QED BY <2>2, <2>3, MaxIs
  <2>5. Max(best) \in found
    BY <2>4
  <2> HIDE DEF best
  <2>6. r.length = L(Max(best)) /\ r.offset = Max(best)
    BY <2>1
  <2>7. r.length = Agreement(s, r.offset, Target, offsets.output) /\ r.offset \in found
    BY <2>5, <2>6 DEF L
  <2>8. r.offset \in Nat
    BY <2>7
  <2> QED BY <1>1, <2>7, <2>8, AgreementIs
<1> QED
  BY <1>3, <1>4

LEMMA LargestIs ==
  ASSUME NEW a \in Nat, NEW b \in Nat, NEW c \in Nat, NEW n, n = Max({a, b, c})
  PROVE  n \in Nat /\ n \in {a, b, c} /\ a <= n /\ b <= n /\ c <= n
<1>1. {a, b, c} \in SUBSET Nat /\ {a, b, c} # {} /\ a + b + c \in Nat
      /\ \A k \in {a, b, c} : k <= a + b + c
  OBVIOUS
<1>2. Max({a, b, c}) \in {a, b, c} /\ \A k \in {a, b, c} : k <= Max({a, b, c})
  BY <1>1, MaxIs
<1> QED
  BY <1>2

-------------------------------------------------------------------------------
(* The patch so far tells what lies before the bytes that wait.            *)
Forward(s, t, b, f, p, found) ==
  /\ f.output <= Len(t) /\ p <= f.output /\ found \subseteq 0 .. (f.output - 1)
  /\ Made(s, t, b, f.output - p, f.source, f.target)

LEMMA FlushedIs ==
  ASSUME PatchAssumption, Source \in Seq(Byte), Target \in Seq(Byte), body \in Seq(Byte),
         NEW o \in Nat, NEW n \in Nat, n <= o, o <= Len(Target), NEW x, NEW y,
         Made(Source, Target, body, o - n, x, y)
  PROVE  /\ Flushed(o, n) \in Seq(Byte)
         /\ Made(Source, Target, Flushed(o, n), o, x, y)
<1>1. CASE n = 0
  <2>1. o - n = o /\ Flushed(o, n) = body
    BY <1>1 DEF Flushed
  <2> QED BY <2>1
<1>2. CASE n # 0
  <2>1. n \in Lengths /\ (o - n) + n = o
    BY <1>2 DEF Lengths
  <2>2. Flushed(o, n) = Writing(body, Target, o - n, n)
    BY <1>2 DEF Flushed, Writing
  <2>3. (o - n) + n <= Len(Target)
    BY <2>1
  <2> QED BY <2>1, <2>2, <2>3, MakesTargetRead
<1> QED
  BY <1>1, <1>2

LEMMA PlaceExcept ==
  ASSUME NEW o, NEW x, NEW y, NEW m, NEW q
  PROVE  /\ [Place(o, x, y, m) EXCEPT !.output = q] = Place(q, x, y, m)
         /\ [Place(o, x, y, m) EXCEPT !.source = q] = Place(o, q, y, m)
         /\ [Place(o, x, y, m) EXCEPT !.target = q] = Place(o, x, q, m)
         /\ [Place(o, x, y, m) EXCEPT !.modify = q] = Place(o, x, y, q)
BY DEF Place

LEMMA OffsetExcept ==
  ASSUME NEW a \in Offset, NEW p, NEW q
  PROVE  /\ [a EXCEPT !.output = p] = Place(p, a.source, a.target, a.modify)
         /\ [a EXCEPT !.output = p, !.target = q] = Place(p, a.source, q, a.modify)
         /\ [a EXCEPT !.output = p, !.source = q] = Place(p, q, a.target, a.modify)
         /\ [a EXCEPT !.output = p, !.modify = q] = Place(p, a.source, a.target, q)
<1>1. [a EXCEPT !.output = p] = Place(p, a.source, a.target, a.modify)
  BY OffsetIs, PlaceExcept
<1>2. PICK c : c = [a EXCEPT !.output = p]
  OBVIOUS
<1>3. c = Place(p, a.source, a.target, a.modify)
  BY <1>1, <1>2
<1>4. [a EXCEPT !.output = p, !.target = q] = [c EXCEPT !.target = q]
  BY <1>2
<1>5. [a EXCEPT !.output = p, !.source = q] = [c EXCEPT !.source = q]
  BY <1>2
<1>6. [a EXCEPT !.output = p, !.modify = q] = [c EXCEPT !.modify = q]
  BY <1>2
<1>7. [c EXCEPT !.target = q] = Place(p, a.source, q, a.modify)
  BY <1>3 DEF Place
<1>8. [c EXCEPT !.source = q] = Place(p, q, a.target, a.modify)
  BY <1>3 DEF Place
<1>9. [c EXCEPT !.modify = q] = Place(p, a.source, a.target, q)
  BY <1>3 DEF Place
<1>10. [a EXCEPT !.output = p, !.target = q] = Place(p, a.source, q, a.modify)
  BY <1>4, <1>7
<1>11. [a EXCEPT !.output = p, !.source = q] = Place(p, q, a.target, a.modify)
  BY <1>5, <1>8
<1>12. [a EXCEPT !.output = p, !.modify = q] = Place(p, a.source, a.target, q)
  BY <1>6, <1>9
<1> QED
  BY <1>1, <1>10, <1>11, <1>12

(* What a turn of a creator leaves, if it has a command to say and if not. *)
LEMMA TurnSays ==
  ASSUME NEW s \in Seq(Byte), NEW t \in Seq(Byte), NEW b \in Seq(Byte),
         NEW p, NEW x, NEW y, NEW m \in Nat, NEW found, found \subseteq 0 .. (p - 1),
         Made(s, t, b, p, x, y), NEW c, c = Place(p, x, y, m)
  PROVE  c \in Offset /\ Forward(s, t, b, c, 0, found)
<1>1. p \in Nat /\ x \in Nat /\ y \in Nat /\ p <= Len(t)
  BY MadeIs
<1>2. c \in Offset
  BY <1>1, PlaceType
<1>3. p - 0 = p /\ 0 <= p
  BY <1>1
<1>4. c.output = p /\ c.source = x /\ c.target = y
  BY PlaceIs
<1> QED
  BY <1>1, <1>2, <1>3, <1>4 DEF Forward

LEMMA TurnWaits ==
  ASSUME PatchAssumption, NEW s \in Seq(Byte), NEW t \in Seq(Byte), NEW b \in Seq(Byte),
         NEW a \in Offset, NEW p \in Nat, NEW found, NEW more,
         Forward(s, t, b, a, p, found), a.output < Len(t), more \subseteq 0 .. a.output
  PROVE  /\ Place(a.output + 1, a.source, a.target, a.modify) \in Offset
         /\ Forward(s, t, b, Place(a.output + 1, a.source, a.target, a.modify), p + 1, more)
<1>1. a.output \in Nat /\ a.source \in Nat /\ a.target \in Nat /\ a.modify \in Nat /\ Len(t) \in Nat
  BY OffsetIs
<1>2. a.output + 1 \in Nat /\ a.output + 1 <= Len(t) /\ p + 1 <= a.output + 1
      /\ (a.output + 1) - (p + 1) = a.output - p /\ (a.output + 1) - 1 = a.output
  <2>1. p <= a.output
    BY DEF Forward
  <2>2. \A o, l \in Nat : o < l /\ p <= o =>
          /\ o + 1 \in Nat /\ o + 1 <= l /\ p + 1 <= o + 1
          /\ (o + 1) - (p + 1) = o - p /\ (o + 1) - 1 = o
    OBVIOUS
  <2> QED BY <1>1, <2>1, <2>2
<1>3. Place(a.output + 1, a.source, a.target, a.modify) \in Offset
  BY <1>1, <1>2, PlaceType
<1>4. Made(s, t, b, a.output - p, a.source, a.target)
  BY DEF Forward
<1> DEFINE c == Place(a.output + 1, a.source, a.target, a.modify)
<1>5. c.output = a.output + 1 /\ c.source = a.source /\ c.target = a.target
  BY PlaceIs
<1>6. c \in Offset
  BY <1>3
<1> HIDE DEF c
<1>7. Forward(s, t, b, c, p + 1, more)
  BY <1>2, <1>4, <1>5 DEF Forward
<1> QED
  BY <1>6, <1>7 DEF c

-------------------------------------------------------------------------------
Job == [source : Seq(Byte), target : Seq(Byte), creator : {"linear", "delta"},
        image : Seq(Byte), applier : {"none", "strict", "ignore size"}]

PatchType == /\ job \in Job /\ body \in Seq(Byte) /\ offsets \in Offset
             /\ pending \in Nat /\ output \in Seq(Byte)
             /\ [source |-> Source, target |-> Target] \in Patches

Creates == Forward(Source, Target, body, offsets, pending, nodes)

LEMMA JobIs ==
  ASSUME PatchType
  PROVE  Source \in Seq(Byte) /\ Target \in Seq(Byte) /\ job.image \in Seq(Byte)
BY DEF PatchType, Job, Source, Target

LEMMA LinearKeeps ==
  ASSUME PatchAssumption, PatchType, Creates, Linear
  PROVE  PatchType' /\ Creates' /\ phase' = phase
<1> DEFINE o == offsets.output
           sourceLength == Agreement(Source, o, Target, o)
           rleLength == Max({n \in 0..(Len(Target) - o - 1) :
                               \A k \in 0..n : At(Target, o + k) = At(Target, o)})
           x == offsets.source  y == offsets.target
<1>1. /\ Source \in Seq(Byte) /\ Target \in Seq(Byte) /\ body \in Seq(Byte)
      /\ offsets \in Offset /\ pending \in Nat
  BY JobIs DEF PatchType
<1>2. o \in Nat /\ x \in Nat /\ y \in Nat /\ offsets.modify \in Nat /\ Len(Target) \in Nat
  BY <1>1, OffsetIs
<1>3. /\ o <= Len(Target) /\ pending <= o /\ nodes \subseteq 0 .. (o - 1)
      /\ Made(Source, Target, body, o - pending, x, y)
  BY DEF Creates, Forward
<1>4. o < Len(Target) /\ nodes' = nodes
  BY DEF Linear, Creating
<1>5. \/ /\ rleLength >= 4
         /\ Emit(Flushed(o + 1, pending + 1) \o Command(TargetCopy, rleLength)
                   \o encode[2 * (o - offsets.target)])
         /\ offsets' = [offsets EXCEPT !.output = o + 1 + rleLength, !.target = o + rleLength]
         /\ pending' = 0
      \/ /\ sourceLength >= 4
         /\ Emit(Flushed(o, pending) \o Command(SourceRead, sourceLength))
         /\ offsets' = [offsets EXCEPT !.output = o + sourceLength]
         /\ pending' = 0
      \/ /\ Delay
         /\ offsets' = [offsets EXCEPT !.output = o + 1]
  BY DEF Linear
<1>6. UNCHANGED <<job, phase, output>>
  BY <1>5 DEF Emit, Delay
<1>7. rleLength \in Nat /\ (rleLength # 0 => Same(Target, o, Target, o + 1, rleLength))
  BY <1>1, <1>2, <1>4, RunIs
<1>8. sourceLength \in Nat /\ (sourceLength # 0 => Same(Source, o, Target, o, sourceLength))
  BY <1>1, <1>2, <1>3, AgreementIs
<1>9. Source' = Source /\ Target' = Target
  BY <1>6 DEF Source, Target
<1> SUFFICES /\ body' \in Seq(Byte) /\ offsets' \in Offset /\ pending' \in Nat
             /\ Forward(Source, Target, body', offsets', pending', nodes)
  BY <1>4, <1>6, <1>9 DEF PatchType, Creates
<1> HIDE DEF o, sourceLength, rleLength, x, y
<1>10. CASE /\ rleLength >= 4
            /\ Emit(Flushed(o + 1, pending + 1) \o Command(TargetCopy, rleLength)
                      \o encode[2 * (o - offsets.target)])
            /\ offsets' = [offsets EXCEPT !.output = o + 1 + rleLength, !.target = o + rleLength]
            /\ pending' = 0
  <2> DEFINE f == Flushed(o + 1, pending + 1)  d == Copying(f, TargetCopy, rleLength, o - y)
  <2>1. pending + 1 \in Nat /\ o + 1 \in Nat /\ pending + 1 <= o + 1 /\ o + 1 <= Len(Target)
        /\ (o + 1) - (pending + 1) = o - pending
    BY <1>1, <1>2, <1>3, <1>4
  <2>2. f \in Seq(Byte) /\ Made(Source, Target, f, o + 1, x, y)
    BY <1>1, <1>3, <2>1, FlushedIs
  <2>3. rleLength \in Lengths /\ Same(Target, o, Target, o + 1, rleLength) /\ o < o + 1
    BY <1>2, <1>7, <1>10 DEF Lengths
  <2>4. y <= o
    <3>1. o - pending <= o /\ o - pending \in Int BY <1>1, <1>2
    <3>2. y <= o - pending BY <1>1, <1>3, MadeIs
    <3> QED BY <1>2, <3>1, <3>2
  <2>5. body' = d
    <3>1. Signed(o - y) = encode[2 * (o - y)]
      BY <1>2, <2>4 DEF Signed
    <3> QED BY <1>10, <3>1 DEF Emit, Copying, y
  <2> HIDE DEF f
  <2>6. d \in Seq(Byte) /\ Made(Source, Target, d, (o + 1) + rleLength, x, o + rleLength)
    BY <1>1, <1>2, <2>2, <2>3, MakesTargetCopy
  <2>7. offsets' = Place((o + 1) + rleLength, x, o + rleLength, offsets.modify)
    BY <1>1, <1>10, OffsetExcept DEF x
  <2>9. pending' = 0
    BY <1>10
  <2> HIDE DEF d
  <2> DEFINE p == (o + 1) + rleLength  q == o + rleLength  c == Place(p, x, q, offsets.modify)
  <2>10. c \in Offset /\ Forward(Source, Target, d, c, 0, nodes)
    <3>1. Made(Source, Target, d, p, x, q) /\ d \in Seq(Byte)
      BY <2>6
    <3>2. nodes \subseteq 0 .. (p - 1)
      BY <1>2, <1>3, <1>7
    <3>3. c = Place(p, x, q, offsets.modify)
      OBVIOUS
    <3> HIDE DEF p, q, c
    <3> QED BY <1>1, <1>2, <3>1, <3>2, <3>3, TurnSays
  <2> QED BY <2>5, <2>6, <2>7, <2>9, <2>10
<1>11. CASE /\ sourceLength >= 4
            /\ Emit(Flushed(o, pending) \o Command(SourceRead, sourceLength))
            /\ offsets' = [offsets EXCEPT !.output = o + sourceLength]
            /\ pending' = 0
  <2> DEFINE f == Flushed(o, pending)  d == f \o Command(SourceRead, sourceLength)
  <2>1. f \in Seq(Byte) /\ Made(Source, Target, f, o, x, y)
    BY <1>1, <1>2, <1>3, FlushedIs
  <2>2. sourceLength \in Lengths /\ Same(Source, o, Target, o, sourceLength)
    BY <1>8, <1>11 DEF Lengths
  <2>3. body' = d
    BY <1>11 DEF Emit
  <2> HIDE DEF f
  <2>4. d \in Seq(Byte) /\ Made(Source, Target, d, o + sourceLength, x, y)
    BY <1>1, <2>1, <2>2, MakesSourceRead
  <2>5. offsets' = Place(o + sourceLength, x, y, offsets.modify)
    BY <1>1, <1>11, OffsetExcept DEF x, y
  <2>7. pending' = 0
    BY <1>11
  <2> HIDE DEF d
  <2> DEFINE p == o + sourceLength  c == Place(p, x, y, offsets.modify)
  <2>8. c \in Offset /\ Forward(Source, Target, d, c, 0, nodes)
    <3>1. Made(Source, Target, d, p, x, y) /\ d \in Seq(Byte)
      BY <2>4
    <3>2. nodes \subseteq 0 .. (p - 1)
      BY <1>2, <1>3, <1>8
    <3>3. c = Place(p, x, y, offsets.modify)
      OBVIOUS
    <3> HIDE DEF p, c
    <3> QED BY <1>1, <1>2, <3>1, <3>2, <3>3, TurnSays
  <2> QED BY <2>3, <2>4, <2>5, <2>7, <2>8
<1>12. CASE Delay /\ offsets' = [offsets EXCEPT !.output = o + 1]
  <2>1. body' = body /\ pending' = pending + 1
    BY <1>12 DEF Delay, Emit
  <2>2. offsets' = Place(o + 1, x, y, offsets.modify)
    BY <1>1, <1>12, OffsetExcept DEF x, y
  <2>3. nodes \subseteq 0 .. o
    BY <1>2, <1>3
  <2>4. Forward(Source, Target, body, offsets, pending, nodes)
    BY DEF Creates
  <2>5. /\ Place(o + 1, x, y, offsets.modify) \in Offset
        /\ Forward(Source, Target, body, Place(o + 1, x, y, offsets.modify), pending + 1, nodes)
    BY <1>1, <1>4, <2>3, <2>4, TurnWaits DEF o, x, y
  <2> QED BY <1>1, <2>1, <2>2, <2>5
<1> QED
  <2>1. y = offsets.target BY DEF y
  <2> QED BY <1>5, <1>10, <1>11, <1>12, <2>1 DEF o, sourceLength, rleLength

(* The same of bpsdelta.                                                   *)
LikeIn(s, found) == {i \in found : Symbol(s, i) = Symbol(Target, offsets.output)}

LEMMA DeltaKeeps ==
  ASSUME PatchAssumption, PatchType, Creates, Delta
  PROVE  PatchType' /\ Creates' /\ phase' = phase
<1> DEFINE o == offsets.output
           read == Agreement(Source, o, Target, o)
           source == Longest(Source, LikeIn(Source, 0 .. (Len(Source) - 1)))
           target == Longest(Target, LikeIn(Target, nodes))
           length == Max({read, source.length, target.length})
           x == offsets.source  y == offsets.target
           f == Flushed(o, pending)
           more == nodes \cup {o}
<1>1. /\ Source \in Seq(Byte) /\ Target \in Seq(Byte) /\ body \in Seq(Byte)
      /\ offsets \in Offset /\ pending \in Nat
  BY JobIs DEF PatchType
<1>2. o \in Nat /\ x \in Nat /\ y \in Nat /\ offsets.modify \in Nat /\ Len(Target) \in Nat
      /\ Len(Source) \in Nat
  BY <1>1, OffsetIs
<1>3. /\ o <= Len(Target) /\ pending <= o /\ nodes \subseteq 0 .. (o - 1)
      /\ Made(Source, Target, body, o - pending, x, y)
  BY DEF Creates, Forward
<1>4. o < Len(Target) /\ nodes' = more
  BY DEF Delta, Creating
<1>5. \/ /\ length >= 4 /\ length = read
         /\ Emit(f \o Command(SourceRead, length))
         /\ pending' = 0
         /\ offsets' = [offsets EXCEPT !.output = o + length]
      \/ /\ length >= 4 /\ read < length /\ length = source.length
         /\ Emit(f \o Command(SourceCopy, length) \o Signed(source.offset - x))
         /\ pending' = 0
         /\ offsets' = [offsets EXCEPT !.output = o + length, !.source = source.offset + length]
      \/ /\ length >= 4 /\ read < length /\ source.length < length
         /\ Emit(f \o Command(TargetCopy, length) \o Signed(target.offset - y))
         /\ pending' = 0
         /\ offsets' = [offsets EXCEPT !.output = o + length, !.target = target.offset + length]
      \/ /\ Delay
         /\ offsets' = [offsets EXCEPT !.output = o + 1]
  BY DEF Delta, LikeIn
<1>6. UNCHANGED <<job, phase, output>>
  BY <1>5 DEF Emit, Delay
<1>7. read \in Nat /\ (read # 0 => Same(Source, o, Target, o, read))
  BY <1>1, <1>2, <1>3, AgreementIs
<1>8. /\ source.length \in Nat
      /\ source.length # 0 => /\ source.offset \in Nat
                              /\ Same(Source, source.offset, Target, o, source.length)
  <2> DEFINE found == LikeIn(Source, 0 .. (Len(Source) - 1))
  <2>1. found \in SUBSET Nat /\ \A m \in found : m <= Len(Source)
    BY <1>2 DEF LikeIn
  <2> HIDE DEF found
  <2>2. source = Longest(Source, found)
    BY DEF found
  <2> HIDE DEF source
  <2> QED BY <1>1, <1>2, <1>3, <2>1, <2>2, LongestIs
<1>9. /\ target.length \in Nat
      /\ target.length # 0 => /\ target.offset \in Nat /\ target.offset < o
                              /\ Same(Target, target.offset, Target, o, target.length)
  <2> DEFINE found == LikeIn(Target, nodes)
  <2>1. found \in SUBSET Nat /\ \A m \in found : m <= o /\ m < o
    <3>1. \A m \in nodes : m \in Nat /\ m <= o /\ m < o
      <4> HIDE DEF o
      <4> QED BY <1>2, <1>3
    <3>2. found \subseteq nodes
      BY DEF LikeIn
    <3> HIDE DEF found, o
    <3> QED BY <3>1, <3>2
  <2> HIDE DEF found
  <2>2. target = Longest(Target, found)
    BY DEF found
  <2> HIDE DEF target
  <2>3. /\ target.length \in Nat
        /\ target.length # 0 => /\ target.offset \in Nat /\ target.offset \in found
                                /\ Same(Target, target.offset, Target, o, target.length)
    BY <1>1, <1>2, <1>3, <2>1, <2>2, LongestIs
  <2> QED BY <2>1, <2>3
<1>10. length \in Nat /\ length \in {read, source.length, target.length}
  <2> HIDE DEF read, source, target
  <2> QED BY <1>7, <1>8, <1>9, LargestIs
<1>11. Source' = Source /\ Target' = Target
  BY <1>6 DEF Source, Target
<1> SUFFICES /\ body' \in Seq(Byte) /\ offsets' \in Offset /\ pending' \in Nat
             /\ Forward(Source, Target, body', offsets', pending', more)
  BY <1>4, <1>6, <1>11 DEF PatchType, Creates
<1> HIDE DEF o, read, source, target, length, x, y, f
<1>12. f \in Seq(Byte) /\ Made(Source, Target, f, o, x, y)
  BY <1>1, <1>2, <1>3, FlushedIs DEF f
<1>13. length >= 4 => length \in Lengths
  BY <1>10 DEF Lengths
<1>14. CASE /\ length >= 4 /\ length = read
            /\ Emit(f \o Command(SourceRead, length))
            /\ pending' = 0
            /\ offsets' = [offsets EXCEPT !.output = o + length]
  <2> DEFINE d == f \o Command(SourceRead, length)  p == o + length
             c == Place(p, x, y, offsets.modify)
  <2>1. length \in Lengths /\ Same(Source, o, Target, o, length)
    BY <1>7, <1>13, <1>14 DEF Lengths
  <2>2. body' = d /\ pending' = 0
    BY <1>14 DEF Emit
  <2>3. d \in Seq(Byte) /\ Made(Source, Target, d, p, x, y)
    BY <1>1, <1>12, <2>1, MakesSourceRead
  <2>4. offsets' = c
    BY <1>1, <1>14, OffsetExcept DEF x, y
  <2>5. more \subseteq 0 .. (p - 1)
    BY <1>2, <1>3, <1>10, <1>14
  <2> HIDE DEF d, p, more
  <2>6. c \in Offset /\ Forward(Source, Target, d, c, 0, more)
    <3>1. c = Place(p, x, y, offsets.modify)
      OBVIOUS
    <3> HIDE DEF c
    <3> QED BY <1>1, <1>2, <2>3, <2>5, <3>1, TurnSays
  <2> QED BY <2>2, <2>3, <2>4, <2>6
<1>15. CASE /\ length >= 4 /\ read < length /\ length = source.length
            /\ Emit(f \o Command(SourceCopy, length) \o Signed(source.offset - x))
            /\ pending' = 0
            /\ offsets' = [offsets EXCEPT !.output = o + length, !.source = source.offset + length]
  <2> DEFINE d == Copying(f, SourceCopy, length, source.offset - x)  p == o + length
             q == source.offset + length  c == Place(p, q, y, offsets.modify)
  <2>1. length \in Lengths /\ source.offset \in Nat /\ Same(Source, source.offset, Target, o, length)
    BY <1>8, <1>13, <1>15 DEF Lengths
  <2>2. body' = d /\ pending' = 0
    BY <1>15 DEF Emit, Copying
  <2>3. d \in Seq(Byte) /\ Made(Source, Target, d, p, q, y)
    BY <1>1, <1>12, <2>1, MakesSourceCopy
  <2>4. offsets' = c
    BY <1>1, <1>15, OffsetExcept DEF y
  <2>5. more \subseteq 0 .. (p - 1)
    BY <1>2, <1>3, <1>10, <1>15
  <2> HIDE DEF d, p, q, more
  <2>6. c \in Offset /\ Forward(Source, Target, d, c, 0, more)
    <3>1. c = Place(p, q, y, offsets.modify)
      OBVIOUS
    <3> HIDE DEF c
    <3> QED BY <1>1, <1>2, <2>3, <2>5, <3>1, TurnSays
  <2> QED BY <2>2, <2>3, <2>4, <2>6
<1>16. CASE /\ length >= 4 /\ read < length /\ source.length < length
            /\ Emit(f \o Command(TargetCopy, length) \o Signed(target.offset - y))
            /\ pending' = 0
            /\ offsets' = [offsets EXCEPT !.output = o + length, !.target = target.offset + length]
  <2> DEFINE d == Copying(f, TargetCopy, length, target.offset - y)  p == o + length
             q == target.offset + length  c == Place(p, x, q, offsets.modify)
  <2>1. length = target.length
    BY <1>7, <1>8, <1>10, <1>16
  <2>2. /\ length \in Lengths /\ target.offset \in Nat /\ target.offset < o
        /\ Same(Target, target.offset, Target, o, length)
    BY <1>9, <1>13, <1>16, <2>1 DEF Lengths
  <2>3. body' = d /\ pending' = 0
    BY <1>16 DEF Emit, Copying
  <2>4. d \in Seq(Byte) /\ Made(Source, Target, d, p, x, q)
    BY <1>1, <1>12, <2>2, MakesTargetCopy
  <2>5. offsets' = c
    BY <1>1, <1>16, OffsetExcept DEF x
  <2>6. more \subseteq 0 .. (p - 1)
    BY <1>2, <1>3, <1>10, <1>16
  <2> HIDE DEF d, p, q, more
  <2>7. c \in Offset /\ Forward(Source, Target, d, c, 0, more)
    <3>1. c = Place(p, x, q, offsets.modify)
      OBVIOUS
    <3> HIDE DEF c
    <3> QED BY <1>1, <1>2, <2>4, <2>6, <3>1, TurnSays
  <2> QED BY <2>3, <2>4, <2>5, <2>7
<1>17. CASE Delay /\ offsets' = [offsets EXCEPT !.output = o + 1]
  <2>1. body' = body /\ pending' = pending + 1
    BY <1>17 DEF Delay, Emit
  <2>2. offsets' = Place(o + 1, x, y, offsets.modify)
    BY <1>1, <1>17, OffsetExcept DEF x, y
  <2>3. more \subseteq 0 .. o
    BY <1>2, <1>3
  <2> HIDE DEF more
  <2>4. Forward(Source, Target, body, offsets, pending, nodes)
    BY DEF Creates
  <2>5. /\ Place(o + 1, x, y, offsets.modify) \in Offset
        /\ Forward(Source, Target, body, Place(o + 1, x, y, offsets.modify), pending + 1, more)
    BY <1>1, <1>4, <2>3, <2>4, TurnWaits DEF o, x, y
  <2> QED BY <1>1, <2>1, <2>2, <2>5
<1> QED
  BY <1>5, <1>14, <1>15, <1>16, <1>17

-------------------------------------------------------------------------------
(* Copied, a byte at a time.                                               *)
All(data, growing, m) == IF growing THEN data \o m ELSE data
ByteAt(all, i) == IF i \in 0..(Len(all) - 1) THEN At(all, i) ELSE 0
More(data, from, growing, m, n) == Append(m, ByteAt(All(data, growing, m), from + n - 1))
Grow(data, from, growing, f, n) == IF n = 0 THEN <<>> ELSE More(data, from, growing, f[n - 1], n)
Grows(data, from, growing, l, f) == f = [n \in 0 .. l |-> Grow(data, from, growing, f, n)]

LEMMA GrowsExist ==
  ASSUME NEW data, NEW from, NEW growing
  PROVE  \A l \in Nat : \E f : Grows(data, from, growing, l, f)
<1> DEFINE G(f, n) == Grow(data, from, growing, f, n)
           S == {l \in Nat : \E f : f = [n \in 0 .. l |-> G(f, n)]}
<1>1. 0 \in S
  <2> DEFINE f == [n \in 0 .. 0 |-> <<>>]
  <2>1. \A n \in 0 .. 0 : G(f, n) = <<>>
    BY DEF Grow
  <2>2. f = [n \in 0 .. 0 |-> G(f, n)]
    <3> HIDE DEF G
    <3> QED BY <2>1
  <2> HIDE DEF f, G
  <2> QED BY <2>2
<1>2. \A l \in Nat : l \in S => l + 1 \in S
  <2> SUFFICES ASSUME NEW l \in Nat, l \in S PROVE l + 1 \in S
    OBVIOUS
  <2> HIDE DEF G
  <2>1. PICK g : g = [n \in 0 .. l |-> G(g, n)]
    OBVIOUS
  <2> DEFINE h == [n \in 0 .. (l + 1) |-> IF n <= l THEN g[n] ELSE G(g, n)]
  <2>2. \A n \in 0 .. l : g[n] = G(g, n)
    BY <2>1
  <2>3. \A n \in 0 .. (l + 1) : n \in 0 .. l \/ n = l + 1
    OBVIOUS
  <2>4. \A n \in 0 .. l : n \in 0 .. (l + 1) /\ n <= l
    OBVIOUS
  <2>5. \A n \in 0 .. l : h[n] = g[n]
    BY <2>4
  <2>6. \A n \in 0 .. (l + 1) : h[n] = G(g, n)
    <3> SUFFICES ASSUME NEW n \in 0 .. (l + 1) PROVE h[n] = G(g, n)
      OBVIOUS
    <3>1. CASE n <= l
      <4>1. n \in 0 .. l BY <3>1
      <4> QED BY <2>2, <2>5, <4>1
    <3>2. CASE ~(n <= l)
      BY <3>2
    <3> QED BY <3>1, <3>2
  <2>7. h = [n \in 0 .. (l + 1) |-> h[n]]
    OBVIOUS
  <2> HIDE DEF h
  <2>8. \A n \in 0 .. (l + 1) : G(g, n) = G(h, n)
    <3> SUFFICES ASSUME NEW n \in 0 .. (l + 1) PROVE G(g, n) = G(h, n)
      OBVIOUS
    <3>1. CASE n = 0
      BY <3>1 DEF G, Grow
    <3>2. CASE n # 0
      <4>1. n - 1 \in 0 .. l BY <3>2
      <4>2. g[n - 1] = h[n - 1] BY <2>5, <4>1
      <4> QED BY <4>2 DEF G, Grow
    <3> QED BY <3>1, <3>2
  <2>9. h = [n \in 0 .. (l + 1) |-> G(h, n)]
    BY <2>6, <2>7, <2>8
  <2> QED BY <2>9
<1>3. \A l \in Nat : l \in S
  <2> HIDE DEF S
  <2> QED BY <1>1, <1>2, NatSet
<1> QED
  BY <1>3 DEF Grows

(* So many bytes of w are those of t from o on.                            *)
Right(w, t, o, n) == \A k \in 0 .. (n - 1) : At(w, k) = At(t, o + k)

LEMMA RightMore ==
  ASSUME NEW w \in Seq(Byte), NEW v \in Byte, NEW t, NEW o \in Nat
  PROVE  /\ Append(w, v) \in Seq(Byte) /\ Len(Append(w, v)) = Len(w) + 1
         /\ Right(w, t, o, Len(w)) /\ v = At(t, o + Len(w)) =>
              Right(Append(w, v), t, o, Len(w) + 1)
<1> DEFINE u == Append(w, v)  l == Len(w)
<1>1. l \in Nat /\ u \in Seq(Byte) /\ Len(u) = l + 1 /\ u[l + 1] = v
      /\ \A i \in 1 .. l : u[i] = w[i]
  OBVIOUS
<1> HIDE DEF u, l
<1>2. ASSUME Right(w, t, o, l), v = At(t, o + l), NEW k \in 0 .. ((l + 1) - 1)
      PROVE  At(u, k) = At(t, o + k)
  <2>1. CASE k = l
    BY <1>1, <1>2, <2>1 DEF At
  <2>2. CASE k # l
    <3>1. k \in 0 .. (l - 1) /\ k + 1 \in 1 .. l
      BY <1>1, <2>2
    <3>2. At(w, k) = At(t, o + k)
      BY <1>2, <3>1 DEF Right
    <3>3. At(u, k) = At(w, k)
      BY <1>1, <3>1 DEF At
    <3> QED BY <3>2, <3>3
  <2> QED BY <2>1, <2>2
<1>3. Right(w, t, o, l) /\ v = At(t, o + l) => Right(u, t, o, l + 1)
  BY <1>2 DEF Right
<1> QED
  BY <1>1, <1>3 DEF u, l

LEMMA ByteAtType ==
  ASSUME PatchAssumption, NEW s \in Seq(Byte), NEW i
  PROVE  ByteAt(s, i) \in Byte
<1>1. CASE i \in 0 .. (Len(s) - 1)
  <2>1. i + 1 \in 1 .. Len(s)
    BY <1>1
  <2>2. s[i + 1] \in Byte
    BY <2>1
  <2> QED BY <1>1, <2>2 DEF ByteAt, At
<1>2. CASE i \notin 0 .. (Len(s) - 1)
  BY <1>2, BaseIs DEF ByteAt
<1> QED
  BY <1>1, <1>2

(* The bytes are those of t, when each that is taken is the one of t.      *)
Feeds(data, from, growing, t, o, n) ==
  \A m \in Seq(Byte) : Len(m) < n /\ Right(m, t, o, Len(m)) =>
    ByteAt(All(data, growing, m), from + Len(m)) = At(t, o + Len(m))

LEMMA CopiedIs ==
  ASSUME PatchAssumption, NEW data \in Seq(Byte), NEW from \in Nat, NEW length \in Nat,
         NEW growing \in BOOLEAN, NEW t, NEW o \in Nat,
         NEW c, c = Copied(data, from, length, growing)
  PROVE  /\ c \in Seq(Byte) /\ Len(c) = length
         /\ Feeds(data, from, growing, t, o, length) => Right(c, t, o, length)
<1> DEFINE f == CHOOSE g : Grows(data, from, growing, length, g)
           F == Feeds(data, from, growing, t, o, length)
           Good(n) == /\ f[n] \in Seq(Byte) /\ Len(f[n]) = n
                      /\ F => Right(f[n], t, o, n)
           S == {n \in Nat : n <= length => Good(n)}
<1>1. c = f[length]
  BY DEF Copied, Grows, Grow, More, All, ByteAt
<1>2. Grows(data, from, growing, length, f)
  BY GrowsExist
<1> HIDE DEF f
<1>3. \A n \in 0 .. length : f[n] = Grow(data, from, growing, f, n)
  BY <1>2 DEF Grows
<1>4. 0 \in S
  <2>1. f[0] = <<>>
    BY <1>3 DEF Grow
  <2>2. f[0] \in Seq(Byte) /\ Len(f[0]) = 0
    BY <2>1
  <2>3. \A w : Right(w, t, o, 0)
    BY DEF Right
  <2>4. Right(f[0], t, o, 0)
    BY <2>3
  <2>5. Good(0)
    BY <2>2, <2>4
  <2> HIDE DEF Good
  <2> QED BY <2>5
<1>5. \A n \in Nat : n \in S => n + 1 \in S
  <2> SUFFICES ASSUME NEW n \in Nat, Good(n), n + 1 <= length PROVE Good(n + 1)
    OBVIOUS
  <2> DEFINE m == f[n]  v == ByteAt(All(data, growing, m), from + n)
  <2>1. f[n + 1] = Append(m, v)
    <3>1. n + 1 \in 0 .. length /\ (n + 1) - 1 = n /\ n + 1 # 0 /\ from + (n + 1) - 1 = from + n
      OBVIOUS
    <3> QED BY <1>3, <3>1 DEF Grow, More
  <2>2. m \in Seq(Byte) /\ Len(m) = n /\ (F => Right(m, t, o, n))
    OBVIOUS
  <2> HIDE DEF m, F
  <2>3. v \in Byte
    <3>1. All(data, growing, m) \in Seq(Byte)
      BY <2>2 DEF All
    <3> QED BY <3>1, ByteAtType
  <2>4. F => v = At(t, o + n)
    <3>1. n < length
      OBVIOUS
    <3> QED BY <2>2, <3>1 DEF F, Feeds
  <2> HIDE DEF v
  <2>5. /\ Append(m, v) \in Seq(Byte) /\ Len(Append(m, v)) = n + 1
        /\ F => Right(Append(m, v), t, o, n + 1)
    BY <2>2, <2>3, <2>4, RightMore
  <2> QED BY <2>1, <2>5
<1>6. length \in S
  <2> HIDE DEF S
  <2> QED BY <1>4, <1>5, NatSet
<1> QED
  BY <1>1, <1>6

-------------------------------------------------------------------------------
(* The image begins with the source, and what was written is the target.   *)
Fits == Len(job.image) >= Len(Source) /\ Slice(job.image, 0, Len(Source)) = Source

Led(R, e) ==
  /\ Trace(Source, Target, body, R, e) /\ e.output = Len(Target)
  /\ offsets \in R /\ Len(output) = offsets.output
  /\ Fits => Right(output, Target, 0, offsets.output)
Applies == \E R, e : Led(R, e)

GivenTo(j, image, applier) == [j EXCEPT !.image = image, !.applier = applier]

LEMMA JobExcept ==
  ASSUME NEW j \in Job, NEW image \in Seq(Byte), NEW applier \in {"strict", "ignore size"},
         NEW k, k = GivenTo(j, image, applier)
  PROVE  k \in Job /\ k.source = j.source /\ k.target = j.target
<1>1. PICK c : c = [j EXCEPT !.image = image]
  OBVIOUS
<1>2. c \in Job /\ c.source = j.source /\ c.target = j.target
  BY <1>1 DEF Job
<1>3. k = [c EXCEPT !.applier = applier]
  BY <1>1 DEF GivenTo
<1>4. PICK d : d = [c EXCEPT !.applier = applier]
  OBVIOUS
<1>5. d \in Job /\ d.source = c.source /\ d.target = c.target
  BY <1>2, <1>4 DEF Job
<1> QED
  BY <1>2, <1>3, <1>4, <1>5

LEMMA UseIs ==
  ASSUME PatchAssumption, PatchType, NEW use \in Uses[[source |-> Source, target |-> Target]]
  PROVE  use.image \in Seq(Byte) /\ use.applier \in {"strict", "ignore size"}
<1>1. PICK p : p = [source |-> Source, target |-> Target]
  OBVIOUS
<1>2. p \in Patches /\ use \in Uses[p]
  BY <1>1 DEF PatchType
<1>3. use \in Use
  BY <1>2 DEF PatchAssumption
<1> QED
  BY <1>3 DEF Use

(* What is behind the last command is written too, and reading may begin.  *)
LEMMA FinishKeeps ==
  ASSUME PatchAssumption, PatchType, Creates,
         NEW use \in Uses[[source |-> Source, target |-> Target]], Finish(use.image, use.applier)
  PROVE  PatchType' /\ Applies' /\ phase' = "apply"
<1> DEFINE o == offsets.output  x == offsets.source  y == offsets.target
           d == Flushed(o, pending)
<1>1. /\ Source \in Seq(Byte) /\ Target \in Seq(Byte) /\ body \in Seq(Byte)
      /\ offsets \in Offset /\ pending \in Nat /\ job \in Job
  BY JobIs DEF PatchType
<1>2. o \in Nat /\ o = Len(Target)
  BY <1>1, OffsetIs DEF Finish
<1>3. /\ pending <= o /\ Made(Source, Target, body, o - pending, x, y)
  BY DEF Creates, Forward
<1>4. /\ body' = d /\ phase' = "apply" /\ offsets' = Start /\ pending' = 0 /\ output' = <<>>
      /\ job' = GivenTo(job, use.image, use.applier)
  BY DEF Finish, GivenTo
<1>5. job' \in Job /\ Source' = Source /\ Target' = Target
  <2>1. PICK j : j = job OBVIOUS
  <2>2. PICK k : k = GivenTo(j, use.image, use.applier) OBVIOUS
  <2>3. k \in Job /\ k.source = j.source /\ k.target = j.target
    <3>1. use.image \in Seq(Byte) /\ use.applier \in {"strict", "ignore size"}
      BY UseIs
    <3>2. j \in Job
      BY <1>1, <2>1
    <3>3. PICK image, applier : image = use.image /\ applier = use.applier
      OBVIOUS
    <3>4. k = GivenTo(j, image, applier)
      BY <2>2, <3>3
    <3>5. image \in Seq(Byte) /\ applier \in {"strict", "ignore size"}
      BY <3>1, <3>3
    <3> QED BY <3>2, <3>4, <3>5, JobExcept
  <2>4. job' = k
    BY <1>4, <2>1, <2>2
  <2> QED BY <2>1, <2>3, <2>4 DEF Source, Target
<1> HIDE DEF d
<1>6. d \in Seq(Byte) /\ Made(Source, Target, d, o, x, y)
  <2>1. o <= Len(Target)
    BY <1>2
  <2> HIDE DEF o, x, y
  <2> QED BY <1>1, <1>2, <1>3, <2>1, FlushedIs DEF d
<1>7. Start \in Offset /\ Start.output = 0
  BY DEF Start, Offset
<1>8. PatchType'
  <2>1. output' \in Seq(Byte) /\ pending' \in Nat
    BY <1>4
  <2>2. [source |-> Source, target |-> Target] \in Patches
    BY DEF PatchType
  <2> QED BY <1>4, <1>5, <1>6, <1>7, <2>1, <2>2 DEF PatchType
<1>9. PICK R, e : Trace(Source, Target, d, R, e) /\ e.output = Len(Target)
  <2>1. PICK R : Trace(Source, Target, d, R, Place(o, x, y, Len(d)))
    BY <1>6 DEF Made
  <2>2. Place(o, x, y, Len(d)).output = Len(Target)
    BY <1>2, PlaceIs
  <2> QED BY <2>1, <2>2
<1>10. Start \in R
  BY <1>9 DEF Trace
<1>11. Led(R, e)'
  <2>1. Trace(Source, Target, body, R, e)'
    BY <1>4, <1>5, <1>9
  <2>2. (e.output = Len(Target))' /\ (offsets \in R)'
    BY <1>4, <1>5, <1>9, <1>10
  <2>3. (Len(output) = offsets.output)'
    BY <1>4, <1>7
  <2>4. Right(output, Target, 0, offsets.output)'
    <3>1. \A w, t : Right(w, t, 0, 0)
      BY DEF Right
    <3> QED BY <1>4, <1>7, <3>1
  <2> QED BY <2>1, <2>2, <2>3, <2>4 DEF Led
<1> QED
  BY <1>4, <1>8, <1>11 DEF Applies

-------------------------------------------------------------------------------
(* A copy of what was there before, and one that may reach into itself.    *)
CopiedThere(data, from, length) == Copied(data, from, length, FALSE)
CopiedOn(data, from, length)    == Copied(data, from, length, TRUE)
FeedsThere(data, from, t, o, n) == Feeds(data, from, FALSE, t, o, n)
FeedsOn(data, from, t, o, n)    == Feeds(data, from, TRUE, t, o, n)

LEMMA CopiedThereType ==
  ASSUME PatchAssumption, NEW data \in Seq(Byte), NEW from \in Nat, NEW length \in Nat
  PROVE  CopiedThere(data, from, length) \in Seq(Byte) /\ Len(CopiedThere(data, from, length)) = length
<1>1. PICK growing \in BOOLEAN : growing = FALSE
  OBVIOUS
<1>2. PICK c : c = Copied(data, from, length, growing)
  OBVIOUS
<1>3. c \in Seq(Byte) /\ Len(c) = length
  <2>1. 0 \in Nat
    OBVIOUS
  <2> QED BY <1>2, <2>1, CopiedIs
<1>4. c = CopiedThere(data, from, length)
  BY <1>1, <1>2 DEF CopiedThere
<1> QED
  BY <1>3, <1>4

LEMMA CopiedThereIs ==
  ASSUME PatchAssumption, NEW data \in Seq(Byte), NEW from \in Nat, NEW length \in Nat,
         NEW t, NEW o \in Nat, FeedsThere(data, from, t, o, length)
  PROVE  Right(CopiedThere(data, from, length), t, o, length)
<1>1. PICK growing \in BOOLEAN : growing = FALSE
  OBVIOUS
<1>2. PICK c : c = Copied(data, from, length, growing)
  OBVIOUS
<1>3. Feeds(data, from, growing, t, o, length)
  BY <1>1 DEF FeedsThere
<1>4. Right(c, t, o, length)
  BY <1>2, <1>3, CopiedIs
<1>5. c = CopiedThere(data, from, length)
  BY <1>1, <1>2 DEF CopiedThere
<1> QED
  BY <1>4, <1>5

LEMMA CopiedOnType ==
  ASSUME PatchAssumption, NEW data \in Seq(Byte), NEW from \in Nat, NEW length \in Nat
  PROVE  CopiedOn(data, from, length) \in Seq(Byte) /\ Len(CopiedOn(data, from, length)) = length
<1>1. PICK growing \in BOOLEAN : growing = TRUE
  OBVIOUS
<1>2. PICK c : c = Copied(data, from, length, growing)
  OBVIOUS
<1>3. c \in Seq(Byte) /\ Len(c) = length
  <2>1. 0 \in Nat
    OBVIOUS
  <2> QED BY <1>2, <2>1, CopiedIs
<1>4. c = CopiedOn(data, from, length)
  BY <1>1, <1>2 DEF CopiedOn
<1> QED
  BY <1>3, <1>4

LEMMA CopiedOnIs ==
  ASSUME PatchAssumption, NEW data \in Seq(Byte), NEW from \in Nat, NEW length \in Nat,
         NEW t, NEW o \in Nat, FeedsOn(data, from, t, o, length)
  PROVE  Right(CopiedOn(data, from, length), t, o, length)
<1>1. PICK growing \in BOOLEAN : growing = TRUE
  OBVIOUS
<1>2. PICK c : c = Copied(data, from, length, growing)
  OBVIOUS
<1>3. Feeds(data, from, growing, t, o, length)
  BY <1>1 DEF FeedsOn
<1>4. Right(c, t, o, length)
  BY <1>2, <1>3, CopiedIs
<1>5. c = CopiedOn(data, from, length)
  BY <1>1, <1>2 DEF CopiedOn
<1> QED
  BY <1>4, <1>5

(* A command, as far as its bytes, its length and its offset are known.    *)
ApplySays(mode, length, next, second, offset) ==
  \/ /\ mode = SourceRead
     /\ output' = output \o Slice(job.image, offsets.output, length)
     /\ offsets' = Place(offsets.output + length, offsets.source, offsets.target, next)
  \/ /\ mode = TargetRead
     /\ output' = output \o Slice(body, next, length)
     /\ offsets' = Place(offsets.output + length, offsets.source, offsets.target, next + length)
  \/ /\ mode = SourceCopy
     /\ output' = output \o CopiedThere(job.image, offsets.source + offset, length)
     /\ offsets' = Place(offsets.output + length, offsets.source + offset + length,
                         offsets.target, second)
  \/ /\ mode = TargetCopy
     /\ output' = output \o CopiedOn(output, offsets.target + offset, length)
     /\ offsets' = Place(offsets.output + length, offsets.source,
                         offsets.target + offset + length, second)

Unsigned(n) == IF n % 2 = 1 THEN -(n \div 2) ELSE n \div 2

Moved(a, p, q)          == [a EXCEPT !.output = p, !.modify = q]
MovedSource(a, p, q, r) == [a EXCEPT !.output = p, !.modify = q, !.source = r]
MovedTarget(a, p, q, r) == [a EXCEPT !.output = p, !.modify = q, !.target = r]

LEMMA MovedIs ==
  ASSUME NEW a \in Offset, NEW p, NEW q
  PROVE  Moved(a, p, q) = Place(p, a.source, a.target, q)
<1>1. PICK c : c = [a EXCEPT !.output = p]
  OBVIOUS
<1>2. c = Place(p, a.source, a.target, a.modify)
  BY <1>1 DEF Place, Offset
<1>3. Moved(a, p, q) = [c EXCEPT !.modify = q]
  BY <1>1 DEF Moved
<1>4. [c EXCEPT !.modify = q] = Place(p, a.source, a.target, q)
  BY <1>2 DEF Place
<1> QED
  BY <1>3, <1>4

LEMMA MovedSourceIs ==
  ASSUME NEW a \in Offset, NEW p, NEW q, NEW r
  PROVE  MovedSource(a, p, q, r) = Place(p, r, a.target, q)
<1>1. PICK c : c = Moved(a, p, q)
  OBVIOUS
<1>2. MovedSource(a, p, q, r) = [c EXCEPT !.source = r]
  BY <1>1 DEF Moved, MovedSource
<1>3. c = Place(p, a.source, a.target, q)
  BY <1>1, MovedIs
<1>4. [c EXCEPT !.source = r] = Place(p, r, a.target, q)
  BY <1>3 DEF Place
<1> QED
  BY <1>2, <1>4

LEMMA MovedTargetIs ==
  ASSUME NEW a \in Offset, NEW p, NEW q, NEW r
  PROVE  MovedTarget(a, p, q, r) = Place(p, a.source, r, q)
<1>1. PICK c : c = Moved(a, p, q)
  OBVIOUS
<1>2. MovedTarget(a, p, q, r) = [c EXCEPT !.target = r]
  BY <1>1 DEF Moved, MovedTarget
<1>3. c = Place(p, a.source, a.target, q)
  BY <1>1, MovedIs
<1>4. [c EXCEPT !.target = r] = Place(p, a.source, r, q)
  BY <1>3 DEF Place
<1> QED
  BY <1>2, <1>4

LEMMA CommandSays ==
  ASSUME offsets \in Offset, ApplyCommand,
         NEW command, command = decode(body, offsets.modify),
         NEW second, second = decode(body, command.next)
  PROVE  /\ ApplySays(command.value % 4, command.value \div 4 + 1, command.next, second.next,
                      Unsigned(second.value))
         /\ UNCHANGED <<job, phase, body, nodes, pending>>
         /\ Len(job.image) >= Len(Source)
<1> DEFINE mode    == command.value % 4
           length  == command.value \div 4 + 1
           offset  == Unsigned(second.value)
           source  == offsets.source + offset
           target  == offsets.target + offset
           o       == offsets.output + length
<1>1. \/ /\ mode = SourceRead
         /\ output' = output \o Slice(job.image, offsets.output, length)
         /\ offsets' = Moved(offsets, o, command.next)
      \/ /\ mode = TargetRead
         /\ output' = output \o Slice(body, command.next, length)
         /\ offsets' = Moved(offsets, o, command.next + length)
      \/ /\ mode = SourceCopy
         /\ output' = output \o CopiedThere(job.image, source, length)
         /\ offsets' = MovedSource(offsets, o, second.next, source + length)
      \/ /\ mode = TargetCopy
         /\ output' = output \o CopiedOn(output, target, length)
         /\ offsets' = MovedTarget(offsets, o, second.next, target + length)
  BY DEF ApplyCommand, Unsigned, Moved, MovedSource, MovedTarget,
     CopiedThere, CopiedOn
<1>2. UNCHANGED <<job, phase, body, nodes, pending>> /\ Len(job.image) >= Len(Source)
  BY DEF ApplyCommand, Applying
<1> HIDE DEF mode, length, offset, o
<1>3. ApplySays(mode, length, command.next, second.next, offset)
  <2>1. Moved(offsets, o, command.next) = Place(o, offsets.source, offsets.target, command.next)
    BY MovedIs
  <2>2. Moved(offsets, o, command.next + length) =
          Place(o, offsets.source, offsets.target, command.next + length)
    BY MovedIs
  <2>3. MovedSource(offsets, o, second.next, source + length) =
          Place(o, source + length, offsets.target, second.next)
    BY MovedSourceIs
  <2>4. MovedTarget(offsets, o, second.next, target + length) =
          Place(o, offsets.source, target + length, second.next)
    BY MovedTargetIs
  <2> QED BY <1>1, <2>1, <2>2, <2>3, <2>4 DEF ApplySays, o
<1> QED
  BY <1>2, <1>3 DEF mode, length, offset

LEMMA FitsIs ==
  ASSUME PatchType, Fits
  PROVE  Len(Source) <= Len(job.image) /\ Right(job.image, Source, 0, Len(Source))
<1>1. Source \in Seq(Byte) /\ job.image \in Seq(Byte)
  BY JobIs
<1>2. Len(Source) \in Nat /\ 0 + Len(Source) <= Len(job.image)
  BY <1>1 DEF Fits
<1>3. \A k \in 0 .. (Len(Source) - 1) : At(Slice(job.image, 0, Len(Source)), k) = At(job.image, 0 + k)
  BY <1>1, <1>2, SliceIs
<1>4. \A k \in 0 .. (Len(Source) - 1) : At(job.image, k) = At(Source, 0 + k)
  <2> SUFFICES ASSUME NEW k \in 0 .. (Len(Source) - 1) PROVE At(job.image, k) = At(Source, 0 + k)
    OBVIOUS
  <2>1. At(Source, k) = At(job.image, 0 + k)
    BY <1>3 DEF Fits
  <2>2. 0 + k = k
    OBVIOUS
  <2> QED BY <2>1, <2>2
<1> QED
  BY <1>2, <1>4 DEF Right

LEMMA RightJoins ==
  ASSUME NEW w \in Seq(Byte), NEW x \in Seq(Byte), NEW t, NEW o, o = Len(w)
  PROVE  /\ w \o x \in Seq(Byte) /\ Len(w \o x) = o + Len(x)
         /\ Right(w, t, 0, o) /\ Right(x, t, o, Len(x)) => Right(w \o x, t, 0, o + Len(x))
<1> DEFINE u == w \o x  n == Len(x)
<1>1. u \in Seq(Byte) /\ o \in Nat /\ n \in Nat /\ Len(u) = o + n
      /\ (\A k \in 1 .. o : u[k] = w[k]) /\ (\A k \in 1 .. n : u[o + k] = x[k])
  BY Joins
<1> HIDE DEF u, n
<1>2. ASSUME Right(w, t, 0, o), Right(x, t, o, n), NEW k \in 0 .. ((o + n) - 1)
      PROVE  At(u, k) = At(t, 0 + k)
  <2>1. CASE k < o
    <3>1. k \in 0 .. (o - 1) /\ k + 1 \in 1 .. o
      BY <1>1, <2>1
    <3>2. At(w, k) = At(t, 0 + k)
      BY <1>2, <3>1 DEF Right
    <3>3. At(u, k) = At(w, k)
      BY <1>1, <3>1 DEF At
    <3> QED BY <3>2, <3>3
  <2>2. CASE ~(k < o)
    <3> DEFINE i == k - o
    <3>1. i \in 0 .. (n - 1) /\ i + 1 \in 1 .. n /\ o + i = k /\ 0 + k = k /\ o + (i + 1) = k + 1
      BY <1>1, <2>2
    <3> HIDE DEF i
    <3>2. At(x, i) = At(t, o + i)
      BY <1>2, <3>1 DEF Right
    <3>3. u[o + (i + 1)] = x[i + 1]
      BY <1>1, <3>1
    <3>4. At(u, k) = At(x, i)
      BY <3>1, <3>3 DEF At
    <3> QED BY <3>1, <3>2, <3>4
  <2> QED BY <2>1, <2>2
<1>3. Right(w, t, 0, o) /\ Right(x, t, o, n) => Right(u, t, 0, o + n)
  BY <1>2 DEF Right
<1> QED
  BY <1>1, <1>3 DEF u, n

LEMMA LedIs ==
  ASSUME PatchAssumption, PatchType, NEW R, NEW e, Led(R, e), offsets.modify < Len(body)
  PROVE  \E c \in R : c \in Offset /\ Takes(Source, Target, body, offsets, c)
<1>1. Trace(Source, Target, body, R, e) /\ offsets \in R
  BY DEF Led
<1>2. e.modify = Len(body) /\ Len(body) \in Nat /\ offsets.modify \in Nat
  <2>1. body \in Seq(Byte) /\ offsets \in Offset
    BY DEF PatchType
  <2>2. e.modify = Len(body)
    BY <1>1 DEF Trace
  <2> QED BY <2>1, <2>2, OffsetIs
<1>3. offsets # e
  BY <1>2
<1>4. PICK c \in R : Takes(Source, Target, body, offsets, c)
  BY <1>1, <1>3 DEF Trace
<1>5. c \in Offset
  BY <1>1, <1>4 DEF Trace, Within
<1> QED
  BY <1>4, <1>5

(* What a command leaves that goes the way the patch was made.             *)
LEMMA StepKeeps ==
  ASSUME PatchAssumption, PatchType, NEW R, NEW e, Led(R, e),
         NEW c \in R, c \in Offset, offsets' = c,
         NEW x \in Seq(Byte), output' = output \o x, c.output = offsets.output + Len(x),
         Fits => Right(x, Target, offsets.output, Len(x)),
         UNCHANGED <<job, phase, body, nodes, pending>>
  PROVE  PatchType' /\ Applies'
<1> DEFINE o == offsets.output
<1>1. Source' = Source /\ Target' = Target /\ (Fits' <=> Fits)
  BY DEF Source, Target, Fits
<1>2. output \in Seq(Byte) /\ Len(output) = o
  BY DEF PatchType, Led
<1> HIDE DEF o
<1>3. /\ output' \in Seq(Byte) /\ Len(output') = o + Len(x)
      /\ Right(output, Target, 0, o) /\ Right(x, Target, o, Len(x)) =>
           Right(output', Target, 0, o + Len(x))
  <2>1. /\ output \o x \in Seq(Byte) /\ Len(output \o x) = o + Len(x)
        /\ Right(output, Target, 0, o) /\ Right(x, Target, o, Len(x)) =>
             Right(output \o x, Target, 0, o + Len(x))
    BY <1>2, RightJoins
  <2> QED BY <2>1
<1>4. offsets'.output = o + Len(x)
  BY DEF o
<1>5. PatchType'
  <2>1. job' = job /\ body' = body /\ pending' = pending
    OBVIOUS
  <2> QED BY <1>1, <1>3, <2>1 DEF PatchType
<1>6. Led(R, e)'
  <2>1. (Trace(Source, Target, body, R, e) /\ e.output = Len(Target))'
    BY <1>1 DEF Led
  <2>2. (offsets \in R /\ Len(output) = offsets.output)'
    BY <1>3, <1>4
  <2>3. (Fits => Right(output, Target, 0, offsets.output))'
    <3>1. Fits => Right(output, Target, 0, o)
      BY DEF Led, o
    <3>2. Fits => Right(x, Target, o, Len(x))
      BY DEF o
    <3> QED BY <1>1, <1>3, <1>4, <3>1, <3>2
  <2> QED BY <2>1, <2>2, <2>3 DEF Led
<1> QED
  BY <1>5, <1>6 DEF Applies

LEMMA ModeIs ==
  ASSUME PatchAssumption, PatchType, ApplyCommand, NEW length \in Lengths, NEW mode \in 0 .. 3,
         Given(body, offsets, mode, length),
         NEW second, second = decode(body, Past(offsets, mode, length))
  PROVE  /\ ApplySays(mode, length, Past(offsets, mode, length), second.next,
                      Unsigned(second.value))
         /\ UNCHANGED <<job, phase, body, nodes, pending>>
         /\ Len(job.image) >= Len(Source)
<1>1. body \in Seq(Byte) /\ offsets \in Offset
  BY DEF PatchType
<1>2. PICK command : command = decode(body, offsets.modify)
  OBVIOUS
<1>3. command.value = CommandOf(mode, length) /\ command.next = Past(offsets, mode, length)
  BY <1>1, <1>2, GivenIs
<1>4. second = decode(body, command.next)
  BY <1>3
<1>5. /\ ApplySays(command.value % 4, command.value \div 4 + 1, command.next, second.next,
                   Unsigned(second.value))
      /\ UNCHANGED <<job, phase, body, nodes, pending>>
      /\ Len(job.image) >= Len(Source)
  BY <1>1, <1>2, <1>4, CommandSays
<1>6. CommandOf(mode, length) % 4 = mode /\ CommandOf(mode, length) \div 4 + 1 = length
  BY CommandType
<1>7. command.value % 4 = mode /\ command.value \div 4 + 1 = length
  BY <1>3, <1>6
<1>8. ApplySays(mode, length, command.next, second.next, Unsigned(second.value))
  BY <1>5, <1>7
<1> QED
  BY <1>3, <1>5, <1>8

LEMMA SourceReadKeeps ==
  ASSUME PatchAssumption, PatchType, ApplyCommand, NEW R, NEW e, Led(R, e),
         NEW c \in R, c \in Offset, ReadsSource(Source, Target, body, offsets, c)
  PROVE  PatchType' /\ Applies' /\ phase' = phase
<1>1. PICK length \in Lengths :
        /\ Given(body, offsets, SourceRead, length)
        /\ Same(Source, offsets.output, Target, offsets.output, length)
        /\ c = Place(offsets.output + length, offsets.source, offsets.target,
                     Past(offsets, SourceRead, length))
  BY DEF ReadsSource
<1> DEFINE x == Slice(job.image, offsets.output, length)
<1>2. PICK second : second = decode(body, Past(offsets, SourceRead, length))
  OBVIOUS
<1>3. /\ ApplySays(SourceRead, length, Past(offsets, SourceRead, length), second.next,
                   Unsigned(second.value))
      /\ UNCHANGED <<job, phase, body, nodes, pending>>
      /\ Len(job.image) >= Len(Source)
  BY <1>1, <1>2, ModeIs, ModesAre
<1>4. output' = output \o x /\ offsets' = c
  BY <1>1, <1>3 DEF ApplySays, SourceRead, TargetRead, SourceCopy, TargetCopy
<1>5. /\ job.image \in Seq(Byte) /\ Source \in Seq(Byte) /\ offsets.output \in Nat
      /\ length \in Nat
  BY JobIs, OffsetIs DEF PatchType, Lengths
<1>6. /\ offsets.output + length <= Len(Source) /\ offsets.output + length <= Len(job.image)
      /\ \A k \in 0 .. (length - 1) :
           At(Source, offsets.output + k) = At(Target, offsets.output + k)
  <2>1. /\ offsets.output + length <= Len(Source)
        /\ \A k \in 0 .. (length - 1) :
             At(Source, offsets.output + k) = At(Target, offsets.output + k)
    BY <1>1 DEF Same
  <2>2. Len(Source) \in Nat /\ Len(job.image) \in Nat
    BY <1>5
  <2> QED BY <1>3, <1>5, <2>1, <2>2
<1>7. /\ x \in Seq(Byte) /\ Len(x) = length
      /\ \A k \in 0 .. (length - 1) : At(x, k) = At(job.image, offsets.output + k)
  BY <1>5, <1>6, SliceIs
<1> HIDE DEF x
<1>8. Fits => Right(x, Target, offsets.output, length)
  <2> SUFFICES ASSUME Fits, NEW k \in 0 .. (length - 1)
               PROVE  At(x, k) = At(Target, offsets.output + k)
    BY DEF Right
  <2>1. offsets.output + k \in 0 .. (Len(Source) - 1) /\ 0 + (offsets.output + k) = offsets.output + k
    BY <1>5, <1>6
  <2>2. At(job.image, offsets.output + k) = At(Source, offsets.output + k)
    BY <2>1, FitsIs DEF Right
  <2> QED BY <1>6, <1>7, <2>2
<1>9. c.output = offsets.output + length
  BY <1>1, PlaceIs
<1> QED
  BY <1>3, <1>4, <1>7, <1>8, <1>9, StepKeeps

LEMMA TargetReadKeeps ==
  ASSUME PatchAssumption, PatchType, ApplyCommand, NEW R, NEW e, Led(R, e),
         NEW c \in R, c \in Offset, ReadsTarget(Source, Target, body, offsets, c)
  PROVE  PatchType' /\ Applies' /\ phase' = phase
<1>1. PICK length \in Lengths :
        /\ Given(body, offsets, TargetRead, length)
        /\ Same(body, Past(offsets, TargetRead, length), Target, offsets.output, length)
        /\ c = Place(offsets.output + length, offsets.source, offsets.target,
                     Past(offsets, TargetRead, length) + length)
  BY DEF ReadsTarget
<1> DEFINE p == Past(offsets, TargetRead, length)  x == Slice(body, p, length)
<1>2. PICK second : second = decode(body, p)
  OBVIOUS
<1>3. /\ ApplySays(TargetRead, length, p, second.next, Unsigned(second.value))
      /\ UNCHANGED <<job, phase, body, nodes, pending>>
  BY <1>1, <1>2, ModeIs, ModesAre
<1>4. output' = output \o x /\ offsets' = c
  BY <1>1, <1>3 DEF ApplySays, SourceRead, TargetRead, SourceCopy, TargetCopy
<1>5. body \in Seq(Byte) /\ offsets.output \in Nat /\ length \in Nat /\ offsets \in Offset
  BY OffsetIs DEF PatchType, Lengths
<1>6. p \in Nat
  BY <1>1, <1>5, GivenIs, ModesAre
<1>7. /\ p + length <= Len(body)
      /\ \A k \in 0 .. (length - 1) : At(body, p + k) = At(Target, offsets.output + k)
  BY <1>1 DEF Same
<1> HIDE DEF p
<1>8. /\ x \in Seq(Byte) /\ Len(x) = length
      /\ \A k \in 0 .. (length - 1) : At(x, k) = At(body, p + k)
  BY <1>5, <1>6, <1>7, SliceIs
<1> HIDE DEF x
<1>9. Right(x, Target, offsets.output, length)
  BY <1>7, <1>8 DEF Right
<1>10. c.output = offsets.output + length
  BY <1>1, PlaceIs
<1> QED
  BY <1>3, <1>4, <1>8, <1>9, <1>10, StepKeeps

LEMMA SourceFeeds ==
  ASSUME PatchType, Fits, NEW from \in Nat, NEW o \in Nat, NEW n \in Nat,
         Same(Source, from, Target, o, n)
  PROVE  FeedsThere(job.image, from, Target, o, n)
<1> SUFFICES ASSUME NEW m \in Seq(Byte), Len(m) < n
             PROVE  ByteAt(All(job.image, FALSE, m), from + Len(m)) = At(Target, o + Len(m))
  BY DEF FeedsThere, Feeds
<1> DEFINE k == Len(m)
<1>1. k \in Nat /\ k \in 0 .. (n - 1) /\ Len(Source) \in Nat /\ Len(job.image) \in Nat
  BY JobIs
<1> HIDE DEF k
<1>2. from + n <= Len(Source) /\ At(Source, from + k) = At(Target, o + k)
  BY <1>1 DEF Same
<1>3. Len(Source) <= Len(job.image) /\ Right(job.image, Source, 0, Len(Source))
  BY FitsIs
<1>4. from + k \in 0 .. (Len(Source) - 1) /\ from + k \in 0 .. (Len(job.image) - 1)
      /\ 0 + (from + k) = from + k
  BY <1>1, <1>2, <1>3
<1>5. At(job.image, from + k) = At(Source, from + k)
  BY <1>3, <1>4 DEF Right
<1>6. ByteAt(job.image, from + k) = At(Target, o + k)
  BY <1>2, <1>4, <1>5 DEF ByteAt
<1>7. All(job.image, FALSE, m) = job.image
  BY DEF All
<1> QED
  BY <1>6, <1>7 DEF k

LEMMA TargetFeeds ==
  ASSUME NEW w \in Seq(Byte), NEW t \in Seq(Byte), NEW o, o = Len(w), Right(w, t, 0, o),
         NEW from \in Nat, from < o, NEW n \in Nat, Same(t, from, t, o, n)
  PROVE  FeedsOn(w, from, t, o, n)
<1> SUFFICES ASSUME NEW m \in Seq(Byte), Len(m) < n, Right(m, t, o, Len(m))
             PROVE  ByteAt(All(w, TRUE, m), from + Len(m)) = At(t, o + Len(m))
  BY DEF FeedsOn, Feeds
<1> DEFINE k == Len(m)  u == w \o m
<1>1. u \in Seq(Byte) /\ Len(u) = o + k /\ Right(u, t, 0, o + k)
  BY RightJoins
<1>2. k \in Nat /\ k \in 0 .. (n - 1) /\ o \in Nat
  OBVIOUS
<1>3. All(w, TRUE, m) = u
  BY DEF All
<1> HIDE DEF k, u
<1>4. At(t, from + k) = At(t, o + k)
  BY <1>2 DEF Same
<1>5. from + k \in 0 .. ((o + k) - 1) /\ 0 + (from + k) = from + k
  BY <1>2
<1>6. At(u, from + k) = At(t, from + k)
  BY <1>1, <1>5 DEF Right
<1>7. from + k \in 0 .. (Len(u) - 1)
  BY <1>1, <1>5
<1>8. ByteAt(u, from + k) = At(t, o + k)
  BY <1>4, <1>6, <1>7 DEF ByteAt
<1> QED
  BY <1>3, <1>8 DEF k

LEMMA UnsignedIs ==
  ASSUME NEW n \in Int
  PROVE  Unsigned(SignedOf(n)) = n
BY SignedType DEF Unsigned

LEMMA SourceCopyKeeps ==
  ASSUME PatchAssumption, PatchType, ApplyCommand, NEW R, NEW e, Led(R, e),
         NEW c \in R, c \in Offset, CopiesSource(Source, Target, body, offsets, c)
  PROVE  PatchType' /\ Applies' /\ phase' = phase
<1>1. PICK length \in Lengths, from \in Nat :
        /\ GivenBoth(body, offsets, SourceCopy, length, from - offsets.source)
        /\ Same(Source, from, Target, offsets.output, length)
        /\ c = Place(offsets.output + length, from + length, offsets.target,
                     Behind(offsets, SourceCopy, length, from - offsets.source))
  BY DEF CopiesSource
<1> DEFINE p == Past(offsets, SourceCopy, length)  n == from - offsets.source
           x == CopiedThere(job.image, from, length)
<1>2. body \in Seq(Byte) /\ offsets.output \in Nat /\ length \in Nat /\ offsets \in Offset
      /\ n \in Int /\ offsets.source + n = from /\ job.image \in Seq(Byte)
  BY JobIs, OffsetIs DEF PatchType, Lengths
<1> HIDE DEF n
<1>3. GivenBoth(body, offsets, SourceCopy, length, n)
  BY <1>1 DEF n
<1>4. c = Place(offsets.output + length, from + length, offsets.target,
                Behind(offsets, SourceCopy, length, n))
  BY <1>1 DEF n
<1>5. PICK second : second = decode(body, p)
  OBVIOUS
<1>6. second.value = SignedOf(n) /\ second.next = Behind(offsets, SourceCopy, length, n)
  BY <1>2, <1>3, <1>5, GivenBothIs, ModesAre
<1>7. /\ ApplySays(SourceCopy, length, p, second.next, Unsigned(second.value))
      /\ UNCHANGED <<job, phase, body, nodes, pending>>
  <2>1. Given(body, offsets, SourceCopy, length)
    BY <1>3 DEF GivenBoth
  <2> QED BY <1>5, <2>1, ModeIs, ModesAre
<1>8. Unsigned(second.value) = n
  BY <1>2, <1>6, UnsignedIs
<1> HIDE DEF p
<1>9. output' = output \o x /\ offsets' = c
  <2>1. ApplySays(SourceCopy, length, p, Behind(offsets, SourceCopy, length, n), n)
    BY <1>6, <1>7, <1>8
  <2>2. /\ output' = output \o CopiedThere(job.image, offsets.source + n, length)
        /\ offsets' = Place(offsets.output + length, offsets.source + n + length,
                            offsets.target, Behind(offsets, SourceCopy, length, n))
    BY <2>1 DEF ApplySays, SourceRead, TargetRead, SourceCopy, TargetCopy
  <2> QED BY <1>2, <1>4, <2>2
<1> HIDE DEF x
<1>10. x \in Seq(Byte) /\ Len(x) = length
  BY <1>2, CopiedThereType DEF x
<1>11. Fits => Right(x, Target, offsets.output, length)
  <2>1. Fits => FeedsThere(job.image, from, Target, offsets.output, length)
    BY <1>1, <1>2, SourceFeeds
  <2> QED BY <1>2, <2>1, CopiedThereIs DEF x
<1>12. c.output = offsets.output + length
  BY <1>4, PlaceIs
<1> QED
  BY <1>7, <1>9, <1>10, <1>11, <1>12, StepKeeps

LEMMA TargetCopyKeeps ==
  ASSUME PatchAssumption, PatchType, ApplyCommand, NEW R, NEW e, Led(R, e),
         NEW c \in R, c \in Offset, CopiesTarget(Source, Target, body, offsets, c)
  PROVE  PatchType' /\ Applies' /\ phase' = phase
<1>1. PICK length \in Lengths, from \in Nat :
        /\ GivenBoth(body, offsets, TargetCopy, length, from - offsets.target)
        /\ from < offsets.output /\ Same(Target, from, Target, offsets.output, length)
        /\ c = Place(offsets.output + length, offsets.source, from + length,
                     Behind(offsets, TargetCopy, length, from - offsets.target))
  BY DEF CopiesTarget
<1> DEFINE p == Past(offsets, TargetCopy, length)  n == from - offsets.target
           x == CopiedOn(output, from, length)
<1>2. body \in Seq(Byte) /\ offsets.output \in Nat /\ length \in Nat /\ offsets \in Offset
      /\ n \in Int /\ offsets.target + n = from
      /\ output \in Seq(Byte) /\ Len(output) = offsets.output /\ Target \in Seq(Byte)
  BY JobIs, OffsetIs DEF PatchType, Lengths, Led
<1> HIDE DEF n
<1>3. GivenBoth(body, offsets, TargetCopy, length, n)
  BY <1>1 DEF n
<1>4. c = Place(offsets.output + length, offsets.source, from + length,
                Behind(offsets, TargetCopy, length, n))
  BY <1>1 DEF n
<1>5. PICK second : second = decode(body, p)
  OBVIOUS
<1>6. second.value = SignedOf(n) /\ second.next = Behind(offsets, TargetCopy, length, n)
  BY <1>2, <1>3, <1>5, GivenBothIs, ModesAre
<1>7. /\ ApplySays(TargetCopy, length, p, second.next, Unsigned(second.value))
      /\ UNCHANGED <<job, phase, body, nodes, pending>>
  <2>1. Given(body, offsets, TargetCopy, length)
    BY <1>3 DEF GivenBoth
  <2> QED BY <1>5, <2>1, ModeIs, ModesAre
<1>8. Unsigned(second.value) = n
  BY <1>2, <1>6, UnsignedIs
<1> HIDE DEF p
<1>9. output' = output \o x /\ offsets' = c
  <2>1. ApplySays(TargetCopy, length, p, Behind(offsets, TargetCopy, length, n), n)
    BY <1>6, <1>7, <1>8
  <2>2. /\ output' = output \o CopiedOn(output, offsets.target + n, length)
        /\ offsets' = Place(offsets.output + length, offsets.source,
                            offsets.target + n + length, Behind(offsets, TargetCopy, length, n))
    BY <2>1 DEF ApplySays, SourceRead, TargetRead, SourceCopy, TargetCopy
  <2> QED BY <1>2, <1>4, <2>2
<1> HIDE DEF x
<1>10. x \in Seq(Byte) /\ Len(x) = length
  BY <1>2, CopiedOnType DEF x
<1>11. Fits => Right(x, Target, offsets.output, length)
  <2>1. Fits => Right(output, Target, 0, offsets.output)
    BY DEF Led
  <2>2. Fits => FeedsOn(output, from, Target, offsets.output, length)
    BY <1>1, <1>2, <2>1, TargetFeeds
  <2> QED BY <1>2, <2>2, CopiedOnIs DEF x
<1>12. c.output = offsets.output + length
  BY <1>4, PlaceIs
<1> QED
  BY <1>7, <1>9, <1>10, <1>11, <1>12, StepKeeps

LEMMA CommandKeeps ==
  ASSUME PatchAssumption, PatchType, Applies, ApplyCommand
  PROVE  PatchType' /\ Applies' /\ phase' = phase
<1>1. PICK R, e : Led(R, e)
  BY DEF Applies
<1>2. PICK c \in R : c \in Offset /\ Takes(Source, Target, body, offsets, c)
  BY <1>1, LedIs DEF ApplyCommand
<1> QED
  BY <1>1, <1>2, SourceReadKeeps, TargetReadKeeps, SourceCopyKeeps, TargetCopyKeeps DEF Takes

-------------------------------------------------------------------------------
(* The end of a patch is the end of the target.                            *)
LEMMA TakesMore ==
  ASSUME PatchAssumption, NEW s, NEW t, NEW b \in Seq(Byte), NEW a \in Offset, NEW c,
         Takes(s, t, b, a, c)
  PROVE  a.modify < Len(b)
<1>1. a.modify \in Nat /\ Len(b) \in Nat /\ a.source \in Nat /\ a.target \in Nat
  BY OffsetIs
<1>2. ASSUME NEW length \in Lengths, NEW mode \in 0 .. 3, Given(b, a, mode, length)
      PROVE  a.modify < Len(b)
  <2>1. /\ Past(a, mode, length) \in Nat /\ Past(a, mode, length) > a.modify
        /\ Past(a, mode, length) <= Len(b)
    BY <1>2, GivenIs
  <2> QED BY <1>1, <2>1
<1>3. \E length \in Lengths, mode \in 0 .. 3 : Given(b, a, mode, length)
  BY ModesAre DEF Takes, ReadsSource, ReadsTarget, CopiesSource, CopiesTarget, GivenBoth
<1> QED
  BY <1>2, <1>3

LEMMA EndIs ==
  ASSUME PatchAssumption, PatchType, Applies, offsets.modify = Len(body)
  PROVE  /\ Len(output) = Len(Target)
         /\ Fits => Right(output, Target, 0, Len(Target))
<1>1. PICK R, e : Led(R, e)
  BY DEF Applies
<1>2. body \in Seq(Byte) /\ offsets \in Offset
  BY DEF PatchType
<1>3. offsets = e
  <2> SUFFICES ASSUME offsets # e PROVE FALSE
    OBVIOUS
  <2>1. PICK c \in R : Takes(Source, Target, body, offsets, c)
    BY <1>1 DEF Led, Trace
  <2>2. offsets.modify < Len(body)
    BY <1>2, <2>1, TakesMore
  <2>3. Len(body) \in Nat
    BY <1>2
  <2> QED BY <2>2, <2>3
<1>4. offsets.output = Len(Target) /\ Len(output) = offsets.output
  BY <1>1, <1>3 DEF Led
<1>5. Fits => Right(output, Target, 0, offsets.output)
  BY <1>1 DEF Led
<1> QED
  BY <1>4, <1>5

LEMMA SameBytes ==
  ASSUME NEW w \in Seq(Byte), NEW t \in Seq(Byte), Len(w) = Len(t), Right(w, t, 0, Len(t))
  PROVE  w = t
<1>1. \A i \in 1 .. Len(w) : w[i] = t[i]
  <2> SUFFICES ASSUME NEW i \in 1 .. Len(w) PROVE w[i] = t[i]
    OBVIOUS
  <2>1. i - 1 \in 0 .. (Len(t) - 1) /\ 0 + (i - 1) = i - 1 /\ (i - 1) + 1 = i
    OBVIOUS
  <2>2. At(w, i - 1) = At(t, i - 1)
    BY <2>1 DEF Right
  <2> QED BY <2>1, <2>2 DEF At
<1> QED
  BY <1>1, SeqEqual

LEMMA BeginsWith ==
  ASSUME NEW w \in Seq(Byte), NEW t \in Seq(Byte), Len(t) <= Len(w), Right(w, t, 0, Len(t))
  PROVE  Slice(w, 0, Len(t)) = t
<1> DEFINE u == Slice(w, 0, Len(t))  n == Len(t)
<1>1. n \in Nat /\ 0 + n <= Len(w) /\ 0 \in Nat
  OBVIOUS
<1>2. u \in Seq(Byte) /\ Len(u) = n /\ \A k \in 0 .. (n - 1) : At(u, k) = At(w, 0 + k)
  BY <1>1, SliceIs
<1> HIDE DEF u
<1>3. Right(u, t, 0, n)
  <2> SUFFICES ASSUME NEW k \in 0 .. (n - 1) PROVE At(u, k) = At(t, 0 + k)
    BY DEF Right
  <2>1. 0 + k = k
    OBVIOUS
  <2>2. At(w, k) = At(t, 0 + k)
    BY DEF Right
  <2> QED BY <1>2, <2>1, <2>2
<1>4. u = t
  BY <1>2, <1>3, SameBytes
<1> QED
  BY <1>4 DEF u

(* What an image has beyond what was written is behind it then.            *)
Stretched(w, image, size) == w \o Slice(image, Len(w), size - Len(w))

LEMMA Beyond ==
  ASSUME NEW w \in Seq(Byte), NEW image \in Seq(Byte), NEW size,
         size = Max({Len(w), Len(image)}),
         NEW u, u = Stretched(w, image, size)
  PROVE  /\ u \in Seq(Byte) /\ Len(u) = size /\ Len(w) <= size
         /\ \A t : Right(w, t, 0, Len(w)) => Right(u, t, 0, Len(w))
         /\ \A i \in Len(w) .. (size - 1) : At(u, i) = At(image, i)
<1> DEFINE l == Len(w)  m == Len(image)  n == size - l  x == Slice(image, l, n)
<1>1. l \in Nat /\ m \in Nat
  OBVIOUS
<1>2. size \in Nat /\ size \in {l, m} /\ l <= size /\ m <= size
  <2>1. {l, m} \in SUBSET Nat /\ {l, m} # {} /\ l + m \in Nat /\ \A k \in {l, m} : k <= l + m
    BY <1>1
  <2>2. size = Max({l, m})
    OBVIOUS
  <2> HIDE DEF l, m
  <2>3. size \in {l, m} /\ \A k \in {l, m} : k <= size
    BY <2>1, <2>2, MaxIs
  <2> QED BY <1>1, <2>3
<1>3. n \in Nat /\ l + n = size
  <2> HIDE DEF l, m
  <2> QED BY <1>1, <1>2
<1>4. /\ x \in Seq(Byte) /\ Len(x) = n
      /\ \A k \in 0 .. (n - 1) : At(x, k) = At(image, l + k)
  <2>1. CASE size = m
    <3>1. l + n <= Len(image)
      BY <1>3, <2>1
    <3> HIDE DEF l, m, n
    <3> QED BY <1>1, <1>3, <3>1, SliceIs
  <2>2. CASE size = l
    <3>1. n = 0
      BY <1>1, <2>2
    <3> HIDE DEF l, m, n
    <3>2. l + 1 \in Int /\ l + n \in Int /\ l + n < l + 1
      BY <1>1, <3>1
    <3>3. x = <<>>
      BY <3>2, SubSeqEmpty DEF Slice
    <3> HIDE DEF x
    <3> QED BY <3>1, <3>3
  <2> QED BY <1>2, <2>1, <2>2
<1>5. u = w \o x
  BY DEF Stretched
<1> HIDE DEF x, n, m
<1>6. /\ u \in Seq(Byte) /\ Len(u) = l + Len(x)
      /\ (\A k \in 1 .. l : u[k] = w[k]) /\ (\A k \in 1 .. Len(x) : u[l + k] = x[k])
  <2> DEFINE y == w \o x
  <2>1. /\ y \in Seq(Byte) /\ Len(y) = l + Len(x)
        /\ (\A k \in 1 .. l : y[k] = w[k]) /\ (\A k \in 1 .. Len(x) : y[l + k] = x[k])
    BY <1>4, Joins
  <2> HIDE DEF y
  <2>2. u = y
    BY <1>5 DEF y
  <2> QED BY <2>1, <2>2
<1> HIDE DEF l
<1>7. ASSUME NEW t, Right(w, t, 0, l) PROVE Right(u, t, 0, l)
  <2> SUFFICES ASSUME NEW k \in 0 .. (l - 1) PROVE At(u, k) = At(t, 0 + k)
    BY DEF Right
  <2>1. k + 1 \in 1 .. l
    BY <1>1
  <2>2. At(w, k) = At(t, 0 + k)
    BY <1>7 DEF Right
  <2> QED BY <1>6, <2>1, <2>2 DEF At
<1>8. ASSUME NEW i \in l .. (size - 1) PROVE At(u, i) = At(image, i)
  <2> DEFINE k == i - l
  <2>1. k \in 0 .. (n - 1) /\ k + 1 \in 1 .. n /\ l + k = i /\ l + (k + 1) = i + 1
    BY <1>1, <1>2, <1>3
  <2> HIDE DEF k
  <2>2. At(x, k) = At(image, i)
    BY <1>4, <2>1
  <2>3. u[l + (k + 1)] = x[k + 1]
    BY <1>4, <1>6, <2>1
  <2> QED BY <2>1, <2>2, <2>3 DEF At
<1>9. Len(u) = size
  BY <1>3, <1>4, <1>6
<1> QED
  BY <1>2, <1>6, <1>7, <1>8, <1>9 DEF l

-------------------------------------------------------------------------------
(* The invariant: what is being written tells the target so far, what is   *)
(* being read leads to its end, and results are what they say.             *)
PatchInv ==
  /\ PatchType
  /\ phase = "create" => Creates
  /\ phase = "apply" => Applies
  /\ PatchRoundTrip /\ SuccessMeansTarget

LEMMA PatchInitKeeps ==
  ASSUME PatchAssumption, PatchInit
  PROVE  PatchInv
<1>1. PICK p \in Patches, c \in Creators :
        job = [source |-> p.source, target |-> p.target, creator |-> c,
               image |-> <<>>, applier |-> "none"]
  BY DEF PatchInit
<1>2. phase = "create" /\ body = <<>> /\ offsets = Start /\ nodes = {} /\ pending = 0 /\ output = <<>>
  BY DEF PatchInit
<1>3. PICK s, t : s = p.source /\ t = p.target
  OBVIOUS
<1>4. p \in Pair /\ c \in {"linear", "delta"}
  BY DEF PatchAssumption
<1>5. s \in Seq(Byte) /\ t \in Seq(Byte) /\ p = [source |-> s, target |-> t]
  BY <1>3, <1>4 DEF Pair
<1>6. Source = s /\ Target = t
  BY <1>1, <1>3 DEF Source, Target
<1>7. job \in Job
  BY <1>1, <1>3, <1>4, <1>5 DEF Job
<1>8. PatchType
  <2>1. [source |-> Source, target |-> Target] \in Patches
    BY <1>5, <1>6
  <2>2. Start \in Offset
    BY DEF Start, Offset
  <2> QED BY <1>2, <1>7, <2>1, <2>2 DEF PatchType
<1>9. Creates
  <2>1. Made(s, t, <<>>, 0, 0, 0)
    BY <1>5, MadeStart
  <2>2. Start.output = 0 /\ Start.source = 0 /\ Start.target = 0
    BY DEF Start
  <2>3. 0 <= Len(t) /\ 0 - 0 = 0
    BY <1>5
  <2>4. Forward(s, t, <<>>, Start, 0, {})
    BY <2>1, <2>2, <2>3 DEF Forward
  <2> QED BY <1>2, <1>6, <2>4 DEF Creates
<1>10. PatchRoundTrip /\ SuccessMeansTarget
  BY <1>2 DEF PatchRoundTrip, SuccessMeansTarget, Done
<1> QED
  BY <1>2, <1>8, <1>9, <1>10 DEF PatchInv

LEMMA StrictKeeps ==
  ASSUME PatchAssumption, PatchType, Applies, CheckStrict
  PROVE  PatchType' /\ PatchRoundTrip' /\ SuccessMeansTarget' /\ phase' \notin {"create", "apply"}
<1>1. /\ offsets.modify = Len(body) /\ job.applier = "strict"
      /\ phase' = IF Slice(job.image, 0, Len(Source)) # Source THEN "source_checksum_invalid"
                  ELSE IF output # Target THEN "target_checksum_invalid" ELSE "success"
      /\ UNCHANGED <<job, body, offsets, nodes, pending, output>>
  BY DEF CheckStrict
<1>2. Source' = Source /\ Target' = Target
  BY <1>1 DEF Source, Target
<1>3. PatchType'
  BY <1>1, <1>2 DEF PatchType
<1>4. Fits => output = Target
  <2> SUFFICES ASSUME Fits PROVE output = Target
    OBVIOUS
  <2>1. Len(output) = Len(Target) /\ Right(output, Target, 0, Len(Target))
    BY <1>1, EndIs
  <2>2. output \in Seq(Byte) /\ Target \in Seq(Byte)
    BY JobIs DEF PatchType
  <2> QED BY <2>1, <2>2, SameBytes
<1>5. Slice(Target, 0, Len(Target)) = Target
  <2>1. Target \in Seq(Byte)
    BY JobIs
  <2>2. Right(Target, Target, 0, Len(Target))
    <3>1. \A k \in 0 .. (Len(Target) - 1) : 0 + k = k
      BY <2>1
    <3> QED BY <3>1 DEF Right
  <2>3. Len(Target) <= Len(Target)
    BY <2>1
  <2> QED BY <2>1, <2>2, <2>3, BeginsWith
<1>6. PatchRoundTrip'
  <2>1. Fits => /\ phase' = "success" /\ output' = Target
                /\ Slice(output', 0, Len(Target)) = Target
    BY <1>1, <1>4, <1>5 DEF Fits
  <2> QED BY <1>1, <1>2, <2>1 DEF PatchRoundTrip, Fits
<1>7. SuccessMeansTarget'
  BY <1>1, <1>2 DEF SuccessMeansTarget
<1> QED
  BY <1>1, <1>3, <1>6, <1>7

LEMMA IgnoringKeeps ==
  ASSUME PatchAssumption, PatchType, Applies, CheckIgnoring
  PROVE  PatchType' /\ PatchRoundTrip' /\ SuccessMeansTarget' /\ phase' \notin {"create", "apply"}
<1>1. /\ offsets.modify = Len(body) /\ job.applier = "ignore size" /\ phase' = "success"
      /\ output' = Stretched(output, job.image, Size)
      /\ UNCHANGED <<job, body, offsets, nodes, pending>>
  BY DEF CheckIgnoring, Stretched
<1>2. Source' = Source /\ Target' = Target /\ Size' = Size
  BY <1>1 DEF Source, Target, Size
<1>3. /\ Len(output) = Len(Target)
      /\ Fits => Right(output, Target, 0, Len(Target))
  BY <1>1, EndIs
<1>4. output \in Seq(Byte) /\ job.image \in Seq(Byte) /\ Target \in Seq(Byte)
  BY JobIs DEF PatchType
<1>5. Size = Max({Len(output), Len(job.image)})
  BY <1>1, <1>3 DEF Size
<1>6. PICK u : u = Stretched(output, job.image, Size)
  OBVIOUS
<1>7. /\ u \in Seq(Byte) /\ Len(u) = Size /\ Len(output) <= Size
      /\ \A t : Right(output, t, 0, Len(output)) => Right(u, t, 0, Len(output))
      /\ \A i \in Len(output) .. (Size - 1) : At(u, i) = At(job.image, i)
  BY <1>4, <1>5, <1>6, Beyond
<1>8. output' = u
  BY <1>1, <1>6
<1>9. PatchType'
  BY <1>1, <1>2, <1>7, <1>8 DEF PatchType
<1>10. Fits => Slice(u, 0, Len(Target)) = Target
  <2> SUFFICES ASSUME Fits PROVE Slice(u, 0, Len(Target)) = Target
    OBVIOUS
  <2>1. Right(u, Target, 0, Len(Target)) /\ Len(Target) <= Len(u)
    BY <1>3, <1>7
  <2> QED BY <1>4, <1>7, <2>1, BeginsWith
<1>11. job.applier # "strict"
  BY <1>1
<1>12. PatchRoundTrip'
  BY <1>1, <1>2, <1>8, <1>10, <1>11 DEF PatchRoundTrip, Fits
<1>13. SuccessMeansTarget'
  BY <1>1, <1>2, <1>3, <1>7, <1>8, <1>11 DEF SuccessMeansTarget
<1> QED
  BY <1>1, <1>9, <1>12, <1>13

LEMMA PatchNextKeeps ==
  ASSUME PatchAssumption, PatchInv, [PatchNext]_patchVars
  PROVE  PatchInv'
<1> USE DEF PatchInv
<1>1. ASSUME PatchType', Creates', phase' = "create" PROVE PatchInv'
  BY <1>1 DEF PatchRoundTrip, SuccessMeansTarget, Done
<1>2. ASSUME PatchType', Applies', phase' = "apply" PROVE PatchInv'
  BY <1>2 DEF PatchRoundTrip, SuccessMeansTarget, Done
<1>3. CASE Linear
  <2>1. phase = "create"
    BY <1>3 DEF Linear, Creating
  <2> QED BY <1>1, <1>3, <2>1, LinearKeeps
<1>4. CASE Delta
  <2>1. phase = "create"
    BY <1>4 DEF Delta, Creating
  <2> QED BY <1>1, <1>4, <2>1, DeltaKeeps
<1>5. ASSUME NEW use \in Uses[[source |-> Source, target |-> Target]], Finish(use.image, use.applier)
      PROVE  PatchInv'
  <2>1. phase = "create"
    BY <1>5 DEF Finish
  <2> QED BY <1>2, <1>5, <2>1, FinishKeeps
<1>6. CASE TooSmall
  <2>1. /\ Len(job.image) < Len(Source) /\ phase' = "source_too_small"
        /\ UNCHANGED <<job, body, offsets, nodes, pending, output>>
    BY <1>6 DEF TooSmall
  <2>2. Source' = Source /\ Target' = Target
    BY <2>1 DEF Source, Target
  <2>3. PatchType'
    BY <2>1, <2>2 DEF PatchType
  <2>4. ~(Len(job.image) >= Len(Source))
    <3>1. Len(job.image) \in Nat /\ Len(Source) \in Nat BY JobIs
    <3> QED BY <2>1, <3>1
  <2>5. PatchRoundTrip' /\ SuccessMeansTarget'
    BY <2>1, <2>2, <2>4 DEF PatchRoundTrip, SuccessMeansTarget
  <2> QED BY <2>1, <2>3, <2>5
<1>7. CASE ApplyCommand
  <2>1. phase = "apply"
    BY <1>7 DEF ApplyCommand, Applying
  <2> QED BY <1>2, <1>7, <2>1, CommandKeeps
<1>8. CASE CheckStrict
  <2>1. phase = "apply"
    BY <1>8 DEF CheckStrict, Applying
  <2> QED BY <1>8, <2>1, StrictKeeps
<1>9. CASE CheckIgnoring
  <2>1. phase = "apply"
    BY <1>9 DEF CheckIgnoring, Applying
  <2> QED BY <1>9, <2>1, IgnoringKeeps
<1>10. CASE UNCHANGED patchVars
  <2>1. UNCHANGED <<job, phase, body, offsets, nodes, pending, output>>
    BY <1>10 DEF patchVars
  <2>2. Source' = Source /\ Target' = Target /\ Size' = Size
    BY <2>1 DEF Source, Target, Size
  <2>3. PatchType' /\ PatchRoundTrip' /\ SuccessMeansTarget'
    BY <2>1, <2>2 DEF PatchType, PatchRoundTrip, SuccessMeansTarget, Done
  <2>4. (phase = "create" => Creates)'
    BY <2>1, <2>2 DEF Creates
  <2>5. (phase = "apply" => Applies)'
    BY <2>1, <2>2 DEF Applies, Led, Fits
  <2> QED BY <2>3, <2>4, <2>5
<1> QED
  BY <1>3, <1>4, <1>5, <1>6, <1>7, <1>8, <1>9, <1>10 DEF PatchNext

THEOREM PatchKeeps == PatchSpec => []PatchInv
<1>1. PatchInit => PatchInv
  BY PatchAssumption, PatchInitKeeps
<1>2. PatchInv /\ [PatchNext]_patchVars => PatchInv'
  BY PatchAssumption, PatchNextKeeps
<1> QED
  BY <1>1, <1>2, PTL DEF PatchSpec

(* A patch made by bpslinear::create or by bpsdelta::create, applied to    *)
(* the image it was made of or to one that begins with it, gives the       *)
(* target byte for byte, for every source and every target.                *)
THEOREM PatchesAreUndone == PatchSpec => []PatchRoundTrip
<1>1. PatchInv => PatchRoundTrip
  BY DEF PatchInv
<1> QED
  BY <1>1, PatchKeeps, PTL

(* bpspatch calls nothing a success but the target,                        *)
(* bpspatch_ignore_size loses nothing that an image has beyond it, and no  *)
(* command of a patch that was made reads or writes outside.               *)
THEOREM PatchesApplyRightly == PatchSpec => []AppliesRightly
<1>1. PatchInv => AppliesRightly
  <2> SUFFICES ASSUME PatchInv PROVE AppliesRightly
    OBVIOUS
  <2>1. SuccessMeansTarget
    BY DEF PatchInv
  <2>2. ASSUME phase = "apply"
        PROVE  /\ Len(output) = offsets.output /\ offsets.output <= Len(Target)
               /\ offsets.source \in 0 .. Len(Source) /\ offsets.target \in 0 .. offsets.output
    <3>1. PICK R, e : Led(R, e)
      BY <2>2 DEF PatchInv, Applies
    <3>2. Within(Source, Target, offsets) /\ Len(output) = offsets.output
      BY <3>1 DEF Led, Trace
    <3>3. /\ offsets \in Offset /\ offsets.source <= Len(Source)
          /\ offsets.target <= offsets.output /\ offsets.output <= Len(Target)
      BY <3>2 DEF Within
    <3>4. offsets.output \in Nat /\ offsets.source \in Nat /\ offsets.target \in Nat
      BY <3>3, OffsetIs
    <3>5. Len(Source) \in Nat
      BY JobIs DEF PatchInv
    <3> QED BY <3>2, <3>3, <3>4, <3>5
  <2>3. ReadsAreInBounds
    BY <2>2 DEF ReadsAreInBounds
  <2> QED BY <2>1, <2>3 DEF AppliesRightly
<1> QED
  BY <1>1, PatchKeeps, PTL
================================================================================
