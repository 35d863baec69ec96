----------------------------- MODULE DataLemmas ------------------------------
(* Facts about numbers, recursive functions and sequences that the proofs    *)
(* about several modules use.                                                *)
EXTENDS Integers, SequenceTheorems, FiniteSetTheorems, WellFoundedInduction, TLAPS

(* Induction over the natural numbers, and what follows from it *)

\* Every set of numbers but the empty one has a least member.
LEMMA LeastExists ==
  ASSUME NEW F, F \subseteq Nat, F # {}
  PROVE  \E x \in F : \A y \in F : x <= y
<1> DEFINE R == OpToRel(<, Nat)
<1>1. IsWellFoundedOn(R, Nat)
  BY NatLessThanWellFounded
<1>2. \E x \in F : \A y \in F : ~ (<<y, x>> \in R)
  <2> HIDE DEF R
  <2> QED
    BY <1>1, WFMin
<1>3. PICK x \in F : \A y \in F : ~ (<<y, x>> \in R)
  BY <1>2
<1>4. ASSUME NEW y \in F PROVE x <= y
  <2>1. ~ (<<y, x>> \in R)
    BY <1>3
  <2>2. x \in Nat /\ y \in Nat /\ ~ (y < x)
    BY <2>1 DEF OpToRel
  <2> QED
    BY <2>2
<1> QED
  BY <1>4

\* A set that holds 0, and with every number the next one, holds all of them.
LEMMA SetInduction ==
  ASSUME NEW T, T \subseteq Nat, 0 \in T, \A n \in T : n + 1 \in T
  PROVE  \A n \in Nat : n \in T
<1> DEFINE F == Nat \ T
<1>1. ASSUME F # {} PROVE FALSE
  <2>1. PICK x \in F : \A y \in F : x <= y
    <3>1. F \subseteq Nat
      OBVIOUS
    <3> HIDE DEF F
    <3> QED
      BY <3>1, <1>1, LeastExists
  <2>2. x # 0 /\ x - 1 \in Nat /\ x - 1 \notin T
    OBVIOUS
  <2> QED
    BY <2>1, <2>2
<1> QED
  BY <1>1

\* Every set of numbers that is bounded has a greatest member, unless it is empty.
LEMMA GreatestExists ==
  ASSUME NEW n \in Nat, NEW F, F \subseteq 0 .. n, F # {}
  PROVE  \E x \in F : \A y \in F : x >= y
<1> DEFINE G == {i \in 0 .. n : n - i \in F}
<1>1. G \subseteq Nat /\ G # {}
  <2>1. PICK y \in F : TRUE
    OBVIOUS
  <2>2. n - y \in 0 .. n /\ n - (n - y) = y
    BY <2>1
  <2>3. n - y \in G
    BY <2>2
  <2>4. G \subseteq Nat
    OBVIOUS
  <2> HIDE DEF G
  <2> QED
    BY <2>3, <2>4
<1>2. PICK i \in G : \A j \in G : i <= j
  <2> HIDE DEF G
  <2> QED
    BY <1>1, LeastExists
<1>3. ASSUME NEW y \in F PROVE n - i >= y
  <2>1. n - y \in G
    <3>1. n - y \in 0 .. n /\ n - (n - y) = y
      OBVIOUS
    <3> QED
      BY <3>1
  <2> QED
    BY <1>2, <2>1
<1> QED
  BY <1>2, <1>3

\* g holds a value after each of so many steps, the k-th of which F computes from
\* the one before.
Computes(g, first, F, last) ==
  g[0] = first /\ \A k \in 1 .. last : g[k] = F[<<g[k - 1], k>>]

\* A value that is computed step by step is computed after any number of steps.
LEMMA RecursionExists ==
  ASSUME NEW V, NEW first \in V, NEW F \in [V \X (Nat \ {0}) -> V], NEW last \in Nat
  PROVE  \E g \in [0 .. last -> V] : Computes(g, first, F, last)
<1> DEFINE T == {n \in Nat : \E g \in [0 .. n -> V] : Computes(g, first, F, n)}
<1>1. 0 \in T
  <2> DEFINE g == [k \in 0 .. 0 |-> first]
  <2>1. g \in [0 .. 0 -> V]
    OBVIOUS
  <2>2. Computes(g, first, F, 0)
    BY DEF Computes
  <2> HIDE DEF g
  <2> QED
    BY <2>1, <2>2
<1>2. ASSUME NEW n \in T PROVE n + 1 \in T
  <2>1. n \in Nat
    OBVIOUS
  <2>2. PICK g \in [0 .. n -> V] : Computes(g, first, F, n)
    OBVIOUS
  <2> DEFINE h == [k \in 0 .. n + 1 |-> IF k <= n THEN g[k] ELSE F[<<g[n], n + 1>>]]
  <2>3. h \in [0 .. n + 1 -> V]
    BY <2>1, <2>2
  <2>4. ASSUME NEW k \in 1 .. n + 1
        PROVE  h[k] = F[<<h[k - 1], k>>]
    <3>1. CASE k <= n
      <4>1. k \in 1 .. n
        BY <2>1, <3>1
      <4>2. g[k] = F[<<g[k - 1], k>>]
        BY <2>2, <4>1 DEF Computes
      <4>3. h[k] = g[k] /\ h[k - 1] = g[k - 1]
        BY <2>1, <4>1
      <4> QED
        BY <4>2, <4>3
    <3>2. CASE k = n + 1
      <4>1. k - 1 = n /\ ~ (k <= n)
        BY <2>1, <3>2
      <4>2. h[k] = F[<<g[n], n + 1>>] /\ h[n] = g[n]
        BY <2>1, <3>2, <4>1
      <4> QED
        BY <3>2, <4>1, <4>2
    <3> QED
      BY <2>1, <3>1, <3>2
  <2>5. Computes(h, first, F, n + 1)
    <3>1. h[0] = first
      BY <2>1, <2>2 DEF Computes
    <3> QED
      BY <2>4, <3>1 DEF Computes
  <2>6. \E f \in [0 .. n + 1 -> V] : Computes(f, first, F, n + 1)
    <3> HIDE DEF h
    <3> QED
      BY <2>3, <2>5
  <2>7. n + 1 \in Nat
    BY <2>1
  <2> QED
    BY <2>6, <2>7
<1>3. \A n \in Nat : n \in T
  <2> HIDE DEF T
  <2>1. T \subseteq Nat
    BY DEF T
  <2> QED
    BY <1>1, <1>2, <2>1, SetInduction
<1> QED
  BY <1>3

-----------------------------------------------------------------------------
(* Remainders *)

LEMMA ModType ==
  ASSUME NEW n \in Nat \ {0}, NEW a \in Nat
  PROVE  a % n \in 0 .. n - 1
OBVIOUS

LEMMA ModOfSmall ==
  ASSUME NEW n \in Nat \ {0}, NEW a \in 0 .. n - 1
  PROVE  a % n = a
OBVIOUS

LEMMA DivMod ==
  ASSUME NEW n \in Nat \ {0}, NEW a \in Nat
  PROVE  /\ a \div n \in Int
         /\ a = n * (a \div n) + (a % n)
OBVIOUS

LEMMA RemainderUnique ==
  ASSUME NEW n \in Nat \ {0}, NEW p \in Int, NEW q \in Int,
         NEW r \in 0 .. n - 1, NEW s \in 0 .. n - 1, n * p + r = n * q + s
  PROVE  r = s
<1>1. CASE p = q
  BY <1>1
<1>2. CASE p >= q + 1
  <2>1. n * p >= n * (q + 1)
    BY <1>2
  <2> QED
    BY <2>1
<1>3. CASE q >= p + 1
  <2>1. n * q >= n * (p + 1)
    BY <1>3
  <2> QED
    BY <2>1
<1> QED
  BY <1>1, <1>2, <1>3

\* A remainder may be taken early.
LEMMA ModPlus ==
  ASSUME NEW n \in Nat \ {0}, NEW a \in Nat, NEW b \in Nat
  PROVE  ((a % n) + b) % n = (a + b) % n
<1> DEFINE c == a % n
           x == (c + b) % n
           y == (a + b) % n
           p == a \div n
           q == (c + b) \div n
           s == (a + b) \div n
<1>1. c \in Nat /\ p \in Int /\ a = n * p + c
  BY DivMod, ModType
<1>2. x \in 0 .. n - 1 /\ q \in Int /\ c + b = n * q + x
  BY <1>1, DivMod, ModType
<1>3. y \in 0 .. n - 1 /\ s \in Int /\ a + b = n * s + y
  <2>1. a + b \in Nat
    OBVIOUS
  <2> HIDE DEF c
  <2> QED
    BY <2>1, DivMod, ModType
<1> HIDE DEF c, x, y, p, q, s
<1>4. p + q \in Int /\ n * (p + q) + x = n * s + y
  <2>1. n * (p + q) = n * p + n * q
    BY <1>1, <1>2
  <2>2. n * p \in Int /\ n * q \in Int /\ n * s \in Int
    BY <1>1, <1>2, <1>3
  <2> QED
    BY <1>1, <1>2, <1>3, <2>1, <2>2
<1>5. x = y
  <2>1. p + q \in Int /\ s \in Int /\ x \in 0 .. n - 1 /\ y \in 0 .. n - 1
    BY <1>1, <1>2, <1>3
  <2> QED
    BY <2>1, <1>4, RemainderUnique
<1> QED
  BY <1>5 DEF c, x, y

\* Counters that go round at n agree exactly every n steps.
LEMMA ModEqual ==
  ASSUME NEW n \in Nat \ {0}, NEW a \in Nat, NEW d \in Nat
  PROVE  (a + d) % n = a % n <=> d % n = 0
<1> DEFINE c == a % n
           e == d % n
           p == a \div n
           q == d \div n
           x == (a + d) % n
           s == (a + d) \div n
<1>1. c \in 0 .. n - 1 /\ p \in Int /\ a = n * p + c
  BY DivMod, ModType
<1>2. e \in 0 .. n - 1 /\ q \in Int /\ d = n * q + e
  BY DivMod, ModType
<1>3. x \in 0 .. n - 1 /\ s \in Int /\ a + d = n * s + x
  <2>1. a + d \in Nat
    OBVIOUS
  <2> HIDE DEF c
  <2> QED
    BY <2>1, DivMod, ModType
<1> HIDE DEF c, e, p, q, x, s
<1>4. n * (p + q) = n * p + n * q /\ n * (s - p) = n * s - n * p
  BY <1>1, <1>2, <1>3
<1>5. n * p \in Int /\ n * q \in Int /\ n * s \in Int
  BY <1>1, <1>2, <1>3
<1>6. ASSUME e = 0 PROVE x = c
  <2>1. n * (p + q) + c = n * s + x
    BY <1>1, <1>2, <1>3, <1>4, <1>5, <1>6
  <2>2. p + q \in Int /\ s \in Int /\ c \in 0 .. n - 1 /\ x \in 0 .. n - 1
    BY <1>1, <1>2, <1>3
  <2> QED
    BY <2>1, <2>2, RemainderUnique
<1>7. ASSUME x = c PROVE e = 0
  <2>1. n * q + e = n * (s - p) + 0
    BY <1>1, <1>2, <1>3, <1>4, <1>5, <1>7
  <2>2. q \in Int /\ s - p \in Int /\ e \in 0 .. n - 1 /\ 0 \in 0 .. n - 1
    BY <1>1, <1>2, <1>3
  <2> QED
    BY <2>1, <2>2, RemainderUnique
<1> QED
  BY <1>6, <1>7 DEF c, e, x

\* Once round.
LEMMA ModRound ==
  ASSUME NEW n \in Nat \ {0}, NEW a \in n .. 2 * n - 1
  PROVE  a % n = a - n
<1>1. a \in Nat /\ a - n \in 0 .. n - 1
  OBVIOUS
<1>2. a \div n \in Int /\ a = n * (a \div n) + (a % n) /\ a % n \in 0 .. n - 1
  BY <1>1, DivMod, ModType
<1>3. n * (a \div n) + (a % n) = n * 1 + (a - n)
  BY <1>2
<1> QED
  BY <1>1, <1>2, <1>3, RemainderUnique

-----------------------------------------------------------------------------
(* Sequences *)

LEMMA FunctionIsSeq ==
  ASSUME NEW S, NEW n \in Nat, NEW f \in [1 .. n -> S]
  PROVE  f \in Seq(S) /\ Len(f) = n
OBVIOUS

LEMMA ElementType ==
  ASSUME NEW S, NEW s \in Seq(S), NEW i \in DOMAIN s
  PROVE  s[i] \in S
OBVIOUS

\* What is left of a sequence behind its first elements.
LEMMA TailElements ==
  ASSUME NEW S, NEW s \in Seq(S), NEW n \in 0 .. Len(s)
  PROVE  /\ SubSeq(s, n + 1, Len(s)) \in Seq(S)
         /\ Len(SubSeq(s, n + 1, Len(s))) = Len(s) - n
         /\ \A i \in 1 .. Len(s) - n : SubSeq(s, n + 1, Len(s))[i] = s[n + i]
OBVIOUS

\* Its first elements.
LEMMA FrontElements ==
  ASSUME NEW S, NEW s \in Seq(S), NEW n \in 0 .. Len(s)
  PROVE  /\ SubSeq(s, 1, n) \in Seq(S)
         /\ Len(SubSeq(s, 1, n)) = n
         /\ \A i \in 1 .. n : SubSeq(s, 1, n)[i] = s[i]
OBVIOUS

-----------------------------------------------------------------------------
(* Counting in sequences *)

\* Where a sequence holds a member of X.
Places(s, X) == {i \in DOMAIN s : s[i] \in X}

LEMMA PlacesFinite ==
  ASSUME NEW S, NEW s \in Seq(S), NEW X
  PROVE  IsFiniteSet(Places(s, X)) /\ Cardinality(Places(s, X)) \in Nat
<1>1. IsFiniteSet(1 .. Len(s)) /\ Places(s, X) \in SUBSET (1 .. Len(s))
  BY FS_Interval DEF Places
<1> QED
  BY <1>1, FS_Subset, FS_CardinalityType

LEMMA PlacesEmpty ==
  ASSUME NEW X
  PROVE  Cardinality(Places(<<>>, X)) = 0
<1>1. Places(<<>>, X) = {}
  BY DEF Places
<1> QED
  BY <1>1, FS_EmptySet

\* A sequence that becomes longer by a member of X holds one more.
LEMMA PlacesAppend ==
  ASSUME NEW S, NEW s \in Seq(S), NEW x \in S, NEW X
  PROVE  Cardinality(Places(Append(s, x), X))
           = Cardinality(Places(s, X)) + (IF x \in X THEN 1 ELSE 0)
<1>1. /\ DOMAIN Append(s, x) = DOMAIN s \cup {Len(s) + 1}
      /\ \A i \in DOMAIN s : Append(s, x)[i] = s[i]
      /\ Append(s, x)[Len(s) + 1] = x
      /\ Len(s) + 1 \notin DOMAIN s
  OBVIOUS
<1>2. IsFiniteSet(Places(s, X)) /\ Cardinality(Places(s, X)) \in Nat
  BY PlacesFinite
<1>3. CASE x \in X
  <2>1. Places(Append(s, x), X) = Places(s, X) \cup {Len(s) + 1} /\ Len(s) + 1 \notin Places(s, X)
    BY <1>1, <1>3 DEF Places
  <2> QED
    BY <1>2, <1>3, <2>1, FS_AddElement
<1>4. CASE x \notin X
  <2>1. Places(Append(s, x), X) = Places(s, X)
    BY <1>1, <1>4 DEF Places
  <2> QED
    BY <1>2, <1>4, <2>1
<1> QED
  BY <1>3, <1>4

\* A queue whose first elements are taken off holds no more than before, and one
\* less at least when its head was a member of X.
LEMMA PlacesRest ==
  ASSUME NEW S, NEW s \in Seq(S), NEW n \in 1 .. Len(s), NEW X
  PROVE  Cardinality(Places(SubSeq(s, n + 1, Len(s)), X)) + (IF Head(s) \in X THEN 1 ELSE 0)
           <= Cardinality(Places(s, X))
<1> DEFINE rest == SubSeq(s, n + 1, Len(s))
           behind == Places(s, X) \ {1}
           shift == [i \in Places(rest, X) |-> n + i]
<1>1. /\ rest \in Seq(S) /\ Len(rest) = Len(s) - n
      /\ \A i \in 1 .. Len(s) - n : rest[i] = s[n + i]
  BY TailElements
<1>2. DOMAIN rest = 1 .. Len(s) - n /\ DOMAIN s = 1 .. Len(s) /\ Head(s) = s[1] /\ Len(s) \in Nat
  BY <1>1, EmptySeq
<1> HIDE DEF rest
<1>3. shift \in Injection(Places(rest, X), behind)
  <2>1. \A i \in Places(rest, X) : i \in 1 .. Len(s) - n /\ n + i \in behind
    BY <1>1, <1>2 DEF Places
  <2>2. \A i, j \in Places(rest, X) : n + i = n + j => i = j
    BY <2>1
  <2> QED
    BY <2>1, <2>2 DEF Injection, IsInjective
<1>4. IsFiniteSet(Places(s, X)) /\ Cardinality(Places(s, X)) \in Nat
  BY PlacesFinite
<1>5. /\ IsFiniteSet(behind)
      /\ Cardinality(behind) = IF 1 \in Places(s, X) THEN Cardinality(Places(s, X)) - 1
                                                     ELSE Cardinality(Places(s, X))
  BY <1>4, FS_RemoveElement
<1>6. Cardinality(Places(rest, X)) <= Cardinality(behind)
  <2> HIDE DEF shift, behind
  <2> QED
    BY <1>3, <1>5, FS_Injection
<1>7. 1 \in Places(s, X) <=> Head(s) \in X
  BY <1>2 DEF Places
<1>8. Cardinality(Places(rest, X)) \in Nat
  BY <1>1, PlacesFinite
<1> HIDE DEF behind
<1> QED
  BY <1>4, <1>5, <1>6, <1>7, <1>8 DEF rest
=============================================================================
