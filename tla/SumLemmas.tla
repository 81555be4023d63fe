------------------------------ MODULE SumLemmas ------------------------------
(***************************************************************************)
(* The laws of SumOf for functions with natural values over finite sets,   *)
(* and of NetOf; quotients; and induction over the natural numbers, by a   *)
(* least number.                                                           *)
(***************************************************************************)
EXTENDS Sums, FiniteSetTheorems, WellFoundedInduction, TLAPS

\* A pile of finitely many finite parts is finite.
LEMMA HeapFinite ==
    ASSUME NEW S, IsFiniteSet(S), NEW f, \A x \in S : f[x] \in Nat
    PROVE  IsFiniteSet(Heap(f, S))
<1> DEFINE part == [x \in S |-> {x} \X (1 .. f[x])]
           parts == {{x} \X (1 .. f[x]) : x \in S}
<1>1. part \in Surjection(S, parts)
  BY Zenon DEF Surjection
<1>2. IsFiniteSet(parts)
  BY <1>1, FS_Surjection
<1>3. \A x \in S : IsFiniteSet({x} \X (1 .. f[x]))
  <2> TAKE x \in S
  <2>1. IsFiniteSet({x})
    BY FS_Singleton
  <2>2. 1 \in Int /\ f[x] \in Int
    OBVIOUS
  <2>3. IsFiniteSet(1 .. f[x])
    BY <2>2, FS_Interval
  <2> QED BY <2>1, <2>3, FS_Product
<1>4. \A T \in parts : IsFiniteSet(T)
  BY <1>3
<1> HIDE DEF parts
<1>5. IsFiniteSet(UNION parts)
  BY <1>2, <1>4, FS_UNION
<1> QED BY <1>5 DEF Heap, parts

\* A sum is a natural number.
LEMMA SumType ==
    ASSUME NEW S, IsFiniteSet(S), NEW f, \A x \in S : f[x] \in Nat
    PROVE  SumOf(f, S) \in Nat
BY HeapFinite, FS_CardinalityType DEF SumOf

\* The sum over nothing is zero.
LEMMA SumEmpty ==
    ASSUME NEW f
    PROVE  SumOf(f, {}) = 0
<1>1. Heap(f, {}) = {}
  BY DEF Heap
<1> QED BY <1>1, FS_EmptySet DEF SumOf

\* Only the values on the set count.
LEMMA SumSame ==
    ASSUME NEW S, NEW f, NEW g, \A x \in S : f[x] = g[x]
    PROVE  SumOf(f, S) = SumOf(g, S)
<1>1. {{x} \X (1 .. f[x]) : x \in S} = {{x} \X (1 .. g[x]) : x \in S}
  OBVIOUS
<1> QED BY <1>1 DEF SumOf, Heap

\* The sum over one element is its value.
LEMMA SumSingle ==
    ASSUME NEW x, NEW f, f[x] \in Nat
    PROVE  SumOf(f, {x}) = f[x]
<1>1. Heap(f, {x}) = {x} \X (1 .. f[x])
  BY DEF Heap
<1>2. IsFiniteSet({x}) /\ Cardinality({x}) = 1
  BY FS_Singleton
<1>3. IsFiniteSet(1 .. f[x]) /\ Cardinality(1 .. f[x]) = f[x]
  <2>1. 1 \in Int /\ f[x] \in Int
    OBVIOUS
  <2> QED BY <2>1, FS_Interval
<1> DEFINE one == {x}
           T == 1 .. f[x]
<1>4. IsFiniteSet(one) /\ Cardinality(one) = 1 /\ IsFiniteSet(T) /\ Cardinality(T) = f[x]
  BY <1>2, <1>3
<1>5. Heap(f, {x}) = one \X T
  BY <1>1
<1> HIDE DEF one, T
<1>6. Cardinality(one \X T) = Cardinality(one) * Cardinality(T)
  BY <1>4, FS_Product
<1>7. Cardinality(one \X T) = 1 * f[x]
  BY <1>4, <1>6
<1>8. 1 * f[x] = f[x]
  OBVIOUS
<1> QED BY <1>5, <1>7, <1>8, Zenon DEF SumOf

\* The sum over two sets that share nothing is the sum of their sums.
LEMMA SumUnion ==
    ASSUME NEW S, IsFiniteSet(S), NEW T, IsFiniteSet(T), S \cap T = {},
           NEW f, \A x \in S \cup T : f[x] \in Nat
    PROVE  SumOf(f, S \cup T) = SumOf(f, S) + SumOf(f, T)
<1>1. Heap(f, S \cup T) = Heap(f, S) \cup Heap(f, T)
  BY DEF Heap
<1>2. Heap(f, S) \cap Heap(f, T) = {}
  <2> SUFFICES ASSUME NEW p, p \in Heap(f, S), p \in Heap(f, T) PROVE FALSE
    BY Zenon
  <2>1. p[1] \in S /\ p[1] \in T
    BY DEF Heap
  <2> QED BY <2>1
<1>3. IsFiniteSet(Heap(f, S)) /\ IsFiniteSet(Heap(f, T))
  BY HeapFinite
<1>4. Cardinality(Heap(f, S)) \in Nat /\ Cardinality(Heap(f, T)) \in Nat
  BY <1>3, FS_CardinalityType
<1>5. Cardinality(Heap(f, S) \cup Heap(f, T))
        = Cardinality(Heap(f, S)) + Cardinality(Heap(f, T))
            - Cardinality(Heap(f, S) \cap Heap(f, T))
  BY <1>3, FS_Union
<1>6. Cardinality(Heap(f, S) \cap Heap(f, T)) = 0
  BY <1>2, FS_EmptySet
<1>7. ASSUME NEW a \in Nat, NEW b \in Nat PROVE a + b - 0 = a + b
  OBVIOUS
<1>8. Cardinality(Heap(f, S) \cup Heap(f, T))
        = Cardinality(Heap(f, S)) + Cardinality(Heap(f, T))
  BY <1>4, <1>5, <1>6, <1>7
<1> QED BY <1>1, <1>8, Zenon DEF SumOf

\* One more element adds its value.
LEMMA SumAdd ==
    ASSUME NEW S, IsFiniteSet(S), NEW x, x \notin S,
           NEW f, \A y \in S \cup {x} : f[y] \in Nat
    PROVE  SumOf(f, S \cup {x}) = SumOf(f, S) + f[x]
<1>1. IsFiniteSet({x}) /\ S \cap {x} = {} /\ f[x] \in Nat
  BY FS_Singleton
<1>2. SumOf(f, S \cup {x}) = SumOf(f, S) + SumOf(f, {x})
  BY <1>1, SumUnion
<1> QED BY <1>1, <1>2, SumSingle

\* One element less takes its value away.
LEMMA SumRemove ==
    ASSUME NEW S, IsFiniteSet(S), NEW x \in S, NEW f, \A y \in S : f[y] \in Nat
    PROVE  /\ SumOf(f, S) = SumOf(f, S \ {x}) + f[x]
           /\ SumOf(f, S \ {x}) \in Nat
<1>1. IsFiniteSet(S \ {x})
  BY FS_RemoveElement
<1>2. (S \ {x}) \cup {x} = S /\ x \notin S \ {x}
  OBVIOUS
<1> DEFINE R == S \ {x}
<1>3. \A y \in R \cup {x} : f[y] \in Nat
  OBVIOUS
<1>4. R \cup {x} = S /\ x \notin R /\ IsFiniteSet(R)
  BY <1>1, <1>2
<1> HIDE DEF R
<1>5. SumOf(f, R \cup {x}) = SumOf(f, R) + f[x] /\ SumOf(f, R) \in Nat
  BY <1>3, <1>4, SumAdd, SumType
<1> QED BY <1>4, <1>5 DEF R

\* A part of the set has a part of the sum.
LEMMA SumSubset ==
    ASSUME NEW S, IsFiniteSet(S), NEW T \in SUBSET S,
           NEW f, \A x \in S : f[x] \in Nat
    PROVE  SumOf(f, T) <= SumOf(f, S)
<1>1. IsFiniteSet(Heap(f, S))
  BY HeapFinite
<1>2. Heap(f, T) \in SUBSET Heap(f, S)
  BY DEF Heap
<1> QED BY <1>1, <1>2, FS_Subset DEF SumOf

\* No value is larger than the sum.
LEMMA SumAtLeast ==
    ASSUME NEW S, IsFiniteSet(S), NEW x \in S, NEW f, \A y \in S : f[y] \in Nat
    PROVE  f[x] <= SumOf(f, S)
<1>1. SumOf(f, S) = SumOf(f, S \ {x}) + f[x] /\ SumOf(f, S \ {x}) \in Nat
  BY SumRemove
<1> QED BY <1>1

\* A change of one value changes the sum by the difference.
LEMMA SumChange ==
    ASSUME NEW S, IsFiniteSet(S), NEW x \in S,
           NEW f, NEW g, \A y \in S : f[y] \in Nat /\ g[y] \in Nat,
           \A y \in S \ {x} : f[y] = g[y]
    PROVE  SumOf(g, S) + f[x] = SumOf(f, S) + g[x]
<1>1. SumOf(f, S) = SumOf(f, S \ {x}) + f[x] /\ SumOf(f, S \ {x}) \in Nat
  BY SumRemove
<1>2. SumOf(g, S) = SumOf(g, S \ {x}) + g[x] /\ SumOf(g, S \ {x}) \in Nat
  BY SumRemove
<1>3. SumOf(f, S \ {x}) = SumOf(g, S \ {x})
  BY SumSame
<1> QED BY <1>1, <1>2, <1>3

\* What one element gives to another leaves the sum as it was.
LEMMA SumMove ==
    ASSUME NEW S, IsFiniteSet(S), NEW x \in S, NEW y \in S, x # y,
           NEW f, NEW h, \A z \in S : f[z] \in Nat /\ h[z] \in Nat,
           f[x] + f[y] = h[x] + h[y],
           \A z \in S \ {x, y} : f[z] = h[z]
    PROVE  SumOf(h, S) = SumOf(f, S)
<1> DEFINE g == [z \in S |-> IF z = x THEN h[x] ELSE f[z]]
<1>1. \A z \in S : g[z] \in Nat
  OBVIOUS
<1>2. /\ \A z \in S \ {x} : f[z] = g[z]
      /\ \A z \in S \ {y} : g[z] = h[z]
      /\ g[x] = h[x] /\ g[y] = f[y]
  OBVIOUS
<1> HIDE DEF g
<1>3. SumOf(g, S) + f[x] = SumOf(f, S) + g[x]
  BY <1>1, <1>2, SumChange
<1>4. SumOf(h, S) + g[y] = SumOf(g, S) + h[y]
  BY <1>1, <1>2, SumChange
<1>5. SumOf(f, S) \in Nat /\ SumOf(g, S) \in Nat /\ SumOf(h, S) \in Nat
  BY <1>1, SumType
<1> DEFINE a == SumOf(f, S)
           b == SumOf(g, S)
           c == SumOf(h, S)
<1>6. b + f[x] = a + h[x] /\ c + f[y] = b + h[y] /\ a \in Nat /\ b \in Nat /\ c \in Nat
  BY <1>2, <1>3, <1>4, <1>5
<1>7. f[x] \in Nat /\ f[y] \in Nat /\ h[x] \in Nat /\ h[y] \in Nat
  OBVIOUS
<1> HIDE DEF a, b, c
<1>8. c = a
  BY <1>6, <1>7
<1> QED BY <1>8 DEF a, c

\* A sum of zeros is zero, and a sum that is zero has no other terms.
LEMMA SumZero ==
    ASSUME NEW S, IsFiniteSet(S), NEW f, \A x \in S : f[x] \in Nat
    PROVE  SumOf(f, S) = 0 <=> \A x \in S : f[x] = 0
<1>1. ASSUME SumOf(f, S) = 0, NEW x \in S PROVE f[x] = 0
  <2>1. f[x] <= 0 /\ f[x] \in Nat
    BY <1>1, SumAtLeast
  <2> QED BY <2>1
<1>2. ASSUME \A x \in S : f[x] = 0 PROVE SumOf(f, S) = 0
  <2>1. Heap(f, S) = {}
    BY <1>2 DEF Heap
  <2> QED BY <2>1, FS_EmptySet DEF SumOf
<1> QED BY <1>1, <1>2

-----------------------------------------------------------------------------
(* Sums of integers                                                        *)

\* The two halves of a sum have natural values.
LEMMA HalvesType ==
    ASSUME NEW S, IsFiniteSet(S), NEW f, \A x \in S : f[x] \in Int
    PROVE  Above(f, S) \in Nat /\ Below(f, S) \in Nat
<1> DEFINE p == [x \in S |-> IF f[x] > 0 THEN f[x] ELSE 0]
           m == [x \in S |-> IF f[x] < 0 THEN -f[x] ELSE 0]
<1>1. \A x \in S : p[x] \in Nat /\ m[x] \in Nat
  OBVIOUS
<1>2. Above(f, S) = SumOf(p, S) /\ Below(f, S) = SumOf(m, S)
  BY DEF Above, Below
<1> HIDE DEF p, m
<1> QED BY <1>1, <1>2, SumType

\* A sum of integers is an integer.
LEMMA NetType ==
    ASSUME NEW S, IsFiniteSet(S), NEW f, \A x \in S : f[x] \in Int
    PROVE  NetOf(f, S) \in Int
BY HalvesType DEF NetOf

LEMMA NetEmpty ==
    ASSUME NEW f
    PROVE  NetOf(f, {}) = 0
BY SumEmpty DEF NetOf, Above, Below

\* One more element adds its value.
LEMMA NetAdd ==
    ASSUME NEW S, IsFiniteSet(S), NEW x, x \notin S,
           NEW f, NEW g, \A y \in S : f[y] \in Int /\ g[y] = f[y], g[x] \in Int
    PROVE  NetOf(g, S \cup {x}) = NetOf(f, S) + g[x]
<1> DEFINE T == S \cup {x}
           p == [y \in T |-> IF g[y] > 0 THEN g[y] ELSE 0]
           m == [y \in T |-> IF g[y] < 0 THEN -g[y] ELSE 0]
           q == [y \in S |-> IF f[y] > 0 THEN f[y] ELSE 0]
           n == [y \in S |-> IF f[y] < 0 THEN -f[y] ELSE 0]
<1>1. \A y \in S \cup {x} : p[y] \in Nat /\ m[y] \in Nat
  OBVIOUS
<1>2. \A y \in S : p[y] = q[y] /\ m[y] = n[y]
  OBVIOUS
<1>3. p[x] - m[x] = g[x] /\ p[x] \in Nat /\ m[x] \in Nat
  OBVIOUS
<1>4. Above(g, S \cup {x}) = SumOf(p, S \cup {x}) /\ Below(g, S \cup {x}) = SumOf(m, S \cup {x})
  BY DEF Above, Below
<1>5. Above(f, S) = SumOf(q, S) /\ Below(f, S) = SumOf(n, S)
  BY DEF Above, Below
<1> HIDE DEF p, m, q, n, T
<1>6. SumOf(p, S \cup {x}) = SumOf(p, S) + p[x] /\ SumOf(m, S \cup {x}) = SumOf(m, S) + m[x]
  BY <1>1, SumAdd
<1>7. SumOf(p, S) = SumOf(q, S) /\ SumOf(m, S) = SumOf(n, S)
  BY <1>2, SumSame
<1>8. Above(f, S) \in Nat /\ Below(f, S) \in Nat
  BY HalvesType
<1> DEFINE a == Above(f, S)
           b == Below(f, S)
           c == Above(g, S \cup {x})
           d == Below(g, S \cup {x})
<1>9. c = a + p[x] /\ d = b + m[x] /\ a \in Nat /\ b \in Nat
  BY <1>4, <1>5, <1>6, <1>7, <1>8
<1> HIDE DEF a, b, c, d
<1>10. c - d = (a - b) + g[x]
  BY <1>3, <1>9
<1> QED BY <1>10 DEF a, b, c, d, NetOf

-----------------------------------------------------------------------------
(* Quotients                                                               *)

\* What a quotient is.
LEMMA Quotient ==
    ASSUME NEW a \in Nat, NEW n \in Nat \ {0}
    PROVE  a \div n \in Nat /\ n * (a \div n) <= a /\ a < n * (a \div n) + n
OBVIOUS

\* A product grows with a factor.
LEMMA ProductInOrder ==
    ASSUME NEW a \in Int, NEW b \in Int, NEW n \in Nat, a <= b
    PROVE  a * n <= b * n
OBVIOUS

\* Rounded to the nearest number, fractions keep their order.
LEMMA RoundedInOrder ==
    ASSUME NEW a \in Nat, NEW b \in Nat, NEW n \in Nat \ {0}, NEW m \in Nat \ {0},
           b * n <= a * m
    PROVE  (2 * b + m) \div (2 * m) <= (2 * a + n) \div (2 * n)
<1> DEFINE q == (2 * b + m) \div (2 * m)
           r == (2 * a + n) \div (2 * n)
<1>1. q \in Nat /\ (2 * m) * q <= 2 * b + m
  <2>1. 2 * b + m \in Nat /\ 2 * m \in Nat \ {0}
    OBVIOUS
  <2> QED BY <2>1, Quotient
<1>2. r \in Nat /\ 2 * a + n < (2 * n) * r + 2 * n
  <2>1. 2 * a + n \in Nat /\ 2 * n \in Nat \ {0}
    OBVIOUS
  <2> QED BY <2>1, Quotient
<1> HIDE DEF q, r
<1> SUFFICES ASSUME r < q PROVE FALSE
  BY <1>1, <1>2 DEF q, r
<1>3. 2 * a + n < (2 * n) * q
  <2>1. (r + 1) * (2 * n) <= q * (2 * n)
    BY <1>1, <1>2, ProductInOrder
  <2> QED BY <1>1, <1>2, <2>1
<1>4. (2 * a + n) * m < ((2 * n) * q) * m
  BY <1>1, <1>3
<1>5. ((2 * m) * q) * n <= (2 * b + m) * n
  <2>1. (2 * m) * q \in Int /\ 2 * b + m \in Int
    BY <1>1
  <2> QED BY <1>1, <2>1, ProductInOrder
<1>6. (2 * b + m) * n <= (2 * a + n) * m
  <2>1. (2 * b + m) * n = 2 * (b * n) + m * n
    <3>1. ASSUME NEW x \in Nat, NEW y \in Nat, NEW z \in Nat
          PROVE  (2 * x + y) * z = 2 * (x * z) + y * z
      OBVIOUS
    <3> QED BY <3>1
  <2>2. (2 * a + n) * m = 2 * (a * m) + m * n
    <3>1. ASSUME NEW x \in Nat, NEW y \in Nat, NEW z \in Nat
          PROVE  (2 * x + y) * z = 2 * (x * z) + z * y
      OBVIOUS
    <3> QED BY <3>1
  <2>3. b * n \in Nat /\ a * m \in Nat /\ m * n \in Nat
    OBVIOUS
  <2> QED BY <2>1, <2>2, <2>3
<1>7. ((2 * m) * q) * n = ((2 * n) * q) * m
  BY <1>1
<1>8. (2 * a + n) * m \in Int /\ (2 * b + m) * n \in Int /\ ((2 * n) * q) * m \in Int
  BY <1>1
<1> QED BY <1>4, <1>5, <1>6, <1>7, <1>8

-----------------------------------------------------------------------------
(* Least numbers and loops                                                 *)

\* A set of numbers has a least one: the initial segments of its members are
\* finite sets, and their strict inclusion is well founded.
LEMMA LeastExists ==
    ASSUME NEW T, T \subseteq Nat, T # {}
    PROVE  \E n \in T : \A m \in T : n <= m
<1> DEFINE Beg == {0 .. n : n \in T}
           R == StrictSubsetOrdering(Nat)
<1>1. Beg \subseteq FiniteSubsetsOf(Nat)
  <2>1. ASSUME NEW n \in T PROVE IsFiniteSet(0 .. n) /\ 0 .. n \subseteq Nat
    <3>1. 0 \in Int /\ n \in Int
      OBVIOUS
    <3> QED BY <3>1, FS_Interval
  <2> QED BY <2>1 DEF FiniteSubsetsOf
<1>2. Beg # {}
  OBVIOUS
<1>3. IsWellFoundedOn(R, FiniteSubsetsOf(Nat))
  BY FS_StrictSubsetOrderingWellFounded
<1> HIDE DEF R, Beg
<1>4. PICK b \in Beg : \A c \in Beg : ~(<<c, b>> \in R)
  BY <1>1, <1>2, <1>3, WFMin
<1>5. PICK n \in T : b = 0 .. n
  BY <1>4 DEF Beg
<1>6. ASSUME NEW m \in T, m < n PROVE FALSE
  <2>1. 0 .. m \in Beg
    BY DEF Beg
  <2>2. 0 .. m \subseteq 0 .. n /\ 0 .. m # 0 .. n
    <3>1. n \in 0 .. n /\ n \notin 0 .. m
      BY <1>6
    <3> QED BY <1>6, <3>1
  <2>3. <<0 .. m, b>> \in R
    BY <1>5, <2>2 DEF R, StrictSubsetOrdering
  <2> QED BY <1>4, <2>1, <2>3
<1> QED BY <1>5, <1>6

\* Induction: what holds of 0 and is kept up to n holds up to n.
LEMMA UpTo ==
    ASSUME NEW n \in Nat, NEW S, 0 \in S, \A i \in 1 .. n : i - 1 \in S => i \in S
    PROVE  \A i \in 0 .. n : i \in S
<1> DEFINE T == {i \in 0 .. n : i \notin S}
<1>1. SUFFICES ASSUME T # {} PROVE FALSE
  OBVIOUS
<1>2. PICK m \in T : \A k \in T : m <= k
  <2>1. T \subseteq Nat
    OBVIOUS
  <2> HIDE DEF T
  <2> QED BY <1>1, <2>1, LeastExists
<1>3. m \in 1 .. n /\ m - 1 \in 0 .. n /\ ~(m <= m - 1)
  BY <1>2
<1>4. m - 1 \notin T
  BY <1>2, <1>3
<1> QED BY <1>2, <1>3, <1>4

\* The values of a loop of n turns, from a first value, each turn a step from
\* the value before.
LoopOf(f, n, X, first, step) ==
    /\ f \in [0 .. n -> X]
    /\ f[0] = first
    /\ \A i \in 1 .. n : f[i] = step[<<i, f[i - 1]>>]

\* A loop computes something.
LEMMA LoopExists ==
    ASSUME NEW n \in Nat, NEW X, NEW first \in X, NEW step \in [Nat \X X -> X]
    PROVE  \E f : LoopOf(f, n, X, first, step)
<1> DEFINE Done(m) == \E f : LoopOf(f, m, X, first, step)
           S == {m \in Nat : Done(m)}
<1>3. Done(0)
  <2> DEFINE f == [i \in 0 .. 0 |-> first]
  <2>1. f \in [0 .. 0 -> X] /\ f[0] = first /\ \A i \in 1 .. 0 : f[i] = step[<<i, f[i - 1]>>]
    OBVIOUS
  <2> HIDE DEF f
  <2> QED BY <2>1 DEF LoopOf
<1>4. SUFFICES ASSUME NEW m \in Nat \ {0}, Done(m - 1) PROVE Done(m)
  <2>1. \A i \in 1 .. n : i - 1 \in S => i \in S
    <3> HIDE DEF Done
    <3> QED BY <1>4
  <2>2. 0 \in S
    BY <1>3
  <2>3. n \in S
    <3> HIDE DEF S
    <3>1. \A i \in 0 .. n : i \in S
      BY <2>1, <2>2, UpTo
    <3> QED BY <3>1
  <2> QED BY <2>3
<1>5. PICK f : LoopOf(f, m - 1, X, first, step)
  BY <1>4
<1> USE DEF LoopOf
<1> DEFINE g == [i \in 0 .. m |-> IF i < m THEN f[i] ELSE step[<<m, f[m - 1]>>]]
<1>6. f[m - 1] \in X
  BY <1>4, <1>5
<1>7. g \in [0 .. m -> X]
  <2>1. step[<<m, f[m - 1]>>] \in X
    BY <1>4, <1>6
  <2>2. \A i \in 0 .. m : i < m => f[i] \in X
    BY <1>4, <1>5
  <2> QED BY <2>1, <2>2
<1>8. g[0] = first
  BY <1>4, <1>5
<1>9. ASSUME NEW i \in 1 .. m PROVE g[i] = step[<<i, g[i - 1]>>]
  <2>1. i - 1 \in 0 .. m /\ i - 1 < m /\ g[i - 1] = f[i - 1]
    BY <1>4
  <2>2. CASE i = m
    BY <1>4, <2>1, <2>2
  <2>3. CASE i < m
    BY <1>4, <1>5, <2>1, <2>3
  <2> QED BY <1>4, <2>2, <2>3
<1> HIDE DEF g
<1> QED BY <1>7, <1>8, <1>9
=============================================================================
