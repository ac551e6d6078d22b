-------------------------- MODULE ArithmeticProofs ---------------------------
(****************************************************************************)
(* Proofs about the number instructions, for every width of the sizes and   *)
(* all constants of the program.                                            *)
(*                                                                          *)
(* A handler cuts what it computes to its size, so the lemmas reason about  *)
(* numbers that are the same up to a multiple of a power of two. Bits are   *)
(* places of sums of powers of two.                                         *)
(****************************************************************************)
EXTENDS Arithmetic, WellFoundedInduction, TLAPS

----------------------------------------------------------------------------
(* Induction and recursion.                                                 *)

\* A set of numbers has a least one.
LEMMA LeastNumber ==
    ASSUME NEW T \in SUBSET Nat, T # {}
    PROVE  \E x \in T : \A y \in T : x <= y
<1> DEFINE R == OpToRel(<, Nat)
<1>1. PICK x \in T : \A y \in T : ~(<<y, x>> \in R)
  <2>1. IsWellFoundedOn(R, Nat)
    BY NatLessThanWellFounded
  <2> HIDE DEF R
  <2> QED
    BY <2>1, WFMin
<1>2. ASSUME NEW y \in T, y < x PROVE FALSE
  <2>1. <<y, x>> \in Nat \X Nat /\ <<y, x>>[1] = y /\ <<y, x>>[2] = x
    OBVIOUS
  <2>2. <<y, x>> \in R
    BY <1>2, <2>1 DEF OpToRel
  <2> QED
    BY <1>1, <2>2
<1> QED
  BY <1>2

\* Induction over a set.
LEMMA Induction ==
    ASSUME NEW P, 0 \in P, \A n \in Nat : n \in P => n + 1 \in P
    PROVE  \A n \in Nat : n \in P
<1>1. SUFFICES ASSUME NEW n \in Nat, n \notin P PROVE FALSE
  OBVIOUS
<1>2. PICK m \in Nat \ P : \A k \in Nat \ P : m <= k
  <2>1. Nat \ P \in SUBSET Nat /\ Nat \ P # {}
    BY <1>1
  <2> QED
    BY <2>1, LeastNumber
<1>3. m # 0 /\ m - 1 \in Nat
  BY <1>2
<1>4. m - 1 \in P
  BY <1>2, <1>3
<1>5. (m - 1) + 1 \in P
  BY <1>3, <1>4
<1> QED
  BY <1>2, <1>5

\* f starts with b and goes on by the functions g[1] to g[n].
Follows(f, b, n, g) ==
    /\ f = [i \in 0 .. n |-> f[i]]
    /\ f[0] = b /\ \A i \in 1 .. n : f[i] = g[i][f[i - 1]]

\* A first value and a function for each number define a sequence of values.
LEMMA Recursion ==
    ASSUME NEW b, NEW n \in Nat, NEW g
    PROVE  \E f : Follows(f, b, n, g)
<1> DEFINE P == {k \in Nat : \E f : Follows(f, b, k, g)}
<1>1. 0 \in P
  <2>1. Follows([i \in 0 .. 0 |-> b], b, 0, g)
    BY DEF Follows
  <2> QED
    BY <2>1
<1>2. ASSUME NEW k \in Nat, k \in P PROVE k + 1 \in P
  <2>1. PICK f : Follows(f, b, k, g)
    BY <1>2
  <2> DEFINE h == [i \in 0 .. k + 1 |-> IF i = k + 1 THEN g[k + 1][f[k]] ELSE f[i]]
  <2>2. h = [i \in 0 .. k + 1 |-> h[i]] /\ h[0] = b
    BY <2>1 DEF Follows
  <2>3. ASSUME NEW i \in 1 .. k + 1 PROVE h[i] = g[i][h[i - 1]]
    <3>1. CASE i = k + 1
      BY <3>1
    <3>2. CASE i # k + 1
      <4>1. i \in 1 .. k /\ i - 1 \in 0 .. k + 1 /\ i - 1 # k + 1
        BY <3>2
      <4>2. h[i] = f[i] /\ h[i - 1] = f[i - 1]
        BY <4>1
      <4> QED
        BY <2>1, <4>1, <4>2 DEF Follows
    <3> QED
      BY <3>1, <3>2
  <2> HIDE DEF h
  <2>4. Follows(h, b, k + 1, g)
    BY <2>2, <2>3 DEF Follows
  <2> QED
    BY <2>4
<1>3. n \in P
  <2> HIDE DEF P
  <2> QED
    BY <1>1, <1>2, Induction
<1> QED
  BY <1>3

----------------------------------------------------------------------------
(* Powers of two, and numbers modulo one.                                   *)

\* f starts with b and goes on by the functions g[1], g[2] ...
Recurs(f, b, g) == f = [n \in Nat |-> IF n = 0 THEN b ELSE g[n][f[n - 1]]]

\* A first value and a function for each number define a value for all of them.
LEMMA RecursionOnNat ==
    ASSUME NEW b, NEW g
    PROVE  \E f : Recurs(f, b, g)
<1> DEFINE H == [n \in Nat |-> CHOOSE f : Follows(f, b, n, g)]
           F == [n \in Nat |-> H[n][n]]
<1>1. ASSUME NEW n \in Nat
      PROVE  H[n][0] = b /\ \A i \in 1 .. n : H[n][i] = g[i][H[n][i - 1]]
  <2>1. Follows(H[n], b, n, g)
    BY Recursion
  <2> HIDE DEF H
  <2> QED
    BY <2>1 DEF Follows
<1> HIDE DEF H
<1>2. ASSUME NEW n \in Nat PROVE \A i \in Nat : i <= n => H[n][i] = H[n + 1][i]
  <2> DEFINE P == {i \in Nat : i <= n => H[n][i] = H[n + 1][i]}
  <2>1. 0 \in P
    BY <1>1
  <2>2. ASSUME NEW i \in Nat, i \in P PROVE i + 1 \in P
    <3>1. SUFFICES ASSUME i + 1 <= n PROVE H[n][i + 1] = H[n + 1][i + 1]
      OBVIOUS
    <3>2. i <= n /\ i + 1 \in 1 .. n /\ i + 1 \in 1 .. n + 1 /\ i + 1 - 1 = i
      BY <3>1
    <3>3. H[n][i + 1] = g[i + 1][H[n][i]]
      BY <1>1, <3>2
    <3>4. H[n + 1][i + 1] = g[i + 1][H[n + 1][i]]
      BY <1>1, <3>2
    <3>5. H[n][i] = H[n + 1][i]
      BY <2>2, <3>2
    <3> QED
      BY <3>3, <3>4, <3>5
  <2> HIDE DEF P
  <2>3. \A i \in Nat : i \in P
    BY <2>1, <2>2, Induction
  <2> QED
    BY <2>3 DEF P
<1>3. F[0] = b
  BY <1>1
<1>4. ASSUME NEW n \in Nat, n # 0 PROVE F[n] = g[n][F[n - 1]]
  <2>1. n - 1 \in Nat /\ n - 1 + 1 = n /\ n \in 1 .. n
    BY <1>4
  <2>2. H[n][n] = g[n][H[n][n - 1]]
    BY <1>1, <2>1
  <2>3. H[n - 1][n - 1] = H[n][n - 1]
    BY <1>2, <2>1
  <2> QED
    BY <2>1, <2>2, <2>3
<1>5. F = [n \in Nat |-> IF n = 0 THEN b ELSE g[n][F[n - 1]]]
  <2>1. \A n \in Nat : F[n] = IF n = 0 THEN b ELSE g[n][F[n - 1]]
    BY <1>3, <1>4
  <2> QED
    BY <2>1
<1> QED
  BY <1>5 DEF Recurs

\* The powers of two.
LEMMA PowerFact ==
    /\ Pow2[0] = 1
    /\ \A n \in Nat : Pow2[n] \in Nat \ {0} /\ Pow2[n + 1] = 2 * Pow2[n]
<1> DEFINE g == [n \in Nat |-> [x \in Nat |-> 2 * x]]
<1>0. \A n, x \in Nat : g[n][x] = 2 * x
  OBVIOUS
<1> HIDE DEF g
<1>9. PICK f : Recurs(f, 1, g)
  BY RecursionOnNat
<1>1. f = [n \in Nat |-> IF n = 0 THEN 1 ELSE g[n][f[n - 1]]]
  BY <1>9 DEF Recurs
<1>2. f[0] = 1 /\ \A n \in Nat : f[n + 1] = g[n + 1][f[n]]
  BY <1>1
<1>3. \A n \in Nat : f[n] \in Nat
  <2> DEFINE P == {n \in Nat : f[n] \in Nat}
  <2>1. 0 \in P
    BY <1>2
  <2>2. ASSUME NEW n \in Nat, n \in P PROVE n + 1 \in P
    <3>1. f[n] \in Nat /\ n + 1 \in Nat
      BY <2>2
    <3>2. f[n + 1] = 2 * f[n]
      BY <1>0, <1>2, <3>1
    <3> QED
      BY <3>1, <3>2
  <2> HIDE DEF P
  <2>3. \A n \in Nat : n \in P
    BY <2>1, <2>2, Induction
  <2> QED
    BY <2>3 DEF P
<1>4. f = [n \in Nat |-> IF n = 0 THEN 1 ELSE 2 * f[n - 1]]
  <2>1. \A n \in Nat : n # 0 => g[n][f[n - 1]] = 2 * f[n - 1]
    BY <1>0, <1>3
  <2> QED
    BY <1>1, <2>1
<1>5. Pow2 = [n \in Nat |-> IF n = 0 THEN 1 ELSE 2 * Pow2[n - 1]]
  BY <1>4 DEF Pow2
<1>6. Pow2[0] = 1 /\ \A n \in Nat : Pow2[n + 1] = 2 * Pow2[n]
  BY <1>5
<1>7. \A n \in Nat : Pow2[n] \in Nat \ {0}
  <2> DEFINE P == {n \in Nat : Pow2[n] \in Nat \ {0}}
  <2>1. 0 \in P
    BY <1>6
  <2>2. ASSUME NEW n \in Nat, n \in P PROVE n + 1 \in P
    BY <1>6, <2>2
  <2> HIDE DEF P
  <2>3. \A n \in Nat : n \in P
    BY <2>1, <2>2, Induction
  <2> QED
    BY <2>3 DEF P
<1> QED
  BY <1>6, <1>7

\* x and y differ by a multiple of m.
Same(x, y, m) == \E k \in Int : x = y + k * m

\* Quotient and remainder make up the number.
LEMMA DivModFact ==
    ASSUME NEW x \in Int, NEW m \in Nat, m # 0
    PROVE  /\ x \div m \in Int /\ x % m \in Int
           /\ x = (x \div m) * m + (x % m) /\ x % m \in 0 .. m - 1
<1>1. x \div m \in Int
  OBVIOUS
<1>2. x % m \in 0 .. m - 1
  OBVIOUS
<1>3. x = m * (x \div m) + (x % m)
  OBVIOUS
<1>4. x = (x \div m) * m + (x % m)
  BY <1>1, <1>3
<1> QED
  BY <1>1, <1>2, <1>4

\* A number differs from its remainder by a multiple.
LEMMA SameFact ==
    ASSUME NEW x \in Int, NEW m \in Nat, m # 0
    PROVE  Same(x, x % m, m) /\ Same(x % m, x, m)
<1>1. x \div m \in Int /\ x % m \in Int /\ x = (x \div m) * m + (x % m)
  BY DivModFact
<1> DEFINE q == x \div m
           r == x % m
<1>2. q \in Int /\ r \in Int /\ x = r + q * m
  BY <1>1
<1> HIDE DEF q, r
<1>3. -q \in Int /\ r = x + (-q) * m
  BY <1>2
<1>4. Same(x, r, m) /\ Same(r, x, m)
  BY <1>2, <1>3 DEF Same
<1> QED
  BY <1>4 DEF r

\* Differing by a multiple of m is an equivalence ...
LEMMA SameRefl ==
    ASSUME NEW x \in Int, NEW m \in Nat
    PROVE  Same(x, x, m)
<1>1. x = x + 0 * m
  OBVIOUS
<1> QED
  BY <1>1 DEF Same

\* ... symmetric,
LEMMA SameSym ==
    ASSUME NEW x \in Int, NEW y \in Int, NEW m \in Nat, Same(x, y, m)
    PROVE  Same(y, x, m)
<1>1. PICK k \in Int : x = y + k * m
  BY DEF Same
<1>2. -k \in Int /\ y = x + (-k) * m
  BY <1>1
<1> QED
  BY <1>2 DEF Same

\* ... transitive,
LEMMA SameTrans ==
    ASSUME NEW x \in Int, NEW y \in Int, NEW z \in Int, NEW m \in Nat,
           Same(x, y, m), Same(y, z, m)
    PROVE  Same(x, z, m)
<1>1. PICK k \in Int : x = y + k * m
  BY DEF Same
<1>2. PICK l \in Int : y = z + l * m
  BY DEF Same
<1>3. k + l \in Int /\ x = z + (k + l) * m
  BY <1>1, <1>2
<1> QED
  BY <1>3 DEF Same

\* ... and sums, differences and products keep it.
LEMMA SameSum ==
    ASSUME NEW x \in Int, NEW y \in Int, NEW v \in Int, NEW w \in Int, NEW m \in Nat,
           Same(x, y, m), Same(v, w, m)
    PROVE  Same(x + v, y + w, m) /\ Same(x - v, y - w, m) /\ Same(x * v, y * w, m)
<1>1. PICK k \in Int : x = y + k * m
  BY DEF Same
<1>2. PICK l \in Int : v = w + l * m
  BY DEF Same
<1>3. k + l \in Int /\ x + v = (y + w) + (k + l) * m
  BY <1>1, <1>2
<1>4. k - l \in Int /\ x - v = (y - w) + (k - l) * m
  BY <1>1, <1>2
<1>5. y * l + k * w + k * m * l \in Int /\ x * v = y * w + (y * l + k * w + k * m * l) * m
  BY <1>1, <1>2
<1> QED
  BY <1>3, <1>4, <1>5 DEF Same

\* It means to have the same remainder.
LEMMA SameMod ==
    ASSUME NEW x \in Int, NEW y \in Int, NEW m \in Nat, m # 0
    PROVE  Same(x, y, m) <=> x % m = y % m
<1>1. ASSUME Same(x, y, m) PROVE x % m = y % m
  <2>1. PICK k \in Int : x = y + k * m
    BY <1>1 DEF Same
  <2> DEFINE r == x % m
             s == y % m
             a == x \div m
             c == y \div m
  <2>2. /\ r \in 0 .. m - 1 /\ s \in 0 .. m - 1 /\ a \in Int /\ c \in Int
        /\ x = a * m + r /\ y = c * m + s
    BY DivModFact
  <2> HIDE DEF a, c, r, s
  <2>3. (a - c - k) * m = s - r
    BY <2>1, <2>2
  <2>4. a - c - k = 0
    <3> DEFINE d == a - c - k
    <3>1. d \in Int /\ d * m = s - r
      BY <2>2, <2>3
    <3> HIDE DEF d
    <3>2. ASSUME d >= 1 PROVE FALSE
      <4>1. d * m >= m
        BY <3>1, <3>2
      <4> QED
        BY <4>1, <2>2, <3>1
    <3>3. ASSUME d <= -1 PROVE FALSE
      <4>1. d * m <= -m
        BY <3>1, <3>3
      <4> QED
        BY <4>1, <2>2, <3>1
    <3> QED
      BY <3>1, <3>2, <3>3 DEF d
  <2>5. s = r
    BY <2>2, <2>3, <2>4
  <2> QED
    BY <2>5 DEF r, s
<1>2. ASSUME x % m = y % m PROVE Same(x, y, m)
  <2>1. x % m \in Int
    BY DivModFact
  <2>2. Same(x, x % m, m) /\ Same(y % m, y, m)
    BY SameFact
  <2> QED
    BY <1>2, <2>1, <2>2, SameTrans
<1> QED
  BY <1>1, <1>2

\* What is below m is its own remainder.
LEMMA SmallMod ==
    ASSUME NEW m \in Nat, m # 0, NEW x \in 0 .. m - 1
    PROVE  x % m = x
OBVIOUS

----------------------------------------------------------------------------
(* Sums of powers of two.                                                   *)

\* The sum below the next place.
LEMMA BelowStep ==
    ASSUME NEW b
    PROVE  /\ Below(b)[0] = 0
           /\ \A n \in Nat :
                 /\ Below(b)[n] \in Int
                 /\ Below(b)[n + 1] = Below(b)[n] + (IF n \in b THEN Pow2[n] ELSE 0)
<1> DEFINE w == [n \in Nat |-> IF n - 1 \in b THEN Pow2[n - 1] ELSE 0]
           g == [n \in Nat |-> [x \in Int |-> x + w[n]]]
<1>1. \A n \in Nat : n # 0 => w[n] \in Int
  BY PowerFact
<1>2. \A n \in Nat : \A x \in Int : g[n][x] = x + w[n]
  OBVIOUS
<1> HIDE DEF g
<1>3. PICK f : Recurs(f, 0, g)
  BY RecursionOnNat
<1>4. f = [n \in Nat |-> IF n = 0 THEN 0 ELSE g[n][f[n - 1]]]
  BY <1>3 DEF Recurs
<1>5. f[0] = 0 /\ \A n \in Nat : f[n + 1] = g[n + 1][f[n]]
  BY <1>4
<1>6. \A n \in Nat : f[n] \in Int
  <2> DEFINE P == {n \in Nat : f[n] \in Int}
  <2>1. 0 \in P
    BY <1>5
  <2>2. ASSUME NEW n \in Nat, n \in P PROVE n + 1 \in P
    <3>1. f[n] \in Int /\ n + 1 \in Nat /\ n + 1 # 0
      BY <2>2
    <3> HIDE DEF w
    <3>2. w[n + 1] \in Int
      BY <1>1, <3>1
    <3>3. f[n + 1] = f[n] + w[n + 1]
      BY <1>2, <1>5, <3>1
    <3> QED
      BY <3>1, <3>2, <3>3
  <2> HIDE DEF P
  <2>3. \A n \in Nat : n \in P
    BY <2>1, <2>2, Induction
  <2> QED
    BY <2>3 DEF P
<1>7. \A n \in Nat : n # 0 => g[n][f[n - 1]] = f[n - 1] + w[n]
  BY <1>2, <1>6
<1>8. \A n \in Nat : n # 0 => w[n] = IF n - 1 \in b THEN Pow2[n - 1] ELSE 0
  OBVIOUS
<1> HIDE DEF w
<1>9. f = [n \in Nat |-> IF n = 0 THEN 0
                         ELSE f[n - 1] + (IF n - 1 \in b THEN Pow2[n - 1] ELSE 0)]
  BY <1>4, <1>7, <1>8
<1> DEFINE h == Below(b)
<1>10. h = [n \in Nat |-> IF n = 0 THEN 0
                          ELSE h[n - 1] + (IF n - 1 \in b THEN Pow2[n - 1] ELSE 0)]
  BY <1>9 DEF Below
<1> HIDE DEF h
<1>11. h[0] = 0 /\ \A n \in Nat : h[n + 1] = h[n] + (IF n \in b THEN Pow2[n] ELSE 0)
  BY <1>10
<1>12. \A n \in Nat : h[n] \in Int
  <2> DEFINE P == {n \in Nat : h[n] \in Int}
  <2>1. 0 \in P
    BY <1>11
  <2>2. ASSUME NEW n \in Nat, n \in P PROVE n + 1 \in P
    <3>1. h[n] \in Int /\ (IF n \in b THEN Pow2[n] ELSE 0) \in Int
      BY <2>2, PowerFact
    <3> QED
      BY <1>11, <3>1
  <2> HIDE DEF P
  <2>3. \A n \in Nat : n \in P
    BY <2>1, <2>2, Induction
  <2> QED
    BY <2>3 DEF P
<1> QED
  BY <1>11, <1>12 DEF h

\* A sum of different powers below the n-th is below it.
LEMMA BelowRange ==
    ASSUME NEW b
    PROVE  \A n \in Nat : Below(b)[n] \in 0 .. Pow2[n] - 1
<1> DEFINE P == {n \in Nat : Below(b)[n] \in 0 .. Pow2[n] - 1}
<1>1. 0 \in P
  BY BelowStep, PowerFact
<1>2. ASSUME NEW n \in Nat, n \in P PROVE n + 1 \in P
  <2> DEFINE x == Below(b)[n]
             y == Below(b)[n + 1]
             m == Pow2[n]
             l == Pow2[n + 1]
  <2>1. /\ x \in 0 .. m - 1 /\ y = x + (IF n \in b THEN m ELSE 0)
        /\ m \in Nat /\ l = 2 * m
    BY <1>2, BelowStep, PowerFact
  <2>2. y \in 0 .. l - 1
    <3> HIDE DEF x, y, m, l
    <3> QED
      BY <2>1
  <2> QED
    BY <2>2
<1> HIDE DEF P
<1>3. \A n \in Nat : n \in P
  BY <1>1, <1>2, Induction
<1> QED
  BY <1>3 DEF P

\* Only the places below count.
LEMMA BelowAgree ==
    ASSUME NEW b, NEW c, NEW n \in Nat, \A i \in Nat : i < n => (i \in b <=> i \in c)
    PROVE  Below(b)[n] = Below(c)[n]
<1> DEFINE P == {k \in Nat : k <= n => Below(b)[k] = Below(c)[k]}
<1>1. 0 \in P
  BY BelowStep
<1>2. ASSUME NEW k \in Nat, k \in P PROVE k + 1 \in P
  <2>1. SUFFICES ASSUME k + 1 <= n PROVE Below(b)[k + 1] = Below(c)[k + 1]
    OBVIOUS
  <2>2. Below(b)[k] = Below(c)[k] /\ (k \in b <=> k \in c)
    BY <1>2, <2>1
  <2> QED
    BY <2>2, BelowStep
<1> HIDE DEF P
<1>3. \A k \in Nat : k \in P
  BY <1>1, <1>2, Induction
<1> QED
  BY <1>3 DEF P

----------------------------------------------------------------------------
(* Bits of numbers.                                                         *)

\* Quotient and remainder are determined.
LEMMA DivUnique ==
    ASSUME NEW x \in Int, NEW q \in Int, NEW m \in Nat, m # 0, NEW r \in 0 .. m - 1,
           x = q * m + r
    PROVE  x \div m = q /\ x % m = r
<1>1. Same(x, r, m)
  <2>1. x = r + q * m
    OBVIOUS
  <2> QED
    BY <2>1 DEF Same
<1>2. r \in Int /\ r % m = r
  BY SmallMod
<1>3. x % m = r
  BY <1>1, <1>2, SameMod
<1> DEFINE d == x \div m
<1>4. d \in Int /\ x = d * m + r
  BY <1>3, DivModFact
<1> HIDE DEF d
<1>5. (d - q) * m = 0
  BY <1>4
<1>6. d = q
  BY <1>4, <1>5
<1> QED
  BY <1>3, <1>6 DEF d

\* A power of two is the product of two that are smaller.
LEMMA PowerSum ==
    ASSUME NEW a \in Nat
    PROVE  \A n \in Nat : Pow2[a + n] = Pow2[n] * Pow2[a]
<1> DEFINE P == {n \in Nat : Pow2[a + n] = Pow2[n] * Pow2[a]}
<1>1. 0 \in P
  BY PowerFact
<1>2. ASSUME NEW n \in Nat, n \in P PROVE n + 1 \in P
  <2> DEFINE x == Pow2[n]
             y == Pow2[a]
             z == Pow2[a + n]
  <2>1. x \in Nat /\ y \in Nat /\ z = x * y
    BY <1>2, PowerFact
  <2>2. Pow2[n + 1] = 2 * x /\ Pow2[(a + n) + 1] = 2 * z /\ (a + n) + 1 = a + (n + 1)
    BY PowerFact
  <2>3. 2 * z = (2 * x) * y
    <3> HIDE DEF x, y, z
    <3> QED
      BY <2>1
  <2> QED
    BY <2>2, <2>3
<1> HIDE DEF P
<1>3. \A n \in Nat : n \in P
  BY <1>1, <1>2, Induction
<1> QED
  BY <1>3 DEF P

\* The n-th power is a multiple of the a-th.
LEMMA PowerGap ==
    ASSUME NEW a \in Nat, NEW n \in Nat, a <= n
    PROVE  /\ n - a \in Nat /\ Pow2[n] = Pow2[n - a] * Pow2[a]
           /\ Pow2[a] <= Pow2[n]
<1>1. n - a \in Nat /\ a + (n - a) = n
  OBVIOUS
<1>2. Pow2[n] = Pow2[n - a] * Pow2[a]
  BY <1>1, PowerSum
<1>3. Pow2[n - a] \in Nat \ {0} /\ Pow2[a] \in Nat \ {0}
  BY <1>1, PowerFact
<1>4. \A x, y \in Nat \ {0} : y <= x * y
  OBVIOUS
<1> QED
  BY <1>1, <1>2, <1>3, <1>4

Bit(x, i) == (x \div Pow2[i]) % 2 = 1

BitSet(x) == {i \in Nat : Bit(x, i)}

\* What differs by a multiple of a power agrees modulo the smaller ones.
LEMMA SameSmaller ==
    ASSUME NEW x \in Int, NEW y \in Int, NEW a \in Nat, NEW n \in Nat, a <= n,
           Same(x, y, Pow2[n])
    PROVE  Same(x, y, Pow2[a])
<1> DEFINE m == Pow2[n]
           l == Pow2[a]
           h == Pow2[n - a]
<1>1. m \in Nat /\ l \in Nat /\ h \in Nat /\ m = h * l
  BY PowerGap, PowerFact
<1>2. PICK k \in Int : x = y + k * m
  BY DEF Same
<1> HIDE DEF m, l, h
<1>3. k * h \in Int /\ x = y + (k * h) * l
  BY <1>1, <1>2
<1>4. Same(x, y, l)
  BY <1>3 DEF Same
<1> QED
  BY <1>4 DEF l

\* ... and has the same bits below.
LEMMA SameBits ==
    ASSUME NEW x \in Int, NEW y \in Int, NEW n \in Nat, Same(x, y, Pow2[n]),
           NEW i \in Nat, i < n
    PROVE  Bit(x, i) <=> Bit(y, i)
<1> DEFINE m == Pow2[i]
           q == y \div m
           r == y % m
<1>1. Same(x, y, Pow2[i + 1])
  BY SameSmaller
<1>2. Pow2[i + 1] = 2 * m /\ m \in Nat \ {0}
  BY PowerFact
<1>3. q \in Int /\ r \in 0 .. m - 1 /\ y = q * m + r
  BY <1>2, DivModFact
<1>4. PICK k \in Int : x = y + k * (2 * m)
  BY <1>1, <1>2 DEF Same
<1>5. q + 2 * k \in Int /\ x = (q + 2 * k) * m + r
  <2> HIDE DEF m, q, r
  <2> QED
    BY <1>2, <1>3, <1>4
<1>6. x \div m = q + 2 * k
  <2> HIDE DEF m, q, r
  <2> QED
    BY <1>2, <1>3, <1>5, DivUnique
<1>7. (q + 2 * k) % 2 = q % 2
  <2> HIDE DEF q
  <2> QED
    BY <1>3
<1> QED
  BY <1>6, <1>7 DEF Bit

\* The bits of a number below the n-th make up the number modulo that power.
LEMMA NumberBelow ==
    ASSUME NEW x \in Int
    PROVE  \A n \in Nat : Below(BitSet(x))[n] = x % Pow2[n]
<1> DEFINE P == {n \in Nat : Below(BitSet(x))[n] = x % Pow2[n]}
<1>1. 0 \in P
  <2>1. x % 1 = 0
    OBVIOUS
  <2> QED
    BY <2>1, BelowStep, PowerFact
<1>2. ASSUME NEW n \in Nat, n \in P PROVE n + 1 \in P
  <2> DEFINE m == Pow2[n]
             q == x \div m
             r == x % m
             c == q % 2
             h == q \div 2
  <2>1. m \in Nat \ {0} /\ Pow2[n + 1] = 2 * m
    BY PowerFact
  <2>2. q \in Int /\ r \in 0 .. m - 1 /\ x = q * m + r
    BY <2>1, DivModFact
  <2>3. c \in 0 .. 1 /\ h \in Int /\ q = 2 * h + c
    <3> HIDE DEF q
    <3> QED
      BY <2>2
  <2>4. x = h * (2 * m) + (c * m + r) /\ c * m + r \in 0 .. 2 * m - 1
    <3> HIDE DEF m, q, r, c, h
    <3>1. c = 0 \/ c = 1
      BY <2>3
    <3>2. q * m = h * (2 * m) + c * m
      BY <2>1, <2>2, <2>3
    <3> QED
      BY <2>1, <2>2, <2>3, <3>1, <3>2
  <2>5. x % (2 * m) = c * m + r
    <3> HIDE DEF m, q, r, c, h
    <3>1. 2 * m \in Nat /\ 2 * m # 0
      BY <2>1
    <3> QED
      BY <2>3, <2>4, <3>1, DivUnique
  <2>6. Below(BitSet(x))[n + 1] = r + (IF c = 1 THEN m ELSE 0)
    BY <1>2, BelowStep DEF BitSet, Bit
  <2>7. r + (IF c = 1 THEN m ELSE 0) = c * m + r
    <3> HIDE DEF m, q, r, c, h
    <3> QED
      BY <2>1, <2>2, <2>3
  <2>8. x % Pow2[n + 1] = r + (IF c = 1 THEN m ELSE 0)
    BY <2>1, <2>5, <2>7
  <2> QED
    BY <2>6, <2>8
<1> HIDE DEF P
<1>3. \A n \in Nat : n \in P
  BY <1>1, <1>2, Induction
<1> QED
  BY <1>3 DEF P

\* The sum below the n-th place agrees with the one below the a-th modulo that.
LEMMA BelowSame ==
    ASSUME NEW b, NEW a \in Nat
    PROVE  \A n \in Nat : a <= n => Same(Below(b)[n], Below(b)[a], Pow2[a])
<1> DEFINE P == {n \in Nat : a <= n => Same(Below(b)[n], Below(b)[a], Pow2[a])}
<1>0. \A n \in Nat : Below(b)[n] \in Int /\ Pow2[n] \in Nat
  BY BelowStep, PowerFact
<1>9. Same(Below(b)[a], Below(b)[a], Pow2[a])
  BY <1>0, SameRefl
<1>1. 0 \in P
  BY <1>9
<1>2. ASSUME NEW n \in Nat, n \in P PROVE n + 1 \in P
  <2>1. CASE a = n + 1
    BY <2>1, <1>9
  <2>2. CASE a > n + 1
    BY <2>2
  <2>3. CASE a <= n
    <3> DEFINE x == Below(b)[n]
               y == Below(b)[a]
               z == Below(b)[n + 1]
               m == Pow2[n]
               l == Pow2[a]
               h == Pow2[n - a]
    <3>1. Same(x, y, l)
      BY <1>2, <2>3
    <3>2. z = x + (IF n \in b THEN m ELSE 0)
      BY BelowStep
    <3>3. m = h * l /\ h \in Nat
      BY <2>3, PowerGap, PowerFact
    <3>4. x \in Int /\ y \in Int /\ z \in Int /\ l \in Nat /\ m \in Nat
      BY <1>0
    <3> HIDE DEF x, y, z, m, l, h
    <3>5. z = x + (IF n \in b THEN h ELSE 0) * l
      BY <3>2, <3>3, <3>4
    <3>6. Same(z, x, l)
      BY <3>3, <3>5 DEF Same
    <3>7. Same(z, y, l)
      BY <3>1, <3>4, <3>6, SameTrans
    <3> QED
      BY <3>7 DEF z, y, l
  <2> QED
    BY <2>1, <2>2, <2>3
<1> HIDE DEF P
<1>3. \A n \in Nat : n \in P
  BY <1>1, <1>2, Induction
<1> QED
  BY <1>3 DEF P

\* The sum has the bits that it was made of.
LEMMA BelowBits ==
    ASSUME NEW b, NEW n \in Nat, NEW i \in Nat, i < n
    PROVE  Bit(Below(b)[n], i) <=> i \in b
<1> DEFINE x == Below(b)[n]
           y == Below(b)[i + 1]
           z == Below(b)[i]
           m == Pow2[i]
           c == IF i \in b THEN 1 ELSE 0
<1>1. x \in Int /\ y \in Int
  BY BelowStep
<1>2. Same(x, y, Pow2[i + 1])
  BY BelowSame
<1>3. Bit(x, i) <=> Bit(y, i)
  BY <1>1, <1>2, SameBits
<1>4. z \in 0 .. m - 1 /\ m \in Nat \ {0} /\ y = z + (IF i \in b THEN m ELSE 0)
  BY BelowRange, PowerFact, BelowStep
<1>5. c \in Int /\ (c = 1 <=> i \in b) /\ c % 2 = c
  OBVIOUS
<1>6. y = c * m + z
  <2> HIDE DEF y, z, m
  <2> QED
    BY <1>4
<1>7. y \div m = c
  <2> HIDE DEF y, z, m, c
  <2> QED
    BY <1>1, <1>4, <1>5, <1>6, DivUnique
<1>8. Bit(y, i) <=> c = 1
  BY <1>5, <1>7 DEF Bit
<1> QED
  BY <1>3, <1>5, <1>8

----------------------------------------------------------------------------
(* Patterns and the numbers they stand for.                                 *)

\* The half and the whole of the range of a size.
Half(s)  == Pow2[Width[s] - 1]
Whole(s) == Pow2[Width[s]]

\* Widths and powers are positive, and int is not narrower than what is promoted.
LEMMA WidthFact ==
    ASSUME NEW s \in Sizes
    PROVE  /\ Width[s] \in Nat \ {0} /\ Width[s] - 1 \in Nat
           /\ Half(s) \in Nat \ {0} /\ Whole(s) \in Nat \ {0} /\ Whole(s) = 2 * Half(s)
           /\ PromotedWidth(s) \in Nat \ {0} /\ Width[s] <= PromotedWidth(s)
<1>1. \A t \in Sizes : Width[t] \in Nat \ {0}
  BY WidthAssumption
<1>2. Width[s] - 1 \in Nat /\ (Width[s] - 1) + 1 = Width[s]
  BY <1>1
<1>3. 4 \in Sizes /\ (s < 4 => Width[s] < Width[4])
  BY WidthAssumption DEF Sizes
<1>4. PromotedWidth(s) \in Nat \ {0} /\ Width[s] <= PromotedWidth(s)
  BY <1>1, <1>3 DEF PromotedWidth, IntSize
<1>5. Half(s) \in Nat \ {0} /\ Whole(s) \in Nat \ {0} /\ Whole(s) = 2 * Half(s)
  BY <1>1, <1>2, PowerFact DEF Half, Whole
<1> QED
  BY <1>1, <1>2, <1>4, <1>5

\* Reading a pattern adds a multiple of the whole.
LEMMA NumberSame ==
    ASSUME NEW mod, NEW s \in Sizes, NEW p \in Int
    PROVE  Number(mod, p, s) \in Int /\ Same(Number(mod, p, s), p, Whole(s))
<1> DEFINE d == SignBit(p, s)
           m == Whole(s)
<1>1. m \in Nat
  BY WidthFact
<1>2. d \in Int
  BY WidthFact, DivModFact DEF SignBit, Half
<1>3. CASE mod = "SIGNED"
  <2>1. Number(mod, p, s) = p - d * m
    BY <1>3 DEF Number, Whole
  <2> HIDE DEF d, m
  <2>2. -d \in Int /\ p - d * m = p + (-d) * m /\ p - d * m \in Int
    BY <1>1, <1>2
  <2>3. Same(p - d * m, p, m)
    BY <2>2 DEF Same
  <2> QED
    BY <2>1, <2>2, <2>3 DEF m
<1>4. CASE mod # "SIGNED"
  <2>1. Number(mod, p, s) = p
    BY <1>4 DEF Number
  <2> QED
    BY <1>1, <2>1, SameRefl
<1> QED
  BY <1>3, <1>4

\* The numbers of a size.
Numbers(mod, s) ==
    IF mod = "SIGNED" THEN -Half(s) .. Half(s) - 1 ELSE 0 .. Whole(s) - 1

\* A pattern stands for one of them: itself, if the sign bit is not set.
LEMMA NumberFact ==
    ASSUME NEW mod, NEW s \in Sizes, NEW p \in Patterns(s)
    PROVE  /\ p \in Int /\ p >= 0 /\ p < Whole(s)
           /\ Number(mod, p, s) \in Numbers(mod, s)
           /\ SignBit(p, s) = IF p < Half(s) THEN 0 ELSE 1
           /\ Number(mod, p, s) = IF mod = "SIGNED" /\ p >= Half(s) THEN p - Whole(s) ELSE p
<1> DEFINE h == Half(s)
           m == Whole(s)
<1>1. h \in Nat \ {0} /\ m = 2 * h /\ p \in Int /\ p >= 0 /\ p < m
  BY WidthFact DEF Patterns, Whole
<1>2. SignBit(p, s) = p \div h
  BY DEF SignBit, Half
<1>3. Number(mod, p, s) = IF mod = "SIGNED" THEN p - SignBit(p, s) * m ELSE p
  BY DEF Number, Whole
<1>4. Numbers(mod, s) = IF mod = "SIGNED" THEN -h .. h - 1 ELSE 0 .. m - 1
  BY DEF Numbers
<1> HIDE DEF h, m
<1>5. CASE p < h
  <2>1. p = 0 * h + p /\ p \in 0 .. h - 1
    BY <1>1, <1>5
  <2>2. p \div h = 0
    BY <1>1, <2>1, DivUnique
  <2> QED
    BY <1>1, <1>2, <1>3, <1>4, <1>5, <2>2 DEF h, m
<1>6. CASE p >= h
  <2>1. p = 1 * h + (p - h) /\ p - h \in 0 .. h - 1
    BY <1>1, <1>6
  <2>2. p \div h = 1
    <3>1. p - h \in 0 .. h - 1 /\ h \in Nat /\ h # 0 /\ 1 \in Int
      BY <1>1, <2>1
    <3> QED
      BY <1>1, <2>1, <3>1, DivUnique
  <2> QED
    BY <1>1, <1>2, <1>3, <1>4, <1>6, <2>2 DEF h, m
<1> QED
  BY <1>1, <1>5, <1>6

\* Cutting a number to a size.
LEMMA NarrowFact ==
    ASSUME NEW x \in Int, NEW s \in Sizes
    PROVE  /\ Narrow(x, s) \in Patterns(s) /\ Narrow(x, s) \in Int
           /\ Same(Narrow(x, s), x, Whole(s))
<1>1. Whole(s) \in Nat /\ Whole(s) # 0
  BY WidthFact
<1>2. x % Whole(s) \in 0 .. Whole(s) - 1 /\ x % Whole(s) \in Int
  BY <1>1, DivModFact
<1>3. Same(x % Whole(s), x, Whole(s))
  BY <1>1, SameFact
<1> QED
  BY <1>2, <1>3 DEF Narrow, Patterns, Whole

\* Numbers are cut to the same pattern if they differ by a multiple of the whole.
LEMMA NarrowSame ==
    ASSUME NEW x \in Int, NEW y \in Int, NEW s \in Sizes
    PROVE  Same(x, y, Whole(s)) <=> Narrow(x, s) = Narrow(y, s)
<1>1. Whole(s) \in Nat /\ Whole(s) # 0
  BY WidthFact
<1> QED
  BY <1>1, SameMod DEF Narrow, Whole

\* A pattern is not cut.
LEMMA NarrowPattern ==
    ASSUME NEW s \in Sizes, NEW p \in Patterns(s)
    PROVE  Narrow(p, s) = p
<1>1. Whole(s) \in Nat /\ Whole(s) # 0 /\ p \in 0 .. Whole(s) - 1
  BY WidthFact DEF Patterns, Whole
<1> QED
  BY <1>1, SmallMod DEF Narrow, Whole

\* A number of the size is read as it was written.
LEMMA NumberNarrow ==
    ASSUME NEW mod, NEW s \in Sizes, NEW x \in Numbers(mod, s)
    PROVE  x \in Int /\ Number(mod, Narrow(x, s), s) = x
<1> DEFINE h == Half(s)
           m == Whole(s)
           r == Narrow(x, s)
<1>1. h \in Nat \ {0} /\ m = 2 * h
  BY WidthFact
<1>2. Numbers(mod, s) = IF mod = "SIGNED" THEN -h .. h - 1 ELSE 0 .. m - 1
  BY DEF Numbers
<1>3. x \in Int
  BY <1>1, <1>2
<1>4. r = x % m
  BY DEF Narrow, Whole
<1>5. r \in Patterns(s)
  BY <1>3, NarrowFact
<1>6. Number(mod, r, s) = IF mod = "SIGNED" /\ r >= h THEN r - m ELSE r
  BY <1>5, NumberFact
<1> HIDE DEF h, m, r
<1>7. CASE x >= 0
  <2>1. x \in 0 .. m - 1 /\ m \in Nat /\ m # 0
    BY <1>1, <1>2, <1>7
  <2>2. r = x
    BY <1>4, <2>1, SmallMod
  <2> QED
    BY <1>1, <1>2, <1>6, <1>7, <2>2 DEF r
<1>8. CASE x < 0
  <2>1. x + m \in 0 .. m - 1 /\ m \in Nat /\ m # 0 /\ x = (-1) * m + (x + m) /\ -1 \in Int
    BY <1>1, <1>2, <1>8
  <2>2. x % m = x + m
    BY ONLY <1>3, <2>1, DivUnique
  <2> QED
    BY <1>1, <1>2, <1>4, <1>6, <1>8, <2>2 DEF r
<1> QED
  BY <1>3, <1>7, <1>8

----------------------------------------------------------------------------
(* Every handler leaves a pattern of the size of its destination.           *)

\* Division truncates toward zero: the remainder is smaller than the divisor
\* and has the sign of the dividend.
LEMMA QuotientFact ==
    ASSUME NEW x \in Int, NEW y \in Int, y # 0
    PROVE  /\ Quotient(x, y) \in Int /\ x - y * Quotient(x, y) \in Int
           /\ x >= 0 => x - y * Quotient(x, y) \in 0 .. (IF y < 0 THEN -y ELSE y) - 1
           /\ x < 0 => -(x - y * Quotient(x, y)) \in 0 .. (IF y < 0 THEN -y ELSE y) - 1
<1> DEFINE a == IF x < 0 THEN -x ELSE x
           c == IF y < 0 THEN -y ELSE y
           n == a \div c
           r == a % c
           q == Quotient(x, y)
<1>1. a \in Nat /\ c \in Nat \ {0}
  OBVIOUS
<1>2. q = IF (x < 0) = (y < 0) THEN n ELSE -n
  BY DEF Quotient
<1>3. n \in Int /\ r \in 0 .. c - 1 /\ a = n * c + r
  <2> HIDE DEF a, c
  <2> QED
    BY <1>1, DivModFact
<1>4. (x >= 0 /\ a = x) \/ (x < 0 /\ a = -x)
  OBVIOUS
<1>5. (y < 0 /\ c = -y) \/ (y >= 0 /\ c = y)
  OBVIOUS
<1> HIDE DEF a, c, n, r, q
<1>6. q \in Int
  BY <1>2, <1>3
<1>7. y * q = IF x < 0 THEN -(n * c) ELSE n * c
  <2>1. CASE (x < 0) = (y < 0)
    <3>1. q = n
      BY <1>2, <2>1
    <3> QED
      BY <1>1, <1>3, <1>4, <1>5, <2>1, <3>1
  <2>2. CASE (x < 0) # (y < 0)
    <3>1. q = -n
      BY <1>2, <2>2
    <3> QED
      BY <1>1, <1>3, <1>4, <1>5, <2>2, <3>1
  <2> QED
    BY <2>1, <2>2
<1>8. n * c \in Int
  BY <1>1, <1>3
<1> DEFINE d == n * c
<1> HIDE DEF d
<1>9. y * q = (IF x < 0 THEN -d ELSE d) /\ d \in Int /\ a = d + r
  BY <1>3, <1>7, <1>8 DEF d
<1>10. x - y * q = IF x < 0 THEN -r ELSE r
  BY <1>1, <1>3, <1>4, <1>9
<1>11. r \in Int /\ r \in 0 .. c - 1
  BY <1>1, <1>3
<1>12. /\ x - y * q \in Int
       /\ x >= 0 => x - y * q \in 0 .. c - 1
       /\ x < 0 => -(x - y * q) \in 0 .. c - 1
  BY ONLY <1>10, <1>11, x \in Int
<1> QED
  BY <1>6, <1>12 DEF q, c

\* A divisor that is not zero stands for a number that is not zero.
LEMMA NonZero ==
    ASSUME NEW mod, NEW s \in Sizes, NEW q \in Patterns(s), q # 0
    PROVE  Number(mod, q, s) # 0
<1>1. Whole(s) \in Nat
  BY WidthFact
<1> QED
  BY <1>1, NumberFact

\* Numbers made of bits are patterns.
LEMMA FromBitsFact ==
    ASSUME NEW s \in Sizes, NEW b
    PROVE  FromBits(b, s) \in Patterns(s)
BY WidthFact, BelowRange DEF FromBits, Patterns

\* The handlers of two operands.
LEMMA HandlerFact ==
    ASSUME NEW mod, NEW s \in Sizes, NEW p \in Patterns(s), NEW q \in Patterns(s)
    PROVE  /\ Add(mod, s, p, q) \in Patterns(s) /\ Sub(mod, s, p, q) \in Patterns(s)
           /\ Mul(mod, s, p, q) \in Patterns(s)
           /\ And(mod, s, p, q) \in Patterns(s) /\ Or(mod, s, p, q) \in Patterns(s)
           /\ Xor(mod, s, p, q) \in Patterns(s)
           /\ Shl(mod, s, p, q) \in Patterns(s) /\ Shr(mod, s, p, q) \in Patterns(s)
           /\ q # 0 => Div(mod, s, p, q) \in Patterns(s) /\ Rem(mod, s, p, q) \in Patterns(s)
<1> DEFINE x == Number(mod, p, s)
           y == Number(mod, q, s)
           w == PromotedWidth(s)
<1>1. p \in Int /\ q \in Int
  BY NumberFact
<1>2. x \in Int /\ y \in Int
  BY <1>1, NumberSame
<1>3. w \in Nat /\ w # 0
  BY WidthFact
<1>4. x + y \in Int /\ x - y \in Int /\ x * y \in Int
  <2> HIDE DEF x, y
  <2> QED
    BY <1>2
<1>5. p * Pow2[q % w] \in Int /\ x \div Pow2[y % w] \in Int
  <2> HIDE DEF x, y, w
  <2>1. q % w \in Nat /\ y % w \in Nat
    BY <1>1, <1>2, <1>3
  <2>2. Pow2[q % w] \in Nat /\ Pow2[y % w] \in Nat /\ Pow2[y % w] # 0
    BY <2>1, PowerFact
  <2>3. x \div Pow2[y % w] \in Int
    BY <1>2, <2>2, DivModFact
  <2> QED
    BY <1>1, <2>2, <2>3
<1>6. ASSUME q # 0 PROVE Quotient(x, y) \in Int /\ x - y * Quotient(x, y) \in Int
  <2>1. y # 0
    BY <1>6, NonZero
  <2> HIDE DEF x, y
  <2> QED
    BY <1>2, <2>1, QuotientFact
<1>7. Add(mod, s, p, q) \in Patterns(s) /\ Sub(mod, s, p, q) \in Patterns(s)
      /\ Mul(mod, s, p, q) \in Patterns(s)
  BY <1>4, NarrowFact DEF Add, Sub, Mul
<1>8. Shl(mod, s, p, q) \in Patterns(s) /\ Shr(mod, s, p, q) \in Patterns(s)
  BY <1>5, NarrowFact DEF Shl, Shr
<1>9. q # 0 => Div(mod, s, p, q) \in Patterns(s) /\ Rem(mod, s, p, q) \in Patterns(s)
  BY <1>6, NarrowFact DEF Div, Rem
<1>10. And(mod, s, p, q) \in Patterns(s) /\ Or(mod, s, p, q) \in Patterns(s)
       /\ Xor(mod, s, p, q) \in Patterns(s)
  BY FromBitsFact DEF And, Or, Xor
<1> QED
  BY <1>7, <1>8, <1>9, <1>10

\* The handlers of one operand.
LEMMA ConversionFact ==
    /\ \A s \in Sizes : \A p \in Patterns(s) : Neg(s, p) \in Patterns(s)
    /\ \A mod, s, t : s \in Sizes /\ t \in Sizes =>
         \A p \in Patterns(s) :
            Extend(mod, s, t, p) \in Patterns(t) /\ Truncate(t, p) \in Patterns(t)
<1>1. ASSUME NEW s \in Sizes, NEW p \in Patterns(s) PROVE Neg(s, p) \in Patterns(s)
  <2>1. p \in Int /\ Half(s) \in Nat
    BY WidthFact DEF Patterns, Whole
  <2>2. p + Half(s) \in Int
    BY <2>1
  <2> QED
    BY <2>2, NarrowFact DEF Neg, Narrow, Half
<1>2. ASSUME NEW mod, NEW s \in Sizes, NEW t \in Sizes, NEW p \in Patterns(s)
      PROVE  Extend(mod, s, t, p) \in Patterns(t) /\ Truncate(t, p) \in Patterns(t)
  BY NumberFact, NumberSame, NarrowFact DEF Extend, Truncate
<1> QED
  BY <1>1, <1>2

\* Each variable holds a pattern of its size.
TypeInv ==
    /\ mem = [l \in Local |-> mem[l]]
    /\ \A l \in Local : mem[l] \in Patterns(Size[l])

\* So does each operand.
LEMMA OperandFact ==
    ASSUME TypeInv, NEW s \in Sizes, NEW p \in Operands(s)
    PROVE  p \in Patterns(s)
BY ConstantAssumption DEF TypeInv, Operands, Patterns

\* An instruction that writes a pattern of the destination's size.
LEMMA WriteFact ==
    ASSUME TypeInv, NEW l \in Local, NEW p \in Patterns(Size[l]), Write(l, p)
    PROVE  TypeInv'
<1>1. mem' = [mem EXCEPT ![l] = p]
  BY DEF Write
<1>2. mem' = [k \in Local |-> IF k = l THEN p ELSE mem[k]]
  BY <1>1 DEF TypeInv
<1>3. Patterns(Size[l])' = Patterns(Size[l])
  OBVIOUS
<1> QED
  BY <1>2 DEF TypeInv, Patterns

\* A condition is a pattern of one byte.
LEMMA TruthFact ==
    ASSUME TypeInv, NEW l \in Local, Size[l] = 1, NEW holds, WriteTruth(l, holds)
    PROVE  TypeInv'
<1>1. 1 \in Sizes
  BY DEF Sizes
<1>2. Whole(1) = 2 * Half(1) /\ Half(1) \in Nat \ {0}
  BY <1>1, WidthFact
<1>3. 0 \in Patterns(1) /\ 1 \in Patterns(1)
  BY <1>2 DEF Patterns, Whole
<1>4. (IF holds THEN 1 ELSE 0) \in Patterns(Size[l])
  BY <1>3
<1> QED
  BY <1>4, WriteFact DEF WriteTruth

\* No instruction writes anything but a pattern.
LEMMA TypeStep ==
    ASSUME TypeInv, [Next]_vars
    PROVE  TypeInv'
<1>0. \A l \in Local : Size[l] \in Sizes
  BY SizeAssumption
<1>1. CASE Copy
  BY <1>0, <1>1, OperandFact, WriteFact DEF Copy
<1>2. CASE AddSubMul
  <2>1. PICK l \in Local, mod \in Integral : \E p, q \in Operands(Size[l]) :
          \/ Write(l, Add(mod, Size[l], p, q))
          \/ Write(l, Sub(mod, Size[l], p, q))
          \/ Write(l, Mul(mod, Size[l], p, q))
    BY <1>2 DEF AddSubMul
  <2> QED
    BY <1>0, <2>1, OperandFact, HandlerFact, WriteFact
<1>3. CASE AndOrXor
  BY <1>0, <1>3, OperandFact, HandlerFact, WriteFact DEF AndOrXor
<1>4. CASE Shift
  BY <1>0, <1>4, OperandFact, HandlerFact, WriteFact DEF Shift
<1>5. CASE DivRem
  <2>1. ASSUME NEW l \in Local, NEW mod \in Integral,
               NEW p \in Operands(Size[l]), NEW q \in Operands(Size[l]), q # 0,
               Write(l, Div(mod, Size[l], p, q)) \/ Write(l, Rem(mod, Size[l], p, q))
        PROVE  TypeInv'
    BY <1>0, <2>1, OperandFact, HandlerFact, WriteFact
  <2>2. \/ mem' = mem
        \/ \E l \in Local, mod \in Integral : \E p, q \in Operands(Size[l]) :
              /\ q # 0
              /\ \/ Write(l, Div(mod, Size[l], p, q))
                 \/ Write(l, Rem(mod, Size[l], p, q))
    BY <1>5 DEF DivRem, Divide, Trap
  <2> QED
    BY <2>1, <2>2 DEF TypeInv, Patterns
<1>6. CASE Negate
  BY <1>0, <1>6, OperandFact, ConversionFact, WriteFact DEF Negate
<1>7. CASE Resize
  BY <1>0, <1>7, OperandFact, ConversionFact, WriteFact DEF Resize
<1>8. CASE Order \/ Equality \/ TestNan
  BY <1>8, TruthFact DEF Order, Equality, TestNan
<1>9. CASE UNCHANGED vars
  BY <1>9 DEF TypeInv, Patterns, vars
<1> QED
  BY <1>1, <1>2, <1>3, <1>4, <1>5, <1>6, <1>7, <1>8, <1>9 DEF Next

\* Every instruction leaves a pattern in its destination, for every size of
\* variables and every width.
THEOREM InvHolds == Spec => []TypeInv
<1>1. Init => TypeInv
  BY SizeAssumption, FillAssumption DEF Init, TypeInv, Patterns
<1>2. TypeInv /\ [Next]_vars => TypeInv'
  BY TypeStep
<1> QED
  BY <1>1, <1>2, PTL DEF Spec

----------------------------------------------------------------------------
(* Comparisons.                                                             *)

\* What a comparison looks at is a number.
LEMMA ValueFact ==
    ASSUME NEW mod, NEW s \in Sizes, NEW p \in Patterns(s)
    PROVE  Value(mod, p, s) \in Int
<1>1. p \in Int /\ Number(mod, p, s) \in Int
  BY NumberFact, NumberSame
<1>2. Magnitude(p, s) \in Int
  BY <1>1, WidthFact, DivModFact DEF Magnitude, Half
<1> QED
  BY <1>1, <1>2 DEF Value, Float

\* NEG turns the sign bit and nothing else.
LEMMA NegFact ==
    ASSUME NEW s \in Sizes, NEW p \in Patterns(s)
    PROVE  /\ Magnitude(Neg(s, p), s) = Magnitude(p, s)
           /\ Float(Neg(s, p), s) = -Float(p, s)
           /\ IsNan(Neg(s, p), s) <=> IsNan(p, s)
<1> DEFINE h == Half(s)
           m == Whole(s)
           n == Neg(s, p)
           a == Magnitude(p, s)
<1>1. h \in Nat \ {0} /\ m = 2 * h
  BY WidthFact
<1>2. p \in Int /\ p >= 0 /\ p < m
  BY <1>1 DEF Patterns, Whole
<1>3. n = (p + h) % m
  BY DEF Neg, Half, Whole
<1>4. n \in Patterns(s)
  BY ConversionFact
<1>5. Magnitude(n, s) = n % h /\ a = p % h
  BY DEF Magnitude, Half
<1>6. /\ SignBit(p, s) = IF p < h THEN 0 ELSE 1
      /\ SignBit(n, s) = IF n < h THEN 0 ELSE 1
  BY <1>4, NumberFact
<1>7. n = IF p < h THEN p + h ELSE p - h
  <2> HIDE DEF h, m, n, a
  <2>1. CASE p < h
    <3>1. p + h \in 0 .. m - 1 /\ m \in Nat /\ m # 0
      BY <1>1, <1>2, <2>1
    <3> QED
      BY <1>3, <2>1, <3>1, SmallMod
  <2>2. CASE p >= h
    <3>1. /\ p - h \in 0 .. m - 1 /\ m \in Nat /\ m # 0
          /\ p + h = 1 * m + (p - h) /\ p + h \in Int /\ 1 \in Int
      BY <1>1, <1>2, <2>2
    <3>2. (p + h) % m = p - h
      BY ONLY <3>1, DivUnique
    <3> QED
      BY <1>1, <1>2, <1>3, <2>2, <3>2
  <2> QED
    BY <1>1, <1>2, <2>1, <2>2
<1>8. n % h = a
  <2>1. Same(n, p, h)
    <3> HIDE DEF h, m, n, a
    <3>1. n = p + 1 * h \/ n = p + (-1) * h
      BY <1>1, <1>2, <1>7
    <3> QED
      BY <3>1 DEF Same
  <2>2. n \in Int
    BY <1>1, <1>2, <1>7
  <2> HIDE DEF h, m, n
  <2> QED
    BY <1>1, <1>2, <1>5, <2>1, <2>2, SameMod
<1>9. Magnitude(n, s) = a
  BY <1>5, <1>8
<1>10. a \in Int
  BY <1>1, <1>2, <1>5, DivModFact
<1>11. n < h <=> ~(p < h)
  <2> HIDE DEF h, m, n, a
  <2> QED
    BY <1>1, <1>2, <1>7
<1>12. /\ Float(p, s) = IF p < h THEN a ELSE -a
       /\ Float(n, s) = IF p < h THEN -a ELSE a
  BY <1>6, <1>9, <1>11 DEF Float
<1>13. Float(n, s) = -Float(p, s)
  <2> HIDE DEF h, m, n, a
  <2> QED
    BY <1>10, <1>12
<1>14. IsNan(n, s) <=> IsNan(p, s)
  BY <1>9 DEF IsNan
<1> QED
  BY <1>9, <1>13, <1>14

\* A branch and the one with the negated condition go the same way, whatever
\* the operands, NaNs included, and NEG turns an order round.
THEOREM ComparisonsFit == Spec => []ComparisonsAgree
<1>1. TypeInv => ComparisonsAgree
  <2> SUFFICES ASSUME TypeInv,
                      NEW s \in Sizes, NEW mod \in Integral \union Floating,
                      NEW p \in Operands(s), NEW q \in Operands(s)
               PROVE  LET Opposite == CASE mod = "FLOATING" -> "FLOATING_UNORDERED"
                                        [] mod = "FLOATING_UNORDERED" -> "FLOATING"
                                        [] OTHER -> mod
                      IN  /\ Less(mod, s, p, q) = ~GreaterEqual(Opposite, s, p, q)
                          /\ Greater(mod, s, p, q) = ~LessEqual(Opposite, s, p, q)
                          /\ mod # "FLOATING_UNORDERED" =>
                                Equal(mod, s, p, q) = ~Unequal(Opposite, s, p, q)
                          /\ Less(mod, s, p, q) = Greater(mod, s, q, p)
                          /\ LessEqual(mod, s, p, q) =
                                (Less(mod, s, p, q) \/ Equal(mod, s, p, q))
                          /\ mod \in Floating =>
                                Less(mod, s, p, q) = Greater(mod, s, Neg(s, p), Neg(s, q))
    BY DEF ComparisonsAgree
  <2> DEFINE Opposite == CASE mod = "FLOATING" -> "FLOATING_UNORDERED"
                           [] mod = "FLOATING_UNORDERED" -> "FLOATING"
                           [] OTHER -> mod
             u == IsNan(p, s) \/ IsNan(q, s)
             x == Value(mod, p, s)
             y == Value(mod, q, s)
  <2>1. p \in Patterns(s) /\ q \in Patterns(s)
    BY OperandFact
  <2>2. x \in Int /\ y \in Int
    BY <2>1, ValueFact
  <2>3. CASE mod \in Integral
    <3>1. Opposite = mod /\ mod \notin Floating /\ mod # "FLOATING_UNORDERED"
      BY <2>3 DEF Integral, Floating
    <3>2. ~Unordered(mod, s, p, q) /\ ~Unordered(mod, s, q, p)
      BY <3>1 DEF Unordered
    <3>3. /\ Less(mod, s, p, q) = (x < y) /\ Less(mod, s, q, p) = (y < x)
          /\ LessEqual(mod, s, p, q) = (x <= y)
          /\ Greater(mod, s, p, q) = (x > y) /\ Greater(mod, s, q, p) = (y > x)
          /\ GreaterEqual(mod, s, p, q) = (x >= y)
          /\ Equal(mod, s, p, q) = (x = y) /\ Unequal(mod, s, p, q) = (x # y)
      BY <3>2 DEF Less, LessEqual, Greater, GreaterEqual, Equal, Unequal
    <3> HIDE DEF x, y
    <3>4. /\ (x < y) = ~(x >= y) /\ (x > y) = ~(x <= y) /\ (x < y) = (y > x)
          /\ (x <= y) = (x < y \/ x = y) /\ (x = y) = ~(x # y)
      BY <2>2
    <3> QED
      BY <3>1, <3>3, <3>4
  <2>4. CASE mod \in Floating
    <3>1. /\ Opposite \in Floating
          /\ Opposite = "FLOATING_UNORDERED" <=> mod # "FLOATING_UNORDERED"
      BY <2>4 DEF Floating
    <3>2. /\ Unordered(mod, s, p, q) <=> u
          /\ Unordered(mod, s, q, p) <=> u
          /\ Unordered(Opposite, s, p, q) <=> u
          /\ Unordered(mod, s, Neg(s, p), Neg(s, q)) <=> u
      BY <2>1, <2>4, <3>1, NegFact DEF Unordered
    <3>3. /\ Value(Opposite, p, s) = x /\ Value(Opposite, q, s) = y
          /\ Value(mod, Neg(s, p), s) = -x /\ Value(mod, Neg(s, q), s) = -y
      BY <2>1, <2>4, <3>1, NegFact DEF Value
    <3> HIDE DEF x, y, u, Opposite
    <3>4. /\ Less(mod, s, p, q) = (IF u THEN mod = "FLOATING_UNORDERED" ELSE x < y)
          /\ LessEqual(mod, s, p, q) = (IF u THEN mod = "FLOATING_UNORDERED" ELSE x <= y)
          /\ Greater(mod, s, p, q) = (IF u THEN mod = "FLOATING_UNORDERED" ELSE x > y)
          /\ Equal(mod, s, p, q) = (IF u THEN mod = "FLOATING_UNORDERED" ELSE x = y)
      BY <3>2, <3>3 DEF Less, LessEqual, Greater, Equal, x, y
    <3>5. /\ GreaterEqual(Opposite, s, p, q) =
                (IF u THEN Opposite = "FLOATING_UNORDERED" ELSE x >= y)
          /\ LessEqual(Opposite, s, p, q) =
                (IF u THEN Opposite = "FLOATING_UNORDERED" ELSE x <= y)
          /\ Unequal(Opposite, s, p, q) = (u \/ x # y)
          /\ Greater(mod, s, q, p) = (IF u THEN mod = "FLOATING_UNORDERED" ELSE y > x)
          /\ Greater(mod, s, Neg(s, p), Neg(s, q)) =
                (IF u THEN mod = "FLOATING_UNORDERED" ELSE -x > -y)
      BY <3>2, <3>3 DEF LessEqual, Greater, GreaterEqual, Unequal, x, y
    <3>6. /\ (x < y) = ~(x >= y) /\ (x > y) = ~(x <= y) /\ (x < y) = (y > x)
          /\ (x <= y) = (x < y \/ x = y) /\ (x = y) = ~(x # y)
          /\ (x < y) = (-x > -y)
      BY <2>2
    <3>7. u \in BOOLEAN
      BY DEF u, IsNan
    <3>8. /\ Less(mod, s, p, q) = ~GreaterEqual(Opposite, s, p, q)
          /\ Greater(mod, s, p, q) = ~LessEqual(Opposite, s, p, q)
      BY <3>1, <3>4, <3>5, <3>6
    <3>9. mod # "FLOATING_UNORDERED" =>
                Equal(mod, s, p, q) = ~Unequal(Opposite, s, p, q)
      BY <3>4, <3>5, <3>6, <3>7
    <3>10. /\ Less(mod, s, p, q) = Greater(mod, s, q, p)
           /\ Less(mod, s, p, q) = Greater(mod, s, Neg(s, p), Neg(s, q))
      BY <3>4, <3>5, <3>6
    <3>11. LessEqual(mod, s, p, q) = (Less(mod, s, p, q) \/ Equal(mod, s, p, q))
      <4>1. CASE u
        BY <3>4, <4>1, Zenon
      <4>2. CASE ~u
        BY <3>4, <3>6, <4>2
      <4> QED
        BY <4>1, <4>2
    <3> QED
      BY <3>8, <3>9, <3>10, <3>11 DEF Opposite
  <2> QED
    BY <2>3, <2>4
<1> QED
  BY <1>1, InvHolds, PTL

----------------------------------------------------------------------------
(* Division.                                                                *)

\* A number and the number that its pattern stands for.
LEMMA ReadBack ==
    ASSUME NEW mod, NEW s \in Sizes, NEW x \in Int
    PROVE  /\ Number(mod, Narrow(x, s), s) \in Int
           /\ Same(Number(mod, Narrow(x, s), s), x, Whole(s))
<1>1. Narrow(x, s) \in Int /\ Same(Narrow(x, s), x, Whole(s))
  BY NarrowFact
<1>2. /\ Number(mod, Narrow(x, s), s) \in Int
      /\ Same(Number(mod, Narrow(x, s), s), Narrow(x, s), Whole(s))
  BY <1>1, NumberSame
<1> QED
  BY <1>1, <1>2, WidthFact, SameTrans

\* The remainder is a number of the size.
LEMMA RemainderFact ==
    ASSUME NEW mod \in Integral, NEW s \in Sizes, NEW p \in Patterns(s),
           NEW q \in Patterns(s), q # 0
    PROVE  LET x == Number(mod, p, s)
               y == Number(mod, q, s)
               r == x - y * Quotient(x, y)
           IN  /\ x \in Int /\ y \in Int /\ Quotient(x, y) \in Int /\ r \in Int
               /\ r \in Numbers(mod, s) /\ (x >= 0 => r >= 0) /\ (x < 0 => r <= 0)
<1> DEFINE x == Number(mod, p, s)
           y == Number(mod, q, s)
           c == Quotient(x, y)
           r == x - y * c
           h == Half(s)
           m == Whole(s)
<1>1. x \in Numbers(mod, s) /\ y \in Numbers(mod, s)
  BY NumberFact
<1>2. h \in Nat \ {0} /\ m = 2 * h
  BY WidthFact
<1>3. Numbers(mod, s) = IF mod = "SIGNED" THEN -h .. h - 1 ELSE 0 .. m - 1
  BY DEF Numbers
<1>4. x \in Int /\ y \in Int /\ y # 0
  <2>1. y # 0
    BY NonZero
  <2> HIDE DEF x, y, h, m
  <2> QED
    BY <1>1, <1>2, <1>3, <2>1
<1>5. /\ c \in Int /\ r \in Int
      /\ x >= 0 => r \in 0 .. (IF y < 0 THEN -y ELSE y) - 1
      /\ x < 0 => -r \in 0 .. (IF y < 0 THEN -y ELSE y) - 1
  <2> HIDE DEF x, y
  <2> QED
    BY <1>4, QuotientFact
<1>6. r \in Numbers(mod, s) /\ (x >= 0 => r >= 0) /\ (x < 0 => r <= 0)
  <2> HIDE DEF x, y, c, r, h, m
  <2> QED
    BY <1>1, <1>2, <1>3, <1>4, <1>5
<1> QED
  BY <1>4, <1>5, <1>6

\* For every width, DIV, REM, MUL and ADD of the same operands fit together,
\* and the remainder has the sign of the dividend.
THEOREM DivisionFits == Spec => []DivisionIdentity
<1>1. TypeInv => DivisionIdentity
  <2> SUFFICES ASSUME TypeInv,
                      NEW s \in Sizes, NEW mod \in Integral,
                      NEW p \in Operands(s), NEW q \in Operands(s), q # 0
               PROVE  LET d == Div(mod, s, p, q)
                          r == Rem(mod, s, p, q)
                      IN  /\ Add(mod, s, Mul(mod, s, d, q), r) = p
                          /\ r # 0 => (Number(mod, r, s) < 0) = (Number(mod, p, s) < 0)
    BY DEF DivisionIdentity
  <2> DEFINE x == Number(mod, p, s)
             y == Number(mod, q, s)
             c == Quotient(x, y)
             e == x - y * c
             m == Whole(s)
             d == Div(mod, s, p, q)
             r == Rem(mod, s, p, q)
             f == Mul(mod, s, d, q)
  <2>1. p \in Patterns(s) /\ q \in Patterns(s)
    BY OperandFact
  <2>2. /\ x \in Int /\ y \in Int /\ c \in Int /\ e \in Int
        /\ e \in Numbers(mod, s) /\ (x >= 0 => e >= 0) /\ (x < 0 => e <= 0)
    BY <2>1, RemainderFact
  <2>3. d = Narrow(c, s) /\ r = Narrow(e, s) /\ f = Narrow(Number(mod, d, s) * y, s)
    BY DEF Div, Rem, Mul
  <2>4. Add(mod, s, f, r) = Narrow(Number(mod, f, s) + Number(mod, r, s), s)
    BY DEF Add
  <2>5. p \in Int /\ Same(x, p, m) /\ m \in Nat /\ Narrow(p, s) = p
    BY <2>1, NumberFact, NumberSame, WidthFact, NarrowPattern
  <2> DEFINE nd == Number(mod, d, s)
             nf == Number(mod, f, s)
             nr == Number(mod, r, s)
  <2> HIDE DEF x, y, c, e, m
  <2>6. nd \in Int /\ Same(nd, c, m)
    BY <2>2, <2>3, ReadBack DEF m
  <2>7. nr \in Int /\ nr = e
    BY <2>2, <2>3, NumberNarrow
  <2> HIDE DEF d, nd
  <2>8. nf \in Int /\ Same(nf, nd * y, m)
    <3>1. nd * y \in Int
      BY <2>2, <2>6
    <3>2. f = Narrow(nd * y, s)
      BY <2>3 DEF nd
    <3> HIDE DEF f
    <3> QED
      BY <3>1, <3>2, ReadBack DEF m
  <2> HIDE DEF nf, nr, f, r
  <2>9. Same(nf + nr, p, m)
    <3>1. Same(nd * y, c * y, m)
      BY <2>2, <2>5, <2>6, SameRefl, SameSum
    <3>2. nd * y \in Int /\ c * y \in Int
      BY <2>2, <2>6
    <3>3. Same(nf, c * y, m)
      BY <2>5, <2>8, <3>1, <3>2, SameTrans
    <3>4. Same(nr, e, m)
      BY <2>2, <2>5, <2>7, SameRefl
    <3>5. Same(nf + nr, c * y + e, m)
      BY <2>2, <2>5, <2>7, <2>8, <3>2, <3>3, <3>4, SameSum
    <3>6. c * y + e = x
      BY <2>2 DEF e
    <3> QED
      BY <2>2, <2>5, <2>7, <2>8, <3>5, <3>6, SameTrans
  <2>10. Add(mod, s, f, r) = p
    <3>1. nf + nr \in Int
      BY <2>7, <2>8
    <3>2. Narrow(nf + nr, s) = Narrow(p, s)
      BY <2>5, <2>9, <3>1, NarrowSame DEF m
    <3> QED
      BY <2>4, <2>5, <3>2 DEF nf, nr
  <2>11. r # 0 => e # 0
    <3>1. 0 \in Patterns(s)
      BY WidthFact DEF Patterns, Whole
    <3> QED
      BY <2>3, <3>1, NarrowPattern
  <2>12. r # 0 => (nr < 0) = (x < 0)
    BY <2>2, <2>7, <2>11
  <2> QED
    BY <2>10, <2>12 DEF nr, x, r, f, d
<1> QED
  BY <1>1, InvHolds, PTL

----------------------------------------------------------------------------
(* Sizes.                                                                   *)

\* Greater sizes have more numbers.
LEMMA WiderFact ==
    ASSUME NEW s \in Sizes, NEW t \in Sizes, s < t
    PROVE  /\ Width[s] < Width[t] /\ Half(s) <= Half(t) /\ Whole(s) <= Whole(t)
           /\ PromotedWidth(s) <= PromotedWidth(t)
           /\ \A mod : Numbers(mod, s) \subseteq Numbers(mod, t)
<1>1. /\ Width[s] < Width[t] /\ Width[s] \in Nat /\ Width[t] \in Nat
      /\ Width[s] - 1 \in Nat /\ Width[t] - 1 \in Nat
  BY WidthFact, WidthAssumption
<1>2. Whole(s) <= Whole(t)
  BY <1>1, PowerGap DEF Whole
<1>3. Half(s) <= Half(t)
  <2>1. Width[s] - 1 <= Width[t] - 1
    BY <1>1
  <2> QED
    BY <1>1, <2>1, PowerGap DEF Half
<1>4. PromotedWidth(s) <= PromotedWidth(t)
  <2>1. /\ 4 \in Sizes /\ t \in Nat /\ s \in Nat /\ Width[4] \in Nat
        /\ 4 < t => Width[4] < Width[t]
    BY WidthAssumption DEF Sizes
  <2> QED
    BY <1>1, <2>1 DEF PromotedWidth, IntSize
<1>5. \A mod : Numbers(mod, s) \subseteq Numbers(mod, t)
  <2>1. Half(s) \in Nat /\ Half(t) \in Nat /\ Whole(s) \in Nat /\ Whole(t) \in Nat
    BY WidthFact
  <2>2. /\ -Half(s) .. Half(s) - 1 \subseteq -Half(t) .. Half(t) - 1
        /\ 0 .. Whole(s) - 1 \subseteq 0 .. Whole(t) - 1
    BY <1>2, <1>3, <2>1
  <2> QED
    BY <2>2 DEF Numbers
<1> QED
  BY <1>1, <1>2, <1>3, <1>4, <1>5

\* Cutting twice is cutting once.
LEMMA TruncateFact ==
    ASSUME NEW s \in Sizes, NEW t \in Sizes, s < t, NEW x \in Int
    PROVE  /\ Truncate(s, Narrow(x, t)) = Narrow(x, s)
           /\ Same(Narrow(x, t), x, Whole(s))
<1>1. Narrow(x, t) \in Int /\ Same(Narrow(x, t), x, Whole(t))
  BY NarrowFact
<1>2. Width[s] \in Nat /\ Width[t] \in Nat /\ Width[s] <= Width[t]
  BY WidthAssumption
<1>3. Same(Narrow(x, t), x, Whole(s))
  BY <1>1, <1>2, SameSmaller DEF Whole
<1> QED
  BY <1>1, <1>3, NarrowSame DEF Truncate

\* EXTEND keeps the number and the bits that were there.
LEMMA ExtendFact ==
    ASSUME NEW mod, NEW s \in Sizes, NEW t \in Sizes, s < t, NEW p \in Patterns(s)
    PROVE  /\ Extend(mod, s, t, p) \in Patterns(t)
           /\ Number(mod, Extend(mod, s, t, p), t) = Number(mod, p, s)
           /\ Same(Extend(mod, s, t, p), p, Whole(s))
<1> DEFINE x == Number(mod, p, s)
           P == Extend(mod, s, t, p)
<1>1. p \in Int /\ x \in Int /\ Same(x, p, Whole(s))
  BY NumberFact, NumberSame
<1>2. x \in Numbers(mod, t)
  BY NumberFact, WiderFact
<1>3. P = Narrow(x, t)
  BY DEF Extend
<1> HIDE DEF x, P
<1>4. P \in Patterns(t) /\ P \in Int /\ Same(P, x, Whole(s))
  BY <1>1, <1>3, NarrowFact, TruncateFact
<1>5. Number(mod, P, t) = x
  BY <1>2, <1>3, NumberNarrow
<1>6. Same(P, p, Whole(s))
  BY <1>1, <1>4, WidthFact, SameTrans
<1> QED
  BY <1>4, <1>5, <1>6 DEF P, x

\* The bits of a narrow size are the low ones of a wide size.
LEMMA TruncateBits ==
    ASSUME NEW s \in Sizes, NEW t \in Sizes, s < t, NEW b, NEW c,
           \A i \in 0 .. Width[s] - 1 : i \in b <=> i \in c
    PROVE  FromBits(b, s) = Truncate(s, FromBits(c, t))
<1> DEFINE v == Width[s]
           w == Width[t]
<1>1. v \in Nat /\ w \in Nat /\ v <= w
  BY WidthAssumption
<1>2. Below(b)[v] = Below(c)[v]
  <2>1. \A i \in Nat : i < v => (i \in b <=> i \in c)
    BY <1>1
  <2> HIDE DEF v
  <2> QED
    BY <1>1, <2>1, BelowAgree
<1>3. Same(Below(c)[w], Below(c)[v], Whole(s))
  BY <1>1, BelowSame DEF Whole
<1>4. Below(c)[w] \in Int /\ Below(c)[v] \in Int
  BY <1>1, BelowStep
<1>5. Narrow(Below(c)[w], s) = Narrow(Below(c)[v], s)
  BY <1>3, <1>4, NarrowSame
<1>6. Narrow(Below(b)[v], s) = Below(b)[v]
  BY FromBitsFact, NarrowPattern DEF FromBits
<1> QED
  BY <1>2, <1>5, <1>6 DEF FromBits, Truncate

\* A pattern and its extension have the same low bits.
LEMMA ExtendBits ==
    ASSUME NEW mod, NEW s \in Sizes, NEW t \in Sizes, s < t, NEW p \in Patterns(s)
    PROVE  \A i \in 0 .. Width[s] - 1 :
              i \in Bits(p, s) <=> i \in Bits(Extend(mod, s, t, p), t)
<1> DEFINE P == Extend(mod, s, t, p)
<1>1. p \in Int /\ P \in Int /\ Same(P, p, Whole(s))
  BY ExtendFact, NumberFact
<1>2. Width[s] \in Nat /\ Width[t] \in Nat /\ Width[s] < Width[t]
  BY WidthFact, WiderFact
<1> HIDE DEF P
<1>3. ASSUME NEW i \in 0 .. Width[s] - 1 PROVE i \in Bits(p, s) <=> i \in Bits(P, t)
  <2>1. i \in Nat /\ i < Width[s] /\ i \in 0 .. Width[t] - 1
    BY <1>2
  <2>2. Bit(P, i) <=> Bit(p, i)
    BY <1>1, <1>2, <2>1, SameBits DEF Whole
  <2> QED
    BY <2>1, <2>2 DEF Bits, Bit
<1> QED
  BY <1>3 DEF P

\* Whatever the extension, what an instruction computes of narrow operands is
\* what it computes of the extended ones and TRUNCATE leaves, for every width.
THEOREM NarrowFits == Spec => []NarrowAsWide
<1>1. TypeInv => NarrowAsWide
  <2> SUFFICES ASSUME TypeInv,
                      NEW s \in Sizes, NEW t \in Sizes, NEW mod \in Integral,
                      NEW p \in Operands(s), NEW q \in Operands(s), s < t
               PROVE  LET P == Extend(mod, s, t, p)
                          Q == Extend(mod, s, t, q)
                      IN  /\ Add(mod, s, p, q) = Truncate(s, Add(mod, t, P, Q))
                          /\ Sub(mod, s, p, q) = Truncate(s, Sub(mod, t, P, Q))
                          /\ Mul(mod, s, p, q) = Truncate(s, Mul(mod, t, P, Q))
                          /\ And(mod, s, p, q) = Truncate(s, And(mod, t, P, Q))
                          /\ Or(mod, s, p, q) = Truncate(s, Or(mod, t, P, Q))
                          /\ Xor(mod, s, p, q) = Truncate(s, Xor(mod, t, P, Q))
                          /\ q # 0 => /\ Div(mod, s, p, q) = Truncate(s, Div(mod, t, P, Q))
                                      /\ Rem(mod, s, p, q) = Truncate(s, Rem(mod, t, P, Q))
                          /\ q < PromotedWidth(s) /\ Number(mod, q, s) >= 0 =>
                                /\ Shl(mod, s, p, q) = Truncate(s, Shl(mod, t, P, Q))
                                /\ Shr(mod, s, p, q) = Truncate(s, Shr(mod, t, P, Q))
                          /\ Less(mod, s, p, q) = Less(mod, t, P, Q)
                          /\ Equal(mod, s, p, q) = Equal(mod, t, P, Q)
    BY DEF NarrowAsWide
  <2> DEFINE P == Extend(mod, s, t, p)
             Q == Extend(mod, s, t, q)
             x == Number(mod, p, s)
             y == Number(mod, q, s)
  <2>1. p \in Patterns(s) /\ q \in Patterns(s)
    BY OperandFact
  <2>2. p \in Int /\ q \in Int /\ x \in Int /\ y \in Int
    BY <2>1, NumberFact, NumberSame
  <2>3. /\ P \in Patterns(t) /\ Number(mod, P, t) = x /\ Same(P, p, Whole(s))
        /\ Q \in Patterns(t) /\ Number(mod, Q, t) = y
    BY <2>1, ExtendFact
  <2>4. /\ Add(mod, s, p, q) = Truncate(s, Add(mod, t, P, Q))
        /\ Sub(mod, s, p, q) = Truncate(s, Sub(mod, t, P, Q))
        /\ Mul(mod, s, p, q) = Truncate(s, Mul(mod, t, P, Q))
    <3>1. x + y \in Int /\ x - y \in Int /\ x * y \in Int
      <4> HIDE DEF x, y
      <4> QED
        BY <2>2
    <3> HIDE DEF P, Q
    <3> QED
      BY <2>3, <3>1, TruncateFact DEF Add, Sub, Mul
  <2>5. /\ And(mod, s, p, q) = Truncate(s, And(mod, t, P, Q))
        /\ Or(mod, s, p, q) = Truncate(s, Or(mod, t, P, Q))
        /\ Xor(mod, s, p, q) = Truncate(s, Xor(mod, t, P, Q))
    <3>1. \A i \in 0 .. Width[s] - 1 : /\ i \in Bits(p, s) <=> i \in Bits(P, t)
                                       /\ i \in Bits(q, s) <=> i \in Bits(Q, t)
      BY <2>1, ExtendBits
    <3> HIDE DEF P, Q
    <3> DEFINE a == Bits(p, s)
               b == Bits(q, s)
               A == Bits(P, t)
               B == Bits(Q, t)
    <3> HIDE DEF a, b, A, B
    <3>2. \A i \in 0 .. Width[s] - 1 : /\ i \in a \cap b <=> i \in A \cap B
                                       /\ i \in a \cup b <=> i \in A \cup B
                                       /\ i \in (a \cup b) \ (a \cap b)
                                             <=> i \in (A \cup B) \ (A \cap B)
      BY <3>1 DEF a, b, A, B
    <3>3. /\ FromBits(a \cap b, s) = Truncate(s, FromBits(A \cap B, t))
          /\ FromBits(a \cup b, s) = Truncate(s, FromBits(A \cup B, t))
          /\ FromBits((a \cup b) \ (a \cap b), s)
                = Truncate(s, FromBits((A \cup B) \ (A \cap B), t))
      BY <3>2, TruncateBits
    <3> QED
      BY <3>3 DEF And, Or, Xor, a, b, A, B
  <2>6. ASSUME q # 0
        PROVE  /\ Div(mod, s, p, q) = Truncate(s, Div(mod, t, P, Q))
               /\ Rem(mod, s, p, q) = Truncate(s, Rem(mod, t, P, Q))
    <3>1. Quotient(x, y) \in Int /\ x - y * Quotient(x, y) \in Int
      BY <2>1, <2>6, RemainderFact
    <3> HIDE DEF P, Q
    <3> QED
      BY <2>3, <3>1, TruncateFact DEF Div, Rem
  <2>7. ASSUME q < PromotedWidth(s), y >= 0
        PROVE  /\ Shl(mod, s, p, q) = Truncate(s, Shl(mod, t, P, Q))
               /\ Shr(mod, s, p, q) = Truncate(s, Shr(mod, t, P, Q))
    <3> DEFINE v == PromotedWidth(s)
               w == PromotedWidth(t)
    <3>1. /\ v \in Nat \ {0} /\ w \in Nat \ {0} /\ v <= w
          /\ Whole(s) \in Nat /\ Whole(t) \in Nat /\ Whole(s) <= Whole(t)
      BY WidthFact, WiderFact
    <3>2. y = q /\ q >= 0 /\ q < Whole(s)
      <4>0. q \in Patterns(s)
        BY <2>1
      <4>1. q >= 0 /\ q < Whole(s)
        BY <4>0, NumberFact
      <4>2. y = IF mod = "SIGNED" /\ q >= Half(s) THEN q - Whole(s) ELSE q
        BY <4>0, NumberFact
      <4> HIDE DEF y
      <4> QED
        BY <2>2, <2>7, <3>1, <4>1, <4>2
    <3>3. Q = q
      <4>1. q \in Patterns(t)
        BY <2>2, <3>1, <3>2 DEF Patterns, Whole
      <4> QED
        BY <3>2, <4>1, NarrowPattern DEF Extend
    <3>4. q % v = q /\ q % w = q
      <4> HIDE DEF v, w
      <4>1. q \in 0 .. v - 1 /\ q \in 0 .. w - 1
        BY <2>2, <2>7, <3>1, <3>2 DEF v
      <4> QED
        BY <3>1, <4>1, SmallMod
    <3> DEFINE g == Pow2[q]
    <3>5. g \in Nat \ {0}
      BY <2>2, <3>2, PowerFact
    <3>6. /\ Shl(mod, s, p, q) = Narrow(p * g, s)
          /\ Shl(mod, t, P, Q) = Narrow(P * g, t)
          /\ Shr(mod, s, p, q) = Narrow(x \div g, s)
          /\ Shr(mod, t, P, Q) = Narrow(x \div g, t)
      BY <2>3, <3>2, <3>3, <3>4 DEF Shl, Shr
    <3>7. P \in Int
      BY <2>3, NumberFact
    <3> HIDE DEF P, Q, g, x
    <3>8. p * g \in Int /\ P * g \in Int /\ x \div g \in Int
      BY <2>2, <3>5, <3>7, DivModFact
    <3>9. Same(P * g, p * g, Whole(s))
      <4>1. g \in Int /\ Same(g, g, Whole(s))
        BY <3>1, <3>5, SameRefl
      <4> QED
        BY <2>2, <2>3, <3>1, <3>7, <4>1, SameSum
    <3>10. Truncate(s, Narrow(P * g, t)) = Narrow(p * g, s)
      BY <3>8, <3>9, TruncateFact, NarrowSame
    <3> QED
      BY <3>6, <3>8, <3>10, TruncateFact
  <2>8. /\ Less(mod, s, p, q) = Less(mod, t, P, Q)
        /\ Equal(mod, s, p, q) = Equal(mod, t, P, Q)
    <3>1. mod \notin Floating
      BY DEF Integral, Floating
    <3> HIDE DEF P, Q
    <3> QED
      BY <2>3, <3>1 DEF Less, Equal, Unordered, Value
  <2> QED
    BY <2>4, <2>5, <2>6, <2>7, <2>8
<1> QED
  BY <1>1, InvHolds, PTL

----------------------------------------------------------------------------
(* The bit instructions.                                                    *)

\* The bits of a pattern make it up.
LEMMA BitsBack ==
    ASSUME NEW s \in Sizes, NEW p \in Patterns(s), NEW b,
           \A i \in 0 .. Width[s] - 1 : i \in b <=> Bit(p, i)
    PROVE  FromBits(b, s) = p
<1> DEFINE w == Width[s]
<1>1. p \in Int /\ w \in Nat
  BY NumberFact, WidthAssumption
<1>2. \A i \in Nat : i < w => (i \in b <=> i \in BitSet(p))
  BY <1>1 DEF BitSet
<1>3. Below(b)[w] = Below(BitSet(p))[w]
  <2> HIDE DEF w
  <2> QED
    BY <1>1, <1>2, BelowAgree
<1>4. Below(BitSet(p))[w] = Narrow(p, s)
  BY <1>1, NumberBelow DEF Narrow
<1> QED
  BY <1>3, <1>4, NarrowPattern DEF FromBits

\* A sum is the exclusive or plus the carries.
LEMMA AdderFact ==
    ASSUME NEW a, NEW b
    PROVE  \A n \in Nat : Below((a \cup b) \ (a \cap b))[n] + 2 * Below(a \cap b)[n]
                             = Below(a)[n] + Below(b)[n]
<1> DEFINE c == a \cap b
           d == (a \cup b) \ (a \cap b)
<1>1. \A i : /\ i \in c <=> (i \in a /\ i \in b)
             /\ i \in d <=> ((i \in a \/ i \in b) /\ ~(i \in a /\ i \in b))
  OBVIOUS
<1> HIDE DEF c, d
<1> DEFINE P == {n \in Nat : Below(d)[n] + 2 * Below(c)[n] = Below(a)[n] + Below(b)[n]}
<1>2. 0 \in P
  BY BelowStep
<1>3. ASSUME NEW n \in Nat, n \in P PROVE n + 1 \in P
  <2> DEFINE m == Pow2[n]
             va == Below(a)[n]
             vb == Below(b)[n]
             vc == Below(c)[n]
             vd == Below(d)[n]
  <2>1. m \in Int /\ va \in Int /\ vb \in Int /\ vc \in Int /\ vd \in Int
    BY PowerFact, BelowStep
  <2>2. vd + 2 * vc = va + vb
    BY <1>3
  <2>3. /\ Below(a)[n + 1] = va + (IF n \in a THEN m ELSE 0)
        /\ Below(b)[n + 1] = vb + (IF n \in b THEN m ELSE 0)
        /\ Below(c)[n + 1] = vc + (IF n \in c THEN m ELSE 0)
        /\ Below(d)[n + 1] = vd + (IF n \in d THEN m ELSE 0)
    BY BelowStep
  <2>4. /\ n \in c <=> (n \in a /\ n \in b)
        /\ n \in d <=> ((n \in a \/ n \in b) /\ ~(n \in a /\ n \in b))
    BY <1>1
  <2> HIDE DEF m, va, vb, vc, vd
  <2>5. vd + (IF n \in d THEN m ELSE 0) + 2 * (vc + (IF n \in c THEN m ELSE 0))
          = va + (IF n \in a THEN m ELSE 0) + (vb + (IF n \in b THEN m ELSE 0))
    <3>1. CASE n \in a /\ n \in b
      BY <2>1, <2>2, <2>4, <3>1
    <3>2. CASE n \in a /\ n \notin b
      BY <2>1, <2>2, <2>4, <3>2
    <3>3. CASE n \notin a /\ n \in b
      BY <2>1, <2>2, <2>4, <3>3
    <3>4. CASE n \notin a /\ n \notin b
      BY <2>1, <2>2, <2>4, <3>4
    <3> QED
      BY <3>1, <3>2, <3>3, <3>4
  <2> QED
    BY <2>3, <2>5
<1> HIDE DEF P
<1>4. \A n \in Nat : n \in P
  BY <1>2, <1>3, Induction
<1> QED
  BY <1>4 DEF P, c, d

\* So with patterns.
LEMMA XorAndFact ==
    ASSUME NEW mod, NEW s \in Sizes, NEW p \in Patterns(s), NEW q \in Patterns(s)
    PROVE  /\ Xor(mod, s, p, q) \in Int /\ And(mod, s, p, q) \in Int
           /\ Xor(mod, s, p, q) + 2 * And(mod, s, p, q) = p + q
<1> DEFINE a == Bits(p, s)
           b == Bits(q, s)
<1>1. \A i \in 0 .. Width[s] - 1 : /\ i \in a <=> Bit(p, i)
                                   /\ i \in b <=> Bit(q, i)
  BY DEF Bits, Bit
<1> HIDE DEF a, b
<1>2. FromBits(a, s) = p /\ FromBits(b, s) = q
  BY <1>1, BitsBack
<1>3. Width[s] \in Nat
  BY WidthAssumption
<1>4. FromBits((a \cup b) \ (a \cap b), s) + 2 * FromBits(a \cap b, s) = p + q
  BY <1>2, <1>3, AdderFact DEF FromBits
<1>5. Xor(mod, s, p, q) \in Int /\ And(mod, s, p, q) \in Int
  BY HandlerFact, NumberFact
<1> QED
  BY <1>4, <1>5 DEF Xor, And, a, b

\* The bits of a power of two less one are those below.
LEMMA OnesBits ==
    ASSUME NEW k \in Nat, NEW i \in Nat
    PROVE  Bit(Pow2[k] - 1, i) <=> i < k
<1> DEFINE g == Pow2[k]
           m == Pow2[i]
<1>1. g \in Nat \ {0} /\ m \in Nat \ {0}
  BY PowerFact
<1>2. CASE i < k
  <2> DEFINE h == Pow2[k - (i + 1)]
  <2>1. i + 1 \in Nat /\ i + 1 <= k
    BY <1>2
  <2>2. g = h * Pow2[i + 1] /\ h \in Nat
    BY <2>1, PowerGap, PowerFact
  <2>3. Pow2[i + 1] = 2 * m
    BY PowerFact
  <2> HIDE DEF g, h, m
  <2>4. /\ g - 1 = (2 * h - 1) * m + (m - 1)
        /\ g - 1 \in Int /\ 2 * h - 1 \in Int /\ m - 1 \in 0 .. m - 1
    BY <1>1, <2>2, <2>3
  <2>5. (g - 1) \div m = 2 * h - 1
    BY <1>1, <2>4, DivUnique
  <2>6. (2 * h - 1) % 2 = 1
    BY <2>2
  <2> QED
    BY <1>2, <2>5, <2>6 DEF Bit, g, m
<1>3. CASE i >= k
  <2>1. g <= m
    BY <1>3, PowerGap
  <2> HIDE DEF g, m
  <2>2. g - 1 = 0 * m + (g - 1) /\ g - 1 \in Int /\ g - 1 \in 0 .. m - 1 /\ 0 \in Int
    BY <1>1, <2>1
  <2>3. (g - 1) \div m = 0
    BY <1>1, <2>2, DivUnique
  <2>4. 0 % 2 # 1
    OBVIOUS
  <2> QED
    BY <1>3, <2>3, <2>4 DEF Bit, g, m
<1> QED
  BY <1>2, <1>3

\* Dividing by a power of two and multiplying with it drops the bits below.
LEMMA ShiftBits ==
    ASSUME NEW x \in Int, NEW k \in Nat, NEW i \in Nat
    PROVE  Bit((x \div Pow2[k]) * Pow2[k], i) <=> i >= k /\ Bit(x, i)
<1> DEFINE g == Pow2[k]
           m == Pow2[i]
           d == x \div g
           r == x % g
<1>1. g \in Nat \ {0} /\ m \in Nat \ {0}
  BY PowerFact
<1>2. d \in Int /\ r \in 0 .. g - 1 /\ x = d * g + r
  BY <1>1, DivModFact
<1>3. CASE i < k
  <2> DEFINE h == Pow2[k - (i + 1)]
  <2>1. i + 1 \in Nat /\ i + 1 <= k
    BY <1>3
  <2>2. g = h * Pow2[i + 1] /\ h \in Nat
    BY <2>1, PowerGap, PowerFact
  <2>3. Pow2[i + 1] = 2 * m
    BY PowerFact
  <2> HIDE DEF g, h, m, d, r
  <2> DEFINE e == d * h
  <2>4. e \in Int /\ d * g = (2 * e) * m
    BY <1>1, <1>2, <2>2, <2>3
  <2> HIDE DEF e
  <2>5. /\ d * g = (2 * e) * m + 0 /\ d * g \in Int /\ 2 * e \in Int /\ 0 \in 0 .. m - 1
    BY <1>1, <2>4
  <2>6. (d * g) \div m = 2 * e
    BY <1>1, <2>5, DivUnique
  <2>7. (2 * e) % 2 # 1
    BY <2>4
  <2> QED
    BY <1>3, <2>6, <2>7 DEF Bit, g, m, d
<1>4. CASE i >= k
  <2> DEFINE h == Pow2[i - k]
             q == d \div h
             c == d % h
  <2>1. h \in Nat \ {0} /\ m = h * g
    BY <1>4, PowerGap, PowerFact
  <2>2. q \in Int /\ c \in 0 .. h - 1 /\ d = q * h + c
    BY <1>2, <2>1, DivModFact
  <2> HIDE DEF g, m, d, r, h, q, c
  <2>3. c * g \in Int /\ 0 <= c * g /\ c * g <= m - g
    <3>1. (h - 1 - c) * g >= 0
      BY <1>1, <2>1, <2>2
    <3> QED
      BY <1>1, <2>1, <2>2, <3>1
  <2>4. d * g = q * m + c * g
    BY <1>1, <2>1, <2>2
  <2>5. c * g \in 0 .. m - 1 /\ c * g + r \in 0 .. m - 1 /\ x = q * m + (c * g + r)
        /\ d * g \in Int
    BY <1>1, <1>2, <2>1, <2>2, <2>3, <2>4
  <2>6. (d * g) \div m = q
    BY <1>1, <2>2, <2>4, <2>5, DivUnique
  <2>7. x \div m = q
    BY <1>1, <2>2, <2>5, DivUnique
  <2> QED
    BY <1>4, <2>6, <2>7 DEF Bit, g, m, d
<1> QED
  BY <1>3, <1>4

\* A quotient lies between the number and zero.
LEMMA QuotientRange ==
    ASSUME NEW x \in Int, NEW g \in Nat \ {0}
    PROVE  /\ x >= 0 => 0 <= x \div g /\ x \div g <= x
           /\ x < 0 => x <= x \div g /\ x \div g < 0
<1> DEFINE d == x \div g
           r == x % g
<1>1. d \in Int /\ r \in 0 .. g - 1 /\ x = d * g + r
  BY DivModFact
<1> HIDE DEF d, r
<1>2. d >= 0 => d * g >= d
  BY <1>1
<1>3. d < 0 => d * g <= -g
  <2>1. d < 0 => (-1 - d) * g >= 0
    BY <1>1
  <2> QED
    BY <1>1, <2>1
<1>4. d < 0 => d * g + g - 1 <= d
  <2>1. d < 0 => (-1 - d) * (g - 1) >= 0
    BY <1>1
  <2> QED
    BY <1>1, <2>1
<1> DEFINE e == d * g
<1>5. e \in Int
  BY <1>1
<1> HIDE DEF e
<1>6. /\ x = e + r /\ (d >= 0 => e >= d) /\ (d < 0 => e <= -g) /\ (d < 0 => e + g - 1 <= d)
  BY <1>1, <1>2, <1>3, <1>4 DEF e
<1>7. /\ x >= 0 => 0 <= d /\ d <= x
      /\ x < 0 => x <= d /\ d < 0
  BY <1>1, <1>5, <1>6
<1> QED
  BY <1>7 DEF d

\* A right shift divides, rounding down; with the bits it drops it makes up the
\* operand again.
LEMMA ShiftFact ==
    ASSUME NEW mod \in Integral, NEW s \in Sizes, NEW p \in Patterns(s),
           NEW k \in 0 .. Width[s] - 1, k < Half(s)
    PROVE  LET down == Shr(mod, s, p, k)
               rest == Number(mod, p, s) - Number(mod, down, s) * Pow2[k]
           IN  /\ rest \in 0 .. Pow2[k] - 1
               /\ Or(mod, s, Shl(mod, s, down, k), And(mod, s, p, Pow2[k] - 1)) = p
<1> DEFINE w == Width[s]
           h == Half(s)
           m == Whole(s)
           g == Pow2[k]
           x == Number(mod, p, s)
           d == x \div g
           down == Shr(mod, s, p, k)
<1>1. /\ w \in Nat /\ k \in Nat /\ k < w
      /\ h \in Nat \ {0} /\ m = 2 * h /\ m \in Nat /\ g \in Nat \ {0} /\ k \in Int
  BY WidthFact, PowerFact
<1>2. p \in Int /\ x \in Int /\ x \in Numbers(mod, s) /\ Same(x, p, m)
  BY NumberFact, NumberSame
<1>3. Numbers(mod, s) = IF mod = "SIGNED" THEN -h .. h - 1 ELSE 0 .. m - 1
  BY DEF Numbers
<1>4. d \in Int /\ d \in Numbers(mod, s)
  <2>1. /\ d \in Int
        /\ x >= 0 => 0 <= d /\ d <= x
        /\ x < 0 => x <= d /\ d < 0
    <3> HIDE DEF x, g
    <3> QED
      BY <1>1, <1>2, DivModFact, QuotientRange
  <2> HIDE DEF d, x, h, m
  <2> QED
    BY <1>1, <1>2, <1>3, <2>1
<1>5. k % PromotedWidth(s) = k
  <2>1. PromotedWidth(s) \in Nat /\ PromotedWidth(s) # 0 /\ k \in 0 .. PromotedWidth(s) - 1
    BY <1>1, WidthFact
  <2> QED
    BY <2>1, SmallMod
<1>6. Number(mod, k, s) = k
  <2>1. k \in Patterns(s)
    BY <1>1 DEF Patterns, Whole
  <2>2. Number(mod, k, s) = IF mod = "SIGNED" /\ k >= h THEN k - m ELSE k
    BY <2>1, NumberFact
  <2> QED
    BY <1>1, <2>2
<1>7. down = Narrow(d, s)
  BY <1>5, <1>6 DEF Shr
<1>8. down \in Patterns(s) /\ down \in Int /\ Number(mod, down, s) = d /\ Same(down, d, m)
  BY <1>4, <1>7, NarrowFact, NumberNarrow
<1>9. x - d * g \in 0 .. g - 1
  <2> DEFINE r == x % g
  <2>1. r \in 0 .. g - 1 /\ x = d * g + r
    <3> HIDE DEF x, g
    <3> QED
      BY <1>1, <1>2, DivModFact
  <2> HIDE DEF x, d, g, r
  <2> QED
    BY <1>1, <1>4, <2>1
<1> DEFINE L == Shl(mod, s, down, k)
           E == And(mod, s, p, g - 1)
           B == Bits(L, s) \cup Bits(E, s)
<1>10. L = Narrow(down * g, s)
  BY <1>5 DEF Shl
<1>11. L \in Int /\ Same(L, d * g, m) /\ d * g \in Int
  <2> HIDE DEF down, d, g, L, m
  <2>1. down * g \in Int /\ d * g \in Int /\ g \in Int
    BY <1>1, <1>4, <1>8
  <2>2. L \in Int /\ Same(L, down * g, m)
    BY <1>10, <2>1, NarrowFact DEF m
  <2>3. Same(g, g, m)
    BY <1>1, <2>1, SameRefl
  <2>4. Same(down * g, d * g, m)
    BY <1>1, <1>4, <1>8, <2>1, <2>3, SameSum
  <2> QED
    BY <1>1, <2>1, <2>2, <2>4, SameTrans
<1>12. ASSUME NEW i \in 0 .. w - 1 PROVE i \in B <=> Bit(p, i)
  <2>1. i \in Nat /\ i < w
    BY <1>1
  <2>2. Bit(L, i) <=> i >= k /\ Bit(p, i)
    <3>1. Bit(L, i) <=> Bit(d * g, i)
      <4> HIDE DEF L, d, g
      <4> QED
        BY <1>1, <1>11, <2>1, SameBits DEF m, Whole
    <3>2. Bit(d * g, i) <=> i >= k /\ Bit(x, i)
      BY <1>1, <1>2, <2>1, ShiftBits
    <3>3. Bit(x, i) <=> Bit(p, i)
      BY <1>1, <1>2, <2>1, SameBits DEF m, Whole
    <3> QED
      BY <3>1, <3>2, <3>3
  <2>3. Bit(E, i) <=> i < k /\ Bit(p, i)
    <3> DEFINE b == Bits(p, s) \cap Bits(g - 1, s)
    <3>1. E = Below(b)[w]
      BY DEF And, FromBits
    <3>2. Bit(E, i) <=> i \in b
      BY <1>1, <2>1, <3>1, BelowBits
    <3>3. i \in b <=> Bit(p, i) /\ Bit(g - 1, i)
      BY DEF Bits, Bit
    <3>4. Bit(g - 1, i) <=> i < k
      BY <1>1, <2>1, OnesBits
    <3> QED
      BY <3>2, <3>3, <3>4
  <2>4. i \in B <=> Bit(L, i) \/ Bit(E, i)
    BY DEF Bits, Bit
  <2> QED
    BY <1>1, <2>1, <2>2, <2>3, <2>4
<1>13. FromBits(B, s) = p
  <2> HIDE DEF B
  <2> QED
    BY <1>12, BitsBack
<1>14. Or(mod, s, L, E) = p
  BY <1>13 DEF Or
<1> HIDE DEF x, d, g, L, E
<1>15. Number(mod, down, s) = d
  BY <1>8
<1> QED
  BY <1>9, <1>14, <1>15 DEF x, g, L, E

\* A sum is the exclusive or plus the carries.
LEMMA SumFact ==
    ASSUME NEW mod \in Integral, NEW s \in Sizes, NEW p \in Patterns(s), NEW q \in Patterns(s)
    PROVE  Add(mod, s, p, q) =
              Add(mod, s, Xor(mod, s, p, q), Mul(mod, s, 2, And(mod, s, p, q)))
<1> DEFINE m == Whole(s)
           a == And(mod, s, p, q)
           x == Xor(mod, s, p, q)
           n2 == Number(mod, 2, s)
           na == Number(mod, a, s)
           nx == Number(mod, x, s)
           u == Mul(mod, s, 2, a)
           nu == Number(mod, u, s)
           np == Number(mod, p, s)
           nq == Number(mod, q, s)
<1>1. p \in Int /\ q \in Int /\ a \in Int /\ x \in Int /\ x + 2 * a = p + q /\ m \in Nat
  BY NumberFact, XorAndFact, WidthFact
<1>2. /\ n2 \in Int /\ Same(n2, 2, m) /\ na \in Int /\ Same(na, a, m)
      /\ nx \in Int /\ Same(nx, x, m) /\ np \in Int /\ Same(np, p, m)
      /\ nq \in Int /\ Same(nq, q, m)
  <2> HIDE DEF a, x
  <2>1. 2 \in Int
    OBVIOUS
  <2> QED
    BY <1>1, <2>1, NumberSame
<1>3. u = Narrow(n2 * na, s)
  BY DEF Mul
<1>4. /\ Add(mod, s, p, q) = Narrow(np + nq, s)
      /\ Add(mod, s, x, u) = Narrow(nx + nu, s)
  BY DEF Add
<1> HIDE DEF m, a, x, n2, na, nx, u, np, nq
<1>5. n2 * na \in Int /\ 2 * a \in Int
  BY <1>1, <1>2
<1>6. nu \in Int /\ Same(nu, n2 * na, m)
  BY <1>3, <1>5, ReadBack DEF m
<1> HIDE DEF nu
<1>7. Same(nu, 2 * a, m)
  <2>1. Same(n2 * na, 2 * a, m)
    BY <1>1, <1>2, SameSum
  <2> QED
    BY <1>1, <1>5, <1>6, <2>1, SameTrans
<1>8. Same(nx + nu, p + q, m)
  <2>1. Same(nx + nu, x + 2 * a, m)
    BY <1>1, <1>2, <1>5, <1>6, <1>7, SameSum
  <2> QED
    BY <1>1, <2>1
<1>9. Same(np + nq, p + q, m)
  BY <1>1, <1>2, SameSum
<1>10. Narrow(np + nq, s) = Narrow(nx + nu, s)
  <2>1. np + nq \in Int /\ nx + nu \in Int /\ p + q \in Int
    BY <1>1, <1>2, <1>6
  <2>2. Narrow(np + nq, s) = Narrow(p + q, s) /\ Narrow(nx + nu, s) = Narrow(p + q, s)
    BY <1>8, <1>9, <2>1, NarrowSame DEF m
  <2> QED
    BY <2>2
<1>11. Add(mod, s, p, q) = Add(mod, s, x, u)
  BY <1>4, <1>10
<1> QED
  BY <1>11 DEF x, u, a

\* XOR with all bits subtracts from -1.
LEMMA NotFact ==
    ASSUME NEW mod \in Integral, NEW s \in Sizes, NEW p \in Patterns(s)
    PROVE  Xor(mod, s, p, Whole(s) - 1) = Sub(mod, s, Sub(mod, s, 0, p), 1)
<1> DEFINE m == Whole(s)
           w == Width[s]
           n == Xor(mod, s, p, m - 1)
<1>1. p \in Int /\ m \in Nat \ {0} /\ w \in Nat /\ m - 1 \in Patterns(s)
  BY NumberFact, WidthFact DEF Patterns, Whole
<1>2. And(mod, s, p, m - 1) = p
  <2>1. \A i \in 0 .. w - 1 : Bit(m - 1, i)
    BY <1>1, OnesBits DEF Whole
  <2>2. \A i \in 0 .. w - 1 : i \in Bits(p, s) \cap Bits(m - 1, s) <=> Bit(p, i)
    BY <2>1 DEF Bits, Bit
  <2> HIDE DEF m
  <2> QED
    BY <2>2, BitsBack DEF And
<1>3. n \in Patterns(s) /\ n \in Int /\ n = m - 1 - p
  <2>1. n \in Int /\ n + 2 * p = p + (m - 1)
    BY <1>1, <1>2, XorAndFact
  <2>2. n \in Patterns(s)
    BY <1>1, HandlerFact
  <2> HIDE DEF n, m
  <2> QED
    BY <1>1, <2>1, <2>2
<1> DEFINE n0 == Number(mod, 0, s)
           n1 == Number(mod, 1, s)
           np == Number(mod, p, s)
           v == Sub(mod, s, 0, p)
           nv == Number(mod, v, s)
<1>4. /\ n0 \in Int /\ Same(n0, 0, m) /\ n1 \in Int /\ Same(n1, 1, m)
      /\ np \in Int /\ Same(np, p, m)
  <2>1. 0 \in Int /\ 1 \in Int
    OBVIOUS
  <2> QED
    BY <1>1, <2>1, NumberSame
<1>5. v = Narrow(n0 - np, s) /\ Sub(mod, s, v, 1) = Narrow(nv - n1, s)
  BY DEF Sub
<1> HIDE DEF m, n, n0, n1, np, v
<1>6. n0 - np \in Int /\ Same(n0 - np, 0 - p, m) /\ 0 - p \in Int
  BY <1>1, <1>4, SameSum
<1>7. nv \in Int /\ Same(nv, n0 - np, m)
  BY <1>5, <1>6, ReadBack DEF m
<1> HIDE DEF nv
<1>8. Same(nv, 0 - p, m)
  BY <1>1, <1>6, <1>7, SameTrans
<1>9. Same(nv - n1, (0 - p) - 1, m)
  BY <1>1, <1>4, <1>6, <1>7, <1>8, SameSum
<1>10. Same(n, (0 - p) - 1, m)
  <2>1. n = ((0 - p) - 1) + 1 * m
    BY <1>1, <1>3
  <2> QED
    BY <2>1 DEF Same
<1>11. Narrow(nv - n1, s) = Narrow(n, s)
  <2>1. nv - n1 \in Int /\ (0 - p) - 1 \in Int
    BY <1>1, <1>4, <1>7
  <2>2. /\ Narrow(nv - n1, s) = Narrow((0 - p) - 1, s)
        /\ Narrow(n, s) = Narrow((0 - p) - 1, s)
    BY <1>3, <1>9, <1>10, <2>1, NarrowSame DEF m
  <2> QED
    BY <2>2
<1>12. Narrow(n, s) = n
  BY <1>3, NarrowPattern
<1> QED
  BY <1>5, <1>11, <1>12 DEF n, v, m

\* The bit instructions agree with the numbers, for every width.
THEOREM BitsFit == Spec => []BitsAgreeWithNumbers
<1>1. TypeInv => BitsAgreeWithNumbers
  <2> SUFFICES ASSUME TypeInv,
                      NEW s \in Sizes, NEW mod \in Integral,
                      NEW p \in Operands(s), NEW q \in Operands(s)
               PROVE  LET ones == Pow2[Width[s]] - 1
                      IN  /\ \A k \in 0 .. Width[s] - 1 : k < Pow2[Width[s] - 1] =>
                                LET down == Shr(mod, s, p, k)
                                    rest == Number(mod, p, s) - Number(mod, down, s) * Pow2[k]
                                IN  /\ rest \in 0 .. Pow2[k] - 1
                                    /\ Or(mod, s, Shl(mod, s, down, k),
                                          And(mod, s, p, Pow2[k] - 1)) = p
                          /\ Add(mod, s, p, q) =
                                Add(mod, s, Xor(mod, s, p, q), Mul(mod, s, 2, And(mod, s, p, q)))
                          /\ Xor(mod, s, p, ones) = Sub(mod, s, Sub(mod, s, 0, p), 1)
    BY DEF BitsAgreeWithNumbers
  <2>1. p \in Patterns(s) /\ q \in Patterns(s)
    BY OperandFact
  <2>2. ASSUME NEW k \in 0 .. Width[s] - 1, k < Pow2[Width[s] - 1]
        PROVE  LET down == Shr(mod, s, p, k)
                   rest == Number(mod, p, s) - Number(mod, down, s) * Pow2[k]
               IN  /\ rest \in 0 .. Pow2[k] - 1
                   /\ Or(mod, s, Shl(mod, s, down, k), And(mod, s, p, Pow2[k] - 1)) = p
    <3>1. k < Half(s)
      BY <2>2 DEF Half
    <3> QED
      BY <2>1, <3>1, ShiftFact
  <2>3. Add(mod, s, p, q) =
           Add(mod, s, Xor(mod, s, p, q), Mul(mod, s, 2, And(mod, s, p, q)))
    BY <2>1, SumFact
  <2>4. Xor(mod, s, p, Pow2[Width[s]] - 1) = Sub(mod, s, Sub(mod, s, 0, p), 1)
    BY <2>1, NotFact DEF Whole
  <2> QED
    BY <2>2, <2>3, <2>4
<1> QED
  BY <1>1, InvHolds, PTL

==============================================================================
