---------------------------- MODULE NavigationProofs ----------------------------
(****************************************************************************)
(* Proofs that the construction of the navigation graph is right, for every *)
(* program, every largest cost and every order of calls: the nodes share    *)
(* the instructions of their blocks out and their edges lead where the      *)
(* program goes, and the averages, the costs within functions and those     *)
(* between functions are what their definitions in Navigation ask for.      *)
(*                                                                          *)
(* The definitions are recursive, so they get lemmas first: what Reachable  *)
(* and CheapestWalks contain and that nothing less will do.  CheapestWalks  *)
(* takes as many steps as there are nodes; that more make no difference     *)
(* follows from the number of different costs that walks can have           *)
(* (WalksAll).                                                              *)
(*                                                                          *)
(* Then an inductive invariant for each part of the construction:           *)
(*   GraphInv   the nodes are the parts of the blocks, in their order;      *)
(*   StackInv   the recursion visits no function twice, and each frame is   *)
(*              that of the callee that the frame below looks at;           *)
(*   AvgInv     what a call costs is final when all its callees are, and    *)
(*              the sums of functions hold what has been counted so far;    *)
(*   IntraInv   a table has the cheapest ways through the nodes that the    *)
(*              loop is done with, and none that is too cheap;              *)
(*   InterInv   a call that is done with leads as cheaply as can be to what *)
(*              its callees lead to, and no cost is too cheap.              *)
(****************************************************************************)
EXTENDS Navigation, FiniteSetTheorems, SequenceTheorems, WellFoundedInduction, TLAPS

----------------------------------------------------------------------------
(* Stacks.                                                                  *)

\* A stack loses its last element when it is popped.
LEMMA PopFact ==
    ASSUME NEW S, NEW s \in Seq(S), s # <<>>
    PROVE  /\ Len(s) \in Nat \ {0} /\ Last(s) = s[Len(s)] /\ Last(s) \in S
           /\ Front(s) \in Seq(S) /\ Len(Front(s)) = Len(s) - 1
           /\ \A i \in 1 .. Len(s) - 1 : Front(s)[i] = s[i]
<1>1. Len(s) \in Nat \ {0}
  BY EmptySeq
<1>2. \A i \in 1 .. Len(s) : s[i] \in S
  BY ElementOfSeq
<1>3. \A i \in 1 .. Len(s) - 1 : s[i] \in S
  BY <1>1, <1>2
<1>4. /\ SubSeq(s, 1, Len(s) - 1) \in Seq(S)
      /\ Len(SubSeq(s, 1, Len(s) - 1)) =
            IF 1 <= Len(s) - 1 THEN Len(s) - 1 - 1 + 1 ELSE 0
      /\ \A i \in 1 .. Len(s) - 1 - 1 + 1 : SubSeq(s, 1, Len(s) - 1)[i] = s[1 + i - 1]
  BY <1>1, <1>3, SubSeqProperties
<1>5. \A i \in 1 .. Len(s) - 1 : SubSeq(s, 1, Len(s) - 1)[i] = s[i]
  BY <1>1, <1>4
<1>6. Len(SubSeq(s, 1, Len(s) - 1)) = Len(s) - 1
  <2>1. \A n \in Nat : \A k : k = (IF 1 <= n - 1 THEN n - 1 - 1 + 1 ELSE 0) /\ n # 0 => k = n - 1
    OBVIOUS
  <2> QED
    BY ONLY <1>1, <1>4, <2>1, Zenon
<1>7. Last(s) = s[Len(s)] /\ Front(s) = SubSeq(s, 1, Len(s) - 1)
  BY DEF Last, Front
<1>8. s[Len(s)] \in S
  BY <1>1, <1>2
<1> QED
  BY <1>1, <1>4, <1>5, <1>6, <1>7, <1>8

\* An element pushed on a stack joins its elements.
LEMMA PushFact ==
    ASSUME NEW S, NEW s \in Seq(S), NEW e \in S
    PROVE  /\ Append(s, e) \in Seq(S) /\ Len(Append(s, e)) = Len(s) + 1
           /\ DOMAIN Append(s, e) = DOMAIN s \cup {Len(s) + 1}
           /\ \A i \in DOMAIN s : Append(s, e)[i] = s[i]
           /\ Append(s, e)[Len(s) + 1] = e
           /\ Len(s) + 1 \notin DOMAIN s
<1>1. /\ Append(s, e) \in Seq(S) /\ Len(Append(s, e)) = Len(s) + 1
      /\ \A i \in 1 .. Len(s) : Append(s, e)[i] = s[i]
      /\ Append(s, e)[Len(s) + 1] = e
  BY AppendProperties
<1>2. /\ Len(s) \in Nat /\ DOMAIN s = 1 .. Len(s)
      /\ DOMAIN Append(s, e) = 1 .. Len(Append(s, e))
  BY <1>1, LenProperties
<1> QED
  BY ONLY <1>1, <1>2

----------------------------------------------------------------------------
(* Induction and recursion.                                                 *)

\* A set of numbers has a least one.
LEMMA LeastNumber ==
    ASSUME NEW T \in SUBSET Nat, T # {}
    PROVE  \E x \in T : \A y \in T : x <= y
<1> DEFINE R == OpToRel(<, Nat)
<1>1. PICK x \in T : \A y \in T : ~(<<y, x>> \in R)
  <2>1. IsWellFoundedOn(R, Nat)
    BY NatLessThanWellFounded
  <2> HIDE DEF R
  <2> QED
    BY <2>1, WFMin
<1>2. ASSUME NEW y \in T, y < x PROVE FALSE
  <2>1. <<y, x>> \in Nat \X Nat /\ <<y, x>>[1] = y /\ <<y, x>>[2] = x
    OBVIOUS
  <2>2. <<y, x>> \in R
    BY <1>2, <2>1 DEF OpToRel
  <2> QED
    BY <1>1, <2>2
<1> QED
  BY <1>2

\* Induction over a set.
LEMMA Induction ==
    ASSUME NEW P, 0 \in P, \A n \in Nat : n \in P => n + 1 \in P
    PROVE  \A n \in Nat : n \in P
<1>1. SUFFICES ASSUME NEW n \in Nat, n \notin P PROVE FALSE
  OBVIOUS
<1>2. PICK m \in Nat \ P : \A k \in Nat \ P : m <= k
  <2>1. Nat \ P \in SUBSET Nat /\ Nat \ P # {}
    BY <1>1
  <2> QED
    BY <2>1, LeastNumber
<1>3. m # 0 /\ m - 1 \in Nat
  BY <1>2
<1>4. m - 1 \in P
  BY <1>2, <1>3
<1>5. (m - 1) + 1 \in P
  BY <1>3, <1>4
<1> QED
  BY <1>2, <1>5

\* f starts with b and goes on by the functions g[1] to g[n].
Follows(f, b, n, g) ==
    /\ f = [i \in 0 .. n |-> f[i]]
    /\ f[0] = b /\ \A i \in 1 .. n : f[i] = g[i][f[i - 1]]

\* A first value and a function for each number define a sequence of values.
LEMMA Recursion ==
    ASSUME NEW b, NEW n \in Nat, NEW g
    PROVE  \E f : Follows(f, b, n, g)
<1> DEFINE P == {k \in Nat : \E f : Follows(f, b, k, g)}
<1>1. 0 \in P
  <2>1. Follows([i \in 0 .. 0 |-> b], b, 0, g)
    BY DEF Follows
  <2> QED
    BY <2>1
<1>2. ASSUME NEW k \in Nat, k \in P PROVE k + 1 \in P
  <2>1. PICK f : Follows(f, b, k, g)
    BY <1>2
  <2> DEFINE h == [i \in 0 .. k + 1 |-> IF i = k + 1 THEN g[k + 1][f[k]] ELSE f[i]]
  <2>2. h = [i \in 0 .. k + 1 |-> h[i]] /\ h[0] = b
    BY <2>1 DEF Follows
  <2>3. ASSUME NEW i \in 1 .. k + 1 PROVE h[i] = g[i][h[i - 1]]
    <3>1. CASE i = k + 1
      BY <3>1
    <3>2. CASE i # k + 1
      <4>1. i \in 1 .. k /\ i - 1 \in 0 .. k + 1 /\ i - 1 # k + 1
        BY <3>2
      <4>2. h[i] = f[i] /\ h[i - 1] = f[i - 1]
        BY <4>1
      <4> QED
        BY <2>1, <4>1, <4>2 DEF Follows
    <3> QED
      BY <3>1, <3>2
  <2> HIDE DEF h
  <2>4. Follows(h, b, k + 1, g)
    BY <2>2, <2>3 DEF Follows
  <2> QED
    BY <2>4
<1>3. n \in P
  <2> HIDE DEF P
  <2> QED
    BY <1>1, <1>2, Induction
<1> QED
  BY <1>3

----------------------------------------------------------------------------
(* Sums.                                                                    *)

\* f holds the sums of the first i items of s, for each i up to n.
Parts(f, s, n) ==
    /\ n \in Nat /\ f = [i \in 0 .. n |-> f[i]]
    /\ \A i \in 0 .. n : f[i] \in Int
    /\ \A i \in 1 .. n : s[i] \in Int
    /\ f[0] = 0 /\ \A i \in 1 .. n : f[i] = f[i - 1] + s[i]

\* x is the sum of the first n items of s.
IsSum(x, s, n) == \E f : Parts(f, s, n) /\ x = f[n]

\* There are such sums.
LEMMA PartsExist ==
    ASSUME NEW s, NEW n \in Nat, \A i \in 1 .. n : s[i] \in Int
    PROVE  \E f : Parts(f, s, n)
<1> DEFINE g == [i \in 1 .. n |-> [a \in Int |-> a + s[i]]]
<1>1. \A i \in 1 .. n : \A a \in Int : g[i][a] = a + s[i]
  OBVIOUS
<1> HIDE DEF g
<1>2. PICK f : Follows(f, 0, n, g)
  BY Recursion
<1>3. f = [i \in 0 .. n |-> f[i]] /\ f[0] = 0 /\ \A i \in 1 .. n : f[i] = g[i][f[i - 1]]
  BY <1>2 DEF Follows
<1> DEFINE P == {k \in Nat : k <= n => f[k] \in Int}
<1>4. 0 \in P
  BY <1>3
<1>5. ASSUME NEW k \in Nat, k \in P PROVE k + 1 \in P
  <2>1. SUFFICES ASSUME k + 1 <= n PROVE f[k + 1] \in Int
    OBVIOUS
  <2>2. k + 1 \in 1 .. n /\ f[k] \in Int /\ (k + 1) - 1 = k
    BY <1>5, <2>1
  <2> HIDE DEF P
  <2>3. f[k + 1] = g[k + 1][f[k]]
    BY <1>3, <2>2
  <2>4. g[k + 1][f[k]] = f[k] + s[k + 1]
    BY <1>1, <2>2
  <2>5. s[k + 1] \in Int
    BY <2>2
  <2> QED
    BY <2>2, <2>3, <2>4, <2>5
<1>6. \A k \in Nat : k \in P
  <2> HIDE DEF P
  <2> QED
    BY <1>4, <1>5, Induction
<1>7. \A i \in 0 .. n : f[i] \in Int
  BY <1>6
<1> HIDE DEF P
<1>8. ASSUME NEW i \in 1 .. n PROVE f[i] = f[i - 1] + s[i]
  <2>1. i - 1 \in 0 .. n
    OBVIOUS
  <2>2. f[i - 1] \in Int
    BY <1>7, <2>1
  <2> QED
    BY <1>1, <1>3, <2>2
<1> QED
  BY <1>3, <1>7, <1>8 DEF Parts

\* s and t hold the same n items after the first p and q.
SameItems(s, t, p, q, n) == \A i \in 1 .. n : s[p + i] = t[q + i]

\* The same items at different places have the same sum.
LEMMA AgreeingParts ==
    ASSUME NEW s, NEW t, NEW f, NEW h, NEW l, NEW m, Parts(f, s, l), Parts(h, t, m),
           NEW p \in Nat, NEW q \in Nat, NEW n \in Nat,
           p + n <= l, q + n <= m, SameItems(s, t, p, q, n)
    PROVE  f[p + n] - f[p] = h[q + n] - h[q]
<1> DEFINE P == {k \in Nat : k <= n => f[p + k] - f[p] = h[q + k] - h[q]}
<1>0. /\ l \in Nat /\ m \in Nat
      /\ \A i \in 0 .. l : f[i] \in Int
      /\ \A i \in 0 .. m : h[i] \in Int
  BY DEF Parts
<1>1. 0 \in P
  <2>1. p \in 0 .. l /\ q \in 0 .. m /\ p + 0 = p /\ q + 0 = q
    BY <1>0
  <2>2. f[p] - f[p] = h[q] - h[q]
    BY <1>0, <2>1
  <2> QED
    BY <2>1, <2>2
<1>2. ASSUME NEW k \in Nat, k \in P PROVE k + 1 \in P
  <2>1. SUFFICES ASSUME k + 1 <= n PROVE f[p + (k + 1)] - f[p] = h[q + (k + 1)] - h[q]
    OBVIOUS
  <2>5. f[p + k] - f[p] = h[q + k] - h[q]
    BY <1>2, <2>1
  <2> HIDE DEF P
  <2>2. /\ p + (k + 1) \in 1 .. l /\ (p + (k + 1)) - 1 = p + k
        /\ q + (k + 1) \in 1 .. m /\ (q + (k + 1)) - 1 = q + k
        /\ k + 1 \in 1 .. n /\ p \in 0 .. l /\ q \in 0 .. m
        /\ p + k \in 0 .. l /\ q + k \in 0 .. m
    BY <1>0, <2>1
  <2>3. /\ f[p + (k + 1)] = f[p + k] + s[p + (k + 1)]
        /\ h[q + (k + 1)] = h[q + k] + t[q + (k + 1)]
    BY <2>2 DEF Parts
  <2>4. s[p + (k + 1)] = t[q + (k + 1)] /\ s[p + (k + 1)] \in Int
    BY <2>2 DEF Parts, SameItems
  <2>6. f[p + k] \in Int /\ f[p] \in Int /\ h[q + k] \in Int /\ h[q] \in Int
    BY <1>0, <2>2
  <2> QED
    BY ONLY <2>3, <2>4, <2>5, <2>6
<1>3. n \in P
  <2> HIDE DEF P
  <2> QED
    BY <1>1, <1>2, Induction
<1> QED
  BY <1>3

\* The types of sums.
LEMMA SumType ==
    ASSUME NEW x, NEW s, NEW n, IsSum(x, s, n)
    PROVE  /\ x \in Int
           /\ n = 0 => x = 0
           /\ (\A i \in 1 .. n : s[i] >= 0) => x \in Nat
<1>1. PICK f : Parts(f, s, n) /\ x = f[n]
  BY DEF IsSum
<1>2. n \in Nat /\ f[n] \in Int /\ (n = 0 => f[n] = 0)
  BY <1>1 DEF Parts
<1>3. ASSUME \A i \in 1 .. n : s[i] >= 0 PROVE f[n] \in Nat
  <2> DEFINE P == {k \in Nat : k <= n => f[k] \in Nat}
  <2>1. 0 \in P
    BY <1>1 DEF Parts
  <2>2. ASSUME NEW k \in Nat, k \in P PROVE k + 1 \in P
    <3>1. SUFFICES ASSUME k + 1 <= n PROVE f[k + 1] \in Nat
      OBVIOUS
    <3>2. k + 1 \in 1 .. n /\ f[k] \in Nat /\ (k + 1) - 1 = k
      BY <1>2, <2>2, <3>1
    <3> HIDE DEF P
    <3>3. f[k + 1] = f[k] + s[k + 1] /\ s[k + 1] \in Int /\ s[k + 1] >= 0
      BY <1>1, <1>3, <3>2 DEF Parts
    <3> QED
      BY <3>2, <3>3
  <2>3. n \in P
    <3> HIDE DEF P
    <3> QED
      BY <1>2, <2>1, <2>2, Induction
  <2> QED
    BY <1>2, <2>3
<1> QED
  BY <1>1, <1>2, <1>3

\* One more item.
LEMMA SumPush ==
    ASSUME NEW x, NEW y, NEW s, NEW t, NEW n \in Nat, NEW m, m = n + 1,
           IsSum(x, s, n), IsSum(y, t, m), SameItems(s, t, 0, 0, n)
    PROVE  y = x + t[m]
<1>1. PICK f : Parts(f, s, n) /\ x = f[n]
  BY DEF IsSum
<1>2. PICK h : Parts(h, t, n + 1) /\ y = h[n + 1]
  BY DEF IsSum
<1>3. f[0 + n] - f[0] = h[0 + n] - h[0]
  BY <1>1, <1>2, AgreeingParts
<1>4. /\ f[0] = 0 /\ h[0] = 0 /\ f[n] \in Int /\ h[n] \in Int
      /\ h[n + 1] = h[n] + t[n + 1] /\ t[n + 1] \in Int
  <2>1. n + 1 \in 1 .. n + 1 /\ (n + 1) - 1 = n /\ n \in 0 .. n + 1 /\ n \in 0 .. n
    OBVIOUS
  <2> QED
    BY <1>1, <1>2, <2>1 DEF Parts
<1> QED
  BY <1>1, <1>2, <1>3, <1>4
----------------------------------------------------------------------------
(* Finite sets in order.                                                    *)

\* The number of numbers in an interval.
LEMMA IntervalFact ==
    ASSUME NEW a \in Int, NEW b \in Int, a <= b + 1
    PROVE  IsFiniteSet(a .. b) /\ Cardinality(a .. b) = b - a + 1
<1>1. IsFiniteSet(a .. b) /\ Cardinality(a .. b) = IF a > b THEN 0 ELSE b - a + 1
  BY FS_Interval
<1> QED
  BY <1>1

\* The first n numbers are n.
LEMMA FirstNumbers ==
    ASSUME NEW n \in Nat
    PROVE  IsFiniteSet(1 .. n) /\ Cardinality(1 .. n) = n
<1>1. 1 \in Int /\ n \in Int /\ 1 <= n + 1 /\ n - 1 + 1 = n
  OBVIOUS
<1> QED
  BY <1>1, IntervalFact

\* What a function makes of a finite set is finite.
LEMMA ImageFinite ==
    ASSUME NEW S, IsFiniteSet(S), NEW F
    PROVE  IsFiniteSet({F[x] : x \in S})
<1> DEFINE T == {F[x] : x \in S}
           G == [x \in S |-> F[x]]
<1>1. G \in [S -> T] /\ \A t \in T : \E x \in S : G[x] = t
  OBVIOUS
<1>2. G \in Surjection(S, T)
  BY <1>1, Zenon DEF Surjection
<1> HIDE DEF G, T
<1>3. IsFiniteSet(T)
  BY <1>2, FS_Surjection
<1> QED
  BY <1>3 DEF T

\* before[x] are the elements of S before x, in a strict total order.
Ordered(S, before) ==
    /\ IsFiniteSet(S) /\ before \in [S -> SUBSET S]
    /\ \A x \in S : x \notin before[x]
    /\ \A x, y \in S : x \in before[y] => before[x] \subseteq before[y]
    /\ \A x, y \in S : x = y \/ x \in before[y] \/ y \in before[x]

\* The number of elements before one tells its place.
LEMMA RankFact ==
    ASSUME NEW S, NEW before, Ordered(S, before)
    PROVE  /\ \A x \in S : Cardinality(before[x]) \in 0 .. Cardinality(S) - 1
           /\ \A x, y \in S : x \in before[y] <=> Cardinality(before[x]) < Cardinality(before[y])
           /\ Cardinality(S) \in Nat
<1>1. Cardinality(S) \in Nat
  BY FS_CardinalityType DEF Ordered
<1>2. ASSUME NEW x \in S
      PROVE  /\ IsFiniteSet(before[x]) /\ Cardinality(before[x]) \in Nat
             /\ Cardinality(before[x]) < Cardinality(S)
  <2>1. before[x] \in SUBSET S /\ before[x] # S /\ IsFiniteSet(S)
    BY DEF Ordered
  <2>2. /\ IsFiniteSet(before[x]) /\ Cardinality(before[x]) <= Cardinality(S)
        /\ Cardinality(before[x]) # Cardinality(S)
    BY <2>1, FS_Subset
  <2> QED
    BY <1>1, <2>2, FS_CardinalityType
<1>3. ASSUME NEW x \in S, NEW y \in S, x \in before[y]
      PROVE  Cardinality(before[x]) < Cardinality(before[y])
  <2>1. before[x] \in SUBSET before[y] /\ before[x] # before[y]
    BY <1>3 DEF Ordered
  <2>2. /\ Cardinality(before[x]) <= Cardinality(before[y])
        /\ Cardinality(before[x]) # Cardinality(before[y])
    BY <1>2, <2>1, FS_Subset
  <2> QED
    BY <1>2, <2>2
<1>4. ASSUME NEW x \in S, NEW y \in S, Cardinality(before[x]) < Cardinality(before[y])
      PROVE  x \in before[y]
  <2>1. x = y \/ x \in before[y] \/ y \in before[x]
    BY DEF Ordered
  <2>2. Cardinality(before[x]) \in Nat /\ Cardinality(before[y]) \in Nat
    BY <1>2
  <2> QED
    BY <1>3, <1>4, <2>1, <2>2
<1>5. \A x \in S : Cardinality(before[x]) \in 0 .. Cardinality(S) - 1
  BY <1>1, <1>2
<1> QED
  BY <1>1, <1>3, <1>4, <1>5

\* There is an element at each place.
LEMMA PlaceFact ==
    ASSUME NEW S, NEW before, Ordered(S, before), NEW k \in 1 .. Cardinality(S)
    PROVE  \E x \in S : Cardinality(before[x]) = k - 1
<1> DEFINE n == Cardinality(S)
           rank == [x \in S |-> Cardinality(before[x])]
<1>1. /\ \A x \in S : Cardinality(before[x]) \in 0 .. n - 1
      /\ \A x, y \in S : x \in before[y] <=> Cardinality(before[x]) < Cardinality(before[y])
      /\ n \in Nat
  BY RankFact
<1>2. /\ rank \in [S -> 0 .. n - 1]
      /\ \A x \in S : rank[x] = Cardinality(before[x])
  BY <1>1
<1> HIDE DEF rank
<1>3. \A x, y \in S : rank[x] = rank[y] => x = y
  BY <1>1, <1>2 DEF Ordered
<1>4. rank \in Injection(S, 0 .. n - 1)
  BY <1>2, <1>3, Zenon DEF Injection, IsInjective
<1>5. IsFiniteSet(0 .. n - 1) /\ Cardinality(0 .. n - 1) = n
  <2>1. 0 \in Int /\ n - 1 \in Int /\ 0 <= (n - 1) + 1 /\ (n - 1) - 0 + 1 = n
    BY <1>1
  <2> HIDE DEF n
  <2> QED
    BY <2>1, IntervalFact
<1>6. rank \in Surjection(S, 0 .. n - 1)
  BY <1>4, <1>5, FS_Injection
<1>7. \A i \in 0 .. n - 1 : \E x \in S : rank[x] = i
  BY <1>6, Zenon DEF Surjection
<1>8. k - 1 \in 0 .. n - 1
  BY <1>1
<1> QED
  BY <1>2, <1>7, <1>8

\* at lists the elements of S in their order.
Lists(at, S, before) ==
    /\ at \in [1 .. Cardinality(S) -> S]
    /\ \A k, l \in 1 .. Cardinality(S) : k < l <=> at[k] \in before[at[l]]
    /\ \A x \in S : \E k \in 1 .. Cardinality(S) : at[k] = x
    /\ Cardinality(S) \in Nat

\* The elements of the places are listed in their order.
LEMMA ListFact ==
    ASSUME NEW S, NEW before, Ordered(S, before), NEW at \in [1 .. Cardinality(S) -> S],
           \A k \in 1 .. Cardinality(S) : Cardinality(before[at[k]]) = k - 1
    PROVE  Lists(at, S, before)
<1> DEFINE n == Cardinality(S)
<1>1. /\ \A x \in S : Cardinality(before[x]) \in 0 .. n - 1
      /\ \A x, y \in S : x \in before[y] <=> Cardinality(before[x]) < Cardinality(before[y])
      /\ n \in Nat
  BY RankFact
<1>2. ASSUME NEW x \in S PROVE \E k \in 1 .. n : at[k] = x
  <2> DEFINE k == Cardinality(before[x]) + 1
  <2>1. k \in 1 .. n /\ k - 1 = Cardinality(before[x])
    BY <1>1
  <2> HIDE DEF k
  <2>2. at[k] \in S /\ Cardinality(before[at[k]]) = Cardinality(before[x])
    BY <2>1
  <2>3. at[k] = x
    BY <1>1, <2>2 DEF Ordered
  <2> QED
    BY <2>1, <2>3
<1>3. ASSUME NEW k \in 1 .. n, NEW l \in 1 .. n
      PROVE  k < l <=> at[k] \in before[at[l]]
  <2>1. /\ at[k] \in S /\ at[l] \in S
        /\ Cardinality(before[at[k]]) = k - 1 /\ Cardinality(before[at[l]]) = l - 1
    OBVIOUS
  <2>2. at[k] \in before[at[l]] <=> k - 1 < l - 1
    BY <1>1, <2>1
  <2> QED
    BY <2>2
<1> QED
  BY <1>1, <1>2, <1>3 DEF Lists

\* The first numbers up to any of them.
LEMMA InitialSegment ==
    ASSUME NEW n \in Nat, NEW T \in SUBSET (1 .. n), \A k \in T : \A j \in 1 .. k : j \in T
    PROVE  T = 1 .. Cardinality(T) /\ Cardinality(T) \in 0 .. n
<1> DEFINE C == {k \in Nat : k + 1 \notin T}
<1>1. n \in C
  OBVIOUS
<1>2. PICK m \in C : \A k \in C : m <= k
  <2>1. C \in SUBSET Nat /\ C # {}
    BY <1>1
  <2> HIDE DEF C
  <2> QED
    BY <2>1, LeastNumber
<1>3. m \in Nat /\ m + 1 \notin T /\ m <= n
  BY <1>1, <1>2
<1>4. ASSUME NEW j \in 1 .. m PROVE j \in T
  <2>1. j - 1 \in Nat /\ ~(m <= j - 1) /\ (j - 1) + 1 = j
    BY <1>3
  <2>2. j - 1 \notin C
    BY <1>2, <2>1
  <2> QED
    BY <2>1, <2>2
<1>5. ASSUME NEW k \in T PROVE k \in 1 .. m
  <2>1. k \in 1 .. n
    OBVIOUS
  <2>2. CASE k > m
    <3>1. m + 1 \in 1 .. k
      BY <1>3, <2>1, <2>2
    <3> QED
      BY <1>3, <3>1
  <2> QED
    BY <1>3, <2>1, <2>2
<1>6. T = 1 .. m
  BY <1>4, <1>5
<1>7. Cardinality(1 .. m) = m
  <2>1. 1 \in Int /\ m \in Int /\ 1 <= m + 1 /\ m - 1 + 1 = m
    BY <1>3
  <2> QED
    BY <2>1, IntervalFact
<1> QED
  BY <1>3, <1>6, <1>7

\* A set of numbers in their order.
LEMMA SortedFact ==
    ASSUME NEW S \in SUBSET Nat, IsFiniteSet(S)
    PROVE  /\ Sorted(S) \in [1 .. Cardinality(S) -> S] /\ Cardinality(S) \in Nat
           /\ \A k, l \in 1 .. Cardinality(S) : k # l => Sorted(S)[k] # Sorted(S)[l]
           /\ \A x \in S : \E k \in 1 .. Cardinality(S) : Sorted(S)[k] = x
<1> DEFINE before == [x \in S |-> {y \in S : y < x}]
           at == Sorted(S)
<1>1. /\ before \in [S -> SUBSET S] /\ \A x, y \in S : y \in before[x] <=> y < x
      /\ \A x \in S : before[x] = {y \in S : y < x}
  OBVIOUS
<1>2. Ordered(S, before)
  <2> HIDE DEF before
  <2>1. \A x \in S : x \in Nat
    OBVIOUS
  <2>2. \A x \in S : x \notin before[x]
    BY <1>1, <2>1
  <2>3. ASSUME NEW x \in S, NEW y \in S, x \in before[y], NEW z \in before[x]
        PROVE  z \in before[y]
    <3>1. z \in S /\ z < x /\ x < y
      BY <1>1, <2>3
    <3> QED
      BY <1>1, <2>1, <3>1
  <2>4. \A x, y \in S : x = y \/ x \in before[y] \/ y \in before[x]
    BY <1>1, <2>1
  <2> QED
    BY <1>1, <2>2, <2>3, <2>4 DEF Ordered
<1> HIDE DEF before
<1>3. ASSUME NEW k \in 1 .. Cardinality(S)
      PROVE  at[k] \in S /\ Cardinality(before[at[k]]) = k - 1
  <2>1. \E x \in S : Cardinality({m \in S : m < x}) = k - 1
    <3>1. PICK x \in S : Cardinality(before[x]) = k - 1
      BY <1>2, PlaceFact
    <3> QED
      BY <1>1, <3>1
  <2>2. at[k] = CHOOSE x \in S : Cardinality({m \in S : m < x}) = k - 1
    BY DEF Sorted
  <2>3. at[k] \in S /\ Cardinality({m \in S : m < at[k]}) = k - 1
    BY <2>1, <2>2, Zenon
  <2> QED
    BY <1>1, <2>3
<1>4. Lists(at, S, before)
  <2>1. at \in [1 .. Cardinality(S) -> S]
    BY <1>3 DEF Sorted
  <2> HIDE DEF at
  <2> QED
    BY <1>2, <1>3, <2>1, ListFact
<1> HIDE DEF at
<1>5. ASSUME NEW k \in 1 .. Cardinality(S), NEW l \in 1 .. Cardinality(S), k # l
      PROVE  at[k] # at[l]
  <2>1. k < l \/ l < k
    BY <1>4, <1>5 DEF Lists
  <2>2. at[k] \in S /\ at[l] \in S
    BY <1>4 DEF Lists
  <2> QED
    BY <1>2, <1>4, <2>1, <2>2 DEF Lists, Ordered
<1> QED
  BY <1>4, <1>5 DEF Lists, at

----------------------------------------------------------------------------
(* Programs and the nodes of their graphs.                                  *)

\* The parts of a program.
LEMMA ProgramFact ==
    ASSUME NEW p \in Programs
    PROVE  /\ Len(p) \in Nat /\ DOMAIN p = 1 .. Len(p)
           /\ \A f \in DOMAIN p :
                 /\ Len(p[f].blocks) \in Nat \ {0} /\ DOMAIN p[f].blocks = 1 .. Len(p[f].blocks)
                 /\ Len(p[f].params) \in Nat /\ DOMAIN p[f].params = 1 .. Len(p[f].params)
                 /\ \A b \in DOMAIN p[f].blocks :
                       LET code == CodeOf(p, f, b)
                           next == p[f].blocks[b].next IN
                       /\ code \in Seq(Instruction)
                       /\ Len(code) \in Nat /\ DOMAIN code = 1 .. Len(code)
                       /\ \A i \in DOMAIN code :
                             code[i] \in Instruction /\ code[i].callee \in 0 .. Len(p)
                       /\ Len(next) \in Nat /\ DOMAIN next = 1 .. Len(next)
                       /\ \A k \in DOMAIN next : next[k] \in DOMAIN p[f].blocks
                       /\ 2 * Len(code) <= Infinity
<1> DEFINE Block == [code : Seq(Instruction), next : Seq(Nat)]
           Function == [params : Seq(Nat), blocks : Seq(Block)]
<1>1. p \in Seq(Function)
  BY ProgramAssumption
<1>2. Len(p) \in Nat /\ DOMAIN p = 1 .. Len(p) /\ \A f \in DOMAIN p : p[f] \in Function
  <2> HIDE DEF Function
  <2> QED
    BY <1>1, LenProperties, ElementOfSeq
<1>3. ASSUME NEW f \in DOMAIN p
      PROVE  /\ p[f].blocks \in Seq(Block) /\ p[f].params \in Seq(Nat)
             /\ Len(p[f].blocks) \in Nat \ {0} /\ DOMAIN p[f].blocks = 1 .. Len(p[f].blocks)
             /\ Len(p[f].params) \in Nat /\ DOMAIN p[f].params = 1 .. Len(p[f].params)
  <2>1. p[f].blocks \in Seq(Block) /\ p[f].params \in Seq(Nat)
    BY <1>2
  <2>2. p[f].blocks # <<>>
    BY ProgramAssumption
  <2> HIDE DEF Block, Function
  <2> QED
    BY <2>1, <2>2, LenProperties, EmptySeq
<1>4. ASSUME NEW f \in DOMAIN p, NEW b \in DOMAIN p[f].blocks
      PROVE  LET code == CodeOf(p, f, b)
                 next == p[f].blocks[b].next IN
             /\ code \in Seq(Instruction)
             /\ Len(code) \in Nat /\ DOMAIN code = 1 .. Len(code)
             /\ \A i \in DOMAIN code :
                   code[i] \in Instruction /\ code[i].callee \in 0 .. Len(p)
             /\ Len(next) \in Nat /\ DOMAIN next = 1 .. Len(next)
             /\ \A k \in DOMAIN next : next[k] \in DOMAIN p[f].blocks
             /\ 2 * Len(code) <= Infinity
  <2> DEFINE code == CodeOf(p, f, b)
             next == p[f].blocks[b].next
  <2>1. p[f].blocks[b] \in Block
    <3> HIDE DEF Block
    <3> QED
      BY <1>3, ElementOfSeq
  <2>2. code \in Seq(Instruction) /\ next \in Seq(Nat)
    BY <2>1 DEF CodeOf
  <2>3. /\ Len(code) \in Nat /\ DOMAIN code = 1 .. Len(code)
        /\ \A i \in DOMAIN code : code[i] \in Instruction
        /\ Len(next) \in Nat /\ DOMAIN next = 1 .. Len(next)
    <3> HIDE DEF code, next
    <3> QED
      BY <2>2, LenProperties, ElementOfSeq
  <2>4. /\ \A i \in DOMAIN code : code[i].callee <= Len(p)
        /\ \A k \in DOMAIN next : next[k] \in DOMAIN p[f].blocks
    BY ProgramAssumption
  <2>5. 2 * Len(code) <= Infinity
    BY CodeAssumption
  <2>6. \A i \in DOMAIN code : code[i].callee \in Nat
    <3> HIDE DEF code
    <3> QED
      BY <2>3 DEF Instruction
  <2> HIDE DEF code, next, Block, Function
  <2>7. \A i \in DOMAIN code : code[i].callee \in 0 .. Len(p)
    BY <1>2, <2>4, <2>6
  <2>8. /\ code \in Seq(Instruction)
        /\ Len(code) \in Nat /\ DOMAIN code = 1 .. Len(code)
        /\ \A i \in DOMAIN code :
              code[i] \in Instruction /\ code[i].callee \in 0 .. Len(p)
        /\ Len(next) \in Nat /\ DOMAIN next = 1 .. Len(next)
        /\ \A k \in DOMAIN next : next[k] \in DOMAIN p[f].blocks
        /\ 2 * Len(code) <= Infinity
    BY <2>2, <2>3, <2>4, <2>5, <2>7
  <2> QED
    BY <2>8 DEF code, next
<1> HIDE DEF Block, Function
<1> QED
  BY <1>2, <1>3, <1>4

\* The instructions at which nodes end.
LEMMA EndsFact ==
    ASSUME NEW p \in Programs
    PROVE  /\ IsFiniteSet(NodeEnds(p))
           /\ \A e \in NodeEnds(p) :
                 /\ e = <<e[1], e[2], e[3]>>
                 /\ e[1] \in DOMAIN p /\ e[2] \in DOMAIN p[e[1]].blocks
                 /\ e[3] \in DOMAIN CodeOf(p, e[1], e[2])
                 /\ EndsNode(CodeOf(p, e[1], e[2])[e[3]])
                 /\ e[1] \in Nat /\ e[2] \in Nat /\ e[3] \in Nat
           /\ \A f \in DOMAIN p : \A b \in DOMAIN p[f].blocks :
                 \A k \in DOMAIN CodeOf(p, f, b) :
                    EndsNode(CodeOf(p, f, b)[k]) => <<f, b, k>> \in NodeEnds(p)
<1> DEFINE Ks(f, b) == {k \in DOMAIN CodeOf(p, f, b) : EndsNode(CodeOf(p, f, b)[k])}
           Of(f, b) == {<<f, b, k>> : k \in Ks(f, b)}
           In(f) == UNION {Of(f, b) : b \in DOMAIN p[f].blocks}
<1>1. NodeEnds(p) = UNION {In(f) : f \in DOMAIN p}
  BY DEF NodeEnds
<1>2. ASSUME NEW f \in DOMAIN p, NEW b \in DOMAIN p[f].blocks
      PROVE  IsFiniteSet(Of(f, b))
  <2> DEFINE n == Len(CodeOf(p, f, b))
             F == [k \in Ks(f, b) |-> <<f, b, k>>]
  <2>1. n \in Nat /\ DOMAIN CodeOf(p, f, b) = 1 .. n
    BY ProgramFact
  <2>2. IsFiniteSet(1 .. n)
    BY <2>1, FirstNumbers
  <2>3. Ks(f, b) \in SUBSET (1 .. n)
    BY <2>1
  <2>4. IsFiniteSet(Ks(f, b))
    <3> HIDE DEF Ks, n
    <3> QED
      BY <2>2, <2>3, FS_Subset
  <2>5. IsFiniteSet({F[k] : k \in Ks(f, b)})
    <3> HIDE DEF F, Ks
    <3> QED
      BY <2>4, ImageFinite
  <2>6. {F[k] : k \in Ks(f, b)} = Of(f, b)
    <3> HIDE DEF Ks
    <3> QED
      OBVIOUS
  <2> QED
    BY <2>5, <2>6
<1>3. ASSUME NEW f \in DOMAIN p
      PROVE  IsFiniteSet(In(f))
  <2> DEFINE n == Len(p[f].blocks)
             F == [b \in 1 .. n |-> Of(f, b)]
  <2>1. n \in Nat /\ DOMAIN p[f].blocks = 1 .. n
    BY ProgramFact
  <2>2. IsFiniteSet(1 .. n)
    BY <2>1, FirstNumbers
  <2>3. IsFiniteSet({F[b] : b \in 1 .. n})
    <3> HIDE DEF F, n
    <3> QED
      BY <2>2, ImageFinite
  <2>4. {F[b] : b \in 1 .. n} = {Of(f, b) : b \in DOMAIN p[f].blocks}
    <3> HIDE DEF Of, n
    <3> QED
      BY <2>1
  <2>5. \A T \in {Of(f, b) : b \in DOMAIN p[f].blocks} : IsFiniteSet(T)
    <3> HIDE DEF Of
    <3> QED
      BY <1>2
  <2> HIDE DEF Of, F
  <2> QED
    BY <2>3, <2>4, <2>5, FS_UNION
<1>4. IsFiniteSet(NodeEnds(p))
  <2> DEFINE n == Len(p)
             F == [f \in 1 .. n |-> In(f)]
  <2>1. n \in Nat /\ DOMAIN p = 1 .. n
    BY ProgramFact
  <2>2. IsFiniteSet(1 .. n)
    BY <2>1, FirstNumbers
  <2>3. IsFiniteSet({F[f] : f \in 1 .. n})
    <3> HIDE DEF F, n
    <3> QED
      BY <2>2, ImageFinite
  <2>4. {F[f] : f \in 1 .. n} = {In(f) : f \in DOMAIN p}
    <3> HIDE DEF In, n
    <3> QED
      BY <2>1
  <2>5. \A T \in {In(f) : f \in DOMAIN p} : IsFiniteSet(T)
    <3> HIDE DEF In
    <3> QED
      BY <1>3
  <2> HIDE DEF In, F
  <2> QED
    BY <1>1, <2>3, <2>4, <2>5, FS_UNION
<1>5. ASSUME NEW e \in NodeEnds(p)
      PROVE  /\ e = <<e[1], e[2], e[3]>>
             /\ e[1] \in DOMAIN p /\ e[2] \in DOMAIN p[e[1]].blocks
             /\ e[3] \in DOMAIN CodeOf(p, e[1], e[2])
             /\ EndsNode(CodeOf(p, e[1], e[2])[e[3]])
             /\ e[1] \in Nat /\ e[2] \in Nat /\ e[3] \in Nat
  <2>1. PICK f \in DOMAIN p : e \in In(f)
    BY <1>1
  <2>2. PICK b \in DOMAIN p[f].blocks : e \in Of(f, b)
    BY <2>1
  <2>3. PICK k \in DOMAIN CodeOf(p, f, b) : EndsNode(CodeOf(p, f, b)[k]) /\ e = <<f, b, k>>
    BY <2>2
  <2>4. f \in Nat /\ b \in Nat /\ k \in Nat
    BY ProgramFact
  <2> HIDE DEF In, Of, Ks
  <2> QED
    BY <2>3, <2>4
<1>6. ASSUME NEW f \in DOMAIN p, NEW b \in DOMAIN p[f].blocks,
             NEW k \in DOMAIN CodeOf(p, f, b), EndsNode(CodeOf(p, f, b)[k])
      PROVE  <<f, b, k>> \in NodeEnds(p)
  <2>1. <<f, b, k>> \in Of(f, b)
    BY <1>6
  <2> HIDE DEF Of
  <2>2. <<f, b, k>> \in In(f)
    BY <2>1
  <2> HIDE DEF In
  <2> QED
    BY <1>1, <2>2
<1> HIDE DEF In, Of, Ks
<1> QED
  BY <1>4, <1>5, <1>6

\* The instructions at which nodes end, in the order of the program.
LEMMA EndsOrdered ==
    ASSUME NEW p \in Programs
    PROVE  Ordered(NodeEnds(p), [e \in NodeEnds(p) |-> {d \in NodeEnds(p) : Earlier(d, e)}])
<1> DEFINE S == NodeEnds(p)
           before == [e \in S |-> {d \in S : Earlier(d, e)}]
<1>1. /\ IsFiniteSet(S)
      /\ \A e \in S : e = <<e[1], e[2], e[3]>> /\ e[1] \in Nat /\ e[2] \in Nat /\ e[3] \in Nat
  BY EndsFact
<1>2. /\ before \in [S -> SUBSET S] /\ \A d, e \in S : d \in before[e] <=> Earlier(d, e)
  OBVIOUS
<1> HIDE DEF before, S
<1>3. \A e \in S : e \notin before[e]
  BY <1>1, <1>2 DEF Earlier
<1>4. ASSUME NEW d \in S, NEW e \in S, d \in before[e], NEW c \in before[d]
      PROVE  c \in before[e]
  <2>1. c \in S /\ Earlier(c, d) /\ Earlier(d, e)
    BY <1>2, <1>4
  <2>2. Earlier(c, e)
    BY <1>1, <2>1 DEF Earlier
  <2> QED
    BY <1>2, <2>1, <2>2
<1>5. ASSUME NEW d \in S, NEW e \in S, d # e PROVE d \in before[e] \/ e \in before[d]
  <2>1. d[1] # e[1] \/ d[2] # e[2] \/ d[3] # e[3]
    BY <1>1, <1>5
  <2>2. Earlier(d, e) \/ Earlier(e, d)
    BY <1>1, <2>1 DEF Earlier
  <2> QED
    BY <1>2, <2>2
<1>6. Ordered(S, before)
  BY <1>1, <1>2, <1>3, <1>4, <1>5 DEF Ordered
<1> QED
  BY <1>6 DEF before, S

Ahead(d, e) ==
    \/ d.function < e.function
    \/ d.function = e.function /\ d.block < e.block
    \/ d.function = e.function /\ d.block = e.block /\ d.instr < e.instr

\* nodes are the parts of the blocks of p, in the order of the program.
Numbered(p, nodes) ==
    /\ Cardinality(NodeEnds(p)) \in Nat
    /\ DOMAIN nodes = 1 .. Cardinality(NodeEnds(p))
    /\ \A n \in DOMAIN nodes :
          LET node == nodes[n] IN
          /\ node.function \in DOMAIN p /\ node.block \in DOMAIN p[node.function].blocks
          /\ node.instr \in DOMAIN CodeOf(p, node.function, node.block)
          /\ node.op = CodeOf(p, node.function, node.block)[node.instr].op
          /\ node.op \in {"CALL", "RET", "JUMP", "BRANCH"}
          /\ node.function \in Nat \ {0} /\ node.block \in Nat \ {0} /\ node.instr \in Nat \ {0}
    /\ \A k, l \in DOMAIN nodes : k < l <=> Ahead(nodes[k], nodes[l])
    /\ \A f \in DOMAIN p : \A b \in DOMAIN p[f].blocks : \A i \in DOMAIN CodeOf(p, f, b) :
          EndsNode(CodeOf(p, f, b)[i]) =>
              \E n \in DOMAIN nodes :
                  nodes[n].function = f /\ nodes[n].block = b /\ nodes[n].instr = i

\* AllNodes are such nodes.
LEMMA NodesFact ==
    ASSUME NEW p \in Programs
    PROVE  Numbered(p, AllNodes(p))
<1> DEFINE S == NodeEnds(p)
           before == [e \in S |-> {d \in S : Earlier(d, e)}]
           m == Cardinality(S)
           place(e, n) == e \in S /\ Cardinality({d \in S : Earlier(d, e)}) = n - 1
           at == [n \in 1 .. m |-> CHOOSE e \in S : Cardinality({d \in S : Earlier(d, e)}) = n - 1]
           nodes == AllNodes(p)
<1>1. Ordered(S, before)
  BY EndsOrdered
<1>2. /\ \A e \in S : before[e] = {d \in S : Earlier(d, e)}
      /\ \A d, e \in S : d \in before[e] <=> Earlier(d, e)
  OBVIOUS
<1>3. ASSUME NEW n \in 1 .. m PROVE at[n] \in S /\ Cardinality(before[at[n]]) = n - 1
  <2>1. \E e \in S : Cardinality({d \in S : Earlier(d, e)}) = n - 1
    <3> HIDE DEF before, S
    <3>1. PICK e \in S : Cardinality(before[e]) = n - 1
      BY <1>1, PlaceFact
    <3> QED
      BY <1>2, <3>1
  <2>2. at[n] = CHOOSE e \in S : Cardinality({d \in S : Earlier(d, e)}) = n - 1
    OBVIOUS
  <2> HIDE DEF at, S, before
  <2>3. at[n] \in S /\ Cardinality({d \in S : Earlier(d, at[n])}) = n - 1
    BY <2>1, <2>2, Zenon
  <2> QED
    BY <1>2, <2>3
<1>4. /\ nodes = [n \in 1 .. m |-> nodes[n]]
      /\ \A n \in 1 .. m : nodes[n] = [function |-> at[n][1], block |-> at[n][2],
             instr |-> at[n][3], op |-> CodeOf(p, at[n][1], at[n][2])[at[n][3]].op]
  BY DEF AllNodes
<1>5. Lists(at, S, before)
  <2>1. at \in [1 .. m -> S]
    BY <1>3
  <2> HIDE DEF at, before, S
  <2> QED
    BY <1>1, <1>3, <2>1, ListFact
<1>6. /\ \A e \in S :
            /\ e = <<e[1], e[2], e[3]>>
            /\ e[1] \in DOMAIN p /\ e[2] \in DOMAIN p[e[1]].blocks
            /\ e[3] \in DOMAIN CodeOf(p, e[1], e[2])
            /\ EndsNode(CodeOf(p, e[1], e[2])[e[3]])
      /\ \A f \in DOMAIN p : \A b \in DOMAIN p[f].blocks : \A k \in DOMAIN CodeOf(p, f, b) :
            EndsNode(CodeOf(p, f, b)[k]) => <<f, b, k>> \in S
  BY EndsFact
<1> HIDE DEF at, before, nodes, S
<1>7. /\ m \in Nat /\ \A n \in 1 .. m : at[n] \in S
      /\ \A k, l \in 1 .. m : k < l <=> at[k] \in before[at[l]]
      /\ \A e \in S : \E n \in 1 .. m : at[n] = e
  BY <1>5 DEF Lists
<1>8. ASSUME NEW n \in 1 .. m
      PROVE  LET node == nodes[n] IN
             /\ node.function \in DOMAIN p /\ node.block \in DOMAIN p[node.function].blocks
             /\ node.instr \in DOMAIN CodeOf(p, node.function, node.block)
             /\ node.op = CodeOf(p, node.function, node.block)[node.instr].op
             /\ node.op \in {"CALL", "RET", "JUMP", "BRANCH"}
             /\ node.function \in Nat \ {0} /\ node.block \in Nat \ {0} /\ node.instr \in Nat \ {0}
  <2> DEFINE e == at[n]
  <2>1. e \in S /\ EndsNode(CodeOf(p, e[1], e[2])[e[3]])
    BY <1>6, <1>7
  <2>2. CodeOf(p, e[1], e[2])[e[3]].op \in {"CALL", "RET", "JUMP", "BRANCH"}
    BY <2>1 DEF EndsNode
  <2>3. e[1] \in DOMAIN p /\ e[2] \in DOMAIN p[e[1]].blocks /\ e[3] \in DOMAIN CodeOf(p, e[1], e[2])
    BY <1>6, <2>1
  <2>4. e[1] \in Nat \ {0} /\ e[2] \in Nat \ {0} /\ e[3] \in Nat \ {0}
    <3>1. ASSUME NEW f \in DOMAIN p, NEW b \in DOMAIN p[f].blocks, NEW i \in DOMAIN CodeOf(p, f, b)
          PROVE  f \in Nat \ {0} /\ b \in Nat \ {0} /\ i \in Nat \ {0}
      BY ProgramFact
    <3> QED
      BY <2>3, <3>1
  <2> QED
    BY <1>4, <2>2, <2>3, <2>4
<1>9. ASSUME NEW k \in 1 .. m, NEW l \in 1 .. m PROVE k < l <=> Ahead(nodes[k], nodes[l])
  <2>1. k < l <=> Earlier(at[k], at[l])
    BY <1>2, <1>7
  <2> QED
    BY <1>4, <2>1 DEF Earlier, Ahead
<1>10. ASSUME NEW f \in DOMAIN p, NEW b \in DOMAIN p[f].blocks, NEW i \in DOMAIN CodeOf(p, f, b),
              EndsNode(CodeOf(p, f, b)[i])
       PROVE  \E n \in 1 .. m :
                  nodes[n].function = f /\ nodes[n].block = b /\ nodes[n].instr = i
  <2>1. PICK n \in 1 .. m : at[n] = <<f, b, i>>
    BY <1>6, <1>7, <1>10
  <2> QED
    BY <1>4, <2>1
<1>11. DOMAIN nodes = 1 .. m
  BY <1>4
<1>12. m = Cardinality(NodeEnds(p))
  BY DEF S
<1> HIDE DEF m
<1>13. Numbered(p, nodes)
  BY ONLY <1>7, <1>8, <1>9, <1>10, <1>11, <1>12, SMTT(30) DEF Numbered
<1> QED
  BY <1>13 DEF nodes

\* The place of a block: the nodes before it are those of what is before it.
LEMMA StartFact ==
    ASSUME NEW p \in Programs, NEW nodes, Numbered(p, nodes),
           NEW f \in DOMAIN p, NEW b \in 1 .. Len(p[f].blocks) + 1
    PROVE  /\ BlockStarts(p, nodes, f)[b] \in 1 .. Cardinality(NodeEnds(p)) + 1
           /\ \A n \in DOMAIN nodes : n < BlockStarts(p, nodes, f)[b] <=>
                  \/ nodes[n].function < f
                  \/ nodes[n].function = f /\ nodes[n].block < b
<1> DEFINE m == Cardinality(NodeEnds(p))
           Before(n) == \/ nodes[n].function < f
                        \/ nodes[n].function = f /\ nodes[n].block < b
           T == {n \in DOMAIN nodes : Before(n)}
<1>1. m \in Nat /\ DOMAIN nodes = 1 .. m
  BY DEF Numbered
<1>2. f \in Nat /\ b \in Nat
  BY ProgramFact
<1>3. \A n \in DOMAIN nodes : nodes[n].function \in Nat /\ nodes[n].block \in Nat
  BY DEF Numbered
<1>4. ASSUME NEW k \in T, NEW j \in 1 .. k PROVE j \in T
  <2>1. CASE j = k
    BY <2>1
  <2>2. CASE j # k
    <3>1. j \in DOMAIN nodes /\ k \in DOMAIN nodes /\ j < k
      BY <1>1, <2>2
    <3>2. Ahead(nodes[j], nodes[k])
      BY <3>1 DEF Numbered
    <3>3. Before(k)
      OBVIOUS
    <3>4. /\ nodes[j].function \in Nat /\ nodes[j].block \in Nat
          /\ nodes[k].function \in Nat /\ nodes[k].block \in Nat
      BY <1>3, <3>1
    <3>5. Before(j)
      BY ONLY <1>2, <3>2, <3>3, <3>4 DEF Ahead
    <3> QED
      BY <3>1, <3>5
  <2> QED
    BY <2>1, <2>2
<1>5. T \in SUBSET (1 .. m)
  BY <1>1
<1>6. \A n \in DOMAIN nodes : n \in T <=> Before(n)
  OBVIOUS
<1>7. BlockStarts(p, nodes, f)[b] = 1 + Cardinality(T)
  BY DEF BlockStarts
<1> HIDE DEF T, m, Before
<1>8. T = 1 .. Cardinality(T) /\ Cardinality(T) \in 0 .. m
  BY <1>1, <1>4, <1>5, InitialSegment
<1>9. \A n \in DOMAIN nodes : n < 1 + Cardinality(T) <=> Before(n)
  BY <1>1, <1>6, <1>8
<1>10. 1 + Cardinality(T) \in 1 .. m + 1
  BY <1>1, <1>8
<1> QED
  BY <1>7, <1>9, <1>10 DEF m, Before

\* The nodes and the lookups of g are those of p.
GraphOf(p, g) ==
    /\ Numbered(p, g.nodes)
    /\ g.lookups = Lookups(p, g.nodes)

\* A function has the nodes from its entry on, a block those from its place on.
LEMMA LayoutFact ==
    ASSUME NEW p \in Programs, NEW g, GraphOf(p, g), NEW f \in DOMAIN p
    PROVE  /\ Entry(g, f) \in Nat \ {0} /\ End(g, f) \in Nat \ {0} /\ Entry(g, f) <= End(g, f)
           /\ \A n \in Nat : n \in NodesIn(g, f) <=> n \in DOMAIN g.nodes /\ g.nodes[n].function = f
           /\ NodesIn(g, f) \in SUBSET Nat
           /\ \A b \in DOMAIN p[f].blocks :
                 /\ g.lookups[f].bbs[b] \in Nat \ {0} /\ g.lookups[f].bbs[b + 1] \in Nat \ {0}
                 /\ \A n \in Nat :
                       n \in g.lookups[f].bbs[b] .. g.lookups[f].bbs[b + 1] - 1 <=>
                       n \in DOMAIN g.nodes /\ g.nodes[n].function = f /\ g.nodes[n].block = b
           /\ FirstBlocksHaveNodes(p) => Entry(g, f) \in NodesIn(g, f)
<1> DEFINE nodes == g.nodes
           m == Cardinality(NodeEnds(p))
           B == Len(p[f].blocks)
           bbs == BlockStarts(p, nodes, f)
<1>1. /\ Numbered(p, nodes) /\ g.lookups[f].bbs = bbs
      /\ m \in Nat /\ DOMAIN nodes = 1 .. m
      /\ B \in Nat \ {0} /\ DOMAIN p[f].blocks = 1 .. B /\ f \in Nat
  BY ProgramFact DEF GraphOf, Lookups, Numbered
<1>2. ASSUME NEW b \in 1 .. B + 1
      PROVE  /\ bbs[b] \in 1 .. m + 1
             /\ \A n \in DOMAIN nodes : n < bbs[b] <=>
                    \/ nodes[n].function < f
                    \/ nodes[n].function = f /\ nodes[n].block < b
  BY <1>1, StartFact
<1>3. ASSUME NEW n \in DOMAIN nodes
      PROVE  /\ nodes[n].function \in Nat /\ nodes[n].block \in Nat \ {0}
             /\ nodes[n].function = f => nodes[n].block \in 1 .. B
  BY <1>1 DEF Numbered
<1>4. Last(bbs) = bbs[B + 1]
  <2>1. Len(bbs) = B + 1
    <3>1. bbs = [b \in 1 .. B + 1 |-> bbs[b]] /\ B + 1 \in Nat
      BY <1>1 DEF BlockStarts
    <3>2. bbs \in Seq(Nat)
      <4> HIDE DEF bbs, B
      <4>1. \A b \in 1 .. B + 1 : bbs[b] \in Nat
        BY <1>1, <1>2
      <4> QED
        BY <3>1, <4>1, IsASeq
    <3> HIDE DEF bbs, B
    <3>3. Len(bbs) \in Nat /\ DOMAIN bbs = 1 .. Len(bbs)
      BY <3>2, LenProperties
    <3> QED
      BY ONLY <3>1, <3>3
  <2> QED
    BY <2>1 DEF Last
<1> HIDE DEF bbs, B, m, nodes
<1>5. 1 \in 1 .. B + 1 /\ B + 1 \in 1 .. B + 1
  BY <1>1
<1>6. Entry(g, f) = bbs[1] /\ End(g, f) = bbs[B + 1]
  BY <1>1, <1>4 DEF Entry, End
<1>7. bbs[1] \in 1 .. m + 1 /\ bbs[B + 1] \in 1 .. m + 1
  BY <1>2, <1>5
<1>8. bbs[1] <= bbs[B + 1]
  <2>1. CASE bbs[1] > bbs[B + 1]
    <3>1. bbs[B + 1] \in DOMAIN nodes
      BY <1>1, <1>7, <2>1
    <3>2. \/ nodes[bbs[B + 1]].function < f
          \/ nodes[bbs[B + 1]].function = f /\ nodes[bbs[B + 1]].block < 1
      BY <1>2, <1>5, <2>1, <3>1
    <3>3. nodes[bbs[B + 1]].function < f
      BY <1>3, <3>1, <3>2
    <3>4. bbs[B + 1] < bbs[B + 1]
      BY <1>2, <1>5, <3>1, <3>3
    <3> QED
      BY <1>7, <3>4
  <2> QED
    BY <1>7, <2>1
<1>9. ASSUME NEW n \in Nat
      PROVE  n \in bbs[1] .. bbs[B + 1] - 1 <=> n \in DOMAIN nodes /\ nodes[n].function = f
  <2>1. CASE n \notin DOMAIN nodes
    BY <1>1, <1>7, <2>1
  <2>2. CASE n \in DOMAIN nodes
    <3>1. /\ n < bbs[1] <=> (nodes[n].function < f \/ (nodes[n].function = f /\ nodes[n].block < 1))
          /\ n < bbs[B + 1] <=> (nodes[n].function < f \/ (nodes[n].function = f /\ nodes[n].block < B + 1))
      BY <1>2, <1>5, <2>2
    <3>2. /\ nodes[n].function \in Nat /\ nodes[n].block \in Nat \ {0}
          /\ nodes[n].function = f => nodes[n].block \in 1 .. B
      BY <1>3, <2>2
    <3> QED
      BY ONLY <3>1, <3>2, <1>1, <1>7, <2>2
  <2> QED
    BY <2>1, <2>2
<1>10. ASSUME NEW b \in 1 .. B
       PROVE  /\ bbs[b] \in 1 .. m + 1 /\ bbs[b + 1] \in 1 .. m + 1
              /\ \A n \in Nat : n \in bbs[b] .. bbs[b + 1] - 1 <=>
                     n \in DOMAIN nodes /\ nodes[n].function = f /\ nodes[n].block = b
  <2>1. b \in 1 .. B + 1 /\ b + 1 \in 1 .. B + 1
    BY <1>1
  <2>2. bbs[b] \in 1 .. m + 1 /\ bbs[b + 1] \in 1 .. m + 1
    BY <1>2, <2>1
  <2>3. ASSUME NEW n \in Nat
        PROVE  n \in bbs[b] .. bbs[b + 1] - 1 <=>
                   n \in DOMAIN nodes /\ nodes[n].function = f /\ nodes[n].block = b
    <3>1. CASE n \notin DOMAIN nodes
      BY <1>1, <2>2, <3>1
    <3>2. CASE n \in DOMAIN nodes
      <4>1. /\ n < bbs[b] <=> (nodes[n].function < f \/ (nodes[n].function = f /\ nodes[n].block < b))
            /\ n < bbs[b + 1] <=> (nodes[n].function < f \/ (nodes[n].function = f /\ nodes[n].block < b + 1))
        BY <1>2, <2>1, <3>2
      <4>2. nodes[n].function \in Nat /\ nodes[n].block \in Nat \ {0}
        BY <1>3, <3>2
      <4> QED
        BY ONLY <4>1, <4>2, <1>1, <2>2, <3>2
    <3> QED
      BY <3>1, <3>2
  <2> QED
    BY <2>2, <2>3
<1>11. ASSUME FirstBlocksHaveNodes(p) PROVE bbs[1] \in bbs[1] .. bbs[B + 1] - 1
  <2>1. PICK e \in NodeEnds(p) : e[1] = f /\ e[2] = 1
    BY <1>11 DEF FirstBlocksHaveNodes
  <2>2. /\ e[1] \in DOMAIN p /\ e[2] \in DOMAIN p[e[1]].blocks
        /\ e[3] \in DOMAIN CodeOf(p, e[1], e[2])
        /\ EndsNode(CodeOf(p, e[1], e[2])[e[3]])
    BY EndsFact
  <2>3. PICK n \in DOMAIN nodes : nodes[n].function = f /\ nodes[n].block = 1
    BY <1>1, <2>1, <2>2 DEF Numbered
  <2>4. n \in bbs[1] .. bbs[B + 1] - 1
    BY <1>1, <1>9, <2>3
  <2> QED
    BY <1>1, <1>7, <2>4
<1>12. DOMAIN nodes \in SUBSET Nat /\ NodesIn(g, f) \in SUBSET Nat
  BY <1>1, <1>6, <1>7 DEF NodesIn
<1>13. \A b \in DOMAIN p[f].blocks :
           /\ bbs[b] \in Nat \ {0} /\ bbs[b + 1] \in Nat \ {0}
           /\ \A n \in Nat : n \in bbs[b] .. bbs[b + 1] - 1 <=>
                  n \in DOMAIN nodes /\ nodes[n].function = f /\ nodes[n].block = b
  BY <1>1, <1>10, SMTT(30)
<1>14. Entry(g, f) \in Nat \ {0} /\ End(g, f) \in Nat \ {0} /\ Entry(g, f) <= End(g, f)
  BY <1>1, <1>6, <1>7, <1>8
<1>15. NodesIn(g, f) = bbs[1] .. bbs[B + 1] - 1
  BY <1>6 DEF NodesIn
<1> QED
  BY <1>1, <1>6, <1>9, <1>11, <1>12, <1>13, <1>14, <1>15 DEF nodes

\* The least of a set of numbers.
LEMMA MinFact ==
    ASSUME NEW S \in SUBSET Nat, S # {}
    PROVE  Min(S) \in S /\ \A x \in S : Min(S) <= x
<1>1. \E x \in S : \A y \in S : x <= y
  BY LeastNumber
<1> QED
  BY <1>1 DEF Min

\* The node before n in the block of n; 0 if n is the first.
Prior(g, n) ==
    IF n = g.lookups[g.nodes[n].function].bbs[g.nodes[n].block] THEN 0 ELSE g.nodes[n - 1].instr

\* The instructions of a node are those behind the node before it.
LEMMA InstructionsFact ==
    ASSUME NEW p \in Programs, NEW g, GraphOf(p, g), NEW n \in DOMAIN g.nodes
    PROVE  LET node == g.nodes[n] IN
           /\ Prior(g, n) \in 0 .. node.instr - 1
           /\ NumInstructions(g, n) = node.instr - Prior(g, n)
           /\ NumInstructions(g, n) \in 1 .. Len(CodeOf(p, node.function, node.block))
           /\ \A i \in 1 .. node.instr :
                 NodeOfInstruction(g, node.function, node.block, i) = n <=> Prior(g, n) < i
<1> DEFINE node == g.nodes[n]
           f == node.function
           b == node.block
           first == g.lookups[f].bbs[b]
           last == g.lookups[f].bbs[b + 1] - 1
<1>1. /\ f \in DOMAIN p /\ b \in DOMAIN p[f].blocks /\ n \in Nat \ {0}
      /\ node.instr \in 1 .. Len(CodeOf(p, f, b)) /\ Len(CodeOf(p, f, b)) \in Nat
  BY ProgramFact DEF GraphOf, Numbered
<1>9. node.instr = g.nodes[n].instr /\ g.nodes[n].function = f /\ g.nodes[n].block = b
  OBVIOUS
<1> HIDE DEF node, f, b
<1>2. /\ first \in Nat \ {0} /\ last \in Int
      /\ \A k \in Nat : k \in first .. last <=>
            k \in DOMAIN g.nodes /\ g.nodes[k].function = f /\ g.nodes[k].block = b
  <2>1. /\ g.lookups[f].bbs[b] \in Nat \ {0} /\ g.lookups[f].bbs[b + 1] \in Nat \ {0}
        /\ \A k \in Nat : k \in g.lookups[f].bbs[b] .. g.lookups[f].bbs[b + 1] - 1 <=>
              k \in DOMAIN g.nodes /\ g.nodes[k].function = f /\ g.nodes[k].block = b
    <3>1. \A c \in DOMAIN p[f].blocks :
             /\ g.lookups[f].bbs[c] \in Nat \ {0} /\ g.lookups[f].bbs[c + 1] \in Nat \ {0}
             /\ \A k \in Nat : k \in g.lookups[f].bbs[c] .. g.lookups[f].bbs[c + 1] - 1 <=>
                   k \in DOMAIN g.nodes /\ g.nodes[k].function = f /\ g.nodes[k].block = c
      <4>1. f \in DOMAIN p
        BY <1>1
      <4> HIDE DEF first, last
      <4> QED
        BY ONLY <4>1, p \in Programs, GraphOf(p, g), LayoutFact
    <3> HIDE DEF first, last
    <3> QED
      BY <1>1, <3>1, Zenon
  <2>2. first = g.lookups[f].bbs[b] /\ last = g.lookups[f].bbs[b + 1] - 1
    OBVIOUS
  <2> HIDE DEF first, last
  <2>3. first \in Nat \ {0} /\ last \in Int
    BY ONLY <2>1, <2>2
  <2> QED
    BY <2>1, <2>2, <2>3, Zenon
<1>3. n \in first .. last
  BY <1>1, <1>2, <1>9
<1>4. ASSUME NEW k \in first .. last, NEW l \in first .. last
      PROVE  k < l <=> g.nodes[k].instr < g.nodes[l].instr
  <2>1. k \in Nat /\ l \in Nat
    BY <1>2
  <2>2. /\ k \in DOMAIN g.nodes /\ g.nodes[k].function = f /\ g.nodes[k].block = b
        /\ l \in DOMAIN g.nodes /\ g.nodes[l].function = f /\ g.nodes[l].block = b
    BY <1>2, <2>1
  <2>3. k < l <=> Ahead(g.nodes[k], g.nodes[l])
    BY <2>2 DEF GraphOf, Numbered
  <2>4. f \in Nat /\ b \in Nat
    BY <1>1, ProgramFact
  <2> QED
    BY <2>2, <2>3, <2>4 DEF Ahead
<1>5. \A k \in first .. last : g.nodes[k].instr \in Nat
  BY <1>2 DEF GraphOf, Numbered
<1>6. Prior(g, n) = IF n = first THEN 0 ELSE g.nodes[n - 1].instr
  BY <1>9 DEF Prior
<1>7. NumInstructions(g, n) = IF n = first THEN node.instr ELSE node.instr - g.nodes[n - 1].instr
  BY <1>9 DEF NumInstructions
<1>8. \A i : NodeOfInstruction(g, f, b, i) = Min({k \in first .. last : i <= g.nodes[k].instr})
  BY DEF NodeOfInstruction
<1> HIDE DEF first, last
<1>10. n # first => n - 1 \in first .. last /\ n - 1 < n
  BY <1>2, <1>3
<1>11. Prior(g, n) \in 0 .. node.instr - 1
  BY <1>1, <1>3, <1>4, <1>5, <1>6, <1>9, <1>10
<1>12. NumInstructions(g, n) = node.instr - Prior(g, n)
  BY <1>1, <1>6, <1>7
<1>13. NumInstructions(g, n) \in 1 .. Len(CodeOf(p, f, b))
  BY <1>1, <1>11, <1>12
<1>14. ASSUME NEW i \in 1 .. node.instr
       PROVE  NodeOfInstruction(g, f, b, i) = n <=> Prior(g, n) < i
  <2> DEFINE S == {k \in first .. last : i <= g.nodes[k].instr}
  <2>1. S \in SUBSET Nat /\ n \in S
    BY <1>2, <1>3, <1>9
  <2>2. Min(S) \in S /\ \A k \in S : Min(S) <= k
    <3> HIDE DEF S
    <3> QED
      BY <2>1, MinFact
  <2>3. /\ Min(S) \in first .. last /\ i <= g.nodes[Min(S)].instr /\ Min(S) <= n
    BY <2>1, <2>2
  <2>7. NodeOfInstruction(g, f, b, i) = Min(S) /\ n \in Nat \ {0} /\ Min(S) \in Nat
    BY <1>1, <1>2, <1>8, <2>3
  <2>4. \A k \in first .. last : i <= g.nodes[k].instr => Min(S) <= k
    BY <2>2
  <2> HIDE DEF S
  <2>5. CASE n = first
    BY <1>2, <1>6, <2>3, <2>5, <2>7
  <2>6. CASE n # first
    <3>1. n - 1 \in first .. last /\ g.nodes[n - 1].instr \in Nat /\ Prior(g, n) = g.nodes[n - 1].instr
      BY <1>5, <1>6, <1>10, <2>6
    <3>2. ASSUME Prior(g, n) < i PROVE Min(S) = n
      <4>1. CASE Min(S) < n
        <5>1. Min(S) = n - 1 \/ Min(S) < n - 1
          BY <2>3, <2>7, <4>1
        <5>2. g.nodes[Min(S)].instr <= g.nodes[n - 1].instr
          BY <1>4, <1>5, <2>3, <3>1, <5>1
        <5>3. g.nodes[Min(S)].instr \in Nat
          BY <1>5, <2>3
        <5> QED
          BY <2>3, <3>1, <3>2, <5>2, <5>3
      <4> QED
        BY <2>3, <2>7, <4>1
    <3>3. ASSUME ~(Prior(g, n) < i) PROVE Min(S) # n
      BY <2>4, <3>1, <3>3, <1>1
    <3> QED
      BY <2>7, <3>2, <3>3
  <2> QED
    BY <2>5, <2>6
<1> QED
  BY <1>11, <1>12, <1>13, <1>14 DEF node, f, b

----------------------------------------------------------------------------
(* Calls and successors.                                                    *)

\* The calls of a function, in a sequence.
LEMMA CallsFact ==
    ASSUME NEW p \in Programs, NEW g, GraphOf(p, g), NEW f \in DOMAIN p
    PROVE  LET calls == g.lookups[f].calls IN
           /\ Len(calls) \in Nat /\ DOMAIN calls = 1 .. Len(calls)
           /\ \A k \in DOMAIN calls :
                 calls[k] \in DOMAIN g.nodes /\ g.nodes[calls[k]].function = f
                 /\ g.nodes[calls[k]].op = "CALL"
           /\ \A k, l \in DOMAIN calls : k # l => calls[k] # calls[l]
           /\ \A n \in DOMAIN g.nodes : g.nodes[n].function = f /\ g.nodes[n].op = "CALL" =>
                 \E k \in DOMAIN calls : calls[k] = n
<1> DEFINE C == {n \in DOMAIN g.nodes : g.nodes[n].function = f /\ g.nodes[n].op = "CALL"}
           m == Cardinality(NodeEnds(p))
           calls == Sorted(C)
           l == Cardinality(C)
<1>1. g.lookups[f].calls = calls
  BY DEF GraphOf, Lookups, Calls
<1>2. m \in Nat /\ DOMAIN g.nodes = 1 .. m
  BY DEF GraphOf, Numbered
<1>3. C \in SUBSET Nat /\ IsFiniteSet(C)
  <2>1. C \in SUBSET (1 .. m) /\ 1 .. m \in SUBSET Nat
    BY <1>2
  <2>2. IsFiniteSet(1 .. m)
    BY <1>2, FirstNumbers
  <2> HIDE DEF C, m
  <2> QED
    BY <2>1, <2>2, FS_Subset
<1>4. \A n : n \in C <=> n \in DOMAIN g.nodes /\ g.nodes[n].function = f /\ g.nodes[n].op = "CALL"
  OBVIOUS
<1> HIDE DEF C
<1>5. /\ calls \in [1 .. l -> C] /\ l \in Nat
      /\ \A i, j \in 1 .. l : i # j => calls[i] # calls[j]
      /\ \A x \in C : \E k \in 1 .. l : calls[k] = x
  BY <1>3, SortedFact
<1> HIDE DEF calls, l
<1>6. calls \in Seq(C)
  <2>1. \A k \in 1 .. l : calls[k] \in C
    BY <1>5
  <2>2. calls = [k \in 1 .. l |-> calls[k]]
    BY <1>5
  <2> QED
    BY <1>5, <2>1, <2>2, IsASeq
<1>7. Len(calls) \in Nat /\ DOMAIN calls = 1 .. Len(calls) /\ DOMAIN calls = 1 .. l
  BY <1>5, <1>6, LenProperties
<1> QED
  BY <1>1, <1>4, <1>5, <1>7

\* The functions that a call may reach, at their entries, in a sequence.
LEMMA SuccessorsFact ==
    ASSUME NEW p \in Programs, NEW g, GraphOf(p, g), FirstBlocksHaveNodes(p),
           NEW n \in DOMAIN g.nodes
    PROVE  LET succ == Successors(p, g.nodes, g.lookups, n) IN
           /\ Len(succ) \in Nat /\ DOMAIN succ = 1 .. Len(succ)
           /\ \A k \in DOMAIN succ : succ[k] \in Nat \ {0}
           /\ succ = <<>> <=> Len(succ) = 0
           /\ g.nodes[n].op = "CALL" =>
                 /\ \A k \in DOMAIN succ : succ[k] \in DOMAIN g.nodes
                 /\ \A k, l \in DOMAIN succ : k # l => succ[k] # succ[l]
<1> DEFINE node == g.nodes[n]
           f == node.function
           b == node.block
           i == CodeOf(p, f, b)[node.instr]
           succ == Successors(p, g.nodes, g.lookups, n)
           S == {g.lookups[h].bbs[1] : h \in Targets(p, i)}
           bbs == g.lookups[f].bbs
           next == p[f].blocks[b].next
<1>1. /\ f \in DOMAIN p /\ b \in DOMAIN p[f].blocks /\ node.instr \in DOMAIN CodeOf(p, f, b)
      /\ node.op = i.op
  BY DEF GraphOf, Numbered
<1>2. succ = IF i.op = "CALL" THEN Sorted(S) ELSE [k \in DOMAIN next |-> bbs[next[k]]]
  BY DEF Successors, CodeOf
<1>3. /\ Len(p) \in Nat /\ DOMAIN p = 1 .. Len(p) /\ i.callee \in 0 .. Len(p)
      /\ Len(next) \in Nat /\ DOMAIN next = 1 .. Len(next)
      /\ \A k \in DOMAIN next : next[k] \in DOMAIN p[f].blocks
  <2> HIDE DEF f, b, node
  <2> QED
    BY <1>1, ProgramFact
<1>4. Targets(p, i) \in SUBSET (1 .. Len(p))
  <2> HIDE DEF i, f, b, node
  <2> QED
    BY <1>3 DEF Targets
<1>5. ASSUME NEW h \in 1 .. Len(p)
      PROVE  g.lookups[h].bbs[1] \in Nat \ {0} /\ g.lookups[h].bbs[1] \in DOMAIN g.nodes
             /\ g.nodes[g.lookups[h].bbs[1]].function = h
  <2>1. h \in DOMAIN p
    BY <1>3
  <2>2. /\ Entry(g, h) \in Nat \ {0} /\ Entry(g, h) \in NodesIn(g, h)
        /\ \A k \in Nat : k \in NodesIn(g, h) <=> k \in DOMAIN g.nodes /\ g.nodes[k].function = h
    <3> HIDE DEF f, b, node, i
    <3> QED
      BY <2>1, LayoutFact
  <2> QED
    BY <2>2 DEF Entry
<1>6. S \in SUBSET Nat /\ IsFiniteSet(S)
  <2> DEFINE F == [h \in 1 .. Len(p) |-> g.lookups[h].bbs[1]]
             T == Targets(p, i)
  <2>0. T \in SUBSET (1 .. Len(p))
    BY <1>4
  <2>1. IsFiniteSet(1 .. Len(p))
    BY <1>3, FirstNumbers
  <2>2. IsFiniteSet(T)
    <3> HIDE DEF T
    <3> QED
      BY <2>0, <2>1, FS_Subset
  <2>3. IsFiniteSet({F[h] : h \in T})
    <3> HIDE DEF T, F
    <3> QED
      BY <2>2, ImageFinite
  <2>4. S = {F[h] : h \in T}
    <3> HIDE DEF i
    <3> QED
      BY <1>4
  <2>5. S \in SUBSET Nat
    <3> HIDE DEF i, f, b, node
    <3> QED
      BY <1>4, <1>5
  <2> QED
    BY <2>3, <2>4, <2>5
<1>7. \A x \in S : x \in Nat \ {0} /\ x \in DOMAIN g.nodes
  <2> HIDE DEF i, f, b, node
  <2> QED
    BY <1>4, <1>5
<1>8. \A c \in DOMAIN p[f].blocks : bbs[c] \in Nat \ {0}
  <2> HIDE DEF f, b, node
  <2> QED
    BY <1>1, LayoutFact
<1>9. CASE i.op = "CALL"
  <2> DEFINE l == Cardinality(S)
             s == Sorted(S)
  <2>1. /\ s \in [1 .. l -> S] /\ l \in Nat
        /\ \A j, k \in 1 .. l : j # k => s[j] # s[k]
    <3> HIDE DEF S
    <3> QED
      BY <1>6, SortedFact
  <2>2. succ = s /\ node.op = "CALL"
    BY <1>1, <1>2, <1>9
  <2>3. s \in Seq(S)
    <3> HIDE DEF S, s, l
    <3>1. \A k \in 1 .. l : s[k] \in S
      BY <2>1
    <3>2. s = [k \in 1 .. l |-> s[k]]
      BY <2>1
    <3> QED
      BY <2>1, <3>1, <3>2, IsASeq
  <2> HIDE DEF S, s, l, succ
  <2>4. Len(s) \in Nat /\ DOMAIN s = 1 .. Len(s) /\ DOMAIN s = 1 .. l /\ (s = <<>> <=> Len(s) = 0)
    BY <2>1, <2>3, LenProperties, EmptySeq
  <2>5. \A k \in DOMAIN s : s[k] \in S
    BY <2>1, <2>4
  <2>6. /\ Len(s) \in Nat /\ DOMAIN s = 1 .. Len(s)
        /\ \A k \in DOMAIN s : s[k] \in Nat \ {0}
        /\ s = <<>> <=> Len(s) = 0
        /\ \A k \in DOMAIN s : s[k] \in DOMAIN g.nodes
        /\ \A k, j \in DOMAIN s : k # j => s[k] # s[j]
    BY <1>7, <2>1, <2>4, <2>5
  <2> QED
    BY <2>2, <2>6 DEF succ
<1>10. CASE i.op # "CALL"
  <2> DEFINE s == [k \in DOMAIN next |-> bbs[next[k]]]
  <2>1. succ = s /\ node.op # "CALL"
    BY <1>1, <1>2, <1>10
  <2>2. /\ DOMAIN s = 1 .. Len(next) /\ Len(next) \in Nat
        /\ \A k \in 1 .. Len(next) : s[k] \in Nat \ {0}
        /\ s = [k \in 1 .. Len(next) |-> s[k]]
    BY <1>3, <1>8
  <2> HIDE DEF s, succ, next
  <2>3. s \in Seq(Nat \ {0})
    BY <2>2, IsASeq
  <2>4. Len(s) \in Nat /\ DOMAIN s = 1 .. Len(s) /\ (s = <<>> <=> Len(s) = 0)
    BY <2>3, LenProperties, EmptySeq
  <2> QED
    BY <2>1, <2>2, <2>4 DEF succ
<1> QED
  BY <1>9, <1>10

\* In a well-formed program no step but a call leaves the function.
LEMMA OnwardsFact ==
    ASSUME NEW p \in Programs, NEW g, GraphOf(p, g), WellFormed(p), NEW n \in DOMAIN g.nodes
    PROVE  LET f == g.nodes[n].function
               succ == Successors(p, g.nodes, g.lookups, n) IN
           /\ g.nodes[n].op = "CALL" => n + 1 \in NodesIn(g, f)
           /\ g.nodes[n].op # "CALL" => \A k \in DOMAIN succ : succ[k] \in NodesIn(g, f)
           /\ g.nodes[n].op = "RET" => DOMAIN succ = {}
<1> DEFINE node == g.nodes[n]
           f == node.function
           b == node.block
           i == node.instr
           code == CodeOf(p, f, b)
           next == p[f].blocks[b].next
           bbs == g.lookups[f].bbs
           succ == Successors(p, g.nodes, g.lookups, n)
<1>1. /\ f \in DOMAIN p /\ b \in DOMAIN p[f].blocks /\ i \in DOMAIN code /\ node.op = code[i].op
      /\ node.op \in {"CALL", "RET", "JUMP", "BRANCH"} /\ n \in Nat \ {0}
      /\ node.function = f /\ node.block = b /\ node = g.nodes[n] /\ node.instr = i
  BY DEF GraphOf, Numbered
<1>2. succ = IF code[i].op = "CALL" THEN Sorted({g.lookups[h].bbs[1] : h \in Targets(p, code[i])})
             ELSE [k \in DOMAIN next |-> bbs[next[k]]]
  BY DEF Successors, CodeOf
<1> HIDE DEF node, f, b, succ
<1>3. /\ Len(code) \in Nat /\ DOMAIN code = 1 .. Len(code)
      /\ Len(next) \in Nat /\ DOMAIN next = 1 .. Len(next)
      /\ \A k \in DOMAIN next : next[k] \in DOMAIN p[f].blocks
  BY <1>1, ProgramFact
<1>4. /\ NodesIn(g, f) \in SUBSET Nat
      /\ \A k \in Nat : k \in NodesIn(g, f) <=> k \in DOMAIN g.nodes /\ g.nodes[k].function = f
      /\ \A c \in DOMAIN p[f].blocks :
            /\ bbs[c] \in Nat \ {0} /\ bbs[c + 1] \in Nat \ {0}
            /\ \A k \in Nat : k \in bbs[c] .. bbs[c + 1] - 1 <=>
                  k \in DOMAIN g.nodes /\ g.nodes[k].function = f /\ g.nodes[k].block = c
  BY <1>1, LayoutFact
<1>5. ASSUME NEW c \in DOMAIN p[f].blocks
      PROVE  /\ CodeOf(p, f, c) # <<>>
             /\ \A k \in DOMAIN CodeOf(p, f, c) :
                   k < Len(CodeOf(p, f, c)) => CodeOf(p, f, c)[k].op \in {"CALL", "OTHER"}
             /\ Last(CodeOf(p, f, c)).op \in {"RET", "JUMP", "BRANCH"}
             /\ Last(CodeOf(p, f, c)).op = "RET" => Len(p[f].blocks[c].next) = 0
             /\ Len(CodeOf(p, f, c)) \in DOMAIN CodeOf(p, f, c)
             /\ Last(CodeOf(p, f, c)) = CodeOf(p, f, c)[Len(CodeOf(p, f, c))]
  <2>1. /\ CodeOf(p, f, c) # <<>>
        /\ \A k \in DOMAIN CodeOf(p, f, c) :
              k < Len(CodeOf(p, f, c)) => CodeOf(p, f, c)[k].op \in {"CALL", "OTHER"}
        /\ Last(CodeOf(p, f, c)).op \in {"RET", "JUMP", "BRANCH"}
        /\ Last(CodeOf(p, f, c)).op = "RET" => Len(p[f].blocks[c].next) = 0
    BY <1>1 DEF WellFormed
  <2>2. Len(CodeOf(p, f, c)) \in Nat /\ DOMAIN CodeOf(p, f, c) = 1 .. Len(CodeOf(p, f, c))
    BY <1>1, ProgramFact
  <2>3. CodeOf(p, f, c) \in Seq(Instruction)
    BY <1>1, ProgramFact
  <2>4. Len(CodeOf(p, f, c)) # 0
    BY <2>1, <2>3, EmptySeq
  <2> QED
    BY <2>1, <2>2, <2>4 DEF Last
<1>6. ASSUME NEW c \in DOMAIN p[f].blocks
      PROVE  \E k \in DOMAIN g.nodes : /\ g.nodes[k].function = f /\ g.nodes[k].block = c
                                       /\ g.nodes[k].instr = Len(CodeOf(p, f, c))
  <2>1. EndsNode(CodeOf(p, f, c)[Len(CodeOf(p, f, c))]) /\ Len(CodeOf(p, f, c)) \in DOMAIN CodeOf(p, f, c)
    BY <1>5 DEF EndsNode
  <2>2. \A h \in DOMAIN p : \A d \in DOMAIN p[h].blocks : \A k \in DOMAIN CodeOf(p, h, d) :
            EndsNode(CodeOf(p, h, d)[k]) =>
                \E l \in DOMAIN g.nodes :
                    g.nodes[l].function = h /\ g.nodes[l].block = d /\ g.nodes[l].instr = k
    BY Zenon DEF GraphOf, Numbered
  <2> QED
    BY <1>1, <2>1, <2>2
<1>7. DOMAIN g.nodes \in SUBSET Nat
  BY DEF GraphOf, Numbered
<1>8. ASSUME NEW c \in DOMAIN p[f].blocks PROVE bbs[c] \in NodesIn(g, f)
  <2>1. PICK k \in DOMAIN g.nodes : g.nodes[k].function = f /\ g.nodes[k].block = c
    BY <1>6
  <2>2. k \in bbs[c] .. bbs[c + 1] - 1
    BY <1>4, <1>7, <2>1
  <2>3. bbs[c] \in bbs[c] .. bbs[c + 1] - 1 /\ bbs[c] \in Nat
    BY <1>4, <2>2
  <2> QED
    BY <1>4, <2>3
<1>9. ASSUME node.op = "CALL" PROVE n + 1 \in NodesIn(g, f)
  <2>1. PICK k \in DOMAIN g.nodes :
            g.nodes[k].function = f /\ g.nodes[k].block = b /\ g.nodes[k].instr = Len(code)
    BY <1>1, <1>6
  <2>2. i < Len(code)
    <3>1. i # Len(code)
      BY <1>1, <1>5, <1>9
    <3> QED
      BY <1>1, <1>3, <3>1
  <2>3. n < k
    <3>1. Ahead(g.nodes[n], g.nodes[k])
      BY <1>1, <2>1, <2>2 DEF Ahead
    <3> QED
      BY <3>1 DEF GraphOf, Numbered
  <2>4. n \in bbs[b] .. bbs[b + 1] - 1 /\ k \in bbs[b] .. bbs[b + 1] - 1
    BY <1>1, <1>4, <1>7, <2>1
  <2>5. n + 1 \in bbs[b] .. bbs[b + 1] - 1 /\ n + 1 \in Nat
    BY <1>1, <1>4, <2>3, <2>4
  <2> QED
    BY <1>1, <1>4, <2>5
<1>10. ASSUME node.op # "CALL", NEW k \in DOMAIN succ PROVE succ[k] \in NodesIn(g, f)
  <2>1. k \in DOMAIN next /\ succ[k] = bbs[next[k]]
    BY <1>1, <1>2, <1>10
  <2> QED
    BY <1>3, <1>8, <2>1
<1>11. ASSUME node.op = "RET" PROVE DOMAIN succ = {}
  <2>1. DOMAIN succ = DOMAIN next
    BY <1>1, <1>2, <1>11
  <2>2. i = Len(code)
    BY <1>1, <1>3, <1>5, <1>11, SMTT(30)
  <2>3. Len(next) = 0
    BY <1>1, <1>5, <1>11, <2>2
  <2> QED
    BY <1>3, <2>1, <2>3
<1> QED
  BY <1>9, <1>10, <1>11 DEF node, f, succ

----------------------------------------------------------------------------
(* The graph.                                                               *)

HasEdges == phase \in {"avg", "intra", "inter", "done"}
HasNodes == phase = "edges" \/ HasEdges

\* The graph is that of the program, whose calls have callees.
GraphInv ==
    /\ program \in Programs
    /\ phase \in {"nodes", "edges", "avg", "intra", "inter", "done", "exception"}
    /\ HasNodes => GraphOf(program, graph) /\ FirstBlocksHaveNodes(program)
    /\ HasEdges =>
          /\ graph.succ = [n \in DOMAIN graph.nodes |->
                              Successors(program, graph.nodes, graph.lookups, n)]
          /\ \A n \in AllCalls : graph.succ[n] # <<>>

\* Where no step but the first two changes the graph.
LEMMA GraphKept ==
    ASSUME GraphInv, UNCHANGED <<program, graph>>,
           phase' = "exception" \/ (HasEdges /\ phase' \in {"avg", "intra", "inter", "done"})
    PROVE  GraphInv'
  BY DEF GraphInv, HasNodes, HasEdges, AllCalls, IsCall

\* There is no graph at first.
LEMMA GraphInit == Init => GraphInv
  BY DEF Init, GraphInv, HasNodes, HasEdges

\* The first two steps make the graph right, the others leave it as it is.
LEMMA GraphStep == GraphInv /\ [Next]_vars => GraphInv'
<1> SUFFICES ASSUME GraphInv, [Next]_vars PROVE GraphInv'
  OBVIOUS
<1>1. CASE MakeNodes
  <2>1. CASE Throw
    BY <2>1, GraphKept DEF Throw
  <2>2. CASE ~Throw
    <3>1. PICK nodes \in {AllNodes(program)} :
              graph' = [nodes |-> nodes, lookups |-> Lookups(program, nodes), succ |-> <<>>]
      BY <1>1, <2>2 DEF MakeNodes
    <3>2. FirstBlocksHaveNodes(program) /\ phase' = "edges" /\ program' = program
      BY <1>1, <2>2 DEF MakeNodes, Buildable
    <3>3. graph'.nodes = AllNodes(program) /\ graph'.lookups = Lookups(program, graph'.nodes)
      BY <3>1
    <3>4. program \in Programs /\ Numbered(program, AllNodes(program))
      BY NodesFact DEF GraphInv
    <3>5. GraphOf(program, graph')
      BY <3>3, <3>4 DEF GraphOf
    <3> QED
      BY <3>2, <3>4, <3>5 DEF GraphInv, HasNodes, HasEdges
  <2> QED
    BY <2>1, <2>2
<1>2. CASE MakeEdges
  <2>1. CASE Throw
    BY <2>1, GraphKept DEF Throw
  <2>2. CASE ~Throw
    <3> DEFINE succ(n) == Successors(program, graph.nodes, graph.lookups, n)
    <3>1. /\ \A n \in AllCalls : succ(n) # <<>>
          /\ graph' = [graph EXCEPT !.succ = [n \in DOMAIN graph.nodes |-> succ(n)]]
          /\ phase = "edges" /\ phase' = "avg" /\ program' = program
      BY <1>2, <2>2 DEF MakeEdges
    <3> HIDE DEF succ
    <3>2. program \in Programs /\ GraphOf(program, graph) /\ FirstBlocksHaveNodes(program)
      BY <3>1 DEF GraphInv, HasNodes
    <3>3. /\ graph'.nodes = graph.nodes /\ graph'.lookups = graph.lookups
          /\ graph'.succ = [n \in DOMAIN graph.nodes |-> succ(n)]
      BY <3>1
    <3>4. GraphOf(program, graph')
      BY <3>2, <3>3 DEF GraphOf
    <3>5. AllCalls' = AllCalls /\ AllCalls \subseteq DOMAIN graph.nodes
      BY <3>3 DEF AllCalls, IsCall
    <3>6. \A n \in AllCalls' : graph'.succ[n] # <<>>
      BY <3>1, <3>3, <3>5
    <3> QED
      BY <3>1, <3>2, <3>3, <3>4, <3>6 DEF GraphInv, HasNodes, HasEdges, succ
  <2> QED
    BY <2>1, <2>2
<1>3. CASE UNCHANGED vars
  BY <1>3 DEF vars, GraphInv, HasNodes, HasEdges, AllCalls, IsCall
<1>4. CASE EnterRoot
  BY <1>4, GraphKept DEF EnterRoot, Enter, HasEdges
<1>5. CASE EnterCallee
  BY <1>5, GraphKept DEF EnterCallee, Enter, HasEdges
<1>6. CASE Leave
  BY <1>6, GraphKept DEF Leave, HasEdges
<1>7. CASE AvgCallee
  BY <1>7, GraphKept DEF AvgCallee, HasEdges
<1>8. CASE AvgCall
  BY <1>8, GraphKept DEF AvgCall, HasEdges
<1>9. CASE AvgDone
  BY <1>9, GraphKept DEF AvgDone, HasEdges
<1>10. CASE IntraStart
  BY <1>10, GraphKept DEF IntraStart, Throw, HasEdges
<1>11. CASE FloydWarshall
  BY <1>11, GraphKept DEF FloydWarshall, HasEdges
<1>12. CASE Diagonal
  BY <1>12, GraphKept DEF Diagonal, Throw, HasEdges
<1>13. CASE CallEntries
  BY <1>13, GraphKept DEF CallEntries, HasEdges
<1>14. CASE IntraDone
  BY <1>14, GraphKept DEF IntraDone, HasEdges
<1>15. CASE InterDirect
  BY <1>15, GraphKept DEF InterDirect, HasEdges
<1>16. CASE InterCallee
  BY <1>16, GraphKept DEF InterCallee, HasEdges
<1>17. CASE InterCall
  BY <1>17, GraphKept DEF InterCall, HasEdges
<1>18. CASE InterDone
  BY <1>18, GraphKept DEF InterDone, HasEdges
<1> QED
  BY <1>1, <1>2, <1>3, <1>4, <1>5, <1>6, <1>7, <1>8, <1>9, <1>10, <1>11, <1>12, <1>13,
     <1>14, <1>15, <1>16, <1>17, <1>18 DEF Next

\* The instructions of a node are those that lead to it.
LEMMA SharedCode ==
    ASSUME GraphInv, phase = "edges", NEW n \in DOMAIN graph.nodes
    PROVE  SharesCode(n)
<1> SUFFICES LET node == graph.nodes[n] IN
             Instructions(n) = Cardinality({i \in 1 .. node.instr :
                 NodeOfInstruction(graph, node.function, node.block, i) = n})
  BY DEF SharesCode
<1> DEFINE node == graph.nodes[n]
           k == Prior(graph, n)
           l == node.instr
           S == {i \in 1 .. l : NodeOfInstruction(graph, node.function, node.block, i) = n}
<1>1. program \in Programs /\ GraphOf(program, graph)
  BY DEF GraphInv, HasNodes
<1>2. /\ k \in 0 .. l - 1 /\ NumInstructions(graph, n) = l - k
      /\ \A i \in 1 .. l : NodeOfInstruction(graph, node.function, node.block, i) = n <=> k < i
  BY <1>1, InstructionsFact
<1>3. l \in Nat
  BY <1>1 DEF GraphOf, Numbered
<1> HIDE DEF k, l
<1>4. S = k + 1 .. l
  BY <1>2, <1>3
<1>5. Cardinality(k + 1 .. l) = l - (k + 1) + 1
  <2>1. k + 1 \in Int /\ l \in Int /\ k + 1 <= l + 1
    BY <1>2, <1>3
  <2> QED
    BY <2>1, IntervalFact
<1>6. l - (k + 1) + 1 = l - k
  BY <1>2, <1>3
<1> QED
  BY <1>2, <1>4, <1>5, <1>6 DEF l, Instructions

\* The place of a block is its first node, or what comes next if it has none.
LEMMA PlaceOfBlock ==
    ASSUME program \in Programs, GraphOf(program, graph),
           NEW f \in DOMAIN program, NEW b \in DOMAIN program[f].blocks
    PROVE  LET m == graph.lookups[f].bbs[b] IN
           IF \E i \in Range(CodeOf(program, f, b)) : EndsNode(i)
           THEN IsFirst(m, f, b) ELSE IsBehind(m, f, b)
<1> DEFINE m == graph.lookups[f].bbs[b]
           nodes == graph.nodes
           code == CodeOf(program, f, b)
<1>1. /\ m \in Nat \ {0} /\ graph.lookups[f].bbs[b + 1] \in Nat \ {0}
      /\ \A n \in Nat :
            n \in m .. graph.lookups[f].bbs[b + 1] - 1 <=>
            n \in DOMAIN nodes /\ nodes[n].function = f /\ nodes[n].block = b
  <2> HIDE DEF code
  <2> QED
    BY LayoutFact
<1>2. /\ DOMAIN nodes \in SUBSET Nat /\ f \in Nat /\ b \in 1 .. Len(program[f].blocks) + 1
      /\ \A n \in DOMAIN nodes : nodes[n].instr \in Nat \ {0}
  <2>1. DOMAIN nodes \in SUBSET Nat /\ \A n \in DOMAIN nodes : nodes[n].instr \in Nat \ {0}
    BY DEF GraphOf, Numbered
  <2> QED
    BY <2>1, ProgramFact
<1> HIDE DEF m
<1>3. IsBehind(m, f, b)
  <2>1. m = BlockStarts(program, nodes, f)[b]
    BY DEF GraphOf, Lookups, m
  <2>2. \A n \in DOMAIN nodes : n < BlockStarts(program, nodes, f)[b] <=>
            \/ nodes[n].function < f
            \/ nodes[n].function = f /\ nodes[n].block < b
    <3>1. Numbered(program, nodes)
      BY DEF GraphOf
    <3> HIDE DEF nodes
    <3> QED
      BY <1>2, <3>1, StartFact
  <2> QED
    BY <2>1, <2>2 DEF IsBehind
<1>4. ASSUME NEW i \in DOMAIN code, EndsNode(code[i])
      PROVE  \E n \in m .. graph.lookups[f].bbs[b + 1] - 1 : nodes[n].instr = i /\ n \in DOMAIN nodes
  <2>1. PICK n \in DOMAIN nodes :
            nodes[n].function = f /\ nodes[n].block = b /\ nodes[n].instr = i
    BY <1>4 DEF GraphOf, Numbered
  <2>2. n \in Nat
    BY <1>2
  <2> QED
    BY <1>1, <2>1, <2>2
<1>5. ASSUME NEW j \in DOMAIN code, EndsNode(code[j]) PROVE IsFirst(m, f, b)
  <2>1. m \in m .. graph.lookups[f].bbs[b + 1] - 1
    <3>1. PICK n \in m .. graph.lookups[f].bbs[b + 1] - 1 : n \in DOMAIN nodes
      BY <1>4, <1>5
    <3> QED
      BY <1>1, <3>1
  <2>2. m \in DOMAIN nodes /\ nodes[m].function = f /\ nodes[m].block = b
    BY <1>1, <2>1
  <2>3. /\ nodes[m].instr \in DOMAIN code /\ nodes[m].instr \in Nat \ {0}
        /\ DOMAIN code = 1 .. Len(code) /\ Len(code) \in Nat
    <3>1. nodes[m].instr \in DOMAIN code
      BY <2>2 DEF GraphOf, Numbered
    <3>2. DOMAIN code = 1 .. Len(code) /\ Len(code) \in Nat
      BY ProgramFact
    <3> QED
      BY <1>2, <2>2, <3>1, <3>2
  <2>4. ASSUME NEW i \in 1 .. nodes[m].instr - 1, EndsNode(code[i]) PROVE FALSE
    <3> HIDE DEF code
    <3>1. i \in DOMAIN code /\ i < nodes[m].instr
      BY <2>3
    <3>2. PICK n \in m .. graph.lookups[f].bbs[b + 1] - 1 : nodes[n].instr = i /\ n \in DOMAIN nodes
      BY <1>4, <2>4, <3>1
    <3>3. n \in Nat /\ m <= n /\ nodes[n].function = f /\ nodes[n].block = b
      BY <1>1, <1>2, <3>2
    <3>4. Ahead(nodes[n], nodes[m])
      BY <2>2, <3>1, <3>2, <3>3 DEF Ahead
    <3>5. n < m
      BY <2>2, <3>2, <3>4 DEF GraphOf, Numbered
    <3> QED
      BY <1>1, <3>3, <3>5
  <2> QED
    BY <2>2, <2>4 DEF IsFirst
<1>6. (\E i \in Range(code) : EndsNode(i)) => \E j \in DOMAIN code : EndsNode(code[j])
  BY DEF Range
<1> QED
  BY <1>3, <1>5, <1>6 DEF m

\* Edges lead to the places of blocks, of those that follow or of first ones.
LEMMA EdgesFact ==
    ASSUME GraphInv, phase = "avg", NEW n \in DOMAIN graph.nodes
    PROVE  EdgesLead(n)
<1> DEFINE node == graph.nodes[n]
           f == node.function
           next == program[f].blocks[node.block].next
           instr == CodeOf(program, f, node.block)[node.instr]
           targets == Targets(program, instr)
           succ == graph.succ[n]
           bbs == graph.lookups[f].bbs
           S == {graph.lookups[h].bbs[1] : h \in targets}
<1>1. /\ program \in Programs /\ GraphOf(program, graph) /\ FirstBlocksHaveNodes(program)
      /\ succ = Successors(program, graph.nodes, graph.lookups, n)
  BY DEF GraphInv, HasNodes, HasEdges
<1>2. /\ f \in DOMAIN program /\ node.block \in DOMAIN program[f].blocks
      /\ node.instr \in DOMAIN CodeOf(program, f, node.block) /\ node.op = instr.op
      /\ graph.nodes[n] = node
  BY <1>1 DEF GraphOf, Numbered
<1>3. succ = IF instr.op = "CALL" THEN Sorted(S) ELSE [k \in DOMAIN next |-> bbs[next[k]]]
  BY <1>1 DEF Successors, CodeOf
<1>4. targets \in SUBSET (DOMAIN program) /\ \A k \in DOMAIN next : next[k] \in DOMAIN program[f].blocks
  <2>1. DOMAIN program = 1 .. Len(program) /\ instr.callee \in 0 .. Len(program)
        /\ \A k \in DOMAIN next : next[k] \in DOMAIN program[f].blocks
    <3> HIDE DEF f, node
    <3> QED
      BY <1>1, <1>2, ProgramFact
  <2> HIDE DEF instr, f, node
  <2> QED
    BY <2>1 DEF Targets
<1>5. EdgesLead(n) <=>
        IF node.op = "CALL"
        THEN /\ \A k \in DOMAIN succ : \E h \in targets : IsFirst(succ[k], h, 1)
             /\ \A h \in targets : \E k \in DOMAIN succ : IsFirst(succ[k], h, 1)
        ELSE /\ DOMAIN succ = DOMAIN next
             /\ \A k \in DOMAIN next :
                   IF \E i \in Range(CodeOf(program, f, next[k])) : EndsNode(i)
                   THEN IsFirst(succ[k], f, next[k]) ELSE IsBehind(succ[k], f, next[k])
  BY DEF EdgesLead
<1> HIDE DEF node, f, next, instr, targets, succ
<1>6. CASE instr.op = "CALL"
  <2>1. ASSUME NEW h \in targets PROVE IsFirst(graph.lookups[h].bbs[1], h, 1)
    <3>1. h \in DOMAIN program /\ 1 \in DOMAIN program[h].blocks
      <4>1. h \in DOMAIN program
        BY <1>4
      <4> QED
        BY <1>1, <4>1, ProgramFact
    <3>2. \E i \in Range(CodeOf(program, h, 1)) : EndsNode(i)
      <4>1. PICK e \in NodeEnds(program) : e[1] = h /\ e[2] = 1
        BY <1>1, <3>1 DEF FirstBlocksHaveNodes
      <4>2. e[3] \in DOMAIN CodeOf(program, h, 1) /\ EndsNode(CodeOf(program, h, 1)[e[3]])
        BY <1>1, <4>1, EndsFact
      <4> QED
        BY <4>2 DEF Range
    <3> QED
      BY <1>1, <3>1, <3>2, PlaceOfBlock
  <2>2. S \in SUBSET Nat /\ IsFiniteSet(S)
    <3>1. \A h \in targets : graph.lookups[h].bbs[1] \in DOMAIN graph.nodes
      BY <2>1 DEF IsFirst
    <3>2. DOMAIN graph.nodes = 1 .. Cardinality(NodeEnds(program)) /\ Cardinality(NodeEnds(program)) \in Nat
      BY <1>1 DEF GraphOf, Numbered
    <3>3. S \in SUBSET (1 .. Cardinality(NodeEnds(program)))
      BY <3>1, <3>2
    <3>4. IsFiniteSet(1 .. Cardinality(NodeEnds(program)))
      BY <3>2, FirstNumbers
    <3> HIDE DEF S
    <3>5. IsFiniteSet(S)
      BY <3>3, <3>4, FS_Subset
    <3> QED
      BY <3>2, <3>3, <3>5
  <2>3. /\ succ \in [1 .. Cardinality(S) -> S]
        /\ \A x \in S : \E k \in 1 .. Cardinality(S) : succ[k] = x
    <3>1. succ = Sorted(S)
      BY <1>3, <1>6
    <3> HIDE DEF S
    <3> QED
      BY <2>2, <3>1, SortedFact
  <2>4. ASSUME NEW k \in DOMAIN succ PROVE \E h \in targets : IsFirst(succ[k], h, 1)
    <3>1. succ[k] \in S
      BY <2>3
    <3> QED
      BY <2>1, <3>1
  <2>5. ASSUME NEW h \in targets PROVE \E k \in DOMAIN succ : IsFirst(succ[k], h, 1)
    <3>1. PICK k \in 1 .. Cardinality(S) : succ[k] = graph.lookups[h].bbs[1]
      BY <2>3
    <3> QED
      BY <2>1, <2>3, <3>1
  <2> QED
    BY <1>2, <1>5, <1>6, <2>4, <2>5
<1>7. CASE instr.op # "CALL"
  <2>1. succ = [k \in DOMAIN next |-> bbs[next[k]]]
    BY <1>3, <1>7
  <2>2. ASSUME NEW k \in DOMAIN next
        PROVE  IF \E i \in Range(CodeOf(program, f, next[k])) : EndsNode(i)
               THEN IsFirst(succ[k], f, next[k]) ELSE IsBehind(succ[k], f, next[k])
    <3>1. succ[k] = graph.lookups[f].bbs[next[k]] /\ next[k] \in DOMAIN program[f].blocks
      BY <1>4, <2>1
    <3> QED
      BY <1>1, <1>2, <3>1, PlaceOfBlock
  <2>3. DOMAIN succ = DOMAIN next
    BY <2>1
  <2> QED
    BY <1>2, <1>5, <1>7, <2>2, <2>3
<1> QED
  BY <1>6, <1>7

LEMMA MirrorFact == GraphInv => GraphMirrorsProgram
BY SharedCode, EdgesFact DEF GraphMirrorsProgram

----------------------------------------------------------------------------
(* What can be reached.                                                     *)

\* What next leads to, and what V says of that.
Reach(N, next, V) == [u \in N |-> next[u] \cup UNION {V[x] : x \in next[u]}]

\* The steps of Reachable, one more than it takes.
Reaches(N, next, V) ==
    /\ V[0] = [u \in N |-> {}]
    /\ \A k \in 0 .. Cardinality(N) : V[k + 1] = Reach(N, next, V[k])
    /\ \A k \in 0 .. Cardinality(N) + 1 : V[k] \in [N -> SUBSET N]
    /\ Reachable(N, next) = V[Cardinality(N)]

\* There are the sets that Reachable takes in turn.
LEMMA ReachesFact ==
    ASSUME NEW N, IsFiniteSet(N), NEW next \in [N -> SUBSET N]
    PROVE  \E V : Reaches(N, next, V)
<1> DEFINE n == Cardinality(N)
           T == [N -> SUBSET N]
           empty == [u \in N |-> {}]
           g == [k \in 1 .. n + 1 |-> [W \in T |-> Reach(N, next, W)]]
           reach == CHOOSE r :
                       r = [k \in 0 .. n |->
                               IF k = 0 THEN [u \in N |-> {}] ELSE Reach(N, next, r[k - 1])]
<1>1. n \in Nat
  BY FS_CardinalityType
<1>2. ASSUME NEW W \in T PROVE Reach(N, next, W) \in T
  BY DEF Reach
<1>3. empty \in T
  OBVIOUS
<1> HIDE DEF T, n
<1>4. \A k \in 1 .. n + 1 : \A W \in T : g[k][W] = Reach(N, next, W)
  OBVIOUS
<1> HIDE DEF g, empty
<1>5. PICK V : Follows(V, empty, n + 1, g)
  <2>1. n + 1 \in Nat
    BY <1>1
  <2> QED
    BY <2>1, Recursion
<1>6. /\ V = [k \in 0 .. n + 1 |-> V[k]]
      /\ V[0] = empty /\ \A k \in 1 .. n + 1 : V[k] = g[k][V[k - 1]]
  BY <1>5 DEF Follows
<1> DEFINE P == {k \in Nat : k <= n + 1 => V[k] \in T}
<1>7. 0 \in P
  BY <1>3, <1>6
<1>8. ASSUME NEW k \in Nat, k \in P PROVE k + 1 \in P
  <2>1. SUFFICES ASSUME k + 1 <= n + 1 PROVE V[k + 1] \in T
    OBVIOUS
  <2>2. k + 1 \in 1 .. n + 1 /\ (k + 1) - 1 = k /\ V[k] \in T
    BY <1>1, <1>8, <2>1
  <2> HIDE DEF P
  <2>3. V[k + 1] = Reach(N, next, V[k])
    <3>1. \A j \in 1 .. n + 1 : V[j - 1] \in T => V[j] = Reach(N, next, V[j - 1])
      BY <1>4, <1>6
    <3> QED
      BY <2>2, <3>1, Zenon
  <2> QED
    BY <1>2, <2>2, <2>3
<1>9. \A k \in Nat : k \in P
  <2> HIDE DEF P
  <2> QED
    BY <1>7, <1>8, Induction
<1>10. \A k \in 0 .. n + 1 : V[k] \in T
  BY <1>1, <1>9
<1> HIDE DEF P
<1>11. ASSUME NEW k \in 0 .. n PROVE V[k + 1] = Reach(N, next, V[k])
  <2>1. k + 1 \in 1 .. n + 1 /\ (k + 1) - 1 = k /\ k \in 0 .. n + 1
    BY <1>1
  <2> QED
    BY <1>4, <1>6, <1>10, <2>1
<1> DEFINE W == [k \in 0 .. n |-> V[k]]
<1>12. W = [k \in 0 .. n |->
               IF k = 0 THEN [u \in N |-> {}] ELSE Reach(N, next, W[k - 1])]
  <2>1. ASSUME NEW k \in 0 .. n
        PROVE  V[k] = IF k = 0 THEN [u \in N |-> {}] ELSE Reach(N, next, W[k - 1])
    <3>1. CASE k = 0
      BY <1>6, <3>1 DEF empty
    <3>2. CASE k # 0
      <4>1. k - 1 \in 0 .. n /\ (k - 1) + 1 = k
        BY <1>1, <3>2
      <4>2. V[k] = Reach(N, next, V[k - 1]) /\ W[k - 1] = V[k - 1]
        BY <1>11, <4>1
      <4> QED
        BY <3>2, <4>2
    <3> QED
      BY <3>1, <3>2
  <2> QED
    BY <2>1
<1> HIDE DEF W
<1>13. reach = [k \in 0 .. n |->
                   IF k = 0 THEN [u \in N |-> {}] ELSE Reach(N, next, reach[k - 1])]
  BY <1>12, Zenon
<1>14. Reachable(N, next) = reach[n]
  BY DEF Reachable, Reach, n
<1> HIDE DEF reach
<1> DEFINE Q == {k \in Nat : k <= n => reach[k] = V[k]}
<1>15. 0 \in Q
  BY <1>1, <1>6, <1>13 DEF empty
<1>16. ASSUME NEW k \in Nat, k \in Q PROVE k + 1 \in Q
  <2>1. SUFFICES ASSUME k + 1 <= n PROVE reach[k + 1] = V[k + 1]
    OBVIOUS
  <2>2. k + 1 \in 0 .. n /\ k + 1 # 0 /\ (k + 1) - 1 = k /\ reach[k] = V[k] /\ k \in 0 .. n
    BY <1>1, <1>16, <2>1
  <2> HIDE DEF Q
  <2>3. reach[k + 1] = Reach(N, next, reach[k])
    BY <1>13, <2>2
  <2>4. V[k + 1] = Reach(N, next, V[k])
    BY <1>11, <2>2
  <2> QED
    BY <2>2, <2>3, <2>4
<1>17. n \in Q
  <2> HIDE DEF Q
  <2> QED
    BY <1>1, <1>15, <1>16, Induction
<1>18. Reachable(N, next) = V[n]
  BY <1>1, <1>14, <1>17
<1> QED
  BY <1>6, <1>10, <1>11, <1>18 DEF Reaches, n, T, empty

\* What can be reached is reached in as many steps as there are nodes.
LEMMA ReachesAll ==
    ASSUME NEW N, IsFiniteSet(N), NEW next \in [N -> SUBSET N], NEW V, Reaches(N, next, V),
           NEW u \in N
    PROVE  Reachable(N, next)[u] =
               next[u] \cup UNION {Reachable(N, next)[x] : x \in next[u]}
<1> DEFINE n == Cardinality(N)
<1>1. n \in Nat
  BY FS_CardinalityType
<1>2. /\ V[0] = [w \in N |-> {}]
      /\ \A k \in 0 .. n : V[k + 1] = Reach(N, next, V[k])
      /\ \A k \in 0 .. n + 1 : V[k] \in [N -> SUBSET N]
      /\ Reachable(N, next) = V[n]
  BY DEF Reaches
<1> HIDE DEF n
<1>3. ASSUME NEW v \in N PROVE v \in V[n + 1][u] => v \in V[n][u]
  <2> DEFINE T(k) == {w \in N : v \in V[k][w]}
             P == {k \in Nat : k <= n => (T(k) = T(k + 1) \/ Cardinality(T(k)) >= k)}
  <2>1. ASSUME NEW k \in 0 .. n
        PROVE  T(k + 1) = {w \in N : v \in next[w] \/ \E x \in next[w] : x \in T(k)}
    <3>1. V[k + 1] = Reach(N, next, V[k])
      BY <1>2
    <3>2. \A w \in N : v \in V[k + 1][w] <=> v \in next[w] \/ \E x \in next[w] : v \in V[k][x]
      BY <3>1 DEF Reach
    <3>3. \A w \in N : \A x \in next[w] : x \in N
      OBVIOUS
    <3> QED
      BY <3>2, <3>3
  <2>2. ASSUME NEW k \in 0 .. n + 1
        PROVE  IsFiniteSet(T(k)) /\ Cardinality(T(k)) \in Nat /\ Cardinality(T(k)) <= n
    <3>1. T(k) \in SUBSET N
      OBVIOUS
    <3> HIDE DEF T
    <3> QED
      BY <3>1, FS_Subset, FS_CardinalityType DEF n
  <2>3. ASSUME NEW k \in Nat, k <= n PROVE T(k) \subseteq T(k + 1)
    <3> DEFINE M == {i \in Nat : i <= n => T(i) \subseteq T(i + 1)}
    <3>1. 0 \in M
      BY <1>2
    <3>2. ASSUME NEW i \in Nat, i \in M PROVE i + 1 \in M
      <4>1. SUFFICES ASSUME i + 1 <= n PROVE T(i + 1) \subseteq T((i + 1) + 1)
        OBVIOUS
      <4>2. i \in 0 .. n /\ i + 1 \in 0 .. n /\ T(i) \subseteq T(i + 1)
        BY <1>1, <3>2, <4>1
      <4> HIDE DEF M
      <4>3. /\ T(i + 1) = {w \in N : v \in next[w] \/ \E x \in next[w] : x \in T(i)}
            /\ T((i + 1) + 1) = {w \in N : v \in next[w] \/ \E x \in next[w] : x \in T(i + 1)}
        BY <2>1, <4>2
      <4> HIDE DEF T
      <4> QED
        BY <4>2, <4>3
    <3>3. \A i \in Nat : i \in M
      <4> HIDE DEF M
      <4> QED
        BY <3>1, <3>2, Induction
    <3> QED
      BY <2>3, <3>3
  <2>4. 0 \in P
    <3>1. 0 \in 0 .. n + 1
      BY <1>1
    <3>2. Cardinality(T(0)) \in Nat
      BY <2>2, <3>1
    <3> HIDE DEF T
    <3> QED
      BY <3>2
  <2>5. ASSUME NEW k \in Nat, k \in P PROVE k + 1 \in P
    <3>1. SUFFICES ASSUME k + 1 <= n
                   PROVE  T(k + 1) = T((k + 1) + 1) \/ Cardinality(T(k + 1)) >= k + 1
      OBVIOUS
    <3>2. /\ k \in 0 .. n /\ k + 1 \in 0 .. n /\ k \in 0 .. n + 1 /\ k + 1 \in 0 .. n + 1
          /\ T(k) = T(k + 1) \/ Cardinality(T(k)) >= k
      BY <1>1, <2>5, <3>1
    <3> HIDE DEF P
    <3>3. CASE T(k) = T(k + 1)
      <4>1. /\ T(k + 1) = {w \in N : v \in next[w] \/ \E x \in next[w] : x \in T(k)}
            /\ T((k + 1) + 1) = {w \in N : v \in next[w] \/ \E x \in next[w] : x \in T(k + 1)}
        BY <2>1, <3>2
      <4> HIDE DEF T
      <4> QED
        BY <3>3, <4>1
    <3>4. CASE T(k) # T(k + 1)
      <4>1. T(k) \subseteq T(k + 1)
        BY <2>3, <3>2
      <4>2. /\ IsFiniteSet(T(k + 1)) /\ Cardinality(T(k)) \in Nat /\ Cardinality(T(k + 1)) \in Nat
        BY <2>2, <3>2
      <4> HIDE DEF T
      <4>3. T(k) \in SUBSET T(k + 1)
        BY <4>1
      <4>4. Cardinality(T(k)) <= Cardinality(T(k + 1)) /\ Cardinality(T(k)) # Cardinality(T(k + 1))
        BY <3>4, <4>2, <4>3, FS_Subset
      <4> QED
        BY <3>2, <3>4, <4>2, <4>4
    <3> QED
      BY <3>3, <3>4
  <2>6. \A k \in Nat : k \in P
    <3> HIDE DEF P
    <3> QED
      BY <2>4, <2>5, Induction
  <2>7. T(n) = T(n + 1) \/ Cardinality(T(n)) >= n
    BY <1>1, <2>6
  <2>8. CASE Cardinality(T(n)) >= n
    <3>1. T(n) \in SUBSET N /\ n \in 0 .. n + 1
      BY <1>1
    <3>2. Cardinality(T(n)) = n
      BY <1>1, <2>2, <2>8, <3>1
    <3>3. T(n) = N
      <4> HIDE DEF T
      <4> QED
        BY <3>1, <3>2, FS_Subset DEF n
    <3> QED
      BY <3>3
  <2>9. CASE T(n) = T(n + 1)
    BY <2>9
  <2> QED
    BY <2>7, <2>8, <2>9
<1>4. V[n][u] \subseteq V[n + 1][u]
  <2> DEFINE M == {i \in Nat : i <= n => \A w \in N : V[i][w] \subseteq V[i + 1][w]}
  <2>1. 0 \in M
    BY <1>2
  <2>2. ASSUME NEW i \in Nat, i \in M PROVE i + 1 \in M
    <3>1. SUFFICES ASSUME i + 1 <= n, NEW w \in N PROVE V[i + 1][w] \subseteq V[(i + 1) + 1][w]
      OBVIOUS
    <3>2. i \in 0 .. n /\ i + 1 \in 0 .. n /\ \A x \in N : V[i][x] \subseteq V[i + 1][x]
      BY <1>1, <2>2, <3>1
    <3> HIDE DEF M
    <3>3. /\ V[i + 1][w] = next[w] \cup UNION {V[i][x] : x \in next[w]}
          /\ V[(i + 1) + 1][w] = next[w] \cup UNION {V[i + 1][x] : x \in next[w]}
      <4>1. V[i + 1] = Reach(N, next, V[i]) /\ V[(i + 1) + 1] = Reach(N, next, V[i + 1])
        BY <1>2, <3>2
      <4> QED
        BY <4>1 DEF Reach
    <3>4. \A x \in next[w] : x \in N
      OBVIOUS
    <3> QED
      BY <3>2, <3>3, <3>4
  <2>3. n \in M
    <3> HIDE DEF M
    <3> QED
      BY <1>1, <2>1, <2>2, Induction
  <2> QED
    BY <1>1, <2>3
<1>5. V[n + 1][u] = next[u] \cup UNION {V[n][x] : x \in next[u]} /\ V[n + 1][u] \subseteq N
  <2>1. n \in 0 .. n /\ n + 1 \in 0 .. n + 1
    BY <1>1
  <2> QED
    BY <1>2, <2>1 DEF Reach
<1>6. V[n][u] = V[n + 1][u]
  BY <1>3, <1>4, <1>5
<1> QED
  BY <1>2, <1>5, <1>6

\* S leads to nothing outside it.
Closed(S, next) == \A u \in S : next[u] \subseteq S

\* Reachable is the least relation that contains next and goes on by next.
LEMMA ReachableFact ==
    ASSUME NEW N, IsFiniteSet(N), NEW next \in [N -> SUBSET N]
    PROVE  LET R == Reachable(N, next) IN
           /\ R \in [N -> SUBSET N]
           /\ \A u \in N : next[u] \subseteq R[u]
           /\ \A u \in N : \A x \in next[u] : R[x] \subseteq R[u]
           /\ \A u \in N : \A x \in R[u] : R[x] \subseteq R[u]
           /\ \A S \in SUBSET N : \A X :
                 /\ Closed(S, next)
                 /\ \A u \in S : next[u] \subseteq X[u] /\ \A x \in next[u] : X[x] \subseteq X[u]
                 => \A u \in S : R[u] \subseteq X[u]
<1> DEFINE n == Cardinality(N)
           R == Reachable(N, next)
<1>1. n \in Nat
  BY FS_CardinalityType
<1>2. PICK V : Reaches(N, next, V)
  BY ReachesFact
<1>3. /\ V[0] = [w \in N |-> {}]
      /\ \A k \in 0 .. n : V[k + 1] = Reach(N, next, V[k])
      /\ \A k \in 0 .. n + 1 : V[k] \in [N -> SUBSET N]
      /\ R = V[n]
  BY <1>2 DEF Reaches
<1>4. \A u \in N : R[u] = next[u] \cup UNION {R[x] : x \in next[u]}
  BY <1>2, ReachesAll
<1> HIDE DEF R, n
<1>5. R \in [N -> SUBSET N]
  BY <1>1, <1>3
<1>6. \A u \in N : next[u] \subseteq R[u]
  BY <1>4
<1>7. \A u \in N : \A x \in next[u] : R[x] \subseteq R[u]
  BY <1>4
<1>8. ASSUME NEW S \in SUBSET N, NEW X, Closed(S, next),
             \A u \in S : next[u] \subseteq X[u] /\ \A x \in next[u] : X[x] \subseteq X[u]
      PROVE  \A u \in S : R[u] \subseteq X[u]
  <2> DEFINE P == {k \in Nat : k <= n => \A u \in S : V[k][u] \subseteq X[u]}
  <2>1. 0 \in P
    BY <1>3
  <2>2. ASSUME NEW k \in Nat, k \in P PROVE k + 1 \in P
    <3>1. SUFFICES ASSUME k + 1 <= n, NEW u \in S PROVE V[k + 1][u] \subseteq X[u]
      OBVIOUS
    <3>2. k \in 0 .. n /\ \A w \in S : V[k][w] \subseteq X[w]
      BY <1>1, <2>2, <3>1
    <3> HIDE DEF P
    <3>3. V[k + 1][u] = next[u] \cup UNION {V[k][x] : x \in next[u]}
      <4>1. V[k + 1] = Reach(N, next, V[k])
        BY <1>3, <3>2
      <4>2. u \in N
        OBVIOUS
      <4> QED
        BY <4>1, <4>2 DEF Reach
    <3>4. \A x \in next[u] : x \in S /\ V[k][x] \subseteq X[x] /\ X[x] \subseteq X[u]
      BY <1>8, <3>2 DEF Closed
    <3> QED
      BY <1>8, <3>3, <3>4
  <2>3. n \in P
    <3> HIDE DEF P
    <3> QED
      BY <1>1, <2>1, <2>2, Induction
  <2> QED
    BY <1>1, <1>3, <2>3
<1>9. ASSUME NEW u \in N, NEW x \in R[u] PROVE R[x] \subseteq R[u]
  <2> DEFINE X == [w \in N |-> {y \in R[w] : R[y] \subseteq R[w]}]
  <2>1. \A w \in N : \A y : y \in X[w] <=> y \in R[w] /\ R[y] \subseteq R[w]
    OBVIOUS
  <2>2. N \in SUBSET N /\ Closed(N, next) /\ \A w \in N : \A y \in next[w] : y \in N
    BY DEF Closed
  <2> HIDE DEF X
  <2>3. ASSUME NEW w \in N
        PROVE  next[w] \subseteq X[w] /\ \A y \in next[w] : X[y] \subseteq X[w]
    <3>1. next[w] \subseteq X[w]
      BY <1>6, <1>7, <2>1
    <3>2. ASSUME NEW y \in next[w], NEW z \in X[y] PROVE z \in X[w]
      <4>1. z \in R[y] /\ R[z] \subseteq R[y] /\ R[y] \subseteq R[w]
        BY <1>7, <2>1, <2>2
      <4> QED
        BY <2>1, <4>1
    <3> QED
      BY <3>1, <3>2
  <2>4. \A w \in N : R[w] \subseteq X[w]
    BY <1>8, <2>2, <2>3
  <2> QED
    BY <2>1, <2>4
<1> QED
  BY <1>5, <1>6, <1>7, <1>8, <1>9 DEF R

----------------------------------------------------------------------------
(* Cheapest walks.                                                          *)

Costs == 0 .. Infinity

\* One more edge, then what V says.
Extended(N, c, V) ==
    [u \in N |-> [v \in N |->
        Min({Infinity} \cup c[u][v] \cup UNION {{d + V[x][v] : d \in c[u][x]} : x \in N})]]

Weights(N, c) == c \in [N -> [N -> SUBSET (Nat \ {0})]]
Typed(N, V) == V \in [N -> [N -> Costs]]

\* What another edge makes of costs.
LEMMA ExtendedFact ==
    ASSUME NEW N, NEW c, Weights(N, c), NEW V, Typed(N, V)
    PROVE  LET W == Extended(N, c, V) IN
           /\ Typed(N, W)
           /\ \A u, v \in N :
                 /\ \A d \in c[u][v] : W[u][v] <= d
                 /\ \A x \in N : \A d \in c[u][x] : W[u][v] <= d + V[x][v]
                 /\ \/ W[u][v] = Infinity
                    \/ W[u][v] \in c[u][v]
                    \/ \E x \in N : \E d \in c[u][x] : W[u][v] = d + V[x][v]
<1> DEFINE W == Extended(N, c, V)
           S(u, v) == {Infinity} \cup c[u][v] \cup UNION {{d + V[x][v] : d \in c[u][x]} : x \in N}
<1>1. Infinity \in Nat
  BY InfinityAssumption
<1>2. ASSUME NEW u \in N, NEW v \in N
      PROVE  /\ S(u, v) \in SUBSET Nat /\ Infinity \in S(u, v)
             /\ \A d \in c[u][v] : d \in S(u, v)
             /\ \A x \in N : \A d \in c[u][x] : d + V[x][v] \in S(u, v)
             /\ \A s \in S(u, v) :
                   \/ s = Infinity
                   \/ s \in c[u][v]
                   \/ \E x \in N : \E d \in c[u][x] : s = d + V[x][v]
  <2>1. c[u][v] \in SUBSET Nat
    BY DEF Weights
  <2>2. \A x \in N : \A d \in c[u][x] : d \in Nat /\ V[x][v] \in Nat
    BY <1>1 DEF Weights, Typed, Costs
  <2>3. ASSUME NEW x \in N, NEW d \in c[u][x] PROVE d + V[x][v] \in Nat
    BY <2>2
  <2>4. \A s \in S(u, v) :
            \/ s = Infinity
            \/ s \in c[u][v]
            \/ \E x \in N : \E d \in c[u][x] : s = d + V[x][v]
    OBVIOUS
  <2>5. S(u, v) \in SUBSET Nat
    <3> HIDE DEF S
    <3> QED
      BY <1>1, <2>1, <2>3, <2>4
  <2>6. \A x \in N : \A d \in c[u][x] : d + V[x][v] \in S(u, v)
    OBVIOUS
  <2>7. Infinity \in S(u, v) /\ \A d \in c[u][v] : d \in S(u, v)
    OBVIOUS
  <2> QED
    BY <2>4, <2>5, <2>6, <2>7
<1>3. /\ W = [u \in N |-> W[u]]
      /\ \A u \in N : W[u] = [v \in N |-> W[u][v]]
      /\ \A u, v \in N : W[u][v] = Min(S(u, v))
  BY DEF Extended
<1> HIDE DEF W, S
<1>4. ASSUME NEW u \in N, NEW v \in N
      PROVE  W[u][v] \in S(u, v) /\ \A s \in S(u, v) : W[u][v] <= s
  BY <1>2, <1>3, MinFact
<1>5. \A u, v \in N : W[u][v] \in Costs
  BY <1>1, <1>2, <1>4 DEF Costs
<1>6. Typed(N, W)
  <2>1. \A u \in N : W[u] \in [N -> Costs]
    BY <1>3, <1>5
  <2> QED
    BY <1>3, <2>1 DEF Typed
<1> QED
  BY <1>2, <1>4, <1>6 DEF W

\* The steps of CheapestWalks, one more than it takes.
Walks(N, c, V) ==
    /\ V[0] = [u \in N |-> [v \in N |-> Infinity]]
    /\ \A k \in 0 .. Cardinality(N) : V[k + 1] = Extended(N, c, V[k])
    /\ \A k \in 0 .. Cardinality(N) + 1 : Typed(N, V[k])
    /\ CheapestWalks(N, c) = V[Cardinality(N)]

\* There are the costs that CheapestWalks takes in turn.
LEMMA WalksExist ==
    ASSUME NEW N, IsFiniteSet(N), NEW c, Weights(N, c)
    PROVE  \E V : Walks(N, c, V)
<1> DEFINE n == Cardinality(N)
           T == [N -> [N -> Costs]]
           none == [u \in N |-> [v \in N |-> Infinity]]
           g == [k \in 1 .. n + 1 |-> [W \in T |-> Extended(N, c, W)]]
           walks == CHOOSE r :
                       r = [k \in 0 .. n |->
                               IF k = 0 THEN [u \in N |-> [v \in N |-> Infinity]]
                               ELSE Extended(N, c, r[k - 1])]
<1>1. n \in Nat
  BY FS_CardinalityType
<1>2. ASSUME NEW W \in T PROVE Extended(N, c, W) \in T
  <2>1. Typed(N, W)
    BY DEF Typed
  <2>2. Typed(N, Extended(N, c, W))
    BY <2>1, ExtendedFact
  <2> QED
    BY <2>2 DEF Typed
<1>3. none \in T
  <2>1. Infinity \in Costs
    BY InfinityAssumption DEF Costs
  <2> QED
    BY <2>1
<1>0. \A W : W \in T <=> Typed(N, W)
  BY DEF Typed
<1> HIDE DEF T, n
<1>4. \A k \in 1 .. n + 1 : \A W \in T : g[k][W] = Extended(N, c, W)
  OBVIOUS
<1> HIDE DEF g, none
<1>5. PICK V : Follows(V, none, n + 1, g)
  <2>1. n + 1 \in Nat
    BY <1>1
  <2> QED
    BY <2>1, Recursion
<1>6. /\ V = [k \in 0 .. n + 1 |-> V[k]]
      /\ V[0] = none /\ \A k \in 1 .. n + 1 : V[k] = g[k][V[k - 1]]
  BY <1>5 DEF Follows
<1> DEFINE P == {k \in Nat : k <= n + 1 => V[k] \in T}
<1>7. 0 \in P
  BY <1>3, <1>6
<1>8. ASSUME NEW k \in Nat, k \in P PROVE k + 1 \in P
  <2>1. SUFFICES ASSUME k + 1 <= n + 1 PROVE V[k + 1] \in T
    OBVIOUS
  <2>2. k + 1 \in 1 .. n + 1 /\ (k + 1) - 1 = k /\ V[k] \in T
    BY <1>1, <1>8, <2>1
  <2> HIDE DEF P
  <2>3. V[k + 1] = Extended(N, c, V[k])
    <3>1. \A j \in 1 .. n + 1 : V[j - 1] \in T => V[j] = Extended(N, c, V[j - 1])
      BY <1>4, <1>6
    <3> QED
      BY <2>2, <3>1, Zenon
  <2> QED
    BY <1>2, <2>2, <2>3
<1>9. \A k \in Nat : k \in P
  <2> HIDE DEF P
  <2> QED
    BY <1>7, <1>8, Induction
<1>10. \A k \in 0 .. n + 1 : V[k] \in T
  BY <1>1, <1>9
<1> HIDE DEF P
<1>11. ASSUME NEW k \in 0 .. n PROVE V[k + 1] = Extended(N, c, V[k])
  <2>1. k + 1 \in 1 .. n + 1 /\ (k + 1) - 1 = k /\ k \in 0 .. n + 1
    BY <1>1
  <2> QED
    <3>1. \A j \in 1 .. n + 1 : V[j - 1] \in T => V[j] = Extended(N, c, V[j - 1])
      BY <1>4, <1>6
    <3>2. V[k] \in T
      BY <1>10, <2>1
    <3> QED
      BY <2>1, <3>1, <3>2, Zenon
<1> DEFINE W == [k \in 0 .. n |-> V[k]]
<1>12. W = [k \in 0 .. n |->
               IF k = 0 THEN [u \in N |-> [v \in N |-> Infinity]]
               ELSE Extended(N, c, W[k - 1])]
  <2>1. ASSUME NEW k \in 0 .. n
        PROVE  V[k] = IF k = 0 THEN [u \in N |-> [v \in N |-> Infinity]]
                      ELSE Extended(N, c, W[k - 1])
    <3>1. CASE k = 0
      BY <1>6, <3>1 DEF none
    <3>2. CASE k # 0
      <4>1. k - 1 \in 0 .. n /\ (k - 1) + 1 = k
        BY <1>1, <3>2
      <4>2. V[k] = Extended(N, c, V[k - 1]) /\ W[k - 1] = V[k - 1]
        BY <1>11, <4>1
      <4> QED
        BY <3>2, <4>2
    <3> QED
      BY <3>1, <3>2
  <2> QED
    BY <2>1
<1> HIDE DEF W
<1>13. walks = [k \in 0 .. n |->
                   IF k = 0 THEN [u \in N |-> [v \in N |-> Infinity]]
                   ELSE Extended(N, c, walks[k - 1])]
  BY <1>12, Zenon
<1>14. CheapestWalks(N, c) = walks[n]
  BY DEF CheapestWalks, Extended, n
<1> HIDE DEF walks
<1> DEFINE Q == {k \in Nat : k <= n => walks[k] = V[k]}
<1>15. 0 \in Q
  BY <1>1, <1>6, <1>13 DEF none
<1>16. ASSUME NEW k \in Nat, k \in Q PROVE k + 1 \in Q
  <2>1. SUFFICES ASSUME k + 1 <= n PROVE walks[k + 1] = V[k + 1]
    OBVIOUS
  <2>2. k + 1 \in 0 .. n /\ k + 1 # 0 /\ (k + 1) - 1 = k /\ walks[k] = V[k] /\ k \in 0 .. n
    BY <1>1, <1>16, <2>1
  <2> HIDE DEF Q
  <2>3. walks[k + 1] = Extended(N, c, walks[k])
    BY <1>13, <2>2
  <2>4. V[k + 1] = Extended(N, c, V[k])
    BY <1>11, <2>2
  <2> QED
    BY <2>2, <2>3, <2>4
<1>17. n \in Q
  <2> HIDE DEF Q
  <2> QED
    BY <1>1, <1>15, <1>16, Induction
<1>18. CheapestWalks(N, c) = V[n]
  BY <1>1, <1>14, <1>17
<1>19. V[0] = [u \in N |-> [v \in N |-> Infinity]]
  BY <1>6 DEF none
<1> QED
  BY <1>0, <1>10, <1>11, <1>18, <1>19 DEF Walks, n

\* Longer walks are no cheaper than those with as many edges as there are nodes.
LEMMA WalksAll ==
    ASSUME NEW N, IsFiniteSet(N), NEW c, Weights(N, c), NEW V, Walks(N, c, V), NEW v \in N
    PROVE  \A u \in N : V[Cardinality(N) + 1][u][v] = V[Cardinality(N)][u][v]
<1> DEFINE n == Cardinality(N)
           B(k, u) == V[k][u][v]
           T(k) == {u \in N : B(k, u) = B(n + 1, u)}
<1>1. n \in Nat
  BY FS_CardinalityType
<1>2. ASSUME NEW k \in 0 .. n + 1, NEW u \in N PROVE B(k, u) \in Nat /\ B(k, u) <= Infinity
  <2>1. Typed(N, V[k])
    BY DEF Walks
  <2> QED
    BY <2>1, InfinityAssumption DEF Typed, Costs
<1>3. \A u \in N : B(0, u) = Infinity
  BY DEF Walks
<1>4. ASSUME NEW k \in 0 .. n, NEW u \in N
      PROVE  /\ \A d \in c[u][v] : B(k + 1, u) <= d
             /\ \A x \in N : \A d \in c[u][x] : B(k + 1, u) <= d + B(k, x)
             /\ \/ B(k + 1, u) = Infinity
                \/ B(k + 1, u) \in c[u][v]
                \/ \E x \in N : \E d \in c[u][x] : B(k + 1, u) = d + B(k, x)
  <2>1. k \in 0 .. n + 1 /\ Typed(N, V[k])
    BY <1>1 DEF Walks
  <2>2. V[k + 1] = Extended(N, c, V[k])
    BY DEF Walks
  <2> DEFINE W == Extended(N, c, V[k])
  <2>3. /\ \A d \in c[u][v] : W[u][v] <= d
        /\ \A x \in N : \A d \in c[u][x] : W[u][v] <= d + V[k][x][v]
        /\ \/ W[u][v] = Infinity
           \/ W[u][v] \in c[u][v]
           \/ \E x \in N : \E d \in c[u][x] : W[u][v] = d + V[k][x][v]
    BY <2>1, ExtendedFact
  <2> QED
    BY <2>2, <2>3
<1>5. \A u, x \in N : \A d \in c[u][x] : d \in Nat \ {0}
  BY DEF Weights
<1> HIDE DEF n, B
<1>6. ASSUME NEW k \in Nat, k <= n, NEW u \in N PROVE B(k + 1, u) <= B(k, u)
  <2> DEFINE M == {i \in Nat : i <= n => \A w \in N : B(i + 1, w) <= B(i, w)}
  <2>1. 0 \in M
    <3>1. ASSUME NEW w \in N PROVE B(0 + 1, w) <= B(0, w)
      <4>1. 0 + 1 \in 0 .. n + 1
        BY <1>1
      <4> QED
        BY <1>2, <1>3, <4>1
    <3> QED
      BY <3>1
  <2>2. ASSUME NEW i \in Nat, i \in M PROVE i + 1 \in M
    <3>1. SUFFICES ASSUME i + 1 <= n, NEW w \in N PROVE B((i + 1) + 1, w) <= B(i + 1, w)
      OBVIOUS
    <3>2. i \in 0 .. n /\ i + 1 \in 0 .. n /\ (i + 1) + 1 \in 0 .. n + 1
          /\ i \in 0 .. n + 1 /\ i + 1 \in 0 .. n + 1
          /\ \A x \in N : B(i + 1, x) <= B(i, x)
      BY <1>1, <2>2, <3>1
    <3> HIDE DEF M
    <3>3. B((i + 1) + 1, w) \in Nat /\ B((i + 1) + 1, w) <= Infinity
      BY <1>2, <3>2
    <3>4. CASE B(i + 1, w) = Infinity
      BY <3>3, <3>4
    <3>5. CASE B(i + 1, w) \in c[w][v]
      BY <1>4, <3>2, <3>5
    <3>6. CASE \E x \in N : \E d \in c[w][x] : B(i + 1, w) = d + B(i, x)
      <4>0. PICK x \in N : \E d \in c[w][x] : B(i + 1, w) = d + B(i, x)
        BY <3>6
      <4>1. PICK d \in c[w][x] : B(i + 1, w) = d + B(i, x)
        BY <4>0
      <4>2. B((i + 1) + 1, w) <= d + B(i + 1, x)
        BY <1>4, <3>2
      <4>3. /\ B(i + 1, x) <= B(i, x) /\ B(i + 1, x) \in Nat /\ B(i, x) \in Nat /\ d \in Nat
        BY <1>2, <1>5, <3>2
      <4> QED
        BY <3>3, <4>1, <4>2, <4>3
    <3> QED
      BY <1>4, <3>2, <3>4, <3>5, <3>6
  <2>3. \A i \in Nat : i \in M
    <3> HIDE DEF M
    <3> QED
      BY <2>1, <2>2, Induction
  <2> QED
    BY <1>6, <2>3
<1>7. ASSUME NEW k \in Nat, k <= n + 1, NEW u \in N PROVE B(n + 1, u) <= B(k, u)
  <2> DEFINE M == {i \in Nat : i <= n + 1 => B(n + 1, u) <= B((n + 1) - i, u)}
  <2>1. 0 \in M
    <3>1. n + 1 \in 0 .. n + 1 /\ (n + 1) - 0 = n + 1
      BY <1>1
    <3>2. B(n + 1, u) \in Nat
      BY <1>2, <3>1
    <3> QED
      BY <3>1, <3>2
  <2>2. ASSUME NEW i \in Nat, i \in M PROVE i + 1 \in M
    <3>1. SUFFICES ASSUME i + 1 <= n + 1 PROVE B(n + 1, u) <= B((n + 1) - (i + 1), u)
      OBVIOUS
    <3> DEFINE j == (n + 1) - (i + 1)
    <3>2. j \in Nat /\ j <= n /\ j + 1 = (n + 1) - i /\ j \in 0 .. n + 1 /\ j + 1 \in 0 .. n + 1
          /\ n + 1 \in 0 .. n + 1
      BY <1>1, <3>1
    <3>3. B(n + 1, u) <= B((n + 1) - i, u)
      BY <1>1, <2>2, <3>1
    <3> HIDE DEF j, M
    <3>4. B(j + 1, u) <= B(j, u)
      BY <1>6, <3>2
    <3>5. B(n + 1, u) \in Nat /\ B(j, u) \in Nat /\ B(j + 1, u) \in Nat
      BY <1>2, <3>2
    <3>6. B(n + 1, u) <= B(j + 1, u)
      BY <3>2, <3>3
    <3>7. B(n + 1, u) <= B(j, u)
      BY <3>4, <3>5, <3>6
    <3> QED
      BY <3>7 DEF j
  <2>3. \A i \in Nat : i \in M
    <3> HIDE DEF M
    <3> QED
      BY <2>1, <2>2, Induction
  <2>4. (n + 1) - k \in Nat /\ (n + 1) - k <= n + 1 /\ (n + 1) - ((n + 1) - k) = k
    BY <1>1, <1>7
  <2>5. (n + 1) - k \in M
    BY <2>3, <2>4
  <2> QED
    BY <2>4, <2>5
<1>8. ASSUME NEW k \in 0 .. n PROVE T(k) \subseteq T(k + 1)
  <2>1. SUFFICES ASSUME NEW u \in N, B(k, u) = B(n + 1, u) PROVE B(k + 1, u) = B(n + 1, u)
    OBVIOUS
  <2>2. /\ k \in Nat /\ k <= n /\ k + 1 \in Nat /\ k + 1 <= n + 1
        /\ k + 1 \in 0 .. n + 1 /\ n + 1 \in 0 .. n + 1
    BY <1>1
  <2>3. B(k + 1, u) <= B(k, u) /\ B(n + 1, u) <= B(k + 1, u)
    BY <1>6, <1>7, <2>2
  <2>4. B(k + 1, u) \in Nat /\ B(n + 1, u) \in Nat
    BY <1>2, <2>2
  <2> QED
    BY <2>1, <2>3, <2>4
\* The cheapest of those that are not final becomes final.
<1>9. ASSUME NEW k \in 0 .. n, T(k) # N PROVE \E u \in N : u \notin T(k) /\ u \in T(k + 1)
  <2> DEFINE H == {B(n + 1, u) : u \in N \ T(k)}
  <2>0. n + 1 \in 0 .. n + 1 /\ n \in 0 .. n /\ n \in 0 .. n + 1 /\ k \in 0 .. n + 1
        /\ k + 1 \in 0 .. n + 1 /\ k \in Nat /\ k <= n + 1 /\ k + 1 \in Nat /\ k + 1 <= n + 1
        /\ n \in Nat /\ n <= n
    BY <1>1
  <2>1. H \in SUBSET Nat /\ H # {}
    BY <1>2, <1>9, <2>0
  <2>2. PICK h \in H : \A i \in H : h <= i
    <3> HIDE DEF H
    <3> QED
      BY <2>1, LeastNumber
  <2>3. PICK u \in N : u \notin T(k) /\ h = B(n + 1, u)
    BY <2>2
  <2>4. ASSUME NEW x \in N, B(n + 1, x) < B(n + 1, u) PROVE B(k, x) = B(n + 1, x)
    <3>1. CASE x \notin T(k)
      <4>1. B(n + 1, x) \in H
        BY <3>1
      <4>2. B(n + 1, u) <= B(n + 1, x)
        BY <2>2, <2>3, <4>1
      <4>3. B(n + 1, u) \in Nat /\ B(n + 1, x) \in Nat
        BY <1>2, <2>0
      <4> QED
        BY <2>4, <4>2, <4>3
    <3>2. CASE x \in T(k)
      BY <3>2
    <3> QED
      BY <3>1, <3>2
  <2>5. B(k, u) # B(n + 1, u)
    BY <2>3
  <2> HIDE DEF H
  <2>6. B(n + 1, u) < B(k, u) /\ B(k, u) <= Infinity /\ B(k, u) \in Nat /\ B(n + 1, u) \in Nat
        /\ B(k + 1, u) \in Nat /\ B(n + 1, u) <= B(k + 1, u)
    BY <1>2, <1>7, <2>0, <2>5
  <2>7. B(k + 1, u) <= B(n + 1, u)
    <3>1. \/ B(n + 1, u) = Infinity
          \/ B(n + 1, u) \in c[u][v]
          \/ \E x \in N : \E d \in c[u][x] : B(n + 1, u) = d + B(n, x)
      BY <1>4, <2>0
    <3>2. CASE B(n + 1, u) = Infinity
      BY <2>6, <3>2, InfinityAssumption
    <3>3. CASE B(n + 1, u) \in c[u][v]
      BY <1>4, <3>3
    <3>4. CASE \E x \in N : \E d \in c[u][x] : B(n + 1, u) = d + B(n, x)
      <4>0. PICK x \in N : \E d \in c[u][x] : B(n + 1, u) = d + B(n, x)
        BY <3>4
      <4>1. PICK d \in c[u][x] : B(n + 1, u) = d + B(n, x)
        BY <4>0
      <4>2. /\ d \in Nat \ {0} /\ B(n, x) \in Nat /\ B(n + 1, x) \in Nat /\ B(k, x) \in Nat
            /\ B(n + 1, x) <= B(n, x)
        BY <1>2, <1>5, <1>6, <2>0
      <4>3. B(n + 1, x) < B(n + 1, u)
        BY <2>6, <4>1, <4>2
      <4>4. B(k, x) = B(n + 1, x)
        BY <2>4, <4>3
      <4>5. B(k + 1, u) <= d + B(k, x)
        BY <1>4
      <4> QED
        BY <2>6, <4>1, <4>2, <4>4, <4>5
    <3> QED
      BY <3>1, <3>2, <3>3, <3>4
  <2>8. B(k + 1, u) = B(n + 1, u)
    BY <2>6, <2>7
  <2>9. u \in T(k + 1)
    BY <2>8
  <2> QED
    BY <2>3, <2>9
<1>10. ASSUME NEW k \in 0 .. n + 1
       PROVE  T(k) \in SUBSET N /\ IsFiniteSet(T(k)) /\ Cardinality(T(k)) \in Nat
              /\ Cardinality(T(k)) <= n
  <2>1. T(k) \in SUBSET N
    OBVIOUS
  <2> HIDE DEF T
  <2> QED
    BY <2>1, FS_Subset, FS_CardinalityType DEF n
<1> HIDE DEF T
<1> DEFINE P == {k \in Nat : k <= n => (T(k) = N \/ Cardinality(T(k)) >= k)}
<1>11. 0 \in P
  <2>1. 0 \in 0 .. n + 1
    BY <1>1
  <2>2. Cardinality(T(0)) \in Nat
    BY <1>10, <2>1
  <2> QED
    BY <2>2
<1>12. ASSUME NEW k \in Nat, k \in P PROVE k + 1 \in P
  <2>1. SUFFICES ASSUME k + 1 <= n, T(k + 1) # N PROVE Cardinality(T(k + 1)) >= k + 1
    OBVIOUS
  <2>2. /\ k \in 0 .. n /\ k \in 0 .. n + 1 /\ k + 1 \in 0 .. n + 1
        /\ T(k) = N \/ Cardinality(T(k)) >= k
    BY <1>1, <1>12, <2>1
  <2> HIDE DEF P
  <2>3. T(k) \in SUBSET T(k + 1) /\ T(k + 1) \in SUBSET N
    BY <1>8, <1>10, <2>2
  <2>4. T(k) # N
    BY <2>1, <2>3
  <2>5. T(k) # T(k + 1)
    BY <1>9, <2>2, <2>4
  <2>6. IsFiniteSet(T(k + 1)) /\ Cardinality(T(k)) \in Nat /\ Cardinality(T(k + 1)) \in Nat
    BY <1>10, <2>2
  <2>7. Cardinality(T(k)) <= Cardinality(T(k + 1)) /\ Cardinality(T(k)) # Cardinality(T(k + 1))
    BY <2>3, <2>5, <2>6, FS_Subset
  <2> QED
    BY <2>2, <2>4, <2>6, <2>7
<1>13. n \in P
  <2> HIDE DEF P
  <2> QED
    BY <1>1, <1>11, <1>12, Induction
<1>14. T(n) = N
  <2>1. n \in 0 .. n + 1 /\ (T(n) = N \/ Cardinality(T(n)) >= n)
    BY <1>1, <1>13
  <2> HIDE DEF P
  <2>2. CASE Cardinality(T(n)) >= n
    <3>1. T(n) \in SUBSET N /\ Cardinality(T(n)) = n
      BY <1>1, <1>10, <2>1, <2>2
    <3> QED
      BY <3>1, FS_Subset DEF n
  <2> QED
    BY <2>1, <2>2
<1>15. \A u \in N : B(n, u) = B(n + 1, u)
  BY <1>14 DEF T
<1> QED
  BY <1>15 DEF B, n

\* CheapestWalks are the largest costs that no edge can lower.
LEMMA WalksFact ==
    ASSUME NEW N, IsFiniteSet(N), NEW c, Weights(N, c)
    PROVE  LET V == CheapestWalks(N, c) IN
           /\ Typed(N, V)
           /\ \A u, v \in N : \A d \in c[u][v] : V[u][v] <= d
           /\ \A u, v, x \in N : \A d \in c[u][x] : V[u][v] <= d + V[x][v]
           /\ \A S \in SUBSET N, v \in N : \A D :
                 /\ \A u \in S : D[u] \in Costs
                 /\ \A u \in S : \A d \in c[u][v] : D[u] <= d
                 /\ \A u \in S, x \in N : \A d \in c[u][x] : x \in S /\ D[u] <= d + D[x]
                 => \A u \in S : D[u] <= V[u][v]
<1> DEFINE n == Cardinality(N)
           V == CheapestWalks(N, c)
<1>1. n \in Nat
  BY FS_CardinalityType
<1>2. PICK W : Walks(N, c, W)
  BY WalksExist
<1>3. /\ W[0] = [u \in N |-> [v \in N |-> Infinity]]
      /\ \A k \in 0 .. n : W[k + 1] = Extended(N, c, W[k])
      /\ \A k \in 0 .. n + 1 : Typed(N, W[k])
      /\ V = W[n]
  BY <1>2 DEF Walks
<1>4. \A u, v \in N : W[n + 1][u][v] = W[n][u][v]
  BY <1>2, WalksAll
<1>5. ASSUME NEW k \in 0 .. n
      PROVE  \A u, v \in N :
                /\ \A d \in c[u][v] : W[k + 1][u][v] <= d
                /\ \A x \in N : \A d \in c[u][x] : W[k + 1][u][v] <= d + W[k][x][v]
                /\ \/ W[k + 1][u][v] = Infinity
                   \/ W[k + 1][u][v] \in c[u][v]
                   \/ \E x \in N : \E d \in c[u][x] : W[k + 1][u][v] = d + W[k][x][v]
  <2> DEFINE E == Extended(N, c, W[k])
  <2>1. Typed(N, W[k])
    BY <1>1, <1>3
  <2>2. \A u, v \in N :
            /\ \A d \in c[u][v] : E[u][v] <= d
            /\ \A x \in N : \A d \in c[u][x] : E[u][v] <= d + W[k][x][v]
            /\ \/ E[u][v] = Infinity
               \/ E[u][v] \in c[u][v]
               \/ \E x \in N : \E d \in c[u][x] : E[u][v] = d + W[k][x][v]
    BY <2>1, ExtendedFact
  <2>3. W[k + 1] = E
    BY <1>3
  <2> HIDE DEF E
  <2> QED
    BY <2>2, <2>3
<1>6. n \in 0 .. n /\ n \in 0 .. n + 1
  BY <1>1
<1> HIDE DEF n, V
<1>7. Typed(N, V)
  BY <1>3, <1>6
<1>8. \A u, v \in N : /\ \A d \in c[u][v] : V[u][v] <= d
                      /\ \A x \in N : \A d \in c[u][x] : V[u][v] <= d + V[x][v]
  BY <1>3, <1>4, <1>5, <1>6
<1>9. ASSUME NEW S \in SUBSET N, NEW v \in N, NEW D,
             \A u \in S : D[u] \in Costs,
             \A u \in S : \A d \in c[u][v] : D[u] <= d,
             \A u \in S, x \in N : \A d \in c[u][x] : x \in S /\ D[u] <= d + D[x]
      PROVE  \A u \in S : D[u] <= V[u][v]
  <2> DEFINE P == {k \in Nat : k <= n => \A u \in S : D[u] <= W[k][u][v]}
  <2>1. 0 \in P
    <3>1. \A u \in S : W[0][u][v] = Infinity
      BY <1>3
    <3> QED
      BY <1>9, <3>1, InfinityAssumption DEF Costs
  <2>2. ASSUME NEW k \in Nat, k \in P PROVE k + 1 \in P
    <3>1. SUFFICES ASSUME k + 1 <= n, NEW u \in S PROVE D[u] <= W[k + 1][u][v]
      OBVIOUS
    <3>2. k \in 0 .. n /\ k \in 0 .. n + 1 /\ \A x \in S : D[x] <= W[k][x][v]
      BY <1>1, <2>2, <3>1
    <3> HIDE DEF P
    <3>3. \/ W[k + 1][u][v] = Infinity
          \/ W[k + 1][u][v] \in c[u][v]
          \/ \E x \in N : \E d \in c[u][x] : W[k + 1][u][v] = d + W[k][x][v]
      BY <1>5, <3>2
    <3>4. CASE W[k + 1][u][v] = Infinity
      BY <1>9, <3>4, InfinityAssumption DEF Costs
    <3>5. CASE W[k + 1][u][v] \in c[u][v]
      BY <1>9, <3>5
    <3>6. CASE \E x \in N : \E d \in c[u][x] : W[k + 1][u][v] = d + W[k][x][v]
      <4>0. PICK x \in N : \E d \in c[u][x] : W[k + 1][u][v] = d + W[k][x][v]
        BY <3>6
      <4>1. PICK d \in c[u][x] : W[k + 1][u][v] = d + W[k][x][v]
        BY <4>0
      <4>2. x \in S /\ D[u] <= d + D[x]
        BY <1>9
      <4>3. D[x] <= W[k][x][v] /\ D[x] \in Nat /\ D[u] \in Nat /\ d \in Nat
        BY <1>9, <3>2, <4>2, InfinityAssumption DEF Costs, Weights
      <4>4. W[k][x][v] \in Nat
        BY <1>3, <3>2, InfinityAssumption DEF Costs, Typed
      <4> QED
        BY <4>1, <4>2, <4>3, <4>4
    <3> QED
      BY <3>3, <3>4, <3>5, <3>6
  <2>3. n \in P
    <3> HIDE DEF P
    <3> QED
      BY <1>1, <2>1, <2>2, Induction
  <2> QED
    BY <1>1, <1>3, <2>3
<1> QED
  BY <1>7, <1>8, <1>9 DEF V

\* A walk to v and one from there make a walk.
LEMMA WalksJoin ==
    ASSUME NEW N, IsFiniteSet(N), NEW c, Weights(N, c), NEW u \in N, NEW v \in N, NEW w \in N
    PROVE  CheapestWalks(N, c)[u][w] <= CheapestWalks(N, c)[u][v] + CheapestWalks(N, c)[v][w]
<1> DEFINE V == CheapestWalks(N, c)
           D == [x \in N |-> IF V[x][w] >= V[v][w] THEN V[x][w] - V[v][w] ELSE 0]
<1>1. /\ Typed(N, V)
      /\ \A x, y \in N : \A d \in c[x][y] : V[x][y] <= d
      /\ \A x, y, z \in N : \A d \in c[x][z] : V[x][y] <= d + V[z][y]
      /\ \A S \in SUBSET N, y \in N : \A E :
            /\ \A x \in S : E[x] \in Costs
            /\ \A x \in S : \A d \in c[x][y] : E[x] <= d
            /\ \A x \in S, z \in N : \A d \in c[x][z] : z \in S /\ E[x] <= d + E[z]
            => \A x \in S : E[x] <= V[x][y]
  BY WalksFact
<1> HIDE DEF V
<1>2. \A x, y \in N : V[x][y] \in Nat /\ V[x][y] <= Infinity
  BY <1>1, InfinityAssumption DEF Typed, Costs
<1>3. \A x, y \in N : \A d \in c[x][y] : d \in Nat
  BY DEF Weights
<1>4. \A x \in N : D[x] = IF V[x][w] >= V[v][w] THEN V[x][w] - V[v][w] ELSE 0
  OBVIOUS
<1> HIDE DEF D
<1>5. \A x \in N : D[x] \in Costs
  BY <1>2, <1>4, InfinityAssumption DEF Costs
<1>6. ASSUME NEW x \in N, NEW d \in c[x][v] PROVE D[x] <= d
  <2>1. V[x][w] <= d + V[v][w]
    BY <1>1
  <2> QED
    BY <1>2, <1>3, <1>4, <2>1
<1>7. ASSUME NEW x \in N, NEW z \in N, NEW d \in c[x][z] PROVE D[x] <= d + D[z]
  <2>1. V[x][w] <= d + V[z][w]
    BY <1>1
  <2>2. d \in Nat /\ V[x][w] \in Nat /\ V[z][w] \in Nat /\ V[v][w] \in Nat
    BY <1>2, <1>3
  <2> QED
    BY <1>4, <2>1, <2>2
<1>8. N \in SUBSET N
  OBVIOUS
<1>9. D[u] <= V[u][v]
  BY <1>1, <1>5, <1>6, <1>7, <1>8
<1>10. V[u][w] <= V[u][v] + V[v][w]
  BY <1>2, <1>4, <1>9
<1> QED
  BY <1>10 DEF V

----------------------------------------------------------------------------
(* The shape of the graph.                                                  *)

Shape ==
    /\ Len(program) \in Nat /\ Functions = 1 .. Len(program)
    /\ DOMAIN graph.nodes \in SUBSET (Nat \ {0}) /\ IsFiniteSet(DOMAIN graph.nodes)
    /\ \A f \in Functions :
          /\ Entry(graph, f) \in Nat \ {0} /\ End(graph, f) \in Nat \ {0}
          /\ Entry(graph, f) \in NodesIn(graph, f)
          /\ \A n : n \in NodesIn(graph, f) <=>
                        n \in DOMAIN graph.nodes /\ graph.nodes[n].function = f
          /\ Len(CallsOf(f)) \in Nat /\ DOMAIN CallsOf(f) = 1 .. Len(CallsOf(f))
          /\ \A k \in DOMAIN CallsOf(f) :
                CallsOf(f)[k] \in NodesIn(graph, f) /\ CallsOf(f)[k] \in AllCalls
          /\ \A k, l \in DOMAIN CallsOf(f) : k # l => CallsOf(f)[k] # CallsOf(f)[l]
          /\ \A n \in NodesIn(graph, f) :
                IsCall(graph, n) => \E k \in DOMAIN CallsOf(f) : CallsOf(f)[k] = n
    /\ \A n \in DOMAIN graph.nodes :
          /\ graph.nodes[n].function \in Functions
          /\ Instructions(n) \in Nat \ {0} /\ 2 * Instructions(n) <= Infinity

\* The functions, the nodes and the calls of a graph.
LEMMA ShapeFact ==
    ASSUME GraphInv, HasNodes
    PROVE  Shape
<1> DEFINE m == Cardinality(NodeEnds(program))
           nodes == graph.nodes
<1>1. program \in Programs /\ GraphOf(program, graph) /\ FirstBlocksHaveNodes(program)
  BY DEF GraphInv
<1>2. Len(program) \in Nat /\ Functions = 1 .. Len(program) /\ Functions = DOMAIN program
  BY <1>1, ProgramFact DEF Functions
<1>3. m \in Nat /\ DOMAIN nodes = 1 .. m
  BY <1>1 DEF GraphOf, Numbered
<1>4. DOMAIN nodes \in SUBSET (Nat \ {0}) /\ IsFiniteSet(DOMAIN nodes)
  <2> HIDE DEF m, nodes
  <2>1. IsFiniteSet(1 .. m)
    BY <1>3, FirstNumbers
  <2> QED
    BY <1>3, <2>1
<1>5. ASSUME NEW f \in Functions
      PROVE  /\ Entry(graph, f) \in Nat \ {0} /\ End(graph, f) \in Nat \ {0}
             /\ Entry(graph, f) \in NodesIn(graph, f)
             /\ \A n : n \in NodesIn(graph, f) <=>
                           n \in DOMAIN nodes /\ nodes[n].function = f
  <2>1. /\ Entry(graph, f) \in Nat \ {0} /\ End(graph, f) \in Nat \ {0}
        /\ Entry(graph, f) \in NodesIn(graph, f)
        /\ \A n \in Nat : n \in NodesIn(graph, f) <=>
                              n \in DOMAIN nodes /\ nodes[n].function = f
        /\ NodesIn(graph, f) \in SUBSET Nat
    BY <1>1, <1>2, LayoutFact
  <2> QED
    BY <1>4, <2>1
<1>6. ASSUME NEW f \in Functions
      PROVE  /\ Len(CallsOf(f)) \in Nat /\ DOMAIN CallsOf(f) = 1 .. Len(CallsOf(f))
             /\ \A k \in DOMAIN CallsOf(f) :
                   CallsOf(f)[k] \in NodesIn(graph, f) /\ CallsOf(f)[k] \in AllCalls
             /\ \A k, l \in DOMAIN CallsOf(f) : k # l => CallsOf(f)[k] # CallsOf(f)[l]
             /\ \A n \in NodesIn(graph, f) :
                   IsCall(graph, n) => \E k \in DOMAIN CallsOf(f) : CallsOf(f)[k] = n
  <2> DEFINE calls == graph.lookups[f].calls
  <2>1. /\ Len(calls) \in Nat /\ DOMAIN calls = 1 .. Len(calls)
        /\ \A k \in DOMAIN calls :
              calls[k] \in DOMAIN nodes /\ nodes[calls[k]].function = f
              /\ nodes[calls[k]].op = "CALL"
        /\ \A k, l \in DOMAIN calls : k # l => calls[k] # calls[l]
        /\ \A n \in DOMAIN nodes : nodes[n].function = f /\ nodes[n].op = "CALL" =>
              \E k \in DOMAIN calls : calls[k] = n
    BY <1>1, <1>2, CallsFact, SMTT(30)
  <2>2. CallsOf(f) = calls
    BY DEF CallsOf
  <2> HIDE DEF calls
  <2>3. \A n : n \in AllCalls <=> n \in DOMAIN nodes /\ nodes[n].op = "CALL"
    BY DEF AllCalls, IsCall
  <2>4. \A n : n \in NodesIn(graph, f) <=> n \in DOMAIN nodes /\ nodes[n].function = f
    BY <1>5
  <2>5. \A n : IsCall(graph, n) <=> nodes[n].op = "CALL"
    BY DEF IsCall
  <2> HIDE DEF nodes
  <2> QED
    BY <2>1, <2>2, <2>3, <2>4, <2>5
<1>7. ASSUME NEW n \in DOMAIN nodes
      PROVE  /\ nodes[n].function \in Functions
             /\ Instructions(n) \in Nat \ {0} /\ 2 * Instructions(n) <= Infinity
  <2> DEFINE f == nodes[n].function
             b == nodes[n].block
             l == Len(CodeOf(program, f, b))
  <2>1. f \in Functions /\ b \in DOMAIN program[f].blocks
    BY <1>1, <1>2 DEF GraphOf, Numbered
  <2>2. NumInstructions(graph, n) \in 1 .. l
    BY <1>1, InstructionsFact
  <2> HIDE DEF f, b
  <2>3. l \in Nat /\ 2 * l <= Infinity
    BY <1>1, <1>2, <2>1, ProgramFact
  <2> HIDE DEF l
  <2>4. NumInstructions(graph, n) \in Nat \ {0} /\ 2 * NumInstructions(graph, n) <= Infinity
    BY <2>2, <2>3, InfinityAssumption
  <2> QED
    BY <2>1, <2>4 DEF Instructions, f
<1> QED
  BY <1>2, <1>4, <1>5, <1>6, <1>7 DEF Shape

\* Calls lead to the entries of functions.
Linked ==
    \A n \in DOMAIN graph.nodes :
        /\ Len(graph.succ[n]) \in Nat /\ DOMAIN graph.succ[n] = 1 .. Len(graph.succ[n])
        /\ \A k \in DOMAIN graph.succ[n] : graph.succ[n][k] \in Nat \ {0}
        /\ n \in AllCalls =>
              /\ Len(graph.succ[n]) # 0
              /\ \A k \in DOMAIN graph.succ[n] : graph.succ[n][k] \in DOMAIN graph.nodes
              /\ \A k, l \in DOMAIN graph.succ[n] : k # l => graph.succ[n][k] # graph.succ[n][l]

\* The successors of its nodes.
LEMMA LinkedFact ==
    ASSUME GraphInv, HasEdges
    PROVE  Linked
<1>1. program \in Programs /\ GraphOf(program, graph) /\ FirstBlocksHaveNodes(program)
  BY DEF GraphInv, HasNodes
<1>2. SUFFICES ASSUME NEW n \in DOMAIN graph.nodes
               PROVE  /\ Len(graph.succ[n]) \in Nat /\ DOMAIN graph.succ[n] = 1 .. Len(graph.succ[n])
                      /\ \A k \in DOMAIN graph.succ[n] : graph.succ[n][k] \in Nat \ {0}
                      /\ n \in AllCalls =>
                            /\ Len(graph.succ[n]) # 0
                            /\ \A k \in DOMAIN graph.succ[n] : graph.succ[n][k] \in DOMAIN graph.nodes
                            /\ \A k, l \in DOMAIN graph.succ[n] :
                                  k # l => graph.succ[n][k] # graph.succ[n][l]
  BY DEF Linked
<1> DEFINE s == Successors(program, graph.nodes, graph.lookups, n)
<1>3. graph.succ[n] = s
  BY DEF GraphInv
<1>4. /\ Len(s) \in Nat /\ DOMAIN s = 1 .. Len(s)
      /\ \A k \in DOMAIN s : s[k] \in Nat \ {0}
      /\ s = <<>> <=> Len(s) = 0
      /\ graph.nodes[n].op = "CALL" =>
            /\ \A k \in DOMAIN s : s[k] \in DOMAIN graph.nodes
            /\ \A k, l \in DOMAIN s : k # l => s[k] # s[l]
  BY <1>1, SuccessorsFact
<1>5. n \in AllCalls => graph.nodes[n].op = "CALL" /\ s # <<>>
  <2>1. n \in AllCalls => graph.succ[n] # <<>>
    BY DEF GraphInv
  <2> QED
    BY <1>3, <2>1 DEF AllCalls, IsCall
<1> HIDE DEF s
<1> QED
  BY <1>3, <1>4, <1>5

\* In a well-formed program a function is left by calls and returns only.
Inside ==
    \A f \in Functions : \A u \in NodesIn(graph, f) :
        Onwards(u) \subseteq NodesIn(graph, f) /\ (IsRet(graph, u) => Onwards(u) = {})

\* In a well-formed program no edge leads out of its function, and none out of a RET.
LEMMA InsideFact ==
    ASSUME GraphInv, HasEdges, WellFormed(program)
    PROVE  Inside
<1>1. program \in Programs /\ GraphOf(program, graph) /\ Shape
  BY ShapeFact DEF GraphInv, HasNodes
<1>2. SUFFICES ASSUME NEW f \in Functions, NEW u \in NodesIn(graph, f)
               PROVE  Onwards(u) \subseteq NodesIn(graph, f) /\ (IsRet(graph, u) => Onwards(u) = {})
  BY DEF Inside
<1> DEFINE s == Successors(program, graph.nodes, graph.lookups, u)
<1>3. u \in DOMAIN graph.nodes /\ graph.nodes[u].function = f
  BY <1>1 DEF Shape
<1>4. graph.succ[u] = s
  BY <1>3 DEF GraphInv
<1>5. /\ graph.nodes[u].op = "CALL" => u + 1 \in NodesIn(graph, f)
      /\ graph.nodes[u].op # "CALL" => \A k \in DOMAIN s : s[k] \in NodesIn(graph, f)
      /\ graph.nodes[u].op = "RET" => DOMAIN s = {}
  BY <1>1, <1>3, OnwardsFact
<1> HIDE DEF s
<1>6. Onwards(u) = IF graph.nodes[u].op = "CALL" THEN {u + 1} ELSE {s[k] : k \in DOMAIN s}
  BY <1>4 DEF Onwards, IsCall, BlockNext, Range
<1> QED
  BY <1>5, <1>6 DEF IsRet

----------------------------------------------------------------------------
(* Which function calls which.                                              *)

CallsTo == [f \in Functions |-> UNION {CalleesOf(n) : n \in Range(CallsOf(f))}]

CalleeOf(n, k) == graph.nodes[graph.succ[n][k]].function

\* The callees of calls and of functions.
LEMMA CalleesFact ==
    ASSUME Shape, Linked
    PROVE  /\ IsFiniteSet(Functions) /\ CallsTo \in [Functions -> SUBSET Functions]
           /\ Reached = Reachable(Functions, CallsTo)
           /\ \A n \in AllCalls :
                 /\ n \in DOMAIN graph.nodes /\ graph.nodes[n].function \in Functions
                 /\ \A k \in DOMAIN graph.succ[n] : CalleeOf(n, k) \in Functions
                 /\ \A g : g \in CalleesOf(n) <=> \E k \in DOMAIN graph.succ[n] : CalleeOf(n, k) = g
                 /\ CalleesOf(n) \subseteq CallsTo[graph.nodes[n].function]
           /\ \A f \in Functions : \A g : g \in CallsTo[f] <=>
                 \E k \in DOMAIN CallsOf(f) : g \in CalleesOf(CallsOf(f)[k])
<1>1. IsFiniteSet(Functions)
  BY FirstNumbers DEF Shape
<1>2. ASSUME NEW n \in AllCalls
      PROVE  /\ n \in DOMAIN graph.nodes /\ graph.nodes[n].function \in Functions
             /\ n \in NodesIn(graph, graph.nodes[n].function) /\ IsCall(graph, n)
             /\ \A k \in DOMAIN graph.succ[n] : CalleeOf(n, k) \in Functions
             /\ \A g : g \in CalleesOf(n) <=> \E k \in DOMAIN graph.succ[n] : CalleeOf(n, k) = g
  <2>1. n \in DOMAIN graph.nodes /\ IsCall(graph, n)
    BY DEF AllCalls
  <2>2. graph.nodes[n].function \in Functions /\ n \in NodesIn(graph, graph.nodes[n].function)
    BY <2>1 DEF Shape
  <2>3. \A k \in DOMAIN graph.succ[n] : CalleeOf(n, k) \in Functions
    BY <2>1 DEF Linked, Shape, CalleeOf
  <2>4. \A g : g \in CalleesOf(n) <=> \E k \in DOMAIN graph.succ[n] : CalleeOf(n, k) = g
    BY DEF CalleesOf, CalleeOf, Range
  <2> QED
    BY <2>1, <2>2, <2>3, <2>4
<1>3. ASSUME NEW f \in Functions, NEW g
      PROVE  g \in CallsTo[f] <=> \E k \in DOMAIN CallsOf(f) : g \in CalleesOf(CallsOf(f)[k])
  BY DEF CallsTo, Range
<1>4. \A f \in Functions : \A k \in DOMAIN CallsOf(f) : CallsOf(f)[k] \in AllCalls
  BY DEF Shape
<1>5. CallsTo \in [Functions -> SUBSET Functions]
  <2>1. CallsTo = [f \in Functions |-> CallsTo[f]]
    BY DEF CallsTo
  <2>2. \A f \in Functions : CallsTo[f] \subseteq Functions
    BY <1>2, <1>3, <1>4
  <2> HIDE DEF CallsTo
  <2> QED
    BY <2>1, <2>2
<1>6. Reached = Reachable(Functions, CallsTo)
  BY DEF Reached, CallsTo
<1>7. ASSUME NEW n \in AllCalls PROVE CalleesOf(n) \subseteq CallsTo[graph.nodes[n].function]
  <2> DEFINE f == graph.nodes[n].function
  <2>1. f \in Functions /\ n \in NodesIn(graph, f) /\ IsCall(graph, n)
    BY <1>2
  <2> HIDE DEF f
  <2>2. PICK k \in DOMAIN CallsOf(f) : CallsOf(f)[k] = n
    BY <2>1 DEF Shape
  <2>3. CalleesOf(n) \subseteq CallsTo[f]
    BY <1>3, <2>1, <2>2
  <2> QED
    BY <2>3 DEF f
<1> QED
  BY <1>1, <1>2, <1>3, <1>5, <1>6, <1>7

\* Reached is what calls lead to.
LEMMA ReachedFact ==
    ASSUME Shape, Linked
    PROVE  /\ Reached \in [Functions -> SUBSET Functions]
           /\ \A f \in Functions : CallsTo[f] \subseteq Reached[f]
           /\ \A f \in Functions : \A g \in Reached[f] : Reached[g] \subseteq Reached[f]
           /\ \A S \in SUBSET Functions : \A X :
                 /\ Closed(S, CallsTo)
                 /\ \A u \in S : CallsTo[u] \subseteq X[u] /\ \A x \in CallsTo[u] : X[x] \subseteq X[u]
                 => \A u \in S : Reached[u] \subseteq X[u]
<1>1. /\ IsFiniteSet(Functions) /\ CallsTo \in [Functions -> SUBSET Functions]
      /\ Reached = Reachable(Functions, CallsTo)
  BY CalleesFact
<1> DEFINE R == Reachable(Functions, CallsTo)
<1>2. /\ R \in [Functions -> SUBSET Functions]
      /\ \A u \in Functions : CallsTo[u] \subseteq R[u]
      /\ \A u \in Functions : \A x \in R[u] : R[x] \subseteq R[u]
      /\ \A S \in SUBSET Functions : \A X :
            /\ Closed(S, CallsTo)
            /\ \A u \in S : CallsTo[u] \subseteq X[u] /\ \A x \in CallsTo[u] : X[x] \subseteq X[u]
            => \A u \in S : R[u] \subseteq X[u]
  BY <1>1, ReachableFact
<1>3. Reached = R
  BY <1>1
<1> HIDE DEF R
<1> QED
  BY <1>2, <1>3

----------------------------------------------------------------------------
(* The recursion over callees.                                              *)

Frame == [func : Functions, call : Nat \ {0}, succ : Nat, sum : Costs]

\* The call that a frame looks at, and the callee.
InCall(f) == f.call <= Len(CallsOf(f.func))
CallAt(f) == CallsOf(f.func)[f.call]
AtSucc(f) == InCall(f) /\ f.succ \in DOMAIN graph.succ[CallAt(f)]
SuccAt(f) == CalleeOf(CallAt(f), f.succ)

\* Each frame stands at a callee, whose frame is the next, but for the last.
StackOk ==
    /\ stack \in Seq(Frame) /\ resolved \subseteq Functions
    /\ \A i \in 1 .. Len(stack) :
          LET f == stack[i] IN
          /\ f.func \in resolved
          /\ f.call <= Len(CallsOf(f.func)) + 1
          /\ InCall(f) => f.succ <= Len(graph.succ[CallAt(f)]) + 1
          /\ phase = "avg" => f.succ >= 1
    /\ \A i, j \in 1 .. Len(stack) : i # j => stack[i].func # stack[j].func
    /\ \A i \in 1 .. Len(stack) - 1 :
          AtSucc(stack[i]) /\ SuccAt(stack[i]) = stack[i + 1].func

Recurses == phase \in {"avg", "inter"}

StackInv ==
    /\ ~Recurses => stack = <<>>
    /\ phase \in {"nodes", "edges", "intra"} => resolved = {}
    /\ phase = "done" => resolved = Functions
    /\ Recurses => StackOk

\* The functions whose visit has ended, and the calls that are done with.
Finished == {f \in resolved : \A i \in 1 .. Len(stack) : stack[i].func # f}
Passed(f, k) == f \in resolved /\ \A i \in 1 .. Len(stack) : stack[i].func = f => k < stack[i].call

\* The frame on top.
LEMMA TopFact ==
    ASSUME Shape, Linked, StackOk, stack # <<>>
    PROVE  /\ Len(stack) \in Nat \ {0} /\ Top = stack[Len(stack)] /\ Top \in Frame
           /\ Top.func \in Functions /\ Top.func \in resolved /\ Top.func \notin Finished
           /\ Top.call \in Nat \ {0} /\ Top.succ \in Nat
           /\ Top.call <= Len(CallsOf(Top.func)) + 1
           /\ AtCall <=> InCall(Top)
           /\ AtCall => /\ Call = CallAt(Top) /\ Call \in AllCalls /\ Call \in NodesIn(graph, Top.func)
                        /\ Top.call \in DOMAIN CallsOf(Top.func)
                        /\ Top.succ <= Len(Callees) + 1 /\ (phase = "avg" => Top.succ >= 1)
                        /\ Callees = graph.succ[Call]
                        /\ ~Passed(Top.func, Top.call)
           /\ AtCallee <=> AtSucc(Top)
           /\ AtCallee => /\ Callee = SuccAt(Top) /\ Callee \in Functions
                          /\ Callee = CalleeOf(Call, Top.succ)
                          /\ Callee \in CallsTo[Top.func] /\ Callee \in CalleesOf(Call)
<1>1. /\ Len(stack) \in Nat \ {0} /\ Top = stack[Len(stack)] /\ Top \in Frame
  BY PopFact DEF StackOk, Top
<1>2. Len(stack) \in 1 .. Len(stack)
  BY <1>1
<1>3. /\ Top.func \in Functions /\ Top.func \in resolved /\ Top.func \notin Finished
      /\ Top.call \in Nat \ {0} /\ Top.succ \in Nat
      /\ Top.call <= Len(CallsOf(Top.func)) + 1
  BY <1>1, <1>2 DEF StackOk, Frame, Finished
<1>4. AtCall <=> InCall(Top)
  BY DEF AtCall, InCall
<1>5. Call = CallAt(Top) /\ Callees = graph.succ[Call]
  BY DEF Call, CallAt, Callees
<1>6. ASSUME AtCall
      PROVE  /\ Call \in AllCalls /\ Call \in NodesIn(graph, Top.func)
             /\ Top.call \in DOMAIN CallsOf(Top.func)
             /\ Top.succ <= Len(Callees) + 1 /\ (phase = "avg" => Top.succ >= 1)
             /\ ~Passed(Top.func, Top.call)
  <2>1. Top.call \in DOMAIN CallsOf(Top.func)
    BY <1>3, <1>6 DEF AtCall, Shape
  <2>2. Call \in AllCalls /\ Call \in NodesIn(graph, Top.func)
    BY <1>3, <2>1 DEF Shape, Call
  <2>3. Top.succ <= Len(Callees) + 1 /\ (phase = "avg" => Top.succ >= 1)
    BY <1>1, <1>2, <1>4, <1>5, <1>6 DEF StackOk
  <2>4. ~Passed(Top.func, Top.call)
    BY <1>1, <1>2, <1>3 DEF Passed
  <2> QED
    BY <2>1, <2>2, <2>3, <2>4
<1>7. AtCallee <=> AtSucc(Top)
  BY <1>4, <1>5 DEF AtCallee, AtSucc
<1>8. ASSUME AtCallee
      PROVE  /\ Callee = SuccAt(Top) /\ Callee \in Functions /\ Callee = CalleeOf(Call, Top.succ)
             /\ Callee \in CallsTo[Top.func] /\ Callee \in CalleesOf(Call)
  <2>1. AtCall /\ Top.succ \in DOMAIN graph.succ[Call]
    BY <1>5, <1>8 DEF AtCallee
  <2>2. Callee = CalleeOf(Call, Top.succ)
    BY <1>5 DEF Callee, CalleeOf
  <2>3. Callee \in Functions /\ Callee \in CalleesOf(Call)
    BY <1>6, <2>1, <2>2, CalleesFact
  <2>4. Callee \in CallsTo[Top.func]
    BY <1>3, <1>6, <2>1, <2>3, CalleesFact DEF Call
  <2>5. Callee = SuccAt(Top)
    BY <1>5, <2>2 DEF SuccAt
  <2> QED
    BY <2>2, <2>3, <2>4, <2>5
<1> QED
  BY <1>1, <1>3, <1>4, <1>5, <1>6, <1>7, <1>8

\* A function is only met again, unfinished, where there is recursion.
LEMMA MetAgain ==
    ASSUME Shape, Linked, StackOk, AtCallee, Callee \in resolved,
           Top.func \notin Reached[Top.func]
    PROVE  Callee \in Finished
<1>1. stack # <<>>
  BY DEF AtCallee, AtCall
<1>2. /\ Len(stack) \in Nat \ {0} /\ Top = stack[Len(stack)] /\ Top.func \in Functions
      /\ Callee \in Functions /\ Callee \in CallsTo[Top.func]
  BY <1>1, TopFact
<1>3. /\ Reached \in [Functions -> SUBSET Functions]
      /\ \A f \in Functions : CallsTo[f] \subseteq Reached[f]
      /\ \A f \in Functions : \A g \in Reached[f] : Reached[g] \subseteq Reached[f]
  BY ReachedFact
<1>4. SUFFICES ASSUME NEW j \in 1 .. Len(stack), stack[j].func = Callee PROVE FALSE
  BY DEF Finished
<1> DEFINE f(i) == stack[i].func
           P == {k \in Nat : j + k <= Len(stack) => f(j + k) = Callee \/ f(j + k) \in Reached[Callee]}
<1>5. 0 \in P
  BY <1>4
<1>6. ASSUME NEW k \in Nat, k \in P PROVE k + 1 \in P
  <2>1. SUFFICES ASSUME j + (k + 1) <= Len(stack)
                 PROVE  f(j + (k + 1)) \in Reached[Callee]
    OBVIOUS
  <2> DEFINE i == j + k
  <2>2. i \in 1 .. Len(stack) - 1 /\ i \in 1 .. Len(stack) /\ i + 1 = j + (k + 1)
    BY <1>2, <2>1
  <2>3. f(i) = Callee \/ f(i) \in Reached[Callee]
    BY <1>2, <1>6, <2>2
  <2> HIDE DEF P, i
  <2>4. AtSucc(stack[i]) /\ SuccAt(stack[i]) = f(i + 1) /\ stack[i] \in Frame
    BY <2>2, ElementOfSeq DEF StackOk
  <2>5. /\ f(i) \in Functions
        /\ stack[i].call \in DOMAIN CallsOf(f(i)) /\ CallAt(stack[i]) \in AllCalls
        /\ CallAt(stack[i]) = CallsOf(f(i))[stack[i].call]
    BY <2>4 DEF Frame, AtSucc, InCall, Shape, CallAt
  <2>6. f(i + 1) \in CalleesOf(CallAt(stack[i]))
    BY <2>4, <2>5, CalleesFact DEF AtSucc, SuccAt
  <2>7. f(i + 1) \in CallsTo[f(i)]
    BY <2>5, <2>6, CalleesFact
  <2>8. f(i + 1) \in Reached[f(i)]
    BY <1>3, <2>5, <2>7
  <2> QED
    BY <1>2, <1>3, <2>2, <2>3, <2>8
<1>7. \A k \in Nat : k \in P
  <2> HIDE DEF P
  <2> QED
    BY <1>5, <1>6, Induction
<1>8. Top.func = Callee \/ Top.func \in Reached[Callee]
  <2>1. Len(stack) - j \in Nat /\ j + (Len(stack) - j) = Len(stack) /\ Len(stack) <= Len(stack)
    BY <1>2
  <2> QED
    BY <1>2, <1>7, <2>1
<1>9. Callee \in Reached[Top.func]
  BY <1>2, <1>3
<1> QED
  BY <1>2, <1>3, <1>8, <1>9

\* What is defined by the graph alone stays with it.
LEMMA GraphSame ==
    ASSUME UNCHANGED <<program, graph>>
    PROVE  /\ Functions' = Functions /\ AllCalls' = AllCalls /\ Reached' = Reached
           /\ CallsTo' = CallsTo
           /\ \A f : CallsOf(f)' = CallsOf(f) /\ NodesIn(graph, f)' = NodesIn(graph, f)
           /\ \A n : CalleesOf(n)' = CalleesOf(n) /\ Instructions(n)' = Instructions(n)
           /\ \A n, k : CalleeOf(n, k)' = CalleeOf(n, k)
           /\ Shape' = Shape /\ Linked' = Linked /\ Inside' = Inside
<1>1. Functions' = Functions /\ AllCalls' = AllCalls
  BY DEF Functions, AllCalls, IsCall
<1>2. \A f : CallsOf(f)' = CallsOf(f) /\ NodesIn(graph, f)' = NodesIn(graph, f)
  BY DEF CallsOf, NodesIn, Entry, End
<1>3. \A n : CalleesOf(n)' = CalleesOf(n) /\ Instructions(n)' = Instructions(n)
  BY DEF CalleesOf, Instructions, NumInstructions
<1>4. \A n, k : CalleeOf(n, k)' = CalleeOf(n, k)
  BY DEF CalleeOf
<1>5. CallsTo' = CallsTo
  BY <1>1, <1>2, <1>3 DEF CallsTo
<1>6. Reached' = Reached
  BY DEF Reached, Functions, CalleesOf, CallsOf
<1>7. Shape' = Shape
  BY DEF Shape, Functions, AllCalls, IsCall, CallsOf, Instructions
<1>8. Linked' = Linked
  BY DEF Linked, AllCalls, IsCall
<1>9. Inside' = Inside
  BY DEF Inside, Functions, Onwards, IsCall
<1> QED
  BY <1>1, <1>2, <1>3, <1>4, <1>5, <1>6, <1>7, <1>8, <1>9

\* What StackOk asks of one frame.
FrameOk(f) ==
    /\ f.func \in resolved
    /\ f.call <= Len(CallsOf(f.func)) + 1
    /\ InCall(f) => f.succ <= Len(graph.succ[CallAt(f)]) + 1
    /\ phase = "avg" => f.succ >= 1

\* Where a frame stands depends on the graph alone.
LEMMA FrameSame ==
    ASSUME UNCHANGED <<program, graph>>
    PROVE  /\ Frame' = Frame
           /\ \A f : /\ InCall(f)' = InCall(f) /\ CallAt(f)' = CallAt(f)
                     /\ AtSucc(f)' = AtSucc(f) /\ SuccAt(f)' = SuccAt(f)
           /\ phase' = phase /\ resolved \subseteq resolved' => \A f : FrameOk(f) => FrameOk(f)'
<1>1. Frame' = Frame
  BY DEF Frame, Functions
<1>2. \A f : /\ InCall(f)' = InCall(f) /\ CallAt(f)' = CallAt(f)
             /\ AtSucc(f)' = AtSucc(f) /\ SuccAt(f)' = SuccAt(f)
  BY DEF InCall, CallAt, AtSucc, SuccAt, CallsOf, CalleeOf
<1>3. \A f : CallsOf(f)' = CallsOf(f)
  BY GraphSame
<1>4. ASSUME NEW f, phase' = phase, resolved \subseteq resolved', FrameOk(f) PROVE FrameOk(f)'
  BY <1>2, <1>3, <1>4 DEF FrameOk
<1> QED
  BY <1>1, <1>2, <1>4

\* A function is entered.
LEMMA EnterFact ==
    ASSUME Shape, Linked, StackOk, NEW f \in Functions \ resolved,
           UNCHANGED <<program, graph, phase>>, resolved' = resolved \cup {f},
           stack' = Append(stack, [func |-> f, call |-> 1, succ |-> FirstSucc, sum |-> 0]),
           stack = <<>> \/ (AtCallee /\ Callee = f)
    PROVE  /\ StackOk' /\ Finished' = Finished
           /\ \A g, k : k \in Nat \ {0} => (Passed(g, k)' <=> Passed(g, k))
           /\ Len(stack) \in Nat /\ Len(stack') = Len(stack) + 1
           /\ \A i \in 1 .. Len(stack) : stack'[i] = stack[i]
           /\ stack'[Len(stack) + 1] = [func |-> f, call |-> 1, succ |-> FirstSucc, sum |-> 0]
<1> DEFINE l == Len(stack)
<1>0. [func |-> f, call |-> 1, succ |-> FirstSucc, sum |-> 0] \in Frame
  BY InfinityAssumption DEF Frame, FirstSucc, Costs
<1>1. PICK e \in Frame : /\ e = [func |-> f, call |-> 1, succ |-> FirstSucc, sum |-> 0]
                         /\ e.func = f /\ e.call = 1 /\ e.succ = FirstSucc
  BY <1>0
<1>2. stack \in Seq(Frame) /\ stack' = Append(stack, e)
  BY <1>1 DEF StackOk
<1>3. /\ stack' \in Seq(Frame) /\ l \in Nat /\ Len(stack') = l + 1
      /\ \A i \in 1 .. l : stack'[i] = stack[i]
      /\ stack'[l + 1] = e
  BY <1>1, <1>2, PushFact
<1> HIDE DEF l
<1>4. \A i \in 1 .. l : /\ stack[i] \in Frame /\ stack[i].func \in resolved /\ FrameOk(stack[i])
                        /\ stack[i].func # f
  BY ElementOfSeq DEF StackOk, l, FrameOk
<1>5. FrameOk(e)'
  <2>1. f \in resolved' /\ CallsOf(f)' = CallsOf(f) /\ Len(CallsOf(f)) \in Nat
    BY GraphSame DEF Shape
  <2>2. InCall(e)' => /\ CallAt(e)' = CallAt(e) /\ 1 <= Len(CallsOf(f))
    BY <1>1, <2>1, FrameSame DEF InCall
  <2>3. InCall(e)' => Len(graph'.succ[CallAt(e)']) \in Nat
    <3>1. SUFFICES ASSUME InCall(e)' PROVE Len(graph.succ[CallAt(e)]) \in Nat
      BY <2>2
    <3>2. 1 \in DOMAIN CallsOf(f)
      BY <2>1, <2>2, <3>1 DEF Shape
    <3>3. CallAt(e) \in DOMAIN graph.nodes
      BY <1>1, <3>2 DEF Shape, CallAt
    <3> QED
      BY <3>3 DEF Linked
  <2>4. FirstSucc \in 0 .. 1 /\ (phase' = "avg" => FirstSucc >= 1)
    BY DEF FirstSucc
  <2> QED
    BY <1>1, <2>1, <2>3, <2>4 DEF FrameOk
<1>6. ASSUME NEW i \in 1 .. Len(stack'), NEW g, g = stack'[i]
      PROVE  FrameOk(g)'
  <2>1. CASE i = l + 1
    BY <1>3, <1>5, <1>6, <2>1
  <2>2. CASE i # l + 1
    <3>1. FrameOk(g)
      BY <1>3, <1>4, <1>6, <2>2
    <3> QED
      BY <3>1, FrameSame
  <2> QED
    BY <2>1, <2>2
<1>7. ASSUME NEW i \in 1 .. Len(stack'), NEW j \in 1 .. Len(stack'), i # j
      PROVE  stack'[i].func # stack'[j].func
  BY <1>1, <1>3, <1>4, <1>7 DEF StackOk, l
<1>8. ASSUME NEW i \in 1 .. Len(stack') - 1
      PROVE  AtSucc(stack[i])' /\ SuccAt(stack[i])' = stack'[i + 1].func
  <2>1. i \in 1 .. l /\ stack'[i] = stack[i] /\ l # 0
    BY <1>3
  <2>2. CASE i = l
    <3>1. stack # <<>> /\ Top = stack[l] /\ AtSucc(Top) /\ SuccAt(Top) = f
      BY <2>1, TopFact DEF l
    <3> QED
      BY <1>1, <1>3, <2>1, <2>2, <3>1, FrameSame
  <2>3. CASE i # l
    <3>1. i \in 1 .. l - 1 /\ i + 1 \in 1 .. l
      BY <1>3, <2>1, <2>3
    <3>2. AtSucc(stack[i]) /\ SuccAt(stack[i]) = stack[i + 1].func
      BY <3>1 DEF StackOk, l
    <3>3. stack'[i + 1] = stack[i + 1]
      BY <1>3, <3>1
    <3> QED
      BY <2>1, <3>2, <3>3, FrameSame
  <2> QED
    BY <2>2, <2>3
<1>9. StackOk'
  <2>1. stack' \in Seq(Frame)' /\ resolved' \subseteq Functions'
    BY <1>3, FrameSame, GraphSame DEF StackOk
  <2> QED
    BY <2>1, <1>6, <1>7, <1>8 DEF StackOk, FrameOk
<1>10. Finished' = Finished
  BY <1>1, <1>3, <1>4 DEF Finished, l
<1>11. ASSUME NEW g, NEW k \in Nat \ {0} PROVE Passed(g, k)' <=> Passed(g, k)
  BY <1>1, <1>3, <1>4 DEF Passed, l
<1> QED
  BY <1>1, <1>3, <1>9, <1>10, <1>11 DEF l

\* A function is left.
LEMMA LeaveFact ==
    ASSUME Shape, Linked, StackOk, stack # <<>>, ~AtCall,
           UNCHANGED <<program, graph, phase, resolved>>, stack' = Front(stack)
    PROVE  /\ StackOk' /\ Finished' = Finished \cup {Top.func}
           /\ \A g \in Functions : \A k \in DOMAIN CallsOf(g) : Passed(g, k)' <=> Passed(g, k)
           /\ Len(stack) \in Nat \ {0} /\ Len(stack') = Len(stack) - 1
           /\ \A i \in 1 .. Len(stack) - 1 : stack'[i] = stack[i]
<1> DEFINE l == Len(stack)
<1>1. /\ l \in Nat \ {0} /\ Top = stack[l] /\ Top \in Frame /\ Top.func \in resolved
      /\ Top.call > Len(CallsOf(Top.func)) /\ Top.func \in Functions
  BY TopFact DEF AtCall, Shape
<1>2. stack \in Seq(Frame)
  BY DEF StackOk
<1>3. /\ stack' \in Seq(Frame) /\ Len(stack') = l - 1
      /\ \A i \in 1 .. l - 1 : stack'[i] = stack[i]
  BY <1>2, PopFact
<1> HIDE DEF l
<1>4. \A i \in 1 .. l : /\ stack[i] \in Frame /\ FrameOk(stack[i])
                        /\ i # l => stack[i].func # Top.func
  BY <1>1, ElementOfSeq DEF StackOk, l, FrameOk
<1>5. \A h : FrameOk(h) => FrameOk(h)'
  BY FrameSame
<1>D. \A i, j \in 1 .. l : i # j => stack[i].func # stack[j].func
  BY DEF StackOk, l
<1>6. StackOk'
  <2>1. stack' \in Seq(Frame)' /\ resolved' \subseteq Functions'
    BY <1>3, FrameSame, GraphSame DEF StackOk
  <2>2. ASSUME NEW i \in 1 .. Len(stack'), NEW g, g = stack'[i] PROVE FrameOk(g)'
    BY <1>1, <1>3, <1>4, <1>5, <2>2
  <2>3. ASSUME NEW i \in 1 .. Len(stack'), NEW j \in 1 .. Len(stack'), i # j
        PROVE  stack'[i].func # stack'[j].func
    BY <1>1, <1>3, <1>D, <2>3
  <2>4. ASSUME NEW i \in 1 .. Len(stack') - 1
        PROVE  AtSucc(stack[i])' /\ SuccAt(stack[i])' = stack'[i + 1].func
    <3>1. i \in 1 .. l - 1 /\ stack'[i] = stack[i] /\ stack'[i + 1] = stack[i + 1]
      BY <1>1, <1>3
    <3>2. AtSucc(stack[i]) /\ SuccAt(stack[i]) = stack[i + 1].func
      BY <3>1 DEF StackOk, l
    <3> QED
      BY <3>1, <3>2, FrameSame
  <2> QED
    BY <2>1, <2>2, <2>3, <2>4 DEF StackOk, FrameOk
<1>7. Finished' = Finished \cup {Top.func}
  BY <1>1, <1>3, <1>4 DEF Finished, l
<1>8. ASSUME NEW g \in Functions, NEW k \in DOMAIN CallsOf(g) PROVE Passed(g, k)' <=> Passed(g, k)
  <2>1. k \in 1 .. Len(CallsOf(g)) /\ Len(CallsOf(g)) \in Nat
    BY DEF Shape
  <2>2. g = Top.func => k < Top.call
    BY <1>1, <2>1 DEF Frame
  <2> QED
    BY <1>1, <1>3, <1>4, <2>2 DEF Passed, l
<1> QED
  BY <1>1, <1>3, <1>6, <1>7, <1>8 DEF l

\* A function looks at the next callee or the next call.
LEMMA ReplaceFact ==
    ASSUME Shape, Linked, StackOk, stack # <<>>, AtCall, NEW e \in Frame,
           UNCHANGED <<program, graph, phase, resolved>>, stack' = Append(Front(stack), e),
           e.func = Top.func,
           \/ e.call = Top.call /\ e.succ = Top.succ + 1 /\ Top.succ <= Len(Callees)
           \/ e.call = Top.call + 1 /\ e.succ = FirstSucc
    PROVE  /\ StackOk' /\ Finished' = Finished
           /\ \A g, k : k \in Nat => (Passed(g, k)' <=>
                 Passed(g, k) \/ (g = Top.func /\ k = Top.call /\ e.call = Top.call + 1))
           /\ Len(stack) \in Nat \ {0} /\ Len(stack') = Len(stack)
           /\ \A i \in 1 .. Len(stack) - 1 : stack'[i] = stack[i]
           /\ stack'[Len(stack)] = e
<1> DEFINE l == Len(stack)
<1>1. /\ l \in Nat \ {0} /\ Top = stack[l] /\ Top \in Frame /\ Top.func \in resolved
      /\ Top.call \in Nat \ {0} /\ Top.succ \in Nat /\ Top.func \in Functions
      /\ Top.call \in DOMAIN CallsOf(Top.func) /\ Call = CallAt(Top)
      /\ Callees = graph.succ[Call] /\ Call \in AllCalls
      /\ phase = "avg" => Top.succ >= 1
  BY TopFact
<1>2. stack \in Seq(Frame)
  BY DEF StackOk
<1>3. Front(stack) \in Seq(Frame) /\ Len(Front(stack)) = l - 1 /\ \A i \in 1 .. l - 1 : Front(stack)[i] = stack[i]
  BY <1>2, PopFact
<1>4. /\ stack' \in Seq(Frame) /\ Len(stack') = l /\ DOMAIN Front(stack) = 1 .. l - 1
      /\ \A i \in 1 .. l - 1 : stack'[i] = stack[i]
      /\ stack'[l] = e
  <2>1. DOMAIN Front(stack) = 1 .. l - 1
    BY <1>1, <1>3
  <2> QED
    BY <1>1, <1>3, <2>1, PushFact
<1> HIDE DEF l
<1>5. \A i \in 1 .. l : /\ stack[i] \in Frame /\ FrameOk(stack[i])
                        /\ i # l => stack[i].func # Top.func
  BY <1>1, ElementOfSeq DEF StackOk, l, FrameOk
<1>6. \A h : FrameOk(h) => FrameOk(h)'
  BY FrameSame
<1>7. FrameOk(e)'
  <2>1. e.func \in resolved /\ Len(CallsOf(Top.func)) \in Nat
    BY <1>1 DEF Shape
  <2>2. e.call <= Len(CallsOf(Top.func)) + 1 /\ (phase = "avg" => e.succ >= 1)
    <3>1. Top.call \in 1 .. Len(CallsOf(Top.func))
      BY <1>1 DEF Shape
    <3> QED
      BY <1>1, <2>1, <3>1 DEF FirstSucc
  <2>3. ASSUME InCall(e) PROVE e.succ <= Len(graph.succ[CallAt(e)]) + 1
    <3>1. e.call \in DOMAIN CallsOf(Top.func)
      BY <1>1, <2>1, <2>3 DEF InCall, Shape
    <3>2. CallAt(e) \in DOMAIN graph.nodes
      BY <1>1, <3>1 DEF Shape, CallAt
    <3>3. Len(graph.succ[CallAt(e)]) \in Nat
      BY <3>2 DEF Linked
    <3>4. CASE e.call = Top.call
      <4>1. CallAt(e) = CallAt(Top)
        BY <3>4 DEF CallAt
      <4>2. e.succ = Top.succ + 1 /\ Top.succ <= Len(Callees)
        BY <1>1, <3>4
      <4> QED
        BY <1>1, <3>3, <4>1, <4>2
    <3>5. CASE e.call # Top.call
      BY <3>3, <3>5 DEF FirstSucc
    <3> QED
      BY <3>4, <3>5
  <2>4. FrameOk(e)
    BY <2>1, <2>2, <2>3 DEF FrameOk
  <2> QED
    BY <1>6, <2>4
<1>D. \A i, j \in 1 .. l : i # j => stack[i].func # stack[j].func
  BY DEF StackOk, l
<1>8. StackOk'
  <2>1. stack' \in Seq(Frame)' /\ resolved' \subseteq Functions'
    BY <1>4, FrameSame, GraphSame DEF StackOk
  <2>2. ASSUME NEW i \in 1 .. Len(stack'), NEW g, g = stack'[i] PROVE FrameOk(g)'
    BY <1>1, <1>4, <1>5, <1>6, <1>7, <2>2
  <2>3. ASSUME NEW i \in 1 .. Len(stack'), NEW j \in 1 .. Len(stack'), i # j
        PROVE  stack'[i].func # stack'[j].func
    BY <1>1, <1>4, <1>5, <1>D, <2>3
  <2>4. ASSUME NEW i \in 1 .. Len(stack') - 1
        PROVE  AtSucc(stack[i])' /\ SuccAt(stack[i])' = stack'[i + 1].func
    <3>1. i \in 1 .. l - 1 /\ stack'[i] = stack[i] /\ stack'[i + 1].func = stack[i + 1].func
      BY <1>1, <1>4
    <3>2. AtSucc(stack[i]) /\ SuccAt(stack[i]) = stack[i + 1].func
      BY <3>1 DEF StackOk, l
    <3> QED
      BY <3>1, <3>2, FrameSame
  <2> QED
    BY <2>1, <2>2, <2>3, <2>4 DEF StackOk, FrameOk
<1>9. Finished' = Finished
  BY <1>1, <1>4, <1>5, SMTT(30) DEF Finished, l
<1>10. ASSUME NEW g, NEW k \in Nat
       PROVE  Passed(g, k)' <=> Passed(g, k) \/ (g = Top.func /\ k = Top.call /\ e.call = Top.call + 1)
  <2>1. CASE g = Top.func
    <3>1. Passed(g, k) <=> k < Top.call
      BY <1>1, <1>5, <2>1 DEF Passed, l
    <3>2. Passed(g, k)' <=> k < e.call
      BY <1>1, <1>4, <1>5, <2>1 DEF Passed, l
    <3> QED
      BY <1>1, <2>1, <3>1, <3>2
  <2>2. CASE g # Top.func
    <3>1. \A i \in 1 .. l : i = l => stack'[i].func # g /\ stack[i].func # g
      BY <1>1, <1>4, <2>2
    <3>2. \A i \in 1 .. l : i # l => stack'[i] = stack[i]
      BY <1>1, <1>4
    <3>3. \A i \in 1 .. l : (stack'[i].func = g => k < stack'[i].call) <=>
                            (stack[i].func = g => k < stack[i].call)
      BY <3>1, <3>2
    <3> QED
      BY <1>4, <2>2, <3>3 DEF Passed, l
  <2> QED
    BY <2>1, <2>2
<1> QED
  BY <1>1, <1>4, <1>8, <1>9, <1>10 DEF l

\* What the two averages are, once they are.
CostType ==
    HasEdges => funcAvg \in [Functions -> Costs] /\ callAvg \in [AllCalls -> Costs]

\* The next frame in place of the one on top.
LEMMA NextFrames ==
    ASSUME Shape, Linked, StackOk, AtCall
    PROVE  /\ AtCallee => NextCallee \in Frame /\ Top.succ <= Len(Callees)
           /\ Top.succ = 0 => NextCallee \in Frame /\ Top.succ <= Len(Callees)
           /\ NextCallee.func = Top.func /\ NextCallee.call = Top.call
           /\ NextCallee.succ = Top.succ + 1 /\ NextCallee.sum = Top.sum
           /\ NextCall \in Frame /\ NextCall.func = Top.func /\ NextCall.call = Top.call + 1
           /\ NextCall.succ = FirstSucc /\ NextCall.sum = 0
<1>1. /\ Top \in Frame /\ Call \in AllCalls /\ Callees = graph.succ[Call]
      /\ stack # <<>>
  BY TopFact DEF AtCall
<1>2. Call \in DOMAIN graph.nodes /\ FirstSucc \in Nat /\ 0 \in Costs
  BY <1>1, InfinityAssumption DEF AllCalls, FirstSucc, Costs
<1>3. DOMAIN Callees = 1 .. Len(Callees) /\ Len(Callees) \in Nat \ {0}
  BY <1>1, <1>2 DEF Linked
<1>4. Top.succ \in Nat
  BY <1>1 DEF Frame
<1>5. AtCallee => Top.succ <= Len(Callees)
  BY <1>3, <1>4 DEF AtCallee
<1>6. Top.succ = 0 => Top.succ <= Len(Callees)
  BY <1>3
<1>7. /\ NextCallee \in Frame /\ NextCallee.func = Top.func /\ NextCallee.call = Top.call
      /\ NextCallee.succ = Top.succ + 1 /\ NextCallee.sum = Top.sum
  BY <1>1 DEF NextCallee, Frame
<1>8. /\ NextCall \in Frame /\ NextCall.func = Top.func /\ NextCall.call = Top.call + 1
      /\ NextCall.succ = FirstSucc /\ NextCall.sum = 0
  <2> DEFINE a == [Top EXCEPT !.call = @ + 1]
             b == [a EXCEPT !.succ = FirstSucc]
             c == [b EXCEPT !.sum = 0]
  <2>1. a \in Frame /\ a.func = Top.func /\ a.call = Top.call + 1
    BY <1>1 DEF Frame
  <2>2. NextCall = c
    BY DEF NextCall
  <2> HIDE DEF a
  <2>3. b \in Frame /\ b.func = a.func /\ b.call = a.call /\ b.succ = FirstSucc
    BY <1>2, <2>1 DEF Frame
  <2> HIDE DEF b
  <2>4. c \in Frame /\ c.func = b.func /\ c.call = b.call /\ c.succ = b.succ /\ c.sum = 0
    BY <1>2, <2>3 DEF Frame
  <2> QED
    BY <2>1, <2>2, <2>3, <2>4
<1> QED
  BY <1>5, <1>6, <1>7, <1>8

\* The sum of a frame goes on.
LEMMA SummedFrame ==
    ASSUME NEW e \in Frame, NEW c \in Costs
    PROVE  /\ [e EXCEPT !.sum = c] \in Frame /\ [e EXCEPT !.sum = c].func = e.func
           /\ [e EXCEPT !.sum = c].call = e.call /\ [e EXCEPT !.sum = c].succ = e.succ
           /\ [e EXCEPT !.sum = c].sum = c
  BY DEF Frame

\* Plus and sum_costs() keep to the costs.
LEMMA PlusFact ==
    ASSUME NEW x \in Nat, NEW y \in Nat
    PROVE  /\ Plus(x, y) \in Costs /\ (x + y <= Infinity => Plus(x, y) = x + y)
           /\ SumCosts(x, y) \in Costs
           /\ SumCosts(x, y) = IF x + y <= Infinity THEN x + y ELSE Infinity
<1> DEFINE m == Infinity + 1
           z == x + y
<1>1. m \in Nat \ {0} /\ z \in Nat /\ z % m \in 0 .. m - 1 /\ (z <= Infinity => z % m = z)
  BY InfinityAssumption
<1> QED
  BY <1>1, InfinityAssumption DEF Plus, SumCosts, Costs

\* The stack where nothing that it depends on changes.
LEMMA StackKept ==
    ASSUME StackInv, UNCHANGED <<program, graph, phase, stack, resolved>>
    PROVE  StackInv'
<1>1. Recurses' = Recurses
  BY DEF Recurses
<1>2. StackOk => StackOk'
  <2>1. Frame' = Frame /\ Functions' = Functions
    BY FrameSame, GraphSame
  <2>2. ASSUME StackOk PROVE StackOk'
    <3>1. stack' \in Seq(Frame') /\ resolved' \subseteq Functions'
      BY <2>1, <2>2 DEF StackOk
    <3>2. ASSUME NEW i \in 1 .. Len(stack'), NEW g, g = stack'[i] PROVE FrameOk(g)'
      <4>1. FrameOk(g)
        BY <2>2, <3>2 DEF StackOk, FrameOk
      <4> QED
        BY <4>1, FrameSame
    <3>3. \A i, j \in 1 .. Len(stack') : i # j => stack'[i].func # stack'[j].func
      BY <2>2 DEF StackOk
    <3>4. ASSUME NEW i \in 1 .. Len(stack') - 1
          PROVE  AtSucc(stack[i])' /\ SuccAt(stack[i])' = stack'[i + 1].func
      <4>1. AtSucc(stack[i]) /\ SuccAt(stack[i]) = stack[i + 1].func
        BY <2>2 DEF StackOk
      <4> QED
        BY <4>1, FrameSame
    <3> QED
      BY <3>1, <3>2, <3>3, <3>4 DEF StackOk, FrameOk
  <2> QED
    BY <2>2
<1> QED
  BY <1>1, <1>2, GraphSame DEF StackInv

\* There is no recursion at first.
LEMMA StackInit == Init => StackInv
  BY DEF Init, StackInv, Recurses

\* The next function that none calls is one that is not resolved.
LEMMA RootFact ==
    ASSUME Shape, StackOk, EnterRoot
    PROVE  Min(Functions \ resolved) \in Functions \ resolved
<1>1. resolved \subseteq Functions /\ resolved # Functions
  BY DEF EnterRoot, StackOk
<1>2. Functions \subseteq Nat
  BY DEF Shape
<1>3. Functions \ resolved # {} /\ Functions \ resolved \in SUBSET Nat
  BY <1>1, <1>2
<1> QED
  BY <1>3, MinFact

\* Each step keeps the recursion in order.
LEMMA StackStep ==
    ASSUME GraphInv, CostType, StackInv, [Next]_vars
    PROVE  StackInv'
<1>1. CASE UNCHANGED vars
  BY <1>1, StackKept DEF vars
<1>2. CASE phase' = "exception" /\ phase \notin {"avg", "inter"} /\ stack' = stack
  BY <1>2 DEF StackInv, Recurses
<1>3. CASE phase' = "edges" /\ phase = "nodes" /\ UNCHANGED <<stack, resolved>>
  BY <1>3 DEF StackInv, Recurses
<1>4. CASE MakeNodes
  BY <1>2, <1>3, <1>4 DEF MakeNodes, Throw
<1>5. ASSUME phase' \in {"avg", "inter"}, phase \in {"edges", "intra"}, UNCHANGED <<stack, resolved>>
      PROVE  StackInv'
  <2>1. stack' = <<>> /\ resolved' = {}
    BY <1>5 DEF StackInv, Recurses
  <2>2. StackOk'
    <3>1. stack' \in Seq(Frame') /\ Len(stack') = 0 /\ 1 .. 0 = {} /\ 0 - 1 = -1 /\ 1 .. -1 = {}
      BY <2>1
    <3> QED
      BY <2>1, <3>1 DEF StackOk
  <2> QED
    BY <1>5, <2>1, <2>2 DEF StackInv
<1>6. CASE MakeEdges
  BY <1>2, <1>5, <1>6 DEF MakeEdges, Throw
<1>7. CASE IntraDone
  BY <1>5, <1>7 DEF IntraDone
<1>8. CASE IntraStart \/ FloydWarshall \/ Diagonal \/ CallEntries
  BY <1>2, <1>8, StackKept DEF IntraStart, FloydWarshall, Diagonal, CallEntries, Throw
<1>9. CASE AvgDone
  BY <1>9 DEF AvgDone, StackInv, Recurses
<1>10. CASE InterDone
  BY <1>10 DEF InterDone, StackInv, Recurses, Functions
<1>11. CASE EnterRoot \/ EnterCallee \/ Leave \/ AvgCallee \/ AvgCall
            \/ InterDirect \/ InterCallee \/ InterCall
  <2>1. /\ phase \in {"avg", "inter"} /\ phase' = phase /\ UNCHANGED <<program, graph>>
    BY <1>11 DEF EnterRoot, EnterCallee, Leave, AvgCallee, AvgCall, InterDirect, InterCallee,
                 InterCall, Enter
  <2>2. StackOk /\ Shape /\ Linked /\ funcAvg \in [Functions -> Costs]
    BY <2>1, ShapeFact, LinkedFact DEF StackInv, Recurses, CostType, HasEdges, HasNodes
  <2>3. SUFFICES StackOk'
    BY <2>1 DEF StackInv, Recurses
  <2>4. ASSUME NEW f, Enter(f), f \in Functions \ resolved, stack = <<>> \/ (AtCallee /\ Callee = f)
        PROVE  StackOk'
    BY <2>1, <2>2, <2>4, EnterFact DEF Enter
  <2>5. CASE EnterRoot
    <3> DEFINE f == Min(Functions \ resolved)
    <3>1. f \in Functions \ resolved
      BY <2>2, <2>5, RootFact
    <3> QED
      BY <2>4, <2>5, <3>1 DEF EnterRoot
  <2>6. CASE EnterCallee
    <3>1. Callee \in Functions \ resolved /\ AtCallee /\ Enter(Callee)
      BY <2>2, <2>6, TopFact DEF EnterCallee, AtCallee, AtCall
    <3> QED
      BY <2>4, <3>1
  <2>7. CASE Leave
    BY <2>1, <2>2, <2>7, LeaveFact DEF Leave
  <2>8. ASSUME NEW e \in Frame, AtCall, stack' = Append(Front(stack), e), UNCHANGED resolved,
               e.func = Top.func,
               \/ e.call = Top.call /\ e.succ = Top.succ + 1 /\ Top.succ <= Len(Callees)
               \/ e.call = Top.call + 1 /\ e.succ = FirstSucc
        PROVE  StackOk'
    <3>1. stack # <<>>
      BY <2>8 DEF AtCall
    <3> QED
      BY <2>1, <2>2, <2>8, <3>1, ReplaceFact
  <2>9. CASE AvgCallee
    <3>1. AtCallee /\ AtCall /\ Callee \in Functions /\ funcAvg[Callee] \in Nat /\ Top.sum \in Nat
      <4>1. AtCallee /\ AtCall /\ stack # <<>>
        BY <2>9 DEF AvgCallee, AtCallee, AtCall
      <4>2. Callee \in Functions /\ Top \in Frame
        BY <2>2, <4>1, TopFact
      <4> QED
        BY <2>2, <4>1, <4>2 DEF Frame, Costs
    <3> DEFINE c == Plus(Top.sum, funcAvg[Callee])
               e == [NextCallee EXCEPT !.sum = c]
    <3>2. c \in Costs
      BY <3>1, PlusFact
    <3>3. NextCallee.sum = Top.sum
      BY <2>2, <3>1, NextFrames
    <3>4. stack' = Append(Front(stack), e)
      BY <2>9, <3>3 DEF AvgCallee, ReplaceTop
    <3> HIDE DEF c
    <3>5. e \in Frame /\ e.func = Top.func /\ e.call = Top.call /\ e.succ = Top.succ + 1
          /\ Top.succ <= Len(Callees)
      BY <2>2, <3>1, <3>2, NextFrames, SummedFrame
    <3> HIDE DEF e
    <3> QED
      BY <2>8, <2>9, <3>1, <3>4, <3>5 DEF AvgCallee
  <2>10. CASE AvgCall \/ InterCall
    <3>1. AtCall /\ NextCall \in Frame /\ stack' = Append(Front(stack), NextCall)
          /\ UNCHANGED resolved
      BY <2>2, <2>10, NextFrames DEF AvgCall, InterCall, ReplaceTop
    <3>2. NextCall.func = Top.func /\ NextCall.call = Top.call + 1 /\ NextCall.succ = FirstSucc
      BY <2>2, <3>1, NextFrames
    <3> QED
      BY <2>8, <3>1, <3>2
  <2>11. CASE InterDirect \/ InterCallee
    <3>1. AtCall /\ NextCallee \in Frame /\ stack' = Append(Front(stack), NextCallee)
          /\ UNCHANGED resolved /\ Top.succ <= Len(Callees)
      BY <2>2, <2>11, NextFrames DEF InterDirect, InterCallee, ReplaceTop, AtCallee
    <3>2. NextCallee.func = Top.func /\ NextCallee.call = Top.call /\ NextCallee.succ = Top.succ + 1
      BY <2>2, <3>1, NextFrames
    <3> QED
      BY <2>8, <3>1, <3>2
  <2> QED
    BY <1>11, <2>5, <2>6, <2>7, <2>9, <2>10, <2>11
<1> QED
  BY <1>1, <1>4, <1>6, <1>7, <1>8, <1>9, <1>10, <1>11 DEF Next

----------------------------------------------------------------------------
(* Sums and remainders.                                                     *)

\* Total is the sum of the items.
LEMMA TotalFact ==
    ASSUME NEW s \in Seq(Nat)
    PROVE  /\ Len(s) \in Nat /\ Total(s) \in Nat /\ IsSum(Total(s), s, Len(s))
<1> DEFINE n == Len(s)
           upTo == CHOOSE g : g = [k \in 0 .. n |-> IF k = 0 THEN 0 ELSE g[k - 1] + s[k]]
<1>1. n \in Nat /\ \A k \in 1 .. n : s[k] \in Nat
  BY ElementOfSeq
<1>2. Total(s) = upTo[n]
  BY DEF Total
<1> HIDE DEF n
<1>3. PICK f : Parts(f, s, n)
  BY <1>1, PartsExist
<1>4. f = [k \in 0 .. n |-> IF k = 0 THEN 0 ELSE f[k - 1] + s[k]]
  <2>1. f = [k \in 0 .. n |-> f[k]]
    BY <1>3 DEF Parts
  <2>2. ASSUME NEW k \in 0 .. n PROVE f[k] = IF k = 0 THEN 0 ELSE f[k - 1] + s[k]
    <3>1. CASE k = 0
      BY <1>3, <3>1 DEF Parts
    <3>2. CASE k # 0
      <4>1. k \in 1 .. n
        BY <1>1, <3>2
      <4> QED
        BY <1>3, <3>2, <4>1 DEF Parts
    <3> QED
      BY <3>1, <3>2
  <2> QED
    BY <2>1, <2>2
<1>5. upTo = [k \in 0 .. n |-> IF k = 0 THEN 0 ELSE upTo[k - 1] + s[k]]
  BY <1>4, Zenon
<1> HIDE DEF upTo
<1> DEFINE P == {k \in Nat : k <= n => upTo[k] \in Int}
<1>6. \A k \in Nat : k \in P
  <2>1. 0 \in P
    BY <1>1, <1>5
  <2>2. ASSUME NEW k \in Nat, k \in P PROVE k + 1 \in P
    <3>1. SUFFICES ASSUME k + 1 <= n PROVE upTo[k + 1] \in Int
      OBVIOUS
    <3>2. k + 1 \in 0 .. n /\ (k + 1) - 1 = k /\ k + 1 # 0 /\ upTo[k] \in Int /\ k + 1 \in 1 .. n
      BY <1>1, <2>2, <3>1
    <3> HIDE DEF P
    <3>3. upTo[k + 1] = upTo[k] + s[k + 1]
      BY <1>5, <3>2
    <3> QED
      BY <1>1, <3>2, <3>3
  <2> HIDE DEF P
  <2> QED
    BY <2>1, <2>2, Induction
<1>7. Parts(upTo, s, n)
  <2>1. \A k \in 0 .. n : upTo[k] \in Int
    BY <1>1, <1>6
  <2>2. upTo = [k \in 0 .. n |-> upTo[k]]
    BY <1>5
  <2>3. upTo[0] = 0
    BY <1>1, <1>5
  <2>4. \A k \in 1 .. n : upTo[k] = upTo[k - 1] + s[k]
    BY <1>1, <1>5
  <2>5. \A k \in 1 .. n : s[k] \in Int
    BY <1>1
  <2> QED
    BY <1>1, <2>1, <2>2, <2>3, <2>4, <2>5 DEF Parts
<1>8. IsSum(upTo[n], s, n)
  BY <1>7 DEF IsSum
<1>9. upTo[n] \in Nat
  BY <1>1, <1>8, SumType
<1> QED
  BY <1>1, <1>2, <1>8, <1>9 DEF n

\* A sequence, item by item.
LEMMA Listed ==
    ASSUME NEW n \in Nat, NEW s, s = [k \in 1 .. n |-> s[k]], \A k \in 1 .. n : s[k] \in Nat
    PROVE  s \in Seq(Nat) /\ Len(s) = n
BY SMT

\* Sums of the same items are the same.
LEMMA SumSame ==
    ASSUME NEW x, NEW y, NEW s, NEW t, NEW n, IsSum(x, s, n), IsSum(y, t, n),
           \A i \in 1 .. n : s[i] = t[i]
    PROVE  x = y
<1>1. PICK f, h : /\ Parts(f, s, n) /\ x = f[n] /\ Parts(h, t, n) /\ y = h[n]
  BY DEF IsSum
<1>2. n \in Nat
  BY <1>1 DEF Parts
<1>3. SameItems(s, t, 0, 0, n)
  BY <1>2 DEF SameItems
<1>4. f[0 + n] - f[0] = h[0 + n] - h[0]
  BY <1>1, <1>2, <1>3, AgreeingParts
<1>5. f[0] = 0 /\ h[0] = 0 /\ f[n] \in Int /\ h[n] \in Int
  BY <1>1, <1>2 DEF Parts
<1> QED
  BY <1>1, <1>2, <1>4, <1>5

\* One item more costly, and so is the sum.
LEMMA SumRaised ==
    ASSUME NEW x, NEW y, NEW s, NEW t, NEW n \in Nat, NEW k \in 1 .. n, NEW c \in Int,
           IsSum(x, s, n), IsSum(y, t, n), t[k] = s[k] + c,
           \A i \in 1 .. n : i # k => t[i] = s[i]
    PROVE  y = x + c
<1>1. PICK f, h : /\ Parts(f, s, n) /\ x = f[n] /\ Parts(h, t, n) /\ y = h[n]
  BY DEF IsSum
<1>2. /\ \A i \in 0 .. n : f[i] \in Int /\ h[i] \in Int
      /\ \A i \in 1 .. n : s[i] \in Int /\ t[i] \in Int
      /\ f[0] = 0 /\ h[0] = 0
      /\ \A i \in 1 .. n : f[i] = f[i - 1] + s[i] /\ h[i] = h[i - 1] + t[i]
  BY <1>1 DEF Parts
<1> DEFINE P == {i \in Nat : i <= n => h[i] = f[i] + (IF i < k THEN 0 ELSE c)}
<1>3. 0 \in P
  BY <1>2
<1>4. ASSUME NEW i \in Nat, i \in P PROVE i + 1 \in P
  <2>1. SUFFICES ASSUME i + 1 <= n PROVE h[i + 1] = f[i + 1] + (IF i + 1 < k THEN 0 ELSE c)
    OBVIOUS
  <2>2. h[i] = f[i] + (IF i < k THEN 0 ELSE c)
    BY <1>4, <2>1
  <2> HIDE DEF P
  <2>3. i + 1 \in 1 .. n /\ (i + 1) - 1 = i /\ i \in 0 .. n
    BY <2>1
  <2>4. f[i + 1] = f[i] + s[i + 1] /\ h[i + 1] = h[i] + t[i + 1] /\ f[i] \in Int /\ h[i] \in Int
        /\ s[i + 1] \in Int /\ t[i + 1] \in Int
    BY <1>2, <2>3
  <2>5. CASE i + 1 = k
    BY <2>2, <2>4, <2>5
  <2>6. CASE i + 1 # k
    <3>1. t[i + 1] = s[i + 1]
      BY <2>3, <2>6
    <3> QED
      BY <2>2, <2>4, <2>6, <3>1
  <2> QED
    BY <2>5, <2>6
<1>5. n \in P
  <2> HIDE DEF P
  <2> QED
    BY <1>3, <1>4, Induction
<1> QED
  BY <1>1, <1>5

\* Multiples do not count in a remainder.
LEMMA MultipleFact ==
    ASSUME NEW x \in Int, NEW k \in Int, NEW m \in Nat, m # 0
    PROVE  (x + k * m) % m = x % m
<1> DEFINE y == x + k * m
           r == x % m
           s == y % m
           a == x \div m
           c == y \div m
<1>1. y \in Int /\ r \in 0 .. m - 1 /\ a \in Int /\ x = m * a + r
  OBVIOUS
<1> HIDE DEF r, a
<1>2. y = x + k * m
  OBVIOUS
<1> HIDE DEF y
<1>3. s \in 0 .. m - 1 /\ c \in Int /\ y = m * c + s
  BY <1>1
<1> HIDE DEF s, c
<1> DEFINE d == c - a - k
<1>4. d \in Int /\ d * m = r - s
  BY <1>1, <1>2, <1>3
<1> HIDE DEF d
<1>5. ~(d >= 1)
  <2>1. SUFFICES ASSUME d >= 1 PROVE FALSE
    OBVIOUS
  <2>2. d * m >= m
    BY <1>4, <2>1
  <2> QED
    BY <1>1, <1>3, <1>4, <2>2
<1>6. ~(d <= -1)
  <2>1. SUFFICES ASSUME d <= -1 PROVE FALSE
    OBVIOUS
  <2>2. d * m <= -m
    BY <1>4, <2>1
  <2> QED
    BY <1>1, <1>3, <1>4, <2>2
<1>7. d = 0
  BY <1>4, <1>5, <1>6
<1>8. s = r
  BY <1>1, <1>3, <1>4, <1>7
<1> QED
  BY <1>8 DEF r, s, y

\* Sums that wrap at every addition wrap once.
LEMMA PlusWraps ==
    ASSUME NEW x \in Nat, NEW y \in Nat
    PROVE  Plus(x % (Infinity + 1), y) = (x + y) % (Infinity + 1)
<1> DEFINE m == Infinity + 1
           q == x \div m
           r == x % m
<1>1. m \in Nat \ {0}
  BY InfinityAssumption
<1> HIDE DEF m
<1>2. q \in Int /\ r \in Int /\ x = m * q + r
  BY <1>1
<1> HIDE DEF q, r
<1>3. x + y = (r + y) + q * m /\ r + y \in Int
  BY <1>1, <1>2
<1>4. ((r + y) + q * m) % m = (r + y) % m
  BY <1>1, <1>2, <1>3, MultipleFact
<1>5. Plus(r, y) = (r + y) % m
  BY DEF Plus, m
<1> QED
  BY <1>3, <1>4, <1>5 DEF m, r

----------------------------------------------------------------------------
(* Average costs.                                                           *)

\* The costs that AvgFinal sums up: of the nodes of f, of the callees of n.
NodeCosts(f) ==
    LET before == Entry(graph, f) - 1 IN
    [k \in 1 .. End(graph, f) - 1 - before |-> NodeCost(before + k)]
CalleeCosts(n) == [k \in DOMAIN graph.succ[n] |-> funcAvg[CalleeOf(n, k)]]

\* n has the average that AvgFinal asks for.
Counted(n) ==
    Total(CalleeCosts(n)) <= Infinity =>
        LET average == Total(CalleeCosts(n)) \div Len(graph.succ[n]) IN
        callAvg[n] = IF average = 0 THEN 1 ELSE average

\* A frame has summed up the callees before the one it looks at.
Summed(e) ==
    /\ \A l \in 1 .. e.succ - 1 : CalleeOf(CallAt(e), l) \in Finished
    /\ \A x : IsSum(x, CalleeCosts(CallAt(e)), e.succ - 1) => e.sum = x % (Infinity + 1)

AvgInv ==
    /\ CostType
    /\ HasEdges => \A f \in Functions : funcAvg[f] = Total(NodeCosts(f)) % (Infinity + 1)
    /\ phase = "avg" =>
          /\ \A f \in Functions : \A k \in DOMAIN CallsOf(f) :
                ~Passed(f, k) => callAvg[CallsOf(f)[k]] = 0
          /\ \A f \in Functions : f \notin Reached[f] =>
                \A k \in DOMAIN CallsOf(f) : Passed(f, k) =>
                    /\ \A l \in DOMAIN graph.succ[CallsOf(f)[k]] :
                          CalleeOf(CallsOf(f)[k], l) \in Finished
                    /\ Counted(CallsOf(f)[k])
          /\ \A i \in 1 .. Len(stack) :
                InCall(stack[i]) /\ stack[i].func \notin Reached[stack[i].func] => Summed(stack[i])
    /\ phase \in {"intra", "inter", "done"} =>
          \A f \in Functions : f \notin Reached[f] =>
              \A k \in DOMAIN CallsOf(f) : Counted(CallsOf(f)[k])

\* At the end the averages are those that AvgFinal asks for.
LEMMA AvgResult ==
    ASSUME GraphInv, AvgInv
    PROVE  AvgFinal
<1> SUFFICES ASSUME phase = "done", NEW f \in Functions
             PROVE  LET before == Entry(graph, f) - 1
                        costs  == [k \in 1 .. End(graph, f) - 1 - before |-> NodeCost(before + k)]
                        sum(n) == Total([k \in DOMAIN graph.succ[n] |->
                                            funcAvg[graph.nodes[graph.succ[n][k]].function]])
                        average(n) == sum(n) \div Len(graph.succ[n]) IN
                    /\ funcAvg[f] = Total(costs) % (Infinity + 1)
                    /\ f \notin Reached[f] =>
                          \A n \in NodesIn(graph, f) : IsCall(graph, n) /\ sum(n) <= Infinity =>
                              callAvg[n] = IF average(n) = 0 THEN 1 ELSE average(n)
  BY DEF AvgFinal
<1>1. HasEdges /\ Shape
  BY ShapeFact DEF HasEdges, HasNodes
<1>2. funcAvg[f] = Total(NodeCosts(f)) % (Infinity + 1)
  BY <1>1 DEF AvgInv
<1>3. ASSUME f \notin Reached[f], NEW n \in NodesIn(graph, f), IsCall(graph, n)
      PROVE  Counted(n)
  <2>1. PICK k \in DOMAIN CallsOf(f) : CallsOf(f)[k] = n
    BY <1>1, <1>3 DEF Shape
  <2> QED
    BY <1>3, <2>1 DEF AvgInv
<1> QED
  BY <1>2, <1>3 DEF NodeCosts, Counted, CalleeCosts, CalleeOf

\* The types of these costs.
LEMMA CostsFact ==
    ASSUME Shape, Linked, funcAvg \in [Functions -> Costs], callAvg \in [AllCalls -> Costs]
    PROVE  /\ \A n \in DOMAIN graph.nodes : NodeCost(n) \in Nat
           /\ \A f \in Functions :
                 /\ NodeCosts(f) \in Seq(Nat) /\ Len(NodeCosts(f)) = End(graph, f) - Entry(graph, f)
                 /\ \A k \in 1 .. End(graph, f) - Entry(graph, f) :
                       /\ NodeCosts(f)[k] = NodeCost(Entry(graph, f) - 1 + k)
                       /\ Entry(graph, f) - 1 + k \in NodesIn(graph, f)
           /\ \A n \in AllCalls :
                 /\ CalleeCosts(n) \in Seq(Nat) /\ Len(CalleeCosts(n)) = Len(graph.succ[n])
                 /\ \A k \in 1 .. Len(graph.succ[n]) : CalleeCosts(n)[k] = funcAvg[CalleeOf(n, k)]
<1>1. ASSUME NEW n \in DOMAIN graph.nodes PROVE NodeCost(n) \in Nat
  <2>1. Instructions(n) \in Nat /\ (IsCall(graph, n) => callAvg[n] \in Nat)
    BY DEF Shape, AllCalls, Costs
  <2> QED
    BY <2>1 DEF NodeCost
<1>2. ASSUME NEW f \in Functions
      PROVE  /\ NodeCosts(f) \in Seq(Nat) /\ Len(NodeCosts(f)) = End(graph, f) - Entry(graph, f)
             /\ \A k \in 1 .. End(graph, f) - Entry(graph, f) :
                   /\ NodeCosts(f)[k] = NodeCost(Entry(graph, f) - 1 + k)
                   /\ Entry(graph, f) - 1 + k \in NodesIn(graph, f)
  <2> DEFINE a == Entry(graph, f)
             b == End(graph, f)
             l == b - a
             s == NodeCosts(f)
  <2>1. a \in Nat \ {0} /\ b \in Nat /\ a \in NodesIn(graph, f) /\ NodesIn(graph, f) = a .. b - 1
    BY DEF Shape, NodesIn
  <2>2. b - 1 - (a - 1) = l /\ l \in Nat
    BY <2>1
  <2>3. s = [k \in 1 .. b - 1 - (a - 1) |-> NodeCost(a - 1 + k)]
    BY DEF NodeCosts
  <2> HIDE DEF s, a, b
  <2>4. s = [k \in 1 .. l |-> s[k]] /\ \A k \in 1 .. l : s[k] = NodeCost(a - 1 + k)
    BY <2>2, <2>3
  <2>5. \A k \in 1 .. l : a - 1 + k \in NodesIn(graph, f)
    BY <2>1, <2>2
  <2>6. \A n \in NodesIn(graph, f) : n \in DOMAIN graph.nodes
    BY DEF Shape
  <2>7. \A k \in 1 .. l : s[k] \in Nat
    BY <1>1, <2>4, <2>5, <2>6
  <2>8. s \in Seq(Nat) /\ Len(s) = l
    BY <2>2, <2>4, <2>7, Listed
  <2> QED
    BY <2>4, <2>5, <2>8 DEF s, a, b
<1>3. ASSUME NEW n \in AllCalls
      PROVE  /\ CalleeCosts(n) \in Seq(Nat) /\ Len(CalleeCosts(n)) = Len(graph.succ[n])
             /\ \A k \in 1 .. Len(graph.succ[n]) : CalleeCosts(n)[k] = funcAvg[CalleeOf(n, k)]
  <2> DEFINE s == CalleeCosts(n)
             l == Len(graph.succ[n])
  <2>1. l \in Nat /\ DOMAIN graph.succ[n] = 1 .. l
    BY CalleesFact DEF Linked
  <2>2. s = [k \in 1 .. l |-> s[k]] /\ \A k \in 1 .. l : s[k] = funcAvg[CalleeOf(n, k)]
    BY <2>1 DEF CalleeCosts
  <2>3. \A k \in 1 .. l : CalleeOf(n, k) \in Functions
    BY <2>1, CalleesFact
  <2>4. \A k \in 1 .. l : s[k] \in Nat
    <3>1. \A f \in Functions : funcAvg[f] \in Nat
      BY DEF Costs
    <3> HIDE DEF s, l
    <3> QED
      BY <2>2, <2>3, <3>1
  <2> HIDE DEF s, l
  <2>5. s \in Seq(Nat) /\ Len(s) = l
    BY <2>1, <2>2, <2>4, Listed
  <2> QED
    BY <2>2, <2>5 DEF s, l
<1> QED
  BY <1>1, <1>2, <1>3

\* The initial cost of a function.
LEMMA OwnCostFact ==
    ASSUME Shape, NEW f \in Functions, NEW s \in Seq(Nat),
           Len(s) = End(graph, f) - Entry(graph, f),
           \A k \in 1 .. Len(s) : s[k] = Instructions(Entry(graph, f) + k - 1)
    PROVE  OwnCost(f) = Total(s) % (Infinity + 1)
<1> DEFINE n == Len(s)
           m == Infinity + 1
           e == Entry(graph, f)
           cost == CHOOSE g : g = [k \in 0 .. n |->
                      IF k = 0 THEN 0 ELSE Plus(g[k - 1], Instructions(e + k - 1))]
<1>1. /\ n \in Nat /\ e \in Nat \ {0} /\ End(graph, f) \in Nat /\ e \in NodesIn(graph, f)
      /\ NodesIn(graph, f) = e .. End(graph, f) - 1
  BY DEF Shape, NodesIn
<1>2. Cardinality(NodesIn(graph, f)) = n
  <2>1. Cardinality(e .. End(graph, f) - 1) = End(graph, f) - 1 - e + 1
    BY <1>1, FS_Interval
  <2> QED
    BY <1>1, <2>1
<1>3. OwnCost(f) = cost[n]
  BY <1>2 DEF OwnCost
<1>4. \A k \in 1 .. n : s[k] \in Nat /\ s[k] = Instructions(e + k - 1)
  BY ElementOfSeq
<1> HIDE DEF n, e
<1>5. IsSum(Total(s), s, n) /\ Total(s) \in Nat
  BY TotalFact DEF n
<1>6. PICK h : Parts(h, s, n) /\ Total(s) = h[n]
  BY <1>5 DEF IsSum
<1>7. /\ \A k \in 0 .. n : h[k] \in Int
      /\ h[0] = 0 /\ \A k \in 1 .. n : h[k] = h[k - 1] + s[k]
  BY <1>6 DEF Parts
<1>8. m \in Nat \ {0}
  BY InfinityAssumption
<1> DEFINE g == [k \in 0 .. n |-> h[k] % m]
           P == {k \in Nat : k <= n => h[k] \in Nat}
<1>9. \A k \in Nat : k \in P
  <2>1. 0 \in P
    BY <1>7
  <2>2. ASSUME NEW k \in Nat, k \in P PROVE k + 1 \in P
    <3>1. SUFFICES ASSUME k + 1 <= n PROVE h[k + 1] \in Nat
      OBVIOUS
    <3>2. k + 1 \in 1 .. n /\ (k + 1) - 1 = k /\ h[k] \in Nat
      BY <1>1, <2>2, <3>1
    <3> HIDE DEF P
    <3> QED
      BY <1>4, <1>7, <3>2
  <2> HIDE DEF P
  <2> QED
    BY <2>1, <2>2, Induction
<1>10. \A k \in 0 .. n : h[k] \in Nat
  BY <1>1, <1>9
<1> HIDE DEF P, m
<1>11. g = [k \in 0 .. n |-> IF k = 0 THEN 0 ELSE Plus(g[k - 1], Instructions(e + k - 1))]
  <2>1. ASSUME NEW k \in 0 .. n
        PROVE  h[k] % m = IF k = 0 THEN 0 ELSE Plus(g[k - 1], Instructions(e + k - 1))
    <3>1. CASE k = 0
      <4>1. 0 % m = 0
        BY <1>8
      <4> QED
        BY <1>7, <3>1, <4>1
    <3>2. CASE k # 0
      <4>1. k \in 1 .. n /\ k - 1 \in 0 .. n
        BY <1>1, <3>2
      <4>2. g[k - 1] = h[k - 1] % m /\ h[k - 1] \in Nat /\ s[k] \in Nat
        BY <1>4, <1>10, <4>1
      <4>3. h[k] = h[k - 1] + s[k] /\ s[k] = Instructions(e + k - 1)
        BY <1>4, <1>7, <4>1
      <4>4. Plus(h[k - 1] % m, s[k]) = (h[k - 1] + s[k]) % m
        BY <4>2, PlusWraps DEF m
      <4> QED
        BY <3>2, <4>2, <4>3, <4>4
    <3> QED
      BY <3>1, <3>2
  <2> QED
    BY <2>1
<1> HIDE DEF g
<1>12. cost = [k \in 0 .. n |-> IF k = 0 THEN 0 ELSE Plus(cost[k - 1], Instructions(e + k - 1))]
  BY <1>11, Zenon
<1> HIDE DEF cost
<1> DEFINE Q == {k \in Nat : k <= n => cost[k] = g[k]}
<1>13. n \in Q
  <2>1. 0 \in Q
    BY <1>1, <1>11, <1>12
  <2>2. ASSUME NEW k \in Nat, k \in Q PROVE k + 1 \in Q
    <3>1. SUFFICES ASSUME k + 1 <= n PROVE cost[k + 1] = g[k + 1]
      OBVIOUS
    <3>2. k + 1 \in 0 .. n /\ k + 1 # 0 /\ (k + 1) - 1 = k /\ cost[k] = g[k]
      BY <1>1, <2>2, <3>1, SMTT(30)
    <3> HIDE DEF Q
    <3>3. cost[k + 1] = Plus(cost[(k + 1) - 1], Instructions(e + (k + 1) - 1))
      BY <1>12, <3>2
    <3>4. g[k + 1] = Plus(g[(k + 1) - 1], Instructions(e + (k + 1) - 1))
      BY <1>11, <3>2
    <3> QED
      BY <3>2, <3>3, <3>4
  <2> HIDE DEF Q
  <2> QED
    BY <1>1, <2>1, <2>2, Induction
<1> QED
  BY <1>1, <1>3, <1>6, <1>13 DEF g, m

\* A sum is that of any sequence with the same items.
LEMMA SumMoved ==
    ASSUME NEW x, NEW s, NEW t, NEW n, IsSum(x, s, n), \A i \in 1 .. n : s[i] = t[i]
    PROVE  IsSum(x, t, n)
BY DEF IsSum, Parts

\* The costs of callees that are done with do not change.
LEMMA CountedKept ==
    ASSUME UNCHANGED <<program, graph>>, NEW n, callAvg'[n] = callAvg[n], Counted(n),
           \A k \in DOMAIN graph.succ[n] : funcAvg'[CalleeOf(n, k)] = funcAvg[CalleeOf(n, k)]
    PROVE  Counted(n)'
<1>1. CalleeCosts(n)' = CalleeCosts(n)
  BY GraphSame DEF CalleeCosts
<1> QED
  BY <1>1 DEF Counted

\* Nor does what a frame has summed up.
LEMMA SummedKept ==
    ASSUME Shape, Linked, UNCHANGED <<program, graph>>, NEW e \in Frame, InCall(e), FrameOk(e),
           Finished \subseteq Finished', \A g \in Finished : funcAvg'[g] = funcAvg[g], Summed(e)
    PROVE  Summed(e)'
<1> DEFINE l == e.succ - 1
<1>1. PICK n : n = CallAt(e)
  OBVIOUS
<1>2. e.func \in Functions /\ e.call \in DOMAIN CallsOf(e.func)
  BY DEF InCall, Frame, Shape
<1>3. n \in AllCalls /\ n \in DOMAIN graph.nodes
  BY <1>1, <1>2 DEF Shape, CallAt, AllCalls
<1>4. Len(graph.succ[n]) \in Nat /\ DOMAIN graph.succ[n] = 1 .. Len(graph.succ[n])
  BY <1>3 DEF Linked
<1>5. l \in Int /\ l <= Len(graph.succ[n])
  BY <1>1, <1>4 DEF FrameOk, Frame
<1>6. \A i \in 1 .. l : CalleeOf(n, i) \in Finished /\ i \in DOMAIN graph.succ[n]
  BY <1>1, <1>4, <1>5 DEF Summed
<1>7. \A i \in 1 .. l : CalleeCosts(n)'[i] = CalleeCosts(n)[i]
  <2>1. CalleeCosts(n)' = [k \in DOMAIN graph.succ[n] |-> funcAvg'[CalleeOf(n, k)]]
    BY GraphSame DEF CalleeCosts
  <2> QED
    BY <1>6, <2>1 DEF CalleeCosts
<1>8. ASSUME NEW x, IsSum(x, CalleeCosts(n)', l) PROVE e.sum = x % (Infinity + 1)
  <2>1. IsSum(x, CalleeCosts(n), l)
    BY <1>7, <1>8, SumMoved
  <2> QED
    BY <1>1, <2>1 DEF Summed
<1>9. \A i \in 1 .. l : CalleeOf(n, i)' \in Finished'
  BY <1>6, GraphSame
<1>10. CallAt(e)' = n
  BY <1>1, FrameSame
<1> HIDE DEF l
<1> QED
  BY <1>8, <1>9, <1>10 DEF Summed, l

\* The averages where nothing changes that they depend on.
LEMMA AvgKept ==
    ASSUME AvgInv, Recurses => Shape /\ Linked /\ StackOk,
           UNCHANGED <<program, graph, funcAvg, callAvg>>,
           \/ phase \in {"intra", "inter", "done"} /\ phase' \in {"intra", "inter", "done"}
           \/ UNCHANGED <<phase, stack, resolved>>
    PROVE  AvgInv'
<1>1. HasEdges' = HasEdges
  BY DEF HasEdges
<1>2. \A f : NodeCosts(f)' = NodeCosts(f)
  BY DEF NodeCosts, NodeCost, Entry, End, Instructions, NumInstructions, IsCall
<1>3. Functions' = Functions /\ AllCalls' = AllCalls /\ Reached' = Reached /\ \A f : CallsOf(f)' = CallsOf(f)
  BY GraphSame
<1>4. CostType' /\ (HasEdges' => \A f \in Functions' : funcAvg'[f] = Total(NodeCosts(f)') % (Infinity + 1))
  BY <1>1, <1>2, <1>3 DEF AvgInv, CostType
<1>5. \A n : Counted(n) => Counted(n)'
  BY CountedKept
<1>6. CASE phase' \in {"intra", "inter", "done"}
  BY <1>3, <1>4, <1>5, <1>6 DEF AvgInv
<1>7. CASE phase' \notin {"intra", "inter", "done", "avg"}
  BY <1>4, <1>7 DEF AvgInv
<1>8. CASE phase' = "avg"
  <2>1. phase = "avg" /\ UNCHANGED <<stack, resolved>> /\ Shape /\ Linked /\ StackOk
    BY <1>8 DEF Recurses
  <2>2. Finished' = Finished /\ \A f, k : Passed(f, k)' <=> Passed(f, k)
    BY <2>1 DEF Finished, Passed
  <2>3. \A n, l : CalleeOf(n, l)' = CalleeOf(n, l)
    BY GraphSame
  <2>4. \A f \in Functions' : \A k \in DOMAIN CallsOf(f)' :
            ~Passed(f, k)' => callAvg'[CallsOf(f)'[k]] = 0
    BY <1>3, <2>1, <2>2 DEF AvgInv
  <2>5. \A f \in Functions' : f \notin Reached'[f] =>
            \A k \in DOMAIN CallsOf(f)' : Passed(f, k)' =>
                /\ \A l \in DOMAIN graph'.succ[CallsOf(f)'[k]] :
                      CalleeOf(CallsOf(f)[k], l)' \in Finished'
                /\ Counted(CallsOf(f)[k])'
    <3>1. SUFFICES ASSUME NEW f \in Functions, f \notin Reached[f], NEW k \in DOMAIN CallsOf(f), Passed(f, k)
                   PROVE  /\ \A l \in DOMAIN graph.succ[CallsOf(f)[k]] :
                                CalleeOf(CallsOf(f)[k], l)' \in Finished
                          /\ Counted(CallsOf(f)[k])'
      BY <1>3, <2>2
    <3>2. /\ \A l \in DOMAIN graph.succ[CallsOf(f)[k]] : CalleeOf(CallsOf(f)[k], l) \in Finished
          /\ Counted(CallsOf(f)[k])
      BY <2>1, <3>1 DEF AvgInv
    <3>3. CallsOf(f)[k]' = CallsOf(f)[k]
      BY <1>3
    <3> QED
      BY <1>5, <2>3, <3>2, <3>3
  <2>6. \A i \in 1 .. Len(stack') :
            InCall(stack[i])' /\ stack'[i].func \notin Reached'[stack'[i].func] => Summed(stack[i])'
    <3>1. SUFFICES ASSUME NEW i \in 1 .. Len(stack), NEW e, e = stack[i], InCall(e),
                          e.func \notin Reached[e.func]
                   PROVE  Summed(e)'
      BY <1>3, <2>1, FrameSame
    <3>2. e \in Frame /\ FrameOk(e) /\ Summed(e)
      BY <2>1, <3>1, ElementOfSeq DEF StackOk, FrameOk, AvgInv
    <3> QED
      BY <2>1, <2>2, <3>1, <3>2, SummedKept
  <2> QED
    BY <1>4, <1>8, <2>4, <2>5, <2>6 DEF AvgInv
<1> QED
  BY <1>6, <1>7, <1>8

\* There are no averages at first.
LEMMA AvgInit == Init => AvgInv
  BY DEF Init, AvgInv, CostType, HasEdges

\* The initial costs.
LEMMA AvgStart ==
    ASSUME GraphInv, StackInv, GraphInv', MakeEdges, phase' = "avg"
    PROVE  AvgInv'
<1> DEFINE succ == [n \in DOMAIN graph.nodes |-> Successors(program, graph.nodes, graph.lookups, n)]
<1>0. phase = "edges" /\ program' = program
  BY DEF MakeEdges, Throw
<1>1. /\ graph' = [graph EXCEPT !.succ = succ]
      /\ funcAvg' = [f \in Functions |-> OwnCost(f)] /\ callAvg' = [n \in AllCalls |-> 0]
      /\ UNCHANGED <<stack, resolved>>
  BY DEF MakeEdges, Throw
<1>2. GraphOf(program, graph) /\ Shape
  BY <1>0, ShapeFact DEF GraphInv, HasNodes
<1>3. graph'.nodes = graph.nodes /\ graph'.lookups = graph.lookups
  BY <1>1, <1>2 DEF GraphOf
<1>4. /\ Functions' = Functions /\ AllCalls' = AllCalls /\ \A f : CallsOf(f)' = CallsOf(f)
      /\ \A n : Instructions(n)' = Instructions(n)
      /\ \A f : Entry(graph, f)' = Entry(graph, f) /\ End(graph, f)' = End(graph, f)
  BY <1>0, <1>3 DEF Functions, AllCalls, IsCall, CallsOf, Instructions, NumInstructions, Entry, End
<1>5. stack' = <<>> /\ resolved' = {}
  BY <1>0, <1>1 DEF StackInv, Recurses
<1>6. ASSUME NEW f \in Functions
      PROVE  OwnCost(f) \in Costs /\ OwnCost(f) = Total(NodeCosts(f)') % (Infinity + 1)
  <2>0. PICK a, b : a = Entry(graph, f) /\ b = End(graph, f)
    OBVIOUS
  <2> DEFINE l == b - a
  <2>1. PICK s : s = NodeCosts(f)'
    OBVIOUS
  <2>2. a \in Nat \ {0} /\ b \in Nat /\ a \in NodesIn(graph, f) /\ NodesIn(graph, f) = a .. b - 1
    BY <1>2, <2>0 DEF Shape, NodesIn
  <2>3. b - 1 - (a - 1) = l /\ l \in Nat
    BY <2>2
  <2>4. \A n \in NodesIn(graph, f) : NodeCost(n)' = Instructions(n) /\ Instructions(n) \in Nat
    <3>1. SUFFICES ASSUME NEW n \in NodesIn(graph, f)
                   PROVE  NodeCost(n)' = Instructions(n) /\ Instructions(n) \in Nat
      OBVIOUS
    <3>2. n \in DOMAIN graph.nodes
      BY <1>2 DEF Shape
    <3>3. Instructions(n) \in Nat
      BY <1>2, <3>2 DEF Shape
    <3>4. IsCall(graph, n)' => callAvg'[n] = 0
      BY <1>1, <1>3, <3>2 DEF IsCall, AllCalls
    <3> QED
      BY <1>4, <3>3, <3>4 DEF NodeCost
  <2>5. s = [k \in 1 .. b - 1 - (a - 1) |-> NodeCost(a - 1 + k)']
    BY <1>4, <2>0, <2>1 DEF NodeCosts
  <2>6. s = [k \in 1 .. l |-> s[k]] /\ \A k \in 1 .. l : s[k] = Instructions(a + k - 1) /\ s[k] \in Nat
    <3>1. \A k \in 1 .. l : a - 1 + k \in NodesIn(graph, f) /\ a - 1 + k = a + k - 1
      BY <2>2, <2>3
    <3> QED
      BY <2>3, <2>4, <2>5, <3>1
  <2>7. s \in Seq(Nat) /\ Len(s) = l
    BY <2>3, <2>6, Listed
  <2>8. OwnCost(f) = Total(s) % (Infinity + 1)
    BY <1>2, <2>0, <2>6, <2>7, OwnCostFact
  <2>9. Total(s) \in Nat
    BY <2>7, TotalFact
  <2>10. Total(s) % (Infinity + 1) \in Costs
    BY <2>9, InfinityAssumption DEF Costs
  <2> QED
    BY <2>1, <2>8, <2>10
<1>7. 0 \in Costs
  BY InfinityAssumption DEF Costs
<1>8. funcAvg' \in [Functions' -> Costs] /\ callAvg' \in [AllCalls' -> Costs]
  BY <1>1, <1>4, <1>6, <1>7
<1>9. \A f \in Functions' : funcAvg'[f] = Total(NodeCosts(f)') % (Infinity + 1)
  BY <1>1, <1>4, <1>6
<1>10. \A f, k : ~Passed(f, k)'
  BY <1>5 DEF Passed
<1>11. \A f \in Functions' : \A k \in DOMAIN CallsOf(f)' : callAvg'[CallsOf(f)'[k]] = 0
  BY <1>1, <1>2, <1>4 DEF Shape
<1>12. 1 .. Len(stack') = {}
  BY <1>5
<1> QED
  BY <1>8, <1>9, <1>10, <1>11, <1>12 DEF AvgInv, CostType

\* What is passed keeps its costs while the costs of others grow.
LEMMA PassedKept ==
    ASSUME AvgInv, phase = "avg", Shape, Linked, UNCHANGED <<program, graph, phase>>,
           Finished \subseteq Finished', \A g \in Finished : funcAvg'[g] = funcAvg[g],
           NEW f \in Functions, f \notin Reached[f], NEW k \in DOMAIN CallsOf(f), Passed(f, k),
           callAvg'[CallsOf(f)[k]] = callAvg[CallsOf(f)[k]]
    PROVE  /\ \A l \in DOMAIN graph'.succ[CallsOf(f)'[k]] : CalleeOf(CallsOf(f)[k], l)' \in Finished'
           /\ Counted(CallsOf(f)[k])'
<1>1. PICK n : n = CallsOf(f)[k]
  OBVIOUS
<1>2. CallsOf(f)' = CallsOf(f) /\ \A m, l : CalleeOf(m, l)' = CalleeOf(m, l)
  BY GraphSame
<1>3. Counted(n) /\ \A l \in DOMAIN graph.succ[n] : CalleeOf(n, l) \in Finished
  BY <1>1 DEF AvgInv
<1>4. Counted(n)'
  BY <1>1, <1>3, CountedKept
<1> QED
  BY <1>1, <1>2, <1>3, <1>4

\* Functions are entered and left at no cost.
LEMMA AvgMove ==
    ASSUME AvgInv, phase = "avg", Shape, Linked, StackOk, StackOk',
           UNCHANGED <<program, graph, phase, funcAvg, callAvg>>,
           Finished \subseteq Finished',
           \A f \in Functions : \A k \in DOMAIN CallsOf(f) : Passed(f, k)' <=> Passed(f, k),
           \A i \in 1 .. Len(stack') :
              (i \in 1 .. Len(stack) /\ stack'[i] = stack[i]) \/ (stack'[i].succ = 1 /\ stack'[i].sum = 0)
    PROVE  AvgInv'
<1>1. \A f : NodeCosts(f)' = NodeCosts(f)
  BY DEF NodeCosts, NodeCost, Entry, End, Instructions, NumInstructions, IsCall
<1>2. Functions' = Functions /\ AllCalls' = AllCalls /\ Reached' = Reached /\ \A f : CallsOf(f)' = CallsOf(f)
  BY GraphSame
<1>3. HasEdges /\ HasEdges'
  BY DEF HasEdges
<1>4. CostType' /\ (HasEdges' => \A f \in Functions' : funcAvg'[f] = Total(NodeCosts(f)') % (Infinity + 1))
  BY <1>1, <1>2, <1>3 DEF AvgInv, CostType
<1>5. \A f \in Functions' : \A k \in DOMAIN CallsOf(f)' :
          ~Passed(f, k)' => callAvg'[CallsOf(f)'[k]] = 0
  BY <1>2 DEF AvgInv
<1>6. \A f \in Functions' : f \notin Reached'[f] =>
          \A k \in DOMAIN CallsOf(f)' : Passed(f, k)' =>
              /\ \A l \in DOMAIN graph'.succ[CallsOf(f)'[k]] :
                    CalleeOf(CallsOf(f)[k], l)' \in Finished'
              /\ Counted(CallsOf(f)[k])'
  BY <1>2, PassedKept
<1>7. \A i \in 1 .. Len(stack') :
          InCall(stack[i])' /\ stack'[i].func \notin Reached'[stack'[i].func] => Summed(stack[i])'
  <2>1. SUFFICES ASSUME NEW i \in 1 .. Len(stack'), NEW e, e = stack'[i], InCall(e)',
                        e.func \notin Reached[e.func]
                 PROVE  Summed(e)'
    BY <1>2
  <2>2. CASE i \in 1 .. Len(stack) /\ stack'[i] = stack[i]
    <3>1. e \in Frame /\ FrameOk(e) /\ InCall(e)
      BY <2>1, <2>2, FrameSame, ElementOfSeq DEF StackOk, FrameOk
    <3>2. Summed(e)
      BY <2>1, <2>2, <3>1 DEF AvgInv
    <3> QED
      BY <3>1, <3>2, SummedKept
  <2>3. CASE e.succ = 1 /\ e.sum = 0
    <3>1. e.succ - 1 = 0 /\ 1 .. 0 = {} /\ 0 % (Infinity + 1) = 0
      BY <2>3, InfinityAssumption
    <3>2. \A x, s : IsSum(x, s, 0) => x = 0
      BY SumType
    <3> QED
      BY <2>3, <3>1, <3>2 DEF Summed
  <2> QED
    BY <2>1, <2>2, <2>3
<1> QED
  BY <1>4, <1>5, <1>6, <1>7 DEF AvgInv

\* The costs of one more callee.
LEMMA AvgCalleeStep ==
    ASSUME AvgInv, Shape, Linked, StackOk, AvgCallee
    PROVE  AvgInv'
<1>1. /\ phase = "avg" /\ AtCallee /\ AtCall /\ stack # <<>> /\ Callee \in resolved
      /\ UNCHANGED <<program, graph, phase, resolved, funcAvg, callAvg>>
  BY DEF AvgCallee, AtCallee, AtCall, avgVars
<1>2. /\ Top \in Frame /\ Top.func \in Functions /\ Top.succ \in Nat \ {0} /\ Callee = CalleeOf(Call, Top.succ)
      /\ Top.call \in Nat
      /\ Callee \in Functions /\ Call = CallAt(Top) /\ Call \in AllCalls /\ InCall(Top)
      /\ Len(stack) \in Nat \ {0} /\ Top = stack[Len(stack)] /\ Callees = graph.succ[Call]
  BY <1>1, TopFact
<1>3. funcAvg[Callee] \in Nat /\ Top.sum \in Nat
  BY <1>1, <1>2 DEF AvgInv, CostType, HasEdges, Frame, Costs
<1> DEFINE c == Plus(Top.sum, funcAvg[Callee])
<1>4. c \in Costs
  BY <1>3, PlusFact
<1>5. NextCallee.sum = Top.sum
  BY <1>1, NextFrames
<1> HIDE DEF c
<1> DEFINE r == [NextCallee EXCEPT !.sum = c]
<1>6. PICK e \in Frame : /\ e = r /\ e.func = Top.func
                         /\ e.call = Top.call /\ e.succ = Top.succ + 1 /\ e.sum = c
  <2>1. /\ NextCallee \in Frame /\ NextCallee.func = Top.func /\ NextCallee.call = Top.call
        /\ NextCallee.succ = Top.succ + 1
    BY <1>1, NextFrames
  <2>2. /\ r \in Frame /\ r.func = NextCallee.func /\ r.call = NextCallee.call
        /\ r.succ = NextCallee.succ /\ r.sum = c
    BY <1>4, <2>1, SummedFrame
  <2> HIDE DEF r
  <2> QED
    BY <2>1, <2>2
<1>7. Top.succ <= Len(Callees) /\ stack' = Append(Front(stack), e)
  BY <1>1, <1>5, <1>6, NextFrames DEF AvgCallee, ReplaceTop, c
<1>8. /\ StackOk' /\ Finished' = Finished /\ Len(stack') = Len(stack) /\ stack'[Len(stack)] = e
      /\ \A i \in 1 .. Len(stack) - 1 : stack'[i] = stack[i]
      /\ \A f, k : k \in Nat => (Passed(f, k)' <=> Passed(f, k))
  <2>1. \/ e.call = Top.call /\ e.succ = Top.succ + 1 /\ Top.succ <= Len(Callees)
        \/ e.call = Top.call + 1 /\ e.succ = FirstSucc
    BY <1>6, <1>7
  <2>2. /\ StackOk' /\ Finished' = Finished /\ Len(stack') = Len(stack) /\ stack'[Len(stack)] = e
        /\ \A i \in 1 .. Len(stack) - 1 : stack'[i] = stack[i]
        /\ \A f, k : k \in Nat => (Passed(f, k)' <=>
              Passed(f, k) \/ (f = Top.func /\ k = Top.call /\ e.call = Top.call + 1))
    BY <1>1, <1>6, <1>7, <2>1, ReplaceFact
  <2>3. e.call # Top.call + 1
    BY <1>2, <1>6
  <2> QED
    BY <2>2, <2>3
<1>9. Functions' = Functions /\ AllCalls' = AllCalls /\ Reached' = Reached /\ \A f : CallsOf(f)' = CallsOf(f)
  BY <1>1, GraphSame
<1>10. \A f \in Functions : \A k \in DOMAIN CallsOf(f) : Passed(f, k)' <=> Passed(f, k)
  BY <1>8 DEF Shape
<1>11. CostType' /\ \A f \in Functions' : funcAvg'[f] = Total(NodeCosts(f)') % (Infinity + 1)
  <2>1. \A f : NodeCosts(f)' = NodeCosts(f)
    BY <1>1 DEF NodeCosts, NodeCost, Entry, End, Instructions, NumInstructions, IsCall
  <2> QED
    BY <1>1, <1>9, <2>1 DEF AvgInv, CostType, HasEdges
<1>12. \A f \in Functions' : \A k \in DOMAIN CallsOf(f)' :
           ~Passed(f, k)' => callAvg'[CallsOf(f)'[k]] = 0
  BY <1>1, <1>9, <1>10 DEF AvgInv
<1>13. \A f \in Functions' : f \notin Reached'[f] =>
           \A k \in DOMAIN CallsOf(f)' : Passed(f, k)' =>
               /\ \A l \in DOMAIN graph'.succ[CallsOf(f)'[k]] :
                     CalleeOf(CallsOf(f)[k], l)' \in Finished'
               /\ Counted(CallsOf(f)[k])'
  BY <1>1, <1>8, <1>9, <1>10, PassedKept
<1>14. ASSUME NEW i \in 1 .. Len(stack'), NEW d, d = stack'[i], InCall(d)',
              d.func \notin Reached[d.func]
       PROVE  Summed(d)'
  <2>1. CASE i # Len(stack)
    <3>1. i \in 1 .. Len(stack) /\ d = stack[i]
      BY <1>2, <1>8, <1>14, <2>1
    <3>2. d \in Frame /\ FrameOk(d) /\ InCall(d)
      BY <1>1, <1>14, <3>1, FrameSame, ElementOfSeq DEF StackOk, FrameOk
    <3>3. Summed(d)
      BY <1>1, <1>14, <3>1, <3>2 DEF AvgInv
    <3> QED
      BY <1>1, <1>8, <3>2, <3>3, SummedKept
  <2>2. CASE i = Len(stack)
    <3>1. d = e /\ Top.func \notin Reached[Top.func]
      BY <1>6, <1>8, <1>14, <2>2
    <3>2. Callee \in Finished
      BY <1>1, <3>1, MetAgain
    <3>3. Summed(Top)
      BY <1>1, <1>2, <3>1 DEF AvgInv
    <3>4. PICK n : n = Call
      OBVIOUS
    <3>5. CallAt(e)' = n
      <4>1. CallAt(e) = CallAt(Top)
        BY <1>6 DEF CallAt
      <4> QED
        BY <1>1, <1>2, <3>4, <4>1, FrameSame
    <3>6. CalleeCosts(n)' = CalleeCosts(n) /\ \A l : CalleeOf(n, l)' = CalleeOf(n, l)
      BY <1>1, GraphSame DEF CalleeCosts
    <3>7. e.succ - 1 = Top.succ /\ \A l \in 1 .. Top.succ : l = Top.succ \/ l \in 1 .. Top.succ - 1
      BY <1>2, <1>6
    <3>8. \A l \in 1 .. e.succ - 1 : CalleeOf(n, l)' \in Finished'
      BY <1>2, <1>8, <3>2, <3>3, <3>4, <3>6, <3>7 DEF Summed
    <3>9. ASSUME NEW x, IsSum(x, CalleeCosts(n), Top.succ)
          PROVE  e.sum = x % (Infinity + 1)
      <4> DEFINE s == CalleeCosts(n)
                 j == Top.succ - 1
      <4>1. s \in Seq(Nat) /\ Len(s) = Len(Callees) /\ \A k \in 1 .. Len(s) : s[k] = funcAvg[CalleeOf(n, k)]
        <5>1. funcAvg \in [Functions -> Costs] /\ callAvg \in [AllCalls -> Costs]
          BY <1>1 DEF AvgInv, CostType, HasEdges
        <5>2. n \in AllCalls /\ Callees = graph.succ[n]
          BY <1>2, <3>4
        <5> HIDE DEF s, j
        <5>3. /\ CalleeCosts(n) \in Seq(Nat) /\ Len(CalleeCosts(n)) = Len(graph.succ[n])
              /\ \A k \in 1 .. Len(CalleeCosts(n)) : CalleeCosts(n)[k] = funcAvg[CalleeOf(n, k)]
          BY <5>1, <5>2, CostsFact
        <5> QED
          BY <5>2, <5>3 DEF s
      <4>2. j \in Nat /\ Top.succ = j + 1
        BY <1>2
      <4>3. Len(s) \in Nat /\ \A k \in 1 .. Len(s) : s[k] \in Nat
        BY <4>1, ElementOfSeq
      <4>4. \A k \in 1 .. Top.succ : k \in 1 .. Len(s)
        BY <1>2, <1>7, <4>1, <4>3
      <4> HIDE DEF s, j
      <4>5. PICK h : Parts(h, s, j)
        <5>1. \A k \in 1 .. j : s[k] \in Int
          BY <1>2, <4>2, <4>3, <4>4
        <5> QED
          BY <4>2, <5>1, PartsExist
      <4>6. IsSum(h[j], s, j)
        BY <4>5 DEF IsSum
      <4>7. IsSum(x, s, Top.succ)
        BY <3>9 DEF s
      <4>8. x = h[j] + s[Top.succ]
        <5>1. SameItems(s, s, 0, 0, j)
          BY DEF SameItems
        <5> QED
          BY <4>2, <4>6, <4>7, <5>1, SumPush
      <4>9. h[j] \in Nat
        <5>1. \A k \in 1 .. j : s[k] >= 0
          BY <1>2, <4>2, <4>3, <4>4
        <5> QED
          BY <4>6, <5>1, SumType
      <4>10. Top.sum = h[j] % (Infinity + 1)
        BY <1>2, <3>3, <3>4, <4>6 DEF Summed, s, j
      <4>11. s[Top.succ] = funcAvg[Callee]
        <5>1. Top.succ \in 1 .. Len(s)
          BY <1>2, <4>4
        <5> QED
          BY <1>2, <3>4, <4>1, <5>1
      <4>12. e.sum = (h[j] + s[Top.succ]) % (Infinity + 1)
        BY <1>3, <1>6, <4>9, <4>10, <4>11, PlusWraps DEF c
      <4> QED
        BY <4>8, <4>12
    <3> QED
      BY <3>1, <3>5, <3>6, <3>7, <3>8, <3>9 DEF Summed
  <2> QED
    BY <2>1, <2>2
<1>15. \A i \in 1 .. Len(stack') :
           InCall(stack[i])' /\ stack'[i].func \notin Reached'[stack'[i].func] => Summed(stack[i])'
  BY <1>9, <1>14
<1> QED
  BY <1>1, <1>11, <1>12, <1>13, <1>15 DEF AvgInv

\* The average of a call.
LEMMA AvgCallStep ==
    ASSUME AvgInv, Shape, Linked, StackOk, AvgCall
    PROVE  AvgInv'
<1> DEFINE average == Top.sum \div Len(Callees)
<1>1. /\ phase = "avg" /\ AtCall /\ ~AtCallee /\ stack # <<>>
      /\ UNCHANGED <<program, graph, phase, resolved>>
  BY DEF AvgCall, AtCall
<1>2. /\ Top \in Frame /\ Top.func \in Functions /\ Top.succ \in Nat \ {0} /\ Top.call \in Nat
      /\ Top.call \in DOMAIN CallsOf(Top.func) /\ Call = CallsOf(Top.func)[Top.call]
      /\ Call = CallAt(Top) /\ Call \in AllCalls /\ Call \in NodesIn(graph, Top.func) /\ InCall(Top)
      /\ Top.func \notin Finished /\ ~Passed(Top.func, Top.call)
      /\ Len(stack) \in Nat \ {0} /\ Top = stack[Len(stack)] /\ Callees = graph.succ[Call]
      /\ Top.succ <= Len(Callees) + 1
  BY <1>1, TopFact DEF Call
<1>3. Call \in DOMAIN graph.nodes /\ Len(Callees) \in Nat \ {0} /\ DOMAIN Callees = 1 .. Len(Callees)
  BY <1>2 DEF AllCalls, Linked
<1>4. Top.succ = Len(Callees) + 1
  BY <1>1, <1>2, <1>3 DEF AtCallee
<1>5. /\ HasEdges /\ HasEdges' /\ funcAvg \in [Functions -> Costs] /\ callAvg \in [AllCalls -> Costs]
  BY <1>1 DEF AvgInv, CostType, HasEdges
<1>6. PICK c : c = IF average > 1 THEN average ELSE 1
  OBVIOUS
<1>7. average \in Nat /\ average <= Infinity
  <2>1. Top.sum \in Nat /\ Top.sum <= Infinity
    BY <1>2 DEF Frame, Costs
  <2> DEFINE a == Top.sum
             b == Len(Callees)
  <2>2. a \in Nat /\ b \in Nat \ {0}
    BY <1>3, <2>1
  <2> HIDE DEF a, b
  <2>3. a \div b \in Nat /\ a \div b <= a
    <3>1. a \div b \in Int /\ a = b * (a \div b) + (a % b) /\ a % b \in 0 .. b - 1
      BY <2>2
    <3> DEFINE q == a \div b
               r == a % b
    <3>2. q \in Int /\ r \in Nat /\ a = b * q + r /\ r < b
      BY <2>2, <3>1
    <3> HIDE DEF q, r
    <3>3. ~(q < 0)
      <4>1. SUFFICES ASSUME q <= -1 PROVE FALSE
        BY <3>2
      <4>2. b * q <= -b
        BY <2>2, <3>2, <4>1
      <4> QED
        BY <2>2, <3>2, <4>2
    <3>4. b * q >= q
      BY <2>2, <3>2, <3>3
    <3> QED
      BY <2>2, <3>2, <3>3, <3>4 DEF q
  <2> QED
    BY <2>1, <2>3, InfinityAssumption DEF a, b
<1>8. c \in Costs /\ c \in Nat
  BY <1>6, <1>7, InfinityAssumption DEF Costs
<1> HIDE DEF average
<1>9. /\ callAvg' = [callAvg EXCEPT ![Call] = c]
      /\ funcAvg' = [funcAvg EXCEPT ![Top.func] = Plus(@, c)]
  BY <1>6 DEF AvgCall, average
<1>10. PICK e \in Frame : /\ e = NextCall /\ e.func = Top.func /\ e.call = Top.call + 1
                          /\ e.succ = 1 /\ e.sum = 0
  BY <1>1, NextFrames DEF FirstSucc
<1>11. stack' = Append(Front(stack), e) /\ e.succ = FirstSucc
  BY <1>1, <1>10 DEF AvgCall, ReplaceTop, FirstSucc
<1>12. /\ StackOk' /\ Finished' = Finished /\ Len(stack') = Len(stack) /\ stack'[Len(stack)] = e
       /\ \A i \in 1 .. Len(stack) - 1 : stack'[i] = stack[i]
       /\ \A f, k : k \in Nat => (Passed(f, k)' <=> Passed(f, k) \/ (f = Top.func /\ k = Top.call))
  BY <1>1, <1>2, <1>10, <1>11, ReplaceFact
<1>13. Functions' = Functions /\ AllCalls' = AllCalls /\ Reached' = Reached /\ \A f : CallsOf(f)' = CallsOf(f)
  BY <1>1, GraphSame
<1>14. \A f \in Functions : \A k \in DOMAIN CallsOf(f) :
           Passed(f, k)' <=> Passed(f, k) \/ (f = Top.func /\ k = Top.call)
  BY <1>12 DEF Shape
<1>15. CostType'
  <2>1. funcAvg[Top.func] \in Nat /\ Plus(funcAvg[Top.func], c) \in Costs
    <3>1. funcAvg[Top.func] \in Nat
      BY <1>2, <1>5 DEF Costs
    <3> QED
      BY <1>8, <3>1, PlusFact
  <2> QED
    BY <1>5, <1>8, <1>9, <1>13, <2>1 DEF CostType
<1>16. \A g \in Finished : funcAvg'[g] = funcAvg[g]
  BY <1>2, <1>5, <1>9 DEF Finished, StackOk
<1>17. \A n \in AllCalls : n # Call => callAvg'[n] = callAvg[n]
  BY <1>5, <1>9
<1>18. callAvg[Call] = 0 /\ callAvg'[Call] = c
  <2>1. callAvg[Call] = 0
    <3>1. \A f \in Functions : \A k \in DOMAIN CallsOf(f) : ~Passed(f, k) => callAvg[CallsOf(f)[k]] = 0
      BY <1>1 DEF AvgInv
    <3>2. callAvg[CallsOf(Top.func)[Top.call]] = 0
      BY <1>2, <3>1, Zenon
    <3> QED
      BY <1>2, <3>2, Zenon
  <2>2. Call \in DOMAIN callAvg
    BY <1>2, <1>5
  <2>3. callAvg'[Call] = c
    BY ONLY <1>9, <2>2
  <2> QED
    BY <2>1, <2>3
<1>19. ASSUME NEW f \in Functions, NEW k \in DOMAIN CallsOf(f), CallsOf(f)[k] = Call
       PROVE  f = Top.func /\ k = Top.call
  <2>1. CallsOf(f)[k] \in NodesIn(graph, f)
    BY DEF Shape
  <2>2. graph.nodes[Call].function = f /\ graph.nodes[Call].function = Top.func
    <3>1. \A g \in Functions : \A m \in NodesIn(graph, g) : graph.nodes[m].function = g
      BY DEF Shape
    <3> QED
      BY <1>2, <1>19, <2>1, <3>1
  <2>3. \A i, j \in DOMAIN CallsOf(f) : i # j => CallsOf(f)[i] # CallsOf(f)[j]
    BY DEF Shape
  <2> QED
    BY <1>2, <1>19, <2>2, <2>3
<1>20. \A n \in DOMAIN graph.nodes : n # Call => NodeCost(n)' = NodeCost(n)
  <2>1. SUFFICES ASSUME NEW n \in DOMAIN graph.nodes, n # Call PROVE NodeCost(n)' = NodeCost(n)
    OBVIOUS
  <2>2. Instructions(n)' = Instructions(n) /\ (IsCall(graph, n)' <=> IsCall(graph, n))
    BY <1>1, GraphSame DEF IsCall
  <2>3. IsCall(graph, n) => callAvg'[n] = callAvg[n]
    BY <1>17, <2>1 DEF AllCalls
  <2> QED
    BY <2>2, <2>3 DEF NodeCost
<1>21. PICK n : n = Call
  OBVIOUS
<1>22. NodeCost(n)' = NodeCost(n) + c /\ NodeCost(n) \in Nat
  <2>1. Instructions(n)' = Instructions(n) /\ IsCall(graph, n)' /\ IsCall(graph, n) /\ Instructions(n) \in Nat
    BY <1>1, <1>2, <1>3, <1>21, GraphSame DEF IsCall, AllCalls, Shape
  <2> QED
    BY <1>8, <1>18, <1>21, <2>1 DEF NodeCost
<1>23. ASSUME NEW f \in Functions
       PROVE  funcAvg'[f] = Total(NodeCosts(f)') % (Infinity + 1)
  <2>1. PICK a, b : a = Entry(graph, f) /\ b = End(graph, f)
    OBVIOUS
  <2>2. PICK s, t : s = NodeCosts(f) /\ t = NodeCosts(f)'
    OBVIOUS
  <2> DEFINE l == b - a
  <2>3. /\ a \in Nat \ {0} /\ b \in Nat /\ a \in NodesIn(graph, f) /\ NodesIn(graph, f) = a .. b - 1
        /\ \A m \in NodesIn(graph, f) : m \in DOMAIN graph.nodes /\ graph.nodes[m].function = f
    BY <2>1 DEF Shape, NodesIn
  <2>4. b - 1 - (a - 1) = l /\ l \in Nat
    BY <2>3
  <2>5. s \in Seq(Nat) /\ Len(s) = l /\ \A k \in 1 .. l : s[k] = NodeCost(a - 1 + k) /\ s[k] \in Nat
    <3>1. s \in Seq(Nat) /\ Len(s) = l /\ \A k \in 1 .. l : s[k] = NodeCost(a - 1 + k)
      BY <1>5, <2>1, <2>2, CostsFact
    <3> QED
      BY <3>1, ElementOfSeq
  <2>6. t = [k \in 1 .. l |-> NodeCost(a - 1 + k)']
    <3>1. Entry(graph, f)' = a /\ End(graph, f)' = b
      BY <1>1, <2>1 DEF Entry, End
    <3> QED
      BY <2>2, <2>4, <3>1 DEF NodeCosts
  <2>7. funcAvg[f] = Total(s) % (Infinity + 1)
    BY <1>5, <2>2 DEF AvgInv
  <2>8. \A k \in 1 .. l : a - 1 + k \in NodesIn(graph, f)
    BY <2>3
  <2>9. CASE f # Top.func
    <3>1. \A m \in NodesIn(graph, f) : NodeCost(m)' = NodeCost(m)
      <4>1. \A m \in NodesIn(graph, Top.func) : graph.nodes[m].function = Top.func
        BY <1>2 DEF Shape
      <4>2. graph.nodes[Call].function = Top.func
        BY <1>2, <4>1
      <4> QED
        BY <1>20, <2>3, <2>9, <4>2
    <3>2. t = s
      <4>1. \A k \in 1 .. l : NodeCost(a - 1 + k)' = s[k]
        BY <2>5, <2>8, <3>1
      <4>2. s = [k \in 1 .. l |-> s[k]]
        BY <2>5
      <4> QED
        BY <2>6, <4>1, <4>2
    <3>3. funcAvg'[f] = funcAvg[f]
      BY <1>5, <1>9, <2>9
    <3> QED
      BY <2>2, <2>7, <3>2, <3>3
  <2>10. CASE f = Top.func
    <3> DEFINE k == n - a + 1
    <3>1. k \in 1 .. l /\ a - 1 + k = n
      BY <1>2, <1>21, <2>3, <2>10
    <3> HIDE DEF k
    <3>2. \A i \in 1 .. l : i # k => a - 1 + i # n
      BY <2>3, <3>1
    <3>3. t[k] = s[k] + c /\ s[k] \in Nat
      BY <1>22, <2>5, <2>6, <3>1
    <3>4. \A i \in 1 .. l : i # k => t[i] = s[i] /\ t[i] \in Nat
      BY <1>20, <1>21, <2>3, <2>5, <2>6, <2>8, <3>2
    <3>5. t \in Seq(Nat) /\ Len(t) = l
      <4>1. t = [i \in 1 .. l |-> t[i]]
        BY <2>6
      <4>2. \A i \in 1 .. l : t[i] \in Nat
        BY <1>8, <3>3, <3>4
      <4> HIDE DEF l
      <4> QED
        BY <2>4, <4>1, <4>2, Listed
    <3> HIDE DEF l
    <3>6. /\ Total(s) \in Nat /\ IsSum(Total(s), s, l)
          /\ Total(t) \in Nat /\ IsSum(Total(t), t, l)
      BY <2>5, <3>5, TotalFact
    <3>7. Total(t) = Total(s) + c
      <4>1. c \in Int
        BY <1>8
      <4> QED
        BY <2>4, <3>1, <3>3, <3>4, <3>6, <4>1, SumRaised
    <3>8. funcAvg'[f] = Plus(funcAvg[f], c)
      BY <1>5, <1>9, <2>10
    <3> QED
      BY <1>8, <2>2, <2>7, <3>6, <3>7, <3>8, PlusWraps
  <2> QED
    BY <2>9, <2>10
<1>24. ASSUME NEW f \in Functions, NEW k \in DOMAIN CallsOf(f), ~Passed(f, k)'
       PROVE  callAvg'[CallsOf(f)[k]] = 0
  <2>1. ~Passed(f, k) /\ CallsOf(f)[k] # Call /\ CallsOf(f)[k] \in AllCalls
    BY <1>14, <1>19, <1>24 DEF Shape
  <2> QED
    BY <1>1, <1>17, <2>1 DEF AvgInv
<1>25. ASSUME NEW f \in Functions, f \notin Reached[f], NEW k \in DOMAIN CallsOf(f), Passed(f, k)'
       PROVE  /\ \A l \in DOMAIN graph'.succ[CallsOf(f)'[k]] :
                    CalleeOf(CallsOf(f)[k], l)' \in Finished'
              /\ Counted(CallsOf(f)[k])'
  <2>1. CASE f = Top.func /\ k = Top.call
    <3>1. Summed(Top)
      BY <1>1, <1>2, <1>25, <2>1 DEF AvgInv
    <3>2. CallsOf(f)[k] = n /\ CallsOf(f)'[k] = n /\ graph'.succ[n] = Callees /\ CallsOf(f)[k]' = n
      BY <1>1, <1>2, <1>13, <1>21, <2>1
    <3>3. \A l \in DOMAIN Callees : CalleeOf(n, l) \in Finished
      BY <1>2, <1>3, <1>4, <1>21, <3>1 DEF Summed
    <3>4. \A l : CalleeOf(n, l)' = CalleeOf(n, l)
      BY <1>1, GraphSame
    <3>5. CalleeCosts(n)' = CalleeCosts(n)
      <4>1. CalleeCosts(n)' = [l \in DOMAIN Callees |-> funcAvg'[CalleeOf(n, l)]]
        BY <3>2, <3>4 DEF CalleeCosts
      <4>2. CalleeCosts(n) = [l \in DOMAIN Callees |-> funcAvg[CalleeOf(n, l)]]
        BY <1>2, <1>21 DEF CalleeCosts
      <4> QED
        BY <1>16, <3>3, <4>1, <4>2
    <3>6. PICK s : s = CalleeCosts(n)
      OBVIOUS
    <3>7. s \in Seq(Nat) /\ Len(s) = Len(Callees)
      BY <1>2, <1>5, <1>21, <3>6, CostsFact
    <3>8. Total(s) \in Nat /\ IsSum(Total(s), s, Len(Callees))
      BY <3>7, TotalFact
    <3>9. Top.sum = Total(s) % (Infinity + 1)
      <4>1. Top.succ - 1 = Len(Callees)
        BY <1>3, <1>4
      <4> QED
        BY <1>2, <1>21, <3>1, <3>6, <3>8, <4>1 DEF Summed
    <3>10. Total(s) <= Infinity => Top.sum = Total(s)
      BY <3>8, <3>9, InfinityAssumption
    <3>11. Total(s) <= Infinity =>
              callAvg'[n] = IF Total(s) \div Len(Callees) = 0 THEN 1 ELSE Total(s) \div Len(Callees)
      BY <1>6, <1>7, <1>18, <1>21, <3>10 DEF average
    <3>12. Counted(n)'
      BY <1>2, <1>21, <3>2, <3>5, <3>6, <3>11 DEF Counted
    <3> QED
      BY <1>12, <3>2, <3>3, <3>4, <3>12
  <2>2. CASE ~(f = Top.func /\ k = Top.call)
    <3>1. Passed(f, k) /\ CallsOf(f)[k] # Call /\ CallsOf(f)[k] \in AllCalls
      BY <1>14, <1>19, <1>25, <2>2 DEF Shape
    <3>2. callAvg'[CallsOf(f)[k]] = callAvg[CallsOf(f)[k]]
      BY <1>17, <3>1
    <3> QED
      BY <1>1, <1>12, <1>16, <1>25, <3>1, <3>2, PassedKept
  <2> QED
    BY <2>1, <2>2
<1>26. ASSUME NEW i \in 1 .. Len(stack'), NEW d, d = stack'[i], InCall(d)',
              d.func \notin Reached[d.func]
       PROVE  Summed(d)'
  <2>1. CASE i # Len(stack)
    <3>1. i \in 1 .. Len(stack) /\ d = stack[i]
      BY <1>2, <1>12, <1>26, <2>1
    <3>2. d \in Frame /\ FrameOk(d) /\ InCall(d)
      BY <1>1, <1>26, <3>1, FrameSame, ElementOfSeq DEF StackOk, FrameOk
    <3>3. Summed(d)
      BY <1>1, <1>26, <3>1, <3>2 DEF AvgInv
    <3> QED
      BY <1>1, <1>12, <1>16, <3>2, <3>3, SummedKept
  <2>2. CASE i = Len(stack)
    <3>1. d.succ = 1 /\ d.sum = 0
      BY <1>10, <1>12, <1>26, <2>2
    <3>2. d.succ - 1 = 0 /\ 1 .. 0 = {} /\ 0 % (Infinity + 1) = 0
      BY <3>1, InfinityAssumption
    <3>3. \A x, s : IsSum(x, s, 0) => x = 0
      BY SumType
    <3> QED
      BY <3>1, <3>2, <3>3 DEF Summed
  <2> QED
    BY <2>1, <2>2
<1> QED
  <2>1. \A i \in 1 .. Len(stack') :
            InCall(stack[i])' /\ stack'[i].func \notin Reached'[stack'[i].func] => Summed(stack[i])'
    BY <1>13, <1>26
  <2>2. \A f \in Functions' : f \notin Reached'[f] =>
            \A k \in DOMAIN CallsOf(f)' : Passed(f, k)' =>
                /\ \A l \in DOMAIN graph'.succ[CallsOf(f)'[k]] :
                      CalleeOf(CallsOf(f)[k], l)' \in Finished'
                /\ Counted(CallsOf(f)[k])'
    BY <1>13, <1>25
  <2>3. \A f \in Functions' : \A k \in DOMAIN CallsOf(f)' :
            ~Passed(f, k)' => callAvg'[CallsOf(f)'[k]] = 0
    BY <1>13, <1>24
  <2>4. \A f \in Functions' : funcAvg'[f] = Total(NodeCosts(f)') % (Infinity + 1)
    BY <1>13, <1>23
  <2> QED
    BY <1>1, <1>15, <2>1, <2>2, <2>3, <2>4 DEF AvgInv

\* Each step keeps the averages right.
LEMMA AvgStep ==
    ASSUME GraphInv, GraphInv', StackInv, StackInv', AvgInv, [Next]_vars
    PROVE  AvgInv'
<1>1. CASE phase' \in {"nodes", "edges", "exception"}
  BY <1>1 DEF AvgInv, CostType, HasEdges
<1>2. Recurses => Shape /\ Linked /\ StackOk
  BY ShapeFact, LinkedFact DEF Recurses, StackInv, HasEdges, HasNodes
<1>3. CASE UNCHANGED vars
  BY <1>2, <1>3, AvgKept DEF vars
<1>4. CASE MakeNodes
  BY <1>1, <1>4 DEF MakeNodes, Throw
<1>5. CASE MakeEdges
  BY <1>1, <1>5, AvgStart DEF MakeEdges, Throw
<1>6. CASE IntraStart \/ FloydWarshall \/ Diagonal \/ CallEntries \/ IntraDone
  <2>1. \/ phase' = "exception"
        \/ /\ phase = "intra" /\ phase' \in {"intra", "inter"}
           /\ UNCHANGED <<program, graph, funcAvg, callAvg>>
    BY <1>6 DEF IntraStart, FloydWarshall, Diagonal, CallEntries, IntraDone, Throw, avgVars
  <2> QED
    BY <1>1, <1>2, <2>1, AvgKept
<1>7. CASE InterDirect \/ InterCallee \/ InterCall \/ InterDone
  <2>1. /\ phase = "inter" /\ phase' \in {"inter", "done"}
        /\ UNCHANGED <<program, graph, funcAvg, callAvg>>
    BY <1>7 DEF InterDirect, InterCallee, InterCall, InterDone, avgVars
  <2> QED
    BY <1>2, <2>1, AvgKept
<1>8. CASE EnterRoot \/ EnterCallee \/ Leave
  <2>1. /\ phase \in {"avg", "inter"} /\ UNCHANGED <<program, graph, phase, funcAvg, callAvg>>
    BY <1>8 DEF EnterRoot, EnterCallee, Leave, Enter, avgVars
  <2>2. CASE phase = "inter"
    BY <1>2, <2>1, <2>2, AvgKept
  <2>3. CASE phase = "avg"
    <3>1. Shape /\ Linked /\ StackOk /\ StackOk'
      BY <1>2, <2>1, <2>3 DEF Recurses, StackInv
    <3>2. ASSUME NEW f \in Functions \ resolved, Enter(f), stack = <<>> \/ (AtCallee /\ Callee = f)
          PROVE  AvgInv'
      <4>1. FirstSucc = 1
        BY <2>3 DEF FirstSucc
      <4>2. /\ Finished' = Finished
            /\ \A g, k : k \in Nat \ {0} => (Passed(g, k)' <=> Passed(g, k))
            /\ Len(stack) \in Nat /\ Len(stack') = Len(stack) + 1
            /\ \A i \in 1 .. Len(stack) : stack'[i] = stack[i]
            /\ stack'[Len(stack) + 1] = [func |-> f, call |-> 1, succ |-> FirstSucc, sum |-> 0]
        BY <2>1, <3>1, <3>2, EnterFact DEF Enter
      <4>3. \A g \in Functions : \A k \in DOMAIN CallsOf(g) : Passed(g, k)' <=> Passed(g, k)
        <5>1. \A g \in Functions : Len(CallsOf(g)) \in Nat /\ DOMAIN CallsOf(g) = 1 .. Len(CallsOf(g))
          BY <3>1 DEF Shape
        <5>2. \A g \in Functions : \A k \in DOMAIN CallsOf(g) : k \in Nat \ {0}
          BY ONLY <5>1
        <5> QED
          BY ONLY <4>2, <5>2
      <4>4. stack'[Len(stack) + 1].succ = 1 /\ stack'[Len(stack) + 1].sum = 0
        BY <4>1, <4>2
      <4> QED
        BY <2>1, <2>3, <3>1, <4>2, <4>3, <4>4, AvgMove
    <3>3. CASE EnterRoot
      <4>1. stack = <<>> /\ Enter(Min(Functions \ resolved))
        BY <3>3 DEF EnterRoot
      <4>2. Min(Functions \ resolved) \in Functions \ resolved
        BY <3>1, <3>3, RootFact
      <4> QED
        BY <3>2, <4>1, <4>2
    <3>4. CASE EnterCallee
      <4>1. Callee \in Functions \ resolved /\ AtCallee /\ Enter(Callee)
        BY <3>1, <3>4, TopFact DEF EnterCallee, AtCallee, AtCall
      <4> QED
        BY <3>2, <4>1
    <3>5. CASE Leave
      <4>1. stack # <<>> /\ ~AtCall /\ UNCHANGED resolved /\ stack' = Front(stack)
        BY <3>5 DEF Leave
      <4>2. /\ Finished' = Finished \cup {Top.func}
            /\ \A g \in Functions : \A k \in DOMAIN CallsOf(g) : Passed(g, k)' <=> Passed(g, k)
            /\ Len(stack) \in Nat \ {0} /\ Len(stack') = Len(stack) - 1
            /\ \A i \in 1 .. Len(stack) - 1 : stack'[i] = stack[i]
        BY <2>1, <3>1, <4>1, LeaveFact
      <4>3. \A i \in 1 .. Len(stack') : i \in 1 .. Len(stack) /\ stack'[i] = stack[i]
        BY <4>2
      <4> QED
        BY <2>1, <2>3, <3>1, <4>2, <4>3, AvgMove
    <3> QED
      BY <1>8, <3>3, <3>4, <3>5
  <2> QED
    BY <2>1, <2>2, <2>3
<1>9. CASE AvgCallee
  BY <1>2, <1>9, AvgCalleeStep DEF AvgCallee, Recurses
<1>10. CASE AvgCall
  BY <1>2, <1>10, AvgCallStep DEF AvgCall, Recurses
<1>11. CASE AvgDone
  <2>1. /\ phase = "avg" /\ phase' = "intra" /\ stack = <<>> /\ resolved = Functions
        /\ UNCHANGED <<program, graph, funcAvg, callAvg>>
    BY <1>11 DEF AvgDone, avgVars
  <2>2. \A f \in Functions : \A k : Passed(f, k)
    BY <2>1 DEF Passed
  <2>3. \A n : Counted(n) => Counted(n)'
    BY <2>1, CountedKept
  <2>4. /\ Functions' = Functions /\ AllCalls' = AllCalls /\ Reached' = Reached
        /\ \A f : CallsOf(f)' = CallsOf(f)
    BY <2>1, GraphSame
  <2>5. \A f : NodeCosts(f)' = NodeCosts(f)
    BY <2>1 DEF NodeCosts, NodeCost, Entry, End, Instructions, NumInstructions, IsCall
  <2>6. ASSUME NEW f \in Functions, f \notin Reached[f], NEW k \in DOMAIN CallsOf(f)
        PROVE  Counted(CallsOf(f)[k])'
    <3>1. PICK n : n = CallsOf(f)[k]
      OBVIOUS
    <3>2. Counted(n)
      BY <2>1, <2>2, <2>6, <3>1 DEF AvgInv
    <3>3. Counted(n)'
      BY <2>3, <3>2
    <3> QED
      BY <2>4, <3>1, <3>3
  <2>7. CostType' /\ \A f \in Functions' : funcAvg'[f] = Total(NodeCosts(f)') % (Infinity + 1)
    BY <2>1, <2>4, <2>5 DEF AvgInv, CostType, HasEdges
  <2> QED
    BY <2>1, <2>4, <2>6, <2>7 DEF AvgInv
<1> QED
  BY <1>3, <1>4, <1>5, <1>6, <1>7, <1>8, <1>9, <1>10, <1>11 DEF Next

----------------------------------------------------------------------------
(* Costs between the nodes of a function.                                   *)

\* No way through Y is cheaper than the direct one.
Direct(N, D, Y) == \A y \in Y : \A u, v \in N : D[u][v] <= D[u][y] + D[y][v]

\* E has the ways through x that are cheaper than those of D.
Pass(N, D, E, x) ==
    \A u, v \in N :
        E[u][v] = IF D[u][v] <= D[u][x] + D[x][v] THEN D[u][v] ELSE D[u][x] + D[x][v]

\* A pass of Floyd and Warshall for x makes ways through x ways, too.
LEMMA PassFact ==
    ASSUME NEW N, NEW D, NEW E, Typed(N, D), Typed(N, E), NEW x \in N, NEW Y \in SUBSET N,
           Pass(N, D, E, x), Direct(N, D, Y)
    PROVE  Direct(N, E, Y \cup {x})
<1>0. /\ \A u, v \in N : E[u][v] = IF D[u][v] <= D[u][x] + D[x][v] THEN D[u][v] ELSE D[u][x] + D[x][v]
      /\ \A y \in Y : \A u, v \in N : D[u][v] <= D[u][y] + D[y][v]
  BY DEF Pass, Direct
<1>1. \A u, v \in N : D[u][v] \in Nat /\ E[u][v] \in Nat
  BY InfinityAssumption DEF Typed, Costs
<1>2. ASSUME NEW u \in N, NEW v \in N PROVE E[u][v] <= E[u][x] + E[x][v]
  <2>1. E[u][x] = D[u][x] /\ E[x][v] = D[x][v]
    BY <1>0, <1>1
  <2> QED
    BY <1>0, <1>1, <2>1
<1>3. ASSUME NEW y \in Y, NEW u \in N, NEW v \in N PROVE E[u][v] <= E[u][y] + E[y][v]
  <2>1. E[u][v] <= D[u][v] /\ E[u][v] <= D[u][x] + D[x][v]
    BY <1>0, <1>1
  <2>2. D[u][v] <= D[u][y] + D[y][v] /\ D[u][x] <= D[u][y] + D[y][x] /\ D[x][v] <= D[x][y] + D[y][v]
    BY <1>0
  <2>3. /\ E[u][y] = D[u][y] \/ E[u][y] = D[u][x] + D[x][y]
        /\ E[y][v] = D[y][v] \/ E[y][v] = D[y][x] + D[x][v]
    BY <1>0
  <2>4. /\ D[u][v] \in Nat /\ D[u][y] \in Nat /\ D[y][v] \in Nat /\ D[u][x] \in Nat /\ D[x][v] \in Nat
        /\ D[x][y] \in Nat /\ D[y][x] \in Nat /\ E[u][v] \in Nat /\ E[u][y] \in Nat /\ E[y][v] \in Nat
    BY <1>1
  <2> QED
    BY <2>1, <2>2, <2>3, <2>4
<1> QED
  BY <1>2, <1>3 DEF Direct

\* Costs that no way makes cheaper are those of the cheapest walks, at most.
LEMMA PathsFact ==
    ASSUME NEW N, IsFiniteSet(N), NEW c, Weights(N, c), NEW D, Typed(N, D),
           \A u, v \in N : \A d \in c[u][v] : D[u][v] <= d,
           \A u, v, y \in N : D[u][v] <= D[u][y] + D[y][v]
    PROVE  \A u, v \in N : D[u][v] <= CheapestWalks(N, c)[u][v]
<1> SUFFICES ASSUME NEW v \in N PROVE \A u \in N : D[u][v] <= CheapestWalks(N, c)[u][v]
  OBVIOUS
<1> DEFINE V == CheapestWalks(N, c)
           C == [u \in N |-> D[u][v]]
<1>1. \A S \in SUBSET N, y \in N : \A E :
          /\ \A x \in S : E[x] \in Costs
          /\ \A x \in S : \A d \in c[x][y] : E[x] <= d
          /\ \A x \in S, z \in N : \A d \in c[x][z] : z \in S /\ E[x] <= d + E[z]
          => \A x \in S : E[x] <= V[x][y]
  BY WalksFact
<1>2. \A u, x \in N : D[u][x] \in Costs
  BY DEF Typed
<1>3. \A u, x \in N : D[u][x] \in Nat
  BY <1>2, InfinityAssumption DEF Costs
<1>4. \A u, x \in N : \A d \in c[u][x] : d \in Nat
  BY DEF Weights
<1>5. \A u \in N : C[u] \in Costs
  BY <1>2
<1>6. \A u \in N : \A d \in c[u][v] : C[u] <= d
  OBVIOUS
<1>7. ASSUME NEW u \in N, NEW x \in N, NEW d \in c[u][x] PROVE C[u] <= d + C[x]
  <2>1. D[u][v] <= D[u][x] + D[x][v] /\ D[u][x] <= d
    OBVIOUS
  <2> QED
    BY <1>3, <1>4, <2>1
<1>8. \A u \in N : C[u] = D[u][v]
  OBVIOUS
<1>9. N \in SUBSET N
  OBVIOUS
<1> HIDE DEF V, C
<1>10. \A u \in N : C[u] <= V[u][v]
  BY <1>1, <1>5, <1>6, <1>7, <1>9
<1> QED
  BY <1>8, <1>10 DEF V

\* A walk back to u begins with an edge from u.
LEMMA BackFact ==
    ASSUME NEW N, IsFiniteSet(N), NEW c, Weights(N, c), NEW u \in N, NEW m \in Costs,
           \A d \in c[u][u] : m <= d,
           \A z \in N : \A d \in c[u][z] : z # u => m <= d + CheapestWalks(N, c)[z][u]
    PROVE  m <= CheapestWalks(N, c)[u][u]
<1> DEFINE V == CheapestWalks(N, c)
           C == [x \in N |-> IF x = u THEN m ELSE V[x][u]]
<1>1. /\ Typed(N, V)
      /\ \A x, y \in N : \A d \in c[x][y] : V[x][y] <= d
      /\ \A x, y, z \in N : \A d \in c[x][z] : V[x][y] <= d + V[z][y]
      /\ \A S \in SUBSET N, y \in N : \A E :
            /\ \A x \in S : E[x] \in Costs
            /\ \A x \in S : \A d \in c[x][y] : E[x] <= d
            /\ \A x \in S, z \in N : \A d \in c[x][z] : z \in S /\ E[x] <= d + E[z]
            => \A x \in S : E[x] <= V[x][y]
  BY WalksFact
<1>2. \A z \in N : \A d \in c[u][z] : z # u => m <= d + V[z][u]
  OBVIOUS
<1> HIDE DEF V
<1>3. \A x, y \in N : V[x][y] \in Nat /\ V[x][y] \in Costs
  BY <1>1, InfinityAssumption DEF Typed, Costs
<1>4. \A x, y \in N : \A d \in c[x][y] : d \in Nat
  BY DEF Weights
<1>5. m \in Nat
  BY InfinityAssumption DEF Costs
<1>6. C[u] = m /\ \A x \in N : x # u => C[x] = V[x][u]
  OBVIOUS
<1> HIDE DEF C
<1>7. \A x \in N : C[x] \in Costs /\ C[x] \in Nat
  BY <1>3, <1>5, <1>6
<1>8. \A x \in N : \A d \in c[x][u] : C[x] <= d
  BY <1>1, <1>6
<1>9. ASSUME NEW x \in N, NEW z \in N, NEW d \in c[x][z] PROVE C[x] <= d + C[z]
  <2>1. d \in Nat /\ C[z] \in Nat /\ m \in Nat
    BY <1>4, <1>5, <1>7
  <2>2. CASE z = u
    <3>1. C[x] <= d
      BY <1>8, <1>9, <2>2
    <3> QED
      BY <1>7, <2>1, <3>1
  <2>3. CASE z # u /\ x = u
    BY <1>2, <1>6, <1>9, <2>3
  <2>4. CASE z # u /\ x # u
    BY <1>1, <1>6, <1>9, <2>4
  <2> QED
    BY <2>2, <2>3, <2>4
<1>10. N \in SUBSET N
  OBVIOUS
<1>11. \A x \in N : C[x] <= V[x][u]
  BY <1>1, <1>7, <1>8, <1>9, <1>10
<1> QED
  BY <1>6, <1>11 DEF V

\* The edges of f and what they weigh.
Weighed(f) ==
    [u \in NodesIn(graph, f) |-> [v \in NodesIn(graph, f) |->
        IF v \in Onwards(u) THEN {Weight(u, v)} ELSE {}]]

\* What an edge weighs, and what is entered for it.
LEMMA EdgeFact ==
    ASSUME Shape, callAvg \in [AllCalls -> Costs], NEW u \in DOMAIN graph.nodes, NEW v \in DOMAIN graph.nodes
    PROVE  /\ Weight(u, v) \in Nat \ {0} /\ Instructions(u) \in Costs \ {0}
           /\ Weight(u, v) >= Instructions(u)
           /\ ~IsCall(graph, u) /\ ~IsRet(graph, v) => Weight(u, v) = Instructions(u)
           /\ EdgeCost(u, v) = IF Weight(u, v) <= Infinity THEN Weight(u, v) ELSE Infinity
           /\ EdgeCost(u, v) \in Costs
<1> DEFINE i == Instructions(u)
           last == IF IsRet(graph, v) THEN Instructions(v) ELSE 0
           a == IF IsCall(graph, u) THEN callAvg[u] ELSE 0
<1>1. i \in Nat \ {0} /\ 2 * i <= Infinity
  BY DEF Shape
<1>2. last \in Nat /\ 2 * last <= Infinity
  BY InfinityAssumption DEF Shape
<1>3. a \in Nat /\ a <= Infinity
  BY InfinityAssumption DEF AllCalls, Costs
<1>4. NodeCost(u) = i + a /\ Weight(u, v) = i + a + last
  BY DEF NodeCost, Weight
<1>5. EdgeCost(u, v) = IF IsCall(graph, u) THEN SumCosts(last, SumCosts(i, a)) ELSE Plus(i, last)
  BY DEF EdgeCost
<1>6. ~IsCall(graph, u) => a = 0
  OBVIOUS
<1>7. ~IsRet(graph, v) => last = 0
  OBVIOUS
<1> HIDE DEF i, last, a
<1>8. Infinity \in Nat
  BY InfinityAssumption
<1>9. Plus(i, last) = i + last
  <2>1. i + last <= Infinity
    BY <1>1, <1>2, <1>8
  <2> QED
    BY <1>1, <1>2, <2>1, PlusFact
<1>10. SumCosts(i, a) = IF i + a <= Infinity THEN i + a ELSE Infinity
  BY <1>1, <1>3, PlusFact
<1>11. SumCosts(i, a) \in Nat
  BY <1>1, <1>3, <1>8, <1>10
<1>12. SumCosts(last, SumCosts(i, a)) = IF last + SumCosts(i, a) <= Infinity THEN last + SumCosts(i, a) ELSE Infinity
  BY <1>2, <1>11, PlusFact
<1>13. SumCosts(last, SumCosts(i, a)) = IF i + a + last <= Infinity THEN i + a + last ELSE Infinity
  BY <1>1, <1>2, <1>3, <1>8, <1>10, <1>11, <1>12
<1>14. EdgeCost(u, v) = IF i + a + last <= Infinity THEN i + a + last ELSE Infinity
  BY <1>1, <1>2, <1>5, <1>6, <1>8, <1>9, <1>13
<1>15. i \in Costs \ {0}
  BY <1>1, <1>8 DEF Costs
<1>16. EdgeCost(u, v) \in Costs
  BY <1>1, <1>2, <1>3, <1>8, <1>14 DEF Costs
<1> QED
  BY <1>1, <1>2, <1>3, <1>4, <1>6, <1>7, <1>14, <1>15, <1>16 DEF i

\* The weights are above 0, as the cheapest walks need them.
LEMMA WeighedFact ==
    ASSUME Shape, callAvg \in [AllCalls -> Costs], NEW f \in Functions
    PROVE  LET N == NodesIn(graph, f) IN
           /\ N \subseteq DOMAIN graph.nodes /\ N \subseteq Nat /\ IsFiniteSet(N)
           /\ N = Entry(graph, f) .. End(graph, f) - 1 /\ Entry(graph, f) \in N
           /\ Entry(graph, f) \in Nat /\ End(graph, f) \in Nat
           /\ Weights(N, Weighed(f)) /\ Cheapest(f) = CheapestWalks(N, Weighed(f))
           /\ Typed(N, Cheapest(f))
           /\ \A u, v \in N : Weighed(f)[u][v] = IF v \in Onwards(u) THEN {Weight(u, v)} ELSE {}
           /\ \A u, v \in N : v \in Onwards(u) => Cheapest(f)[u][v] <= Weight(u, v)
<1> DEFINE N == NodesIn(graph, f)
<1>1. N \subseteq DOMAIN graph.nodes
  BY DEF Shape
<1>2. /\ N = Entry(graph, f) .. End(graph, f) - 1 /\ Entry(graph, f) \in N
      /\ Entry(graph, f) \in Nat /\ End(graph, f) \in Nat /\ N \subseteq Nat
  BY DEF NodesIn, Shape
<1>3. IsFiniteSet(N)
  <2>1. IsFiniteSet(DOMAIN graph.nodes)
    BY DEF Shape
  <2> QED
    BY <1>1, <2>1, FS_Subset
<1>4. \A u, v \in N : Weight(u, v) \in Nat \ {0}
  BY <1>1, EdgeFact
<1>5. /\ Weighed(f) = [u \in N |-> Weighed(f)[u]]
      /\ \A u \in N : Weighed(f)[u] = [v \in N |-> Weighed(f)[u][v]]
      /\ \A u, v \in N : Weighed(f)[u][v] = IF v \in Onwards(u) THEN {Weight(u, v)} ELSE {}
  BY DEF Weighed
<1>6. Cheapest(f) = CheapestWalks(N, Weighed(f))
  BY DEF Cheapest, Weighed
<1> HIDE DEF N
<1>7. Weights(N, Weighed(f))
  <2>1. ASSUME NEW u \in N, NEW v \in N
        PROVE  Weighed(f)[u][v] \in SUBSET (Nat \ {0})
    <3>1. Weighed(f)[u][v] = IF v \in Onwards(u) THEN {Weight(u, v)} ELSE {}
      BY <1>5
    <3>2. Weight(u, v) \in Nat \ {0}
      BY <1>4
    <3>3. {Weight(u, v)} \in SUBSET (Nat \ {0}) /\ {} \in SUBSET (Nat \ {0})
      BY <3>2
    <3> QED
      BY <3>1, <3>3, Zenon
  <2>2. \A u \in N : Weighed(f)[u] \in [N -> SUBSET (Nat \ {0})]
    BY <1>5, <2>1
  <2> QED
    BY <1>5, <2>2 DEF Weights
<1>8. Typed(N, Cheapest(f)) /\ \A u, v \in N : \A d \in Weighed(f)[u][v] : Cheapest(f)[u][v] <= d
  BY <1>3, <1>6, <1>7, WalksFact
<1> QED
  BY <1>1, <1>2, <1>3, <1>5, <1>6, <1>7, <1>8 DEF N

\* Tables and what intra_cost() makes of them.
Tables == UNION {[S -> Costs] : S \in SUBSET (Nat \X Nat)}
Dist(t, N) == [u \in N |-> [v \in N |-> Cost(t, u, v)]]

\* What a table says of two nodes.
LEMMA TableFact ==
    ASSUME NEW t \in Tables
    PROVE  /\ \A u, v : Cost(t, u, v) \in Costs /\ Cost(t, u, v) \in Nat /\ Cost(t, u, v) <= Infinity
           /\ \A N : Typed(N, Dist(t, N)) /\ \A u, v \in N : Dist(t, N)[u][v] = Cost(t, u, v)
<1>1. PICK S \in SUBSET (Nat \X Nat) : t \in [S -> Costs]
  BY DEF Tables
<1>2. Infinity \in Nat /\ Infinity \in Costs
  BY InfinityAssumption DEF Costs
<1>3. ASSUME NEW u, NEW v PROVE Cost(t, u, v) \in Costs
  BY <1>1, <1>2 DEF Cost
<1>4. \A u, v : Cost(t, u, v) \in Nat /\ Cost(t, u, v) <= Infinity
  BY <1>2, <1>3 DEF Costs
<1>5. ASSUME NEW N PROVE Typed(N, Dist(t, N)) /\ \A u, v \in N : Dist(t, N)[u][v] = Cost(t, u, v)
  <2>1. \A u \in N : [v \in N |-> Cost(t, u, v)] \in [N -> Costs]
    BY <1>3
  <2>2. Dist(t, N) \in [N -> [N -> Costs]]
    BY <2>1 DEF Dist
  <2> QED
    BY <2>2 DEF Typed, Dist
<1> QED
  BY <1>3, <1>4, <1>5

\* Tables between nodes of f: edges cost no more than their weights, other
\* nodes no less than the cheapest walk, and ways through Y no less than direct.
Paths(f, t, Y) ==
    LET N == NodesIn(graph, f) IN
    /\ \A u, v \in N : v \in Onwards(u) => Cost(t, u, v) <= Weight(u, v)
    /\ \A u, v \in N : u # v => Cost(t, u, v) >= Cheapest(f)[u][v]
    /\ \A y \in Y : \A u, v \in N : Cost(t, u, v) <= Cost(t, u, y) + Cost(t, y, v)

\* The cheapest walks, but for the diagonal outside Y.
Diagonals(f, t, Y) ==
    LET N == NodesIn(graph, f) IN
    /\ \A u, v \in N : u # v => Cost(t, u, v) = Cheapest(f)[u][v]
    /\ \A u \in Y : Cost(t, u, u) = Cheapest(f)[u][u]

Final(f, t) ==
    \A u, v \in NodesIn(graph, f) :
        Cost(t, u, v) = IF IsCall(graph, u) /\ v \in Range(graph.succ[u])
                        THEN Instructions(u) ELSE Cheapest(f)[u][v]

\* The first table has the edges and no other way.
LEMMA StartTable ==
    ASSUME Shape, Linked, callAvg \in [AllCalls -> Costs], NEW f \in Functions,
           \A e \in Edges(f) : InGraph(e[2]), NEW t,
           t = [e \in Edges(f) \cup {<<u, u>> : u \in NodesIn(graph, f)} |->
                   IF e \in Edges(f) THEN EdgeCost(e[1], e[2]) ELSE 0]
    PROVE  t \in Tables /\ Paths(f, t, {})
<1> DEFINE N == NodesIn(graph, f)
           S == Edges(f) \cup {<<u, u>> : u \in N}
<1>1. /\ N \subseteq DOMAIN graph.nodes /\ N \subseteq Nat /\ Typed(N, Cheapest(f))
      /\ \A u, v \in N : v \in Onwards(u) => Cheapest(f)[u][v] <= Weight(u, v)
  BY WeighedFact
<1>2. DOMAIN graph.nodes \subseteq Nat
  BY DEF Shape
<1>3. Infinity \in Nat \ {0}
  BY InfinityAssumption
<1> HIDE DEF N
<1>4. \A u, v : <<u, v>> \in Edges(f) <=> u \in N /\ v \in Onwards(u)
  BY DEF Edges, N
<1>5. \A e \in Edges(f) : \E u \in N : \E v \in Onwards(u) : e = <<u, v>>
  BY DEF Edges, N
<1>6. ASSUME NEW u \in N, NEW v \in Onwards(u)
      PROVE  /\ v \in DOMAIN graph.nodes /\ EdgeCost(u, v) \in Costs
             /\ Weight(u, v) \in Nat
             /\ EdgeCost(u, v) = IF Weight(u, v) <= Infinity THEN Weight(u, v) ELSE Infinity
  <2>1. v \in DOMAIN graph.nodes
    <3>1. <<u, v>> \in Edges(f) /\ <<u, v>>[2] = v
      BY <1>4
    <3>2. InGraph(<<u, v>>[2])
      BY <3>1
    <3> QED
      BY <3>1, <3>2 DEF InGraph
  <2> QED
    BY <1>1, <2>1, EdgeFact
<1>7. S \in SUBSET (Nat \X Nat)
  <2>1. \A e \in Edges(f) : e \in Nat \X Nat
    BY <1>1, <1>2, <1>5, <1>6
  <2> QED
    BY <1>1, <2>1
<1>8. \A e \in S : (IF e \in Edges(f) THEN EdgeCost(e[1], e[2]) ELSE 0) \in Costs
  <2>1. \A e \in Edges(f) : EdgeCost(e[1], e[2]) \in Costs
    BY <1>5, <1>6
  <2>2. 0 \in Costs
    BY <1>3 DEF Costs
  <2> QED
    BY <2>1, <2>2
<1>9. t = [e \in S |-> IF e \in Edges(f) THEN EdgeCost(e[1], e[2]) ELSE 0]
  BY DEF N
<1>10. t \in [S -> Costs]
  BY <1>8, <1>9
<1>11. t \in Tables
  BY <1>7, <1>10 DEF Tables
<1>12. ASSUME NEW u \in N, NEW v \in N
       PROVE  Cost(t, u, v) = IF v \in Onwards(u) THEN EdgeCost(u, v)
                              ELSE IF u = v THEN 0 ELSE Infinity
  <2>1. CASE v \in Onwards(u)
    BY <1>4, <1>9, <2>1 DEF Cost
  <2>2. CASE v \notin Onwards(u) /\ u = v
    <3>1. <<u, v>> \in S /\ <<u, v>> \notin Edges(f)
      BY <1>4, <2>2
    <3>2. Cost(t, u, v) = 0
      BY <1>9, <3>1 DEF Cost
    <3> QED
      BY <2>2, <3>2
  <2>3. CASE v \notin Onwards(u) /\ u # v
    <3>1. <<u, v>> \notin S
      BY <1>4, <2>3
    <3>2. Cost(t, u, v) = Infinity
      BY <1>9, <3>1 DEF Cost
    <3> QED
      BY <2>3, <3>2
  <2> QED
    BY <2>1, <2>2, <2>3
<1>13. \A u, v \in N : Cheapest(f)[u][v] \in Nat /\ Cheapest(f)[u][v] <= Infinity
  BY <1>1, <1>3 DEF Typed, Costs
<1>14. ASSUME NEW u \in N, NEW v \in N
       PROVE  /\ v \in Onwards(u) => Cost(t, u, v) <= Weight(u, v)
              /\ u # v => Cost(t, u, v) >= Cheapest(f)[u][v]
  <2>1. CASE v \in Onwards(u)
    <3>1. /\ Cost(t, u, v) = EdgeCost(u, v) /\ Cheapest(f)[u][v] <= Weight(u, v)
          /\ Cheapest(f)[u][v] \in Nat /\ Cheapest(f)[u][v] <= Infinity
          /\ Weight(u, v) \in Nat
          /\ EdgeCost(u, v) = IF Weight(u, v) <= Infinity THEN Weight(u, v) ELSE Infinity
      BY <1>1, <1>6, <1>12, <1>13, <2>1 DEF N
    <3> QED
      BY <1>3, <3>1
  <2>2. CASE v \notin Onwards(u)
    BY <1>12, <1>13, <2>2
  <2> QED
    BY <2>1, <2>2
<1> QED
  BY <1>11, <1>14 DEF Paths, N

\* The table of the costs B, which are those of t or of ways through x.
TableOf(N, B) == [e \in {e \in N \X N : B[e] # Infinity} |-> B[e]]
Improved(N, t, x, B) ==
    \A u, v \in N :
        B[<<u, v>>] = Least(Cost(t, u, v), SumCosts(Cost(t, u, x), Cost(t, x, v)))

\* One turn of the loop adds the ways through x.
LEMMA FloydTable ==
    ASSUME Shape, callAvg \in [AllCalls -> Costs], NEW f \in Functions,
           NEW t \in Tables, NEW x \in NodesIn(graph, f), NEW Y \in SUBSET NodesIn(graph, f),
           NEW B, Improved(NodesIn(graph, f), t, x, B)
    PROVE  LET s == TableOf(NodesIn(graph, f), B) IN
           s \in Tables /\ (Paths(f, t, Y) => Paths(f, s, Y \cup {x}))
<1> DEFINE N == NodesIn(graph, f)
           s == TableOf(N, B)
           S == {e \in N \X N : B[e] # Infinity}
           V == Cheapest(f)
<1>1. /\ N \subseteq Nat /\ Typed(N, V) /\ IsFiniteSet(N) /\ Weights(N, Weighed(f))
      /\ V = CheapestWalks(N, Weighed(f)) /\ N \subseteq DOMAIN graph.nodes
  BY WeighedFact
<1>2. Infinity \in Nat \ {0}
  BY InfinityAssumption
<1>3. \A u, v, w \in N : V[u][w] <= V[u][v] + V[v][w]
  <2> HIDE DEF N, V
  <2> QED
    BY <1>1, WalksJoin
<1>4. x \in N /\ Y \subseteq N
  OBVIOUS
<1>5. /\ \A u, v \in N : B[<<u, v>>] = Least(Cost(t, u, v), SumCosts(Cost(t, u, x), Cost(t, x, v)))
      /\ s = [e \in S |-> B[e]]
  BY DEF TableOf, Improved
<1>6. /\ \A u, v : Cost(t, u, v) \in Costs /\ Cost(t, u, v) \in Nat /\ Cost(t, u, v) <= Infinity
      /\ Typed(N, Dist(t, N)) /\ \A u, v \in N : Dist(t, N)[u][v] = Cost(t, u, v)
  BY TableFact
<1> HIDE DEF N, V, s
<1>7. ASSUME NEW u \in N, NEW v \in N
      PROVE  /\ B[<<u, v>>] \in Costs
             /\ B[<<u, v>>] = IF Cost(t, u, v) <= Cost(t, u, x) + Cost(t, x, v)
                              THEN Cost(t, u, v) ELSE Cost(t, u, x) + Cost(t, x, v)
  <2> DEFINE a == Cost(t, u, v)
             b == Cost(t, u, x)
             c == Cost(t, x, v)
  <2>1. a \in Nat /\ b \in Nat /\ c \in Nat /\ a <= Infinity
    BY <1>6
  <2>2. B[<<u, v>>] = Least(a, SumCosts(b, c))
    BY <1>5
  <2>3. SumCosts(b, c) = IF b + c <= Infinity THEN b + c ELSE Infinity
    BY <2>1, PlusFact
  <2> HIDE DEF a, b, c
  <2>4. /\ B[<<u, v>>] \in Costs
        /\ B[<<u, v>>] = IF a <= b + c THEN a ELSE b + c
    BY <1>2, <2>1, <2>2, <2>3 DEF Least, Costs
  <2> QED
    BY <2>4 DEF a, b, c
<1>8. s \in Tables
  <2>1. S \in SUBSET (Nat \X Nat)
    BY <1>1
  <2>2. \A e \in S : B[e] \in Costs
    BY <1>7
  <2>3. s \in [S -> Costs]
    BY <1>5, <2>2
  <2> QED
    BY <2>1, <2>3 DEF Tables
<1>9. ASSUME NEW u \in N, NEW v \in N PROVE Cost(s, u, v) = B[<<u, v>>]
  <2>1. CASE B[<<u, v>>] = Infinity
    <3>1. <<u, v>> \notin DOMAIN s
      BY <1>5, <2>1
    <3> QED
      BY <2>1, <3>1 DEF Cost
  <2>2. CASE B[<<u, v>>] # Infinity
    <3>1. <<u, v>> \in DOMAIN s /\ s[<<u, v>>] = B[<<u, v>>]
      BY <1>5, <2>2
    <3> QED
      BY <3>1 DEF Cost
  <2> QED
    BY <2>1, <2>2
<1> DEFINE Best(u, v) == IF Cost(t, u, v) <= Cost(t, u, x) + Cost(t, x, v)
                         THEN Cost(t, u, v) ELSE Cost(t, u, x) + Cost(t, x, v)
<1>11. ASSUME NEW u \in N, NEW v \in N PROVE Cost(s, u, v) = Best(u, v)
  <2>1. Cost(s, u, v) = B[<<u, v>>]
    BY <1>9
  <2>2. B[<<u, v>>] = Best(u, v)
    BY <1>7
  <2> HIDE DEF Best
  <2> QED
    BY <2>1, <2>2
<1>12. ASSUME NEW u, NEW v, NEW w \in Nat, Cost(t, u, v) <= w PROVE Best(u, v) <= w
  <2>1. Cost(t, u, v) \in Nat /\ Cost(t, u, x) \in Nat /\ Cost(t, x, v) \in Nat
    BY <1>6
  <2> QED
    BY <1>12, <2>1
<1>13. ASSUME Paths(f, t, Y) PROVE Paths(f, s, Y \cup {x})
  <2>1. /\ \A u, v \in N : v \in Onwards(u) => Cost(t, u, v) <= Weight(u, v)
        /\ \A u, v \in N : u # v => Cost(t, u, v) >= V[u][v]
        /\ \A y \in Y : \A u, v \in N : Cost(t, u, v) <= Cost(t, u, y) + Cost(t, y, v)
    BY <1>13 DEF Paths, N, V
  <2>2. ASSUME NEW u \in N, NEW v \in N, v \in Onwards(u) PROVE Cost(s, u, v) <= Weight(u, v)
    <3>1. Weight(u, v) \in Nat
      BY <1>1, EdgeFact
    <3>2. Cost(t, u, v) <= Weight(u, v) /\ Cost(s, u, v) = Best(u, v)
      BY <1>11, <2>1, <2>2
    <3> HIDE DEF Best
    <3> QED
      BY <1>12, <3>1, <3>2
  <2>3. ASSUME NEW u \in N, NEW v \in N, u # v PROVE Cost(s, u, v) >= V[u][v]
    <3>1. \A y, z \in N : V[y][z] \in Nat
      BY <1>1, <1>2 DEF Typed, Costs
    <3>2. Cost(t, u, v) >= V[u][v] /\ V[u][v] \in Nat
      BY <2>1, <2>3, <3>1
    <3>3. Cost(t, u, v) \in Nat /\ Cost(t, u, x) \in Nat /\ Cost(t, x, v) \in Nat
      BY <1>6
    <3>4. Cost(t, u, x) + Cost(t, x, v) >= V[u][v]
      <4>1. CASE x = u \/ x = v
        BY <3>2, <3>3, <4>1
      <4>2. CASE x # u /\ x # v
        <5>1. /\ V[u][v] <= V[u][x] + V[x][v] /\ V[u][x] \in Nat /\ V[x][v] \in Nat
          BY <1>3, <1>4, <3>1
        <5>2. Cost(t, u, x) >= V[u][x] /\ Cost(t, x, v) >= V[x][v]
          BY <1>4, <2>1, <4>2
        <5> QED
          BY <3>2, <3>3, <5>1, <5>2
      <4> QED
        BY <4>1, <4>2
    <3>5. Best(u, v) >= V[u][v]
      BY <3>2, <3>4
    <3> HIDE DEF Best
    <3> QED
      BY <1>11, <3>5
  <2>4. \A y \in Y \cup {x} : \A u, v \in N : Cost(s, u, v) <= Cost(s, u, y) + Cost(s, y, v)
    <3>1. Typed(N, Dist(s, N)) /\ \A u, v \in N : Dist(s, N)[u][v] = Cost(s, u, v)
      BY <1>8, TableFact
    <3> DEFINE D == Dist(t, N)
               E == Dist(s, N)
    <3>2. /\ Typed(N, D) /\ Typed(N, E)
          /\ \A u, v \in N : D[u][v] = Cost(t, u, v) /\ E[u][v] = Cost(s, u, v)
      BY <1>6, <3>1
    <3> HIDE DEF D, E
    <3>3. ASSUME NEW u \in N, NEW v \in N
          PROVE  E[u][v] = IF D[u][v] <= D[u][x] + D[x][v] THEN D[u][v] ELSE D[u][x] + D[x][v]
      <4>1. /\ E[u][v] = Cost(s, u, v) /\ D[u][v] = Cost(t, u, v)
            /\ D[u][x] = Cost(t, u, x) /\ D[x][v] = Cost(t, x, v)
        BY <1>4, <3>2
      <4>2. Cost(s, u, v) = Best(u, v)
        BY <1>11
      <4> QED
        BY <4>1, <4>2, Zenon
    <3>4. Direct(N, D, Y)
      BY <1>4, <2>1, <3>2 DEF Direct
    <3>7. Pass(N, D, E, x)
      BY <3>3, Zenon DEF Pass
    <3>8. x \in N /\ Y \in SUBSET N
      BY <1>4
    <3>5. Direct(N, E, Y \cup {x})
      BY <3>2, <3>4, <3>7, <3>8, PassFact
    <3>6. \A y \in Y \cup {x} : y \in N
      BY <1>4
    <3> QED
      BY <3>2, <3>5, <3>6 DEF Direct
  <2> QED
    BY <2>2, <2>3, <2>4 DEF Paths, N, V
<1> QED
  BY <1>8, <1>13 DEF s, N

\* With ways through all nodes the costs are those of the cheapest walks.
LEMMA PathsDone ==
    ASSUME Shape, callAvg \in [AllCalls -> Costs], NEW f \in Functions, NEW t \in Tables,
           Paths(f, t, NodesIn(graph, f))
    PROVE  Diagonals(f, t, {})
<1> DEFINE N == NodesIn(graph, f)
           V == Cheapest(f)
           D == Dist(t, N)
<1>1. /\ Typed(N, V) /\ IsFiniteSet(N) /\ Weights(N, Weighed(f))
      /\ V = CheapestWalks(N, Weighed(f))
      /\ \A u, v \in N : Weighed(f)[u][v] = IF v \in Onwards(u) THEN {Weight(u, v)} ELSE {}
  BY WeighedFact
<1>2. /\ \A u, v \in N : v \in Onwards(u) => Cost(t, u, v) <= Weight(u, v)
      /\ \A u, v \in N : u # v => Cost(t, u, v) >= V[u][v]
      /\ \A y \in N : \A u, v \in N : Cost(t, u, v) <= Cost(t, u, y) + Cost(t, y, v)
  BY DEF Paths
<1>3. Typed(N, D) /\ \A u, v \in N : D[u][v] = Cost(t, u, v) /\ D[u][v] \in Nat
  BY TableFact
<1>4. \A u, v \in N : V[u][v] \in Nat
  BY <1>1, InfinityAssumption DEF Typed, Costs
<1> HIDE DEF N, V, D
<1>5. \A u, v \in N : D[u][v] <= V[u][v]
  <2>1. ASSUME NEW u \in N, NEW v \in N, NEW d \in Weighed(f)[u][v] PROVE D[u][v] <= d
    <3>1. v \in Onwards(u) /\ d = Weight(u, v)
      <4>1. Weighed(f)[u][v] = IF v \in Onwards(u) THEN {Weight(u, v)} ELSE {}
        BY <1>1
      <4> QED
        BY <4>1, Zenon
    <3>2. Cost(t, u, v) <= Weight(u, v) /\ D[u][v] = Cost(t, u, v)
      BY <1>2, <1>3, <3>1
    <3> QED
      BY <3>1, <3>2
  <2>2. \A u, v, y \in N : D[u][v] <= D[u][y] + D[y][v]
    BY <1>2, <1>3
  <2> QED
    BY <1>1, <1>3, <2>1, <2>2, PathsFact
<1>6. ASSUME NEW u \in N, NEW v \in N, u # v PROVE Cost(t, u, v) = V[u][v]
  <2>1. Cost(t, u, v) >= V[u][v] /\ Cost(t, u, v) <= V[u][v]
    <3>1. D[u][v] = Cost(t, u, v) /\ D[u][v] <= V[u][v]
      BY <1>3, <1>5
    <3> QED
      BY <1>2, <1>6, <3>1
  <2>2. Cost(t, u, v) \in Nat /\ V[u][v] \in Nat
    BY <1>3, <1>4
  <2> QED
    BY <2>1, <2>2
<1> QED
  BY <1>6 DEF Diagonals, N, V

\* Only the one cost of a table is replaced.
LEMMA ReplacedFact ==
    ASSUME NEW t \in Tables, NEW u \in Nat, NEW c \in Costs
    PROVE  /\ Replaced(t, <<u, u>>, c) \in Tables
           /\ Cost(Replaced(t, <<u, u>>, c), u, u) = c
           /\ \A v, w : v # w => Cost(Replaced(t, <<u, u>>, c), v, w) = Cost(t, v, w)
           /\ \A v : v # u => Cost(Replaced(t, <<u, u>>, c), v, v) = Cost(t, v, v)
<1> DEFINE S == (DOMAIN t \ {<<u, u>>}) \cup (IF c = Infinity THEN {} ELSE {<<u, u>>})
           s == Replaced(t, <<u, u>>, c)
<1>1. PICK T \in SUBSET (Nat \X Nat) : t \in [T -> Costs]
  BY DEF Tables
<1>2. s = [d \in S |-> IF d = <<u, u>> THEN c ELSE t[d]]
  BY DEF Replaced
<1>3. S \in SUBSET (Nat \X Nat)
  BY <1>1
<1>4. \A d \in S : (IF d = <<u, u>> THEN c ELSE t[d]) \in Costs
  BY <1>1
<1> HIDE DEF s
<1>5. s \in Tables
  <2>1. s \in [S -> Costs]
    BY <1>2, <1>4
  <2> QED
    BY <1>3, <2>1 DEF Tables
<1>6. Cost(s, u, u) = c
  <2>1. CASE c = Infinity
    <3>1. <<u, u>> \notin DOMAIN s
      BY <1>2, <2>1
    <3> QED
      BY <2>1, <3>1 DEF Cost
  <2>2. CASE c # Infinity
    <3>1. <<u, u>> \in DOMAIN s /\ s[<<u, u>>] = c
      BY <1>2, <2>2
    <3> QED
      BY <3>1 DEF Cost
  <2> QED
    BY <2>1, <2>2
<1>7. ASSUME NEW v, NEW w, <<v, w>> # <<u, u>>
      PROVE  Cost(s, v, w) = Cost(t, v, w)
  <2>1. <<v, w>> \in DOMAIN s <=> <<v, w>> \in DOMAIN t
    BY <1>2, <1>7
  <2>2. <<v, w>> \in DOMAIN s => s[<<v, w>>] = t[<<v, w>>]
    BY <1>2, <1>7
  <2> QED
    BY <2>1, <2>2 DEF Cost
<1> QED
  BY <1>5, <1>6, <1>7 DEF s

\* What Diagonal enters for u.
Back(t, u) ==
    IF u \in Onwards(u) THEN Instructions(u)
    ELSE Min({SumCosts(Cost(t, u, v), Cost(t, v, u)) : v \in Onwards(u)} \cup {Infinity})

\* One turn of the next loop adds the way from u back to u.
LEMMA DiagonalTable ==
    ASSUME Shape, callAvg \in [AllCalls -> Costs], NEW f \in Functions, NEW t \in Tables,
           NEW u \in NodesIn(graph, f)
    PROVE  /\ Replaced(t, <<u, u>>, Back(t, u)) \in Tables
           /\ \A Y \in SUBSET NodesIn(graph, f) :
                 Inside /\ Diagonals(f, t, Y) =>
                     Diagonals(f, Replaced(t, <<u, u>>, Back(t, u)), Y \cup {u})
<1> DEFINE N == NodesIn(graph, f)
           V == Cheapest(f)
           sum(v) == SumCosts(Cost(t, u, v), Cost(t, v, u))
           A == {sum(v) : v \in Onwards(u)} \cup {Infinity}
           m == Back(t, u)
<1>1. /\ N \subseteq DOMAIN graph.nodes /\ N \subseteq Nat /\ Typed(N, V) /\ IsFiniteSet(N)
      /\ Weights(N, Weighed(f)) /\ V = CheapestWalks(N, Weighed(f))
      /\ \A w, v \in N : Weighed(f)[w][v] = IF v \in Onwards(w) THEN {Weight(w, v)} ELSE {}
      /\ \A w, v \in N : v \in Onwards(w) => V[w][v] <= Weight(w, v)
  BY WeighedFact
<1>2. Infinity \in Nat \ {0}
  BY InfinityAssumption
<1>3. u \in N /\ u \in Nat /\ u \in DOMAIN graph.nodes
  BY <1>1
<1>4. \A v, w \in N : V[v][w] \in Nat /\ V[v][w] <= Infinity
  BY <1>1, <1>2 DEF Typed, Costs
<1>5. \A v, w \in N : /\ Weight(v, w) \in Nat \ {0} /\ Instructions(v) \in Costs \ {0}
                      /\ Weight(v, w) >= Instructions(v)
                      /\ ~IsCall(graph, v) /\ ~IsRet(graph, w) => Weight(v, w) = Instructions(v)
  BY <1>1, EdgeFact
<1>6. \A v, w : Cost(t, v, w) \in Nat
  BY TableFact
<1>7. \A v : /\ sum(v) \in Costs
             /\ sum(v) = IF Cost(t, u, v) + Cost(t, v, u) <= Infinity
                         THEN Cost(t, u, v) + Cost(t, v, u) ELSE Infinity
  BY <1>6, PlusFact
<1> HIDE DEF N, V, sum
<1>8. A \subseteq Costs /\ Infinity \in A
  BY <1>2, <1>7 DEF Costs
<1>9. Min(A) \in A /\ \A x \in A : Min(A) <= x
  <2>1. A \in SUBSET Nat /\ A # {}
    BY <1>8 DEF Costs
  <2> HIDE DEF A
  <2> QED
    BY <2>1, MinFact
<1>10. m = IF u \in Onwards(u) THEN Instructions(u) ELSE Min(A)
  BY DEF Back, sum
<1> HIDE DEF m, A
<1>11. m \in Costs
  BY <1>3, <1>5, <1>8, <1>9, <1>10
<1>12. /\ Replaced(t, <<u, u>>, m) \in Tables
       /\ Cost(Replaced(t, <<u, u>>, m), u, u) = m
       /\ \A v, w : v # w => Cost(Replaced(t, <<u, u>>, m), v, w) = Cost(t, v, w)
       /\ \A v : v # u => Cost(Replaced(t, <<u, u>>, m), v, v) = Cost(t, v, v)
  BY <1>3, <1>11, ReplacedFact
<1>13. ASSUME Inside, NEW Y \in SUBSET N, Diagonals(f, t, Y)
       PROVE  m = V[u][u]
  <2>1. \A v, w \in N : v # w => Cost(t, v, w) = V[v][w]
    BY <1>13 DEF Diagonals, N, V
  <2>2. Onwards(u) \subseteq N /\ (IsRet(graph, u) => Onwards(u) = {})
    BY <1>13 DEF Inside, N
  <2>3. CASE u \in Onwards(u)
    <3>1. ~IsRet(graph, u)
      BY <2>2, <2>3
    <3>2. ~IsCall(graph, u)
      BY <1>3, <2>3 DEF Onwards, BlockNext
    <3>3. Weight(u, u) = Instructions(u) /\ m = Instructions(u) /\ m \in Nat
      BY <1>3, <1>5, <1>10, <1>11, <2>3, <3>1, <3>2 DEF Costs
    <3>4. V[u][u] <= m
      BY <1>1, <1>3, <2>3, <3>3
    <3>5. m <= V[u][u]
      <4>1. ASSUME NEW d \in Weighed(f)[u][u] PROVE m <= d
        <5>1. Weighed(f)[u][u] = IF u \in Onwards(u) THEN {Weight(u, u)} ELSE {}
          BY <1>1, <1>3
        <5>2. d = m
          BY <2>3, <3>3, <5>1
        <5> QED
          BY <3>3, <5>2
      <4>2. ASSUME NEW z \in N, NEW d \in Weighed(f)[u][z], z # u PROVE m <= d + V[z][u]
        <5>1. d = Weight(u, z)
          <6>1. Weighed(f)[u][z] = IF z \in Onwards(u) THEN {Weight(u, z)} ELSE {}
            BY <1>1, <1>3
          <6> QED
            BY <6>1, Zenon
        <5>2. Weight(u, z) >= Instructions(u) /\ Weight(u, z) \in Nat /\ V[z][u] \in Nat
          BY <1>3, <1>4, <1>5
        <5> QED
          BY <3>3, <5>1, <5>2
      <4> QED
        BY <1>1, <1>3, <1>11, <4>1, <4>2, BackFact
    <3>6. V[u][u] \in Nat
      BY <1>3, <1>4
    <3> QED
      BY <3>3, <3>4, <3>5, <3>6
  <2>4. CASE u \notin Onwards(u)
    <3>1. m = Min(A) /\ m \in A /\ (\A x \in A : m <= x) /\ m \in Nat
      BY <1>9, <1>10, <1>11, <2>4 DEF Costs
    <3>2. ASSUME NEW v \in Onwards(u)
          PROVE  /\ v \in N /\ v # u
                 /\ sum(v) = IF V[u][v] + V[v][u] <= Infinity THEN V[u][v] + V[v][u] ELSE Infinity
      <4>1. v \in N /\ v # u
        BY <2>2, <2>4
      <4>2. Cost(t, u, v) = V[u][v] /\ Cost(t, v, u) = V[v][u]
        BY <1>3, <2>1, <4>1
      <4> QED
        BY <1>7, <4>1, <4>2
    <3>3. V[u][u] <= m
      <4>1. CASE m = Infinity
        BY <1>3, <1>4, <4>1
      <4>2. ASSUME NEW v \in Onwards(u), m = sum(v) PROVE V[u][u] <= m
        <5>1. V[u][u] <= V[u][v] + V[v][u]
          BY <1>1, <1>3, <3>2, WalksJoin
        <5>2. V[u][u] \in Nat /\ V[u][u] <= Infinity /\ V[u][v] \in Nat /\ V[v][u] \in Nat
          BY <1>3, <1>4, <3>2
        <5> QED
          BY <1>2, <3>2, <4>2, <5>1, <5>2
      <4> QED
        BY <3>1, <4>1, <4>2 DEF A
    <3>4. m <= V[u][u]
      <4>1. \A d \in Weighed(f)[u][u] : m <= d
        BY <1>1, <1>3, <2>4
      <4>2. ASSUME NEW z \in N, NEW d \in Weighed(f)[u][z], z # u PROVE m <= d + V[z][u]
        <5>1. z \in Onwards(u) /\ d = Weight(u, z)
          <6>1. Weighed(f)[u][z] = IF z \in Onwards(u) THEN {Weight(u, z)} ELSE {}
            BY <1>1, <1>3
          <6> QED
            BY <6>1, Zenon
        <5>2. V[u][z] <= d /\ V[u][z] \in Nat /\ V[z][u] \in Nat /\ d \in Nat
          BY <1>1, <1>3, <1>4, <1>5, <5>1
        <5>3. sum(z) \in A
          BY <5>1 DEF A
        <5>4. m <= sum(z)
          BY <3>1, <5>3
        <5>5. sum(z) <= V[u][z] + V[z][u]
          BY <1>2, <3>2, <5>1, <5>2
        <5>6. sum(z) \in Nat
          BY <1>7 DEF Costs
        <5> QED
          BY <3>1, <5>2, <5>4, <5>5, <5>6
      <4> QED
        BY <1>1, <1>3, <1>11, <4>1, <4>2, BackFact
    <3>5. V[u][u] \in Nat
      BY <1>3, <1>4
    <3> QED
      BY <3>1, <3>3, <3>4, <3>5
  <2> QED
    BY <2>3, <2>4
<1>14. ASSUME Inside, NEW Y \in SUBSET N, Diagonals(f, t, Y)
       PROVE  Diagonals(f, Replaced(t, <<u, u>>, m), Y \cup {u})
  <2>1. /\ \A v, w \in N : v # w => Cost(t, v, w) = V[v][w]
        /\ \A v \in Y : Cost(t, v, v) = V[v][v]
    BY <1>14 DEF Diagonals, N, V
  <2>2. m = V[u][u]
    BY <1>13, <1>14
  <2>3. \A v, w \in N : v # w => Cost(Replaced(t, <<u, u>>, m), v, w) = V[v][w]
    BY <1>12, <2>1
  <2>4. \A v \in Y \cup {u} : Cost(Replaced(t, <<u, u>>, m), v, v) = V[v][v]
    BY <1>12, <2>1, <2>2
  <2> QED
    BY <2>3, <2>4 DEF Diagonals, N, V
<1> QED
  BY <1>12, <1>14 DEF m, N

\* The entries of callees.
CallEdges(f) == UNION {{u} \X Range(graph.succ[u]) : u \in Range(CallsOf(f))}

\* The last loop makes the table final.
LEMMA CallTable ==
    ASSUME Shape, Linked, NEW f \in Functions, NEW t \in Tables, NEW s,
           s = [e \in DOMAIN t \cup CallEdges(f) |->
                   IF e \in CallEdges(f) THEN Instructions(e[1]) ELSE t[e]]
    PROVE  s \in Tables /\ (Diagonals(f, t, NodesIn(graph, f)) => Final(f, s))
<1> DEFINE N == NodesIn(graph, f)
           C == CallEdges(f)
           calls == Range(CallsOf(f))
<1>1. PICK T \in SUBSET (Nat \X Nat) : t \in [T -> Costs]
  BY DEF Tables
<1>2. \A n : n \in calls <=> n \in N /\ IsCall(graph, n)
  <2>1. \A n : n \in calls <=> \E k \in DOMAIN CallsOf(f) : n = CallsOf(f)[k]
    BY DEF Range
  <2>2. /\ \A k \in DOMAIN CallsOf(f) : CallsOf(f)[k] \in N /\ CallsOf(f)[k] \in AllCalls
        /\ \A n \in N : IsCall(graph, n) => \E k \in DOMAIN CallsOf(f) : CallsOf(f)[k] = n
    BY DEF Shape
  <2> QED
    BY <2>1, <2>2 DEF AllCalls
<1>3. ASSUME NEW u, NEW v
      PROVE  <<u, v>> \in C <=> u \in calls /\ v \in Range(graph.succ[u])
  BY DEF CallEdges
<1>4. \A e \in C : \E u \in calls : \E v \in Range(graph.succ[u]) : e = <<u, v>>
  BY DEF CallEdges
<1>5. ASSUME NEW u \in calls
      PROVE  /\ u \in Nat /\ Instructions(u) \in Costs
             /\ Range(graph.succ[u]) \subseteq Nat
  <2>1. u \in DOMAIN graph.nodes /\ u \in Nat
    <3>1. \A n : n \in N <=> n \in DOMAIN graph.nodes /\ graph.nodes[n].function = f
      BY DEF Shape
    <3>2. DOMAIN graph.nodes \in SUBSET (Nat \ {0})
      BY DEF Shape
    <3> QED
      BY <1>2, <3>1, <3>2
  <2>2. Instructions(u) \in Nat \ {0} /\ 2 * Instructions(u) <= Infinity
    BY <2>1 DEF Shape
  <2>3. \A k \in DOMAIN graph.succ[u] : graph.succ[u][k] \in Nat
    BY <2>1 DEF Linked
  <2> QED
    BY <2>1, <2>2, <2>3, InfinityAssumption DEF Costs, Range
<1> HIDE DEF N, C, calls
<1>6. s = [e \in DOMAIN t \cup C |-> IF e \in C THEN Instructions(e[1]) ELSE t[e]]
  BY DEF C
<1>7. s \in Tables
  <2>1. DOMAIN t \cup C \in SUBSET (Nat \X Nat)
    BY <1>1, <1>4, <1>5
  <2>2. \A e \in DOMAIN t \cup C : (IF e \in C THEN Instructions(e[1]) ELSE t[e]) \in Costs
    <3>1. \A e \in C : Instructions(e[1]) \in Costs
      BY <1>4, <1>5
    <3>2. \A e \in DOMAIN t : t[e] \in Costs
      BY <1>1
    <3> QED
      BY <3>1, <3>2
  <2>3. s \in [DOMAIN t \cup C -> Costs]
    BY <1>6, <2>2
  <2> QED
    BY <2>1, <2>3 DEF Tables
<1>8. ASSUME Diagonals(f, t, N), NEW u \in N, NEW v \in N
      PROVE  Cost(s, u, v) = IF IsCall(graph, u) /\ v \in Range(graph.succ[u])
                             THEN Instructions(u) ELSE Cheapest(f)[u][v]
  <2>1. <<u, v>> \in C <=> IsCall(graph, u) /\ v \in Range(graph.succ[u])
    BY <1>2, <1>3
  <2>2. CASE <<u, v>> \in C
    <3>1. <<u, v>> \in DOMAIN s /\ s[<<u, v>>] = Instructions(u)
      BY <1>6, <2>2
    <3> QED
      BY <2>1, <2>2, <3>1 DEF Cost
  <2>3. CASE <<u, v>> \notin C
    <3>1. Cost(s, u, v) = Cost(t, u, v)
      BY <1>6, <2>3 DEF Cost
    <3>2. Cost(t, u, v) = Cheapest(f)[u][v]
      <4>1. /\ \A w, x \in N : w # x => Cost(t, w, x) = Cheapest(f)[w][x]
            /\ \A w \in N : Cost(t, w, w) = Cheapest(f)[w][w]
        BY <1>8 DEF Diagonals, N
      <4> QED
        BY <4>1
    <3> QED
      BY <2>1, <2>3, <3>1, <3>2
  <2> QED
    BY <2>2, <2>3
<1> QED
  BY <1>7, <1>8 DEF Final, N

\* The table that a loop works on.
Loops == [at : {"paths", "diagonal", "calls"}, node : Nat]
Below(f, x) == {y \in NodesIn(graph, f) : y < x}

Progress ==
    LET f == Len(intra) IN
    /\ loop.at = "paths"    => Paths(f, intra[f], Below(f, loop.node))
    /\ loop.at = "diagonal" => Diagonals(f, intra[f], Below(f, loop.node))
    /\ loop.at = "calls"    => Diagonals(f, intra[f], NodesIn(graph, f))

IntraInv ==
    /\ phase \in {"nodes", "edges", "avg"} => intra = <<>> /\ loop = Start
    /\ phase \in {"intra", "inter", "done"} =>
          /\ intra \in Seq(Tables) /\ Len(intra) <= Len(program)
          /\ phase # "intra" => Len(intra) = Len(program) /\ loop = Start
          /\ loop # Start =>
                loop \in Loops /\ Len(intra) \in Functions /\ loop.node \in NodesIn(graph, Len(intra))
          /\ WellFormed(program) =>
                /\ \A f \in 1 .. Len(intra) : f < Len(intra) \/ loop = Start => Final(f, intra[f])
                /\ loop # Start => Progress

\* At the end the tables are those that IntraCheapest asks for.
LEMMA IntraResult ==
    ASSUME GraphInv, IntraInv
    PROVE  IntraCheapest
<1>1. SUFFICES ASSUME phase = "done", WellFormed(program), NEW f \in Functions
               PROVE  LET best == Cheapest(f) IN
                      \A u, v \in NodesIn(graph, f) :
                          Cost(intra[f], u, v) =
                              IF IsCall(graph, u) /\ v \in Range(graph.succ[u])
                              THEN Instructions(u) ELSE best[u][v]
  BY DEF IntraCheapest
<1>2. Shape
  BY <1>1, ShapeFact DEF HasNodes, HasEdges
<1>3. f \in 1 .. Len(intra) /\ loop = Start
  BY <1>1, <1>2 DEF IntraInv, Shape
<1>4. Final(f, intra[f])
  BY <1>1, <1>3 DEF IntraInv
<1> QED
  BY <1>4 DEF Final

\* What the costs are to be does not change any more.
LEMMA CheapestSame ==
    ASSUME UNCHANGED <<program, graph, callAvg>>
    PROVE  /\ \A f : Cheapest(f)' = Cheapest(f) /\ NodesIn(graph, f)' = NodesIn(graph, f)
           /\ \A f, t : Final(f, t)' = Final(f, t)
           /\ \A f, t, Y : Paths(f, t, Y)' = Paths(f, t, Y) /\ Diagonals(f, t, Y)' = Diagonals(f, t, Y)
           /\ \A f, x : Below(f, x)' = Below(f, x)
           /\ Functions' = Functions /\ WellFormed(program)' = WellFormed(program)
<1>1. \A u, v : Weight(u, v)' = Weight(u, v) /\ Onwards(u)' = Onwards(u)
  BY DEF Weight, NodeCost, Instructions, NumInstructions, Onwards, IsCall, IsRet
<1>2. \A f : Cheapest(f)' = Cheapest(f)
  BY DEF Cheapest, NodesIn, Entry, End, Weight, NodeCost, Instructions, NumInstructions, Onwards,
         IsCall, IsRet
<1>3. \A f : NodesIn(graph, f)' = NodesIn(graph, f)
  BY DEF NodesIn, Entry, End
<1>4. \A f, t : Final(f, t)' = Final(f, t)
  BY <1>2 DEF Final, NodesIn, Entry, End, IsCall, Instructions, NumInstructions
<1>5. \A f, t, Y : Paths(f, t, Y)' = Paths(f, t, Y)
  BY <1>1, <1>2 DEF Paths, NodesIn, Entry, End
<1>6. \A f, t, Y : Diagonals(f, t, Y)' = Diagonals(f, t, Y)
  BY <1>2 DEF Diagonals, NodesIn, Entry, End
<1>7. \A f, x : Below(f, x)' = Below(f, x)
  BY DEF Below, NodesIn, Entry, End
<1>8. Functions' = Functions /\ WellFormed(program)' = WellFormed(program)
  BY DEF Functions
<1> QED
  BY <1>2, <1>3, <1>4, <1>5, <1>6, <1>7, <1>8

\* Where the tables and their loops do not change.
LEMMA IntraKept ==
    ASSUME IntraInv, UNCHANGED <<program, graph, intra, loop>>,
           \/ phase' \in {"nodes", "edges", "avg", "exception"} /\ phase \in {"nodes", "edges", "avg"}
           \/ phase' = "exception"
           \/ phase = "avg" /\ phase' = "intra" /\ Len(program) \in Nat
           \/ UNCHANGED callAvg /\ phase = phase'
           \/ /\ UNCHANGED callAvg /\ phase \in {"intra", "inter"} /\ phase' \in {"inter", "done"}
              /\ phase = "intra" => loop = Start /\ Len(intra) = Len(program)
    PROVE  IntraInv'
<1>1. CASE phase' = "exception"
  BY <1>1 DEF IntraInv
<1>2. CASE phase' \in {"nodes", "edges", "avg"} /\ phase \in {"nodes", "edges", "avg"}
  BY <1>2 DEF IntraInv
<1>3. CASE phase = "avg" /\ phase' = "intra" /\ Len(program) \in Nat
  <2>1. intra' = <<>> /\ loop' = Start
    BY <1>3 DEF IntraInv, Start
  <2>2. /\ intra' \in Seq(Tables) /\ Len(intra') = 0 /\ Len(program') \in Nat
    BY <1>3, <2>1
  <2>3. \A f \in 1 .. Len(intra') : FALSE
    BY <2>2
  <2>4. Start' = Start
    BY DEF Start
  <2> QED
    BY <1>3, <2>1, <2>2, <2>3, <2>4 DEF IntraInv
<1>4. CASE /\ UNCHANGED callAvg
           /\ \/ phase = phase'
              \/ /\ phase \in {"intra", "inter"} /\ phase' \in {"inter", "done"}
                 /\ phase = "intra" => loop = Start /\ Len(intra) = Len(program)
  <2>1. CASE phase' \in {"intra", "inter", "done"}
    <3>1. phase \in {"intra", "inter", "done"}
      BY <1>4, <2>1
    <3>2. /\ \A f, t : Final(f, t)' = Final(f, t)
          /\ \A f, t, Y : Paths(f, t, Y)' = Paths(f, t, Y) /\ Diagonals(f, t, Y)' = Diagonals(f, t, Y)
          /\ \A f, x : Below(f, x)' = Below(f, x) /\ NodesIn(graph, f)' = NodesIn(graph, f)
          /\ Functions' = Functions /\ WellFormed(program)' = WellFormed(program)
      BY <1>4, CheapestSame
    <3> DEFINE l == Len(intra)
    <3>3. PICK k, i, n, L : k = l /\ i = intra /\ n = loop.node /\ L = loop
      OBVIOUS
    <3>4. Len(intra') = k /\ intra' = i /\ loop'.node = n /\ loop' = L
      BY <3>3
    <3>5. Progress' = Progress
      <4>1. Progress <=> /\ L.at = "paths"    => Paths(k, i[k], Below(k, n))
                         /\ L.at = "diagonal" => Diagonals(k, i[k], Below(k, n))
                         /\ L.at = "calls"    => Diagonals(k, i[k], NodesIn(graph, k))
        BY <3>3 DEF Progress
      <4>2. Progress' <=> /\ L.at = "paths"    => Paths(k, i[k], Below(k, n))'
                          /\ L.at = "diagonal" => Diagonals(k, i[k], Below(k, n))'
                          /\ L.at = "calls"    => Diagonals(k, i[k], NodesIn(graph, k))'
        BY <3>3, <3>4 DEF Progress
      <4>3. /\ Paths(k, i[k], Below(k, n))' <=> Paths(k, i[k], Below(k, n))
            /\ Diagonals(k, i[k], Below(k, n))' <=> Diagonals(k, i[k], Below(k, n))
            /\ Diagonals(k, i[k], NodesIn(graph, k))' <=> Diagonals(k, i[k], NodesIn(graph, k))
        BY <3>2
      <4> QED
        BY <4>1, <4>2, <4>3
    <3>6. /\ IntraInv
          /\ phase' # "intra" => Len(intra) = Len(program) /\ loop = Start
      BY <1>4, <2>1 DEF IntraInv
    <3>7. /\ intra \in Seq(Tables) /\ Len(intra) <= Len(program)
          /\ loop # Start =>
                loop \in Loops /\ Len(intra) \in Functions /\ loop.node \in NodesIn(graph, Len(intra))
          /\ WellFormed(program) =>
                /\ \A f \in 1 .. Len(intra) : f < Len(intra) \/ loop = Start => Final(f, intra[f])
                /\ loop # Start => Progress
      BY <3>1 DEF IntraInv
    <3>8. Start' = Start /\ Loops' = Loops /\ Tables' = Tables
      BY DEF Start, Loops, Tables
    <3>9. NodesIn(graph, k)' = NodesIn(graph, k)
      BY <3>2
    <3>10. \A f \in 1 .. k : Final(f, i[f])' <=> Final(f, i[f])
      BY <3>2
    <3>11. /\ intra' \in Seq(Tables) /\ Len(intra') <= Len(program')
           /\ phase' # "intra" => Len(intra') = Len(program') /\ loop' = Start
      BY <3>6, <3>7
    <3>12. loop' # Start => loop' \in Loops /\ Len(intra') \in Functions'
                            /\ loop'.node \in NodesIn(graph', Len(intra'))
      BY <3>2, <3>3, <3>4, <3>7, <3>9
    <3>13. WellFormed(program') =>
                /\ \A f \in 1 .. Len(intra') : f < Len(intra') \/ loop' = Start => Final(f, intra[f])'
                /\ loop' # Start => Progress'
      BY <3>2, <3>3, <3>4, <3>5, <3>7, <3>10
    <3> QED
      BY <2>1, <3>8, <3>11, <3>12, <3>13 DEF IntraInv
  <2>2. CASE phase' \notin {"intra", "inter", "done"}
    BY <1>4, <2>2 DEF IntraInv
  <2> QED
    BY <2>1, <2>2
<1> QED
  BY <1>1, <1>2, <1>3, <1>4

\* What a table and a loop should be after a step.
Continues(f, s, next) ==
    /\ next.at = "paths"    => Paths(f, s, Below(f, next.node))
    /\ next.at = "diagonal" => Diagonals(f, s, Below(f, next.node))
    /\ next.at = "calls"    => Diagonals(f, s, NodesIn(graph, f))

\* A step that has made i of the tables, the last of them s for f.
LEMMA TableStep ==
    ASSUME Shape, IntraInv, phase = "intra", UNCHANGED <<program, graph, phase, callAvg>>,
           NEW i \in Seq(Tables), NEW f \in Functions, Len(i) = f, intra' = i, NEW s, s = i[f],
           \A g \in 1 .. f - 1 : g \in 1 .. Len(intra) /\ i[g] = intra[g],
           \A g \in 1 .. f - 1 : g < Len(intra) \/ loop = Start,
           NEW next, loop' = next,
           next # Start => next \in Loops /\ next.node \in NodesIn(graph, f),
           WellFormed(program) =>
               IF next = Start THEN Final(f, s) ELSE Continues(f, s, next)
    PROVE  IntraInv'
<1>1. /\ \A g, t : Final(g, t)' = Final(g, t)
      /\ \A g, t, Y : Paths(g, t, Y)' = Paths(g, t, Y) /\ Diagonals(g, t, Y)' = Diagonals(g, t, Y)
      /\ \A g, x : Below(g, x)' = Below(g, x) /\ NodesIn(graph, g)' = NodesIn(graph, g)
      /\ Functions' = Functions /\ WellFormed(program)' = WellFormed(program)
  BY CheapestSame
<1>2. Len(intra') = f /\ f \in Nat /\ f <= Len(program) /\ f \in 1 .. f
  BY DEF Shape
<1>3. Start' = Start /\ Loops' = Loops /\ Tables' = Tables
  BY DEF Start, Loops, Tables
<1>4. intra' \in Seq(Tables) /\ Len(intra') <= Len(program')
  BY <1>2
<1>5. loop' # Start => loop' \in Loops /\ Len(intra') \in Functions'
                       /\ loop'.node \in NodesIn(graph', Len(intra'))
  <2>1. NodesIn(graph, f)' = NodesIn(graph, f)
    BY <1>1
  <2> QED
    BY <1>1, <1>2, <2>1
<1>6. ASSUME WellFormed(program), NEW g \in 1 .. f, g < f \/ next = Start
      PROVE  Final(g, i[g])
  <2>1. CASE g = f
    <3>1. next = Start
      BY <1>2, <1>6, <2>1
    <3> QED
      BY <1>6, <2>1, <3>1
  <2>2. CASE g # f
    <3>1. g \in 1 .. f - 1
      BY <1>2, <2>2
    <3>2. i[g] = intra[g] /\ g \in 1 .. Len(intra) /\ (g < Len(intra) \/ loop = Start)
      BY <3>1
    <3>3. Final(g, intra[g])
      BY <1>6, <3>2 DEF IntraInv
    <3> QED
      BY <3>2, <3>3
  <2> QED
    BY <2>1, <2>2
<1>7. ASSUME WellFormed(program), next # Start PROVE Progress'
  <2>1. Continues(f, s, next)
    BY <1>7
  <2>2. /\ next.at = "paths"    => Paths(f, s, Below(f, next.node))
        /\ next.at = "diagonal" => Diagonals(f, s, Below(f, next.node))
        /\ next.at = "calls"    => Diagonals(f, s, NodesIn(graph, f))
    BY <2>1 DEF Continues
  <2>3. PICK n : n = next.node
    OBVIOUS
  <2>4. Progress' <=> /\ next.at = "paths"    => Paths(f, s, Below(f, n))'
                      /\ next.at = "diagonal" => Diagonals(f, s, Below(f, n))'
                      /\ next.at = "calls"    => Diagonals(f, s, NodesIn(graph, f))'
    BY <1>2, <2>3 DEF Progress
  <2>5. /\ Paths(f, s, Below(f, n))' <=> Paths(f, s, Below(f, n))
        /\ Diagonals(f, s, Below(f, n))' <=> Diagonals(f, s, Below(f, n))
        /\ Diagonals(f, s, NodesIn(graph, f))' <=> Diagonals(f, s, NodesIn(graph, f))
    BY <1>1
  <2> QED
    BY <2>2, <2>3, <2>4, <2>5
<1>8. WellFormed(program') =>
          /\ \A g \in 1 .. Len(intra') : g < Len(intra') \/ loop' = Start => Final(g, intra[g])'
          /\ loop' # Start => Progress'
  <2>1. \A g \in 1 .. f : Final(g, i[g])' <=> Final(g, i[g])
    BY <1>1
  <2> QED
    BY <1>1, <1>2, <1>6, <1>7, <2>1
<1> QED
  BY <1>3, <1>4, <1>5, <1>8 DEF IntraInv

\* The next node of a loop.
LEMMA AdvanceFact ==
    ASSUME Shape, NEW f \in Functions, Len(intra) = f, NEW l, loop = l, l \in Loops,
           l.node \in NodesIn(graph, f), NEW after \in {"diagonal", "calls"}, Advance(after)
    PROVE  /\ loop' \in Loops /\ loop'.node \in NodesIn(graph, f)
           /\ \/ loop'.at = l.at /\ Below(f, loop'.node) = Below(f, l.node) \cup {l.node}
              \/ /\ loop'.at = after /\ Below(f, loop'.node) = {}
                 /\ NodesIn(graph, f) = Below(f, l.node) \cup {l.node}
<1> DEFINE N == NodesIn(graph, f)
           a == Entry(graph, f)
           b == End(graph, f)
<1>1. a \in Nat /\ b \in Nat /\ a \in N
  BY DEF Shape
<1>2. N = a .. b - 1
  BY DEF NodesIn
<1>3. l = [at |-> l.at, node |-> l.node] /\ l.node \in Nat
      /\ l.at \in {"paths", "diagonal", "calls"}
  BY DEF Loops
<1>4. loop' = IF l.node + 1 < b THEN [l EXCEPT !.node = @ + 1] ELSE [at |-> after, node |-> a]
  BY DEF Advance
<1>5. \A x : Below(f, x) = {y \in N : y < x}
  BY DEF Below
<1> HIDE DEF N, a, b
<1>6. CASE l.node + 1 < b
  <2>1. loop' = [at |-> l.at, node |-> l.node + 1]
    BY <1>3, <1>4, <1>6
  <2>2. l.node + 1 \in N /\ l.node + 1 \in Nat
    BY <1>1, <1>2, <1>3, <1>6 DEF N
  <2>3. Below(f, l.node + 1) = Below(f, l.node) \cup {l.node}
    BY <1>1, <1>2, <1>3, <1>5 DEF N
  <2> QED
    BY <1>3, <2>1, <2>2, <2>3 DEF Loops, N
<1>7. CASE ~(l.node + 1 < b)
  <2>1. loop' = [at |-> after, node |-> a]
    BY <1>4, <1>7
  <2>2. N = Below(f, l.node) \cup {l.node}
    BY <1>1, <1>2, <1>3, <1>5, <1>7 DEF N
  <2>3. Below(f, a) = {}
    BY <1>1, <1>2, <1>5
  <2> QED
    BY <1>1, <2>1, <2>2, <2>3 DEF Loops, N
<1> QED
  BY <1>6, <1>7

\* The last table is replaced.
LEMMA TableReplaced ==
    ASSUME intra \in Seq(Tables), Len(intra) \in Functions, Shape, NEW s \in Tables, SetTable(s)
    PROVE  LET f == Len(intra) IN
           /\ f \in Nat /\ Table = intra[f] /\ Table \in Tables
           /\ intra' \in Seq(Tables) /\ Len(intra') = f /\ intra'[f] = s
           /\ \A g \in 1 .. f - 1 : g \in 1 .. f /\ intra'[g] = intra[g]
<1>1. Len(intra) \in Nat \ {0}
  BY DEF Shape
<1>2. intra # <<>>
  BY <1>1
<1>3. /\ Last(intra) = intra[Len(intra)] /\ Last(intra) \in Tables
      /\ Front(intra) \in Seq(Tables) /\ Len(Front(intra)) = Len(intra) - 1
      /\ \A i \in 1 .. Len(intra) - 1 : Front(intra)[i] = intra[i]
  BY <1>2, PopFact
<1>4. PICK w : w = Front(intra)
  OBVIOUS
<1>5. /\ Append(w, s) \in Seq(Tables) /\ Len(Append(w, s)) = Len(w) + 1
      /\ \A i \in DOMAIN w : Append(w, s)[i] = w[i]
      /\ Append(w, s)[Len(w) + 1] = s
  BY <1>3, <1>4, PushFact
<1>6. intra' = Append(w, s)
  BY <1>4 DEF SetTable
<1>7. DOMAIN w = 1 .. Len(intra) - 1 /\ Len(w) + 1 = Len(intra)
  BY <1>1, <1>3, <1>4
<1>8. Table = Last(intra)
  BY DEF Table
<1> QED
  BY <1>1, <1>3, <1>4, <1>5, <1>6, <1>7, <1>8

\* An exception leaves the tables.
LEMMA ThrowKept ==
    ASSUME IntraInv, Throw
    PROVE  IntraInv'
  BY DEF IntraInv, Throw

\* The next function is begun.
LEMMA IntraStartStep ==
    ASSUME Shape, Linked, CostType, HasEdges, IntraInv, IntraStart
    PROVE  IntraInv'
<1> DEFINE l == Len(intra) + 1
<1>1. CASE Throw
  BY <1>1, ThrowKept
<1>2. CASE ~Throw
  <2>1. /\ phase = "intra" /\ loop = Start /\ l \in Functions
        /\ \A e \in Edges(l) : InGraph(e[2])
        /\ intra' = Append(intra,
                [e \in Edges(l) \cup {<<u, u>> : u \in NodesIn(graph, l)} |->
                    IF e \in Edges(l) THEN EdgeCost(e[1], e[2]) ELSE 0])
        /\ loop' = [at |-> "paths", node |-> Entry(graph, l)]
        /\ UNCHANGED <<program, graph, phase, callAvg>>
    BY <1>2 DEF IntraStart, avgVars
  <2>2. callAvg \in [AllCalls -> Costs] /\ intra \in Seq(Tables)
    BY <2>1 DEF CostType, IntraInv
  <2> DEFINE r == [e \in Edges(l) \cup {<<u, u>> : u \in NodesIn(graph, l)} |->
                      IF e \in Edges(l) THEN EdgeCost(e[1], e[2]) ELSE 0]
  <2>3. PICK f, t, next : f = l /\ t = r /\ next = loop'
    OBVIOUS
  <2>4. /\ f \in Functions /\ \A e \in Edges(f) : InGraph(e[2])
        /\ t = [e \in Edges(f) \cup {<<u, u>> : u \in NodesIn(graph, f)} |->
                    IF e \in Edges(f) THEN EdgeCost(e[1], e[2]) ELSE 0]
    BY <2>1, <2>3
  <2>5. t \in Tables /\ Paths(f, t, {})
    BY <2>2, <2>4, StartTable
  <2>6. next = [at |-> "paths", node |-> Entry(graph, f)] /\ f = Len(intra) + 1
        /\ intra' = Append(intra, t)
    BY <2>1, <2>3
  <2> HIDE DEF r, l
  <2>7. Entry(graph, f) \in Nat /\ Entry(graph, f) \in NodesIn(graph, f)
        /\ NodesIn(graph, f) = Entry(graph, f) .. End(graph, f) - 1 /\ End(graph, f) \in Nat
    BY <2>4 DEF Shape, NodesIn
  <2>8. Below(f, Entry(graph, f)) = {}
    BY <2>7 DEF Below
  <2>9. next \in Loops /\ next.node \in NodesIn(graph, f) /\ next # Start
    BY <2>6, <2>7 DEF Loops, Start
  <2>10. Continues(f, t, next)
    BY <2>5, <2>6, <2>8 DEF Continues
  <2>11. /\ Append(intra, t) \in Seq(Tables) /\ Len(Append(intra, t)) = Len(intra) + 1
         /\ DOMAIN Append(intra, t) = DOMAIN intra \cup {Len(intra) + 1}
         /\ \A i \in DOMAIN intra : Append(intra, t)[i] = intra[i]
         /\ Append(intra, t)[Len(intra) + 1] = t
    BY <2>2, <2>5, PushFact
  <2>12. PICK i : i = Append(intra, t)
    OBVIOUS
  <2>13. /\ i \in Seq(Tables) /\ Len(i) = f /\ i[f] = t /\ intra' = i
         /\ \A g \in 1 .. f - 1 : g \in 1 .. Len(intra) /\ i[g] = intra[g]
    <3>1. Len(intra) \in Nat /\ DOMAIN intra = 1 .. Len(intra)
      BY <2>2
    <3> QED
      BY <2>6, <2>11, <2>12, <3>1
  <2>14. loop = Start
    BY <2>1
  <2> QED
    BY <2>1, <2>3, <2>4, <2>9, <2>10, <2>13, <2>14, TableStep
<1> QED
  BY <1>1, <1>2

\* What holds while a loop runs.
LEMMA LoopFact ==
    ASSUME Shape, CostType, HasEdges, IntraInv, phase = "intra", loop # Start
    PROVE  /\ intra \in Seq(Tables) /\ Len(intra) \in Functions /\ loop \in Loops
           /\ loop.node \in NodesIn(graph, Len(intra)) /\ callAvg \in [AllCalls -> Costs]
           /\ WellFormed(program) => Continues(Len(intra), intra[Len(intra)], loop)
  BY DEF IntraInv, CostType, Progress, Continues

\* A step of a loop makes another table of the last one.
LEMMA LoopStep ==
    ASSUME Shape, CostType, HasEdges, IntraInv, phase = "intra", loop # Start,
           UNCHANGED <<program, graph, phase, callAvg>>, NEW s \in Tables, SetTable(s),
           NEW next, loop' = next,
           next # Start => next \in Loops /\ next.node \in NodesIn(graph, Len(intra)),
           WellFormed(program) =>
               IF next = Start THEN Final(Len(intra), s) ELSE Continues(Len(intra), s, next)
    PROVE  IntraInv'
<1>1. intra \in Seq(Tables) /\ Len(intra) \in Functions
  BY LoopFact
<1>2. /\ Len(intra) \in Nat
      /\ intra' \in Seq(Tables) /\ Len(intra') = Len(intra) /\ intra'[Len(intra)] = s
      /\ \A g \in 1 .. Len(intra) - 1 : g \in 1 .. Len(intra) /\ intra'[g] = intra[g]
  BY <1>1, TableReplaced
<1>3. PICK f, i : f = Len(intra) /\ i = intra'
  OBVIOUS
<1>4. /\ i \in Seq(Tables) /\ f \in Functions /\ Len(i) = f /\ intra' = i /\ s = i[f]
      /\ \A g \in 1 .. f - 1 : g \in 1 .. Len(intra) /\ i[g] = intra[g]
      /\ \A g \in 1 .. f - 1 : g < Len(intra)
  BY <1>1, <1>2, <1>3
<1>5. next # Start => next \in Loops /\ next.node \in NodesIn(graph, f)
  BY <1>3
<1>6. WellFormed(program) => IF next = Start THEN Final(f, s) ELSE Continues(f, s, next)
  BY <1>3
<1> QED
  BY <1>4, <1>5, <1>6, TableStep

\* A turn of the loop over the nodes between.
LEMMA FloydStep ==
    ASSUME Shape, CostType, HasEdges, IntraInv, FloydWarshall
    PROVE  IntraInv'
<1> DEFINE k == Len(intra)
           best(e) == Least(Cost(Table, e[1], e[2]),
                            SumCosts(Cost(Table, e[1], loop.node), Cost(Table, loop.node, e[2])))
           r == [e \in {e \in NodesIn(graph, k) \X NodesIn(graph, k) : best(e) # Infinity} |-> best(e)]
<1>1. /\ phase = "intra" /\ loop.at = "paths" /\ loop # Start
      /\ SetTable(r) /\ Advance("diagonal")
      /\ UNCHANGED <<program, graph, phase, callAvg>>
  BY DEF FloydWarshall, avgVars, Start
<1>2. /\ intra \in Seq(Tables) /\ k \in Functions /\ loop \in Loops
      /\ loop.node \in NodesIn(graph, k) /\ callAvg \in [AllCalls -> Costs]
      /\ WellFormed(program) => Continues(k, intra[k], loop)
  BY <1>1, LoopFact
<1>3. PICK f, x, l, t, next : f = k /\ x = loop.node /\ l = loop /\ t = intra[k] /\ next = loop'
  OBVIOUS
<1>4. t = Table /\ t \in Tables
  <2>1. k \in Nat \ {0}
    BY <1>2 DEF Shape
  <2>2. intra # <<>>
    BY <2>1
  <2>3. Last(intra) = intra[k] /\ Last(intra) \in Tables
    BY <1>2, <2>2, PopFact
  <2> QED
    BY <1>3, <2>3 DEF Table
<1> DEFINE cost(e) == Least(Cost(t, e[1], e[2]), SumCosts(Cost(t, e[1], x), Cost(t, x, e[2])))
           B == [e \in NodesIn(graph, f) \X NodesIn(graph, f) |-> cost(e)]
<1>5. PICK s : s = [e \in {e \in NodesIn(graph, f) \X NodesIn(graph, f) : cost(e) # Infinity} |-> cost(e)]
  OBVIOUS
<1>6. s = r
  BY <1>3, <1>4, <1>5
<1>7. s = TableOf(NodesIn(graph, f), B)
  BY <1>5 DEF TableOf
<1>8. Improved(NodesIn(graph, f), t, x, B)
  BY DEF Improved
<1> HIDE DEF r, cost, B, k
<1>9. \A Y \in SUBSET NodesIn(graph, f) :
         s \in Tables /\ (Paths(f, t, Y) => Paths(f, s, Y \cup {x}))
  BY <1>2, <1>3, <1>4, <1>7, <1>8, FloydTable
<1>10. /\ next \in Loops /\ next.node \in NodesIn(graph, f)
       /\ \/ next.at = "paths" /\ Below(f, next.node) = Below(f, x) \cup {x}
          \/ /\ next.at = "diagonal" /\ Below(f, next.node) = {}
             /\ NodesIn(graph, f) = Below(f, x) \cup {x}
  <2>1. Len(intra) = f /\ f \in Functions /\ l.node \in NodesIn(graph, f) /\ l \in Loops
    BY <1>2, <1>3 DEF k
  <2>2. loop' = next /\ l.node = x /\ l.at = "paths" /\ loop = l
    BY <1>1, <1>3
  <2> QED
    BY <1>1, <2>1, <2>2, AdvanceFact
<1>11. Below(f, x) \in SUBSET NodesIn(graph, f)
  BY DEF Below
<1>12. ASSUME WellFormed(program) PROVE Continues(f, s, next)
  <2>1. Paths(f, t, Below(f, x))
    BY <1>1, <1>2, <1>3, <1>12 DEF Continues
  <2>2. s \in Tables /\ Paths(f, s, Below(f, x) \cup {x})
    BY <1>9, <1>11, <2>1
  <2>3. CASE next.at = "paths" /\ Below(f, next.node) = Below(f, x) \cup {x}
    BY <2>2, <2>3 DEF Continues
  <2>4. CASE /\ next.at = "diagonal" /\ Below(f, next.node) = {}
             /\ NodesIn(graph, f) = Below(f, x) \cup {x}
    <3>1. Diagonals(f, s, {})
      BY <1>2, <1>3, <2>2, <2>4, PathsDone
    <3> QED
      BY <2>4, <3>1 DEF Continues
  <2> QED
    BY <1>10, <2>3, <2>4
<1>13. next # Start
  BY <1>10 DEF Start
<1>14. s \in Tables /\ SetTable(s) /\ f = Len(intra)
  BY <1>1, <1>3, <1>6, <1>9, <1>11 DEF k
<1> QED
  BY <1>1, <1>3, <1>10, <1>12, <1>13, <1>14, LoopStep

\* A turn of the loop over the diagonal.
LEMMA DiagonalStep ==
    ASSUME Shape, CostType, HasEdges, GraphInv, IntraInv, Diagonal
    PROVE  IntraInv'
<1>1. CASE Throw
  BY <1>1, ThrowKept
<1>2. CASE ~Throw
  <2> DEFINE k == Len(intra)
  <2>1. /\ phase = "intra" /\ loop.at = "diagonal" /\ loop # Start
        /\ SetTable(Replaced(Table, <<loop.node, loop.node>>, Back(Table, loop.node)))
        /\ Advance("calls")
        /\ UNCHANGED <<program, graph, phase, callAvg>>
    BY <1>2 DEF Diagonal, Back, avgVars, Start
  <2>2. /\ intra \in Seq(Tables) /\ k \in Functions /\ loop \in Loops
        /\ loop.node \in NodesIn(graph, k) /\ callAvg \in [AllCalls -> Costs]
        /\ WellFormed(program) => Continues(k, intra[k], loop)
    BY <2>1, LoopFact
  <2>3. PICK f, x, l, t, next : f = k /\ x = loop.node /\ l = loop /\ t = intra[k] /\ next = loop'
    OBVIOUS
  <2>4. t = Table /\ t \in Tables
    <3>1. k \in Nat \ {0}
      BY <2>2 DEF Shape
    <3>2. intra # <<>>
      BY <3>1
    <3>3. Last(intra) = intra[k] /\ Last(intra) \in Tables
      BY <2>2, <3>2, PopFact
    <3> QED
      BY <2>3, <3>3 DEF Table
  <2>5. PICK s : s = Replaced(t, <<x, x>>, Back(t, x))
    OBVIOUS
  <2> HIDE DEF k
  <2>6. /\ s \in Tables
        /\ \A Y \in SUBSET NodesIn(graph, f) :
              Inside /\ Diagonals(f, t, Y) => Diagonals(f, s, Y \cup {x})
    BY <2>2, <2>3, <2>4, <2>5, DiagonalTable
  <2>7. /\ next \in Loops /\ next.node \in NodesIn(graph, f)
        /\ \/ next.at = "diagonal" /\ Below(f, next.node) = Below(f, x) \cup {x}
           \/ next.at = "calls" /\ NodesIn(graph, f) = Below(f, x) \cup {x}
    <3>1. Len(intra) = f /\ f \in Functions /\ l.node \in NodesIn(graph, f) /\ l \in Loops
      BY <2>2, <2>3 DEF k
    <3>2. loop' = next /\ l.node = x /\ l.at = "diagonal" /\ loop = l
      BY <2>1, <2>3
    <3> QED
      BY <2>1, <3>1, <3>2, AdvanceFact
  <2>8. Below(f, x) \in SUBSET NodesIn(graph, f)
    BY DEF Below
  <2>9. ASSUME WellFormed(program) PROVE Continues(f, s, next)
    <3>1. Diagonals(f, t, Below(f, x))
      BY <2>1, <2>2, <2>3, <2>9 DEF Continues
    <3>2. Inside
      BY <2>9, InsideFact
    <3>3. Diagonals(f, s, Below(f, x) \cup {x})
      BY <2>6, <2>8, <3>1, <3>2
    <3> QED
      BY <2>7, <3>3 DEF Continues
  <2>10. next # Start
    BY <2>7 DEF Start
  <2>11. SetTable(s) /\ f = Len(intra)
    BY <2>1, <2>3, <2>4, <2>5 DEF k
  <2> QED
    BY <2>1, <2>3, <2>6, <2>7, <2>9, <2>10, <2>11, LoopStep
<1> QED
  BY <1>1, <1>2

\* The entries of callees, the end of a function.
LEMMA CallEntriesStep ==
    ASSUME Shape, Linked, CostType, HasEdges, IntraInv, CallEntries
    PROVE  IntraInv'
<1> DEFINE k == Len(intra)
           r == [e \in DOMAIN Table \cup CallEdges(k) |->
                    IF e \in CallEdges(k) THEN Instructions(e[1]) ELSE Table[e]]
<1>1. /\ phase = "intra" /\ loop.at = "calls" /\ loop # Start
      /\ SetTable(r) /\ loop' = Start
      /\ UNCHANGED <<program, graph, phase, callAvg>>
  BY DEF CallEntries, CallEdges, avgVars, Start
<1>2. /\ intra \in Seq(Tables) /\ k \in Functions /\ loop \in Loops
      /\ WellFormed(program) => Continues(k, intra[k], loop)
  BY <1>1, LoopFact
<1>3. PICK f, t, next : f = k /\ t = intra[k] /\ next = loop'
  OBVIOUS
<1>4. t = Table /\ t \in Tables
  <2>1. k \in Nat \ {0}
    BY <1>2 DEF Shape
  <2>2. intra # <<>>
    BY <2>1
  <2>3. Last(intra) = intra[k] /\ Last(intra) \in Tables
    BY <1>2, <2>2, PopFact
  <2> QED
    BY <1>3, <2>3 DEF Table
<1>5. PICK s : s = [e \in DOMAIN t \cup CallEdges(f) |->
                       IF e \in CallEdges(f) THEN Instructions(e[1]) ELSE t[e]]
  OBVIOUS
<1>6. s = r
  BY <1>3, <1>4, <1>5
<1> HIDE DEF r, k
<1>7. s \in Tables /\ (Diagonals(f, t, NodesIn(graph, f)) => Final(f, s))
  BY <1>2, <1>3, <1>4, <1>5, CallTable
<1>8. WellFormed(program) => Final(f, s)
  <2>1. WellFormed(program) => Diagonals(f, t, NodesIn(graph, f))
    BY <1>1, <1>2, <1>3 DEF Continues
  <2> QED
    BY <1>7, <2>1
<1>9. SetTable(s) /\ f = Len(intra) /\ next = Start
  BY <1>1, <1>3, <1>6 DEF k
<1> QED
  BY <1>1, <1>3, <1>7, <1>8, <1>9, LoopStep

\* There are no tables at first.
LEMMA IntraInit == Init => IntraInv
  BY DEF Init, IntraInv

\* Each step keeps the tables right.
LEMMA IntraStep ==
    ASSUME GraphInv, StackInv, CostType, IntraInv, [Next]_vars
    PROVE  IntraInv'
<1>1. HasNodes => Shape
  BY ShapeFact
<1>2. HasEdges => Linked
  BY LinkedFact
<1>3. CASE UNCHANGED vars
  BY <1>3, IntraKept DEF vars, avgVars, intraVars, interVars
<1>4. CASE MakeNodes
  <2>1. CASE Throw
    BY <2>1, ThrowKept
  <2>2. CASE ~Throw
    BY <1>4, <2>2 DEF MakeNodes, avgVars, intraVars, interVars, IntraInv
  <2> QED
    BY <2>1, <2>2
<1>5. CASE MakeEdges
  <2>1. CASE Throw
    BY <2>1, ThrowKept
  <2>2. CASE ~Throw
    BY <1>5, <2>2 DEF MakeEdges, avgVars, intraVars, interVars, IntraInv
  <2> QED
    BY <2>1, <2>2
<1>6. CASE EnterRoot \/ EnterCallee \/ Leave
  BY <1>6, IntraKept DEF EnterRoot, EnterCallee, Leave, Enter, avgVars, intraVars, interVars
<1>7. CASE AvgCallee \/ AvgCall
  BY <1>7, IntraKept DEF AvgCallee, AvgCall, avgVars, intraVars, interVars
<1>8. CASE AvgDone
  <2>1. Len(program) \in Nat
    BY <1>1, <1>8 DEF AvgDone, Shape, HasNodes, HasEdges
  <2> QED
    BY <1>8, <2>1, IntraKept DEF AvgDone, avgVars, intraVars, interVars
<1>9. CASE IntraStart
  BY <1>1, <1>2, <1>9, IntraStartStep DEF IntraStart, HasNodes, HasEdges
<1>10. CASE FloydWarshall
  BY <1>1, <1>10, FloydStep DEF FloydWarshall, HasNodes, HasEdges
<1>11. CASE Diagonal
  BY <1>1, <1>11, DiagonalStep DEF Diagonal, HasNodes, HasEdges
<1>12. CASE CallEntries
  BY <1>1, <1>2, <1>12, CallEntriesStep DEF CallEntries, HasNodes, HasEdges
<1>13. CASE IntraDone
  BY <1>13, IntraKept DEF IntraDone, avgVars, intraVars, interVars
<1>14. CASE InterDirect \/ InterCallee \/ InterCall
  BY <1>14, IntraKept DEF InterDirect, InterCallee, InterCall, avgVars, intraVars, interVars
<1>15. CASE InterDone
  BY <1>15, IntraKept DEF InterDone, avgVars, intraVars, interVars
<1> QED
  BY <1>3, <1>4, <1>5, <1>6, <1>7, <1>8, <1>9, <1>10, <1>11, <1>12, <1>13, <1>14, <1>15
     DEF Next

----------------------------------------------------------------------------
(* Costs between functions.                                                 *)

\* From the entry of its function up to and with a call.
To(n) == Stationary(Entry(graph, graph.nodes[n].function), n)
Before(n) == To(n) + Instructions(n)

\* Costs of functions: t leads from f, after c, nowhere too cheaply.
CostTable(t) == \A g \in DOMAIN t : t[g] \in Costs
Priced(f, t, c) ==
    DOMAIN t \subseteq Reached[f] /\ CostTable(t) /\ \A g \in DOMAIN t : c + t[g] >= CheapestCalls[f][g]

\* s leads to h, or to where t leads, for c more at most.
AtMost(h, c, s) == h \in DOMAIN s /\ s[h] <= c
Within(c, t, s) == \A g \in DOMAIN t : g \in DOMAIN s /\ s[g] <= c + t[g]

\* A merged table is as cheap as each of the two, and no cheaper than both.
LEMMA MergeFact ==
    ASSUME NEW s, NEW t, CostTable(s), CostTable(t)
    PROVE  LET m == Merge(s, t) IN
           /\ CostTable(m) /\ DOMAIN m = DOMAIN s \cup DOMAIN t
           /\ \A h : \A c \in Nat : AtMost(h, c, s) \/ AtMost(h, c, t) => AtMost(h, c, m)
           /\ \A c \in Nat : \A r : CostTable(r) /\ (Within(c, r, s) \/ Within(c, r, t)) => Within(c, r, m)
           /\ \A f, c : Priced(f, s, c) /\ Priced(f, t, c) => Priced(f, m, c)
<1> DEFINE m == Merge(s, t)
<1>1. /\ DOMAIN m = DOMAIN s \cup DOMAIN t
      /\ \A g \in DOMAIN m : m[g] = IF g \notin DOMAIN t THEN s[g]
                                    ELSE IF g \notin DOMAIN s THEN t[g] ELSE Least(t[g], s[g])
  BY DEF Merge
<1> HIDE DEF m
<1>2. /\ \A g \in DOMAIN s : s[g] \in Costs /\ s[g] \in Nat
      /\ \A g \in DOMAIN t : t[g] \in Costs /\ t[g] \in Nat
  BY DEF CostTable, Costs
<1>3. ASSUME NEW g \in DOMAIN m
      PROVE  /\ (g \in DOMAIN s /\ m[g] = s[g]) \/ (g \in DOMAIN t /\ m[g] = t[g])
             /\ g \in DOMAIN s => m[g] <= s[g]
             /\ g \in DOMAIN t => m[g] <= t[g]
  BY <1>1, <1>2 DEF Least
<1>4. CostTable(m) /\ \A g \in DOMAIN m : m[g] \in Nat
  BY <1>2, <1>3 DEF CostTable
<1>5. ASSUME NEW h, NEW c \in Nat, AtMost(h, c, s) \/ AtMost(h, c, t) PROVE AtMost(h, c, m)
  <2>1. h \in DOMAIN m /\ m[h] \in Nat
    BY <1>1, <1>4, <1>5 DEF AtMost
  <2> QED
    BY <1>2, <1>3, <1>5, <2>1 DEF AtMost
<1>6. ASSUME NEW c \in Nat, NEW r, CostTable(r), Within(c, r, s) \/ Within(c, r, t),
             NEW g \in DOMAIN r
      PROVE  g \in DOMAIN m /\ m[g] <= c + r[g]
  <2>1. g \in DOMAIN m /\ m[g] \in Nat /\ r[g] \in Nat
    BY <1>1, <1>4, <1>6 DEF Within, CostTable, Costs
  <2>2. CASE Within(c, r, s)
    BY <1>2, <1>3, <1>6, <2>1, <2>2 DEF Within
  <2>3. CASE Within(c, r, t)
    BY <1>2, <1>3, <1>6, <2>1, <2>3 DEF Within
  <2> QED
    BY <1>6, <2>2, <2>3
<1>7. ASSUME NEW f, NEW c, Priced(f, s, c), Priced(f, t, c) PROVE Priced(f, m, c)
  <2>1. DOMAIN m \subseteq Reached[f]
    BY <1>1, <1>7 DEF Priced
  <2>2. \A g \in DOMAIN m : c + m[g] >= CheapestCalls[f][g]
    BY <1>3, <1>7 DEF Priced
  <2> QED
    BY <1>4, <2>1, <2>2 DEF Priced
<1> QED
  BY <1>1, <1>4, <1>5, <1>6, <1>7 DEF Within, m

\* What is farther away costs more, up to the largest cost.
LEMMA FartherFact ==
    ASSUME NEW c \in Nat, NEW t, CostTable(t)
    PROVE  LET s == Farther(c, t) IN
           /\ CostTable(s) /\ DOMAIN s = DOMAIN t /\ Within(c, t, s)
           /\ \A g \in DOMAIN t : s[g] = IF c + t[g] <= Infinity THEN c + t[g] ELSE Infinity
<1> DEFINE s == Farther(c, t)
<1>1. DOMAIN s = DOMAIN t /\ \A g \in DOMAIN t : s[g] = SumCosts(c, t[g])
  BY DEF Farther
<1> HIDE DEF s
<1>2. \A g \in DOMAIN t : t[g] \in Nat
  BY DEF CostTable, Costs
<1>3. \A g \in DOMAIN t : /\ s[g] \in Costs
                          /\ s[g] = IF c + t[g] <= Infinity THEN c + t[g] ELSE Infinity
  BY <1>1, <1>2, PlusFact
<1>4. \A g \in DOMAIN t : s[g] <= c + t[g]
  BY <1>2, <1>3, InfinityAssumption
<1> QED
  BY <1>1, <1>3, <1>4 DEF CostTable, Within, s

\* The chains of calls: what a call adds to the cheapest, and what is no more.
LEMMA ChainFact ==
    ASSUME Shape, Linked, intra \in Seq(Tables), Len(intra) = Len(program)
    PROVE  /\ \A n \in AllCalls :
                 /\ graph.nodes[n].function \in Functions
                 /\ To(n) \in Nat /\ Instructions(n) \in Nat /\ Instructions(n) \in Costs
                 /\ Before(n) = To(n) + Instructions(n)
                 /\ \A h \in CalleesOf(n) :
                       /\ h \in Functions
                       /\ CheapestCalls[graph.nodes[n].function][h] <= Before(n)
                       /\ \A g \in Functions :
                             CheapestCalls[graph.nodes[n].function][g] <= Before(n) + CheapestCalls[h][g]
           /\ \A f, g \in Functions : CheapestCalls[f][g] \in Nat /\ CheapestCalls[f][g] <= Infinity
           /\ \A S \in SUBSET Functions, g \in Functions : \A D :
                 /\ \A f \in S : D[f] \in Costs
                 /\ \A n \in AllCalls : graph.nodes[n].function \in S =>
                       \A h \in CalleesOf(n) :
                          /\ h \in S /\ D[graph.nodes[n].function] <= Before(n) + D[h]
                          /\ h = g => D[graph.nodes[n].function] <= Before(n)
                 => \A f \in S : D[f] <= CheapestCalls[f][g]
<1> DEFINE fn(n) == graph.nodes[n].function
           calls(f) == Range(CallsOf(f))
           c == [f \in Functions |-> [g \in Functions |-> {Before(n) : n \in {n \in calls(f) : g \in CalleesOf(n)}}]]
           V == CheapestCalls
<1>1. /\ IsFiniteSet(Functions)
      /\ \A n \in AllCalls : /\ n \in DOMAIN graph.nodes /\ fn(n) \in Functions
                             /\ \A g \in CalleesOf(n) : g \in Functions
  <2>1. /\ IsFiniteSet(Functions)
        /\ \A n \in AllCalls :
                 /\ n \in DOMAIN graph.nodes /\ graph.nodes[n].function \in Functions
                 /\ \A k \in DOMAIN graph.succ[n] : CalleeOf(n, k) \in Functions
                 /\ \A g : g \in CalleesOf(n) <=> \E k \in DOMAIN graph.succ[n] : CalleeOf(n, k) = g
    BY CalleesFact
  <2> QED
    BY <2>1
<1>2. \A f \in Functions : \A n : n \in calls(f) <=> n \in AllCalls /\ fn(n) = f
  <2>1. SUFFICES ASSUME NEW f \in Functions
                 PROVE  \A n : n \in calls(f) <=> n \in AllCalls /\ fn(n) = f
    OBVIOUS
  <2>2. \A n : n \in calls(f) <=> \E k \in DOMAIN CallsOf(f) : CallsOf(f)[k] = n
    BY DEF Range
  <2>3. /\ \A k \in DOMAIN CallsOf(f) : CallsOf(f)[k] \in NodesIn(graph, f) /\ CallsOf(f)[k] \in AllCalls
        /\ \A n \in NodesIn(graph, f) : IsCall(graph, n) => \E k \in DOMAIN CallsOf(f) : CallsOf(f)[k] = n
        /\ \A n : n \in NodesIn(graph, f) <=> n \in DOMAIN graph.nodes /\ fn(n) = f
    BY DEF Shape
  <2> QED
    BY <2>2, <2>3 DEF AllCalls
<1>3. \A n \in AllCalls : To(n) \in Nat /\ Instructions(n) \in Nat \ {0} /\ Instructions(n) \in Costs
  <2>1. SUFFICES ASSUME NEW n \in AllCalls
                 PROVE  To(n) \in Nat /\ Instructions(n) \in Nat \ {0} /\ Instructions(n) \in Costs
    OBVIOUS
  <2>2. Instructions(n) \in Nat \ {0} /\ 2 * Instructions(n) <= Infinity
    BY <1>1 DEF Shape
  <2>3. Entry(graph, fn(n)) \in NodesIn(graph, fn(n))
    BY <1>1 DEF Shape
  <2>4. Entry(graph, fn(n)) \in DOMAIN graph.nodes /\ graph.nodes[Entry(graph, fn(n))].function = fn(n)
    <3>1. \A f \in Functions : \A k : k \in NodesIn(graph, f) <=>
             k \in DOMAIN graph.nodes /\ graph.nodes[k].function = f
      BY DEF Shape
    <3>2. fn(n) \in Functions
      BY <1>1
    <3> HIDE DEF fn
    <3> QED
      BY ONLY <2>3, <3>1, <3>2
  <2>5. fn(n) \in 1 .. Len(intra)
    BY <1>1 DEF Shape
  <2>6. intra[fn(n)] \in Tables
    BY <2>5, ElementOfSeq
  <2>7. Cost(intra[fn(n)], Entry(graph, fn(n)), n) \in Nat
    BY <2>6, TableFact
  <2>8. To(n) \in Nat
    BY <2>4, <2>7 DEF To, Stationary
  <2> QED
    BY <2>2, <2>8, InfinityAssumption DEF Costs
<1> HIDE DEF fn, calls
<1>4. \A f, g \in Functions : \A d :
         d \in c[f][g] <=> \E n \in AllCalls : fn(n) = f /\ g \in CalleesOf(n) /\ d = Before(n)
  BY <1>2
<1>5. \A n \in AllCalls : Before(n) = To(n) + Instructions(n) /\ Before(n) \in Nat \ {0}
  BY <1>3 DEF Before
<1>6. Weights(Functions, c)
  <2>1. ASSUME NEW f \in Functions
        PROVE  c[f] \in [Functions -> SUBSET (Nat \ {0})]
    <3>1. \A g \in Functions : c[f][g] \in SUBSET (Nat \ {0})
      BY <1>4, <1>5
    <3>2. c[f] = [g \in Functions |-> c[f][g]]
      OBVIOUS
    <3> HIDE DEF c
    <3> QED
      BY <3>1, <3>2
  <2>2. c = [f \in Functions |-> c[f]]
    OBVIOUS
  <2> HIDE DEF c
  <2> QED
    BY <2>1, <2>2 DEF Weights
<1>7. V = CheapestWalks(Functions, c)
  BY DEF CheapestCalls, Before, To, calls
<1> HIDE DEF c, V
<1>8. /\ Typed(Functions, V)
      /\ \A u, v \in Functions : \A d \in c[u][v] : V[u][v] <= d
      /\ \A u, v, x \in Functions : \A d \in c[u][x] : V[u][v] <= d + V[x][v]
      /\ \A S \in SUBSET Functions, v \in Functions : \A D :
            /\ \A u \in S : D[u] \in Costs
            /\ \A u \in S : \A d \in c[u][v] : D[u] <= d
            /\ \A u \in S, x \in Functions : \A d \in c[u][x] : x \in S /\ D[u] <= d + D[x]
            => \A u \in S : D[u] <= V[u][v]
  BY <1>1, <1>6, <1>7, WalksFact
<1>9. \A f, g \in Functions : V[f][g] \in Nat /\ V[f][g] <= Infinity
  BY <1>8, InfinityAssumption DEF Typed, Costs
<1>10. ASSUME NEW n \in AllCalls, NEW h \in CalleesOf(n)
       PROVE  /\ h \in Functions /\ V[fn(n)][h] <= Before(n)
              /\ \A g \in Functions : V[fn(n)][g] <= Before(n) + V[h][g]
  <2>1. h \in Functions /\ fn(n) \in Functions
    BY <1>1 DEF fn
  <2>2. Before(n) \in c[fn(n)][h]
    BY <1>4, <2>1
  <2> QED
    BY <1>8, <2>1, <2>2
<1>11. ASSUME NEW S \in SUBSET Functions, NEW g \in Functions, NEW D,
              \A f \in S : D[f] \in Costs,
              \A n \in AllCalls : fn(n) \in S =>
                  \A h \in CalleesOf(n) :
                     h \in S /\ D[fn(n)] <= Before(n) + D[h] /\ (h = g => D[fn(n)] <= Before(n))
       PROVE  \A f \in S : D[f] <= V[f][g]
  <2>1. \A u \in S : \A d \in c[u][g] : D[u] <= d
    BY <1>4, <1>11
  <2>2. \A u \in S, x \in Functions : \A d \in c[u][x] : x \in S /\ D[u] <= d + D[x]
    BY <1>4, <1>11
  <2> QED
    BY <1>8, <1>11, <2>1, <2>2
<1> QED
  BY <1>1, <1>3, <1>5, <1>9, <1>10, <1>11 DEF fn, V

\* All that n calls is in E, at its function, no dearer than by way of n.
Settled(n, E) ==
    \A l \in DOMAIN graph.succ[n] :
        LET h == CalleeOf(n, l)
            f == graph.nodes[n].function IN
        AtMost(h, Before(n), E[f]) /\ Within(Before(n), E[h], E[f])

\* All that the callees before the one a frame looks at, all of Z, lead to is in c.
Gathered(e, E, c, Z) ==
    LET n == CallAt(e) IN
    e.succ # 0 =>
        /\ \A l \in DOMAIN graph.succ[n] : AtMost(CalleeOf(n, l), Instructions(n), c)
        /\ \A l \in 1 .. e.succ - 1 :
              CalleeOf(n, l) \in Z /\ Within(Instructions(n), E[CalleeOf(n, l)], c)

PricesOk ==
    /\ DOMAIN fromEntry = Functions /\ DOMAIN fromCalls = AllCalls
    /\ \A f \in Functions : Priced(f, fromEntry[f], 0)
    /\ \A n \in AllCalls : Priced(graph.nodes[n].function, fromCalls[n], To(n))

CallsSettled ==
    \A f \in Functions : f \notin Reached[f] =>
        \A k \in DOMAIN CallsOf(f) : Passed(f, k) =>
            /\ \A l \in DOMAIN graph.succ[CallsOf(f)[k]] : CalleeOf(CallsOf(f)[k], l) \in Finished
            /\ Settled(CallsOf(f)[k], fromEntry)

FramesGathered ==
    \A i \in 1 .. Len(stack) :
        InCall(stack[i]) /\ stack[i].func \notin Reached[stack[i].func] =>
            Gathered(stack[i], fromEntry, fromCalls[CallAt(stack[i])], Finished)

InterInv ==
    /\ phase \in {"inter", "done"} => PricesOk
    /\ phase = "inter" => CallsSettled /\ FramesGathered
    /\ phase = "done" =>
          \A f \in Functions : f \notin Reached[f] =>
              \A k \in DOMAIN CallsOf(f) : Settled(CallsOf(f)[k], fromEntry)

\* The results follow at the end.
LEMMA InterResult ==
    ASSUME GraphInv, IntraInv, InterInv
    PROVE  InterCheapest
<1> DEFINE fn(n) == graph.nodes[n].function
           S == {f \in Functions : Loopless(f)}
           X == [f \in Functions |-> DOMAIN fromEntry[f]]
<1>1. SUFFICES ASSUME phase = "done" PROVE InterCheapest
  BY DEF InterCheapest
<1>2. Shape /\ Linked
  BY <1>1, ShapeFact, LinkedFact DEF HasNodes, HasEdges
<1>3. intra \in Seq(Tables) /\ Len(intra) = Len(program)
  BY <1>1 DEF IntraInv
<1>4. /\ \A f \in Functions : Priced(f, fromEntry[f], 0)
      /\ \A f \in Functions : f \notin Reached[f] =>
            \A k \in DOMAIN CallsOf(f) : Settled(CallsOf(f)[k], fromEntry)
  BY <1>1 DEF InterInv, PricesOk
<1>5. /\ Reached \in [Functions -> SUBSET Functions]
      /\ \A f \in Functions : CallsTo[f] \subseteq Reached[f]
      /\ \A f \in Functions : \A g \in Reached[f] : Reached[g] \subseteq Reached[f]
      /\ \A Q \in SUBSET Functions : \A Y :
            /\ Closed(Q, CallsTo)
            /\ \A u \in Q : CallsTo[u] \subseteq Y[u] /\ \A x \in CallsTo[u] : Y[x] \subseteq Y[u]
            => \A u \in Q : Reached[u] \subseteq Y[u]
  BY <1>2, ReachedFact
<1>6. /\ \A f, g \in Functions : CheapestCalls[f][g] \in Nat /\ CheapestCalls[f][g] <= Infinity
      /\ \A Q \in SUBSET Functions, g \in Functions : \A D :
            /\ \A f \in Q : D[f] \in Costs
            /\ \A n \in AllCalls : fn(n) \in Q =>
                  \A h \in CalleesOf(n) :
                     /\ h \in Q /\ D[fn(n)] <= Before(n) + D[h]
                     /\ h = g => D[fn(n)] <= Before(n)
            => \A f \in Q : D[f] <= CheapestCalls[f][g]
  BY <1>2, <1>3, ChainFact
<1>7. \A f \in Functions : \A g \in DOMAIN fromEntry[f] :
         /\ g \in Reached[f] /\ g \in Functions /\ fromEntry[f][g] \in Costs /\ fromEntry[f][g] \in Nat
         /\ fromEntry[f][g] >= CheapestCalls[f][g]
  <2>1. SUFFICES ASSUME NEW f \in Functions, NEW g \in DOMAIN fromEntry[f]
                 PROVE  /\ g \in Reached[f] /\ g \in Functions /\ fromEntry[f][g] \in Costs
                        /\ fromEntry[f][g] \in Nat /\ fromEntry[f][g] >= CheapestCalls[f][g]
    OBVIOUS
  <2>2. /\ g \in Reached[f] /\ fromEntry[f][g] \in Costs
        /\ 0 + fromEntry[f][g] >= CheapestCalls[f][g]
    BY <1>4, <2>1 DEF Priced, CostTable
  <2>3. g \in Functions /\ fromEntry[f][g] \in Nat
    BY <1>5, <2>2 DEF Costs
  <2> QED
    BY <2>2, <2>3
<1>8. ASSUME NEW f \in S PROVE f \in Functions /\ f \notin Reached[f] /\ CallsTo[f] \subseteq S
  <2>1. f \in Functions /\ \A g \in {f} \cup Reached[f] : g \notin Reached[g]
    BY DEF Loopless
  <2>2. ASSUME NEW g \in CallsTo[f] PROVE g \in Functions /\ Loopless(g)
    <3>1. g \in Reached[f] /\ g \in Functions /\ Reached[g] \subseteq Reached[f]
      BY <1>5, <2>1, <2>2
    <3> QED
      BY <2>1, <3>1 DEF Loopless
  <2> QED
    BY <2>1, <2>2
<1>9. /\ \A n \in AllCalls : fn(n) \in Functions /\ CalleesOf(n) \subseteq CallsTo[fn(n)]
      /\ \A n \in AllCalls : \A g : g \in CalleesOf(n) <=> \E l \in DOMAIN graph.succ[n] : CalleeOf(n, l) = g
      /\ \A f \in Functions : \A g : g \in CallsTo[f] <=>
            \E k \in DOMAIN CallsOf(f) : g \in CalleesOf(CallsOf(f)[k])
      /\ CallsTo \in [Functions -> SUBSET Functions]
  BY <1>2, CalleesFact
<1>10. ASSUME NEW n \in AllCalls, fn(n) \in S, NEW h \in CalleesOf(n)
       PROVE  h \in S /\ AtMost(h, Before(n), fromEntry[fn(n)]) /\ Within(Before(n), fromEntry[h], fromEntry[fn(n)])
  <2>1. fn(n) \in Functions /\ fn(n) \notin Reached[fn(n)] /\ h \in S
    BY <1>8, <1>9, <1>10
  <2>2. PICK k \in DOMAIN CallsOf(fn(n)) : CallsOf(fn(n))[k] = n
    <3>1. n \in NodesIn(graph, fn(n)) /\ IsCall(graph, n)
      BY <1>2, <2>1 DEF Shape, AllCalls
    <3> QED
      BY <1>2, <2>1, <3>1 DEF Shape
  <2>3. Settled(n, fromEntry)
    BY <1>4, <2>1, <2>2
  <2>4. PICK l \in DOMAIN graph.succ[n] : CalleeOf(n, l) = h
    BY <1>9
  <2> QED
    BY <2>1, <2>3, <2>4 DEF Settled
<1> HIDE DEF fn, S
<1>11. S \in SUBSET Functions /\ Closed(S, CallsTo)
  BY <1>8 DEF S, Closed
<1>12. \A f \in S : Reached[f] \subseteq DOMAIN fromEntry[f]
  <2>1. ASSUME NEW f \in S, NEW h \in CallsTo[f]
        PROVE  h \in X[f] /\ X[h] \subseteq X[f]
    <3>1. f \in Functions /\ h \in Functions
      BY <1>8, <1>9
    <3>2. PICK k \in DOMAIN CallsOf(f) : h \in CalleesOf(CallsOf(f)[k])
      BY <1>9, <3>1
    <3>3. CallsOf(f)[k] \in AllCalls /\ fn(CallsOf(f)[k]) = f
      BY <1>2, <3>1 DEF Shape, fn
    <3>4. AtMost(h, Before(CallsOf(f)[k]), fromEntry[f]) /\ Within(Before(CallsOf(f)[k]), fromEntry[h], fromEntry[f])
      BY <1>10, <3>2, <3>3
    <3> QED
      BY <3>1, <3>4 DEF AtMost, Within
  <2> HIDE DEF X
  <2>2. \A f \in S : CallsTo[f] \subseteq X[f] /\ \A h \in CallsTo[f] : X[h] \subseteq X[f]
    BY <2>1
  <2>3. \A f \in S : Reached[f] \subseteq X[f]
    BY <1>5, <1>11, <2>2
  <2> QED
    BY <1>11, <2>3 DEF X
<1>13. ASSUME NEW f \in S, NEW g \in Reached[f]
       PROVE  fromEntry[f][g] = CheapestCalls[f][g]
  <2> DEFINE D == [u \in Functions |-> IF g \in DOMAIN fromEntry[u] THEN fromEntry[u][g] ELSE Infinity]
  <2>1. f \in Functions /\ g \in Functions /\ g \in DOMAIN fromEntry[f]
    BY <1>5, <1>8, <1>12
  <2>2. \A u \in Functions : D[u] = IF g \in DOMAIN fromEntry[u] THEN fromEntry[u][g] ELSE Infinity
    OBVIOUS
  <2> HIDE DEF D
  <2>3. \A u \in Functions : D[u] \in Costs /\ D[u] \in Nat /\ D[u] <= Infinity
    BY <1>7, <2>2, InfinityAssumption DEF Costs
  <2>4. ASSUME NEW n \in AllCalls, fn(n) \in S, NEW h \in CalleesOf(n)
        PROVE  h \in S /\ D[fn(n)] <= Before(n) + D[h] /\ (h = g => D[fn(n)] <= Before(n))
    <3>1. /\ h \in S /\ AtMost(h, Before(n), fromEntry[fn(n)])
          /\ Within(Before(n), fromEntry[h], fromEntry[fn(n)])
      BY <1>10, <2>4
    <3>2. h \in Functions /\ fn(n) \in Functions
      BY <1>11, <2>4, <3>1
    <3>3. h = g => D[fn(n)] <= Before(n)
      BY <2>2, <3>1, <3>2 DEF AtMost
    <3>4. D[fn(n)] <= Before(n) + D[h]
      <4>1. CASE g \in DOMAIN fromEntry[h]
        BY <2>2, <3>1, <3>2, <4>1 DEF Within
      <4>2. CASE g \notin DOMAIN fromEntry[h]
        <5>1. D[h] = Infinity /\ D[fn(n)] <= Infinity /\ D[fn(n)] \in Nat
          BY <2>2, <2>3, <3>2, <4>2
        <5>2. Before(n) \in Nat
          BY <1>2, <1>3, ChainFact
        <5> QED
          BY <5>1, <5>2, InfinityAssumption
      <4> QED
        BY <4>1, <4>2
    <3> QED
      BY <3>1, <3>3, <3>4
  <2>5. \A u \in S : D[u] \in Costs
    BY <1>11, <2>3
  <2>6. D[f] <= CheapestCalls[f][g]
    BY <1>6, <1>11, <2>1, <2>4, <2>5
  <2>7. D[f] = fromEntry[f][g]
    BY <2>1, <2>2
  <2>8. /\ fromEntry[f][g] \in Nat /\ fromEntry[f][g] >= CheapestCalls[f][g]
        /\ CheapestCalls[f][g] \in Nat
    BY <1>6, <1>7, <2>1
  <2> QED
    BY <2>6, <2>7, <2>8
<1>14. \A f \in Functions : Loopless(f) => f \in S
  BY DEF S
<1>15. \A f \in Functions : DOMAIN fromEntry[f] \subseteq Reached[f]
  BY <1>7
<1> QED
  BY <1>7, <1>12, <1>13, <1>14, <1>15 DEF InterCheapest

\* What the costs are to be does not change.
LEMMA CallsSame ==
    ASSUME UNCHANGED <<program, graph, intra>>
    PROVE  /\ Functions' = Functions /\ AllCalls' = AllCalls /\ Reached' = Reached
           /\ \A f : CallsOf(f)' = CallsOf(f)
           /\ \A n, k : CalleeOf(n, k)' = CalleeOf(n, k)
           /\ \A n : To(n)' = To(n)
           /\ \A f, t, c : Priced(f, t, c)' = Priced(f, t, c)
           /\ \A n, E : Settled(n, E)' = Settled(n, E)
           /\ \A e, E, c, Z : Gathered(e, E, c, Z)' = Gathered(e, E, c, Z)
           /\ \A e : InCall(e)' = InCall(e) /\ CallAt(e)' = CallAt(e)
<1>1. /\ Functions' = Functions /\ AllCalls' = AllCalls /\ Reached' = Reached
      /\ \A f : CallsOf(f)' = CallsOf(f)
      /\ \A n : CalleesOf(n)' = CalleesOf(n) /\ Instructions(n)' = Instructions(n)
      /\ \A n, k : CalleeOf(n, k)' = CalleeOf(n, k)
  BY GraphSame
<1>2. \A n : To(n)' = To(n)
  BY DEF To, Stationary, Entry
<1>3. CheapestCalls' = CheapestCalls
  BY DEF CheapestCalls, Functions, CallsOf, CalleesOf, Stationary, Entry, Instructions, NumInstructions
<1>4. \A f, t, c : Priced(f, t, c)' = Priced(f, t, c)
  BY <1>1, <1>3 DEF Priced
<1>5. \A n : Before(n)' = Before(n)
  BY <1>1, <1>2 DEF Before
<1>6. \A n, E : Settled(n, E)' = Settled(n, E)
  BY <1>1, <1>5 DEF Settled
<1>7. \A e : InCall(e)' = InCall(e) /\ CallAt(e)' = CallAt(e)
  BY FrameSame
<1>8. ASSUME NEW e, NEW E, NEW c, NEW Z PROVE Gathered(e, E, c, Z)' = Gathered(e, E, c, Z)
  <2>1. PICK n : n = CallAt(e)
    OBVIOUS
  <2>2. CallAt(e)' = n /\ Instructions(n)' = Instructions(n) /\ \A k : CalleeOf(n, k)' = CalleeOf(n, k)
    BY <1>1, <1>7, <2>1
  <2> QED
    BY <2>1, <2>2 DEF Gathered
<1> QED
  BY <1>1, <1>2, <1>4, <1>6, <1>7, <1>8

\* What a step may make of the costs.
LEMMA PricesAfter ==
    ASSUME UNCHANGED <<program, graph, intra>>, NEW E, NEW C, fromEntry' = E, fromCalls' = C,
           DOMAIN E = Functions, DOMAIN C = AllCalls,
           \A f \in Functions : Priced(f, E[f], 0),
           \A n \in AllCalls : Priced(graph.nodes[n].function, C[n], To(n))
    PROVE  PricesOk'
<1>1. /\ Functions' = Functions /\ AllCalls' = AllCalls /\ \A n : To(n)' = To(n)
      /\ \A f, t, c : Priced(f, t, c)' = Priced(f, t, c)
  BY CallsSame
<1>2. ASSUME NEW f \in Functions' PROVE Priced(f, fromEntry[f], 0)'
  <2>1. PICK t : t = E[f]
    OBVIOUS
  <2>2. Priced(f, t, 0)'
    BY <1>1, <2>1
  <2> QED
    BY <2>1, <2>2
<1>3. ASSUME NEW n \in AllCalls' PROVE Priced(graph.nodes[n].function, fromCalls[n], To(n))'
  <2>1. PICK t, g, c : t = C[n] /\ g = graph.nodes[n].function /\ c = To(n)
    OBVIOUS
  <2>2. Priced(g, t, c)'
    BY <1>1, <2>1
  <2>3. To(n)' = c
    BY <1>1, <2>1
  <2> QED
    BY <2>1, <2>2, <2>3
<1> QED
  BY <1>1, <1>2, <1>3 DEF PricesOk

\* What a step may make of the calls that are done with.
LEMMA SettledAfter ==
    ASSUME UNCHANGED <<program, graph, intra>>, NEW E, fromEntry' = E, NEW Z, Finished' = Z,
           \A f \in Functions : f \notin Reached[f] =>
              \A k \in DOMAIN CallsOf(f) : Passed(f, k)' =>
                  /\ \A l \in DOMAIN graph.succ[CallsOf(f)[k]] : CalleeOf(CallsOf(f)[k], l) \in Z
                  /\ Settled(CallsOf(f)[k], E)
    PROVE  CallsSettled'
<1>1. /\ Functions' = Functions /\ Reached' = Reached
      /\ \A f : CallsOf(f)' = CallsOf(f)
      /\ \A n, k : CalleeOf(n, k)' = CalleeOf(n, k)
      /\ \A n, F : Settled(n, F)' = Settled(n, F)
  BY CallsSame
<1>2. ASSUME NEW f \in Functions, f \notin Reached[f], NEW k \in DOMAIN CallsOf(f), Passed(f, k)'
      PROVE  /\ \A l \in DOMAIN graph'.succ[CallsOf(f)'[k]] : CalleeOf(CallsOf(f)[k], l)' \in Finished'
             /\ Settled(CallsOf(f)[k], fromEntry)'
  <2>1. PICK n : n = CallsOf(f)[k]
    OBVIOUS
  <2>2. (CallsOf(f)[k])' = n
    BY <1>1, <2>1
  <2>3. Settled(n, E)' /\ \A l \in DOMAIN graph.succ[n] : CalleeOf(n, l)' \in Z
    BY <1>1, <1>2, <2>1
  <2> QED
    BY <2>2, <2>3
<1> QED
  BY <1>1, <1>2 DEF CallsSettled

\* What a step may make of the calls that are looked at.
LEMMA GatheredAfter ==
    ASSUME UNCHANGED <<program, graph, intra>>, NEW E, fromEntry' = E, NEW Z, Finished' = Z,
           NEW C, fromCalls' = C, NEW s, stack' = s,
           \A i \in 1 .. Len(s) :
              InCall(s[i]) /\ s[i].func \notin Reached[s[i].func] => Gathered(s[i], E, C[CallAt(s[i])], Z)
    PROVE  FramesGathered'
<1>1. /\ Reached' = Reached
      /\ \A e, F, c, Y : Gathered(e, F, c, Y)' = Gathered(e, F, c, Y)
      /\ \A e : InCall(e)' = InCall(e) /\ CallAt(e)' = CallAt(e)
  BY CallsSame
<1>2. ASSUME NEW i \in 1 .. Len(s), NEW e, e = s[i], InCall(e)', e.func \notin Reached[e.func]
      PROVE  Gathered(e, E, C[CallAt(e)], Z)'
  <2>1. PICK c : c = C[CallAt(e)]
    OBVIOUS
  <2>2. Gathered(e, E, c, Z)
    BY <1>1, <1>2, <2>1
  <2>3. (C[CallAt(e)])' = c
    BY <1>1, <2>1
  <2>4. Gathered(e, E, c, Z)'
    BY <1>1, <2>2
  <2> QED
    BY <2>3, <2>4
<1> QED
  BY <1>1, <1>2 DEF FramesGathered

\* One cost after the other.
LEMMA WithinFact ==
    ASSUME NEW a \in Nat, NEW b \in Nat, NEW s, NEW m, CostTable(s), CostTable(m), Within(b, s, m)
    PROVE  /\ \A h : AtMost(h, a, s) => AtMost(h, b + a, m)
           /\ \A r : CostTable(r) /\ Within(a, r, s) => Within(b + a, r, m)
<1>1. /\ \A g \in DOMAIN s : s[g] \in Nat /\ g \in DOMAIN m /\ m[g] <= b + s[g]
      /\ \A g \in DOMAIN m : m[g] \in Nat
  BY DEF CostTable, Costs, Within
<1>2. ASSUME NEW h, AtMost(h, a, s) PROVE AtMost(h, b + a, m)
  <2>1. h \in DOMAIN s /\ s[h] <= a
    BY <1>2 DEF AtMost
  <2>2. h \in DOMAIN m /\ m[h] \in Nat /\ m[h] <= b + s[h] /\ s[h] \in Nat
    BY <1>1, <2>1
  <2> QED
    BY <2>1, <2>2 DEF AtMost
<1>3. ASSUME NEW r, CostTable(r), Within(a, r, s), NEW g \in DOMAIN r
      PROVE  g \in DOMAIN m /\ m[g] <= (b + a) + r[g]
  <2>1. g \in DOMAIN s /\ s[g] <= a + r[g] /\ r[g] \in Nat
    BY <1>3 DEF Within, CostTable, Costs
  <2>2. g \in DOMAIN m /\ m[g] \in Nat /\ m[g] <= b + s[g] /\ s[g] \in Nat
    BY <1>1, <2>1
  <2> QED
    BY <2>1, <2>2
<1> QED
  BY <1>2, <1>3 DEF Within

\* Another call is that of another function.
LEMMA OtherCalls ==
    ASSUME Shape, Linked, StackOk, AtCall, stack # <<>>
    PROVE  /\ graph.nodes[Call].function = Top.func
           /\ \A i \in 1 .. Len(stack) - 1 :
                 CallAt(stack[i]) \in AllCalls /\ CallAt(stack[i]) # Call
<1>1. /\ Len(stack) \in Nat \ {0} /\ Top = stack[Len(stack)] /\ Top.func \in Functions
      /\ Call \in NodesIn(graph, Top.func)
  BY TopFact
<1>2. graph.nodes[Call].function = Top.func
  BY <1>1 DEF Shape
<1>3. ASSUME NEW i \in 1 .. Len(stack) - 1
      PROVE  CallAt(stack[i]) \in AllCalls /\ CallAt(stack[i]) # Call
  <2>1. PICK e : e = stack[i]
    OBVIOUS
  <2>2. i \in 1 .. Len(stack) /\ Len(stack) \in 1 .. Len(stack) /\ i # Len(stack)
    BY <1>1
  <2>3. e \in Frame
    BY <2>1, <2>2, ElementOfSeq DEF StackOk
  <2>4. AtSucc(e) /\ e.func # Top.func
    BY <1>1, <2>1, <2>2 DEF StackOk
  <2>5. e.func \in Functions /\ e.call \in DOMAIN CallsOf(e.func)
    BY <2>3, <2>4 DEF AtSucc, InCall, Frame, Shape
  <2>6. CallAt(e) \in NodesIn(graph, e.func) /\ CallAt(e) \in AllCalls
    BY <2>5 DEF CallAt, Shape
  <2>7. graph.nodes[CallAt(e)].function = e.func
    BY <2>5, <2>6 DEF Shape
  <2> QED
    BY <1>2, <2>1, <2>4, <2>6, <2>7
<1> QED
  BY <1>2, <1>3

\* Functions are entered and left.
LEMMA InterMove ==
    ASSUME InterInv, phase = "inter",
           UNCHANGED <<program, graph, phase, intra, fromEntry, fromCalls>>,
           Finished \subseteq Finished', Shape,
           \A f \in Functions : \A k \in DOMAIN CallsOf(f) : Passed(f, k)' <=> Passed(f, k),
           \A i \in 1 .. Len(stack') :
              (i \in 1 .. Len(stack) /\ stack'[i] = stack[i]) \/ stack'[i].succ = 0
    PROVE  InterInv'
<1>1. PricesOk /\ CallsSettled /\ FramesGathered
  BY DEF InterInv
<1>2. PICK E, C, Z, Y, s : E = fromEntry /\ C = fromCalls /\ Z = Finished' /\ Y = Finished /\ s = stack'
  OBVIOUS
<1>3. E = fromEntry' /\ C = fromCalls' /\ Y \subseteq Z
  BY <1>2
<1>4. PricesOk'
  BY <1>1, <1>2, <1>3, PricesAfter DEF PricesOk
<1>5. CallsSettled'
  <2>1. \A f \in Functions : f \notin Reached[f] =>
              \A k \in DOMAIN CallsOf(f) : Passed(f, k)' =>
                  /\ \A l \in DOMAIN graph.succ[CallsOf(f)[k]] : CalleeOf(CallsOf(f)[k], l) \in Z
                  /\ Settled(CallsOf(f)[k], E)
    BY <1>1, <1>2, <1>3 DEF CallsSettled
  <2> QED
    BY <1>2, <1>3, <2>1, SettledAfter
<1>6. FramesGathered'
  <2>1. ASSUME NEW i \in 1 .. Len(s), InCall(s[i]), s[i].func \notin Reached[s[i].func]
        PROVE  Gathered(s[i], E, C[CallAt(s[i])], Z)
    <3>1. CASE s[i].succ = 0
      BY <3>1 DEF Gathered
    <3>2. CASE i \in 1 .. Len(stack) /\ s[i] = stack[i]
      <4>1. Gathered(s[i], E, C[CallAt(s[i])], Y)
        BY <1>1, <1>2, <2>1, <3>2 DEF FramesGathered
      <4> QED
        BY <1>3, <4>1 DEF Gathered
    <3> QED
      BY <1>2, <3>1, <3>2
  <2> QED
    BY <1>2, <1>3, <2>1, GatheredAfter
<1> QED
  BY <1>4, <1>5, <1>6 DEF InterInv

\* One more callee of the call on top, or its direct callees: only its costs c.
LEMMA CalleeStep ==
    ASSUME InterInv, phase = "inter", Shape, Linked, StackOk, AtCall, stack # <<>>,
           UNCHANGED <<program, graph, phase, resolved, intra, fromEntry>>,
           Top.succ = 0 \/ AtCallee,
           stack' = Append(Front(stack), NextCallee),
           NEW c, fromCalls' = [fromCalls EXCEPT ![Call] = c],
           Priced(Top.func, c, To(Call)),
           Top.func \notin Reached[Top.func] => Gathered(NextCallee, fromEntry, c, Finished)
    PROVE  InterInv'
<1>1. PricesOk /\ CallsSettled /\ FramesGathered
  BY DEF InterInv
<1>2. /\ Len(stack) \in Nat \ {0} /\ Top = stack[Len(stack)] /\ Call \in AllCalls
      /\ Call = CallAt(Top) /\ Top.call \in Nat \ {0}
  BY TopFact
<1>3. /\ NextCallee \in Frame /\ Top.succ <= Len(Callees)
      /\ NextCallee.func = Top.func /\ NextCallee.call = Top.call /\ NextCallee.succ = Top.succ + 1
  BY NextFrames
<1>4. PICK E, C, D, Z, s, e, n : /\ E = fromEntry /\ C = fromCalls /\ D = fromCalls' /\ Z = Finished
                                 /\ s = stack' /\ e = NextCallee /\ n = Call
  OBVIOUS
<1>5. /\ StackOk' /\ Finished' = Finished /\ Len(stack') = Len(stack) /\ stack'[Len(stack)] = e
      /\ \A i \in 1 .. Len(stack) - 1 : stack'[i] = stack[i]
      /\ \A f, k : k \in Nat => (Passed(f, k)' <=>
            Passed(f, k) \/ (f = Top.func /\ k = Top.call /\ e.call = Top.call + 1))
  <2>1. e \in Frame /\ e.func = Top.func /\ stack' = Append(Front(stack), e)
    BY <1>3, <1>4
  <2>2. \/ e.call = Top.call /\ e.succ = Top.succ + 1 /\ Top.succ <= Len(Callees)
        \/ e.call = Top.call + 1 /\ e.succ = FirstSucc
    BY <1>3, <1>4
  <2> QED
    BY <2>1, <2>2, ReplaceFact
<1>6. \A f \in Functions : \A k \in DOMAIN CallsOf(f) : Passed(f, k)' <=> Passed(f, k)
  <2>1. \A f \in Functions : DOMAIN CallsOf(f) \subseteq Nat
    BY DEF Shape
  <2>2. e.call # Top.call + 1
    BY <1>2, <1>3, <1>4
  <2> QED
    BY <1>5, <2>1, <2>2
<1>7. /\ DOMAIN D = AllCalls /\ D[n] = c
      /\ \A m \in AllCalls : m # n => D[m] = C[m]
  BY <1>1, <1>2, <1>4 DEF PricesOk
<1>8. graph.nodes[n].function = Top.func
  BY <1>4, OtherCalls
<1>9. PricesOk'
  <2>1. \A m \in AllCalls : Priced(graph.nodes[m].function, D[m], To(m))
    <3>1. \A m \in AllCalls : m # n => Priced(graph.nodes[m].function, D[m], To(m))
      BY <1>1, <1>4, <1>7 DEF PricesOk
    <3>2. Priced(graph.nodes[n].function, D[n], To(n))
      BY <1>4, <1>7, <1>8
    <3> QED
      BY <3>1, <3>2
  <2>2. DOMAIN E = Functions /\ \A f \in Functions : Priced(f, E[f], 0)
    BY <1>1, <1>4 DEF PricesOk
  <2> QED
    BY <1>4, <1>7, <2>1, <2>2, PricesAfter
<1>10. CallsSettled'
  <2>1. \A f \in Functions : f \notin Reached[f] =>
              \A k \in DOMAIN CallsOf(f) : Passed(f, k)' =>
                  /\ \A l \in DOMAIN graph.succ[CallsOf(f)[k]] : CalleeOf(CallsOf(f)[k], l) \in Z
                  /\ Settled(CallsOf(f)[k], E)
    BY <1>1, <1>4, <1>6 DEF CallsSettled
  <2>2. fromEntry' = E /\ Finished' = Z
    BY <1>4, <1>5
  <2> QED
    BY <2>1, <2>2, SettledAfter
<1>11. FramesGathered'
  <2>1. ASSUME NEW i \in 1 .. Len(s), InCall(s[i]), s[i].func \notin Reached[s[i].func]
        PROVE  Gathered(s[i], E, D[CallAt(s[i])], Z)
    <3>1. CASE i = Len(stack)
      <4>1. s[i] = e
        BY <1>4, <1>5, <3>1
      <4>2. Top.func \notin Reached[Top.func]
        BY <1>3, <1>4, <2>1, <4>1
      <4>3. CallAt(e) = n
        BY <1>2, <1>3, <1>4 DEF CallAt
      <4> QED
        BY <1>4, <1>7, <4>1, <4>2, <4>3
    <3>2. CASE i # Len(stack)
      <4>1. i \in 1 .. Len(stack) - 1 /\ i \in 1 .. Len(stack)
        BY <1>2, <1>4, <1>5, <3>2
      <4>2. s[i] = stack[i]
        BY <1>4, <1>5, <4>1
      <4>3. CallAt(s[i]) \in AllCalls /\ CallAt(s[i]) # n
        BY <1>4, <4>1, <4>2, OtherCalls
      <4>4. Gathered(s[i], E, C[CallAt(s[i])], Z)
        BY <1>1, <1>4, <2>1, <4>1, <4>2 DEF FramesGathered
      <4> QED
        BY <1>7, <4>3, <4>4
    <3> QED
      BY <3>1, <3>2
  <2>2. fromEntry' = E /\ Finished' = Z /\ fromCalls' = D /\ stack' = s
    BY <1>4, <1>5
  <2> QED
    BY <2>1, <2>2, GatheredAfter
<1> QED
  BY <1>9, <1>10, <1>11 DEF InterInv

\* The direct callees are entered.
LEMMA InterDirectStep ==
    ASSUME InterInv, IntraInv, Shape, Linked, StackOk, InterDirect
    PROVE  InterInv'
<1>1. /\ phase = "inter" /\ AtCall /\ stack # <<>> /\ Top.succ = 0
      /\ UNCHANGED <<program, graph, phase, resolved, intra, fromEntry>>
      /\ stack' = Append(Front(stack), NextCallee)
      /\ fromCalls' = [fromCalls EXCEPT ![Call] =
            [f \in {graph.nodes[n].function : n \in Range(Callees)} |-> Instructions(Call)]]
  BY DEF InterDirect, AtCall, ReplaceTop, intraVars
<1>2. PICK n, c : n = Call /\ c = [f \in {graph.nodes[m].function : m \in Range(Callees)} |-> Instructions(Call)]
  OBVIOUS
<1>3. fromCalls' = [fromCalls EXCEPT ![Call] = c]
  BY <1>1, <1>2
<1>4. n \in AllCalls /\ n = CallAt(Top) /\ Callees = graph.succ[n] /\ graph.nodes[n].function = Top.func
      /\ Top.func \in Functions
  BY <1>1, <1>2, TopFact, OtherCalls
<1>5. DOMAIN c = CalleesOf(n) /\ \A g \in CalleesOf(n) : c[g] = Instructions(n)
  BY <1>2, <1>4 DEF CalleesOf
<1>6. /\ To(n) \in Nat /\ Instructions(n) \in Nat /\ Instructions(n) \in Costs
      /\ Before(n) = To(n) + Instructions(n)
      /\ \A h \in CalleesOf(n) : CheapestCalls[Top.func][h] <= Before(n)
      /\ \A f, g \in Functions : CheapestCalls[f][g] \in Nat
  <2>1. intra \in Seq(Tables) /\ Len(intra) = Len(program)
    BY <1>1 DEF IntraInv
  <2> QED
    BY <1>4, <2>1, ChainFact
<1>7. /\ CalleesOf(n) \subseteq Reached[Top.func] /\ CalleesOf(n) \subseteq Functions
      /\ \A l \in DOMAIN graph.succ[n] : CalleeOf(n, l) \in CalleesOf(n)
  <2>1. /\ CalleesOf(n) \subseteq CallsTo[Top.func] /\ CallsTo \in [Functions -> SUBSET Functions]
        /\ \A l \in DOMAIN graph.succ[n] : CalleeOf(n, l) \in CalleesOf(n)
    BY <1>4, CalleesFact
  <2>2. CallsTo[Top.func] \subseteq Reached[Top.func]
    BY <1>4, ReachedFact
  <2> QED
    BY <1>4, <2>1, <2>2
<1>8. Priced(Top.func, c, To(n))
  <2>1. CostTable(c)
    BY <1>5, <1>6 DEF CostTable
  <2>2. \A g \in DOMAIN c : To(n) + c[g] >= CheapestCalls[Top.func][g]
    BY <1>4, <1>5, <1>6, <1>7
  <2> QED
    BY <1>5, <1>7, <2>1, <2>2 DEF Priced
<1>9. Gathered(NextCallee, fromEntry, c, Finished)
  <2>1. NextCallee.succ = 1 /\ CallAt(NextCallee) = n
    <3>1. NextCallee.func = Top.func /\ NextCallee.call = Top.call /\ NextCallee.succ = Top.succ + 1
      BY <1>1, NextFrames
    <3> QED
      BY <1>1, <1>4, <3>1 DEF CallAt
  <2>2. \A l \in DOMAIN graph.succ[n] : AtMost(CalleeOf(n, l), Instructions(n), c)
    BY <1>5, <1>6, <1>7 DEF AtMost
  <2>3. \A l \in 1 .. NextCallee.succ - 1 : FALSE
    BY <2>1
  <2> QED
    BY <2>1, <2>2, <2>3 DEF Gathered
<1> QED
  BY <1>1, <1>2, <1>3, <1>8, <1>9, CalleeStep

\* What a callee leads to is merged in.
LEMMA InterCalleeStep ==
    ASSUME InterInv, IntraInv, Shape, Linked, StackOk, InterCallee
    PROVE  InterInv'
<1>1. /\ phase = "inter" /\ AtCall /\ AtCallee /\ stack # <<>> /\ Callee \in resolved
      /\ UNCHANGED <<program, graph, phase, resolved, intra, fromEntry>>
      /\ stack' = Append(Front(stack), NextCallee)
      /\ fromCalls' = [fromCalls EXCEPT ![Call] =
            Merge(@, Farther(Instructions(Call), fromEntry[Callee]))]
  BY DEF InterCallee, AtCallee, AtCall, ReplaceTop, intraVars
<1>2. PricesOk /\ FramesGathered
  BY <1>1 DEF InterInv
<1>3. PICK n, h, s, t, c, i : /\ n = Call /\ h = Callee /\ i = Instructions(n)
                              /\ s = fromCalls[n] /\ t = Farther(i, fromEntry[h]) /\ c = Merge(s, t)
  OBVIOUS
<1>4. /\ n \in AllCalls /\ n = CallAt(Top) /\ graph.nodes[n].function = Top.func
      /\ Top.func \in Functions /\ h \in Functions /\ h \in CalleesOf(n) /\ h \in CallsTo[Top.func]
      /\ h = CalleeOf(n, Top.succ) /\ Top.succ \in DOMAIN graph.succ[n] /\ Top.succ \in Nat
      /\ Len(stack) \in Nat \ {0} /\ Top = stack[Len(stack)] /\ InCall(Top)
  BY <1>1, <1>3, TopFact, OtherCalls DEF AtCallee
<1>5. fromCalls' = [fromCalls EXCEPT ![Call] = c]
  BY <1>1, <1>2, <1>3, <1>4 DEF PricesOk
<1>6. /\ To(n) \in Nat /\ i \in Nat /\ i \in Costs /\ Before(n) = To(n) + i
      /\ \A g \in Functions : CheapestCalls[Top.func][g] <= Before(n) + CheapestCalls[h][g]
      /\ \A f, g \in Functions : CheapestCalls[f][g] \in Nat /\ CheapestCalls[f][g] <= Infinity
  <2>1. intra \in Seq(Tables) /\ Len(intra) = Len(program)
    BY <1>1 DEF IntraInv
  <2> QED
    BY <1>3, <1>4, <2>1, ChainFact
<1>7. Priced(Top.func, s, To(n)) /\ Priced(h, fromEntry[h], 0)
  BY <1>2, <1>3, <1>4 DEF PricesOk
<1>8. CostTable(s) /\ CostTable(fromEntry[h])
  BY <1>7 DEF Priced
<1>9. /\ CostTable(t) /\ DOMAIN t = DOMAIN fromEntry[h] /\ Within(i, fromEntry[h], t)
      /\ \A g \in DOMAIN t : t[g] = IF i + fromEntry[h][g] <= Infinity
                                    THEN i + fromEntry[h][g] ELSE Infinity
  BY <1>3, <1>6, <1>8, FartherFact
<1>10. /\ Reached[h] \subseteq Reached[Top.func] /\ Reached[h] \subseteq Functions
  BY <1>4, ReachedFact
<1>11. Priced(Top.func, t, To(n))
  <2>1. DOMAIN t \subseteq Reached[Top.func] /\ DOMAIN t \subseteq Functions
    BY <1>7, <1>9, <1>10 DEF Priced
  <2>2. ASSUME NEW g \in DOMAIN t PROVE To(n) + t[g] >= CheapestCalls[Top.func][g]
    <3>1. 0 + fromEntry[h][g] >= CheapestCalls[h][g] /\ fromEntry[h][g] \in Nat
      BY <1>7, <1>9, <2>2 DEF Priced, CostTable, Costs
    <3>2. /\ CheapestCalls[Top.func][g] <= To(n) + i + CheapestCalls[h][g]
          /\ CheapestCalls[h][g] \in Nat /\ CheapestCalls[Top.func][g] \in Nat
          /\ CheapestCalls[Top.func][g] <= Infinity
      BY <1>4, <1>6, <2>1
    <3>3. t[g] = IF i + fromEntry[h][g] <= Infinity THEN i + fromEntry[h][g] ELSE Infinity
      BY <1>9
    <3> QED
      BY <1>6, <3>1, <3>2, <3>3, InfinityAssumption
  <2> QED
    BY <1>9, <2>1, <2>2 DEF Priced
<1>12. /\ Priced(Top.func, c, To(n))
       /\ \A g : \A d \in Nat : AtMost(g, d, s) => AtMost(g, d, c)
       /\ \A d \in Nat : \A r : CostTable(r) /\ (Within(d, r, s) \/ Within(d, r, t)) => Within(d, r, c)
  BY <1>3, <1>7, <1>8, <1>9, <1>11, MergeFact
<1>13. ASSUME Top.func \notin Reached[Top.func]
       PROVE  Gathered(NextCallee, fromEntry, c, Finished)
  <2>1. h \in Finished
    BY <1>1, <1>3, <1>13, MetAgain
  <2>2. Gathered(Top, fromEntry, s, Finished)
    BY <1>2, <1>3, <1>4, <1>13 DEF FramesGathered
  <2>3. NextCallee.succ = Top.succ + 1 /\ CallAt(NextCallee) = n
    <3>1. NextCallee.func = Top.func /\ NextCallee.call = Top.call /\ NextCallee.succ = Top.succ + 1
      BY <1>1, NextFrames
    <3> QED
      BY <1>4, <3>1 DEF CallAt
  <2>4. DOMAIN graph.succ[n] = 1 .. Len(graph.succ[n]) /\ Len(graph.succ[n]) \in Nat
    BY <1>4 DEF Linked, AllCalls
  <2>5. /\ \A l \in DOMAIN graph.succ[n] : AtMost(CalleeOf(n, l), i, s)
        /\ \A l \in 1 .. Top.succ - 1 :
              CalleeOf(n, l) \in Finished /\ Within(i, fromEntry[CalleeOf(n, l)], s)
    BY <1>3, <1>4, <2>2, <2>4 DEF Gathered
  <2>6. \A l \in DOMAIN graph.succ[n] : AtMost(CalleeOf(n, l), i, c)
    BY <1>6, <1>12, <2>5
  <2>7. ASSUME NEW l \in 1 .. NextCallee.succ - 1
        PROVE  CalleeOf(n, l) \in Finished /\ Within(i, fromEntry[CalleeOf(n, l)], c)
    <3>1. l = Top.succ \/ l \in 1 .. Top.succ - 1
      BY <1>4, <2>3
    <3>2. l \in DOMAIN graph.succ[n]
      BY <1>4, <2>4, <3>1
    <3>3. CalleeOf(n, l) \in Functions
      BY <1>4, <3>2, CalleesFact
    <3>4. CostTable(fromEntry[CalleeOf(n, l)])
      BY <1>2, <3>3 DEF PricesOk, Priced
    <3>5. CASE l = Top.succ
      BY <1>4, <1>6, <1>8, <1>9, <1>12, <2>1, <3>5
    <3>6. CASE l \in 1 .. Top.succ - 1
      BY <1>6, <1>12, <2>5, <3>4, <3>6
    <3> QED
      BY <3>1, <3>5, <3>6
  <2> QED
    BY <1>3, <2>3, <2>6, <2>7 DEF Gathered
<1> QED
  BY <1>1, <1>3, <1>5, <1>12, <1>13, CalleeStep

\* A call that is done with: what it leads to is merged into its function.
LEMMA InterCallStep ==
    ASSUME InterInv, IntraInv, Shape, Linked, StackOk, InterCall
    PROVE  InterInv'
<1>1. /\ phase = "inter" /\ AtCall /\ stack # <<>> /\ Top.succ > Len(Callees)
      /\ UNCHANGED <<program, graph, phase, resolved, intra, fromCalls>>
      /\ stack' = Append(Front(stack), NextCall)
      /\ fromEntry' = [fromEntry EXCEPT ![Top.func] =
            Merge(@, Farther(Stationary(Entry(graph, Top.func), Call), fromCalls[Call]))]
  BY DEF InterCall, AtCall, ReplaceTop, intraVars
<1>2. PricesOk /\ CallsSettled /\ FramesGathered
  BY <1>1 DEF InterInv
<1>3. PICK n, f, i, a, s, r, t, m, e :
         /\ n = Call /\ f = Top.func /\ i = Instructions(n) /\ a = To(n)
         /\ s = fromCalls[n] /\ r = fromEntry[f] /\ t = Farther(a, s) /\ m = Merge(r, t)
         /\ e = NextCall
  OBVIOUS
<1>4. /\ n \in AllCalls /\ n = CallAt(Top) /\ graph.nodes[n].function = f /\ f \in Functions
      /\ InCall(Top) /\ Top.call \in DOMAIN CallsOf(f) /\ CallsOf(f)[Top.call] = n
      /\ f \notin Finished /\ Callees = graph.succ[n]
      /\ Top.succ \in Nat /\ Top.succ <= Len(Callees) + 1 /\ Top.call \in Nat
      /\ Len(stack) \in Nat \ {0} /\ Top = stack[Len(stack)]
  BY <1>1, <1>3, TopFact, OtherCalls DEF CallAt
<1>5. DOMAIN graph.succ[n] = 1 .. Top.succ - 1
  <2>1. Len(graph.succ[n]) \in Nat /\ DOMAIN graph.succ[n] = 1 .. Len(graph.succ[n])
    BY <1>4 DEF Linked, AllCalls
  <2> QED
    BY <1>1, <1>4, <2>1
<1>6. /\ a \in Nat /\ i \in Nat /\ Before(n) = a + i
  <2>1. intra \in Seq(Tables) /\ Len(intra) = Len(program)
    BY <1>1 DEF IntraInv
  <2> QED
    BY <1>3, <1>4, <2>1, ChainFact
<1>7. Priced(f, s, a) /\ Priced(f, r, 0)
  BY <1>2, <1>3, <1>4 DEF PricesOk
<1>8. CostTable(s) /\ CostTable(r)
  BY <1>7 DEF Priced
<1>9. /\ CostTable(t) /\ DOMAIN t = DOMAIN s /\ Within(a, s, t)
      /\ \A g \in DOMAIN s : t[g] = IF a + s[g] <= Infinity THEN a + s[g] ELSE Infinity
  BY <1>3, <1>6, <1>8, FartherFact
<1>10. Priced(f, t, 0)
  <2>1. DOMAIN t \subseteq Reached[f] /\ DOMAIN t \subseteq Functions
    BY <1>4, <1>7, <1>9, ReachedFact DEF Priced
  <2>2. ASSUME NEW g \in DOMAIN t PROVE 0 + t[g] >= CheapestCalls[f][g]
    <3>1. /\ a + s[g] >= CheapestCalls[f][g] /\ s[g] \in Nat
          /\ t[g] = IF a + s[g] <= Infinity THEN a + s[g] ELSE Infinity
      BY <1>7, <1>9 DEF Priced, CostTable, Costs
    <3>2. CheapestCalls[f][g] \in Nat /\ CheapestCalls[f][g] <= Infinity
      <4>1. intra \in Seq(Tables) /\ Len(intra) = Len(program)
        BY <1>1 DEF IntraInv
      <4> QED
        BY <1>4, <2>1, <4>1, ChainFact
    <3> QED
      BY <1>6, <3>1, <3>2, InfinityAssumption
  <2> QED
    BY <1>9, <2>1, <2>2 DEF Priced
<1>11. /\ CostTable(m) /\ Priced(f, m, 0)
       /\ \A h : \A c \in Nat : AtMost(h, c, r) => AtMost(h, c, m)
       /\ \A c \in Nat : \A q : CostTable(q) /\ Within(c, q, r) => Within(c, q, m)
       /\ Within(a, s, m)
  BY <1>3, <1>6, <1>7, <1>8, <1>9, <1>10, MergeFact
<1>12. PICK E, D, C, Z, st : E = fromEntry /\ D = fromEntry' /\ C = fromCalls /\ Z = Finished /\ st = stack'
  OBVIOUS
<1>13. /\ DOMAIN D = Functions /\ D[f] = m /\ E[f] = r
       /\ \A g \in Functions : g # f => D[g] = E[g]
       /\ \A g \in Z : g \in Functions /\ g # f /\ D[g] = E[g]
  <2>1. DOMAIN E = Functions /\ D = [E EXCEPT ![f] = m]
    BY <1>1, <1>2, <1>3, <1>4, <1>12 DEF PricesOk, To
  <2>2. Z \subseteq Functions /\ f \notin Z
    BY <1>4, <1>12 DEF StackOk, Finished
  <2> QED
    BY <1>3, <1>4, <1>12, <2>1, <2>2
<1>14. /\ e \in Frame /\ e.func = f /\ e.call = Top.call + 1 /\ e.succ = 0
       /\ FirstSucc = 0
  BY <1>1, <1>3, NextFrames DEF FirstSucc
<1>15. /\ StackOk' /\ Finished' = Z /\ Len(st) = Len(stack) /\ st[Len(stack)] = e
       /\ \A j \in 1 .. Len(stack) - 1 : st[j] = stack[j]
       /\ \A g, k : k \in Nat => (Passed(g, k)' <=> Passed(g, k) \/ (g = f /\ k = Top.call))
  <2>1. stack' = Append(Front(stack), e)
    BY <1>1, <1>3
  <2>2. e.func = Top.func /\ e.succ = FirstSucc
    BY <1>3, <1>14
  <2>3. /\ StackOk' /\ Finished' = Finished
        /\ \A g, k : k \in Nat => (Passed(g, k)' <=>
              Passed(g, k) \/ (g = Top.func /\ k = Top.call /\ e.call = Top.call + 1))
        /\ Len(stack') = Len(stack)
        /\ \A j \in 1 .. Len(stack) - 1 : stack'[j] = stack[j]
        /\ stack'[Len(stack)] = e
    BY <1>1, <1>14, <2>1, <2>2, ReplaceFact
  <2> QED
    BY <1>3, <1>12, <1>14, <2>3
<1>16. \A g \in Functions : CostTable(E[g]) /\ Priced(g, E[g], 0)
  BY <1>2, <1>12 DEF PricesOk, Priced
<1>17. PricesOk'
  <2>1. \A g \in Functions : Priced(g, D[g], 0)
    BY <1>11, <1>13, <1>16
  <2>2. DOMAIN C = AllCalls /\ \A c \in AllCalls : Priced(graph.nodes[c].function, C[c], To(c))
    BY <1>2, <1>12 DEF PricesOk
  <2>3. fromCalls' = C
    BY <1>1, <1>12
  <2> QED
    BY <1>1, <1>12, <1>13, <2>1, <2>2, <2>3, PricesAfter
<1>18. ASSUME f \notin Reached[f]
       PROVE  (\A l \in DOMAIN graph.succ[n] : CalleeOf(n, l) \in Z) /\ Settled(n, D)
  <2>1. Gathered(Top, E, s, Z)
    <3>1. Len(stack) \in 1 .. Len(stack)
      BY <1>4
    <3> QED
      BY <1>2, <1>3, <1>4, <1>12, <1>18, <3>1 DEF FramesGathered
  <2>2. Top.succ # 0
    BY <1>1, <1>4, <1>5 DEF Linked, AllCalls
  <2>3. ASSUME NEW l \in DOMAIN graph.succ[n]
        PROVE  /\ CalleeOf(n, l) \in Z
               /\ AtMost(CalleeOf(n, l), Before(n), m) /\ Within(Before(n), D[CalleeOf(n, l)], m)
    <3>1. PICK h : h = CalleeOf(n, l)
      OBVIOUS
    <3>2. h \in Z /\ AtMost(h, i, s) /\ Within(i, E[h], s)
      BY <1>3, <1>4, <1>5, <2>1, <2>2, <3>1 DEF Gathered
    <3>3. D[h] = E[h] /\ CostTable(E[h])
      BY <1>13, <1>16, <3>2
    <3>4. AtMost(h, a + i, m) /\ Within(a + i, E[h], m)
      BY <1>6, <1>8, <1>11, <3>2, <3>3, WithinFact
    <3> QED
      BY <1>6, <3>1, <3>2, <3>3, <3>4
  <2> QED
    BY <1>4, <1>13, <2>3 DEF Settled
<1>19. ASSUME NEW g \in Functions, g \notin Reached[g], NEW k \in DOMAIN CallsOf(g), Passed(g, k)'
       PROVE  /\ \A l \in DOMAIN graph.succ[CallsOf(g)[k]] : CalleeOf(CallsOf(g)[k], l) \in Z
              /\ Settled(CallsOf(g)[k], D)
  <2>1. PICK c : c = CallsOf(g)[k]
    OBVIOUS
  <2>2. CASE g = f /\ k = Top.call
    BY <1>4, <1>18, <1>19, <2>2
  <2>3. CASE ~(g = f /\ k = Top.call)
    <3>1. Passed(g, k)
      <4>1. DOMAIN CallsOf(g) \subseteq Nat
        BY DEF Shape
      <4> QED
        BY <1>15, <1>19, <2>3, <4>1
    <3>2. (\A l \in DOMAIN graph.succ[c] : CalleeOf(c, l) \in Z) /\ Settled(c, E)
      BY <1>2, <1>12, <1>19, <2>1, <3>1 DEF CallsSettled
    <3>3. c \in AllCalls /\ graph.nodes[c].function = g
      BY <2>1 DEF Shape
    <3>4. Before(c) \in Nat
      <4>1. intra \in Seq(Tables) /\ Len(intra) = Len(program)
        BY <1>1 DEF IntraInv
      <4>2. To(c) \in Nat /\ Instructions(c) \in Nat /\ Before(c) = To(c) + Instructions(c)
        BY <3>3, <4>1, ChainFact
      <4> QED
        BY <4>2
    <3>5. ASSUME NEW l \in DOMAIN graph.succ[c]
          PROVE  AtMost(CalleeOf(c, l), Before(c), D[g]) /\ Within(Before(c), D[CalleeOf(c, l)], D[g])
      <4>1. PICK h : h = CalleeOf(c, l)
        OBVIOUS
      <4>2. h \in Z /\ AtMost(h, Before(c), E[g]) /\ Within(Before(c), E[h], E[g])
        BY <3>2, <3>3, <4>1 DEF Settled
      <4>3. D[h] = E[h] /\ CostTable(E[h])
        BY <1>13, <1>16, <4>2
      <4>4. CASE g = f
        BY <1>11, <1>13, <3>4, <4>1, <4>2, <4>3, <4>4
      <4>5. CASE g # f
        BY <1>13, <4>1, <4>2, <4>3, <4>5
      <4> QED
        BY <4>4, <4>5
    <3> QED
      BY <2>1, <3>2, <3>3, <3>5 DEF Settled
  <2> QED
    BY <2>2, <2>3
<1>20. ASSUME NEW j \in 1 .. Len(st), InCall(st[j]), st[j].func \notin Reached[st[j].func]
       PROVE  Gathered(st[j], D, C[CallAt(st[j])], Z)
  <2>1. CASE j = Len(stack)
    BY <1>14, <1>15, <2>1 DEF Gathered
  <2>2. CASE j # Len(stack)
    <3>1. j \in 1 .. Len(stack) - 1 /\ j \in 1 .. Len(stack)
      BY <1>4, <1>15, <2>2
    <3>2. Gathered(st[j], E, C[CallAt(st[j])], Z)
      BY <1>2, <1>12, <1>15, <1>20, <3>1 DEF FramesGathered
    <3> QED
      BY <1>13, <3>2 DEF Gathered
  <2> QED
    BY <2>1, <2>2
<1>21. CallsSettled'
  BY <1>1, <1>12, <1>15, <1>19, SettledAfter
<1>22. FramesGathered'
  <2>1. fromCalls' = C
    BY <1>1, <1>12
  <2> QED
    BY <1>1, <1>12, <1>15, <1>20, <2>1, GatheredAfter
<1> QED
  BY <1>1, <1>17, <1>21, <1>22 DEF InterInv

\* There are no costs between functions at first.
LEMMA InterInit == Init => InterInv
  BY DEF Init, InterInv

\* Each step keeps the costs between functions right.
LEMMA InterStep ==
    ASSUME GraphInv, StackInv, StackInv', IntraInv, CostType, InterInv, [Next]_vars
    PROVE  InterInv'
<1>1. CASE phase' \notin {"inter", "done"}
  BY <1>1 DEF InterInv
<1>2. phase \in {"intra", "inter", "done"} => Shape /\ Linked
  BY ShapeFact, LinkedFact DEF HasEdges, HasNodes
<1>3. phase = "inter" => StackOk
  BY DEF StackInv, Recurses
<1>4. ASSUME phase = "inter" \/ phase = "done", phase' = "done",
             UNCHANGED <<program, graph, intra, fromEntry, fromCalls>>,
             \A f \in Functions : f \notin Reached[f] =>
                 \A k \in DOMAIN CallsOf(f) : Settled(CallsOf(f)[k], fromEntry)
      PROVE  InterInv'
  <2>1. PricesOk
    BY <1>4 DEF InterInv
  <2>2. PICK E, C : E = fromEntry /\ C = fromCalls
    OBVIOUS
  <2>3. E = fromEntry' /\ C = fromCalls'
    BY <1>4, <2>2
  <2>4. PricesOk'
    BY <1>4, <2>1, <2>2, <2>3, PricesAfter DEF PricesOk
  <2>5. /\ Functions' = Functions /\ Reached' = Reached
        /\ \A f : CallsOf(f)' = CallsOf(f)
        /\ \A n, F : Settled(n, F)' = Settled(n, F)
    BY <1>4, CallsSame
  <2>6. ASSUME NEW f \in Functions, f \notin Reached[f], NEW k \in DOMAIN CallsOf(f)
        PROVE  Settled(CallsOf(f)[k], fromEntry)'
    <3>1. PICK n : n = CallsOf(f)[k]
      OBVIOUS
    <3>2. Settled(n, E)'
      BY <1>4, <2>2, <2>5, <2>6, <3>1
    <3>3. (CallsOf(f)[k])' = n
      BY <2>5, <3>1
    <3> QED
      BY <2>3, <3>2, <3>3
  <2> QED
    BY <1>4, <2>4, <2>5, <2>6 DEF InterInv
<1>5. CASE UNCHANGED vars
  <2>1. UNCHANGED <<program, graph, phase, stack, resolved, intra, fromEntry, fromCalls>>
    BY <1>5 DEF vars
  <2>2. CASE phase = "inter"
    <3>1. Finished' = Finished /\ \A f, k : Passed(f, k)' <=> Passed(f, k)
      BY <2>1 DEF Finished, Passed
    <3> QED
      BY <1>2, <2>1, <2>2, <3>1, InterMove
  <2>3. CASE phase = "done"
    BY <1>4, <2>1, <2>3 DEF InterInv
  <2> QED
    BY <1>1, <2>1, <2>2, <2>3
<1>6. CASE MakeNodes \/ MakeEdges \/ IntraStart \/ FloydWarshall \/ Diagonal \/ CallEntries
           \/ AvgCallee \/ AvgCall \/ AvgDone
  BY <1>1, <1>6 DEF MakeNodes, MakeEdges, IntraStart, FloydWarshall, Diagonal, CallEntries,
                    AvgCallee, AvgCall, AvgDone, Throw
<1>7. CASE IntraDone
  <2>1. /\ phase = "intra" /\ phase' = "inter" /\ stack = <<>> /\ resolved = {}
        /\ UNCHANGED <<program, graph, stack, resolved, intra>>
        /\ fromEntry' = [f \in Functions |-> <<>>] /\ fromCalls' = [n \in AllCalls |-> <<>>]
    BY <1>7 DEF IntraDone, intraVars, StackInv, Recurses, NoTable
  <2>2. Finished' = {} /\ \A f, k : ~Passed(f, k)'
    BY <2>1 DEF Finished, Passed
  <2>3. \A f, c : Priced(f, <<>>, c)
    <3>1. DOMAIN <<>> = {}
      OBVIOUS
    <3> QED
      BY <3>1 DEF Priced, CostTable
  <2>4. PICK E, C : E = fromEntry' /\ C = fromCalls'
    OBVIOUS
  <2>5. PricesOk'
    BY <2>1, <2>3, <2>4, PricesAfter
  <2>6. CallsSettled'
    BY <2>2 DEF CallsSettled
  <2>7. FramesGathered'
    <3>1. Len(stack') = 0
      BY <2>1
    <3> QED
      BY <3>1 DEF FramesGathered
  <2> QED
    BY <2>1, <2>5, <2>6, <2>7 DEF InterInv
<1>8. CASE EnterRoot \/ EnterCallee \/ Leave
  <2>1. UNCHANGED <<program, graph, phase, intra, fromEntry, fromCalls>>
    BY <1>8 DEF EnterRoot, EnterCallee, Leave, Enter, intraVars, interVars
  <2>2. SUFFICES ASSUME phase = "inter" PROVE InterInv'
    BY <1>1, <1>8, <2>1 DEF EnterRoot, EnterCallee, Leave
  <2>3. Shape /\ Linked /\ StackOk
    BY <1>2, <1>3, <2>2
  <2>4. ASSUME NEW f \in Functions \ resolved, Enter(f), stack = <<>> \/ (AtCallee /\ Callee = f)
        PROVE  InterInv'
    <3>1. FirstSucc = 0
      BY <2>2 DEF FirstSucc
    <3>2. /\ Finished' = Finished
          /\ \A g, k : k \in Nat \ {0} => (Passed(g, k)' <=> Passed(g, k))
          /\ Len(stack) \in Nat /\ Len(stack') = Len(stack) + 1
          /\ \A i \in 1 .. Len(stack) : stack'[i] = stack[i]
          /\ stack'[Len(stack) + 1] = [func |-> f, call |-> 1, succ |-> FirstSucc, sum |-> 0]
      BY <2>1, <2>3, <2>4, EnterFact DEF Enter
    <3>3. \A g \in Functions : \A k \in DOMAIN CallsOf(g) : Passed(g, k)' <=> Passed(g, k)
      <4>1. \A g \in Functions : Len(CallsOf(g)) \in Nat /\ DOMAIN CallsOf(g) = 1 .. Len(CallsOf(g))
        BY <2>3 DEF Shape
      <4>2. \A g \in Functions : DOMAIN CallsOf(g) \subseteq Nat \ {0}
        BY <4>1
      <4> QED
        BY <3>2, <4>2
    <3>4. stack'[Len(stack) + 1].succ = 0
      BY <3>1, <3>2
    <3>5. \A i \in 1 .. Len(stack') :
              (i \in 1 .. Len(stack) /\ stack'[i] = stack[i]) \/ stack'[i].succ = 0
      BY <3>2, <3>4
    <3> QED
      BY <2>1, <2>2, <2>3, <3>2, <3>3, <3>5, InterMove
  <2>5. CASE EnterRoot
    <3>1. stack = <<>> /\ Enter(Min(Functions \ resolved))
      BY <2>5 DEF EnterRoot
    <3>2. Min(Functions \ resolved) \in Functions \ resolved
      BY <2>3, <2>5, RootFact
    <3> QED
      BY <2>4, <3>1, <3>2
  <2>6. CASE EnterCallee
    <3>1. Callee \in Functions \ resolved /\ AtCallee /\ Enter(Callee)
      BY <2>3, <2>6, TopFact DEF EnterCallee, AtCallee, AtCall
    <3> QED
      BY <2>4, <3>1
  <2>7. CASE Leave
    <3>1. stack # <<>> /\ ~AtCall /\ UNCHANGED resolved /\ stack' = Front(stack)
      BY <2>7 DEF Leave
    <3>2. /\ Finished' = Finished \cup {Top.func}
          /\ \A g \in Functions : \A k \in DOMAIN CallsOf(g) : Passed(g, k)' <=> Passed(g, k)
          /\ Len(stack) \in Nat \ {0} /\ Len(stack') = Len(stack) - 1
          /\ \A i \in 1 .. Len(stack) - 1 : stack'[i] = stack[i]
      BY <2>1, <2>3, <3>1, LeaveFact
    <3>3. \A i \in 1 .. Len(stack') : i \in 1 .. Len(stack) /\ stack'[i] = stack[i]
      BY <3>2
    <3> QED
      BY <2>1, <2>2, <2>3, <3>2, <3>3, InterMove
  <2> QED
    BY <1>8, <2>5, <2>6, <2>7
<1>9. CASE InterDirect
  BY <1>2, <1>3, <1>9, InterDirectStep DEF InterDirect
<1>10. CASE InterCallee
  BY <1>2, <1>3, <1>10, InterCalleeStep DEF InterCallee
<1>11. CASE InterCall
  BY <1>2, <1>3, <1>11, InterCallStep DEF InterCall
<1>12. CASE InterDone
  <2>1. /\ phase = "inter" /\ phase' = "done" /\ stack = <<>> /\ resolved = Functions
        /\ UNCHANGED <<program, graph, intra, fromEntry, fromCalls>>
    BY <1>12 DEF InterDone, intraVars, interVars
  <2>2. \A f \in Functions : \A k : Passed(f, k)
    BY <2>1 DEF Passed
  <2>3. \A f \in Functions : f \notin Reached[f] =>
            \A k \in DOMAIN CallsOf(f) : Settled(CallsOf(f)[k], fromEntry)
    BY <2>1, <2>2 DEF InterInv, CallsSettled
  <2> QED
    BY <1>4, <2>1, <2>3
<1> QED
  BY <1>5, <1>6, <1>7, <1>8, <1>9, <1>10, <1>11, <1>12 DEF Next

----------------------------------------------------------------------------
(* The theorems.                                                            *)

Inv == GraphInv /\ StackInv /\ AvgInv /\ IntraInv /\ InterInv

\* The parts together are inductive.
LEMMA InvInit == Init => Inv
BY GraphInit, StackInit, AvgInit, IntraInit, InterInit DEF Inv

\* Each part needs the earlier ones, AvgInv and InterInv the next state's, too.
LEMMA InvStep == Inv /\ [Next]_vars => Inv'
<1> SUFFICES ASSUME Inv, [Next]_vars PROVE Inv'
  OBVIOUS
<1>1. GraphInv /\ StackInv /\ AvgInv /\ IntraInv /\ InterInv /\ CostType
  BY DEF Inv, AvgInv
<1>2. GraphInv'
  BY <1>1, GraphStep
<1>3. StackInv'
  BY <1>1, StackStep
<1>4. AvgInv'
  BY <1>1, <1>2, <1>3, AvgStep
<1>5. IntraInv'
  BY <1>1, IntraStep
<1>6. InterInv'
  BY <1>1, <1>3, InterStep
<1> QED
  BY <1>2, <1>3, <1>4, <1>5, <1>6 DEF Inv

\* Throughout the construction the recursions visit each function once, in
\* whatever cycles the functions call each other, and what has been computed
\* so far is right.
THEOREM ConstructionIsRight == Spec => []Inv
BY InvInit, InvStep, PTL DEF Spec

\* Whatever blocks a program has, each of its instructions counts for just one
\* of the nodes of its block; the edges of a node lead to the first nodes of what
\* it calls, or of the blocks that follow in their order.
THEOREM GraphIsRight == Spec => []GraphMirrorsProgram
<1>1. Inv => GraphMirrorsProgram
  BY MirrorFact DEF Inv
<1> QED
  BY <1>1, ConstructionIsRight, PTL

\* For every program, the averages of functions are the sums of what their
\* nodes cost, and those of calls outside recursions the averages of the final
\* costs of their callees, whatever the order of the visits.
THEOREM AveragesAreFinal == Spec => []AvgFinal
<1>1. Inv => AvgFinal
  BY AvgResult DEF Inv
<1> QED
  BY <1>1, ConstructionIsRight, PTL

\* For every well-formed program, the tables that the loops of Floyd and
\* Warshall and those after it leave are the costs of the cheapest walks.
THEOREM TablesAreCheapest == Spec => []IntraCheapest
<1>1. Inv => IntraCheapest
  BY IntraResult DEF Inv
<1> QED
  BY <1>1, ConstructionIsRight, PTL

\* For every program, no function is listed that is not called, none for less
\* than the cheapest chain of calls costs, and above no recursion none is
\* missing and none costs more.
THEOREM ChainsAreCheapest == Spec => []InterCheapest
<1>1. Inv => InterCheapest
  BY InterResult DEF Inv
<1> QED
  BY <1>1, ConstructionIsRight, PTL

==============================================================================
