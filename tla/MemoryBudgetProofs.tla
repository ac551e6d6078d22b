-------------------------- MODULE MemoryBudgetProofs --------------------------
(****************************************************************************)
(* Proofs that the segments and the bytes in use are always those of the    *)
(* blocks that exist, that the memory limit holds, and that a call which    *)
(* passed its checks never throws, for every limit, every number of         *)
(* segments, and all sizes of blocks and of calls.                          *)
(****************************************************************************)
EXTENDS MemoryBudget, SequenceTheorems, WellFoundedInduction, TLAPS

----------------------------------------------------------------------------
(* Stacks.                                                                  *)

\* A stack loses its last element when it is popped.
LEMMA PopFact ==
    ASSUME NEW S, NEW s \in Seq(S), s # <<>>
    PROVE  /\ Len(s) \in Nat \ {0} /\ Last(s) = s[Len(s)] /\ Last(s) \in S
           /\ Front(s) \in Seq(S) /\ Len(Front(s)) = Len(s) - 1
           /\ \A i \in 1 .. Len(s) - 1 : Front(s)[i] = s[i]
<1>1. Len(s) \in Nat \ {0}
  BY EmptySeq
<1>2. \A i \in 1 .. Len(s) : s[i] \in S
  BY ElementOfSeq
<1>3. \A i \in 1 .. Len(s) - 1 : s[i] \in S
  BY <1>1, <1>2
<1>4. /\ SubSeq(s, 1, Len(s) - 1) \in Seq(S)
      /\ Len(SubSeq(s, 1, Len(s) - 1)) =
            IF 1 <= Len(s) - 1 THEN Len(s) - 1 - 1 + 1 ELSE 0
      /\ \A i \in 1 .. Len(s) - 1 - 1 + 1 : SubSeq(s, 1, Len(s) - 1)[i] = s[1 + i - 1]
  BY <1>1, <1>3, SubSeqProperties
<1>5. \A i \in 1 .. Len(s) - 1 : SubSeq(s, 1, Len(s) - 1)[i] = s[i]
  BY <1>1, <1>4
<1>6. Len(SubSeq(s, 1, Len(s) - 1)) = Len(s) - 1
  <2>1. \A n \in Nat : \A k : k = (IF 1 <= n - 1 THEN n - 1 - 1 + 1 ELSE 0) /\ n # 0 => k = n - 1
    OBVIOUS
  <2> QED
    BY ONLY <1>1, <1>4, <2>1, Zenon
<1>7. Last(s) = s[Len(s)] /\ Front(s) = SubSeq(s, 1, Len(s) - 1)
  BY DEF Last, Front
<1>8. s[Len(s)] \in S
  BY <1>1, <1>2
<1> QED
  BY <1>1, <1>4, <1>5, <1>6, <1>7, <1>8

----------------------------------------------------------------------------
(* Induction and recursion.                                                 *)

\* A set of numbers has a least one.
LEMMA LeastNumber ==
    ASSUME NEW T \in SUBSET Nat, T # {}
    PROVE  \E x \in T : \A y \in T : x <= y
<1> DEFINE R == OpToRel(<, Nat)
<1>1. PICK x \in T : \A y \in T : ~(<<y, x>> \in R)
  <2>1. IsWellFoundedOn(R, Nat)
    BY NatLessThanWellFounded
  <2> HIDE DEF R
  <2> QED
    BY <2>1, WFMin
<1>2. ASSUME NEW y \in T, y < x PROVE FALSE
  <2>1. <<y, x>> \in Nat \X Nat /\ <<y, x>>[1] = y /\ <<y, x>>[2] = x
    OBVIOUS
  <2>2. <<y, x>> \in R
    BY <1>2, <2>1 DEF OpToRel
  <2> QED
    BY <1>1, <2>2
<1> QED
  BY <1>2

\* Induction over a set.
LEMMA Induction ==
    ASSUME NEW P, 0 \in P, \A n \in Nat : n \in P => n + 1 \in P
    PROVE  \A n \in Nat : n \in P
<1>1. SUFFICES ASSUME NEW n \in Nat, n \notin P PROVE FALSE
  OBVIOUS
<1>2. PICK m \in Nat \ P : \A k \in Nat \ P : m <= k
  <2>1. Nat \ P \in SUBSET Nat /\ Nat \ P # {}
    BY <1>1
  <2> QED
    BY <2>1, LeastNumber
<1>3. m # 0 /\ m - 1 \in Nat
  BY <1>2
<1>4. m - 1 \in P
  BY <1>2, <1>3
<1>5. (m - 1) + 1 \in P
  BY <1>3, <1>4
<1> QED
  BY <1>2, <1>5

\* f starts with b and goes on by the functions g[1] to g[n].
Follows(f, b, n, g) ==
    /\ f = [i \in 0 .. n |-> f[i]]
    /\ f[0] = b /\ \A i \in 1 .. n : f[i] = g[i][f[i - 1]]

\* A first value and a function for each number define a sequence of values.
LEMMA Recursion ==
    ASSUME NEW b, NEW n \in Nat, NEW g
    PROVE  \E f : Follows(f, b, n, g)
<1> DEFINE P == {k \in Nat : \E f : Follows(f, b, k, g)}
<1>1. 0 \in P
  <2>1. Follows([i \in 0 .. 0 |-> b], b, 0, g)
    BY DEF Follows
  <2> QED
    BY <2>1
<1>2. ASSUME NEW k \in Nat, k \in P PROVE k + 1 \in P
  <2>1. PICK f : Follows(f, b, k, g)
    BY <1>2
  <2> DEFINE h == [i \in 0 .. k + 1 |-> IF i = k + 1 THEN g[k + 1][f[k]] ELSE f[i]]
  <2>2. h = [i \in 0 .. k + 1 |-> h[i]] /\ h[0] = b
    BY <2>1 DEF Follows
  <2>3. ASSUME NEW i \in 1 .. k + 1 PROVE h[i] = g[i][h[i - 1]]
    <3>1. CASE i = k + 1
      BY <3>1
    <3>2. CASE i # k + 1
      <4>1. i \in 1 .. k /\ i - 1 \in 0 .. k + 1 /\ i - 1 # k + 1
        BY <3>2
      <4>2. h[i] = f[i] /\ h[i - 1] = f[i - 1]
        BY <4>1
      <4> QED
        BY <2>1, <4>1, <4>2 DEF Follows
    <3> QED
      BY <3>1, <3>2
  <2> HIDE DEF h
  <2>4. Follows(h, b, k + 1, g)
    BY <2>2, <2>3 DEF Follows
  <2> QED
    BY <2>4
<1>3. n \in P
  <2> HIDE DEF P
  <2> QED
    BY <1>1, <1>2, Induction
<1> QED
  BY <1>3

----------------------------------------------------------------------------
(* Parts of sequences.                                                      *)

\* A sequence falls into two.
LEMMA SplitFact ==
    ASSUME NEW S, NEW s \in Seq(S), NEW k \in 0 .. Len(s)
    PROVE  /\ SubSeq(s, 1, k) \in Seq(S) /\ Len(SubSeq(s, 1, k)) = k
           /\ \A i \in 1 .. k : SubSeq(s, 1, k)[i] = s[i]
           /\ SubSeq(s, k + 1, Len(s)) \in Seq(S)
           /\ Len(SubSeq(s, k + 1, Len(s))) = Len(s) - k
           /\ \A i \in 1 .. Len(s) - k : SubSeq(s, k + 1, Len(s))[i] = s[k + i]
<1>1. Len(s) \in Nat /\ k \in Nat /\ k <= Len(s) /\ \A i \in 1 .. Len(s) : s[i] \in S
  BY ElementOfSeq, LenProperties
<1> DEFINE l == Len(s)
           a == SubSeq(s, 1, k)
           b == SubSeq(s, k + 1, l)
<1>2. /\ a \in Seq(S) /\ Len(a) = (IF 1 <= k THEN k - 1 + 1 ELSE 0)
      /\ \A i \in 1 .. k - 1 + 1 : a[i] = s[1 + i - 1]
  BY <1>1, SubSeqProperties
<1>3. /\ b \in Seq(S) /\ Len(b) = (IF k + 1 <= l THEN l - (k + 1) + 1 ELSE 0)
      /\ \A i \in 1 .. l - (k + 1) + 1 : b[i] = s[(k + 1) + i - 1]
  BY <1>1, SubSeqProperties
<1>4. l \in Nat /\ k \in Nat /\ k <= l
  BY <1>1
<1> HIDE DEF a, b, l
<1>5. Len(a) = k /\ Len(b) = l - k
  BY <1>2, <1>3, <1>4
<1>6. ASSUME NEW i \in 1 .. k PROVE a[i] = s[i]
  <2>1. i \in 1 .. k - 1 + 1 /\ 1 + i - 1 = i
    BY <1>4
  <2> QED
    BY <1>2, <2>1
<1>7. ASSUME NEW i \in 1 .. l - k PROVE b[i] = s[k + i]
  <2>1. i \in 1 .. l - (k + 1) + 1 /\ (k + 1) + i - 1 = k + i
    BY <1>4
  <2> QED
    BY <1>3, <2>1
<1> QED
  BY <1>2, <1>3, <1>5, <1>6, <1>7 DEF a, b, l

\* Two sequences make one.
LEMMA JoinFact ==
    ASSUME NEW S, NEW a \in Seq(S), NEW b \in Seq(S)
    PROVE  /\ a \o b \in Seq(S) /\ Len(a \o b) = Len(a) + Len(b)
           /\ Len(a) \in Nat /\ Len(b) \in Nat
           /\ \A i \in 1 .. Len(a) : (a \o b)[i] = a[i]
           /\ \A i \in 1 .. Len(b) : (a \o b)[Len(a) + i] = b[i]
<1> DEFINE r == a \o b
           n == Len(a)
           m == Len(b)
<1>1. r \in Seq(S) /\ Len(r) = n + m
      /\ \A i \in 1 .. n + m : r[i] = IF i <= n THEN a[i] ELSE b[i - n]
  BY ConcatProperties
<1>2. n \in Nat /\ m \in Nat
  BY LenProperties
<1> HIDE DEF r, n, m
<1>3. ASSUME NEW i \in 1 .. n PROVE r[i] = a[i]
  <2>1. i \in 1 .. n + m /\ i <= n
    BY <1>2
  <2> QED
    BY <1>1, <2>1
<1>4. ASSUME NEW i \in 1 .. m PROVE r[n + i] = b[i]
  <2>1. n + i \in 1 .. n + m /\ ~(n + i <= n) /\ (n + i) - n = i
    BY <1>2
  <2> QED
    BY <1>1, <2>1
<1> QED
  BY <1>1, <1>2, <1>3, <1>4 DEF r, n, m

\* The top of a stack is replaced.
LEMMA TopReplaced ==
    ASSUME NEW S, NEW s \in Seq(S), s # <<>>, NEW e \in S
    PROVE  [s EXCEPT ![Len(s)] = e] = Append(Front(s), e)
<1> DEFINE l == Len(s)
           r == Front(s)
           a == Append(r, e)
           b == [s EXCEPT ![l] = e]
<1>1. /\ l \in Nat \ {0} /\ r \in Seq(S) /\ Len(r) = l - 1
      /\ \A i \in 1 .. l - 1 : r[i] = s[i]
  BY PopFact
<1>2. s = [i \in 1 .. l |-> s[i]]
  BY LenProperties
<1>3. /\ a \in Seq(S) /\ Len(a) = Len(r) + 1
      /\ \A i \in 1 .. Len(r) : a[i] = r[i]
      /\ a[Len(r) + 1] = e
  BY <1>1, AppendProperties
<1>4. a = [i \in 1 .. Len(a) |-> a[i]]
  BY <1>3, LenProperties
<1>5. b = [i \in 1 .. l |-> IF i = l THEN e ELSE s[i]]
  BY <1>2
<1> HIDE DEF a, b, l, r
<1>6. Len(a) = l
  BY <1>1, <1>3
<1>7. \A i \in 1 .. l : a[i] = IF i = l THEN e ELSE s[i]
  BY <1>1, <1>3
<1>8. a = b
  BY ONLY <1>4, <1>5, <1>6, <1>7
<1> QED
  BY <1>8 DEF a, b, l, r

----------------------------------------------------------------------------
(* Sums.                                                                    *)

\* f holds the sums of the first i items of s, for each i up to n.
Parts(f, s, n) ==
    /\ n \in Nat /\ f = [i \in 0 .. n |-> f[i]]
    /\ \A i \in 0 .. n : f[i] \in Int
    /\ \A i \in 1 .. n : s[i] \in Int
    /\ f[0] = 0 /\ \A i \in 1 .. n : f[i] = f[i - 1] + s[i]

\* x is the sum of the first n items of s.
IsSum(x, s, n) == \E f : Parts(f, s, n) /\ x = f[n]

\* There are such sums.
LEMMA PartsExist ==
    ASSUME NEW s, NEW n \in Nat, \A i \in 1 .. n : s[i] \in Int
    PROVE  \E f : Parts(f, s, n)
<1> DEFINE g == [i \in 1 .. n |-> [a \in Int |-> a + s[i]]]
<1>1. \A i \in 1 .. n : \A a \in Int : g[i][a] = a + s[i]
  OBVIOUS
<1> HIDE DEF g
<1>2. PICK f : Follows(f, 0, n, g)
  BY Recursion
<1>3. f = [i \in 0 .. n |-> f[i]] /\ f[0] = 0 /\ \A i \in 1 .. n : f[i] = g[i][f[i - 1]]
  BY <1>2 DEF Follows
<1> DEFINE P == {k \in Nat : k <= n => f[k] \in Int}
<1>4. 0 \in P
  BY <1>3
<1>5. ASSUME NEW k \in Nat, k \in P PROVE k + 1 \in P
  <2>1. SUFFICES ASSUME k + 1 <= n PROVE f[k + 1] \in Int
    OBVIOUS
  <2>2. k + 1 \in 1 .. n /\ f[k] \in Int /\ (k + 1) - 1 = k
    BY <1>5, <2>1
  <2> HIDE DEF P
  <2>3. f[k + 1] = g[k + 1][f[k]]
    BY <1>3, <2>2
  <2>4. g[k + 1][f[k]] = f[k] + s[k + 1]
    BY <1>1, <2>2
  <2>5. s[k + 1] \in Int
    BY <2>2
  <2> QED
    BY <2>2, <2>3, <2>4, <2>5
<1>6. \A k \in Nat : k \in P
  <2> HIDE DEF P
  <2> QED
    BY <1>4, <1>5, Induction
<1>7. \A i \in 0 .. n : f[i] \in Int
  BY <1>6
<1> HIDE DEF P
<1>8. ASSUME NEW i \in 1 .. n PROVE f[i] = f[i - 1] + s[i]
  <2>1. i - 1 \in 0 .. n
    OBVIOUS
  <2>2. f[i - 1] \in Int
    BY <1>7, <2>1
  <2> QED
    BY <1>1, <1>3, <2>2
<1> QED
  BY <1>3, <1>7, <1>8 DEF Parts

\* s and t hold the same n items after the first p and q.
SameItems(s, t, p, q, n) == \A i \in 1 .. n : s[p + i] = t[q + i]

\* The same items at different places have the same sum.
LEMMA AgreeingParts ==
    ASSUME NEW s, NEW t, NEW f, NEW h, NEW l, NEW m, Parts(f, s, l), Parts(h, t, m),
           NEW p \in Nat, NEW q \in Nat, NEW n \in Nat,
           p + n <= l, q + n <= m, SameItems(s, t, p, q, n)
    PROVE  f[p + n] - f[p] = h[q + n] - h[q]
<1> DEFINE P == {k \in Nat : k <= n => f[p + k] - f[p] = h[q + k] - h[q]}
<1>0. /\ l \in Nat /\ m \in Nat
      /\ \A i \in 0 .. l : f[i] \in Int
      /\ \A i \in 0 .. m : h[i] \in Int
  BY DEF Parts
<1>1. 0 \in P
  <2>1. p \in 0 .. l /\ q \in 0 .. m /\ p + 0 = p /\ q + 0 = q
    BY <1>0
  <2>2. f[p] - f[p] = h[q] - h[q]
    BY <1>0, <2>1
  <2> QED
    BY <2>1, <2>2
<1>2. ASSUME NEW k \in Nat, k \in P PROVE k + 1 \in P
  <2>1. SUFFICES ASSUME k + 1 <= n PROVE f[p + (k + 1)] - f[p] = h[q + (k + 1)] - h[q]
    OBVIOUS
  <2>5. f[p + k] - f[p] = h[q + k] - h[q]
    BY <1>2, <2>1
  <2> HIDE DEF P
  <2>2. /\ p + (k + 1) \in 1 .. l /\ (p + (k + 1)) - 1 = p + k
        /\ q + (k + 1) \in 1 .. m /\ (q + (k + 1)) - 1 = q + k
        /\ k + 1 \in 1 .. n /\ p \in 0 .. l /\ q \in 0 .. m
        /\ p + k \in 0 .. l /\ q + k \in 0 .. m
    BY <1>0, <2>1
  <2>3. /\ f[p + (k + 1)] = f[p + k] + s[p + (k + 1)]
        /\ h[q + (k + 1)] = h[q + k] + t[q + (k + 1)]
    BY <2>2 DEF Parts
  <2>4. s[p + (k + 1)] = t[q + (k + 1)] /\ s[p + (k + 1)] \in Int
    BY <2>2 DEF Parts, SameItems
  <2>6. f[p + k] \in Int /\ f[p] \in Int /\ h[q + k] \in Int /\ h[q] \in Int
    BY <1>0, <2>2
  <2> QED
    BY ONLY <2>3, <2>4, <2>5, <2>6
<1>3. n \in P
  <2> HIDE DEF P
  <2> QED
    BY <1>1, <1>2, Induction
<1> QED
  BY <1>3

\* The types of sums.
LEMMA SumType ==
    ASSUME NEW x, NEW s, NEW n, IsSum(x, s, n)
    PROVE  /\ x \in Int
           /\ n = 0 => x = 0
           /\ (\A i \in 1 .. n : s[i] >= 0) => x \in Nat
<1>1. PICK f : Parts(f, s, n) /\ x = f[n]
  BY DEF IsSum
<1>2. n \in Nat /\ f[n] \in Int /\ (n = 0 => f[n] = 0)
  BY <1>1 DEF Parts
<1>3. ASSUME \A i \in 1 .. n : s[i] >= 0 PROVE f[n] \in Nat
  <2> DEFINE P == {k \in Nat : k <= n => f[k] \in Nat}
  <2>1. 0 \in P
    BY <1>1 DEF Parts
  <2>2. ASSUME NEW k \in Nat, k \in P PROVE k + 1 \in P
    <3>1. SUFFICES ASSUME k + 1 <= n PROVE f[k + 1] \in Nat
      OBVIOUS
    <3>2. k + 1 \in 1 .. n /\ f[k] \in Nat /\ (k + 1) - 1 = k
      BY <1>2, <2>2, <3>1
    <3> HIDE DEF P
    <3>3. f[k + 1] = f[k] + s[k + 1] /\ s[k + 1] \in Int /\ s[k + 1] >= 0
      BY <1>1, <1>3, <3>2 DEF Parts
    <3> QED
      BY <3>2, <3>3
  <2>3. n \in P
    <3> HIDE DEF P
    <3> QED
      BY <1>2, <2>1, <2>2, Induction
  <2> QED
    BY <1>2, <2>3
<1> QED
  BY <1>1, <1>2, <1>3

\* One more item.
LEMMA SumPush ==
    ASSUME NEW x, NEW y, NEW s, NEW t, NEW n \in Nat, NEW m, m = n + 1,
           IsSum(x, s, n), IsSum(y, t, m), SameItems(s, t, 0, 0, n)
    PROVE  y = x + t[m]
<1>1. PICK f : Parts(f, s, n) /\ x = f[n]
  BY DEF IsSum
<1>2. PICK h : Parts(h, t, n + 1) /\ y = h[n + 1]
  BY DEF IsSum
<1>3. f[0 + n] - f[0] = h[0 + n] - h[0]
  BY <1>1, <1>2, AgreeingParts
<1>4. /\ f[0] = 0 /\ h[0] = 0 /\ f[n] \in Int /\ h[n] \in Int
      /\ h[n + 1] = h[n] + t[n + 1] /\ t[n + 1] \in Int
  <2>1. n + 1 \in 1 .. n + 1 /\ (n + 1) - 1 = n /\ n \in 0 .. n + 1 /\ n \in 0 .. n
    OBVIOUS
  <2> QED
    BY <1>1, <1>2, <2>1 DEF Parts
<1> QED
  BY <1>1, <1>2, <1>3, <1>4

\* The items of two sequences.
LEMMA SumConcat ==
    ASSUME NEW x, NEW y, NEW z, NEW s, NEW t, NEW u, NEW n \in Nat, NEW m \in Nat,
           NEW l, l = n + m, IsSum(x, s, n), IsSum(y, t, m), IsSum(z, u, l),
           SameItems(u, s, 0, 0, n), SameItems(u, t, n, 0, m)
    PROVE  z = x + y
<1>1. PICK f : Parts(f, s, n) /\ x = f[n]
  BY DEF IsSum
<1>2. PICK h : Parts(h, t, m) /\ y = h[m]
  BY DEF IsSum
<1>3. PICK e : Parts(e, u, n + m) /\ z = e[n + m]
  BY DEF IsSum
<1>4. e[0 + n] - e[0] = f[0 + n] - f[0]
  BY <1>1, <1>3, AgreeingParts
<1>5. e[n + m] - e[n] = h[0 + m] - h[0]
  BY <1>2, <1>3, AgreeingParts
<1>6. /\ f[0] = 0 /\ h[0] = 0 /\ e[0] = 0 /\ f[n] \in Int /\ h[m] \in Int
      /\ e[n] \in Int /\ e[n + m] \in Int
  <2>1. n \in 0 .. n /\ m \in 0 .. m /\ n \in 0 .. n + m /\ n + m \in 0 .. n + m
    OBVIOUS
  <2> QED
    BY <1>1, <1>2, <1>3, <2>1 DEF Parts
<1> QED
  BY <1>1, <1>2, <1>3, <1>4, <1>5, <1>6

\* One item less.
LEMMA SumRemove ==
    ASSUME NEW x, NEW y, NEW s, NEW t, NEW n \in Nat, NEW k \in 1 .. n,
           IsSum(x, s, n), IsSum(y, t, n - 1),
           \A i \in 1 .. k - 1 : t[i] = s[i],
           \A i \in k .. n - 1 : t[i] = s[i + 1]
    PROVE  y = x - s[k]
<1>1. PICK f : Parts(f, s, n) /\ x = f[n]
  BY DEF IsSum
<1>2. PICK h : Parts(h, t, n - 1) /\ y = h[n - 1]
  BY DEF IsSum
<1>3. k \in Nat /\ k - 1 \in Nat /\ n - k \in Nat
  OBVIOUS
<1>4. h[0 + (k - 1)] - h[0] = f[0 + (k - 1)] - f[0]
  <2>1. SameItems(t, s, 0, 0, k - 1)
    BY DEF SameItems
  <2> QED
    BY <1>1, <1>2, <1>3, <2>1, AgreeingParts
<1>5. h[(k - 1) + (n - k)] - h[k - 1] = f[k + (n - k)] - f[k]
  <2>1. ASSUME NEW i \in 1 .. n - k PROVE t[(k - 1) + i] = s[k + i]
    <3>1. (k - 1) + i \in k .. n - 1 /\ ((k - 1) + i) + 1 = k + i
      BY <1>3
    <3> QED
      BY <3>1
  <2>2. SameItems(t, s, k - 1, k, n - k)
    BY <2>1 DEF SameItems
  <2> QED
    BY <1>1, <1>2, <1>3, <2>2, AgreeingParts
<1>6. /\ f[0] = 0 /\ h[0] = 0 /\ f[n] \in Int /\ f[k] \in Int /\ f[k - 1] \in Int
      /\ h[n - 1] \in Int /\ h[k - 1] \in Int
      /\ f[k] = f[k - 1] + s[k] /\ s[k] \in Int
  <2>1. /\ n \in 0 .. n /\ k \in 0 .. n /\ k - 1 \in 0 .. n
        /\ n - 1 \in 0 .. n - 1 /\ k - 1 \in 0 .. n - 1
    OBVIOUS
  <2> QED
    BY <1>1, <1>2, <2>1 DEF Parts
<1>7. (k - 1) + (n - k) = n - 1 /\ k + (n - k) = n /\ 0 + (k - 1) = k - 1
  BY <1>3
<1> QED
  BY <1>1, <1>2, <1>4, <1>5, <1>6, <1>7

\* Items that are bounded by multiples have a bounded sum.
LEMMA SumBound ==
    ASSUME NEW x, NEW y, NEW s, NEW t, NEW n \in Nat, NEW M \in Nat,
           IsSum(x, s, n), IsSum(y, t, n),
           \A i \in 1 .. n : s[i] <= t[i] * M
    PROVE  x <= y * M
<1>1. PICK f : Parts(f, s, n) /\ x = f[n]
  BY DEF IsSum
<1>2. PICK h : Parts(h, t, n) /\ y = h[n]
  BY DEF IsSum
<1> DEFINE P == {k \in Nat : k <= n => f[k] <= h[k] * M}
<1>4. 0 \in P
  BY <1>1, <1>2 DEF Parts
<1>5. ASSUME NEW k \in Nat, k \in P PROVE k + 1 \in P
  <2>1. SUFFICES ASSUME k + 1 <= n PROVE f[k + 1] <= h[k + 1] * M
    OBVIOUS
  <2>2. k + 1 \in 1 .. n /\ k \in 0 .. n /\ (k + 1) - 1 = k /\ f[k] <= h[k] * M
    BY <1>5, <2>1
  <2> HIDE DEF P
  <2>3. /\ f[k + 1] = f[k] + s[k + 1] /\ h[k + 1] = h[k] + t[k + 1]
        /\ f[k] \in Int /\ s[k + 1] \in Int /\ h[k] \in Int /\ t[k + 1] \in Int
    BY <1>1, <1>2, <2>2 DEF Parts
  <2>4. s[k + 1] <= t[k + 1] * M
    BY <2>2
  <2>5. \A a, b, c, d \in Int : a <= b * M /\ c <= d * M => a + c <= (b + d) * M
    OBVIOUS
  <2> QED
    BY <2>2, <2>3, <2>4, <2>5
<1>6. n \in P
  <2> HIDE DEF P
  <2> QED
    BY <1>4, <1>5, Induction
<1> QED
  BY <1>1, <1>2, <1>6

\* As many ones.
LEMMA SumOnes ==
    ASSUME NEW x, NEW s, NEW n, IsSum(x, s, n), \A i \in 1 .. n : s[i] = 1
    PROVE  x = n
<1>1. PICK f : Parts(f, s, n) /\ x = f[n]
  BY DEF IsSum
<1>2. n \in Nat
  BY <1>1 DEF Parts
<1> DEFINE P == {k \in Nat : k <= n => f[k] = k}
<1>3. 0 \in P
  BY <1>1 DEF Parts
<1>4. ASSUME NEW k \in Nat, k \in P PROVE k + 1 \in P
  <2>1. SUFFICES ASSUME k + 1 <= n PROVE f[k + 1] = k + 1
    OBVIOUS
  <2>2. k + 1 \in 1 .. n /\ (k + 1) - 1 = k /\ f[k] = k
    BY <1>2, <1>4, <2>1
  <2> HIDE DEF P
  <2>3. f[k + 1] = f[k] + s[k + 1]
    BY <1>1, <2>2 DEF Parts
  <2> QED
    BY <2>2, <2>3
<1>5. n \in P
  <2> HIDE DEF P
  <2> QED
    BY <1>2, <1>3, <1>4, Induction
<1> QED
  BY <1>1, <1>5

\* Sum computes sums.
LEMMA SumDef ==
    ASSUME NEW s, NEW n \in Nat, Len(s) = n, \A i \in 1 .. n : s[i] \in Int
    PROVE  IsSum(Sum(s), s, n)
<1> DEFINE part == CHOOSE upTo :
                      upTo = [i \in 0 .. n |-> IF i = 0 THEN 0 ELSE upTo[i - 1] + s[i]]
<1>1. PICK f : Parts(f, s, n)
  BY PartsExist
<1>2. f = [i \in 0 .. n |-> IF i = 0 THEN 0 ELSE f[i - 1] + s[i]]
  <2>1. \A i \in 0 .. n : f[i] = IF i = 0 THEN 0 ELSE f[i - 1] + s[i]
    <3>1. \A i \in 0 .. n : i # 0 => i \in 1 .. n
      OBVIOUS
    <3> QED
      BY <1>1, <3>1 DEF Parts
  <2>2. f = [i \in 0 .. n |-> f[i]]
    BY <1>1 DEF Parts
  <2> QED
    BY ONLY <2>1, <2>2
<1>3. part = [i \in 0 .. n |-> IF i = 0 THEN 0 ELSE part[i - 1] + s[i]]
  BY <1>2, Zenon
<1>4. Sum(s) = part[n]
  BY DEF Sum
<1> HIDE DEF part
<1> DEFINE P == {k \in Nat : k <= n => part[k] = f[k]}
<1>5. 0 \in P
  BY <1>1, <1>3 DEF Parts
<1>6. ASSUME NEW k \in Nat, k \in P PROVE k + 1 \in P
  <2>1. SUFFICES ASSUME k + 1 <= n PROVE part[k + 1] = f[k + 1]
    OBVIOUS
  <2>2. k + 1 \in 1 .. n /\ k + 1 \in 0 .. n /\ k + 1 # 0 /\ (k + 1) - 1 = k /\ part[k] = f[k]
    BY <1>6, <2>1
  <2> HIDE DEF P
  <2>3. part[k + 1] = part[k] + s[k + 1]
    BY <1>3, <2>2
  <2>4. f[k + 1] = f[k] + s[k + 1]
    BY <1>1, <2>2 DEF Parts
  <2> QED
    BY <2>2, <2>3, <2>4
<1>7. n \in P
  <2> HIDE DEF P
  <2> QED
    BY <1>5, <1>6, Induction
<1> QED
  BY <1>1, <1>4, <1>7 DEF IsSum

----------------------------------------------------------------------------
(* Sums over sequences.                                                     *)

\* The sum of F over the elements of s.
Over(F, s) == Sum([i \in DOMAIN s |-> F[s[i]]])

\* Over is a sum, of the values of F.
LEMMA OverSum ==
    ASSUME NEW S, NEW F, \A x \in S : F[x] \in Int, NEW s \in Seq(S)
    PROVE  LET t == [i \in DOMAIN s |-> F[s[i]]] IN
           /\ IsSum(Over(F, s), t, Len(s)) /\ Len(s) \in Nat
           /\ \A i \in 1 .. Len(s) : t[i] = F[s[i]] /\ s[i] \in S
<1> DEFINE t == [i \in DOMAIN s |-> F[s[i]]]
<1>1. Len(s) \in Nat /\ DOMAIN s = 1 .. Len(s) /\ \A i \in 1 .. Len(s) : s[i] \in S
  BY ElementOfSeq, LenProperties
<1>2. t = [i \in 1 .. Len(s) |-> F[s[i]]]
  BY <1>1
<1>3. t \in Seq(Int) /\ Len(t) = Len(s)
  BY <1>1, <1>2
<1>4. \A i \in 1 .. Len(s) : t[i] = F[s[i]]
  BY <1>2
<1> QED
  BY <1>1, <1>3, <1>4, SumDef DEF Over

\* Sums over a sequence that grows.
LEMMA OverPush ==
    ASSUME NEW S, NEW F, \A x \in S : F[x] \in Int, NEW s \in Seq(S), NEW e \in S
    PROVE  Over(F, Append(s, e)) = Over(F, s) + F[e]
<1> DEFINE r == Append(s, e)
           t == [i \in DOMAIN s |-> F[s[i]]]
           u == [i \in DOMAIN r |-> F[r[i]]]
           n == Len(s)
           m == Len(r)
<1>1. /\ r \in Seq(S) /\ m = n + 1 /\ r[m] = e /\ n \in Nat
      /\ \A i \in 1 .. n : r[i] = s[i]
  BY AppendProperties, LenProperties
<1>2. IsSum(Over(F, s), t, n) /\ \A i \in 1 .. n : t[i] = F[s[i]]
  BY OverSum
<1> HIDE DEF r
<1>3. IsSum(Over(F, r), u, m) /\ \A i \in 1 .. m : u[i] = F[r[i]]
  BY <1>1, OverSum
<1> HIDE DEF t, u, n, m
<1>4. SameItems(t, u, 0, 0, n)
  <2>1. ASSUME NEW i \in 1 .. n PROVE t[0 + i] = u[0 + i]
    <3>1. i \in 1 .. m /\ 0 + i = i
      BY <1>1
    <3> QED
      BY <1>1, <1>2, <1>3, <3>1
  <2> QED
    BY <2>1 DEF SameItems
<1>5. Over(F, r) = Over(F, s) + u[m]
  <2>1. n \in Nat /\ m = n + 1 /\ IsSum(Over(F, s), t, n) /\ IsSum(Over(F, r), u, m)
    BY <1>1, <1>2, <1>3
  <2> QED
    BY ONLY <1>4, <2>1, SumPush
<1>6. u[m] = F[e]
  <2>1. m \in 1 .. m
    BY <1>1
  <2> QED
    BY <1>1, <1>3, <2>1
<1> QED
  BY <1>5, <1>6 DEF r

\* Sums over a sequence that shrinks.
LEMMA OverRemove ==
    ASSUME NEW S, NEW F, \A x \in S : F[x] \in Int, NEW s \in Seq(S), NEW k \in 1 .. Len(s)
    PROVE  /\ RemoveAt(s, k) \in Seq(S) /\ Len(RemoveAt(s, k)) = Len(s) - 1
           /\ Over(F, RemoveAt(s, k)) = Over(F, s) - F[s[k]]
<1> DEFINE r == RemoveAt(s, k)
           t == [i \in DOMAIN s |-> F[s[i]]]
           u == [i \in DOMAIN r |-> F[r[i]]]
           a == SubSeq(s, 1, k - 1)
           b == SubSeq(s, k + 1, Len(s))
<1>1. Len(s) \in Nat /\ k \in Nat /\ \A i \in 1 .. Len(s) : s[i] \in S
  BY ElementOfSeq, LenProperties
<1>2. a \in Seq(S) /\ Len(a) = k - 1 /\ \A i \in 1 .. k - 1 : a[i] = s[i]
  BY <1>1, SplitFact
<1>3. b \in Seq(S) /\ Len(b) = Len(s) - k /\ \A i \in 1 .. Len(s) - k : b[i] = s[k + i]
  BY <1>1, SplitFact
<1>4. r = a \o b
  BY DEF RemoveAt
<1> HIDE DEF a, b, r
<1> DEFINE l == Len(s)
<1>5. /\ r \in Seq(S) /\ Len(r) = (k - 1) + (l - k)
      /\ \A i \in 1 .. k - 1 : r[i] = a[i]
      /\ \A i \in 1 .. l - k : r[(k - 1) + i] = b[i]
  <2>1. a \in Seq(S) /\ b \in Seq(S)
    BY <1>2, <1>3
  <2>2. /\ r \in Seq(S) /\ Len(r) = Len(a) + Len(b)
        /\ \A i \in 1 .. Len(a) : r[i] = a[i]
        /\ \A i \in 1 .. Len(b) : r[Len(a) + i] = b[i]
    BY ONLY <1>4, <2>1, JoinFact
  <2>3. Len(a) = k - 1 /\ Len(b) = l - k
    BY <1>2, <1>3
  <2> HIDE DEF l
  <2> QED
    BY ONLY <2>2, <2>3
<1>51. l \in Nat /\ k \in 1 .. l
  BY <1>1
<1> HIDE DEF l
<1>52. Len(r) = l - 1
  BY <1>5, <1>51
<1>6. \A i \in 1 .. k - 1 : r[i] = s[i]
  BY <1>2, <1>5
<1>7. ASSUME NEW i \in k .. l - 1 PROVE r[i] = s[i + 1]
  <2>1. i - (k - 1) \in 1 .. l - k /\ k + (i - (k - 1)) = i + 1 /\ (k - 1) + (i - (k - 1)) = i
    BY <1>51
  <2>2. r[(k - 1) + (i - (k - 1))] = b[i - (k - 1)]
    BY <1>5, <2>1
  <2>3. b[i - (k - 1)] = s[k + (i - (k - 1))]
    BY <1>3, <2>1 DEF l
  <2> QED
    BY <2>1, <2>2, <2>3
<1>8. IsSum(Over(F, s), t, l) /\ \A i \in 1 .. l : t[i] = F[s[i]]
  BY OverSum DEF l
<1>9. IsSum(Over(F, r), u, Len(r)) /\ \A i \in 1 .. Len(r) : u[i] = F[r[i]]
  <2>1. r \in Seq(S) /\ \A x \in S : F[x] \in Int
    BY <1>5
  <2> QED
    BY ONLY <2>1, OverSum DEF u
<1> HIDE DEF t, u
<1>10. /\ \A i \in 1 .. k - 1 : u[i] = t[i]
       /\ \A i \in k .. l - 1 : u[i] = t[i + 1]
  <2>1. \A i \in 1 .. k - 1 : i \in 1 .. l /\ i \in 1 .. l - 1
    BY <1>51
  <2>2. \A i \in k .. l - 1 : i + 1 \in 1 .. l /\ i \in 1 .. l - 1
    BY <1>51
  <2>3. \A i \in 1 .. l - 1 : u[i] = F[r[i]]
    BY <1>52, <1>9
  <2>4. ASSUME NEW i \in 1 .. k - 1 PROVE u[i] = t[i]
    BY <1>6, <1>8, <2>1, <2>3
  <2>5. ASSUME NEW i \in k .. l - 1 PROVE u[i] = t[i + 1]
    BY <1>7, <1>8, <2>2, <2>3
  <2> QED
    BY <2>4, <2>5
<1>11. Over(F, r) = Over(F, s) - t[k]
  BY <1>51, <1>52, <1>8, <1>9, <1>10, SumRemove
<1> QED
  BY <1>5, <1>51, <1>52, <1>8, <1>11 DEF r, l

\* Sums over a stack whose top is popped.
LEMMA OverPop ==
    ASSUME NEW S, NEW F, \A x \in S : F[x] \in Int, NEW s \in Seq(S), s # <<>>
    PROVE  Over(F, s) = Over(F, Front(s)) + F[Last(s)]
<1> DEFINE r == Front(s)
           e == Last(s)
<1>1. r \in Seq(S) /\ e \in S
  BY PopFact
<1>2. Len(s) \in Nat \ {0} /\ \A i \in 1 .. Len(s) : s[i] \in S
  BY PopFact, ElementOfSeq
<1>3. [s EXCEPT ![Len(s)] = e] = Append(r, e)
  BY <1>1, TopReplaced
<1>4. [s EXCEPT ![Len(s)] = e] = s
  <2>1. e = s[Len(s)]
    BY PopFact
  <2>2. s = [i \in 1 .. Len(s) |-> s[i]]
    BY LenProperties
  <2> HIDE DEF e
  <2> QED
    BY <1>2, <2>1, <2>2
<1> HIDE DEF r, e
<1>5. Over(F, Append(r, e)) = Over(F, r) + F[e]
  BY <1>1, OverPush
<1> QED
  BY <1>3, <1>4, <1>5 DEF r, e

\* The sums of natural numbers.
LEMMA OverType ==
    ASSUME NEW S, NEW F, \A x \in S : F[x] \in Nat, NEW s \in Seq(S)
    PROVE  Over(F, s) \in Nat
<1> DEFINE t == [i \in DOMAIN s |-> F[s[i]]]
<1>1. IsSum(Over(F, s), t, Len(s)) /\ \A i \in 1 .. Len(s) : t[i] = F[s[i]] /\ s[i] \in S
  BY OverSum
<1> HIDE DEF t
<1>2. \A i \in 1 .. Len(s) : t[i] >= 0
  BY <1>1
<1> QED
  BY <1>1, <1>2, SumType

\* A sum over no elements.
LEMMA OverNone ==
    ASSUME NEW F
    PROVE  Over(F, <<>>) = 0
<1> DEFINE t == [i \in DOMAIN <<>> |-> F[<<>>[i]]]
<1>1. <<>> \in Seq({}) /\ \A x \in {} : F[x] \in Int
  OBVIOUS
<1>2. IsSum(Over(F, <<>>), t, Len(<<>>)) /\ Len(<<>>) \in Nat
  BY ONLY <1>1, OverSum
<1> HIDE DEF t
<1>3. Len(<<>>) = 0
  OBVIOUS
<1> QED
  BY <1>2, <1>3, SumType

\* Elements whose F is at most M times their G.
LEMMA OverBound ==
    ASSUME NEW S, NEW F, NEW G, NEW M \in Nat, NEW s \in Seq(S),
           \A x \in S : F[x] \in Int /\ G[x] \in Int /\ F[x] <= G[x] * M
    PROVE  Over(F, s) <= Over(G, s) * M
<1> DEFINE t == [i \in DOMAIN s |-> F[s[i]]]
           u == [i \in DOMAIN s |-> G[s[i]]]
<1>1. IsSum(Over(F, s), t, Len(s)) /\ \A i \in 1 .. Len(s) : t[i] = F[s[i]] /\ s[i] \in S
  BY OverSum
<1>2. IsSum(Over(G, s), u, Len(s)) /\ \A i \in 1 .. Len(s) : u[i] = G[s[i]]
  BY OverSum
<1>3. Len(s) \in Nat
  BY LenProperties
<1> HIDE DEF t, u
<1>4. \A i \in 1 .. Len(s) : t[i] <= u[i] * M
  BY <1>1, <1>2
<1> QED
  BY <1>1, <1>2, <1>3, <1>4, SumBound

----------------------------------------------------------------------------
(* The sizes of blocks.                                                     *)

Block == 0 .. HostMax

\* Sizes have a natural sum.
LEMMA SizesType ==
    ASSUME NEW s \in Seq(Nat)
    PROVE  Sum(s) \in Nat /\ Len(s) \in Nat /\ IsSum(Sum(s), s, Len(s))
<1>1. Len(s) \in Nat /\ \A i \in 1 .. Len(s) : s[i] \in Nat
  BY ElementOfSeq, LenProperties
<1>2. IsSum(Sum(s), s, Len(s))
  <2>1. \A i \in 1 .. Len(s) : s[i] \in Int
    BY <1>1
  <2> QED
    BY <1>1, <2>1, SumDef
<1> QED
  BY <1>1, <1>2, SumType

\* No sizes.
LEMMA NoSizes ==
    Sum(<<>>) = 0 /\ Len(<<>>) = 0 /\ <<>> \in Seq(Block)
<1>1. IsSum(Sum(<<>>), <<>>, 0)
  BY SumDef
<1> QED
  BY <1>1, SumType

\* One size more.
LEMMA SizesPush ==
    ASSUME NEW s \in Seq(Nat), NEW n \in Nat
    PROVE  Sum(Append(s, n)) = Sum(s) + n
<1> DEFINE r == Append(s, n)
           l == Len(s)
           m == Len(r)
<1>1. /\ r \in Seq(Nat) /\ m = l + 1 /\ r[m] = n
      /\ \A i \in 1 .. l : r[i] = s[i]
  BY AppendProperties
<1>2. IsSum(Sum(s), s, l) /\ l \in Nat
  BY SizesType
<1>3. IsSum(Sum(r), r, m)
  BY <1>1, SizesType
<1> HIDE DEF r, l, m
<1>4. SameItems(s, r, 0, 0, l)
  BY <1>1 DEF SameItems
<1>5. Sum(r) = Sum(s) + r[m]
  BY <1>1, <1>2, <1>3, <1>4, SumPush
<1> QED
  BY <1>1, <1>5 DEF r

\* The sizes of two sequences.
LEMMA SizesJoin ==
    ASSUME NEW s \in Seq(Nat), NEW t \in Seq(Nat)
    PROVE  Sum(s \o t) = Sum(s) + Sum(t) /\ Len(s \o t) = Len(s) + Len(t)
<1> DEFINE r == s \o t
           n == Len(s)
           m == Len(t)
           l == Len(r)
<1>1. /\ r \in Seq(Nat) /\ l = n + m /\ n \in Nat /\ m \in Nat
      /\ \A i \in 1 .. n : r[i] = s[i]
      /\ \A i \in 1 .. m : r[n + i] = t[i]
  BY JoinFact
<1>2. IsSum(Sum(s), s, n) /\ IsSum(Sum(t), t, m)
  BY SizesType
<1>3. IsSum(Sum(r), r, l)
  BY <1>1, SizesType
<1> HIDE DEF r, n, m, l
<1>4. SameItems(r, s, 0, 0, n) /\ SameItems(r, t, n, 0, m)
  BY <1>1 DEF SameItems
<1>5. Sum(r) = Sum(s) + Sum(t)
  BY <1>1, <1>2, <1>3, <1>4, SumConcat
<1> QED
  BY <1>1, <1>5 DEF r, n, m, l

\* The sizes of the two parts of a sequence.
LEMMA SizesSplit ==
    ASSUME NEW s \in Seq(Nat), NEW k \in 0 .. Len(s)
    PROVE  Sum(s) = Sum(SubSeq(s, 1, k)) + Sum(SubSeq(s, k + 1, Len(s)))
<1> DEFINE l == Len(s)
           m == l - k
           a == SubSeq(s, 1, k)
           b == SubSeq(s, k + 1, l)
<1>1. /\ a \in Seq(Nat) /\ Len(a) = k /\ \A i \in 1 .. k : a[i] = s[i]
      /\ b \in Seq(Nat) /\ Len(b) = m /\ \A i \in 1 .. m : b[i] = s[k + i]
  BY SplitFact
<1>2. IsSum(Sum(s), s, l) /\ l \in Nat
  BY SizesType
<1>3. k \in Nat /\ m \in Nat /\ l = k + m
  BY <1>2
<1> HIDE DEF a, b, l, m
<1>4. IsSum(Sum(a), a, k) /\ IsSum(Sum(b), b, m)
  BY <1>1, SizesType
<1>5. SameItems(s, a, 0, 0, k) /\ SameItems(s, b, k, 0, m)
  BY <1>1, <1>3 DEF SameItems
<1>6. Sum(s) = Sum(a) + Sum(b)
  BY <1>2, <1>3, <1>4, <1>5, SumConcat
<1> QED
  BY <1>6 DEF a, b, l

\* A single size.
LEMMA SizesOne ==
    ASSUME NEW n \in Nat
    PROVE  Sum(<<n>>) = n /\ Len(<<n>>) = 1 /\ <<n>> \in Seq(Nat)
<1>1. Append(<<>>, n) = <<n>> /\ <<>> \in Seq(Nat)
  OBVIOUS
<1>2. Sum(Append(<<>>, n)) = Sum(<<>>) + n
  BY <1>1, SizesPush
<1> QED
  BY <1>1, <1>2, NoSizes

\* Blocks hold at most HostMax bytes each.
LEMMA SizesBound ==
    ASSUME NEW s \in Seq(Block)
    PROVE  s \in Seq(Nat) /\ Sum(s) <= Len(s) * HostMax
<1>1. HostMax \in Nat /\ \A x \in Block : x \in Nat /\ x <= HostMax
  BY LimitAssumption DEF Block
<1>2. Len(s) \in Nat /\ \A i \in 1 .. Len(s) : s[i] \in Block
  BY ElementOfSeq, LenProperties
<1>3. s \in Seq(Nat)
  BY <1>1
<1> DEFINE n == Len(s)
           one == [i \in 1 .. n |-> 1]
<1>4. IsSum(Sum(s), s, n)
  BY <1>3, SizesType
<1>5. \A i \in 1 .. n : one[i] = 1
  OBVIOUS
<1>6. n \in Nat /\ \A i \in 1 .. n : s[i] \in Nat /\ s[i] <= HostMax
  BY <1>1, <1>2
<1> HIDE DEF one, n
<1>7. PICK x : IsSum(x, one, n)
  <2>1. \A i \in 1 .. n : one[i] \in Int
    BY <1>5
  <2> QED
    BY <1>6, <2>1, PartsExist DEF IsSum
<1>8. x = n
  BY <1>5, <1>7, SumOnes
<1>9. \A i \in 1 .. n : s[i] <= one[i] * HostMax
  BY <1>1, <1>5, <1>6
<1>10. Sum(s) <= x * HostMax
  BY <1>1, <1>4, <1>6, <1>7, <1>9, SumBound
<1> QED
  BY <1>3, <1>8, <1>10 DEF n

----------------------------------------------------------------------------
(* The blocks of frames and of the heap.                                    *)

FrameRec ==
    [vars : Seq(Block), allocas : Seq(Block), variadic : Seq(Block), root : BOOLEAN]
HeapRec == [size : Block, area : BOOLEAN]

Unchecked(f) == Sum(f.variadic) + IF f.root THEN Sum(f.vars) ELSE 0

FB == [f \in FrameRec |-> FrameBytes(f)]
FN == [f \in FrameRec |-> FrameBlocks(f)]
FU == [f \in FrameRec |-> Unchecked(f)]
HB == [h \in HeapRec |-> h.size]
HU == [h \in HeapRec |-> IF h.area THEN h.size ELSE 0]
HN == [h \in HeapRec |-> 1]

NumBlocks(fs, hp)    == Over(FN, fs) + Len(hp) + Len(Fixed)
NumBytes(fs, hp)     == Over(FB, fs) + Over(HB, hp) + Sum(Fixed)
NumUnchecked(fs, hp) == Over(FU, fs) + Over(HU, hp) + Sum(Fixed)

\* What a frame holds.
LEMMA FrameFacts ==
    ASSUME NEW f \in FrameRec
    PROVE  /\ FB[f] = FrameBytes(f) /\ FN[f] = FrameBlocks(f) /\ FU[f] = Unchecked(f)
           /\ FB[f] \in Nat /\ FN[f] \in Nat /\ FU[f] \in Nat
           /\ FB[f] <= FN[f] * HostMax /\ FU[f] <= FB[f] * 1
<1>1. /\ FB[f] = Sum(f.vars) + Sum(f.allocas) + Sum(f.variadic)
      /\ FN[f] = Len(f.vars) + Len(f.allocas) + Len(f.variadic)
      /\ FU[f] = Sum(f.variadic) + IF f.root THEN Sum(f.vars) ELSE 0
  BY DEF FB, FN, FU, FrameBytes, FrameBlocks, Unchecked
<1>2. FB[f] = FrameBytes(f) /\ FN[f] = FrameBlocks(f) /\ FU[f] = Unchecked(f)
  BY DEF FB, FN, FU
<1>3. f.vars \in Seq(Block) /\ f.allocas \in Seq(Block) /\ f.variadic \in Seq(Block)
  BY DEF FrameRec
<1> DEFINE a == Sum(f.vars)
           b == Sum(f.allocas)
           c == Sum(f.variadic)
           k == Len(f.vars)
           l == Len(f.allocas)
           m == Len(f.variadic)
<1>4. a <= k * HostMax /\ b <= l * HostMax /\ c <= m * HostMax
  BY <1>3, SizesBound
<1>5. /\ a \in Nat /\ b \in Nat /\ c \in Nat /\ k \in Nat /\ l \in Nat /\ m \in Nat
  BY <1>3, SizesBound, SizesType
<1>6. FB[f] = a + b + c /\ FN[f] = k + l + m /\ (FU[f] = c \/ FU[f] = c + a)
  BY <1>1, <1>5
<1> HIDE DEF a, b, c, k, l, m
<1>7. HostMax \in Nat
  BY LimitAssumption
<1>8. (k + l + m) * HostMax = k * HostMax + l * HostMax + m * HostMax
  BY <1>5, <1>7
<1>9. k * HostMax \in Nat /\ l * HostMax \in Nat /\ m * HostMax \in Nat
  BY <1>5, <1>7
<1>10. FB[f] <= FN[f] * HostMax
  BY <1>4, <1>5, <1>6, <1>8, <1>9
<1>11. FB[f] \in Nat /\ FN[f] \in Nat /\ FU[f] \in Nat /\ FU[f] <= FB[f] * 1
  BY <1>5, <1>6
<1> QED
  BY <1>2, <1>10, <1>11

\* What a block of the heap holds.
LEMMA HeapFacts ==
    ASSUME NEW h \in HeapRec
    PROVE  /\ HB[h] = h.size /\ HU[h] = (IF h.area THEN h.size ELSE 0) /\ HN[h] = 1
           /\ HB[h] \in Nat /\ HU[h] \in Nat
           /\ HB[h] <= HN[h] * HostMax /\ HU[h] <= HB[h] * 1
<1>1. h.size \in Nat /\ h.size <= HostMax /\ HostMax \in Nat
  BY LimitAssumption DEF HeapRec, Block
<1>2. HB[h] = h.size /\ HU[h] = (IF h.area THEN h.size ELSE 0) /\ HN[h] = 1
  BY DEF HB, HU, HN
<1>3. HU[h] = h.size \/ HU[h] = 0
  BY <1>2
<1> QED
  BY <1>1, <1>2, <1>3

\* The blocks that exist before the program runs.
LEMMA FixedFacts ==
    /\ Len(Fixed) \in Nat /\ Sum(Fixed) \in Nat /\ Len(Fixed) <= Usable
    /\ Sum(Fixed) <= Len(Fixed) * HostMax
BY FixedAssumption, SizesBound, SizesType DEF Block

\* The heap's blocks are counted one by one.
LEMMA HeapCount ==
    ASSUME NEW hp \in Seq(HeapRec)
    PROVE  Over(HN, hp) = Len(hp)
<1> DEFINE t == [i \in DOMAIN hp |-> HN[hp[i]]]
           n == Len(hp)
<1>1. \A h \in HeapRec : HN[h] \in Int /\ HN[h] = 1
  BY HeapFacts
<1>2. /\ IsSum(Over(HN, hp), t, n)
      /\ \A i \in 1 .. n : t[i] = HN[hp[i]] /\ hp[i] \in HeapRec
  BY <1>1, OverSum
<1> HIDE DEF t, n
<1>3. \A i \in 1 .. n : t[i] = 1
  BY <1>1, <1>2
<1>4. Over(HN, hp) = n
  BY <1>2, <1>3, SumOnes
<1> QED
  BY <1>4 DEF n

\* The numbers of a state are those of its frames and its heap.
LEMMA Totals ==
    ASSUME frames \in Seq(FrameRec), heap \in Seq(HeapRec)
    PROVE  /\ Blocks = NumBlocks(frames, heap) /\ Bytes = NumBytes(frames, heap)
           /\ UncheckedBytes = NumUnchecked(frames, heap)
<1>1. \A i \in DOMAIN frames : frames[i] \in FrameRec
  BY ElementOfSeq, LenProperties
<1>2. \A i \in DOMAIN heap : heap[i] \in HeapRec
  BY ElementOfSeq, LenProperties
<1>3. [i \in DOMAIN frames |-> FrameBlocks(frames[i])] = [i \in DOMAIN frames |-> FN[frames[i]]]
  BY <1>1, FrameFacts, Zenon
<1>4. [i \in DOMAIN frames |-> FrameBytes(frames[i])] = [i \in DOMAIN frames |-> FB[frames[i]]]
  BY <1>1, FrameFacts, Zenon
<1>5. [i \in DOMAIN frames |->
            Sum(frames[i].variadic)
            + IF frames[i].root THEN Sum(frames[i].vars) ELSE 0]
         = [i \in DOMAIN frames |-> FU[frames[i]]]
  <2>1. \A i \in DOMAIN frames :
           FU[frames[i]] = Sum(frames[i].variadic)
                           + IF frames[i].root THEN Sum(frames[i].vars) ELSE 0
    BY <1>1, FrameFacts DEF Unchecked
  <2> QED
    BY <2>1, Zenon
<1>6. [i \in DOMAIN heap |-> heap[i].size] = [i \in DOMAIN heap |-> HB[heap[i]]]
  BY <1>2, HeapFacts, Zenon
<1>7. [i \in DOMAIN heap |-> IF heap[i].area THEN heap[i].size ELSE 0]
         = [i \in DOMAIN heap |-> HU[heap[i]]]
  BY <1>2, HeapFacts, Zenon
<1> QED
  BY <1>3, <1>4, <1>5, <1>6, <1>7
     DEF Blocks, Bytes, UncheckedBytes, NumBlocks, NumBytes, NumUnchecked, Over

----------------------------------------------------------------------------
(* The books: fr segments are left, ct bytes are counted, ls are lost.      *)

Book(fs, hp, fr, ct, ls) ==
    /\ fs \in Seq(FrameRec) /\ hp \in Seq(HeapRec) /\ fr \in Nat /\ ls \in Nat
    /\ fr = Usable - NumBlocks(fs, hp)
    /\ ct = NumBytes(fs, hp) + ls

\* All blocks together have the bytes of the usable segments at most.
LEMMA BookBound ==
    ASSUME NEW fs, NEW hp, NEW fr, NEW ct, NEW ls, Book(fs, hp, fr, ct, ls)
    PROVE  /\ NumBytes(fs, hp) \in Nat /\ NumUnchecked(fs, hp) \in Nat
           /\ NumUnchecked(fs, hp) <= NumBytes(fs, hp)
           /\ NumBytes(fs, hp) <= Usable * HostMax
           /\ ct \in Nat /\ ls \in Nat /\ fr \in Nat
           /\ ct = NumBytes(fs, hp) + ls
           /\ ls <= MaxLost => ct < Wrap
<1> DEFINE n == Over(FN, fs)
           b == Over(FB, fs)
           u == Over(FU, fs)
           m == Len(hp)
           c == Over(HB, hp)
           v == Over(HU, hp)
           k == Len(Fixed)
           d == Sum(Fixed)
<1>1. /\ Usable \in Nat /\ HostMax \in Nat /\ MaxLost \in Nat /\ Wrap \in Nat
      /\ Usable * HostMax + MaxLost < Wrap
  BY LimitAssumption, WrapAssumption
<1>2. fs \in Seq(FrameRec) /\ hp \in Seq(HeapRec)
  BY DEF Book
<1>3. n \in Nat /\ b \in Nat /\ u \in Nat /\ b <= n * HostMax /\ u <= b * 1
  <2>1. /\ \A f \in FrameRec : FN[f] \in Nat
        /\ \A f \in FrameRec : FB[f] \in Nat
        /\ \A f \in FrameRec : FU[f] \in Nat
    BY FrameFacts
  <2>2. n \in Nat /\ b \in Nat /\ u \in Nat
    BY ONLY <1>2, <2>1, OverType
  <2>3. \A f \in FrameRec : FB[f] \in Int /\ FN[f] \in Int /\ FB[f] <= FN[f] * HostMax
    BY FrameFacts
  <2>4. \A f \in FrameRec : FU[f] \in Int /\ FB[f] \in Int /\ FU[f] <= FB[f] * 1
    BY FrameFacts
  <2>5. b <= n * HostMax
    BY ONLY <1>1, <1>2, <2>3, OverBound
  <2>6. u <= b * 1
    BY ONLY <1>2, <2>4, OverBound
  <2> QED
    BY <2>2, <2>5, <2>6
<1>4. m \in Nat /\ c \in Nat /\ v \in Nat /\ c <= m * HostMax /\ v <= c * 1
  <2>1. /\ \A f \in HeapRec : HB[f] \in Nat
        /\ \A f \in HeapRec : HU[f] \in Nat
    BY HeapFacts
  <2>2. c \in Nat /\ v \in Nat
    BY ONLY <1>2, <2>1, OverType
  <2>3. \A f \in HeapRec : HB[f] \in Int /\ HN[f] \in Int /\ HB[f] <= HN[f] * HostMax
    BY HeapFacts
  <2>4. \A f \in HeapRec : HU[f] \in Int /\ HB[f] \in Int /\ HU[f] <= HB[f] * 1
    BY HeapFacts
  <2>5. c <= Over(HN, hp) * HostMax
    BY ONLY <1>1, <1>2, <2>3, OverBound
  <2>6. v <= c * 1
    BY ONLY <1>2, <2>4, OverBound
  <2>7. m \in Nat
    BY <1>2, LenProperties
  <2> QED
    BY <1>2, <2>2, <2>5, <2>6, <2>7, HeapCount
<1>5. k \in Nat /\ d \in Nat /\ d <= k * HostMax
  BY FixedFacts
<1>6. /\ fr \in Nat /\ ls \in Nat /\ fr = Usable - (n + m + k) /\ ct = (b + c + d) + ls
      /\ NumBytes(fs, hp) = b + c + d /\ NumUnchecked(fs, hp) = u + v + d
  BY DEF Book, NumBlocks, NumBytes, NumUnchecked
<1> HIDE DEF n, b, u, m, c, v, k, d
<1>7. b + c + d <= (n + m + k) * HostMax
  <2>1. (n + m + k) * HostMax = n * HostMax + m * HostMax + k * HostMax
    BY <1>1, <1>3, <1>4, <1>5
  <2>2. n * HostMax \in Nat /\ m * HostMax \in Nat /\ k * HostMax \in Nat
    BY <1>1, <1>3, <1>4, <1>5
  <2> QED
    BY <1>3, <1>4, <1>5, <2>1, <2>2
<1>8. (n + m + k) * HostMax <= Usable * HostMax
  <2>1. Usable = (n + m + k) + fr
    BY <1>1, <1>3, <1>4, <1>5, <1>6
  <2>2. \A x, y, z \in Nat : x * z <= (x + y) * z
    OBVIOUS
  <2>3. n + m + k \in Nat
    BY <1>3, <1>4, <1>5
  <2> QED
    BY <1>1, <1>6, <2>1, <2>2, <2>3
<1>9. (n + m + k) * HostMax \in Nat /\ Usable * HostMax \in Nat
  BY <1>1, <1>3, <1>4, <1>5
<1>10. b + c + d <= Usable * HostMax
  BY <1>3, <1>4, <1>5, <1>7, <1>8, <1>9
<1> QED
  BY <1>1, <1>3, <1>4, <1>5, <1>6, <1>9, <1>10

\* Bytes are lost.
LEMMA BookLose ==
    ASSUME NEW fs, NEW hp, NEW fr, NEW ct, NEW ls, Book(fs, hp, fr, ct, ls), NEW d \in Nat
    PROVE  Book(fs, hp, fr, ct + d, ls + d)
<1>1. ct \in Nat /\ ls \in Nat /\ NumBytes(fs, hp) \in Nat /\ ct = NumBytes(fs, hp) + ls
  BY BookBound
<1> QED
  BY <1>1 DEF Book

\* The numbers that a book is made of.
LEMMA BookTypes ==
    ASSUME NEW fs, NEW hp, NEW fr, NEW ct, NEW ls, Book(fs, hp, fr, ct, ls)
    PROVE  /\ Over(FN, fs) \in Nat /\ Over(FB, fs) \in Nat /\ Over(FU, fs) \in Nat
           /\ Over(HB, hp) \in Nat /\ Over(HU, hp) \in Nat
           /\ Len(hp) \in Nat /\ Len(Fixed) \in Nat /\ Sum(Fixed) \in Nat /\ Usable \in Nat
           /\ fs \in Seq(FrameRec) /\ hp \in Seq(HeapRec)
<1>1. fs \in Seq(FrameRec) /\ hp \in Seq(HeapRec)
  BY DEF Book
<1>2. /\ \A f \in FrameRec : FN[f] \in Nat
      /\ \A f \in FrameRec : FB[f] \in Nat
      /\ \A f \in FrameRec : FU[f] \in Nat
      /\ \A x \in HeapRec : HB[x] \in Nat
      /\ \A x \in HeapRec : HU[x] \in Nat
  BY FrameFacts, HeapFacts
<1> QED
  BY <1>1, <1>2, OverType, FixedFacts, LenProperties, LimitAssumption

\* A segment less is left for each block more, and its bytes are counted.
Moved(fs, hp, fr, ct, gs, gp, x, y) ==
    /\ gs \in Seq(FrameRec) /\ gp \in Seq(HeapRec) /\ x \in Nat /\ y \in Int
    /\ NumBlocks(gs, gp) \in Int /\ NumBytes(gs, gp) \in Int
    /\ x + NumBlocks(gs, gp) = fr + NumBlocks(fs, hp)
    /\ y - NumBytes(gs, gp) = ct - NumBytes(fs, hp)

\* Books that move like this stay books.
LEMMA BookMove ==
    ASSUME NEW fs, NEW hp, NEW fr, NEW ct, NEW ls, Book(fs, hp, fr, ct, ls),
           NEW gs, NEW gp, NEW x, NEW y, Moved(fs, hp, fr, ct, gs, gp, x, y)
    PROVE  Book(gs, gp, x, y, ls)
<1> DEFINE p == NumBlocks(fs, hp)
           q == NumBytes(fs, hp)
           n == NumBlocks(gs, gp)
           b == NumBytes(gs, gp)
<1>1. p \in Nat /\ q \in Nat /\ Usable \in Nat
  <2>1. p = Over(FN, fs) + Len(hp) + Len(Fixed) /\ q = Over(FB, fs) + Over(HB, hp) + Sum(Fixed)
    BY DEF NumBlocks, NumBytes
  <2>2. /\ Over(FN, fs) \in Nat /\ Over(FB, fs) \in Nat /\ Over(HB, hp) \in Nat
        /\ Len(hp) \in Nat /\ Len(Fixed) \in Nat /\ Sum(Fixed) \in Nat /\ Usable \in Nat
    BY BookTypes
  <2> HIDE DEF p, q
  <2> QED
    BY ONLY <2>1, <2>2
<1>2. fr = Usable - p /\ ct = q + ls /\ ls \in Nat
  BY DEF Book
<1>3. /\ n \in Int /\ b \in Int /\ x \in Nat /\ y \in Int
      /\ x + n = fr + p /\ y - b = ct - q
      /\ gs \in Seq(FrameRec) /\ gp \in Seq(HeapRec)
  BY DEF Moved
<1> HIDE DEF p, q, n, b
<1>4. x = Usable - n /\ y = b + ls
  BY <1>1, <1>2, <1>3
<1> QED
  BY <1>2, <1>3, <1>4 DEF Book, n, b

\* The heap grows by a block.
LEMMA BookPushHeap ==
    ASSUME NEW fs, NEW hp, NEW fr, NEW ct, NEW ls, Book(fs, hp, fr, ct, ls),
           NEW h \in HeapRec, fr > 0
    PROVE  /\ Book(fs, Append(hp, h), fr - 1, ct + h.size, ls)
           /\ NumUnchecked(fs, Append(hp, h)) = NumUnchecked(fs, hp) + HU[h]
<1> DEFINE gp == Append(hp, h)
           n == Over(FN, fs)
           b == Over(FB, fs)
           u == Over(FU, fs)
           m == Len(hp)
           c == Over(HB, hp)
           v == Over(HU, hp)
           k == Len(Fixed)
           d == Sum(Fixed)
           z == h.size
<1>1. /\ n \in Nat /\ b \in Nat /\ u \in Nat /\ m \in Nat /\ c \in Nat /\ v \in Nat
      /\ k \in Nat /\ d \in Nat
  BY BookTypes
<1>2. fs \in Seq(FrameRec) /\ hp \in Seq(HeapRec)
  BY DEF Book
<1>3. /\ \A x \in HeapRec : HB[x] \in Int
      /\ \A x \in HeapRec : HU[x] \in Int
  BY HeapFacts
<1>4. gp \in Seq(HeapRec) /\ Len(gp) = m + 1
  BY <1>2, AppendProperties
<1>5. Over(HB, gp) = c + HB[h]
  BY ONLY <1>2, <1>3, OverPush
<1>6. Over(HU, gp) = v + HU[h]
  BY ONLY <1>2, <1>3, OverPush
<1>7. HB[h] = z /\ z \in Nat /\ HU[h] \in Nat
  BY HeapFacts
<1>8. /\ NumBlocks(fs, hp) = n + m + k /\ NumBlocks(fs, gp) = n + Len(gp) + k
      /\ NumBytes(fs, hp) = b + c + d /\ NumBytes(fs, gp) = b + Over(HB, gp) + d
      /\ NumUnchecked(fs, hp) = u + v + d /\ NumUnchecked(fs, gp) = u + Over(HU, gp) + d
  BY DEF NumBlocks, NumBytes, NumUnchecked
<1>9. fr \in Nat /\ ct \in Nat
  BY BookBound
<1> HIDE DEF gp, n, b, u, m, c, v, k, d, z
<1>10. /\ NumBlocks(fs, gp) = NumBlocks(fs, hp) + 1 /\ NumBytes(fs, gp) = NumBytes(fs, hp) + z
       /\ NumUnchecked(fs, gp) = NumUnchecked(fs, hp) + HU[h]
       /\ NumBlocks(fs, hp) \in Nat /\ NumBytes(fs, hp) \in Nat
  <2>1. Len(gp) = m + 1 /\ Over(HB, gp) = c + z
    BY <1>4, <1>5, <1>7
  <2>2. NumBlocks(fs, gp) = n + (m + 1) + k /\ NumBytes(fs, gp) = b + (c + z) + d
    BY <1>8, <2>1
  <2> QED
    BY ONLY <1>1, <1>6, <1>7, <1>8, <2>2
<1>11. /\ fr - 1 \in Nat /\ ct + z \in Int
       /\ NumBlocks(fs, gp) \in Int /\ NumBytes(fs, gp) \in Int
       /\ (fr - 1) + NumBlocks(fs, gp) = fr + NumBlocks(fs, hp)
       /\ (ct + z) - NumBytes(fs, gp) = ct - NumBytes(fs, hp)
  BY <1>7, <1>9, <1>10
<1>12. Book(fs, gp, fr - 1, ct + z, ls)
  <2>1. Moved(fs, hp, fr, ct, fs, gp, fr - 1, ct + z)
    BY <1>2, <1>4, <1>11 DEF Moved
  <2> QED
    BY <2>1, BookMove
<1> QED
  BY <1>10, <1>12 DEF gp, z

\* The heap shrinks by a block.
LEMMA BookDropHeap ==
    ASSUME NEW fs, NEW hp, NEW fr, NEW ct, NEW ls, Book(fs, hp, fr, ct, ls),
           NEW i \in 1 .. Len(hp)
    PROVE  /\ Book(fs, RemoveAt(hp, i), fr + 1, ct - hp[i].size, ls)
           /\ NumUnchecked(fs, RemoveAt(hp, i)) = NumUnchecked(fs, hp) - HU[hp[i]]
           /\ hp[i] \in HeapRec
<1> DEFINE gp == RemoveAt(hp, i)
           n == Over(FN, fs)
           b == Over(FB, fs)
           u == Over(FU, fs)
           m == Len(hp)
           c == Over(HB, hp)
           v == Over(HU, hp)
           k == Len(Fixed)
           d == Sum(Fixed)
           h == hp[i]
           z == h.size
<1>1. /\ n \in Nat /\ b \in Nat /\ u \in Nat /\ m \in Nat /\ c \in Nat /\ v \in Nat
      /\ k \in Nat /\ d \in Nat
  BY BookTypes
<1>2. fs \in Seq(FrameRec) /\ hp \in Seq(HeapRec)
  BY DEF Book
<1>3. /\ \A x \in HeapRec : HB[x] \in Int
      /\ \A x \in HeapRec : HU[x] \in Int
  BY HeapFacts
<1>4. gp \in Seq(HeapRec) /\ Len(gp) = m - 1 /\ Over(HB, gp) = c - HB[h]
  BY ONLY <1>2, <1>3, OverRemove
<1>5. Over(HU, gp) = v - HU[h]
  BY ONLY <1>2, <1>3, OverRemove
<1>6. h \in HeapRec
  BY <1>2, ElementOfSeq
<1>7. HB[h] = z /\ z \in Nat /\ HU[h] \in Nat
  BY <1>6, HeapFacts
<1>8. /\ NumBlocks(fs, hp) = n + m + k /\ NumBlocks(fs, gp) = n + Len(gp) + k
      /\ NumBytes(fs, hp) = b + c + d /\ NumBytes(fs, gp) = b + Over(HB, gp) + d
      /\ NumUnchecked(fs, hp) = u + v + d /\ NumUnchecked(fs, gp) = u + Over(HU, gp) + d
  BY DEF NumBlocks, NumBytes, NumUnchecked
<1>9. fr \in Nat /\ ct \in Nat
  BY BookBound
<1> HIDE DEF gp, n, b, u, m, c, v, k, d, h, z
<1>10. /\ NumBlocks(fs, gp) = NumBlocks(fs, hp) - 1
       /\ NumBytes(fs, gp) = NumBytes(fs, hp) - z
       /\ NumUnchecked(fs, gp) = NumUnchecked(fs, hp) - HU[h]
       /\ NumBlocks(fs, hp) \in Nat /\ NumBytes(fs, hp) \in Nat
  <2>1. Len(gp) = m - 1 /\ Over(HB, gp) = c - z
    BY <1>4, <1>7
  <2>2. NumBlocks(fs, gp) = n + (m - 1) + k /\ NumBytes(fs, gp) = b + (c - z) + d
    BY <1>8, <2>1
  <2>3. NumUnchecked(fs, gp) = u + (v - HU[h]) + d
    BY <1>5, <1>8
  <2>4. NumBlocks(fs, hp) = n + m + k /\ NumBytes(fs, hp) = b + c + d
    BY <1>8
  <2>5. NumBlocks(fs, gp) = NumBlocks(fs, hp) - 1 /\ NumBlocks(fs, hp) \in Nat
    BY ONLY <1>1, <2>2, <2>4
  <2>6. NumBytes(fs, gp) = NumBytes(fs, hp) - z /\ NumBytes(fs, hp) \in Nat
    BY ONLY <1>1, <1>7, <2>2, <2>4
  <2>7. NumUnchecked(fs, gp) = NumUnchecked(fs, hp) - HU[h]
    BY ONLY <1>1, <1>7, <1>8, <2>3
  <2> QED
    BY <2>5, <2>6, <2>7
<1>11. /\ fr + 1 \in Nat /\ ct - z \in Int
       /\ NumBlocks(fs, gp) \in Int /\ NumBytes(fs, gp) \in Int
       /\ (fr + 1) + NumBlocks(fs, gp) = fr + NumBlocks(fs, hp)
       /\ (ct - z) - NumBytes(fs, gp) = ct - NumBytes(fs, hp)
  BY <1>7, <1>9, <1>10, SMTT(30)
<1>12. Book(fs, gp, fr + 1, ct - z, ls)
  <2>1. Moved(fs, hp, fr, ct, fs, gp, fr + 1, ct - z)
    BY <1>2, <1>4, <1>11 DEF Moved
  <2> QED
    BY <2>1, BookMove
<1> QED
  BY <1>6, <1>10, <1>12 DEF gp, h, z

\* A frame is pushed.
LEMMA BookPushFrame ==
    ASSUME NEW fs, NEW hp, NEW fr, NEW ct, NEW ls, Book(fs, hp, fr, ct, ls),
           NEW f \in FrameRec, FN[f] <= fr
    PROVE  /\ Book(Append(fs, f), hp, fr - FN[f], ct + FB[f], ls)
           /\ NumUnchecked(Append(fs, f), hp) = NumUnchecked(fs, hp) + FU[f]
<1> DEFINE gs == Append(fs, f)
           n == Over(FN, fs)
           b == Over(FB, fs)
           u == Over(FU, fs)
           m == Len(hp)
           c == Over(HB, hp)
           v == Over(HU, hp)
           k == Len(Fixed)
           d == Sum(Fixed)
           p == FN[f]
           q == FB[f]
           w == FU[f]
<1>1. /\ n \in Nat /\ b \in Nat /\ u \in Nat /\ m \in Nat /\ c \in Nat /\ v \in Nat
      /\ k \in Nat /\ d \in Nat
  BY BookTypes
<1>2. fs \in Seq(FrameRec) /\ hp \in Seq(HeapRec)
  BY DEF Book
<1>3. /\ \A x \in FrameRec : FN[x] \in Int
      /\ \A x \in FrameRec : FB[x] \in Int
      /\ \A x \in FrameRec : FU[x] \in Int
  BY FrameFacts
<1>4. gs \in Seq(FrameRec)
  BY <1>2, AppendProperties
<1>5. Over(FN, gs) = n + p
  BY ONLY <1>2, <1>3, OverPush
<1>6. Over(FB, gs) = b + q
  BY ONLY <1>2, <1>3, OverPush
<1>7. Over(FU, gs) = u + w
  BY ONLY <1>2, <1>3, OverPush
<1>8. p \in Nat /\ q \in Nat /\ w \in Nat /\ p <= fr
  BY FrameFacts
<1>9. fr \in Nat /\ ct \in Nat
  BY BookBound
<1>10. /\ NumBlocks(fs, hp) = n + m + k /\ NumBlocks(gs, hp) = Over(FN, gs) + m + k
       /\ NumBytes(fs, hp) = b + c + d /\ NumBytes(gs, hp) = Over(FB, gs) + c + d
       /\ NumUnchecked(fs, hp) = u + v + d /\ NumUnchecked(gs, hp) = Over(FU, gs) + v + d
  BY DEF NumBlocks, NumBytes, NumUnchecked
<1> HIDE DEF gs, n, b, u, m, c, v, k, d, p, q, w
<1>11. /\ NumBlocks(gs, hp) = NumBlocks(fs, hp) + p /\ NumBlocks(fs, hp) \in Nat
       /\ NumBytes(gs, hp) = NumBytes(fs, hp) + q /\ NumBytes(fs, hp) \in Nat
       /\ NumUnchecked(gs, hp) = NumUnchecked(fs, hp) + w
  <2>1. NumBlocks(gs, hp) = (n + p) + m + k
    BY <1>5, <1>10
  <2>2. NumBytes(gs, hp) = (b + q) + c + d
    BY <1>6, <1>10
  <2>3. NumUnchecked(gs, hp) = (u + w) + v + d
    BY <1>7, <1>10
  <2> QED
    BY ONLY <1>1, <1>8, <1>10, <2>1, <2>2, <2>3
<1>12. /\ fr - p \in Nat /\ ct + q \in Int
       /\ NumBlocks(gs, hp) \in Int /\ NumBytes(gs, hp) \in Int
       /\ (fr - p) + NumBlocks(gs, hp) = fr + NumBlocks(fs, hp)
       /\ (ct + q) - NumBytes(gs, hp) = ct - NumBytes(fs, hp)
  BY <1>8, <1>9, <1>11
<1>13. Book(gs, hp, fr - p, ct + q, ls)
  <2>1. Moved(fs, hp, fr, ct, gs, hp, fr - p, ct + q)
    BY <1>2, <1>4, <1>12 DEF Moved
  <2> QED
    BY <2>1, BookMove
<1> QED
  BY <1>11, <1>13 DEF gs, p, q, w

\* A frame is popped.
LEMMA BookPopFrame ==
    ASSUME NEW fs, NEW hp, NEW fr, NEW ct, NEW ls, Book(fs, hp, fr, ct, ls), fs # <<>>
    PROVE  /\ Book(Front(fs), hp, fr + FN[Last(fs)], ct - FB[Last(fs)], ls)
           /\ NumUnchecked(Front(fs), hp) = NumUnchecked(fs, hp) - FU[Last(fs)]
           /\ Last(fs) \in FrameRec
<1> DEFINE gs == Front(fs)
           n == Over(FN, gs)
           b == Over(FB, gs)
           u == Over(FU, gs)
           m == Len(hp)
           c == Over(HB, hp)
           v == Over(HU, hp)
           k == Len(Fixed)
           d == Sum(Fixed)
           f == Last(fs)
           p == FN[f]
           q == FB[f]
           w == FU[f]
<1>1. fs \in Seq(FrameRec) /\ hp \in Seq(HeapRec)
  BY DEF Book
<1>2. gs \in Seq(FrameRec) /\ f \in FrameRec
  BY <1>1, PopFact
<1>3. /\ \A x \in FrameRec : FN[x] \in Int
      /\ \A x \in FrameRec : FB[x] \in Int
      /\ \A x \in FrameRec : FU[x] \in Int
  BY FrameFacts
<1>4. /\ \A x \in FrameRec : FN[x] \in Nat
      /\ \A x \in FrameRec : FB[x] \in Nat
      /\ \A x \in FrameRec : FU[x] \in Nat
  BY FrameFacts
<1>5. Over(FN, fs) = n + p
  BY ONLY <1>1, <1>3, OverPop, fs # <<>>
<1>6. Over(FB, fs) = b + q
  BY ONLY <1>1, <1>3, OverPop, fs # <<>>
<1>7. Over(FU, fs) = u + w
  BY ONLY <1>1, <1>3, OverPop, fs # <<>>
<1>8. p \in Nat /\ q \in Nat /\ w \in Nat
  BY <1>2, FrameFacts
<1>9. fr \in Nat /\ ct \in Nat /\ m \in Nat /\ c \in Nat /\ v \in Nat /\ k \in Nat /\ d \in Nat
  BY BookBound, BookTypes
<1>10. n \in Nat /\ b \in Nat /\ u \in Nat
  BY ONLY <1>2, <1>4, OverType
<1>11. /\ NumBlocks(fs, hp) = Over(FN, fs) + m + k /\ NumBlocks(gs, hp) = n + m + k
       /\ NumBytes(fs, hp) = Over(FB, fs) + c + d /\ NumBytes(gs, hp) = b + c + d
       /\ NumUnchecked(fs, hp) = Over(FU, fs) + v + d /\ NumUnchecked(gs, hp) = u + v + d
  BY DEF NumBlocks, NumBytes, NumUnchecked
<1> HIDE DEF gs, n, b, u, m, c, v, k, d, f, p, q, w
<1>12. /\ NumBlocks(fs, hp) = NumBlocks(gs, hp) + p /\ NumBlocks(gs, hp) \in Nat
       /\ NumBytes(fs, hp) = NumBytes(gs, hp) + q /\ NumBytes(gs, hp) \in Nat
       /\ NumUnchecked(fs, hp) = NumUnchecked(gs, hp) + w /\ NumUnchecked(gs, hp) \in Nat
  <2>1. NumBlocks(fs, hp) = (n + p) + m + k
    BY <1>5, <1>11
  <2>2. NumBytes(fs, hp) = (b + q) + c + d
    BY <1>6, <1>11
  <2>3. NumUnchecked(fs, hp) = (u + w) + v + d
    BY <1>7, <1>11
  <2> QED
    BY ONLY <1>8, <1>9, <1>10, <1>11, <2>1, <2>2, <2>3
<1>13. /\ fr + p \in Nat /\ ct - q \in Int
       /\ NumBlocks(gs, hp) \in Int /\ NumBytes(gs, hp) \in Int
       /\ (fr + p) + NumBlocks(gs, hp) = fr + NumBlocks(fs, hp)
       /\ (ct - q) - NumBytes(gs, hp) = ct - NumBytes(fs, hp)
       /\ NumUnchecked(gs, hp) = NumUnchecked(fs, hp) - w
  BY <1>8, <1>9, <1>12
<1>14. Book(gs, hp, fr + p, ct - q, ls)
  <2>1. Moved(fs, hp, fr, ct, gs, hp, fr + p, ct - q)
    BY <1>1, <1>2, <1>13 DEF Moved
  <2> QED
    BY <2>1, BookMove
<1> QED
  BY <1>2, <1>13, <1>14 DEF gs, f, p, q, w

----------------------------------------------------------------------------
(* Building blocks.                                                         *)

State == [ok : BOOLEAN, free : Nat, counted : Nat, lost : Nat, built : Seq(Block)]

\* One block: it joins the built ones, or nothing does and no segment is taken.
LEMMA BuildFact ==
    ASSUME NEW s \in State, NEW n \in Nat
    PROVE  LET r == Build(s, n) IN
           /\ r \in State
           /\ \/ /\ r.ok /\ s.ok /\ n \in Block /\ s.free > 0
                 /\ r.free = s.free - 1 /\ r.counted = s.counted + n /\ r.lost = s.lost
                 /\ r.built = Append(s.built, n)
              \/ /\ ~r.ok /\ r.free = s.free /\ r.built = s.built
                 /\ r.lost >= s.lost /\ r.counted = s.counted + (r.lost - s.lost)
                 /\ s.ok => n > HostMax \/ s.free = 0
                 /\ r.lost = s.lost \/ r.lost = s.lost + n
<1> DEFINE r == Build(s, n)
<1>1. /\ s.ok \in BOOLEAN /\ s.free \in Nat /\ s.counted \in Nat /\ s.lost \in Nat
      /\ s.built \in Seq(Block) /\ HostMax \in Nat
  BY LimitAssumption DEF State
<1>2. CASE ~s.ok \/ n > HostMax
  <2>0. ~(s.ok /\ n <= HostMax /\ s.free = 0)
    BY <1>1, <1>2
  <2>1. r = [s EXCEPT !.ok = FALSE]
    BY <1>2, <2>0 DEF Build
  <2>2. r \in State /\ ~r.ok /\ r.free = s.free /\ r.built = s.built /\ r.lost = s.lost
        /\ r.counted = s.counted
    BY <2>1 DEF State
  <2> HIDE DEF r
  <2> QED
    BY <1>1, <1>2, <2>2 DEF r
<1>3. CASE s.ok /\ n <= HostMax /\ s.free = 0
  <2>0. ~(~s.ok \/ n > HostMax)
    BY <1>1, <1>3
  <2>1. r = [s EXCEPT !.ok = FALSE, !.counted = @ + n, !.lost = @ + n]
    BY <1>3, <2>0 DEF Build
  <2>2. r = [ok |-> FALSE, free |-> s.free, counted |-> s.counted + n,
             lost |-> s.lost + n, built |-> s.built]
    BY <2>1 DEF State
  <2>3. s.counted + n \in Nat /\ s.lost + n \in Nat
    BY <1>1
  <2>4. r \in State /\ ~r.ok /\ r.free = s.free /\ r.built = s.built /\ r.lost = s.lost + n
        /\ r.counted = s.counted + n
    BY <1>1, <2>2, <2>3 DEF State
  <2> HIDE DEF r
  <2> QED
    BY <1>1, <1>3, <2>4 DEF r
<1>4. CASE s.ok /\ n <= HostMax /\ s.free # 0
  <2>0. ~(~s.ok \/ n > HostMax) /\ ~(s.ok /\ n <= HostMax /\ s.free = 0)
    BY <1>1, <1>4
  <2>1. r = [s EXCEPT !.free = @ - 1, !.counted = @ + n, !.built = Append(@, n)]
    BY <2>0 DEF Build
  <2>2. r = [ok |-> s.ok, free |-> s.free - 1, counted |-> s.counted + n,
             lost |-> s.lost, built |-> Append(s.built, n)]
    BY <2>1 DEF State
  <2>3. s.counted + n \in Nat /\ s.free - 1 \in Nat /\ s.free > 0 /\ n \in Block
    BY <1>1, <1>4 DEF Block
  <2>4. Append(s.built, n) \in Seq(Block)
    BY <1>1, <2>3, AppendProperties
  <2>5. r \in State /\ r.ok /\ r.free = s.free - 1 /\ r.built = Append(s.built, n)
        /\ r.lost = s.lost /\ r.counted = s.counted + n
    BY <1>1, <1>4, <2>2, <2>3, <2>4 DEF State
  <2> HIDE DEF r
  <2> QED
    BY <1>4, <2>3, <2>5 DEF r
<1> QED
  BY <1>1, <1>2, <1>3, <1>4

\* What is true of r after the first k blocks were built, starting with s.
Built(s, r, sizes, k) ==
    /\ r \in State /\ k \in Nat /\ Len(r.built) <= k /\ Len(r.built) <= s.free
    /\ r.free = s.free - Len(r.built)
    /\ r.lost >= s.lost /\ r.counted = s.counted + Sum(r.built) + (r.lost - s.lost)
    /\ r.ok => /\ Len(r.built) = k /\ r.lost = s.lost
               /\ \A i \in 1 .. k : r.built[i] = sizes[i]
    /\ ~r.ok => k > s.free \/ \E i \in 1 .. k : sizes[i] > HostMax

\* Before the first block.
LEMMA BuiltNone ==
    ASSUME NEW s \in State, s.ok, NEW sizes
    PROVE  Built(s, [s EXCEPT !.built = <<>>], sizes, 0)
<1> DEFINE r == [s EXCEPT !.built = <<>>]
<1>1. /\ s.free \in Nat /\ s.counted \in Nat /\ s.lost \in Nat
  BY DEF State
<1>2. r \in State /\ r.ok /\ r.built = <<>> /\ r.lost = s.lost /\ r.free = s.free
      /\ r.counted = s.counted
  BY NoSizes DEF State
<1> HIDE DEF r
<1>3. Sum(r.built) = 0 /\ Len(r.built) = 0
  BY <1>2, NoSizes
<1> QED
  BY <1>1, <1>2, <1>3 DEF r, Built

\* After the next block.
LEMMA BuiltMore ==
    ASSUME NEW s \in State, s.ok, NEW r, NEW sizes, NEW k \in Nat, Built(s, r, sizes, k),
           sizes[k + 1] \in Nat
    PROVE  Built(s, Build(r, sizes[k + 1]), sizes, k + 1)
<1> DEFINE n == sizes[k + 1]
           q == Build(r, n)
<1>1. r \in State /\ n \in Nat
  BY DEF Built
<1>2. /\ q \in State
      /\ \/ /\ q.ok /\ r.ok /\ n \in Block /\ r.free > 0
            /\ q.free = r.free - 1 /\ q.counted = r.counted + n /\ q.lost = r.lost
            /\ q.built = Append(r.built, n)
         \/ /\ ~q.ok /\ q.free = r.free /\ q.built = r.built
            /\ q.lost >= r.lost /\ q.counted = r.counted + (q.lost - r.lost)
            /\ r.ok => n > HostMax \/ r.free = 0
  BY <1>1, BuildFact
<1>3. /\ r.built \in Seq(Block) /\ r.built \in Seq(Nat) /\ Len(r.built) \in Nat
      /\ Sum(r.built) \in Nat
  BY <1>1, SizesBound, SizesType DEF State
<1>4. /\ s.free \in Nat /\ s.counted \in Nat /\ s.lost \in Nat
      /\ r.free \in Nat /\ r.counted \in Nat /\ r.lost \in Nat
      /\ q.free \in Nat /\ q.counted \in Nat /\ q.lost \in Nat
  BY <1>1, <1>2 DEF State
<1>5. sizes[k + 1] = n
  OBVIOUS
<1> HIDE DEF n, q
<1>6. /\ Len(r.built) <= k /\ Len(r.built) <= s.free
      /\ r.free = s.free - Len(r.built)
      /\ r.lost >= s.lost /\ r.counted = s.counted + Sum(r.built) + (r.lost - s.lost)
  BY DEF Built
<1>7. CASE q.ok
  <2>1. r.ok /\ n \in Block /\ r.free > 0 /\ q.free = r.free - 1 /\ q.counted = r.counted + n
        /\ q.lost = r.lost /\ q.built = Append(r.built, n)
    BY <1>2, <1>7
  <2>2. Len(q.built) = Len(r.built) + 1 /\ Sum(q.built) = Sum(r.built) + n
    BY <1>1, <1>3, <2>1, AppendProperties, SizesPush
  <2>3. Len(r.built) = k /\ r.lost = s.lost /\ \A i \in 1 .. k : r.built[i] = sizes[i]
    BY <2>1 DEF Built
  <2>4. /\ Append(r.built, n)[Len(r.built) + 1] = n
        /\ \A i \in 1 .. Len(r.built) : Append(r.built, n)[i] = r.built[i]
    BY <1>1, <1>3, AppendProperties
  <2>5. \A i \in 1 .. k + 1 : q.built[i] = sizes[i]
    <3>1. q.built[k + 1] = n /\ \A i \in 1 .. k : q.built[i] = sizes[i]
      BY <2>1, <2>3, <2>4
    <3>2. \A i \in 1 .. k + 1 : i = k + 1 \/ i \in 1 .. k
      OBVIOUS
    <3> QED
      BY <1>5, <3>1, <3>2
  <2>6. /\ Len(q.built) = k + 1 /\ Len(q.built) <= s.free
        /\ q.free = s.free - Len(q.built) /\ q.lost = s.lost
    BY <1>3, <1>4, <1>6, <2>1, <2>2, <2>3, SMTT(30)
  <2>7. q.counted = s.counted + Sum(q.built) + (q.lost - s.lost)
    <3>1. /\ q.counted = r.counted + n /\ Sum(q.built) = Sum(r.built) + n /\ q.lost = r.lost
          /\ n \in Nat /\ Sum(r.built) \in Nat
      BY <1>1, <1>3, <2>1, <2>2
    <3>2. r.counted = s.counted + Sum(r.built) + (r.lost - s.lost)
      BY <1>6
    <3> QED
      BY ONLY <1>4, <3>1, <3>2
  <2>8. k + 1 \in Nat /\ q.lost >= s.lost
    BY <1>4, <2>6
  <2> QED
    BY <1>2, <1>5, <1>7, <2>5, <2>6, <2>7, <2>8 DEF Built, n, q
<1>8. CASE ~q.ok
  <2>1. /\ q.free = r.free /\ q.built = r.built
        /\ q.lost >= r.lost /\ q.counted = r.counted + (q.lost - r.lost)
        /\ r.ok => n > HostMax \/ r.free = 0
    BY <1>2, <1>8
  <2>2. /\ Len(q.built) <= k + 1 /\ Len(q.built) <= s.free /\ q.free = s.free - Len(q.built)
        /\ q.lost >= s.lost
    <3>1. Len(q.built) = Len(r.built) /\ q.free = r.free /\ q.lost >= r.lost
      BY <2>1
    <3>2. Len(r.built) \in Nat
      BY <1>3
    <3> QED
      BY ONLY <1>4, <1>6, <3>1, <3>2, k \in Nat
  <2>3. q.counted = s.counted + Sum(q.built) + (q.lost - s.lost)
    <3>1. Sum(q.built) = Sum(r.built) /\ q.counted = r.counted + (q.lost - r.lost)
      BY <2>1
    <3>2. r.counted = s.counted + Sum(r.built) + (r.lost - s.lost) /\ Sum(r.built) \in Nat
      BY <1>3, <1>6
    <3> QED
      BY ONLY <1>4, <3>1, <3>2
  <2>4. k + 1 > s.free \/ \E i \in 1 .. k + 1 : sizes[i] > HostMax
    <3>1. k + 1 \in 1 .. k + 1 /\ \A i \in 1 .. k : i \in 1 .. k + 1
      OBVIOUS
    <3>2. CASE r.ok
      <4>1. Len(r.built) = k
        BY <3>2 DEF Built
      <4>2. r.free = 0 => k + 1 > s.free
        BY <1>4, <1>6, <4>1
      <4> QED
        BY <1>5, <2>1, <3>1, <3>2, <4>2
    <3>3. CASE ~r.ok
      <4>1. k > s.free \/ \E i \in 1 .. k : sizes[i] > HostMax
        BY <3>3 DEF Built
      <4>2. k > s.free => k + 1 > s.free
        BY <1>4
      <4> QED
        BY <3>1, <4>1, <4>2
    <3> QED
      BY <3>2, <3>3
  <2>5. k + 1 \in Nat
    OBVIOUS
  <2> QED
    BY <1>2, <1>8, <2>2, <2>3, <2>4, <2>5 DEF Built, n, q
<1> QED
  BY <1>7, <1>8

\* All blocks, and what BuildAll returns.
LEMMA BuildAllFact ==
    ASSUME NEW s \in State, s.ok, NEW sizes \in Seq(Nat)
    PROVE  Built(s, BuildAll(s, sizes), sizes, Len(sizes))
<1> DEFINE n == Len(sizes)
           b == [s EXCEPT !.built = <<>>]
           part == CHOOSE after :
                      after = [i \in 0 .. n |-> IF i = 0 THEN b
                                                ELSE Build(after[i - 1], sizes[i])]
           g == [i \in 1 .. n |-> [x \in State |-> Build(x, sizes[i])]]
<1>1. n \in Nat /\ \A i \in 1 .. n : sizes[i] \in Nat
  BY ElementOfSeq, LenProperties
<1>2. BuildAll(s, sizes) = part[n]
  BY DEF BuildAll
<1>3. Built(s, b, sizes, 0)
  BY BuiltNone
<1>4. \A i \in 1 .. n : \A x \in State : g[i][x] = Build(x, sizes[i])
  OBVIOUS
<1> HIDE DEF g, b, n
<1>5. PICK f : Follows(f, b, n, g)
  BY <1>1, Recursion
<1>6. f = [i \in 0 .. n |-> f[i]] /\ f[0] = b /\ \A i \in 1 .. n : f[i] = g[i][f[i - 1]]
  BY <1>5 DEF Follows
<1> DEFINE P == {k \in Nat : k <= n => Built(s, f[k], sizes, k)}
<1>7. 0 \in P
  BY <1>3, <1>6
<1>8. ASSUME NEW k \in Nat, k \in P PROVE k + 1 \in P
  <2>1. SUFFICES ASSUME k + 1 <= n PROVE Built(s, f[k + 1], sizes, k + 1)
    OBVIOUS
  <2>2. k + 1 \in 1 .. n /\ (k + 1) - 1 = k /\ Built(s, f[k], sizes, k)
    BY <1>1, <1>8, <2>1
  <2> HIDE DEF P
  <2>3. f[k] \in State
    BY <2>2 DEF Built
  <2>4. f[k + 1] = g[k + 1][f[k]]
    BY <1>6, <2>2
  <2>5. f[k + 1] = Build(f[k], sizes[k + 1])
    BY <1>4, <2>2, <2>3, <2>4
  <2>6. sizes[k + 1] \in Nat
    BY <1>1, <2>2
  <2>7. Built(s, Build(f[k], sizes[k + 1]), sizes, k + 1)
    BY <2>2, <2>6, BuiltMore
  <2> QED
    BY <2>5, <2>7
<1>9. \A k \in Nat : k \in P
  <2> HIDE DEF P
  <2> QED
    BY <1>7, <1>8, Induction
<1>10. \A k \in 0 .. n : Built(s, f[k], sizes, k)
  BY <1>1, <1>9
<1> HIDE DEF P
<1>11. f = [i \in 0 .. n |-> IF i = 0 THEN b ELSE Build(f[i - 1], sizes[i])]
  <2>1. ASSUME NEW i \in 0 .. n, i # 0 PROVE f[i] = Build(f[i - 1], sizes[i])
    <3>1. i \in 1 .. n /\ i - 1 \in 0 .. n
      BY <1>1, <2>1
    <3>2. f[i - 1] \in State
      BY <1>10, <3>1 DEF Built
    <3>3. f[i] = g[i][f[i - 1]]
      BY <1>6, <3>1
    <3> QED
      BY <1>4, <3>1, <3>2, <3>3
  <2>2. \A i \in 0 .. n : f[i] = IF i = 0 THEN b ELSE Build(f[i - 1], sizes[i])
    BY <1>6, <2>1
  <2> QED
    BY ONLY <1>6, <2>2, Zenon
<1>12. part = [i \in 0 .. n |-> IF i = 0 THEN b ELSE Build(part[i - 1], sizes[i])]
  BY <1>11, Zenon
<1> HIDE DEF part
<1> DEFINE Q == {k \in Nat : k <= n => part[k] = f[k]}
<1>13. 0 \in Q
  BY <1>1, <1>6, <1>12
<1>14. ASSUME NEW k \in Nat, k \in Q PROVE k + 1 \in Q
  <2>1. SUFFICES ASSUME k + 1 <= n PROVE part[k + 1] = f[k + 1]
    OBVIOUS
  <2>2. k + 1 \in 0 .. n /\ k + 1 # 0 /\ (k + 1) - 1 = k /\ part[k] = f[k]
    BY <1>1, <1>14, <2>1
  <2> HIDE DEF Q
  <2>3. part[k + 1] = Build(part[(k + 1) - 1], sizes[k + 1])
    BY <1>12, <2>2
  <2>4. f[k + 1] = Build(f[(k + 1) - 1], sizes[k + 1])
    BY <1>11, <2>2
  <2> QED
    BY <2>2, <2>3, <2>4
<1>15. n \in Q
  <2> HIDE DEF Q
  <2> QED
    BY <1>1, <1>13, <1>14, Induction
<1>16. part[n] = f[n] /\ Built(s, f[n], sizes, n)
  BY <1>1, <1>10, <1>15
<1> QED
  BY <1>2, <1>16 DEF n

\* Blocks that are all built are those that were asked for.
LEMMA BuiltAll ==
    ASSUME NEW s \in State, s.ok, NEW sizes \in Seq(Nat), BuildAll(s, sizes).ok
    PROVE  LET r == BuildAll(s, sizes) IN
           /\ r.built = sizes /\ sizes \in Seq(Block) /\ r.lost = s.lost
           /\ Len(sizes) <= s.free /\ r.free = s.free - Len(sizes)
           /\ r.counted = s.counted + Sum(sizes) /\ r \in State
<1> DEFINE r == BuildAll(s, sizes)
<1>1. Built(s, r, sizes, Len(sizes))
  BY BuildAllFact
<1>2. r.ok
  OBVIOUS
<1> HIDE DEF r
<1>3. /\ r \in State /\ Len(r.built) = Len(sizes) /\ r.lost = s.lost
      /\ \A i \in 1 .. Len(sizes) : r.built[i] = sizes[i]
      /\ Len(r.built) <= s.free /\ r.free = s.free - Len(r.built)
      /\ r.counted = s.counted + Sum(r.built) + (r.lost - s.lost)
  BY <1>1, <1>2 DEF Built
<1>4. r.built \in Seq(Block) /\ r.lost \in Nat /\ s.lost \in Nat /\ s.counted \in Nat
  BY <1>3 DEF State
<1>5. r.built = sizes
  BY <1>3, <1>4, SeqEqual, SMTT(30)
<1>6. Sum(r.built) \in Nat
  BY <1>5, SizesType
<1>7. r.counted = s.counted + Sum(r.built)
  BY <1>3, <1>4, <1>6
<1> QED
  BY <1>3, <1>4, <1>5, <1>7 DEF r

----------------------------------------------------------------------------
(* The invariant.                                                           *)

\* The first frame is a root: whatever returns leaves a frame behind.
Rooted(fs) == fs # <<>> /\ fs[1].root

\* What is counted of the blocks that were checked, and the bytes that are
\* lost, keep to the limit.
Within(fs, hp, ct) == Limit > 0 => ct - NumUnchecked(fs, hp) <= Limit

Inv ==
    /\ Book(frames, heap, free, counted, lost)
    /\ Running => /\ Rooted(frames) /\ lost <= MaxLost
                  /\ Within(frames, heap, counted)

\* A frame in place of the top one.
LEMMA RootedTop ==
    ASSUME NEW fs \in Seq(FrameRec), Rooted(fs), NEW e \in FrameRec,
           e.root = Last(fs).root
    PROVE  Rooted([fs EXCEPT ![Len(fs)] = e])
<1> DEFINE gs == [fs EXCEPT ![Len(fs)] = e]
<1>1. fs # <<>> /\ fs[1].root
  BY DEF Rooted
<1>2. Len(fs) \in Nat \ {0} /\ Last(fs) = fs[Len(fs)]
  BY <1>1, PopFact
<1>3. DOMAIN fs = 1 .. Len(fs)
  BY LenProperties
<1>4. 1 \in DOMAIN fs
  BY <1>2, <1>3
<1>5. gs[1] = IF Len(fs) = 1 THEN e ELSE fs[1]
  BY <1>2, <1>4
<1>6. gs[1].root
  BY <1>1, <1>2, <1>5
<1>7. gs # <<>>
  <2>1. DOMAIN gs = DOMAIN fs
    OBVIOUS
  <2>2. DOMAIN <<>> = 1 .. 0
    BY EmptySeq, LenProperties
  <2> HIDE DEF gs
  <2> QED
    BY <1>4, <2>1, <2>2
<1> QED
  BY <1>6, <1>7 DEF Rooted

\* A frame on top of the frames; the first one has to be a root.
LEMMA RootedPush ==
    ASSUME NEW fs \in Seq(FrameRec), NEW e \in FrameRec,
           Rooted(fs) \/ (fs = <<>> /\ e.root)
    PROVE  Rooted(Append(fs, e))
<1> DEFINE gs == Append(fs, e)
           l == Len(fs)
<1>1. /\ gs \in Seq(FrameRec) /\ Len(gs) = l + 1 /\ gs[l + 1] = e
      /\ \A i \in 1 .. l : gs[i] = fs[i]
  BY AppendProperties
<1>2. l \in Nat /\ (fs = <<>> => l = 0) /\ (fs # <<>> => l # 0)
  BY LenProperties, EmptySeq
<1>3. gs # <<>>
  <2>1. Len(gs) # 0
    BY <1>1, <1>2
  <2> HIDE DEF gs
  <2> QED
    BY <1>1, <2>1, EmptySeq
<1> HIDE DEF gs, l
<1>4. gs[1].root
  <2>1. CASE Rooted(fs)
    <3>1. 1 \in 1 .. l /\ fs[1].root
      BY <1>2, <2>1 DEF Rooted
    <3> QED
      BY <1>1, <3>1
  <2>2. CASE fs = <<>> /\ e.root
    <3>1. l + 1 = 1
      BY <1>2, <2>2
    <3> QED
      BY <1>1, <2>2, <3>1
  <2> QED
    BY <2>1, <2>2
<1> QED
  BY <1>3, <1>4 DEF gs, Rooted

\* Only a root leaves no frame behind.
LEMMA RootedPop ==
    ASSUME NEW fs \in Seq(FrameRec), Rooted(fs)
    PROVE  /\ Rooted(Front(fs)) \/ Front(fs) = <<>>
           /\ ~Last(fs).root => Rooted(Front(fs))
<1> DEFINE gs == Front(fs)
           l == Len(fs)
<1>1. fs # <<>> /\ fs[1].root
  BY DEF Rooted
<1>2. /\ l \in Nat \ {0} /\ Last(fs) = fs[l] /\ gs \in Seq(FrameRec) /\ Len(gs) = l - 1
      /\ \A i \in 1 .. l - 1 : gs[i] = fs[i]
  BY <1>1, PopFact
<1> HIDE DEF gs, l
<1>3. CASE l = 1
  <2>1. Len(gs) = 0
    BY <1>2, <1>3
  <2>2. gs = <<>>
    BY <1>2, <2>1, EmptySeq
  <2>3. Last(fs).root
    BY <1>1, <1>2, <1>3
  <2> QED
    BY <2>2, <2>3 DEF gs
<1>4. CASE l # 1
  <2>1. 1 \in 1 .. l - 1 /\ l - 1 # 0
    BY <1>2, <1>4
  <2>2. gs[1].root
    BY <1>1, <1>2, <2>1
  <2>3. gs # <<>>
    BY <1>2, <2>1, EmptySeq
  <2> QED
    BY <2>2, <2>3 DEF gs, Rooted
<1> QED
  BY <1>3, <1>4

\* The top frame changes.
LEMMA BookTop ==
    ASSUME NEW fs, NEW hp, NEW fr, NEW ct, NEW ls, Book(fs, hp, fr, ct, ls), fs # <<>>,
           NEW e \in FrameRec, NEW x \in Nat, NEW y,
           x = fr + FN[Last(fs)] - FN[e], y = ct - FB[Last(fs)] + FB[e]
    PROVE  /\ Book([fs EXCEPT ![Len(fs)] = e], hp, x, y, ls)
           /\ NumUnchecked([fs EXCEPT ![Len(fs)] = e], hp)
                 = NumUnchecked(fs, hp) - FU[Last(fs)] + FU[e]
<1> DEFINE gs == Front(fs)
           f == Last(fs)
           p == FN[f]
           q == FB[f]
           r == FN[e]
<1>1. fs \in Seq(FrameRec)
  BY DEF Book
<1>2. /\ Book(gs, hp, fr + p, ct - q, ls) /\ f \in FrameRec
      /\ NumUnchecked(gs, hp) = NumUnchecked(fs, hp) - FU[f]
  BY BookPopFrame
<1>3. p \in Nat /\ q \in Nat /\ r \in Nat /\ FB[e] \in Nat
  BY <1>2, FrameFacts
<1>4. fr \in Nat /\ ct \in Nat
  BY BookBound
<1>5. x = fr + p - r /\ y = ct - q + FB[e]
  OBVIOUS
<1> HIDE DEF p, q, r, gs, f
<1>6. r <= fr + p
  BY <1>3, <1>4, <1>5
<1>7. /\ Book(Append(gs, e), hp, (fr + p) - r, (ct - q) + FB[e], ls)
      /\ NumUnchecked(Append(gs, e), hp) = NumUnchecked(gs, hp) + FU[e]
  BY <1>2, <1>6, BookPushFrame DEF r
<1>8. (fr + p) - r = x /\ (ct - q) + FB[e] = y
  BY <1>3, <1>4, <1>5
<1>9. [fs EXCEPT ![Len(fs)] = e] = Append(gs, e)
  BY <1>1, TopReplaced DEF gs
<1> QED
  BY <1>2, <1>7, <1>8, <1>9 DEF f

\* A check that passed says what it means: the sums do not wrap.
LEMMA Fits ==
    ASSUME NEW x \in Nat, NEW n \in Nat, x + n < Wrap, (x + n) % Wrap <= Limit
    PROVE  x + n <= Limit
<1>1. Wrap \in Nat \ {0}
  BY LimitAssumption
<1>2. x + n \in 0 .. Wrap - 1
  BY <1>1
<1>3. \A w \in Nat \ {0} : \A z \in 0 .. w - 1 : z % w = z
  OBVIOUS
<1> QED
  BY <1>1, <1>2, <1>3

\* What Start holds.
LEMMA StartFact ==
    ASSUME Book(frames, heap, free, counted, lost)
    PROVE  /\ Start \in State /\ Start.ok /\ Start.free = free
           /\ Start.counted = counted /\ Start.lost = lost /\ Start.built = <<>>
BY BookBound, NoSizes DEF Start, State

----------------------------------------------------------------------------
(* The steps.                                                               *)

\* A step that ends the execution owes no more than the books.
LEMMA Ended ==
    ASSUME NEW fs, NEW hp, NEW fr, NEW ct, NEW ls, Book(fs, hp, fr, ct, ls),
           frames' = fs, heap' = hp, free' = fr, counted' = ct, lost' = ls,
           outcome' # "running"
    PROVE  Inv'
BY DEF Inv, Running

\* A step that goes on also owes a frame, and the limit.
LEMMA Going ==
    ASSUME NEW fs, NEW hp, NEW fr, NEW ct, NEW ls, Book(fs, hp, fr, ct, ls),
           frames' = fs, heap' = hp, free' = fr, counted' = ct, lost' = ls,
           Rooted(fs), ls <= MaxLost, Within(fs, hp, ct)
    PROVE  Inv'
BY DEF Inv

\* A single block is asked for: what the books say after it was built, and
\* after it was not.
LEMMA OneBlock ==
    ASSUME Book(frames, heap, free, counted, lost), NEW n \in Nat
    PROVE  LET s == Build(Start, n) IN
           /\ s.free \in Nat /\ s.counted \in Nat /\ s.lost \in Nat
           /\ s.ok => /\ n \in Block /\ free > 0 /\ s.free = free - 1
                      /\ s.counted = counted + n /\ s.lost = lost
           /\ ~s.ok => /\ Book(frames, heap, s.free, s.counted, s.lost)
                       /\ s.counted = counted \/ s.counted = counted + n
<1> DEFINE s == Build(Start, n)
<1>1. /\ Start \in State /\ Start.ok /\ Start.free = free
      /\ Start.counted = counted /\ Start.lost = lost
  BY StartFact
<1>2. counted \in Nat /\ lost \in Nat /\ free \in Nat
  BY BookBound
<1>3. /\ s \in State
      /\ \/ /\ s.ok /\ Start.ok /\ n \in Block /\ Start.free > 0
            /\ s.free = Start.free - 1 /\ s.counted = Start.counted + n
            /\ s.lost = Start.lost
         \/ /\ ~s.ok /\ s.free = Start.free
            /\ s.lost >= Start.lost
            /\ s.counted = Start.counted + (s.lost - Start.lost)
            /\ s.lost = Start.lost \/ s.lost = Start.lost + n
  BY <1>1, BuildFact
<1> HIDE DEF s
<1>4. s.free \in Nat /\ s.counted \in Nat /\ s.lost \in Nat
  BY <1>3 DEF State
<1>5. ASSUME ~s.ok PROVE /\ Book(frames, heap, s.free, s.counted, s.lost)
                         /\ s.counted = counted \/ s.counted = counted + n
  <2>1. /\ s.free = free /\ s.lost >= lost /\ s.counted = counted + (s.lost - lost)
        /\ s.lost = lost \/ s.lost = lost + n
    BY <1>1, <1>3, <1>5
  <2> DEFINE d == s.lost - lost
  <2>2. d \in Nat /\ s.counted = counted + d /\ s.lost = lost + d
    BY <1>2, <1>4, <2>1
  <2>3. s.counted = counted \/ s.counted = counted + n
    BY <1>2, <1>4, <2>1
  <2> HIDE DEF d
  <2>4. Book(frames, heap, free, counted + d, lost + d)
    BY <2>2, BookLose
  <2> QED
    BY <2>1, <2>2, <2>3, <2>4
<1>6. ASSUME s.ok PROVE /\ n \in Block /\ free > 0 /\ s.free = free - 1
                        /\ s.counted = counted + n /\ s.lost = lost
  BY <1>1, <1>3, <1>6
<1> QED
  BY <1>4, <1>5, <1>6 DEF s

\* MALLOC: what passes the check fits, whether the block is built or lost.
LEMMA MallocStep ==
    ASSUME Inv, NEW n \in Nat, Malloc(n)
    PROVE  Inv'
<1> DEFINE s == Build(Start, n)
<1>1. /\ Book(frames, heap, free, counted, lost) /\ Running /\ Rooted(frames)
      /\ lost <= MaxLost /\ Within(frames, heap, counted) /\ frames' = frames
  BY DEF Inv, Malloc
<1>2. CASE End("error", "MALLOC") /\ UNCHANGED <<heap, free, counted, lost>>
  BY <1>1, <1>2, Ended DEF End
<1>3. CASE /\ CanAllocate(n) /\ s.lost <= MaxLost /\ Keep(s) /\ Continue
           /\ heap' = IF s.ok THEN Append(heap, [size |-> n, area |-> FALSE]) ELSE heap
  <2>1. free' = s.free /\ counted' = s.counted /\ lost' = s.lost
    BY <1>3 DEF Keep
  <2>2. /\ s.free \in Nat /\ s.counted \in Nat /\ s.lost \in Nat
        /\ s.ok => /\ n \in Block /\ free > 0 /\ s.free = free - 1
                   /\ s.counted = counted + n /\ s.lost = lost
        /\ ~s.ok => /\ Book(frames, heap, s.free, s.counted, s.lost)
                    /\ s.counted = counted \/ s.counted = counted + n
    BY <1>1, OneBlock
  <2>3. s.lost <= MaxLost /\ (Limit = 0 \/ (counted + n) % Wrap <= Limit)
    BY <1>3 DEF CanAllocate
  <2>4. counted \in Nat /\ Limit \in Nat
    BY <1>1, BookBound, LimitAssumption
  <2>5. heap' = IF s.ok THEN Append(heap, [size |-> n, area |-> FALSE]) ELSE heap
    BY <1>3
  <2> HIDE DEF s
  <2>6. ASSUME NEW hp, Book(frames, hp, s.free, s.counted, s.lost), Limit > 0,
               s.counted = counted + n
        PROVE  s.counted - NumUnchecked(frames, hp) <= Limit
    <3>1. NumUnchecked(frames, hp) \in Nat /\ s.counted < Wrap
      BY <2>3, <2>6, BookBound
    <3>2. counted + n < Wrap /\ (counted + n) % Wrap <= Limit
      BY <2>3, <2>4, <2>6, <3>1
    <3>3. counted + n <= Limit
      BY <2>4, <3>2, Fits
    <3> QED
      BY <2>2, <2>4, <2>6, <3>1, <3>3
  <2>7. CASE s.ok
    <3> DEFINE h == [size |-> n, area |-> FALSE]
               hp == Append(heap, h)
    <3>1. h \in HeapRec /\ h.size = n
      BY <2>2, <2>7 DEF HeapRec
    <3> HIDE DEF h
    <3>2. Book(frames, hp, free - 1, counted + h.size, lost)
      BY <1>1, <2>2, <2>7, <3>1, BookPushHeap
    <3>3. Book(frames, hp, s.free, s.counted, s.lost)
      BY <2>2, <2>7, <3>1, <3>2
    <3> HIDE DEF hp
    <3>4. Within(frames, hp, s.counted)
      BY <2>2, <2>6, <2>7, <3>3 DEF Within
    <3>5. heap' = hp
      BY <2>5, <2>7 DEF h, hp
    <3> QED
      BY <1>1, <2>1, <2>3, <3>3, <3>4, <3>5, Going
  <2>8. CASE ~s.ok
    <3>1. Book(frames, heap, s.free, s.counted, s.lost)
      BY <2>2, <2>8
    <3>2. Within(frames, heap, s.counted)
      BY <1>1, <2>2, <2>6, <2>8, <3>1 DEF Within
    <3>3. heap' = heap
      BY <2>5, <2>8
    <3> QED
      BY <1>1, <2>1, <2>3, <3>1, <3>2, <3>3, Going
  <2> QED
    BY <2>7, <2>8
<1> QED
  BY <1>2, <1>3 DEF Malloc

\* FREE and VA_END: what the limit is compared with does not grow.
LEMMA FreeStep ==
    ASSUME Inv, NEW i \in DOMAIN heap, Free(i)
    PROVE  Inv'
<1> DEFINE h == heap[i]
           hp == RemoveAt(heap, i)
           n == h.size
<1>1. /\ Book(frames, heap, free, counted, lost) /\ Running /\ Rooted(frames)
      /\ lost <= MaxLost /\ Within(frames, heap, counted)
      /\ frames' = frames /\ heap' = hp /\ Keep(Release(Start, <<n>>))
  BY DEF Inv, Free
<1>2. i \in 1 .. Len(heap)
  BY <1>1, LenProperties DEF Book
<1>3. /\ Book(frames, hp, free + 1, counted - n, lost)
      /\ NumUnchecked(frames, hp) = NumUnchecked(frames, heap) - HU[h]
      /\ h \in HeapRec
  BY <1>1, <1>2, BookDropHeap
<1>4. n \in Nat /\ HU[h] \in Nat /\ HU[h] <= n
  BY <1>3, HeapFacts
<1>5. /\ Start \in State /\ Start.free = free /\ Start.counted = counted /\ Start.lost = lost
  BY <1>1, StartFact
<1>6. Sum(<<n>>) = n /\ Len(<<n>>) = 1
  BY <1>4, SizesOne
<1>7. counted \in Nat /\ NumUnchecked(frames, heap) \in Nat /\ Limit \in Nat
  BY <1>1, BookBound, LimitAssumption
<1> HIDE DEF h, hp, n
<1>8. free' = free + 1 /\ counted' = counted - n /\ lost' = lost
  BY <1>1, <1>5, <1>6 DEF Keep, Release, State
<1>9. Within(frames, hp, counted - n)
  <2>1. SUFFICES ASSUME Limit > 0 PROVE (counted - n) - NumUnchecked(frames, hp) <= Limit
    BY DEF Within
  <2>2. counted - NumUnchecked(frames, heap) <= Limit
    BY <1>1, <2>1 DEF Within
  <2> QED
    BY <1>3, <1>4, <1>7, <2>2
<1> QED
  BY <1>1, <1>3, <1>8, <1>9, Going

\* The variables of ALLOCA of the top frame change.
LEMMA AllocasChange ==
    ASSUME NEW f \in FrameRec, NEW b \in Seq(Block)
    PROVE  LET e == [f EXCEPT !.allocas = b] IN
           /\ e \in FrameRec /\ e.root = f.root
           /\ FN[e] = FN[f] - Len(f.allocas) + Len(b)
           /\ FB[e] = FB[f] - Sum(f.allocas) + Sum(b)
           /\ FU[e] = FU[f] /\ FN[e] \in Nat /\ FB[e] \in Nat
           /\ FN[f] \in Nat /\ FB[f] \in Nat /\ FU[f] \in Nat
<1> DEFINE e == [f EXCEPT !.allocas = b]
           c == f.vars
           a == f.allocas
           d == f.variadic
           k == Len(c)
           l == Len(a)
           m == Len(d)
           n == Len(b)
           x == Sum(c)
           y == Sum(a)
           z == Sum(d)
           w == Sum(b)
<1>1. /\ c \in Seq(Block) /\ a \in Seq(Block) /\ d \in Seq(Block) /\ f.root \in BOOLEAN
  BY DEF FrameRec
<1>2. /\ e \in FrameRec /\ e.vars = c /\ e.allocas = b /\ e.variadic = d
      /\ e.root = f.root
  BY <1>1 DEF FrameRec
<1>3. /\ k \in Nat /\ l \in Nat /\ m \in Nat /\ n \in Nat
      /\ x \in Nat /\ y \in Nat /\ z \in Nat /\ w \in Nat
  BY <1>1, SizesBound, SizesType
<1> HIDE DEF e
<1>4. /\ FN[e] = k + n + m /\ FN[f] = k + l + m
      /\ FB[e] = x + w + z /\ FB[f] = x + y + z
      /\ FU[e] = Unchecked(f) /\ FU[f] = Unchecked(f)
  BY <1>2, FrameFacts DEF FrameBlocks, FrameBytes, Unchecked
<1>5. FN[e] \in Nat /\ FB[e] \in Nat /\ FN[f] \in Nat /\ FB[f] \in Nat /\ FU[f] \in Nat
  BY <1>2, FrameFacts
<1> HIDE DEF k, l, m, n, x, y, z, w
<1>6. FN[e] = FN[f] - l + n
  BY ONLY <1>3, <1>4
<1>7. FB[e] = FB[f] - y + w
  BY ONLY <1>3, <1>4
<1> QED
  BY <1>2, <1>4, <1>5, <1>6, <1>7 DEF e, l, n, y, w

\* ALLOCA: a product that wraps is the size of a small block.
LEMMA AllocaStep ==
    ASSUME Inv, NEW n \in Nat, NEW m \in Nat, Alloca(n, m)
    PROVE  Inv'
<1> DEFINE bytes == (n * m) % Wrap
           s == Build(Start, bytes)
           f == Last(frames)
           e == [f EXCEPT !.allocas = Append(@, bytes)]
           fs == [frames EXCEPT ![Len(frames)] = e]
<1>1. /\ Book(frames, heap, free, counted, lost) /\ Running /\ Rooted(frames)
      /\ lost <= MaxLost /\ Within(frames, heap, counted) /\ heap' = heap
  BY DEF Inv, Alloca
<1>2. bytes \in Nat
  <2>1. Wrap \in Nat \ {0}
    BY LimitAssumption
  <2>2. n * m \in Nat
    OBVIOUS
  <2>3. \A x \in Nat : \A w \in Nat \ {0} : x % w \in Nat
    OBVIOUS
  <2> QED
    BY ONLY <2>1, <2>2, <2>3
<1>3. frames \in Seq(FrameRec) /\ frames # <<>> /\ f \in FrameRec
  <2>1. frames \in Seq(FrameRec) /\ frames # <<>>
    BY <1>1 DEF Book, Rooted
  <2> QED
    BY <2>1, PopFact
<1>4. fs = [frames EXCEPT ![Len(frames)].allocas = Append(@, bytes)]
  BY <1>3 DEF Last
<1>5. \/ End("error", "ALLOCA") /\ UNCHANGED <<frames, free, counted, lost>>
      \/ /\ CanAllocate(bytes) /\ Keep(s)
         /\ \/ s.ok /\ frames' = fs /\ Continue
            \/ ~s.ok /\ End("exception", "ALLOCA") /\ UNCHANGED frames
  <2> HIDE DEF fs
  <2> QED
    BY <1>4 DEF Alloca
<1>6. /\ s.free \in Nat /\ s.counted \in Nat /\ s.lost \in Nat
      /\ s.ok => /\ bytes \in Block /\ free > 0 /\ s.free = free - 1
                 /\ s.counted = counted + bytes /\ s.lost = lost
      /\ ~s.ok => Book(frames, heap, s.free, s.counted, s.lost)
  BY <1>1, <1>2, OneBlock
<1>7. CASE End("error", "ALLOCA") /\ UNCHANGED <<frames, free, counted, lost>>
  BY <1>1, <1>7, Ended DEF End
<1>8. CASE /\ CanAllocate(bytes) /\ Keep(s)
           /\ ~s.ok /\ End("exception", "ALLOCA") /\ UNCHANGED frames
  <2>1. free' = s.free /\ counted' = s.counted /\ lost' = s.lost /\ outcome' # "running"
    BY <1>8 DEF Keep, End
  <2>2. Book(frames, heap, s.free, s.counted, s.lost) /\ frames' = frames
    BY <1>6, <1>8
  <2> HIDE DEF s
  <2> QED
    BY <1>1, <2>1, <2>2, Ended
<1>9. CASE CanAllocate(bytes) /\ Keep(s) /\ s.ok /\ frames' = fs
  <2>1. /\ bytes \in Block /\ free > 0 /\ free' = free - 1 /\ counted' = counted + bytes
        /\ lost' = lost
    BY <1>6, <1>9 DEF Keep
  <2>2. Limit = 0 \/ (counted + bytes) % Wrap <= Limit
    BY <1>9 DEF CanAllocate
  <2> HIDE DEF bytes, s
  <2> DEFINE a == f.allocas
             b == Append(a, bytes)
             l == Len(a)
             y == Sum(a)
  <2>3. a \in Seq(Block)
    BY <1>3 DEF FrameRec
  <2>4. a \in Seq(Nat) /\ l \in Nat /\ y \in Nat
    BY <2>3, SizesBound, SizesType
  <2>5. b \in Seq(Block) /\ Len(b) = l + 1
    BY <2>1, <2>3, AppendProperties
  <2>6. Sum(b) = y + bytes
    BY <1>2, <2>4, SizesPush
  <2> HIDE DEF b
  <2>8. e = [f EXCEPT !.allocas = b]
    BY DEF b
  <2> HIDE DEF e, f
  <2>9. /\ e \in FrameRec /\ e.root = f.root
        /\ FN[e] = FN[f] - l + Len(b) /\ FB[e] = FB[f] - y + Sum(b) /\ FU[e] = FU[f]
        /\ FN[f] \in Nat /\ FB[f] \in Nat /\ FU[f] \in Nat
    BY ONLY <1>3, <2>5, <2>8, AllocasChange DEF l, y, a
  <2> HIDE DEF a, l, y
  <2>10. FN[e] = FN[f] + 1 /\ FB[e] = FB[f] + bytes /\ FU[e] = FU[f]
    BY ONLY <1>2, <2>4, <2>5, <2>6, <2>9, SMTT(30)
  <2>11. FN[f] \in Nat /\ FB[f] \in Nat /\ FU[f] \in Nat
    BY <2>9
  <2>12. free \in Nat /\ counted \in Nat /\ Limit \in Nat
    BY <1>1, BookBound, LimitAssumption
  <2>13. /\ free - 1 \in Nat /\ free - 1 = free + FN[f] - FN[e]
         /\ counted + bytes = counted - FB[f] + FB[e]
    BY <1>2, <2>1, <2>10, <2>11, <2>12
  <2>14. /\ Book(fs, heap, free - 1, counted + bytes, lost)
         /\ NumUnchecked(fs, heap) = NumUnchecked(frames, heap) - FU[f] + FU[e]
    BY <1>1, <1>3, <2>9, <2>13, BookTop DEF f
  <2>15. Rooted(fs)
    BY <1>1, <1>3, <2>9, RootedTop DEF f
  <2> HIDE DEF fs
  <2>16. Within(fs, heap, counted + bytes)
    <3>1. SUFFICES ASSUME Limit > 0
                   PROVE  (counted + bytes) - NumUnchecked(fs, heap) <= Limit
      BY DEF Within
    <3>2. NumUnchecked(fs, heap) \in Nat /\ counted + bytes < Wrap
      BY <1>1, <2>14, BookBound
    <3>3. counted + bytes <= Limit
      BY <1>2, <2>2, <2>12, <3>1, <3>2, Fits
    <3> QED
      BY <1>2, <2>12, <3>2, <3>3
  <2> QED
    BY <1>1, <1>9, <2>1, <2>14, <2>15, <2>16, Going
<1> QED
  BY <1>5, <1>7, <1>8, <1>9

\* STACKRESTORE: the sizes that are popped are those that are released.
LEMMA StackRestoreStep ==
    ASSUME Inv, NEW k \in Nat, StackRestore(k)
    PROVE  Inv'
<1> DEFINE f == Last(frames)
           a == f.allocas
           b == SubSeq(a, 1, k)
           c == SubSeq(a, k + 1, Len(a))
           e == [f EXCEPT !.allocas = b]
           fs == [frames EXCEPT ![Len(frames)] = e]
<1>1. /\ Book(frames, heap, free, counted, lost) /\ Running /\ Rooted(frames)
      /\ lost <= MaxLost /\ Within(frames, heap, counted) /\ heap' = heap
  BY DEF Inv, StackRestore
<1>2. k <= Len(a) /\ Keep(Release(Start, c))
  BY DEF StackRestore, Top
<1>3. frames \in Seq(FrameRec) /\ frames # <<>> /\ f \in FrameRec
  <2>1. frames \in Seq(FrameRec) /\ frames # <<>>
    BY <1>1 DEF Book, Rooted
  <2> QED
    BY <2>1, PopFact
<1>4. frames' = fs
  <2>1. fs = [frames EXCEPT ![Len(frames)].allocas = SubSeq(@, 1, k)]
    BY <1>3 DEF Last
  <2> HIDE DEF fs
  <2> QED
    BY <2>1 DEF StackRestore
<1> DEFINE l == Len(a)
           y == Sum(a)
           n == Len(c)
           x == Sum(c)
           w == Sum(b)
<1>5. a \in Seq(Block)
  BY <1>3 DEF FrameRec
<1>6. a \in Seq(Nat) /\ l \in Nat /\ y \in Nat
  BY <1>5, SizesBound, SizesType
<1>7. k \in 0 .. Len(a)
  BY <1>2, <1>6
<1>8. b \in Seq(Block) /\ Len(b) = k /\ c \in Seq(Block) /\ n = l - k
  BY <1>5, <1>7, SplitFact
<1>9. y = w + x
  BY <1>6, <1>7, SizesSplit
<1>10. w \in Nat /\ x \in Nat /\ n \in Nat
  BY <1>8, SizesBound, SizesType
<1>12. /\ Start \in State /\ Start.free = free /\ Start.counted = counted /\ Start.lost = lost
  BY <1>1, StartFact
<1>13. free' = free + n /\ counted' = counted - x /\ lost' = lost
  BY <1>2, <1>12 DEF Keep, Release, State
<1>14. free \in Nat /\ counted \in Nat /\ Limit \in Nat
  BY <1>1, BookBound, LimitAssumption
<1> HIDE DEF b
<1>15. /\ e \in FrameRec /\ e.root = f.root
       /\ FN[e] = FN[f] - l + Len(b) /\ FB[e] = FB[f] - y + w /\ FU[e] = FU[f]
       /\ FN[e] \in Nat /\ FB[e] \in Nat
       /\ FN[f] \in Nat /\ FB[f] \in Nat /\ FU[f] \in Nat
  BY <1>3, <1>8, AllocasChange
<1> HIDE DEF e, f, a, c, l, y, n, x, w
<1>16. l \in Nat /\ y \in Nat /\ Len(b) = k /\ n = l - k
  BY <1>6, <1>8
<1>17. FN[f] = FN[e] + n
  BY ONLY <1>15, <1>16, k \in Nat
<1>18. FN[f] = FN[e] + n /\ FB[f] = FB[e] + x /\ FU[e] = FU[f]
  BY ONLY <1>9, <1>10, <1>15, <1>16, <1>17, SMTT(30)
<1>19. FN[e] \in Nat /\ FB[e] \in Nat /\ FU[f] \in Nat
  BY <1>15
<1>20. /\ free + n \in Nat /\ free + n = free + FN[f] - FN[e]
       /\ counted - x = counted - FB[f] + FB[e]
  BY ONLY <1>10, <1>14, <1>18, <1>19
<1>21. /\ Book(fs, heap, free + n, counted - x, lost)
       /\ NumUnchecked(fs, heap) = NumUnchecked(frames, heap) - FU[f] + FU[e]
  BY <1>1, <1>3, <1>15, <1>20, BookTop DEF f
<1>22. Rooted(fs)
  BY <1>1, <1>3, <1>15, RootedTop DEF f
<1> HIDE DEF fs
<1>23. Within(fs, heap, counted - x)
  <2>1. SUFFICES ASSUME Limit > 0 PROVE (counted - x) - NumUnchecked(fs, heap) <= Limit
    BY DEF Within
  <2>2. counted - NumUnchecked(frames, heap) <= Limit /\ NumUnchecked(frames, heap) \in Nat
    BY <1>1, <2>1, BookBound DEF Within
  <2> QED
    BY <1>10, <1>14, <1>18, <1>19, <1>21, <2>2
<1> QED
  BY <1>1, <1>4, <1>13, <1>21, <1>22, <1>23, Going

\* The frame of a function, and what it adds to the books.
LEMMA FreshFrame ==
    ASSUME NEW v \in Seq(Block), NEW w \in Seq(Block), NEW r \in BOOLEAN
    PROVE  LET e == [vars |-> v, allocas |-> <<>>, variadic |-> w, root |-> r] IN
           /\ e \in FrameRec /\ e.root = r
           /\ FN[e] = Len(v) + Len(w) /\ FB[e] = Sum(v) + Sum(w)
           /\ FU[e] = Sum(w) + IF r THEN Sum(v) ELSE 0
           /\ Len(v) \in Nat /\ Len(w) \in Nat /\ Sum(v) \in Nat /\ Sum(w) \in Nat
<1> DEFINE e == [vars |-> v, allocas |-> <<>>, variadic |-> w, root |-> r]
<1>1. /\ Len(<<>>) = 0 /\ Sum(<<>>) = 0 /\ <<>> \in Seq(Block)
  BY NoSizes
<1>2. /\ e \in FrameRec /\ e.root = r /\ e.vars = v /\ e.variadic = w /\ e.allocas = <<>>
  BY <1>1 DEF FrameRec
<1> DEFINE k == Len(v)
           m == Len(w)
           x == Sum(v)
           z == Sum(w)
<1>3. k \in Nat /\ m \in Nat /\ x \in Nat /\ z \in Nat
  BY SizesBound, SizesType
<1> HIDE DEF e
<1>4. /\ FN[e] = k + 0 + m /\ FB[e] = x + 0 + z
      /\ FU[e] = z + IF r THEN x ELSE 0
  BY <1>1, <1>2, FrameFacts DEF FrameBlocks, FrameBytes, Unchecked
<1> HIDE DEF k, m, x, z
<1>5. FN[e] = k + m /\ FB[e] = x + z
  BY ONLY <1>3, <1>4
<1> QED
  BY <1>2, <1>3, <1>4, <1>5 DEF e, k, m, x, z

\* A program calls functions of Frames.
LEMMA FramesType ==
    ASSUME NEW f \in Frames
    PROVE  f.vars \in Seq(Nat) /\ f.variadic \in Seq(Nat)
BY LimitAssumption

\* PushRecord: either the frame is there, or the books are as if nothing had
\* been built, but for what is lost.
LEMMA PushRecordFact ==
    ASSUME NEW fs, NEW base \in State, base.ok, NEW f \in Frames, NEW r \in BOOLEAN,
           NEW instr, PushRecord(fs, base, f, r, instr),
           NEW hp, Book(fs, hp, base.free, base.counted, base.lost)
    PROVE  /\ Book(frames', hp, free', counted', lost')
           /\ \/ /\ outcome' = "exception" /\ at' = instr
                 /\ Len(f.vars) > base.free \/ \E i \in 1 .. Len(f.vars) : f.vars[i] > HostMax
              \/ /\ UNCHANGED <<outcome, at>> /\ lost' = base.lost
                 /\ \E e \in FrameRec : frames' = Append(fs, e) /\ e.root = r
                 /\ counted' = base.counted + Sum(f.vars) /\ Sum(f.vars) \in Nat
                 /\ NumUnchecked(frames', hp)
                       = NumUnchecked(fs, hp) + IF r THEN Sum(f.vars) ELSE 0
<1> DEFINE s == BuildAll(base, f.vars)
           v == f.vars
           e == [vars |-> v, allocas |-> <<>>, variadic |-> <<>>, root |-> r]
<1>1. v \in Seq(Nat)
  BY FramesType
<1>2. base.free \in Nat /\ base.counted \in Nat /\ base.lost \in Nat
  BY DEF State
<1>3. CASE s.ok
  <2>1. frames' = Append(fs, e) /\ Keep(s) /\ Continue
    BY <1>3 DEF PushRecord
  <2>2. /\ v \in Seq(Block) /\ s.lost = base.lost
        /\ Len(v) <= base.free /\ s.free = base.free - Len(v)
        /\ s.counted = base.counted + Sum(v)
    BY <1>1, <1>3, BuiltAll
  <2>3. free' = s.free /\ counted' = s.counted /\ lost' = s.lost
    BY <2>1 DEF Keep
  <2>4. <<>> \in Seq(Block) /\ Sum(<<>>) = 0 /\ Len(<<>>) = 0
    BY NoSizes
  <2> HIDE DEF v
  <2>5. /\ e \in FrameRec /\ e.root = r
        /\ FN[e] = Len(v) + Len(<<>>) /\ FB[e] = Sum(v) + Sum(<<>>)
        /\ FU[e] = Sum(<<>>) + IF r THEN Sum(v) ELSE 0
        /\ Len(v) \in Nat /\ Sum(v) \in Nat
    <3> DEFINE frame(w) == [vars |-> v, allocas |-> <<>>, variadic |-> w, root |-> r]
    <3>1. v \in Seq(Block) /\ <<>> \in Seq(Block)
      BY <2>2, <2>4
    <3>2. \A w \in Seq(Block) :
             /\ frame(w) \in FrameRec /\ frame(w).root = r
             /\ FN[frame(w)] = Len(v) + Len(w) /\ FB[frame(w)] = Sum(v) + Sum(w)
             /\ FU[frame(w)] = Sum(w) + IF r THEN Sum(v) ELSE 0
             /\ Len(v) \in Nat /\ Sum(v) \in Nat
      BY ONLY <3>1, FreshFrame, r \in BOOLEAN
    <3>3. e = frame(<<>>)
      OBVIOUS
    <3> HIDE DEF e, frame
    <3> QED
      BY ONLY <3>1, <3>2, <3>3
  <2> HIDE DEF s, e
  <2>6. FN[e] = Len(v) /\ FB[e] = Sum(v) /\ FU[e] = IF r THEN Sum(v) ELSE 0
    BY <2>4, <2>5
  <2>7. FN[e] <= base.free
    BY <2>2, <2>6
  <2>8. /\ Book(Append(fs, e), hp, base.free - FN[e], base.counted + FB[e], base.lost)
        /\ NumUnchecked(Append(fs, e), hp) = NumUnchecked(fs, hp) + FU[e]
    BY <2>5, <2>7, BookPushFrame
  <2>9. Book(frames', hp, free', counted', lost')
    BY <2>1, <2>2, <2>3, <2>6, <2>8
  <2>10. /\ counted' = base.counted + Sum(v) /\ lost' = base.lost
         /\ NumUnchecked(frames', hp) = NumUnchecked(fs, hp) + IF r THEN Sum(v) ELSE 0
    BY <2>1, <2>2, <2>3, <2>6, <2>8
  <2> QED
    BY <2>1, <2>5, <2>9, <2>10 DEF v, Continue
<1>4. CASE ~s.ok
  <2>1. frames' = fs /\ Keep(Release(s, s.built)) /\ End("exception", instr)
    BY <1>4 DEF PushRecord
  <2>2. Built(base, s, v, Len(v))
    BY <1>1, BuildAllFact
  <2> HIDE DEF s, v, e
  <2>3. /\ s \in State /\ Len(s.built) <= base.free
        /\ s.free = base.free - Len(s.built) /\ s.lost >= base.lost
        /\ s.counted = base.counted + Sum(s.built) + (s.lost - base.lost)
        /\ Len(v) > base.free \/ \E i \in 1 .. Len(v) : v[i] > HostMax
    BY <1>4, <2>2 DEF Built
  <2>4. s.built \in Seq(Nat) /\ s.lost \in Nat
    BY <2>3, SizesBound DEF State
  <2> DEFINE n == Len(s.built)
             x == Sum(s.built)
  <2>5. n \in Nat /\ x \in Nat
    BY <2>4, SizesType
  <2>6. free' = s.free + n /\ counted' = s.counted - x /\ lost' = s.lost
    BY <2>1, <2>3 DEF Keep, Release, State
  <2>7. s.free = base.free - n /\ s.counted = base.counted + x + (s.lost - base.lost)
    BY <2>3
  <2> HIDE DEF n, x
  <2> DEFINE d == s.lost - base.lost
  <2>8. d \in Nat /\ free' = base.free /\ counted' = base.counted + d /\ lost' = base.lost + d
    <3>1. s.lost >= base.lost
      BY <2>3
    <3>2. d \in Nat /\ base.lost + d = s.lost
      BY <1>2, <2>4, <3>1
    <3>3. s.free + n = base.free
      BY <1>2, <2>5, <2>7
    <3>4. s.counted - x = base.counted + d
      BY <1>2, <2>4, <2>5, <2>7
    <3> QED
      BY <2>6, <3>2, <3>3, <3>4
  <2> HIDE DEF d
  <2>9. Book(fs, hp, base.free, base.counted + d, base.lost + d)
    BY <2>8, BookLose
  <2> QED
    BY <2>1, <2>3, <2>8, <2>9 DEF End, v
<1> QED
  BY <1>3, <1>4

\* CALL: the variadic parameters are unchecked, and stay out of the limit.
LEMMA CallStep ==
    ASSUME Inv, NEW f \in Frames, Call(f)
    PROVE  Inv'
<1> DEFINE s == BuildAll(Start, f.vars)
           v == BuildAll(s, f.variadic)
           a == f.vars
           b == v.built
           e == [vars |-> a, allocas |-> <<>>, variadic |-> b, root |-> FALSE]
           fs == Append(frames, e)
           x == Sum(a)
           y == Sum(b)
           n == Len(a)
           m == Len(b)
           d == v.lost - lost
<1>1. /\ Book(frames, heap, free, counted, lost) /\ Running /\ Rooted(frames)
      /\ lost <= MaxLost /\ Within(frames, heap, counted) /\ heap' = heap
  BY DEF Inv, Call
<1>2. /\ Start \in State /\ Start.ok /\ Start.free = free /\ Start.counted = counted
      /\ Start.lost = lost
  BY <1>1, StartFact
<1>3. free \in Nat /\ counted \in Nat /\ lost \in Nat /\ Limit \in Nat /\ MaxLost \in Nat
  BY <1>1, BookBound, LimitAssumption
<1>4. CASE End("error", "CALL") /\ UNCHANGED <<frames, free, counted, lost>>
  BY <1>1, <1>4, Ended DEF End
<1>5. CASE ~s.ok /\ PushRecord(frames, Start, f, FALSE, "CALL")
  <2>1. Book(frames, heap, Start.free, Start.counted, Start.lost)
    BY <1>1, <1>2
  <2>2. Book(frames', heap, free', counted', lost')
    BY <1>2, <1>5, <2>1, PushRecordFact
  <2>3. outcome' # "running"
    BY <1>5 DEF PushRecord, End
  <2> QED
    BY <1>1, <2>2, <2>3, Ended
<1>6. CASE /\ CanAllocate(x) /\ s.ok /\ frames' = fs /\ Keep(v)
           /\ IF v.ok THEN Continue ELSE End("exception", "variadic parameter")
  <2>1. f.vars \in Seq(Nat) /\ f.variadic \in Seq(Nat)
    BY FramesType
  <2>2. /\ a \in Seq(Block) /\ s.lost = lost /\ n <= free /\ s.free = free - n
        /\ s.counted = counted + x /\ s \in State
    BY <1>2, <1>6, <2>1, BuiltAll
  <2>3. Built(s, v, f.variadic, Len(f.variadic))
    BY <1>6, <2>1, <2>2, BuildAllFact
  <2>4. free' = v.free /\ counted' = v.counted /\ lost' = v.lost
    BY <1>6 DEF Keep
  <2>5. Limit = 0 \/ (counted + x) % Wrap <= Limit
    BY <1>6 DEF CanAllocate
  <2> HIDE DEF s, v
  <2>6. /\ v \in State /\ m <= s.free /\ v.free = s.free - m
        /\ v.lost >= s.lost /\ v.counted = s.counted + y + (v.lost - s.lost)
        /\ v.ok => v.lost = s.lost
    BY <2>3 DEF Built
  <2>7. b \in Seq(Block) /\ v.lost \in Nat
    BY <2>6 DEF State
  <2> HIDE DEF a, b
  <2>8. /\ e \in FrameRec /\ e.root = FALSE
        /\ FN[e] = n + m /\ FB[e] = x + y
        /\ FU[e] = y + IF FALSE THEN x ELSE 0
        /\ n \in Nat /\ m \in Nat /\ x \in Nat /\ y \in Nat
    BY ONLY <2>2, <2>7, FreshFrame, FALSE \in BOOLEAN DEF e
  <2> HIDE DEF e, x, y, n, m
  <2>9. FN[e] = n + m /\ FB[e] = x + y /\ FU[e] = y
    BY <2>8
  <2>10. /\ d \in Nat /\ lost + d = v.lost /\ v.free = free - FN[e]
         /\ v.counted = counted + FB[e] + d /\ FN[e] <= free
    <3>1. s.lost = lost /\ s.free = free - n /\ s.counted = counted + x
      BY <2>2
    <3>2. m <= free - n /\ v.free = (free - n) - m
      BY <2>6, <3>1
    <3>3. v.lost >= lost /\ v.counted = (counted + x) + y + (v.lost - lost)
      BY <2>6, <3>1
    <3>4. /\ n \in Nat /\ m \in Nat /\ x \in Nat /\ y \in Nat /\ v.lost \in Nat
      BY <2>7, <2>8
    <3> QED
      BY ONLY <1>3, <2>9, <3>2, <3>3, <3>4
  <2>11. /\ Book(fs, heap, free - FN[e], counted + FB[e], lost)
         /\ NumUnchecked(fs, heap) = NumUnchecked(frames, heap) + FU[e]
    BY <1>1, <2>8, <2>10, BookPushFrame
  <2>12. Book(fs, heap, free - FN[e], counted + FB[e] + d, lost + d)
    BY <2>10, <2>11, BookLose
  <2>13. Book(fs, heap, v.free, v.counted, v.lost)
    BY <2>10, <2>12
  <2>14. CASE ~v.ok
    <3>1. outcome' # "running"
      BY <1>6, <2>14 DEF End
    <3> HIDE DEF fs
    <3> QED
      BY <1>1, <1>6, <2>4, <2>13, <3>1, Ended
  <2>15. CASE v.ok
    <3>1. v.lost = lost /\ v.counted = counted + x + y
      <4>1. v.lost = lost
        BY <2>2, <2>6, <2>15
      <4>2. d = 0
        BY <1>3, <4>1
      <4>3. v.counted = counted + (x + y) + 0
        BY <2>9, <2>10, <4>2
      <4> QED
        BY ONLY <1>3, <2>8, <4>1, <4>3
    <3>2. Rooted(fs)
      BY <1>1, <2>8, RootedPush DEF Book
    <3> HIDE DEF fs
    <3>3. Within(fs, heap, v.counted)
      <4>1. SUFFICES ASSUME Limit > 0 PROVE v.counted - NumUnchecked(fs, heap) <= Limit
        BY DEF Within
      <4>2. v.counted < Wrap /\ Wrap \in Nat
        BY <1>1, <2>13, <3>1, BookBound, LimitAssumption
      <4>3. x \in Nat /\ y \in Nat /\ counted + x < Wrap
        BY ONLY <1>3, <2>8, <3>1, <4>2
      <4>4. counted + x <= Limit
        BY <1>3, <2>5, <4>1, <4>3, Fits
      <4>5. NumUnchecked(frames, heap) \in Nat
        BY <1>1, BookBound
      <4>6. NumUnchecked(fs, heap) = NumUnchecked(frames, heap) + y
        BY <2>9, <2>11
      <4>7. v.counted = counted + x + y
        BY <3>1
      <4> QED
        BY ONLY <1>3, <4>3, <4>4, <4>5, <4>6, <4>7
    <3> QED
      BY <1>1, <1>6, <2>4, <2>13, <3>1, <3>2, <3>3, Going
  <2> QED
    BY <2>14, <2>15
<1> QED
  BY <1>4, <1>5, <1>6 DEF Call

\* What the destructors of a frame release.
LEMMA FrameSizes ==
    ASSUME NEW f \in FrameRec
    PROVE  /\ Len(f.vars \o f.allocas \o f.variadic) = FN[f]
           /\ Sum(f.vars \o f.allocas \o f.variadic) = FB[f]
<1> DEFINE a == f.vars
           b == f.allocas
           c == f.variadic
<1>1. a \in Seq(Nat) /\ b \in Seq(Nat) /\ c \in Seq(Nat)
  BY SizesBound DEF FrameRec
<1>2. FB[f] = Sum(a) + Sum(b) + Sum(c) /\ FN[f] = Len(a) + Len(b) + Len(c)
  BY FrameFacts DEF FrameBytes, FrameBlocks
<1> HIDE DEF a, b, c
<1>3. a \o b \in Seq(Nat)
  BY <1>1, ConcatProperties
<1>4. Sum(a \o b) = Sum(a) + Sum(b) /\ Len(a \o b) = Len(a) + Len(b)
  BY ONLY <1>1, SizesJoin
<1>5. /\ Sum((a \o b) \o c) = Sum(a \o b) + Sum(c)
      /\ Len((a \o b) \o c) = Len(a \o b) + Len(c)
  BY ONLY <1>1, <1>3, SizesJoin
<1> QED
  BY <1>2, <1>4, <1>5 DEF a, b, c

\* The top frame is gone.
LEMMA Popped ==
    ASSUME Inv, Running
    PROVE  LET f == Last(frames)
               r == Release(Start, f.vars \o f.allocas \o f.variadic) IN
           /\ Book(Front(frames), heap, r.free, r.counted, r.lost)
           /\ Within(Front(frames), heap, r.counted)
           /\ r \in State /\ r.ok /\ r.lost = lost
           /\ Front(frames) \in Seq(FrameRec) /\ f \in FrameRec
           /\ Rooted(Front(frames)) \/ Front(frames) = <<>>
           /\ ~f.root => Rooted(Front(frames))
<1> DEFINE f == Last(frames)
           w == f.vars \o f.allocas \o f.variadic
           r == Release(Start, w)
           fs == Front(frames)
           n == FN[f]
           x == FB[f]
<1>1. /\ Book(frames, heap, free, counted, lost) /\ Rooted(frames)
      /\ lost <= MaxLost /\ Within(frames, heap, counted)
  BY DEF Inv
<1>2. frames \in Seq(FrameRec) /\ frames # <<>>
  BY <1>1 DEF Book, Rooted
<1>3. /\ Book(fs, heap, free + n, counted - x, lost)
      /\ NumUnchecked(fs, heap) = NumUnchecked(frames, heap) - FU[f]
      /\ f \in FrameRec
  BY <1>1, <1>2, BookPopFrame
<1>4. Len(w) = n /\ Sum(w) = x
  BY <1>3, FrameSizes
<1>5. fs \in Seq(FrameRec)
  BY <1>2, PopFact
<1>6. /\ Rooted(fs) \/ fs = <<>>
      /\ ~f.root => Rooted(fs)
  BY <1>1, <1>2, RootedPop
<1>7. /\ Start \in State /\ Start.ok /\ Start.free = free /\ Start.counted = counted
      /\ Start.lost = lost
  BY <1>1, StartFact
<1>8. n \in Nat /\ x \in Nat /\ FU[f] \in Nat /\ FU[f] <= x
  BY <1>3, FrameFacts
<1> HIDE DEF f, w, fs, n, x
<1>9. counted - x \in Nat /\ free + n \in Nat /\ lost \in Nat
  BY <1>3, BookBound
<1>10. r = [Start EXCEPT !.free = @ + n, !.counted = @ - x]
  BY <1>4 DEF Release
<1>11. r \in State /\ r.ok /\ r.free = free + n /\ r.counted = counted - x /\ r.lost = lost
  BY <1>7, <1>9, <1>10 DEF State
<1> HIDE DEF r
<1>12. Within(fs, heap, r.counted)
  <2>1. SUFFICES ASSUME Limit > 0 PROVE (counted - x) - NumUnchecked(fs, heap) <= Limit
    BY <1>11 DEF Within
  <2>2. counted - NumUnchecked(frames, heap) <= Limit
    BY <1>1, <2>1 DEF Within
  <2>3. NumUnchecked(frames, heap) \in Nat /\ counted \in Nat /\ Limit \in Nat
    BY <1>1, BookBound, LimitAssumption
  <2> QED
    BY ONLY <1>3, <1>8, <2>2, <2>3
<1> QED
  BY <1>3, <1>5, <1>6, <1>11, <1>12 DEF f, w, fs, r

\* RET: the frame that returns is not the first one.
LEMMA RetStep ==
    ASSUME Inv, Ret
    PROVE  Inv'
<1> DEFINE r == Release(Start, Top.vars \o Top.allocas \o Top.variadic)
           fs == Front(frames)
<1>1. /\ Running /\ ~Top.root /\ frames' = fs /\ Keep(r) /\ heap' = heap
  BY DEF Ret
<1>2. /\ Book(fs, heap, r.free, r.counted, r.lost)
      /\ Within(fs, heap, r.counted) /\ r.lost = lost
      /\ ~Top.root => Rooted(fs)
  BY <1>1, Popped DEF Top
<1>3. lost <= MaxLost
  BY <1>1 DEF Inv
<1> HIDE DEF r, fs
<1>4. free' = r.free /\ counted' = r.counted /\ lost' = r.lost
  BY <1>1 DEF Keep
<1> QED
  BY <1>1, <1>2, <1>3, <1>4, Going

\* A root is pushed on frames whose books are those of base.
LEMMA RootPushed ==
    ASSUME NEW fs \in Seq(FrameRec), NEW base \in State, base.ok, base.lost <= MaxLost,
           Book(fs, heap, base.free, base.counted, base.lost),
           Within(fs, heap, base.counted), Rooted(fs) \/ fs = <<>>,
           NEW f \in Frames, PushRecord(fs, base, f, TRUE, "root"), heap' = heap
    PROVE  Inv'
<1> DEFINE x == Sum(f.vars)
           r == TRUE
<1>1. r \in BOOLEAN /\ PushRecord(fs, base, f, r, "root")
  OBVIOUS
<1> HIDE DEF r
<1>2. /\ Book(frames', heap, free', counted', lost')
      /\ \/ /\ outcome' = "exception" /\ at' = "root"
            /\ Len(f.vars) > base.free \/ \E i \in 1 .. Len(f.vars) : f.vars[i] > HostMax
         \/ /\ UNCHANGED <<outcome, at>> /\ lost' = base.lost
            /\ \E e \in FrameRec : frames' = Append(fs, e) /\ e.root = r
            /\ counted' = base.counted + x /\ x \in Nat
            /\ NumUnchecked(frames', heap) = NumUnchecked(fs, heap) + IF r THEN x ELSE 0
  BY <1>1, PushRecordFact
<1> HIDE DEF x
<1>3. CASE outcome' = "exception"
  BY <1>2, <1>3, Ended
<1>4. CASE /\ lost' = base.lost
           /\ \E e \in FrameRec : frames' = Append(fs, e) /\ e.root = TRUE
           /\ counted' = base.counted + x /\ x \in Nat
           /\ NumUnchecked(frames', heap) = NumUnchecked(fs, heap) + x
  <2>1. PICK e \in FrameRec : frames' = Append(fs, e) /\ e.root = TRUE
    BY <1>4
  <2>2. Rooted(Append(fs, e))
    BY <2>1, RootedPush
  <2>3. Rooted(frames')
    BY <2>1, <2>2
  <2>4. Within(frames', heap, counted')
    <3>1. SUFFICES ASSUME Limit > 0 PROVE counted' - NumUnchecked(frames', heap) <= Limit
      BY DEF Within
    <3>2. base.counted - NumUnchecked(fs, heap) <= Limit
      BY <3>1 DEF Within
    <3>3. NumUnchecked(fs, heap) \in Nat /\ base.counted \in Nat /\ Limit \in Nat
      BY BookBound, LimitAssumption
    <3> QED
      BY ONLY <1>4, <3>2, <3>3
  <2> QED
    BY <1>2, <1>4, <2>3, <2>4, Going
<1> QED
  BY <1>2, <1>3, <1>4 DEF r

\* A root in place of the one that returned, or on top.
LEMMA NextRootStep ==
    ASSUME Inv, NEW f \in Frames, NextRoot(f)
    PROVE  Inv'
<1> DEFINE w == Top.vars \o Top.allocas \o Top.variadic
           r == Release(Start, w)
           fs == Front(frames)
<1>1. /\ Book(frames, heap, free, counted, lost) /\ Running /\ Rooted(frames)
      /\ lost <= MaxLost /\ Within(frames, heap, counted) /\ heap' = heap
  BY DEF Inv, NextRoot
<1>2. CASE PushRecord(fs, r, f, TRUE, "root")
  <2>1. /\ Book(fs, heap, r.free, r.counted, r.lost)
        /\ Within(fs, heap, r.counted)
        /\ r \in State /\ r.ok /\ r.lost = lost
        /\ fs \in Seq(FrameRec)
        /\ Rooted(fs) \/ fs = <<>>
    BY <1>1, Popped DEF Top
  <2> HIDE DEF r, fs
  <2>2. r.lost <= MaxLost /\ heap' = heap
    BY <1>1, <2>1
  <2> QED
    BY ONLY <1>2, <2>1, <2>2, RootPushed, f \in Frames
<1>3. CASE PushRecord(frames, Start, f, TRUE, "root")
  <2>1. /\ Start \in State /\ Start.ok /\ Start.free = free /\ Start.counted = counted
        /\ Start.lost = lost /\ frames \in Seq(FrameRec)
    BY <1>1, StartFact DEF Book
  <2> QED
    BY <1>1, <1>3, <2>1, RootPushed
<1> QED
  BY <1>2, <1>3 DEF NextRoot

\* The array of VA_START has a size.
LEMMA AreaType ==
    ASSUME NEW f \in FrameRec
    PROVE  AreaSize(f) \in Nat
<1> DEFINE v == f.variadic
           t == [i \in DOMAIN v |-> v[i] + (Align - (v[i] % Align))]
<1>1. v \in Seq(Nat)
  BY SizesBound DEF FrameRec
<1>2. Len(v) \in Nat /\ DOMAIN v = 1 .. Len(v) /\ \A i \in DOMAIN v : v[i] \in Nat
  BY <1>1, ElementOfSeq, LenProperties
<1>3. Align \in Nat \ {0}
  BY LimitAssumption
<1>4. \A n \in Nat : \A a \in Nat \ {0} : n + (a - (n % a)) \in Nat
  OBVIOUS
<1>5. \A i \in 1 .. Len(v) : v[i] + (Align - (v[i] % Align)) \in Nat
  BY <1>2, <1>3, <1>4
<1>6. t \in Seq(Nat)
  <2>1. t = [i \in 1 .. Len(v) |-> v[i] + (Align - (v[i] % Align))]
    BY <1>2
  <2> HIDE DEF t, v
  <2>2. t \in [1 .. Len(v) -> Nat]
    BY <1>5, <2>1
  <2> QED
    BY <1>2, <2>2, SeqDef
<1> HIDE DEF t
<1>7. Sum(t) \in Nat
  BY <1>6, SizesType
<1> QED
  BY <1>7 DEF AreaSize, t

\* VA_START: the array is unchecked, and stays out of the limit.
LEMMA VaStartStep ==
    ASSUME Inv, VaStart
    PROVE  Inv'
<1> DEFINE n == AreaSize(Top)
           s == Build(Start, n)
           h == [size |-> n, area |-> TRUE]
           hp == Append(heap, h)
<1>1. /\ Book(frames, heap, free, counted, lost) /\ Running /\ Rooted(frames)
      /\ lost <= MaxLost /\ Within(frames, heap, counted) /\ frames' = frames
  BY DEF Inv, VaStart
<1>2. n \in Nat
  <2>1. frames \in Seq(FrameRec) /\ frames # <<>>
    BY <1>1 DEF Book, Rooted
  <2> QED
    BY <2>1, PopFact, AreaType DEF Top
<1>3. /\ s.free \in Nat /\ s.counted \in Nat /\ s.lost \in Nat
      /\ s.ok => /\ n \in Block /\ free > 0 /\ s.free = free - 1
                 /\ s.counted = counted + n /\ s.lost = lost
      /\ ~s.ok => Book(frames, heap, s.free, s.counted, s.lost)
  BY <1>1, <1>2, OneBlock
<1>4. \/ /\ outcome' # "running" /\ UNCHANGED <<heap, free, counted, lost>>
      \/ /\ free' = s.free /\ counted' = s.counted /\ lost' = s.lost
         /\ \/ s.ok /\ heap' = hp
            \/ ~s.ok /\ heap' = heap /\ outcome' # "running"
  BY DEF VaStart, End, Keep
<1> HIDE DEF n, s
<1>5. CASE outcome' # "running" /\ UNCHANGED <<heap, free, counted, lost>>
  BY <1>1, <1>5, Ended
<1>6. CASE /\ free' = s.free /\ counted' = s.counted /\ lost' = s.lost
           /\ s.ok /\ heap' = hp
  <2>1. n \in Block /\ free > 0 /\ s.free = free - 1 /\ s.counted = counted + n /\ s.lost = lost
    BY <1>3, <1>6
  <2>2. h \in HeapRec /\ h.size = n /\ h.area
    BY <2>1 DEF HeapRec
  <2> HIDE DEF h
  <2>3. /\ Book(frames, hp, free - 1, counted + h.size, lost)
        /\ NumUnchecked(frames, hp) = NumUnchecked(frames, heap) + HU[h]
    BY <1>1, <2>1, <2>2, BookPushHeap
  <2>4. HU[h] = n
    BY <2>2, HeapFacts
  <2> HIDE DEF hp
  <2>5. Within(frames, hp, counted + n)
    <3>1. SUFFICES ASSUME Limit > 0 PROVE (counted + n) - NumUnchecked(frames, hp) <= Limit
      BY DEF Within
    <3>2. counted - NumUnchecked(frames, heap) <= Limit
      BY <1>1, <3>1 DEF Within
    <3>3. NumUnchecked(frames, heap) \in Nat /\ counted \in Nat /\ Limit \in Nat
      BY <1>1, BookBound, LimitAssumption
    <3> QED
      BY ONLY <1>2, <2>3, <2>4, <3>2, <3>3
  <2>6. Book(frames, hp, free - 1, counted + n, lost)
    BY <2>2, <2>3
  <2> QED
    BY <1>1, <1>6, <2>1, <2>5, <2>6, Going
<1>7. CASE /\ free' = s.free /\ counted' = s.counted /\ lost' = s.lost
           /\ ~s.ok /\ heap' = heap /\ outcome' # "running"
  BY <1>1, <1>3, <1>7, Ended
<1> QED
  BY <1>4, <1>5, <1>6, <1>7

----------------------------------------------------------------------------
(* The theorems.                                                            *)

\* The record of the static initializer has no blocks.
LEMMA InitInv == Init => Inv
<1> SUFFICES ASSUME Init PROVE Inv
  OBVIOUS
<1>1. /\ frames = <<Initializer>> /\ heap = <<>> /\ lost = 0
      /\ free = Usable - Len(Fixed) /\ counted = Sum(Fixed)
  BY DEF Init
<1>2. <<>> \in Seq(Block) /\ Len(<<>>) = 0 /\ Sum(<<>>) = 0
  BY NoSizes
<1>3. Initializer \in FrameRec /\ Initializer.root
  BY <1>2 DEF Initializer, FrameRec
<1>4. FN[Initializer] = 0 /\ FB[Initializer] = 0 /\ FU[Initializer] = 0
  <2>1. /\ Initializer.vars = <<>> /\ Initializer.allocas = <<>>
        /\ Initializer.variadic = <<>>
    BY DEF Initializer
  <2>2. /\ FrameBlocks(Initializer) = Len(<<>>) + Len(<<>>) + Len(<<>>)
        /\ FrameBytes(Initializer) = Sum(<<>>) + Sum(<<>>) + Sum(<<>>)
        /\ Unchecked(Initializer) = Sum(<<>>) + IF Initializer.root THEN Sum(<<>>) ELSE 0
    BY <2>1 DEF FrameBlocks, FrameBytes, Unchecked
  <2>3. /\ FrameBlocks(Initializer) = 0 + 0 + 0 /\ FrameBytes(Initializer) = 0 + 0 + 0
        /\ Unchecked(Initializer) = 0 + 0
    BY <1>2, <1>3, <2>2
  <2> QED
    BY <1>3, <2>3, FrameFacts
<1>5. <<>> \in Seq(FrameRec) /\ <<>> \in Seq(HeapRec) /\ frames = Append(<<>>, Initializer)
  BY <1>1
<1>6. /\ Len(Fixed) \in Nat /\ Sum(Fixed) \in Nat /\ Len(Fixed) <= Usable /\ Usable \in Nat
      /\ Limit \in Nat /\ MaxLost \in Nat
  BY FixedFacts, LimitAssumption
<1>7. /\ NumBlocks(<<>>, <<>>) = Len(Fixed) /\ NumBytes(<<>>, <<>>) = Sum(Fixed)
      /\ NumUnchecked(<<>>, <<>>) = Sum(Fixed)
  BY <1>2, <1>6, OverNone DEF NumBlocks, NumBytes, NumUnchecked
<1>8. Book(<<>>, <<>>, free, counted, 0)
  BY <1>1, <1>5, <1>6, <1>7 DEF Book
<1>9. FN[Initializer] <= free
  BY <1>1, <1>4, <1>6
<1>10. /\ Book(frames, heap, free - 0, counted + 0, 0)
       /\ NumUnchecked(frames, heap) = Sum(Fixed) + 0
  <2> DEFINE e == Initializer
             fs == <<>>
             hp == <<>>
             gs == Append(fs, e)
  <2>1. Book(fs, hp, free, counted, 0) /\ e \in FrameRec /\ FN[e] <= free
    BY <1>3, <1>8, <1>9
  <2>2. gs = frames /\ hp = heap
    BY <1>1
  <2>3. NumUnchecked(fs, hp) = Sum(Fixed) /\ FN[e] = 0 /\ FB[e] = 0 /\ FU[e] = 0
    BY <1>4, <1>7
  <2> HIDE DEF e, fs, hp
  <2>4. /\ Book(gs, hp, free - FN[e], counted + FB[e], 0)
        /\ NumUnchecked(gs, hp) = NumUnchecked(fs, hp) + FU[e]
    BY <2>1, BookPushFrame
  <2> QED
    BY <2>2, <2>3, <2>4
<1>11. Book(frames, heap, free, counted, lost)
  <2>1. free - 0 = free /\ counted + 0 = counted
    BY <1>1, <1>6
  <2> QED
    BY <1>1, <1>10, <2>1
<1>12. Rooted(frames)
  BY <1>3, <1>5, RootedPush
<1>13. Within(frames, heap, counted)
  BY <1>1, <1>6, <1>10 DEF Within
<1> QED
  BY <1>1, <1>6, <1>11, <1>12, <1>13 DEF Inv

\* Every step keeps the invariant.
LEMMA NextInv == Inv /\ [Next]_vars => Inv'
<1> SUFFICES ASSUME Inv, [Next]_vars PROVE Inv'
  OBVIOUS
<1>1. Sizes \subseteq Nat /\ 0 .. MaxHeap \subseteq Nat
  BY LimitAssumption
<1>2. ASSUME NEW n \in Sizes, Malloc(n) PROVE Inv'
  BY <1>1, <1>2, MallocStep
<1>3. ASSUME NEW i \in DOMAIN heap, Free(i) PROVE Inv'
  BY <1>3, FreeStep
<1>4. ASSUME NEW n \in Sizes, NEW m \in Sizes, Alloca(n, m) PROVE Inv'
  BY <1>1, <1>4, AllocaStep
<1>5. ASSUME NEW k \in 0 .. MaxHeap, StackRestore(k) PROVE Inv'
  BY <1>1, <1>5, StackRestoreStep
<1>6. ASSUME NEW f \in Frames, Call(f) PROVE Inv'
  BY <1>6, CallStep
<1>7. ASSUME NEW f \in Frames, NextRoot(f) PROVE Inv'
  BY <1>7, NextRootStep
<1>8. CASE Ret
  BY <1>8, RetStep
<1>9. CASE VaStart
  BY <1>9, VaStartStep
<1>10. CASE UNCHANGED vars
  BY <1>10 DEF Inv, vars, Running
<1> QED
  BY <1>2, <1>3, <1>4, <1>5, <1>6, <1>7, <1>8, <1>9, <1>10 DEF Next

\* The books are exact in every state, and while the program runs there is a
\* frame, the bytes that are lost are bounded, and the limit holds.
THEOREM InvHolds == Spec => []Inv
<1>1. Init => Inv
  BY InitInv
<1>2. Inv /\ [Next]_vars => Inv'
  BY NextInv
<1> QED
  BY <1>1, <1>2, PTL DEF Spec

\* Whatever fails half-way, the segments in use and the counter of bytes are
\* those of the blocks that exist, but for the bytes that were counted for
\* blocks without a segment: for every number of segments and all sizes.
THEOREM BudgetIsExact == Spec => []BudgetExact
<1>1. Inv => BudgetExact
  <2> SUFFICES ASSUME Inv PROVE BudgetExact
    OBVIOUS
  <2>1. Book(frames, heap, free, counted, lost)
    BY DEF Inv
  <2>2. frames \in Seq(FrameRec) /\ heap \in Seq(HeapRec)
    BY <2>1 DEF Book
  <2>3. Blocks = NumBlocks(frames, heap) /\ Bytes = NumBytes(frames, heap)
    BY <2>2, Totals
  <2> QED
    BY <2>1, <2>3 DEF Book, BudgetExact
<1> QED
  BY <1>1, InvHolds, PTL

\* What can_allocate lets pass, and what is lost, never exceeds the limit: no
\* size and no product that wraps gets around the check.
THEOREM LimitHolds == Spec => []LimitHeld
<1>1. Inv => LimitHeld
  <2> SUFFICES ASSUME Inv, Running, Limit > 0 PROVE counted - UncheckedBytes <= Limit
    BY DEF LimitHeld
  <2>1. frames \in Seq(FrameRec) /\ heap \in Seq(HeapRec) /\ Within(frames, heap, counted)
    BY DEF Inv, Book
  <2>2. UncheckedBytes = NumUnchecked(frames, heap)
    BY <2>1, Totals
  <2> QED
    BY <2>1, <2>2 DEF Within
<1> QED
  BY <1>1, InvHolds, PTL

\* Where the host can provide each of the blocks of a function, the checks of
\* do_call are enough for all of them.
THEOREM CallsDoNotThrow ==
    ASSUME \A f \in Frames : f.vars \in Seq(0 .. HostMax)
    PROVE  Spec => []CallsNeverThrow
<1>1. Init => CallsNeverThrow
  BY DEF Init, CallsNeverThrow
<1>2. Inv /\ CallsNeverThrow /\ [Next]_vars => CallsNeverThrow'
  <2> SUFFICES ASSUME Inv, CallsNeverThrow, [Next]_vars PROVE CallsNeverThrow'
    OBVIOUS
  <2>1. ASSUME NEW f \in Frames, Call(f) PROVE CallsNeverThrow'
    <3> DEFINE s == BuildAll(Start, f.vars)
    <3>1. Running /\ Book(frames, heap, free, counted, lost)
      BY <2>1 DEF Inv, Call
    <3>2. /\ Start \in State /\ Start.ok /\ Start.free = free /\ Start.counted = counted
          /\ Start.lost = lost
      BY <3>1, StartFact
    <3>3. CASE ~s.ok /\ HasFreeSegments(Len(f.vars))
               /\ PushRecord(frames, Start, f, FALSE, "CALL")
      <4>1. f.vars \in Seq(Nat) /\ f.vars \in Seq(0 .. HostMax)
        BY FramesType
      <4>2. Built(Start, s, f.vars, Len(f.vars))
        BY <3>2, <4>1, BuildAllFact
      <4>3. Len(f.vars) > free \/ \E i \in 1 .. Len(f.vars) : f.vars[i] > HostMax
        <5> HIDE DEF s
        <5> QED
          BY <3>2, <3>3, <4>2 DEF Built
      <4>4. Len(f.vars) <= free
        BY <3>3 DEF HasFreeSegments
      <4>5. \A i \in 1 .. Len(f.vars) : f.vars[i] \in 0 .. HostMax
        BY <4>1, ElementOfSeq
      <4>6. Len(f.vars) \in Nat /\ free \in Nat /\ HostMax \in Nat
        BY <3>1, <4>1, BookBound, LenProperties, LimitAssumption
      <4> QED
        BY <4>3, <4>4, <4>5, <4>6
    <3>4. CASE \/ outcome' = "error"
               \/ UNCHANGED <<outcome, at>>
               \/ at' = "variadic parameter"
      BY <3>1, <3>4 DEF CallsNeverThrow, Running
    <3> QED
      BY <2>1, <3>3, <3>4 DEF Call, End, Continue
  <2>2. ASSUME NEW f \in Frames, NextRoot(f) PROVE CallsNeverThrow'
    BY <2>2 DEF NextRoot, PushRecord, CallsNeverThrow, End, Continue
  <2>3. ASSUME NEW n \in Sizes, Malloc(n) PROVE CallsNeverThrow'
    BY <2>3 DEF Malloc, CallsNeverThrow, End, Continue
  <2>4. ASSUME NEW i \in DOMAIN heap, Free(i) PROVE CallsNeverThrow'
    BY <2>4 DEF Free, CallsNeverThrow, Continue
  <2>5. ASSUME NEW n \in Sizes, NEW m \in Sizes, Alloca(n, m) PROVE CallsNeverThrow'
    BY <2>5 DEF Alloca, CallsNeverThrow, End, Continue
  <2>6. ASSUME NEW k \in 0 .. MaxHeap, StackRestore(k) PROVE CallsNeverThrow'
    BY <2>6 DEF StackRestore, CallsNeverThrow, Continue
  <2>7. CASE Ret
    BY <2>7 DEF Ret, CallsNeverThrow, Continue
  <2>8. CASE VaStart
    BY <2>8 DEF VaStart, CallsNeverThrow, End, Continue
  <2>9. CASE UNCHANGED vars
    BY <2>9 DEF CallsNeverThrow, vars
  <2> QED
    BY <2>1, <2>2, <2>3, <2>4, <2>5, <2>6, <2>7, <2>8, <2>9 DEF Next
<1> QED
  BY <1>1, <1>2, InvHolds, PTL DEF Spec

==============================================================================
