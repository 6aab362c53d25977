---------------------- MODULE CaseInsensitiveVfsProofs ----------------------
(***************************************************************************)
(* What CaseInsensitiveVfs's run checks for a few trees of files, proved    *)
(* for every command line, any roots and any prefix-closed files: the       *)
(* walk's overlay is the case-insensitive view of the roots, its names are  *)
(* in order, and it fails where no such view can be.                        *)
(***************************************************************************)
EXTENDS CaseInsensitiveView, SequencesExt, SequenceTheorems,
        FiniteSetTheorems, WellFoundedInduction, TLAPS

------------------------------------------------------------------------------
(* What the proofs need of numbers and of folds.  The library's theorems    *)
(* on induction and recursion have an operator for a parameter; those here  *)
(* have a set or a function, which a proof can put in.                      *)

\* A non-empty set of natural numbers has a least element.
LEMMA NatMin ==
  ASSUME NEW T, T \subseteq Nat, T # {}
  PROVE  \E m \in T : \A y \in T : m <= y
<1> DEFINE R == OpToRel(<, Nat)
<1>1. IsWellFoundedOn(R, Nat)
  BY NatLessThanWellFounded, Zenon
<1>2. ASSUME NEW x \in Nat, NEW y \in Nat, y < x
      PROVE  <<y, x>> \in R
  BY <1>2 DEF OpToRel
<1> HIDE DEF R
<1>3. \E x \in T : \A y \in T : ~ (<<y, x>> \in R)
  BY <1>1, WFMin, Zenon
<1>4. PICK m \in T : \A y \in T : ~ (<<y, m>> \in R)
  BY <1>3, Zenon
<1>5. ASSUME NEW y \in T PROVE m <= y
  <2>1. m \in Nat /\ y \in Nat
    OBVIOUS
  <2>2. ~ (y < m)
    BY <1>2, <1>4, <2>1, Zenon
  <2> QED
    BY <2>1, <2>2
<1> QED
  BY <1>4, <1>5

\* Induction up to n: a set with 0, and with k + 1 for each of its k below n,
\* has all numbers up to n.
LEMMA UpTo ==
  ASSUME NEW n \in Nat, NEW T, 0 \in T, \A k \in 0 .. n - 1 : k \in T => k + 1 \in T
  PROVE  0 .. n \subseteq T
<1> DEFINE U == {k \in 0 .. n : k \notin T}
<1> SUFFICES ASSUME U # {} PROVE FALSE
  OBVIOUS
<1>1. U \subseteq Nat
  OBVIOUS
<1>2. PICK m \in U : \A y \in U : m <= y
  BY <1>1, NatMin
<1>3. m # 0 /\ m \in Nat /\ m - 1 \in 0 .. n - 1
  BY <1>2
<1>4. m - 1 \in T
  BY <1>2, <1>3
<1> QED
  BY <1>2, <1>3, <1>4

\* A non-empty set of numbers up to n has a greatest one.
LEMMA MaxOf ==
  ASSUME NEW n \in Nat, NEW S, S \subseteq 0 .. n, S # {}
  PROVE  Max(S) \in S /\ \A y \in S : y <= Max(S)
<1> DEFINE T == {n - y : y \in S}
<1>1. T \subseteq Nat /\ T # {}
  <2>1. \A y \in S : n - y \in Nat
    OBVIOUS
  <2> QED
    BY <2>1
<1>2. PICK m \in T : \A y \in T : m <= y
  BY <1>1, NatMin
<1>3. PICK x \in S : m = n - x
  BY <1>2
<1>4. \A y \in S : x >= y
  <2> TAKE y \in S
  <2>1. n - y \in T
    OBVIOUS
  <2>2. n - x <= n - y
    BY <1>2, <1>3, <2>1
  <2>3. x \in Int /\ y \in Int
    OBVIOUS
  <2> QED
    BY <2>2, <2>3
<1> QED
  BY <1>4 DEF Max

\* A number that is in a set of numbers up to it is the greatest.
LEMMA MaxIs ==
  ASSUME NEW n \in Nat, NEW S, S \subseteq 0 .. n, n \in S
  PROVE  Max(S) = n
<1>1. Max(S) \in S /\ n <= Max(S)
  BY MaxOf
<1>2. Max(S) \in 0 .. n
  BY <1>1
<1> QED
  BY <1>1, <1>2

\* h is the fold from b of the functions G[k], k in 1..n, on the subsets of
\* 1..n; iter is, as far as its values are in V; acc is it on 1..k for each k.
IsFold(h, n, b, G) ==
  \A t \in SUBSET (1 .. n) : h[t] = IF t = {} THEN b ELSE G[Max(t)][h[t \ {Max(t)}]]
FoldsIn(iter, n, V, b, G) ==
  /\ iter[{}] = b
  /\ \A t \in (SUBSET (1 .. n)) \ {{}} :
       iter[t \ {Max(t)}] \in V => iter[t] = G[Max(t)][iter[t \ {Max(t)}]]
AreSteps(acc, n, b, G) ==
  acc[0] = b /\ \A k \in 1 .. n : acc[k] = G[k][acc[k - 1]]

\* The function exists: it is one on the subsets of 1..k for each k.
LEMMA FoldExists ==
  ASSUME NEW n \in Nat, NEW V, NEW b \in V, NEW G \in [1 .. n -> [V -> V]]
  PROVE  \E h \in [SUBSET (1 .. n) -> V] : IsFold(h, n, b, G)
<1> DEFINE Eq(k, h) == \A t \in SUBSET (1 .. k) :
                         h[t] = IF t = {} THEN b ELSE G[Max(t)][h[t \ {Max(t)}]]
           T == {k \in 0 .. n : \E h \in [SUBSET (1 .. k) -> V] : Eq(k, h)}
<1>1. 0 \in T
  <2> DEFINE h == [t \in SUBSET (1 .. 0) |-> b]
  <2>1. 1 .. 0 = {}
    OBVIOUS
  <2>2. h \in [SUBSET (1 .. 0) -> V]
    OBVIOUS
  <2>3. Eq(0, h)
    BY <2>1
  <2> HIDE DEF h, Eq
  <2>4. \E g \in [SUBSET (1 .. 0) -> V] : Eq(0, g)
    BY <2>2, <2>3, Zenon
  <2>5. 0 \in 0 .. n
    OBVIOUS
  <2> QED
    BY <2>4, <2>5, Zenon
<1>2. ASSUME NEW k \in 0 .. n - 1, k \in T PROVE k + 1 \in T
  <2>1. PICK h \in [SUBSET (1 .. k) -> V] : Eq(k, h)
    BY <1>2
  <2>2. /\ k + 1 \in 1 .. n /\ 1 .. k + 1 = (1 .. k) \cup {k + 1} /\ k + 1 \notin 1 .. k
        /\ \A t \in SUBSET (1 .. k + 1) : t \ {k + 1} \in SUBSET (1 .. k)
        /\ \A t \in SUBSET (1 .. k + 1) : k + 1 \notin t => t \in SUBSET (1 .. k)
    OBVIOUS
  <2> DEFINE g == [t \in SUBSET (1 .. k + 1) |->
                     IF k + 1 \in t THEN G[k + 1][h[t \ {k + 1}]] ELSE h[t]]
  <2>3. g \in [SUBSET (1 .. k + 1) -> V]
    BY <2>1, <2>2
  <2>4. ASSUME NEW t \in SUBSET (1 .. k + 1)
        PROVE  g[t] = IF t = {} THEN b ELSE G[Max(t)][g[t \ {Max(t)}]]
    <3>1. CASE t = {}
      BY <2>1, <2>2, <3>1
    <3>2. CASE k + 1 \in t
      <4>1. Max(t) = k + 1
        <5>1. k + 1 \in Nat /\ t \subseteq 0 .. k + 1
          BY <3>2
        <5> QED
          BY <3>2, <5>1, MaxIs
      <4>2. g[t \ {k + 1}] = h[t \ {k + 1}]
        BY <2>2
      <4> QED
        BY <3>2, <4>1, <4>2
    <3>3. CASE t # {} /\ k + 1 \notin t
      <4>1. t \in SUBSET (1 .. k)
        BY <2>2, <3>3
      <4>2. h[t] = G[Max(t)][h[t \ {Max(t)}]]
        BY <2>1, <3>3, <4>1
      <4>3. t \ {Max(t)} \in SUBSET (1 .. k + 1) /\ k + 1 \notin t \ {Max(t)}
        BY <3>3
      <4> QED
        BY <3>3, <4>2, <4>3
    <3> QED
      BY <3>1, <3>2, <3>3
  <2> HIDE DEF g
  <2>5. Eq(k + 1, g)
    BY <2>4
  <2> HIDE DEF Eq
  <2>6. \E f \in [SUBSET (1 .. k + 1) -> V] : Eq(k + 1, f)
    BY <2>3, <2>5, Zenon
  <2>7. k + 1 \in 0 .. n
    OBVIOUS
  <2> QED
    BY <2>6, <2>7, Zenon
<1>3. n \in T
  <2> HIDE DEF T
  <2>1. 0 .. n \subseteq T
    BY <1>1, <1>2, UpTo
  <2> QED
    BY <2>1
<1> QED
  BY <1>3 DEF IsFold

\* A fold, step by step: what has come of the first k is one step away from
\* what has come of the first k - 1.
LEMMA FoldSteps ==
  ASSUME NEW n \in Nat, NEW V, NEW b \in V, NEW G \in [1 .. n -> [V -> V]], NEW iter,
         FoldsIn(iter, n, V, b, G)
  PROVE  \E acc \in [0 .. n -> V] : AreSteps(acc, n, b, G) /\ acc[n] = iter[1 .. n]
<1> USE DEF FoldsIn
<1>1. ASSUME NEW k \in 0 .. n - 1, iter[1 .. k] \in V
      PROVE  iter[1 .. k + 1] = G[k + 1][iter[1 .. k]] /\ k + 1 \in 1 .. n
  <2>1. /\ 1 .. k + 1 \in (SUBSET (1 .. n)) \ {{}} /\ k + 1 \in 1 .. k + 1
        /\ (1 .. k + 1) \ {k + 1} = 1 .. k /\ 1 .. k + 1 \subseteq 0 .. k + 1
    OBVIOUS
  <2>2. Max(1 .. k + 1) = k + 1
    BY <2>1, MaxIs
  <2> QED
    BY <1>1, <2>1, <2>2
<1> DEFINE T == {k \in 0 .. n : iter[1 .. k] \in V}
<1>2. 0 .. n \subseteq T
  <2>1. 0 \in T
    BY 1 .. 0 = {}
  <2>2. ASSUME NEW k \in 0 .. n - 1, k \in T PROVE k + 1 \in T
    <3>1. k + 1 \in 1 .. n /\ k + 1 \in 0 .. n
      OBVIOUS
    <3>2. iter[1 .. k + 1] = G[k + 1][iter[1 .. k]] /\ iter[1 .. k] \in V
      BY <1>1, <2>2
    <3>3. iter[1 .. k + 1] \in V
      BY <3>1, <3>2
    <3> QED
      BY <3>1, <3>3
  <2> HIDE DEF T
  <2> QED
    BY <2>1, <2>2, UpTo
<1> DEFINE acc == [k \in 0 .. n |-> iter[1 .. k]]
<1>3. acc \in [0 .. n -> V] /\ acc[n] = iter[1 .. n]
  BY <1>2
<1>4. acc[0] = b
  BY 1 .. 0 = {}
<1>5. ASSUME NEW k \in 1 .. n PROVE acc[k] = G[k][acc[k - 1]]
  <2>1. k - 1 \in 0 .. n - 1 /\ k - 1 \in 0 .. n /\ (k - 1) + 1 = k
    OBVIOUS
  <2>2. iter[1 .. k - 1] \in V
    BY <1>2, <2>1
  <2>3. iter[1 .. k] = G[k][iter[1 .. k - 1]]
    BY <1>1, <2>1, <2>2
  <2> QED
    BY <2>1, <2>3
<1>6. AreSteps(acc, n, b, G)
  BY <1>4, <1>5 DEF AreSteps
<1> HIDE DEF acc
<1> QED
  BY <1>3, <1>6, Zenon

------------------------------------------------------------------------------
(* Sorting.                                                                 *)

\* The sequences of the elements of a finite set have each of them once.
LEMMA SeqsOf ==
  ASSUME NEW S, IsFiniteSet(S), NEW s \in SetToSeqs(S)
  PROVE  /\ s \in Seq(S) /\ Len(s) = Cardinality(S) /\ DOMAIN s = 1 .. Len(s)
         /\ Range(s) = S
         /\ \A i, j \in DOMAIN s : i # j => s[i] # s[j]
<1> DEFINE n == Cardinality(S)
<1>1. n \in Nat
  BY FS_CardinalityType
<1> HIDE DEF n
<1>2. s \in [1 .. n -> S] /\ \A i, j \in 1 .. n : i # j => s[i] # s[j]
  BY DEF SetToSeqs, n
<1>3. s \in Injection(1 .. n, S)
  BY <1>2 DEF Injection, IsInjective
<1>4. Cardinality(1 .. n) = n /\ IsFiniteSet(1 .. n)
  <2>1. 1 \in Int /\ n \in Int
    BY <1>1
  <2>2. Cardinality(1 .. n) = (IF 1 > n THEN 0 ELSE n - 1 + 1) /\ IsFiniteSet(1 .. n)
    BY <2>1, FS_Interval
  <2> QED
    BY <1>1, <2>2
<1>5. s \in Surjection(1 .. n, S)
  BY <1>3, <1>4, FS_Injection DEF n
<1>6. \A x \in S : \E i \in 1 .. n : s[i] = x
  BY <1>5 DEF Surjection
<1>7. s \in Seq(S) /\ Len(s) = n /\ DOMAIN s = 1 .. n
  BY <1>1, <1>2
<1>8. Range(s) = S
  BY <1>2, <1>6, <1>7 DEF Range
<1> QED
  BY <1>2, <1>7, <1>8 DEF n

\* A finite set that a relation orders has its sequence in that order.
LEMMA SortExists ==
  ASSUME NEW S, IsFiniteSet(S), NEW R,
         \A x \in S : <<x, x>> \notin R,
         \A x, y \in S : x # y => <<x, y>> \in R \/ <<y, x>> \in R,
         \A x, y, z \in S : <<x, y>> \in R /\ <<y, z>> \in R => <<x, z>> \in R
  PROVE  \E s \in SetToSeqs(S) : \A i, j \in DOMAIN s : i < j => <<s[i], s[j]>> \in R
<1> DEFINE n == Cardinality(S)
<1>1. n \in Nat
  BY FS_CardinalityType
<1>2. PICK f \in [1 .. n -> S] : \A i, j \in 1 .. n : f[i] = f[j] => i = j
  BY FS_CardinalityType DEF ExistsBijection, Bijection, Injection, IsInjective
<1> HIDE DEF n
<1> DEFINE Sorted(s, k) ==
             /\ \A j \in 1 .. k : \E i \in 1 .. k : s[j] = f[i]
             /\ \A i, j \in 1 .. k : i < j => <<s[i], s[j]>> \in R
           T == {k \in 0 .. n : \E s \in [1 .. k -> S] : Sorted(s, k)}
<1>3. 0 \in T
  <2>1. 0 \in 0 .. n /\ 1 .. 0 = {}
    BY <1>1
  <2> DEFINE s == [i \in 1 .. 0 |-> CHOOSE x \in S : TRUE]
  <2>2. s \in [1 .. 0 -> S] /\ Sorted(s, 0)
    BY <2>1
  <2> QED
    BY <2>1, <2>2
<1>4. ASSUME NEW k \in 0 .. n - 1, k \in T
      PROVE  k + 1 \in T
  <2>1. PICK s \in [1 .. k -> S] : Sorted(s, k)
    BY <1>4
  <2>2. /\ k \in Nat /\ k + 1 \in 0 .. n /\ k + 1 \in 1 .. n
        /\ \A i \in 1 .. k : i \in 1 .. n /\ i # k + 1
    BY <1>1
  <2> DEFINE x == f[k + 1]
             later == {i \in 1 .. k : <<x, s[i]>> \in R} \cup {k + 1}
  <2>3. x \in S
    BY <1>2, <2>2
  <2>4. \A i \in 1 .. k : s[i] # x
    <3> TAKE i \in 1 .. k
    <3>1. PICK m \in 1 .. k : s[i] = f[m]
      BY <2>1
    <3> QED
      BY <1>2, <2>2, <3>1
  <2> HIDE DEF x, Sorted
  <2>5. PICK c \in later : \A i \in later : c <= i
    <3>1. later \subseteq Nat /\ later # {}
      BY <2>2
    <3> QED
      BY <3>1, NatMin
  <2>6. c \in 1 .. k + 1
    BY <2>2
  <2>7. \A i \in 1 .. k : i < c => <<s[i], x>> \in R
    <3> TAKE i \in 1 .. k
    <3> HAVE i < c
    <3>1. i \notin later
      BY <2>2, <2>5, <2>6
    <3>2. <<x, s[i]>> \notin R /\ s[i] \in S
      BY <3>1
    <3> QED
      BY <2>3, <2>4, <3>2
  <2>8. \A i \in 1 .. k : c <= i => <<x, s[i]>> \in R
    <3> TAKE i \in 1 .. k
    <3> HAVE c <= i
    <3>1. c \in 1 .. k /\ <<x, s[c]>> \in R
      BY <2>2, <2>6
    <3>2. c = i \/ c < i
      BY <2>2, <2>6
    <3>3. c < i => <<s[c], s[i]>> \in R
      BY <2>1, <3>1 DEF Sorted
    <3>4. s[c] \in S /\ s[i] \in S
      BY <3>1
    <3> QED
      BY <2>3, <3>1, <3>2, <3>3, <3>4
  <2> HIDE DEF later
  <2> DEFINE t == [i \in 1 .. k + 1 |-> IF i < c THEN s[i] ELSE IF i = c THEN x ELSE s[i - 1]]
  <2>9. \A i \in 1 .. k + 1 : /\ i < c => i \in 1 .. k /\ t[i] = s[i]
                              /\ i = c => t[i] = x
                              /\ i > c => i - 1 \in 1 .. k /\ c <= i - 1 /\ t[i] = s[i - 1]
    BY <2>2, <2>6
  <2>10. t \in [1 .. k + 1 -> S]
    BY <2>2, <2>3, <2>6
  <2> HIDE DEF t
  <2>11. ASSUME NEW j \in 1 .. k + 1
         PROVE  \E i \in 1 .. k + 1 : t[j] = f[i]
    <3>1. \A m \in 1 .. k : \E i \in 1 .. k : s[m] = f[i]
      BY <2>1 DEF Sorted
    <3>2. \A i \in 1 .. k : i \in 1 .. k + 1
      BY <2>2
    <3>3. k + 1 \in 1 .. k + 1
      BY <2>2
    <3>4. j < c \/ j = c \/ j > c
      BY <2>6
    <3> QED
      BY <2>9, <3>1, <3>2, <3>3, <3>4 DEF x
  <2>12. ASSUME NEW i \in 1 .. k + 1, NEW j \in 1 .. k + 1, i < j
         PROVE  <<t[i], t[j]>> \in R
    <3>1. \A a, b \in 1 .. k : a < b => <<s[a], s[b]>> \in R
      BY <2>1 DEF Sorted
    <3>2. CASE j < c
      <4>1. i < c
        BY <2>6, <2>12, <3>2
      <4> QED
        BY <2>9, <2>12, <3>1, <3>2, <4>1
    <3>3. CASE j = c
      BY <2>7, <2>9, <2>12, <3>3
    <3>4. CASE j > c /\ i < c
      <4>1. i < j - 1
        BY <2>6, <3>4
      <4> QED
        BY <2>9, <3>1, <3>4, <4>1
    <3>5. CASE j > c /\ i = c
      BY <2>8, <2>9, <3>5
    <3>6. CASE j > c /\ i > c
      <4>1. i - 1 < j - 1
        BY <2>12
      <4> QED
        BY <2>9, <3>1, <3>6, <4>1
    <3> QED
      BY <2>6, <3>2, <3>3, <3>4, <3>5, <3>6
  <2>13. Sorted(t, k + 1)
    BY <2>11, <2>12 DEF Sorted
  <2> QED
    BY <2>2, <2>10, <2>13
<1>5. n \in T
  <2> HIDE DEF T
  <2>1. 0 .. n \subseteq T
    BY <1>1, <1>3, <1>4, UpTo
  <2> QED
    BY <1>1, <2>1
<1>6. PICK s \in [1 .. n -> S] : Sorted(s, n)
  BY <1>5
<1>7. \A i, j \in 1 .. n : i # j => s[i] # s[j]
  <2> TAKE i, j \in 1 .. n
  <2> HAVE i # j
  <2>1. i < j \/ j < i
    BY <1>1
  <2>2. <<s[i], s[j]>> \in R \/ <<s[j], s[i]>> \in R
    BY <1>6, <2>1
  <2> QED
    BY <2>2
<1>8. s \in SetToSeqs(S) /\ DOMAIN s = 1 .. n
  BY <1>7 DEF SetToSeqs, n
<1> QED
  BY <1>6, <1>8

\* qsort of numbers.
LEMMA QsortOfNumbers ==
  ASSUME NEW S \in SUBSET Nat, IsFiniteSet(S)
  PROVE  /\ Qsort(S, <) \in SetToSeqs(S)
         /\ \A i, j \in DOMAIN Qsort(S, <) : i < j => Qsort(S, <)[i] < Qsort(S, <)[j]
<1> DEFINE R == {p \in S \X S : p[1] < p[2]}
<1>1. /\ \A x \in S : <<x, x>> \notin R
      /\ \A x, y \in S : x # y => <<x, y>> \in R \/ <<y, x>> \in R
      /\ \A x, y, z \in S : <<x, y>> \in R /\ <<y, z>> \in R => <<x, z>> \in R
  OBVIOUS
<1>2. \A x, y \in S : <<x, y>> \in R => x < y
  OBVIOUS
<1> HIDE DEF R
<1>3. PICK s \in SetToSeqs(S) : \A i, j \in DOMAIN s : i < j => <<s[i], s[j]>> \in R
  BY <1>1, SortExists
<1>4. \A i, j \in DOMAIN s : i < j => s[i] < s[j]
  <2>1. \A i \in DOMAIN s : s[i] \in S
    BY SeqsOf
  <2> QED
    BY <1>2, <1>3, <2>1
<1>5. \E t \in SetToSeqs(S) : \A i, j \in DOMAIN t : i < j => t[i] < t[j]
  BY <1>4, Zenon
<1> QED
  BY <1>5, Zenon DEF Qsort

\* compare_entries orders the names of a directory.
LEMMA PrecedesOrders ==
  ASSUME NEW x \in Names, NEW y \in Names
  PROVE  /\ Folded[x] \in Names /\ x \in Nat /\ Folded[x] \in Nat
         /\ precedes(x, y) \in BOOLEAN
         /\ ~ precedes(x, x)
         /\ x # y => precedes(x, y) \/ precedes(y, x)
         /\ precedes(x, y) => Folded[x] <= Folded[y]
         /\ IsLower(x) /\ IsLower(y) /\ Folded[x] = Folded[y] => x = y
<1>1. Names \subseteq Nat /\ Folded \in [Names -> Names]
  BY NamesAssumption
<1>2. Folded[x] \in Names /\ Folded[y] \in Names
  BY <1>1
<1>3. x \in Nat /\ y \in Nat /\ Folded[x] \in Nat /\ Folded[y] \in Nat
  BY <1>1, <1>2
<1> QED
  BY <1>2, <1>3 DEF precedes, IsLower

\* compare_entries is transitive.
LEMMA PrecedesIsTransitive ==
  ASSUME NEW x \in Names, NEW y \in Names, NEW z \in Names, precedes(x, y), precedes(y, z)
  PROVE  precedes(x, z)
BY PrecedesOrders DEF precedes

\* s has the elements of S, each once, as compare_entries orders them.
IsInOrder(s, S) ==
  /\ s \in Seq(S) /\ DOMAIN s = 1 .. Len(s) /\ Range(s) = S
  /\ \A i, j \in DOMAIN s : i < j => precedes(s[i], s[j]) /\ s[i] # s[j]

\* The names of a directory, in whatever order readdir gives them, come out of
\* qsort in the order of compare_entries, each once.
LEMMA EntriesAreSorted ==
  ASSUME NEW S \in SUBSET Names, IsFiniteSet(S), NEW names \in SetToSeqs(S)
  PROVE  IsInOrder(SortedEntries(names), S)
<1> DEFINE R == {p \in S \X S : precedes(p[1], p[2])}
<1>1. /\ \A x \in S : <<x, x>> \notin R
      /\ \A x, y \in S : x # y => <<x, y>> \in R \/ <<y, x>> \in R
      /\ \A x, y, z \in S : <<x, y>> \in R /\ <<y, z>> \in R => <<x, z>> \in R
  <2>1. \A x, y \in S : <<x, y>> \in R <=> precedes(x, y)
    OBVIOUS
  <2> HIDE DEF R
  <2> QED
    BY <2>1, PrecedesOrders, PrecedesIsTransitive
<1>2. \A x, y \in S : <<x, y>> \in R => precedes(x, y)
  OBVIOUS
<1> HIDE DEF R
<1>3. PICK s \in SetToSeqs(S) : \A i, j \in DOMAIN s : i < j => <<s[i], s[j]>> \in R
  BY <1>1, SortExists
<1>4. \A i, j \in DOMAIN s : i < j => precedes(s[i], s[j])
  <2>1. \A i \in DOMAIN s : s[i] \in S
    BY SeqsOf
  <2> QED
    BY <1>2, <1>3, <2>1
<1>5. \E t \in SetToSeqs(S) : \A i, j \in DOMAIN t : i < j => precedes(t[i], t[j])
  BY <1>4, Zenon
<1> DEFINE q == SortedEntries(names)
<1>6. Range(names) = S
  BY SeqsOf
<1>7. q \in SetToSeqs(S) /\ \A i, j \in DOMAIN q : i < j => precedes(q[i], q[j])
  BY <1>5, <1>6, Zenon DEF Qsort, SortedEntries
<1> HIDE DEF q
<1>8. /\ q \in Seq(S) /\ DOMAIN q = 1 .. Len(q) /\ Range(q) = S
      /\ \A i, j \in DOMAIN q : i # j => q[i] # q[j]
  BY <1>7, SeqsOf
<1>9. \A i, j \in DOMAIN q : i < j => precedes(q[i], q[j]) /\ q[i] # q[j]
  <2>1. \A i \in DOMAIN q : i \in Nat
    BY <1>8
  <2> QED
    BY <1>7, <1>8, <2>1
<1> QED
  BY <1>8, <1>9 DEF IsInOrder, q

\* Along sorted names the folded ones do not decrease.
LEMMA SortedIsMonotone ==
  ASSUME NEW S \in SUBSET Names, NEW s, IsInOrder(s, S)
  PROVE  /\ Len(s) \in Nat /\ DOMAIN s = 1 .. Len(s)
         /\ \A i \in 1 .. Len(s) : s[i] \in S /\ s[i] \in Names /\ Folded[s[i]] \in Nat
         /\ \A i, j \in 1 .. Len(s) : i <= j => Folded[s[i]] <= Folded[s[j]]
         /\ \A i, j \in 1 .. Len(s) : s[i] = s[j] => i = j
<1>1. /\ Len(s) \in Nat /\ DOMAIN s = 1 .. Len(s) /\ \A i \in 1 .. Len(s) : s[i] \in S
  BY DEF IsInOrder
<1>2. \A i \in 1 .. Len(s) : s[i] \in S /\ s[i] \in Names /\ Folded[s[i]] \in Nat
  BY <1>1, PrecedesOrders
<1>3. \A i, j \in 1 .. Len(s) : i < j => Folded[s[i]] <= Folded[s[j]] /\ s[i] # s[j]
  BY <1>1, <1>2, PrecedesOrders DEF IsInOrder
<1>4. \A i, j \in 1 .. Len(s) : i < j \/ i = j \/ j < i
  BY <1>1
<1>5. \A i, j \in 1 .. Len(s) : i <= j => i < j \/ i = j
  BY <1>1
<1>6. \A i \in 1 .. Len(s) : Folded[s[i]] <= Folded[s[i]]
  BY <1>2
<1>7. \A i, j \in 1 .. Len(s) : i <= j => Folded[s[i]] <= Folded[s[j]]
  BY <1>3, <1>5, <1>6
<1>8. \A i, j \in 1 .. Len(s) : s[i] = s[j] => i = j
  BY <1>3, <1>4
<1> QED
  BY <1>1, <1>2, <1>7, <1>8

\* The run from a start is all the names that are equal to it but for case.
LEMMA RunsAreAliases ==
  ASSUME NEW S \in SUBSET Names, NEW s, IsInOrder(s, S)
  PROVE  /\ Starts(s) \subseteq 1 .. Len(s)
         /\ \A i \in Starts(s) :
              Run(s, i) = {k \in 1 .. Len(s) : Folded[s[k]] = Folded[s[i]]}
         /\ \A k \in 1 .. Len(s) : \E i \in Starts(s) : Folded[s[i]] = Folded[s[k]]
         /\ \A i, j \in Starts(s) : Folded[s[i]] = Folded[s[j]] => i = j
<1> DEFINE F == [k \in 1 .. Len(s) |-> Folded[s[k]]]
<1>1. /\ Len(s) \in Nat /\ DOMAIN s = 1 .. Len(s)
      /\ \A k \in 1 .. Len(s) : F[k] \in Nat /\ F[k] = Folded[s[k]]
      /\ \A i, j \in 1 .. Len(s) : i <= j => F[i] <= F[j]
  BY SortedIsMonotone
<1> HIDE DEF F
<1>2. Starts(s) = {i \in 1 .. Len(s) : i = 1 \/ F[i - 1] # F[i]}
  <2>1. \A i \in 1 .. Len(s) : i # 1 => i - 1 \in 1 .. Len(s)
    BY <1>1
  <2> QED
    BY <1>1, <2>1 DEF Starts
<1>3. ASSUME NEW i \in Starts(s), NEW k \in 1 .. Len(s), F[k] = F[i]
      PROVE  i <= k
  <2> SUFFICES ASSUME k < i PROVE FALSE
    BY <1>1, <1>2
  <2>1. i \in 1 .. Len(s) /\ i # 1 /\ F[i - 1] # F[i] /\ i - 1 \in 1 .. Len(s)
        /\ k <= i - 1 /\ i - 1 <= i
    BY <1>1, <1>2
  <2>2. F[k] <= F[i - 1] /\ F[i - 1] <= F[i] /\ F[i] \in Nat /\ F[i - 1] \in Nat
    BY <1>1, <2>1
  <2> QED
    BY <1>3, <2>1, <2>2
<1>4. ASSUME NEW i \in Starts(s)
      PROVE  Run(s, i) = {k \in 1 .. Len(s) : Folded[s[k]] = Folded[s[i]]}
  <2>1. i \in 1 .. Len(s)
    BY <1>2
  <2>2. \A k \in i .. Len(s) : k \in 1 .. Len(s) /\ k \in i .. k
                              /\ \A j \in i .. k : j \in 1 .. Len(s)
    BY <1>1, <2>1
  <2>3. Run(s, i) = {k \in i .. Len(s) : \A j \in i .. k : F[j] = F[i]}
    BY <1>1, <2>1, <2>2 DEF Run
  <2>4. ASSUME NEW k \in 1 .. Len(s), F[k] = F[i]
        PROVE  k \in Run(s, i)
    <3>1. i <= k /\ k \in i .. Len(s)
      BY <1>1, <1>3, <2>1, <2>4
    <3>2. \A j \in i .. k : j \in 1 .. Len(s) /\ i <= j /\ j <= k
      BY <1>1, <2>1
    <3>3. \A j \in i .. k : F[i] <= F[j] /\ F[j] <= F[k] /\ F[j] \in Nat /\ F[i] \in Nat
      BY <1>1, <2>1, <3>2
    <3>4. \A j \in i .. k : F[j] = F[i]
      BY <2>4, <3>3
    <3> QED
      BY <2>3, <3>1, <3>4
  <2>5. \A k \in Run(s, i) : k \in 1 .. Len(s) /\ F[k] = F[i]
    BY <2>2, <2>3
  <2> QED
    BY <1>1, <2>1, <2>4, <2>5
<1>5. ASSUME NEW k \in 1 .. Len(s)
      PROVE  \E i \in Starts(s) : F[i] = F[k]
  <2> DEFINE C == {j \in 1 .. Len(s) : F[j] = F[k]}
  <2>1. C \subseteq Nat /\ C # {}
    BY <1>1
  <2>2. PICK i \in C : \A j \in C : i <= j
    BY <2>1, NatMin
  <2>3. i # 1 => i - 1 \in 1 .. Len(s) /\ ~ (i <= i - 1)
    BY <1>1
  <2>4. i # 1 => F[i - 1] # F[i]
    BY <2>2, <2>3
  <2> QED
    BY <1>2, <2>4
<1>6. ASSUME NEW i \in Starts(s), NEW j \in Starts(s), F[i] = F[j]
      PROVE  i = j
  <2>1. i \in 1 .. Len(s) /\ j \in 1 .. Len(s)
    BY <1>2
  <2>2. i <= j /\ j <= i
    BY <1>3, <1>6, <2>1
  <2> QED
    BY <1>1, <2>1, <2>2
<1>7. Starts(s) \subseteq 1 .. Len(s)
  BY <1>2
<1>8. \A i \in Starts(s) : F[i] = Folded[s[i]]
  BY <1>1, <1>7
<1>9. \A k \in 1 .. Len(s) : \E i \in Starts(s) : Folded[s[i]] = Folded[s[k]]
  BY <1>1, <1>5, <1>8
<1>10. \A i, j \in Starts(s) : Folded[s[i]] = Folded[s[j]] => i = j
  BY <1>6, <1>8
<1> QED
  BY <1>4, <1>7, <1>9, <1>10

\* A finite set with an element has more than one if it has another.
LEMMA MoreThanOne ==
  ASSUME NEW S, IsFiniteSet(S), NEW x \in S
  PROVE  Cardinality(S) > 1 <=> \E y \in S : y # x
<1>1. Cardinality(S) \in Nat /\ Cardinality(S) # 0
  BY FS_CardinalityType, FS_EmptySet
<1>2. Cardinality(S) = 1 <=> \E y : S = {y}
  BY FS_Singleton
<1>3. (\E y : S = {y}) <=> ~ \E y \in S : y # x
  OBVIOUS
<1> QED
  BY <1>1, <1>2, <1>3

\* The names of S equal to n but for case, those that are kept of S, and
\* whether there is a name none of whose aliases is kept.
AliasesIn(S, n) == {m \in S : Folded[m] = Folded[n]}
PreferredOf(S) == {n \in S : AliasesIn(S, n) = {n} \/ IsLower(n)}
AmbiguousIn(S) == \E n \in S : AliasesIn(S, n) # {n} /\ ~ \E m \in AliasesIn(S, n) : IsLower(m)

\* validate_sorted_entries finds exactly the ambiguous directories, wherever
\* the sort has put the lower case name.
LEMMA ValidateIsExact ==
  ASSUME NEW S \in SUBSET Names, NEW s, IsInOrder(s, S)
  PROVE  validate_sorted_entries(s) <=> ~ AmbiguousIn(S)
<1>1. /\ Len(s) \in Nat /\ DOMAIN s = 1 .. Len(s)
      /\ \A i \in 1 .. Len(s) : s[i] \in S
      /\ \A i, j \in 1 .. Len(s) : s[i] = s[j] => i = j
      /\ \A n \in S : \E k \in 1 .. Len(s) : s[k] = n
  BY SortedIsMonotone DEF IsInOrder, Range
<1>2. /\ Starts(s) \subseteq 1 .. Len(s)
      /\ \A i \in Starts(s) : Run(s, i) = {k \in 1 .. Len(s) : Folded[s[k]] = Folded[s[i]]}
      /\ \A k \in 1 .. Len(s) : \E i \in Starts(s) : Folded[s[i]] = Folded[s[k]]
  BY RunsAreAliases
<1>3. ASSUME NEW i \in Starts(s)
      PROVE  Cardinality(Run(s, i)) > 1 <=> \E k \in Run(s, i) : k # i
  <2>1. IsFiniteSet(1 .. Len(s))
    <3>1. 1 \in Int /\ Len(s) \in Int
      BY <1>1
    <3> QED
      BY <3>1, FS_Interval
  <2>2. Run(s, i) \in SUBSET (1 .. Len(s)) /\ i \in Run(s, i)
    BY <1>2
  <2>3. IsFiniteSet(Run(s, i))
    BY <2>1, <2>2, FS_Subset
  <2> QED
    BY <2>2, <2>3, MoreThanOne
<1>4. ASSUME NEW i \in Starts(s)
      PROVE  /\ (\E k \in Run(s, i) : k # i) <=> AliasesIn(S, s[i]) # {s[i]}
             /\ (\E k \in Run(s, i) : IsLower(s[k])) <=> \E m \in AliasesIn(S, s[i]) : IsLower(m)
  <2>1. i \in 1 .. Len(s) /\ s[i] \in S /\ s[i] \in AliasesIn(S, s[i])
    BY <1>1, <1>2 DEF AliasesIn
  <2>2. \A k \in Run(s, i) : s[k] \in AliasesIn(S, s[i]) /\ k \in 1 .. Len(s)
    BY <1>1, <1>2 DEF AliasesIn
  <2>3. \A m \in AliasesIn(S, s[i]) : \E k \in Run(s, i) : s[k] = m
    <3> TAKE m \in AliasesIn(S, s[i])
    <3>1. m \in S /\ Folded[m] = Folded[s[i]]
      BY DEF AliasesIn
    <3> QED
      BY <1>1, <1>2, <3>1
  <2>4. (\E k \in Run(s, i) : k # i) <=> \E m \in AliasesIn(S, s[i]) : m # s[i]
    BY <1>1, <2>1, <2>2, <2>3
  <2>5. AliasesIn(S, s[i]) # {s[i]} <=> \E m \in AliasesIn(S, s[i]) : m # s[i]
    BY <2>1
  <2> QED
    BY <2>2, <2>3, <2>4, <2>5
<1>5. AmbiguousIn(S) <=>
        \E i \in Starts(s) : /\ AliasesIn(S, s[i]) # {s[i]}
                             /\ ~ \E m \in AliasesIn(S, s[i]) : IsLower(m)
  <2>1. ASSUME NEW n \in S, AliasesIn(S, n) # {n}, ~ \E m \in AliasesIn(S, n) : IsLower(m)
        PROVE  \E i \in Starts(s) : /\ AliasesIn(S, s[i]) # {s[i]}
                                    /\ ~ \E m \in AliasesIn(S, s[i]) : IsLower(m)
    <3>1. PICK k \in 1 .. Len(s) : s[k] = n
      BY <1>1
    <3>2. PICK i \in Starts(s) : Folded[s[i]] = Folded[n]
      BY <1>2, <3>1
    <3>3. AliasesIn(S, s[i]) = AliasesIn(S, n)
      BY <3>2 DEF AliasesIn
    <3>4. n \in AliasesIn(S, n)
      BY DEF AliasesIn
    <3>5. AliasesIn(S, n) # {s[i]}
      BY <2>1, <3>4
    <3> QED
      BY <2>1, <3>3, <3>5
  <2> QED
    BY <1>1, <1>2, <2>1 DEF AmbiguousIn
<1> QED
  BY <1>3, <1>4, <1>5 DEF validate_sorted_entries

\* A directory's names after the loop: the preferred ones, in increasing order
\* of their folded names.
IsCollapsed(c, S) ==
  /\ c \in Seq(S) /\ DOMAIN c = 1 .. Len(c)
  /\ Range(c) = PreferredOf(S)
  /\ \A i, j \in DOMAIN c : i < j => Folded[c[i]] < Folded[c[j]]

\* Of each run, collapse_sorted_entries keeps the preferred name.
LEMMA CollapseIsPreferred ==
  ASSUME NEW S \in SUBSET Names, NEW s, IsInOrder(s, S), ~ AmbiguousIn(S)
  PROVE  IsCollapsed(collapse_sorted_entries(s), S)
<1> DEFINE lower(i) == {k \in Run(s, i) : IsLower(s[k])}
           selected(i) == IF lower(i) = {} THEN i ELSE Min(lower(i))
           K == {selected(i) : i \in Starts(s)}
           kept == Qsort(K, <)
           c == [k \in DOMAIN kept |-> s[kept[k]]]
<1>1. /\ Len(s) \in Nat /\ DOMAIN s = 1 .. Len(s)
      /\ \A i \in 1 .. Len(s) : s[i] \in S /\ s[i] \in Names /\ Folded[s[i]] \in Nat
      /\ \A i, j \in 1 .. Len(s) : i <= j => Folded[s[i]] <= Folded[s[j]]
      /\ \A i, j \in 1 .. Len(s) : s[i] = s[j] => i = j
      /\ \A n \in S : \E k \in 1 .. Len(s) : s[k] = n
  BY SortedIsMonotone DEF IsInOrder, Range
<1>2. /\ Starts(s) \subseteq 1 .. Len(s)
      /\ \A i \in Starts(s) : Run(s, i) = {k \in 1 .. Len(s) : Folded[s[k]] = Folded[s[i]]}
      /\ \A k \in 1 .. Len(s) : \E i \in Starts(s) : Folded[s[i]] = Folded[s[k]]
      /\ \A i, j \in Starts(s) : Folded[s[i]] = Folded[s[j]] => i = j
  BY RunsAreAliases
<1>3. ASSUME NEW i \in Starts(s), NEW k \in lower(i)
      PROVE  selected(i) = k
  <2>1. i \in 1 .. Len(s) /\ k \in 1 .. Len(s) /\ Folded[s[k]] = Folded[s[i]] /\ IsLower(s[k])
    BY <1>2
  <2>2. ASSUME NEW l \in lower(i) PROVE l = k
    <3>1. l \in 1 .. Len(s) /\ Folded[s[l]] = Folded[s[i]] /\ IsLower(s[l])
      BY <1>2
    <3>2. s[l] = s[k]
      BY <1>1, <2>1, <3>1, PrecedesOrders
    <3> QED
      BY <1>1, <2>1, <3>1, <3>2
  <2>3. lower(i) = {k}
    BY <2>2
  <2>4. Min({k}) = k
    BY <2>1 DEF Min
  <2> QED
    BY <2>3, <2>4
<1>4. ASSUME NEW i \in Starts(s)
      PROVE  /\ selected(i) \in 1 .. Len(s)
             /\ Folded[s[selected(i)]] = Folded[s[i]]
             /\ s[selected(i)] \in PreferredOf(S)
  <2>1. i \in 1 .. Len(s) /\ s[i] \in S
    BY <1>1, <1>2
  <2>2. CASE lower(i) = {}
    <3>1. selected(i) = i
      BY <2>2
    <3>2. \A m \in AliasesIn(S, s[i]) : ~ IsLower(m)
      <4> TAKE m \in AliasesIn(S, s[i])
      <4>1. m \in S /\ Folded[m] = Folded[s[i]]
        BY DEF AliasesIn
      <4>2. PICK k \in 1 .. Len(s) : s[k] = m
        BY <1>1, <4>1
      <4>3. k \in Run(s, i)
        BY <1>2, <4>1, <4>2
      <4> QED
        BY <2>2, <4>2, <4>3
    <3>3. AliasesIn(S, s[i]) = {s[i]}
      BY <2>1, <3>2 DEF AmbiguousIn
    <3> HIDE DEF selected
    <3> QED
      BY <2>1, <3>1, <3>3 DEF PreferredOf
  <2>3. CASE lower(i) # {}
    <3>1. PICK k \in lower(i) : TRUE
      BY <2>3
    <3>2. selected(i) = k
      BY <1>3
    <3>3. k \in 1 .. Len(s) /\ Folded[s[k]] = Folded[s[i]] /\ IsLower(s[k]) /\ s[k] \in S
      BY <1>1, <1>2
    <3> HIDE DEF selected
    <3> QED
      BY <3>2, <3>3 DEF PreferredOf
  <2> HIDE DEF selected
  <2> QED
    BY <2>2, <2>3
<1>5. ASSUME NEW n \in PreferredOf(S)
      PROVE  \E i \in Starts(s) : s[selected(i)] = n
  <2>1. n \in S /\ (AliasesIn(S, n) = {n} \/ IsLower(n))
    BY DEF PreferredOf
  <2>2. PICK k \in 1 .. Len(s) : s[k] = n
    BY <1>1, <2>1
  <2>3. PICK i \in Starts(s) : Folded[s[i]] = Folded[n]
    BY <1>2, <2>2
  <2>4. CASE IsLower(n)
    <3>1. k \in lower(i)
      BY <1>2, <2>2, <2>3, <2>4
    <3> QED
      BY <1>3, <2>2, <3>1
  <2>5. CASE AliasesIn(S, n) = {n}
    <3> HIDE DEF selected
    <3>1. s[selected(i)] \in PreferredOf(S) /\ Folded[s[selected(i)]] = Folded[n]
      BY <1>4, <2>3
    <3>2. s[selected(i)] \in AliasesIn(S, n)
      BY <3>1 DEF PreferredOf, AliasesIn
    <3> QED
      BY <2>5, <3>2
  <2> HIDE DEF selected
  <2> QED
    BY <2>1, <2>4, <2>5
<1>6. \A k \in K : \E i \in Starts(s) : k = selected(i)
  OBVIOUS
<1>7. \A i \in Starts(s) : selected(i) \in K
  OBVIOUS
<1>8. c = collapse_sorted_entries(s)
  BY DEF collapse_sorted_entries
<1> HIDE DEF selected, K
<1>9. K \in SUBSET (1 .. Len(s)) /\ K \in SUBSET Nat
  BY <1>1, <1>4, <1>6
<1>10. IsFiniteSet(K)
  <2>1. 1 \in Int /\ Len(s) \in Int
    BY <1>1
  <2>2. IsFiniteSet(1 .. Len(s))
    BY <2>1, FS_Interval
  <2> QED
    BY <1>9, <2>2, FS_Subset
<1>11. kept \in SetToSeqs(K) /\ \A i, j \in DOMAIN kept : i < j => kept[i] < kept[j]
  BY <1>9, <1>10, QsortOfNumbers
<1> HIDE DEF kept
<1>12. kept \in Seq(K) /\ DOMAIN kept = 1 .. Len(kept) /\ Range(kept) = K /\ Len(kept) \in Nat
  <2>1. kept \in Seq(K) /\ DOMAIN kept = 1 .. Len(kept) /\ Range(kept) = K
    BY <1>10, <1>11, SeqsOf
  <2> QED
    BY <2>1
<1>13. \A k \in 1 .. Len(kept) : kept[k] \in K
  BY <1>12
<1>14. c \in Seq(S) /\ Len(c) = Len(kept) /\ DOMAIN c = 1 .. Len(c)
  BY <1>1, <1>9, <1>12, <1>13
<1>15. \A k \in 1 .. Len(kept) : c[k] = s[kept[k]]
  BY <1>12
<1> HIDE DEF c
<1>16. Range(c) = PreferredOf(S)
  <2>1. \A k \in 1 .. Len(kept) : c[k] \in PreferredOf(S)
    BY <1>4, <1>6, <1>13, <1>15
  <2>2. \A n \in PreferredOf(S) : \E k \in 1 .. Len(kept) : c[k] = n
    <3> TAKE n \in PreferredOf(S)
    <3>1. PICK i \in Starts(s) : s[selected(i)] = n
      BY <1>5
    <3>2. PICK k \in 1 .. Len(kept) : kept[k] = selected(i)
      BY <1>7, <1>12 DEF Range
    <3> QED
      BY <1>15, <3>1, <3>2
  <2> QED
    BY <1>14, <2>1, <2>2 DEF Range
<1>17. ASSUME NEW i \in 1 .. Len(kept), NEW j \in 1 .. Len(kept), i < j
       PROVE  Folded[c[i]] < Folded[c[j]]
  <2>1. kept[i] < kept[j] /\ kept[i] \in K /\ kept[j] \in K
    BY <1>11, <1>12, <1>13, <1>17
  <2>2. PICK a \in Starts(s) : kept[i] = selected(a)
    BY <1>6, <2>1
  <2>3. PICK b \in Starts(s) : kept[j] = selected(b)
    BY <1>6, <2>1
  <2>4. kept[i] \in 1 .. Len(s) /\ kept[j] \in 1 .. Len(s)
    BY <1>9, <2>1
  <2>5. Folded[s[kept[i]]] <= Folded[s[kept[j]]]
    BY <1>1, <2>1, <2>4
  <2>6. a # b
    BY <1>1, <2>1, <2>2, <2>3, <2>4
  <2>7. Folded[s[kept[i]]] # Folded[s[kept[j]]]
    BY <1>2, <1>4, <2>2, <2>3, <2>6
  <2>8. Folded[s[kept[i]]] \in Nat /\ Folded[s[kept[j]]] \in Nat
    BY <1>1, <2>4
  <2>9. Folded[s[kept[i]]] < Folded[s[kept[j]]]
    BY <2>5, <2>7, <2>8
  <2> QED
    BY <1>15, <2>9
<1> QED
  BY <1>8, <1>14, <1>16, <1>17 DEF IsCollapsed

------------------------------------------------------------------------------
(* Tokens and the paths they are at.                                        *)

Paths == Seq(Nat)
NamedTokens ==
  [token : {"open"}, name : Nat] \cup [token : {"file"}, name : Nat, external : Paths]
Tokens == NamedTokens \cup [token : {"close"}]

\* A token leads from a path to a path.
LEMMA NestType ==
  ASSUME NEW path \in Paths, NEW t \in Tokens
  PROVE  Nest(path, t) \in Paths
<1>1. CASE t \in [token : {"open"}, name : Nat]
  BY <1>1 DEF Nest, Paths
<1>2. CASE t \in [token : {"file"}, name : Nat, external : Paths]
  BY <1>2 DEF Nest
<1>3. CASE t \in [token : {"close"}]
  <2>1. Nest(path, t) = SubSeq(path, 1, Len(path) - 1)
    BY <1>3 DEF Nest, Front
  <2>2. Len(path) \in Nat /\ \A i \in 1 .. Len(path) - 1 : path[i] \in Nat
    BY DEF Paths
  <2>3. 1 \in Int /\ Len(path) - 1 \in Int
    BY <2>2
  <2>4. SubSeq(path, 1, Len(path) - 1) \in Seq(Nat)
    BY <2>2, <2>3, SubSeqProperties
  <2> QED
    BY <2>1, <2>4 DEF Paths
<1> QED
  BY <1>1, <1>2, <1>3 DEF Tokens, NamedTokens

\* The nesting of a sequence of tokens, step by step.
LEMMA NestingSteps ==
  ASSUME NEW tokens \in Seq(Tokens)
  PROVE  \E acc \in [0 .. Len(tokens) -> Paths] :
           /\ acc[0] = <<>> /\ acc[Len(tokens)] = Nesting(tokens)
           /\ \A k \in 1 .. Len(tokens) : acc[k] = Nest(acc[k - 1], tokens[k])
<1> DEFINE n == Len(tokens)
           G == [k \in 1 .. n |-> [x \in Paths |-> Nest(x, tokens[k])]]
<1>1. n \in Nat /\ DOMAIN tokens = 1 .. n /\ \A k \in 1 .. n : tokens[k] \in Tokens
  OBVIOUS
<1> HIDE DEF n
<1>2. G \in [1 .. n -> [Paths -> Paths]]
  <2> SUFFICES ASSUME NEW k \in 1 .. n, NEW x \in Paths PROVE Nest(x, tokens[k]) \in Paths
    OBVIOUS
  <2> QED
    BY <1>1, NestType
<1>3. \A k \in 1 .. n : \A x \in Paths : G[k][x] = Nest(x, tokens[k])
  OBVIOUS
<1> HIDE DEF G
<1>4. <<>> \in Paths
  BY DEF Paths
<1> DEFINE Eq(h) == h = [t \in SUBSET DOMAIN tokens |->
                           IF t = {} THEN <<>> ELSE Nest(h[t \ {Max(t)}], tokens[Max(t)])]
           iter == CHOOSE h : Eq(h)
<1>5. Nesting(tokens) = iter[DOMAIN tokens]
  BY DEF Nesting, FoldLeft, MapThenFoldSet
<1>6. ASSUME NEW t \in SUBSET (1 .. n), t # {} PROVE Max(t) \in 1 .. n
  <2>1. t \subseteq 0 .. n
    BY <1>6
  <2> QED
    BY <1>1, <1>6, <2>1, MaxOf
<1>7. Eq(iter)
  <2>1. PICK h \in [SUBSET (1 .. n) -> Paths] : IsFold(h, n, <<>>, G)
    BY <1>1, <1>2, <1>4, FoldExists
  <2>2. ASSUME NEW t \in SUBSET (1 .. n)
        PROVE  h[t] = IF t = {} THEN <<>> ELSE Nest(h[t \ {Max(t)}], tokens[Max(t)])
    <3>1. h[t] = IF t = {} THEN <<>> ELSE G[Max(t)][h[t \ {Max(t)}]]
      BY <2>1 DEF IsFold
    <3> QED
      BY <1>3, <1>6, <2>1, <3>1
  <2>3. Eq(h)
    BY <1>1, <2>1, <2>2
  <2> HIDE DEF Eq
  <2> QED
    BY <2>3
<1>8. FoldsIn(iter, n, Paths, <<>>, G)
  <2>1. ASSUME NEW t \in SUBSET (1 .. n)
        PROVE  iter[t] = IF t = {} THEN <<>> ELSE Nest(iter[t \ {Max(t)}], tokens[Max(t)])
    <3> HIDE DEF iter
    <3> QED
      BY <1>1, <1>7
  <2> HIDE DEF iter, Eq
  <2> QED
    BY <1>3, <1>6, <2>1 DEF FoldsIn
<1> HIDE DEF iter, Eq
<1>9. PICK acc \in [0 .. n -> Paths] : AreSteps(acc, n, <<>>, G) /\ acc[n] = iter[1 .. n]
  BY <1>1, <1>2, <1>4, <1>8, FoldSteps
<1>10. \A k \in 1 .. n : acc[k] = Nest(acc[k - 1], tokens[k])
  <2> TAKE k \in 1 .. n
  <2>1. k - 1 \in 0 .. n
    BY <1>1
  <2>2. acc[k - 1] \in Paths /\ acc[k] = G[k][acc[k - 1]]
    BY <1>9, <2>1 DEF AreSteps
  <2> QED
    BY <1>3, <2>2
<1>11. acc[0] = <<>> /\ acc[n] = Nesting(tokens)
  BY <1>1, <1>5, <1>9 DEF AreSteps
<1> QED
  BY <1>9, <1>10, <1>11 DEF n

\* A token more nests where the tokens before it have led.
LEMMA NestingAppend ==
  ASSUME NEW tokens \in Seq(Tokens), NEW t \in Tokens
  PROVE  /\ Nesting(tokens) \in Paths
         /\ Nesting(<<>>) = <<>>
         /\ Nesting(Append(tokens, t)) = Nest(Nesting(tokens), t)
<1> DEFINE more == Append(tokens, t)
           n == Len(tokens)
<1>1. /\ n \in Nat /\ more \in Seq(Tokens) /\ Len(more) = n + 1
      /\ more[n + 1] = t /\ \A k \in 1 .. n : more[k] = tokens[k]
  OBVIOUS
<1>2. PICK a \in [0 .. n -> Paths] :
        /\ a[0] = <<>> /\ a[n] = Nesting(tokens)
        /\ \A k \in 1 .. n : a[k] = Nest(a[k - 1], tokens[k])
  BY NestingSteps
<1>3. PICK b \in [0 .. n + 1 -> Paths] :
        /\ b[0] = <<>> /\ b[n + 1] = Nesting(more)
        /\ \A k \in 1 .. n + 1 : b[k] = Nest(b[k - 1], more[k])
  <2> HIDE DEF more
  <2>1. \E c \in [0 .. Len(more) -> Paths] :
          /\ c[0] = <<>> /\ c[Len(more)] = Nesting(more)
          /\ \A k \in 1 .. Len(more) : c[k] = Nest(c[k - 1], more[k])
    BY <1>1, NestingSteps
  <2> QED
    BY <1>1, <2>1
<1> HIDE DEF more, n
<1> DEFINE T == {k \in 0 .. n : a[k] = b[k]}
<1>4. 0 \in T
  BY <1>1, <1>2, <1>3
<1>5. ASSUME NEW k \in 0 .. n - 1, k \in T PROVE k + 1 \in T
  <2>1. k + 1 \in 1 .. n /\ k + 1 \in 1 .. n + 1 /\ k + 1 \in 0 .. n /\ (k + 1) - 1 = k
    BY <1>1
  <2>2. a[k + 1] = Nest(a[k], tokens[k + 1])
    BY <1>2, <2>1
  <2>3. b[k + 1] = Nest(b[k], more[k + 1])
    BY <1>3, <2>1
  <2> QED
    BY <1>1, <1>5, <2>1, <2>2, <2>3
<1>6. n \in T
  <2> HIDE DEF T
  <2>1. 0 .. n \subseteq T
    BY <1>1, <1>4, <1>5, UpTo
  <2> QED
    BY <1>1, <2>1
<1>7. b[n + 1] = Nest(b[n], t)
  <2>1. n + 1 \in 1 .. n + 1 /\ (n + 1) - 1 = n
    BY <1>1
  <2> QED
    BY <1>1, <1>3, <2>1
<1>8. Nesting(more) = Nest(Nesting(tokens), t)
  BY <1>2, <1>3, <1>6, <1>7
<1>9. n \in 0 .. n
  BY <1>1
<1>10. Nesting(<<>>) = <<>>
  <2>1. <<>> \in Seq(Tokens) /\ Len(<<>>) = 0
    OBVIOUS
  <2>2. \E c \in [0 .. Len(<<>>) -> Paths] : c[0] = <<>> /\ c[Len(<<>>)] = Nesting(<<>>)
    BY <2>1, NestingSteps
  <2> QED
    BY <2>1, <2>2
<1> QED
  BY <1>2, <1>8, <1>9, <1>10 DEF more

\* The virtual paths stay when tokens are added; a new name is where the tokens
\* before it have led.
LEMMA VirtualPathAppend ==
  ASSUME NEW tokens \in Seq(Tokens), NEW t \in Tokens
  PROVE  /\ \A k \in 1 .. Len(tokens) :
              VirtualPath(Append(tokens, t), k) = VirtualPath(tokens, k)
         /\ VirtualPath(Append(tokens, t), Len(tokens) + 1) = Append(Nesting(tokens), t.name)
<1> DEFINE more == Append(tokens, t)
           n == Len(tokens)
<1>1. /\ n \in Nat /\ more \in Seq(Tokens) /\ Len(more) = n + 1
      /\ more[n + 1] = t /\ \A k \in 1 .. n : more[k] = tokens[k] /\ tokens[k] \in Tokens
  OBVIOUS
<1> HIDE DEF more
<1>2. ASSUME NEW k \in 1 .. n + 1
      PROVE  SubSeq(more, 1, k - 1) = SubSeq(tokens, 1, k - 1)
  <2>1. 1 \in Int /\ k - 1 \in Int /\ \A i \in 1 .. k - 1 : i \in 1 .. n
    BY <1>1
  <2>2. \A i \in 1 .. k - 1 : more[i] \in Tokens /\ tokens[i] \in Tokens /\ more[i] = tokens[i]
    BY <1>1, <2>1
  <2>3. /\ SubSeq(more, 1, k - 1) \in Seq(Tokens)
        /\ Len(SubSeq(more, 1, k - 1)) = (IF 1 <= k - 1 THEN k - 1 - 1 + 1 ELSE 0)
        /\ \A i \in 1 .. k - 1 - 1 + 1 : SubSeq(more, 1, k - 1)[i] = more[1 + i - 1]
    BY <2>1, <2>2, SubSeqProperties
  <2>4. /\ SubSeq(tokens, 1, k - 1) \in Seq(Tokens)
        /\ Len(SubSeq(tokens, 1, k - 1)) = (IF 1 <= k - 1 THEN k - 1 - 1 + 1 ELSE 0)
        /\ \A i \in 1 .. k - 1 - 1 + 1 : SubSeq(tokens, 1, k - 1)[i] = tokens[1 + i - 1]
    BY <2>1, <2>2, SubSeqProperties
  <2> DEFINE s == SubSeq(more, 1, k - 1)
             r == SubSeq(tokens, 1, k - 1)
  <2>5. Len(s) = Len(r) /\ Len(s) = k - 1
    BY <1>1, <2>3, <2>4
  <2>6. \A i \in 1 .. Len(s) : s[i] = r[i]
    <3> TAKE i \in 1 .. Len(s)
    <3>1. i \in 1 .. k - 1 /\ i \in 1 .. k - 1 - 1 + 1 /\ 1 + i - 1 = i
      BY <2>5
    <3>2. more[1 + i - 1] = tokens[1 + i - 1]
      BY <2>2, <3>1
    <3> QED
      BY <2>3, <2>4, <3>1, <3>2
  <2> HIDE DEF s, r
  <2> QED
    BY <2>3, <2>4, <2>5, <2>6, SeqEqual DEF s, r
<1>3. SubSeq(tokens, 1, n) = tokens
  BY SubSeqFull
<1>4. n + 1 \in 1 .. n + 1 /\ (n + 1) - 1 = n /\ \A k \in 1 .. n : k \in 1 .. n + 1
  BY <1>1
<1>5. SubSeq(more, 1, (n + 1) - 1) = tokens
  BY <1>2, <1>3, <1>4
<1>6. VirtualPath(more, n + 1) = Append(Nesting(tokens), t.name)
  BY <1>1, <1>5 DEF VirtualPath
<1>7. \A k \in 1 .. n : VirtualPath(more, k) = VirtualPath(tokens, k)
  BY <1>1, <1>2, <1>4 DEF VirtualPath
<1> QED
  BY <1>6, <1>7 DEF more

\* Two paths in the same directory, and the order of the overlay.
Siblings(p, q) == Len(p) = Len(q) /\ \A i \in 1 .. Len(p) - 1 : p[i] = q[i]
Before(p, q) ==
  IF Len(p) = 1 THEN p[1] < q[1] ELSE Folded[p[Len(p)]] < Folded[q[Len(q)]]

Named(tokens) == {k \in 1 .. Len(tokens) : tokens[k].token # "close"}

\* What a token says of the path that it is at.
Describes(t, path) ==
  /\ command.files[path].kind = (IF t.token = "open" THEN "directory" ELSE "regular")
  /\ t.token = "file" => t.external = path

\* The tokens show the view but for the set ahead: each path once, in order,
\* and before those of its directory that are ahead.
Shown(tokens, ahead) ==
  /\ tokens \in Seq(Tokens)
  /\ ahead \subseteq View
  /\ \A k \in Named(tokens) :
       /\ VirtualPath(tokens, k) \in View \ ahead
       /\ Describes(tokens[k], VirtualPath(tokens, k))
       /\ \A q \in ahead : Siblings(VirtualPath(tokens, k), q) => Before(VirtualPath(tokens, k), q)
  /\ \A q \in View \ ahead : /\ ~ IsUnsupported(q)
                             /\ \E k \in Named(tokens) : VirtualPath(tokens, k) = q
  /\ \A k, l \in Named(tokens) : k < l =>
       /\ VirtualPath(tokens, k) # VirtualPath(tokens, l)
       /\ Siblings(VirtualPath(tokens, k), VirtualPath(tokens, l)) =>
            Before(VirtualPath(tokens, k), VirtualPath(tokens, l))

\* A closed directory changes nothing of what is shown.
LEMMA CloseShows ==
  ASSUME NEW tokens, NEW ahead, Shown(tokens, ahead)
  PROVE  Shown(Append(tokens, [token |-> "close"]), ahead)
<1> DEFINE t == [token |-> "close"]
           more == Append(tokens, t)
           n == Len(tokens)
<1>1. tokens \in Seq(Tokens) /\ t \in Tokens /\ t.token = "close"
  BY DEF Shown, Tokens
<1>2. /\ n \in Nat /\ more \in Seq(Tokens) /\ Len(more) = n + 1
      /\ more[n + 1] = t /\ \A k \in 1 .. n : more[k] = tokens[k]
  BY <1>1
<1>3. \A k \in 1 .. n : VirtualPath(more, k) = VirtualPath(tokens, k)
  BY <1>1, VirtualPathAppend
<1> HIDE DEF t, more
<1>4. Named(more) = Named(tokens) /\ \A k \in Named(tokens) : k \in 1 .. n
  <2>1. \A k \in 1 .. n + 1 : k \in 1 .. n \/ k = n + 1
    BY <1>2
  <2>2. \A k \in 1 .. n : k \in 1 .. n + 1
    BY <1>2
  <2> QED
    BY <1>1, <1>2, <2>1, <2>2 DEF Named
<1>5. \A k \in Named(tokens) : VirtualPath(more, k) = VirtualPath(tokens, k) /\ more[k] = tokens[k]
  BY <1>2, <1>3, <1>4
<1> HIDE DEF n
<1>6. Shown(more, ahead)
  BY <1>2, <1>4, <1>5 DEF Shown
<1> QED
  BY <1>6 DEF more, t

\* A named token shows the path it is at.
LEMMA NameShows ==
  ASSUME NEW tokens, NEW ahead, Shown(tokens, ahead),
         NEW t \in NamedTokens, NEW p \in ahead,
         Append(Nesting(tokens), t.name) = p, Describes(t, p), ~ IsUnsupported(p),
         \A q \in ahead \ {p} : Siblings(p, q) => Before(p, q)
  PROVE  Shown(Append(tokens, t), ahead \ {p})
<1> DEFINE more == Append(tokens, t)
           n == Len(tokens)
           rest == ahead \ {p}
<1>1. tokens \in Seq(Tokens) /\ t \in Tokens /\ t.token # "close"
  BY DEF Shown, Tokens, NamedTokens
<1>2. /\ n \in Nat /\ more \in Seq(Tokens) /\ Len(more) = n + 1
      /\ more[n + 1] = t /\ \A k \in 1 .. n : more[k] = tokens[k]
  BY <1>1
<1>3. /\ \A k \in 1 .. n : VirtualPath(more, k) = VirtualPath(tokens, k)
      /\ VirtualPath(more, n + 1) = p
  BY <1>1, VirtualPathAppend
<1> HIDE DEF more
<1>4. Named(more) = Named(tokens) \cup {n + 1} /\ \A k \in Named(tokens) : k \in 1 .. n
  <2>1. \A k \in 1 .. n + 1 : k \in 1 .. n \/ k = n + 1
    BY <1>2
  <2>2. n + 1 \in 1 .. n + 1 /\ \A k \in 1 .. n : k \in 1 .. n + 1
    BY <1>2
  <2> QED
    BY <1>1, <1>2, <2>1, <2>2 DEF Named
<1>5. \A k \in Named(tokens) : VirtualPath(more, k) = VirtualPath(tokens, k) /\ more[k] = tokens[k]
  BY <1>2, <1>3, <1>4
<1>6. p \in View /\ ahead \subseteq View /\ rest \subseteq View
  BY DEF Shown
<1>7. ASSUME NEW k \in Named(more)
      PROVE  /\ VirtualPath(more, k) \in View \ rest
             /\ Describes(more[k], VirtualPath(more, k))
             /\ \A q \in rest : Siblings(VirtualPath(more, k), q) => Before(VirtualPath(more, k), q)
  <2>1. CASE k = n + 1
    BY <1>2, <1>3, <1>6, <2>1
  <2>2. CASE k \in Named(tokens)
    <3>1. /\ VirtualPath(tokens, k) \in View \ ahead
          /\ Describes(tokens[k], VirtualPath(tokens, k))
          /\ \A q \in ahead :
               Siblings(VirtualPath(tokens, k), q) => Before(VirtualPath(tokens, k), q)
      BY <2>2 DEF Shown
    <3> QED
      BY <1>5, <2>2, <3>1
  <2> QED
    BY <1>4, <2>1, <2>2
<1>8. ASSUME NEW q \in View \ rest
      PROVE  ~ IsUnsupported(q) /\ \E k \in Named(more) : VirtualPath(more, k) = q
  <2>1. CASE q = p
    BY <1>3, <1>4, <2>1
  <2>2. CASE q # p
    <3>1. q \in View \ ahead
      BY <2>2
    <3>2. ~ IsUnsupported(q) /\ \E k \in Named(tokens) : VirtualPath(tokens, k) = q
      BY <3>1 DEF Shown
    <3> QED
      BY <1>4, <1>5, <3>2
  <2> QED
    BY <2>1, <2>2
<1>9. ASSUME NEW k \in Named(more), NEW l \in Named(more), k < l
      PROVE  /\ VirtualPath(more, k) # VirtualPath(more, l)
             /\ Siblings(VirtualPath(more, k), VirtualPath(more, l)) =>
                  Before(VirtualPath(more, k), VirtualPath(more, l))
  <2>1. k \in Named(tokens)
    BY <1>2, <1>4, <1>9
  <2>2. CASE l = n + 1
    <3>1. /\ VirtualPath(tokens, k) \in View \ ahead
          /\ \A q \in ahead :
               Siblings(VirtualPath(tokens, k), q) => Before(VirtualPath(tokens, k), q)
      BY <2>1 DEF Shown
    <3> QED
      BY <1>3, <1>5, <2>1, <2>2, <3>1
  <2>3. CASE l \in Named(tokens)
    <3>1. /\ VirtualPath(tokens, k) # VirtualPath(tokens, l)
          /\ Siblings(VirtualPath(tokens, k), VirtualPath(tokens, l)) =>
               Before(VirtualPath(tokens, k), VirtualPath(tokens, l))
      BY <1>9, <2>1, <2>3 DEF Shown
    <3> QED
      BY <1>5, <2>1, <2>3, <3>1
  <2> QED
    BY <1>4, <2>2, <2>3
<1> HIDE DEF rest, n
<1>10. Shown(more, rest)
  BY <1>2, <1>6, <1>7, <1>8, <1>9 DEF Shown
<1> QED
  BY <1>10 DEF more, rest

\* All the view shown is the view of OverlayIsTheView, in order.
LEMMA ShownIsTheView ==
  ASSUME NEW tokens, Shown(tokens, {}), Nesting(tokens) = <<>>,
         output.overlay = tokens
  PROVE  OverlayIsTheView /\ OverlayIsOrdered
<1> DEFINE opens == {k \in DOMAIN tokens : tokens[k].token = "open"}
           files == {k \in DOMAIN tokens : tokens[k].token = "file"}
           At == [k \in 1 .. Len(tokens) |-> VirtualPath(tokens, k)]
<1>1. /\ tokens \in Seq(Tokens) /\ Len(tokens) \in Nat /\ DOMAIN tokens = 1 .. Len(tokens)
      /\ \A k \in 1 .. Len(tokens) : tokens[k] \in Tokens
  BY DEF Shown
<1>2. \A k \in 1 .. Len(tokens) : tokens[k].token \in {"open", "file", "close"}
  BY <1>1 DEF Tokens, NamedTokens
<1>3. /\ Named(tokens) = opens \cup files /\ opens \cap files = {}
      /\ opens \subseteq 1 .. Len(tokens) /\ files \subseteq 1 .. Len(tokens)
  BY <1>1, <1>2 DEF Named
<1>4. \A k \in opens : At[k] \in Viewed("directory")
  BY <1>1, <1>3 DEF Shown, Describes, Viewed
<1>5. \A k \in files : At[k] \in Viewed("regular") /\ tokens[k].external = At[k]
  BY <1>1, <1>3 DEF Shown, Describes, Viewed
<1>6. \A q \in Viewed("directory") : \E k \in opens : At[k] = q
  <2> TAKE q \in Viewed("directory")
  <2>1. q \in View /\ command.files[q].kind = "directory"
    BY DEF Viewed
  <2>2. PICK k \in Named(tokens) : VirtualPath(tokens, k) = q
    BY <2>1 DEF Shown
  <2>3. k \notin files
    BY <1>3, <1>5, <2>1, <2>2 DEF Viewed
  <2> QED
    BY <1>3, <2>2, <2>3
<1>7. \A q \in Viewed("regular") : \E k \in files : At[k] = q
  <2> TAKE q \in Viewed("regular")
  <2>1. q \in View /\ command.files[q].kind = "regular"
    BY DEF Viewed
  <2>2. PICK k \in Named(tokens) : VirtualPath(tokens, k) = q
    BY <2>1 DEF Shown
  <2>3. k \notin opens
    BY <1>3, <1>4, <2>1, <2>2 DEF Viewed
  <2> QED
    BY <1>3, <2>2, <2>3
<1>8. \A k \in 1 .. Len(tokens) : At[k] = VirtualPath(tokens, k)
  OBVIOUS
<1>9. \A k, l \in Named(tokens) : k # l => At[k] # At[l]
  <2> TAKE k, l \in Named(tokens)
  <2> HAVE k # l
  <2>1. k \in 1 .. Len(tokens) /\ l \in 1 .. Len(tokens) /\ (k < l \/ l < k)
    BY <1>1 DEF Named
  <2> QED
    BY <1>8, <2>1 DEF Shown
<1> HIDE DEF At, opens, files
<1>10. {VirtualPath(tokens, k) : k \in opens} = Viewed("directory")
  BY <1>3, <1>4, <1>6, <1>8
<1>11. {VirtualPath(tokens, k) : k \in files} = Viewed("regular")
  BY <1>3, <1>5, <1>7, <1>8
<1>12. \A k \in files : tokens[k].external = VirtualPath(tokens, k)
  BY <1>3, <1>5, <1>8
<1>13. Cardinality(files) = Cardinality(Viewed("regular"))
  <2> DEFINE f == [k \in files |-> At[k]]
  <2>1. f \in [files -> Viewed("regular")]
    BY <1>5
  <2>2. \A k, l \in files : f[k] = f[l] => k = l
    BY <1>3, <1>9
  <2>3. \A q \in Viewed("regular") : \E k \in files : f[k] = q
    BY <1>7
  <2> HIDE DEF f
  <2>4. f \in Surjection(files, Viewed("regular"))
    BY <2>1, <2>3 DEF Surjection
  <2>5. f \in Injection(files, Viewed("regular"))
    BY <2>1, <2>2 DEF Injection, IsInjective
  <2>6. IsFiniteSet(files)
    <3>1. 1 \in Int /\ Len(tokens) \in Int /\ files \in SUBSET (1 .. Len(tokens))
      BY <1>1, <1>3
    <3>2. IsFiniteSet(1 .. Len(tokens))
      BY <3>1, FS_Interval
    <3> QED
      BY <3>1, <3>2, FS_Subset
  <2>7. Cardinality(Viewed("regular")) = Cardinality(files)
    BY <2>4, <2>5, <2>6, FS_Surjection
  <2> QED
    BY <2>7
<1>14. OverlayIsTheView
  BY <1>10, <1>11, <1>12, <1>13 DEF OverlayIsTheView, opens, files
<1> DEFINE dir(k) == Nesting(SubSeq(tokens, 1, k - 1))
<1>15. ASSUME NEW k \in 1 .. Len(tokens)
       PROVE  dir(k) \in Paths /\ VirtualPath(tokens, k) = Append(dir(k), tokens[k].name)
  <2>1. 1 \in Int /\ k - 1 \in Int /\ \A i \in 1 .. k - 1 : tokens[i] \in Tokens
    BY <1>1
  <2>2. SubSeq(tokens, 1, k - 1) \in Seq(Tokens)
    BY <2>1, SubSeqProperties
  <2>3. tokens[k] \in Tokens
    BY <1>1
  <2> QED
    BY <2>2, <2>3, NestingAppend DEF VirtualPath
<1>16. \A k \in Named(tokens) : k \in 1 .. Len(tokens) /\ tokens[k].name \in Nat
  BY <1>1 DEF Named, Tokens, NamedTokens
<1> HIDE DEF dir
<1>17. ASSUME NEW k \in Named(tokens), NEW l \in Named(tokens), k < l, dir(k) = dir(l)
       PROVE  IF dir(k) = <<>> THEN tokens[k].name < tokens[l].name
                               ELSE Folded[tokens[k].name] < Folded[tokens[l].name]
  <2> DEFINE d == dir(k)
             p == Append(d, tokens[k].name)
             q == Append(d, tokens[l].name)
             m == Len(d)
  <2>1. d \in Seq(Nat) /\ tokens[k].name \in Nat /\ tokens[l].name \in Nat
    BY <1>15, <1>16 DEF Paths
  <2> HIDE DEF d
  <2>2. /\ m \in Nat /\ Len(p) = m + 1 /\ Len(q) = m + 1
        /\ p[m + 1] = tokens[k].name /\ q[m + 1] = tokens[l].name
        /\ \A i \in 1 .. m : p[i] = q[i]
    BY <2>1
  <2>3. p = VirtualPath(tokens, k) /\ q = VirtualPath(tokens, l)
    BY <1>15, <1>16, <1>17 DEF d
  <2>4. Siblings(p, q) => Before(p, q)
    BY <1>17, <2>3 DEF Shown
  <2>5. m = 0 <=> d = <<>>
    BY <2>1
  <2> HIDE DEF p, q, m
  <2>6. Siblings(p, q)
    BY <2>2 DEF Siblings
  <2>7. Before(p, q)
    BY <2>4, <2>6
  <2>8. CASE m = 0
    <3>1. Len(p) = 1 /\ m + 1 = 1
      BY <2>2, <2>8
    <3> QED
      BY <2>2, <2>5, <2>7, <2>8, <3>1 DEF Before, d
  <2>9. CASE m # 0
    <3>1. Len(p) # 1 /\ m + 1 = Len(p) /\ m + 1 = Len(q)
      BY <2>2, <2>9
    <3> QED
      BY <2>2, <2>5, <2>7, <2>9, <3>1 DEF Before, d
  <2> QED
    BY <2>8, <2>9
<1>18. OverlayIsOrdered
  BY <1>1, <1>17 DEF OverlayIsOrdered, Named, dir
<1> QED
  BY <1>14, <1>18

------------------------------------------------------------------------------
(* The view of a command line.                                              *)

\* What a command line finds.
LEMMA CommandFacts ==
  ASSUME command \in Commands
  PROVE  /\ command.usable \in BOOLEAN
         /\ command.roots \in Seq(Nat) /\ IsInjective(command.roots)
         /\ IsFiniteSet(DOMAIN command.files)
         /\ \A p \in DOMAIN command.files : p \in Paths /\ p # <<>> /\ Len(p) \in Nat \ {0}
         /\ \A g \in Range(command.roots) : g \in Nat /\ <<g>> \in DOMAIN command.files
         /\ \A p \in DOMAIN command.files : command.files[p] \in [kind : Kinds, link : BOOLEAN]
         /\ \A p \in DOMAIN command.files : Len(p) > 1 =>
              /\ Last(p) \in Names /\ Front(p) \in DOMAIN command.files
              /\ command.files[Front(p)].kind = "directory"
<1> DEFINE c == command
<1>1. /\ c.usable \in BOOLEAN
      /\ c.roots \in Seq(Nat) /\ IsInjective(c.roots)
      /\ IsFiniteSet(DOMAIN c.files) /\ DOMAIN c.files \subseteq Seq(Nat) \ {<<>>}
      /\ \A g \in Range(c.roots) : <<g>> \in DOMAIN c.files
      /\ \A p \in DOMAIN c.files :
           /\ c.files[p] \in [kind : Kinds, link : BOOLEAN]
           /\ Len(p) > 1 => /\ Last(p) \in Names
                            /\ Front(p) \in DOMAIN c.files
                            /\ c.files[Front(p)].kind = "directory"
  BY CommandsAssumption
<1>2. \A p \in DOMAIN c.files : p \in Paths /\ p # <<>> /\ Len(p) \in Nat \ {0}
  BY <1>1, EmptySeq DEF Paths
<1>3. \A g \in Range(c.roots) : g \in Nat
  BY <1>1 DEF Range
<1> HIDE DEF c
<1>4. /\ c.usable \in BOOLEAN
      /\ c.roots \in Seq(Nat) /\ IsInjective(c.roots)
      /\ IsFiniteSet(DOMAIN c.files)
      /\ \A p \in DOMAIN c.files : p \in Paths /\ p # <<>> /\ Len(p) \in Nat \ {0}
      /\ \A g \in Range(c.roots) : g \in Nat /\ <<g>> \in DOMAIN c.files
      /\ \A p \in DOMAIN c.files : c.files[p] \in [kind : Kinds, link : BOOLEAN]
      /\ \A p \in DOMAIN c.files : Len(p) > 1 =>
           /\ Last(p) \in Names /\ Front(p) \in DOMAIN c.files
           /\ c.files[Front(p)].kind = "directory"
  BY <1>1, <1>2, <1>3
<1> QED
  BY <1>4 DEF c

\* The front of a path, as far as k.
LEMMA UpToFacts ==
  ASSUME NEW p \in Paths, NEW k \in 0 .. Len(p)
  PROVE  /\ SubSeq(p, 1, k) \in Paths /\ Len(SubSeq(p, 1, k)) = k
         /\ \A i \in 1 .. k : SubSeq(p, 1, k)[i] = p[i]
<1>1. Len(p) \in Nat /\ \A i \in 1 .. Len(p) : p[i] \in Nat
  BY DEF Paths
<1>2. 1 \in Int /\ k \in Int /\ \A i \in 1 .. k : p[i] \in Nat
  BY <1>1
<1>3. /\ SubSeq(p, 1, k) \in Seq(Nat)
      /\ Len(SubSeq(p, 1, k)) = (IF 1 <= k THEN k - 1 + 1 ELSE 0)
      /\ \A i \in 1 .. k - 1 + 1 : SubSeq(p, 1, k)[i] = p[1 + i - 1]
  BY <1>2, SubSeqProperties
<1>4. (IF 1 <= k THEN k - 1 + 1 ELSE 0) = k
  BY <1>1
<1>5. \A i \in 1 .. k : i \in 1 .. k - 1 + 1 /\ 1 + i - 1 = i
  BY <1>1
<1>6. \A i \in 1 .. k : SubSeq(p, 1, k)[i] = p[i]
  BY <1>3, <1>5
<1> QED
  BY <1>3, <1>4, <1>6 DEF Paths

\* Paths are equal if their names are.
LEMMA PathsEqual ==
  ASSUME NEW p \in Paths, NEW q \in Paths, Len(p) = Len(q),
         \A i \in 1 .. Len(p) : p[i] = q[i]
  PROVE  p = q
BY SeqEqual DEF Paths

\* A path and a name more.
LEMMA ChildFacts ==
  ASSUME NEW p \in Paths, NEW n \in Nat
  PROVE  /\ Append(p, n) \in Paths /\ Len(p) \in Nat /\ Len(Append(p, n)) = Len(p) + 1
         /\ Append(p, n)[Len(p) + 1] = n
         /\ \A i \in 1 .. Len(p) : Append(p, n)[i] = p[i]
         /\ Last(Append(p, n)) = n
         /\ Front(Append(p, n)) = p
<1>1. /\ Append(p, n) \in Paths /\ Len(p) \in Nat /\ Len(Append(p, n)) = Len(p) + 1
      /\ Append(p, n)[Len(p) + 1] = n
      /\ \A i \in 1 .. Len(p) : Append(p, n)[i] = p[i]
  BY DEF Paths
<1>2. Last(Append(p, n)) = n
  BY <1>1 DEF Last
<1>3. Front(Append(p, n)) = p
  <2> DEFINE r == Append(p, n)
             f == SubSeq(r, 1, Len(p))
  <2>1. Front(r) = f
    <3>1. Len(r) - 1 = Len(p)
      BY <1>1
    <3> QED
      BY <3>1 DEF Front
  <2>2. Len(p) \in 0 .. Len(r) /\ r \in Paths
    BY <1>1
  <2> HIDE DEF r
  <2>3. f \in Paths /\ Len(f) = Len(p) /\ \A i \in 1 .. Len(p) : f[i] = r[i]
    BY <2>2, UpToFacts
  <2> HIDE DEF f
  <2>4. f = p
    BY <1>1, <2>3, PathsEqual DEF r
  <2> QED
    BY <2>1, <2>4 DEF r
<1> QED
  BY <1>1, <1>2, <1>3

\* The directory of a path in it.
LEMMA EntryFacts ==
  ASSUME command \in Commands, NEW p \in Paths
  PROVE  /\ Entries(p) \in SUBSET Names /\ Entries(p) \subseteq Nat /\ IsFiniteSet(Entries(p))
         /\ Preferred(p) \subseteq Entries(p)
         /\ Preferred(p) = PreferredOf(Entries(p))
         /\ IsAmbiguous(p) <=> AmbiguousIn(Entries(p))
<1>1. Entries(p) \in SUBSET Names /\ Entries(p) \subseteq Nat
  BY NamesAssumption DEF Entries
<1>2. IsFiniteSet(Entries(p))
  <2> DEFINE f == [n \in Entries(p) |-> Append(p, n)]
  <2>1. f \in [Entries(p) -> DOMAIN command.files]
    BY DEF Entries
  <2>2. \A m, n \in Entries(p) : f[m] = f[n] => m = n
    <3> TAKE m, n \in Entries(p)
    <3>1. m \in Nat /\ n \in Nat
      BY <1>1
    <3>2. Last(Append(p, m)) = m /\ Last(Append(p, n)) = n
      BY <3>1, ChildFacts
    <3> QED
      BY <3>2
  <2> HIDE DEF f
  <2>3. f \in Injection(Entries(p), DOMAIN command.files)
    BY <2>1, <2>2 DEF Injection, IsInjective
  <2>4. IsFiniteSet(DOMAIN command.files)
    BY CommandFacts
  <2> QED
    BY <2>3, <2>4, FS_Injection
<1>3. \A n \in Entries(p) : Aliases(p, n) = AliasesIn(Entries(p), n)
  BY DEF Aliases, AliasesIn
<1>4. Preferred(p) = PreferredOf(Entries(p)) /\ Preferred(p) \subseteq Entries(p)
  BY <1>3 DEF Preferred, PreferredOf
<1>5. IsAmbiguous(p) <=> AmbiguousIn(Entries(p))
  BY <1>3 DEF IsAmbiguous, AmbiguousIn
<1> QED
  BY <1>1, <1>2, <1>4, <1>5

\* On the way to a path of the view there are directories of the view.
LEMMA ViewPrefix ==
  ASSUME command \in Commands, NEW q \in View
  PROVE  /\ q \in Paths /\ Len(q) \in Nat \ {0} /\ q \in DOMAIN command.files
         /\ q[1] \in Range(command.roots)
         /\ \A k \in 1 .. Len(q) : SubSeq(q, 1, k) \in View
         /\ \A k \in 1 .. Len(q) - 1 :
              /\ command.files[SubSeq(q, 1, k)].kind = "directory"
              /\ q[k + 1] \in Preferred(SubSeq(q, 1, k))
<1>1. /\ q \in DOMAIN command.files /\ q[1] \in Range(command.roots)
      /\ \A i \in 2 .. Len(q) : q[i] \in Preferred(SubSeq(q, 1, i - 1))
  BY DEF View
<1>2. q \in Paths /\ Len(q) \in Nat \ {0}
  BY <1>1, CommandFacts
<1> DEFINE n == Len(q)
           At(k) == SubSeq(q, 1, k)
           T == {j \in 0 .. n - 1 :
                   /\ At(n - j) \in DOMAIN command.files
                   /\ j > 0 => command.files[At(n - j)].kind = "directory"}
<1>3. 0 \in T
  <2>1. At(n) = q
    BY <1>2, SubSeqFull DEF Paths
  <2>2. n - 0 = n /\ 0 \in 0 .. n - 1
    BY <1>2
  <2> HIDE DEF At, n
  <2>3. At(n - 0) = q
    BY <2>1, <2>2
  <2> QED
    BY <1>1, <2>2, <2>3
<1>4. ASSUME NEW j \in 0 .. (n - 1) - 1, j \in T PROVE j + 1 \in T
  <2> DEFINE k == n - j
  <2>1. k \in 2 .. n /\ n - (j + 1) = k - 1 /\ j + 1 \in 0 .. n - 1 /\ j + 1 > 0 /\ k \in 0 .. n
        /\ k - 1 \in 0 .. k /\ k - 1 \in 0 .. n
    BY <1>2
  <2>2. At(k) \in DOMAIN command.files
    BY <1>4
  <2> HIDE DEF k
  <2>3. At(k) \in Paths /\ Len(At(k)) = k /\ \A i \in 1 .. k : At(k)[i] = q[i]
    BY <1>2, <2>1, UpToFacts
  <2>4. Front(At(k)) \in DOMAIN command.files /\ command.files[Front(At(k))].kind = "directory"
    <3> HIDE DEF At
    <3>1. Len(At(k)) > 1
      BY <2>1, <2>3
    <3> QED
      BY <2>2, <3>1, CommandFacts
  <2>5. Front(At(k)) = At(k - 1)
    <3>1. /\ At(k - 1) \in Paths /\ Len(At(k - 1)) = k - 1
          /\ \A i \in 1 .. k - 1 : At(k - 1)[i] = q[i]
      BY <1>2, <2>1, UpToFacts
    <3> HIDE DEF At
    <3>2. Front(At(k)) = SubSeq(At(k), 1, k - 1)
      BY <2>3 DEF Front
    <3>3. k - 1 \in 0 .. Len(At(k))
      BY <2>1, <2>3
    <3>4. /\ SubSeq(At(k), 1, k - 1) \in Paths /\ Len(SubSeq(At(k), 1, k - 1)) = k - 1
          /\ \A i \in 1 .. k - 1 : SubSeq(At(k), 1, k - 1)[i] = At(k)[i]
      BY <2>3, <3>3, UpToFacts
    <3>5. \A i \in 1 .. k - 1 : i \in 1 .. k
      BY <2>1
    <3>6. \A i \in 1 .. k - 1 : SubSeq(At(k), 1, k - 1)[i] = At(k - 1)[i]
      BY <2>3, <3>1, <3>4, <3>5
    <3>7. SubSeq(At(k), 1, k - 1) = At(k - 1)
      BY <3>1, <3>4, <3>6, PathsEqual
    <3> QED
      BY <3>2, <3>7
  <2> HIDE DEF At
  <2>6. At(n - (j + 1)) \in DOMAIN command.files
        /\ command.files[At(n - (j + 1))].kind = "directory"
    BY <2>1, <2>4, <2>5
  <2> QED
    BY <2>1, <2>6
<1>5. 0 .. n - 1 \subseteq T
  <2>1. n - 1 \in Nat
    BY <1>2
  <2> HIDE DEF T, n
  <2> QED
    BY <1>3, <1>4, <2>1, UpTo
<1>6. \A k \in 1 .. n : /\ At(k) \in DOMAIN command.files
                        /\ k < n => command.files[At(k)].kind = "directory"
  <2> TAKE k \in 1 .. n
  <2>1. n - k \in 0 .. n - 1 /\ n - (n - k) = k /\ (k < n => n - k > 0)
    BY <1>2
  <2>2. n - k \in T
    BY <1>5, <2>1
  <2> HIDE DEF At
  <2> QED
    BY <2>1, <2>2
<1>7. ASSUME NEW k \in 1 .. n PROVE At(k) \in View
  <2>1. k \in 0 .. n /\ 1 \in 1 .. k
    BY <1>2
  <2>2. At(k) \in Paths /\ Len(At(k)) = k /\ \A i \in 1 .. k : At(k)[i] = q[i]
    BY <1>2, <2>1, UpToFacts
  <2>3. ASSUME NEW i \in 2 .. k PROVE At(k)[i] \in Preferred(SubSeq(At(k), 1, i - 1))
    <3>1. i \in 2 .. n /\ i \in 1 .. k /\ i - 1 \in 0 .. n /\ i - 1 \in 0 .. k
          /\ \A m \in 1 .. i - 1 : m \in 1 .. k
      BY <1>2
    <3>2. /\ SubSeq(q, 1, i - 1) \in Paths /\ Len(SubSeq(q, 1, i - 1)) = i - 1
          /\ \A m \in 1 .. i - 1 : SubSeq(q, 1, i - 1)[m] = q[m]
      BY <1>2, <3>1, UpToFacts
    <3> DEFINE a == At(k)
    <3>3. a \in Paths /\ Len(a) = k /\ i - 1 \in 0 .. Len(a) /\ \A m \in 1 .. k : a[m] = q[m]
      BY <2>2, <3>1
    <3> HIDE DEF a
    <3>4. /\ SubSeq(a, 1, i - 1) \in Paths /\ Len(SubSeq(a, 1, i - 1)) = i - 1
          /\ \A m \in 1 .. i - 1 : SubSeq(a, 1, i - 1)[m] = a[m]
      BY <3>3, UpToFacts
    <3>5. SubSeq(a, 1, i - 1) = SubSeq(q, 1, i - 1)
      <4>1. \A m \in 1 .. i - 1 : SubSeq(a, 1, i - 1)[m] = SubSeq(q, 1, i - 1)[m]
        BY <3>1, <3>2, <3>3, <3>4
      <4> QED
        BY <3>2, <3>4, <4>1, PathsEqual
    <3>6. a[i] \in Preferred(SubSeq(a, 1, i - 1))
      BY <1>1, <3>1, <3>3, <3>5
    <3> QED
      BY <3>6 DEF a
  <2> HIDE DEF At, n
  <2>4. At(k) \in DOMAIN command.files /\ At(k)[1] \in Range(command.roots)
    BY <1>1, <1>6, <2>1, <2>2
  <2> QED
    BY <2>2, <2>3, <2>4 DEF View
<1>8. \A k \in 1 .. n - 1 : /\ command.files[At(k)].kind = "directory"
                            /\ q[k + 1] \in Preferred(At(k))
  <2> TAKE k \in 1 .. n - 1
  <2>1. k \in 1 .. n /\ k < n /\ k + 1 \in 2 .. n /\ (k + 1) - 1 = k
    BY <1>2
  <2>2. q[k + 1] \in Preferred(SubSeq(q, 1, (k + 1) - 1))
    BY <1>1, <2>1
  <2> QED
    BY <1>6, <2>1, <2>2
<1> HIDE DEF n
<1> QED
  BY <1>1, <1>2, <1>7, <1>8 DEF n

\* A preferred name leads on in the view.
LEMMA ViewChild ==
  ASSUME command \in Commands, NEW p \in View, NEW n \in Preferred(p)
  PROVE  Append(p, n) \in View /\ n \in Nat
<1>1. p \in Paths /\ Len(p) \in Nat \ {0} /\ p \in DOMAIN command.files
      /\ p[1] \in Range(command.roots)
  BY ViewPrefix
<1>2. n \in Entries(p) /\ n \in Nat
  BY <1>1, EntryFacts
<1> DEFINE q == Append(p, n)
           m == Len(p)
<1>3. q \in DOMAIN command.files
  BY <1>2 DEF Entries
<1>4. /\ q \in Paths /\ Len(q) = m + 1 /\ q[m + 1] = n /\ \A i \in 1 .. m : q[i] = p[i]
  BY <1>1, <1>2, ChildFacts
<1> HIDE DEF q
<1>5. ASSUME NEW i \in 2 .. Len(q) PROVE q[i] \in Preferred(SubSeq(q, 1, i - 1))
  <2>1. i - 1 \in 0 .. Len(q) /\ i - 1 \in 0 .. m /\ \A j \in 1 .. i - 1 : j \in 1 .. m
    BY <1>1, <1>4
  <2>2. /\ SubSeq(q, 1, i - 1) \in Paths /\ Len(SubSeq(q, 1, i - 1)) = i - 1
        /\ \A j \in 1 .. i - 1 : SubSeq(q, 1, i - 1)[j] = q[j]
    BY <1>4, <2>1, UpToFacts
  <2>3. /\ SubSeq(p, 1, i - 1) \in Paths /\ Len(SubSeq(p, 1, i - 1)) = i - 1
        /\ \A j \in 1 .. i - 1 : SubSeq(p, 1, i - 1)[j] = p[j]
    BY <1>1, <2>1, UpToFacts
  <2>4. SubSeq(q, 1, i - 1) = SubSeq(p, 1, i - 1)
    <3>1. \A j \in 1 .. i - 1 : SubSeq(q, 1, i - 1)[j] = SubSeq(p, 1, i - 1)[j]
      BY <1>4, <2>1, <2>2, <2>3
    <3> QED
      BY <2>2, <2>3, <3>1, PathsEqual
  <2>5. CASE i = m + 1
    <3>1. SubSeq(p, 1, i - 1) = p
      <4>1. i - 1 = Len(p) /\ p \in Seq(Nat)
        BY <1>1, <2>5 DEF Paths
      <4> QED
        BY <4>1, SubSeqFull
    <3> QED
      BY <1>4, <2>4, <2>5, <3>1
  <2>6. CASE i # m + 1
    <3>1. i - 1 \in 1 .. m - 1 /\ i \in 1 .. m /\ (i - 1) + 1 = i
      BY <1>1, <1>4, <2>6
    <3>2. p[(i - 1) + 1] \in Preferred(SubSeq(p, 1, i - 1))
      BY <3>1, ViewPrefix
    <3> QED
      BY <1>4, <2>4, <3>1, <3>2
  <2> QED
    BY <2>5, <2>6
<1>6. q[1] \in Range(command.roots)
  BY <1>1, <1>4
<1> QED
  BY <1>2, <1>3, <1>5, <1>6 DEF View, q

\* The roots are in the view.
LEMMA RootsInView ==
  ASSUME command \in Commands, NEW g \in Range(command.roots)
  PROVE  <<g>> \in View /\ <<g>> \in Paths /\ Len(<<g>>) = 1 /\ <<g>>[1] = g /\ g \in Nat
<1>1. g \in Nat /\ <<g>> \in DOMAIN command.files
  BY CommandFacts
<1>2. <<g>> \in Paths /\ Len(<<g>>) = 1 /\ <<g>>[1] = g
  BY <1>1 DEF Paths
<1>3. 2 .. 1 = {}
  OBVIOUS
<1> QED
  BY <1>1, <1>2, <1>3 DEF View

------------------------------------------------------------------------------
(* The walk: its calls and what of the view is ahead of them.               *)

Calls == [path : Paths, names : Seq(Nat), index : Nat]

\* A call of render_directory has entered a directory of the view; it has yet
\* to collect the names, or it is on its way through the preferred ones.
CallOK(c) ==
  /\ c \in Calls
  /\ c.path \in View /\ command.files[c.path].kind = "directory"
  /\ Len(c.path) > 1 => ~ command.files[c.path].link
  /\ c.index = 0 => c.names \in SetToSeqs(Entries(c.path))
  /\ c.index > 0 => /\ IsCollapsed(c.names, Entries(c.path))
                    /\ c.index <= Len(c.names) + 1
                    /\ ~ IsAmbiguous(c.path)

\* Each call is in the entry that the call before it has come to.
StackOK(calls, r) ==
  /\ calls \in Seq(Calls)
  /\ \A k \in 1 .. Len(calls) :
       /\ CallOK(calls[k]) /\ Len(calls[k].path) = k
       /\ r \in 1 .. Len(roots) /\ calls[k].path[1] = roots[r]
  /\ \A k, l \in 1 .. Len(calls) : k < l =>
       /\ calls[k].index >= 2
       /\ \A i \in 1 .. k : calls[l].path[i] = calls[k].path[i]
       /\ calls[l].path[k + 1] = calls[k].names[calls[k].index - 1]

\* A path through the directory of a call is ahead of the call if it is yet to
\* come to that entry, or to the directory itself.
Through(c, q) == Len(c.path) <= Len(q) /\ \A i \in 1 .. Len(c.path) : q[i] = c.path[i]
AheadIn(c, q) ==
  /\ Through(c, q)
  /\ \/ c.index = 0
     \/ /\ Len(q) > Len(c.path)
        /\ \E j \in c.index .. Len(c.names) : q[Len(c.path) + 1] = c.names[j]

\* What the calls but for the innermost have before them, and what is before
\* them all.
Others(calls, r, q) ==
  \/ \E j \in r + 1 .. Len(roots) : q[1] = roots[j]
  \/ \E k \in 1 .. Len(calls) - 1 : AheadIn(calls[k], q)

\* What of the view the walk is yet to come to.
Ahead(calls, r) ==
  {q \in View :
     \/ \E j \in (IF calls = <<>> THEN r ELSE r + 1) .. Len(roots) : q[1] = roots[j]
     \/ \E k \in 1 .. Len(calls) : AheadIn(calls[k], q)}

\* sorted_roots are the roots in order, each once.
RootsOK ==
  /\ command \in Commands
  /\ roots \in Seq(Nat) /\ Range(roots) = Range(command.roots)
  /\ \A i, j \in 1 .. Len(roots) : i < j => roots[i] < roots[j]

\* What is ahead of the walk is ahead of its innermost call or of the others.
LEMMA AheadSplit ==
  ASSUME NEW calls \in Seq(Calls), calls # <<>>, NEW r, NEW q
  PROVE  q \in Ahead(calls, r) <=>
           q \in View /\ (Others(calls, r, q) \/ AheadIn(calls[Len(calls)], q))
<1>1. Len(calls) \in Nat \ {0}
  BY EmptySeq
<1>2. \A k \in 1 .. Len(calls) : k \in 1 .. Len(calls) - 1 \/ k = Len(calls)
  BY <1>1
<1>3. Len(calls) \in 1 .. Len(calls) /\ \A k \in 1 .. Len(calls) - 1 : k \in 1 .. Len(calls)
  BY <1>1
<1> QED
  BY <1>2, <1>3 DEF Ahead, Others

\* The calls with another innermost call, and without one.
LEMMA FrontFacts ==
  ASSUME NEW calls \in Seq(Calls), calls # <<>>
  PROVE  /\ Front(calls) \in Seq(Calls) /\ Len(Front(calls)) = Len(calls) - 1
         /\ Len(calls) \in Nat \ {0} /\ Last(calls) = calls[Len(calls)] /\ Last(calls) \in Calls
         /\ \A k \in 1 .. Len(calls) - 1 : Front(calls)[k] = calls[k]
<1>1. Len(calls) \in Nat \ {0} /\ \A k \in 1 .. Len(calls) : calls[k] \in Calls
  BY EmptySeq
<1> DEFINE n == Len(calls)
<1>2. 1 \in Int /\ n - 1 \in Int /\ \A i \in 1 .. n - 1 : calls[i] \in Calls
  BY <1>1
<1>3. /\ SubSeq(calls, 1, n - 1) \in Seq(Calls)
      /\ Len(SubSeq(calls, 1, n - 1)) = (IF 1 <= n - 1 THEN n - 1 - 1 + 1 ELSE 0)
      /\ \A i \in 1 .. n - 1 - 1 + 1 : SubSeq(calls, 1, n - 1)[i] = calls[1 + i - 1]
  BY <1>2, SubSeqProperties
<1>4. (IF 1 <= n - 1 THEN n - 1 - 1 + 1 ELSE 0) = n - 1
  <2>1. n \in Nat \ {0}
    BY <1>1
  <2> HIDE DEF n
  <2> QED
    BY <2>1
<1>5. \A i \in 1 .. n - 1 : i \in 1 .. n - 1 - 1 + 1 /\ 1 + i - 1 = i
  BY <1>1
<1>6. \A i \in 1 .. n - 1 : SubSeq(calls, 1, n - 1)[i] = calls[i]
  BY <1>3, <1>5
<1>7. n \in 1 .. n
  BY <1>1
<1> QED
  BY <1>1, <1>3, <1>4, <1>6, <1>7 DEF Front, Last

\* Another record in the place of the innermost call leaves the other calls, and
\* what is ahead of them, as they are.
LEMMA ReplaceFacts ==
  ASSUME NEW calls \in Seq(Calls), calls # <<>>, NEW c \in Calls
  PROVE  LET more == Append(Front(calls), c)
         IN  /\ more \in Seq(Calls) /\ more # <<>>
             /\ Len(more) = Len(calls) /\ more[Len(calls)] = c
             /\ \A k \in 1 .. Len(calls) - 1 : more[k] = calls[k]
             /\ \A r, q : Others(more, r, q) <=> Others(calls, r, q)
<1> DEFINE f == Front(calls)
           more == Append(f, c)
<1>1. /\ f \in Seq(Calls) /\ Len(f) = Len(calls) - 1 /\ Len(calls) \in Nat \ {0}
      /\ \A k \in 1 .. Len(calls) - 1 : f[k] = calls[k]
  BY FrontFacts
<1> HIDE DEF f
<1>2. /\ more \in Seq(Calls) /\ Len(more) = Len(f) + 1 /\ more[Len(f) + 1] = c
      /\ \A k \in 1 .. Len(f) : more[k] = f[k]
      /\ more # <<>>
  BY <1>1, AppendProperties
<1>3. /\ Len(more) = Len(calls) /\ more[Len(calls)] = c
      /\ \A k \in 1 .. Len(calls) - 1 : more[k] = calls[k]
  BY <1>1, <1>2
<1> HIDE DEF more
<1>4. \A r, q : Others(more, r, q) <=> Others(calls, r, q)
  BY <1>3 DEF Others
<1> QED
  BY <1>2, <1>3, <1>4 DEF more, f

\* The preferred names of a call differ, and come in order.
LEMMA NamesInOrder ==
  ASSUME command \in Commands, NEW c, CallOK(c), c.index > 0
  PROVE  /\ Len(c.names) \in Nat /\ c.index \in 1 .. Len(c.names) + 1
         /\ Range(c.names) = Preferred(c.path) /\ DOMAIN c.names = 1 .. Len(c.names)
         /\ \A i \in 1 .. Len(c.names) : c.names[i] \in Preferred(c.path) /\ c.names[i] \in Nat
         /\ \A n \in Preferred(c.path) : \E i \in 1 .. Len(c.names) : c.names[i] = n
         /\ \A i, j \in 1 .. Len(c.names) : i < j =>
              Folded[c.names[i]] < Folded[c.names[j]] /\ c.names[i] # c.names[j]
<1>1. c \in Calls /\ IsCollapsed(c.names, Entries(c.path)) /\ c.index <= Len(c.names) + 1
  BY DEF CallOK
<1>2. c.path \in Paths /\ c.index \in Nat
  BY <1>1 DEF Calls
<1>3. /\ Entries(c.path) \in SUBSET Names /\ Entries(c.path) \subseteq Nat
      /\ Preferred(c.path) \subseteq Entries(c.path)
      /\ Preferred(c.path) = PreferredOf(Entries(c.path))
  BY <1>2, EntryFacts
<1>4. /\ c.names \in Seq(Entries(c.path)) /\ DOMAIN c.names = 1 .. Len(c.names)
      /\ Range(c.names) = Preferred(c.path)
      /\ \A i, j \in 1 .. Len(c.names) : i < j => Folded[c.names[i]] < Folded[c.names[j]]
  BY <1>1, <1>3 DEF IsCollapsed
<1>5. Len(c.names) \in Nat /\ c.index \in 1 .. Len(c.names) + 1
  BY <1>1, <1>2, <1>4
<1>6. \A i \in 1 .. Len(c.names) : c.names[i] \in Preferred(c.path) /\ c.names[i] \in Nat
                                   /\ c.names[i] \in Names
  BY <1>3, <1>4 DEF Range
<1>7. \A n \in Preferred(c.path) : \E i \in 1 .. Len(c.names) : c.names[i] = n
  BY <1>4 DEF Range
<1>8. \A i, j \in 1 .. Len(c.names) : i < j => c.names[i] # c.names[j]
  <2> TAKE i, j \in 1 .. Len(c.names)
  <2> HAVE i < j
  <2>1. Folded[c.names[i]] < Folded[c.names[j]]
    BY <1>4
  <2>2. Folded[c.names[i]] \in Nat /\ Folded[c.names[j]] \in Nat
    BY <1>6, PrecedesOrders
  <2>3. Folded[c.names[i]] # Folded[c.names[j]]
    BY <2>1, <2>2
  <2> QED
    BY <2>3
<1> QED
  BY <1>4, <1>5, <1>6, <1>7, <1>8

\* In the directory of the innermost call, and below it, nothing is ahead of
\* the other calls.
LEMMA OthersAreElsewhere ==
  ASSUME RootsOK, NEW calls, NEW r, StackOK(calls, r), calls # <<>>,
         NEW q, Through(calls[Len(calls)], q)
  PROVE  ~ Others(calls, r, q)
<1> DEFINE n == Len(calls)
           here == calls[n].path
<1>1. /\ n \in Nat \ {0} /\ n \in 1 .. n /\ calls \in Seq(Calls)
  BY EmptySeq DEF StackOK
<1>2. /\ Len(here) = n /\ r \in 1 .. Len(roots) /\ here[1] = roots[r]
      /\ \A i \in 1 .. n : q[i] = here[i]
  BY <1>1 DEF StackOK, Through
<1>3. ~ \E j \in r + 1 .. Len(roots) : q[1] = roots[j]
  <2> SUFFICES ASSUME NEW j \in r + 1 .. Len(roots), q[1] = roots[j] PROVE FALSE
    OBVIOUS
  <2>1. Len(roots) \in Nat /\ \A i \in 1 .. Len(roots) : roots[i] \in Nat
    BY DEF RootsOK
  <2>2. j \in 1 .. Len(roots) /\ r < j /\ 1 \in 1 .. n
    BY <1>1, <1>2, <2>1
  <2>3. roots[r] < roots[j]
    BY <1>2, <2>2 DEF RootsOK
  <2>4. roots[r] = roots[j]
    BY <1>2, <2>2
  <2> QED
    BY <1>2, <2>1, <2>2, <2>3, <2>4
<1>4. ~ \E k \in 1 .. n - 1 : AheadIn(calls[k], q)
  <2> SUFFICES ASSUME NEW k \in 1 .. n - 1, AheadIn(calls[k], q) PROVE FALSE
    OBVIOUS
  <2> DEFINE c == calls[k]
  <2>1. k \in 1 .. n /\ k < n /\ k + 1 \in 1 .. n
    BY <1>1
  <2>2. CallOK(c) /\ Len(c.path) = k /\ c.index >= 2
        /\ here[k + 1] = c.names[c.index - 1]
    BY <1>1, <2>1 DEF StackOK
  <2>3. c.index \in Nat
    BY <2>2 DEF CallOK, Calls
  <2>4. PICK j \in c.index .. Len(c.names) : q[k + 1] = c.names[j]
    BY <2>2, <2>3 DEF AheadIn
  <2>5. q[k + 1] = here[k + 1]
    BY <1>2, <2>1
  <2>6. command \in Commands /\ c.index > 0
    BY <2>2, <2>3 DEF RootsOK
  <2> HIDE DEF c
  <2>7. /\ Len(c.names) \in Nat /\ c.index \in 1 .. Len(c.names) + 1
        /\ \A i, l \in 1 .. Len(c.names) : i < l => c.names[i] # c.names[l]
    BY <2>2, <2>6, NamesInOrder
  <2>8. c.index - 1 \in 1 .. Len(c.names) /\ j \in 1 .. Len(c.names) /\ c.index - 1 < j
    BY <2>2, <2>3, <2>7
  <2> QED
    BY <2>2, <2>4, <2>5, <2>7, <2>8
<1> QED
  BY <1>3, <1>4 DEF Others

\* The directory of the innermost call comes before those of its siblings that
\* are ahead.
LEMMA OthersComeLater ==
  ASSUME RootsOK, NEW calls, NEW r, StackOK(calls, r), calls # <<>>,
         NEW q \in View, Others(calls, r, q), Siblings(calls[Len(calls)].path, q)
  PROVE  Before(calls[Len(calls)].path, q)
<1> DEFINE n == Len(calls)
           here == calls[n].path
<1>1. /\ n \in Nat \ {0} /\ n \in 1 .. n /\ calls \in Seq(Calls)
  BY EmptySeq DEF StackOK
<1>2. /\ Len(here) = n /\ r \in 1 .. Len(roots) /\ here[1] = roots[r]
      /\ Len(q) = n /\ \A i \in 1 .. n - 1 : q[i] = here[i]
  BY <1>1 DEF StackOK, Siblings
<1>3. CASE \E j \in r + 1 .. Len(roots) : q[1] = roots[j]
  <2>1. PICK j \in r + 1 .. Len(roots) : q[1] = roots[j]
    BY <1>3
  <2>2. Len(roots) \in Nat /\ \A i \in 1 .. Len(roots) : roots[i] \in Nat
    BY DEF RootsOK
  <2>3. j \in 1 .. Len(roots) /\ r < j
    BY <1>2, <2>2
  <2>4. roots[r] < roots[j] /\ roots[r] # roots[j]
    <3>1. roots[r] < roots[j]
      BY <1>2, <2>3 DEF RootsOK
    <3> QED
      BY <1>2, <2>2, <2>3, <3>1
  <2>5. n = 1
    <3>1. q[1] # here[1]
      BY <1>2, <2>1, <2>4
    <3>2. n \in Nat \ {0}
      BY <1>1
    <3> HIDE DEF n
    <3>3. n # 1 => 1 \in 1 .. n - 1
      BY <3>2
    <3> QED
      BY <1>2, <3>1, <3>3
  <2> QED
    BY <1>2, <2>1, <2>4, <2>5 DEF Before
<1>4. CASE \E k \in 1 .. n - 1 : AheadIn(calls[k], q)
  <2>1. PICK k \in 1 .. n - 1 : AheadIn(calls[k], q)
    BY <1>4
  <2> DEFINE c == calls[k]
  <2>2. k \in 1 .. n /\ k < n /\ k + 1 \in 1 .. n
    BY <1>1
  <2>3. CallOK(c) /\ Len(c.path) = k /\ c.index >= 2
        /\ here[k + 1] = c.names[c.index - 1]
    BY <1>1, <2>2 DEF StackOK
  <2>4. c.index \in Nat
    BY <2>3 DEF CallOK, Calls
  <2>5. PICK j \in c.index .. Len(c.names) : q[k + 1] = c.names[j]
    BY <2>1, <2>3, <2>4 DEF AheadIn
  <2>6. command \in Commands /\ c.index > 0
    BY <2>3, <2>4 DEF RootsOK
  <2> HIDE DEF c
  <2>7. /\ Len(c.names) \in Nat /\ c.index \in 1 .. Len(c.names) + 1
        /\ \A i, l \in 1 .. Len(c.names) : i < l =>
             Folded[c.names[i]] < Folded[c.names[l]] /\ c.names[i] # c.names[l]
    BY <2>3, <2>6, NamesInOrder
  <2>8. c.index - 1 \in 1 .. Len(c.names) /\ j \in 1 .. Len(c.names) /\ c.index - 1 < j
    BY <2>3, <2>4, <2>7
  <2>9. Folded[here[k + 1]] < Folded[q[k + 1]] /\ here[k + 1] # q[k + 1]
    BY <2>3, <2>5, <2>7, <2>8
  <2>10. k + 1 = n
    <3> SUFFICES ASSUME k + 1 # n PROVE FALSE
      OBVIOUS
    <3>1. k + 1 \in 1 .. n - 1
      BY <1>1, <2>2
    <3> QED
      BY <1>2, <2>9, <3>1
  <2>11. n # 1
    BY <1>1, <2>2
  <2> QED
    BY <1>2, <2>9, <2>10, <2>11 DEF Before
<1> QED
  BY <1>3, <1>4 DEF Others

\* Without a call there is nothing to be in order.
LEMMA NoCalls ==
  ASSUME NEW r
  PROVE  StackOK(<<>>, r)
BY DEF StackOK

\* The innermost call goes on.
LEMMA CallGoesOn ==
  ASSUME NEW calls, NEW r, StackOK(calls, r), calls # <<>>,
         NEW c, CallOK(c), c.path = calls[Len(calls)].path
  PROVE  StackOK(Append(Front(calls), c), r)
<1> DEFINE n == Len(calls)
           more == Append(Front(calls), c)
<1>1. calls \in Seq(Calls) /\ c \in Calls
  BY DEF StackOK, CallOK
<1>2. n \in Nat \ {0}
  BY <1>1, EmptySeq
<1>3. /\ more \in Seq(Calls) /\ Len(more) = n /\ more[n] = c
      /\ \A k \in 1 .. n - 1 : more[k] = calls[k]
  BY <1>1, ReplaceFacts
<1> HIDE DEF more
<1>4. \A k \in 1 .. n : CallOK(more[k]) /\ more[k].path = calls[k].path
  <2> TAKE k \in 1 .. n
  <2>1. k \in 1 .. n - 1 \/ k = n
    BY <1>2
  <2> QED
    BY <1>3, <2>1 DEF StackOK
<1>5. \A k, l \in 1 .. n : k < l => k \in 1 .. n - 1
  BY <1>2
<1> HIDE DEF n
<1>6. StackOK(more, r)
  <2>1. \A k \in 1 .. n :
          /\ CallOK(calls[k]) /\ Len(calls[k].path) = k
          /\ r \in 1 .. Len(roots) /\ calls[k].path[1] = roots[r]
    BY DEF StackOK, n
  <2>2. \A k, l \in 1 .. n : k < l =>
          /\ calls[k].index >= 2
          /\ \A i \in 1 .. k : calls[l].path[i] = calls[k].path[i]
          /\ calls[l].path[k + 1] = calls[k].names[calls[k].index - 1]
    BY DEF StackOK, n
  <2>3. \A k \in 1 .. n :
          /\ CallOK(more[k]) /\ Len(more[k].path) = k
          /\ r \in 1 .. Len(roots) /\ more[k].path[1] = roots[r]
    BY <1>4, <2>1
  <2>4. \A k, l \in 1 .. n : k < l =>
          /\ more[k].index >= 2
          /\ \A i \in 1 .. k : more[l].path[i] = more[k].path[i]
          /\ more[l].path[k + 1] = more[k].names[more[k].index - 1]
    <3> SUFFICES ASSUME NEW k \in 1 .. n, NEW l \in 1 .. n, k < l
                 PROVE  /\ more[k].index >= 2
                        /\ \A i \in 1 .. k : more[l].path[i] = more[k].path[i]
                        /\ more[l].path[k + 1] = more[k].names[more[k].index - 1]
      OBVIOUS
    <3>1. more[k] = calls[k] /\ more[k].path = calls[k].path /\ more[l].path = calls[l].path
      BY <1>3, <1>4, <1>5
    <3>2. /\ calls[k].index >= 2
          /\ \A i \in 1 .. k : calls[l].path[i] = calls[k].path[i]
          /\ calls[l].path[k + 1] = calls[k].names[calls[k].index - 1]
      BY <2>2
    <3> QED
      BY <3>1, <3>2
  <2> QED
    BY <1>3, <2>3, <2>4 DEF StackOK
<1> QED
  BY <1>6 DEF more

\* The innermost call enters the entry that it has come to.
LEMMA CallEnters ==
  ASSUME NEW calls, NEW r, StackOK(calls, r), calls # <<>>,
         NEW c, CallOK(c), calls[Len(calls)].index >= 2,
         NEW name \in Nat, name = calls[Len(calls)].names[calls[Len(calls)].index - 1],
         c.path = Append(calls[Len(calls)].path, name)
  PROVE  StackOK(Append(calls, c), r)
<1> DEFINE n == Len(calls)
           more == Append(calls, c)
           top == calls[n]
<1>1. calls \in Seq(Calls) /\ c \in Calls
  BY DEF StackOK, CallOK
<1>2. n \in Nat \ {0} /\ n \in 1 .. n
  BY <1>1, EmptySeq
<1>3. /\ more \in Seq(Calls) /\ Len(more) = n + 1 /\ more[n + 1] = c
      /\ \A k \in 1 .. n : more[k] = calls[k]
  BY <1>1, AppendProperties
<1>4. /\ CallOK(top) /\ Len(top.path) = n /\ r \in 1 .. Len(roots) /\ top.path[1] = roots[r]
  BY <1>2 DEF StackOK
<1>5. top.path \in Paths
  BY <1>4 DEF CallOK, Calls
<1>6. /\ Len(c.path) = n + 1 /\ c.path[n + 1] = name
      /\ \A i \in 1 .. n : c.path[i] = top.path[i]
  <2>1. c.path = Append(top.path, name)
    OBVIOUS
  <2> DEFINE p == top.path
             q == c.path
  <2>2. p \in Paths /\ q = Append(p, name) /\ Len(p) = n
    BY <1>4, <1>5, <2>1
  <2> HIDE DEF p, q, n
  <2>3. /\ Len(q) = n + 1 /\ q[n + 1] = name
        /\ \A i \in 1 .. n : q[i] = p[i]
    BY <2>2, ChildFacts
  <2> QED
    BY <2>3 DEF p, q
<1>7. \A k \in 1 .. n + 1 : k \in 1 .. n \/ k = n + 1
  BY <1>2
<1>8. 1 \in 1 .. n
  BY <1>2
<1> HIDE DEF more
<1>9. \A k \in 1 .. n + 1 :
        /\ CallOK(more[k]) /\ Len(more[k].path) = k
        /\ r \in 1 .. Len(roots) /\ more[k].path[1] = roots[r]
  <2> TAKE k \in 1 .. n + 1
  <2>1. CASE k = n + 1
    BY <1>3, <1>4, <1>6, <1>8, <2>1 DEF StackOK
  <2>2. CASE k # n + 1
    <3>1. k \in 1 .. n /\ more[k] = calls[k]
      BY <1>3, <1>7, <2>2
    <3> QED
      BY <3>1 DEF StackOK
  <2> QED
    BY <2>1, <2>2
<1>10. ASSUME NEW k \in 1 .. n + 1, NEW l \in 1 .. n + 1, k < l
       PROVE  /\ more[k].index >= 2
              /\ \A i \in 1 .. k : more[l].path[i] = more[k].path[i]
              /\ more[l].path[k + 1] = more[k].names[more[k].index - 1]
  <2>1. k \in 1 .. n /\ (l \in 1 .. n \/ l = n + 1) /\ (k # n => k < n)
    <3> HIDE DEF n
    <3> QED
      BY <1>2, <1>10
  <2>2. CASE l \in 1 .. n
    <3>1. /\ calls[k].index >= 2
          /\ \A i \in 1 .. k : calls[l].path[i] = calls[k].path[i]
          /\ calls[l].path[k + 1] = calls[k].names[calls[k].index - 1]
      BY <1>10, <2>1, <2>2 DEF StackOK
    <3>2. more[k] = calls[k] /\ more[l] = calls[l]
      BY <1>3, <2>1, <2>2
    <3> QED
      BY <3>1, <3>2
  <2>3. CASE l = n + 1 /\ k = n
    <3>1. more[l] = c /\ more[k] = top
      BY <1>2, <1>3, <2>3
    <3>2. top.index >= 2 /\ name = top.names[top.index - 1]
      OBVIOUS
    <3> HIDE DEF top, n
    <3> QED
      BY <1>6, <2>3, <3>1, <3>2
  <2>4. CASE l = n + 1 /\ k # n
    <3>1. k < n /\ k + 1 \in 1 .. n /\ \A i \in 1 .. k : i \in 1 .. n
      BY <1>2, <2>1, <2>4
    <3>2. /\ calls[k].index >= 2
          /\ \A i \in 1 .. k : top.path[i] = calls[k].path[i]
          /\ top.path[k + 1] = calls[k].names[calls[k].index - 1]
      BY <1>2, <2>1, <3>1 DEF StackOK
    <3>3. more[l].path = c.path /\ more[k] = calls[k]
      BY <1>3, <2>1, <2>4
    <3> QED
      BY <1>6, <3>1, <3>2, <3>3
  <2> QED
    BY <2>1, <2>2, <2>3, <2>4
<1>11. StackOK(more, r)
  <2>1. \A k, l \in 1 .. n + 1 : k < l =>
          /\ more[k].index >= 2
          /\ \A i \in 1 .. k : more[l].path[i] = more[k].path[i]
          /\ more[l].path[k + 1] = more[k].names[more[k].index - 1]
    BY <1>10
  <2> HIDE DEF n
  <2> QED
    BY <1>3, <1>9, <2>1 DEF StackOK
<1> QED
  BY <1>11 DEF more

\* The innermost call returns to the one in whose directory it is.
LEMMA CallReturns ==
  ASSUME NEW calls, NEW r, StackOK(calls, r), calls # <<>>
  PROVE  /\ StackOK(Front(calls), r)
         /\ Len(calls) = 1 => Front(calls) = <<>>
         /\ Len(calls) # 1 =>
              /\ Front(calls) # <<>> /\ Len(Front(calls)) \in Nat
              /\ Front(calls)[Len(Front(calls))].index >= 2
              /\ Front(calls)[Len(Front(calls))].path = Front(calls[Len(calls)].path)
<1> DEFINE n == Len(calls)
           less == Front(calls)
<1>1. calls \in Seq(Calls)
  BY DEF StackOK
<1>2. /\ less \in Seq(Calls) /\ Len(less) = n - 1 /\ n \in Nat \ {0}
      /\ \A k \in 1 .. n - 1 : less[k] = calls[k]
  BY <1>1, FrontFacts
<1>3. \A k \in 1 .. n - 1 : k \in 1 .. n
  BY <1>2
<1> HIDE DEF less
<1>4. StackOK(less, r)
  <2>1. \A k \in 1 .. n - 1 :
          /\ CallOK(less[k]) /\ Len(less[k].path) = k
          /\ r \in 1 .. Len(roots) /\ less[k].path[1] = roots[r]
    BY <1>2, <1>3 DEF StackOK
  <2>2. \A k, l \in 1 .. n - 1 : k < l =>
          /\ less[k].index >= 2
          /\ \A i \in 1 .. k : less[l].path[i] = less[k].path[i]
          /\ less[l].path[k + 1] = less[k].names[less[k].index - 1]
    <3>1. \A k, l \in 1 .. n - 1 : k < l =>
            /\ calls[k].index >= 2
            /\ \A i \in 1 .. k : calls[l].path[i] = calls[k].path[i]
            /\ calls[l].path[k + 1] = calls[k].names[calls[k].index - 1]
      BY <1>3 DEF StackOK
    <3> HIDE DEF n
    <3> SUFFICES ASSUME NEW k \in 1 .. n - 1, NEW l \in 1 .. n - 1, k < l
                 PROVE  /\ less[k].index >= 2
                        /\ \A i \in 1 .. k : less[l].path[i] = less[k].path[i]
                        /\ less[l].path[k + 1] = less[k].names[less[k].index - 1]
      OBVIOUS
    <3>2. less[k] = calls[k] /\ less[l] = calls[l]
      BY <1>2
    <3>3. /\ calls[k].index >= 2
          /\ \A i \in 1 .. k : calls[l].path[i] = calls[k].path[i]
          /\ calls[l].path[k + 1] = calls[k].names[calls[k].index - 1]
      BY <3>1
    <3> QED
      BY <3>2, <3>3
  <2> QED
    BY <1>2, <2>1, <2>2 DEF StackOK
<1>5. n = 1 => less = <<>>
  BY <1>2, EmptySeq
<1>6. ASSUME n # 1
      PROVE  /\ less # <<>> /\ Len(less) \in Nat
             /\ less[Len(less)].index >= 2
             /\ less[Len(less)].path = Front(calls[n].path)
  <2>1. n - 1 \in 1 .. n - 1 /\ n - 1 \in 1 .. n /\ n \in 1 .. n /\ n - 1 < n /\ n - 1 # 0
        /\ n - 1 \in Nat /\ n - 1 \in 0 .. n
    BY <1>2, <1>6
  <2>2. less # <<>> /\ Len(less) \in Nat
    BY <1>2, <2>1, EmptySeq
  <2> DEFINE up == calls[n - 1]
             top == calls[n]
  <2>3. less[Len(less)] = up
    BY <1>2, <2>1
  <2>4. /\ CallOK(up) /\ CallOK(top) /\ Len(up.path) = n - 1 /\ Len(top.path) = n
        /\ up.index >= 2
        /\ \A i \in 1 .. n - 1 : top.path[i] = up.path[i]
    BY <2>1 DEF StackOK
  <2>5. up.path \in Paths /\ top.path \in Paths
    BY <2>4 DEF CallOK, Calls
  <2> HIDE DEF up, top
  <2>6. /\ SubSeq(top.path, 1, n - 1) \in Paths /\ Len(SubSeq(top.path, 1, n - 1)) = n - 1
        /\ \A i \in 1 .. n - 1 : SubSeq(top.path, 1, n - 1)[i] = top.path[i]
    BY <2>1, <2>4, <2>5, UpToFacts
  <2>7. SubSeq(top.path, 1, n - 1) = up.path
    <3> DEFINE f == SubSeq(top.path, 1, n - 1)
    <3>1. f \in Paths /\ Len(f) = Len(up.path) /\ \A i \in 1 .. Len(f) : f[i] = up.path[i]
      BY <2>4, <2>6
    <3> HIDE DEF f
    <3>2. f = up.path
      BY <2>5, <3>1, PathsEqual
    <3> QED
      BY <3>2 DEF f
  <2>8. Front(top.path) = up.path
    BY <2>4, <2>7 DEF Front
  <2> QED
    BY <2>2, <2>3, <2>4, <2>8 DEF top
<1> QED
  BY <1>4, <1>5, <1>6 DEF less

------------------------------------------------------------------------------
(* What is ahead of the walk, step by step.                                 *)

\* Before the first call the whole view is ahead, after the last root nothing.
LEMMA AllAheadAtFirst ==
  ASSUME RootsOK
  PROVE  Ahead(<<>>, 1) = View /\ Ahead(<<>>, Len(roots) + 1) = {}
<1>1. Len(roots) \in Nat /\ Len(<<>>) = 0 /\ DOMAIN roots = 1 .. Len(roots)
  BY DEF RootsOK
<1>2. \A q \in View : \E j \in 1 .. Len(roots) : q[1] = roots[j]
  <2> TAKE q \in View
  <2>1. q[1] \in Range(roots)
    BY ViewPrefix DEF RootsOK
  <2> QED
    BY <1>1, <2>1 DEF Range
<1>3. Ahead(<<>>, 1) = View
  BY <1>2 DEF Ahead
<1>4. 1 .. 0 = {} /\ Len(roots) + 1 .. Len(roots) = {}
  BY <1>1
<1>5. Ahead(<<>>, Len(roots) + 1) = {}
  BY <1>1, <1>4 DEF Ahead
<1> QED
  BY <1>3, <1>5

\* A root entered is still ahead, with all below it.
LEMMA RootEntered ==
  ASSUME RootsOK, NEW r \in 1 .. Len(roots), NEW c \in Calls, c.index = 0,
         c.path = <<roots[r]>>
  PROVE  Ahead(<<c>>, r) = Ahead(<<>>, r)
<1>1. Len(roots) \in Nat /\ r \in Nat
  BY DEF RootsOK
<1>2. Len(c.path) = 1 /\ c.path[1] = roots[r] /\ 1 .. 1 = {1} /\ 1 .. 0 = {}
  OBVIOUS
<1>3. ASSUME NEW q \in View PROVE AheadIn(c, q) <=> q[1] = roots[r]
  <2>1. Len(q) \in Nat \ {0}
    BY ViewPrefix DEF RootsOK
  <2> QED
    BY <1>2, <2>1 DEF AheadIn, Through
<1>4. Len(<<c>>) = 1 /\ <<c>>[1] = c /\ <<c>> # <<>> /\ Len(<<>>) = 0
  OBVIOUS
<1>5. \A j \in r .. Len(roots) : j = r \/ j \in r + 1 .. Len(roots)
  BY <1>1
<1>6. \A j \in r + 1 .. Len(roots) : j \in r .. Len(roots)
  BY <1>1
<1>7. r \in r .. Len(roots)
  BY <1>1
<1>8. \A q \in View : (\E k \in 1 .. Len(<<c>>) : AheadIn(<<c>>[k], q)) <=> q[1] = roots[r]
  BY <1>2, <1>3, <1>4
<1>9. \A q \in View : ~ \E k \in 1 .. Len(<<>>) : AheadIn(<<>>[k], q)
  BY <1>2, <1>4
<1> DEFINE one == <<c>>
<1> HIDE DEF one
<1>10. Ahead(one, r) = {q \in View : (\E j \in r + 1 .. Len(roots) : q[1] = roots[j])
                                     \/ q[1] = roots[r]}
  BY <1>4, <1>8 DEF Ahead, one
<1>11. Ahead(<<>>, r) = {q \in View : \E j \in r .. Len(roots) : q[1] = roots[j]}
  BY <1>9 DEF Ahead
<1>12. Ahead(one, r) = Ahead(<<>>, r)
  BY <1>5, <1>6, <1>7, <1>10, <1>11
<1> QED
  BY <1>12 DEF one

\* Beyond a directory of the view, it leads on by its preferred names.
LEMMA Beyond ==
  ASSUME command \in Commands, NEW p \in Paths, NEW q \in View,
         Len(p) <= Len(q), \A i \in 1 .. Len(p) : q[i] = p[i]
  PROVE  /\ Len(p) \in Nat /\ Len(q) \in Nat
         /\ SubSeq(q, 1, Len(p)) = p
         /\ Len(q) = Len(p) => q = p
         /\ Len(q) > Len(p) /\ p # <<>> =>
              /\ q[Len(p) + 1] \in Preferred(p) /\ command.files[p].kind = "directory"
<1> DEFINE n == Len(p)
<1>1. q \in Paths /\ Len(q) \in Nat /\ n \in Nat
  BY ViewPrefix
<1>2. n \in 0 .. Len(q)
  BY <1>1
<1>3. SubSeq(q, 1, n) = p
  <2> DEFINE f == SubSeq(q, 1, n)
  <2>1. f \in Paths /\ Len(f) = n /\ \A i \in 1 .. n : f[i] = q[i]
    BY <1>1, <1>2, UpToFacts
  <2> HIDE DEF f
  <2>2. f = p
    BY <2>1, PathsEqual
  <2> QED
    BY <2>2 DEF f
<1>4. n = Len(q) => q = p
  BY <1>1, PathsEqual
<1>5. ASSUME Len(q) > n, p # <<>>
      PROVE  q[n + 1] \in Preferred(p) /\ command.files[p].kind = "directory"
  <2>1. n # 0
    BY <1>5, EmptySeq
  <2>2. n \in 1 .. Len(q) - 1
    BY <1>1, <1>5, <2>1
  <2>3. /\ command.files[SubSeq(q, 1, n)].kind = "directory"
        /\ q[n + 1] \in Preferred(SubSeq(q, 1, n))
    BY <2>2, ViewPrefix
  <2> QED
    BY <1>3, <2>3
<1> QED
  BY <1>1, <1>3, <1>4, <1>5

\* A directory collected is behind, what is below it ahead.
LEMMA DirectoryCollected ==
  ASSUME RootsOK, NEW calls, NEW r, StackOK(calls, r), calls # <<>>,
         calls[Len(calls)].index = 0,
         NEW c, CallOK(c), c.index = 1, c.path = calls[Len(calls)].path
  PROVE  /\ Ahead(Append(Front(calls), c), r) = Ahead(calls, r) \ {c.path}
         /\ c.path \in Ahead(calls, r)
<1> DEFINE n == Len(calls)
           top == calls[n]
           here == top.path
           more == Append(Front(calls), c)
<1>1. calls \in Seq(Calls) /\ c \in Calls /\ command \in Commands
  BY DEF StackOK, CallOK, RootsOK
<1>2. n \in Nat \ {0} /\ n \in 1 .. n
  BY <1>1, EmptySeq
<1>3. /\ more \in Seq(Calls) /\ more # <<>> /\ Len(more) = n /\ more[n] = c
      /\ \A q : Others(more, r, q) <=> Others(calls, r, q)
  BY <1>1, ReplaceFacts
<1>4. CallOK(top) /\ Len(here) = n
  BY <1>2 DEF StackOK
<1>5. here \in Paths /\ here \in View /\ here # <<>> /\ c.path = here /\ top.index = 0
  BY <1>2, <1>4 DEF CallOK, Calls
<1>6. \A q : q \in Ahead(calls, r) <=> q \in View /\ (Others(calls, r, q) \/ AheadIn(top, q))
  BY <1>1, AheadSplit
<1>7. \A q : q \in Ahead(more, r) <=> q \in View /\ (Others(more, r, q) \/ AheadIn(more[n], q))
  <2> HIDE DEF more
  <2> QED
    BY <1>3, AheadSplit
<1>8. \A q : Through(top, q) => ~ Others(calls, r, q)
  BY OthersAreElsewhere
<1> HIDE DEF more
<1>9. /\ \A j \in 1 .. Len(c.names) : c.names[j] \in Preferred(here)
      /\ \A m \in Preferred(here) : \E j \in 1 .. Len(c.names) : c.names[j] = m
  <2>1. command \in Commands /\ CallOK(c) /\ c.index > 0
    BY <1>1
  <2> HIDE DEF n, top, here
  <2>2. \A i \in 1 .. Len(c.names) : c.names[i] \in Preferred(c.path) /\ c.names[i] \in Nat
    BY <2>1, NamesInOrder
  <2>3. \A m \in Preferred(c.path) : \E i \in 1 .. Len(c.names) : c.names[i] = m
    BY <2>1, NamesInOrder
  <2> QED
    BY <1>5, <2>2, <2>3
<1>10. Through(top, here)
  BY <1>2, <1>4 DEF Through
<1> HIDE DEF n, top, here
<1>11. here \in Ahead(calls, r)
  BY <1>5, <1>6, <1>10 DEF AheadIn
<1>12. ASSUME NEW q \in View
       PROVE  q \in Ahead(more, r) <=> q \in Ahead(calls, r) /\ q # here
  <2>1. AheadIn(c, q) => Through(c, q) /\ Len(q) > n
    BY <1>2, <1>4, <1>5 DEF AheadIn
  <2>2. Through(c, q) <=> Through(top, q)
    BY <1>5 DEF Through, here
  <2>3. CASE ~ Through(top, q)
    <3>1. ~ AheadIn(top, q) /\ ~ AheadIn(c, q) /\ q # here
      BY <1>10, <2>1, <2>2, <2>3 DEF AheadIn
    <3> QED
      BY <1>3, <1>6, <1>7, <3>1
  <2>4. CASE Through(top, q)
    <3>1. /\ Len(here) <= Len(q) /\ \A i \in 1 .. Len(here) : q[i] = here[i]
      BY <2>4 DEF Through, here
    <3>2. /\ Len(q) \in Nat
          /\ Len(q) = n => q = here
          /\ Len(q) > n => q[n + 1] \in Preferred(here)
      BY <1>1, <1>4, <1>5, <3>1, Beyond
    <3>3. AheadIn(top, q)
      BY <1>5, <2>4 DEF AheadIn
    <3>4. AheadIn(c, q) <=> q # here
      <4>1. CASE q = here
        BY <1>2, <1>4, <2>1, <4>1
      <4>2. CASE q # here
        <5>1. Len(q) > n
          BY <1>2, <1>4, <3>1, <3>2, <4>2
        <5>2. PICK j \in 1 .. Len(c.names) : c.names[j] = q[n + 1]
          BY <1>9, <3>2, <5>1
        <5> QED
          BY <1>4, <1>5, <2>2, <2>4, <4>2, <5>1, <5>2 DEF AheadIn
      <4> QED
        BY <4>1, <4>2
    <3>5. ~ Others(calls, r, q) /\ ~ Others(more, r, q)
      BY <1>3, <1>8, <2>4
    <3> QED
      BY <1>3, <1>6, <1>7, <3>3, <3>4, <3>5
  <2> QED
    BY <2>3, <2>4
<1>13. Ahead(more, r) = Ahead(calls, r) \ {here}
  BY <1>6, <1>7, <1>12
<1> QED
  BY <1>5, <1>11, <1>13 DEF more, here, top, n

\* The entry that a call has come to, the call that goes on, and a call for a
\* directory.
EntryOf(c) == Append(c.path, c.names[c.index])
OneOn(c) == [c EXCEPT !.index = @ + 1]
CallFor(p, names) == [path |-> p, names |-> names, index |-> 0]

\* The entry that the innermost call has come to is in the view, and next to
\* it in the overlay comes nothing that is ahead.
LEMMA EntryInView ==
  ASSUME command \in Commands, NEW c, CallOK(c), c.index \in 1 .. Len(c.names)
  PROVE  LET name == c.names[c.index]
         IN  /\ c.path \in Paths /\ c.path # <<>> /\ Len(c.path) \in Nat \ {0}
             /\ name \in Nat /\ name \in Preferred(c.path)
             /\ EntryOf(c) \in View /\ EntryOf(c) \in Paths
             /\ Len(EntryOf(c)) = Len(c.path) + 1
             /\ EntryOf(c)[Len(c.path) + 1] = name
             /\ \A i \in 1 .. Len(c.path) : EntryOf(c)[i] = c.path[i]
             /\ Last(EntryOf(c)) = name
             /\ CallOK(OneOn(c))
             /\ OneOn(c).path = c.path
             /\ OneOn(c).names = c.names
             /\ OneOn(c).index = c.index + 1
<1> DEFINE name == c.names[c.index]
           next == OneOn(c)
<1>1. c \in Calls /\ c.path \in View /\ c.path \in Paths /\ c.index \in Nat /\ c.names \in Seq(Nat)
  BY DEF CallOK, Calls
<1>2. c.path # <<>> /\ Len(c.path) \in Nat \ {0}
  BY <1>1, ViewPrefix, EmptySeq
<1>3. Len(c.names) \in Nat
  BY <1>1
<1>4. c.index > 0
  BY <1>1
<1>5. name \in Preferred(c.path)
  BY <1>4, NamesInOrder
<1>6. Append(c.path, name) \in View /\ name \in Nat
  BY <1>1, <1>5, ViewChild
<1>7. /\ next \in Calls /\ next.path = c.path /\ next.names = c.names
      /\ next.index = c.index + 1
  <2>1. c = [path |-> c.path, names |-> c.names, index |-> c.index]
    BY <1>1 DEF Calls
  <2>2. next = [path |-> c.path, names |-> c.names, index |-> c.index + 1]
    BY <2>1 DEF OneOn
  <2>3. c.index + 1 \in Nat
    BY <1>1
  <2> QED
    BY <1>1, <2>2, <2>3 DEF Calls
<1>8. CallOK(next)
  <2>1. next.index <= Len(next.names) + 1 /\ next.index # 0 /\ next.index > 0
    BY <1>1, <1>3, <1>7
  <2>2. IsCollapsed(c.names, Entries(c.path)) /\ ~ IsAmbiguous(c.path)
    BY <1>4 DEF CallOK
  <2> HIDE DEF next
  <2> QED
    BY <1>7, <2>1, <2>2 DEF CallOK
<1> HIDE DEF name
<1>9. /\ Append(c.path, name) \in Paths
      /\ Len(Append(c.path, name)) = Len(c.path) + 1
      /\ Append(c.path, name)[Len(c.path) + 1] = name
      /\ \A i \in 1 .. Len(c.path) : Append(c.path, name)[i] = c.path[i]
      /\ Last(Append(c.path, name)) = name
  BY <1>1, <1>6, ChildFacts
<1> HIDE DEF next
<1> QED
  BY <1>1, <1>2, <1>5, <1>6, <1>7, <1>8, <1>9 DEF name, next, EntryOf

\* q is entry or below it.
Leads(entry, q) == Len(entry) <= Len(q) /\ \A i \in 1 .. Len(entry) : q[i] = entry[i]

\* A call that has come to an entry has it ahead, and what comes after it.
LEMMA EntryAhead ==
  ASSUME command \in Commands, NEW c, CallOK(c), c.index \in 1 .. Len(c.names),
         NEW q \in View
  PROVE  /\ AheadIn(c, q) <=>
              \/ AheadIn(OneOn(c), q)
              \/ Leads(EntryOf(c), q)
         /\ ~ (/\ AheadIn(OneOn(c), q)
               /\ Leads(EntryOf(c), q))
<1> DEFINE name == c.names[c.index]
           next == OneOn(c)
           p == EntryOf(c)
           n == Len(c.path)
           m == Len(c.names)
           below == Leads(p, q)
<1>1. /\ c.path \in Paths /\ n \in Nat \ {0} /\ name \in Nat /\ p[n + 1] = name
      /\ Len(p) = n + 1
      /\ \A i \in 1 .. n : p[i] = c.path[i]
      /\ next.path = c.path /\ next.names = c.names /\ next.index = c.index + 1
  BY EntryInView
<1> HIDE DEF next, p
<1>2. c.index \in Nat /\ c.names \in Seq(Nat) /\ c.index > 0
  BY DEF CallOK, Calls
<1>3. m \in Nat /\ \A i, j \in 1 .. m : i < j => c.names[i] # c.names[j]
  BY <1>2, NamesInOrder
<1>4. Len(q) \in Nat
  BY ViewPrefix
<1>5. /\ c.index \in 1 .. m
      /\ \A j \in c.index .. m : j = c.index \/ j \in c.index + 1 .. m
      /\ \A j \in c.index + 1 .. m : j \in c.index .. m /\ j \in 1 .. m /\ c.index < j
      /\ c.index \in c.index .. m
      /\ c.index # 0 /\ c.index + 1 # 0
  BY <1>2, <1>3
<1>6. AheadIn(c, q) <=> Through(c, q) /\ n < Len(q) /\ \E j \in c.index .. m : q[n + 1] = c.names[j]
  BY <1>4, <1>1, <1>5 DEF AheadIn
<1>7. Through(next, q) <=> Through(c, q)
  BY <1>1 DEF Through
<1>8. AheadIn(next, q) <=>
        Through(c, q) /\ n < Len(q) /\ \E j \in c.index + 1 .. m : q[n + 1] = c.names[j]
  BY <1>4, <1>1, <1>5, <1>7 DEF AheadIn
<1>9. below <=> Through(c, q) /\ n < Len(q) /\ q[n + 1] = name
  <2>1. \A i \in 1 .. n + 1 : i \in 1 .. n \/ i = n + 1
    BY <1>1
  <2>2. n + 1 \in 1 .. n + 1 /\ (\A i \in 1 .. n : i \in 1 .. n + 1) /\ (n < Len(q) => n <= Len(q))
    BY <1>1, <1>4
  <2> HIDE DEF n, name
  <2>3. Through(c, q) <=> n <= Len(q) /\ \A i \in 1 .. n : q[i] = c.path[i]
    BY DEF Through, n
  <2>4. below <=> n + 1 <= Len(q) /\ \A i \in 1 .. n + 1 : q[i] = p[i]
    BY <1>1 DEF Leads
  <2>5. n + 1 <= Len(q) <=> n < Len(q)
    BY <1>1, <1>4
  <2> HIDE DEF below
  <2> QED
    BY <1>1, <2>1, <2>2, <2>3, <2>4, <2>5
<1> HIDE DEF below
<1>10. AheadIn(c, q) <=> AheadIn(next, q) \/ below
  BY <1>5, <1>6, <1>8, <1>9
<1>11. ~ (AheadIn(next, q) /\ below)
  BY <1>3, <1>5, <1>8, <1>9
<1> QED
  BY <1>10, <1>11 DEF below, next, p

\* A file added is behind, and only it.
LEMMA FileAdded ==
  ASSUME RootsOK, NEW calls, NEW r, StackOK(calls, r), calls # <<>>,
         NEW c, c = calls[Len(calls)], c.index \in 1 .. Len(c.names),
         command.files[EntryOf(c)].kind = "regular"
  PROVE  /\ Ahead(Append(Front(calls), OneOn(c)), r)
              = Ahead(calls, r) \ {EntryOf(c)}
         /\ EntryOf(c) \in Ahead(calls, r)
<1> DEFINE n == Len(calls)
           entry == EntryOf(c)
           next == OneOn(c)
           more == Append(Front(calls), next)
           below(q) == Leads(entry, q)
<1>1. calls \in Seq(Calls) /\ command \in Commands
  BY DEF StackOK, RootsOK
<1>2. n \in Nat \ {0} /\ n \in 1 .. n
  BY <1>1, EmptySeq
<1>3. CallOK(c) /\ Len(c.path) = n
  BY <1>2 DEF StackOK
<1>4. /\ entry \in View /\ entry \in Paths /\ Len(entry) = n + 1 /\ CallOK(next)
      /\ \A i \in 1 .. n : entry[i] = c.path[i]
  BY <1>1, <1>3, EntryInView
<1>5. next \in Calls
  BY <1>4 DEF CallOK
<1>6. /\ more \in Seq(Calls) /\ more # <<>> /\ Len(more) = n /\ more[n] = next
      /\ \A q : Others(more, r, q) <=> Others(calls, r, q)
  <2> HIDE DEF next
  <2> QED
    BY <1>1, <1>5, ReplaceFacts
<1>7. \A q : q \in Ahead(calls, r) <=> q \in View /\ (Others(calls, r, q) \/ AheadIn(c, q))
  BY <1>1, AheadSplit
<1> HIDE DEF more
<1>8. \A q : q \in Ahead(more, r) <=> q \in View /\ (Others(more, r, q) \/ AheadIn(more[n], q))
  BY <1>6, AheadSplit
<1>9. \A q : Through(c, q) => ~ Others(calls, r, q)
  BY OthersAreElsewhere
<1>10. \A q \in View : /\ AheadIn(c, q) <=> AheadIn(next, q) \/ below(q)
                       /\ ~ (AheadIn(next, q) /\ below(q))
  BY <1>1, <1>3, EntryAhead
<1>11. ASSUME NEW q \in View PROVE below(q) <=> q = entry
  <2>0. command.files[entry].kind = "regular"
    OBVIOUS
  <2> HIDE DEF entry
  <2>1. Len(entry) <= Len(entry)
    BY <1>2, <1>4
  <2>2. ASSUME below(q) PROVE q = entry
    <3>1. Len(q) \in Nat
      BY <1>1, ViewPrefix
    <3>2. Len(entry) <= Len(q) /\ \A i \in 1 .. Len(entry) : q[i] = entry[i]
      BY <2>2 DEF Leads
    <3>3. entry # <<>>
      BY <1>2, <1>4, EmptySeq
    <3>4. /\ Len(q) = Len(entry) => q = entry
          /\ Len(q) > Len(entry) => command.files[entry].kind = "directory"
      BY <1>1, <1>4, <3>2, <3>3, Beyond
    <3>5. ~ Len(q) > Len(entry)
      BY <2>0, <3>4
    <3>6. Len(q) = Len(entry)
      BY <1>2, <1>4, <3>1, <3>2, <3>5
    <3> QED
      BY <3>4, <3>6
  <2> QED
    BY <2>1, <2>2 DEF Leads
<1>12. Through(c, entry)
  BY <1>2, <1>3, <1>4 DEF Through
<1> HIDE DEF below, next, entry
<1>13. entry \in Ahead(calls, r)
  BY <1>4, <1>7, <1>10, <1>11
<1>14. Ahead(more, r) = Ahead(calls, r) \ {entry}
  <2>1. \A q \in View : q \in Ahead(more, r) <=> q \in Ahead(calls, r) /\ q # entry
    <3> TAKE q \in View
    <3>1. CASE q = entry
      <4>1. ~ AheadIn(next, q) /\ ~ Others(more, r, q)
        BY <1>6, <1>9, <1>10, <1>11, <1>12, <3>1
      <4> QED
        BY <1>6, <1>8, <3>1, <4>1
    <3>2. CASE q # entry
      BY <1>6, <1>7, <1>8, <1>10, <1>11, <3>2
    <3> QED
      BY <3>1, <3>2
  <2> QED
    BY <1>7, <1>8, <2>1
<1> QED
  BY <1>13, <1>14 DEF more, next, entry

\* A directory entered is still ahead, with all below it.
LEMMA DirectoryEntered ==
  ASSUME RootsOK, NEW calls, NEW r, StackOK(calls, r), calls # <<>>,
         NEW c, c = calls[Len(calls)], c.index \in 1 .. Len(c.names),
         NEW names, CallFor(EntryOf(c), names) \in Calls
  PROVE  Ahead(Append(Append(Front(calls), OneOn(c)),
                      CallFor(EntryOf(c), names)), r)
           = Ahead(calls, r)
<1> DEFINE n == Len(calls)
           d == CallFor(EntryOf(c), names)
           next == OneOn(c)
           more == Append(Front(calls), next)
           most == Append(more, d)
           below(q) == Leads(d.path, q)
<1>0. d \in Calls /\ d.index = 0 /\ d.path = EntryOf(c)
  BY DEF CallFor
<1>1. calls \in Seq(Calls) /\ command \in Commands
  BY DEF StackOK, RootsOK
<1>2. n \in Nat \ {0} /\ n \in 1 .. n
  BY <1>1, EmptySeq
<1>3. CallOK(c) /\ Len(c.path) = n
  BY <1>2 DEF StackOK
<1>4. Len(d.path) = n + 1 /\ CallOK(next)
  BY <1>0, <1>1, <1>3, EntryInView
<1>5. next \in Calls
  BY <1>4 DEF CallOK
<1>6. /\ more \in Seq(Calls) /\ more # <<>> /\ Len(more) = n /\ more[n] = next
      /\ \A k \in 1 .. n - 1 : more[k] = calls[k]
      /\ \A q : Others(more, r, q) <=> Others(calls, r, q)
  <2> HIDE DEF next
  <2> QED
    BY <1>1, <1>5, ReplaceFacts
<1> HIDE DEF more
<1>7. /\ most \in Seq(Calls) /\ Len(most) = n + 1 /\ most[n + 1] = d /\ most # <<>>
      /\ \A k \in 1 .. n : most[k] = more[k]
  BY <1>0, <1>6, AppendProperties
<1> HIDE DEF most, d
<1>8. \A q : q \in Ahead(calls, r) <=> q \in View /\ (Others(calls, r, q) \/ AheadIn(c, q))
  BY <1>1, AheadSplit
<1>9. \A q : q \in Ahead(most, r) <=>
               q \in View /\ (Others(most, r, q) \/ AheadIn(most[n + 1], q))
  BY <1>7, AheadSplit
<1>10. \A q \in View : AheadIn(c, q) <=> AheadIn(next, q) \/ below(q)
  BY <1>0, <1>1, <1>3, EntryAhead
<1> HIDE DEF next
<1>11. ASSUME NEW q PROVE Others(most, r, q) <=> Others(calls, r, q) \/ AheadIn(next, q)
  <2>1. (n + 1) - 1 = n /\ \A k \in 1 .. n : k \in 1 .. n - 1 \/ k = n
    BY <1>2
  <2>2. \A k \in 1 .. n - 1 : k \in 1 .. n
    BY <1>2
  <2>3. /\ \A k \in 1 .. n - 1 : most[k] = calls[k]
        /\ most[n] = next
    BY <1>2, <1>6, <1>7, <2>2
  <2>4. (\E k \in 1 .. n : AheadIn(most[k], q))
          <=> (\E k \in 1 .. n - 1 : AheadIn(calls[k], q)) \/ AheadIn(next, q)
    BY <1>2, <2>1, <2>2, <2>3
  <2> QED
    BY <1>7, <2>1, <2>4 DEF Others
<1>12. ASSUME NEW q \in View PROVE AheadIn(d, q) <=> below(q)
  BY <1>0 DEF AheadIn, Through, Leads
<1> HIDE DEF below
<1>13. Ahead(most, r) = Ahead(calls, r)
  <2>1. \A q \in View : q \in Ahead(most, r) <=> q \in Ahead(calls, r)
    BY <1>7, <1>8, <1>9, <1>10, <1>11, <1>12
  <2> QED
    BY <1>8, <1>9, <2>1
<1> QED
  BY <1>13 DEF most, more, next, d

\* A directory closed has had nothing more ahead.
LEMMA DirectoryClosed ==
  ASSUME RootsOK, NEW calls, NEW r, StackOK(calls, r), calls # <<>>,
         calls[Len(calls)].index = Len(calls[Len(calls)].names) + 1
  PROVE  Ahead(Front(calls), IF Len(calls) = 1 THEN r + 1 ELSE r) = Ahead(calls, r)
<1> DEFINE n == Len(calls)
           top == calls[n]
           less == Front(calls)
           rest == IF n = 1 THEN r + 1 ELSE r
<1>1. calls \in Seq(Calls) /\ command \in Commands
  BY DEF StackOK, RootsOK
<1>2. n \in Nat \ {0} /\ n \in 1 .. n
  BY <1>1, EmptySeq
<1>3. top.names \in Seq(Nat) /\ top.index \in Nat
  BY <1>2 DEF StackOK, CallOK, Calls
<1>4. ASSUME NEW q PROVE ~ AheadIn(top, q)
  <2>1. Len(top.names) \in Nat
    BY <1>3
  <2>2. top.index # 0 /\ top.index .. Len(top.names) = {}
    BY <2>1
  <2> QED
    BY <2>2 DEF AheadIn
<1>5. \A q : q \in Ahead(calls, r) <=> q \in View /\ (Others(calls, r, q) \/ AheadIn(top, q))
  BY <1>1, AheadSplit
<1>6. /\ Len(less) = n - 1 /\ less \in Seq(Calls)
      /\ \A k \in 1 .. n - 1 : less[k] = calls[k]
  BY <1>1, FrontFacts
<1>7. less = <<>> <=> n = 1
  BY <1>2, <1>6, EmptySeq
<1> HIDE DEF less, n, top
<1>8. (IF less = <<>> THEN rest ELSE rest + 1) = r + 1
  BY <1>7
<1> HIDE DEF rest
<1>9. \A q : q \in Ahead(less, rest) <=> q \in View /\ Others(calls, r, q)
  BY <1>6, <1>8 DEF Ahead, Others, n
<1>10. Ahead(less, rest) = Ahead(calls, r)
  BY <1>4, <1>5, <1>9
<1> QED
  BY <1>10 DEF less, rest, n

\* A path is its directory and its name.
LEMMA FrontAndLast ==
  ASSUME NEW p \in Paths, p # <<>>
  PROVE  /\ Front(p) \in Paths /\ Last(p) \in Nat /\ Append(Front(p), Last(p)) = p
         /\ Len(p) \in Nat \ {0} /\ Len(Front(p)) = Len(p) - 1
<1> DEFINE n == Len(p)
           f == Front(p)
           q == Append(f, Last(p))
<1>1. n \in Nat \ {0} /\ Last(p) = p[n] /\ p[n] \in Nat /\ n - 1 \in 0 .. n
  <2>1. n \in Nat \ {0} /\ Last(p) = p[n]
    BY EmptySeq DEF Last
  <2>2. \A i \in 1 .. n : p[i] \in Nat
    BY ElementOfSeq DEF Paths
  <2> HIDE DEF n
  <2>3. n \in 1 .. n /\ n - 1 \in 0 .. n
    BY <2>1
  <2> QED
    BY <2>1, <2>2, <2>3
<1>2. f \in Paths /\ Len(f) = n - 1 /\ \A i \in 1 .. n - 1 : f[i] = p[i]
  BY <1>1, UpToFacts DEF Front
<1> HIDE DEF f
<1>3. q \in Paths /\ Len(q) = n - 1 + 1 /\ q[n - 1 + 1] = p[n] /\ \A i \in 1 .. n - 1 : q[i] = f[i]
  <2> DEFINE last == Last(p)
  <2>1. last \in Nat /\ last = p[n] /\ q = Append(f, last)
    BY <1>1
  <2> HIDE DEF last, q, n
  <2>2. /\ q \in Paths /\ Len(q) = Len(f) + 1 /\ q[Len(f) + 1] = last
        /\ \A i \in 1 .. Len(f) : q[i] = f[i]
    BY <1>2, <2>1, ChildFacts
  <2> QED
    BY <1>2, <2>1, <2>2
<1> HIDE DEF q
<1>4. n - 1 + 1 = n /\ \A i \in 1 .. n : i \in 1 .. n - 1 \/ i = n
  <2> HIDE DEF n
  <2> QED
    BY <1>1
<1>5. \A i \in 1 .. n : q[i] = p[i]
  BY <1>2, <1>3, <1>4
<1>6. Len(q) = n
  BY <1>3, <1>4
<1>7. q = p
  BY <1>3, <1>5, <1>6, PathsEqual
<1> QED
  BY <1>1, <1>2, <1>7 DEF q, f

\* The virtual directory that the next token goes to.
Here(calls) ==
  IF calls = <<>> THEN <<>>
  ELSE IF calls[Len(calls)].index = 0 THEN Front(calls[Len(calls)].path)
       ELSE calls[Len(calls)].path

\* The walk has shown what is behind it.
WalkAt(calls, r, tokens) ==
  /\ r \in 1 .. Len(roots) + 1
  /\ StackOK(calls, r)
  /\ Shown(tokens, Ahead(calls, r))
  /\ Nesting(tokens) = Here(calls)

\* Before the first root all of the view is ahead, and nothing is shown.
LEMMA WalkBegins ==
  RootsOK => WalkAt(<<>>, 1, <<>>)
<1> SUFFICES ASSUME RootsOK PROVE WalkAt(<<>>, 1, <<>>)
  OBVIOUS
<1>1. Len(roots) \in Nat /\ Ahead(<<>>, 1) = View
  BY AllAheadAtFirst DEF RootsOK
<1>2. 1 \in 1 .. Len(roots) + 1
  BY <1>1
<1>3. /\ [token |-> "close"] \in Tokens /\ <<>> \in Seq(Tokens) /\ Len(<<>>) = 0
      /\ Named(<<>>) = {}
  BY DEF Tokens, Named
<1>4. Nesting(<<>>) = <<>>
  BY <1>3, NestingAppend
<1>5. Shown(<<>>, View)
  BY <1>3 DEF Shown
<1> QED
  BY <1>1, <1>2, <1>4, <1>5, NoCalls DEF WalkAt, Here

\* The first call, for a root that is a directory.
LEMMA WalkEntersRoot ==
  ASSUME RootsOK, NEW r \in 1 .. Len(roots), NEW tokens, WalkAt(<<>>, r, tokens),
         command.files[<<roots[r]>>].kind = "directory",
         NEW names \in SetToSeqs(Entries(<<roots[r]>>))
  PROVE  WalkAt(<<[path |-> <<roots[r]>>, names |-> names, index |-> 0]>>, r, tokens)
<1> DEFINE p == <<roots[r]>>
           c == [path |-> p, names |-> names, index |-> 0]
           calls == <<c>>
<1>1. command \in Commands /\ roots[r] \in Range(command.roots)
  <2>1. command \in Commands /\ Range(roots) = Range(command.roots) /\ r \in DOMAIN roots
    BY DEF RootsOK
  <2>2. roots[r] \in Range(roots)
    BY <2>1 DEF Range
  <2> QED
    BY <2>1, <2>2
<1>2. p \in View /\ p \in Paths /\ Len(p) = 1 /\ p[1] = roots[r]
  BY <1>1, RootsInView
<1>3. names \in Seq(Nat)
  <2>1. Entries(p) \subseteq Nat /\ IsFiniteSet(Entries(p))
    BY <1>1, <1>2, EntryFacts
  <2>2. names \in Seq(Entries(p))
    BY <2>1, SeqsOf
  <2> QED
    BY <2>1, <2>2
<1>4. c \in Calls /\ c.path = p /\ c.index = 0 /\ c.names = names
  BY <1>2, <1>3 DEF Calls
<1> HIDE DEF c
<1>5. CallOK(c)
  BY <1>2, <1>4 DEF CallOK
<1>6. /\ calls \in Seq(Calls) /\ Len(calls) = 1 /\ calls[1] = c /\ calls # <<>>
      /\ 1 .. 1 = {1}
  BY <1>4
<1>7. StackOK(calls, r)
  <2>1. \A k \in 1 .. Len(calls) :
          /\ CallOK(calls[k]) /\ Len(calls[k].path) = k
          /\ r \in 1 .. Len(roots) /\ calls[k].path[1] = roots[r]
    BY <1>2, <1>4, <1>5, <1>6
  <2>2. \A k, l \in 1 .. Len(calls) : ~ k < l
    BY <1>6
  <2> HIDE DEF calls
  <2> QED
    BY <1>6, <2>1, <2>2 DEF StackOK
<1>8. Ahead(calls, r) = Ahead(<<>>, r)
  BY <1>4, RootEntered
<1>9. Front(p) = <<>>
  <2>1. p # <<>>
    OBVIOUS
  <2>2. Front(p) \in Paths /\ Len(Front(p)) = 0
    <3> HIDE DEF p
    <3> QED
      BY <1>2, <2>1, FrontAndLast
  <2> QED
    BY <2>2, EmptySeq
<1>10. Here(calls) = <<>> /\ Here(<<>>) = <<>>
  BY <1>4, <1>6, <1>9 DEF Here
<1> HIDE DEF calls
<1>11. WalkAt(calls, r, tokens)
  BY <1>7, <1>8, <1>10 DEF WalkAt
<1> QED
  BY <1>11 DEF calls, c, p

\* What is known of the innermost call.
LEMMA Innermost ==
  ASSUME RootsOK, NEW calls, NEW r, StackOK(calls, r), calls # <<>>
  PROVE  LET top == calls[Len(calls)]
         IN  /\ calls \in Seq(Calls) /\ Len(calls) \in Nat \ {0}
             /\ Last(calls) = top
             /\ CallOK(top) /\ top \in Calls /\ Len(top.path) = Len(calls)
             /\ top.path \in View /\ top.path \in Paths /\ top.path # <<>>
             /\ top.names \in Seq(Nat) /\ top.index \in Nat
             /\ command \in Commands
             /\ r \in 1 .. Len(roots)
<1> DEFINE top == calls[Len(calls)]
<1>1. /\ calls \in Seq(Calls) /\ Len(calls) \in Nat \ {0} /\ Len(calls) \in 1 .. Len(calls)
  BY EmptySeq DEF StackOK
<1>2. CallOK(top) /\ Len(top.path) = Len(calls) /\ r \in 1 .. Len(roots)
  BY <1>1 DEF StackOK
<1>3. /\ top \in Calls /\ top.path \in View /\ top.path \in Paths
      /\ top.names \in Seq(Nat) /\ top.index \in Nat
  BY <1>2 DEF CallOK, Calls
<1>4. top.path # <<>>
  BY <1>1, <1>2, <1>3, EmptySeq
<1>5. Last(calls) = top
  BY DEF Last
<1> QED
  BY <1>1, <1>2, <1>3, <1>4, <1>5 DEF RootsOK

\* The names of a directory, once collected: refused if they are ambiguous,
\* else the preferred ones.
LEMMA NamesCollected ==
  ASSUME RootsOK, NEW c, CallOK(c), c.index = 0
  PROVE  /\ validate_sorted_entries(SortedEntries(c.names)) <=> ~ IsAmbiguous(c.path)
         /\ ~ IsAmbiguous(c.path) =>
              CallOK([c EXCEPT !.names = collapse_sorted_entries(SortedEntries(c.names)),
                               !.index = 1])
<1> DEFINE S == Entries(c.path)
           sorted == SortedEntries(c.names)
           kept == collapse_sorted_entries(sorted)
           next == [c EXCEPT !.names = kept, !.index = 1]
<1>1. /\ command \in Commands /\ c \in Calls /\ c.path \in Paths
      /\ c.names \in SetToSeqs(S)
  BY DEF RootsOK, CallOK, Calls
<1>2. S \in SUBSET Names /\ S \subseteq Nat /\ IsFiniteSet(S)
      /\ Preferred(c.path) = PreferredOf(S) /\ (IsAmbiguous(c.path) <=> AmbiguousIn(S))
  BY <1>1, EntryFacts
<1> HIDE DEF S
<1>3. IsInOrder(sorted, S)
  BY <1>1, <1>2, EntriesAreSorted
<1> HIDE DEF sorted
<1>4. validate_sorted_entries(sorted) <=> ~ IsAmbiguous(c.path)
  BY <1>2, <1>3, ValidateIsExact
<1>5. ASSUME ~ IsAmbiguous(c.path) PROVE CallOK(next)
  <2>1. IsCollapsed(kept, S)
    BY <1>2, <1>3, <1>5, CollapseIsPreferred
  <2> HIDE DEF kept
  <2>2. kept \in Seq(Nat) /\ Len(kept) \in Nat
    <3>1. kept \in Seq(S)
      BY <2>1 DEF IsCollapsed
    <3>2. Len(kept) \in Nat
      BY <3>1
    <3> QED
      BY <1>2, <3>1, <3>2, SeqMonotonic
  <2>3. next \in Calls /\ next.path = c.path /\ next.names = kept /\ next.index = 1
    BY <1>1, <2>2 DEF Calls
  <2>4. 1 <= Len(kept) + 1
    BY <2>2
  <2> HIDE DEF next
  <2> QED
    BY <1>5, <2>1, <2>3, <2>4 DEF CallOK, S
<1> QED
  BY <1>4, <1>5 DEF kept, sorted

\* A directory is opened with its preferred names.
LEMMA WalkCollects ==
  ASSUME RootsOK, NEW calls, NEW r, NEW tokens, WalkAt(calls, r, tokens), calls # <<>>,
         NEW top, top = calls[Len(calls)], top.index = 0,
         NEW c, CallOK(c), c.index = 1, c.path = top.path
  PROVE  WalkAt(Append(Front(calls), c), r,
                Append(tokens, [token |-> "open", name |-> Last(top.path)]))
<1> DEFINE p == top.path
           t == [token |-> "open", name |-> Last(p)]
           more == Append(Front(calls), c)
           ahead == Ahead(calls, r)
<1>1. /\ r \in 1 .. Len(roots) + 1 /\ StackOK(calls, r) /\ Shown(tokens, ahead)
      /\ Nesting(tokens) = Front(p)
  BY DEF WalkAt, Here
<1>2. /\ calls \in Seq(Calls) /\ Len(calls) \in Nat \ {0} /\ CallOK(top)
      /\ p \in View /\ p \in Paths /\ p # <<>> /\ Len(p) = Len(calls) /\ command \in Commands
  BY <1>1, Innermost
<1>3. StackOK(more, r)
  BY <1>1, CallGoesOn
<1>4. Ahead(more, r) = ahead \ {p} /\ p \in ahead
  BY <1>1, DirectoryCollected
<1>5. Front(p) \in Paths /\ Last(p) \in Nat /\ Append(Front(p), Last(p)) = p
  BY <1>2, FrontAndLast
<1>6. /\ t \in NamedTokens /\ t \in Tokens /\ t.token = "open" /\ t.name = Last(p)
  BY <1>5 DEF NamedTokens, Tokens
<1> HIDE DEF t, more
<1>7. Describes(t, p)
  BY <1>2, <1>6 DEF Describes, CallOK
<1>8. ~ IsUnsupported(p)
  <2>1. command.files[p].kind = "directory" /\ (Len(p) > 1 => ~ command.files[p].link)
    BY <1>2 DEF CallOK
  <2>2. ~ IsAmbiguous(p)
    BY DEF CallOK
  <2> QED
    BY <2>1, <2>2 DEF IsUnsupported
<1>9. ASSUME NEW q \in ahead \ {p}, Siblings(p, q) PROVE Before(p, q)
  <2>1. q \in View /\ (Others(calls, r, q) \/ AheadIn(top, q))
    BY <1>2, AheadSplit
  <2>2. ~ AheadIn(top, q)
    <3> SUFFICES ASSUME AheadIn(top, q) PROVE FALSE
      OBVIOUS
    <3>1. Len(p) <= Len(q) /\ (\A i \in 1 .. Len(p) : q[i] = p[i]) /\ Len(q) = Len(p)
      BY <1>9 DEF AheadIn, Through, Siblings
    <3>2. q = p
      BY <1>2, <2>1, <3>1, Beyond
    <3> QED
      BY <3>2
  <2>3. Others(calls, r, q)
    BY <2>1, <2>2
  <2> QED
    BY <1>1, <1>9, <2>1, <2>3, OthersComeLater
<1> HIDE DEF ahead, p
<1>10. Shown(Append(tokens, t), ahead \ {p})
  BY <1>1, <1>4, <1>5, <1>6, <1>7, <1>8, <1>9, NameShows
<1>11. Nesting(Append(tokens, t)) = p
  <2>1. tokens \in Seq(Tokens)
    BY <1>1 DEF Shown
  <2>2. Nesting(Append(tokens, t)) = Nest(Nesting(tokens), t)
    BY <1>6, <2>1, NestingAppend
  <2> QED
    BY <1>1, <1>5, <1>6, <2>2 DEF Nest
<1>12. Here(more) = p
  <2>1. more # <<>> /\ more[Len(more)] = c
    BY <1>2, ReplaceFacts DEF more, CallOK
  <2> QED
    BY <2>1 DEF Here, p
<1>13. WalkAt(more, r, Append(tokens, t))
  BY <1>1, <1>3, <1>4, <1>10, <1>11, <1>12 DEF WalkAt
<1> QED
  BY <1>13 DEF more, t, p

\* A regular file is shown at its own path.
LEMMA WalkAddsFile ==
  ASSUME RootsOK, NEW calls, NEW r, NEW tokens, WalkAt(calls, r, tokens), calls # <<>>,
         NEW top, top = calls[Len(calls)], top.index \in 1 .. Len(top.names),
         command.files[EntryOf(top)].kind = "regular"
  PROVE  LET entry == EntryOf(top)
         IN  WalkAt(Append(Front(calls), OneOn(top)), r,
                    Append(tokens, [token |-> "file", name |-> Last(entry), external |-> entry]))
<1> DEFINE p == top.path
           n == Len(p)
           name == top.names[top.index]
           entry == EntryOf(top)
           next == OneOn(top)
           t == [token |-> "file", name |-> Last(entry), external |-> entry]
           more == Append(Front(calls), next)
           ahead == Ahead(calls, r)
<1>1. /\ r \in 1 .. Len(roots) + 1 /\ StackOK(calls, r) /\ Shown(tokens, ahead)
      /\ Nesting(tokens) = p
  BY DEF WalkAt, Here
<1>2. /\ calls \in Seq(Calls) /\ Len(calls) \in Nat \ {0} /\ CallOK(top)
      /\ p \in View /\ p \in Paths /\ p # <<>> /\ n = Len(calls) /\ command \in Commands
      /\ top.index \in Nat
  BY <1>1, Innermost
<1>3. /\ name \in Nat /\ entry \in View /\ entry \in Paths /\ Len(entry) = n + 1
      /\ entry[n + 1] = name /\ \A i \in 1 .. n : entry[i] = p[i]
  BY <1>2, EntryInView
<1>4. /\ Last(entry) = name /\ CallOK(next)
      /\ next.path = p /\ next.index = top.index + 1
  BY <1>2, EntryInView
<1>5. StackOK(more, r)
  <2> HIDE DEF next
  <2> QED
    BY <1>1, <1>4, CallGoesOn
<1>6. Ahead(more, r) = ahead \ {entry} /\ entry \in ahead
  BY <1>1, FileAdded
<1>7. t \in NamedTokens /\ t \in Tokens /\ t.token = "file" /\ t.name = name /\ t.external = entry
  BY <1>3, <1>4 DEF NamedTokens, Tokens
<1> HIDE DEF t, more
<1>8. Describes(t, entry)
  BY <1>7 DEF Describes
<1>9. Len(entry) # 1
  BY <1>2, <1>3
<1>10. ~ IsUnsupported(entry)
  BY <1>9 DEF IsUnsupported
<1>11. ASSUME NEW q \in ahead \ {entry}, Siblings(entry, q) PROVE Before(entry, q)
  <2>1. q \in View /\ (Others(calls, r, q) \/ AheadIn(top, q))
    BY <1>2, AheadSplit
  <2>2. /\ Len(q) = n + 1 /\ q \in Paths
        /\ \A i \in 1 .. n : q[i] = p[i]
    <3>1. q \in Paths
      BY <1>2, <2>1, ViewPrefix
    <3>2. Len(entry) - 1 = n
      BY <1>2, <1>3
    <3> HIDE DEF entry, n
    <3> QED
      BY <1>3, <1>11, <3>1, <3>2 DEF Siblings
  <2>3. Through(top, q)
    <3>1. n <= n + 1
      BY <1>2
    <3> QED
      BY <2>2, <3>1 DEF Through
  <2>4. AheadIn(top, q)
    BY <1>1, <2>1, <2>3, OthersAreElsewhere
  <2>5. top.index # 0 /\ top.index > 0 /\ Len(top.names) \in Nat
    <3>1. Len(top.names) \in Nat
      BY <1>2 DEF CallOK, Calls
    <3> QED
      BY <1>2, <3>1
  <2>6. PICK j \in top.index .. Len(top.names) : q[n + 1] = top.names[j]
    BY <2>4, <2>5 DEF AheadIn
  <2>7. j # top.index
    <3> SUFFICES ASSUME j = top.index PROVE FALSE
      OBVIOUS
    <3>1. q[n + 1] = name
      BY <2>6
    <3>2. \A i \in 1 .. n + 1 : i \in 1 .. n \/ i = n + 1
      BY <1>2
    <3>3. \A i \in 1 .. Len(entry) : entry[i] = q[i]
      BY <1>3, <2>2, <3>1, <3>2
    <3>4. entry = q
      <4> HIDE DEF entry
      <4> QED
        BY <1>3, <2>2, <3>3, PathsEqual
    <3> QED
      BY <3>4
  <2>8. top.index \in 1 .. Len(top.names) /\ j \in 1 .. Len(top.names) /\ top.index < j
    BY <1>2, <2>5, <2>7
  <2>9. Folded[name] < Folded[q[n + 1]]
    BY <1>2, <2>5, <2>6, <2>8, NamesInOrder
  <2> HIDE DEF entry, n
  <2> QED
    BY <1>3, <1>9, <2>2, <2>9 DEF Before
<1>12. Append(Nesting(tokens), t.name) = entry
  BY <1>1, <1>7 DEF EntryOf
<1> HIDE DEF ahead, entry
<1>13. Shown(Append(tokens, t), ahead \ {entry})
  BY <1>1, <1>6, <1>7, <1>8, <1>10, <1>11, <1>12, NameShows
<1>14. Nesting(Append(tokens, t)) = p
  <2>1. tokens \in Seq(Tokens)
    BY <1>1 DEF Shown
  <2>2. Nesting(Append(tokens, t)) = Nest(Nesting(tokens), t)
    BY <1>7, <2>1, NestingAppend
  <2> QED
    BY <1>1, <1>7, <2>2 DEF Nest
<1>15. Here(more) = p
  <2>1. more # <<>> /\ more[Len(more)] = next
    <3> HIDE DEF next
    <3> QED
      BY <1>2, <1>4, ReplaceFacts DEF more, CallOK
  <2>2. next.index # 0
    BY <1>2, <1>4
  <2> HIDE DEF next
  <2> QED
    BY <1>4, <2>1, <2>2 DEF Here
<1>16. WalkAt(more, r, Append(tokens, t))
  BY <1>1, <1>5, <1>6, <1>13, <1>14, <1>15 DEF WalkAt
<1> QED
  BY <1>16 DEF more, t, entry

\* A directory is entered before its siblings.
LEMMA WalkEntersDirectory ==
  ASSUME RootsOK, NEW calls, NEW r, NEW tokens, WalkAt(calls, r, tokens), calls # <<>>,
         NEW top, top = calls[Len(calls)], top.index \in 1 .. Len(top.names),
         command.files[EntryOf(top)].kind = "directory",
         ~ command.files[EntryOf(top)].link,
         NEW names \in SetToSeqs(Entries(EntryOf(top)))
  PROVE  WalkAt(Append(Append(Front(calls), OneOn(top)),
                       CallFor(EntryOf(top), names)),
                r, tokens)
<1> DEFINE p == top.path
           name == top.names[top.index]
           entry == EntryOf(top)
           next == OneOn(top)
           d == CallFor(entry, names)
           more == Append(Front(calls), next)
           most == Append(more, d)
<1>1. /\ r \in 1 .. Len(roots) + 1 /\ StackOK(calls, r) /\ Shown(tokens, Ahead(calls, r))
      /\ Nesting(tokens) = p
  BY DEF WalkAt, Here
<1>2. /\ calls \in Seq(Calls) /\ Len(calls) \in Nat \ {0} /\ CallOK(top)
      /\ p \in View /\ p \in Paths /\ p # <<>> /\ Len(p) = Len(calls) /\ command \in Commands
      /\ top.index \in Nat
  BY <1>1, Innermost
<1>3. /\ name \in Nat /\ entry \in View /\ entry \in Paths
      /\ CallOK(next) /\ next.path = p /\ next.index = top.index + 1 /\ next.names = top.names
  BY <1>2, EntryInView
<1>4. Front(entry) = p
  <2>1. entry = Append(p, name)
    BY DEF EntryOf
  <2> HIDE DEF name, p
  <2> QED
    BY <1>2, <1>3, <2>1, ChildFacts
<1>5. /\ d.path = entry /\ d.names = names /\ d.index = 0
  BY DEF CallFor
<1>6. names \in Seq(Nat)
  <2> HIDE DEF entry, d
  <2>1. Entries(entry) \subseteq Nat /\ IsFiniteSet(Entries(entry))
    BY <1>2, <1>3, EntryFacts
  <2>2. names \in SetToSeqs(Entries(entry))
    BY DEF entry
  <2>3. names \in Seq(Entries(entry))
    BY <2>1, <2>2, SeqsOf
  <2> QED
    BY <2>1, <2>3, SeqMonotonic
<1>7. d \in Calls /\ CallOK(d)
  <2>1. d \in Calls
    BY <1>3, <1>6 DEF Calls, CallFor
  <2>2. names \in SetToSeqs(Entries(entry)) /\ ~ command.files[entry].link
        /\ command.files[entry].kind = "directory"
    OBVIOUS
  <2> HIDE DEF d, entry
  <2> QED
    BY <1>3, <1>5, <2>1, <2>2 DEF CallOK
<1>8. /\ more \in Seq(Calls) /\ more # <<>> /\ Len(more) = Len(calls) /\ more[Len(more)] = next
      /\ StackOK(more, r)
  <2> HIDE DEF next
  <2>1. next \in Calls
    BY <1>3 DEF CallOK
  <2>2. /\ more \in Seq(Calls) /\ more # <<>>
        /\ Len(more) = Len(calls) /\ more[Len(calls)] = next
    BY <1>2, <2>1, ReplaceFacts
  <2>3. StackOK(more, r)
    BY <1>1, <1>3, CallGoesOn
  <2> QED
    BY <2>2, <2>3
<1>9. next.index >= 2 /\ name = next.names[next.index - 1]
  <2>1. (top.index + 1) - 1 = top.index /\ top.index + 1 >= 2
    BY <1>2
  <2> HIDE DEF next
  <2> QED
    BY <1>3, <2>1
<1>10. Ahead(most, r) = Ahead(calls, r)
  BY <1>1, <1>7, DirectoryEntered
<1> HIDE DEF more, d, next, name
<1>11. StackOK(most, r)
  <2>1. d.path = Append(more[Len(more)].path, name)
    BY <1>3, <1>5, <1>8 DEF EntryOf, name
  <2> QED
    BY <1>3, <1>7, <1>8, <1>9, <2>1, CallEnters
<1>12. most # <<>> /\ most[Len(most)] = d
  BY <1>7, <1>8, AppendProperties
<1> HIDE DEF most, entry
<1>13. Here(most) = p
  BY <1>4, <1>5, <1>12 DEF Here
<1>14. WalkAt(most, r, tokens)
  BY <1>1, <1>10, <1>11, <1>13 DEF WalkAt
<1> QED
  BY <1>14 DEF most, more, d, next, entry, name

\* A directory is closed once it has nothing more to show.
LEMMA WalkCloses ==
  ASSUME RootsOK, NEW calls, NEW r, NEW tokens, WalkAt(calls, r, tokens), calls # <<>>,
         NEW top, top = calls[Len(calls)], top.index = Len(top.names) + 1
  PROVE  WalkAt(Front(calls), IF Len(calls) = 1 THEN r + 1 ELSE r,
                Append(tokens, [token |-> "close"]))
<1> DEFINE p == top.path
           t == [token |-> "close"]
           less == Front(calls)
           rest == IF Len(calls) = 1 THEN r + 1 ELSE r
<1>1. /\ calls \in Seq(Calls) /\ Len(calls) \in Nat \ {0} /\ CallOK(top)
      /\ p \in Paths /\ p # <<>> /\ Len(p) = Len(calls) /\ command \in Commands
      /\ top.index \in Nat /\ top.names \in Seq(Nat) /\ r \in 1 .. Len(roots)
  BY Innermost DEF WalkAt
<1>2. top.index # 0
  BY <1>1
<1>3. StackOK(calls, r) /\ Shown(tokens, Ahead(calls, r)) /\ Nesting(tokens) = p
  BY <1>2 DEF WalkAt, Here
<1>4. /\ StackOK(less, r)
      /\ Len(calls) = 1 => less = <<>>
      /\ Len(calls) # 1 => /\ less # <<>>
                           /\ less[Len(less)].index >= 2
                           /\ less[Len(less)].path = Front(p)
  BY <1>3, CallReturns
<1>5. Ahead(less, rest) = Ahead(calls, r)
  BY <1>3, DirectoryClosed
<1> HIDE DEF less
<1>6. StackOK(less, rest)
  BY <1>4, NoCalls
<1>7. rest \in 1 .. Len(roots) + 1
  BY <1>1 DEF RootsOK
<1>8. Shown(Append(tokens, t), Ahead(less, rest))
  BY <1>3, <1>5, CloseShows
<1>9. Nesting(Append(tokens, t)) = Front(p)
  <2>1. tokens \in Seq(Tokens)
    BY <1>3 DEF Shown
  <2>2. t \in Tokens /\ t.token = "close"
    BY DEF Tokens
  <2> HIDE DEF t
  <2>3. Nesting(Append(tokens, t)) = Nest(Nesting(tokens), t)
    BY <2>1, <2>2, NestingAppend
  <2> QED
    BY <1>3, <2>2, <2>3 DEF Nest
<1>10. Here(less) = Front(p)
  <2>1. CASE Len(calls) = 1
    <3>1. Front(p) \in Paths /\ Len(Front(p)) = 0
      <4> HIDE DEF p
      <4>1. Front(p) \in Paths /\ Len(Front(p)) = Len(p) - 1
        BY <1>1, FrontAndLast
      <4> QED
        BY <1>1, <2>1, <4>1
    <3>2. Front(p) = <<>>
      BY <3>1, EmptySeq
    <3> QED
      BY <1>4, <2>1, <3>2 DEF Here
  <2>2. CASE Len(calls) # 1
    <3>1. less[Len(less)].index # 0
      BY <1>4, <2>2
    <3> QED
      BY <1>4, <2>2, <3>1 DEF Here
  <2> QED
    BY <2>1, <2>2
<1> HIDE DEF rest, t
<1>11. WalkAt(less, rest, Append(tokens, t))
  BY <1>6, <1>7, <1>8, <1>9, <1>10 DEF WalkAt
<1> QED
  BY <1>11 DEF less, rest, t

------------------------------------------------------------------------------
(* The inductive invariant.                                                 *)

\* From the first root to the file: the walk has shown what is not ahead of it,
\* no call has failed and nothing is written.
WalkInv ==
  /\ RootsOK
  /\ command.usable /\ command.roots # <<>>
  /\ WalkAt(stack, root, overlay)
  /\ fault = FALSE
  /\ output = NoFile

\* The properties speak of runs that are done; WalkInv is what makes them true
\* when a walk gets there.
IInv ==
  /\ command \in Commands
  /\ TypeOK
  /\ pc = "arguments" =>
       root = 1 /\ stack = <<>> /\ overlay = <<>> /\ fault = FALSE /\ output = NoFile
  /\ pc \in {"walk", "write"} => WalkInv
  /\ pc = "write" => stack = <<>> /\ root = Len(roots) + 1
  /\ OverlayIsTheView
  /\ OverlayIsOrdered
  /\ VerdictIsOfTheView

\* The walk is in its types.
LEMMA WalkIsTyped ==
  WalkInv /\ pc \in {"walk", "write"} /\ exit \in 0 .. 2 => TypeOK
<1> SUFFICES ASSUME WalkInv, pc \in {"walk", "write"}, exit \in 0 .. 2 PROVE TypeOK
  OBVIOUS
<1>1. /\ RootsOK /\ command \in Commands /\ root \in 1 .. Len(roots) + 1
      /\ StackOK(stack, root) /\ overlay \in Seq(Tokens)
      /\ stack \in Seq(Calls)
  BY DEF WalkInv, WalkAt, RootsOK, Shown, StackOK
<1>2. ASSUME NEW k \in DOMAIN stack
      PROVE  /\ stack[k].index \in 0 .. Len(stack[k].names) + 1
             /\ Range(stack[k].names) \subseteq Entries(stack[k].path)
  <2> DEFINE c == stack[k]
  <2>1. CallOK(c) /\ c \in Calls /\ c.path \in Paths /\ c.index \in Nat /\ c.names \in Seq(Nat)
    <3>1. k \in 1 .. Len(stack)
      BY <1>1
    <3>2. CallOK(c)
      BY <1>1, <3>1 DEF StackOK
    <3> QED
      BY <3>2 DEF CallOK, Calls
  <2> HIDE DEF c
  <2>2. /\ IsFiniteSet(Entries(c.path)) /\ Entries(c.path) \in SUBSET Names
        /\ Preferred(c.path) \subseteq Entries(c.path)
    BY <1>1, <2>1, EntryFacts
  <2>3. CASE c.index = 0
    <3>1. Range(c.names) = Entries(c.path)
      BY <2>1, <2>2, <2>3, SeqsOf DEF CallOK
    <3> QED
      BY <2>1, <2>3, <3>1 DEF c
  <2>4. CASE c.index # 0
    <3>1. c.index > 0
      BY <2>1, <2>4
    <3>2. c.index \in 1 .. Len(c.names) + 1 /\ Len(c.names) \in Nat
          /\ Range(c.names) = Preferred(c.path)
      BY <1>1, <2>1, <3>1, NamesInOrder
    <3>3. c.index \in 0 .. Len(c.names) + 1
      BY <3>2
    <3> QED
      BY <2>2, <3>2, <3>3 DEF c
  <2> QED
    BY <2>3, <2>4
<1>3. \A k \in DOMAIN overlay : overlay[k].token \in {"open", "file", "close"}
  <2> TAKE k \in DOMAIN overlay
  <2>1. overlay[k] \in Tokens
    BY <1>1
  <2> QED
    BY <2>1 DEF Tokens, NamedTokens
<1>4. command.usable \in BOOLEAN
  BY <1>1, CommandFacts
<1>5. fault \in BOOLEAN /\ output.state \in {"absent", "torn", "complete"}
  BY DEF WalkInv, NoFile
<1> QED
  BY <1>1, <1>2, <1>3, <1>4, <1>5 DEF TypeOK

\* Only a run that is done, and well, has an overlay to speak of.
LEMMA NothingSaid ==
  /\ pc # "done" => OverlayIsTheView /\ OverlayIsOrdered /\ VerdictIsOfTheView
  /\ exit # 0 => OverlayIsTheView /\ OverlayIsOrdered
BY DEF OverlayIsTheView, OverlayIsOrdered, VerdictIsOfTheView

\* A walk that is done has shown the view.
LEMMA OutputIsTheView ==
  Shown(output.overlay, {}) /\ Nesting(output.overlay) = <<>> =>
    OverlayIsTheView /\ OverlayIsOrdered
BY ShownIsTheView

\* What the walk is about does not change.
LEMMA ViewStays ==
  ASSUME command' = command
  PROVE  /\ \A p : Entries(p)' = Entries(p)
         /\ \A p : Preferred(p)' = Preferred(p)
         /\ \A p : IsAmbiguous(p)' <=> IsAmbiguous(p)
         /\ \A p : IsUnsupported(p)' <=> IsUnsupported(p)
         /\ View' = View
<1>1. \A p : Entries(p)' = Entries(p)
  BY DEF Entries
<1>2. \A p, n : Aliases(p, n)' = Aliases(p, n)
  BY <1>1 DEF Aliases
<1>3. \A p : Preferred(p)' = Preferred(p)
  BY <1>1, <1>2 DEF Preferred
<1>4. \A p : IsAmbiguous(p)' <=> IsAmbiguous(p)
  BY <1>1, <1>2 DEF IsAmbiguous
<1>5. \A p : IsUnsupported(p)' <=> IsUnsupported(p)
  BY <1>4 DEF IsUnsupported
<1>6. View' = View
  BY <1>3 DEF View
<1> QED
  BY <1>1, <1>3, <1>4, <1>5, <1>6

\* The invariant of the walk speaks of the command line and the roots alone,
\* besides its parameters.
LEMMA WalkStays ==
  ASSUME command' = command, roots' = roots
  PROVE  /\ RootsOK' <=> RootsOK
         /\ \A tokens, ahead : Shown(tokens, ahead)' <=> Shown(tokens, ahead)
         /\ \A calls, r, tokens : WalkAt(calls, r, tokens)' <=> WalkAt(calls, r, tokens)
<1>1. RootsOK' <=> RootsOK
  BY DEF RootsOK
<1>2. \A c : CallOK(c)' <=> CallOK(c)
  BY ViewStays DEF CallOK
<1>3. \A calls, r : StackOK(calls, r)' <=> StackOK(calls, r)
  BY <1>2 DEF StackOK
<1>4. \A tokens, ahead : Shown(tokens, ahead)' <=> Shown(tokens, ahead)
  BY ViewStays DEF Shown, Describes
<1>5. \A calls, r : Ahead(calls, r)' = Ahead(calls, r)
  BY ViewStays DEF Ahead
<1>6. \A calls, r, tokens : WalkAt(calls, r, tokens)' <=> WalkAt(calls, r, tokens)
  BY <1>3, <1>4, <1>5 DEF WalkAt
<1> QED
  BY <1>1, <1>4, <1>6

\* A step of the walk.
LEMMA WalkGoesOn ==
  ASSUME IInv, pc = "walk", pc' \in {"walk", "write"},
         UNCHANGED <<command, roots, fault, output, exit>>,
         WalkAt(stack', root', overlay'),
         pc' = "write" => stack' = <<>> /\ root' = Len(roots) + 1
  PROVE  IInv'
<1>1. command \in Commands /\ WalkInv /\ exit \in 0 .. 2
  BY DEF IInv, TypeOK
<1>2. WalkInv'
  BY <1>1, WalkStays DEF WalkInv
<1>3. (WalkInv /\ pc \in {"walk", "write"} /\ exit \in 0 .. 2)' => TypeOK'
  BY WalkIsTyped, PTL
<1>4. TypeOK'
  BY <1>1, <1>2, <1>3
<1>5. (pc # "done")' => (OverlayIsTheView /\ OverlayIsOrdered /\ VerdictIsOfTheView)'
  BY NothingSaid, PTL
<1>6. (OverlayIsTheView /\ OverlayIsOrdered /\ VerdictIsOfTheView)'
  BY <1>5
<1> QED
  BY <1>1, <1>2, <1>4, <1>6 DEF IInv

\* A step that ends or goes on with nothing but pc, fault and exit keeps the types.
LEMMA TypeStays ==
  ASSUME TypeOK, UNCHANGED <<command, roots, root, stack, overlay, output>>,
         pc' \in {"arguments", "walk", "write", "done"},
         fault' \in BOOLEAN, exit' \in 0 .. 2
  PROVE  TypeOK'
<1>1. ASSUME NEW k \in DOMAIN stack
      PROVE  (/\ stack[k].index \in 0 .. Len(stack[k].names) + 1
              /\ Range(stack[k].names) \subseteq Entries(stack[k].path))'
  <2>1. /\ stack[k].index \in 0 .. Len(stack[k].names) + 1
        /\ Range(stack[k].names) \subseteq Entries(stack[k].path)
    BY DEF TypeOK
  <2>2. Entries(stack[k].path)' = Entries(stack[k].path)
    BY ViewStays
  <2> QED
    BY <2>1, <2>2
<1>2. /\ command'.usable \in BOOLEAN
      /\ root' \in 1 .. Len(roots') + 1
      /\ \A k \in DOMAIN overlay' : overlay'[k].token \in {"open", "file", "close"}
      /\ output'.state \in {"absent", "torn", "complete"}
  BY DEF TypeOK
<1> QED
  BY <1>1, <1>2 DEF TypeOK

\* A walk that ends before its time.
LEMMA WalkFails ==
  ASSUME IInv, pc = "walk", pc' = "done", exit' = 1,
         UNCHANGED <<command, roots, root, stack, overlay, output>>,
         \/ fault' = TRUE
         \/ fault' = fault /\ \E p \in View : IsUnsupported(p)
  PROVE  IInv'
<1>1. command \in Commands /\ WalkInv /\ TypeOK
  BY DEF IInv
<1>2. TypeOK'
  <2>1. fault' \in BOOLEAN /\ pc' \in {"arguments", "walk", "write", "done"} /\ exit' \in 0 .. 2
    <3>1. fault \in BOOLEAN
      BY <1>1 DEF TypeOK
    <3>2. fault' \in BOOLEAN
      BY <3>1, Zenon
    <3>3. exit' \in 0 .. 2
      OBVIOUS
    <3> QED
      BY <3>2, <3>3
  <2> QED
    BY <1>1, <2>1, TypeStays
<1>3. (exit # 0)' => (OverlayIsTheView /\ OverlayIsOrdered)'
  BY NothingSaid, PTL
<1>4. VerdictIsOfTheView'
  <2>1. output' = NoFile
    BY <1>1 DEF WalkInv
  <2>2. output'.state = "absent"
    BY <2>1 DEF NoFile
  <2>3. CASE fault' = TRUE
    BY <2>3 DEF VerdictIsOfTheView
  <2>4. CASE \E p \in View : IsUnsupported(p)
    <3>1. (\E p \in View : IsUnsupported(p))'
      BY <2>4, ViewStays
    <3> QED
      BY <2>2, <3>1 DEF VerdictIsOfTheView
  <2> QED
    BY <2>3, <2>4
<1> QED
  BY <1>1, <1>2, <1>3, <1>4 DEF IInv

\* The program starts with the invariant.
LEMMA InitInv == Init => IInv
<1> SUFFICES ASSUME Init PROVE IInv
  OBVIOUS
<1>1. command \in Commands /\ command.usable \in BOOLEAN
  BY CommandFacts DEF Init
<1>2. TypeOK
  <2>1. DOMAIN stack = {} /\ DOMAIN overlay = {} /\ root \in 1 .. Len(roots) + 1
    BY DEF Init
  <2>2. pc = "arguments" /\ output.state = "absent" /\ fault = FALSE /\ exit = 0
    BY DEF Init, NoFile
  <2> QED
    <3>1. /\ command.usable \in BOOLEAN
          /\ pc \in {"arguments", "walk", "write", "done"}
          /\ output.state \in {"absent", "torn", "complete"}
          /\ fault \in BOOLEAN
      BY <1>1, <2>2, Zenon
    <3>4. exit \in 0 .. 2
      BY <2>2
    <3>2. \A k \in DOMAIN stack :
            /\ stack[k].index \in 0 .. Len(stack[k].names) + 1
            /\ Range(stack[k].names) \subseteq Entries(stack[k].path)
      BY <2>1
    <3>3. \A k \in DOMAIN overlay : overlay[k].token \in {"open", "file", "close"}
      BY <2>1
    <3> QED
      BY <2>1, <3>1, <3>2, <3>3, <3>4, Zenon DEF TypeOK
<1>3. OverlayIsTheView /\ OverlayIsOrdered /\ VerdictIsOfTheView
  BY NothingSaid DEF Init
<1> QED
  BY <1>1, <1>2, <1>3 DEF Init, IInv

\* The roots are sorted once they are known to be usable.
LEMMA StartInv ==
  ASSUME IInv, Start PROVE IInv'
<1>1. /\ command \in Commands /\ pc = "arguments" /\ command.usable /\ command.roots # <<>>
      /\ root = 1 /\ stack = <<>> /\ overlay = <<>> /\ fault = FALSE /\ output = NoFile
      /\ exit \in 0 .. 2
  BY DEF IInv, Start, TypeOK
<1>2. /\ roots' = SortRoots(command.roots) /\ pc' = "walk" /\ exit' = exit
      /\ UNCHANGED <<command, root, stack, overlay, output, fault>>
  BY DEF Start, Goto
<1>3. RootsOK'
  <2> DEFINE S == Range(command.roots)
             q == Qsort(S, <)
  <2>1. command.roots \in Seq(Nat) /\ \A g \in S : g \in Nat
    BY <1>1, CommandFacts
  <2>2. IsFiniteSet(S) /\ S \in SUBSET Nat
    <3>1. S = {command.roots[i] : i \in 1 .. Len(command.roots)} /\ Len(command.roots) \in Nat
      BY <2>1 DEF Range
    <3>2. IsFiniteSet(1 .. Len(command.roots))
      BY <3>1, FS_Interval
    <3> DEFINE f == [i \in 1 .. Len(command.roots) |-> command.roots[i]]
    <3>3. f \in Surjection(1 .. Len(command.roots), S)
      BY <3>1 DEF Surjection
    <3>4. IsFiniteSet(S)
      BY <3>2, <3>3, FS_Surjection
    <3> QED
      BY <2>1, <3>4
  <2>3. roots' = q
    BY <1>2 DEF SortRoots
  <2> HIDE DEF S
  <2>4. q \in SetToSeqs(S) /\ \A i, j \in DOMAIN q : i < j => q[i] < q[j]
    BY <2>2, QsortOfNumbers
  <2> HIDE DEF q
  <2>5. q \in Seq(S) /\ DOMAIN q = 1 .. Len(q) /\ Range(q) = S
    BY <2>2, <2>4, SeqsOf
  <2>6. q \in Seq(Nat)
    BY <2>2, <2>5, SeqMonotonic
  <2> QED
    BY <1>1, <1>2, <2>3, <2>4, <2>5, <2>6 DEF RootsOK, S
<1>4. WalkAt(<<>>, 1, <<>>)'
  <2>1. RootsOK' => WalkAt(<<>>, 1, <<>>)'
    BY WalkBegins, PTL
  <2> QED
    BY <1>3, <2>1
<1>5. WalkInv'
  BY <1>1, <1>2, <1>3, <1>4 DEF WalkInv
<1>6. TypeOK'
  <2>1. (WalkInv /\ pc \in {"walk", "write"} /\ exit \in 0 .. 2)' => TypeOK'
    BY WalkIsTyped, PTL
  <2> QED
    BY <1>1, <1>2, <1>5, <2>1
<1>7. (OverlayIsTheView /\ OverlayIsOrdered /\ VerdictIsOfTheView)'
  <2>1. (pc # "done")' => (OverlayIsTheView /\ OverlayIsOrdered /\ VerdictIsOfTheView)'
    BY NothingSaid, PTL
  <2> QED
    BY <1>2, <2>1
<1> QED
  BY <1>1, <1>2, <1>5, <1>6, <1>7 DEF IInv

\* A command line that is refused.
LEMMA RefusedInv ==
  ASSUME IInv, UsageError \/ NoRoots PROVE IInv'
<1>1. /\ command \in Commands /\ TypeOK /\ stack = <<>> /\ output = NoFile
      /\ pc = "arguments"
  BY DEF IInv, UsageError, NoRoots
<1>2. /\ pc' = "done" /\ exit' \in {1, 2}
      /\ UNCHANGED <<command, roots, root, stack, overlay, output, fault>>
  BY DEF UsageError, NoRoots, Exit
<1>3. TypeOK'
  <2>1. DOMAIN stack' = {}
    BY <1>1, <1>2
  <2> QED
    BY <1>1, <1>2, <2>1 DEF TypeOK
<1>4. (exit # 0)' => (OverlayIsTheView /\ OverlayIsOrdered)'
  BY NothingSaid, PTL
<1>5. VerdictIsOfTheView'
  <2>1. CASE UsageError
    <3>1. ~ command'.usable
      BY <2>1 DEF UsageError
    <3> QED
      BY <3>1 DEF VerdictIsOfTheView
  <2>2. CASE NoRoots
    <3>1. command'.roots = <<>> /\ exit' = 1 /\ output'.state = "absent"
      BY <1>1, <2>2 DEF NoRoots, Exit, NoFile
    <3> QED
      BY <3>1 DEF VerdictIsOfTheView
  <2> QED
    BY <2>1, <2>2
<1> QED
  BY <1>1, <1>2, <1>3, <1>4, <1>5 DEF IInv

\* render_directory of the next root.
LEMMA WalkRootInv ==
  ASSUME IInv, WalkRoot PROVE IInv'
<1>1. /\ pc = "walk" /\ WalkInv /\ stack = <<>> /\ RootsOK /\ WalkAt(<<>>, root, overlay)
  BY DEF IInv, WalkRoot, WalkInv
<1>2. root \in 1 .. Len(roots)
  BY <1>1 DEF WalkRoot, WalkAt, RootsOK
<1>3. PICK names \in SetToSeqs(Entries(<<roots[root]>>)) :
        stack' = Append(<<>>, [path |-> <<roots[root]>>, names |-> names, index |-> 0])
  BY DEF WalkRoot, Enter
<1>4. command.files[<<roots[root]>>].kind = "directory"
  BY DEF WalkRoot
<1> DEFINE c == [path |-> <<roots[root]>>, names |-> names, index |-> 0]
<1>5. stack' = <<c>>
  <2> HIDE DEF c
  <2>1. \A x : Append(<<>>, x) = <<x>>
    OBVIOUS
  <2> QED
    BY <1>3, <2>1 DEF c
<1>6. WalkAt(<<c>>, root, overlay)
  BY <1>1, <1>2, <1>4, WalkEntersRoot
<1>7. pc' = "walk" /\ UNCHANGED <<command, roots, root, overlay, fault, output, exit>>
  BY <1>1 DEF WalkRoot
<1> HIDE DEF c
<1>8. WalkAt(stack', root', overlay')
  BY <1>5, <1>6, <1>7
<1> QED
  BY <1>1, <1>7, <1>8, WalkGoesOn

\* ci_collect_preferred_entries of a directory with no names it cannot tell apart.
LEMMA CollectEntriesInv ==
  ASSUME IInv, CollectEntries PROVE IInv'
<1> DEFINE top == stack[Len(stack)]
           sorted == SortedEntries(top.names)
           c == [top EXCEPT !.names = collapse_sorted_entries(sorted), !.index = 1]
           t == [token |-> "open", name |-> Last(top.path)]
<1>1. /\ pc = "walk" /\ WalkInv /\ stack # <<>> /\ RootsOK /\ WalkAt(stack, root, overlay)
      /\ StackOK(stack, root)
  BY DEF IInv, CollectEntries, WalkInv, WalkAt
<1>2. Top = top
  BY DEF Top, Last
<1>3. /\ top.index = 0 /\ validate_sorted_entries(sorted)
      /\ stack' = Append(Front(stack), c) /\ overlay' = Append(overlay, t)
      /\ pc' = "walk" /\ UNCHANGED <<command, roots, root, fault, output, exit>>
  BY <1>1, <1>2 DEF CollectEntries
<1>4. CallOK(top) /\ top \in Calls
  BY <1>1, Innermost
<1>5. CallOK(c)
  <2> HIDE DEF top
  <2> QED
    BY <1>1, <1>3, <1>4, NamesCollected
<1>6. c.index = 1 /\ c.path = top.path
  BY <1>4 DEF Calls
<1> HIDE DEF c
<1>7. WalkAt(Append(Front(stack), c), root, Append(overlay, t))
  BY <1>1, <1>3, <1>5, <1>6, WalkCollects
<1> HIDE DEF t
<1>8. WalkAt(stack', root', overlay')
  BY <1>3, <1>7
<1> QED
  BY <1>1, <1>3, <1>8, WalkGoesOn

\* A regular file is added to the overlay.
LEMMA AddFileInv ==
  ASSUME IInv, AddFile PROVE IInv'
<1> DEFINE top == stack[Len(stack)]
           entry == EntryOf(top)
           t == [token |-> "file", name |-> Last(entry), external |-> entry]
<1>1. /\ pc = "walk" /\ WalkInv /\ stack # <<>> /\ RootsOK /\ WalkAt(stack, root, overlay)
  BY DEF IInv, AddFile, AtEntry, WalkInv
<1>2. Top = top /\ EntryPath = entry /\ Advanced = Append(Front(stack), OneOn(top))
  BY DEF Top, Last, EntryPath, EntryOf, Advanced, OneOn
<1>3. /\ top.index \in 1 .. Len(top.names) /\ command.files[entry].kind = "regular"
      /\ stack' = Append(Front(stack), OneOn(top)) /\ overlay' = Append(overlay, t)
      /\ pc' = "walk" /\ UNCHANGED <<command, roots, root, fault, output, exit>>
  BY <1>1, <1>2 DEF AddFile, AtEntry, Entry
<1>4. WalkAt(Append(Front(stack), OneOn(top)), root, Append(overlay, t))
  BY <1>1, <1>3, WalkAddsFile
<1> HIDE DEF t, top
<1>5. WalkAt(stack', root', overlay')
  BY <1>3, <1>4
<1> QED
  BY <1>1, <1>3, <1>5, WalkGoesOn

\* render_directory of an entry that is a directory.
LEMMA EnterDirectoryInv ==
  ASSUME IInv, EnterDirectory PROVE IInv'
<1> DEFINE top == stack[Len(stack)]
           entry == EntryOf(top)
<1>1. /\ pc = "walk" /\ WalkInv /\ stack # <<>> /\ RootsOK /\ WalkAt(stack, root, overlay)
  BY DEF IInv, EnterDirectory, AtEntry, WalkInv
<1>2. Top = top /\ EntryPath = entry /\ Advanced = Append(Front(stack), OneOn(top))
  BY DEF Top, Last, EntryPath, EntryOf, Advanced, OneOn
<1>3. /\ top.index \in 1 .. Len(top.names) /\ command.files[entry].kind = "directory"
      /\ ~ command.files[entry].link
      /\ pc' = "walk" /\ UNCHANGED <<command, roots, root, overlay, fault, output, exit>>
  BY <1>1, <1>2 DEF EnterDirectory, AtEntry, Entry
<1>4. PICK names \in SetToSeqs(Entries(entry)) :
        stack' = Append(Append(Front(stack), OneOn(top)), CallFor(entry, names))
  BY <1>2 DEF EnterDirectory, Enter, CallFor
<1>5. WalkAt(Append(Append(Front(stack), OneOn(top)), CallFor(entry, names)), root, overlay)
  BY <1>1, <1>3, <1>4, WalkEntersDirectory
<1> HIDE DEF entry, top
<1>6. WalkAt(stack', root', overlay')
  BY <1>3, <1>4, <1>5
<1> QED
  BY <1>1, <1>3, <1>6, WalkGoesOn

\* render_directory returns, to its caller or for the next root.
LEMMA CloseDirectoryInv ==
  ASSUME IInv, CloseDirectory PROVE IInv'
<1> DEFINE top == stack[Len(stack)]
           t == [token |-> "close"]
<1>1. /\ pc = "walk" /\ WalkInv /\ stack # <<>> /\ RootsOK /\ WalkAt(stack, root, overlay)
  BY DEF IInv, CloseDirectory, WalkInv
<1>2. Top = top
  BY DEF Top, Last
<1>3. /\ top.index = Len(top.names) + 1
      /\ stack' = Front(stack) /\ overlay' = Append(overlay, t)
      /\ root' = (IF Len(stack) = 1 THEN root + 1 ELSE root)
      /\ pc' = "walk" /\ UNCHANGED <<command, roots, fault, output, exit>>
  BY <1>1, <1>2 DEF CloseDirectory
<1>4. WalkAt(Front(stack), IF Len(stack) = 1 THEN root + 1 ELSE root, Append(overlay, t))
  BY <1>1, <1>3, WalkCloses
<1> HIDE DEF t, top
<1>5. WalkAt(stack', root', overlay')
  BY <1>3, <1>4
<1> QED
  BY <1>1, <1>3, <1>5, WalkGoesOn

\* All roots are walked: nothing of the view is ahead.
LEMMA WalkDoneInv ==
  ASSUME IInv, WalkDone PROVE IInv'
<1>1. /\ pc = "walk" /\ WalkInv /\ RootsOK /\ WalkAt(stack, root, overlay) /\ stack = <<>>
  BY DEF IInv, WalkDone, WalkInv
<1>2. root = Len(roots) + 1
  BY <1>1 DEF WalkDone, WalkAt, RootsOK
<1>3. pc' = "write" /\ UNCHANGED <<command, roots, root, stack, overlay, fault, output, exit>>
  BY DEF WalkDone, Goto
<1>4. WalkAt(stack', root', overlay')
  BY <1>1, <1>3
<1> QED
  BY <1>1, <1>2, <1>3, <1>4, WalkGoesOn

\* The walk is refused for something that the overlay cannot show.
LEMMA RejectInv ==
  ASSUME IInv, RejectRoot \/ RejectAmbiguous \/ RejectEntry PROVE IInv'
<1> DEFINE top == stack[Len(stack)]
<1>1. /\ pc = "walk" /\ WalkInv /\ RootsOK /\ WalkAt(stack, root, overlay)
      /\ StackOK(stack, root) /\ command \in Commands
  BY DEF IInv, RejectRoot, RejectAmbiguous, RejectEntry, AtEntry, WalkInv, WalkAt
<1>2. /\ pc' = "done" /\ exit' = 1
      /\ UNCHANGED <<command, roots, root, stack, overlay, output, fault>>
  BY DEF RejectRoot, RejectAmbiguous, RejectEntry, Exit
<1>3. Top = top
  BY DEF Top, Last
<1>4. ASSUME RejectRoot PROVE \E p \in View : IsUnsupported(p)
  <2>1. root \in 1 .. Len(roots) /\ command.files[<<roots[root]>>].kind # "directory"
    BY <1>1, <1>4 DEF RejectRoot, WalkAt, RootsOK
  <2>2. roots[root] \in Range(command.roots)
    <3>1. Range(roots) = Range(command.roots) /\ root \in DOMAIN roots
      BY <2>1 , <1>1 DEF RootsOK
    <3>2. roots[root] \in Range(roots)
      BY <3>1 DEF Range
    <3> QED
      BY <3>1, <3>2
  <2> DEFINE p == <<roots[root]>>
  <2>3. p \in View /\ Len(p) = 1
    BY <1>1, <2>2, RootsInView
  <2>4. command.files[p].kind \in Kinds /\ command.files[p].kind # "directory"
    BY <1>1, <2>1, <2>3, CommandFacts DEF View
  <2> HIDE DEF p
  <2>5. IsUnsupported(p)
    BY <2>3, <2>4 DEF IsUnsupported, Kinds
  <2> QED
    BY <2>3, <2>5
<1>5. ASSUME RejectAmbiguous PROVE \E p \in View : IsUnsupported(p)
  <2>1. stack # <<>> /\ top.index = 0 /\ ~ validate_sorted_entries(SortedEntries(top.names))
    BY <1>3, <1>5 DEF RejectAmbiguous
  <2>2. CallOK(top) /\ top.path \in View
    BY <1>1, <2>1, Innermost
  <2> HIDE DEF top
  <2>3. command.files[top.path].kind = "directory"
    BY <2>2 DEF CallOK
  <2>4. IsAmbiguous(top.path)
    BY <1>1, <2>1, <2>2, NamesCollected
  <2>5. IsUnsupported(top.path)
    BY <2>3, <2>4 DEF IsUnsupported
  <2> QED
    BY <2>2, <2>5
<1>6. ASSUME RejectEntry PROVE \E p \in View : IsUnsupported(p)
  <2> DEFINE entry == EntryOf(top)
  <2>1. EntryPath = entry
    BY <1>3 DEF EntryPath, EntryOf
  <2>2. /\ stack # <<>> /\ top.index \in 1 .. Len(top.names)
        /\ \/ command.files[entry].kind \in {"missing", "other"}
           \/ command.files[entry].kind = "directory" /\ command.files[entry].link
    BY <1>3, <1>6, <2>1 DEF RejectEntry, AtEntry, Entry
  <2>3. CallOK(top)
    BY <1>1, <2>2, Innermost
  <2> HIDE DEF top
  <2>4. entry \in View /\ Len(entry) = Len(top.path) + 1 /\ Len(top.path) \in Nat \ {0}
    BY <1>1, <2>2, <2>3, EntryInView
  <2>5. Len(entry) > 1
    BY <2>4
  <2> HIDE DEF entry
  <2>6. IsUnsupported(entry)
    BY <2>2, <2>5 DEF IsUnsupported
  <2> QED
    BY <2>4, <2>6
<1>7. \E p \in View : IsUnsupported(p)
  BY <1>4, <1>5, <1>6
<1> QED
  BY <1>1, <1>2, <1>7, WalkFails

\* opendir, readdir, lstat or stat fails, and nothing is written.
LEMMA SystemCallFailsInv ==
  ASSUME IInv, SystemCallFails PROVE IInv'
BY WalkFails DEF SystemCallFails, Exit

\* The overlay is written, or is not.
LEMMA WriteInv ==
  ASSUME IInv, WriteOverlay \/ WriteFails PROVE IInv'
<1>1. /\ pc = "write" /\ WalkInv /\ RootsOK /\ WalkAt(stack, root, overlay)
      /\ stack = <<>> /\ root = Len(roots) + 1 /\ command \in Commands /\ TypeOK
      /\ command.roots # <<>>
  BY DEF IInv, WriteOverlay, WriteFails, WalkInv
<1>2. /\ pc' = "done" /\ exit' \in {0, 1}
      /\ UNCHANGED <<command, roots, root, stack, overlay>>
      /\ output'.state \in {"absent", "torn", "complete"} /\ fault' \in BOOLEAN
  <2>1. fault \in BOOLEAN
    BY <1>1 DEF TypeOK
  <2>2. CASE WriteOverlay
    BY <2>1, <2>2 DEF WriteOverlay, Exit
  <2>3. CASE WriteFails
    BY <2>3 DEF WriteFails, Exit, NoFile
  <2> QED
    BY <2>2, <2>3
<1>3. TypeOK'
  <2>1. DOMAIN stack' = {}
    BY <1>1, <1>2
  <2> QED
    BY <1>1, <1>2, <2>1 DEF TypeOK
<1>4. CASE WriteOverlay
  <2>1. Shown(overlay, {}) /\ Nesting(overlay) = <<>>
    BY <1>1, AllAheadAtFirst DEF WalkAt, Here
  <2>2. output' = [state |-> "complete", overlay |-> overlay] /\ exit' = 0 /\ fault' = fault
    BY <1>4 DEF WriteOverlay, Exit
  <2>3. output'.overlay = overlay /\ output'.state = "complete"
    BY <2>2
  <2>4. Shown(output.overlay, {})' /\ (Nesting(output.overlay) = <<>>)'
    <3>1. \A tokens, ahead : Shown(tokens, ahead)' <=> Shown(tokens, ahead)
      BY <1>2, WalkStays
    <3> QED
      BY <2>1, <2>3, <3>1
  <2>5. (Shown(output.overlay, {}) /\ Nesting(output.overlay) = <<>>)'
          => (OverlayIsTheView /\ OverlayIsOrdered)'
    BY OutputIsTheView, PTL
  <2>6. VerdictIsOfTheView'
    <3>1. \A q \in View : ~ IsUnsupported(q)
      BY <2>1 DEF Shown
    <3>2. ~ (\E p \in View : IsUnsupported(p))'
      BY <1>2, <3>1, ViewStays
    <3>3. command'.roots # <<>>
      BY <1>1, <1>2
    <3> QED
      BY <2>2, <2>3, <3>2, <3>3 DEF VerdictIsOfTheView
  <2> QED
    BY <1>1, <1>2, <1>3, <2>4, <2>5, <2>6 DEF IInv
<1>5. CASE WriteFails
  <2>1. fault' = TRUE /\ exit' = 1
    BY <1>5 DEF WriteFails, Exit
  <2>2. (exit # 0)' => (OverlayIsTheView /\ OverlayIsOrdered)'
    BY NothingSaid, PTL
  <2>3. VerdictIsOfTheView'
    BY <2>1 DEF VerdictIsOfTheView
  <2> QED
    BY <1>1, <1>2, <1>3, <2>1, <2>2, <2>3 DEF IInv
<1> QED
  BY <1>4, <1>5

\* A program that has ended stays as it is.
LEMMA StutterInv ==
  ASSUME IInv, UNCHANGED vars PROVE IInv'
<1>1. /\ UNCHANGED <<command, roots, root, stack, overlay, output>>
      /\ pc' = pc /\ fault' = fault /\ exit' = exit
  BY DEF vars
<1>2. /\ TypeOK /\ OverlayIsTheView /\ OverlayIsOrdered /\ VerdictIsOfTheView
      /\ fault \in BOOLEAN
  BY DEF IInv, TypeOK
<1>3. TypeOK'
  BY <1>1, <1>2, TypeStays DEF TypeOK
<1>4. View' = View /\ \A p : IsUnsupported(p)' <=> IsUnsupported(p)
  BY <1>1, ViewStays
<1>5. \A kind : Viewed(kind)' = Viewed(kind)
  BY <1>1, <1>4 DEF Viewed
<1>6. OverlayIsTheView'
  BY <1>1, <1>2, <1>5 DEF OverlayIsTheView
<1>7. OverlayIsOrdered'
  BY <1>1, <1>2 DEF OverlayIsOrdered
<1>8. VerdictIsOfTheView'
  BY <1>1, <1>2, <1>4 DEF VerdictIsOfTheView
<1>9. WalkInv => WalkInv'
  BY <1>1, WalkStays DEF WalkInv
<1> QED
  BY <1>1, <1>3, <1>6, <1>7, <1>8, <1>9 DEF IInv

\* Every step of main keeps the invariant.
LEMMA StepInv == IInv /\ [Next]_vars => IInv'
<1> SUFFICES ASSUME IInv, [Next]_vars PROVE IInv'
  OBVIOUS
<1>1. CASE UsageError \/ NoRoots
  BY <1>1, RefusedInv
<1>2. CASE Start
  BY <1>2, StartInv
<1>3. CASE WalkRoot
  BY <1>3, WalkRootInv
<1>4. CASE RejectRoot \/ RejectAmbiguous \/ RejectEntry
  BY <1>4, RejectInv
<1>5. CASE SystemCallFails
  BY <1>5, SystemCallFailsInv
<1>6. CASE CollectEntries
  BY <1>6, CollectEntriesInv
<1>7. CASE EnterDirectory
  BY <1>7, EnterDirectoryInv
<1>8. CASE AddFile
  BY <1>8, AddFileInv
<1>9. CASE CloseDirectory
  BY <1>9, CloseDirectoryInv
<1>10. CASE WalkDone
  BY <1>10, WalkDoneInv
<1>11. CASE WriteOverlay \/ WriteFails
  BY <1>11, WriteInv
<1>12. CASE Done \/ UNCHANGED vars
  BY <1>12, StutterInv DEF Done
<1> QED
  BY <1>1, <1>2, <1>3, <1>4, <1>5, <1>6, <1>7, <1>8, <1>9, <1>10, <1>11, <1>12 DEF Next, Main

\* Whatever the command line, the roots, their files, the order of readdir and
\* the failures: the invariant holds throughout.
THEOREM SpecIInv == Spec => []IInv
BY InitInv, StepInv, PTL DEF Spec

\* Every variable has its type, and no loop of render_directory leaves its entries.
THEOREM SpecTypeOK == Spec => []TypeOK
<1>1. IInv => TypeOK
  BY DEF IInv
<1> QED
  BY <1>1, SpecIInv, PTL

\* A run that succeeds has written each file and each directory of the
\* case-insensitive view of its roots, once and at its own path, and nothing else.
THEOREM SpecOverlayIsTheView == Spec => []OverlayIsTheView
<1>1. IInv => OverlayIsTheView
  BY DEF IInv
<1> QED
  BY <1>1, SpecIInv, PTL

\* The overlay is in the order of the folded names, and of the paths of the roots,
\* whatever the order of the options and of readdir.
THEOREM SpecOverlayIsOrdered == Spec => []OverlayIsOrdered
<1>1. IInv => OverlayIsOrdered
  BY DEF IInv
<1> QED
  BY <1>1, SpecIInv, PTL

\* Unless a system call fails, the exit status is decided by what the view has
\* that an overlay cannot show, and a run that fails leaves no file.
THEOREM SpecVerdictIsOfTheView == Spec => []VerdictIsOfTheView
<1>1. IInv => VerdictIsOfTheView
  BY DEF IInv
<1> QED
  BY <1>1, SpecIInv, PTL
==============================================================================
