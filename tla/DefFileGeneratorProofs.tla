------------------------ MODULE DefFileGeneratorProofs ------------------------
(***************************************************************************)
(* What DefFileGenerator's run checks for two generators and a few jobs,    *)
(* proved for any number of generators in one directory, whatever they are  *)
(* given: no .def file comes of bad inputs, and no generator leaves its     *)
(* response file behind in silence.                                         *)
(***************************************************************************)
EXTENDS DefFileGenerator, SequencesExt, SequenceTheorems,
        FiniteSetTheorems, WellFoundedInduction, TLAPS

------------------------------------------------------------------------------
(* What the proofs need of numbers and of folds.  The library's theorems    *)
(* on induction and recursion have an operator for a parameter; those here  *)
(* have a set or a function, which a proof can put in.                      *)

\* A non-empty set of natural numbers has a least element.
LEMMA NatMin ==
  ASSUME NEW T, T \subseteq Nat, T # {}
  PROVE  \E m \in T : \A y \in T : m <= y
<1> DEFINE R == OpToRel(<, Nat)
<1>1. IsWellFoundedOn(R, Nat)
  BY NatLessThanWellFounded, Zenon
<1>2. ASSUME NEW x \in Nat, NEW y \in Nat, y < x
      PROVE  <<y, x>> \in R
  BY <1>2 DEF OpToRel
<1> HIDE DEF R
<1>3. \E x \in T : \A y \in T : ~ (<<y, x>> \in R)
  BY <1>1, WFMin, Zenon
<1>4. PICK m \in T : \A y \in T : ~ (<<y, m>> \in R)
  BY <1>3, Zenon
<1>5. ASSUME NEW y \in T PROVE m <= y
  <2>1. m \in Nat /\ y \in Nat
    OBVIOUS
  <2>2. ~ (y < m)
    BY <1>2, <1>4, <2>1, Zenon
  <2> QED
    BY <2>1, <2>2
<1> QED
  BY <1>4, <1>5

\* Induction up to n: a set with 0, and with k + 1 for each of its k below n,
\* has all numbers up to n.
LEMMA UpTo ==
  ASSUME NEW n \in Nat, NEW T, 0 \in T, \A k \in 0 .. n - 1 : k \in T => k + 1 \in T
  PROVE  0 .. n \subseteq T
<1> DEFINE U == {k \in 0 .. n : k \notin T}
<1> SUFFICES ASSUME U # {} PROVE FALSE
  OBVIOUS
<1>1. U \subseteq Nat
  OBVIOUS
<1>2. PICK m \in U : \A y \in U : m <= y
  BY <1>1, NatMin
<1>3. m # 0 /\ m \in Nat /\ m - 1 \in 0 .. n - 1
  BY <1>2
<1>4. m - 1 \in T
  BY <1>2, <1>3
<1> QED
  BY <1>2, <1>3, <1>4

\* A non-empty set of numbers up to n has a greatest one.
LEMMA MaxOf ==
  ASSUME NEW n \in Nat, NEW S, S \subseteq 0 .. n, S # {}
  PROVE  Max(S) \in S /\ \A y \in S : y <= Max(S)
<1> DEFINE T == {n - y : y \in S}
<1>1. T \subseteq Nat /\ T # {}
  <2>1. \A y \in S : n - y \in Nat
    OBVIOUS
  <2> QED
    BY <2>1
<1>2. PICK m \in T : \A y \in T : m <= y
  BY <1>1, NatMin
<1>3. PICK x \in S : m = n - x
  BY <1>2
<1>4. \A y \in S : x >= y
  <2> TAKE y \in S
  <2>1. n - y \in T
    OBVIOUS
  <2>2. n - x <= n - y
    BY <1>2, <1>3, <2>1
  <2>3. x \in Int /\ y \in Int
    OBVIOUS
  <2> QED
    BY <2>2, <2>3
<1> QED
  BY <1>4 DEF Max

\* A number that is in a set of numbers up to it is the greatest.
LEMMA MaxIs ==
  ASSUME NEW n \in Nat, NEW S, S \subseteq 0 .. n, n \in S
  PROVE  Max(S) = n
<1>1. Max(S) \in S /\ n <= Max(S)
  BY MaxOf
<1>2. Max(S) \in 0 .. n
  BY <1>1
<1> QED
  BY <1>1, <1>2

\* h is the fold from b of the functions G[k], k in 1..n, on the subsets of
\* 1..n; iter is, as far as its values are in V; acc is it on 1..k for each k.
IsFold(h, n, b, G) ==
  \A t \in SUBSET (1 .. n) : h[t] = IF t = {} THEN b ELSE G[Max(t)][h[t \ {Max(t)}]]
FoldsIn(iter, n, V, b, G) ==
  /\ iter[{}] = b
  /\ \A t \in (SUBSET (1 .. n)) \ {{}} :
       iter[t \ {Max(t)}] \in V => iter[t] = G[Max(t)][iter[t \ {Max(t)}]]
AreSteps(acc, n, b, G) ==
  acc[0] = b /\ \A k \in 1 .. n : acc[k] = G[k][acc[k - 1]]

\* The function exists: it is one on the subsets of 1..k for each k.
LEMMA FoldExists ==
  ASSUME NEW n \in Nat, NEW V, NEW b \in V, NEW G \in [1 .. n -> [V -> V]]
  PROVE  \E h \in [SUBSET (1 .. n) -> V] : IsFold(h, n, b, G)
<1> DEFINE Eq(k, h) == \A t \in SUBSET (1 .. k) :
                         h[t] = IF t = {} THEN b ELSE G[Max(t)][h[t \ {Max(t)}]]
           T == {k \in 0 .. n : \E h \in [SUBSET (1 .. k) -> V] : Eq(k, h)}
<1>1. 0 \in T
  <2> DEFINE h == [t \in SUBSET (1 .. 0) |-> b]
  <2>1. 1 .. 0 = {}
    OBVIOUS
  <2>2. h \in [SUBSET (1 .. 0) -> V]
    OBVIOUS
  <2>3. Eq(0, h)
    BY <2>1
  <2> HIDE DEF h, Eq
  <2>4. \E g \in [SUBSET (1 .. 0) -> V] : Eq(0, g)
    BY <2>2, <2>3, Zenon
  <2>5. 0 \in 0 .. n
    OBVIOUS
  <2> QED
    BY <2>4, <2>5, Zenon
<1>2. ASSUME NEW k \in 0 .. n - 1, k \in T PROVE k + 1 \in T
  <2>1. PICK h \in [SUBSET (1 .. k) -> V] : Eq(k, h)
    BY <1>2
  <2>2. /\ k + 1 \in 1 .. n /\ 1 .. k + 1 = (1 .. k) \cup {k + 1} /\ k + 1 \notin 1 .. k
        /\ \A t \in SUBSET (1 .. k + 1) : t \ {k + 1} \in SUBSET (1 .. k)
        /\ \A t \in SUBSET (1 .. k + 1) : k + 1 \notin t => t \in SUBSET (1 .. k)
    OBVIOUS
  <2> DEFINE g == [t \in SUBSET (1 .. k + 1) |->
                     IF k + 1 \in t THEN G[k + 1][h[t \ {k + 1}]] ELSE h[t]]
  <2>3. g \in [SUBSET (1 .. k + 1) -> V]
    BY <2>1, <2>2
  <2>4. ASSUME NEW t \in SUBSET (1 .. k + 1)
        PROVE  g[t] = IF t = {} THEN b ELSE G[Max(t)][g[t \ {Max(t)}]]
    <3>1. CASE t = {}
      BY <2>1, <2>2, <3>1
    <3>2. CASE k + 1 \in t
      <4>1. Max(t) = k + 1
        <5>1. k + 1 \in Nat /\ t \subseteq 0 .. k + 1
          BY <3>2
        <5> QED
          BY <3>2, <5>1, MaxIs
      <4>2. g[t \ {k + 1}] = h[t \ {k + 1}]
        BY <2>2
      <4> QED
        BY <3>2, <4>1, <4>2
    <3>3. CASE t # {} /\ k + 1 \notin t
      <4>1. t \in SUBSET (1 .. k)
        BY <2>2, <3>3
      <4>2. h[t] = G[Max(t)][h[t \ {Max(t)}]]
        BY <2>1, <3>3, <4>1
      <4>3. t \ {Max(t)} \in SUBSET (1 .. k + 1) /\ k + 1 \notin t \ {Max(t)}
        BY <3>3
      <4> QED
        BY <3>3, <4>2, <4>3
    <3> QED
      BY <3>1, <3>2, <3>3
  <2> HIDE DEF g
  <2>5. Eq(k + 1, g)
    BY <2>4
  <2> HIDE DEF Eq
  <2>6. \E f \in [SUBSET (1 .. k + 1) -> V] : Eq(k + 1, f)
    BY <2>3, <2>5, Zenon
  <2>7. k + 1 \in 0 .. n
    OBVIOUS
  <2> QED
    BY <2>6, <2>7, Zenon
<1>3. n \in T
  <2> HIDE DEF T
  <2>1. 0 .. n \subseteq T
    BY <1>1, <1>2, UpTo
  <2> QED
    BY <2>1
<1> QED
  BY <1>3 DEF IsFold

FoldOf(iter, n, V, b, G) ==
  n \in Nat /\ b \in V /\ G \in [1 .. n -> [V -> V]] /\ FoldsIn(iter, n, V, b, G)

\* A fold, step by step: what has come of the first k is one step away from
\* what has come of the first k - 1.
LEMMA FoldSteps ==
  ASSUME NEW n, NEW V, NEW b, NEW G, NEW iter, FoldOf(iter, n, V, b, G)
  PROVE  \E acc \in [0 .. n -> V] : AreSteps(acc, n, b, G) /\ acc[n] = iter[1 .. n]
<1> USE DEF FoldOf, FoldsIn
<1>1. ASSUME NEW k \in 0 .. n - 1, iter[1 .. k] \in V
      PROVE  iter[1 .. k + 1] = G[k + 1][iter[1 .. k]] /\ k + 1 \in 1 .. n
  <2>1. /\ 1 .. k + 1 \in (SUBSET (1 .. n)) \ {{}} /\ k + 1 \in 1 .. k + 1
        /\ (1 .. k + 1) \ {k + 1} = 1 .. k /\ 1 .. k + 1 \subseteq 0 .. k + 1
    OBVIOUS
  <2>2. Max(1 .. k + 1) = k + 1
    BY <2>1, MaxIs
  <2> QED
    BY <1>1, <2>1, <2>2
<1> DEFINE T == {k \in 0 .. n : iter[1 .. k] \in V}
<1>2. 0 .. n \subseteq T
  <2>1. 0 \in T
    BY 1 .. 0 = {}
  <2>2. ASSUME NEW k \in 0 .. n - 1, k \in T PROVE k + 1 \in T
    <3>1. k + 1 \in 1 .. n /\ k + 1 \in 0 .. n
      OBVIOUS
    <3>2. iter[1 .. k + 1] = G[k + 1][iter[1 .. k]] /\ iter[1 .. k] \in V
      BY <1>1, <2>2
    <3>3. iter[1 .. k + 1] \in V
      BY <3>1, <3>2
    <3> QED
      BY <3>1, <3>3
  <2> HIDE DEF T
  <2> QED
    BY <2>1, <2>2, UpTo
<1> DEFINE acc == [k \in 0 .. n |-> iter[1 .. k]]
<1>3. acc \in [0 .. n -> V] /\ acc[n] = iter[1 .. n]
  BY <1>2
<1>4. acc[0] = b
  BY 1 .. 0 = {}
<1>5. ASSUME NEW k \in 1 .. n PROVE acc[k] = G[k][acc[k - 1]]
  <2>1. k - 1 \in 0 .. n - 1 /\ k - 1 \in 0 .. n /\ (k - 1) + 1 = k
    OBVIOUS
  <2>2. iter[1 .. k - 1] \in V
    BY <1>2, <2>1
  <2>3. iter[1 .. k] = G[k][iter[1 .. k - 1]]
    BY <1>1, <2>1, <2>2
  <2> QED
    BY <2>1, <2>3
<1>6. AreSteps(acc, n, b, G)
  BY <1>4, <1>5 DEF AreSteps
<1> HIDE DEF acc
<1> QED
  BY <1>3, <1>6, Zenon

\* Sets that grow step by step have grown by the union of the steps.
LEMMA UnionSteps ==
  ASSUME NEW n \in Nat, NEW R, NEW D, \A k \in 1 .. n : R[k] = R[k - 1] \cup D[k]
  PROVE  \A x : x \in R[n] <=> x \in R[0] \/ \E k \in 1 .. n : x \in D[k]
<1> DEFINE T == {m \in 0 .. n : R[m] = R[0] \cup UNION {D[k] : k \in 1 .. m}}
<1>1. 0 \in T
  BY 1 .. 0 = {}
<1>2. ASSUME NEW m \in 0 .. n - 1, m \in T PROVE m + 1 \in T
  <2>1. /\ m + 1 \in 1 .. n /\ m + 1 \in 0 .. n /\ (m + 1) - 1 = m
        /\ 1 .. m + 1 = (1 .. m) \cup {m + 1}
    OBVIOUS
  <2>2. R[m + 1] = R[m] \cup D[m + 1]
    BY <2>1
  <2>3. R[m] = R[0] \cup UNION {D[k] : k \in 1 .. m}
    BY <1>2
  <2>4. UNION {D[k] : k \in 1 .. m + 1} = (UNION {D[k] : k \in 1 .. m}) \cup D[m + 1]
    BY <2>1
  <2> QED
    BY <2>1, <2>2, <2>3, <2>4
<1>3. n \in T
  <2> HIDE DEF T
  <2>1. 0 .. n \subseteq T
    BY <1>1, <1>2, UpTo
  <2> QED
    BY <2>1
<1> QED
  BY <1>3

\* Two sequences end to end have the elements of both.
LEMMA ConcatRange ==
  ASSUME NEW S, NEW s \in Seq(S), NEW t \in Seq(S)
  PROVE  s \o t \in Seq(S) /\ Range(s \o t) = Range(s) \cup Range(t)
<1>1. /\ s \o t \in Seq(S) /\ DOMAIN (s \o t) = 1 .. Len(s) + Len(t)
      /\ DOMAIN s = 1 .. Len(s) /\ DOMAIN t = 1 .. Len(t) /\ Len(s) \in Nat /\ Len(t) \in Nat
      /\ \A k \in 1 .. Len(s) : (s \o t)[k] = s[k]
      /\ \A k \in 1 .. Len(t) : (s \o t)[Len(s) + k] = t[k]
  OBVIOUS
<1>2. \A k \in 1 .. Len(s) + Len(t) : k \in 1 .. Len(s) \/ k - Len(s) \in 1 .. Len(t)
  BY <1>1
<1>3. \A k \in 1 .. Len(s) + Len(t) : Len(s) + (k - Len(s)) = k
  BY <1>1
<1>4. \A k \in 1 .. Len(t) : Len(s) + k \in 1 .. Len(s) + Len(t)
  BY <1>1
<1>5. \A k \in 1 .. Len(s) : k \in 1 .. Len(s) + Len(t)
  BY <1>1
<1>6. Range(s \o t) \subseteq Range(s) \cup Range(t)
  BY <1>1, <1>2, <1>3 DEF Range
<1>7. Range(s) \subseteq Range(s \o t) /\ Range(t) \subseteq Range(s \o t)
  BY <1>1, <1>4, <1>5 DEF Range
<1> QED
  BY <1>1, <1>6, <1>7

\* The sequences of a sequence end to end have the elements of all of them.
LEMMA FlattenRange ==
  ASSUME NEW S, NEW seqs \in Seq(Seq(S))
  PROVE  /\ FlattenSeq(seqs) \in Seq(S)
         /\ \A x : x \in Range(FlattenSeq(seqs)) <=> \E k \in DOMAIN seqs : x \in Range(seqs[k])
<1> DEFINE n == Len(seqs)
           G == [k \in 1 .. n |-> [s \in Seq(S) |-> s \o seqs[k]]]
<1>1. n \in Nat /\ DOMAIN seqs = 1 .. n /\ \A k \in 1 .. n : seqs[k] \in Seq(S)
  OBVIOUS
<1>2. CASE n = 0
  <2>1. FlattenSeq(seqs) = seqs /\ seqs = <<>> /\ DOMAIN seqs = {}
    BY <1>2 DEF FlattenSeq
  <2> QED
    BY <2>1 DEF Range
<1>3. CASE n # 0
  <2>1. <<>> \in Seq(S) /\ G \in [1 .. n -> [Seq(S) -> Seq(S)]]
    BY <1>1
  <2> HIDE DEF G
  <2>2. n \in Nat
    BY <1>1
  <2>3. PICK acc \in [0 .. n -> Seq(S)] : AreSteps(acc, n, <<>>, G)
    <3> HIDE DEF n
    <3>1. PICK h \in [SUBSET (1 .. n) -> Seq(S)] : IsFold(h, n, <<>>, G)
      BY <2>1, <2>2, FoldExists
    <3>2. FoldOf(h, n, Seq(S), <<>>, G)
      BY <2>1, <2>2, <3>1 DEF IsFold, FoldsIn, FoldOf
    <3> QED
      BY <3>2, FoldSteps, Zenon
  <2>4. \A k \in 1 .. n : acc[k] = acc[k - 1] \o seqs[k] /\ acc[k - 1] \in Seq(S)
    <3> TAKE k \in 1 .. n
    <3>1. k - 1 \in 0 .. n
      BY <1>1
    <3>2. acc[k - 1] \in Seq(S)
      BY <2>3, <3>1
    <3> QED
      BY <2>3, <3>2 DEF G, AreSteps
  <2> DEFINE f == [i \in 1 .. n |-> acc[i]]
  <2>5. f = [i \in 1 .. n |-> IF i = 1 THEN seqs[i] ELSE f[i - 1] \o seqs[i]]
    <3>1. acc[1] = seqs[1]
      <4>1. 1 \in 1 .. n
        BY <1>1, <1>3
      <4>2. acc[1] = acc[1 - 1] \o seqs[1]
        BY <2>4, <4>1, Zenon
      <4>3. 1 - 1 = 0 /\ acc[0] = <<>> /\ seqs[1] \in Seq(S)
        BY <1>1, <2>3, <4>1 DEF AreSteps
      <4>4. <<>> \o seqs[1] = seqs[1]
        BY <4>3
      <4> QED
        BY <4>2, <4>3, <4>4, Zenon
    <3>2. \A i \in 1 .. n : i # 1 => i - 1 \in 1 .. n
      BY <1>1
    <3> QED
      BY <2>4, <3>1, <3>2
  <2> DEFINE fl == CHOOSE fl :
                     fl = [i \in 1 .. n |-> IF i = 1 THEN seqs[i] ELSE fl[i - 1] \o seqs[i]]
  <2>6. fl = [i \in 1 .. n |-> IF i = 1 THEN seqs[i] ELSE fl[i - 1] \o seqs[i]]
    <3> HIDE DEF f, n
    <3> QED
      BY <2>5, Zenon
  <2>7. FlattenSeq(seqs) = fl[n]
    BY <1>3 DEF FlattenSeq
  <2> HIDE DEF fl, f
  <2> DEFINE T == {k \in 0 .. n : k # 0 => /\ fl[k] \in Seq(S)
                                         /\ Range(fl[k]) = UNION {Range(seqs[j]) : j \in 1 .. k}}
  <2>8. 0 \in T
    BY <1>1
  <2>9. ASSUME NEW k \in 0 .. n - 1, k \in T PROVE k + 1 \in T
    <3>1. k + 1 \in 1 .. n /\ k + 1 \in 0 .. n /\ 1 .. k + 1 = (1 .. k) \cup {k + 1}
      BY <1>1
    <3>2. CASE k = 0
      <4>1. fl[1] = seqs[1] /\ k + 1 = 1
        BY <2>6, <3>1, <3>2
      <4>2. 1 .. k + 1 = {1} /\ seqs[1] \in Seq(S)
        BY <1>1, <3>1, <3>2
      <4>3. UNION {Range(seqs[j]) : j \in 1 .. k + 1} = Range(seqs[1])
        <5>1. {Range(seqs[j]) : j \in {1}} = {Range(seqs[1])}
          OBVIOUS
        <5> QED
          BY <4>2, <5>1
      <4> QED
        BY <3>1, <4>1, <4>2, <4>3
    <3>3. CASE k # 0
      <4>1. fl[k] \in Seq(S) /\ Range(fl[k]) = UNION {Range(seqs[j]) : j \in 1 .. k}
        BY <2>9, <3>3
      <4>2. fl[k + 1] = fl[k] \o seqs[k + 1]
        <5>1. k + 1 # 1 /\ (k + 1) - 1 = k
          BY <1>1, <3>3
        <5>2. fl[k + 1] = IF k + 1 = 1 THEN seqs[k + 1] ELSE fl[(k + 1) - 1] \o seqs[k + 1]
          <6> HIDE DEF n
          <6> QED
            BY <2>6, <3>1
        <5> QED
          BY <5>1, <5>2
      <4>3. /\ fl[k + 1] \in Seq(S)
            /\ Range(fl[k + 1]) = Range(fl[k]) \cup Range(seqs[k + 1])
        BY <1>1, <3>1, <4>1, <4>2, ConcatRange
      <4>4. UNION {Range(seqs[j]) : j \in 1 .. k + 1}
              = (UNION {Range(seqs[j]) : j \in 1 .. k}) \cup Range(seqs[k + 1])
        BY <3>1
      <4> QED
        BY <3>1, <4>1, <4>3, <4>4
    <3> QED
      BY <3>2, <3>3
  <2>10. n \in T
    <3> HIDE DEF T
    <3>1. 0 .. n \subseteq T
      BY <1>1, <2>8, <2>9, UpTo
    <3> QED
      BY <1>1, <3>1
  <2> QED
    BY <1>1, <1>3, <2>7, <2>10
<1> QED
  BY <1>2, <1>3

------------------------------------------------------------------------------
\* The variables are functions on the generators.
FunctionsInv ==
  /\ job \in [Generators -> Jobs]
  /\ DOMAIN pc = Generators /\ DOMAIN argument = Generators /\ DOMAIN pending = Generators
  /\ DOMAIN objects = Generators /\ DOMAIN response = Generators /\ DOMAIN child = Generators
  /\ DOMAIN def = Generators /\ DOMAIN faults = Generators /\ DOMAIN exit = Generators

Typed(g) ==
  /\ pc[g] \in Steps
  /\ argument[g] \in Nat \ {0}
  /\ pending[g] \in Seq(Entries)
  /\ objects[g] \in Seq(Objects)

\* A response file that is there belongs to a generator on its way to llvm-nm
\* and back, or to one that says why it has left it.
ResponseInv(g) ==
  /\ response[g].state = "written" =>
       \/ pc[g] \in {"fill", "tool", "wait"}
       \/ /\ pc[g] = "done"
          /\ exit[g] = 2 \/ (exit[g] = 1 /\ "remove" \in faults[g])
  /\ pc[g] = "fill" => response[g].objects = <<>>
  /\ pc[g] \in {"tool", "wait"} => response[g].objects = objects[g]

\* An entry that has been read was accepted, and is remembered if an object.
Kept(g, e) ==
  /\ e.kind # "malformed"
  /\ e.kind = "object" => e.file \in Range(objects[g])

ReadInv(g) ==
  pc[g] # "done" /\ "read" \notin faults[g] =>
    /\ \A k \in DOMAIN job[g] :
         k < argument[g] => \A e \in Range(job[g][k].entries) : Kept(g, e)
    /\ pc[g] = "entries" =>
         /\ argument[g] \in DOMAIN job[g]
         /\ \A e \in Range(job[g][argument[g]].entries) : Kept(g, e) \/ e \in Range(pending[g])

PastArguments(g) == pc[g] \notin {"expand", "entries", "done"} => argument[g] > Len(job[g])

\* llvm-nm that has ended well has read all objects.
ListedInv(g) ==
  /\ pc[g] \in {"expand", "entries", "respond", "fill", "tool"} => child[g] = "none"
  /\ \/ pc[g] = "wait" /\ child[g] = "ok"
     \/ pc[g] = "write"
     => Range(objects[g]) \subseteq DOMAIN ObjectSymbols

DefInv(g) ==
  /\ pc[g] # "done" => def[g].state = "absent"
  /\ def[g].state # "absent" /\ "read" \notin faults[g] =>
       /\ FilesOf(g, "object") \subseteq DOMAIN ObjectSymbols
       /\ \A e \in EntriesOf(g) : e.kind # "malformed"

GInv(g) ==
  Typed(g) /\ ResponseInv(g) /\ ReadInv(g) /\ PastArguments(g) /\ ListedInv(g) /\ DefInv(g)

IInv == FunctionsInv /\ \A g \in Generators : GInv(g)

------------------------------------------------------------------------------
(* A step of a generator, or of its llvm-nm, changes nothing of the others. *)

SameOf(h) ==
  /\ pc'[h] = pc[h] /\ argument'[h] = argument[h] /\ pending'[h] = pending[h]
  /\ objects'[h] = objects[h] /\ response'[h] = response[h] /\ child'[h] = child[h]
  /\ def'[h] = def[h] /\ faults'[h] = faults[h] /\ exit'[h] = exit[h]

LEMMA OthersUnchanged ==
  ASSUME FunctionsInv, NEW g \in Generators, Generator(g) \/ Nm(g)
  PROVE FunctionsInv' /\ job' = job /\ \A h \in Generators \ {g} : SameOf(h)
<1> USE DEF FunctionsInv, SameOf, input, memory, Goto, Exit
<1> USE DEF SetResponse, RemoveResponse, ResponsePath
<1>1. CASE ParametersFail(g)
  BY <1>1 DEF ParametersFail
<1>2. CASE OpenArgument(g)
  BY <1>2 DEF OpenArgument
<1>3. CASE CloseArgument(g)
  BY <1>3 DEF CloseArgument
<1>4. CASE AddObject(g)
  BY <1>4 DEF AddObject
<1>5. CASE MergeDefinitionFile(g)
  BY <1>5 DEF MergeDefinitionFile
<1>6. CASE EntryFails(g)
  BY <1>6 DEF EntryFails
<1>7. CASE ExpandDone(g)
  BY <1>7 DEF ExpandDone
<1>8. CASE OpenResponseFails(g)
  BY <1>8 DEF OpenResponseFails
<1>9. CASE OpenResponse(g)
  BY <1>9 DEF OpenResponse
<1>10. CASE FillResponseFails(g)
  BY <1>10 DEF FillResponseFails
<1>11. CASE FillResponse(g)
  BY <1>11 DEF FillResponse
<1>12. CASE MissingNm(g)
  BY <1>12 DEF MissingNm
<1>13. CASE NmFailsToStart(g)
  BY <1>13 DEF NmFailsToStart
<1>14. CASE StartNm(g)
  BY <1>14 DEF StartNm
<1>15. CASE DiscoverFails(g)
  BY <1>15 DEF DiscoverFails
<1>16. CASE Discover(g)
  BY <1>16 DEF Discover
<1>17. CASE WriteDef(g)
  BY <1>17 DEF WriteDef
<1>18. CASE WriteDefFails(g)
  BY <1>18 DEF WriteDefFails
<1>19. CASE NmEnds(g)
  BY <1>19 DEF NmEnds
<1>20. CASE NmFails(g)
  BY <1>20 DEF NmFails
<1>21. CASE WriteDefTorn(g)
  BY <1>21 DEF WriteDefTorn
<1> QED
  BY <1>1, <1>2, <1>3, <1>4, <1>5, <1>6, <1>7, <1>8, <1>9, <1>10, <1>11, <1>12, <1>13, <1>14,
     <1>15, <1>16, <1>17, <1>18, <1>19, <1>20, <1>21 DEF Generator, Nm

LEMMA SameKeeps == ASSUME NEW g, job' = job, SameOf(g), GInv(g) PROVE GInv(g)'
<1>1. Typed(g)' /\ ResponseInv(g)' /\ PastArguments(g)' /\ ListedInv(g)'
  BY DEF SameOf, GInv, Typed, ResponseInv, PastArguments, ListedInv
<1>2. ReadInv(g)'
  BY DEF SameOf, GInv, ReadInv, Kept
<1>3. DefInv(g)'
  BY DEF SameOf, GInv, DefInv, FilesOf, EntriesOf
<1> QED
  BY <1>1, <1>2, <1>3 DEF GInv

------------------------------------------------------------------------------
(* The steps of one generator.                                              *)

\* After an exit with an error there is no .def file.
LEMMA FailureKeeps ==
  ASSUME FunctionsInv, NEW g \in Generators, GInv(g),
         \/ ParametersFail(g) \/ EntryFails(g) \/ OpenResponseFails(g) \/ FillResponseFails(g)
         \/ MissingNm(g) \/ NmFailsToStart(g) \/ DiscoverFails(g)
  PROVE GInv(g)'
<1>1. /\ job' = job /\ pc[g] # "done" /\ pc'[g] = "done" /\ def'[g] = def[g]
      /\ argument' = argument /\ pending' = pending /\ objects' = objects
  BY DEF FunctionsInv, ParametersFail, EntryFails, OpenResponseFails, FillResponseFails, MissingNm,
         NmFailsToStart, DiscoverFails, Exit, input, memory
<1>2. response[g].state = "written" =>
        \/ response'[g].state = "absent"
        \/ exit'[g] = 2
        \/ exit'[g] = 1 /\ "remove" \in faults'[g]
  <2>1. CASE ParametersFail(g) \/ EntryFails(g) \/ OpenResponseFails(g)
    BY <2>1 DEF GInv, ResponseInv, ParametersFail, EntryFails, OpenResponseFails
  <2>2. CASE MissingNm(g)
    BY <2>2 DEF FunctionsInv, MissingNm, Exit
  <2>3. CASE FillResponseFails(g) \/ NmFailsToStart(g) \/ DiscoverFails(g)
    BY <2>3 DEF FunctionsInv, FillResponseFails, NmFailsToStart, DiscoverFails, Exit,
                RemoveResponse, SetResponse, ResponsePath
  <2> QED
    BY <2>1, <2>2, <2>3
<1>3. response'[g].state = "written" => response[g].state = "written"
  BY DEF FunctionsInv, ParametersFail, EntryFails, OpenResponseFails, FillResponseFails, MissingNm,
         NmFailsToStart, DiscoverFails, RemoveResponse, SetResponse, ResponsePath
<1>4. Typed(g)' /\ ResponseInv(g)'
  BY <1>1, <1>2, <1>3 DEF GInv, Typed, ResponseInv, Steps
<1>5. ReadInv(g)' /\ PastArguments(g)' /\ ListedInv(g)' /\ DefInv(g)'
  BY <1>1 DEF GInv, ReadInv, PastArguments, ListedInv, DefInv
<1> QED
  BY <1>4, <1>5 DEF GInv

LEMMA ResponseKeeps ==
  ASSUME FunctionsInv, NEW g \in Generators, GInv(g),
         \/ OpenResponse(g) \/ FillResponse(g) \/ StartNm(g) \/ NmFails(g) \/ NmEnds(g)
  PROVE GInv(g)'
<1> USE DEF FunctionsInv, SetResponse, ResponsePath, Goto, input, memory
<1>1. /\ job' = job /\ def'[g] = def[g] /\ faults' = faults
      /\ argument' = argument /\ pending' = pending /\ objects' = objects
  BY DEF OpenResponse, FillResponse, StartNm, NmFails, NmEnds
<1>2. pc'[g] = pc[g] \/ (pc[g] \in {"respond", "fill", "tool"}
                               /\ pc'[g] \in {"fill", "tool", "wait"})
  BY DEF OpenResponse, FillResponse, StartNm, NmFails, NmEnds
<1>3. Typed(g)' /\ PastArguments(g)' /\ DefInv(g)'
  BY <1>1, <1>2 DEF GInv, Typed, PastArguments, DefInv, FilesOf, EntriesOf, Steps
<1>4. ReadInv(g)'
  BY <1>1, <1>2 DEF GInv, ReadInv, Kept
<1>5. ResponseInv(g)'
  <2>1. CASE OpenResponse(g)
    BY <2>1 DEF OpenResponse, ResponseInv
  <2>2. CASE FillResponse(g)
    <3>1. response[g].objects \o objects[g] = objects[g]
      BY <2>2 DEF GInv, Typed, ResponseInv, FillResponse
    <3> QED
      BY <1>1, <2>2, <3>1 DEF FillResponse, ResponseInv
  <2>3. CASE StartNm(g)
    BY <1>1, <2>3 DEF GInv, StartNm, ResponseInv
  <2>4. CASE NmFails(g) \/ NmEnds(g)
    BY <1>1, <2>4 DEF GInv, NmFails, NmEnds, ResponseInv
  <2> QED
    BY <2>1, <2>2, <2>3, <2>4
<1>6. ListedInv(g)'
  <2>1. CASE OpenResponse(g) \/ FillResponse(g)
    BY <1>1, <2>1 DEF GInv, OpenResponse, FillResponse, ListedInv
  <2>2. CASE StartNm(g)
    BY <1>1, <2>2 DEF GInv, StartNm, ListedInv
  <2>3. CASE NmFails(g)
    BY <1>1, <2>3 DEF GInv, NmFails, ListedInv
  <2>4. CASE NmEnds(g)
    <3>1. child'[g] = "ok" /\ child[g] = "running" /\ pc'[g] = pc[g]
      BY <2>4 DEF NmEnds
    <3>2. Range(response[g].objects) \subseteq DOMAIN ObjectSymbols
      BY <2>4 DEF NmEnds
    <3> QED
      BY <1>1, <3>1, <3>2 DEF GInv, ListedInv, ResponseInv
  <2> QED
    BY <2>1, <2>2, <2>3, <2>4
<1> QED
  BY <1>3, <1>4, <1>5, <1>6 DEF GInv

LEMMA DiscoverKeeps ==
  ASSUME FunctionsInv, NEW g \in Generators, GInv(g), Discover(g) PROVE GInv(g)'
<1> USE DEF FunctionsInv, SetResponse, ResponsePath, Goto, input
<1>1. /\ job' = job /\ def' = def /\ faults' = faults /\ child' = child
      /\ argument' = argument /\ pending' = pending /\ objects' = objects
      /\ pc[g] = "wait" /\ child[g] = "ok" /\ pc'[g] = "write"
  BY DEF Discover
<1>2. response'[g].state = "absent"
  BY DEF Discover
<1>3. Typed(g)' /\ PastArguments(g)' /\ DefInv(g)' /\ ResponseInv(g)' /\ ListedInv(g)'
  BY <1>1, <1>2
     DEF GInv, Typed, PastArguments, DefInv, FilesOf, EntriesOf, Steps, ResponseInv, ListedInv
<1>4. ReadInv(g)'
  BY <1>1 DEF GInv, ReadInv, Kept
<1> QED
  BY <1>3, <1>4 DEF GInv

\* What has been read to its end is what the .def file is written from.
LEMMA WriteKeeps ==
  ASSUME FunctionsInv, NEW g \in Generators, GInv(g),
         WriteDef(g) \/ WriteDefTorn(g) \/ WriteDefFails(g)
  PROVE GInv(g)'
<1>1. /\ job' = job /\ response' = response /\ child' = child
      /\ faults'[g] = faults[g] \/ (exit'[g] = 0 /\ faults'[g] = faults[g] \cup {"write"})
      /\ argument' = argument /\ pending' = pending /\ objects' = objects
      /\ pc[g] = "write" /\ pc'[g] = "done"
  BY DEF FunctionsInv, WriteDef, WriteDefTorn, WriteDefFails, Exit, input, memory
<1>2. Typed(g)' /\ PastArguments(g)' /\ ResponseInv(g)' /\ ListedInv(g)' /\ ReadInv(g)'
  BY <1>1 DEF GInv, Typed, PastArguments, Steps, ResponseInv, ListedInv, ReadInv
<1>3. DefInv(g)'
  <2> SUFFICES ASSUME "read" \notin faults[g]
               PROVE /\ FilesOf(g, "object") \subseteq DOMAIN ObjectSymbols
                     /\ \A e \in EntriesOf(g) : e.kind # "malformed"
    BY <1>1 DEF DefInv, FilesOf, EntriesOf
  <2>1. job[g] \in Seq(Arguments) /\ argument[g] \in Nat /\ argument[g] > Len(job[g])
    BY <1>1, JobsAssumption DEF FunctionsInv, GInv, Typed, PastArguments
  <2>2. \A k \in DOMAIN job[g] : \A e \in Range(job[g][k].entries) : Kept(g, e)
    BY <1>1, <2>1 DEF GInv, ReadInv
  <2>3. \A e \in EntriesOf(g) : Kept(g, e)
    BY <2>2 DEF EntriesOf
  <2>4. Range(objects[g]) \subseteq DOMAIN ObjectSymbols
    BY <1>1 DEF GInv, ListedInv
  <2> QED
    BY <2>3, <2>4 DEF FilesOf, Kept
<1> QED
  BY <1>2, <1>3 DEF GInv

LEMMA ExpandDoneKeeps ==
  ASSUME FunctionsInv, NEW g \in Generators, GInv(g), ExpandDone(g) PROVE GInv(g)'
<1>1. /\ job' = job /\ response' = response /\ faults' = faults /\ child' = child /\ def' = def
      /\ argument' = argument /\ pending' = pending /\ objects' = objects
      /\ pc[g] = "expand" /\ argument[g] > Len(job[g])
      /\ pc'[g] = IF objects[g] = <<>> THEN "write" ELSE "respond"
  BY DEF FunctionsInv, ExpandDone, Goto, input, memory
<1>2. Typed(g)' /\ PastArguments(g)' /\ ResponseInv(g)' /\ DefInv(g)'
  BY <1>1 DEF GInv, Typed, PastArguments, Steps, ResponseInv, DefInv, FilesOf, EntriesOf
<1>3. ListedInv(g)'
  BY <1>1 DEF GInv, ListedInv, Range
<1>4. ReadInv(g)'
  BY <1>1 DEF GInv, ReadInv, Kept
<1> QED
  BY <1>2, <1>3, <1>4 DEF GInv

LEMMA OpenArgumentKeeps ==
  ASSUME FunctionsInv, NEW g \in Generators, GInv(g), OpenArgument(g) PROVE GInv(g)'
<1>1. /\ job' = job /\ response' = response /\ faults' = faults /\ child' = child /\ def' = def
      /\ argument' = argument /\ objects' = objects
      /\ pending'[g] = job[g][argument[g]].entries
      /\ pc[g] = "expand" /\ pc'[g] = "entries" /\ argument[g] <= Len(job[g])
  BY DEF FunctionsInv, OpenArgument, Goto, input
<1>2. argument[g] \in DOMAIN job[g] /\ job[g][argument[g]] \in Arguments
  BY <1>1, JobsAssumption DEF FunctionsInv, GInv, Typed
<1>3. Typed(g)'
  BY <1>1, <1>2 DEF GInv, Typed, Steps, Arguments
<1>4. PastArguments(g)' /\ ResponseInv(g)' /\ DefInv(g)' /\ ListedInv(g)'
  BY <1>1 DEF GInv, PastArguments, ResponseInv, DefInv, FilesOf, EntriesOf, ListedInv
<1>5. ReadInv(g)'
  BY <1>1, <1>2 DEF GInv, ReadInv, Kept
<1> QED
  BY <1>3, <1>4, <1>5 DEF GInv

LEMMA CloseArgumentKeeps ==
  ASSUME FunctionsInv, NEW g \in Generators, GInv(g), CloseArgument(g) PROVE GInv(g)'
<1>1. /\ job' = job /\ response' = response /\ child' = child /\ def' = def
      /\ argument'[g] = argument[g] + 1 /\ objects' = objects /\ pending'[g] = <<>>
      /\ pc[g] = "entries" /\ pc'[g] = "expand"
  BY DEF FunctionsInv, CloseArgument, Goto, input
<1>2. "read" \notin faults'[g] => pending[g] = <<>> /\ "read" \notin faults[g]
  BY DEF FunctionsInv, CloseArgument
<1>3. \A x : x \in faults[g] => x \in faults'[g]
  BY DEF FunctionsInv, CloseArgument
<1>4. Typed(g)'
  BY <1>1 DEF GInv, Typed, Steps
<1>5. PastArguments(g)' /\ ResponseInv(g)' /\ DefInv(g)' /\ ListedInv(g)'
  BY <1>1 DEF GInv, PastArguments, ResponseInv, DefInv, ListedInv
<1>6. ReadInv(g)'
  <2> SUFFICES ASSUME "read" \notin faults'[g], NEW k \in DOMAIN job[g], k < argument[g] + 1,
                      NEW e \in Range(job[g][k].entries)
               PROVE Kept(g, e)
    BY <1>1 DEF ReadInv, Kept
  <2>1. pending[g] = <<>> /\ "read" \notin faults[g] /\ Range(<<>>) = {}
    BY <1>2 DEF Range
  <2>2. k < argument[g] \/ k = argument[g]
    BY JobsAssumption DEF GInv, Typed, FunctionsInv
  <2> QED
    BY <1>1, <2>1, <2>2 DEF GInv, ReadInv
<1> QED
  BY <1>4, <1>5, <1>6 DEF GInv

LEMMA AppendFact ==
  ASSUME NEW S, NEW s \in Seq(S), NEW x \in S
  PROVE /\ Append(s, x) \in Seq(S)
        /\ Range(s) \subseteq Range(Append(s, x)) /\ x \in Range(Append(s, x))
<1>1. /\ Append(s, x) \in Seq(S) /\ DOMAIN Append(s, x) = 1 .. Len(s) + 1
      /\ DOMAIN s = 1 .. Len(s) /\ Len(s) \in Nat
      /\ \A k \in 1 .. Len(s) : Append(s, x)[k] = s[k]
      /\ Append(s, x)[Len(s) + 1] = x
  OBVIOUS
<1> QED
  BY <1>1 DEF Range

\* The first of the pending entries is taken, or the rest of it is lost.
LEMMA EntryKeeps ==
  ASSUME FunctionsInv, NEW g \in Generators, GInv(g), AddObject(g) \/ MergeDefinitionFile(g)
  PROVE GInv(g)'
<1>0. PICK first : first = Head(pending[g])
  OBVIOUS
<1>1. /\ job' = job /\ response' = response /\ child' = child /\ def' = def
      /\ argument' = argument /\ pending'[g] = Tail(pending[g]) /\ pending[g] # <<>>
      /\ pc[g] = "entries" /\ pc' = pc
      /\ first.kind \in {"object", "definition"}
  BY <1>0 DEF FunctionsInv, AddObject, MergeDefinitionFile, input
<1>2. /\ first.kind = "object" => objects'[g] = Append(objects[g], first.file)
      /\ first.kind = "definition" => objects'[g] = objects[g]
  BY <1>0 DEF FunctionsInv, AddObject, MergeDefinitionFile
<1>3. "read" \in faults[g] => "read" \in faults'[g]
  BY <1>0 DEF FunctionsInv, AddObject, MergeDefinitionFile
<1>4. /\ pending[g] \in Seq(Entries) /\ objects[g] \in Seq(Objects)
      /\ first \in Entries /\ Tail(pending[g]) \in Seq(Entries)
      /\ \A e \in Range(pending[g]) : e = first \/ e \in Range(Tail(pending[g]))
  <2>1. pending[g] \in Seq(Entries) /\ objects[g] \in Seq(Objects)
    BY DEF GInv, Typed
  <2>2. first \in Entries /\ Tail(pending[g]) \in Seq(Entries)
    BY <1>0, <1>1, <2>1
  <2>3. \A k \in DOMAIN pending[g] : k = 1 \/ k - 1 \in DOMAIN Tail(pending[g])
    BY <1>1, <2>1
  <2>4. \A k \in DOMAIN pending[g] :
          k - 1 \in DOMAIN Tail(pending[g]) => Tail(pending[g])[k - 1] = pending[g][k]
    BY <1>1, <2>1
  <2>5. first = pending[g][1]
    BY <1>0, <1>1, <2>1
  <2> QED
    BY <2>1, <2>2, <2>3, <2>4, <2>5 DEF Range
<1>5. first.kind = "object" => first.file \in Objects
  BY <1>4 DEF Entries
<1>6. /\ objects'[g] \in Seq(Objects)
      /\ Range(objects[g]) \subseteq Range(objects'[g])
      /\ first.kind = "object" => first.file \in Range(objects'[g])
  <2>1. CASE first.kind = "object"
    BY <1>2, <1>4, <1>5, <2>1, AppendFact
  <2>2. CASE first.kind = "definition"
    BY <1>2, <1>4, <2>2
  <2> QED
    BY <1>1, <2>1, <2>2
<1>7. Typed(g)'
  BY <1>1, <1>4, <1>6 DEF GInv, Typed
<1>8. PastArguments(g)' /\ ResponseInv(g)' /\ DefInv(g)' /\ ListedInv(g)'
  BY <1>1 DEF GInv, PastArguments, ResponseInv, DefInv, ListedInv
<1>9. \A e : Kept(g, e) => Kept(g, e)'
  BY <1>6 DEF Kept
<1>10. Kept(g, first)'
  BY <1>1, <1>6 DEF Kept
<1>11. ReadInv(g)'
  BY <1>1, <1>3, <1>4, <1>9, <1>10 DEF GInv, ReadInv
<1> QED
  BY <1>7, <1>8, <1>11 DEF GInv

------------------------------------------------------------------------------
(* The theorems.                                                            *)

LEMMA InitIInv == Init => IInv
<1> SUFFICES ASSUME Init PROVE IInv
  OBVIOUS
<1>1. FunctionsInv
  BY DEF Init, FunctionsInv
<1>2. ASSUME NEW g \in Generators PROVE GInv(g)
  <2>1. /\ pc[g] = "expand" /\ argument[g] = 1 /\ pending[g] = <<>> /\ objects[g] = <<>>
        /\ child[g] = "none" /\ def[g].state = "absent"
    BY DEF Init, NoDef
  <2>2. response[g].state # "written"
    BY DEF Init, NoFile
  <2>3. Typed(g) /\ ResponseInv(g) /\ PastArguments(g) /\ ListedInv(g) /\ DefInv(g)
    BY <2>1, <2>2 DEF Typed, Steps, ResponseInv, PastArguments, ListedInv, DefInv
  <2>4. ReadInv(g)
    BY <1>1, <2>1, JobsAssumption DEF ReadInv, FunctionsInv
  <2> QED
    BY <2>3, <2>4 DEF GInv
<1> QED
  BY <1>1, <1>2 DEF IInv

LEMMA NextKeeps == IInv /\ [Next]_vars => IInv'
<1> SUFFICES ASSUME IInv, [Next]_vars PROVE IInv'
  OBVIOUS
<1>1. ASSUME NEW g \in Generators, Generator(g) \/ Nm(g) PROVE IInv'
  <2>1. FunctionsInv' /\ job' = job /\ \A h \in Generators \ {g} : SameOf(h)
    BY <1>1, OthersUnchanged DEF IInv
  <2>2. GInv(g)'
    BY <1>1, FailureKeeps, ResponseKeeps, DiscoverKeeps, WriteKeeps, ExpandDoneKeeps,
       OpenArgumentKeeps, CloseArgumentKeeps, EntryKeeps DEF IInv, Generator, Nm
  <2>3. \A h \in Generators \ {g} : GInv(h)'
    BY <2>1, SameKeeps DEF IInv
  <2> QED
    BY <2>1, <2>2, <2>3 DEF IInv
<1>2. CASE UNCHANGED vars
  <2>1. FunctionsInv' /\ job' = job /\ \A h \in Generators : SameOf(h)
    BY <1>2 DEF IInv, FunctionsInv, SameOf, vars, input, memory
  <2> QED
    BY <2>1, SameKeeps DEF IInv
<1> QED
  BY <1>1, <1>2 DEF Next, Done

\* The inductive invariant: what each generator has read, and where its
\* response file stands.
THEOREM Invariant == Spec => []IInv
BY InitIInv, NextKeeps, PTL DEF Spec

\* No .def file comes of bad inputs, for any number of generators in the
\* directory and any arguments.
THEOREM SpecNoDefOfBadInputs == Spec => []NoDefOfBadInputs
<1>1. IInv => NoDefOfBadInputs
  BY DEF IInv, GInv, DefInv, NoDefOfBadInputs
<1> HIDE DEF IInv, NoDefOfBadInputs
<1> QED
  BY <1>1, Invariant, PTL

\* No generator leaves its response file behind in silence.
THEOREM SpecResponseIsRemoved == Spec => []ResponseIsRemoved
<1>1. IInv => ResponseIsRemoved
  BY DEF IInv, GInv, ResponseInv, ResponseIsRemoved
<1> HIDE DEF IInv, ResponseIsRemoved
<1> QED
  BY <1>1, Invariant, PTL

------------------------------------------------------------------------------
(* The string sets: what inserting, a definition file and a listing add.    *)

SetsOf == [data : IncreasingSeqs, plain : IncreasingSeqs]
SetOf(s, isData) == IF isData THEN Range(s.data) ELSE Range(s.plain)
LineExports(line, isData) ==
  IF line.kind = (IF isData THEN "data" ELSE "plain") THEN {line.name} \ {0} ELSE {}
SymbolExports(symbol, isData) ==
  IF IsExport(symbol) /\ (symbol.type \in DataTypes <=> isData)
  THEN {Undecorated[symbol.name]} \ {0} ELSE {}

\* An insertion adds the value, and the values stay sorted.
LEMMA InsertAdds ==
  ASSUME NEW set \in IncreasingSeqs, NEW value \in Names
  PROVE  /\ string_set_insert(set, value) \in IncreasingSeqs
         /\ Range(string_set_insert(set, value)) = Range(set) \cup {value}
<1>1. /\ set \in Seq(Names) /\ Len(set) \in Nat /\ DOMAIN set = 1 .. Len(set)
      /\ \A i \in 1 .. Len(set) : set[i] \in Names /\ set[i] \in Nat
      /\ \A i \in 1 .. Len(set) - 1 : set[i] < set[i + 1]
      /\ value \in Nat
  <2>1. set \in Seq(Names) /\ \A i \in 1 .. Len(set) - 1 : set[i] < set[i + 1]
    BY DEF IncreasingSeqs
  <2>2. Names \subseteq Nat
    BY NamesAssumption
  <2>3. /\ Len(set) \in Nat /\ DOMAIN set = 1 .. Len(set)
        /\ \A i \in 1 .. Len(set) : set[i] \in Names
    BY <2>1
  <2> QED
    BY <2>1, <2>2, <2>3
<1> DEFINE P == {k \in 0 .. Len(set) : \A i \in 1 .. k : set[i] < value}
           position == Max(P)
<1>2. position \in P /\ \A k \in P : k <= position
  <2>1. P \subseteq 0 .. Len(set) /\ 0 \in P
    BY <1>1
  <2> HIDE DEF P
  <2> QED
    BY <1>1, <2>1, MaxOf
<1> HIDE DEF position
<1>3. /\ position \in 0 .. Len(set) /\ \A i \in 1 .. position : set[i] < value
      /\ position < Len(set) => ~ (set[position + 1] < value)
  <2>1. ASSUME position < Len(set), set[position + 1] < value PROVE FALSE
    <3>1. position + 1 \in 0 .. Len(set)
      BY <1>1, <1>2, <2>1
    <3>2. \A i \in 1 .. position + 1 : i \in 1 .. position \/ i = position + 1
      BY <1>2
    <3>3. position + 1 \in P
      BY <1>2, <2>1, <3>1, <3>2
    <3> QED
      BY <1>2, <3>3
  <2> QED
    BY <1>2, <2>1
<1> DEFINE u == InsertAt(set, position + 1, value)
<1>4. string_set_insert(set, value)
        = IF position < Len(set) /\ set[position + 1] = value THEN set ELSE u
  BY DEF string_set_insert, position
<1>5. CASE position < Len(set) /\ set[position + 1] = value
  <2>1. string_set_insert(set, value) = set
    BY <1>4, <1>5
  <2>2. position + 1 \in DOMAIN set /\ set[position + 1] = value
    BY <1>1, <1>3, <1>5
  <2>3. value \in Range(set)
    BY <2>2 DEF Range
  <2> QED
    BY <2>1, <2>3
<1>6. CASE ~ (position < Len(set) /\ set[position + 1] = value)
  <2>1. position < Len(set) => value < set[position + 1]
    BY <1>1, <1>3, <1>6
  <2>2. /\ u \in Seq(Names) /\ Len(u) = Len(set) + 1 /\ DOMAIN u = 1 .. Len(set) + 1
        /\ \A i \in 1 .. position : u[i] = set[i]
        /\ u[position + 1] = value
        /\ \A i \in position + 2 .. Len(set) + 1 : u[i] = set[i - 1]
    <3> DEFINE a == SubSeq(set, 1, position)
               c == SubSeq(set, position + 1, Len(set))
    <3>1. /\ a \in Seq(Names) /\ Len(a) = position
          /\ \A i \in 1 .. position : a[i] = set[i]
      BY <1>1, <1>3
    <3>2. /\ c \in Seq(Names) /\ Len(c) = Len(set) - position
          /\ \A i \in 1 .. Len(set) - position : c[i] = set[position + i]
      <4>1. /\ position + 1 \in Int /\ Len(set) \in Int
            /\ Len(set) - (position + 1) + 1 = Len(set) - position
            /\ position + 1 <= Len(set) \/ Len(set) - position = 0
        <5>1. position \in Int /\ Len(set) \in Int /\ position <= Len(set)
          BY <1>1, <1>3
        <5> QED
          BY <5>1
      <4>2. \A k \in position + 1 .. Len(set) : set[k] \in Names
        BY <1>1, <1>3
      <4>3. /\ c \in Seq(Names)
            /\ Len(c) = IF position + 1 <= Len(set) THEN Len(set) - (position + 1) + 1 ELSE 0
            /\ \A i \in 1 .. Len(set) - (position + 1) + 1 : c[i] = set[(position + 1) + i - 1]
        BY <4>1, <4>2, SubSeqProperties
      <4>4. \A i \in 1 .. Len(set) - position : (position + 1) + i - 1 = position + i
        BY <1>3
      <4> QED
        BY <4>1, <4>3, <4>4
    <3>3. u = a \o <<value>> \o c
      <4>1. (position + 1) - 1 = position
        BY <1>3
      <4> QED
        BY <4>1 DEF InsertAt
    <3> HIDE DEF a, c, u
    <3> DEFINE d == a \o <<value>>
    <3>4. /\ d \in Seq(Names) /\ Len(d) = position + 1
          /\ \A i \in 1 .. position : d[i] = a[i]
          /\ d[position + 1] = value
      BY <1>3, <3>1
    <3>5. u = d \o c
      BY <3>3
    <3> HIDE DEF d
    <3>6. /\ u \in Seq(Names) /\ Len(u) = Len(d) + Len(c) /\ DOMAIN u = 1 .. Len(d) + Len(c)
          /\ \A i \in 1 .. Len(d) : u[i] = d[i]
          /\ \A i \in 1 .. Len(c) : u[Len(d) + i] = c[i]
      <4>1. c \in Seq(Names) /\ d \in Seq(Names)
        BY <3>2, <3>4
      <4> QED
        BY <3>5, <4>1
    <3>7. Len(d) + Len(c) = Len(set) + 1
      BY <1>1, <1>3, <3>2, <3>4
    <3>8. ASSUME NEW i \in position + 2 .. Len(set) + 1 PROVE u[i] = set[i - 1]
      <4>1. /\ i - (position + 1) \in 1 .. Len(c) /\ i - (position + 1) \in 1 .. Len(set) - position
            /\ Len(d) + (i - (position + 1)) = i
            /\ position + (i - (position + 1)) = i - 1
        BY <1>1, <1>3, <3>2, <3>4
      <4> QED
        BY <3>2, <3>6, <4>1
    <3>9. \A i \in 1 .. position : i \in 1 .. Len(d)
      BY <1>3, <3>4
    <3>10. position + 1 \in 1 .. Len(d)
      BY <1>3, <3>4
    <3> QED
      BY <3>1, <3>4, <3>6, <3>7, <3>8, <3>9, <3>10
  <2> HIDE DEF u
  <2>3. ASSUME NEW i \in 1 .. Len(u) - 1 PROVE u[i] < u[i + 1]
    <3>0. i \in Int /\ position \in Int
      BY <1>3, <2>2
    <3>1. CASE i < position
      <4>1. i \in 1 .. position /\ i + 1 \in 1 .. position /\ i \in 1 .. Len(set) - 1
        BY <1>1, <1>3, <3>0, <3>1
      <4> QED
        BY <1>1, <2>2, <4>1
    <3>2. CASE i = position
      <4>1. i \in 1 .. position
        BY <1>3, <3>2
      <4> QED
        BY <1>3, <2>2, <3>2, <4>1
    <3>3. CASE i = position + 1
      <4>1. position < Len(set) /\ i + 1 \in position + 2 .. Len(set) + 1
            /\ (i + 1) - 1 = position + 1
        BY <1>1, <1>3, <2>2, <3>3
      <4> QED
        BY <2>1, <2>2, <3>3, <4>1
    <3>4. CASE i > position + 1
      <4>1. /\ i \in position + 2 .. Len(set) + 1 /\ i + 1 \in position + 2 .. Len(set) + 1
            /\ i - 1 \in 1 .. Len(set) - 1 /\ (i + 1) - 1 = (i - 1) + 1
        BY <1>1, <1>3, <2>2, <3>0, <3>4
      <4>2. u[i] = set[i - 1] /\ u[i + 1] = set[(i - 1) + 1]
        BY <2>2, <4>1
      <4> QED
        BY <1>1, <4>1, <4>2
    <3> QED
      BY <3>0, <3>1, <3>2, <3>3, <3>4
  <2>4. u \in IncreasingSeqs
    BY <2>2, <2>3 DEF IncreasingSeqs
  <2>5. \A i \in 1 .. Len(set) : \E j \in DOMAIN u : u[j] = set[i]
    <3> TAKE i \in 1 .. Len(set)
    <3>1. CASE i <= position
      <4>1. i \in 1 .. position /\ i \in DOMAIN u
        BY <1>1, <1>3, <2>2, <3>1
      <4> QED
        BY <2>2, <4>1
    <3>2. CASE i > position
      <4>1. i + 1 \in position + 2 .. Len(set) + 1 /\ i + 1 \in DOMAIN u /\ (i + 1) - 1 = i
        BY <1>1, <1>3, <2>2, <3>2
      <4> QED
        BY <2>2, <4>1
    <3> QED
      BY <1>3, <3>1, <3>2
  <2>6. \A j \in DOMAIN u : u[j] = value \/ \E i \in 1 .. Len(set) : u[j] = set[i]
    <3> TAKE j \in DOMAIN u
    <3>1. CASE j <= position
      <4>1. j \in 1 .. position /\ j \in 1 .. Len(set)
        BY <1>1, <1>3, <2>2, <3>1
      <4> QED
        BY <2>2, <4>1
    <3>2. CASE j = position + 1
      BY <2>2, <3>2
    <3>3. CASE j > position + 1
      <4>1. j \in position + 2 .. Len(set) + 1 /\ j - 1 \in 1 .. Len(set)
        BY <1>1, <1>3, <2>2, <3>3
      <4> QED
        BY <2>2, <4>1
    <3> QED
      BY <1>3, <2>2, <3>1, <3>2, <3>3
  <2>7. position + 1 \in DOMAIN u /\ u[position + 1] = value
    BY <1>1, <1>3, <2>2
  <2>8. Range(u) = Range(set) \cup {value}
    BY <1>1, <2>5, <2>6, <2>7 DEF Range
  <2> QED
    BY <1>4, <1>6, <2>4, <2>8
<1> QED
  BY <1>5, <1>6

LEMMA DataInserted ==
  ASSUME NEW s \in SetsOf, NEW value \in Names, NEW r,
         r = [s EXCEPT !.data = string_set_insert(s.data, value)]
  PROVE  /\ r \in SetsOf
         /\ SetOf(r, TRUE) = SetOf(s, TRUE) \cup {value} /\ SetOf(r, FALSE) = SetOf(s, FALSE)
<1>1. s.data \in IncreasingSeqs /\ s.plain \in IncreasingSeqs
  BY DEF SetsOf
<1>2. PICK u : u = string_set_insert(s.data, value)
  OBVIOUS
<1>3. u \in IncreasingSeqs /\ Range(u) = Range(s.data) \cup {value}
  BY <1>1, <1>2, InsertAdds
<1>4. r = [s EXCEPT !.data = u]
  BY <1>2
<1>5. r \in SetsOf /\ r.data = u /\ r.plain = s.plain
  BY <1>1, <1>3, <1>4 DEF SetsOf
<1> QED
  BY <1>3, <1>5 DEF SetOf

LEMMA PlainInserted ==
  ASSUME NEW s \in SetsOf, NEW value \in Names, NEW r,
         r = [s EXCEPT !.plain = string_set_insert(s.plain, value)]
  PROVE  /\ r \in SetsOf
         /\ SetOf(r, FALSE) = SetOf(s, FALSE) \cup {value} /\ SetOf(r, TRUE) = SetOf(s, TRUE)
<1>1. s.data \in IncreasingSeqs /\ s.plain \in IncreasingSeqs
  BY DEF SetsOf
<1>2. PICK u : u = string_set_insert(s.plain, value)
  OBVIOUS
<1>3. u \in IncreasingSeqs /\ Range(u) = Range(s.plain) \cup {value}
  BY <1>1, <1>2, InsertAdds
<1>4. r = [s EXCEPT !.plain = u]
  BY <1>2
<1>5. r \in SetsOf /\ r.plain = u /\ r.data = s.data
  BY <1>1, <1>3, <1>4 DEF SetsOf
<1> QED
  BY <1>3, <1>5 DEF SetOf

\* A line of a definition file adds its name, an nm symbol that of an export.
LEMMA MergeLineAdds ==
  ASSUME NEW s \in SetsOf, NEW line \in Lines
  PROVE  /\ MergeLine(s, line) \in SetsOf
         /\ SetOf(MergeLine(s, line), TRUE) = SetOf(s, TRUE) \cup LineExports(line, TRUE)
         /\ SetOf(MergeLine(s, line), FALSE) = SetOf(s, FALSE) \cup LineExports(line, FALSE)
<1>1. /\ line.name \in Names
      /\ line.kind \in {"header", "data", "plain"} /\ (line.kind = "data" => line.name # 0)
  BY DEF Lines
<1>2. CASE line.kind = "data"
  <2>1. PICK r : r = MergeLine(s, line)
    OBVIOUS
  <2>2. r = [s EXCEPT !.data = string_set_insert(s.data, line.name)]
    BY <1>2, <2>1 DEF MergeLine
  <2>3. LineExports(line, TRUE) = {line.name} /\ LineExports(line, FALSE) = {}
    BY <1>1, <1>2 DEF LineExports
  <2>4. /\ r \in SetsOf
        /\ SetOf(r, TRUE) = SetOf(s, TRUE) \cup {line.name} /\ SetOf(r, FALSE) = SetOf(s, FALSE)
    BY <1>1, <2>2, DataInserted
  <2> QED
    BY <2>1, <2>3, <2>4, Zenon
<1>3. CASE line.kind = "plain" /\ line.name # 0
  <2>1. PICK r : r = MergeLine(s, line)
    OBVIOUS
  <2>2. r = [s EXCEPT !.plain = string_set_insert(s.plain, line.name)]
    BY <1>3, <2>1 DEF MergeLine
  <2>3. LineExports(line, FALSE) = {line.name} /\ LineExports(line, TRUE) = {}
    BY <1>1, <1>3 DEF LineExports
  <2>4. /\ r \in SetsOf
        /\ SetOf(r, FALSE) = SetOf(s, FALSE) \cup {line.name} /\ SetOf(r, TRUE) = SetOf(s, TRUE)
    BY <1>1, <2>2, PlainInserted
  <2> QED
    BY <2>1, <2>3, <2>4, Zenon
<1>4. CASE line.kind # "data" /\ ~ (line.kind = "plain" /\ line.name # 0)
  <2>1. PICK r : r = MergeLine(s, line)
    OBVIOUS
  <2>2. r = s
    BY <1>4, <2>1 DEF MergeLine
  <2>3. LineExports(line, FALSE) = {} /\ LineExports(line, TRUE) = {}
    BY <1>1, <1>4 DEF LineExports
  <2> QED
    BY <1>1, <2>1, <2>2, <2>3
<1> QED
  BY <1>2, <1>3, <1>4

LEMMA SymbolAdds ==
  ASSUME NEW s \in SetsOf, NEW symbol \in NmSymbols
  PROVE  /\ add_nm_symbol(s, symbol) \in SetsOf
         /\ SetOf(add_nm_symbol(s, symbol), TRUE) = SetOf(s, TRUE) \cup SymbolExports(symbol, TRUE)
         /\ SetOf(add_nm_symbol(s, symbol), FALSE)
              = SetOf(s, FALSE) \cup SymbolExports(symbol, FALSE)
<1> DEFINE name == Undecorated[symbol.name]
<1>1. /\ name \in Names
      /\ IsExport(symbol) => name # 0
  BY NamesAssumption DEF NmSymbols, IsExport
<1> HIDE DEF name
<1>2. CASE ~ IsExport(symbol)
  <2>1. PICK r : r = add_nm_symbol(s, symbol)
    OBVIOUS
  <2>2. r = s
    BY <1>2, <2>1 DEF add_nm_symbol
  <2>3. SymbolExports(symbol, TRUE) = {} /\ SymbolExports(symbol, FALSE) = {}
    BY <1>2 DEF SymbolExports
  <2> QED
    BY <1>1, <2>1, <2>2, <2>3
<1>3. CASE IsExport(symbol) /\ symbol.type \in DataTypes
  <2>1. PICK r : r = add_nm_symbol(s, symbol)
    OBVIOUS
  <2>2. r = [s EXCEPT !.data = string_set_insert(s.data, name)]
    BY <1>3, <2>1 DEF add_nm_symbol, name
  <2>3. SymbolExports(symbol, TRUE) = {name} /\ SymbolExports(symbol, FALSE) = {}
    BY <1>1, <1>3 DEF SymbolExports, name
  <2>4. /\ r \in SetsOf
        /\ SetOf(r, TRUE) = SetOf(s, TRUE) \cup {name} /\ SetOf(r, FALSE) = SetOf(s, FALSE)
    BY <1>1, <2>2, DataInserted
  <2> QED
    BY <2>1, <2>3, <2>4, Zenon
<1>4. CASE IsExport(symbol) /\ symbol.type \notin DataTypes
  <2>1. PICK r : r = add_nm_symbol(s, symbol)
    OBVIOUS
  <2>2. r = [s EXCEPT !.plain = string_set_insert(s.plain, name)]
    BY <1>4, <2>1 DEF add_nm_symbol, name
  <2>3. SymbolExports(symbol, FALSE) = {name} /\ SymbolExports(symbol, TRUE) = {}
    BY <1>1, <1>4 DEF SymbolExports, name
  <2>4. /\ r \in SetsOf
        /\ SetOf(r, FALSE) = SetOf(s, FALSE) \cup {name} /\ SetOf(r, TRUE) = SetOf(s, TRUE)
    BY <1>1, <2>2, PlainInserted
  <2> QED
    BY <2>1, <2>3, <2>4, Zenon
<1> QED
  BY <1>2, <1>3, <1>4

\* Merging lines adds the exports of all of them, in whatever order they come.
LEMMA MergeAdds ==
  ASSUME NEW s \in SetsOf, NEW lines \in Seq(Lines), NEW isData \in BOOLEAN
  PROVE  /\ FoldLeft(MergeLine, s, lines) \in SetsOf
         /\ SetOf(FoldLeft(MergeLine, s, lines), isData)
              = SetOf(s, isData) \cup UNION {LineExports(lines[k], isData) : k \in DOMAIN lines}
<1> DEFINE n == Len(lines)
           G == [k \in 1 .. n |-> [x \in SetsOf |-> MergeLine(x, lines[k])]]
<1>1. n \in Nat /\ DOMAIN lines = 1 .. n /\ \A k \in 1 .. n : lines[k] \in Lines
  OBVIOUS
<1> HIDE DEF n
<1>2. G \in [1 .. n -> [SetsOf -> SetsOf]]
  <2> SUFFICES ASSUME NEW k \in 1 .. n, NEW x \in SetsOf PROVE MergeLine(x, lines[k]) \in SetsOf
    OBVIOUS
  <2> QED
    BY <1>1, MergeLineAdds
<1>3. \A k \in 1 .. n : \A x \in SetsOf : G[k][x] = MergeLine(x, lines[k])
  OBVIOUS
<1> HIDE DEF G
<1> DEFINE Eq(h) == h = [t \in SUBSET DOMAIN lines |->
                           IF t = {} THEN s ELSE MergeLine(h[t \ {Max(t)}], lines[Max(t)])]
           iter == CHOOSE h : Eq(h)
<1>4. FoldLeft(MergeLine, s, lines) = iter[DOMAIN lines]
  BY DEF FoldLeft, MapThenFoldSet
<1>5. ASSUME NEW t \in SUBSET (1 .. n), t # {} PROVE Max(t) \in 1 .. n
  <2>1. t \subseteq 0 .. n
    BY <1>5
  <2> QED
    BY <1>1, <1>5, <2>1, MaxOf
<1>6. Eq(iter)
  <2>1. PICK h \in [SUBSET (1 .. n) -> SetsOf] : IsFold(h, n, s, G)
    BY <1>1, <1>2, FoldExists
  <2>2. ASSUME NEW t \in SUBSET (1 .. n)
        PROVE  h[t] = IF t = {} THEN s ELSE MergeLine(h[t \ {Max(t)}], lines[Max(t)])
    <3>1. h[t] = IF t = {} THEN s ELSE G[Max(t)][h[t \ {Max(t)}]]
      BY <2>1 DEF IsFold
    <3> QED
      BY <1>3, <1>5, <2>1, <3>1
  <2>3. Eq(h)
    BY <1>1, <2>1, <2>2
  <2> HIDE DEF Eq
  <2> QED
    BY <2>3
<1>7. FoldsIn(iter, n, SetsOf, s, G)
  <2>1. ASSUME NEW t \in SUBSET (1 .. n)
        PROVE  iter[t] = IF t = {} THEN s ELSE MergeLine(iter[t \ {Max(t)}], lines[Max(t)])
    <3> HIDE DEF iter
    <3> QED
      BY <1>1, <1>6
  <2> HIDE DEF iter, Eq
  <2> QED
    BY <1>3, <1>5, <2>1 DEF FoldsIn
<1> HIDE DEF iter, Eq
<1>8. PICK acc \in [0 .. n -> SetsOf] : AreSteps(acc, n, s, G) /\ acc[n] = iter[1 .. n]
  <2>1. FoldOf(iter, n, SetsOf, s, G)
    BY <1>1, <1>2, <1>7 DEF FoldOf
  <2> QED
    BY <2>1, FoldSteps, SMT
<1>9. \A k \in 1 .. n : acc[k] = MergeLine(acc[k - 1], lines[k]) /\ acc[k - 1] \in SetsOf
  <2> TAKE k \in 1 .. n
  <2>1. k - 1 \in 0 .. n
    BY <1>1
  <2>2. acc[k - 1] \in SetsOf /\ acc[k] = G[k][acc[k - 1]]
    BY <1>8, <2>1 DEF AreSteps
  <2> QED
    BY <1>3, <2>2
<1> DEFINE R == [k \in 0 .. n |-> SetOf(acc[k], isData)]
           D == [k \in 1 .. n |-> LineExports(lines[k], isData)]
<1>10. \A k \in 1 .. n : R[k] = R[k - 1] \cup D[k]
  <2> TAKE k \in 1 .. n
  <2>1. k - 1 \in 0 .. n /\ k \in 0 .. n
    BY <1>1
  <2>2. SetOf(acc[k], isData) = SetOf(acc[k - 1], isData) \cup LineExports(lines[k], isData)
    <3>1. CASE isData = TRUE
      BY <1>1, <1>9, <3>1, MergeLineAdds
    <3>2. CASE isData = FALSE
      BY <1>1, <1>9, <3>2, MergeLineAdds
    <3> QED
      BY <3>1, <3>2
  <2> QED
    BY <2>1, <2>2
<1>11. \A x : x \in R[n] <=> x \in R[0] \/ \E k \in 1 .. n : x \in D[k]
  <2> HIDE DEF R, D
  <2> QED
    BY <1>1, <1>10, UnionSteps, Zenon
<1>12. 0 \in 0 .. n /\ n \in 0 .. n /\ acc[0] = s
  BY <1>1, <1>8 DEF AreSteps
<1>13. \A k \in 1 .. n : D[k] = LineExports(lines[k], isData)
  OBVIOUS
<1>14. FoldLeft(MergeLine, s, lines) = acc[n]
  BY <1>1, <1>4, <1>8
<1>15. R[0] = SetOf(s, isData) /\ R[n] = SetOf(acc[n], isData)
  BY <1>12
<1> HIDE DEF R, D
<1> QED
  BY <1>1, <1>8, <1>11, <1>12, <1>13, <1>14, <1>15

\* A listing adds those of all its symbols.
LEMMA ListingAdds ==
  ASSUME NEW s \in SetsOf, NEW symbols \in Seq(NmSymbols), NEW isData \in BOOLEAN
  PROVE  /\ FoldLeft(add_nm_symbol, s, symbols) \in SetsOf
         /\ SetOf(FoldLeft(add_nm_symbol, s, symbols), isData)
              = SetOf(s, isData)
                  \cup UNION {SymbolExports(symbols[k], isData) : k \in DOMAIN symbols}
<1> DEFINE n == Len(symbols)
           G == [k \in 1 .. n |-> [x \in SetsOf |-> add_nm_symbol(x, symbols[k])]]
<1>1. n \in Nat /\ DOMAIN symbols = 1 .. n /\ \A k \in 1 .. n : symbols[k] \in NmSymbols
  OBVIOUS
<1> HIDE DEF n
<1>2. G \in [1 .. n -> [SetsOf -> SetsOf]]
  <2> SUFFICES ASSUME NEW k \in 1 .. n, NEW x \in SetsOf
               PROVE  add_nm_symbol(x, symbols[k]) \in SetsOf
    OBVIOUS
  <2> QED
    BY <1>1, SymbolAdds
<1>3. \A k \in 1 .. n : \A x \in SetsOf : G[k][x] = add_nm_symbol(x, symbols[k])
  OBVIOUS
<1> HIDE DEF G
<1> DEFINE Eq(h) == h = [t \in SUBSET DOMAIN symbols |->
                           IF t = {} THEN s ELSE add_nm_symbol(h[t \ {Max(t)}], symbols[Max(t)])]
           iter == CHOOSE h : Eq(h)
<1>4. FoldLeft(add_nm_symbol, s, symbols) = iter[DOMAIN symbols]
  BY DEF FoldLeft, MapThenFoldSet
<1>5. ASSUME NEW t \in SUBSET (1 .. n), t # {} PROVE Max(t) \in 1 .. n
  <2>1. t \subseteq 0 .. n
    BY <1>5
  <2> QED
    BY <1>1, <1>5, <2>1, MaxOf
<1>6. Eq(iter)
  <2>1. PICK h \in [SUBSET (1 .. n) -> SetsOf] : IsFold(h, n, s, G)
    BY <1>1, <1>2, FoldExists
  <2>2. ASSUME NEW t \in SUBSET (1 .. n)
        PROVE  h[t] = IF t = {} THEN s ELSE add_nm_symbol(h[t \ {Max(t)}], symbols[Max(t)])
    <3>1. h[t] = IF t = {} THEN s ELSE G[Max(t)][h[t \ {Max(t)}]]
      BY <2>1 DEF IsFold
    <3> QED
      BY <1>3, <1>5, <2>1, <3>1
  <2>3. Eq(h)
    BY <1>1, <2>1, <2>2
  <2> HIDE DEF Eq
  <2> QED
    BY <2>3
<1>7. FoldsIn(iter, n, SetsOf, s, G)
  <2>1. ASSUME NEW t \in SUBSET (1 .. n)
        PROVE  iter[t] = IF t = {} THEN s ELSE add_nm_symbol(iter[t \ {Max(t)}], symbols[Max(t)])
    <3> HIDE DEF iter
    <3> QED
      BY <1>1, <1>6
  <2> HIDE DEF iter, Eq
  <2> QED
    BY <1>3, <1>5, <2>1 DEF FoldsIn
<1> HIDE DEF iter, Eq
<1>8. PICK acc \in [0 .. n -> SetsOf] : AreSteps(acc, n, s, G) /\ acc[n] = iter[1 .. n]
  <2>1. FoldOf(iter, n, SetsOf, s, G)
    BY <1>1, <1>2, <1>7 DEF FoldOf
  <2> QED
    BY <2>1, FoldSteps, SMT
<1>9. \A k \in 1 .. n : acc[k] = add_nm_symbol(acc[k - 1], symbols[k]) /\ acc[k - 1] \in SetsOf
  <2> TAKE k \in 1 .. n
  <2>1. k - 1 \in 0 .. n
    BY <1>1
  <2>2. acc[k - 1] \in SetsOf /\ acc[k] = G[k][acc[k - 1]]
    BY <1>8, <2>1 DEF AreSteps
  <2> QED
    BY <1>3, <2>2
<1> DEFINE R == [k \in 0 .. n |-> SetOf(acc[k], isData)]
           D == [k \in 1 .. n |-> SymbolExports(symbols[k], isData)]
<1>10. \A k \in 1 .. n : R[k] = R[k - 1] \cup D[k]
  <2> TAKE k \in 1 .. n
  <2>1. k - 1 \in 0 .. n /\ k \in 0 .. n
    BY <1>1
  <2>2. SetOf(acc[k], isData) = SetOf(acc[k - 1], isData) \cup SymbolExports(symbols[k], isData)
    <3>1. CASE isData = TRUE
      BY <1>1, <1>9, <3>1, SymbolAdds
    <3>2. CASE isData = FALSE
      BY <1>1, <1>9, <3>2, SymbolAdds
    <3> QED
      BY <3>1, <3>2
  <2> QED
    BY <2>1, <2>2
<1>11. \A x : x \in R[n] <=> x \in R[0] \/ \E k \in 1 .. n : x \in D[k]
  <2> HIDE DEF R, D
  <2> QED
    BY <1>1, <1>10, UnionSteps, Zenon
<1>12. 0 \in 0 .. n /\ n \in 0 .. n /\ acc[0] = s
  BY <1>1, <1>8 DEF AreSteps
<1>13. \A k \in 1 .. n : D[k] = SymbolExports(symbols[k], isData)
  OBVIOUS
<1>14. FoldLeft(add_nm_symbol, s, symbols) = acc[n]
  BY <1>1, <1>4, <1>8
<1>15. R[0] = SetOf(s, isData) /\ R[n] = SetOf(acc[n], isData)
  BY <1>12
<1> HIDE DEF R, D
<1> QED
  BY <1>1, <1>8, <1>11, <1>12, <1>13, <1>14, <1>15

------------------------------------------------------------------------------
(* The second inductive invariant: what a generator has collected is what   *)
(* its arguments hold, no more and no less.                                 *)

ExportFunctions ==
  /\ DOMAIN sets = Generators /\ DOMAIN listing = Generators /\ nmIsSet \in BOOLEAN
  /\ pc = [g \in Generators |-> pc[g]]

ExportTyped(g) ==
  /\ argument[g] <= Len(job[g]) + 1
  /\ pc[g] = "entries" => argument[g] <= Len(job[g])
  /\ sets[g] \in SetsOf
  /\ response[g].state \in {"absent", "stale", "written"}
  /\ response[g].objects \in Seq(Objects)
  /\ child[g] \in {"none", "running", "ok", "failed"}
  /\ def[g].state \in {"absent", "torn", "complete"}
  /\ faults[g] \subseteq {"read", "remove", "write"}
  /\ exit[g] \in 0..2

\* Nothing has come from elsewhere, not from what another generator listed.
TakenInv(g) ==
  /\ pc[g] = "entries" => Range(pending[g]) \subseteq EntriesOf(g)
  /\ Range(objects[g]) \subseteq FilesOf(g, "object")
  /\ SetOf(sets[g], TRUE) \subseteq ExportsOf(g, TRUE)
  /\ SetOf(sets[g], FALSE) \subseteq ExportsOf(g, FALSE)

\* A definition file that has been read is in the string sets.
Merged(g, e) ==
  e.kind = "definition" =>
    \A line \in Range(DefinitionLines[e.file]) :
      /\ LineExports(line, TRUE) \subseteq SetOf(sets[g], TRUE)
      /\ LineExports(line, FALSE) \subseteq SetOf(sets[g], FALSE)

MergedInv(g) ==
  pc[g] # "done" /\ "read" \notin faults[g] =>
    /\ \A k \in DOMAIN job[g] :
         k < argument[g] => \A e \in Range(job[g][k].entries) : Merged(g, e)
    /\ pc[g] = "entries" =>
         \A e \in Range(job[g][argument[g]].entries) : Merged(g, e) \/ e \in Range(pending[g])

SymbolsOfObjects(g) == UNION {Range(ObjectSymbols[o]) : o \in Range(objects[g])}

\* What llvm-nm has listed is what is in the objects of its generator, and
\* once it has been read it is in the string sets.
ListingInv(g) ==
  pc[g] = "wait" /\ child[g] = "ok" =>
    listing[g] \in Seq(NmSymbols) /\ Range(listing[g]) = SymbolsOfObjects(g)

DiscoveredInv(g) ==
  pc[g] = "write" =>
    \A symbol \in SymbolsOfObjects(g) :
      /\ SymbolExports(symbol, TRUE) \subseteq SetOf(sets[g], TRUE)
      /\ SymbolExports(symbol, FALSE) \subseteq SetOf(sets[g], FALSE)

ExactInv(g) ==
  pc[g] = "done" /\ exit[g] = 0 /\ faults[g] \cap {"read", "write"} = {} =>
    /\ def[g].state = "complete"
    /\ Lists(def[g].data, ExportsOf(g, TRUE))
    /\ Lists(def[g].plain, ExportsOf(g, FALSE))

EInv(g) ==
  /\ ExportTyped(g) /\ TakenInv(g) /\ MergedInv(g)
  /\ ListingInv(g) /\ DiscoveredInv(g) /\ ExactInv(g)

ExportsInv == ExportFunctions /\ \A g \in Generators : EInv(g)

\* The exports of a generator, by the lines and the symbols they come from.
LEMMA ExportsAre ==
  ASSUME NEW g \in Generators, NEW isData \in BOOLEAN, FunctionsInv
  PROVE  ExportsOf(g, isData) = (UNION {LineExports(line, isData) : line \in LinesOf(g)})
                                \cup UNION {SymbolExports(symbol, isData) : symbol \in SymbolsOf(g)}
<1>1. CASE isData = TRUE
  BY <1>1 DEF ExportsOf, LineExports, SymbolExports
<1>2. CASE isData = FALSE
  BY <1>2 DEF ExportsOf, LineExports, SymbolExports
<1> QED
  BY <1>1, <1>2

------------------------------------------------------------------------------
(* The others again.                                                        *)

ExportSameOf(h) == sets'[h] = sets[h] /\ listing'[h] = listing[h]

LEMMA OtherExportsUnchanged ==
  ASSUME ExportFunctions, NEW g \in Generators, Generator(g) \/ Nm(g)
  PROVE  ExportFunctions' /\ \A h \in Generators \ {g} : ExportSameOf(h)
<1>1. /\ nmIsSet' = nmIsSet
      /\ sets' = sets \/ \E u : sets' = [sets EXCEPT ![g] = u]
      /\ listing' = listing \/ \E u : listing' = [listing EXCEPT ![g] = u]
  <2> USE DEF input, memory
  <2>1. CASE \/ ParametersFail(g) \/ EntryFails(g) \/ OpenResponseFails(g)
             \/ FillResponseFails(g) \/ MissingNm(g) \/ NmFailsToStart(g) \/ DiscoverFails(g)
    BY <2>1 DEF ParametersFail, EntryFails, OpenResponseFails, FillResponseFails, MissingNm,
                NmFailsToStart, DiscoverFails
  <2>2. CASE OpenArgument(g) \/ CloseArgument(g) \/ AddObject(g) \/ ExpandDone(g)
    BY <2>2 DEF OpenArgument, CloseArgument, AddObject, ExpandDone
  <2>3. CASE MergeDefinitionFile(g) \/ Discover(g)
    BY <2>3 DEF MergeDefinitionFile, Discover
  <2>4. CASE \/ OpenResponse(g) \/ FillResponse(g) \/ StartNm(g) \/ WriteDef(g)
             \/ WriteDefTorn(g) \/ WriteDefFails(g) \/ NmFails(g)
    BY <2>4 DEF OpenResponse, FillResponse, StartNm, WriteDef, WriteDefTorn, WriteDefFails,
                NmFails
  <2>5. CASE NmEnds(g)
    BY <2>5 DEF NmEnds
  <2> QED
    BY <2>1, <2>2, <2>3, <2>4, <2>5 DEF Generator, Nm
<1>2. pc' = pc \/ \E u : pc' = [pc EXCEPT ![g] = u]
  <2> USE DEF Goto, Exit
  <2>1. CASE \/ ParametersFail(g) \/ EntryFails(g) \/ OpenResponseFails(g)
             \/ FillResponseFails(g) \/ MissingNm(g) \/ NmFailsToStart(g) \/ DiscoverFails(g)
    BY <2>1 DEF ParametersFail, EntryFails, OpenResponseFails, FillResponseFails, MissingNm,
                NmFailsToStart, DiscoverFails
  <2>2. CASE OpenArgument(g) \/ CloseArgument(g) \/ AddObject(g) \/ ExpandDone(g)
    BY <2>2 DEF OpenArgument, CloseArgument, AddObject, ExpandDone
  <2>3. CASE MergeDefinitionFile(g) \/ Discover(g)
    BY <2>3 DEF MergeDefinitionFile, Discover
  <2>4. CASE \/ OpenResponse(g) \/ FillResponse(g) \/ StartNm(g) \/ WriteDef(g)
             \/ WriteDefTorn(g) \/ WriteDefFails(g) \/ NmFails(g)
    BY <2>4 DEF OpenResponse, FillResponse, StartNm, WriteDef, WriteDefTorn, WriteDefFails,
                NmFails
  <2>5. CASE NmEnds(g)
    BY <2>5 DEF NmEnds
  <2> QED
    BY <2>1, <2>2, <2>3, <2>4, <2>5 DEF Generator, Nm
<1>3. DOMAIN sets' = Generators /\ \A h \in Generators \ {g} : sets'[h] = sets[h]
  BY <1>1 DEF ExportFunctions
<1>4. DOMAIN listing' = Generators /\ \A h \in Generators \ {g} : listing'[h] = listing[h]
  BY <1>1 DEF ExportFunctions
<1>5. pc' = [h \in Generators |-> pc'[h]]
  BY <1>2 DEF ExportFunctions
<1> QED
  BY <1>1, <1>3, <1>4, <1>5 DEF ExportFunctions, ExportSameOf

LEMMA ExportSameKeeps ==
  ASSUME NEW g, job' = job, SameOf(g), ExportSameOf(g), EInv(g) PROVE EInv(g)'
<1> USE DEF SameOf, ExportSameOf
<1>1. ExportTyped(g)'
  BY DEF EInv, ExportTyped
<1>2. /\ EntriesOf(g)' = EntriesOf(g)
      /\ ExportsOf(g, TRUE)' = ExportsOf(g, TRUE) /\ ExportsOf(g, FALSE)' = ExportsOf(g, FALSE)
  BY DEF EntriesOf, ExportsOf, LinesOf, SymbolsOf, FilesOf
<1>3. FilesOf(g, "object")' = FilesOf(g, "object")
  BY <1>2 DEF FilesOf
<1>4. TakenInv(g)' /\ ExactInv(g)'
  BY <1>2, <1>3 DEF EInv, TakenInv, ExactInv
<1>5. MergedInv(g)' /\ ListingInv(g)' /\ DiscoveredInv(g)'
  BY DEF EInv, MergedInv, Merged, ListingInv, DiscoveredInv, SymbolsOfObjects
<1> QED
  BY <1>1, <1>4, <1>5 DEF EInv

\* The inputs of a generator, and what is to come of them, never change.
LEMMA SameExports ==
  ASSUME NEW g, job' = job
  PROVE  /\ EntriesOf(g)' = EntriesOf(g) /\ FilesOf(g, "object")' = FilesOf(g, "object")
         /\ ExportsOf(g, TRUE)' = ExportsOf(g, TRUE) /\ ExportsOf(g, FALSE)' = ExportsOf(g, FALSE)
BY DEF EntriesOf, ExportsOf, LinesOf, SymbolsOf, FilesOf

LEMMA FailureKeepsExports ==
  ASSUME FunctionsInv, ExportFunctions, NEW g \in Generators, GInv(g), EInv(g),
         \/ ParametersFail(g) \/ EntryFails(g) \/ OpenResponseFails(g) \/ FillResponseFails(g)
         \/ MissingNm(g) \/ NmFailsToStart(g) \/ DiscoverFails(g)
  PROVE EInv(g)'
<1>1. /\ job' = job /\ pc'[g] = "done" /\ def' = def /\ child' = child /\ sets' = sets
      /\ argument' = argument /\ pending' = pending /\ objects' = objects /\ listing' = listing
      /\ exit'[g] \in {1, 2}
  BY DEF FunctionsInv, ParametersFail, EntryFails, OpenResponseFails, FillResponseFails, MissingNm,
         NmFailsToStart, DiscoverFails, Exit, input, memory
<1>2. \/ response'[g] = response[g] /\ faults'[g] \subseteq faults[g] \cup {"remove"}
      \/ /\ response'[g].state = "absent" /\ response'[g].objects = <<>>
         /\ faults'[g] = faults[g]
  BY DEF FunctionsInv, ParametersFail, EntryFails, OpenResponseFails, FillResponseFails, MissingNm,
         NmFailsToStart, DiscoverFails, RemoveResponse, SetResponse, ResponsePath
<1>3. ExportTyped(g)'
  <2>1. /\ argument'[g] <= Len(job'[g]) + 1 /\ pc'[g] # "entries" /\ sets'[g] \in SetsOf
        /\ child'[g] \in {"none", "running", "ok", "failed"}
        /\ def'[g].state \in {"absent", "torn", "complete"}
    BY <1>1 DEF EInv, ExportTyped
  <2>2. /\ response'[g].state \in {"absent", "stale", "written"}
        /\ response'[g].objects \in Seq(Objects)
        /\ faults'[g] \subseteq {"read", "remove", "write"}
    <3>1. /\ response[g].state \in {"absent", "stale", "written"}
          /\ response[g].objects \in Seq(Objects)
          /\ faults[g] \subseteq {"read", "remove", "write"}
      BY DEF EInv, ExportTyped
    <3>2. CASE response'[g] = response[g] /\ faults'[g] \subseteq faults[g] \cup {"remove"}
      BY <3>1, <3>2
    <3>3. CASE /\ response'[g].state = "absent" /\ response'[g].objects = <<>>
               /\ faults'[g] = faults[g]
      BY <3>1, <3>3
    <3> QED
      BY <1>2, <3>2, <3>3
  <2>3. exit'[g] \in 0..2
    BY <1>1
  <2> QED
    BY <2>1, <2>2, <2>3 DEF ExportTyped
<1>4. TakenInv(g)'
  BY <1>1, SameExports DEF EInv, TakenInv
<1>5. MergedInv(g)' /\ ListingInv(g)' /\ DiscoveredInv(g)' /\ ExactInv(g)'
  <2>1. pc'[g] = "done" /\ exit'[g] # 0
    BY <1>1
  <2>2. MergedInv(g)'
    BY <2>1, Zenon DEF MergedInv
  <2> QED
    BY <2>1, <2>2 DEF ListingInv, DiscoveredInv, ExactInv
<1> QED
  BY <1>3, <1>4, <1>5 DEF EInv

\* The steps on the way to llvm-nm and its failure.
LEMMA ResponseKeepsExports ==
  ASSUME FunctionsInv, ExportFunctions, NEW g \in Generators, GInv(g), EInv(g),
         OpenResponse(g) \/ FillResponse(g) \/ StartNm(g) \/ NmFails(g)
  PROVE EInv(g)'
<1> USE DEF FunctionsInv, SetResponse, ResponsePath, Goto, input, memory
<1>1. /\ job' = job /\ def' = def /\ faults' = faults /\ exit' = exit /\ sets' = sets
      /\ argument' = argument /\ pending' = pending /\ objects' = objects /\ listing' = listing
  BY DEF OpenResponse, FillResponse, StartNm, NmFails
<1>2. /\ pc'[g] = pc[g] \/ pc'[g] \in {"fill", "tool", "wait"}
      /\ child'[g] = child[g] \/ child'[g] \in {"running", "failed"}
      /\ child'[g] = child[g] \/ pc'[g] # "wait" \/ child'[g] # "ok"
      /\ pc'[g] = "wait" /\ child'[g] = "ok" => pc[g] = "wait" /\ child[g] = "ok"
  BY DEF OpenResponse, FillResponse, StartNm, NmFails, GInv, ListedInv
<1>3. response'[g].state \in {"absent", "stale", "written"} /\ response'[g].objects \in Seq(Objects)
  <2>1. CASE OpenResponse(g)
    BY <2>1 DEF OpenResponse
  <2>2. CASE FillResponse(g)
    <3>1. /\ response'[g].state = "written"
          /\ response'[g].objects = response[g].objects \o objects[g]
      BY <2>2 DEF FillResponse
    <3>2. response[g].objects \in Seq(Objects) /\ objects[g] \in Seq(Objects)
      BY DEF EInv, ExportTyped, GInv, Typed
    <3> QED
      BY <3>1, <3>2, ConcatRange
  <2>3. CASE StartNm(g) \/ NmFails(g)
    BY <2>3 DEF StartNm, NmFails, EInv, ExportTyped
  <2> QED
    BY <2>1, <2>2, <2>3
<1>4. ExportTyped(g)'
  BY <1>1, <1>2, <1>3 DEF EInv, ExportTyped
<1>5. TakenInv(g)' /\ ExactInv(g)'
  BY <1>1, <1>2, SameExports DEF EInv, TakenInv, ExactInv
<1>6. MergedInv(g)'
  <2>1. pc'[g] # "done" => pc[g] # "done"
    BY DEF OpenResponse, FillResponse, StartNm, NmFails
  <2>2. pc'[g] = "entries" => pc[g] = "entries"
    BY <1>2
  <2> QED
    BY <1>1, <2>1, <2>2 DEF EInv, MergedInv, Merged
<1>7. ListingInv(g)' /\ DiscoveredInv(g)'
  BY <1>1, <1>2 DEF EInv, ListingInv, DiscoveredInv, SymbolsOfObjects
<1> QED
  BY <1>4, <1>5, <1>6, <1>7 DEF EInv

\* llvm-nm lists the symbols of the objects in the response file, which are
\* those of the generator that waits for it.
LEMMA NmEndsKeepsExports ==
  ASSUME FunctionsInv, ExportFunctions, NEW g \in Generators, GInv(g), EInv(g), NmEnds(g)
  PROVE EInv(g)'
<1> USE DEF FunctionsInv, ResponsePath, input, memory
<1>1. /\ job' = job /\ def' = def /\ faults' = faults /\ exit' = exit /\ sets' = sets /\ pc' = pc
      /\ argument' = argument /\ pending' = pending /\ objects' = objects /\ response' = response
      /\ child'[g] = "ok"
  BY DEF NmEnds
<1>2. ExportTyped(g)'
  BY <1>1 DEF EInv, ExportTyped
<1>3. TakenInv(g)' /\ ExactInv(g)'
  BY <1>1, SameExports DEF EInv, TakenInv, ExactInv
<1>4. MergedInv(g)' /\ DiscoveredInv(g)'
  BY <1>1 DEF EInv, MergedInv, Merged, DiscoveredInv, SymbolsOfObjects
<1>5. ListingInv(g)'
  <2> SUFFICES ASSUME pc[g] = "wait"
               PROVE  /\ listing'[g] \in Seq(NmSymbols)
                      /\ Range(listing'[g]) = SymbolsOfObjects(g)
    BY <1>1 DEF ListingInv, SymbolsOfObjects
  <2>1. PICK names : names = objects[g]
    OBVIOUS
  <2>2. /\ names \in Seq(Objects) /\ Range(names) \subseteq DOMAIN ObjectSymbols
        /\ listing'[g] = FlattenSeq([k \in DOMAIN names |-> ObjectSymbols[names[k]]])
    BY <2>1 DEF NmEnds, GInv, Typed, ResponseInv, ExportFunctions
  <2>3. PICK lists : lists = [k \in DOMAIN names |-> ObjectSymbols[names[k]]]
    OBVIOUS
  <2>4. \A k \in DOMAIN names : names[k] \in DOMAIN ObjectSymbols
    BY <2>2 DEF Range
  <2>5. /\ lists \in Seq(Seq(NmSymbols)) /\ DOMAIN lists = DOMAIN names
        /\ \A k \in DOMAIN names : lists[k] = ObjectSymbols[names[k]]
    <3>1. DOMAIN names = 1 .. Len(names) /\ Len(names) \in Nat
      BY <2>2
    <3>2. \A k \in 1 .. Len(names) : ObjectSymbols[names[k]] \in Seq(NmSymbols)
      BY <2>4, <3>1, FilesAssumption
    <3> QED
      BY <2>3, <3>1, <3>2
  <2>6. PICK all : all = listing'[g]
    OBVIOUS
  <2>7. all = FlattenSeq(lists)
    BY <2>2, <2>3, <2>6
  <2>8. /\ all \in Seq(NmSymbols)
        /\ \A y : y \in Range(all) <=> \E k \in DOMAIN lists : y \in Range(lists[k])
    BY <2>5, <2>7, FlattenRange
  <2>9. \A y : y \in Range(all) <=> \E o \in Range(names) : y \in Range(ObjectSymbols[o])
    <3>1. \A o : o \in Range(names) <=> \E k \in DOMAIN names : o = names[k]
      BY DEF Range
    <3>2. \A y : (\E k \in DOMAIN names : y \in Range(ObjectSymbols[names[k]]))
                 <=> \E o \in Range(names) : y \in Range(ObjectSymbols[o])
      BY <3>1, Zenon
    <3> QED
      BY <2>5, <2>8, <3>2
  <2>10. Range(all) = UNION {Range(ObjectSymbols[o]) : o \in Range(names)}
    BY <2>9
  <2> QED
    BY <2>1, <2>6, <2>8, <2>10 DEF SymbolsOfObjects
<1> QED
  BY <1>2, <1>3, <1>4, <1>5 DEF EInv

LEMMA ExpandKeepsExports ==
  ASSUME FunctionsInv, ExportFunctions, NEW g \in Generators, GInv(g), EInv(g),
         OpenArgument(g) \/ CloseArgument(g) \/ ExpandDone(g)
  PROVE EInv(g)'
<1> USE DEF FunctionsInv, Goto, input, memory
<1>1. /\ job' = job /\ def' = def /\ exit' = exit /\ sets' = sets /\ child' = child
      /\ objects' = objects /\ response' = response /\ listing' = listing
      /\ pc'[g] \in {"entries", "expand", "write", "respond"} /\ pc[g] # "done"
  BY DEF OpenArgument, CloseArgument, ExpandDone
<1>2. job[g] \in Seq(Arguments) /\ argument[g] \in Nat \ {0} /\ Len(job[g]) \in Nat
  <2>1. job[g] \in Seq(Arguments)
    BY JobsAssumption
  <2> QED
    BY <2>1 DEF GInv, Typed
<1>3. ListingInv(g)' /\ ExactInv(g)'
  BY <1>1 DEF ListingInv, ExactInv
<1>4. DiscoveredInv(g)'
  <2>1. pc'[g] = "write" => objects[g] = <<>>
    BY DEF OpenArgument, CloseArgument, ExpandDone
  <2>2. Range(<<>>) = {}
    BY DEF Range
  <2> QED
    BY <1>1, <2>1, <2>2 DEF DiscoveredInv, SymbolsOfObjects
<1>5. CASE OpenArgument(g)
  <2>1. /\ argument' = argument /\ faults' = faults /\ pending'[g] = job[g][argument[g]].entries
        /\ argument[g] <= Len(job[g])
    BY <1>5 DEF OpenArgument
  <2>2. argument[g] \in DOMAIN job[g]
    BY <1>2, <2>1
  <2>3. ExportTyped(g)'
    BY <1>1, <2>1 DEF EInv, ExportTyped
  <2>4. Range(pending'[g]) \subseteq EntriesOf(g)
    BY <2>1, <2>2 DEF EntriesOf
  <2>5. TakenInv(g)'
    BY <1>1, <2>4, SameExports DEF EInv, TakenInv
  <2>6. MergedInv(g)'
    BY <1>1, <2>1 DEF EInv, MergedInv, Merged
  <2> QED
    BY <1>3, <1>4, <2>3, <2>5, <2>6 DEF EInv
<1>6. CASE CloseArgument(g)
  <2>1. /\ argument'[g] = argument[g] + 1 /\ pc'[g] = "expand" /\ pc[g] = "entries"
        /\ faults'[g] = faults[g] \cup IF pending[g] = <<>> THEN {} ELSE {"read"}
    BY <1>6 DEF CloseArgument
  <2>2. argument[g] <= Len(job[g])
    BY <2>1 DEF EInv, ExportTyped
  <2>3. ExportTyped(g)'
    <3>1. argument'[g] <= Len(job'[g]) + 1
      BY <1>1, <1>2, <2>1, <2>2
    <3> QED
      BY <1>1, <2>1, <3>1 DEF EInv, ExportTyped
  <2>4. TakenInv(g)'
    BY <1>1, <2>1, SameExports DEF EInv, TakenInv
  <2>5. MergedInv(g)'
    <3> SUFFICES ASSUME "read" \notin faults'[g], NEW k \in DOMAIN job[g], k < argument[g] + 1,
                        NEW e \in Range(job[g][k].entries)
                 PROVE Merged(g, e)
      BY <1>1, <2>1 DEF MergedInv, Merged
    <3>1. pending[g] = <<>> /\ "read" \notin faults[g] /\ Range(<<>>) = {}
      BY <2>1 DEF Range
    <3>2. k < argument[g] \/ k = argument[g]
      BY <1>2
    <3> QED
      BY <2>1, <3>1, <3>2 DEF EInv, MergedInv
  <2> QED
    BY <1>3, <1>4, <2>3, <2>4, <2>5 DEF EInv
<1>7. CASE ExpandDone(g)
  <2>1. /\ argument' = argument /\ faults' = faults /\ pc'[g] # "entries"
    BY <1>7 DEF ExpandDone
  <2>2. ExportTyped(g)'
    BY <1>1, <2>1 DEF EInv, ExportTyped
  <2>3. TakenInv(g)'
    BY <1>1, <2>1, SameExports DEF EInv, TakenInv
  <2>4. MergedInv(g)'
    BY <1>1, <2>1 DEF EInv, MergedInv, Merged
  <2> QED
    BY <1>3, <1>4, <2>2, <2>3, <2>4 DEF EInv
<1> QED
  BY <1>5, <1>6, <1>7

\* Lines that are lines of the inputs add exports of the inputs.
LEMMA LineIsOfInputs ==
  ASSUME NEW g \in Generators, FunctionsInv, NEW isData \in BOOLEAN, NEW line \in LinesOf(g)
  PROVE  LineExports(line, isData) \subseteq ExportsOf(g, isData)
BY ExportsAre

LEMMA SymbolIsOfInputs ==
  ASSUME NEW g \in Generators, FunctionsInv, NEW isData \in BOOLEAN, NEW symbol \in SymbolsOf(g)
  PROVE  SymbolExports(symbol, isData) \subseteq ExportsOf(g, isData)
BY ExportsAre

LEMMA EntryKeepsExports ==
  ASSUME FunctionsInv, ExportFunctions, NEW g \in Generators, GInv(g), EInv(g),
         AddObject(g) \/ MergeDefinitionFile(g)
  PROVE EInv(g)'
<1> USE DEF FunctionsInv, ExportFunctions, input, memory
<1>0. PICK first : first = Head(pending[g])
  OBVIOUS
<1>1. /\ job' = job /\ response' = response /\ child' = child /\ def' = def /\ exit' = exit
      /\ argument' = argument /\ pending'[g] = Tail(pending[g]) /\ pending[g] # <<>>
      /\ pc[g] = "entries" /\ pc' = pc
  BY <1>0 DEF AddObject, MergeDefinitionFile
<1>2. /\ pending[g] \in Seq(Entries) /\ first \in Entries /\ first \in Range(pending[g])
      /\ \A e \in Range(pending[g]) : e = first \/ e \in Range(Tail(pending[g]))
      /\ Range(Tail(pending[g])) \subseteq Range(pending[g])
  <2>1. pending[g] \in Seq(Entries)
    BY DEF GInv, Typed
  <2>2. first \in Entries /\ Tail(pending[g]) \in Seq(Entries) /\ 1 \in DOMAIN pending[g]
    BY <1>0, <1>1, <2>1
  <2>3. \A k \in DOMAIN pending[g] : k = 1 \/ k - 1 \in DOMAIN Tail(pending[g])
    BY <1>1, <2>1
  <2>4. \A k \in DOMAIN pending[g] :
          k - 1 \in DOMAIN Tail(pending[g]) => Tail(pending[g])[k - 1] = pending[g][k]
    BY <1>1, <2>1
  <2>5. first = pending[g][1]
    BY <1>0, <1>1, <2>1
  <2>6. \A k \in DOMAIN Tail(pending[g]) :
          k + 1 \in DOMAIN pending[g] /\ Tail(pending[g])[k] = pending[g][k + 1]
    BY <1>1, <2>1
  <2> QED
    BY <2>1, <2>2, <2>3, <2>4, <2>5, <2>6 DEF Range
<1>3. first \in EntriesOf(g) /\ Range(Tail(pending[g])) \subseteq EntriesOf(g)
  BY <1>1, <1>2 DEF EInv, TakenInv
<1>4. ListingInv(g)' /\ DiscoveredInv(g)' /\ ExactInv(g)'
  BY <1>1 DEF ListingInv, DiscoveredInv, ExactInv
<1>5. CASE AddObject(g)
  <2>1. /\ sets' = sets /\ faults' = faults /\ first.kind = "object"
        /\ objects'[g] = Append(objects[g], first.file)
    BY <1>0, <1>5 DEF AddObject
  <2>2. ExportTyped(g)'
    BY <1>1, <2>1 DEF EInv, ExportTyped
  <2>3. first.file \in FilesOf(g, "object")
    BY <1>3, <2>1 DEF FilesOf
  <2>4. Range(Append(objects[g], first.file)) \subseteq Range(objects[g]) \cup {first.file}
    <3>1. objects[g] \in Seq(Objects)
      BY DEF GInv, Typed
    <3>2. \A k \in DOMAIN Append(objects[g], first.file) :
            \/ k \in DOMAIN objects[g] /\ Append(objects[g], first.file)[k] = objects[g][k]
            \/ Append(objects[g], first.file)[k] = first.file
      BY <3>1
    <3> QED
      BY <3>2 DEF Range
  <2>5. TakenInv(g)'
    <3>1. Range(objects'[g]) \subseteq FilesOf(g, "object")
      BY <2>1, <2>3, <2>4 DEF EInv, TakenInv
    <3> QED
      BY <1>1, <1>3, <2>1, <3>1, SameExports DEF EInv, TakenInv
  <2>6. MergedInv(g)'
    <3>1. Merged(g, first)
      BY <2>1 DEF Merged
    <3> QED
      BY <1>1, <1>2, <2>1, <3>1 DEF EInv, MergedInv, Merged
  <2> QED
    BY <1>4, <2>2, <2>5, <2>6 DEF EInv
<1>6. CASE MergeDefinitionFile(g)
  <2>1. PICK lines : lines = DefinitionLines[first.file]
    OBVIOUS
  <2>2. PICK n \in 0 .. Len(lines) :
          /\ sets'[g] = FoldLeft(MergeLine, sets[g], SubSeq(lines, 1, n))
          /\ faults'[g] = IF n = Len(lines) THEN faults[g] ELSE faults[g] \cup {"read"}
    BY <1>0, <1>6, <2>1 DEF MergeDefinitionFile
  <2>3. objects' = objects /\ first.kind = "definition"
    BY <1>0, <1>6 DEF MergeDefinitionFile
  <2>4. first.file \in DOMAIN DefinitionLines
    BY <1>2, <2>3 DEF Entries
  <2>5. lines \in Seq(Lines) /\ Len(lines) \in Nat
    BY <2>1, <2>4, FilesAssumption
  <2>6. PICK part : part = SubSeq(lines, 1, n)
    OBVIOUS
  <2>7. /\ part \in Seq(Lines) /\ DOMAIN part = 1 .. n /\ DOMAIN lines = 1 .. Len(lines)
        /\ \A k \in 1 .. n : part[k] = lines[k] /\ k \in DOMAIN lines
    BY <2>5, <2>6
  <2>8. PICK s : s = sets'[g]
    OBVIOUS
  <2>9. sets[g] \in SetsOf
    BY DEF EInv, ExportTyped
  <2>10. s = FoldLeft(MergeLine, sets[g], part)
    BY <2>2, <2>6, <2>8
  <2>11. s \in SetsOf
    BY <2>7, <2>9, <2>10, MergeAdds
  <2>12. SetOf(s, TRUE)
           = SetOf(sets[g], TRUE) \cup UNION {LineExports(part[k], TRUE) : k \in DOMAIN part}
    BY <2>7, <2>9, <2>10, MergeAdds
  <2>13. SetOf(s, FALSE)
           = SetOf(sets[g], FALSE) \cup UNION {LineExports(part[k], FALSE) : k \in DOMAIN part}
    BY <2>7, <2>9, <2>10, MergeAdds
  <2>14. \A k \in 1 .. n : part[k] \in LinesOf(g)
    <3>1. first.file \in FilesOf(g, "definition")
      BY <1>3, <2>3 DEF FilesOf
    <3>2. Range(lines) \subseteq LinesOf(g)
      BY <2>1, <3>1 DEF LinesOf
    <3> QED
      BY <2>7, <3>2 DEF Range
  <2>15. ExportTyped(g)'
    BY <1>1, <2>2, <2>8, <2>11 DEF EInv, ExportTyped
  <2>16. SetOf(s, TRUE) \subseteq ExportsOf(g, TRUE)
    <3>1. \A k \in DOMAIN part : LineExports(part[k], TRUE) \subseteq ExportsOf(g, TRUE)
      BY <2>7, <2>14, LineIsOfInputs
    <3> QED
      BY <2>12, <3>1 DEF EInv, TakenInv
  <2>17. SetOf(s, FALSE) \subseteq ExportsOf(g, FALSE)
    <3>1. \A k \in DOMAIN part : LineExports(part[k], FALSE) \subseteq ExportsOf(g, FALSE)
      BY <2>7, <2>14, LineIsOfInputs
    <3> QED
      BY <2>13, <3>1 DEF EInv, TakenInv
  <2>18. TakenInv(g)'
    <3>1. Range(objects[g]) \subseteq FilesOf(g, "object")
      BY DEF EInv, TakenInv
    <3> QED
      BY <1>1, <1>3, <2>3, <2>8, <2>16, <2>17, <3>1, SameExports DEF TakenInv
  <2>19. MergedInv(g)'
    <3> SUFFICES ASSUME "read" \notin faults'[g] PROVE MergedInv(g)'
      BY DEF MergedInv
    <3>1. n = Len(lines) /\ "read" \notin faults[g]
      BY <2>2
    <3>2. /\ SetOf(sets[g], TRUE) \subseteq SetOf(s, TRUE)
          /\ SetOf(sets[g], FALSE) \subseteq SetOf(s, FALSE)
      BY <2>12, <2>13
    <3>3. \A e : Merged(g, e) => Merged(g, e)'
      BY <2>8, <3>2 DEF Merged
    <3>4. Merged(g, first)'
      <4>1. \A line \in Range(lines) : \E k \in DOMAIN part : line = part[k]
        BY <2>7, <3>1 DEF Range
      <4>2. \A line \in Range(lines) : LineExports(line, TRUE) \subseteq SetOf(s, TRUE)
        BY <2>12, <4>1
      <4>3. \A line \in Range(lines) : LineExports(line, FALSE) \subseteq SetOf(s, FALSE)
        BY <2>13, <4>1
      <4> QED
        BY <2>1, <2>8, <4>2, <4>3 DEF Merged
    <3> QED
      BY <1>1, <1>2, <3>1, <3>3, <3>4 DEF EInv, MergedInv
  <2> QED
    BY <1>4, <2>15, <2>18, <2>19 DEF EInv
<1> QED
  BY <1>5, <1>6

LEMMA DiscoverKeepsExports ==
  ASSUME FunctionsInv, ExportFunctions, NEW g \in Generators, GInv(g), EInv(g), Discover(g)
  PROVE EInv(g)'
<1> USE DEF FunctionsInv, ExportFunctions, SetResponse, ResponsePath, Goto, input
<1>1. /\ job' = job /\ child' = child /\ def' = def /\ exit' = exit /\ faults' = faults
      /\ argument' = argument /\ pending' = pending /\ objects' = objects
      /\ pc[g] = "wait" /\ child[g] = "ok" /\ pc'[g] = "write"
      /\ response'[g].state = "absent" /\ response'[g].objects = <<>>
  BY DEF Discover
<1>2. PICK symbols : symbols = listing[g]
  OBVIOUS
<1>3. PICK s : s = sets'[g]
  OBVIOUS
<1>4. s = FoldLeft(add_nm_symbol, sets[g], symbols)
  BY <1>2, <1>3 DEF Discover
<1>5. symbols \in Seq(NmSymbols) /\ Range(symbols) = SymbolsOfObjects(g) /\ sets[g] \in SetsOf
  BY <1>1, <1>2 DEF EInv, ListingInv, ExportTyped
<1>6. s \in SetsOf
  BY <1>4, <1>5, ListingAdds
<1>7. SetOf(s, TRUE)
        = SetOf(sets[g], TRUE) \cup UNION {SymbolExports(symbols[k], TRUE) : k \in DOMAIN symbols}
  BY <1>4, <1>5, ListingAdds
<1>8. SetOf(s, FALSE)
        = SetOf(sets[g], FALSE) \cup UNION {SymbolExports(symbols[k], FALSE) : k \in DOMAIN symbols}
  BY <1>4, <1>5, ListingAdds
<1>9. ExportTyped(g)'
  BY <1>1, <1>3, <1>6 DEF EInv, ExportTyped
<1>10. \A k \in DOMAIN symbols : symbols[k] \in SymbolsOf(g)
  <2>1. SymbolsOfObjects(g) \subseteq SymbolsOf(g)
    BY DEF EInv, TakenInv, SymbolsOfObjects, SymbolsOf
  <2> QED
    BY <1>5, <2>1 DEF Range
<1>11. SetOf(s, TRUE) \subseteq ExportsOf(g, TRUE)
  <2>1. \A k \in DOMAIN symbols : SymbolExports(symbols[k], TRUE) \subseteq ExportsOf(g, TRUE)
    BY <1>10, SymbolIsOfInputs
  <2> QED
    BY <1>7, <2>1 DEF EInv, TakenInv
<1>12. SetOf(s, FALSE) \subseteq ExportsOf(g, FALSE)
  <2>1. \A k \in DOMAIN symbols : SymbolExports(symbols[k], FALSE) \subseteq ExportsOf(g, FALSE)
    BY <1>10, SymbolIsOfInputs
  <2> QED
    BY <1>8, <2>1 DEF EInv, TakenInv
<1>13. TakenInv(g)'
  <2>1. Range(objects[g]) \subseteq FilesOf(g, "object")
    BY DEF EInv, TakenInv
  <2> QED
    BY <1>1, <1>3, <1>11, <1>12, <2>1, SameExports DEF TakenInv
<1>14. MergedInv(g)'
  <2>1. /\ SetOf(sets[g], TRUE) \subseteq SetOf(s, TRUE)
        /\ SetOf(sets[g], FALSE) \subseteq SetOf(s, FALSE)
    BY <1>7, <1>8
  <2>2. \A e : Merged(g, e) => Merged(g, e)'
    BY <1>3, <2>1 DEF Merged
  <2> QED
    BY <1>1, <2>2 DEF EInv, MergedInv
<1>15. DiscoveredInv(g)'
  <2>1. \A symbol \in SymbolsOfObjects(g) : \E k \in DOMAIN symbols : symbol = symbols[k]
    BY <1>5 DEF Range
  <2>2. \A symbol \in SymbolsOfObjects(g) : SymbolExports(symbol, TRUE) \subseteq SetOf(s, TRUE)
    BY <1>7, <2>1
  <2>3. \A symbol \in SymbolsOfObjects(g) : SymbolExports(symbol, FALSE) \subseteq SetOf(s, FALSE)
    BY <1>8, <2>1
  <2>4. SymbolsOfObjects(g)' = SymbolsOfObjects(g)
    BY <1>1 DEF SymbolsOfObjects
  <2> QED
    BY <1>3, <2>2, <2>3, <2>4 DEF DiscoveredInv
<1>16. ListingInv(g)' /\ ExactInv(g)'
  BY <1>1 DEF ListingInv, ExactInv
<1> QED
  BY <1>9, <1>13, <1>14, <1>15, <1>16 DEF EInv

\* A generator that writes its .def file has read all it was given.
LEMMA AllIsIn ==
  ASSUME FunctionsInv, NEW g \in Generators, GInv(g), EInv(g),
         pc[g] = "write", "read" \notin faults[g]
  PROVE  /\ ExportsOf(g, TRUE) \subseteq SetOf(sets[g], TRUE)
         /\ ExportsOf(g, FALSE) \subseteq SetOf(sets[g], FALSE)
<1>1. job[g] \in Seq(Arguments) /\ argument[g] \in Nat /\ argument[g] > Len(job[g])
  <2>1. job[g] \in Seq(Arguments)
    BY JobsAssumption DEF FunctionsInv
  <2> QED
    BY <2>1 DEF GInv, Typed, PastArguments
<1>2. \A e \in EntriesOf(g) : Kept(g, e) /\ Merged(g, e)
  <2>1. \A k \in DOMAIN job[g] : \A e \in Range(job[g][k].entries) : Kept(g, e) /\ Merged(g, e)
    BY <1>1 DEF GInv, ReadInv, EInv, MergedInv
  <2> QED
    BY <2>1 DEF EntriesOf
<1>3. \A line \in LinesOf(g) : /\ LineExports(line, TRUE) \subseteq SetOf(sets[g], TRUE)
                               /\ LineExports(line, FALSE) \subseteq SetOf(sets[g], FALSE)
  <2> TAKE line \in LinesOf(g)
  <2>1. PICK e \in EntriesOf(g) : e.kind = "definition" /\ line \in Range(DefinitionLines[e.file])
    BY DEF LinesOf, FilesOf
  <2> QED
    BY <1>2, <2>1 DEF Merged
<1>4. \A symbol \in SymbolsOf(g) : /\ SymbolExports(symbol, TRUE) \subseteq SetOf(sets[g], TRUE)
                                   /\ SymbolExports(symbol, FALSE) \subseteq SetOf(sets[g], FALSE)
  <2> TAKE symbol \in SymbolsOf(g)
  <2>1. PICK e \in EntriesOf(g) : e.kind = "object" /\ symbol \in Range(ObjectSymbols[e.file])
    BY DEF SymbolsOf, FilesOf
  <2>2. symbol \in SymbolsOfObjects(g)
    BY <1>2, <2>1 DEF Kept, SymbolsOfObjects
  <2> QED
    BY <2>2 DEF EInv, DiscoveredInv
<1>5. ExportsOf(g, TRUE) \subseteq SetOf(sets[g], TRUE)
  <2>1. ExportsOf(g, TRUE) = (UNION {LineExports(line, TRUE) : line \in LinesOf(g)})
                            \cup UNION {SymbolExports(symbol, TRUE) : symbol \in SymbolsOf(g)}
    BY ExportsAre
  <2> QED
    BY <1>3, <1>4, <2>1
<1>6. ExportsOf(g, FALSE) \subseteq SetOf(sets[g], FALSE)
  <2>1. ExportsOf(g, FALSE) = (UNION {LineExports(line, FALSE) : line \in LinesOf(g)})
                            \cup UNION {SymbolExports(symbol, FALSE) : symbol \in SymbolsOf(g)}
    BY ExportsAre
  <2> QED
    BY <1>3, <1>4, <2>1
<1> QED
  BY <1>5, <1>6

LEMMA WriteKeepsExports ==
  ASSUME FunctionsInv, ExportFunctions, NEW g \in Generators, GInv(g), EInv(g),
         WriteDef(g) \/ WriteDefTorn(g) \/ WriteDefFails(g)
  PROVE EInv(g)'
<1> USE DEF FunctionsInv, Exit, input, memory
<1>1. /\ job' = job /\ response' = response /\ child' = child
      /\ faults'[g] \in {faults[g], faults[g] \cup {"write"}}
      /\ argument' = argument /\ pending' = pending /\ objects' = objects /\ sets' = sets
      /\ listing' = listing /\ pc[g] = "write" /\ pc'[g] = "done"
  BY DEF WriteDef, WriteDefTorn, WriteDefFails
<1>2. exit'[g] \in {0, 1} /\ def'[g].state \in {"absent", "torn", "complete"}
  <2>1. CASE WriteDef(g)
    BY <2>1 DEF WriteDef
  <2>2. CASE WriteDefFails(g)
    BY <2>2 DEF WriteDefFails, NoDef
  <2>3. CASE WriteDefTorn(g)
    BY <2>3 DEF WriteDefTorn, NoDef
  <2> QED
    BY <2>1, <2>2, <2>3
<1>3. ExportTyped(g)'
  BY <1>1, <1>2 DEF EInv, ExportTyped
<1>4. TakenInv(g)'
  BY <1>1, SameExports DEF EInv, TakenInv
<1>5. MergedInv(g)' /\ ListingInv(g)' /\ DiscoveredInv(g)'
  BY <1>1 DEF MergedInv, ListingInv, DiscoveredInv
<1>6. ExactInv(g)'
  <2> SUFFICES ASSUME exit'[g] = 0, faults'[g] \cap {"read", "write"} = {}
               PROVE  /\ def'[g].state = "complete"
                      /\ Lists(def'[g].data, ExportsOf(g, TRUE))
                      /\ Lists(def'[g].plain, ExportsOf(g, FALSE))
    BY <1>1, SameExports DEF ExactInv
  <2>1. /\ def'[g].state = "complete" /\ def'[g].data = sets[g].data
        /\ def'[g].plain = sets[g].plain
    BY DEF WriteDef, WriteDefTorn, WriteDefFails
  <2>4. "read" \notin faults[g]
    BY <1>1
  <2>2. sets[g].data \in IncreasingSeqs /\ sets[g].plain \in IncreasingSeqs
    BY DEF EInv, ExportTyped, SetsOf
  <2>3. Range(sets[g].data) = ExportsOf(g, TRUE) /\ Range(sets[g].plain) = ExportsOf(g, FALSE)
    BY <1>1, <2>4, AllIsIn DEF EInv, TakenInv, SetOf
  <2> QED
    BY <2>1, <2>2, <2>3 DEF Lists
<1> QED
  BY <1>3, <1>4, <1>5, <1>6 DEF EInv

------------------------------------------------------------------------------
(* The theorems about the exports.                                          *)

LEMMA InitExportsInv == Init => ExportsInv
<1> SUFFICES ASSUME Init PROVE ExportsInv
  OBVIOUS
<1>1. ExportFunctions
  BY DEF Init, ExportFunctions
<1>2. ASSUME NEW g \in Generators PROVE EInv(g)
  <2>1. /\ pc[g] = "expand" /\ argument[g] = 1 /\ objects[g] = <<>>
        /\ sets[g] = [data |-> <<>>, plain |-> <<>>]
        /\ child[g] = "none" /\ def[g].state = "absent" /\ faults[g] = {} /\ exit[g] = 0
    BY <1>2 DEF Init, NoDef
  <2>2. response[g].state \in {"absent", "stale"} /\ response[g].objects \in Seq(Objects)
    <3>1. PICK stale \in {NoFile} \cup [state : {"stale"}, objects : {<<o>> : o \in StaleObjects}] :
            response = [h \in Generators |-> stale]
      BY DEF Init
    <3>2. \A o \in StaleObjects : <<o>> \in Seq(Objects)
      BY FilesAssumption
    <3>3. stale.state \in {"absent", "stale"} /\ stale.objects \in Seq(Objects)
      <4>1. CASE stale = NoFile
        BY <4>1 DEF NoFile
      <4>2. CASE stale \in [state : {"stale"}, objects : {<<o>> : o \in StaleObjects}]
        <5>1. stale.state = "stale" /\ stale.objects \in {<<o>> : o \in StaleObjects}
          BY <4>2
        <5> QED
          BY <3>2, <5>1
      <4> QED
        BY <3>1, <4>1, <4>2
    <3> QED
      BY <3>1, <3>3
  <2>3. job[g] \in Seq(Arguments)
    BY JobsAssumption DEF Init
  <2>4. <<>> \in IncreasingSeqs /\ Range(<<>>) = {}
    BY DEF IncreasingSeqs, Range
  <2>5. ExportTyped(g)
    BY <2>1, <2>2, <2>3, <2>4 DEF ExportTyped, SetsOf
  <2>6. TakenInv(g)
    <3>1. Range(objects[g]) = {} /\ Range(sets[g].data) = {} /\ Range(sets[g].plain) = {}
      BY <2>1, <2>4
    <3> QED
      BY <2>1, <3>1 DEF TakenInv, SetOf
  <2>7. MergedInv(g)
    <3>1. \A k \in DOMAIN job[g] : ~ (k < 1)
      BY <2>3
    <3> QED
      BY <2>1, <3>1 DEF MergedInv
  <2>8. ListingInv(g) /\ DiscoveredInv(g) /\ ExactInv(g)
    BY <2>1 DEF ListingInv, DiscoveredInv, ExactInv
  <2> QED
    BY <2>5, <2>6, <2>7, <2>8 DEF EInv
<1> QED
  BY <1>1, <1>2 DEF ExportsInv

LEMMA NextKeepsExports == IInv /\ ExportsInv /\ [Next]_vars => ExportsInv'
<1> SUFFICES ASSUME IInv, ExportsInv, [Next]_vars PROVE ExportsInv'
  OBVIOUS
<1>1. ASSUME NEW g \in Generators, Generator(g) \/ Nm(g) PROVE ExportsInv'
  <2>1. job' = job /\ \A h \in Generators \ {g} : SameOf(h)
    BY <1>1, OthersUnchanged DEF IInv
  <2>2. ExportFunctions' /\ \A h \in Generators \ {g} : ExportSameOf(h)
    BY <1>1, OtherExportsUnchanged DEF ExportsInv
  <2>3. FunctionsInv /\ ExportFunctions /\ GInv(g) /\ EInv(g)
    BY DEF IInv, ExportsInv
  <2>4. EInv(g)'
    <3>1. CASE \/ ParametersFail(g) \/ EntryFails(g) \/ OpenResponseFails(g)
               \/ FillResponseFails(g) \/ MissingNm(g) \/ NmFailsToStart(g) \/ DiscoverFails(g)
      BY <2>3, <3>1, FailureKeepsExports
    <3>2. CASE OpenResponse(g) \/ FillResponse(g) \/ StartNm(g) \/ NmFails(g)
      BY <2>3, <3>2, ResponseKeepsExports
    <3>3. CASE OpenArgument(g) \/ CloseArgument(g) \/ ExpandDone(g)
      BY <2>3, <3>3, ExpandKeepsExports
    <3>4. CASE AddObject(g) \/ MergeDefinitionFile(g)
      BY <2>3, <3>4, EntryKeepsExports
    <3>5. CASE NmEnds(g) \/ Discover(g)
      BY <2>3, <3>5, NmEndsKeepsExports, DiscoverKeepsExports
    <3>6. CASE WriteDef(g) \/ WriteDefTorn(g) \/ WriteDefFails(g)
      BY <2>3, <3>6, WriteKeepsExports
    <3> QED
      BY <1>1, <3>1, <3>2, <3>3, <3>4, <3>5, <3>6 DEF Generator, Nm
  <2>5. \A h \in Generators \ {g} : EInv(h)'
    BY <2>1, <2>2, ExportSameKeeps DEF ExportsInv
  <2> QED
    BY <2>2, <2>4, <2>5 DEF ExportsInv
<1>2. CASE UNCHANGED vars
  <2>1. ExportFunctions' /\ job' = job /\ \A h \in Generators : SameOf(h) /\ ExportSameOf(h)
    BY <1>2 DEF ExportsInv, ExportFunctions, SameOf, ExportSameOf, vars, input, memory
  <2> QED
    BY <2>1, ExportSameKeeps DEF ExportsInv
<1> QED
  BY <1>1, <1>2 DEF Next, Done

\* What each generator has collected is what its arguments hold.
THEOREM ExportsInvariant == Spec => []ExportsInv
<1> HIDE DEF IInv, ExportsInv
<1> QED
  BY InitExportsInv, NextKeepsExports, Invariant, PTL DEF Spec

\* Every variable has its type, and the string sets are strictly sorted.
THEOREM SpecTypeOK == Spec => []TypeOK
<1>1. IInv /\ ExportsInv => TypeOK
  <2> SUFFICES ASSUME IInv, ExportsInv PROVE TypeOK
    OBVIOUS
  <2>1. job \in [Generators -> Jobs] /\ nmIsSet \in BOOLEAN /\ pc \in [Generators -> Steps]
    <3>1. pc = [g \in Generators |-> pc[g]] /\ \A g \in Generators : pc[g] \in Steps
      BY DEF IInv, GInv, Typed, ExportsInv, ExportFunctions
    <3>2. pc \in [Generators -> Steps]
      BY <3>1
    <3> QED
      BY <3>2 DEF IInv, FunctionsInv, ExportsInv, ExportFunctions
  <2>2. ASSUME NEW g \in Generators
        PROVE  /\ argument[g] \in 1 .. Len(job[g]) + 1
               /\ pending[g] \in Seq(Entries)
               /\ objects[g] \in Seq(Objects)
               /\ sets[g] \in [data : IncreasingSeqs, plain : IncreasingSeqs]
               /\ response[g].state \in {"absent", "stale", "written"}
               /\ response[g].objects \in Seq(Objects)
               /\ child[g] \in {"none", "running", "ok", "failed"}
               /\ def[g].state \in {"absent", "torn", "complete"}
               /\ faults[g] \subseteq {"read", "remove", "write"}
               /\ exit[g] \in 0..2
    <3>1. job[g] \in Seq(Arguments)
      BY <2>1, JobsAssumption
    <3>2. argument[g] \in Nat \ {0} /\ argument[g] <= Len(job[g]) + 1
      BY <2>2 DEF IInv, ExportsInv, GInv, Typed, EInv, ExportTyped
    <3>3. argument[g] \in 1 .. Len(job[g]) + 1
      BY <3>1, <3>2
    <3> QED
      BY <2>2, <3>3 DEF IInv, ExportsInv, GInv, Typed, EInv, ExportTyped, SetsOf
  <2> QED
    BY <2>1, <2>2 DEF TypeOK
<1> HIDE DEF IInv, ExportsInv, TypeOK
<1> QED
  BY <1>1, Invariant, ExportsInvariant, PTL

\* Exit status 0 means a .def file with the exports of the generator's inputs,
\* sorted, each once and no others, for any number of generators in the
\* directory, any arguments, objects and definition files, and whatever a stale
\* response file says.
THEOREM SpecSuccessMeansExactDef == Spec => []SuccessMeansExactDef
<1>1. ExportsInv => SuccessMeansExactDef
  BY DEF ExportsInv, EInv, ExactInv, SuccessMeansExactDef
<1> HIDE DEF ExportsInv, SuccessMeansExactDef
<1> QED
  BY <1>1, ExportsInvariant, PTL
==============================================================================
