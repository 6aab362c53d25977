-------------------- MODULE StaticLibraryValidatorProofs --------------------
(***************************************************************************)
(* For every set of libraries, every target and every environment: main's   *)
(* parsing, sorting and scanning decide whether two strong definitions have *)
(* one name, as long as llvm-nm's output is captured and no path or member  *)
(* name has a ']' after a '['.                                              *)
(***************************************************************************)
EXTENDS StaticLibraryValidator, SequencesExt, SequenceTheorems,
        FiniteSetTheorems, WellFoundedInduction, TLAPS

------------------------------------------------------------------------------
(* What the proofs need of numbers.  The library's theorems on induction    *)
(* have an operator for a parameter; this one has a set.                    *)

\* A non-empty set of natural numbers has a least element: the CHOOSE of a
\* first position is a position.
LEMMA NatMin ==
  ASSUME NEW T, T \subseteq Nat, T # {}
  PROVE  \E m \in T : \A y \in T : m <= y
<1> DEFINE R == OpToRel(<, Nat)
<1>1. IsWellFoundedOn(R, Nat)
  BY NatLessThanWellFounded, Zenon
<1>2. ASSUME NEW x \in Nat, NEW y \in Nat, y < x
      PROVE  <<y, x>> \in R
  BY <1>2 DEF OpToRel
<1> HIDE DEF R
<1>3. \E x \in T : \A y \in T : ~ (<<y, x>> \in R)
  BY <1>1, WFMin, Zenon
<1>4. PICK m \in T : \A y \in T : ~ (<<y, m>> \in R)
  BY <1>3, Zenon
<1>5. ASSUME NEW y \in T PROVE m <= y
  <2>1. m \in Nat /\ y \in Nat
    OBVIOUS
  <2>2. ~ (y < m)
    BY <1>2, <1>4, <2>1, Zenon
  <2> QED
    BY <2>1, <2>2
<1> QED
  BY <1>4, <1>5

------------------------------------------------------------------------------
\* The listing main reads back is the library or nothing.
LEMMA ListedIsLibrary ==
  ASSUME library \in Seq(Definition)
  PROVE  /\ listed \in Seq(Definition)
         /\ listed = library \/ listed = <<>>
         /\ "nm" \notin lost => listed = library
  BY DEF listed

\* So it has the type of a library.
LEMMA ListedTyped == TypeOK => listed \in Seq(Definition)
  BY ListedIsLibrary DEF TypeOK

Strong(k) == listed[k].kind \in Contract!StrongKinds

\* How many lines of llvm-nm main has parsed.
Parsed ==
  CASE pc = "nm" -> 0
    [] pc = "parse" -> index - 1
    [] OTHER -> Len(listed)

\* The entries are the strong definitions parsed so far, each once; none is
\* missed unless a ']' after a '[' hides it.
EntriesInv ==
  /\ \A e \in DOMAIN entries :
       /\ entries[e].object \in 1..Parsed
       /\ Strong(entries[e].object)
       /\ entries[e].symbol = listed[entries[e].object].symbol
  /\ \A e, f \in DOMAIN entries : entries[e].object = entries[f].object => e = f
  /\ pc = "nm" => index = 1
  /\ name # "bracketed" /\ pc # "done" =>
       \A k \in 1..Parsed :
         Strong(k) => \E e \in DOMAIN entries : entries[e].object = k

\* No symbol is that of two entries.
AllDiffer ==
  \A e, f \in DOMAIN entries : entries[e].symbol = entries[f].symbol => e = f

\* While nothing has been reported, no entry before the scan's position has
\* its neighbour's symbol; with the order of the entries that is AllDiffer.
ScanInv ==
  /\ pc \in {"nm", "parse"} => dups = <<>>
  /\ pc = "scan" => Sorted(entries)
  /\ pc = "scan" /\ dups = <<>> =>
       \A i \in 1 .. index - 1 :
         i + 1 \in DOMAIN entries => entries[i].symbol # entries[i + 1].symbol
  /\ dups # <<>> => ~AllDiffer
  /\ pc = "touch" => AllDiffer
  /\ pc \in {"filt", "report"} => dups # <<>>

ListedIsValid == stamped => Contract!DuplicatedIn(listed) = {}

StampInv ==
  /\ stamped => pc = "done"
  /\ name # "bracketed" => ListedIsValid

IInv == TypeOK /\ EntriesInv /\ ScanInv /\ StampInv

------------------------------------------------------------------------------
(* The order of the entries and the runs of the scan.                       *)

\* A symbol is made of bytes.
LEMMA SymbolIsBytes ==
  ASSUME NEW s \in Seq(0..255), NEW i \in DOMAIN s
  PROVE  s[i] \in 0..255
<1>1. ASSUME NEW S, NEW t \in Seq(S), NEW j \in DOMAIN t
      PROVE  t[j] \in S
  OBVIOUS
<1> QED
  BY <1>1, Zenon

\* compare_symbol_entries calls two symbols equal only if they are.
LEMMA CompareIsAntisymmetric ==
  ASSUME NEW a, NEW b,
         a.symbol \in Seq(0..255), b.symbol \in Seq(0..255),
         compare_symbol_entries(a, b) <= 0, compare_symbol_entries(b, a) <= 0
  PROVE  a.symbol = b.symbol
<1> DEFINE x == a.symbol
           y == b.symbol
           differ == Differences(x, y)
<1>1. Differences(y, x) = differ
  BY DEF Differences
<1>2. compare_symbol_entries(a, b) = IF differ # {} THEN x[Min(differ)] - y[Min(differ)]
                                                    ELSE Len(x) - Len(y)
  BY Zenon DEF compare_symbol_entries
<1>3. compare_symbol_entries(b, a) = IF differ # {} THEN y[Min(differ)] - x[Min(differ)]
                                                    ELSE Len(y) - Len(x)
  BY <1>1, Zenon DEF compare_symbol_entries
<1>4. ASSUME differ # {} PROVE FALSE
  <2>1. differ \subseteq Nat
    BY DEF Differences
  <2>2. \E k \in differ : \A l \in differ : k <= l
    BY <1>4, <2>1, NatMin, Zenon
  <2>3. Min(differ) \in differ
    BY <2>2, Zenon DEF Min
  <2>4. PICK k : k = Min(differ)
    OBVIOUS
  <2>5. k \in DOMAIN x /\ k \in DOMAIN y /\ x[k] # y[k]
    BY <2>3, <2>4 DEF Differences
  <2>6. x[k] \in 0..255 /\ y[k] \in 0..255
    BY <2>5, SymbolIsBytes, Zenon
  <2>7. /\ compare_symbol_entries(a, b) = x[k] - y[k]
        /\ compare_symbol_entries(b, a) = y[k] - x[k]
    BY <1>2, <1>3, <1>4, <2>4, Zenon
  <2>8. ASSUME NEW c \in 0..255, NEW d \in 0..255, c - d <= 0, d - c <= 0
        PROVE  c = d
    BY <2>8
  <2>9. x[k] - y[k] <= 0 /\ y[k] - x[k] <= 0
    BY <2>7, Zenon
  <2> QED
    BY <2>5, <2>6, <2>8, <2>9, Zenon
<1>5. Len(x) = Len(y)
  <2>1. /\ compare_symbol_entries(a, b) = Len(x) - Len(y)
        /\ compare_symbol_entries(b, a) = Len(y) - Len(x)
    BY <1>2, <1>3, <1>4, Zenon
  <2> QED
    BY <2>1
<1>6. \A k \in DOMAIN x : x[k] = y[k]
  BY <1>4, <1>5 DEF Differences
<1> QED
  BY <1>5, <1>6

\* A run of equal symbols ends within the entries.
LEMMA RunEndFacts ==
  ASSUME entries \in Seq(SymbolEntry), NEW i \in DOMAIN entries
  PROVE  /\ RunEnd(i) \in i + 1 .. Len(entries) + 1
         /\ \A k \in i .. RunEnd(i) - 1 : entries[k].symbol = entries[i].symbol
         /\ RunEnd(i) <= Len(entries) =>
              entries[RunEnd(i)].symbol # entries[i].symbol
<1> DEFINE Ends == {j \in i + 1 .. Len(entries) + 1 :
                      j <= Len(entries) => entries[j].symbol # entries[i].symbol}
<1>1. Ends \subseteq Nat /\ Len(entries) + 1 \in Ends
  OBVIOUS
<1>2. PICK j \in Ends : \A l \in Ends : j <= l
  BY <1>1, NatMin
<1>3. \A k \in i .. j - 1 : entries[k].symbol = entries[i].symbol
  BY <1>2
<1> QED
  BY <1>2, <1>3 DEF RunEnd

\* Sorted entries in which no neighbours are equal all differ.
LEMMA NeighboursDiffer ==
  ASSUME entries \in Seq(SymbolEntry), Sorted(entries),
         \A i \in 1 .. Len(entries) :
           i + 1 \in DOMAIN entries => entries[i].symbol # entries[i + 1].symbol
  PROVE  AllDiffer
<1>1. ASSUME NEW e \in DOMAIN entries, NEW f \in DOMAIN entries,
             entries[e].symbol = entries[f].symbol, e < f
      PROVE  FALSE
  <2>1. e + 1 \in DOMAIN entries /\ e + 1 # f
    BY <1>1
  <2>2. /\ compare_symbol_entries(entries[e], entries[e + 1]) <= 0
        /\ compare_symbol_entries(entries[e + 1], entries[f]) <= 0
    BY <1>1, <2>1 DEF Sorted
  <2>3. compare_symbol_entries(entries[e + 1], entries[f])
          = compare_symbol_entries(entries[e + 1], entries[e])
    <3>1. ASSUME NEW c, NEW d, NEW g, d.symbol = g.symbol
          PROVE  compare_symbol_entries(c, d) = compare_symbol_entries(c, g)
      BY <3>1, Zenon DEF compare_symbol_entries
    <3> QED
      BY <1>1, <3>1, Zenon
  <2>4. /\ entries[e].symbol \in Seq(0..255)
        /\ entries[e + 1].symbol \in Seq(0..255)
    <3>1. entries[e] \in SymbolEntry /\ entries[e + 1] \in SymbolEntry
      BY <2>1
    <3> QED
      BY <3>1 DEF SymbolEntry
  <2>5. entries[e].symbol = entries[e + 1].symbol
    BY <2>2, <2>3, <2>4, CompareIsAntisymmetric
  <2> QED
    BY <1>1, <2>1, <2>5
<1> QED
  BY <1>1 DEF AllDiffer

------------------------------------------------------------------------------
(* What the entries say about the listing.                                  *)

\* If no two entries have one symbol, no two strong definitions have.
LEMMA DifferMeansValid ==
  ASSUME TypeOK, EntriesInv, AllDiffer, name # "bracketed",
         pc \in {"scan", "touch"}
  PROVE  Contract!DuplicatedIn(listed) = {}
<1>1. ASSUME NEW k \in DOMAIN listed, NEW l \in DOMAIN listed,
             Strong(k), Strong(l), listed[k].symbol = listed[l].symbol
      PROVE  k = l
  <2>1. DOMAIN listed = 1..Parsed
    BY DEF TypeOK, Parsed
  <2>2. PICK e \in DOMAIN entries : entries[e].object = k
    BY <1>1, <2>1 DEF EntriesInv
  <2>3. PICK f \in DOMAIN entries : entries[f].object = l
    BY <1>1, <2>1 DEF EntriesInv
  <2>4. entries[e].symbol = entries[f].symbol
    BY <1>1, <2>2, <2>3 DEF EntriesInv
  <2> QED
    BY <2>2, <2>3, <2>4 DEF AllDiffer
<1> QED
  BY <1>1 DEF Contract!DuplicatedIn, Strong

\* If two entries have one symbol, two strong definitions have.
LEMMA TwinsMeanDuplicated ==
  ASSUME TypeOK, EntriesInv, ~AllDiffer
  PROVE  Contract!DuplicatedIn(listed) # {}
<1>1. PICK e \in DOMAIN entries, f \in DOMAIN entries :
        entries[e].symbol = entries[f].symbol /\ e # f
  BY DEF AllDiffer
<1> DEFINE k == entries[e].object
           l == entries[f].object
<1>2. k # l /\ Strong(k) /\ Strong(l) /\ listed[k].symbol = listed[l].symbol
  BY <1>1 DEF EntriesInv
<1>3. 1..Parsed \subseteq DOMAIN listed
  BY ListedTyped DEF TypeOK, Parsed
<1>4. k \in DOMAIN listed /\ l \in DOMAIN listed
  BY <1>3 DEF EntriesInv
<1> HIDE DEF k, l
<1> QED
  BY <1>2, <1>4 DEF Contract!DuplicatedIn, Strong

------------------------------------------------------------------------------
(* Every step keeps the inductive invariant.                                *)

\* The initial states satisfy the inductive invariant.
LEMMA InitIInv == Init => IInv
<1> SUFFICES ASSUME Init PROVE IInv
  OBVIOUS
<1>1. TypeOK
  <2>1. library \in Seq(Definition) /\ listed \in Seq(Definition)
    BY LibrariesAssumption, ListedIsLibrary DEF Init
  <2>2. entries \in Seq(SymbolEntry) /\ dups \in Seq(SymbolEntry)
    BY DEF Init
  <2>3. /\ index \in Nat \ {0}
        /\ index <= 1 + Len(IF pc \in {"nm", "parse"} THEN listed ELSE entries)
    BY <2>1 DEF Init
  <2>4. stamped \in BOOLEAN
    BY Zenon DEF Init
  <2>5. exit \in 0..2
    BY DEF Init
  <2> QED
    BY <2>1, <2>2, <2>3, <2>4, <2>5, Zenon DEF Init, TypeOK
<1>2. EntriesInv
  BY DEF Init, EntriesInv, Parsed
<1>3. ScanInv /\ StampInv
  BY DEF Init, ScanInv, StampInv, ListedIsValid
<1> QED
  BY <1>1, <1>2, <1>3 DEF IInv

\* Running a tool, or failing to, changes no entry.
LEMMA ToolsKeepIInv ==
  ASSUME IInv, SetupFails \/ RunTool \/ ToolEnds \/ RunFails \/ RunSucceeds
  PROVE  IInv'
<1> USE DEF SetupFails, RunTool, ToolEnds, RunFails, RunSucceeds, Exit, Goto, input, listed
<1>1. TypeOK'
  BY DEF IInv, TypeOK, EntriesInv
<1>2. EntriesInv'
  <2>1. CASE SetupFails
    BY <2>1 DEF IInv, TypeOK, EntriesInv, Parsed, Strong
  <2>2. CASE RunTool
    BY <2>2 DEF IInv, TypeOK, EntriesInv, Parsed, Strong
  <2>3. CASE ToolEnds
    BY <2>3 DEF IInv, TypeOK, EntriesInv, Parsed, Strong
  <2>4. CASE RunFails
    BY <2>4 DEF IInv, TypeOK, EntriesInv, Parsed, Strong
  <2>5. CASE RunSucceeds
    BY <2>5 DEF IInv, TypeOK, EntriesInv, Parsed, Strong
  <2> QED
    BY <2>1, <2>2, <2>3, <2>4, <2>5
<1>3. ScanInv'
  BY DEF IInv, TypeOK, ScanInv, AllDiffer
<1>4. StampInv'
  BY DEF IInv, TypeOK, StampInv, ListedIsValid
<1> QED
  BY <1>1, <1>2, <1>3, <1>4 DEF IInv

\* A parsed line adds the entry of a strong definition, and only that.
LEMMA ParseKeepsIInv ==
  ASSUME IInv, ParseLine
  PROVE  IInv'
<1> DEFINE line == NmLine(index)
<1>1. index \in DOMAIN listed /\ index \in Nat /\ listed[index] \in Definition
  BY ListedTyped DEF IInv, TypeOK, ParseLine
<1>2. /\ line.symbol = listed[index].symbol
      /\ line.object = index
      /\ line.type \in {"T", "D"} /\ line.form \notin {"noise", "bracketed"} => Strong(index)
      /\ name # "bracketed" /\ Strong(index) => line.form \notin {"noise", "bracketed"}
      /\ Strong(index) => line.type \in {"T", "D"}
  <2>1. /\ line.symbol = listed[index].symbol /\ line.object = index
        /\ line.type = TypeOf(listed[index].kind)
        /\ line.form = IF Unlisted(index) THEN "noise" ELSE name
    BY DEF NmLine
  <2>2. name # "noise"
    BY NamesAssumption DEF IInv, TypeOK
  <2> HIDE DEF line
  <2>3. listed[index].kind \in Kinds
    BY <1>1 DEF Definition
  <2>4. Strong(index) => ~Unlisted(index) /\ TypeOf(listed[index].kind) \in {"T", "D"}
    BY DEF Unlisted, TypeOf, Strong, Contract!StrongKinds
  <2>5. TypeOf(listed[index].kind) \in {"T", "D"} /\ ~Unlisted(index) => Strong(index)
    BY <2>3 DEF Unlisted, TypeOf, NoWeak, Strong, Contract!StrongKinds, Kinds
  <2> QED
    BY <2>1, <2>2, <2>4, <2>5
<1>3. \/ /\ Strong(index)
         /\ entries' = Append(entries, [symbol |-> listed[index].symbol,
                                        object |-> index, type |-> line.type])
         /\ line.type \in {"T", "D"}
      \/ /\ entries' = entries
         /\ name # "bracketed" => ~Strong(index)
  BY <1>2 DEF ParseLine, parse_nm_line, should_keep_type, IInv, TypeOK
<1> DEFINE new == [symbol |-> listed[index].symbol,
                   object |-> index, type |-> line.type]
<1> HIDE DEF line
<1>4. TypeOK'
  <2>1. line.type \in {"T", "D"} => new \in SymbolEntry
    BY <1>1 DEF Definition, SymbolEntry
  <2> HIDE DEF new
  <2>2. entries' \in Seq(SymbolEntry)
    <3>1. entries \in Seq(SymbolEntry)
      BY DEF IInv, TypeOK
    <3>2. entries' = entries \/ (line.type \in {"T", "D"} /\ entries' = Append(entries, new))
      BY <1>3 DEF new
    <3> QED
      BY <2>1, <3>1, <3>2
  <2>3. index' \in Nat \ {0} /\ index' <= 1 + Len(listed)
    BY <1>1 DEF IInv, TypeOK, ParseLine
  <2> QED
    BY <2>2, <2>3 DEF IInv, TypeOK, ParseLine, input, listed
<1>5. EntriesInv'
  <2>1. /\ pc = "parse" /\ pc' = "parse" /\ listed' = listed /\ name' = name
        /\ Parsed = index - 1 /\ Parsed' = index
    BY <1>1 DEF ParseLine, Parsed, input, listed
  <2>2. CASE Strong(index) /\ entries' = Append(entries, new)
    <3> DEFINE n == Len(entries)
    <3>1. /\ n \in Nat /\ DOMAIN entries = 1..n /\ DOMAIN entries' = 1 .. n + 1
          /\ \A e \in 1..n : entries'[e] = entries[e]
          /\ entries'[n + 1] = new
      BY <2>2 DEF IInv, TypeOK
    <3>2. new.object = index /\ new.symbol = listed[index].symbol
      OBVIOUS
    <3> HIDE DEF n, new
    <3>3. /\ \A e \in 1..n : entries[e].object \in 1 .. index - 1
          /\ \A e \in 1..n : Strong(entries[e].object)
          /\ \A e \in 1..n : entries[e].symbol = listed[entries[e].object].symbol
          /\ \A e, f \in 1..n : entries[e].object = entries[f].object => e = f
          /\ name # "bracketed" => \A k \in 1 .. index - 1 :
               Strong(k) => \E e \in 1..n : entries[e].object = k
      BY <2>1, <3>1 DEF IInv, EntriesInv
    <3>4. \A k : Strong(k)' <=> Strong(k)
      BY <2>1 DEF Strong
    <3>5. \A e \in 1 .. n + 1 :
            /\ entries'[e].object \in 1..index
            /\ Strong(entries'[e].object)
            /\ entries'[e].symbol = listed[entries'[e].object].symbol
      <4> HIDE DEF Strong
      <4> SUFFICES ASSUME NEW e \in 1 .. n + 1
                   PROVE  /\ entries'[e].object \in 1..index
                          /\ Strong(entries'[e].object)
                          /\ entries'[e].symbol = listed[entries'[e].object].symbol
        OBVIOUS
      <4>1. CASE e \in 1..n
        <5>1. entries'[e] = entries[e] /\ entries[e].object \in 1..index
          BY <1>1, <3>1, <3>3, <4>1
        <5> QED
          BY <3>3, <4>1, <5>1
      <4>2. CASE e = n + 1
        BY <1>1, <2>2, <3>1, <3>2, <4>2
      <4> QED
        BY <3>1, <4>1, <4>2
    <3>6. \A e, f \in 1 .. n + 1 : entries'[e].object = entries'[f].object => e = f
      BY <1>1, <3>1, <3>2, <3>3
    <3>7. name # "bracketed" => \A k \in 1..index :
            Strong(k) => \E e \in 1 .. n + 1 : entries'[e].object = k
      BY <1>1, <3>1, <3>2, <3>3
    <3> HIDE DEF Strong
    <3> QED
      BY <2>1, <3>1, <3>4, <3>5, <3>6, <3>7 DEF EntriesInv
  <2>3. CASE entries' = entries /\ (name # "bracketed" => ~Strong(index))
    BY <1>1, <2>1, <2>3 DEF IInv, EntriesInv, Strong
  <2> QED
    BY <1>3, <2>2, <2>3
<1>6. ScanInv' /\ StampInv'
  BY DEF IInv, ScanInv, StampInv, ListedIsValid, ParseLine, input, listed
<1> QED
  BY <1>4, <1>5, <1>6 DEF IInv

\* qsort keeps the entries, each once, and orders them.
LEMMA SortKeepsIInv ==
  ASSUME IInv, Sort
  PROVE  IInv'
<1>1. PICK p \in Bijection(DOMAIN entries, DOMAIN entries) :
        entries' = [k \in DOMAIN entries |-> entries[p[k]]]
  BY DEF Sort
<1>2. /\ p \in [DOMAIN entries -> DOMAIN entries]
      /\ \A k, l \in DOMAIN entries : p[k] = p[l] => k = l
      /\ \A k \in DOMAIN entries : \E l \in DOMAIN entries : p[l] = k
  BY DEF Bijection, Injection, Surjection, IsInjective
<1>3. /\ entries \in Seq(SymbolEntry)
      /\ entries' \in Seq(SymbolEntry)
      /\ DOMAIN entries' = DOMAIN entries
      /\ \A k \in DOMAIN entries : entries'[k] = entries[p[k]]
  <2>1. PICK n \in Nat : n = Len(entries)
    BY DEF IInv, TypeOK
  <2>2. entries \in Seq(SymbolEntry) /\ DOMAIN entries = 1..n
    BY <2>1 DEF IInv, TypeOK
  <2>3. \A k \in 1..n : p[k] \in 1..n /\ entries[p[k]] \in SymbolEntry
    BY <1>2, <2>2
  <2>4. entries' = [k \in 1..n |-> entries[p[k]]]
    BY <1>1, <2>2
  <2> HIDE <1>1
  <2>5. entries' \in Seq(SymbolEntry) /\ DOMAIN entries' = 1..n
    BY <2>3, <2>4
  <2> QED
    BY <2>2, <2>4, <2>5
<1>4. /\ pc = "parse" /\ pc' = "scan" /\ index' = 1 /\ dups' = dups
      /\ listed' = listed /\ name' = name /\ stamped' = stamped
      /\ Parsed = Len(listed) /\ Parsed' = Len(listed)
  BY DEF Sort, Goto, input, listed, Parsed, IInv, TypeOK
<1>5. TypeOK'
  <2>1. index' \in Nat \ {0} /\ index' <= 1 + Len(entries')
    BY <1>3, <1>4
  <2> QED
    BY <1>3, <1>4, <2>1 DEF IInv, TypeOK, Sort, Goto, input, listed
<1>6. EntriesInv'
  <2>1. \A e \in DOMAIN entries' : p[e] \in DOMAIN entries /\ entries'[e] = entries[p[e]]
    BY <1>2, <1>3
  <2>2. \A e \in DOMAIN entries' :
          /\ entries'[e].object \in 1..Len(listed)
          /\ Strong(entries'[e].object)
          /\ entries'[e].symbol = listed[entries'[e].object].symbol
    BY <1>4, <2>1 DEF IInv, EntriesInv
  <2>3. ASSUME NEW e \in DOMAIN entries', NEW f \in DOMAIN entries',
               entries'[e].object = entries'[f].object
        PROVE  e = f
    <3>1. p[e] = p[f]
      BY <2>1, <2>3 DEF IInv, EntriesInv
    <3> QED
      BY <1>2, <1>3, <3>1
  <2>4. ASSUME name # "bracketed", NEW k \in 1..Len(listed), Strong(k)
        PROVE  \E e \in DOMAIN entries' : entries'[e].object = k
    <3>1. PICK e \in DOMAIN entries : entries[e].object = k
      BY <1>4, <2>4 DEF IInv, EntriesInv
    <3>2. PICK l \in DOMAIN entries : p[l] = e
      BY <1>2
    <3> QED
      BY <1>3, <3>1, <3>2
  <2> QED
    BY <1>4, <2>2, <2>3, <2>4 DEF EntriesInv, Strong
<1>7. ScanInv'
  BY <1>4 DEF Sort, IInv, ScanInv, TypeOK
<1>8. StampInv'
  BY <1>4 DEF IInv, StampInv, ListedIsValid
<1> QED
  BY <1>5, <1>6, <1>7, <1>8 DEF IInv

\* A round of the scan reports nothing only if the run is a single entry.
LEMMA ScanRunKeepsIInv ==
  ASSUME IInv, ScanRun
  PROVE  IInv'
<1> DEFINE j == RunEnd(index)
<1>1. index \in DOMAIN entries /\ index \in Nat /\ entries \in Seq(SymbolEntry)
  BY DEF IInv, TypeOK, ScanRun
<1>2. /\ j \in index + 1 .. Len(entries) + 1
      /\ \A k \in index .. j - 1 : entries[k].symbol = entries[index].symbol
      /\ j <= Len(entries) => entries[j].symbol # entries[index].symbol
  BY <1>1, RunEndFacts
<1>3. /\ pc = "scan" /\ pc' = "scan" /\ entries' = entries
      /\ listed' = listed /\ name' = name /\ stamped' = stamped
      /\ index' = j
      /\ dups' = IF j - index >= 2 THEN dups \o SubSeq(entries, index, j - 1)
                                   ELSE dups
  BY DEF ScanRun, input, listed
<1> HIDE DEF j
<1>10. /\ SubSeq(entries, index, j - 1) \in Seq(SymbolEntry)
       /\ Len(SubSeq(entries, index, j - 1)) = j - index
  BY <1>1, <1>2
<1>4. dups' \in Seq(SymbolEntry)
  BY <1>3, <1>10 DEF IInv, TypeOK
<1>5. TypeOK'
  BY <1>1, <1>2, <1>3, <1>4 DEF IInv, TypeOK, ScanRun, input, listed
<1>6. EntriesInv'
  BY <1>3 DEF IInv, EntriesInv, Parsed, Strong
<1>7. AllDiffer' <=> AllDiffer
  BY <1>3 DEF AllDiffer
<1>8. CASE j - index >= 2
  <2>1. ~AllDiffer
    <3>1. index + 1 \in index .. j - 1 /\ index + 1 \in DOMAIN entries
      BY <1>1, <1>2, <1>8
    <3> QED
      BY <1>1, <1>2, <3>1 DEF AllDiffer
  <2>2. dups' # <<>>
    <3>2. PICK s \in Seq(SymbolEntry) :
            s = SubSeq(entries, index, j - 1) /\ Len(s) = j - index
      BY <1>10
    <3>3. dups \in Seq(SymbolEntry) /\ dups' = dups \o s /\ Len(s) >= 2
      BY <1>3, <1>8, <3>2 DEF IInv, TypeOK
    <3>4. Len(dups') = Len(dups) + Len(s) /\ Len(dups) \in Nat
      BY <3>3
    <3> QED
      BY <3>3, <3>4
  <2> QED
    BY <1>3, <1>5, <1>6, <1>7, <2>1, <2>2
       DEF IInv, ScanInv, StampInv, ListedIsValid
<1>9. CASE ~(j - index >= 2)
  <2>1. j = index + 1 /\ dups' = dups
    BY <1>1, <1>2, <1>3, <1>9
  <2>2. ScanInv'
    <3>1. Sorted(entries)'
      BY <1>3 DEF IInv, ScanInv, Sorted
    <3>2. ASSUME dups = <<>>, NEW i \in 1..index, i + 1 \in DOMAIN entries
          PROVE  entries[i].symbol # entries[i + 1].symbol
      <4>1. \A k \in 1 .. index - 1 :
              k + 1 \in DOMAIN entries => entries[k].symbol # entries[k + 1].symbol
        BY <1>3, <3>2 DEF IInv, ScanInv
      <4>2. CASE i = index
        BY <1>1, <1>2, <2>1, <3>2, <4>2
      <4>3. CASE i # index
        BY <1>1, <3>2, <4>1, <4>3
      <4> QED
        BY <4>2, <4>3
    <3>3. index' - 1 = index
      BY <1>1, <1>3, <2>1
    <3> QED
      BY <1>3, <1>7, <2>1, <3>1, <3>2, <3>3 DEF IInv, ScanInv
  <2> QED
    BY <1>3, <1>5, <1>6, <2>2 DEF IInv, StampInv, ListedIsValid
<1> QED
  BY <1>8, <1>9

\* At the end of the scan, no report means that all entries differ.
LEMMA ScanDoneKeepsIInv ==
  ASSUME IInv, ScanDone
  PROVE  IInv'
<1> USE DEF ScanDone, Goto, input, listed
<1>1. TypeOK' /\ EntriesInv'
  BY DEF IInv, TypeOK, EntriesInv, Parsed, Strong
<1>2. dups = <<>> => AllDiffer
  <2>1. index >= Len(entries) + 1 /\ entries \in Seq(SymbolEntry)
    BY DEF IInv, TypeOK
  <2> QED
    BY <2>1, NeighboursDiffer DEF IInv, ScanInv, TypeOK
<1>3. ScanInv'
  BY <1>2 DEF IInv, ScanInv, AllDiffer
<1>4. StampInv'
  BY DEF IInv, StampInv, ListedIsValid
<1> QED
  BY <1>1, <1>3, <1>4 DEF IInv

\* A stamp is written only after a scan that found all entries to differ.
LEMMA EndKeepsIInv ==
  ASSUME IInv, Touch \/ TouchFails \/ Report
  PROVE  IInv'
<1> USE DEF Touch, TouchFails, Report, Exit, input, listed
<1>1. TypeOK'
  <2>1. exit' \in 0..2 /\ pc' = "done"
    OBVIOUS
  <2>3. stamped' \in BOOLEAN
    BY Zenon DEF IInv, TypeOK
  <2>2. index <= 1 + Len(IF pc' \in {"nm", "parse"} THEN listed ELSE entries)
    BY <2>1 DEF IInv, TypeOK
  <2> QED
    BY <2>1, <2>2, <2>3 DEF IInv, TypeOK
<1>2. EntriesInv'
  BY DEF IInv, TypeOK, EntriesInv, Parsed, Strong
<1>3. ScanInv'
  BY DEF IInv, ScanInv, AllDiffer
<1>4. StampInv'
  <2>1. CASE Touch \/ TouchFails
    <3>1. name # "bracketed" => Contract!DuplicatedIn(listed) = {}
      BY <2>1, DifferMeansValid DEF IInv, ScanInv
    <3> QED
      BY <2>1, <3>1 DEF StampInv, ListedIsValid, Contract!DuplicatedIn, Contract!StrongKinds
  <2>2. CASE Report
    BY <2>2 DEF IInv, StampInv, ListedIsValid
  <2> QED
    BY <2>1, <2>2
<1> QED
  BY <1>1, <1>2, <1>3, <1>4 DEF IInv

\* Every step keeps the inductive invariant.
LEMMA StepKeepsIInv == IInv /\ [Next]_vars => IInv'
<1> SUFFICES ASSUME IInv, [Next]_vars PROVE IInv'
  OBVIOUS
<1>1. CASE UNCHANGED vars
  BY <1>1 DEF vars, input, listed, IInv, TypeOK, EntriesInv, ScanInv, StampInv, Parsed,
              Strong, AllDiffer, Sorted, ListedIsValid
<1>2. CASE Next
  BY <1>1, <1>2, ToolsKeepIInv, ParseKeepsIInv, SortKeepsIInv, ScanRunKeepsIInv,
     ScanDoneKeepsIInv, EndKeepsIInv
     DEF Next, Main, Done
<1> QED
  BY <1>1, <1>2

\* The inductive invariant holds in every reachable state.
THEOREM Invariance == Spec => []IInv
  BY InitIInv, StepKeepsIInv, PTL DEF Spec

\* Every variable keeps its type, and the loops stay within bounds.
THEOREM TypeCorrect == Spec => []TypeOK
<1>1. IInv => TypeOK
  BY DEF IInv
<1> QED
  BY <1>1, Invariance, PTL

\* If no path or member's name has a ']' after a '[' and the listing was
\* captured, a stamp exists only for a library in which no two strong
\* definitions have one name.
THEOREM StampMeansValid ==
  ASSUME "bracketed" \notin ArchiveNames
  PROVE  Spec => []("nm" \notin lost => StampedIsValid)
<1>1. IInv => ("nm" \notin lost => StampedIsValid)
  <2> SUFFICES ASSUME IInv, "nm" \notin lost PROVE StampedIsValid
    OBVIOUS
  <2>1. listed = library
    BY ListedIsLibrary DEF IInv, TypeOK
  <2>2. name # "bracketed"
    BY DEF IInv, TypeOK
  <2>3. ListedIsValid
    BY <2>2 DEF IInv, StampInv
  <2> QED
    BY <2>1, <2>3 DEF StampedIsValid, ListedIsValid
<1> QED
  BY <1>1, Invariance, PTL

------------------------------------------------------------------------------
(* The report.                                                              *)

Twin(e) == \E f \in DOMAIN entries \ {e} : entries[f].symbol = entries[e].symbol

\* How many entries the scan has passed.
Scanned == IF pc = "scan" THEN index - 1 ELSE Len(entries)

Reporting == pc \in {"scan", "touch", "filt", "report"} \/ (pc = "done" /\ exit = 1)

\* What is reported are the twins among the entries passed, each once; the
\* scan is never inside a run.
ReportInv ==
  /\ name = "bracketed" => entries = <<>>
  /\ Reporting =>
       /\ \A d \in DOMAIN dups : \E e \in 1..Scanned : dups[d] = entries[e] /\ Twin(e)
       /\ \A e \in 1..Scanned : Twin(e) => \E d \in DOMAIN dups : dups[d] = entries[e]
       /\ \A c, d \in DOMAIN dups : dups[c].object = dups[d].object => c = d
  /\ pc = "scan" /\ index \in 2..Len(entries) =>
       entries[index - 1].symbol # entries[index].symbol
  /\ pc = "done" /\ exit = 1 =>
       /\ dups # <<>>
       /\ name # "bracketed" =>
            \A k \in DOMAIN listed :
              Strong(k) => \E e \in DOMAIN entries : entries[e].object = k

\* In sorted entries those of one symbol lie together.
LEMMA SameSymbolsLieTogether ==
  ASSUME entries \in Seq(SymbolEntry), Sorted(entries),
         NEW e \in DOMAIN entries, NEW f \in DOMAIN entries, NEW g \in e..f,
         entries[e].symbol = entries[f].symbol
  PROVE  entries[g].symbol = entries[e].symbol
<1>1. g \in DOMAIN entries
  OBVIOUS
<1>2. CASE g = e \/ g = f
  BY <1>2
<1>3. CASE e < g /\ g < f
  <2>1. /\ compare_symbol_entries(entries[e], entries[g]) <= 0
        /\ compare_symbol_entries(entries[g], entries[f]) <= 0
    BY <1>1, <1>3 DEF Sorted
  <2>2. compare_symbol_entries(entries[g], entries[f])
          = compare_symbol_entries(entries[g], entries[e])
    <3>1. ASSUME NEW c, NEW d, NEW h, d.symbol = h.symbol
          PROVE  compare_symbol_entries(c, d) = compare_symbol_entries(c, h)
      BY <3>1, Zenon DEF compare_symbol_entries
    <3> QED
      BY <3>1, Zenon
  <2>3. entries[e] \in SymbolEntry /\ entries[g] \in SymbolEntry
    BY <1>1
  <2>4. /\ entries[e].symbol \in Seq(0..255)
        /\ entries[g].symbol \in Seq(0..255)
    BY <2>3 DEF SymbolEntry
  <2> QED
    BY <2>1, <2>2, <2>4, CompareIsAntisymmetric
<1>4. e \in Int /\ f \in Int /\ g \in Int /\ e <= g /\ g <= f
  OBVIOUS
<1> QED
  BY <1>2, <1>3, <1>4

\* An entry of the run the scan is at has a twin if and only if the run has
\* two entries: the scan is not inside a run, and those of one symbol lie
\* together.
LEMMA TwinsAreInTheRun ==
  ASSUME entries \in Seq(SymbolEntry), Sorted(entries), NEW i \in DOMAIN entries,
         i \in 2..Len(entries) => entries[i - 1].symbol # entries[i].symbol,
         NEW e \in i .. RunEnd(i) - 1
  PROVE  Twin(e) <=> RunEnd(i) - i >= 2
<1> DEFINE j == RunEnd(i)
<1>1. /\ j \in i + 1 .. Len(entries) + 1 /\ i \in 1..Len(entries)
      /\ \A k \in i .. j - 1 : entries[k].symbol = entries[i].symbol
      /\ j <= Len(entries) => entries[j].symbol # entries[i].symbol
  BY RunEndFacts
<1> HIDE DEF j
<1>2. ASSUME j - i >= 2 PROVE Twin(e)
  <2> DEFINE f == IF e = i THEN i + 1 ELSE i
  <2>1. f \in DOMAIN entries \ {e} /\ f \in i .. j - 1
    BY <1>1, <1>2 DEF j
  <2>2. entries[f].symbol = entries[e].symbol
    BY <1>1, <2>1 DEF j
  <2> HIDE DEF f
  <2> QED
    BY <2>1, <2>2 DEF Twin
<1>3. ASSUME ~(j - i >= 2), Twin(e) PROVE FALSE
  <2>1. e = i /\ j = i + 1 /\ i \in Nat
    BY <1>1, <1>3 DEF j
  <2>2. PICK f \in DOMAIN entries \ {i} : entries[f].symbol = entries[i].symbol
    BY <1>3, <2>1 DEF Twin
  <2>3. CASE f > i
    <3>1. i + 1 \in i..f /\ j <= Len(entries)
      BY <1>1, <2>1, <2>2, <2>3
    <3>2. entries[i + 1].symbol = entries[i].symbol
      BY <2>2, <3>1, SameSymbolsLieTogether
    <3> QED
      BY <1>1, <2>1, <3>1, <3>2
  <2>4. CASE f < i
    <3>1. i - 1 \in f..i /\ i \in 2..Len(entries)
      BY <1>1, <2>2, <2>4
    <3>2. entries[i - 1].symbol = entries[f].symbol
      BY <2>2, <3>1, SameSymbolsLieTogether
    <3> QED
      BY <2>2, <3>1, <3>2
  <2>5. f \in Int /\ i \in Int /\ f # i
    BY <1>1, <2>2
  <2> QED
    BY <2>3, <2>4, <2>5
<1> QED
  BY <1>2, <1>3 DEF j

\* A part of one sequence appended to another.
LEMMA AppendedPart ==
  ASSUME NEW S, NEW s \in Seq(S), NEW t \in Seq(S), NEW i \in 1..Len(s),
         NEW j \in i + 1 .. Len(s) + 1, NEW u, u = t \o SubSeq(s, i, j - 1)
  PROVE  /\ DOMAIN u = 1 .. Len(t) + (j - i)
         /\ \A d \in 1..Len(t) : u[d] = t[d]
         /\ \A d \in Len(t) + 1 .. Len(t) + (j - i) : u[d] = s[d - Len(t) + i - 1]
<1> DEFINE r == SubSeq(s, i, j - 1)
<1>1. /\ r \in Seq(S) /\ Len(r) = j - i
      /\ \A d \in 1 .. j - i : r[d] = s[i + d - 1]
  OBVIOUS
<1> HIDE DEF r
<1>2. Len(t) \in Nat /\ i \in Nat /\ j \in Nat /\ u = t \o r
  BY DEF r
<1>3. /\ DOMAIN u = 1 .. Len(t) + (j - i)
      /\ \A d \in 1..Len(t) : u[d] = t[d]
      /\ \A d \in Len(t) + 1 .. Len(t) + (j - i) : u[d] = r[d - Len(t)]
  BY <1>1, <1>2
<1>4. ASSUME NEW d \in Len(t) + 1 .. Len(t) + (j - i) PROVE u[d] = s[d - Len(t) + i - 1]
  <2>1. d - Len(t) \in 1 .. j - i /\ i + (d - Len(t)) - 1 = d - Len(t) + i - 1
    BY <1>2
  <2> QED
    BY <1>1, <1>3, <2>1
<1> QED
  BY <1>3, <1>4

\* A round of the scan reports the run it is at if that has two entries.
LEMMA ScanRunKeepsReport ==
  ASSUME IInv, ReportInv, ScanRun
  PROVE  ReportInv'
<1> DEFINE i == index
           j == RunEnd(index)
<1>1. /\ i \in DOMAIN entries /\ i \in Nat /\ entries \in Seq(SymbolEntry)
      /\ dups \in Seq(SymbolEntry) /\ Sorted(entries) /\ pc = "scan"
  BY DEF IInv, TypeOK, ScanRun, ScanInv
<1>2. /\ j \in i + 1 .. Len(entries) + 1
      /\ \A k \in i .. j - 1 : entries[k].symbol = entries[i].symbol
      /\ j <= Len(entries) => entries[j].symbol # entries[i].symbol
  BY <1>1, RunEndFacts
<1>3. /\ pc' = "scan" /\ entries' = entries /\ name' = name /\ index' = j
      /\ dups' = IF j - i >= 2 THEN dups \o SubSeq(entries, i, j - 1) ELSE dups
  BY DEF ScanRun, input, listed
<1>4. \A e \in i .. j - 1 : Twin(e) <=> j - i >= 2
  BY <1>1, TwinsAreInTheRun DEF ReportInv
<1>5. /\ \A d \in DOMAIN dups : \E e \in 1 .. i - 1 : dups[d] = entries[e] /\ Twin(e)
      /\ \A e \in 1 .. i - 1 : Twin(e) => \E d \in DOMAIN dups : dups[d] = entries[e]
      /\ \A c, d \in DOMAIN dups : dups[c].object = dups[d].object => c = d
  BY <1>1 DEF ReportInv, Reporting, Scanned
<1>6. (\A e : Twin(e)' <=> Twin(e))
  BY <1>3 DEF Twin
<1>7. Scanned' = j - 1 /\ Reporting'
  BY <1>3 DEF Scanned, Reporting
<1>8. j \in 2..Len(entries) => entries[j - 1].symbol # entries[j].symbol
  BY <1>1, <1>2
<1> HIDE DEF i, j
<1>9. \A e \in 1 .. j - 1 : e \in 1 .. i - 1 \/ e \in i .. j - 1
  BY <1>1, <1>2
<1>10. \A e \in 1 .. i - 1 : e \in 1 .. j - 1
  BY <1>1, <1>2
<1>13. ASSUME /\ \A d \in DOMAIN dups' : \E e \in 1 .. j - 1 : dups'[d] = entries[e] /\ Twin(e)
              /\ \A e \in 1 .. j - 1 : Twin(e) => \E d \in DOMAIN dups' : dups'[d] = entries[e]
              /\ \A c, d \in DOMAIN dups' : dups'[c].object = dups'[d].object => c = d
       PROVE  ReportInv'
  <2>1. \A d \in DOMAIN dups' : \E e \in 1..Scanned' : dups'[d] = entries'[e] /\ Twin(e)'
    BY <1>3, <1>6, <1>7, <1>13
  <2>2. \A e \in 1..Scanned' : Twin(e)' => \E d \in DOMAIN dups' : dups'[d] = entries'[e]
    BY <1>3, <1>6, <1>7, <1>13
  <2>3. name' = "bracketed" => entries' = <<>>
    BY <1>3 DEF ReportInv
  <2>4. index' \in 2..Len(entries)' => entries'[index' - 1].symbol # entries'[index'].symbol
    BY <1>3, <1>8
  <2> QED
    BY <1>3, <1>13, <2>1, <2>2, <2>3, <2>4 DEF ReportInv
<1>11. CASE ~(j - i >= 2)
  <2>1. dups' = dups
    BY <1>3, <1>11
  <2>2. \A d \in DOMAIN dups : \E e \in 1 .. j - 1 : dups[d] = entries[e] /\ Twin(e)
    BY <1>5, <1>10
  <2>3. \A e \in 1 .. j - 1 : Twin(e) => \E d \in DOMAIN dups : dups[d] = entries[e]
    BY <1>4, <1>5, <1>9, <1>11
  <2> QED
    BY <1>1, <1>5, <1>13, <2>1, <2>2, <2>3
<1>12. CASE j - i >= 2
  <2> DEFINE n == Len(dups)
  <2>1. n \in Nat /\ DOMAIN dups = 1..n
    BY <1>1
  <2>2. dups' = dups \o SubSeq(entries, i, j - 1)
    BY <1>3, <1>12, Zenon
  <2>9. i \in 1..Len(entries) /\ j \in i + 1 .. Len(entries) + 1
    BY <1>1, <1>2
  <2>3. /\ DOMAIN dups' = 1 .. n + (j - i)
        /\ \A d \in 1..n : dups'[d] = dups[d]
        /\ \A d \in n + 1 .. n + (j - i) : dups'[d] = entries[d - n + i - 1]
    <3>1. PICK u : u = dups'
      OBVIOUS
    <3>2. /\ DOMAIN u = 1 .. Len(dups) + (j - i)
          /\ \A d \in 1..Len(dups) : u[d] = dups[d]
          /\ \A d \in Len(dups) + 1 .. Len(dups) + (j - i) : u[d] = entries[d - Len(dups) + i - 1]
      <4>1. entries \in Seq(SymbolEntry) /\ dups \in Seq(SymbolEntry)
        BY <1>1
      <4>2. u = dups \o SubSeq(entries, i, j - 1)
        BY <2>2, <3>1, Zenon
      <4> QED
        BY <2>9, <4>1, <4>2, AppendedPart
    <3> QED
      BY <3>1, <3>2, Zenon
  <2>8. i \in Nat /\ j \in Nat /\ 1 <= i /\ i < j /\ j - 1 <= Len(entries) /\ Len(entries) \in Nat
    BY <1>1, <1>2
  <2> HIDE DEF n
  <2>4. \A d \in n + 1 .. n + (j - i) :
          dups'[d] = entries[d - n + i - 1] /\ d - n + i - 1 \in i .. j - 1
    BY <2>1, <2>3, <2>8
  <2>5. \A d \in DOMAIN dups' : \E e \in 1 .. j - 1 : dups'[d] = entries[e] /\ Twin(e)
    <3> SUFFICES ASSUME NEW d \in DOMAIN dups'
                 PROVE  \E e \in 1 .. j - 1 : dups'[d] = entries[e] /\ Twin(e)
      OBVIOUS
    <3>1. CASE d \in 1..n
      BY <1>5, <1>10, <2>1, <2>3, <3>1
    <3>2. CASE d \in n + 1 .. n + (j - i)
      <4>1. d - n + i - 1 \in 1 .. j - 1
        BY <2>4, <2>8, <3>2
      <4> QED
        BY <1>4, <1>12, <2>4, <3>2, <4>1
    <3>3. d \in 1..n \/ d \in n + 1 .. n + (j - i)
      BY <2>1, <2>3, <2>8
    <3> QED
      BY <3>1, <3>2, <3>3
  <2>6. \A e \in 1 .. j - 1 : Twin(e) => \E d \in DOMAIN dups' : dups'[d] = entries[e]
    <3> SUFFICES ASSUME NEW e \in 1 .. j - 1, Twin(e)
                 PROVE  \E d \in DOMAIN dups' : dups'[d] = entries[e]
      OBVIOUS
    <3>1. CASE e \in 1 .. i - 1
      <4>1. PICK d \in 1..n : dups[d] = entries[e]
        BY <1>5, <2>1, <3>1
      <4>2. d \in DOMAIN dups'
        BY <2>1, <2>3, <2>8
      <4> QED
        BY <2>3, <4>1, <4>2
    <3>2. CASE e \in i .. j - 1
      <4> DEFINE d == n + (e - i) + 1
      <4>1. d \in n + 1 .. n + (j - i) /\ d \in DOMAIN dups' /\ d - n + i - 1 = e
        BY <2>1, <2>3, <2>8, <3>2
      <4> QED
        BY <2>4, <4>1
    <3> QED
      BY <1>9, <3>1, <3>2
  <2>7. ASSUME NEW c \in DOMAIN dups', NEW d \in DOMAIN dups',
               dups'[c].object = dups'[d].object
        PROVE  c = d
    <3>1. \A e \in DOMAIN entries, f \in DOMAIN entries :
            entries[e].object = entries[f].object => e = f
      BY DEF IInv, EntriesInv
    <3>2. \A x \in 1..n, y \in n + 1 .. n + (j - i) : dups'[x].object # dups'[y].object
      <4> TAKE x \in 1..n, y \in n + 1 .. n + (j - i)
      <4>1. PICK e \in 1 .. i - 1 : dups'[x] = entries[e]
        <5>1. x \in DOMAIN dups /\ dups'[x] = dups[x]
          BY <2>1, <2>3
        <5> QED
          BY <1>5, <5>1
      <4>2. PICK f \in i .. j - 1 : dups'[y] = entries[f]
        BY <2>4
      <4>3. e \in DOMAIN entries /\ f \in DOMAIN entries /\ e # f
        BY <1>1, <2>8
      <4> QED
        BY <3>1, <4>1, <4>2, <4>3
    <3>3. CASE c \in 1..n /\ d \in 1..n
      BY <1>5, <2>1, <2>3, <2>7, <3>3
    <3>4. CASE c \in n + 1 .. n + (j - i) /\ d \in n + 1 .. n + (j - i)
      <4>1. i .. j - 1 \subseteq DOMAIN entries
        BY <1>1, <2>8
      <4>2. c - n + i - 1 = d - n + i - 1
        BY <2>4, <2>7, <3>1, <3>4, <4>1
      <4> QED
        BY <2>1, <2>8, <3>4, <4>2
    <3>5. c \in 1 .. n + (j - i) /\ d \in 1 .. n + (j - i)
      BY <2>3
    <3>6. \A x \in 1 .. n + (j - i) : x \in 1..n \/ x \in n + 1 .. n + (j - i)
      BY <2>1, <2>8
    <3> QED
      BY <2>7, <3>2, <3>3, <3>4, <3>5, <3>6
  <2> QED
    BY <1>13, <2>5, <2>6, <2>7
<1> QED
  BY <1>11, <1>12

LEMMA ReportInvInit == ASSUME Init PROVE ReportInv
BY DEF Init, ReportInv, Reporting, Scanned

\* The other steps report nothing; main ends with 1 only from a report.
LEMMA StepKeepsReport ==
  ASSUME IInv, ReportInv, [Next]_vars
  PROVE  ReportInv'
<1>1. CASE UNCHANGED vars
  BY <1>1 DEF vars, input, listed, ReportInv, Reporting, Scanned, Twin, Strong
<1>2. CASE SetupFails \/ RunFails
  BY <1>2 DEF SetupFails, RunFails, Exit, input, listed, ReportInv, Reporting
<1>3. CASE RunTool \/ ToolEnds
  BY <1>3 DEF RunTool, ToolEnds, input, listed, ReportInv, Reporting, Scanned, Twin, Strong
<1>4. CASE RunSucceeds
  BY <1>4 DEF RunSucceeds, Goto, input, listed, ReportInv, Reporting, Scanned, Twin
<1>5. CASE ParseLine
  <2>1. name = "bracketed" => entries' = entries \o <<>>
    <3>1. name = "bracketed" => NmLine(index).form \in {"noise", "bracketed"}
      BY DEF NmLine
    <3> QED
      BY <1>5, <3>1 DEF ParseLine, parse_nm_line
  <2> QED
    BY <1>5, <2>1 DEF ParseLine, input, listed, ReportInv, Reporting
<1>6. CASE Sort
  <2>1. /\ pc' = "scan" /\ index' = 1 /\ dups' = <<>> /\ name' = name
        /\ \E p : entries' = [k \in DOMAIN entries |-> entries[p[k]]]
    BY <1>6 DEF Sort, Goto, input, listed, IInv, ScanInv
  <2>2. name = "bracketed" => entries' = <<>>
    BY <2>1 DEF ReportInv
  <2> QED
    BY <2>1, <2>2 DEF ReportInv, Reporting, Scanned
<1>7. CASE ScanRun
  BY <1>7, ScanRunKeepsReport
<1>8. CASE ScanDone
  <2>1. /\ pc = "scan" /\ pc' \in {"touch", "filt"}
        /\ UNCHANGED <<name, entries, index, dups, listed>>
        /\ index - 1 = Len(entries)
    BY <1>8 DEF ScanDone, Goto, input, listed, IInv, TypeOK
  <2>2. Scanned' = Scanned /\ Reporting /\ (\A e : Twin(e)' <=> Twin(e))
    BY <2>1 DEF Scanned, Reporting, Twin
  <2> QED
    BY <2>1, <2>2 DEF ReportInv
<1>9. CASE Touch \/ TouchFails
  BY <1>9 DEF Touch, TouchFails, Exit, input, listed, ReportInv, Reporting
<1>10. CASE Report
  <2>1. /\ pc = "report" /\ pc' = "done"
        /\ UNCHANGED <<name, entries, index, dups, listed>>
    BY <1>10 DEF Report, Exit, input, listed
  <2>2. Scanned' = Scanned /\ Reporting /\ (\A e : Twin(e)' <=> Twin(e))
    BY <2>1 DEF Scanned, Reporting, Twin
  <2>3. /\ dups # <<>>
        /\ name # "bracketed" =>
             \A k \in DOMAIN listed :
               Strong(k) => \E e \in DOMAIN entries : entries[e].object = k
    BY <2>1 DEF IInv, TypeOK, ScanInv, EntriesInv, Parsed
  <2> QED
    BY <2>1, <2>2, <2>3 DEF ReportInv, Strong
<1> QED
  BY <1>1, <1>2, <1>3, <1>4, <1>5, <1>6, <1>7, <1>8, <1>9, <1>10 DEF Next, Main, Done

\* What ReportInv says of the entries it says of the library.
LEMMA ReportedAreDuplicated ==
  ASSUME IInv, ReportInv, pc = "done", exit = 1
  PROVE  ReportIsExact
<1> DEFINE reported == [d \in DOMAIN dups |-> dups[d].object]
           wanted == {k \in DOMAIN listed :
                        /\ listed[k].kind \in Contract!StrongKinds
                        /\ listed[k].symbol \in Contract!DuplicatedIn(listed)}
<1>1. /\ Scanned = Len(entries) /\ Reporting /\ entries \in Seq(SymbolEntry)
      /\ dups \in Seq(SymbolEntry) /\ DOMAIN entries = 1..Len(entries)
      /\ listed \in Seq(Definition) /\ DOMAIN listed = 1..Parsed
  BY ListedIsLibrary DEF Scanned, Reporting, IInv, TypeOK, Parsed
<1>2. name # "bracketed"
  <2>1. PICK d \in DOMAIN dups : TRUE
    BY <1>1 DEF ReportInv
  <2>2. DOMAIN entries # {}
    BY <1>1, <2>1 DEF ReportInv
  <2> QED
    BY <2>2 DEF ReportInv
<1>3. \A e \in DOMAIN entries :
        /\ entries[e].object \in DOMAIN listed /\ Strong(entries[e].object)
        /\ entries[e].symbol = listed[entries[e].object].symbol
  BY <1>1 DEF IInv, EntriesInv
<1>4. ASSUME NEW e \in DOMAIN entries, Twin(e) PROVE entries[e].object \in wanted
  <2>1. PICK f \in DOMAIN entries \ {e} : entries[f].symbol = entries[e].symbol
    BY <1>4 DEF Twin
  <2>2. entries[f].object # entries[e].object
    BY <2>1 DEF IInv, EntriesInv
  <2>3. PICK k, l : k = entries[e].object /\ l = entries[f].object
    OBVIOUS
  <2>4. /\ k \in DOMAIN listed /\ l \in DOMAIN listed \ {k} /\ Strong(k) /\ Strong(l)
        /\ listed[k].symbol = listed[l].symbol
    BY <1>3, <2>1, <2>2, <2>3
  <2>5. listed[k].symbol \in Contract!DuplicatedIn(listed)
    BY <2>4 DEF Contract!DuplicatedIn, Strong
  <2> QED
    BY <2>3, <2>4, <2>5 DEF Strong
<1>5. ASSUME NEW k \in wanted PROVE \E e \in DOMAIN entries : entries[e].object = k /\ Twin(e)
  <2>1. PICK l \in DOMAIN listed \ {k} : Strong(l) /\ listed[l].symbol = listed[k].symbol
    <3>1. PICK i \in DOMAIN listed, j \in DOMAIN listed :
            /\ i # j /\ listed[k].symbol = listed[i].symbol /\ Strong(i) /\ Strong(j)
            /\ listed[j].symbol = listed[i].symbol
      BY DEF Contract!DuplicatedIn, Strong
    <3> QED
      BY <3>1
  <2>2. PICK e \in DOMAIN entries : entries[e].object = k
    BY <1>2 DEF ReportInv, Strong
  <2>3. PICK f \in DOMAIN entries : entries[f].object = l
    BY <1>2, <2>1 DEF ReportInv
  <2>4. entries[f].symbol = entries[e].symbol /\ f # e
    BY <1>3, <2>1, <2>2, <2>3
  <2> QED
    BY <2>2, <2>4 DEF Twin
<1>6. \A d \in DOMAIN dups : \E e \in DOMAIN entries : dups[d] = entries[e] /\ Twin(e)
  BY <1>1 DEF ReportInv
<1>7. \A e \in DOMAIN entries : Twin(e) => \E d \in DOMAIN dups : dups[d] = entries[e]
  BY <1>1 DEF ReportInv
<1> HIDE DEF wanted
<1>8. Range(reported) \subseteq wanted
  BY <1>4, <1>6 DEF Range
<1>9. wanted \subseteq Range(reported)
  <2> SUFFICES ASSUME NEW k \in wanted PROVE \E d \in DOMAIN dups : dups[d].object = k
    BY DEF Range
  <2> QED
    BY <1>5, <1>7
<1>10. IsInjective(reported)
  BY <1>1 DEF ReportInv, IsInjective
<1> HIDE DEF reported
<1>11. Range(reported) = wanted /\ IsInjective(reported)
  BY <1>8, <1>9, <1>10
<1>12. listed = library
  <2>1. listed # <<>>
    <3>1. PICK d \in DOMAIN dups : TRUE
      BY <1>1 DEF ReportInv
    <3>2. DOMAIN listed # {}
      BY <1>3, <1>6, <3>1
    <3> QED
      BY <3>2
  <2> QED
    BY <2>1, ListedIsLibrary DEF IInv, TypeOK
<1>13. "filt" \notin lost => Reported = dups
  BY DEF Reported
<1> QED
  BY <1>11, <1>12, <1>13, Zenon DEF ReportIsExact, reported, wanted

\* The report names the strong definitions of the duplicated symbols, each
\* once, and no others, in any archive: the runs that the scan cuts the sorted
\* entries into are the symbols.
THEOREM SpecReportIsExact == Spec => []ReportIsExact
<1>1. IInv /\ ReportInv => ReportIsExact
  BY ReportedAreDuplicated DEF ReportIsExact
<1>2. Init => ReportInv
  BY ReportInvInit
<1>3. IInv /\ ReportInv /\ [Next]_vars => ReportInv'
  BY StepKeepsReport
<1> QED
  BY <1>1, <1>2, <1>3, Invariance, PTL DEF Spec

------------------------------------------------------------------------------
(* The contract.                                                            *)

\* A step of the program is a step of the contract, or none.
LEMMA StepImplementsContract ==
  ASSUME "bracketed" \notin ArchiveNames, IInv, [Next]_vars
  PROVE  [Contract!ANext]_(Contract!avars)
<1> DEFINE verdict == IF pc # "done" THEN "pending"
                      ELSE CASE exit = 0 -> "valid"
                             [] exit = 1 -> "duplicates"
                             [] OTHER -> "error"
<1>1. name # "bracketed" /\ listed' = listed
  BY DEF IInv, TypeOK, Next, Main, vars, input, listed, SetupFails, RunTool, ToolEnds,
         RunFails, RunSucceeds, ParseLine, Sort, ScanRun, ScanDone, Touch,
         TouchFails, Report, Done
<1>2. CASE Touch
  <2>1. Contract!DuplicatedIn(listed) = {}
    BY <1>1, <1>2, DifferMeansValid DEF IInv, ScanInv, Touch
  <2>2. Contract!Accept
    BY <1>1, <1>2, <2>1 DEF Contract!Accept, Touch, Exit
  <2> QED
    BY <2>2 DEF Contract!ANext
<1>3. CASE Report /\ exit' = 1
  <2>1. Contract!DuplicatedIn(listed) # {}
    BY <1>3, TwinsMeanDuplicated DEF IInv, ScanInv, Report
  <2>2. Contract!Reject
    BY <1>1, <1>3, <2>1 DEF Contract!Reject, Report, Exit
  <2> QED
    BY <2>2 DEF Contract!ANext
<1>4. CASE TouchFails
  <2>1. Contract!DuplicatedIn(listed) = {}
    BY <1>1, <1>4, DifferMeansValid DEF IInv, ScanInv, TouchFails
  <2>2. stamped' \in {stamped, Contract!DuplicatedIn(listed) = {}}
    BY <1>4, <2>1 DEF TouchFails, IInv, StampInv, TypeOK
  <2>3. Contract!Fail
    BY <1>1, <1>4, <2>2 DEF Contract!Fail, TouchFails, Exit
  <2> QED
    BY <2>3 DEF Contract!ANext
<1>5. CASE SetupFails \/ RunFails \/ (Report /\ exit' # 1)
  <2>1. Contract!Fail
    BY <1>1, <1>5 DEF Contract!Fail, SetupFails, RunFails, Report, Exit
  <2> QED
    BY <2>1 DEF Contract!ANext
<1>6. CASE RunTool \/ ToolEnds \/ RunSucceeds \/ ParseLine \/ Sort \/ ScanRun
           \/ ScanDone \/ Done \/ UNCHANGED vars
  BY <1>1, <1>6 DEF Contract!avars, RunTool, ToolEnds, RunSucceeds, ParseLine, Sort,
     ScanRun, ScanDone, Done, Goto, vars, input, listed
<1> QED
  BY <1>2, <1>3, <1>4, <1>5, <1>6 DEF Next, Main

\* The program implements LibraryVerdict: every verdict it ends in, and every
\* stamp it leaves, is one the definitions call for whose listing reaches it.
THEOREM Implementation ==
  ASSUME "bracketed" \notin ArchiveNames
  PROVE  Spec => ImplementsContract
<1>1. Init => Contract!AInit
  BY DEF Init, Contract!AInit
<1>2. IInv /\ [Next]_vars => [Contract!ANext]_(Contract!avars)
  BY StepImplementsContract
<1> QED
  BY <1>1, <1>2, Invariance, PTL DEF Spec, ImplementsContract, Contract!ASpec
==============================================================================
