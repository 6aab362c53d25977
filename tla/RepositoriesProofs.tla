-------------------------- MODULE RepositoriesProofs --------------------------
(***************************************************************************)
(* What the run of Repositories checks on a small instance, proved for      *)
(* every list of modules, every tag, every index and every source tree: who *)
(* decides on the macOS SDK, on LLVM's version, source and seed, on GCC's   *)
(* source and on the Linux headers, what adds up, that the overlay is laid  *)
(* over LLVM's sources, and that no release is missed.                      *)
(***************************************************************************)
EXTENDS Repositories, SequencesExt, SequenceTheorems,
        FiniteSetTheorems, WellFoundedInduction, TLAPS

------------------------------------------------------------------------------
(* What the proofs need of numbers and of folds.  The library's theorems    *)
(* on induction and recursion have an operator for a parameter; those here  *)
(* have a set or a function, which a proof can put in.                      *)

\* A non-empty set of natural numbers has a least element.
LEMMA NatMin ==
  ASSUME NEW T, T \subseteq Nat, T # {}
  PROVE  \E m \in T : \A y \in T : m <= y
<1> DEFINE R == OpToRel(<, Nat)
<1>1. IsWellFoundedOn(R, Nat)
  BY NatLessThanWellFounded, Zenon
<1>2. ASSUME NEW x \in Nat, NEW y \in Nat, y < x
      PROVE  <<y, x>> \in R
  BY <1>2 DEF OpToRel
<1> HIDE DEF R
<1>3. \E x \in T : \A y \in T : ~ (<<y, x>> \in R)
  BY <1>1, WFMin, Zenon
<1>4. PICK m \in T : \A y \in T : ~ (<<y, m>> \in R)
  BY <1>3, Zenon
<1>5. ASSUME NEW y \in T PROVE m <= y
  <2>1. m \in Nat /\ y \in Nat
    OBVIOUS
  <2>2. ~ (y < m)
    BY <1>2, <1>4, <2>1, Zenon
  <2> QED
    BY <2>1, <2>2
<1> QED
  BY <1>4, <1>5

\* A non-empty set of numbers up to n has a greatest one.
LEMMA MaxOf ==
  ASSUME NEW n \in Nat, NEW S, S \subseteq 0 .. n, S # {}
  PROVE  Max(S) \in S /\ \A y \in S : y <= Max(S)
<1> DEFINE T == {n - y : y \in S}
<1>1. T \subseteq Nat /\ T # {}
  <2>1. \A y \in S : n - y \in Nat
    OBVIOUS
  <2> QED
    BY <2>1
<1>2. PICK m \in T : \A y \in T : m <= y
  BY <1>1, NatMin
<1>3. PICK x \in S : m = n - x
  BY <1>2
<1>4. \A y \in S : x >= y
  <2> TAKE y \in S
  <2>1. n - y \in T
    OBVIOUS
  <2>2. n - x <= n - y
    BY <1>2, <1>3, <2>1
  <2>3. x \in Int /\ y \in Int
    OBVIOUS
  <2> QED
    BY <2>2, <2>3
<1> QED
  BY <1>4 DEF Max

\* Two sequences end to end have the elements of both.
LEMMA ConcatRange ==
  ASSUME NEW S, NEW s \in Seq(S), NEW t \in Seq(S)
  PROVE  s \o t \in Seq(S) /\ Range(s \o t) = Range(s) \cup Range(t)
<1>1. /\ s \o t \in Seq(S) /\ DOMAIN (s \o t) = 1 .. Len(s) + Len(t)
      /\ DOMAIN s = 1 .. Len(s) /\ DOMAIN t = 1 .. Len(t) /\ Len(s) \in Nat /\ Len(t) \in Nat
      /\ \A k \in 1 .. Len(s) : (s \o t)[k] = s[k]
      /\ \A k \in 1 .. Len(t) : (s \o t)[Len(s) + k] = t[k]
  OBVIOUS
<1>2. \A k \in 1 .. Len(s) + Len(t) : k \in 1 .. Len(s) \/ k - Len(s) \in 1 .. Len(t)
  BY <1>1
<1>3. \A k \in 1 .. Len(s) + Len(t) : Len(s) + (k - Len(s)) = k
  BY <1>1
<1>4. \A k \in 1 .. Len(t) : Len(s) + k \in 1 .. Len(s) + Len(t)
  BY <1>1
<1>5. \A k \in 1 .. Len(s) : k \in 1 .. Len(s) + Len(t)
  BY <1>1
<1>6. Range(s \o t) \subseteq Range(s) \cup Range(t)
  BY <1>1, <1>2, <1>3 DEF Range
<1>7. Range(s) \subseteq Range(s \o t) /\ Range(t) \subseteq Range(s \o t)
  BY <1>1, <1>4, <1>5 DEF Range
<1> QED
  BY <1>1, <1>6, <1>7

------------------------------------------------------------------------------
Fields == {"sdk", "includes", "version", "source", "seed", "gcc", "execs", "targets"}

\* The modules are what GraphsAssumption and SeedsAssumption say.
ModulesOK ==
  /\ Len(modules) \in Nat /\ DOMAIN modules = 1 .. Len(modules)
  /\ \A k \in DOMAIN modules :
       /\ modules[k].root \in BOOLEAN /\ (modules[k].root => k = 1)
       /\ \A c \in DOMAIN modules[k].tags :
            /\ IsSequence(modules[k].tags[c])
            /\ \A i \in DOMAIN modules[k].tags[c] : modules[k].tags[c][i] \notin {None, "host"}
       /\ "index" \in DOMAIN modules[k].tags =>
            \A i \in DOMAIN modules[k].tags["index"] : modules[k].tags["index"][i] \in DOMAIN Seeds

StateOK ==
  /\ walk \in Walks \cup {"done", "failed"}
  /\ at \in 1 .. Len(modules) + 1
  /\ DOMAIN listed = {"first", "second"}
  /\ declared = [f \in Fields |-> declared[f]]
  /\ walk \in FirstWalks => declared = Nothing

\* The walks that look for one answer.
ChoiceWalks == {"sdk", "version", "source", "seed", "gcc"}

\* The root's answer is that of the first module.
RootInv ==
  /\ at = 1 => root = None /\ dependency = None
  /\ IF root # None
     THEN 1 \in DOMAIN modules /\ modules[1].root /\ root = Offer(walk, modules[1])
     ELSE at > 1 /\ modules[1].root => Offer(walk, modules[1]) = None

\* Without one the last module that has been visited and asks is answered.
DependencyInv ==
  root = None =>
    \/ dependency = None /\ \A k \in 1 .. at - 1 : Offer(walk, modules[k]) = None
    \/ \E k \in 1 .. at - 1 :
         /\ dependency = Offer(walk, modules[k]) /\ dependency # None
         /\ \A j \in 1 .. at - 1 : Offer(walk, modules[j]) # None => j <= k

ChoiceInv == walk \in ChoiceWalks => RootInv /\ DependencyInv

\* A walk that the root ends has seen no dependency.
JumpInv == walk \in {"version", "seed"} /\ root # None => at = Len(modules) + 1 /\ dependency = None

\* All dependencies visited that ask for a path ask for the one kept.
AgreeInv ==
  walk = "gcc" =>
    \A k \in 1 .. at - 1 :
      ~modules[k].root /\ Offer("gcc", modules[k]) # None => Offer("gcc", modules[k]) = dependency

\* At most one override has been visited, and it is the one kept.
OverrideInv ==
  walk = "source" =>
    /\ \A o, p \in Overrides : o[1] < at /\ p[1] < at => o = p
    /\ \A o \in Overrides : o[1] < at => Chosen = Tags(modules[o[1]], "override")[o[2]]
    /\ Chosen # None => \E o \in Overrides : o[1] < at

Results ==
  RootElseLastDependency /\ HostSdkOnlyOnMac /\ OneSource /\ SeedFitsVersion /\ PathsAgree

IInv ==
  ModulesOK /\ StateOK /\ ChoiceInv /\ JumpInv /\ AgreeInv /\ OverrideInv /\ Results

------------------------------------------------------------------------------
(* Tags and offers.                                                         *)

\* What a module's tags are, whether it has any of the class or not.
LEMMA TagsFact ==
  ASSUME ModulesOK, NEW k \in DOMAIN modules, NEW c
  PROVE /\ Len(Tags(modules[k], c)) \in Nat
        /\ DOMAIN Tags(modules[k], c) = 1 .. Len(Tags(modules[k], c))
        /\ Len(Tags(modules[k], c)) = 0 <=> Tags(modules[k], c) = <<>>
        /\ \A i \in DOMAIN Tags(modules[k], c) : Tags(modules[k], c)[i] \notin {None, "host"}
<1> DEFINE t == Tags(modules[k], c)
<1>1. CASE c \in DOMAIN modules[k].tags
  <2>1. t = modules[k].tags[c]
    BY <1>1 DEF Tags
  <2>2. Len(t) \in Nat /\ t = [i \in 1 .. Len(t) |-> t[i]]
    BY <1>1, <2>1 DEF ModulesOK, IsSequence
  <2>3. \A i \in DOMAIN t : t[i] \notin {None, "host"}
    BY <1>1, <2>1 DEF ModulesOK
  <2>4. Len(t) = 0 => t = <<>>
    BY <2>2
  <2> QED
    BY <2>2, <2>3, <2>4
<1>2. CASE c \notin DOMAIN modules[k].tags
  BY <1>2 DEF Tags
<1> QED
  BY <1>1, <1>2

LEMMA OfferUnchanged == ASSUME env' = env, NEW w, NEW m PROVE Offer(w, m)' = Offer(w, m)
BY DEF Offer, ModuleSdk

LEMMA ChoiceUnchanged ==
  ASSUME UNCHANGED input, NEW w, NEW x PROVE IsChoice(w, x)' = IsChoice(w, x)
BY OfferUnchanged DEF IsChoice, Asking, input

\* What a finished walk has chosen.
LEMMA ChosenIsChoice ==
  ASSUME ModulesOK, StateOK, walk \in ChoiceWalks, ChoiceInv, at \notin DOMAIN modules
  PROVE IsChoice(walk, Chosen)
<1>1. at = Len(modules) + 1 /\ Len(modules) \in Nat /\ DOMAIN modules = 1 .. Len(modules)
  BY DEF ModulesOK, StateOK
<1>2. CASE root # None
  <2>1. 1 \in DOMAIN modules /\ modules[1].root /\ root = Offer(walk, modules[1]) /\ Chosen = root
    BY <1>2 DEF ChoiceInv, RootInv, Chosen
  <2> QED
    BY <1>2, <2>1 DEF IsChoice, Asking
<1>3. CASE root = None
  <2>1. \A k \in Asking(walk) : ~modules[k].root
    BY <1>1, <1>3 DEF ChoiceInv, RootInv, Asking, ModulesOK
  <2>2. Chosen = dependency
    BY <1>3 DEF Chosen
  <2>3. CASE dependency = None
    BY <1>1, <1>3, <2>2, <2>3 DEF ChoiceInv, DependencyInv, IsChoice, Asking
  <2>4. CASE dependency # None
    BY <1>1, <1>3, <2>1, <2>2, <2>4 DEF ChoiceInv, DependencyInv, IsChoice, Asking
  <2> QED
    BY <2>3, <2>4
<1> QED
  BY <1>2, <1>3

------------------------------------------------------------------------------
(* Steps.                                                                   *)

LEMMA InitIInv == Init => IInv
<1> SUFFICES ASSUME Init PROVE IInv
  OBVIOUS
<1> USE DEF Init
<1>1. PICK w \in FirstWalks : walk = w /\ modules \in Graphs[w]
  OBVIOUS
<1>2. IsSequence(modules)
  BY <1>1, GraphsAssumption
<1>3. Len(modules) \in Nat /\ DOMAIN modules = 1 .. Len(modules)
  BY <1>2 DEF IsSequence
<1>4. ModulesOK
  <2> SUFFICES ASSUME NEW k \in DOMAIN modules
               PROVE /\ modules[k].root \in BOOLEAN /\ (modules[k].root => k = 1)
                     /\ \A c \in DOMAIN modules[k].tags :
                          /\ IsSequence(modules[k].tags[c])
                          /\ \A i \in DOMAIN modules[k].tags[c] :
                               modules[k].tags[c][i] \notin {None, "host"}
                     /\ "index" \in DOMAIN modules[k].tags =>
                          \A i \in DOMAIN modules[k].tags["index"] :
                            modules[k].tags["index"][i] \in DOMAIN Seeds
    BY <1>3 DEF ModulesOK
  <2>1. /\ modules[k].root \in BOOLEAN /\ (modules[k].root => k = 1)
        /\ \A c \in DOMAIN modules[k].tags :
             /\ IsSequence(modules[k].tags[c])
             /\ \A i \in DOMAIN modules[k].tags[c] : modules[k].tags[c][i] \notin {None, "host"}
    BY <1>1, GraphsAssumption
  <2>2. "index" \in DOMAIN modules[k].tags =>
          \A i \in DOMAIN modules[k].tags["index"] : modules[k].tags["index"][i] \in DOMAIN Seeds
    BY <1>1, SeedsAssumption
  <2> QED
    BY <2>1, <2>2
<1>5. StateOK
  <2>1. declared = [f \in Fields |-> declared[f]]
    BY DEF Nothing, Fields
  <2>2. DOMAIN listed = {"first", "second"}
    OBVIOUS
  <2>3. walk \in Walks \cup {"done", "failed"}
    BY DEF Walks
  <2> QED
    BY <1>3, <2>1, <2>2, <2>3 DEF StateOK
<1>6. ChoiceInv /\ JumpInv /\ AgreeInv
  BY <1>3 DEF ChoiceInv, RootInv, DependencyInv, JumpInv, AgreeInv
<1>7. OverrideInv
  BY <1>1 DEF OverrideInv, FirstWalks
<1>8. Results
  <2>1. /\ declared.sdk = None /\ declared.version = None /\ declared.source = None
        /\ declared.seed = None /\ declared.gcc = None
    BY DEF Nothing
  <2> QED
    BY <2>1, NoneAssumption
       DEF Results, RootElseLastDependency, HostSdkOnlyOnMac, OneSource, SeedFitsVersion, PathsAgree
<1> QED
  BY <1>4, <1>5, <1>6, <1>7, <1>8 DEF IInv

\* A module's answer is kept where it belongs, also if the root's ends the walk.
LEMMA TakeKeepsChoice ==
  ASSUME ModulesOK, at \in DOMAIN modules, RootInv, DependencyInv, Take(walk),
         \/ at' = at + 1
         \/ at' = Len(modules) + 1 /\ Module.root /\ Offer(walk, Module) # None
  PROVE RootInv' /\ DependencyInv' /\ (Module.root => at = 1 /\ dependency' = None)
<1> DEFINE o(k) == Offer(walk, modules[k])
<1>1. \A k : Offer(walk, modules[k])' = o(k)
  BY OfferUnchanged DEF Take, input
<1>2. modules' = modules /\ Len(modules) \in Nat /\ DOMAIN modules = 1 .. Len(modules)
  BY DEF ModulesOK, Take, input
<1>3. /\ root' = IF modules[at].root THEN o(at) ELSE root
      /\ dependency' = IF ~modules[at].root /\ o(at) # None THEN o(at) ELSE dependency
  BY DEF Take, Module
<1>4. modules[at].root => at = 1 /\ root = None /\ dependency = None
  BY DEF ModulesOK, RootInv
<1>5. at' \in Nat /\ at' > at /\ at' > 1 /\ (at' # at + 1 => modules[at].root /\ o(at) # None)
  BY <1>2 DEF Module
<1>6. /\ root # None => 1 \in DOMAIN modules /\ modules[1].root /\ root = o(1)
      /\ root = None /\ at > 1 /\ modules[1].root => o(1) = None
  BY DEF RootInv
<1>7. RootInv'
  <2>1. root' # None => 1 \in DOMAIN modules /\ modules[1].root /\ root' = o(1)
    BY <1>2, <1>3, <1>4, <1>6
  <2>2. root' = None /\ modules[1].root => o(1) = None
    BY <1>2, <1>3, <1>4, <1>6
  <2> HIDE DEF o
  <2> QED
    BY <1>1, <1>2, <1>5, <2>1, <2>2 DEF RootInv, o
<1>8. DependencyInv'
  <2> SUFFICES ASSUME root' = None PROVE DependencyInv'
    BY DEF DependencyInv
  <2>1. root = None /\ (modules[at].root => o(at) = None) /\ at' = at + 1
    BY <1>3, <1>4, <1>5
  <2>2. \/ dependency = None /\ \A k \in 1 .. at - 1 : o(k) = None
        \/ \E k \in 1 .. at - 1 :
             /\ dependency = o(k) /\ dependency # None
             /\ \A j \in 1 .. at - 1 : o(j) # None => j <= k
    BY <2>1 DEF DependencyInv
  <2> HIDE DEF o
  <2>3. at \in Nat /\ at >= 1 /\ at' - 1 = at /\ 1 .. at = (1 .. at - 1) \cup {at}
    BY <1>2, <2>1
  <2>4. \/ dependency' = None /\ \A k \in 1 .. at : o(k) = None
        \/ \E k \in 1 .. at :
             /\ dependency' = o(k) /\ dependency' # None
             /\ \A j \in 1 .. at : o(j) # None => j <= k
    <3>1. CASE o(at) = None
      <4>1. dependency' = dependency
        BY <1>3, <3>1
      <4>2. CASE dependency = None /\ \A k \in 1 .. at - 1 : o(k) = None
        BY <2>3, <3>1, <4>1, <4>2
      <4>3. CASE ~(dependency = None /\ \A k \in 1 .. at - 1 : o(k) = None)
        <5>1. PICK k \in 1 .. at - 1 :
                /\ dependency = o(k) /\ dependency # None
                /\ \A j \in 1 .. at - 1 : o(j) # None => j <= k
          BY <2>2, <4>3
        <5> QED
          BY <2>3, <3>1, <4>1, <5>1
      <4> QED
        BY <4>2, <4>3
    <3>2. CASE o(at) # None
      <4>1. dependency' = o(at)
        BY <1>3, <2>1, <3>2
      <4>2. at \in 1 .. at /\ \A j \in 1 .. at : j <= at
        BY <2>3
      <4> QED
        BY <3>2, <4>1, <4>2
    <3> QED
      BY <3>1, <3>2
  <2> QED
    BY <2>3, <2>4, <1>1 DEF DependencyInv
<1> QED
  BY <1>3, <1>4, <1>7, <1>8 DEF Module

LEMMA ModulesUnchanged == ASSUME ModulesOK, UNCHANGED input PROVE ModulesOK'
BY DEF ModulesOK, input, IsSequence

LEMMA OverridesUnchanged == ASSUME UNCHANGED input PROVE Overrides' = Overrides
BY DEF Overrides, input, Tags

\* What has been declared stays right for as long as it stays.
LEMMA ResultsUnchanged == ASSUME Results, UNCHANGED <<input, declared>> PROVE Results'
<1>1. modules' = modules /\ env' = env /\ declared' = declared /\ ForceHost' = ForceHost
  BY DEF input, ForceHost
<1>2. RootElseLastDependency'
  <2>1. /\ IsChoice("sdk", declared.sdk)' = IsChoice("sdk", declared.sdk)
        /\ IsChoice("version", declared.version)' = IsChoice("version", declared.version)
    BY <1>1, ChoiceUnchanged DEF input
  <2> QED
    BY <1>1, <2>1 DEF Results, RootElseLastDependency
<1>3. HostSdkOnlyOnMac'
  BY <1>1 DEF Results, HostSdkOnlyOnMac
<1>4. OneSource'
  BY <1>1, OverridesUnchanged DEF Results, OneSource, input, Tags
<1>5. SeedFitsVersion'
  BY <1>1, ChoiceUnchanged DEF Results, SeedFitsVersion
<1>6. PathsAgree'
  BY <1>1, ChoiceUnchanged, OfferUnchanged DEF Results, PathsAgree, Asking
<1> QED
  BY <1>2, <1>3, <1>4, <1>5, <1>6 DEF Results

LEMMA FailKeeps == ASSUME IInv, Fail PROVE IInv'
<1>1. UNCHANGED <<input, declared, modules, at, listed>> /\ walk' = "failed"
  BY DEF Fail, input
<1>2. ModulesOK' /\ Results'
  BY <1>1, ModulesUnchanged, ResultsUnchanged DEF IInv
<1>3. StateOK'
  BY <1>1 DEF IInv, StateOK, FirstWalks
<1>4. ChoiceInv' /\ JumpInv' /\ AgreeInv' /\ OverrideInv'
  BY <1>1 DEF ChoiceInv, JumpInv, AgreeInv, OverrideInv, ChoiceWalks
<1> QED
  BY <1>2, <1>3, <1>4 DEF IInv

\* A walk goes on to the next module, or past the last.
LEMMA VisitKeeps ==
  ASSUME IInv, walk \in Walks, at \in DOMAIN modules, UNCHANGED <<input, walk, declared>>,
         at' \in {at + 1, Len(modules) + 1}, DOMAIN listed' = {"first", "second"}
  PROVE ModulesOK' /\ StateOK' /\ Results' /\ modules' = modules
<1>1. modules' = modules /\ walk' = walk /\ declared' = declared
  BY DEF input
<1>2. ModulesOK' /\ Results'
  BY ModulesUnchanged, ResultsUnchanged DEF IInv
<1>3. at' \in 1 .. Len(modules) + 1
  BY DEF IInv, ModulesOK
<1>4. StateOK'
  BY <1>1, <1>3 DEF IInv, StateOK
<1> QED
  BY <1>1, <1>2, <1>4

\* Two extensions stop at the root's answer; the others never stop early.
LEMMA TakeKeeps ==
  ASSUME IInv, walk \in ChoiceWalks, at \in DOMAIN modules, Take(walk),
         at' = IF walk \in {"version", "seed"} /\ Module.root /\ Offer(walk, Module) # None
               THEN Len(modules) + 1 ELSE at + 1
  PROVE ModulesOK' /\ StateOK' /\ ChoiceInv' /\ JumpInv' /\ Results' /\ modules' = modules
<1>1. ModulesOK' /\ StateOK' /\ Results' /\ modules' = modules
  BY VisitKeeps DEF Take, ChoiceWalks, Walks, FirstWalks, IInv, StateOK
<1>2. ModulesOK /\ RootInv /\ DependencyInv /\ JumpInv
  BY DEF IInv, ChoiceInv
<1>3. RootInv' /\ DependencyInv' /\ (Module.root => at = 1 /\ dependency' = None)
  BY <1>2, TakeKeepsChoice
<1>4. ChoiceInv'
  BY <1>3 DEF ChoiceInv
<1>5. JumpInv'
  <2> SUFFICES ASSUME walk \in {"version", "seed"}, root' # None
               PROVE at' = Len(modules) + 1 /\ dependency' = None
    BY <1>1 DEF JumpInv, Take
  <2>1. root = None
    BY <1>2 DEF JumpInv, ModulesOK
  <2>2. Module.root /\ Offer(walk, Module) # None
    BY <2>1 DEF Take
  <2> QED
    BY <1>3, <2>2
<1> QED
  BY <1>1, <1>4, <1>5

\* A new walk starts with nothing found.
LEMMA DeclareKeeps ==
  ASSUME IInv, NEW d, NEW next \in {"contents", "source", "seed", "done"},
         d = [f \in Fields |-> d[f]], Declare(d, next)
  PROVE ModulesOK' /\ StateOK' /\ ChoiceInv' /\ JumpInv' /\ AgreeInv' /\ OverrideInv'
<1>1. /\ UNCHANGED input /\ modules' = modules /\ declared' = d /\ walk' = next /\ at' = 1
      /\ root' = None /\ dependency' = None /\ DOMAIN listed' = {"first", "second"}
  BY DEF Declare, input
<1>2. Len(modules) \in Nat /\ DOMAIN modules = 1 .. Len(modules)
  BY DEF IInv, ModulesOK
<1>3. ModulesOK'
  BY <1>1, ModulesUnchanged DEF IInv
<1>4. StateOK'
  <2>1. walk' \in (Walks \cup {"done", "failed"}) \ FirstWalks
    BY <1>1 DEF Walks, FirstWalks
  <2>2. declared' = [f \in Fields |-> declared'[f]]
    BY <1>1
  <2> QED
    BY <1>1, <1>2, <2>1, <2>2 DEF StateOK
<1>5. ChoiceInv'
  BY <1>1 DEF ChoiceInv, RootInv, DependencyInv
<1>6. JumpInv' /\ AgreeInv'
  BY <1>1 DEF JumpInv, AgreeInv
<1>7. OverrideInv'
  <2>1. \A o \in Overrides' : ~(o[1] < at')
    BY <1>1, <1>2 DEF Overrides
  <2>2. Chosen' = None
    BY <1>1 DEF Chosen
  <2> QED
    BY <2>1, <2>2 DEF OverrideInv
<1> QED
  BY <1>3, <1>4, <1>5, <1>6, <1>7

\* What one declaration leaves right of the others.
LEMMA OtherResults ==
  ASSUME IInv, UNCHANGED input, NEW f \in Fields, NEW v, declared' = [declared EXCEPT ![f] = v]
  PROVE /\ f \notin {"sdk", "version"} => RootElseLastDependency'
        /\ f # "sdk" => HostSdkOnlyOnMac'
        /\ f \notin {"source", "version"} => OneSource'
        /\ f \notin {"seed", "version"} => SeedFitsVersion'
        /\ f # "gcc" => PathsAgree'
<1>1. modules' = modules /\ env' = env /\ ForceHost' = ForceHost
  BY DEF input, ForceHost
<1>2. \A g \in Fields : g # f => declared'[g] = declared[g]
  BY DEF IInv, StateOK
<1>3. /\ "sdk" \in Fields /\ "version" \in Fields /\ "source" \in Fields
      /\ "seed" \in Fields /\ "gcc" \in Fields
  BY DEF Fields
<1>4. f \notin {"sdk", "version"} => RootElseLastDependency'
  <2> SUFFICES ASSUME f \notin {"sdk", "version"} PROVE RootElseLastDependency'
    OBVIOUS
  <2>1. declared'.sdk = declared.sdk /\ declared'.version = declared.version
    BY <1>2, <1>3
  <2>2. /\ IsChoice("sdk", declared.sdk)' = IsChoice("sdk", declared.sdk)
        /\ IsChoice("version", declared.version)' = IsChoice("version", declared.version)
    BY <2>1, OfferUnchanged, <1>1 DEF IsChoice, Asking
  <2> QED
    BY <1>1, <2>1, <2>2 DEF IInv, Results, RootElseLastDependency
<1>5. f # "sdk" => HostSdkOnlyOnMac'
  BY <1>1, <1>2, <1>3 DEF IInv, Results, HostSdkOnlyOnMac
<1>6. f \notin {"source", "version"} => OneSource'
  <2> SUFFICES ASSUME f \notin {"source", "version"} PROVE OneSource'
    OBVIOUS
  <2>1. declared'.source = declared.source /\ declared'.version = declared.version
    BY <1>2, <1>3
  <2> QED
    BY <1>1, <2>1, OverridesUnchanged DEF IInv, Results, OneSource, Tags
<1>7. f \notin {"seed", "version"} => SeedFitsVersion'
  <2> SUFFICES ASSUME f \notin {"seed", "version"} PROVE SeedFitsVersion'
    OBVIOUS
  <2>1. declared'.seed = declared.seed /\ declared'.version = declared.version
    BY <1>2, <1>3
  <2> QED
    BY <2>1, ChoiceUnchanged DEF IInv, Results, SeedFitsVersion
<1>8. f # "gcc" => PathsAgree'
  <2> SUFFICES ASSUME f # "gcc" PROVE PathsAgree'
    OBVIOUS
  <2>1. declared'.gcc = declared.gcc
    BY <1>2, <1>3
  <2>2. IsChoice("gcc", declared.gcc)' = IsChoice("gcc", declared.gcc)
    BY <1>1, <2>1, OfferUnchanged DEF IsChoice, Asking
  <2> QED
    BY <1>1, <2>1, <2>2, ChoiceUnchanged, OfferUnchanged DEF IInv, Results, PathsAgree, Asking
<1> QED
  BY <1>4, <1>5, <1>6, <1>7, <1>8

LEMMA HostNeedsMac == ASSUME ModulesOK, IsChoice("sdk", "host") PROVE env.mac
<1>1. PICK k \in DOMAIN modules : Offer("sdk", modules[k]) = "host"
  BY NoneAssumption DEF IsChoice, Asking
<1>2. ModuleSdk(modules[k]) = "host"
  BY <1>1 DEF Offer
<1>3. FirstTag(modules[k], "from_archive") # "host"
  BY TagsFact, NoneAssumption DEF FirstTag
<1> QED
  BY <1>2, <1>3 DEF ModuleSdk

------------------------------------------------------------------------------
(* The walks.                                                               *)

LEMMA SdkStep ==
  ASSUME IInv, RejectSdk \/ VisitSdk \/ MissingSdk \/ ChooseSdk PROVE IInv'
<1>1. CASE RejectSdk \/ MissingSdk
  BY <1>1, FailKeeps DEF RejectSdk, MissingSdk
<1>2. CASE VisitSdk
  <2>1. walk = "sdk" /\ at \in DOMAIN modules /\ Take(walk) /\ at' = at + 1 /\ walk' = walk
    BY <1>2 DEF VisitSdk, Visiting, Take
  <2>2. ModulesOK' /\ StateOK' /\ ChoiceInv' /\ JumpInv' /\ Results'
    BY <2>1, TakeKeeps DEF ChoiceWalks
  <2>3. AgreeInv' /\ OverrideInv'
    BY <2>1 DEF AgreeInv, OverrideInv
  <2> QED
    BY <2>2, <2>3 DEF IInv
<1>3. CASE ChooseSdk
  <2> DEFINE v == IF ForceHost THEN "host" ELSE Chosen
             d == [declared EXCEPT !.sdk = v]
  <2>1. walk = "sdk" /\ at \notin DOMAIN modules /\ declared = Nothing /\ Declare(d, "contents")
    BY <1>3 DEF ChooseSdk, Walked, IInv, StateOK, FirstWalks
  <2>2. d = [f \in Fields |-> d[f]]
    BY DEF IInv, StateOK
  <2>3. ModulesOK' /\ StateOK' /\ ChoiceInv' /\ JumpInv' /\ AgreeInv' /\ OverrideInv'
    BY <2>1, <2>2, DeclareKeeps
  <2>4. UNCHANGED input /\ env' = env /\ ForceHost' = ForceHost /\ declared' = d /\ "sdk" \in Fields
    BY <2>1 DEF Declare, input, ForceHost, Fields
  <2>5. OneSource' /\ SeedFitsVersion' /\ PathsAgree'
    BY <2>4, OtherResults
  <2>6. declared'.sdk = v /\ declared'.version = None
    BY <2>1, <2>4 DEF Nothing
  <2>7. IsChoice("sdk", Chosen)
    BY <2>1, ChosenIsChoice DEF IInv, ChoiceWalks
  <2>8. RootElseLastDependency'
    <3>1. ~ForceHost => IsChoice("sdk", declared.sdk)'
      BY <2>4, <2>6, <2>7, OfferUnchanged DEF IsChoice, Asking, input
    <3> QED
      BY <2>4, <2>6, <3>1 DEF RootElseLastDependency
  <2>9. HostSdkOnlyOnMac'
    BY <2>4, <2>6, <2>7, HostNeedsMac DEF HostSdkOnlyOnMac, ForceHost, IInv
  <2> QED
    BY <2>3, <2>5, <2>8, <2>9 DEF IInv, Results
<1> QED
  BY <1>1, <1>2, <1>3

LEMMA ContentsStep == ASSUME IInv, VisitContents \/ DeclareSdk PROVE IInv'
<1>1. CASE VisitContents
  <2>1. /\ walk = "contents" /\ at \in DOMAIN modules /\ at' = at + 1
        /\ UNCHANGED <<input, walk, declared>> /\ DOMAIN listed' = {"first", "second"}
    BY <1>1 DEF VisitContents, Visiting
  <2>2. ModulesOK' /\ StateOK' /\ Results'
    BY <2>1, VisitKeeps DEF Walks
  <2>3. ChoiceInv' /\ JumpInv' /\ AgreeInv' /\ OverrideInv'
    BY <2>1 DEF ChoiceInv, JumpInv, AgreeInv, OverrideInv, ChoiceWalks
  <2> QED
    BY <2>2, <2>3 DEF IInv
<1>2. CASE DeclareSdk
  <2> DEFINE v == [frameworks |-> Frameworks, libraries |-> Values(listed.second),
                   allLibs |-> env.allLibs]
             d == [declared EXCEPT !.includes = v]
  <2>1. Declare(d, "done")
    BY <1>2 DEF DeclareSdk
  <2>2. d = [f \in Fields |-> d[f]]
    BY DEF IInv, StateOK
  <2>3. ModulesOK' /\ StateOK' /\ ChoiceInv' /\ JumpInv' /\ AgreeInv' /\ OverrideInv'
    BY <2>1, <2>2, DeclareKeeps
  <2>4. UNCHANGED input /\ declared' = d /\ "includes" \in Fields
    BY <2>1 DEF Declare, Fields
  <2> HIDE DEF v
  <2>5. Results'
    BY <2>4, OtherResults DEF Results
  <2> QED
    BY <2>3, <2>5 DEF IInv
<1> QED
  BY <1>1, <1>2

LEMMA VersionStep ==
  ASSUME IInv, RejectVersion \/ VisitVersion \/ MissingVersion \/ ChooseVersion PROVE IInv'
<1>1. CASE RejectVersion \/ MissingVersion
  BY <1>1, FailKeeps DEF RejectVersion, MissingVersion
<1>2. CASE VisitVersion
  <2>1. /\ walk = "version" /\ at \in DOMAIN modules /\ Take(walk) /\ walk' = walk
        /\ at' = IF Module.root /\ Offer(walk, Module) # None THEN Len(modules) + 1 ELSE at + 1
    BY <1>2 DEF VisitVersion, Visiting, Take
  <2>2. ModulesOK' /\ StateOK' /\ ChoiceInv' /\ JumpInv' /\ Results'
    BY <2>1, TakeKeeps DEF ChoiceWalks
  <2>3. AgreeInv' /\ OverrideInv'
    BY <2>1 DEF AgreeInv, OverrideInv
  <2> QED
    BY <2>2, <2>3 DEF IInv
<1>3. CASE ChooseVersion
  <2> DEFINE d == [declared EXCEPT !.version = Chosen]
  <2>1. walk = "version" /\ at \notin DOMAIN modules /\ declared = Nothing /\ Declare(d, "source")
    BY <1>3 DEF ChooseVersion, Walked, IInv, StateOK, FirstWalks
  <2>2. d = [f \in Fields |-> d[f]]
    BY DEF IInv, StateOK
  <2>3. ModulesOK' /\ StateOK' /\ ChoiceInv' /\ JumpInv' /\ AgreeInv' /\ OverrideInv'
    BY <2>1, <2>2, DeclareKeeps
  <2>4. UNCHANGED input /\ declared' = d /\ "version" \in Fields
    BY <2>1 DEF Declare, Fields
  <2>5. HostSdkOnlyOnMac' /\ PathsAgree'
    BY <2>4, OtherResults
  <2>6. /\ declared'.version = Chosen /\ declared'.sdk = None /\ declared'.source = None
        /\ declared'.seed = None
    BY <2>1, <2>4 DEF Nothing
  <2>7. IsChoice("version", Chosen)
    BY <2>1, ChosenIsChoice DEF IInv, ChoiceWalks
  <2>8. IsChoice("version", declared.version)'
    BY <2>4, <2>6, <2>7, OfferUnchanged DEF IsChoice, Asking, input
  <2>9. RootElseLastDependency'
    BY <2>6, <2>8 DEF RootElseLastDependency
  <2>10. OneSource' /\ SeedFitsVersion'
    BY <2>6 DEF OneSource, SeedFitsVersion
  <2> QED
    BY <2>3, <2>5, <2>9, <2>10 DEF IInv, Results
<1> QED
  BY <1>1, <1>2, <1>3

\* A second override, of whatever module, never gets past OverrideClash.
LEMMA VisitOverrideKeeps == ASSUME IInv, VisitOverride PROVE OverrideInv'
<1> DEFINE t == Tags(Module, "override")
           o == Offer("source", Module)
<1>1. walk = "source" /\ at \in DOMAIN modules /\ Take("source") /\ at' = at + 1 /\ ~OverrideClash
  BY DEF VisitOverride, Visiting
<1>2. modules' = modules /\ Overrides' = Overrides
  BY <1>1, OverridesUnchanged DEF Take, input
<1>3. /\ root' = IF Module.root THEN o ELSE root
      /\ dependency' = IF ~Module.root /\ o # None THEN o ELSE dependency
  BY <1>1 DEF Take
<1>4. Module.root => root = None /\ dependency = None
  BY <1>1 DEF IInv, ModulesOK, ChoiceInv, RootInv, ChoiceWalks, Module
<1>5. /\ Len(t) \in Nat /\ DOMAIN t = 1 .. Len(t) /\ (Len(t) = 0 <=> t = <<>>)
      /\ \A i \in DOMAIN t : t[i] # None
  BY <1>1, TagsFact DEF IInv, Module
<1>6. o = IF t = <<>> THEN None ELSE t[1]
  BY DEF Offer, FirstTag
<1>7. /\ \A p, q \in Overrides : p[1] < at /\ q[1] < at => p = q
      /\ \A p \in Overrides : p[1] < at => Chosen = Tags(modules[p[1]], "override")[p[2]]
      /\ Chosen # None => \E p \in Overrides : p[1] < at
  BY <1>1 DEF IInv, OverrideInv
<1>8. /\ \A p \in Overrides : p[1] \in Nat /\ p[2] \in 1 .. 2 /\ p = <<p[1], p[2]>>
      /\ \A p \in Overrides : p[1] < at + 1 => p[1] < at \/ p[1] = at
  <2>1. at \in Nat /\ DOMAIN modules \subseteq Nat
    BY <1>1 DEF IInv, ModulesOK
  <2>2. \A p \in Overrides : p[1] \in DOMAIN modules /\ p[2] \in 1 .. 2 /\ p = <<p[1], p[2]>>
    <3>1. Overrides \subseteq (DOMAIN modules) \X (1 .. 2)
      BY DEF Overrides
    <3>2. \A p \in (DOMAIN modules) \X (1 .. 2) :
            p[1] \in DOMAIN modules /\ p[2] \in 1 .. 2 /\ p = <<p[1], p[2]>>
      OBVIOUS
    <3> QED
      BY <3>1, <3>2
  <2> QED
    BY <2>1, <2>2
<1>9. \A p \in Overrides : p[1] = at => p[2] \in DOMAIN t
  BY DEF Overrides, Module
<1>10. t = <<>> \/ (Chosen = None /\ ~(Len(t) > 1))
  BY <1>1 DEF OverrideClash
<1> HIDE DEF t, o
<1>11. CASE t = <<>>
  <2>1. \A p \in Overrides : p[1] < at + 1 => p[1] < at
    BY <1>5, <1>8, <1>9, <1>11
  <2>2. Chosen' = Chosen
    BY <1>3, <1>4, <1>6, <1>11 DEF Chosen
  <2>3. \A p \in Overrides : p[1] < at => p[1] < at + 1
    BY <1>1, <1>8 DEF IInv, ModulesOK
  <2> QED
    BY <1>1, <1>2, <1>7, <2>1, <2>2, <2>3 DEF OverrideInv, Tags
<1>12. CASE t # <<>>
  <2>1. Chosen = None /\ Len(t) = 1
    BY <1>5, <1>12, <1>10
  <2>2. \A p \in Overrides : ~(p[1] < at)
    <3> SUFFICES ASSUME NEW p \in Overrides, p[1] < at PROVE FALSE
      OBVIOUS
    <3>1. p[1] \in DOMAIN modules /\ p[2] \in DOMAIN Tags(modules[p[1]], "override")
      BY DEF Overrides
    <3>2. Tags(modules[p[1]], "override")[p[2]] # None
      BY <3>1, TagsFact DEF IInv
    <3> QED
      BY <1>7, <2>1, <3>2
  <2>3. \A p \in Overrides : p[1] < at + 1 => p = <<at, 1>>
    <3>1. \A p \in Overrides : p[1] = at => p[2] = 1
      BY <1>5, <1>9, <2>1
    <3> QED
      BY <1>8, <2>2, <3>1
  <2>4. o = t[1] /\ o # None
    BY <1>5, <1>6, <1>12, <2>1
  <2>5. Chosen' = t[1]
    BY <1>3, <2>1, <2>4 DEF Chosen
  <2>6. <<at, 1>> \in Overrides /\ at < at + 1
    BY <1>1, <1>5, <2>1 DEF Overrides, t, Module, IInv, ModulesOK
  <2>7. t = Tags(modules[at], "override")
    BY DEF t, Module
  <2>8. \A p \in Overrides : p[1] < at + 1 =>
          Chosen' = Tags(modules[p[1]], "override")[p[2]]
    BY <2>3, <2>5, <2>7
  <2> QED
    BY <1>1, <1>2, <2>3, <2>6, <2>8 DEF OverrideInv, Tags
<1> QED
  BY <1>11, <1>12

LEMMA SourceStep ==
  ASSUME IInv, RejectOverride \/ VisitOverride \/ MissingSource \/ DeclareSource PROVE IInv'
<1>1. CASE RejectOverride \/ MissingSource
  BY <1>1, FailKeeps DEF RejectOverride, MissingSource
<1>2. CASE VisitOverride
  <2>1. walk = "source" /\ at \in DOMAIN modules /\ Take(walk) /\ at' = at + 1 /\ walk' = walk
    BY <1>2 DEF VisitOverride, Visiting, Take
  <2>2. ModulesOK' /\ StateOK' /\ ChoiceInv' /\ JumpInv' /\ Results'
    BY <2>1, TakeKeeps DEF ChoiceWalks
  <2>3. AgreeInv' /\ OverrideInv'
    BY <1>2, <2>1, VisitOverrideKeeps DEF AgreeInv
  <2> QED
    BY <2>2, <2>3 DEF IInv
<1>3. CASE DeclareSource
  <2> DEFINE v == IF Chosen # None THEN Chosen ELSE IndexedSources[declared.version]
             d == [declared EXCEPT !.source = v]
  <2>1. walk = "source" /\ at \notin DOMAIN modules /\ Declare(d, "seed")
    BY <1>3 DEF DeclareSource, Walked
  <2>2. d = [f \in Fields |-> d[f]]
    BY DEF IInv, StateOK
  <2>3. ModulesOK' /\ StateOK' /\ ChoiceInv' /\ JumpInv' /\ AgreeInv' /\ OverrideInv'
    BY <2>1, <2>2, DeclareKeeps
  <2>4. UNCHANGED input /\ modules' = modules /\ declared' = d /\ "source" \in Fields
    BY <2>1 DEF Declare, Fields, input
  <2>5. RootElseLastDependency' /\ HostSdkOnlyOnMac' /\ SeedFitsVersion' /\ PathsAgree'
    BY <2>4, OtherResults
  <2>6. declared'.source = v /\ declared'.version = declared.version
    BY <2>2, <2>4 DEF Fields, IInv, StateOK
  <2>7. \A o \in Overrides : o[1] < at
    BY <2>1 DEF Overrides, IInv, StateOK, ModulesOK
  <2>8. /\ \A o, p \in Overrides : o = p
        /\ \A o \in Overrides : Chosen = Tags(modules[o[1]], "override")[o[2]]
        /\ Overrides = {} => Chosen = None
    BY <2>1, <2>7 DEF IInv, OverrideInv
  <2>9. \A o \in Overrides : Tags(modules[o[1]], "override")[o[2]] # None
    <3> SUFFICES ASSUME NEW o \in Overrides
                 PROVE Tags(modules[o[1]], "override")[o[2]] # None
      OBVIOUS
    <3>1. o[1] \in DOMAIN modules /\ o[2] \in DOMAIN Tags(modules[o[1]], "override")
      BY DEF Overrides
    <3> QED
      BY <3>1, TagsFact DEF IInv
  <2>10. OneSource'
    BY <2>4, <2>6, <2>8, <2>9, OverridesUnchanged DEF OneSource, Tags
  <2> QED
    BY <2>3, <2>5, <2>10 DEF IInv, Results
<1> QED
  BY <1>1, <1>2, <1>3

\* An index that a module asks for exists.
LEMMA IndexExists ==
  ASSUME ModulesOK, NEW x, x # None, IsChoice("seed", x) PROVE x \in DOMAIN Seeds
<1>1. PICK k \in DOMAIN modules : x = Offer("seed", modules[k])
  BY DEF IsChoice, Asking
<1>2. x = FirstTag(modules[k], "index")
  BY <1>1 DEF Offer
<1>3. Tags(modules[k], "index") # <<>> /\ x = Tags(modules[k], "index")[1]
  BY <1>2 DEF FirstTag
<1>4. 1 \in DOMAIN Tags(modules[k], "index")
  BY <1>3, TagsFact
<1>5. "index" \in DOMAIN modules[k].tags /\ Tags(modules[k], "index") = modules[k].tags["index"]
  BY <1>3 DEF Tags
<1> QED
  BY <1>3, <1>4, <1>5 DEF ModulesOK

LEMMA SeedStep ==
  ASSUME IInv, RejectIndex \/ VisitIndex \/ MissingSeed \/ DeclareSeed PROVE IInv'
<1>1. CASE RejectIndex \/ MissingSeed
  BY <1>1, FailKeeps DEF RejectIndex, MissingSeed
<1>2. CASE VisitIndex
  <2>1. /\ walk = "seed" /\ at \in DOMAIN modules /\ Take(walk) /\ walk' = walk
        /\ at' = IF Module.root /\ Offer(walk, Module) # None THEN Len(modules) + 1 ELSE at + 1
    BY <1>2 DEF VisitIndex, Visiting, Take
  <2>2. ModulesOK' /\ StateOK' /\ ChoiceInv' /\ JumpInv' /\ Results'
    BY <2>1, TakeKeeps DEF ChoiceWalks
  <2>3. AgreeInv' /\ OverrideInv'
    BY <2>1 DEF AgreeInv, OverrideInv
  <2> QED
    BY <2>2, <2>3 DEF IInv
<1>3. CASE DeclareSeed
  <2> DEFINE v == _release_key(Seeds[SeedIndex])
             d == [declared EXCEPT !.seed = v]
  <2>1. walk = "seed" /\ at \notin DOMAIN modules /\ v # None /\ Declare(d, "done")
    BY <1>3 DEF DeclareSeed, Walked
  <2>2. d = [f \in Fields |-> d[f]]
    BY DEF IInv, StateOK
  <2>3. ModulesOK' /\ StateOK' /\ ChoiceInv' /\ JumpInv' /\ AgreeInv' /\ OverrideInv'
    BY <2>1, <2>2, DeclareKeeps
  <2>4. UNCHANGED input /\ declared' = d /\ "seed" \in Fields
    BY <2>1 DEF Declare, Fields
  <2>5. RootElseLastDependency' /\ HostSdkOnlyOnMac' /\ OneSource' /\ PathsAgree'
    BY <2>4, OtherResults
  <2>6. declared'.seed = v /\ declared'.version = declared.version
    BY <2>2, <2>4 DEF Fields, IInv, StateOK
  <2>7. IsChoice("seed", Chosen)
    BY <2>1, ChosenIsChoice DEF IInv, ChoiceWalks
  <2>8. root # None => dependency = None
    BY <2>1 DEF IInv, JumpInv
  <2>9. SeedIndex = IF Chosen # None THEN Chosen ELSE DefaultIndex
    BY <2>8 DEF SeedIndex, Chosen
  <2>10. /\ SeedIndex \in DOMAIN Seeds
         /\ IsChoice("seed", SeedIndex) \/ (IsChoice("seed", None) /\ SeedIndex = DefaultIndex)
    BY <2>7, <2>9, IndexExists, SeedsAssumption DEF IInv
  <2>11. LET latest == Seeds[SeedIndex].latest
         IN  v = IF declared.version \in DOMAIN latest
                 THEN latest[declared.version] ELSE latest[Seeds[SeedIndex].default]
    BY <2>1 DEF _release_key
  <2>12. \A x : IsChoice("seed", x)' = IsChoice("seed", x)
    BY <2>4, ChoiceUnchanged
  <2> HIDE DEF v, d
  <2>13. SeedFitsVersion'
    BY <2>6, <2>10, <2>11, <2>12, <2>4, ChoiceUnchanged DEF SeedFitsVersion
  <2> QED
    BY <2>3, <2>5, <2>13 DEF IInv, Results
<1> QED
  BY <1>1, <1>2, <1>3

LEMMA GccStep == ASSUME IInv, RejectPath \/ VisitPath \/ DeclareGcc PROVE IInv'
<1>1. CASE RejectPath
  BY <1>1, FailKeeps DEF RejectPath
<1>2. CASE VisitPath
  <2>1. walk = "gcc" /\ at \in DOMAIN modules /\ Take(walk) /\ at' = at + 1 /\ walk' = walk
    BY <1>2 DEF VisitPath, Visiting, Take
  <2>2. ModulesOK' /\ StateOK' /\ ChoiceInv' /\ JumpInv' /\ Results' /\ modules' = modules
    BY <2>1, TakeKeeps DEF ChoiceWalks
  <2>3. OverrideInv'
    BY <2>1 DEF OverrideInv
  <2> DEFINE o(k) == Offer("gcc", modules[k])
             t == Tags(Module, "gcc_path")
  <2>4. \A k : Offer("gcc", modules[k])' = o(k)
    BY <2>1, OfferUnchanged DEF Take, input
  <2>5. /\ dependency' = IF ~Module.root /\ o(at) # None THEN o(at) ELSE dependency
        /\ \A k \in 1 .. at - 1 : ~modules[k].root /\ o(k) # None => o(k) = dependency
    BY <2>1 DEF Take, Module, IInv, AgreeInv
  <2>6. ~Module.root /\ o(at) # None /\ dependency # None => o(at) = dependency
    <3> SUFFICES ASSUME ~Module.root, o(at) # None, dependency # None PROVE o(at) = dependency
      OBVIOUS
    <3>1. t # <<>> /\ o(at) = t[1]
      BY DEF Offer, FirstTag, Module
    <3>2. 1 \in DOMAIN t
      BY <2>1, <3>1, TagsFact DEF IInv, Module
    <3>3. \A p \in Values(t), q \in Values(t) \cup ({dependency} \ {None}) : p = q
      BY <1>2 DEF VisitPath, PathClash
    <3>4. t[1] \in Values(t)
      BY <3>2 DEF Values
    <3> QED
      BY <3>1, <3>3, <3>4
  <2>7. at \in Nat /\ at' - 1 = at /\ 1 .. at = (1 .. at - 1) \cup {at}
    BY <2>1 DEF IInv, ModulesOK
  <2> HIDE DEF o, t
  <2>8. \A k \in 1 .. at : ~modules[k].root /\ o(k) # None => o(k) = dependency'
    <3> SUFFICES ASSUME NEW k \in 1 .. at, ~modules[k].root, o(k) # None PROVE o(k) = dependency'
      OBVIOUS
    <3>1. CASE k = at
      BY <2>5, <3>1 DEF Module
    <3>2. CASE k \in 1 .. at - 1
      <4>1. o(k) = dependency /\ dependency # None
        BY <2>5, <3>2
      <4> QED
        BY <2>5, <2>6, <4>1
    <3> QED
      BY <2>7, <3>1, <3>2
  <2>9. AgreeInv'
    BY <2>1, <2>2, <2>4, <2>7, <2>8 DEF AgreeInv
  <2> QED
    BY <2>2, <2>3, <2>9 DEF IInv
<1>3. CASE DeclareGcc
  <2> DEFINE v == IF Chosen # None THEN Chosen ELSE GccReleases
             d == [declared EXCEPT !.gcc = v]
  <2>1. walk = "gcc" /\ at \notin DOMAIN modules /\ Declare(d, "done")
    BY <1>3 DEF DeclareGcc, Walked
  <2>2. d = [f \in Fields |-> d[f]]
    BY DEF IInv, StateOK
  <2>3. ModulesOK' /\ StateOK' /\ ChoiceInv' /\ JumpInv' /\ AgreeInv' /\ OverrideInv'
    BY <2>1, <2>2, DeclareKeeps
  <2>4. UNCHANGED input /\ modules' = modules /\ env' = env /\ declared' = d /\ "gcc" \in Fields
    BY <2>1 DEF Declare, Fields, input
  <2>5. RootElseLastDependency' /\ HostSdkOnlyOnMac' /\ OneSource' /\ SeedFitsVersion'
    BY <2>4, OtherResults
  <2>6. declared'.gcc = v
    BY <2>2, <2>4
  <2>7. IsChoice("gcc", Chosen)
    BY <2>1, ChosenIsChoice DEF IInv, ChoiceWalks
  <2>8. \A j, k \in Asking("gcc") :
          ~modules[j].root /\ ~modules[k].root =>
            Offer("gcc", modules[j]) = Offer("gcc", modules[k])
    BY <2>1 DEF IInv, AgreeInv, Asking, StateOK, ModulesOK
  <2>9. \A x : IsChoice("gcc", x)' = IsChoice("gcc", x)
    BY <2>4, ChoiceUnchanged
  <2>10. IsChoice("gcc", v) \/ (IsChoice("gcc", None) /\ v = GccReleases)
    BY <2>7
  <2>11. IsChoice("gcc", declared.gcc)' \/ (IsChoice("gcc", None)' /\ declared'.gcc = GccReleases)
    BY <2>4, <2>6, <2>10, OfferUnchanged DEF IsChoice, Asking
  <2>12. PathsAgree'
    BY <2>4, <2>8, <2>11, OfferUnchanged DEF PathsAgree, Asking
  <2> QED
    BY <2>3, <2>5, <2>12 DEF IInv, Results
<1> QED
  BY <1>1, <1>2, <1>3

LEMMA PlatformsStep ==
  ASSUME IInv, RejectPlatform \/ VisitPlatforms \/ DeclarePlatforms PROVE IInv'
<1>1. CASE RejectPlatform
  BY <1>1, FailKeeps DEF RejectPlatform
<1>2. CASE VisitPlatforms
  <2>1. /\ walk = "platforms" /\ at \in DOMAIN modules /\ at' = at + 1
        /\ UNCHANGED <<input, walk, declared>> /\ DOMAIN listed' = {"first", "second"}
    BY <1>2 DEF VisitPlatforms, Visiting
  <2>2. ModulesOK' /\ StateOK' /\ Results'
    BY <2>1, VisitKeeps DEF Walks, FirstWalks
  <2>3. ChoiceInv' /\ JumpInv' /\ AgreeInv' /\ OverrideInv'
    BY <2>1 DEF ChoiceInv, JumpInv, AgreeInv, OverrideInv, ChoiceWalks
  <2> QED
    BY <2>2, <2>3 DEF IInv
<1>3. CASE DeclarePlatforms
  <2> DEFINE execs == IF listed.first = <<>> THEN SupportedExecs ELSE listed.first
             targets == IF listed.second = <<>> THEN SupportedTargets ELSE listed.second
             d == [declared EXCEPT !.execs = execs, !.targets = targets]
  <2>1. walk = "platforms" /\ Declare(d, "done") /\ declared = Nothing
    BY <1>3 DEF DeclarePlatforms, Walked, IInv, StateOK, FirstWalks
  <2>2. d = [f \in Fields |-> d[f]]
    BY DEF IInv, StateOK
  <2>3. ModulesOK' /\ StateOK' /\ ChoiceInv' /\ JumpInv' /\ AgreeInv' /\ OverrideInv'
    BY <2>1, <2>2, DeclareKeeps
  <2>4. declared' = d
    BY <2>1 DEF Declare
  <2>5. /\ declared'.sdk = None /\ declared'.version = None /\ declared'.source = None
        /\ declared'.seed = None /\ declared'.gcc = None
    BY <2>1, <2>4 DEF Nothing
  <2>6. Results'
    BY <2>5, NoneAssumption
       DEF Results, RootElseLastDependency, HostSdkOnlyOnMac, OneSource, SeedFitsVersion, PathsAgree
  <2> QED
    BY <2>3, <2>6 DEF IInv
<1> QED
  BY <1>1, <1>2, <1>3

------------------------------------------------------------------------------
(* What adds up.                                                            *)

\* What the modules up to n have in their tags of a class.
Collected(n, class) == UNION {Values(Tags(modules[k], class)) : k \in 1 .. n}

\* The two lists have what the modules visited ask for.
ListsInv ==
  /\ IsSequence(listed.first) /\ IsSequence(listed.second)
  /\ walk = "contents" => /\ Values(listed.first) = Collected(at - 1, "frameworks")
                          /\ Values(listed.second) = Collected(at - 1, "libraries")
  /\ walk = "platforms" => /\ Values(listed.first) = Collected(at - 1, "exec")
                           /\ Values(listed.second) = Collected(at - 1, "target")

AddInv == ListsInv /\ ContentsAdd /\ PlatformsAdd

LEMMA TagsAreSequences ==
  ASSUME ModulesOK, NEW k \in DOMAIN modules, NEW c PROVE IsSequence(Tags(modules[k], c))
<1>1. CASE c \in DOMAIN modules[k].tags
  BY <1>1 DEF Tags, ModulesOK
<1>2. CASE c \notin DOMAIN modules[k].tags
  BY <1>2 DEF Tags, IsSequence
<1> QED
  BY <1>1, <1>2

LEMMA SequenceValues ==
  ASSUME NEW s, NEW t, IsSequence(s), IsSequence(t)
  PROVE  /\ IsSequence(s \o t) /\ Values(s \o t) = Values(s) \cup Values(t)
         /\ Values(s) = {} <=> s = <<>>
<1> DEFINE S == Values(s) \cup Values(t)
<1>1. s \in Seq(S) /\ t \in Seq(S)
  BY DEF IsSequence, Values
<1>2. Values(s) = Range(s) /\ Values(t) = Range(t) /\ Values(s \o t) = Range(s \o t)
  BY DEF Values, Range
<1>3. s \o t \in Seq(S) /\ Range(s \o t) = Range(s) \cup Range(t)
  BY <1>1, ConcatRange
<1>4. Values(s) = {} <=> s = <<>>
  <2> HIDE DEF S
  <2>1. s = <<>> => Values(s) = {}
    BY DEF Values
  <2>2. s # <<>> => 1 \in DOMAIN s
    BY <1>1
  <2>3. 1 \in DOMAIN s => s[1] \in Values(s)
    BY DEF Values
  <2> QED
    BY <2>1, <2>2, <2>3
<1>5. IsSequence(s \o t)
  <2> DEFINE u == s \o t
  <2>1. u \in Seq(S)
    BY <1>3
  <2> HIDE DEF u, S
  <2>2. Len(u) \in Nat /\ u \in [1 .. Len(u) -> S]
    BY <2>1
  <2>3. u = [i \in 1 .. Len(u) |-> u[i]]
    BY <2>2
  <2>4. IsSequence(u)
    BY <2>2, <2>3 DEF IsSequence
  <2> QED
    BY <2>4 DEF u
<1> QED
  BY <1>2, <1>3, <1>4, <1>5

LEMMA AskedUnchanged ==
  ASSUME UNCHANGED input, NEW c PROVE Asked(c)' = Asked(c)
BY DEF Asked, Tags, Values, input

\* The declarations that add up stay right for as long as they stay.
LEMMA AddsUnchanged ==
  ASSUME ContentsAdd, PlatformsAdd, UNCHANGED input,
         /\ declared'.includes = declared.includes /\ declared'.execs = declared.execs
         /\ declared'.targets = declared.targets
  PROVE  ContentsAdd' /\ PlatformsAdd'
<1>1. env' = env /\ \A c : Asked(c)' = Asked(c)
  BY AskedUnchanged DEF input
<1>2. EnvironmentFrameworks' = EnvironmentFrameworks
  BY <1>1 DEF EnvironmentFrameworks, Values
<1>3. ContentsAdd'
  BY <1>1, <1>2 DEF ContentsAdd
<1>4. PlatformsAdd'
  <2>1. /\ Values(declared'.execs) = Values(declared.execs)
        /\ Values(declared'.targets) = Values(declared.targets)
    BY DEF Values
  <2> QED
    BY <1>1, <2>1 DEF PlatformsAdd, Values
<1> QED
  BY <1>3, <1>4

LEMMA CollectedOneMore ==
  ASSUME ModulesOK, at \in DOMAIN modules, NEW c
  PROVE  Collected(at, c) = Collected(at - 1, c) \cup Values(Tags(Module, c))
<1>1. 1 .. at = (1 .. at - 1) \cup {at}
  BY DEF ModulesOK
<1> QED
  BY <1>1 DEF Collected, Module

LEMMA CollectedAll ==
  ASSUME ModulesOK, StateOK, at \notin DOMAIN modules, NEW c
  PROVE  Collected(at - 1, c) = Asked(c)
<1>1. at = Len(modules) + 1 /\ Len(modules) \in Nat /\ DOMAIN modules = 1 .. Len(modules)
  BY DEF ModulesOK, StateOK
<1>2. at - 1 = Len(modules)
  BY <1>1
<1> QED
  BY <1>1, <1>2 DEF Collected, Asked

\* What has been declared stays right, and a new walk has empty lists.
LEMMA AddKept ==
  ASSUME IInv, AddInv, UNCHANGED input,
         /\ declared'.includes = declared.includes /\ declared'.execs = declared.execs
         /\ declared'.targets = declared.targets,
         \/ UNCHANGED listed /\ walk' \notin {"contents", "platforms"}
         \/ listed' = [first |-> <<>>, second |-> <<>>] /\ at' = 1
  PROVE AddInv'
<1>2. ContentsAdd' /\ PlatformsAdd'
  BY AddsUnchanged DEF AddInv
<1>3. CASE UNCHANGED listed /\ walk' \notin {"contents", "platforms"}
  BY <1>2, <1>3 DEF AddInv, ListsInv
<1>4. CASE listed' = [first |-> <<>>, second |-> <<>>] /\ at' = 1
  <2>1. \A c : Collected(at - 1, c)' = {}
    <3>1. 1 .. at' - 1 = {}
      BY <1>4
    <3> QED
      BY <3>1 DEF Collected
  <2>2. IsSequence(<<>>) /\ Values(<<>>) = {}
    BY DEF IsSequence, Values
  <2> QED
    BY <1>2, <1>4, <2>1, <2>2 DEF AddInv, ListsInv
<1> QED
  BY <1>3, <1>4

LEMMA ListsGrow ==
  ASSUME IInv, AddInv, VisitContents \/ VisitPlatforms PROVE AddInv'
<1> DEFINE c1 == IF walk = "contents" THEN "frameworks" ELSE "exec"
           c2 == IF walk = "contents" THEN "libraries" ELSE "target"
<1>1. /\ walk \in {"contents", "platforms"} /\ at \in DOMAIN modules /\ at' = at + 1
      /\ UNCHANGED input /\ modules' = modules /\ env' = env /\ walk' = walk /\ declared' = declared
      /\ listed' = [first |-> listed.first \o Tags(Module, c1),
                    second |-> listed.second \o Tags(Module, c2)]
  BY DEF VisitContents, VisitPlatforms, Visiting, input
<1> HIDE DEF c1, c2
<1>2. ContentsAdd' /\ PlatformsAdd'
  BY <1>1, AddsUnchanged DEF AddInv
<1>3. IsSequence(Tags(Module, c1)) /\ IsSequence(Tags(Module, c2))
  BY <1>1, TagsAreSequences DEF IInv, Module
<1>4. /\ IsSequence(listed'.first) /\ IsSequence(listed'.second)
      /\ Values(listed'.first) = Values(listed.first) \cup Values(Tags(Module, c1))
      /\ Values(listed'.second) = Values(listed.second) \cup Values(Tags(Module, c2))
  BY <1>1, <1>3, SequenceValues DEF AddInv, ListsInv
<1>5. at' - 1 = at
  BY <1>1 DEF IInv, ModulesOK
<1>6. \A c : Collected(at - 1, c)' = Collected(at - 1, c) \cup Values(Tags(Module, c))
  <2> TAKE c
  <2>1. Collected(at - 1, c)' = Collected(at, c)
    BY <1>1, <1>5 DEF Collected, Tags
  <2> QED
    BY <1>1, <2>1, CollectedOneMore DEF IInv
<1>7. /\ walk = "contents" => /\ Values(listed'.first) = Collected(at - 1, "frameworks")'
                             /\ Values(listed'.second) = Collected(at - 1, "libraries")'
      /\ walk = "platforms" => /\ Values(listed'.first) = Collected(at - 1, "exec")'
                               /\ Values(listed'.second) = Collected(at - 1, "target")'
  BY <1>4, <1>6 DEF AddInv, ListsInv, c1, c2
<1>8. ListsInv'
  BY <1>1, <1>4, <1>7 DEF ListsInv, Values
<1> QED
  BY <1>2, <1>8 DEF AddInv

LEMMA ContentsAreAdded == ASSUME IInv, AddInv, DeclareSdk PROVE AddInv'
<1> DEFINE v == [frameworks |-> Frameworks, libraries |-> Values(listed.second),
                 allLibs |-> env.allLibs]
<1>1. /\ walk = "contents" /\ at \notin DOMAIN modules
      /\ declared' = [declared EXCEPT !.includes = v]
      /\ listed' = [first |-> <<>>, second |-> <<>>] /\ at' = 1
      /\ UNCHANGED input /\ env' = env /\ walk' = "done"
  BY DEF DeclareSdk, Walked, Declare, input
<1>2. /\ declared'.includes = v /\ declared'.execs = declared.execs
      /\ declared'.targets = declared.targets
  BY <1>1 DEF IInv, StateOK, Fields
<1>3. Values(listed.first) = Asked("frameworks") /\ Values(listed.second) = Asked("libraries")
  BY <1>1, CollectedAll DEF AddInv, ListsInv, IInv
<1>5. ContentsAdd'
  <2>1. v.frameworks = Frameworks /\ v.libraries = Asked("libraries")
    BY <1>3
  <2>2. EnvironmentFrameworks' = EnvironmentFrameworks
    BY <1>1 DEF EnvironmentFrameworks, Values
  <2> HIDE DEF v
  <2> QED
    BY <1>1, <1>2, <1>3, <2>1, <2>2, AskedUnchanged DEF ContentsAdd, Frameworks
<1>6. PlatformsAdd'
  <2>1. /\ UNCHANGED input /\ PlatformsAdd
        /\ declared'.execs = declared.execs /\ declared'.targets = declared.targets
    BY <1>1, <1>2 DEF AddInv
  <2>2. /\ Values(declared.execs)' = Values(declared.execs)
        /\ Values(declared.targets)' = Values(declared.targets)
    BY <2>1 DEF Values
  <2> QED
    BY <2>1, <2>2, AskedUnchanged DEF PlatformsAdd
<1>7. ListsInv'
  BY <1>1 DEF ListsInv, IsSequence
<1> QED
  BY <1>5, <1>6, <1>7 DEF AddInv

LEMMA PlatformsAreAdded == ASSUME IInv, AddInv, DeclarePlatforms PROVE AddInv'
<1> DEFINE execs == IF listed.first = <<>> THEN SupportedExecs ELSE listed.first
           targets == IF listed.second = <<>> THEN SupportedTargets ELSE listed.second
<1>1. /\ walk = "platforms" /\ at \notin DOMAIN modules
      /\ declared' = [declared EXCEPT !.execs = execs, !.targets = targets]
      /\ listed' = [first |-> <<>>, second |-> <<>>] /\ at' = 1
      /\ UNCHANGED input /\ env' = env /\ walk' = "done"
  BY DEF DeclarePlatforms, Walked, Declare, input
<1>2. /\ declared'.includes = declared.includes /\ declared'.execs = execs
      /\ declared'.targets = targets
  BY <1>1 DEF IInv, StateOK, Fields
<1>3. Values(listed.first) = Asked("exec") /\ Values(listed.second) = Asked("target")
  BY <1>1, CollectedAll DEF AddInv, ListsInv, IInv
<1>4. /\ listed.first = <<>> <=> Values(listed.first) = {}
      /\ listed.second = <<>> <=> Values(listed.second) = {}
  BY SequenceValues DEF AddInv, ListsInv
<1>5. PlatformsAdd'
  <2>1. /\ Values(execs) = IF Asked("exec") = {} THEN Values(SupportedExecs) ELSE Asked("exec")
        /\ Values(targets) =
             IF Asked("target") = {} THEN Values(SupportedTargets) ELSE Asked("target")
    BY <1>3, <1>4
  <2> HIDE DEF execs, targets
  <2>2. Values(declared.execs)' = Values(execs) /\ Values(declared.targets)' = Values(targets)
    BY <1>2 DEF Values
  <2> QED
    BY <1>1, <2>1, <2>2, AskedUnchanged DEF PlatformsAdd
<1>6. ContentsAdd'
  <2>1. EnvironmentFrameworks' = EnvironmentFrameworks
    BY <1>1 DEF EnvironmentFrameworks, Values
  <2> QED
    BY <1>1, <1>2, <2>1, AskedUnchanged DEF AddInv, ContentsAdd
<1>7. ListsInv'
  BY <1>1 DEF ListsInv, IsSequence
<1> QED
  BY <1>5, <1>6, <1>7 DEF AddInv

\* The other walks declare nothing that adds up.
LEMMA OthersAdd ==
  ASSUME IInv, AddInv,
         \/ RejectSdk \/ VisitSdk \/ MissingSdk \/ ChooseSdk
         \/ RejectVersion \/ VisitVersion \/ MissingVersion \/ ChooseVersion
         \/ RejectOverride \/ VisitOverride \/ MissingSource \/ DeclareSource
         \/ RejectIndex \/ VisitIndex \/ MissingSeed \/ DeclareSeed
         \/ RejectPath \/ VisitPath \/ DeclareGcc \/ RejectPlatform
  PROVE AddInv'
<1>1. CASE Fail
  <2>1. /\ UNCHANGED input /\ declared' = declared /\ UNCHANGED listed
        /\ walk' \notin {"contents", "platforms"}
    BY <1>1 DEF Fail
  <2> QED
    BY <2>1, AddKept
<1>2. CASE \E w \in {"sdk", "version", "source", "seed", "gcc"} : walk = w /\ Take(w)
  <2>1. /\ UNCHANGED input /\ declared' = declared /\ UNCHANGED listed
        /\ walk' \notin {"contents", "platforms"}
    BY <1>2 DEF Take
  <2> QED
    BY <2>1, AddKept
<1>3. CASE \E f \in {"sdk", "version", "source", "seed", "gcc"} :
             \E v, next : Declare([declared EXCEPT ![f] = v], next)
  <2> PICK f \in {"sdk", "version", "source", "seed", "gcc"} :
         \E v, next : Declare([declared EXCEPT ![f] = v], next)
    BY <1>3
  <2>1. PICK v, next : Declare([declared EXCEPT ![f] = v], next)
    OBVIOUS
  <2>2. /\ UNCHANGED input /\ declared' = [declared EXCEPT ![f] = v]
        /\ listed' = [first |-> <<>>, second |-> <<>>] /\ at' = 1
    BY <2>1 DEF Declare
  <2>3. /\ declared'.includes = declared.includes /\ declared'.execs = declared.execs
        /\ declared'.targets = declared.targets
    BY <2>2 DEF IInv, StateOK, Fields
  <2> QED
    BY <2>2, <2>3, AddKept
<1>4. CASE RejectSdk \/ MissingSdk \/ RejectVersion \/ MissingVersion \/ RejectOverride
           \/ MissingSource \/ RejectIndex \/ MissingSeed \/ RejectPath \/ RejectPlatform
  BY <1>1, <1>4 DEF RejectSdk, MissingSdk, RejectVersion, MissingVersion, RejectOverride,
     MissingSource, RejectIndex, MissingSeed, RejectPath, RejectPlatform
<1>5. CASE VisitSdk \/ VisitVersion \/ VisitOverride \/ VisitIndex \/ VisitPath
  BY <1>2, <1>5 DEF VisitSdk, VisitVersion, VisitOverride, VisitIndex, VisitPath, Visiting
<1>6. CASE ChooseSdk
  BY <1>3, <1>6 DEF ChooseSdk
<1>7. CASE ChooseVersion
  BY <1>3, <1>7 DEF ChooseVersion
<1>8. CASE DeclareSource
  BY <1>3, <1>8 DEF DeclareSource
<1>9. CASE DeclareSeed
  BY <1>3, <1>9 DEF DeclareSeed
<1>10. CASE DeclareGcc
  BY <1>3, <1>10 DEF DeclareGcc
<1> QED
  BY <1>4, <1>5, <1>6, <1>7, <1>8, <1>9, <1>10

LEMMA InitAdds == Init => AddInv
<1> SUFFICES ASSUME Init PROVE AddInv
  OBVIOUS
<1>1. /\ declared.includes = None /\ declared.execs = None
      /\ listed.first = <<>> /\ listed.second = <<>>
  BY DEF Init, Nothing
<1>2. IsSequence(<<>>) /\ Values(<<>>) = {}
  BY DEF IsSequence, Values
<1>3. \A c : Collected(at - 1, c) = {}
  <2>1. 1 .. at - 1 = {}
    BY DEF Init
  <2> QED
    BY <2>1 DEF Collected
<1> QED
  BY <1>1, <1>2, <1>3 DEF AddInv, ListsInv, ContentsAdd, PlatformsAdd

LEMMA NextAdds == IInv /\ AddInv /\ [Next]_vars => AddInv'
<1> SUFFICES ASSUME IInv, AddInv, [Next]_vars PROVE AddInv'
  OBVIOUS
<1>1. CASE VisitContents \/ VisitPlatforms
  BY <1>1, ListsGrow
<1>2. CASE DeclareSdk
  BY <1>2, ContentsAreAdded
<1>3. CASE DeclarePlatforms
  BY <1>3, PlatformsAreAdded
<1>4. CASE UNCHANGED vars
  <2>1. UNCHANGED input /\ declared' = declared /\ listed' = listed /\ walk' = walk /\ at' = at
    BY <1>4 DEF vars
  <2>2. ContentsAdd' /\ PlatformsAdd'
    BY <2>1, AddsUnchanged DEF AddInv
  <2>3. \A c : Collected(at - 1, c)' = Collected(at - 1, c)
    BY <2>1 DEF Collected, Tags, input
  <2>4. ListsInv'
    BY <2>1, <2>3 DEF AddInv, ListsInv, Values
  <2> QED
    BY <2>2, <2>4 DEF AddInv
<1>5. CASE Ended
  BY <1>4, <1>5 DEF Ended
<1> QED
  BY <1>1, <1>2, <1>3, <1>4, <1>5, OthersAdd DEF Next, Walk

------------------------------------------------------------------------------
(* The Linux headers: the version map.                                      *)

\* The lines of Linux, and the maps from some of them to a version.
KernelLines == {Kernel!LineOf(v) : v \in KernelVersions}
VersionMaps == UNION {[S -> KernelVersions] : S \in SUBSET KernelLines}

\* m has, for each line of the first n entries, the newest version of it.
IsNewest(m, entries, n) ==
  /\ \A l : l \in DOMAIN m <=> \E j \in 1 .. n : Kernel!LineOf(entries[j].version) = l
  /\ \A l \in DOMAIN m :
       /\ \E j \in 1 .. n : m[l] = entries[j].version /\ Kernel!LineOf(m[l]) = l
       /\ \A j \in 1 .. n : Kernel!LineOf(entries[j].version) = l =>
                              ~Kernel!NewerThan(entries[j].version, m[l])

LEMMA KernelMax == ASSUME NEW S PROVE Kernel!Max(S) = Max(S)
BY DEF Kernel!Max, Max

\* Versions are ordered by their three numbers.
LEMMA NewerThanOrders ==
  ASSUME NEW u \in KernelVersions, NEW v \in KernelVersions, NEW w \in KernelVersions
  PROVE  /\ ~Kernel!NewerThan(u, u)
         /\ Kernel!NewerThan(u, v) => ~Kernel!NewerThan(v, u)
         /\ ~Kernel!NewerThan(u, v) /\ ~Kernel!NewerThan(v, w) => ~Kernel!NewerThan(u, w)
<1>1. /\ u[1] \in Nat /\ u[2] \in Nat /\ u[3] \in Nat /\ v[1] \in Nat /\ v[2] \in Nat
      /\ v[3] \in Nat /\ w[1] \in Nat /\ w[2] \in Nat /\ w[3] \in Nat
  BY DEF KernelVersions
<1> QED
  BY <1>1 DEF Kernel!NewerThan

LEMMA WithEntryFits ==
  ASSUME NEW m \in VersionMaps, NEW e, e.version \in KernelVersions
  PROVE  /\ Kernel!WithEntry(m, e) \in VersionMaps
         /\ \A l : l \in DOMAIN Kernel!WithEntry(m, e)
                     <=> l \in DOMAIN m \/ l = Kernel!LineOf(e.version)
         /\ \A l \in DOMAIN Kernel!WithEntry(m, e) :
              Kernel!WithEntry(m, e)[l] =
                IF l = Kernel!LineOf(e.version)
                   /\ (l \notin DOMAIN m \/ Kernel!NewerThan(e.version, m[l]))
                THEN e.version ELSE m[l]
<1> DEFINE line == Kernel!LineOf(e.version)
           u == Kernel!WithEntry(m, e)
<1>1. PICK S \in SUBSET KernelLines : m \in [S -> KernelVersions]
  BY DEF VersionMaps
<1>2. line \in KernelLines
  BY DEF KernelLines
<1>3. u = [l \in S \cup {line} |->
             IF l = line /\ (l \notin S \/ Kernel!NewerThan(e.version, m[l]))
             THEN e.version ELSE m[l]]
  BY <1>1 DEF Kernel!WithEntry
<1> HIDE DEF u, line
<1>4. u \in [S \cup {line} -> KernelVersions]
  BY <1>1, <1>3
<1>5. u \in VersionMaps
  BY <1>2, <1>4 DEF VersionMaps
<1> QED
  BY <1>1, <1>3, <1>5 DEF u, line

\* One more entry: the map has the newest versions of one more.
LEMMA OneMoreEntry ==
  ASSUME NEW entries, NEW n \in Nat, NEW m \in VersionMaps, IsNewest(m, entries, n),
         \A j \in 1 .. n + 1 : entries[j].version \in KernelVersions
  PROVE  IsNewest(Kernel!WithEntry(m, entries[n + 1]), entries, n + 1)
<1> DEFINE u == Kernel!WithEntry(m, entries[n + 1])
           v(j) == entries[j].version
           L(x) == Kernel!LineOf(x)
<1>1. 1 .. n + 1 = (1 .. n) \cup {n + 1} /\ n + 1 \in 1 .. n + 1 /\ v(n + 1) \in KernelVersions
  OBVIOUS
<1>2. \A l : l \in DOMAIN u <=> l \in DOMAIN m \/ l = L(v(n + 1))
  BY <1>1, WithEntryFits
<1>3. \A l \in DOMAIN u :
        u[l] = IF l = L(v(n + 1)) /\ (l \notin DOMAIN m \/ Kernel!NewerThan(v(n + 1), m[l]))
               THEN v(n + 1) ELSE m[l]
  BY <1>1, WithEntryFits
<1>4. \A l : l \in DOMAIN m <=> \E j \in 1 .. n : L(v(j)) = l
  BY DEF IsNewest
<1>5. \A l \in DOMAIN m : /\ \E j \in 1 .. n : m[l] = v(j) /\ L(m[l]) = l
                          /\ \A j \in 1 .. n : L(v(j)) = l => ~Kernel!NewerThan(v(j), m[l])
  BY DEF IsNewest
<1>6. \A j \in 1 .. n + 1 : v(j) \in KernelVersions
  OBVIOUS
<1> HIDE DEF u, v, L
<1>7. \A l : l \in DOMAIN u <=> \E j \in 1 .. n + 1 : L(v(j)) = l
  BY <1>1, <1>2, <1>4
<1>8. ASSUME NEW l \in DOMAIN u
      PROVE  /\ \E j \in 1 .. n + 1 : u[l] = v(j) /\ L(u[l]) = l
             /\ \A j \in 1 .. n + 1 : L(v(j)) = l => ~Kernel!NewerThan(v(j), u[l])
  <2>1. CASE l \in DOMAIN m /\ (l # L(v(n + 1)) \/ ~Kernel!NewerThan(v(n + 1), m[l]))
    <3>1. u[l] = m[l]
      BY <1>3, <2>1
    <3>2. ASSUME NEW j \in 1 .. n + 1, L(v(j)) = l PROVE ~Kernel!NewerThan(v(j), u[l])
      BY <1>1, <1>5, <2>1, <3>1, <3>2
    <3> QED
      BY <1>1, <1>5, <2>1, <3>1, <3>2
  <2>2. CASE l \in DOMAIN m /\ l = L(v(n + 1)) /\ Kernel!NewerThan(v(n + 1), m[l])
    <3>1. u[l] = v(n + 1)
      BY <1>3, <2>2
    <3>2. PICK i \in 1 .. n : m[l] = v(i)
      BY <1>5, <2>2
    <3>3. ASSUME NEW j \in 1 .. n + 1, L(v(j)) = l PROVE ~Kernel!NewerThan(v(j), v(n + 1))
      <4>1. CASE j = n + 1
        BY <1>6, <4>1, NewerThanOrders
      <4>2. CASE j \in 1 .. n
        <5>1. ~Kernel!NewerThan(v(j), m[l])
          BY <1>5, <2>2, <3>3, <4>2
        <5>2. m[l] \in KernelVersions /\ v(j) \in KernelVersions /\ v(n + 1) \in KernelVersions
          BY <1>1, <1>6, <3>2
        <5>3. ~Kernel!NewerThan(m[l], v(n + 1))
          BY <2>2, <5>2, NewerThanOrders
        <5> QED
          BY <5>1, <5>2, <5>3, NewerThanOrders
      <4> QED
        BY <1>1, <4>1, <4>2
    <3> QED
      BY <1>1, <2>2, <3>1, <3>3
  <2>3. CASE l \notin DOMAIN m
    <3>1. l = L(v(n + 1)) /\ u[l] = v(n + 1)
      BY <1>2, <1>3, <2>3
    <3>2. ASSUME NEW j \in 1 .. n + 1, L(v(j)) = l PROVE ~Kernel!NewerThan(v(j), v(n + 1))
      <4>1. j = n + 1
        BY <1>1, <1>4, <2>3, <3>2
      <4> QED
        BY <1>6, <4>1, NewerThanOrders
    <3> QED
      BY <1>1, <3>1, <3>2
  <2> QED
    BY <1>2, <2>1, <2>2, <2>3
<1> QED
  BY <1>7, <1>8 DEF IsNewest, u, v, L

------------------------------------------------------------------------------
(* The Linux headers: the steps.                                            *)

KernelTypes ==
  /\ users \in Seq(Seq(DOMAIN Index)) /\ user \in 1 .. Len(users) + 1
  /\ seen \in Nat /\ phase \in {"walk", "declared", "loaded", "built", "failed"}

\* The index in force is that of the last module visited that has one.
IndexInv ==
  \/ index = <<>> /\ \A k \in 1 .. user - 1 : users[k] = <<>>
  \/ \E k \in 1 .. user - 1 :
       /\ users[k] # <<>> /\ index = Index[Kernel!Last(users[k])]
       /\ \A j \in 1 .. user - 1 : users[j] # <<>> => j <= k

\* The map is that of the versions seen, which are all when the walk is over,
\* and once it is loaded no line of it is missing.
MapInv ==
  /\ map \in VersionMaps /\ seen <= Len(index) /\ IsNewest(map, index, seen)
  /\ user <= Len(users) => seen = 0
  /\ phase # "walk" => user = Len(users) + 1 /\ seen = Len(index)
  /\ phase \in {"loaded", "built"} => Lines \subseteq DOMAIN map

\* A target has what is selected for it.
SelectInv ==
  IF phase = "built"
  THEN /\ platform \in Kernel!UserPlatforms
       /\ headers = Kernel!SelectedHeaders(platform) /\ glibc = Kernel!SelectedGlibc(platform)
  ELSE platform = None /\ headers = None /\ glibc = None

KernelInv == KernelTypes /\ IndexInv /\ MapInv /\ SelectInv

\* What the map of the versions seen says depends on the map and the index only.
LEMMA SameMap ==
  ASSUME MapInv, UNCHANGED <<users, user, index, seen, map, phase>>
  PROVE  MapInv'
BY DEF MapInv, IsNewest, Kernel!NewerThan, Kernel!LineOf

\* The index in force is one of the files or none, with versions throughout.
LEMMA IndexFacts ==
  ASSUME KernelTypes, IndexInv
  PROVE  /\ index = <<>> \/ \E f \in DOMAIN Index : index = Index[f]
         /\ IsSequence(index) /\ \A i \in DOMAIN index : index[i].version \in KernelVersions
<1>1. CASE index = <<>>
  BY <1>1 DEF IsSequence
<1>2. CASE index # <<>>
  <2>1. PICK k \in 1 .. user - 1 : users[k] # <<>> /\ index = Index[Kernel!Last(users[k])]
    BY <1>2 DEF IndexInv
  <2>2. k \in DOMAIN users /\ users[k] \in Seq(DOMAIN Index)
    BY DEF KernelTypes
  <2>3. Kernel!Last(users[k]) \in DOMAIN Index
    BY <2>1, <2>2 DEF Kernel!Last
  <2> QED
    BY <2>1, <2>3, IndexAssumption
<1> QED
  BY <1>1, <1>2

LEMMA KernelInit == ASSUME Kernel!Init PROVE KernelInv
<1> USE DEF Kernel!Init
<1>1. users \in Seq(Seq(DOMAIN Index))
  BY KernelModulesAssumption
<1>2. KernelTypes /\ IndexInv
  BY <1>1 DEF KernelTypes, IndexInv
<1>3. map \in VersionMaps
  <2>1. <<>> \in [{} -> KernelVersions] /\ {} \in SUBSET KernelLines
    OBVIOUS
  <2> QED
    BY <2>1 DEF VersionMaps
<1>4. IsNewest(map, index, seen)
  <2>1. DOMAIN map = {} /\ 1 .. 0 = {}
    OBVIOUS
  <2> QED
    BY <2>1 DEF IsNewest
<1>5. MapInv
  BY <1>3, <1>4 DEF MapInv
<1> QED
  BY <1>2, <1>5 DEF KernelInv, SelectInv

LEMMA ReadIndexKeeps == ASSUME KernelInv, Kernel!ReadIndex PROVE KernelInv'
<1>1. /\ phase = "walk" /\ user <= Len(users) /\ user' = user + 1 /\ users' = users
      /\ index' = IF users[user] = <<>> THEN index ELSE Index[Kernel!Last(users[user])]
      /\ UNCHANGED <<seen, map, phase, platform, headers, glibc>>
  BY DEF Kernel!ReadIndex
<1>2. user \in Nat /\ user >= 1 /\ user' - 1 = user /\ 1 .. user = (1 .. user - 1) \cup {user}
      /\ user' \in 1 .. Len(users) + 1
  BY <1>1 DEF KernelInv, KernelTypes
<1>3. IndexInv'
  <2>1. \/ index' = <<>> /\ \A k \in 1 .. user : users[k] = <<>>
        \/ \E k \in 1 .. user :
             /\ users[k] # <<>> /\ index' = Index[Kernel!Last(users[k])]
             /\ \A j \in 1 .. user : users[j] # <<>> => j <= k
    <3>1. CASE users[user] = <<>>
      <4>1. index' = index
        BY <1>1, <3>1
      <4>2. CASE \A k \in 1 .. user - 1 : users[k] = <<>>
        BY <1>2, <3>1, <4>1, <4>2 DEF KernelInv, IndexInv
      <4>3. CASE ~(\A k \in 1 .. user - 1 : users[k] = <<>>)
        <5>1. PICK k \in 1 .. user - 1 :
                /\ users[k] # <<>> /\ index = Index[Kernel!Last(users[k])]
                /\ \A j \in 1 .. user - 1 : users[j] # <<>> => j <= k
          BY <4>3 DEF KernelInv, IndexInv
        <5> QED
          BY <1>2, <3>1, <4>1, <5>1
      <4> QED
        BY <4>2, <4>3
    <3>2. CASE users[user] # <<>>
      <4>1. index' = Index[Kernel!Last(users[user])]
        BY <1>1, <3>2
      <4>2. user \in 1 .. user /\ \A j \in 1 .. user : j <= user
        BY <1>2
      <4> QED
        BY <3>2, <4>1, <4>2
    <3> QED
      BY <3>1, <3>2
  <2> QED
    BY <1>1, <1>2, <2>1 DEF IndexInv, Kernel!Last
<1>4. KernelTypes'
  BY <1>1, <1>2 DEF KernelInv, KernelTypes
<1>5. MapInv'
  <2>1. seen = 0 /\ map \in VersionMaps /\ IsNewest(map, index, 0)
    BY <1>1 DEF KernelInv, MapInv
  <2>2. DOMAIN map = {} /\ 1 .. 0 = {}
    BY <2>1 DEF IsNewest
  <2>3. IsNewest(map, index, seen)'
    BY <1>1, <2>1, <2>2 DEF IsNewest
  <2>4. map' \in VersionMaps /\ seen' = 0 /\ phase' = "walk"
    BY <1>1, <2>1
  <2>5. Len(index') \in Nat
    <3>1. index' = <<>> \/ \E f \in DOMAIN Index : index' = Index[f]
      BY <1>1, <1>2, IndexFacts DEF KernelInv, KernelTypes, Kernel!Last
    <3> QED
      BY <3>1, IndexAssumption DEF IsSequence
  <2>6. seen' <= Len(index')
    BY <2>4, <2>5
  <2> QED
    BY <2>3, <2>4, <2>6 DEF MapInv
<1>6. SelectInv'
  BY <1>1 DEF KernelInv, SelectInv
<1> QED
  BY <1>3, <1>4, <1>5, <1>6 DEF KernelInv

LEMMA MapVersionKeeps == ASSUME KernelInv, Kernel!MapVersion PROVE KernelInv'
<1>1. /\ phase = "walk" /\ user > Len(users) /\ seen < Len(index) /\ seen' = seen + 1
      /\ map' = Kernel!WithEntry(map, index[seen + 1])
      /\ UNCHANGED <<users, user, index, phase, platform, headers, glibc>>
  BY DEF Kernel!MapVersion
<1>2. /\ seen \in Nat /\ map \in VersionMaps /\ IsNewest(map, index, seen)
      /\ Len(index) \in Nat /\ DOMAIN index = 1 .. Len(index)
      /\ \A j \in DOMAIN index : index[j].version \in KernelVersions
  BY IndexFacts DEF KernelInv, KernelTypes, MapInv, IsSequence
<1>3. seen + 1 \in Nat /\ seen + 1 <= Len(index) /\ seen + 1 \in DOMAIN index
      /\ \A j \in 1 .. seen + 1 : j \in DOMAIN index
  BY <1>1, <1>2
<1>4. map' \in VersionMaps
  BY <1>1, <1>2, <1>3, WithEntryFits
<1>5. IsNewest(map', index, seen + 1)
  BY <1>1, <1>2, <1>3, OneMoreEntry
<1>6. MapInv'
  <2>1. IsNewest(map, index, seen)'
    BY <1>1, <1>5 DEF IsNewest, Kernel!NewerThan, Kernel!LineOf
  <2>2. ~(user' <= Len(users'))
    BY <1>1 DEF KernelInv, KernelTypes
  <2> QED
    BY <1>1, <1>3, <1>4, <2>1, <2>2 DEF MapInv
<1>7. KernelTypes' /\ IndexInv' /\ SelectInv'
  BY <1>1, <1>3 DEF KernelInv, KernelTypes, IndexInv, SelectInv, Kernel!Last
<1> QED
  BY <1>6, <1>7 DEF KernelInv

LEMMA DeclareMapKeeps == ASSUME KernelInv, Kernel!Declare PROVE KernelInv'
<1>1. /\ phase = "walk" /\ user > Len(users) /\ seen = Len(index) /\ phase' = "declared"
      /\ UNCHANGED <<users, user, index, seen, map, platform, headers, glibc>>
  BY DEF Kernel!Declare
<1>2. user = Len(users) + 1
  BY <1>1 DEF KernelInv, KernelTypes
<1>3. MapInv'
  BY <1>1, <1>2 DEF KernelInv, MapInv, IsNewest, Kernel!NewerThan, Kernel!LineOf
<1>4. KernelTypes' /\ IndexInv' /\ SelectInv'
  BY <1>1 DEF KernelInv, KernelTypes, IndexInv, SelectInv, Kernel!Last
<1> QED
  BY <1>3, <1>4 DEF KernelInv

LEMMA LoadKeeps == ASSUME KernelInv, Kernel!Load PROVE KernelInv'
<1>1. /\ phase = "declared" /\ phase' = IF Lines \subseteq DOMAIN map THEN "loaded" ELSE "failed"
      /\ UNCHANGED <<users, user, index, seen, map, platform, headers, glibc>>
  BY DEF Kernel!Load
<1>2. MapInv'
  BY <1>1 DEF KernelInv, MapInv, IsNewest, Kernel!NewerThan, Kernel!LineOf
<1>3. KernelTypes' /\ IndexInv' /\ SelectInv'
  BY <1>1 DEF KernelInv, KernelTypes, IndexInv, SelectInv, Kernel!Last
<1> QED
  BY <1>2, <1>3 DEF KernelInv

\* The platforms declared here are among those a user could declare.
LEMMA DeclaredPlatformFacts == Kernel!DeclaredPlatforms \subseteq Kernel!UserPlatforms
<1> SUFFICES ASSUME NEW p \in Kernel!DeclaredPlatforms PROVE p \in Kernel!UserPlatforms
  OBVIOUS
<1>1. PICK c \in Cpus :
        p \in [cpu : {c}, libc : {Kernel!default_libc(c)} \cup Libcs, kernel : {AnyKernel}]
  BY DEF Kernel!DeclaredPlatforms
<1>2. Kernel!default_libc(c) \in Libcs
  BY LibcsAssumption DEF Kernel!default_libc
<1> QED
  BY <1>1, <1>2 DEF Kernel!UserPlatforms

LEMMA BuildKeeps == ASSUME KernelInv, Kernel!Build PROVE KernelInv'
<1>1. /\ phase = "loaded" /\ phase' = "built"
      /\ platform' \in Kernel!DeclaredPlatforms \cup Kernel!UserPlatforms
      /\ headers' = Kernel!SelectedHeaders(platform') /\ glibc' = Kernel!SelectedGlibc(platform')
      /\ UNCHANGED <<users, user, index, seen, map>>
  BY DEF Kernel!Build
<1>2. MapInv'
  BY <1>1 DEF KernelInv, MapInv, IsNewest, Kernel!NewerThan, Kernel!LineOf
<1>3. KernelTypes' /\ IndexInv'
  BY <1>1 DEF KernelInv, KernelTypes, IndexInv, Kernel!Last
<1>4. SelectInv'
  <2>1. platform' \in Kernel!UserPlatforms
    BY <1>1, DeclaredPlatformFacts
  <2>2. Kernel!SelectedHeaders(platform)' = Kernel!SelectedHeaders(platform')
    BY <1>1 DEF Kernel!SelectedHeaders, Kernel!AvailableHeaders, Kernel!ArchsOf
  <2>3. Kernel!SelectedGlibc(platform)' = Kernel!SelectedGlibc(platform')
    BY DEF Kernel!SelectedGlibc
  <2> QED
    BY <1>1, <2>1, <2>2, <2>3 DEF SelectInv, Kernel!UserPlatforms
<1> QED
  BY <1>2, <1>3, <1>4 DEF KernelInv

LEMMA KernelStutters == ASSUME KernelInv, UNCHANGED kernel PROVE KernelInv'
<1>1. UNCHANGED <<users, user, index, seen, map, phase, platform, headers, glibc>>
  BY DEF kernel
<1>2. MapInv'
  BY <1>1, SameMap DEF KernelInv
<1>3. KernelTypes' /\ IndexInv'
  BY <1>1 DEF KernelInv, KernelTypes, IndexInv, Kernel!Last
<1>4. SelectInv'
  <2>1. Kernel!SelectedHeaders(platform)' = Kernel!SelectedHeaders(platform)
    BY <1>1 DEF Kernel!SelectedHeaders, Kernel!AvailableHeaders, Kernel!ArchsOf
  <2>2. Kernel!SelectedGlibc(platform)' = Kernel!SelectedGlibc(platform)
    BY <1>1 DEF Kernel!SelectedGlibc
  <2> QED
    BY <1>1, <2>1, <2>2 DEF KernelInv, SelectInv, Kernel!UserPlatforms
<1> QED
  BY <1>2, <1>3, <1>4 DEF KernelInv

LEMMA KernelSteps == KernelInv /\ [Kernel!Next]_kernel => KernelInv'
<1> SUFFICES ASSUME KernelInv, [Kernel!Next]_kernel PROVE KernelInv'
  OBVIOUS
<1>1. CASE UNCHANGED kernel
  BY <1>1, KernelStutters
<1>2. CASE Kernel!Ended
  BY <1>1, <1>2 DEF Kernel!Ended, Kernel!vars, kernel
<1> QED
  BY <1>1, <1>2, ReadIndexKeeps, MapVersionKeeps, DeclareMapKeeps, LoadKeeps, BuildKeeps
     DEF Kernel!Next

------------------------------------------------------------------------------
(* The Linux headers: what a target gets.                                   *)

\* What is selected for a platform is of the index, or nothing.
LEMMA SelectedFacts ==
  ASSUME KernelInv, phase = "built"
  PROVE  platform \in Kernel!UserPlatforms /\ headers \in Kernel!Versions \cup {None}
<1> DEFINE v == IF platform.kernel = AnyKernel THEN LibcKernel[platform.libc]
                ELSE map[platform.kernel]
<1>1. platform \in Kernel!UserPlatforms /\ headers = Kernel!SelectedHeaders(platform)
  BY DEF KernelInv, SelectInv
<1>2. headers = IF platform.cpu \in Kernel!ArchsOf(v) THEN v ELSE None
  BY <1>1 DEF Kernel!SelectedHeaders, Kernel!AvailableHeaders
<1> HIDE DEF v
<1>3. platform.cpu \in Kernel!ArchsOf(v) => v \in Kernel!Versions
  BY DEF Kernel!ArchsOf, Kernel!Versions
<1> QED
  BY <1>1, <1>2, <1>3

LEMMA KernelTypeOK == ASSUME KernelInv PROVE Kernel!TypeOK
<1>1. /\ user \in 1 .. Len(users) + 1
      /\ seen \in 0 .. Len(index)
      /\ phase \in {"walk", "declared", "loaded", "built", "failed"}
  BY IndexFacts DEF KernelInv, KernelTypes, MapInv, IsSequence
<1>2. index = <<>> \/ index \in {Index[f] : f \in DOMAIN Index}
  BY IndexFacts DEF KernelInv
<1>3. CASE phase # "built"
  BY <1>1, <1>2, <1>3 DEF KernelInv, SelectInv, Kernel!TypeOK
<1>4. CASE phase = "built"
  <2>1. platform \in Kernel!UserPlatforms /\ headers \in Kernel!Versions \cup {None}
    BY <1>4, SelectedFacts
  <2>2. glibc \in Libcs \cup {None}
    BY <1>4, <2>1, LibcsAssumption
       DEF KernelInv, SelectInv, Kernel!SelectedGlibc, Kernel!UserPlatforms
  <2> QED
    BY <1>1, <1>2, <2>1, <2>2 DEF Kernel!TypeOK
<1> QED
  BY <1>3, <1>4

LEMMA KernelNewest == ASSUME KernelInv PROVE Kernel!NewestOfTheLastIndex
<1> DEFINE S == {k \in DOMAIN users : users[k] # <<>>}
<1> SUFFICES ASSUME phase # "walk", S # {}
             PROVE  /\ index = Index[Kernel!Last(users[Kernel!Deciding])]
                    /\ {map[l] : l \in DOMAIN map} \subseteq Kernel!Versions
                    /\ \A l \in DOMAIN map : Kernel!LineOf(map[l]) = l
                    /\ \A v \in Kernel!Versions :
                         /\ Kernel!LineOf(v) \in DOMAIN map
                         /\ ~Kernel!NewerThan(v, map[Kernel!LineOf(v)])
  BY DEF Kernel!NewestOfTheLastIndex
<1>1. /\ user - 1 = Len(users) /\ Len(users) \in Nat /\ DOMAIN users = 1 .. Len(users)
      /\ IsNewest(map, index, Len(index))
  BY DEF KernelInv, KernelTypes, MapInv
<1>2. PICK k \in S : /\ index = Index[Kernel!Last(users[k])]
                     /\ \A j \in S : j <= k
  BY <1>1 DEF KernelInv, IndexInv
<1>3. Kernel!Deciding = k
  <2>1. S \subseteq 0 .. Len(users) /\ S # {}
    BY <1>1
  <2>2. Kernel!Deciding = Max(S)
    BY KernelMax DEF Kernel!Deciding
  <2>5. k \in Int /\ S \subseteq Int
    BY <1>1
  <2> HIDE DEF S
  <2>3. Max(S) \in S /\ k <= Max(S)
    BY <1>1, <2>1, MaxOf
  <2>4. Max(S) <= k /\ Max(S) \in Int /\ k \in Int
    BY <1>2, <2>3, <2>5
  <2> QED
    BY <2>2, <2>3, <2>4
<1>4. Kernel!Versions = {index[j].version : j \in 1 .. Len(index)}
  BY IndexFacts DEF KernelInv, IsSequence, Kernel!Versions
<1>5. /\ {map[l] : l \in DOMAIN map} \subseteq Kernel!Versions
      /\ \A l \in DOMAIN map : Kernel!LineOf(map[l]) = l
  BY <1>1, <1>4 DEF IsNewest
<1>6. ASSUME NEW v \in Kernel!Versions
      PROVE  Kernel!LineOf(v) \in DOMAIN map /\ ~Kernel!NewerThan(v, map[Kernel!LineOf(v)])
  BY <1>1, <1>4 DEF IsNewest
<1> QED
  BY <1>2, <1>3, <1>5, <1>6

------------------------------------------------------------------------------
(* The index of releases.                                                   *)

Read == (page - 1) * PageSize
Has(list, version) == \E k \in DOMAIN list : list[k].version = version

ReleasesTypes ==
  /\ releases \in Seq(Releases!Releases) /\ start \in Seq(Releases!Releases)
  /\ Releases!OncePerVersion(releases) /\ touched \subseteq Releasable
  /\ deletions \in 0 .. events /\ events \in 0 .. MaxEvents
  /\ indexPc \in {"fetch", "write", "done"} /\ page \in Nat \ {0} /\ exit \in {0, 1}
  /\ DOMAIN result \subseteq Releasable /\ \A v \in DOMAIN result : result[v] \in Digests
  /\ IsFiniteSet(DOMAIN result)
  /\ warnings \subseteq Releasable
  /\ output.state \in {"old", "torn", "written"}
  /\ output.entries \in Seq([version : Releasable, digest : Digests])

\* What nobody has touched is there as it was, and is indexed as it is.
StaysInv ==
  /\ \A i \in DOMAIN start : start[i].version \notin touched =>
       \E k \in DOMAIN releases : releases[k] = start[i]
  /\ \A v \in DOMAIN result : v \notin touched =>
       \E k \in DOMAIN releases : releases[k].version = v /\ releases[k].asset = result[v]

\* Unless a release is deleted, those in front of the next page have been seen:
\* what is published moves them back, never past a page that was read.
Seen(r) ==
  r.version \notin touched /\ r.version.major >= MinMajor =>
    r.version \in IF r.asset \in Digests THEN DOMAIN result ELSE warnings
SeenInv ==
  deletions = 0 => \A k \in DOMAIN releases : k <= Read => Seen(releases[k])

\* The pages end behind the last release; the output is the index, in order.
EndInv ==
  /\ indexPc = "write" => Len(releases) <= Read
  /\ indexPc = "done" /\ exit = 0 =>
       /\ Len(releases) <= Read
       /\ \A v \in DOMAIN result : [version |-> v, digest |-> result[v]] \in
                                     Range(output.entries)
       /\ \A k \in DOMAIN output.entries : output.entries[k].version \in DOMAIN result
       /\ \A j, k \in DOMAIN output.entries :
            j < k => Releases!Lower(output.entries[j].version, output.entries[k].version)

ReleasesInv == ReleasesTypes /\ StaysInv /\ SeenInv /\ EndInv

LEMMA ReleasesInit == ASSUME Releases!Init PROVE ReleasesInv
<1> USE DEF Releases!Init, Releases!Output
<1>1. releases \in Seq(Releases!Releases) /\ Releases!OncePerVersion(releases)
  <2>1. releases \in Releases!SeqOf([version : Releasable,
                       asset : Releases!Assets \ (Digests \ {CHOOSE d \in Digests : TRUE})], 3)
    OBVIOUS
  <2>2. PICK m \in 0 .. 3 :
          releases \in [1 .. m -> [version : Releasable,
                          asset : Releases!Assets \ (Digests \ {CHOOSE d \in Digests : TRUE})]]
    BY <2>1 DEF Releases!SeqOf
  <2>3. releases \in [1 .. m -> Releases!Releases]
    BY <2>2 DEF Releases!Releases
  <2> QED
    BY <2>3
<1>2. DOMAIN result = {}
  OBVIOUS
<1>3. ReleasesTypes
  BY <1>1, <1>2, PagesAssumption, FS_EmptySet DEF ReleasesTypes
<1>4. StaysInv
  BY <1>2 DEF StaysInv
<1>5. SeenInv
  <2>1. Read = 0
    BY PagesAssumption DEF Read
  <2> QED
    BY <1>1, <2>1 DEF SeenInv
<1>6. EndInv
  BY DEF EndInv
<1> QED
  BY <1>3, <1>4, <1>5, <1>6 DEF ReleasesInv

LEMMA ReleaseFacts ==
  ASSUME ReleasesTypes, NEW k \in DOMAIN releases
  PROVE  /\ releases[k] \in Releases!Releases /\ releases[k].version \in Releasable
         /\ releases[k].version.major \in Nat /\ k \in Nat /\ k >= 1
<1>1. releases[k] \in Releases!Releases /\ k \in Nat /\ k >= 1
  <2>1. releases \in Seq(Releases!Releases)
    BY DEF ReleasesTypes
  <2> QED
    BY <2>1
<1>2. releases[k].version \in Releasable
  BY <1>1 DEF Releases!Releases
<1>3. releases[k].version \in [major : Nat, rc : Nat]
  BY <1>2, ReleasableAssumption
<1> QED
  BY <1>1, <1>2, <1>3

LEMMA ReadFacts ==
  ASSUME ReleasesTypes
  PROVE  /\ Read \in Nat /\ page * PageSize = Read + PageSize
         /\ page + 1 - 1 = page /\ page * PageSize \in Nat
<1>1. page \in Nat /\ page >= 1 /\ PageSize \in Nat
  BY PagesAssumption DEF ReleasesTypes
<1>2. \E p \in Nat : page = p + 1
  BY <1>1
<1>3. PICK p \in Nat : page = p + 1
  BY <1>2
<1>4. Read = p * PageSize /\ page * PageSize = p * PageSize + PageSize
  BY <1>1, <1>3 DEF Read
<1>5. p * PageSize \in Nat
  BY <1>1
<1> QED
  BY <1>1, <1>4, <1>5

\* What a change leaves of the other versions.
LEMMA ChangeKeeps ==
  ASSUME ReleasesInv, NEW v \in Releasable, Releases!Change(v),
         releases' \in Seq(Releases!Releases), Releases!OncePerVersion(releases'),
         \A k \in DOMAIN releases : releases[k].version # v =>
           \E j \in DOMAIN releases' : releases'[j] = releases[k],
         \/ deletions' = deletions + 1
         \/ /\ deletions' = deletions
            /\ \A j \in DOMAIN releases' : releases'[j].version # v =>
                 \E k \in DOMAIN releases : k <= j /\ releases[k] = releases'[j]
  PROVE  ReleasesInv'
<1>1. /\ indexPc = "fetch" /\ events < MaxEvents /\ events' = events + 1
      /\ touched' = touched \cup {v}
      /\ UNCHANGED <<start, indexPc, page, result, warnings, output, exit>>
  BY DEF Releases!Change
<1>2. ReleasesTypes
  BY DEF ReleasesInv
<1>3. ReleasesTypes'
  <2>1. events' \in 0 .. MaxEvents /\ deletions' \in 0 .. events'
    BY <1>1, <1>2, PagesAssumption DEF ReleasesTypes
  <2>2. Releases!OncePerVersion(releases)'
    BY DEF Releases!OncePerVersion
  <2> QED
    BY <1>1, <1>2, <2>1, <2>2 DEF ReleasesTypes, Releases!Releases, Releases!Assets
<1>4. StaysInv'
  <2>1. ASSUME NEW i \in DOMAIN start, start[i].version \notin touched'
        PROVE  \E k \in DOMAIN releases' : releases'[k] = start[i]
    <3>1. PICK k \in DOMAIN releases : releases[k] = start[i]
      BY <1>1, <2>1 DEF ReleasesInv, StaysInv
    <3> QED
      BY <1>1, <2>1, <3>1
  <2>2. ASSUME NEW u \in DOMAIN result, u \notin touched'
        PROVE  \E k \in DOMAIN releases' :
                 releases'[k].version = u /\ releases'[k].asset = result[u]
    <3>1. PICK k \in DOMAIN releases : releases[k].version = u /\ releases[k].asset = result[u]
      BY <1>1, <2>2 DEF ReleasesInv, StaysInv
    <3>2. PICK j \in DOMAIN releases' : releases'[j] = releases[k]
      BY <1>1, <2>2, <3>1
    <3> QED
      BY <3>1, <3>2
  <2> QED
    BY <1>1, <2>1, <2>2 DEF StaysInv
<1>5. SeenInv'
  <2> SUFFICES ASSUME deletions' = 0, NEW j \in DOMAIN releases', j <= Read'
               PROVE  Seen(releases[j])'
    BY DEF SeenInv
  <2>1. deletions' = deletions /\ deletions = 0
    BY <1>2 DEF ReleasesTypes
  <2>2. CASE releases'[j].version = v
    BY <1>1, <2>2 DEF Seen
  <2>3. CASE releases'[j].version # v
    <3>1. deletions' # deletions + 1
      BY <2>1
    <3>2. PICK k \in DOMAIN releases : k <= j /\ releases[k] = releases'[j]
      BY <2>3, <3>1
    <3>3. Read' = Read
      BY <1>1 DEF Read
    <3>4. k <= Read
      <4>1. k \in Nat /\ j \in Nat /\ Read \in Nat
        BY <1>2, ReadFacts DEF ReleasesTypes
      <4> QED
        BY <3>2, <3>3, <4>1
    <3>5. Seen(releases[k])
      BY <2>1, <3>4 DEF ReleasesInv, SeenInv
    <3> QED
      BY <1>1, <3>2, <3>5 DEF Seen
  <2> QED
    BY <2>2, <2>3
<1>6. EndInv'
  BY <1>1 DEF EndInv
<1> QED
  BY <1>3, <1>4, <1>5, <1>6 DEF ReleasesInv

LEMMA PublishKeeps == ASSUME ReleasesInv, Releases!Publish PROVE ReleasesInv'
<1>1. PICK r \in Releases!Releases :
        /\ r.version \notin Releases!VersionsIn(releases) \cup touched
        /\ releases' = <<r>> \o releases /\ deletions' = deletions /\ Releases!Change(r.version)
  BY DEF Releases!Publish
<1>2. releases \in Seq(Releases!Releases) /\ Releases!OncePerVersion(releases)
  BY DEF ReleasesInv, ReleasesTypes
<1>3. r.version \in Releasable /\ <<r>> \in Seq(Releases!Releases)
  BY DEF Releases!Releases
<1>4. /\ releases' \in Seq(Releases!Releases) /\ DOMAIN releases' = 1 .. Len(releases) + 1
      /\ releases'[1] = r /\ \A k \in 1 .. Len(releases) : releases'[k + 1] = releases[k]
      /\ Len(releases) \in Nat /\ DOMAIN releases = 1 .. Len(releases)
  BY <1>1, <1>2, <1>3
<1>5. \A j \in DOMAIN releases' :
        j # 1 => j - 1 \in DOMAIN releases /\ releases'[j] = releases[j - 1]
  <2> SUFFICES ASSUME NEW j \in DOMAIN releases', j # 1
               PROVE  j - 1 \in DOMAIN releases /\ releases'[j] = releases[j - 1]
    OBVIOUS
  <2>1. j - 1 \in 1 .. Len(releases) /\ (j - 1) + 1 = j
    BY <1>4
  <2> QED
    BY <1>4, <2>1
<1>6. \A k \in DOMAIN releases : releases[k].version # r.version
  BY <1>1 DEF Releases!VersionsIn
<1>7. Releases!OncePerVersion(releases')
  <2> SUFFICES ASSUME NEW i \in DOMAIN releases', NEW j \in DOMAIN releases',
                      releases'[i].version = releases'[j].version
               PROVE  i = j
    BY DEF Releases!OncePerVersion
  <2>1. CASE i = 1 \/ j = 1
    BY <1>4, <1>5, <1>6, <2>1
  <2>2. CASE i # 1 /\ j # 1
    <3>1. i - 1 = j - 1
      BY <1>2, <1>5, <2>2 DEF Releases!OncePerVersion
    <3> QED
      BY <1>4, <3>1
  <2> QED
    BY <2>1, <2>2
<1>8. \A k \in DOMAIN releases : \E j \in DOMAIN releases' : releases'[j] = releases[k]
  <2> TAKE k \in DOMAIN releases
  <2>1. k + 1 \in DOMAIN releases' /\ releases'[k + 1] = releases[k]
    BY <1>4
  <2> QED
    BY <2>1
<1>9. \A j \in DOMAIN releases' : releases'[j].version # r.version =>
        \E k \in DOMAIN releases : k <= j /\ releases[k] = releases'[j]
  <2> SUFFICES ASSUME NEW j \in DOMAIN releases', releases'[j].version # r.version
               PROVE  \E k \in DOMAIN releases : k <= j /\ releases[k] = releases'[j]
    OBVIOUS
  <2>1. j # 1 /\ j - 1 <= j
    BY <1>4
  <2> QED
    BY <1>5, <2>1
<1> QED
  BY <1>1, <1>3, <1>4, <1>7, <1>8, <1>9, ChangeKeeps

LEMMA DeleteKeeps == ASSUME ReleasesInv, Releases!Delete PROVE ReleasesInv'
<1>1. PICK k \in DOMAIN releases :
        /\ releases' = Releases!RemoveAt(releases, k)
        /\ deletions' = deletions + 1 /\ Releases!Change(releases[k].version)
  BY DEF Releases!Delete
<1>2. /\ releases \in Seq(Releases!Releases) /\ Releases!OncePerVersion(releases)
      /\ releases[k].version \in Releasable
  BY ReleaseFacts DEF ReleasesInv, ReleasesTypes
<1> DEFINE n == Len(releases)
           a == SubSeq(releases, 1, k - 1)
           b == SubSeq(releases, k + 1, n)
<1>3. /\ n \in Nat /\ k \in 1 .. n /\ DOMAIN releases = 1 .. n
      /\ \A i \in 1 .. n : releases[i] \in Releases!Releases
  BY <1>2
<1>4. /\ a \in Seq(Releases!Releases) /\ Len(a) = k - 1
      /\ \A i \in 1 .. k - 1 : a[i] = releases[i]
  <2>1. \A i \in 1 .. k - 1 : releases[i] \in Releases!Releases
    BY <1>3
  <2>2. /\ SubSeq(releases, 1, k - 1) \in Seq(Releases!Releases)
        /\ Len(SubSeq(releases, 1, k - 1)) = IF 1 <= k - 1 THEN k - 1 - 1 + 1 ELSE 0
        /\ \A i \in 1 .. k - 1 - 1 + 1 : SubSeq(releases, 1, k - 1)[i] = releases[1 + i - 1]
    BY <1>3, <2>1, SubSeqProperties
  <2>3. k - 1 - 1 + 1 = k - 1 /\ \A i \in 1 .. k - 1 : 1 + i - 1 = i
    BY <1>3
  <2> QED
    BY <1>3, <2>2, <2>3
<1>5. /\ b \in Seq(Releases!Releases) /\ Len(b) = n - k
      /\ \A i \in 1 .. n - k : b[i] = releases[k + i]
  <2>1. \A i \in k + 1 .. n : releases[i] \in Releases!Releases
    BY <1>3
  <2>2. /\ SubSeq(releases, k + 1, n) \in Seq(Releases!Releases)
        /\ Len(SubSeq(releases, k + 1, n)) = IF k + 1 <= n THEN n - (k + 1) + 1 ELSE 0
        /\ \A i \in 1 .. n - (k + 1) + 1 : SubSeq(releases, k + 1, n)[i] = releases[k + 1 + i - 1]
    BY <1>3, <2>1, SubSeqProperties
  <2>3. n - (k + 1) + 1 = n - k /\ \A i \in 1 .. n - k : k + 1 + i - 1 = k + i
    BY <1>3
  <2> QED
    BY <1>3, <2>2, <2>3
<1>6. releases' = a \o b
  BY <1>1 DEF Releases!RemoveAt
<1> HIDE DEF n, a, b
<1>7. /\ releases' \in Seq(Releases!Releases) /\ DOMAIN releases' = 1 .. n - 1
      /\ \A i \in 1 .. n - 1 : releases'[i] = IF i < k THEN releases[i] ELSE releases[i + 1]
  <2>1. /\ a \o b \in Seq(Releases!Releases) /\ Len(a \o b) = Len(a) + Len(b)
        /\ \A i \in 1 .. Len(a) + Len(b) :
             (a \o b)[i] = IF i <= Len(a) THEN a[i] ELSE b[i - Len(a)]
    BY <1>4, <1>5, ConcatProperties
  <2>2. Len(a) + Len(b) = n - 1 /\ DOMAIN (a \o b) = 1 .. n - 1
    BY <1>3, <1>4, <1>5, <2>1
  <2>3. ASSUME NEW i \in 1 .. n - 1
        PROVE  (a \o b)[i] = IF i < k THEN releases[i] ELSE releases[i + 1]
    <3>1. (a \o b)[i] = IF i <= k - 1 THEN a[i] ELSE b[i - (k - 1)]
      BY <1>4, <2>1, <2>2
    <3>2. CASE i < k
      BY <1>3, <1>4, <3>1, <3>2
    <3>3. CASE ~(i < k)
      <4>1. ~(i <= k - 1) /\ i - (k - 1) \in 1 .. n - k /\ k + (i - (k - 1)) = i + 1
        BY <1>3, <3>3
      <4> QED
        BY <1>5, <3>1, <3>3, <4>1
    <3> QED
      BY <3>2, <3>3
  <2> QED
    BY <1>6, <2>1, <2>2, <2>3
<1>8. Releases!OncePerVersion(releases')
  <2> SUFFICES ASSUME NEW i \in 1 .. n - 1, NEW j \in 1 .. n - 1,
                      releases'[i].version = releases'[j].version
               PROVE  i = j
    BY <1>7 DEF Releases!OncePerVersion
  <2> DEFINE f(x) == IF x < k THEN x ELSE x + 1
  <2>1. f(i) \in 1 .. n /\ f(j) \in 1 .. n /\ (f(i) = f(j) => i = j)
    BY <1>3
  <2>2. releases'[i] = releases[f(i)] /\ releases'[j] = releases[f(j)]
    BY <1>7
  <2> QED
    BY <1>2, <1>3, <2>1, <2>2 DEF Releases!OncePerVersion
<1>9. \A i \in DOMAIN releases : releases[i].version # releases[k].version =>
        \E j \in DOMAIN releases' : releases'[j] = releases[i]
  <2> SUFFICES ASSUME NEW i \in 1 .. n, i # k
               PROVE  \E j \in 1 .. n - 1 : releases'[j] = releases[i]
    BY <1>3, <1>7
  <2>1. CASE i < k
    <3>1. i \in 1 .. n - 1 /\ releases'[i] = releases[i]
      BY <1>3, <1>7, <2>1
    <3> QED
      BY <3>1
  <2>2. CASE i > k
    <3>1. i - 1 \in 1 .. n - 1 /\ ~(i - 1 < k) /\ (i - 1) + 1 = i
      BY <1>3, <2>2
    <3> QED
      BY <1>7, <3>1
  <2> QED
    BY <1>3, <2>1, <2>2
<1> QED
  BY <1>1, <1>2, <1>7, <1>8, <1>9, ChangeKeeps

LEMMA UploadKeeps == ASSUME ReleasesInv, Releases!Upload PROVE ReleasesInv'
<1>1. PICK k \in DOMAIN releases, d \in Digests :
        /\ releases' = [releases EXCEPT ![k].asset = d] /\ deletions' = deletions
        /\ Releases!Change(releases[k].version)
  BY DEF Releases!Upload
<1>2. /\ releases \in Seq(Releases!Releases) /\ Releases!OncePerVersion(releases)
      /\ releases[k].version \in Releasable
      /\ \A i \in DOMAIN releases : releases[i] \in Releases!Releases /\ i \in Nat
  BY ReleaseFacts DEF ReleasesInv, ReleasesTypes
<1> DEFINE r == [releases[k] EXCEPT !.asset = d]
<1>3. r \in Releases!Releases /\ r.version = releases[k].version
  BY <1>2 DEF Releases!Releases, Releases!Assets
<1>4. releases' = [releases EXCEPT ![k] = r]
  BY <1>1
<1> HIDE DEF r
<1>5. /\ releases' \in Seq(Releases!Releases) /\ DOMAIN releases' = DOMAIN releases
      /\ releases'[k] = r /\ \A i \in DOMAIN releases : i # k => releases'[i] = releases[i]
  BY <1>2, <1>3, <1>4
<1>6. \A i \in DOMAIN releases : releases'[i].version = releases[i].version
  BY <1>3, <1>5
<1>7. Releases!OncePerVersion(releases')
  BY <1>2, <1>5, <1>6 DEF Releases!OncePerVersion
<1>8. \A i \in DOMAIN releases : releases[i].version # releases[k].version =>
        \E j \in DOMAIN releases' : releases'[j] = releases[i]
  BY <1>5
<1>9. \A j \in DOMAIN releases' : releases'[j].version # releases[k].version =>
        \E i \in DOMAIN releases : i <= j /\ releases[i] = releases'[j]
  <2> SUFFICES ASSUME NEW j \in DOMAIN releases, j # k PROVE j <= j /\ releases[j] = releases'[j]
    BY <1>3, <1>5
  <2> QED
    BY <1>2, <1>5
<1> QED
  BY <1>1, <1>2, <1>5, <1>7, <1>8, <1>9, ChangeKeeps

\* The releases on the next page.
LEMMA PageFacts ==
  ASSUME ReleasesTypes
  PROVE  LET p == Releases!Page(page)
             last == IF Read + PageSize < Len(releases) THEN Read + PageSize ELSE Len(releases)
         IN  /\ DOMAIN p = 1 .. last - Read
             /\ \A i \in 1 .. last - Read : /\ Read + i \in DOMAIN releases /\ Read + i <= last
                                            /\ p[i] = releases[Read + i]
<1> DEFINE last == IF Read + PageSize < Len(releases) THEN Read + PageSize ELSE Len(releases)
           p == Releases!Page(page)
<1>1. /\ Read \in Nat /\ page * PageSize = Read + PageSize /\ Len(releases) \in Nat
      /\ PageSize \in Nat /\ DOMAIN releases = 1 .. Len(releases)
      /\ \A k \in DOMAIN releases : releases[k] \in Releases!Releases
  BY ReadFacts, ReleaseFacts, PagesAssumption DEF ReleasesTypes
<1>2. p = SubSeq(releases, Read + 1, last)
  BY <1>1 DEF Releases!Page, Releases!LastOf, Read
<1>3. last \in Nat /\ last <= Len(releases)
  BY <1>1
<1> HIDE DEF last, p
<1>4. \A i \in Read + 1 .. last : releases[i] \in Releases!Releases
  BY <1>1, <1>3
<1>5. Read + 1 \in Int /\ last \in Int
  BY <1>1, <1>3
<1>6. /\ SubSeq(releases, Read + 1, last) \in Seq(Releases!Releases)
      /\ Len(SubSeq(releases, Read + 1, last)) =
           IF Read + 1 <= last THEN last - (Read + 1) + 1 ELSE 0
      /\ \A i \in 1 .. last - (Read + 1) + 1 :
           SubSeq(releases, Read + 1, last)[i] = releases[Read + 1 + i - 1]
  BY <1>4, <1>5, SubSeqProperties
<1>7. /\ last - (Read + 1) + 1 = last - Read
      /\ \A i \in 1 .. last - Read : Read + 1 + i - 1 = Read + i /\ Read + i \in 1 .. last
  BY <1>1, <1>3
<1>8. DOMAIN p = 1 .. last - Read
  <2>1. DOMAIN p = 1 .. Len(p)
    BY <1>2, <1>6
  <2>2. CASE Read + 1 <= last
    BY <1>2, <1>6, <1>7, <2>1, <2>2
  <2>3. CASE ~(Read + 1 <= last)
    <3>1. 1 .. last - Read = {} /\ 1 .. 0 = {}
      BY <1>1, <1>3, <2>3
    <3> QED
      BY <1>2, <1>6, <2>1, <2>3, <3>1
  <2> QED
    BY <2>2, <2>3
<1>9. ASSUME NEW i \in 1 .. last - Read
      PROVE  Read + i \in DOMAIN releases /\ Read + i <= last /\ p[i] = releases[Read + i]
  <2>1. Read + i \in 1 .. last /\ last <= Len(releases)
    BY <1>3, <1>7
  <2>2. p[i] = releases[Read + i]
    BY <1>2, <1>6, <1>7
  <2> QED
    BY <1>1, <1>3, <2>1, <2>2
<1> QED
  BY <1>8, <1>9 DEF last, p

LEMMA FetchKeeps == ASSUME ReleasesInv, Releases!Fetch PROVE ReleasesInv'
<1> DEFINE p == Releases!Page(page)
           last == IF Read + PageSize < Len(releases) THEN Read + PageSize ELSE Len(releases)
           taken == {k \in DOMAIN p : Releases!Indexed(p[k])}
           left == {k \in DOMAIN p : p[k].version.major >= MinMajor} \ taken
           new == {p[k].version : k \in taken}
<1>1. /\ indexPc = "fetch" /\ page' = page + 1
      /\ result' = [v \in DOMAIN result \cup new |->
                      IF v \in new
                      THEN (CHOOSE r \in Releases!ToSet(p) : r.version = v).asset ELSE result[v]]
      /\ warnings' = warnings \cup {p[k].version : k \in left}
      /\ indexPc' = IF Releases!HasNext(page) THEN "fetch" ELSE "write"
      /\ UNCHANGED <<releases, touched, deletions, events, start, output, exit>>
  BY DEF Releases!Fetch, Releases!github
<1>2. ReleasesTypes
  BY DEF ReleasesInv
<1>3. /\ Read \in Nat /\ page * PageSize = Read + PageSize /\ page + 1 - 1 = page
      /\ Len(releases) \in Nat /\ PageSize \in Nat /\ DOMAIN releases = 1 .. Len(releases)
      /\ last \in Nat /\ last <= Len(releases) /\ last <= Read + PageSize
      /\ Read + PageSize < Len(releases) \/ last = Len(releases)
      /\ Read + PageSize >= Len(releases) \/ last = Read + PageSize
  BY <1>2, ReadFacts, PagesAssumption DEF ReleasesTypes
<1>4. /\ DOMAIN p = 1 .. last - Read
      /\ \A i \in 1 .. last - Read : /\ Read + i \in DOMAIN releases /\ Read + i <= last
                                     /\ p[i] = releases[Read + i]
  BY <1>2, PageFacts
<1> HIDE DEF p, last
<1>5. \A i \in DOMAIN p : /\ p[i] \in Releases!Releases /\ p[i].version \in Releasable
                          /\ Read + i \in DOMAIN releases /\ p[i] = releases[Read + i]
  BY <1>2, <1>4, ReleaseFacts
<1>6. ASSUME NEW k \in taken
      PROVE  /\ p[k].version \in new /\ p[k].asset \in Digests
             /\ result'[p[k].version] = p[k].asset
  <2>1. p[k].version \in new /\ p[k].asset \in Digests
    BY DEF Releases!Indexed
  <2>2. \A r \in Releases!ToSet(p) : r.version = p[k].version => r = p[k]
    <3> SUFFICES ASSUME NEW j \in DOMAIN p, p[j].version = p[k].version PROVE p[j] = p[k]
      BY DEF Releases!ToSet
    <3>1. releases[Read + j].version = releases[Read + k].version
      BY <1>5
    <3>2. Read + j = Read + k
      BY <1>2, <1>5, <3>1 DEF ReleasesTypes, Releases!OncePerVersion
    <3> QED
      BY <1>5, <3>2
  <2>3. p[k] \in Releases!ToSet(p)
    BY DEF Releases!ToSet
  <2>4. (CHOOSE r \in Releases!ToSet(p) : r.version = p[k].version) = p[k]
    BY <2>2, <2>3
  <2> HIDE DEF new
  <2> QED
    BY <1>1, <2>1, <2>4
<1>7. /\ DOMAIN result' = DOMAIN result \cup new
      /\ \A v \in DOMAIN result' : v \notin new => result'[v] = result[v]
  BY <1>1
<1>8. \A v \in new : \E k \in taken : v = p[k].version /\ result'[v] = p[k].asset
  BY <1>6
<1>9. ReleasesTypes'
  <2>1. DOMAIN result' \subseteq Releasable
    BY <1>2, <1>5, <1>7 DEF ReleasesTypes
  <2>2. \A v \in DOMAIN result' : result'[v] \in Digests
    <3> TAKE v \in DOMAIN result'
    <3> HIDE DEF new
    <3>1. CASE v \in new
      BY <1>6, <1>8, <3>1
    <3>2. CASE v \notin new
      BY <1>2, <1>7, <3>2 DEF ReleasesTypes
    <3> QED
      BY <3>1, <3>2
  <2>3. warnings' \subseteq Releasable
    BY <1>1, <1>2, <1>5 DEF ReleasesTypes
  <2>4. page' \in Nat \ {0} /\ indexPc' \in {"fetch", "write", "done"}
    BY <1>1, <1>2 DEF ReleasesTypes
  <2>5. IsFiniteSet(DOMAIN result')
    <3>1. IsFiniteSet(DOMAIN p)
      <4> HIDE DEF taken, left, new
      <4>4. last \in Nat /\ Read \in Nat
        BY <1>3, Zenon
      <4>1. last \in Int /\ Read \in Int
        BY <4>4
      <4>2. last - Read \in Int /\ 1 \in Int
        BY <4>1
      <4>3. IsFiniteSet(1 .. last - Read)
        BY <4>2, FS_Interval
      <4> QED
        BY <1>4, <4>3
    <3>2. IsFiniteSet(taken)
      BY <3>1, FS_Subset
    <3> DEFINE f == [k \in taken |-> p[k].version]
    <3> HIDE DEF taken
    <3>3. f \in Surjection(taken, new)
      BY DEF Surjection
    <3> HIDE DEF f, new
    <3>4. IsFiniteSet(new)
      BY <3>2, <3>3, FS_Surjection
    <3>5. IsFiniteSet(DOMAIN result)
      BY <1>2 DEF ReleasesTypes
    <3>6. IsFiniteSet(DOMAIN result \cup new)
      BY <3>4, <3>5, FS_Union
    <3> QED
      BY <1>7, <3>6
  <2> QED
    BY <1>1, <1>2, <2>1, <2>2, <2>3, <2>4, <2>5
       DEF ReleasesTypes, Releases!OncePerVersion, Releases!Releases, Releases!Assets
<1>10. StaysInv'
  <2>1. \A i \in DOMAIN start : start[i].version \notin touched =>
          \E k \in DOMAIN releases : releases[k] = start[i]
    BY DEF ReleasesInv, StaysInv
  <2>2. ASSUME NEW v \in DOMAIN result', v \notin touched
        PROVE  \E k \in DOMAIN releases :
                 releases[k].version = v /\ releases[k].asset = result'[v]
    <3> HIDE DEF new, taken
    <3>1. CASE v \in new
      <4>1. PICK k \in taken : v = p[k].version /\ result'[v] = p[k].asset
        BY <1>8, <3>1
      <4>2. k \in DOMAIN p
        BY DEF taken
      <4> QED
        BY <1>5, <4>1, <4>2
    <3>2. CASE v \notin new
      <4>1. v \in DOMAIN result /\ result'[v] = result[v]
        BY <1>7, <3>2
      <4> QED
        BY <2>2, <4>1 DEF ReleasesInv, StaysInv
    <3> QED
      BY <3>1, <3>2
  <2> QED
    BY <1>1, <2>1, <2>2 DEF StaysInv
<1>11. Read' = Read + PageSize
  <2>1. Read' = (page' - 1) * PageSize
    BY DEF Read
  <2>2. page' = page + 1 /\ page \in Nat
    BY <1>1, <1>2 DEF ReleasesTypes
  <2>3. page' - 1 = page
    BY <2>2
  <2> QED
    BY <1>3, <2>1, <2>3
<1>12. SeenInv'
  <2> SUFFICES ASSUME deletions = 0, NEW k \in DOMAIN releases, k <= Read + PageSize
               PROVE  Seen(releases[k])'
    BY <1>1, <1>11 DEF SeenInv
  <2>1. releases' = releases /\ touched' = touched
    BY <1>1
  <2> SUFFICES ASSUME releases[k].version \notin touched, releases[k].version.major >= MinMajor
               PROVE  releases[k].version \in
                        IF releases[k].asset \in Digests THEN DOMAIN result' ELSE warnings'
    BY <2>1 DEF Seen
  <2>2. CASE k <= Read
    <3>1. Seen(releases[k])
      BY <2>2 DEF ReleasesInv, SeenInv
    <3> QED
      BY <1>1, <1>7, <3>1 DEF Seen
  <2>3. CASE ~(k <= Read)
    <3> DEFINE i == k - Read
    <3>1. i \in 1 .. last - Read /\ Read + i = k
      BY <1>3, <2>3
    <3>2. i \in DOMAIN p /\ p[i] = releases[k]
      BY <1>4, <3>1
    <3> HIDE DEF i
    <3>3. CASE releases[k].asset \in Digests
      <4>1. i \in taken
        BY <3>2, <3>3 DEF Releases!Indexed
      <4> QED
        BY <1>6, <1>7, <3>2, <3>3, <4>1
    <3>4. CASE releases[k].asset \notin Digests
      <4>1. i \in left
        BY <3>2, <3>4 DEF Releases!Indexed
      <4>2. p[i].version \in warnings'
        BY <1>1, <4>1
      <4> QED
        BY <3>2, <3>4, <4>2
    <3> QED
      BY <3>3, <3>4
  <2> QED
    BY <2>2, <2>3
<1>13. EndInv'
  <2>1. indexPc' = "write" => Len(releases) <= Read + PageSize
    BY <1>1, <1>3 DEF Releases!HasNext
  <2>2. indexPc' # "done"
    BY <1>1
  <2> QED
    BY <1>1, <1>11, <2>1, <2>2 DEF EndInv
<1> QED
  BY <1>9, <1>10, <1>12, <1>13 DEF ReleasesInv

LEMMA WriteKeeps == ASSUME ReleasesInv, Releases!Write PROVE ReleasesInv'
<1>1. /\ indexPc = "write" /\ indexPc' = "done" /\ exit' = 0
      /\ UNCHANGED <<releases, touched, deletions, events, start, page, result, warnings>>
  BY DEF Releases!Write, Releases!github
<1>2. PICK s \in Releases!Sortings(DOMAIN result) :
        output' = Releases!Output("written",
                    [k \in DOMAIN s |-> [version |-> s[k], digest |-> result[s[k]]]])
  BY DEF Releases!Write
<1> DEFINE n == Releases!Cardinality(DOMAIN result)
           e == [k \in DOMAIN s |-> [version |-> s[k], digest |-> result[s[k]]]]
<1>3. /\ s \in [1 .. n -> DOMAIN result] /\ Releases!ToSet(s) = DOMAIN result
      /\ \A j, k \in DOMAIN s : j < k => Releases!Lower(s[j], s[k])
  BY DEF Releases!Sortings
<1>4. ReleasesTypes
  BY DEF ReleasesInv
<1>5. output'.state = "written" /\ output'.entries = e
  BY <1>2 DEF Releases!Output
<1>6. n \in Nat
  <2>1. n = Cardinality(DOMAIN result)
    BY DEF Releases!Cardinality, Cardinality
  <2>2. IsFiniteSet(DOMAIN result)
    BY <1>4 DEF ReleasesTypes
  <2> QED
    BY <2>1, <2>2, FS_CardinalityType
<1> HIDE DEF n
<1>7. /\ DOMAIN e = 1 .. n /\ DOMAIN s = 1 .. n /\ \A k \in 1 .. n : s[k] \in DOMAIN result
      /\ \A k \in 1 .. n : e[k].version = s[k] /\ e[k].digest = result[s[k]]
      /\ \A k \in 1 .. n : e[k] = [version |-> s[k], digest |-> result[s[k]]]
  BY <1>3
<1> HIDE DEF e
<1>8. e \in Seq([version : Releasable, digest : Digests])
  <2>1. \A k \in 1 .. n : e[k] \in [version : Releasable, digest : Digests]
    BY <1>4, <1>7 DEF ReleasesTypes
  <2>2. e = [k \in 1 .. n |-> e[k]]
    BY <1>3 DEF e
  <2>3. e \in [1 .. n -> [version : Releasable, digest : Digests]]
    BY <2>1, <2>2
  <2> DEFINE S == [version : Releasable, digest : Digests]
  <2> HIDE DEF S
  <2>4. ASSUME NEW g \in [1 .. n -> S] PROVE g \in Seq(S)
    BY <1>6
  <2> QED
    BY <2>3, <2>4 DEF S
<1>9. ReleasesTypes'
  BY <1>1, <1>4, <1>5, <1>8
     DEF ReleasesTypes, Releases!OncePerVersion, Releases!Releases, Releases!Assets
<1>10. StaysInv' /\ SeenInv' /\ Read' = Read
  BY <1>1 DEF ReleasesInv, StaysInv, SeenInv, Seen, Read
<1>11. EndInv'
  <2>1. ASSUME NEW v \in DOMAIN result
        PROVE  [version |-> v, digest |-> result[v]] \in Range(e)
    <3>1. PICK k \in DOMAIN s : s[k] = v
      BY <1>3 DEF Releases!ToSet
    <3>2. e[k] = [version |-> v, digest |-> result[v]] /\ k \in DOMAIN e
      BY <1>7, <3>1
    <3> QED
      BY <3>2 DEF Range
  <2>2. Len(releases) <= Read
    BY <1>1 DEF ReleasesInv, EndInv
  <2>3. \A k \in DOMAIN e : e[k].version \in DOMAIN result
    BY <1>7
  <2>4. \A j, k \in DOMAIN e : j < k => Releases!Lower(e[j].version, e[k].version)
    BY <1>3, <1>7
  <2>5. (\A j, k \in DOMAIN output.entries :
           j < k => Releases!Lower(output.entries[j].version, output.entries[k].version))'
    BY <1>5, <2>4 DEF Releases!Lower, Releases!_semver_key
  <2> QED
    BY <1>1, <1>5, <1>10, <2>1, <2>2, <2>3, <2>5 DEF EndInv
<1> QED
  BY <1>9, <1>10, <1>11 DEF ReleasesInv

\* The tool may fail at any request, and in the middle of the file.
LEMMA ToolFailsKeeps ==
  ASSUME ReleasesInv, Releases!RequestFails \/ Releases!WriteFails PROVE ReleasesInv'
<1>1. /\ indexPc' = "done" /\ exit' = 1
      /\ UNCHANGED <<releases, touched, deletions, events, start, page, result, warnings>>
      /\ output' \in {output, Releases!Output("old", <<>>), Releases!Output("torn", <<>>)}
  BY DEF Releases!RequestFails, Releases!WriteFails, Releases!github
<1>2. /\ output'.state \in {"old", "torn", "written"}
      /\ output'.entries \in Seq([version : Releasable, digest : Digests])
  <2>1. /\ output.state \in {"old", "torn", "written"}
        /\ output.entries \in Seq([version : Releasable, digest : Digests])
    BY DEF ReleasesInv, ReleasesTypes
  <2>2. <<>> \in Seq([version : Releasable, digest : Digests])
    OBVIOUS
  <2>3. \/ output' = output
        \/ /\ output'.state \in {"old", "torn"}
           /\ output'.entries = <<>>
    BY <1>1 DEF Releases!Output
  <2> QED
    BY <2>1, <2>2, <2>3
<1>3. ReleasesTypes'
  BY <1>1, <1>2
     DEF ReleasesInv, ReleasesTypes, Releases!OncePerVersion, Releases!Releases, Releases!Assets
<1>4. StaysInv' /\ SeenInv' /\ EndInv'
  BY <1>1 DEF ReleasesInv, StaysInv, SeenInv, Seen, Read, EndInv
<1> QED
  BY <1>3, <1>4 DEF ReleasesInv

LEMMA ReleasesSteps == ReleasesInv /\ [Releases!Next]_indexing => ReleasesInv'
<1> SUFFICES ASSUME ReleasesInv, [Releases!Next]_indexing PROVE ReleasesInv'
  OBVIOUS
<1>1. CASE UNCHANGED indexing
  <2>1. UNCHANGED <<releases, start, touched, deletions, events, indexPc, page, result,
                    warnings, output, exit>>
    BY <1>1 DEF indexing
  <2>2. ReleasesTypes'
    BY <2>1
       DEF ReleasesInv, ReleasesTypes, Releases!OncePerVersion, Releases!Releases, Releases!Assets
  <2>3. StaysInv' /\ SeenInv'
    BY <2>1 DEF ReleasesInv, StaysInv, SeenInv, Seen, Read
  <2>4. EndInv'
    BY <2>1 DEF ReleasesInv, EndInv, Read, Range, Releases!Lower, Releases!_semver_key
  <2> QED
    BY <2>2, <2>3, <2>4 DEF ReleasesInv
<1>2. CASE UNCHANGED Releases!vars
  BY <1>1, <1>2 DEF Releases!vars, Releases!github, indexing
<1> QED
  BY <1>1, <1>2, PublishKeeps, DeleteKeeps, UploadKeeps, FetchKeeps, WriteKeeps, ToolFailsKeeps
     DEF Releases!Next, Releases!Tool

LEMMA ReleasesTypeOK == ASSUME ReleasesInv PROVE Releases!TypeOK
BY DEF ReleasesInv, ReleasesTypes, Releases!TypeOK

\* The order of the keys is that of majors, then of candidates before the final.
LEMMA OutputOrder == ASSUME ReleasesInv PROVE Releases!OutputIsInOrder
<1> SUFFICES ASSUME indexPc = "done", exit = 0, NEW j \in DOMAIN output.entries,
                    NEW k \in DOMAIN output.entries, j < k
             PROVE  LET a == output.entries[j].version
                        b == output.entries[k].version
                    IN  \/ a.major < b.major
                        \/ a.major = b.major /\ a.rc > 0 /\ (b.rc = 0 \/ a.rc < b.rc)
  BY DEF Releases!OutputIsInOrder
<1> DEFINE a == output.entries[j].version
           b == output.entries[k].version
<1>1. Releases!Lower(a, b)
  BY DEF ReleasesInv, EndInv
<1>2. a \in Releasable /\ b \in Releasable
  <2>1. /\ output.entries[j] \in [version : Releasable, digest : Digests]
        /\ output.entries[k] \in [version : Releasable, digest : Digests]
    <3>1. output.entries \in Seq([version : Releasable, digest : Digests])
      BY DEF ReleasesInv, ReleasesTypes
    <3> DEFINE S == [version : Releasable, digest : Digests]
    <3> HIDE DEF S
    <3>2. output.entries \in Seq(S)
      BY <3>1 DEF S
    <3>3. output.entries[j] \in S /\ output.entries[k] \in S
      BY <3>2
    <3> QED
      BY <3>3 DEF S
  <2> QED
    BY <2>1
<1> HIDE DEF a, b
<1>3. a \in [major : Nat, rc : Nat] /\ b \in [major : Nat, rc : Nat]
  BY <1>2, ReleasableAssumption
<1>4. a.major \in Nat /\ a.rc \in Nat /\ b.major \in Nat /\ b.rc \in Nat
  BY <1>3
<1> DEFINE x == Releases!_semver_key(a)
           y == Releases!_semver_key(b)
<1>5. /\ x[1] = a.major /\ x[2] = (IF a.rc = 0 THEN 1 ELSE 0) /\ x[3] = a.rc
      /\ y[1] = b.major /\ y[2] = (IF b.rc = 0 THEN 1 ELSE 0) /\ y[3] = b.rc
  BY DEF Releases!_semver_key
<1>6. \E i \in 1 .. 3 : x[i] < y[i] /\ \A h \in 1 .. i - 1 : x[h] = y[h]
  BY <1>1 DEF Releases!Lower
<1> HIDE DEF x, y
<1>7. \/ x[1] < y[1]
      \/ x[1] = y[1] /\ x[2] < y[2]
      \/ x[1] = y[1] /\ x[2] = y[2] /\ x[3] < y[3]
  <2>1. PICK i \in 1 .. 3 : x[i] < y[i] /\ \A h \in 1 .. i - 1 : x[h] = y[h]
    BY <1>6
  <2>2. i = 1 \/ i = 2 \/ i = 3
    OBVIOUS
  <2> QED
    BY <2>1, <2>2
<1>8. a.major < b.major \/ (a.major = b.major /\ a.rc > 0 /\ (b.rc = 0 \/ a.rc < b.rc))
  BY <1>4, <1>5, <1>7
<1> QED
  BY <1>8 DEF a, b

LEMMA ReleasesSeen == ASSUME ReleasesInv PROVE Releases!EveryReleaseIsSeen
<1> SUFFICES ASSUME indexPc = "done", exit = 0, deletions = 0, NEW i \in DOMAIN start,
                    start[i].version \notin touched, start[i].version.major >= MinMajor
             PROVE  IF start[i].asset \in Digests
                    THEN [version |-> start[i].version, digest |-> start[i].asset]
                           \in Releases!ToSet(output.entries)
                    ELSE /\ start[i].version \in warnings
                         /\ \A e \in Releases!ToSet(output.entries) :
                              e.version # start[i].version
  BY DEF Releases!EveryReleaseIsSeen, Releases!ToSet
<1> DEFINE r == start[i]
<1>1. PICK k \in DOMAIN releases : releases[k] = r
  BY DEF ReleasesInv, StaysInv
<1>2. k <= Read
  <2>1. Len(releases) <= Read /\ k \in 1 .. Len(releases) /\ Len(releases) \in Nat /\ Read \in Nat
    BY ReadFacts DEF ReleasesInv, EndInv, ReleasesTypes
  <2> QED
    BY <2>1
<1>3. r.version \in IF r.asset \in Digests THEN DOMAIN result ELSE warnings
  BY <1>1, <1>2 DEF ReleasesInv, SeenInv, Seen
<1>4. r.version \in DOMAIN result => result[r.version] = r.asset /\ r.asset \in Digests
  <2> SUFFICES ASSUME r.version \in DOMAIN result
               PROVE  result[r.version] = r.asset /\ r.asset \in Digests
    OBVIOUS
  <2>1. PICK j \in DOMAIN releases :
          releases[j].version = r.version /\ releases[j].asset = result[r.version]
    BY DEF ReleasesInv, StaysInv
  <2>2. j = k
    BY <1>1, <2>1 DEF ReleasesInv, ReleasesTypes, Releases!OncePerVersion
  <2> QED
    BY <1>1, <2>1, <2>2 DEF ReleasesInv, ReleasesTypes
<1>5. Releases!ToSet(output.entries) = Range(output.entries)
  BY DEF Releases!ToSet, Range
<1>6. CASE r.asset \in Digests
  <2>1. [version |-> r.version, digest |-> result[r.version]] \in Range(output.entries)
    BY <1>3, <1>6 DEF ReleasesInv, EndInv
  <2> QED
    BY <1>3, <1>4, <1>5, <1>6, <2>1
<1>7. CASE r.asset \notin Digests
  <2>1. \A e \in Releases!ToSet(output.entries) : e.version \in DOMAIN result
    BY DEF ReleasesInv, EndInv, Releases!ToSet
  <2> QED
    BY <1>3, <1>4, <1>7, <2>1
<1> QED
  BY <1>6, <1>7

------------------------------------------------------------------------------
(* The theorems.                                                            *)

LEMMA NextKeeps == IInv /\ [Next]_vars => IInv'
<1> SUFFICES ASSUME IInv, [Next]_vars PROVE IInv'
  OBVIOUS
<1>1. CASE RejectSdk \/ VisitSdk \/ MissingSdk \/ ChooseSdk
  BY <1>1, SdkStep
<1>2. CASE VisitContents \/ DeclareSdk
  BY <1>2, ContentsStep
<1>3. CASE RejectVersion \/ VisitVersion \/ MissingVersion \/ ChooseVersion
  BY <1>3, VersionStep
<1>4. CASE RejectOverride \/ VisitOverride \/ MissingSource \/ DeclareSource
  BY <1>4, SourceStep
<1>5. CASE RejectIndex \/ VisitIndex \/ MissingSeed \/ DeclareSeed
  BY <1>5, SeedStep
<1>6. CASE RejectPath \/ VisitPath \/ DeclareGcc
  BY <1>6, GccStep
<1>7. CASE RejectPlatform \/ VisitPlatforms \/ DeclarePlatforms
  BY <1>7, PlatformsStep
<1>8. CASE UNCHANGED vars
  <2>1. UNCHANGED input /\ UNCHANGED <<input, declared>> /\ modules' = modules
    BY <1>8 DEF vars, input
  <2>2. ModulesOK' /\ Results' /\ Overrides' = Overrides
    BY <2>1, ModulesUnchanged, ResultsUnchanged, OverridesUnchanged DEF IInv
  <2>3. StateOK' /\ JumpInv'
    BY <1>8, <2>1 DEF vars, IInv, StateOK, JumpInv
  <2>4. \A w, k : Offer(w, modules[k])' = Offer(w, modules[k])
    BY <2>1, OfferUnchanged DEF input
  <2>5. ChoiceInv' /\ AgreeInv'
    BY <1>8, <2>1, <2>4 DEF vars, IInv, ChoiceInv, RootInv, DependencyInv, AgreeInv
  <2>6. OverrideInv'
    BY <1>8, <2>1, <2>2 DEF vars, IInv, OverrideInv, Chosen, Tags
  <2> QED
    BY <2>2, <2>3, <2>5, <2>6 DEF IInv
<1>9. CASE Ended
  BY <1>8, <1>9 DEF Ended
<1> QED
  BY <1>1, <1>2, <1>3, <1>4, <1>5, <1>6, <1>7, <1>8, <1>9 DEF Next, Walk

\* The inductive invariant: what each walk knows of the modules it has passed.
THEOREM Invariant == Spec => []IInv
<1> HIDE DEF IInv
<1> QED
  BY InitIInv, NextKeeps, PTL DEF Spec

\* Every variable has its type, for all lists of modules.
THEOREM SpecTypeOK == Spec => []TypeOK
<1>1. IInv => TypeOK
  BY DEF IInv, StateOK, TypeOK, Nothing, Fields
<1> HIDE DEF IInv, TypeOK
<1> QED
  BY <1>1, Invariant, PTL

\* The root module decides on the SDK and on the LLVM version, and without its
\* word the last dependency that asks does, in dependency graphs of any size.
THEOREM SpecRootElseLastDependency == Spec => []RootElseLastDependency
<1>1. IInv => RootElseLastDependency
  BY DEF IInv, Results
<1> HIDE DEF IInv, RootElseLastDependency
<1> QED
  BY <1>1, Invariant, PTL

\* Off macOS nothing leads to the host's SDK.
THEOREM SpecHostSdkOnlyOnMac == Spec => []HostSdkOnlyOnMac
<1>1. IInv => HostSdkOnlyOnMac
  BY DEF IInv, Results
<1> HIDE DEF IInv, HostSdkOnlyOnMac
<1> QED
  BY <1>1, Invariant, PTL

\* LLVM's sources are the one override's in all modules, else the index's.
THEOREM SpecOneSource == Spec => []OneSource
<1>1. IInv => OneSource
  BY DEF IInv, Results
<1> HIDE DEF IInv, OneSource
<1> QED
  BY <1>1, Invariant, PTL

\* The seed compiler is the chosen version's whenever the index that the
\* modules agree on has one, for any set of index files.
THEOREM SpecSeedFitsVersion == Spec => []SeedFitsVersion
<1>1. IInv => SeedFitsVersion
  BY DEF IInv, Results
<1> HIDE DEF IInv, SeedFitsVersion
<1> QED
  BY <1>1, Invariant, PTL

\* Two dependencies with different trees of GCC never end in one of the two.
THEOREM SpecPathsAgree == Spec => []PathsAgree
<1>1. IInv => PathsAgree
  BY DEF IInv, Results
<1> HIDE DEF IInv, PathsAgree
<1> QED
  BY <1>1, Invariant, PTL

\* Two modules that ask for different sources, of LLVM or of GCC, never end in
\* one of the two, for lists of any length in any order.
THEOREM SpecNoClashIsIgnored == Spec => []NoClashIsIgnored
<1>1. OneSource /\ PathsAgree => NoClashIsIgnored
  BY DEF NoClashIsIgnored
<1> HIDE DEF OneSource, PathsAgree, NoClashIsIgnored
<1> QED
  BY <1>1, SpecOneSource, SpecPathsAgree, PTL

\* What is declared adds up, for lists of any length.
THEOREM SpecTagsAddUp == Spec => []TagsAddUp
<1>1. AddInv => TagsAddUp
  BY DEF AddInv, TagsAddUp
<1> HIDE DEF IInv, AddInv, TagsAddUp
<1>2. Spec => []AddInv
  BY InitAdds, NextAdds, Invariant, PTL DEF Spec
<1> QED
  BY <1>1, <1>2, PTL

------------------------------------------------------------------------------
(* LLVM's sources and the overlay: paths and what a prefix of one is.       *)

\* Paths, the root's among them and the others.
Dirs == Seq(Names)
Paths == Dirs \ {<<>>}

\* What a prefix is, name by name.
LEMMA PrefixIs ==
  ASSUME NEW a \in Dirs, NEW b \in Dirs
  PROVE  Tree!IsPrefix(a, b) <=> Len(a) <= Len(b) /\ \A i \in 1 .. Len(a) : a[i] = b[i]
<1> DEFINE n == Len(a)
<1>1. n \in Nat /\ Len(b) \in Nat /\ a \in Seq(Names) /\ b \in Seq(Names)
  BY DEF Dirs
<1>2. ASSUME n <= Len(b)
      PROVE  SubSeq(a, 1, n) = SubSeq(b, 1, n) <=> \A i \in 1 .. n : a[i] = b[i]
  <2>1. /\ SubSeq(a, 1, n) \in Seq(Names) /\ Len(SubSeq(a, 1, n)) = n
        /\ \A i \in 1 .. n : SubSeq(a, 1, n)[i] = a[i]
    BY <1>1
  <2>2. /\ SubSeq(b, 1, n) \in Seq(Names) /\ Len(SubSeq(b, 1, n)) = n
        /\ \A i \in 1 .. n : SubSeq(b, 1, n)[i] = b[i]
    BY <1>1, <1>2
  <2> HIDE DEF n
  <2>3. ASSUME \A i \in 1 .. n : a[i] = b[i] PROVE SubSeq(a, 1, n) = SubSeq(b, 1, n)
    BY <2>1, <2>2, <2>3, SeqEqual
  <2> QED
    BY <2>1, <2>2, <2>3
<1> QED
  BY <1>2 DEF Tree!IsPrefix

\* A strict prefix is shorter.
LEMMA StrictIs ==
  ASSUME NEW a \in Dirs, NEW b \in Dirs
  PROVE  Tree!IsStrictPrefix(a, b) <=> Tree!IsPrefix(a, b) /\ Len(a) < Len(b)
<1>1. Len(a) \in Nat /\ Len(b) \in Nat
  BY DEF Dirs
<1>2. ASSUME Tree!IsPrefix(a, b), Len(a) >= Len(b) PROVE a = b
  <2>1. Len(a) = Len(b) /\ \A i \in 1 .. Len(a) : a[i] = b[i]
    BY <1>1, <1>2, PrefixIs
  <2> QED
    BY <2>1, SeqEqual DEF Dirs
<1> QED
  BY <1>1, <1>2 DEF Tree!IsStrictPrefix

\* Prefixes order paths, and those of one path are in line.
LEMMA PrefixOrders ==
  ASSUME NEW a \in Dirs, NEW b \in Dirs, NEW c \in Dirs
  PROVE  /\ Tree!IsPrefix(a, a)
         /\ Tree!IsPrefix(a, b) /\ Tree!IsPrefix(b, c) => Tree!IsPrefix(a, c)
         /\ Tree!IsPrefix(a, b) /\ Tree!IsPrefix(b, a) => a = b
         /\ Tree!IsPrefix(a, c) /\ Tree!IsPrefix(b, c) => Tree!IsPrefix(a, b) \/ Tree!IsPrefix(b, a)
<1>1. Len(a) \in Nat /\ Len(b) \in Nat /\ Len(c) \in Nat
  BY DEF Dirs
<1>2. Tree!IsPrefix(a, a)
  BY <1>1, PrefixIs
<1>3. ASSUME Tree!IsPrefix(a, b), Tree!IsPrefix(b, c) PROVE Tree!IsPrefix(a, c)
  <2>1. Len(a) <= Len(b) /\ Len(b) <= Len(c)
    BY <1>3, PrefixIs
  <2>2. \A i \in 1 .. Len(a) : a[i] = b[i] /\ i \in 1 .. Len(b)
    BY <1>1, <1>3, <2>1, PrefixIs
  <2>3. \A i \in 1 .. Len(b) : b[i] = c[i]
    BY <1>3, PrefixIs
  <2> QED
    BY <1>1, <2>1, <2>2, <2>3, PrefixIs
<1>4. ASSUME Tree!IsPrefix(a, b), Tree!IsPrefix(b, a) PROVE a = b
  <2>1. Len(a) = Len(b)
    BY <1>1, <1>4, PrefixIs
  <2> QED
    BY <1>1, <1>4, <2>1, StrictIs DEF Tree!IsStrictPrefix
<1>5. ASSUME Tree!IsPrefix(a, c), Tree!IsPrefix(b, c)
      PROVE  Tree!IsPrefix(a, b) \/ Tree!IsPrefix(b, a)
  <2>1. (\A i \in 1 .. Len(a) : a[i] = c[i]) /\ \A i \in 1 .. Len(b) : b[i] = c[i]
    BY <1>5, PrefixIs
  <2>2. CASE Len(a) <= Len(b)
    <3>1. \A i \in 1 .. Len(a) : i \in 1 .. Len(b)
      BY <1>1, <2>2
    <3> QED
      BY <2>1, <2>2, <3>1, PrefixIs
  <2>3. CASE Len(b) <= Len(a)
    <3>1. \A i \in 1 .. Len(b) : i \in 1 .. Len(a)
      BY <1>1, <2>3
    <3> QED
      BY <2>1, <2>3, <3>1, PrefixIs
  <2> QED
    BY <1>1, <2>2, <2>3
<1> QED
  BY <1>2, <1>3, <1>4, <1>5

\* The root is above every path.
LEMMA RootIsPrefix ==
  ASSUME NEW p \in Dirs
  PROVE  Tree!Root \in Dirs /\ Tree!IsPrefix(Tree!Root, p)
         /\ (Tree!IsStrictPrefix(Tree!Root, p) <=> p # <<>>)
<1>1. Tree!Root \in Dirs /\ Len(Tree!Root) = 0 /\ Len(p) \in Nat
  BY DEF Tree!Root, Dirs
<1>2. Tree!IsPrefix(Tree!Root, p)
  BY <1>1, PrefixIs
<1> QED
  BY <1>1, <1>2 DEF Tree!IsStrictPrefix, Tree!Root

------------------------------------------------------------------------------
(* The directories of a tree: what a walk finds in each.                    *)

\* e is an entry of the directory d.
Child(d, e) == e \in Dirs /\ Len(e) = Len(d) + 1 /\ Tree!IsPrefix(d, e)

\* Above an entry are what is above its directory and itself.
LEMMA ChildPrefix ==
  ASSUME NEW d \in Dirs, NEW e, Child(d, e), NEW a \in Dirs
  PROVE  /\ e \in Paths /\ Tree!IsStrictPrefix(d, e) /\ ~Tree!IsPrefix(e, d)
         /\ Tree!IsPrefix(a, e) <=> Tree!IsPrefix(a, d) \/ a = e
<1>1. e \in Dirs /\ Len(e) = Len(d) + 1 /\ Tree!IsPrefix(d, e) /\ Len(d) \in Nat /\ Len(a) \in Nat
  BY DEF Child, Dirs
<1>2. e \in Paths /\ Tree!IsStrictPrefix(d, e)
  BY <1>1, StrictIs DEF Paths
<1>3. ~Tree!IsPrefix(e, d)
  BY <1>1, PrefixIs
<1>4. ASSUME Tree!IsPrefix(a, e), a # e PROVE Tree!IsPrefix(a, d)
  <2>1. Len(a) < Len(e)
    BY <1>1, <1>4, StrictIs DEF Tree!IsStrictPrefix
  <2>2. Tree!IsPrefix(a, d) \/ Tree!IsPrefix(d, a)
    BY <1>1, <1>4, PrefixOrders
  <2>3. CASE Tree!IsPrefix(d, a)
    <3>1. ~Tree!IsStrictPrefix(d, a)
      BY <1>1, <2>1, StrictIs
    <3> QED
      BY <1>1, <2>3, <3>1, PrefixOrders DEF Tree!IsStrictPrefix
  <2> QED
    BY <2>2, <2>3
<1>5. ASSUME Tree!IsPrefix(a, d) PROVE Tree!IsPrefix(a, e)
  BY <1>1, <1>5, PrefixOrders
<1>6. Tree!IsPrefix(e, e)
  BY <1>1, PrefixOrders
<1> QED
  BY <1>2, <1>3, <1>4, <1>5, <1>6

\* What is in a directory, at any depth, is in one of its entries.
LEMMA ChildAbove ==
  ASSUME NEW d \in Dirs, NEW p \in Dirs, Tree!IsStrictPrefix(d, p)
  PROVE  /\ Child(d, Append(d, p[Len(d) + 1])) /\ Tree!IsPrefix(Append(d, p[Len(d) + 1]), p)
         /\ \A e : Child(d, e) /\ Tree!IsPrefix(e, p) => e = Append(d, p[Len(d) + 1])
<1> DEFINE n == Len(d)
           x == p[n + 1]
           c == Append(d, x)
<1>1. n \in Nat /\ Len(p) \in Nat /\ n < Len(p) /\ \A i \in 1 .. n : d[i] = p[i]
  BY PrefixIs, StrictIs DEF Dirs
<1>2. x \in Names
  BY <1>1 DEF Dirs
<1> HIDE DEF x
<1>3. /\ c \in Dirs /\ Len(c) = n + 1 /\ c[n + 1] = x /\ \A i \in 1 .. n : c[i] = d[i]
  <2>1. d \in Seq(Names)
    BY DEF Dirs
  <2>2. c \in Seq(Names) /\ Len(c) = n + 1 /\ c[n + 1] = x
    BY <1>2, <2>1, AppendProperties
  <2>3. ASSUME NEW i \in 1 .. n PROVE c[i] = d[i]
    BY <1>2, <2>1, AppendProperties
  <2> QED
    BY <2>2, <2>3 DEF Dirs
<1> HIDE DEF c
<1>4. Child(d, c)
  <2>1. Tree!IsPrefix(d, c)
    <3>1. n <= n + 1
      BY <1>1
    <3> QED
      BY <1>3, <3>1, PrefixIs
  <2> QED
    BY <1>3, <2>1 DEF Child
<1>5. Tree!IsPrefix(c, p)
  <2>1. \A i \in 1 .. n + 1 : i \in 1 .. n \/ i = n + 1
    BY <1>1
  <2>2. \A i \in 1 .. n + 1 : c[i] = p[i]
    BY <1>1, <1>3, <2>1 DEF x
  <2>3. n + 1 <= Len(p)
    BY <1>1
  <2> QED
    BY <1>3, <2>2, <2>3, PrefixIs
<1>6. ASSUME NEW e, Child(d, e), Tree!IsPrefix(e, p) PROVE e = c
  <2>1. e \in Dirs /\ Len(e) = n + 1
    BY <1>6 DEF Child
  <2>2. Tree!IsPrefix(e, c) \/ Tree!IsPrefix(c, e)
    BY <1>3, <1>5, <1>6, <2>1, PrefixOrders
  <2>3. \A i \in 1 .. n + 1 : e[i] = c[i]
    BY <1>3, <2>1, <2>2, PrefixIs
  <2> QED
    BY <1>3, <2>1, <2>3, SeqEqual DEF Dirs
<1> QED
  BY <1>4, <1>5, <1>6 DEF c, x

\* Two entries of a directory are not one above the other.
LEMMA ChildrenApart ==
  ASSUME NEW d \in Dirs, NEW e, NEW f, Child(d, e), Child(d, f), Tree!IsPrefix(e, f)
  PROVE  e = f
<1>1. e \in Dirs /\ f \in Dirs /\ Len(e) = Len(f) /\ Len(e) \in Nat
  BY DEF Child, Dirs
<1>2. ~Tree!IsStrictPrefix(e, f)
  BY <1>1, StrictIs
<1> QED
  BY <1>2 DEF Tree!IsStrictPrefix

\* A path is what is above it and the rest.
LEMMA RestIs ==
  ASSUME NEW a \in Dirs, NEW p \in Dirs, Tree!IsPrefix(a, p)
  PROVE  Tree!Rest(p, Len(a)) \in Dirs /\ a \o Tree!Rest(p, Len(a)) = p
<1> DEFINE n == Len(a)
           r == Tree!Rest(p, n)
<1>1. n \in Nat /\ Len(p) \in Nat /\ n <= Len(p) /\ \A i \in 1 .. n : a[i] = p[i]
  BY PrefixIs DEF Dirs
<1>2. r \in Dirs /\ Len(r) = Len(p) - n /\ \A i \in 1 .. Len(p) - n : r[i] = p[n + i]
  <2>1. n + 1 \in 1 .. Len(p) + 1 /\ Len(p) - (n + 1) + 1 = Len(p) - n
    BY <1>1
  <2>2. SubSeq(p, n + 1, Len(p)) \in Seq(Names) /\ Len(SubSeq(p, n + 1, Len(p))) = Len(p) - n
    BY <1>1, <2>1, SubSeqProperties DEF Dirs
  <2>3. ASSUME NEW i \in 1 .. Len(p) - n PROVE SubSeq(p, n + 1, Len(p))[i] = p[n + i]
    BY <1>1 DEF Dirs
  <2> QED
    BY <2>2, <2>3 DEF Tree!Rest, Dirs
<1> HIDE DEF r
<1>3. a \o r \in Seq(Names) /\ Len(a \o r) = Len(p)
  BY <1>1, <1>2 DEF Dirs
<1>4. ASSUME NEW i \in 1 .. Len(p) PROVE (a \o r)[i] = p[i]
  <2>1. CASE i \in 1 .. n
    BY <1>1, <1>2, <2>1 DEF Dirs
  <2>2. CASE i \notin 1 .. n
    <3>1. i - n \in 1 .. Len(p) - n /\ n + (i - n) = i
      BY <1>1, <2>2
    <3>2. (a \o r)[i] = r[i - n]
      BY <1>1, <1>2, <2>2 DEF Dirs
    <3> QED
      BY <1>2, <3>1, <3>2
  <2> QED
    BY <2>1, <2>2
<1>5. a \o r = p
  BY <1>1, <1>3, <1>4, SeqEqual DEF Dirs
<1> QED
  BY <1>2, <1>5 DEF r

\* What is put below a directory, and taken from it.
LEMMA ConcatPrefix ==
  ASSUME NEW a \in Dirs, NEW b \in Dirs, NEW p \in Dirs
  PROVE  /\ a \o p \in Dirs /\ Tree!IsPrefix(a, a \o p) /\ Tree!Rest(a \o p, Len(a)) = p
         /\ Tree!IsPrefix(a \o b, a \o p) <=> Tree!IsPrefix(b, p)
         /\ a \o b = a \o p <=> b = p
<1> DEFINE n == Len(a)
           c == a \o p
           e == a \o b
<1>1. n \in Nat /\ Len(p) \in Nat /\ Len(b) \in Nat
  BY DEF Dirs
<1>2. /\ c \in Dirs /\ Len(c) = n + Len(p) /\ \A i \in 1 .. n : c[i] = a[i]
      /\ \A i \in 1 .. Len(p) : c[n + i] = p[i]
  BY <1>1 DEF Dirs
<1>3. /\ e \in Dirs /\ Len(e) = n + Len(b) /\ \A i \in 1 .. n : e[i] = a[i]
      /\ \A i \in 1 .. Len(b) : e[n + i] = b[i]
  BY <1>1 DEF Dirs
<1> HIDE DEF c, e
<1>4. Tree!IsPrefix(a, c)
  <2>1. n <= Len(c)
    BY <1>1, <1>2
  <2> QED
    BY <1>2, <2>1, PrefixIs
<1>5. Tree!Rest(c, n) = p
  <2>1. Tree!Rest(c, n) \in Dirs /\ a \o Tree!Rest(c, n) = c
    BY <1>2, <1>4, RestIs
  <2> DEFINE r == Tree!Rest(c, n)
  <2>2. Len(r) \in Nat /\ Len(a \o r) = n + Len(r) /\ \A i \in 1 .. Len(r) : (a \o r)[n + i] = r[i]
    BY <1>1, <2>1 DEF Dirs
  <2>3. a \o r = c
    BY <2>1
  <2> HIDE DEF r
  <2>4. Len(r) = Len(p)
    BY <1>1, <1>2, <2>2, <2>3
  <2>5. \A i \in 1 .. Len(r) : r[i] = p[i]
    BY <1>2, <2>2, <2>3, <2>4
  <2>6. r \in Seq(Names) /\ p \in Seq(Names)
    BY <2>1 DEF r, Dirs
  <2>7. r = p
    BY <2>4, <2>5, <2>6, SeqEqual
  <2> QED
    BY <2>7 DEF r
<1>6. ASSUME Tree!IsPrefix(e, c) PROVE Tree!IsPrefix(b, p)
  <2>1. n + Len(b) <= n + Len(p) /\ \A i \in 1 .. n + Len(b) : e[i] = c[i]
    <3>1. Len(e) <= Len(c) /\ \A i \in 1 .. Len(e) : e[i] = c[i]
      BY <1>2, <1>3, <1>6, PrefixIs
    <3> QED
      BY <1>2, <1>3, <3>1
  <2>2. Len(b) <= Len(p)
    BY <1>1, <2>1
  <2>3. ASSUME NEW i \in 1 .. Len(b) PROVE b[i] = p[i]
    <3>1. n + i \in 1 .. n + Len(b) /\ i \in 1 .. Len(p)
      BY <1>1, <2>2
    <3> QED
      BY <1>2, <1>3, <2>1, <3>1
  <2> QED
    BY <2>2, <2>3, PrefixIs
<1>7. ASSUME Tree!IsPrefix(b, p) PROVE Tree!IsPrefix(e, c)
  <2>1. Len(b) <= Len(p) /\ \A i \in 1 .. Len(b) : b[i] = p[i]
    BY <1>7, PrefixIs
  <2>2. n + Len(b) <= n + Len(p)
    BY <1>1, <2>1
  <2>3. ASSUME NEW i \in 1 .. n + Len(b) PROVE e[i] = c[i]
    <3>1. CASE i \in 1 .. n
      BY <1>2, <1>3, <3>1
    <3>2. CASE i \notin 1 .. n
      <4>1. i - n \in 1 .. Len(b) /\ i - n \in 1 .. Len(p) /\ n + (i - n) = i
        BY <1>1, <2>1, <3>2
      <4>2. PICK k \in 1 .. Len(b) : k \in 1 .. Len(p) /\ n + k = i
        BY <4>1
      <4>3. e[n + k] = b[k] /\ c[n + k] = p[k]
        BY <1>2, <1>3, <4>2
      <4> QED
        BY <2>1, <4>2, <4>3
    <3> QED
      BY <3>1, <3>2
  <2> QED
    BY <1>2, <1>3, <2>2, <2>3, PrefixIs
<1>8. e = c => b = p
  <2>1. ASSUME e = c PROVE b = p
    <3>1. Tree!IsPrefix(e, c) /\ Len(b) = Len(p)
      BY <1>1, <1>2, <1>3, <2>1, PrefixOrders
    <3>2. Tree!IsPrefix(b, p)
      BY <1>6, <3>1
    <3>3. ~Tree!IsStrictPrefix(b, p)
      BY <1>1, <3>1, StrictIs
    <3> QED
      BY <3>2, <3>3 DEF Tree!IsStrictPrefix
  <2> QED
    BY <2>1
<1> QED
  BY <1>2, <1>4, <1>5, <1>6, <1>7, <1>8 DEF c, e

\* The sequences of the elements of a finite set have each of them once.
LEMMA SeqsOf ==
  ASSUME NEW S, IsFiniteSet(S), NEW s \in Tree!SetToSeqs(S)
  PROVE  /\ s \in Seq(S) /\ {s[i] : i \in 1 .. Len(s)} = S
         /\ \A i, j \in 1 .. Len(s) : s[i] = s[j] => i = j
<1> DEFINE n == Cardinality(S)
<1>1. n \in Nat
  BY FS_CardinalityType
<1>0. s \in [1 .. n -> S] /\ \A i, j \in 1 .. n : i # j => s[i] # s[j]
  <2>1. Tree!Cardinality(S) = n
    BY DEF Tree!Cardinality, Cardinality
  <2> HIDE DEF n
  <2>2. /\ s \in [1 .. Tree!Cardinality(S) -> S]
        /\ \A i, j \in 1 .. Tree!Cardinality(S) : i # j => s[i] # s[j]
    BY DEF Tree!SetToSeqs
  <2> QED
    BY <2>1, <2>2
<1> HIDE DEF n
<1>3. s \in Injection(1 .. n, S)
  BY <1>0 DEF Injection, IsInjective
<1>4. Cardinality(1 .. n) = n /\ IsFiniteSet(1 .. n)
  <2>1. 1 \in Int /\ n \in Int
    BY <1>1
  <2>2. Cardinality(1 .. n) = (IF 1 > n THEN 0 ELSE n - 1 + 1) /\ IsFiniteSet(1 .. n)
    BY <2>1, FS_Interval
  <2> QED
    BY <1>1, <2>2
<1>5. s \in Surjection(1 .. n, S)
  BY <1>3, <1>4, FS_Injection DEF n
<1>6. \A x \in S : \E i \in 1 .. n : s[i] = x
  BY <1>5 DEF Surjection
<1>7. s \in Seq(S) /\ Len(s) = n /\ DOMAIN s = 1 .. n
  BY <1>0, <1>1
<1> QED
  BY <1>0, <1>6, <1>7

------------------------------------------------------------------------------
(* The directories still to visit.                                          *)

ToVisit == {stack[k] : k \in DOMAIN stack}
StackOK ==
  /\ stack \in Seq(Dirs)
  /\ \A j, k \in DOMAIN stack : Tree!IsPrefix(stack[j], stack[k]) => j = k

\* The entries of a directory of a tree.
LEMMA EntriesAre ==
  ASSUME NEW files, DOMAIN files \subseteq Paths, NEW d \in Dirs
  PROVE  /\ \A e : e \in Tree!Entries(files, d) <=>
                     Child(d, e) /\ \E p \in DOMAIN files : Tree!IsPrefix(e, p)
         /\ Tree!IsDir(files, d) <=> \E p \in DOMAIN files : Tree!IsStrictPrefix(d, p)
<1>1. ASSUME NEW e \in Tree!Entries(files, d)
      PROVE  Child(d, e) /\ \E p \in DOMAIN files : Tree!IsPrefix(e, p)
  <2>1. PICK p \in Tree!Under(files, d) : e = Append(d, p[Len(d) + 1])
    BY DEF Tree!Entries
  <2>2. p \in DOMAIN files /\ p \in Dirs /\ Tree!IsStrictPrefix(d, p)
    BY <2>1 DEF Tree!Under, Paths
  <2> QED
    BY <2>1, <2>2, ChildAbove
<1>2. ASSUME NEW e, Child(d, e), NEW p \in DOMAIN files, Tree!IsPrefix(e, p)
      PROVE  e \in Tree!Entries(files, d)
  <2>1. p \in Dirs /\ e \in Dirs /\ Tree!IsPrefix(d, e) /\ ~Tree!IsPrefix(e, d)
    BY <1>2, ChildPrefix DEF Child, Paths
  <2>2. Tree!IsPrefix(d, p)
    BY <1>2, <2>1, PrefixOrders
  <2>3. Tree!IsStrictPrefix(d, p)
    BY <1>2, <2>1, <2>2 DEF Tree!IsStrictPrefix
  <2>4. e = Append(d, p[Len(d) + 1]) /\ p \in Tree!Under(files, d)
    BY <1>2, <2>1, <2>3, ChildAbove DEF Tree!Under
  <2> QED
    BY <2>4 DEF Tree!Entries
<1>3. Tree!IsDir(files, d) <=> \E p \in DOMAIN files : Tree!IsStrictPrefix(d, p)
  BY DEF Tree!IsDir, Tree!Under
<1> QED
  BY <1>1, <1>2, <1>3

\* A directory of a finite tree has finitely many entries.
LEMMA EntriesAreFinite ==
  ASSUME NEW files, IsFiniteSet(DOMAIN files), NEW d
  PROVE  IsFiniteSet(Tree!Entries(files, d))
<1>1. IsFiniteSet(Tree!Under(files, d))
  <2>1. Tree!Under(files, d) \in SUBSET DOMAIN files
    BY DEF Tree!Under
  <2> QED
    BY <2>1, FS_Subset
<1> DEFINE S == Tree!Under(files, d)
           T == Tree!Entries(files, d)
           f == [p \in S |-> Append(d, p[Len(d) + 1])]
<1>2. f \in Surjection(S, T)
  BY DEF Surjection, Tree!Entries
<1> QED
  BY <1>1, <1>2, FS_Surjection

\* A visit takes the directory on top and leaves the directories in it.
LEMMA VisitSteps ==
  ASSUME NEW files, DOMAIN files \subseteq Paths, IsFiniteSet(DOMAIN files),
         StackOK, stack # <<>>, Tree!Visit(files)
  PROVE  /\ StackOK' /\ Tree!Here \in Dirs /\ Tree!Here \in ToVisit
         /\ ToVisit' = (ToVisit \ {Tree!Here}) \cup Tree!HereDirs(files)
<1> DEFINE n == Len(stack)
           S == Tree!HereDirs(files)
           h == Tree!Here
<1>1. n \in Nat /\ n >= 1 /\ stack \in Seq(Dirs) /\ DOMAIN stack = 1 .. n
  BY DEF StackOK
<1>2. h = stack[n] /\ h \in Dirs /\ h \in ToVisit
  BY <1>1 DEF Tree!Here, Tree!Last, ToVisit
<1>3. PICK dirs \in Tree!SetToSeqs(S) : stack' = Tree!Front(stack) \o dirs
  BY DEF Tree!Visit
<1>4. IsFiniteSet(S) /\ \A e \in S : Child(h, e)
  <2>1. S \in SUBSET Tree!Entries(files, h)
    BY DEF Tree!HereDirs
  <2>2. IsFiniteSet(Tree!Entries(files, h))
    BY EntriesAreFinite
  <2>3. \A e \in Tree!Entries(files, h) : Child(h, e)
    BY <1>2, EntriesAre
  <2> QED
    BY <2>1, <2>2, <2>3, FS_Subset
<1> HIDE DEF h, S
<1>5. /\ dirs \in Seq(S) /\ {dirs[i] : i \in 1 .. Len(dirs)} = S
      /\ \A i, j \in 1 .. Len(dirs) : dirs[i] = dirs[j] => i = j
  BY <1>3, <1>4, SeqsOf
<1> DEFINE m == Len(dirs)
           front == SubSeq(stack, 1, n - 1)
<1>6. dirs \in Seq(Dirs) /\ m \in Nat
  BY <1>4, <1>5 DEF Child
<1>7. front \in Seq(Dirs) /\ Len(front) = n - 1 /\ \A i \in 1 .. n - 1 : front[i] = stack[i]
  BY <1>1
<1> HIDE DEF m, n, front
<1>8. stack' = front \o dirs
  BY <1>3 DEF Tree!Front, front, n
<1>9. /\ stack' \in Seq(Dirs) /\ Len(stack') = n - 1 + m
      /\ \A i \in 1 .. n - 1 : stack'[i] = stack[i]
      /\ \A i \in 1 .. m : stack'[n - 1 + i] = dirs[i]
  <2> DEFINE t == front \o dirs
  <2>1. t \in Seq(Dirs) /\ Len(t) = n - 1 + m
    BY <1>6, <1>7, ConcatProperties DEF m
  <2>2. \A i \in 1 .. n - 1 : t[i] = stack[i]
    BY <1>1, <1>6, <1>7 DEF m
  <2>3. ASSUME NEW i \in 1 .. m PROVE t[n - 1 + i] = dirs[i]
    <3>1. i \in 1 .. Len(dirs) /\ Len(front) + i = n - 1 + i
      BY <1>7 DEF m
    <3>2. t[Len(front) + i] = dirs[i]
      BY <1>6, <1>7, <3>1, ConcatProperties
    <3> QED
      BY <3>1, <3>2
  <2> HIDE DEF t
  <2>4. stack' = t
    BY <1>8 DEF t
  <2> QED
    BY <2>1, <2>2, <2>3, <2>4
<1>10. ASSUME NEW k \in DOMAIN stack'
       PROVE  \/ k \in 1 .. n - 1 /\ stack'[k] = stack[k] /\ k \in 1 .. n
              \/ k - (n - 1) \in 1 .. m /\ stack'[k] = dirs[k - (n - 1)]
                 /\ k = n - 1 + (k - (n - 1))
  <2>1. k \in 1 .. n - 1 + m
    BY <1>9
  <2>2. CASE k \in 1 .. n - 1
    BY <1>1, <1>9, <2>2
  <2>3. CASE k \notin 1 .. n - 1
    <3>1. k - (n - 1) \in 1 .. m /\ k = n - 1 + (k - (n - 1))
      BY <1>1, <1>6, <2>1, <2>3
    <3> QED
      BY <1>9, <3>1
  <2> QED
    BY <2>2, <2>3
<1>11. \A i \in 1 .. m : dirs[i] \in S
  BY <1>5 DEF m
<1>12. \A i \in 1 .. n - 1 : i # n /\ i \in 1 .. n /\ stack[i] \in Dirs
  BY <1>1
<1>13. \A j, k \in 1 .. n : Tree!IsPrefix(stack[j], stack[k]) => j = k
  BY <1>1 DEF StackOK
<1>14. ASSUME NEW i \in 1 .. n - 1, NEW e \in S
       PROVE  ~Tree!IsPrefix(stack[i], e) /\ ~Tree!IsPrefix(e, stack[i])
  <2>1. n \in 1 .. n
    BY <1>1
  <2>2. ~Tree!IsPrefix(stack[i], h) /\ ~Tree!IsPrefix(h, stack[i]) /\ stack[i] \in Dirs
    BY <1>2, <1>12, <1>13, <2>1
  <2>3. e \in Dirs /\ Tree!IsPrefix(h, e) /\ Child(h, e)
    BY <1>4 DEF Child
  <2>4. ~Tree!IsPrefix(e, stack[i])
    BY <1>2, <2>2, <2>3, PrefixOrders
  <2>5. Tree!IsPrefix(stack[i], e) => stack[i] = e
    BY <1>2, <2>2, <2>3, ChildPrefix
  <2> QED
    BY <2>2, <2>3, <2>4, <2>5
<1>15. ASSUME NEW j \in DOMAIN stack', NEW k \in DOMAIN stack',
              Tree!IsPrefix(stack'[j], stack'[k])
       PROVE  j = k
  <2>1. CASE j \in 1 .. n - 1 /\ k \in 1 .. n - 1
    <3>1. stack'[j] = stack[j] /\ stack'[k] = stack[k]
      BY <1>9, <2>1
    <3> QED
      BY <1>12, <1>13, <1>15, <2>1, <3>1
  <2>2. CASE j \in 1 .. n - 1 /\ k \notin 1 .. n - 1
    <3>1. stack'[j] = stack[j] /\ stack'[k] \in S
      BY <1>9, <1>10, <1>11, <2>2
    <3> QED
      BY <1>14, <1>15, <2>2, <3>1
  <2>3. CASE j \notin 1 .. n - 1 /\ k \in 1 .. n - 1
    <3>1. stack'[k] = stack[k] /\ stack'[j] \in S
      BY <1>9, <1>10, <1>11, <2>3
    <3> QED
      BY <1>14, <1>15, <2>3, <3>1
  <2>4. CASE j \notin 1 .. n - 1 /\ k \notin 1 .. n - 1
    <3> DEFINE x == j - (n - 1)
               y == k - (n - 1)
    <3>1. /\ x \in 1 .. m /\ stack'[j] = dirs[x] /\ j = n - 1 + x
          /\ y \in 1 .. m /\ stack'[k] = dirs[y] /\ k = n - 1 + y
      BY <1>10, <2>4
    <3> HIDE DEF x, y
    <3>2. dirs[x] \in S /\ dirs[y] \in S /\ Tree!IsPrefix(dirs[x], dirs[y])
      BY <1>11, <1>15, <3>1
    <3>3. dirs[x] = dirs[y]
      BY <1>2, <1>4, <3>2, ChildrenApart
    <3>4. x = y
      BY <1>5, <3>1, <3>3 DEF m
    <3> QED
      BY <3>1, <3>4
  <2> QED
    BY <2>1, <2>2, <2>3, <2>4
<1>16. ToVisit' = (ToVisit \ {h}) \cup S
  <2>1. ASSUME NEW k \in DOMAIN stack' PROVE stack'[k] \in (ToVisit \ {h}) \cup S
    <3>1. CASE k \in 1 .. n - 1
      <4>1. stack'[k] = stack[k] /\ k \in 1 .. n /\ k # n /\ n \in 1 .. n
        BY <1>1, <1>9, <1>12, <3>1
      <4>2. stack[k] # h
        BY <1>2, <1>13, <4>1, PrefixOrders
      <4> QED
        BY <1>1, <4>1, <4>2 DEF ToVisit
    <3>2. CASE k \notin 1 .. n - 1
      BY <1>10, <1>11, <3>2
    <3> QED
      BY <3>1, <3>2
  <2>2. ASSUME NEW d \in ToVisit, d # h PROVE d \in ToVisit'
    <3>1. PICK k \in 1 .. n : d = stack[k]
      BY <1>1, <2>2 DEF ToVisit
    <3>2. k \in 1 .. n - 1
      BY <1>1, <1>2, <2>2, <3>1
    <3>3. k \in DOMAIN stack' /\ stack'[k] = d
      BY <1>1, <1>6, <1>9, <3>1, <3>2
    <3> QED
      BY <3>3 DEF ToVisit
  <2>3. ASSUME NEW d \in S PROVE d \in ToVisit'
    <3>1. PICK i \in 1 .. m : dirs[i] = d
      BY <1>5 DEF m
    <3>2. n \in Nat \ {0} /\ m \in Nat /\ i \in Nat /\ 1 <= i /\ i <= m
      BY <1>1, <1>6, <3>1
    <3>3. n - 1 + i \in 1 .. n - 1 + m
      BY <3>2
    <3>4. n - 1 + i \in DOMAIN stack' /\ stack'[n - 1 + i] = dirs[i]
      BY <1>9, <3>1, <3>3
    <3> QED
      BY <3>1, <3>4 DEF ToVisit
  <2> QED
    BY <2>1, <2>2, <2>3 DEF ToVisit
<1> QED
  BY <1>2, <1>9, <1>15, <1>16 DEF StackOK, h, S

------------------------------------------------------------------------------
(* The paths that the rules name, and what is known of the sources.         *)

Utils == <<"utils">>
UtilsBazel == <<"utils", "bazel">>

\* One name more.
LEMMA OneMoreName ==
  ASSUME NEW S, NEW x \in S, NEW y \in S, NEW z \in S, NEW w \in S
  PROVE  <<x, y, z>> \o <<w>> = <<x, y, z, w>>
<1> DEFINE a == <<x, y, z>>
           b == <<w>>
           c == a \o b
           d == <<x, y, z, w>>
<1>1. a \in Seq(S) /\ b \in Seq(S) /\ Len(a) = 3 /\ Len(b) = 1
  OBVIOUS
<1>2. c \in Seq(S) /\ Len(c) = 4
  BY <1>1
<1>3. c[1] = x /\ c[2] = y /\ c[3] = z /\ c[4] = w
  OBVIOUS
<1>4. d \in Seq(S) /\ Len(d) = 4 /\ d[1] = x /\ d[2] = y /\ d[3] = z /\ d[4] = w
  OBVIOUS
<1> HIDE DEF c, d
<1>5. \A i \in 1 .. Len(c) : c[i] = d[i]
  BY <1>2, <1>3, <1>4
<1>6. c = d
  BY <1>2, <1>4, <1>5, SeqEqual
<1> QED
  BY <1>6 DEF c, d

LEMMA PrefixBy ==
  ASSUME NEW a \in Dirs, NEW b \in Dirs, NEW n \in Nat, Len(a) = n, n <= Len(b),
         \A i \in 1 .. n : a[i] = b[i]
  PROVE  Tree!IsPrefix(a, b)
BY PrefixIs

\* The paths that the rules name.
LEMMA NamedPaths ==
  /\ {Utils, UtilsBazel, Tree!LLVM_PROJECT_OVERLAY, Tree!ThirdParty, Tree!Pfm, Tree!GitDir,
      Tree!Archive} \subseteq Paths
  /\ Tree!IsPrefix(Utils, UtilsBazel) /\ Tree!IsPrefix(Utils, Tree!LLVM_PROJECT_OVERLAY)
  /\ Tree!IsPrefix(Utils, Tree!ThirdParty) /\ Tree!IsPrefix(UtilsBazel, Tree!ThirdParty)
  /\ Tree!IsStrictPrefix(Tree!ThirdParty, Tree!Pfm)
  /\ ~Tree!IsPrefix(Tree!LLVM_PROJECT_OVERLAY, Tree!Pfm)
  /\ Len(Utils) = 1 /\ Len(UtilsBazel) = 2 /\ Len(Tree!ThirdParty) = 3
  /\ Tree!GitDir # Utils /\ Tree!Archive # Utils
<1>1. /\ Utils = <<"utils">> /\ UtilsBazel = <<"utils", "bazel">>
      /\ Tree!LLVM_PROJECT_OVERLAY = <<"utils", "bazel", "llvm-project-overlay">>
      /\ Tree!ThirdParty = <<"utils", "bazel", "third_party_build">>
      /\ Tree!GitDir = <<".git">> /\ Tree!Archive = <<".downloaded.archive">>
  BY DEF Utils, UtilsBazel, Tree!LLVM_PROJECT_OVERLAY, Tree!ThirdParty, Tree!GitDir, Tree!Archive
<1>0. {"utils", "bazel", "llvm-project-overlay", "third_party_build", "pfm.BUILD", ".git",
       ".downloaded.archive"} \subseteq Names
  BY PathsAssumption
<1>2. Tree!Pfm = <<"utils", "bazel", "third_party_build", "pfm.BUILD">>
  BY <1>0, <1>1, OneMoreName DEF Tree!Pfm
<1>3. {Utils, UtilsBazel, Tree!LLVM_PROJECT_OVERLAY, Tree!ThirdParty, Tree!Pfm, Tree!GitDir,
       Tree!Archive} \subseteq Paths
  <2>1. Utils \in Paths /\ UtilsBazel \in Paths /\ Tree!GitDir \in Paths /\ Tree!Archive \in Paths
    BY <1>0, <1>1 DEF Paths, Dirs
  <2>2. Tree!LLVM_PROJECT_OVERLAY \in Paths /\ Tree!ThirdParty \in Paths
    BY <1>0, <1>1 DEF Paths, Dirs
  <2>3. Tree!Pfm \in Paths
    BY <1>0, <1>2 DEF Paths, Dirs
  <2> QED
    BY <2>1, <2>2, <2>3
<1>4. /\ Utils \in Dirs /\ UtilsBazel \in Dirs /\ Tree!LLVM_PROJECT_OVERLAY \in Dirs
      /\ Tree!ThirdParty \in Dirs /\ Tree!Pfm \in Dirs
  BY <1>3 DEF Paths
<1>5. /\ Len(Utils) = 1 /\ Len(UtilsBazel) = 2 /\ Len(Tree!ThirdParty) = 3
      /\ Len(Tree!LLVM_PROJECT_OVERLAY) = 3 /\ Len(Tree!Pfm) = 4
  BY <1>1, <1>2
<1>6. \A i \in 1 .. 1 : /\ Utils[i] = UtilsBazel[i] /\ Utils[i] = Tree!LLVM_PROJECT_OVERLAY[i]
                        /\ Utils[i] = Tree!ThirdParty[i]
  BY <1>1
<1>7. \A i \in 1 .. 2 : UtilsBazel[i] = Tree!ThirdParty[i]
  BY <1>1
<1>8. \A i \in 1 .. 3 : Tree!ThirdParty[i] = Tree!Pfm[i]
  BY <1>1, <1>2
<1>9. Tree!LLVM_PROJECT_OVERLAY[3] # Tree!Pfm[3]
  BY <1>1, <1>2
<1>10. Tree!IsPrefix(Utils, UtilsBazel) /\ Tree!IsPrefix(Utils, Tree!LLVM_PROJECT_OVERLAY)
       /\ Tree!IsPrefix(Utils, Tree!ThirdParty)
  <2>1. Tree!IsPrefix(Utils, UtilsBazel)
    BY <1>4, <1>5, <1>6, 1 <= 2, 1 <= 3, PrefixBy
  <2>2. Tree!IsPrefix(Utils, Tree!LLVM_PROJECT_OVERLAY)
    BY <1>4, <1>5, <1>6, 1 <= 2, 1 <= 3, PrefixBy
  <2>3. Tree!IsPrefix(Utils, Tree!ThirdParty)
    BY <1>4, <1>5, <1>6, 1 <= 2, 1 <= 3, PrefixBy
  <2> QED
    BY <2>1, <2>2, <2>3
<1>11. Tree!IsPrefix(UtilsBazel, Tree!ThirdParty)
  BY <1>4, <1>5, <1>7, 2 <= 3, PrefixBy
<1>12. Tree!IsStrictPrefix(Tree!ThirdParty, Tree!Pfm)
  <2>1. Tree!IsPrefix(Tree!ThirdParty, Tree!Pfm)
    BY <1>4, <1>5, <1>8, 3 <= 4, PrefixBy
  <2>2. Tree!ThirdParty # Tree!Pfm
    BY <1>5
  <2> QED
    BY <2>1, <2>2 DEF Tree!IsStrictPrefix
<1>13. ~Tree!IsPrefix(Tree!LLVM_PROJECT_OVERLAY, Tree!Pfm)
  <2>1. 3 \in 1 .. Len(Tree!LLVM_PROJECT_OVERLAY)
    BY <1>5
  <2> QED
    BY <1>4, <1>9, <2>1, PrefixIs
<1>14. Tree!GitDir # Utils /\ Tree!Archive # Utils
  BY <1>1
<1> QED
  BY <1>3, <1>5, <1>10, <1>11, <1>12, <1>13, <1>14

\* The overlay in a tree.
LEMMA OverlayIs ==
  ASSUME NEW files, DOMAIN files \subseteq Paths
  PROVE  /\ DOMAIN Tree!OverlayOf(files) \subseteq Paths
         /\ \A p \in Paths : p \in DOMAIN Tree!OverlayOf(files)
                               <=> Tree!LLVM_PROJECT_OVERLAY \o p \in DOMAIN files
         /\ \A p \in DOMAIN Tree!OverlayOf(files) :
              Tree!OverlayOf(files)[p] = files[Tree!LLVM_PROJECT_OVERLAY \o p]
<1> DEFINE a == Tree!LLVM_PROJECT_OVERLAY
           D == {Tree!Rest(f, Len(a)) : f \in Tree!Under(files, a)}
<1>1. a \in Dirs
  BY NamedPaths DEF Paths
<1>2. DOMAIN Tree!OverlayOf(files) = D /\ \A p \in D : Tree!OverlayOf(files)[p] = files[a \o p]
  BY DEF Tree!OverlayOf
<1> HIDE DEF a
<1>3. ASSUME NEW p \in D PROVE p \in Paths /\ a \o p \in DOMAIN files
  <2>1. PICK f \in Tree!Under(files, a) : p = Tree!Rest(f, Len(a))
    OBVIOUS
  <2>2. f \in DOMAIN files /\ f \in Dirs /\ Tree!IsPrefix(a, f) /\ a # f
    BY <2>1 DEF Tree!Under, Tree!IsStrictPrefix, Paths
  <2>3. p \in Dirs /\ a \o p = f
    BY <1>1, <2>1, <2>2, RestIs
  <2>4. p # <<>>
    BY <1>1, <2>2, <2>3 DEF Dirs
  <2> QED
    BY <2>2, <2>3, <2>4 DEF Paths
<1>4. ASSUME NEW p \in Paths, a \o p \in DOMAIN files PROVE p \in D
  <2>1. p \in Dirs /\ p # <<>>
    BY DEF Paths
  <2>2. Tree!IsPrefix(a, a \o p) /\ Tree!Rest(a \o p, Len(a)) = p
    BY <1>1, <2>1, ConcatPrefix
  <2>3. a \o p # a
    BY <1>1, <2>1, ConcatEqualIffEmpty DEF Dirs
  <2>4. a \o p \in Tree!Under(files, a)
    BY <1>4, <2>2, <2>3 DEF Tree!Under, Tree!IsStrictPrefix
  <2> QED
    BY <2>2, <2>4
<1> HIDE DEF D
<1> QED
  BY <1>2, <1>3, <1>4 DEF a

\* What is in a repository in the end comes from here.
Laid(s) == DOMAIN Tree!Written(s) \cup DOMAIN Tree!OverlayOf(s) \cup DOMAIN s

\* What the rules write in the end, if pfm.BUILD is there or not.
LEMMA WrittenPaths ==
  ASSUME NEW files
  PROVE  /\ DOMAIN Tree!Written(files) \subseteq Paths
         /\ \A other : (Tree!Pfm \in DOMAIN files <=> Tree!Pfm \in DOMAIN other) =>
              Tree!Written(files) = Tree!Written(other)
<1>0. {"utils", "bazel", "third_party_build", "BUILD.bazel", "vars.bzl", "targets.bzl",
       "llvm", "bolt", ".bazelignore"} \subseteq Names
  BY PathsAssumption
<1>1. /\ <<"BUILD.bazel">> \in Paths /\ <<"vars.bzl">> \in Paths
      /\ <<"llvm", "targets.bzl">> \in Paths /\ <<"bolt", "targets.bzl">> \in Paths
      /\ <<".bazelignore">> \in Paths
  BY <1>0 DEF Paths, Dirs
<1>2. Tree!ThirdParty \o <<"BUILD.bazel">> \in Paths
  <2>1. Tree!ThirdParty \o <<"BUILD.bazel">>
        = <<"utils", "bazel", "third_party_build", "BUILD.bazel">>
    BY <1>0, OneMoreName DEF Tree!ThirdParty
  <2>2. <<"utils", "bazel", "third_party_build", "BUILD.bazel">> \in Paths
    BY <1>0 DEF Paths, Dirs
  <2> QED
    BY <2>1, <2>2
<1>3. DOMAIN Tree!Written(files) \subseteq Paths
  BY <1>1, <1>2 DEF Tree!Written
<1>4. ASSUME NEW other, Tree!Pfm \in DOMAIN files <=> Tree!Pfm \in DOMAIN other
      PROVE  Tree!Written(files) = Tree!Written(other)
  BY <1>4 DEF Tree!Written
<1> QED
  BY <1>3, <1>4

\* The trees and overlays of the sources.
LEMMA SourceFacts ==
  ASSUME NEW s \in Sources
  PROVE  /\ s = [p \in DOMAIN s |-> s[p]] /\ DOMAIN s \subseteq Paths /\ Laid(s) \subseteq Paths
         /\ IsFiniteSet(DOMAIN s)
         /\ \A p, q \in Laid(s) : ~Tree!IsStrictPrefix(p, q)
         /\ \A p \in Laid(s) : ~Tree!IsPrefix(Tree!GitDir, p) /\ ~Tree!IsPrefix(Tree!Archive, p)
         /\ \A p \in DOMAIN Tree!OverlayOf(s) : ~Tree!IsPrefix(Utils, p)
         /\ \E p \in DOMAIN Tree!OverlayOf(s) : Tree!IsStrictPrefix(<<"llvm">>, p)
         /\ \E p \in DOMAIN Tree!OverlayOf(s) : Tree!IsStrictPrefix(<<"bolt">>, p)
<1> DEFINE O == Tree!OverlayOf(s)
<1>1. /\ IsFiniteSet(DOMAIN s) /\ s = [p \in DOMAIN s |-> s[p]]
      /\ DOMAIN s \subseteq Seq(Names) \ {<<>>}
      /\ \A p, q \in Laid(s) : ~Tree!IsStrictPrefix(p, q)
      /\ Tree!IsDir(O, <<"llvm">>) /\ Tree!IsDir(O, <<"bolt">>) /\ ~Tree!IsDir(O, Utils)
      /\ \A p \in Laid(s) : ~Tree!IsPrefix(Tree!GitDir, p) /\ ~Tree!IsPrefix(Tree!Archive, p)
  BY SourcesAssumption DEF Laid, Utils
<1>2. DOMAIN s \subseteq Paths
  BY <1>1 DEF Paths, Dirs
<1>3. DOMAIN O \subseteq Paths
  BY <1>2, OverlayIs
<1> HIDE DEF O
<1>4. Laid(s) \subseteq Paths
  BY <1>2, <1>3, WrittenPaths DEF Laid, O
<1>5. \E p \in DOMAIN O : Tree!IsStrictPrefix(<<"llvm">>, p)
  BY <1>1 DEF Tree!IsDir, Tree!Under
<1>6. \E p \in DOMAIN O : Tree!IsStrictPrefix(<<"bolt">>, p)
  BY <1>1 DEF Tree!IsDir, Tree!Under
<1>7. ASSUME NEW p \in DOMAIN O, Tree!IsPrefix(Utils, p) PROVE FALSE
  <2>1. ~Tree!IsStrictPrefix(Utils, p)
    BY <1>1 DEF Tree!IsDir, Tree!Under
  <2>2. p = Utils
    BY <1>7, <2>1 DEF Tree!IsStrictPrefix
  <2> DEFINE a == Tree!LLVM_PROJECT_OVERLAY
             q == a \o p
  <2>3. p \in Dirs /\ a \in Dirs /\ Tree!IsPrefix(p, a) /\ p \in Paths
    BY <1>3, <2>2, NamedPaths DEF Paths
  <2> HIDE DEF a
  <2>4. q \in DOMAIN s
    BY <1>2, <2>3, OverlayIs DEF O, a
  <2>5. q \in Dirs /\ Tree!IsPrefix(a, q)
    BY <2>3, ConcatPrefix
  <2>6. Tree!IsPrefix(p, q)
    BY <2>3, <2>5, PrefixOrders
  <2>7. Len(q) = Len(a) + 1 /\ Len(a) \in Nat /\ Len(p) = 1
    <3>1. Len(p) = 1
      BY <2>2, NamedPaths
    <3>2. Len(q) = Len(a) + Len(p) /\ Len(a) \in Nat
      BY <2>3 DEF Dirs
    <3> QED
      BY <3>1, <3>2
  <2>8. p # q
    <3>1. Len(a) # 0
      BY <2>3, NamedPaths DEF a, Paths, Dirs
    <3> QED
      BY <2>7, <3>1
  <2>9. p \in Laid(s) /\ q \in Laid(s)
    BY <2>4 DEF Laid, O
  <2> QED
    BY <1>1, <2>6, <2>8, <2>9 DEF Tree!IsStrictPrefix
<1> QED
  BY <1>1, <1>2, <1>4, <1>5, <1>6, <1>7 DEF O

------------------------------------------------------------------------------
(* A repository as it is seen, through its links or without them.           *)

\* A repository whose links are entries of its root, each to the same path of the
\* sources: nothing is below a link but what it leads to.
Plain(p) == p \in DOMAIN out /\ ~out[p].link
MirrorOK ==
  /\ DOMAIN out \subseteq Paths /\ DOMAIN src \subseteq Paths
  /\ src = [p \in DOMAIN src |-> src[p]]
  /\ \A q \in DOMAIN out : out[q].link => out[q] = Tree!Link(q) /\ Len(q) = 1
  /\ \A q \in Tree!Links, p \in DOMAIN out : ~Tree!IsStrictPrefix(q, p)

\* What is seen in it: its files, and the sources below its links.
Mirrored == {p \in DOMAIN src : \E q \in Tree!Links : Tree!IsPrefix(q, p)}
ViewIsMirror ==
  /\ DOMAIN Tree!View = {p \in DOMAIN out : Plain(p)} \cup Mirrored
  /\ \A p \in DOMAIN Tree!View :
       Tree!View[p] = IF Plain(p) THEN out[p].content ELSE src[p]
  /\ Tree!View = [p \in DOMAIN Tree!View |-> Tree!View[p]]

\* What a link of such a repository is.
LEMMA LinksLead ==
  ASSUME MirrorOK, NEW q \in Tree!Links
  PROVE  out[q] = Tree!Link(q) /\ out[q].to = q /\ q \in Dirs /\ q \in Paths /\ Len(q) = 1
<1>1. q \in DOMAIN out /\ out[q].link
  BY DEF Tree!Links
<1>2. out[q] = Tree!Link(q) /\ Len(q) = 1 /\ q \in Paths
  BY <1>1 DEF MirrorOK
<1>3. out[q].to = q
  <2>1. Tree!Link(q).to = q
    BY DEF Tree!Link
  <2> QED
    BY <1>2, <2>1
<1> QED
  BY <1>2, <1>3 DEF Paths

\* A path below a link leads to itself.
LEMMA MirrorTarget ==
  ASSUME MirrorOK, NEW p \in Paths, NEW l \in Tree!Links, Tree!IsPrefix(l, p)
  PROVE  Tree!Target(p) = p
<1> DEFINE q == CHOOSE q \in Tree!Links : Tree!IsPrefix(q, p)
<1>1. q \in Tree!Links /\ Tree!IsPrefix(q, p)
  OBVIOUS
<1>2. Tree!Target(p) = out[q].to \o Tree!Rest(p, Len(q))
  BY DEF Tree!Target
<1> HIDE DEF q
<1>3. out[q].to = q /\ q \in Dirs /\ p \in Dirs
  BY <1>1, LinksLead DEF Paths
<1> QED
  BY <1>1, <1>2, <1>3, RestIs

\* Such a repository is seen so.
LEMMA MirrorView == MirrorOK => ViewIsMirror
<1> SUFFICES ASSUME MirrorOK PROVE ViewIsMirror
  OBVIOUS
<1> DEFINE plain == {p \in DOMAIN out : ~out[p].link}
           Reached(q) == {q \o Tree!Rest(f, Len(out[q].to)) :
                            f \in {g \in DOMAIN src : Tree!IsPrefix(out[q].to, g)}}
           R == UNION {Reached(q) : q \in Tree!Links}
<1>1. Tree!View = Tree!Over([p \in plain |-> out[p].content], [p \in R |-> src[Tree!Target(p)]])
  BY DEF Tree!View
<1>2. ASSUME NEW q \in Tree!Links
      PROVE  Reached(q) = {g \in DOMAIN src : Tree!IsPrefix(q, g)}
  <2>1. out[q].to = q /\ q \in Dirs
    BY LinksLead
  <2>2. \A g \in DOMAIN src : Tree!IsPrefix(q, g) => q \o Tree!Rest(g, Len(q)) = g
    BY <2>1, RestIs DEF MirrorOK, Paths
  <2> QED
    BY <2>1, <2>2
<1>3. R = Mirrored
  BY <1>2 DEF Mirrored
<1>4. \A p \in R : Tree!Target(p) = p
  BY <1>3, MirrorTarget DEF Mirrored, MirrorOK
<1> HIDE DEF R
<1>5. \A p \in plain : Plain(p)
  BY DEF Plain
<1>6. plain = {p \in DOMAIN out : Plain(p)}
  BY DEF Plain
<1> HIDE DEF plain
<1>7. DOMAIN Tree!View = plain \cup R
  BY <1>1 DEF Tree!Over
<1>8. \A p \in DOMAIN Tree!View :
        Tree!View[p] = IF p \in plain THEN out[p].content ELSE src[Tree!Target(p)]
  BY <1>1 DEF Tree!Over
<1>9. Tree!View = [p \in DOMAIN Tree!View |-> Tree!View[p]]
  BY <1>1 DEF Tree!Over
<1>10. \A p \in DOMAIN Tree!View : Tree!View[p] = IF Plain(p) THEN out[p].content ELSE src[p]
  <2>1. \A p : Plain(p) <=> p \in plain
    BY <1>6 DEF Plain
  <2> QED
    BY <1>4, <1>7, <1>8, <2>1
<1> QED
  BY <1>3, <1>6, <1>7, <1>9, <1>10 DEF ViewIsMirror

LEMMA MirrorViewNext == MirrorOK' => ViewIsMirror'
BY MirrorView, PTL

\* A tree that fits the links: where it has a file instead of a link, neither it nor
\* the sources have a directory.
Fits(files) ==
  /\ DOMAIN files \subseteq Paths
  /\ \A p \in DOMAIN files : p \in Tree!Links =>
       \A g \in DOMAIN src \cup DOMAIN files : ~Tree!IsStrictPrefix(p, g)

\* What comes of writing such a tree.
LEMMA MirrorWrites ==
  ASSUME MirrorOK, NEW files, Fits(files), Tree!Write(files)
  PROVE  /\ MirrorOK' /\ Tree!View' = Tree!Over(files, Tree!View)
         /\ Tree!Links' = Tree!Links \ DOMAIN files
         /\ DOMAIN src \subseteq DOMAIN src' /\ DOMAIN src' \subseteq DOMAIN src \cup DOMAIN files
         /\ Tree!Links = {} => src' = src
<1> DEFINE T == {p \in DOMAIN files : \E q \in Tree!Links : Tree!IsStrictPrefix(q, p)}
<1>1. /\ out' = Tree!Over([p \in DOMAIN files \ T |-> Tree!File(files[p])], out)
      /\ src' = Tree!Over([f \in {Tree!Target(p) : p \in T} |->
                             files[CHOOSE p \in T : Tree!Target(p) = f]], src)
  BY DEF Tree!Write
<1>2. T \subseteq DOMAIN files /\ T \subseteq Paths /\ DOMAIN files \subseteq Paths
  BY DEF Fits
<1>3. \A p \in T : Tree!Target(p) = p
  <2>1. ASSUME NEW p \in T PROVE Tree!Target(p) = p
    <3>1. PICK q \in Tree!Links : Tree!IsPrefix(q, p)
      BY DEF Tree!IsStrictPrefix
    <3> QED
      BY <1>2, <3>1, MirrorTarget
  <2> QED
    BY <2>1
<1>4. \A p : p \in T <=> p \in DOMAIN files /\ \E q \in Tree!Links : Tree!IsStrictPrefix(q, p)
  OBVIOUS
<1> HIDE DEF T
<1>5. {Tree!Target(p) : p \in T} = T
  BY <1>3
<1>6. \A f \in T : (CHOOSE p \in T : Tree!Target(p) = f) = f
  BY <1>3
<1> DEFINE upper == [f \in {Tree!Target(p) : p \in T} |->
                       files[CHOOSE p \in T : Tree!Target(p) = f]]
<1>7. DOMAIN upper = T /\ \A f \in T : upper[f] = files[f]
  BY <1>5, <1>6
<1> HIDE DEF upper
<1>8. /\ DOMAIN src' = T \cup DOMAIN src /\ src' = [p \in DOMAIN src' |-> src'[p]]
      /\ \A p \in DOMAIN src' : src'[p] = IF p \in T THEN files[p] ELSE src[p]
  <2>1. src' = Tree!Over(upper, src)
    BY <1>1 DEF upper
  <2> QED
    BY <1>7, <2>1 DEF Tree!Over
<1>9. /\ DOMAIN out' = (DOMAIN files \ T) \cup DOMAIN out
      /\ \A p \in DOMAIN out' :
           out'[p] = IF p \in DOMAIN files \ T THEN Tree!File(files[p]) ELSE out[p]
  BY <1>1 DEF Tree!Over
<1>10. \A c : Tree!File(c).link = FALSE /\ Tree!File(c).content = c
  BY DEF Tree!File
<1>11. \A p \in DOMAIN files \ T : p \in DOMAIN out' /\ Plain(p)' /\ out'[p].content = files[p]
  BY <1>9, <1>10 DEF Plain
<1>12. \A p : p \notin DOMAIN files \ T =>
         (p \in DOMAIN out' <=> p \in DOMAIN out) /\ (p \in DOMAIN out => out'[p] = out[p])
  BY <1>9
<1>13. \A q \in Tree!Links, r \in Tree!Links : ~Tree!IsStrictPrefix(q, r)
  BY DEF MirrorOK, Tree!Links
<1>14. \A q \in Tree!Links : q \notin T
  BY <1>4, <1>13
<1>15. Tree!Links' = Tree!Links \ DOMAIN files
  <2>1. ASSUME NEW q \in Tree!Links' PROVE q \in Tree!Links \ DOMAIN files
    <3>1. q \in DOMAIN out' /\ out'[q].link
      BY DEF Tree!Links
    <3>2. q \notin DOMAIN files \ T
      BY <1>9, <1>10, <3>1
    <3>3. q \in Tree!Links
      BY <1>12, <3>1, <3>2 DEF Tree!Links
    <3> QED
      BY <1>14, <3>2, <3>3
  <2>2. ASSUME NEW q \in Tree!Links \ DOMAIN files PROVE q \in Tree!Links'
    <3>1. q \in DOMAIN out' /\ out'[q] = out[q]
      BY <1>12, <2>2 DEF Tree!Links
    <3> QED
      BY <2>2, <3>1 DEF Tree!Links
  <2> QED
    BY <2>1, <2>2
<1>16. MirrorOK'
  <2>1. DOMAIN out' \subseteq Paths /\ DOMAIN src' \subseteq Paths
    BY <1>2, <1>8, <1>9 DEF MirrorOK
  <2>2. ASSUME NEW q \in DOMAIN out', out'[q].link PROVE out'[q] = Tree!Link(q) /\ Len(q) = 1
    <3>1. q \notin DOMAIN files \ T
      BY <1>9, <1>10, <2>2
    <3> QED
      BY <1>12, <2>2, <3>1 DEF MirrorOK
  <2>3. ASSUME NEW q \in Tree!Links', NEW p \in DOMAIN out' PROVE ~Tree!IsStrictPrefix(q, p)
    <3>1. q \in Tree!Links
      BY <1>15
    <3>2. CASE p \in DOMAIN out
      BY <3>1, <3>2 DEF MirrorOK
    <3>3. CASE p \in DOMAIN files \ T
      BY <1>4, <3>1, <3>3
    <3> QED
      BY <1>9, <3>2, <3>3
  <2> QED
    BY <1>8, <2>1, <2>2, <2>3 DEF MirrorOK
<1>17. ViewIsMirror /\ ViewIsMirror'
  BY <1>16, MirrorView, MirrorViewNext
<1>18. ASSUME NEW p PROVE p \in DOMAIN Tree!View' <=> p \in DOMAIN files \/ p \in DOMAIN Tree!View
  <2>1. p \in DOMAIN Tree!View' <=> Plain(p)' \/ p \in Mirrored'
    BY <1>17 DEF ViewIsMirror, Plain
  <2>2. p \in DOMAIN Tree!View <=> Plain(p) \/ p \in Mirrored
    BY <1>17 DEF ViewIsMirror, Plain
  <2>3. CASE p \in DOMAIN files \ T
    BY <1>11, <2>1, <2>3
  <2>4. CASE p \in T
    <3>1. PICK q \in Tree!Links : Tree!IsStrictPrefix(q, p)
      BY <1>4, <2>4
    <3>2. q \notin DOMAIN files
      <4>1. ASSUME q \in DOMAIN files PROVE FALSE
        <5>1. p \in DOMAIN files
          BY <1>2, <2>4
        <5> QED
          BY <3>1, <4>1, <5>1 DEF Fits
      <4> QED
        BY <4>1
    <3>3. q \in Tree!Links' /\ p \in DOMAIN src' /\ Tree!IsPrefix(q, p)
      BY <1>8, <1>15, <2>4, <3>1, <3>2 DEF Tree!IsStrictPrefix
    <3>4. p \in Mirrored'
      BY <3>3 DEF Mirrored
    <3> QED
      BY <1>2, <2>1, <2>4, <3>4
  <2>5. CASE p \notin DOMAIN files
    <3>1. Plain(p)' <=> Plain(p)
      BY <1>12, <2>5 DEF Plain
    <3>2. ASSUME p \in Mirrored PROVE p \in Mirrored'
      <4>1. PICK q \in Tree!Links : Tree!IsPrefix(q, p)
        BY <3>2 DEF Mirrored
      <4>2. p \in DOMAIN src /\ p \in DOMAIN src'
        BY <1>8, <3>2 DEF Mirrored
      <4>3. q \notin DOMAIN files
        <5>1. ASSUME q \in DOMAIN files PROVE FALSE
          <6>1. ~Tree!IsStrictPrefix(q, p)
            BY <4>2, <5>1 DEF Fits
          <6> QED
            BY <2>5, <4>1, <5>1, <6>1 DEF Tree!IsStrictPrefix
        <5> QED
          BY <5>1
      <4> QED
        BY <1>15, <4>1, <4>2, <4>3 DEF Mirrored
    <3>3. ASSUME p \in Mirrored' PROVE p \in Mirrored
      <4>1. p \in DOMAIN src
        BY <1>2, <1>8, <2>5, <3>3 DEF Mirrored
      <4>2. \E q \in Tree!Links : Tree!IsPrefix(q, p)
        BY <1>15, <3>3 DEF Mirrored
      <4> QED
        BY <4>1, <4>2 DEF Mirrored
    <3> QED
      BY <2>1, <2>2, <2>5, <3>1, <3>2, <3>3
  <2> QED
    BY <2>3, <2>4, <2>5
<1>19. ASSUME NEW p \in DOMAIN Tree!View'
       PROVE  Tree!View'[p] = IF p \in DOMAIN files THEN files[p] ELSE Tree!View[p]
  <2>1. Tree!View'[p] = IF Plain(p)' THEN out'[p].content ELSE src'[p]
    BY <1>17 DEF ViewIsMirror, Plain
  <2>2. p \in DOMAIN Tree!View => Tree!View[p] = IF Plain(p) THEN out[p].content ELSE src[p]
    BY <1>17 DEF ViewIsMirror
  <2>3. CASE p \in DOMAIN files \ T
    BY <1>11, <2>1, <2>3
  <2>4. CASE p \in T
    <3>1. p \notin DOMAIN files \ T /\ p \in DOMAIN files
      BY <1>2, <2>4
    <3>2. ~Plain(p)'
      <4>1. \E q \in Tree!Links : Tree!IsStrictPrefix(q, p)
        BY <1>4, <2>4
      <4>2. p \notin DOMAIN out
        BY <4>1 DEF MirrorOK
      <4> QED
        BY <1>12, <3>1, <4>2 DEF Plain
    <3>3. src'[p] = files[p]
      BY <1>8, <2>4
    <3> QED
      BY <2>1, <3>1, <3>2, <3>3
  <2>5. CASE p \notin DOMAIN files
    <3>1. p \in DOMAIN Tree!View /\ p \notin T /\ p \notin DOMAIN files \ T
      BY <1>2, <1>18, <2>5
    <3>2. Plain(p)' <=> Plain(p)
      BY <1>12, <3>1 DEF Plain
    <3>3. CASE Plain(p)
      BY <1>12, <2>1, <2>2, <2>5, <3>1, <3>2, <3>3 DEF Plain
    <3>4. CASE ~Plain(p)
      <4>1. p \in DOMAIN src'
        BY <1>17, <3>2, <3>4 DEF ViewIsMirror, Mirrored, Plain
      <4> QED
        BY <1>8, <2>1, <2>2, <2>5, <3>1, <3>2, <3>4, <4>1
    <3> QED
      BY <3>3, <3>4
  <2> QED
    BY <2>3, <2>4, <2>5
<1>20. Tree!View' = Tree!Over(files, Tree!View)
  <2>1. Tree!View' = [p \in DOMAIN Tree!View' |-> Tree!View'[p]]
    BY <1>17 DEF ViewIsMirror
  <2>2. DOMAIN Tree!View' = DOMAIN files \cup DOMAIN Tree!View
    BY <1>18
  <2> QED
    BY <1>19, <2>1, <2>2 DEF Tree!Over
<1>21. Tree!Links = {} => src' = src
  <2>1. ASSUME Tree!Links = {} PROVE src' = src
    <3>1. T = {}
      BY <1>4, <2>1
    <3>2. DOMAIN src' = DOMAIN src /\ \A p \in DOMAIN src : src'[p] = src[p]
      BY <1>8, <3>1
    <3>3. src = [p \in DOMAIN src |-> src[p]]
      BY DEF MirrorOK
    <3> QED
      BY <1>8, <3>2, <3>3
  <2> QED
    BY <2>1
<1> QED
  BY <1>2, <1>8, <1>15, <1>16, <1>20, <1>21

\* The overlay, and what of it is in directories that are still to visit.
Overlay == Tree!OverlayOf(source)
Pending == {f \in DOMAIN Overlay : \E d \in ToVisit : Tree!IsStrictPrefix(d, f)}
DirsOK == \A d \in ToVisit : \E p \in DOMAIN Overlay : Tree!IsStrictPrefix(d, p)

\* No file of the overlay is a directory of it.
LEMMA OverlayFacts ==
  ASSUME source \in Sources
  PROVE  /\ DOMAIN Overlay \subseteq Paths /\ IsFiniteSet(DOMAIN Overlay)
         /\ \A p, q \in DOMAIN Overlay : ~Tree!IsStrictPrefix(p, q)
<1>1. DOMAIN source \subseteq Paths /\ IsFiniteSet(DOMAIN source)
  BY SourceFacts
<1>2. DOMAIN Overlay \subseteq Paths
  BY <1>1, OverlayIs DEF Overlay
<1>3. IsFiniteSet(DOMAIN Overlay)
  <2> DEFINE S == Tree!Under(source, Tree!LLVM_PROJECT_OVERLAY)
             T == DOMAIN Overlay
             f == [p \in S |-> Tree!Rest(p, Len(Tree!LLVM_PROJECT_OVERLAY))]
  <2>1. S \subseteq DOMAIN source
    BY DEF Tree!Under
  <2>2. IsFiniteSet(S)
    BY <1>1, <2>1, FS_Subset
  <2>3. T = {Tree!Rest(p, Len(Tree!LLVM_PROJECT_OVERLAY)) : p \in S}
    BY DEF Overlay, Tree!OverlayOf
  <2>4. f \in Surjection(S, T)
    BY <2>3 DEF Surjection
  <2> QED
    BY <2>2, <2>4, FS_Surjection
<1>4. \A p, q \in DOMAIN Overlay : ~Tree!IsStrictPrefix(p, q)
  BY SourceFacts DEF Laid, Overlay
<1> QED
  BY <1>2, <1>3, <1>4

\* A visit takes the files of the directory on top from what is pending.
LEMMA WalkSteps ==
  ASSUME source \in Sources, source' = source, NEW files, DOMAIN files = DOMAIN Overlay,
         StackOK, DirsOK, stack # <<>>, Tree!Visit(files)
  PROVE  /\ StackOK' /\ DirsOK'
         /\ Tree!HereFiles(files) \subseteq Pending
         /\ Pending' = Pending \ Tree!HereFiles(files)
<1> DEFINE h == Tree!Here
           D == DOMAIN Overlay
           F == Tree!HereFiles(files)
           C == Tree!HereDirs(files)
<1>1. /\ D \subseteq Paths /\ IsFiniteSet(D) /\ \A p, q \in D : ~Tree!IsStrictPrefix(p, q)
  BY OverlayFacts
<1>2. Overlay' = Overlay
  BY DEF Overlay
<1>3. /\ StackOK' /\ h \in Dirs /\ h \in ToVisit /\ ToVisit' = (ToVisit \ {h}) \cup C
  BY <1>1, VisitSteps
<1>4. \A e : e \in Tree!Entries(files, h) <=> Child(h, e) /\ \E p \in D : Tree!IsPrefix(e, p)
  BY <1>1, <1>3, EntriesAre
<1>5. /\ \A e : e \in F <=> e \in Tree!Entries(files, h) /\ e \in D
      /\ \A e : e \in C <=> e \in Tree!Entries(files, h) /\ e \notin D
  BY DEF Tree!HereFiles, Tree!HereDirs
<1>6. ToVisit \subseteq Dirs /\ ToVisit' \subseteq Dirs
      /\ \A d, e \in ToVisit : Tree!IsPrefix(d, e) => d = e
  <2>1. ToVisit \subseteq Dirs /\ \A d, e \in ToVisit : Tree!IsPrefix(d, e) => d = e
    BY DEF StackOK, ToVisit
  <2>2. C \subseteq Dirs
    BY <1>4, <1>5 DEF Child
  <2> QED
    BY <1>3, <2>1, <2>2
<1> HIDE DEF h, D, F, C
<1>7. DirsOK'
  <2>1. ASSUME NEW d \in ToVisit' PROVE \E p \in D : Tree!IsStrictPrefix(d, p)
    <3>1. CASE d \in ToVisit
      BY <3>1 DEF DirsOK, D
    <3>2. CASE d \in C
      BY <1>4, <1>5, <3>2 DEF Tree!IsStrictPrefix
    <3> QED
      BY <1>3, <3>1, <3>2
  <2> QED
    BY <1>2, <2>1 DEF DirsOK, D
<1>8. ASSUME NEW f \in F PROVE f \in Pending
  <2>1. Child(h, f) /\ f \in D
    BY <1>4, <1>5
  <2>2. Tree!IsStrictPrefix(h, f)
    BY <1>3, <2>1, ChildPrefix
  <2> QED
    BY <1>3, <2>1, <2>2 DEF Pending, D
<1>9. ASSUME NEW f \in Pending' PROVE f \in Pending /\ f \notin F
  <2>1. f \in D /\ \E d \in ToVisit' : Tree!IsStrictPrefix(d, f)
    BY <1>2 DEF Pending, D
  <2>2. PICK d \in ToVisit' : Tree!IsStrictPrefix(d, f)
    BY <2>1
  <2>3. f \in Dirs /\ d \in Dirs
    BY <1>1, <1>6, <2>1 DEF Paths
  <2>4. CASE d \in ToVisit /\ d # h
    <3>1. f \in Pending
      BY <2>1, <2>2, <2>4 DEF Pending, D
    <3>2. ASSUME f \in F PROVE FALSE
      <4>1. Tree!IsPrefix(h, f) /\ Tree!IsPrefix(d, f)
        BY <1>4, <1>5, <2>2, <3>2 DEF Child, Tree!IsStrictPrefix
      <4>2. Tree!IsPrefix(h, d) \/ Tree!IsPrefix(d, h)
        BY <1>3, <2>3, <4>1, PrefixOrders
      <4> QED
        BY <1>3, <1>6, <2>4, <4>2
    <3> QED
      BY <3>1, <3>2
  <2>5. CASE d \in C
    <3>1. Child(h, d)
      BY <1>4, <1>5, <2>5
    <3>2. Tree!IsStrictPrefix(h, d) /\ ~Tree!IsPrefix(d, h)
      BY <1>3, <3>1, RootIsPrefix, ChildPrefix
    <3>3. Tree!IsPrefix(h, f) /\ h # f
      <4>1. Tree!IsPrefix(h, d) /\ Tree!IsPrefix(d, f)
        BY <2>2, <3>2 DEF Tree!IsStrictPrefix
      <4> QED
        BY <1>3, <2>3, <3>2, <4>1, PrefixOrders
    <3>4. f \in Pending
      BY <1>3, <2>1, <3>3 DEF Pending, D, Tree!IsStrictPrefix
    <3>5. ASSUME f \in F PROVE FALSE
      <4>1. Child(h, f) /\ Tree!IsPrefix(d, f) /\ d # f
        BY <1>4, <1>5, <2>2, <3>5 DEF Tree!IsStrictPrefix
      <4> QED
        BY <1>3, <3>1, <4>1, ChildrenApart
    <3> QED
      BY <3>4, <3>5
  <2> QED
    BY <1>3, <2>4, <2>5
<1>10. ASSUME NEW f \in Pending, f \notin F PROVE f \in Pending'
  <2>1. f \in D /\ f \in Dirs
    BY <1>1 DEF Pending, D, Paths
  <2>2. PICK d \in ToVisit : Tree!IsStrictPrefix(d, f)
    BY DEF Pending
  <2>3. CASE d # h
    BY <1>2, <1>3, <2>1, <2>2, <2>3 DEF Pending, D
  <2>4. CASE d = h
    <3> DEFINE c == Append(h, f[Len(h) + 1])
    <3>1. Child(h, c) /\ Tree!IsPrefix(c, f)
      BY <1>3, <2>1, <2>2, <2>4, ChildAbove
    <3> HIDE DEF c
    <3>2. c \in Tree!Entries(files, h)
      BY <1>4, <2>1, <3>1
    <3>3. c \in D => c = f
      BY <1>1, <2>1, <3>1 DEF Tree!IsStrictPrefix
    <3>4. c \in C /\ Tree!IsStrictPrefix(c, f)
      BY <1>5, <1>10, <3>1, <3>2, <3>3, <2>1 DEF Tree!IsStrictPrefix
    <3> QED
      BY <1>2, <1>3, <2>1, <3>4 DEF Pending, D
  <2> QED
    BY <2>3, <2>4
<1>11. F \subseteq Pending /\ Pending' = Pending \ F
  BY <1>8, <1>9, <1>10
<1> QED
  BY <1>3, <1>7, <1>11 DEF F

\* The tree and the overlay that the patch leaves.
PatchedSource == Tree!Patched(source)
PatchedOverlay == Tree!OverlayOf(PatchedSource)

\* A patch changes one file, if any.
LEMMA PatchedIs ==
  ASSUME NEW t, t = [p \in DOMAIN t |-> t[p]]
  PROVE  /\ DOMAIN Tree!Patched(t) = DOMAIN t
         /\ Tree!Patched(t) = [p \in DOMAIN t |-> Tree!Patched(t)[p]]
         /\ \A p \in DOMAIN t :
              Tree!Patched(t)[p] = IF patch # Tree!Root /\ p = patch THEN "patched" ELSE t[p]
<1>1. CASE patch = Tree!Root
  BY <1>1 DEF Tree!Patched
<1>2. CASE patch # Tree!Root
  BY <1>2 DEF Tree!Patched
<1> QED
  BY <1>1, <1>2

LEMMA PatchedSourceIs ==
  ASSUME source \in Sources
  PROVE  /\ DOMAIN PatchedSource = DOMAIN source /\ DOMAIN source \subseteq Paths
         /\ PatchedSource = [p \in DOMAIN source |-> PatchedSource[p]]
         /\ DOMAIN PatchedOverlay = DOMAIN Overlay
         /\ \A p \in DOMAIN Overlay :
              PatchedOverlay[p] = PatchedSource[Tree!LLVM_PROJECT_OVERLAY \o p]
<1>1. source = [p \in DOMAIN source |-> source[p]] /\ DOMAIN source \subseteq Paths
  BY SourceFacts
<1>2. DOMAIN PatchedSource = DOMAIN source
      /\ PatchedSource = [p \in DOMAIN source |-> PatchedSource[p]]
  BY <1>1, PatchedIs DEF PatchedSource
<1>3. /\ DOMAIN PatchedOverlay \subseteq Paths
      /\ \A p \in Paths : p \in DOMAIN PatchedOverlay
                            <=> Tree!LLVM_PROJECT_OVERLAY \o p \in DOMAIN source
      /\ \A p \in DOMAIN PatchedOverlay :
           PatchedOverlay[p] = PatchedSource[Tree!LLVM_PROJECT_OVERLAY \o p]
  BY <1>1, <1>2, OverlayIs DEF PatchedOverlay
<1>4. /\ DOMAIN Overlay \subseteq Paths
      /\ \A p \in Paths : p \in DOMAIN Overlay
                            <=> Tree!LLVM_PROJECT_OVERLAY \o p \in DOMAIN source
  BY <1>1, OverlayIs DEF Overlay
<1> QED
  BY <1>1, <1>2, <1>3, <1>4

\* Nothing below utils is git's or the archive's.
LEMMA UtilsApart ==
  ASSUME NEW p \in Dirs, Tree!IsPrefix(Utils, p)
  PROVE  ~Tree!IsPrefix(Tree!GitDir, p) /\ ~Tree!IsPrefix(Tree!Archive, p)
<1>1. /\ Utils \in Dirs /\ Tree!GitDir \in Dirs /\ Tree!Archive \in Dirs
      /\ Tree!GitDir # Utils /\ Tree!Archive # Utils /\ Len(Utils) = 1
  BY NamedPaths DEF Paths
<1>2. Len(Tree!GitDir) = 1 /\ Len(Tree!Archive) = 1
  BY DEF Tree!GitDir, Tree!Archive
<1>3. ASSUME NEW a \in Dirs, Len(a) = 1, a # Utils, Tree!IsPrefix(a, p) PROVE FALSE
  <2>1. Tree!IsPrefix(a, Utils) \/ Tree!IsPrefix(Utils, a)
    BY <1>1, <1>3, PrefixOrders
  <2>2. ~Tree!IsStrictPrefix(a, Utils) /\ ~Tree!IsStrictPrefix(Utils, a)
    BY <1>1, <1>3, StrictIs
  <2> QED
    BY <1>3, <2>1, <2>2 DEF Tree!IsStrictPrefix
<1> QED
  BY <1>1, <1>2, <1>3

------------------------------------------------------------------------------
(* The rules that make a repository of files, or of links to a clone's root.  *)

\* What these rules make: whatever they have written through a link is in the
\* sources where the repository shows it, and a clone that is linked has no git
\* directory in the end.
NoGit == \A p \in DOMAIN Tree!View : ~Tree!IsPrefix(Tree!GitDir, p)
MadeOK ==
  /\ MirrorOK
  /\ DOMAIN source \subseteq DOMAIN src /\ DOMAIN src \subseteq Laid(source)
  /\ \A q \in Tree!Links : ~Tree!IsPrefix(Tree!GitDir, q)
  /\ way # "linked" => Tree!Links = {}
  /\ way = "linked" => NoGit

\* It stays so whatever is written over it.
LEMMA MadeWrites ==
  ASSUME source \in Sources, MadeOK, NEW files, DOMAIN files \subseteq Paths,
         way = "linked" => DOMAIN files \subseteq Laid(source),
         Tree!Write(files), UNCHANGED <<way, source>>
  PROVE  MadeOK' /\ Tree!View' = Tree!Over(files, Tree!View)
<1>1. MirrorOK /\ DOMAIN source \subseteq DOMAIN src /\ DOMAIN src \subseteq Laid(source)
      /\ (way # "linked" => Tree!Links = {})
  BY DEF MadeOK
<1>2. Fits(files)
  <2>1. ASSUME NEW p \in DOMAIN files, p \in Tree!Links, NEW g \in DOMAIN src \cup DOMAIN files
        PROVE  ~Tree!IsStrictPrefix(p, g)
    <3>1. p \in Laid(source) /\ g \in Laid(source)
      BY <1>1, <2>1
    <3> QED
      BY <3>1, SourceFacts
  <2> QED
    BY <2>1 DEF Fits
<1>3. /\ MirrorOK' /\ Tree!View' = Tree!Over(files, Tree!View)
      /\ Tree!Links' = Tree!Links \ DOMAIN files
      /\ DOMAIN src \subseteq DOMAIN src' /\ DOMAIN src' \subseteq DOMAIN src \cup DOMAIN files
      /\ Tree!Links = {} => src' = src
  BY <1>1, <1>2, MirrorWrites
<1>4. Laid(source)' = Laid(source)
  BY DEF Laid, Tree!Written, Tree!OverlayOf, Tree!Under
<1>5. DOMAIN source' \subseteq DOMAIN src' /\ DOMAIN src' \subseteq Laid(source)'
  <2>1. CASE way = "linked"
    BY <1>1, <1>3, <1>4, <2>1
  <2>2. CASE way # "linked"
    BY <1>1, <1>3, <1>4, <2>2
  <2> QED
    BY <2>1, <2>2
<1>6. ASSUME way = "linked" PROVE NoGit'
  <2>1. \A p \in DOMAIN files : ~Tree!IsPrefix(Tree!GitDir, p)
    BY <1>6, SourceFacts
  <2>2. \A p \in DOMAIN Tree!View' : p \in DOMAIN files \/ p \in DOMAIN Tree!View
    BY <1>3 DEF Tree!Over
  <2>3. NoGit
    BY <1>6 DEF MadeOK
  <2> QED
    BY <2>1, <2>2, <2>3 DEF NoGit
<1>7. /\ \A q \in Tree!Links' : ~Tree!IsPrefix(Tree!GitDir, q)
      /\ way' # "linked" => Tree!Links' = {}
  BY <1>3 DEF MadeOK
<1> QED
  BY <1>3, <1>5, <1>6, <1>7 DEF MadeOK

\* What is seen but for git's own directory.
Shows(t) ==
  /\ \A p : p \in DOMAIN Tree!View /\ ~Tree!IsPrefix(Tree!GitDir, p) <=> p \in DOMAIN t
  /\ \A p \in DOMAIN t : Tree!View[p] = t[p]

\* What is copied of the overlay, over the sources.
CopiedPaths == DOMAIN Overlay \ Pending
Copied ==
  [p \in CopiedPaths \cup DOMAIN source |->
     IF p \in CopiedPaths THEN PatchedOverlay[p] ELSE PatchedSource[p]]

LEMMA ViewPaths == ASSUME MirrorOK PROVE DOMAIN Tree!View \subseteq Paths
BY MirrorView DEF ViewIsMirror, MirrorOK, Mirrored

\* The overlay in what is seen is that in the sources.
LEMMA OverlaySeen ==
  ASSUME source \in Sources, MirrorOK, Shows(Copied)
  PROVE  /\ DOMAIN Tree!OverlayOf(Tree!View) = DOMAIN Overlay
         /\ \A p \in DOMAIN Overlay : Tree!OverlayOf(Tree!View)[p] = PatchedOverlay[p]
         /\ Tree!Pfm \in DOMAIN Tree!View <=> Tree!Pfm \in DOMAIN source
<1> DEFINE a == Tree!LLVM_PROJECT_OVERLAY
           O == Tree!OverlayOf(Tree!View)
<1>1. /\ DOMAIN O \subseteq Paths
      /\ \A p \in Paths : p \in DOMAIN O <=> a \o p \in DOMAIN Tree!View
      /\ \A p \in DOMAIN O : O[p] = Tree!View[a \o p]
  BY ViewPaths, OverlayIs
<1>2. DOMAIN source \subseteq Paths /\ \A p \in DOMAIN Overlay : ~Tree!IsPrefix(Utils, p)
  BY SourceFacts DEF Overlay
<1>3. /\ DOMAIN Overlay \subseteq Paths
      /\ \A p \in Paths : p \in DOMAIN Overlay <=> a \o p \in DOMAIN source
  BY <1>2, OverlayIs DEF Overlay
<1>4. a \in Dirs /\ Tree!IsPrefix(Utils, a) /\ Utils \in Dirs /\ Tree!Pfm \in Dirs
      /\ Tree!ThirdParty \in Dirs
      /\ Tree!IsPrefix(Utils, Tree!ThirdParty) /\ Tree!IsStrictPrefix(Tree!ThirdParty, Tree!Pfm)
  BY NamedPaths DEF Paths
<1>5. Tree!IsPrefix(Utils, Tree!Pfm)
  BY <1>4, PrefixOrders DEF Tree!IsStrictPrefix
<1> HIDE DEF O, a
<1>6. ASSUME NEW q \in Dirs, Tree!IsPrefix(Utils, q)
      PROVE  /\ q \in DOMAIN Tree!View <=> q \in DOMAIN source
             /\ q \in DOMAIN source => Tree!View[q] = PatchedSource[q]
  <2>1. ~Tree!IsPrefix(Tree!GitDir, q)
    BY <1>6, UtilsApart
  <2>2. q \notin DOMAIN Overlay
    BY <1>2, <1>6
  <2>3. q \notin CopiedPaths
    BY <2>2 DEF CopiedPaths
  <2>4. q \in DOMAIN Copied <=> q \in DOMAIN source
    BY <2>3 DEF Copied
  <2>5. q \in DOMAIN source => Copied[q] = PatchedSource[q]
    BY <2>3 DEF Copied
  <2> QED
    BY <2>1, <2>4, <2>5 DEF Shows
<1>7. ASSUME NEW p \in Paths PROVE a \o p \in Dirs /\ Tree!IsPrefix(Utils, a \o p)
  <2>1. p \in Dirs
    BY DEF Paths
  <2>2. a \o p \in Dirs /\ Tree!IsPrefix(a, a \o p)
    BY <1>4, <2>1, ConcatPrefix
  <2> QED
    BY <1>4, <2>2, PrefixOrders
<1>8. DOMAIN O = DOMAIN Overlay
  BY <1>1, <1>3, <1>6, <1>7
<1>9. ASSUME NEW p \in DOMAIN Overlay PROVE O[p] = PatchedOverlay[p]
  <2>1. PatchedOverlay[p] = PatchedSource[a \o p]
    BY PatchedSourceIs DEF a
  <2>2. p \in Paths /\ a \o p \in DOMAIN source
    BY <1>3
  <2>3. O[p] = Tree!View[a \o p]
    BY <1>1, <1>8
  <2> QED
    BY <1>6, <1>7, <2>1, <2>2, <2>3
<1>10. Tree!Pfm \in DOMAIN Tree!View <=> Tree!Pfm \in DOMAIN source
  BY <1>4, <1>5, <1>6
<1> QED
  BY <1>8, <1>9, <1>10 DEF O

\* Which rule, of what, and the directories still to visit.
BaseInv ==
  /\ way \in Tree!Ways /\ source \in Sources /\ patch \in Patches
  /\ way = "path" => patch = Tree!Root
  /\ StackOK /\ DirsOK

\* What a clone shows after each step: the sources, those with the overlay's files
\* of the directories visited over them, and in the end what the user is promised.
SourceShown == Shows(source)
CopiedShown == Shows(Copied)
MergedShown == Tree!View = Tree!Over(Tree!Written(source), Tree!Merged)

CloneInv ==
  way \in {"git", "linked"} =>
    /\ MadeOK
    /\ treePc \in {"fetch", "patch", "overlay", "delete git", "write", "done", "failed"}
    /\ treePc = "fetch" => src = source
    /\ treePc = "patch" => SourceShown
    /\ treePc \in {"fetch", "patch"} => ToVisit = {Tree!Root}
    /\ treePc \in {"overlay", "delete git", "write"} => CopiedShown
    /\ treePc = "overlay" => stack # <<>>
    /\ treePc \in {"delete git", "write"} => stack = <<>>
    /\ treePc = "write" => NoGit
    /\ treePc = "done" => MergedShown

\* A repository of files alone.
FilesOnly ==
  /\ DOMAIN out \subseteq Paths /\ \A p \in DOMAIN out : ~out[p].link
  /\ source \in Sources /\ src = source /\ way # "linked"
FilesSeen ==
  /\ MadeOK /\ DOMAIN Tree!View = DOMAIN out
  /\ \A p \in DOMAIN out : Tree!View[p] = out[p].content

LEMMA FilesMake == FilesOnly => FilesSeen
<1> SUFFICES ASSUME FilesOnly PROVE FilesSeen
  OBVIOUS
<1>0. /\ DOMAIN out \subseteq Paths /\ \A p \in DOMAIN out : ~out[p].link
      /\ source \in Sources /\ src = source /\ way # "linked"
  BY DEF FilesOnly
<1>1. Tree!Links = {}
  BY <1>0 DEF Tree!Links
<1>2. src = [p \in DOMAIN src |-> src[p]] /\ DOMAIN src \subseteq Paths
  BY <1>0, SourceFacts
<1>3. MirrorOK
  BY <1>0, <1>1, <1>2 DEF MirrorOK
<1>4. DOMAIN src \subseteq Laid(source)
  BY <1>0 DEF Laid
<1>5. MadeOK
  BY <1>0, <1>1, <1>3, <1>4 DEF MadeOK
<1>6. ViewIsMirror
  BY <1>3, MirrorView
<1>7. Mirrored = {} /\ \A p \in DOMAIN out : Plain(p)
  BY <1>0, <1>1 DEF Mirrored, Plain
<1>8. DOMAIN Tree!View = DOMAIN out
  BY <1>6, <1>7 DEF ViewIsMirror, Plain
<1> QED
  BY <1>5, <1>6, <1>7, <1>8 DEF ViewIsMirror, FilesSeen

LEMMA FilesMakeNext == FilesOnly' => FilesSeen'
BY FilesMake, PTL

\* Links to all entries of the sources' root.
LinksOnly ==
  /\ source \in Sources /\ src = source /\ way = "linked"
  /\ out = [p \in Tree!Entries(src, Tree!Root) |-> Tree!Link(p)]
LinksSeen == MadeOK /\ Shows(source)

LEMMA LinksMake == LinksOnly => LinksSeen
<1> SUFFICES ASSUME LinksOnly PROVE LinksSeen
  OBVIOUS
<1>0. /\ source \in Sources /\ src = source /\ way = "linked"
      /\ out = [p \in Tree!Entries(src, Tree!Root) |-> Tree!Link(p)]
  BY DEF LinksOnly
<1> DEFINE E == Tree!Entries(src, Tree!Root)
<1>1. /\ src = [p \in DOMAIN src |-> src[p]] /\ DOMAIN src \subseteq Paths
      /\ Tree!Root \in Dirs /\ Len(Tree!Root) = 0 /\ DOMAIN src \subseteq Laid(source)
      /\ \A p \in DOMAIN src : ~Tree!IsPrefix(Tree!GitDir, p)
  BY <1>0, SourceFacts DEF Laid, Tree!Root, Dirs
<1>2. \A e : e \in E <=> Child(Tree!Root, e) /\ \E p \in DOMAIN src : Tree!IsPrefix(e, p)
  BY <1>1, EntriesAre
<1> HIDE DEF E
<1>3. \A e \in E : e \in Paths /\ e \in Dirs /\ Len(e) = 1
  <2>1. ASSUME NEW e \in E PROVE e \in Paths /\ e \in Dirs /\ Len(e) = 1
    <3>1. Child(Tree!Root, e)
      BY <1>2
    <3>2. e \in Paths
      BY <1>1, <3>1, ChildPrefix
    <3> QED
      BY <1>1, <3>1, <3>2 DEF Child
  <2> QED
    BY <2>1
<1>4. DOMAIN out = E /\ \A q \in E : out[q] = Tree!Link(q) /\ out[q].link
  <2>1. \A q : Tree!Link(q).link
    BY DEF Tree!Link
  <2> QED
    BY <1>0, <2>1 DEF E
<1>5. Tree!Links = E
  BY <1>4 DEF Tree!Links
<1>6. \A q, p \in E : ~Tree!IsStrictPrefix(q, p)
  BY <1>1, <1>2, ChildrenApart DEF Tree!IsStrictPrefix
<1>7. MirrorOK
  BY <1>1, <1>3, <1>4, <1>5, <1>6 DEF MirrorOK
<1>8. ASSUME NEW q \in E PROVE ~Tree!IsPrefix(Tree!GitDir, q)
  <2>1. PICK p \in DOMAIN src : Tree!IsPrefix(q, p)
    BY <1>2
  <2>2. q \in Dirs /\ p \in Dirs /\ Tree!GitDir \in Dirs
    BY <1>1, <1>3, NamedPaths DEF Paths
  <2> QED
    BY <1>1, <2>1, <2>2, PrefixOrders
<1>9. Mirrored = DOMAIN src
  <2>1. ASSUME NEW p \in DOMAIN src PROVE p \in Mirrored
    <3>1. p \in Dirs /\ Tree!IsStrictPrefix(Tree!Root, p)
      BY <1>1, RootIsPrefix DEF Paths
    <3>2. PICK e : Child(Tree!Root, e) /\ Tree!IsPrefix(e, p)
      BY <1>1, <3>1, ChildAbove
    <3> QED
      BY <1>2, <1>5, <3>2 DEF Mirrored
  <2> QED
    BY <2>1 DEF Mirrored
<1>10. ViewIsMirror /\ \A p : ~Plain(p)
  BY <1>4, <1>7, MirrorView DEF Plain
<1>11. DOMAIN Tree!View = DOMAIN source /\ \A p \in DOMAIN source : Tree!View[p] = source[p]
  BY <1>0, <1>9, <1>10 DEF ViewIsMirror
<1>12. NoGit
  BY <1>0, <1>1, <1>11 DEF NoGit
<1>13. MadeOK
  BY <1>0, <1>1, <1>5, <1>7, <1>8, <1>12 DEF MadeOK
<1>14. Shows(source)
  BY <1>0, <1>1, <1>11 DEF Shows
<1> QED
  BY <1>13, <1>14 DEF LinksSeen

LEMMA LinksMakeNext == LinksOnly' => LinksSeen'
BY LinksMake, PTL

LEMMA FetchKeepsClone ==
  ASSUME BaseInv, CloneInv, Tree!Fetch
  PROVE  CloneInv'
<1>1. /\ way \in {"git", "linked"} /\ treePc = "fetch" /\ treePc' = "patch"
      /\ UNCHANGED <<way, source, patch, src, stack>>
      /\ out' = IF way = "git"
                THEN Tree!Over([p \in {Tree!GitDir} |-> Tree!File("git")], Tree!Files(src))
                ELSE [p \in Tree!Entries(src, Tree!Root) |-> Tree!Link(p)]
  BY DEF Tree!Fetch, Tree!Step, Tree!input
<1>2. src = source /\ source \in Sources /\ ToVisit = {Tree!Root}
  BY <1>1 DEF CloneInv, SourceShown, CopiedShown, MergedShown, BaseInv
<1>3. ToVisit' = {Tree!Root}
  BY <1>1, <1>2 DEF ToVisit
<1>4. MadeOK' /\ Shows(source)'
  <2>1. CASE way = "git"
    <3>1. DOMAIN source \subseteq Paths /\ Tree!GitDir \in Paths
          /\ \A p \in DOMAIN source : ~Tree!IsPrefix(Tree!GitDir, p)
      BY <1>2, SourceFacts, NamedPaths DEF Laid
    <3>2. Tree!IsPrefix(Tree!GitDir, Tree!GitDir)
      BY <3>1, PrefixOrders DEF Paths
    <3>3. DOMAIN out' = {Tree!GitDir} \cup DOMAIN source
          /\ \A p \in DOMAIN out' :
               out'[p] = IF p = Tree!GitDir THEN Tree!File("git") ELSE Tree!File(source[p])
      BY <1>1, <1>2, <2>1 DEF Tree!Over, Tree!Files
    <3>4. \A c : ~Tree!File(c).link /\ Tree!File(c).content = c
      BY DEF Tree!File
    <3>5. \A p \in DOMAIN out' : ~out'[p].link
      BY <3>3, <3>4
    <3>6. /\ MadeOK' /\ DOMAIN Tree!View' = DOMAIN out'
          /\ \A p \in DOMAIN out' : Tree!View'[p] = out'[p].content
      <4>1. DOMAIN out' \subseteq Paths
        BY <3>1, <3>3
      <4>2. source' \in Sources /\ src' = source' /\ way' # "linked"
        BY <1>1, <1>2, <2>1
      <4> QED
        BY <3>5, <4>1, <4>2, FilesMakeNext DEF FilesOnly, FilesSeen
    <3>7. \A p : p \in DOMAIN Tree!View' /\ ~Tree!IsPrefix(Tree!GitDir, p) <=> p \in DOMAIN source
      BY <3>1, <3>2, <3>3, <3>6
    <3>8. \A p \in DOMAIN source : Tree!View'[p] = source[p]
      BY <3>1, <3>2, <3>3, <3>4, <3>6
    <3> QED
      BY <1>1, <3>6, <3>7, <3>8 DEF Shows
  <2>2. CASE way = "linked"
    <3>1. source' \in Sources /\ src' = source' /\ way' = "linked" /\ src' = src
          /\ out' = [p \in Tree!Entries(src, Tree!Root) |-> Tree!Link(p)]
      BY <1>1, <1>2, <2>2
    <3>2. Tree!Entries(src, Tree!Root)' = Tree!Entries(src, Tree!Root)
      BY <3>1 DEF Tree!Entries, Tree!Under
    <3>3. LinksOnly'
      BY <3>1, <3>2 DEF LinksOnly
    <3> QED
      BY <3>3, LinksMakeNext DEF LinksSeen
  <2> QED
    BY <1>1, <2>1, <2>2
<1> QED
  BY <1>1, <1>3, <1>4 DEF CloneInv, SourceShown, CopiedShown, MergedShown

\* The patch, of whatever is seen.
LEMMA PatchMakes ==
  ASSUME BaseInv, MadeOK, Tree!Patch, way = "linked" => DOMAIN Tree!View \subseteq Laid(source)
  PROVE  /\ MadeOK' /\ UNCHANGED <<way, source, patch, stack>>
         /\ treePc = "patch" /\ treePc' = Tree!AfterPatch
         /\ \A p : p \in DOMAIN Tree!View' <=> p \in DOMAIN Tree!View
         /\ \A p \in DOMAIN Tree!View :
              Tree!View'[p] = IF patch # Tree!Root /\ p = patch THEN "patched" ELSE Tree!View[p]
         /\ Tree!View' = [p \in DOMAIN Tree!View |-> Tree!View'[p]]
<1>1. /\ UNCHANGED <<way, source, patch, stack>> /\ source \in Sources /\ MirrorOK
      /\ treePc = "patch" /\ treePc' = Tree!AfterPatch
  BY DEF Tree!Patch, Tree!Step, Tree!input, BaseInv, MadeOK
<1>2. CASE patch = Tree!Root
  <2>1. UNCHANGED <<src, out>>
    BY <1>2 DEF Tree!Patch
  <2>2. /\ Tree!View' = Tree!View /\ Tree!Links' = Tree!Links /\ MirrorOK'
        /\ Laid(source)' = Laid(source)
    BY <1>1, <2>1
    DEF Tree!View, Tree!Links, Tree!Target, MirrorOK, Laid, Tree!Written, Tree!OverlayOf, Tree!Under
  <2>3. MadeOK'
    BY <1>1, <2>1, <2>2 DEF MadeOK, NoGit
  <2>4. Tree!View = [p \in DOMAIN Tree!View |-> Tree!View[p]]
    BY <1>1, MirrorView DEF ViewIsMirror
  <2> QED
    BY <1>1, <1>2, <2>2, <2>3, <2>4
<1>3. CASE patch # Tree!Root
  <2> DEFINE t == [p \in {patch} |-> "patched"]
  <2>1. patch \in DOMAIN Tree!View /\ Tree!Write(t)
    BY <1>3 DEF Tree!Patch
  <2>2. DOMAIN t = {patch} /\ t[patch] = "patched"
    OBVIOUS
  <2> HIDE DEF t
  <2>3. DOMAIN t \subseteq Paths
    BY <1>1, <2>1, <2>2, ViewPaths
  <2>4. ASSUME way = "linked" PROVE DOMAIN t \subseteq Laid(source)
    BY <2>1, <2>2, <2>4
  <2>5. MadeOK' /\ Tree!View' = Tree!Over(t, Tree!View)
    BY <1>1, <2>1, <2>3, <2>4, MadeWrites
  <2> QED
    BY <1>1, <1>3, <2>1, <2>2, <2>5 DEF Tree!Over
<1> QED
  BY <1>2, <1>3

LEMMA PatchedSame ==
  ASSUME UNCHANGED <<source, patch>>
  PROVE  PatchedSource' = PatchedSource /\ PatchedOverlay' = PatchedOverlay
<1>1. PatchedSource' = PatchedSource
  BY DEF PatchedSource, Tree!Patched
<1>2. PatchedOverlay' = PatchedOverlay
  BY <1>1 DEF PatchedOverlay, Tree!OverlayOf, Tree!Under
<1> QED
  BY <1>1, <1>2

LEMMA PatchKeepsClone ==
  ASSUME BaseInv, CloneInv, Tree!Patch, way \in {"git", "linked"}
  PROVE  CloneInv'
<1>1. MadeOK /\ source \in Sources /\ treePc = "patch"
  BY DEF CloneInv, SourceShown, CopiedShown, MergedShown, BaseInv, Tree!Patch, Tree!Step
<1>2. Shows(source) /\ ToVisit = {Tree!Root}
  BY <1>1 DEF CloneInv, SourceShown, CopiedShown, MergedShown
<1>3. ASSUME way = "linked" PROVE DOMAIN Tree!View \subseteq Laid(source)
  BY <1>1, <1>2, <1>3 DEF MadeOK, NoGit, Shows, Laid
<1>4. /\ MadeOK' /\ UNCHANGED <<way, source, patch, stack>>
      /\ treePc' = "overlay"
      /\ \A p : p \in DOMAIN Tree!View' <=> p \in DOMAIN Tree!View
      /\ \A p \in DOMAIN Tree!View :
           Tree!View'[p] = IF patch # Tree!Root /\ p = patch THEN "patched" ELSE Tree!View[p]
  BY <1>1, <1>3, PatchMakes DEF Tree!AfterPatch
<1>5. Pending' = DOMAIN Overlay' /\ stack' # <<>>
  <2>1. ToVisit' = {Tree!Root} /\ stack # <<>>
    BY <1>2, <1>4 DEF ToVisit
  <2>2. DOMAIN Overlay \subseteq Paths /\ Overlay' = Overlay
    BY <1>1, <1>4, OverlayFacts DEF Overlay
  <2>3. \A p \in DOMAIN Overlay : Tree!IsStrictPrefix(Tree!Root, p)
    BY <2>2, RootIsPrefix DEF Paths
  <2> QED
    BY <1>4, <2>1, <2>2, <2>3 DEF Pending
<1>6. CopiedPaths' = {}
  BY <1>5 DEF CopiedPaths
<1>7. PatchedSource' = PatchedSource
  BY <1>4, PatchedSame
<1>8. DOMAIN Copied' = DOMAIN source /\ \A p \in DOMAIN source : Copied'[p] = PatchedSource[p]
  BY <1>4, <1>6, <1>7 DEF Copied
<1>9. \A p \in DOMAIN source :
        PatchedSource[p] = IF patch # Tree!Root /\ p = patch THEN "patched" ELSE source[p]
  BY <1>1, SourceFacts, PatchedIs DEF PatchedSource
<1>10. Shows(Copied)'
  BY <1>2, <1>4, <1>8, <1>9 DEF Shows
<1> QED
  BY <1>4, <1>5, <1>10 DEF CloneInv, SourceShown, CopiedShown, MergedShown

LEMMA CopyKeepsClone ==
  ASSUME BaseInv, CloneInv, Tree!copy_overlay
  PROVE  CloneInv' /\ StackOK' /\ DirsOK'
<1> DEFINE t == Tree!OverlayOf(Tree!View)
           w == [p \in Tree!HereFiles(t) |-> t[p]]
<1>1. /\ way \in {"git", "linked"} /\ treePc = "overlay"
      /\ Tree!Visit(t) /\ Tree!Write(w)
      /\ treePc' = IF stack' = <<>> THEN "delete git" ELSE treePc
      /\ UNCHANGED <<way, source, patch>>
  BY DEF Tree!copy_overlay, Tree!input, Tree!GoOn
<1>2. /\ MadeOK /\ MirrorOK /\ source \in Sources /\ Shows(Copied) /\ stack # <<>>
      /\ StackOK /\ DirsOK
  BY <1>1 DEF CloneInv, SourceShown, CopiedShown, MergedShown, BaseInv, MadeOK
<1>3. DOMAIN t = DOMAIN Overlay /\ \A p \in DOMAIN Overlay : t[p] = PatchedOverlay[p]
  BY <1>2, OverlaySeen
<1> HIDE DEF t
<1> DEFINE F == Tree!HereFiles(t)
<1>4. /\ StackOK' /\ DirsOK' /\ F \subseteq Pending /\ Pending' = Pending \ F
  BY <1>1, <1>2, <1>3, WalkSteps
<1>5. DOMAIN w = F /\ \A p \in F : w[p] = t[p]
  OBVIOUS
<1> HIDE DEF w, F
<1>6. F \subseteq DOMAIN Overlay /\ DOMAIN Overlay \subseteq Paths /\ F \subseteq Laid(source)
  BY <1>2, <1>4, OverlayFacts DEF Pending, Laid, Overlay
<1>7. MadeOK' /\ Tree!View' = Tree!Over(w, Tree!View)
  BY <1>1, <1>2, <1>5, <1>6, MadeWrites
<1>8. \A p \in F : ~Tree!IsPrefix(Tree!GitDir, p)
  BY <1>2, <1>6, SourceFacts
<1>9. CopiedPaths' = CopiedPaths \cup F
  BY <1>1, <1>4, <1>6 DEF CopiedPaths, Overlay, Pending
<1>10. PatchedSource' = PatchedSource /\ PatchedOverlay' = PatchedOverlay
  BY <1>1, PatchedSame
<1>11. \A p : p \in DOMAIN Copied' <=> p \in F \/ p \in DOMAIN Copied
  BY <1>1, <1>9 DEF Copied
<1>12. \A p \in DOMAIN Copied' : Copied'[p] = IF p \in F THEN w[p] ELSE Copied[p]
  BY <1>1, <1>3, <1>5, <1>6, <1>9, <1>10 DEF Copied
<1>13. \A p : p \in DOMAIN Tree!View' <=> p \in F \/ p \in DOMAIN Tree!View
  BY <1>5, <1>7 DEF Tree!Over
<1>14. \A p \in DOMAIN Tree!View' : Tree!View'[p] = IF p \in F THEN w[p] ELSE Tree!View[p]
  BY <1>5, <1>7 DEF Tree!Over
<1>15. Shows(Copied)'
  <2>1. \A p : p \in DOMAIN Tree!View' /\ ~Tree!IsPrefix(Tree!GitDir, p) <=> p \in DOMAIN Copied'
    BY <1>2, <1>8, <1>11, <1>13 DEF Shows
  <2>2. \A p \in DOMAIN Copied' : Tree!View'[p] = Copied'[p]
    BY <1>2, <1>11, <1>12, <1>13, <1>14 DEF Shows
  <2> QED
    BY <2>1, <2>2 DEF Shows
<1>16. treePc' \in {"overlay", "delete git"}
       /\ (treePc' = "overlay" => stack' # <<>>) /\ (treePc' = "delete git" => stack' = <<>>)
  BY <1>1
<1> QED
  BY <1>4, <1>7, <1>15, <1>16 DEF CloneInv, SourceShown, CopiedShown, MergedShown

LEMMA DeleteKeepsClone ==
  ASSUME BaseInv, CloneInv, Tree!DeleteGit, way \in {"git", "linked"}
  PROVE  CloneInv'
<1>1. /\ treePc = "delete git" /\ treePc' = "write"
      /\ UNCHANGED <<way, source, patch, src, stack>>
      /\ out' = Tree!Without(out, {Tree!GitDir})
  BY DEF Tree!DeleteGit, Tree!Step, Tree!input
<1>2. /\ MadeOK /\ MirrorOK /\ source \in Sources /\ Shows(Copied) /\ stack = <<>>
  BY <1>1 DEF CloneInv, SourceShown, CopiedShown, MergedShown, BaseInv, MadeOK
<1>3. /\ DOMAIN out' = {p \in DOMAIN out : ~Tree!IsPrefix(Tree!GitDir, p)}
      /\ \A p \in DOMAIN out' : out'[p] = out[p]
  BY <1>1 DEF Tree!Without
<1>4. \A q \in Tree!Links : ~Tree!IsPrefix(Tree!GitDir, q)
  BY <1>2 DEF MadeOK
<1>5. Tree!Links' = Tree!Links
  BY <1>3, <1>4 DEF Tree!Links
<1>6. MirrorOK'
  BY <1>1, <1>2, <1>3, <1>5 DEF MirrorOK
<1>7. ViewIsMirror /\ ViewIsMirror'
  BY <1>2, <1>6, MirrorView, MirrorViewNext
<1>8. Mirrored' = Mirrored
  BY <1>1, <1>5 DEF Mirrored
<1>9. \A p : Plain(p)' <=> Plain(p) /\ ~Tree!IsPrefix(Tree!GitDir, p)
  BY <1>3 DEF Plain
<1>10. \A p \in Mirrored : ~Tree!IsPrefix(Tree!GitDir, p)
  <2>1. CASE way = "linked"
    BY <1>2, <1>7, <2>1 DEF MadeOK, NoGit, ViewIsMirror
  <2>2. CASE way # "linked"
    BY <1>2, <2>2 DEF MadeOK, Mirrored
  <2> QED
    BY <2>1, <2>2
<1>11. \A p : /\ p \in DOMAIN Tree!View <=> Plain(p) \/ p \in Mirrored
              /\ p \in DOMAIN Tree!View' <=> Plain(p)' \/ p \in Mirrored
  BY <1>7, <1>8 DEF ViewIsMirror, Plain
<1>12. \A p : p \in DOMAIN Tree!View' <=> p \in DOMAIN Tree!View /\ ~Tree!IsPrefix(Tree!GitDir, p)
  BY <1>9, <1>10, <1>11
<1>13. \A p \in DOMAIN Tree!View' : Tree!View'[p] = Tree!View[p]
  <2>1. ASSUME NEW p \in DOMAIN Tree!View' PROVE Tree!View'[p] = Tree!View[p]
    <3>1. p \in DOMAIN Tree!View /\ (Plain(p)' <=> Plain(p))
      BY <1>9, <1>12
    <3>2. Tree!View[p] = IF Plain(p) THEN out[p].content ELSE src[p]
      BY <1>7, <3>1 DEF ViewIsMirror
    <3>3. Tree!View'[p] = IF Plain(p)' THEN out'[p].content ELSE src'[p]
      BY <1>7 DEF ViewIsMirror, Plain
    <3> QED
      BY <1>1, <1>3, <3>1, <3>2, <3>3 DEF Plain
  <2> QED
    BY <2>1
<1>14. NoGit'
  BY <1>12 DEF NoGit
<1>15. MadeOK'
  <2>1. Laid(source)' = Laid(source)
    BY <1>1 DEF Laid, Tree!Written, Tree!OverlayOf, Tree!Under
  <2> QED
    BY <1>1, <1>2, <1>4, <1>5, <1>6, <1>14, <2>1 DEF MadeOK
<1>16. Copied' = Copied
  <2>1. Overlay' = Overlay /\ Pending' = Pending
    BY <1>1 DEF Overlay, Pending, ToVisit
  <2> QED
    BY <1>1, <2>1, PatchedSame DEF Copied, CopiedPaths
<1>17. Shows(Copied)'
  BY <1>2, <1>12, <1>13, <1>16 DEF Shows
<1> QED
  BY <1>1, <1>2, <1>14, <1>15, <1>17 DEF CloneInv, SourceShown, CopiedShown, MergedShown

\* The files that the rule writes are the same for what is seen as for the sources.
LEMMA WriteMakes ==
  ASSUME BaseInv, MadeOK, Tree!write_llvm_project_files,
         Tree!Pfm \in DOMAIN Tree!View <=> Tree!Pfm \in DOMAIN source
  PROVE  /\ MadeOK' /\ UNCHANGED <<way, source, patch, stack>> /\ treePc' = "done"
         /\ Tree!View' = Tree!Over(Tree!Written(source), Tree!View)
<1> DEFINE t == Tree!Written(Tree!View)
<1>1. UNCHANGED <<way, source, patch, stack>> /\ treePc' = "done" /\ Tree!Write(t)
      /\ source \in Sources
  BY DEF Tree!write_llvm_project_files, Tree!Step, Tree!input, BaseInv
<1>2. t = Tree!Written(source) /\ DOMAIN t \subseteq Paths
  BY WrittenPaths
<1> HIDE DEF t
<1>3. DOMAIN t \subseteq Laid(source)
  BY <1>2 DEF Laid
<1>4. MadeOK' /\ Tree!View' = Tree!Over(t, Tree!View)
  BY <1>1, <1>2, <1>3, MadeWrites
<1> QED
  BY <1>1, <1>2, <1>4

LEMMA WriteKeepsClone ==
  ASSUME BaseInv, CloneInv, Tree!write_llvm_project_files, way \in {"git", "linked"}
  PROVE  CloneInv'
<1>1. treePc = "write" /\ source \in Sources
  BY DEF Tree!write_llvm_project_files, Tree!Step, BaseInv
<1>2. /\ MadeOK /\ MirrorOK /\ Shows(Copied) /\ stack = <<>> /\ NoGit
  BY <1>1 DEF CloneInv, SourceShown, CopiedShown, MergedShown, MadeOK
<1>3. /\ MadeOK' /\ UNCHANGED <<way, source, patch, stack>> /\ treePc' = "done"
      /\ Tree!View' = Tree!Over(Tree!Written(source), Tree!View)
  BY <1>1, <1>2, OverlaySeen, WriteMakes
<1>4. Pending = {}
  BY <1>2 DEF Pending, ToVisit
<1>5. CopiedPaths = DOMAIN Overlay
  BY <1>4 DEF CopiedPaths
<1>6. /\ DOMAIN PatchedSource = DOMAIN source /\ DOMAIN PatchedOverlay = DOMAIN Overlay
  BY <1>1, PatchedSourceIs
<1>7. Copied = Tree!Over(PatchedOverlay, PatchedSource)
  BY <1>5, <1>6 DEF Copied, Tree!Over
<1>8. Tree!Merged = Copied
  BY <1>7 DEF Tree!Merged, PatchedOverlay, PatchedSource
<1>9. Tree!View = Copied
  <2>1. Tree!View = [p \in DOMAIN Tree!View |-> Tree!View[p]]
    BY <1>2, MirrorView DEF ViewIsMirror
  <2>2. DOMAIN Tree!View = DOMAIN Copied
    BY <1>2 DEF Shows, NoGit
  <2>3. Copied = [p \in DOMAIN Copied |-> Copied[p]]
    BY DEF Copied
  <2> QED
    BY <1>2, <2>1, <2>2, <2>3 DEF Shows
<1>10. Tree!Merged' = Tree!Merged /\ Tree!Written(source)' = Tree!Written(source)
  BY <1>3
  DEF Tree!Merged, Tree!Written, Tree!Patched, Tree!OverlayOf, Tree!Under, Tree!Without,
      Tree!Over
<1>11. Tree!View' = Tree!Over(Tree!Written(source), Tree!Merged)'
  BY <1>3, <1>8, <1>9, <1>10 DEF Tree!Over
<1> QED
  BY <1>3, <1>11 DEF CloneInv, SourceShown, CopiedShown, MergedShown

LEMMA SameTrees ==
  ASSUME UNCHANGED <<way, source, patch, src, out, stack>>
  PROVE  /\ Tree!View' = Tree!View /\ Tree!Links' = Tree!Links /\ ToVisit' = ToVisit
         /\ MirrorOK' = MirrorOK /\ Laid(source)' = Laid(source) /\ Overlay' = Overlay
         /\ Tree!Merged' = Tree!Merged /\ Tree!Written(source)' = Tree!Written(source)
<1>1. Tree!Links' = Tree!Links
  BY DEF Tree!Links
<1>2. Tree!View' = Tree!View
  BY <1>1 DEF Tree!View, Tree!Target, Tree!Links
<1>3. MirrorOK' = MirrorOK
  BY <1>1 DEF MirrorOK
<1>4. Tree!Written(source)' = Tree!Written(source)
  BY DEF Tree!Written
<1>5. Overlay' = Overlay
  BY DEF Overlay, Tree!OverlayOf, Tree!Under
<1>6. Laid(source)' = Laid(source)
  BY <1>4, <1>5 DEF Laid, Overlay
<1>7. Tree!Merged' = Tree!Merged
  BY DEF Tree!Merged, Tree!Patched, Tree!OverlayOf, Tree!Under, Tree!Without, Tree!Over
<1>8. ToVisit' = ToVisit
  BY DEF ToVisit
<1> QED
  BY <1>1, <1>2, <1>3, <1>4, <1>5, <1>6, <1>7, <1>8

LEMMA MadeSame ==
  ASSUME UNCHANGED <<way, source, patch, src, out, stack>>, MadeOK
  PROVE  MadeOK'
BY SameTrees DEF MadeOK, NoGit

LEMMA BaseSame ==
  ASSUME UNCHANGED <<way, source, patch, stack>>, BaseInv
  PROVE  BaseInv'
<1>1. ToVisit' = ToVisit /\ Overlay' = Overlay
  BY DEF ToVisit, Overlay, Tree!OverlayOf, Tree!Under
<1> QED
  BY <1>1 DEF BaseInv, StackOK, DirsOK

LEMMA CloneStutters ==
  ASSUME CloneInv, UNCHANGED <<way, source, patch, src, out, stack>>,
         treePc' = treePc \/ treePc' = "failed"
  PROVE  CloneInv'
<1> SUFFICES ASSUME way \in {"git", "linked"} PROVE CloneInv'
  BY DEF CloneInv
<1>1. MadeOK'
  BY MadeSame DEF CloneInv
<1>2. CASE treePc' = "failed"
  BY <1>1, <1>2 DEF CloneInv
<1>3. CASE treePc' = treePc
  <2>1. Copied' = Copied
    BY SameTrees, PatchedSame DEF Copied, CopiedPaths, Pending
  <2>2. /\ SourceShown => SourceShown'
        /\ CopiedShown => CopiedShown'
        /\ NoGit => NoGit'
        /\ MergedShown => MergedShown'
    BY <2>1, SameTrees DEF SourceShown, CopiedShown, MergedShown, Shows, NoGit, Tree!Over
  <2> QED
    <3>1. /\ treePc' \in {"fetch", "patch", "overlay", "delete git", "write", "done", "failed"}
          /\ treePc' = "fetch" => src' = source'
          /\ treePc' \in {"fetch", "patch"} => ToVisit' = {Tree!Root}
          /\ treePc' = "overlay" => stack' # <<>>
          /\ treePc' \in {"delete git", "write"} => stack' = <<>>
      BY <1>3, SameTrees DEF CloneInv
    <3>2. /\ treePc' = "patch" => SourceShown'
          /\ treePc' \in {"overlay", "delete git", "write"} => CopiedShown'
          /\ treePc' = "write" => NoGit'
          /\ treePc' = "done" => MergedShown'
      BY <1>3, <2>2 DEF CloneInv
    <3> QED
      BY <1>1, <3>1, <3>2 DEF CloneInv
<1> QED
  BY <1>2, <1>3

\* What the archive rule extracts of the sources and of the overlay, and what is
\* seen after each of its steps.
OpenmpRuntime == <<"openmp", "runtime">>
Kept == Tree!Without(source, Excluded \cup {Tree!LLVM_PROJECT_OVERLAY})
Extracted == Tree!Over(Tree!Without(Overlay, {OpenmpRuntime}), Kept)
ExtractedOut ==
  out = Tree!Over([p \in {Tree!Archive} |-> Tree!File("archive")], Tree!Files(Kept))
ExtractedShown == Tree!View = Extracted
PatchedShown == Tree!View = Tree!Patched(Extracted)
FilesShown == Tree!View = Tree!Merged

ArchiveInv ==
  way = "archive" =>
    /\ MadeOK
    /\ treePc \in {"fetch", "extract", "patch", "copy files", "write", "done", "failed"}
    /\ treePc \in {"fetch", "extract"} => src = source
    /\ treePc = "extract" => ExtractedOut
    /\ treePc = "patch" => ExtractedShown
    /\ treePc = "copy files" => PatchedShown
    /\ treePc = "write" => FilesShown
    /\ treePc = "done" => MergedShown

LEMMA ExtractedIs ==
  ASSUME source \in Sources
  PROVE  /\ DOMAIN Kept \subseteq DOMAIN source
         /\ DOMAIN Extracted \subseteq Laid(source)
         /\ Extracted = [p \in DOMAIN Extracted |-> Extracted[p]]
         /\ Tree!Pfm \in DOMAIN Extracted <=> Tree!Pfm \in DOMAIN source
         /\ Tree!Merged = Tree!Over(OverlayFiles, Tree!Patched(Extracted)) \/ way # "archive"
<1>1. /\ DOMAIN Kept = {p \in DOMAIN source :
                          \A d \in Excluded \cup {Tree!LLVM_PROJECT_OVERLAY} : ~Tree!IsPrefix(d, p)}
  BY DEF Kept, Tree!Without
<1>2. DOMAIN Extracted = DOMAIN Tree!Without(Overlay, {OpenmpRuntime}) \cup DOMAIN Kept
      /\ Extracted = [p \in DOMAIN Extracted |-> Extracted[p]]
  BY DEF Extracted, Tree!Over
<1>3. DOMAIN Tree!Without(Overlay, {OpenmpRuntime}) \subseteq DOMAIN Overlay
  BY DEF Tree!Without
<1>4. DOMAIN Extracted \subseteq Laid(source)
  BY <1>1, <1>2, <1>3 DEF Laid, Overlay
<1>5. Tree!Pfm \notin DOMAIN Overlay
  <2>1. \A p \in DOMAIN Overlay : ~Tree!IsPrefix(Utils, p)
    BY SourceFacts DEF Overlay
  <2>2. /\ Utils \in Dirs /\ Tree!ThirdParty \in Dirs /\ Tree!Pfm \in Dirs
        /\ Tree!IsPrefix(Utils, Tree!ThirdParty) /\ Tree!IsPrefix(Tree!ThirdParty, Tree!Pfm)
    BY NamedPaths DEF Paths, Tree!IsStrictPrefix
  <2> QED
    BY <2>1, <2>2, PrefixOrders
<1>6. \A d \in Excluded \cup {Tree!LLVM_PROJECT_OVERLAY} : ~Tree!IsPrefix(d, Tree!Pfm)
  BY NamedPaths, PathsAssumption
<1>7. Tree!Pfm \in DOMAIN Extracted <=> Tree!Pfm \in DOMAIN source
  BY <1>1, <1>2, <1>3, <1>5, <1>6
<1>8. way = "archive" => Tree!Merged = Tree!Over(OverlayFiles, Tree!Patched(Extracted))
  BY DEF Tree!Merged, Extracted, Kept, Overlay, OpenmpRuntime
<1> QED
  BY <1>1, <1>2, <1>4, <1>7, <1>8

LEMMA ExtractedSame ==
  ASSUME UNCHANGED <<source, patch>>
  PROVE  /\ Kept' = Kept /\ Extracted' = Extracted
         /\ Tree!Patched(Extracted)' = Tree!Patched(Extracted)
<1>1. Kept' = Kept
  BY DEF Kept, Tree!Without
<1>2. Overlay' = Overlay
  BY DEF Overlay, Tree!OverlayOf, Tree!Under
<1>3. Extracted' = Extracted
  BY <1>1, <1>2 DEF Extracted, Tree!Over, Tree!Without
<1>4. Tree!Patched(Extracted)' = Tree!Patched(Extracted)
  BY <1>3 DEF Tree!Patched
<1> QED
  BY <1>1, <1>3, <1>4

LEMMA ExtractSourceKeeps ==
  ASSUME BaseInv, ArchiveInv, Tree!ExtractSource
  PROVE  ArchiveInv'
<1>1. /\ way = "archive" /\ treePc = "fetch" /\ treePc' = "extract"
      /\ UNCHANGED <<way, source, patch, src, stack>>
      /\ source \in Sources /\ src = source
      /\ out' = Tree!Over([p \in {Tree!Archive} |-> Tree!File("archive")],
                          Tree!Files(Tree!Without(src, Excluded \cup {Tree!LLVM_PROJECT_OVERLAY})))
  BY DEF Tree!ExtractSource, Tree!Step, Tree!input, BaseInv, ArchiveInv
<1>2. out' = Tree!Over([p \in {Tree!Archive} |-> Tree!File("archive")], Tree!Files(Kept))
  BY <1>1 DEF Kept
<1>3. ExtractedOut'
  <2>1. Kept' = Kept
    BY <1>1, ExtractedSame
  <2> QED
    BY <1>2, <2>1 DEF ExtractedOut, Tree!Over, Tree!Files, Tree!File
<1>4. /\ DOMAIN out' = {Tree!Archive} \cup DOMAIN Kept
      /\ \A p \in DOMAIN out' : ~out'[p].link
  BY <1>2 DEF Tree!Over, Tree!Files, Tree!File
<1>5. DOMAIN out' \subseteq Paths
  BY <1>1, <1>4, ExtractedIs, SourceFacts, NamedPaths
<1>6. MadeOK'
  BY <1>1, <1>4, <1>5, FilesMakeNext DEF FilesOnly, FilesSeen
<1> QED
  BY <1>1, <1>3, <1>6 DEF ArchiveInv

LEMMA ExtractOverlayKeeps ==
  ASSUME BaseInv, ArchiveInv, way = "archive", Tree!ExtractOverlay
  PROVE  ArchiveInv'
<1> DEFINE o == Tree!Without(Overlay, {OpenmpRuntime})
<1>1. /\ treePc = "extract" /\ treePc' = "patch"
      /\ UNCHANGED <<way, source, patch, src, stack>>
      /\ source \in Sources /\ src = source
      /\ out = Tree!Over([p \in {Tree!Archive} |-> Tree!File("archive")], Tree!Files(Kept))
  BY DEF Tree!ExtractOverlay, Tree!Step, Tree!input, BaseInv, ArchiveInv, ExtractedOut
<1>2. out' = Tree!Without(Tree!Over(Tree!Files(o), out), {Tree!Archive})
  BY <1>1 DEF Tree!ExtractOverlay, Overlay, OpenmpRuntime
<1>3. o = [p \in DOMAIN o |-> o[p]] /\ DOMAIN o \subseteq DOMAIN Overlay
  BY DEF Tree!Without
<1> HIDE DEF o
<1>4. \A p \in DOMAIN o \cup DOMAIN Kept : p \in Paths /\ ~Tree!IsPrefix(Tree!Archive, p)
  <2>1. DOMAIN o \cup DOMAIN Kept \subseteq Laid(source)
    BY <1>1, <1>3, ExtractedIs DEF Laid, Overlay
  <2> QED
    BY <1>1, <2>1, SourceFacts
<1>5. Tree!IsPrefix(Tree!Archive, Tree!Archive)
  BY NamedPaths, PrefixOrders DEF Paths
<1>6. /\ DOMAIN out = {Tree!Archive} \cup DOMAIN Kept
      /\ \A p \in DOMAIN Kept : p # Tree!Archive => out[p] = Tree!File(Kept[p])
  BY <1>1 DEF Tree!Over, Tree!Files
<1> DEFINE both == Tree!Over(Tree!Files(o), out)
<1>7. /\ DOMAIN both = {Tree!Archive} \cup DOMAIN o \cup DOMAIN Kept
      /\ \A p \in DOMAIN o : both[p] = Tree!File(o[p])
      /\ \A p \in DOMAIN both : p \notin DOMAIN o => both[p] = out[p]
  BY <1>6 DEF Tree!Over, Tree!Files
<1> HIDE DEF both
<1>8. /\ DOMAIN out' = {p \in DOMAIN both : ~Tree!IsPrefix(Tree!Archive, p)}
      /\ \A p \in DOMAIN out' : out'[p] = both[p]
  BY <1>2 DEF Tree!Without, both
<1>9. DOMAIN out' = DOMAIN o \cup DOMAIN Kept
  BY <1>4, <1>5, <1>7, <1>8
<1>10. \A p \in DOMAIN out' : out'[p] = Tree!File(IF p \in DOMAIN o THEN o[p] ELSE Kept[p])
  BY <1>4, <1>5, <1>6, <1>7, <1>8, <1>9
<1>11. \A c : ~Tree!File(c).link /\ Tree!File(c).content = c
  BY DEF Tree!File
<1>12. FilesOnly'
  <2>1. DOMAIN out' \subseteq Paths
    BY <1>4, <1>9
  <2>2. \A p \in DOMAIN out' : ~out'[p].link
    BY <1>10, <1>11
  <2> QED
    BY <1>1, <2>1, <2>2 DEF FilesOnly
<1>13. /\ MadeOK' /\ DOMAIN Tree!View' = DOMAIN out'
       /\ \A p \in DOMAIN out' : Tree!View'[p] = out'[p].content
  BY <1>12, FilesMakeNext DEF FilesSeen
<1>14. Tree!View' = [p \in DOMAIN Tree!View' |-> Tree!View'[p]]
  BY <1>13, MirrorViewNext DEF MadeOK, ViewIsMirror
<1>15. Extracted = [p \in DOMAIN o \cup DOMAIN Kept |-> IF p \in DOMAIN o THEN o[p] ELSE Kept[p]]
  BY DEF Extracted, Tree!Over, o
<1>16. Tree!View' = Extracted
  BY <1>9, <1>10, <1>11, <1>13, <1>14, <1>15
<1>17. ExtractedShown'
  BY <1>1, <1>16, ExtractedSame DEF ExtractedShown
<1> QED
  BY <1>1, <1>13, <1>17 DEF ArchiveInv

LEMMA PatchKeepsArchive ==
  ASSUME BaseInv, ArchiveInv, Tree!Patch, way = "archive"
  PROVE  ArchiveInv'
<1>1. /\ treePc = "patch" /\ source \in Sources
  BY DEF Tree!Patch, Tree!Step, BaseInv
<1>2. MadeOK /\ Tree!View = Extracted
  BY <1>1 DEF ArchiveInv, ExtractedShown
<1>3. /\ MadeOK' /\ UNCHANGED <<way, source, patch>> /\ treePc' = "copy files"
      /\ \A p \in DOMAIN Tree!View :
           Tree!View'[p] = IF patch # Tree!Root /\ p = patch THEN "patched" ELSE Tree!View[p]
      /\ Tree!View' = [p \in DOMAIN Tree!View |-> Tree!View'[p]]
  BY <1>2, PatchMakes DEF Tree!AfterPatch
<1> DEFINE t == Tree!Patched(Extracted)
<1>4. /\ DOMAIN t = DOMAIN Extracted /\ t = [p \in DOMAIN Extracted |-> t[p]]
      /\ \A p \in DOMAIN Extracted :
           t[p] = IF patch # Tree!Root /\ p = patch THEN "patched" ELSE Extracted[p]
  BY <1>1, ExtractedIs, PatchedIs
<1> HIDE DEF t
<1>5. Tree!View' = t
  BY <1>2, <1>3, <1>4
<1>6. PatchedShown'
  BY <1>3, <1>5, ExtractedSame DEF PatchedShown, t
<1> QED
  BY <1>3, <1>6 DEF ArchiveInv

LEMMA CopyKeepsArchive ==
  ASSUME BaseInv, ArchiveInv, Tree!CopyFiles, way = "archive"
  PROVE  ArchiveInv'
<1>1. /\ treePc = "copy files" /\ treePc' = "write" /\ Tree!Write(OverlayFiles)
      /\ UNCHANGED <<way, source, patch>> /\ source \in Sources
  BY DEF Tree!CopyFiles, Tree!Step, Tree!input, BaseInv
<1>2. MadeOK /\ Tree!View = Tree!Patched(Extracted)
  BY <1>1 DEF ArchiveInv, PatchedShown
<1>3. DOMAIN OverlayFiles \subseteq Paths
  BY PathsAssumption DEF Paths, Dirs
<1>4. MadeOK' /\ Tree!View' = Tree!Over(OverlayFiles, Tree!View)
  BY <1>1, <1>2, <1>3, MadeWrites
<1>5. Tree!View' = Tree!Merged
  BY <1>1, <1>2, <1>4, ExtractedIs
<1>6. Tree!Merged' = Tree!Merged
  BY <1>1 DEF Tree!Merged, Tree!Patched, Tree!OverlayOf, Tree!Under, Tree!Without, Tree!Over
<1>7. FilesShown'
  BY <1>5, <1>6 DEF FilesShown
<1> QED
  BY <1>1, <1>4, <1>7 DEF ArchiveInv

LEMMA WriteKeepsArchive ==
  ASSUME BaseInv, ArchiveInv, Tree!write_llvm_project_files, way = "archive"
  PROVE  ArchiveInv'
<1>1. treePc = "write" /\ source \in Sources
  BY DEF Tree!write_llvm_project_files, Tree!Step, BaseInv
<1>2. MadeOK /\ Tree!View = Tree!Merged
  BY <1>1 DEF ArchiveInv, FilesShown
<1>3. Tree!Pfm \in DOMAIN Tree!View <=> Tree!Pfm \in DOMAIN source
  <2>1. Tree!View = Tree!Over(OverlayFiles, Tree!Patched(Extracted))
    BY <1>1, <1>2, ExtractedIs
  <2>2. DOMAIN Tree!Patched(Extracted) = DOMAIN Extracted
        /\ (Tree!Pfm \in DOMAIN Extracted <=> Tree!Pfm \in DOMAIN source)
    BY <1>1, ExtractedIs, PatchedIs
  <2> QED
    BY <2>1, <2>2, PathsAssumption DEF Tree!Over
<1>4. /\ MadeOK' /\ UNCHANGED <<way, source, patch, stack>> /\ treePc' = "done"
      /\ Tree!View' = Tree!Over(Tree!Written(source), Tree!View)
  BY <1>2, <1>3, WriteMakes
<1>5. Tree!Merged' = Tree!Merged /\ Tree!Written(source)' = Tree!Written(source)
  BY <1>4
  DEF Tree!Merged, Tree!Written, Tree!Patched, Tree!OverlayOf, Tree!Under, Tree!Without,
      Tree!Over
<1>6. MergedShown'
  BY <1>2, <1>4, <1>5 DEF MergedShown, Tree!Over
<1> QED
  BY <1>4, <1>6 DEF ArchiveInv

LEMMA ArchiveStutters ==
  ASSUME ArchiveInv, UNCHANGED <<way, source, patch, src, out, stack>>,
         treePc' = treePc \/ treePc' = "failed"
  PROVE  ArchiveInv'
<1> SUFFICES ASSUME way = "archive" PROVE ArchiveInv'
  BY DEF ArchiveInv
<1>1. MadeOK'
  BY MadeSame DEF ArchiveInv
<1>2. CASE treePc' = "failed"
  BY <1>1, <1>2 DEF ArchiveInv
<1>3. CASE treePc' = treePc
  <2>1. /\ ExtractedOut => ExtractedOut'
        /\ ExtractedShown => ExtractedShown'
        /\ PatchedShown => PatchedShown'
        /\ FilesShown => FilesShown'
        /\ MergedShown => MergedShown'
    <3>1. /\ Tree!View' = Tree!View /\ Kept' = Kept /\ Extracted' = Extracted
          /\ Tree!Patched(Extracted)' = Tree!Patched(Extracted)
          /\ Tree!Merged' = Tree!Merged /\ Tree!Written(source)' = Tree!Written(source)
      BY SameTrees, ExtractedSame
    <3>2. ExtractedOut => ExtractedOut'
      BY <3>1 DEF ExtractedOut, Tree!Over, Tree!Files, Tree!File
    <3>3. MergedShown => MergedShown'
      BY <3>1 DEF MergedShown, Tree!Over
    <3> QED
      BY <3>1, <3>2, <3>3 DEF ExtractedShown, PatchedShown, FilesShown
  <2>2. /\ treePc' \in {"fetch", "extract", "patch", "copy files", "write", "done", "failed"}
        /\ treePc' \in {"fetch", "extract"} => src' = source'
    BY <1>3 DEF ArchiveInv
  <2> QED
    BY <1>1, <1>3, <2>1, <2>2 DEF ArchiveInv
<1> QED
  BY <1>2, <1>3

\* A repository of links into the user's sources, none below another: the overlay's
\* files lead into the overlay, all else to the same path of the sources.
PathOK ==
  /\ src = source /\ source \in Sources /\ DOMAIN out \subseteq Paths
  /\ \A q \in Tree!Links :
       q \in DOMAIN Overlay => out[q] = Tree!Link(Tree!LLVM_PROJECT_OVERLAY \o q)
  /\ \A q \in Tree!Links : q \notin DOMAIN Overlay => out[q] = Tree!Link(q)
  /\ \A q, r \in Tree!Links : Tree!IsPrefix(q, r) => q = r

\* What is seen of the sources and of the overlay.
LinkedSource == {p \in DOMAIN source : \E q \in Tree!Links \ DOMAIN Overlay : Tree!IsPrefix(q, p)}
LinkedOverlay == Tree!Links \cap DOMAIN Overlay
PathSeen ==
  /\ \A p : p \in DOMAIN Tree!View <=> Plain(p) \/ p \in LinkedOverlay \/ p \in LinkedSource
  /\ \A p : Plain(p) => Tree!View[p] = out[p].content
  /\ \A p \in LinkedOverlay : Tree!View[p] = Overlay[p]
  /\ \A p \in LinkedSource : ~Plain(p) => Tree!View[p] = source[p]
  /\ Tree!View = [p \in DOMAIN Tree!View |-> Tree!View[p]]

LEMMA PathFacts ==
  ASSUME PathOK
  PROVE  /\ DOMAIN source \subseteq Paths /\ DOMAIN Overlay \subseteq Paths
         /\ Tree!Links \subseteq Paths /\ Tree!LLVM_PROJECT_OVERLAY \in Dirs
         /\ \A p, q \in DOMAIN source : Tree!IsPrefix(p, q) => p = q
         /\ \A f \in DOMAIN Overlay : /\ Tree!LLVM_PROJECT_OVERLAY \o f \in DOMAIN source
                                     /\ Overlay[f] = source[Tree!LLVM_PROJECT_OVERLAY \o f]
<1>1. source \in Sources
  BY DEF PathOK
<1>2. DOMAIN source \subseteq Paths /\ \A p, q \in DOMAIN source : Tree!IsPrefix(p, q) => p = q
  BY <1>1, SourceFacts DEF Laid, Tree!IsStrictPrefix
<1>3. Tree!Links \subseteq Paths
  BY DEF PathOK, Tree!Links
<1>4. Tree!LLVM_PROJECT_OVERLAY \in Dirs
  BY NamedPaths DEF Paths
<1> QED
  BY <1>2, <1>3, <1>4, OverlayIs DEF Overlay

LEMMA PathTarget ==
  ASSUME PathOK, NEW p \in Paths, NEW q \in Tree!Links, Tree!IsPrefix(q, p)
  PROVE  Tree!Target(p) = out[q].to \o Tree!Rest(p, Len(q))
<1> DEFINE r == CHOOSE r \in Tree!Links : Tree!IsPrefix(r, p)
<1>1. r \in Tree!Links /\ Tree!IsPrefix(r, p)
  OBVIOUS
<1>2. Tree!Target(p) = out[r].to \o Tree!Rest(p, Len(r))
  BY DEF Tree!Target
<1> HIDE DEF r
<1>3. r \in Dirs /\ q \in Dirs /\ p \in Dirs
  BY <1>1, PathFacts DEF Paths
<1>4. Tree!IsPrefix(r, q) \/ Tree!IsPrefix(q, r)
  BY <1>1, <1>3, PrefixOrders
<1>5. r = q
  BY <1>1, <1>4 DEF PathOK
<1> QED
  BY <1>2, <1>5

\* What one link leads to.
LEMMA PathReaches ==
  ASSUME PathOK, NEW q \in Tree!Links
  PROVE  /\ q \in DOMAIN Overlay =>
              /\ {q \o Tree!Rest(f, Len(out[q].to)) :
                    f \in {g \in DOMAIN src : Tree!IsPrefix(out[q].to, g)}} = {q}
              /\ src[Tree!Target(q)] = Overlay[q]
         /\ q \notin DOMAIN Overlay =>
              /\ {q \o Tree!Rest(f, Len(out[q].to)) :
                    f \in {g \in DOMAIN src : Tree!IsPrefix(out[q].to, g)}}
                 = {g \in DOMAIN source : Tree!IsPrefix(q, g)}
              /\ \A g \in DOMAIN source : Tree!IsPrefix(q, g) => Tree!Target(g) = g
<1> DEFINE a == Tree!LLVM_PROJECT_OVERLAY
<1>1. src = source /\ q \in Paths /\ q \in Dirs /\ DOMAIN source \subseteq Dirs /\ a \in Dirs
  BY PathFacts DEF PathOK, Paths
<1>2. \A x : Tree!Link(x).to = x
  BY DEF Tree!Link
<1>3. ASSUME q \in DOMAIN Overlay
      PROVE  /\ {q \o Tree!Rest(f, Len(out[q].to)) :
                   f \in {g \in DOMAIN src : Tree!IsPrefix(out[q].to, g)}} = {q}
             /\ src[Tree!Target(q)] = Overlay[q]
  <2> DEFINE t == a \o q
  <2>1. out[q].to = t
    BY <1>2, <1>3 DEF PathOK
  <2>2. t \in DOMAIN source /\ Overlay[q] = source[t] /\ t \in Dirs
    BY <1>1, <1>3, PathFacts
  <2> HIDE DEF t
  <2>3. {g \in DOMAIN src : Tree!IsPrefix(t, g)} = {t}
    <3>1. Tree!IsPrefix(t, t)
      BY <2>2, PrefixOrders
    <3> QED
      BY <1>1, <2>2, <3>1, PathFacts
  <2>4. Tree!Rest(t, Len(t)) = <<>>
    <3>1. Tree!IsPrefix(t, t)
      BY <2>2, PrefixOrders
    <3>2. Tree!Rest(t, Len(t)) \in Dirs /\ t \o Tree!Rest(t, Len(t)) = t
      BY <2>2, <3>1, RestIs
    <3> QED
      BY <2>2, <3>2, ConcatEqualIffEmpty DEF Dirs
  <2>5. q \o <<>> = q /\ t \o <<>> = t
    BY <1>1, <2>2, ConcatEmptySeq DEF Dirs
  <2>6. Tree!IsPrefix(q, q) /\ Tree!Rest(q, Len(q)) = <<>>
    <3>1. Tree!IsPrefix(q, q)
      BY <1>1, PrefixOrders
    <3>2. Tree!Rest(q, Len(q)) \in Dirs /\ q \o Tree!Rest(q, Len(q)) = q
      BY <1>1, <3>1, RestIs
    <3> QED
      BY <1>1, <3>1, <3>2, ConcatEqualIffEmpty DEF Dirs
  <2>7. Tree!Target(q) = t
    BY <1>1, <2>1, <2>5, <2>6, PathTarget
  <2>8. {q \o Tree!Rest(f, Len(out[q].to)) :
           f \in {g \in DOMAIN src : Tree!IsPrefix(out[q].to, g)}} = {q}
    BY <2>1, <2>3, <2>4, <2>5
  <2> QED
    BY <1>1, <2>2, <2>7, <2>8
<1>4. ASSUME q \notin DOMAIN Overlay
      PROVE  /\ {q \o Tree!Rest(f, Len(out[q].to)) :
                   f \in {g \in DOMAIN src : Tree!IsPrefix(out[q].to, g)}}
                = {g \in DOMAIN source : Tree!IsPrefix(q, g)}
             /\ \A g \in DOMAIN source : Tree!IsPrefix(q, g) => Tree!Target(g) = g
  <2>1. out[q].to = q
    BY <1>2, <1>4 DEF PathOK
  <2>2. \A g \in DOMAIN source : Tree!IsPrefix(q, g) => q \o Tree!Rest(g, Len(q)) = g
    BY <1>1, RestIs
  <2>3. \A g \in DOMAIN source : Tree!IsPrefix(q, g) => Tree!Target(g) = g
    BY <2>1, <2>2, PathFacts, PathTarget
  <2>4. {q \o Tree!Rest(f, Len(out[q].to)) :
           f \in {g \in DOMAIN src : Tree!IsPrefix(out[q].to, g)}}
        = {g \in DOMAIN source : Tree!IsPrefix(q, g)}
    BY <1>1, <2>1, <2>2
  <2> QED
    BY <2>3, <2>4
<1> QED
  BY <1>3, <1>4

LEMMA PathView == PathOK => PathSeen
<1> SUFFICES ASSUME PathOK PROVE PathSeen
  OBVIOUS
<1> DEFINE plain == {p \in DOMAIN out : ~out[p].link}
           Reached(q) == {q \o Tree!Rest(f, Len(out[q].to)) :
                            f \in {g \in DOMAIN src : Tree!IsPrefix(out[q].to, g)}}
           R == UNION {Reached(q) : q \in Tree!Links}
<1>1. Tree!View = Tree!Over([p \in plain |-> out[p].content], [p \in R |-> src[Tree!Target(p)]])
  BY DEF Tree!View
<1>2. \A q \in Tree!Links : q \in DOMAIN Overlay => Reached(q) = {q}
  BY PathReaches
<1>3. \A q \in Tree!Links :
        q \notin DOMAIN Overlay => Reached(q) = {g \in DOMAIN source : Tree!IsPrefix(q, g)}
  BY PathReaches
<1> HIDE DEF Reached
<1>4. R = LinkedOverlay \cup LinkedSource
  BY <1>2, <1>3 DEF LinkedOverlay, LinkedSource
<1> HIDE DEF R
<1>5. \A p : p \in plain <=> Plain(p)
  BY DEF Plain
<1> HIDE DEF plain
<1>6. DOMAIN Tree!View = plain \cup R
      /\ Tree!View = [p \in DOMAIN Tree!View |-> Tree!View[p]]
      /\ \A p \in plain \cup R :
           Tree!View[p] = IF p \in plain THEN out[p].content ELSE src[Tree!Target(p)]
  BY <1>1 DEF Tree!Over
<1>7. \A p : p \in DOMAIN Tree!View <=> Plain(p) \/ p \in LinkedOverlay \/ p \in LinkedSource
  BY <1>4, <1>5, <1>6
<1>8. \A p : Plain(p) => Tree!View[p] = out[p].content
  BY <1>5, <1>6
<1>9. \A p \in LinkedOverlay : Tree!View[p] = Overlay[p]
  <2>1. \A p \in LinkedOverlay : ~Plain(p)
    BY DEF LinkedOverlay, Plain, Tree!Links
  <2>2. \A p \in LinkedOverlay : src[Tree!Target(p)] = Overlay[p]
    BY PathReaches DEF LinkedOverlay
  <2> QED
    BY <1>4, <1>5, <1>6, <2>1, <2>2
<1>10. \A p \in LinkedSource : ~Plain(p) => Tree!View[p] = source[p]
  <2>1. \A p \in LinkedSource : Tree!Target(p) = p
    BY PathReaches DEF LinkedSource
  <2>2. src = source
    BY DEF PathOK
  <2> QED
    BY <1>4, <1>5, <1>6, <2>1, <2>2
<1> QED
  BY <1>6, <1>7, <1>8, <1>9, <1>10 DEF PathSeen

LEMMA PathViewNext == PathOK' => PathSeen'
BY PathView, PTL

\* The links that the walk has made: those below a directory that was visited, each
\* with all that is in it, of the sources or of the overlay alone.
LinksAlone == \A q \in DOMAIN out : out[q].link
SourcesAlone ==
  \A q \in Tree!Links \ DOMAIN Overlay : \A f \in DOMAIN Overlay : ~Tree!IsPrefix(q, f)
OverlayAlone ==
  \A q \in Tree!Links \cap DOMAIN Overlay : \A p \in DOMAIN source : ~Tree!IsPrefix(q, p)
Visited == \A q \in Tree!Links, d \in ToVisit : ~Tree!IsPrefix(q, d) /\ ~Tree!IsPrefix(d, q)
SourceCovered ==
  \A p \in DOMAIN source : \/ \E q \in Tree!Links \ DOMAIN Overlay : Tree!IsPrefix(q, p)
                           \/ \E d \in ToVisit : Tree!IsStrictPrefix(d, p)
OverlayCovered == DOMAIN Overlay \ Pending \subseteq Tree!Links
LinkedOK ==
  /\ LinksAlone /\ SourcesAlone /\ OverlayAlone /\ Visited /\ SourceCovered /\ OverlayCovered
\* utils is linked as a whole until its directories are made anew, so that what is
\* written there is not written into the user's sources.
UtilsWhole == \A q \in Tree!Links : ~Tree!IsStrictPrefix(Utils, q)
UtilsOpen == \A q \in Tree!Links : ~Tree!IsPrefix(q, Tree!ThirdParty)

PathInv ==
  way = "path" =>
    /\ PathOK
    /\ treePc \in {"overlay", "third party", "write", "done", "failed"}
    /\ treePc \in {"overlay", "third party", "write"} => LinkedOK
    /\ treePc = "overlay" => stack # <<>>
    /\ treePc \in {"third party", "write"} => stack = <<>>
    /\ treePc \in {"overlay", "third party"} => UtilsWhole
    /\ treePc = "write" => UtilsOpen
    /\ treePc = "done" => MergedShown

\* A visit links what is of one tree alone and leaves to later visits what both
\* have.
LEMMA SymlinkKeeps ==
  ASSUME BaseInv, PathInv, Tree!symlink_source_and_overlay
  PROVE  PathInv' /\ StackOK' /\ DirsOK'
<1> DEFINE h == Tree!Here
           O == DOMAIN Overlay
           F == Tree!HereFiles(Overlay)
           C == Tree!HereDirs(Overlay)
           S == Tree!HereOfSource
           L == Tree!Links
<1>1. /\ way = "path" /\ treePc = "overlay"
      /\ UNCHANGED <<way, source, patch, src>>
      /\ treePc' = IF stack' = <<>> THEN "third party" ELSE treePc
  BY DEF Tree!symlink_source_and_overlay, Tree!input, Tree!GoOn
<1>2. /\ PathOK /\ LinkedOK /\ stack # <<>> /\ UtilsWhole /\ StackOK /\ DirsOK
      /\ source \in Sources /\ src = source
  BY <1>1 DEF PathInv, BaseInv, PathOK
<1>3. /\ Tree!Visit(Overlay) /\ S \cap F = {} /\ S = Tree!Entries(source, h) \ C
      /\ out' = Tree!Over([p \in F |-> Tree!Link(Tree!LLVM_PROJECT_OVERLAY \o p)],
                          Tree!Over([p \in S |-> Tree!Link(p)], out))
  BY <1>2 DEF Tree!symlink_source_and_overlay, Overlay, Tree!Conflict, Tree!HereOfSource
<1>4. /\ DOMAIN source \subseteq Paths /\ O \subseteq Paths /\ L \subseteq Paths
      /\ IsFiniteSet(O) /\ \A p, q \in O \cup DOMAIN source : ~Tree!IsStrictPrefix(p, q)
  BY <1>2, PathFacts, OverlayFacts, SourceFacts DEF Laid, Overlay
<1>5. /\ h \in Dirs /\ h \in ToVisit /\ ToVisit' = (ToVisit \ {h}) \cup C
  BY <1>2, <1>3, <1>4, VisitSteps
<1>6. StackOK' /\ DirsOK' /\ Pending' = Pending \ F
  BY <1>1, <1>2, <1>3, WalkSteps
<1>7. /\ \A e : e \in F <=> Child(h, e) /\ e \in O
      /\ \A e : e \in C <=> Child(h, e) /\ e \notin O /\ \E f \in O : Tree!IsPrefix(e, f)
  <2>1. \A e : e \in Tree!Entries(Overlay, h) <=> Child(h, e) /\ \E f \in O : Tree!IsPrefix(e, f)
    BY <1>4, <1>5, EntriesAre
  <2>2. \A e \in O : Tree!IsPrefix(e, e)
    BY <1>4, PrefixOrders DEF Paths
  <2> QED
    BY <2>1, <2>2 DEF Tree!HereFiles, Tree!HereDirs
<1>8. \A e : e \in Tree!Entries(source, h)
               <=> Child(h, e) /\ \E p \in DOMAIN source : Tree!IsPrefix(e, p)
  BY <1>4, <1>5, EntriesAre
<1>9. \A e \in S : Child(h, e) /\ e \notin O /\ e \notin C
  BY <1>3, <1>7, <1>8
<1>10. ToVisit \subseteq Dirs /\ \A d, e \in ToVisit : Tree!IsPrefix(d, e) => d = e
  BY <1>2 DEF StackOK, ToVisit
<1>11. /\ LinksAlone /\ SourcesAlone /\ OverlayAlone /\ Visited /\ SourceCovered /\ OverlayCovered
  BY <1>2 DEF LinkedOK
<1>12. Overlay' = Overlay
  BY <1>1 DEF Overlay, Tree!OverlayOf, Tree!Under
<1> HIDE DEF h, O, F, C, S, L
<1>13. /\ DOMAIN out' = F \cup S \cup DOMAIN out
       /\ \A p \in F : out'[p] = Tree!Link(Tree!LLVM_PROJECT_OVERLAY \o p)
       /\ \A p \in S : out'[p] = Tree!Link(p)
       /\ \A p \in DOMAIN out : p \notin F \cup S => out'[p] = out[p]
  BY <1>3 DEF Tree!Over
<1>14. \A x : Tree!Link(x).link
  BY DEF Tree!Link
<1>15. /\ LinksAlone' /\ DOMAIN out = L /\ DOMAIN out' = F \cup S \cup L
       /\ Tree!Links' = F \cup S \cup L
  <2>1. DOMAIN out = L
    BY <1>11 DEF LinksAlone, Tree!Links, L
  <2>2. LinksAlone'
    BY <1>11, <1>13, <1>14 DEF LinksAlone
  <2>3. Tree!Links' = DOMAIN out'
    BY <2>2 DEF LinksAlone, Tree!Links
  <2> QED
    BY <1>13, <2>1, <2>2, <2>3
<1>16. ASSUME NEW q \in L, NEW e, Child(h, e)
       PROVE  ~Tree!IsPrefix(q, e) /\ ~Tree!IsPrefix(e, q)
  <2>1. ~Tree!IsPrefix(q, h) /\ ~Tree!IsPrefix(h, q)
    BY <1>5, <1>11 DEF Visited, L
  <2>2. q \in Dirs /\ e \in Dirs /\ Tree!IsPrefix(h, e)
    BY <1>4, <1>16 DEF Paths, Child
  <2>3. q = e \/ Tree!IsPrefix(q, h) \/ ~Tree!IsPrefix(q, e)
    BY <1>5, <1>16, <2>2, ChildPrefix
  <2>4. Tree!IsPrefix(e, q) => Tree!IsPrefix(h, q)
    BY <1>5, <2>2, PrefixOrders
  <2> QED
    BY <2>1, <2>2, <2>3, <2>4
<1>17. \A e \in F \cup S \cup C : Child(h, e)
  BY <1>7, <1>9
<1>18. PathOK'
  <2>1. DOMAIN out' \subseteq Paths
    <3>1. \A e \in F \cup S : e \in Paths
      BY <1>5, <1>17, ChildPrefix
    <3> QED
      BY <1>4, <1>15, <3>1
  <2>2. ASSUME NEW q \in Tree!Links', NEW r \in Tree!Links', Tree!IsPrefix(q, r) PROVE q = r
    <3>1. CASE q \in L /\ r \in L
      BY <1>2, <2>2, <3>1 DEF PathOK, L
    <3>2. CASE q \in F \cup S /\ r \in F \cup S
      BY <1>5, <1>17, <2>2, <3>2, ChildrenApart
    <3>3. CASE q \in L /\ r \in F \cup S
      BY <1>16, <1>17, <2>2, <3>3
    <3>4. CASE q \in F \cup S /\ r \in L
      BY <1>16, <1>17, <2>2, <3>4
    <3> QED
      BY <1>15, <3>1, <3>2, <3>3, <3>4
  <2>3. ASSUME NEW q \in Tree!Links', q \in O
        PROVE  out'[q] = Tree!Link(Tree!LLVM_PROJECT_OVERLAY \o q)
    <3>1. q \notin S
      BY <1>9, <2>3
    <3>2. q \in L => out[q] = Tree!Link(Tree!LLVM_PROJECT_OVERLAY \o q)
      BY <1>2, <2>3 DEF PathOK, L, O
    <3> QED
      BY <1>13, <1>15, <3>1, <3>2
  <2>4. ASSUME NEW q \in Tree!Links', q \notin O PROVE out'[q] = Tree!Link(q)
    <3>1. q \notin F
      BY <1>7, <2>4
    <3>2. q \in L => out[q] = Tree!Link(q)
      BY <1>2, <2>4 DEF PathOK, L, O
    <3> QED
      BY <1>13, <1>15, <3>1, <3>2
  <2>5. src' = source' /\ source' \in Sources
    BY <1>1, <1>2
  <2> QED
    BY <1>12, <2>1, <2>2, <2>3, <2>4, <2>5 DEF PathOK, O
<1>19. SourcesAlone'
  <2>1. ASSUME NEW q \in Tree!Links', q \notin O, NEW f \in O, Tree!IsPrefix(q, f) PROVE FALSE
    <3>1. CASE q \in L
      BY <1>11, <2>1, <3>1 DEF SourcesAlone, L, O
    <3>2. CASE q \in S
      BY <1>7, <1>9, <2>1, <3>2
    <3>3. q \notin F
      BY <1>7, <2>1
    <3> QED
      BY <1>15, <3>1, <3>2, <3>3
  <2> QED
    BY <1>12, <2>1 DEF SourcesAlone, O
<1>20. OverlayAlone'
  <2>1. ASSUME NEW q \in Tree!Links', q \in O, NEW p \in DOMAIN source, Tree!IsPrefix(q, p)
        PROVE  FALSE
    <3>1. CASE q \in L
      BY <1>11, <2>1, <3>1 DEF OverlayAlone, L, O
    <3>2. CASE q \in F
      <4>1. q \in Tree!Entries(source, h) /\ q \notin C
        BY <1>7, <1>8, <2>1, <3>2
      <4> QED
        BY <1>3, <3>2, <4>1
    <3>3. q \notin S
      BY <1>9, <2>1
    <3> QED
      BY <1>15, <3>1, <3>2, <3>3
  <2> QED
    BY <1>1, <1>12, <2>1 DEF OverlayAlone, O
<1>21. Visited'
  <2>1. ASSUME NEW q \in F \cup S \cup L, NEW d \in (ToVisit \ {h}) \cup C
        PROVE  ~Tree!IsPrefix(q, d) /\ ~Tree!IsPrefix(d, q)
    <3>1. CASE q \in L /\ d \in ToVisit
      BY <1>11, <3>1 DEF Visited, L
    <3>2. CASE q \in L /\ d \in C
      BY <1>16, <1>17, <3>2
    <3>3. CASE q \in F \cup S /\ d \in C
      <4>1. q # d
        BY <1>7, <1>9, <3>3
      <4>2. Child(h, q) /\ Child(h, d)
        BY <1>17, <3>3
      <4> QED
        BY <1>5, <4>1, <4>2, ChildrenApart
    <3>4. CASE q \in F \cup S /\ d \in ToVisit \ {h}
      <4>1. Child(h, q) /\ d \in Dirs /\ q \in Dirs /\ Tree!IsPrefix(h, q)
        BY <1>10, <1>17, <3>4 DEF Child
      <4>2. ~Tree!IsPrefix(d, h) /\ ~Tree!IsPrefix(h, d)
        BY <1>5, <1>10, <3>4
      <4>3. Tree!IsPrefix(d, q) => d = q
        BY <1>5, <4>1, <4>2, ChildPrefix
      <4>4. ~Tree!IsPrefix(q, d)
        BY <1>5, <4>1, <4>2, PrefixOrders
      <4>5. Tree!IsPrefix(q, q)
        BY <4>1, PrefixOrders
      <4> QED
        BY <4>3, <4>4, <4>5
    <3> QED
      BY <3>1, <3>2, <3>3, <3>4
  <2> QED
    BY <1>5, <1>15, <2>1 DEF Visited
<1>22. SourceCovered'
  <2>1. ASSUME NEW p \in DOMAIN source
        PROVE  \/ \E q \in Tree!Links' \ O : Tree!IsPrefix(q, p)
               \/ \E d \in ToVisit' : Tree!IsStrictPrefix(d, p)
    <3>1. CASE \E q \in L \ O : Tree!IsPrefix(q, p)
      BY <1>15, <3>1
    <3>2. CASE \E d \in ToVisit : Tree!IsStrictPrefix(d, p) /\ d # h
      BY <1>5, <3>2
    <3>3. CASE Tree!IsStrictPrefix(h, p)
      <4> DEFINE c == Append(h, p[Len(h) + 1])
      <4>1. p \in Dirs
        BY <1>4 DEF Paths
      <4>2. Child(h, c) /\ Tree!IsPrefix(c, p)
        BY <1>5, <3>3, <4>1, ChildAbove
      <4> HIDE DEF c
      <4>3. c \in Tree!Entries(source, h)
        BY <1>8, <4>2
      <4>4. CASE c \in C
        <5>1. PICK f \in O : Tree!IsPrefix(c, f) /\ c # f
          BY <1>7, <4>4
        <5>2. c # p
          BY <1>4, <5>1 DEF Tree!IsStrictPrefix
        <5> QED
          BY <1>5, <4>2, <4>4, <5>2 DEF Tree!IsStrictPrefix
      <4>5. CASE c \notin C
        <5>1. c \in S
          BY <1>3, <4>3, <4>5
        <5> QED
          BY <1>9, <1>15, <4>2, <5>1
      <4> QED
        BY <4>4, <4>5
    <3>4. \/ \E q \in L \ O : Tree!IsPrefix(q, p)
          \/ \E d \in ToVisit : Tree!IsStrictPrefix(d, p)
      BY <1>11 DEF SourceCovered, L, O
    <3> QED
      BY <3>1, <3>2, <3>3, <3>4
  <2> QED
    BY <1>1, <1>12, <2>1 DEF SourceCovered, O
<1>23. OverlayCovered'
  <2>1. O \ Pending \subseteq L
    BY <1>11 DEF OverlayCovered, L, O
  <2>2. O \ Pending' \subseteq Tree!Links'
    BY <1>6, <1>15, <2>1
  <2> QED
    BY <1>12, <2>2 DEF OverlayCovered, O
<1>24. UtilsWhole'
  <2>1. ASSUME NEW q \in F \cup S, Tree!IsStrictPrefix(Utils, q) PROVE FALSE
    <3>1. Child(h, q) /\ Utils \in Dirs
      BY <1>17, NamedPaths DEF Paths
    <3>2. Tree!IsPrefix(Utils, h)
      BY <1>5, <2>1, <3>1, ChildPrefix DEF Tree!IsStrictPrefix
    <3>3. PICK f \in O : Tree!IsStrictPrefix(h, f)
      BY <1>2, <1>5 DEF DirsOK, O
    <3>4. Tree!IsPrefix(Utils, f)
      BY <1>4, <1>5, <3>1, <3>2, <3>3, PrefixOrders DEF Tree!IsStrictPrefix, Paths
    <3> QED
      BY <1>2, <3>4, SourceFacts DEF Overlay, O
  <2>2. \A q \in L : ~Tree!IsStrictPrefix(Utils, q)
    BY <1>2 DEF UtilsWhole, L
  <2> QED
    BY <1>15, <2>1, <2>2 DEF UtilsWhole
<1>25. LinkedOK'
  BY <1>15, <1>19, <1>20, <1>21, <1>22, <1>23 DEF LinkedOK
<1>26. treePc' \in {"overlay", "third party"}
       /\ (treePc' = "overlay" => stack' # <<>>) /\ (treePc' = "third party" => stack' = <<>>)
  BY <1>1
<1> QED
  BY <1>6, <1>18, <1>24, <1>25, <1>26 DEF PathInv

\* The directories that are made anew are those above what is below them.
ThirdPartyDirs == {SubSeq(Tree!ThirdParty, 1, n) : n \in 1 .. Len(Tree!ThirdParty)}

LEMMA ThirdPartyDirsAre ==
  /\ ThirdPartyDirs = {Utils, UtilsBazel, Tree!ThirdParty}
  /\ \A e \in Paths : Tree!IsPrefix(e, Tree!ThirdParty) => e \in ThirdPartyDirs
<1> DEFINE t == Tree!ThirdParty
<1>1. t \in Dirs /\ Len(t) = 3
  BY NamedPaths DEF Paths
<1>2. t = <<"utils", "bazel", "third_party_build">>
  BY DEF Tree!ThirdParty
<1>3. SubSeq(t, 1, 1) = Utils /\ SubSeq(t, 1, 2) = UtilsBazel /\ SubSeq(t, 1, 3) = t
  <2>1. /\ Utils \in Dirs /\ UtilsBazel \in Dirs
        /\ Tree!IsPrefix(Utils, t) /\ Tree!IsPrefix(UtilsBazel, t)
        /\ Len(Utils) = 1 /\ Len(UtilsBazel) = 2
    BY NamedPaths DEF Paths
  <2> HIDE DEF t
  <2>2. \A e \in Dirs : Tree!IsPrefix(e, t) => SubSeq(t, 1, Len(e)) = e
    BY SubSeqFull DEF Tree!IsPrefix, Dirs
  <2>3. Tree!IsPrefix(t, t)
    BY <1>1, PrefixOrders
  <2> QED
    BY <1>1, <2>1, <2>2, <2>3
<1>4. 1 .. Len(t) = {1, 2, 3}
  BY <1>1
<1> HIDE DEF t
<1>5. ThirdPartyDirs = {Utils, UtilsBazel, t}
  BY <1>3, <1>4 DEF ThirdPartyDirs, t
<1>6. ASSUME NEW e \in Paths, Tree!IsPrefix(e, t) PROVE e \in ThirdPartyDirs
  <2>1. e \in Dirs /\ e # <<>> /\ Len(e) \in Nat /\ Len(e) <= 3 /\ Len(e) # 0
    BY <1>1, <1>6, PrefixIs, EmptySeq DEF Paths, Dirs
  <2>2. Len(e) \in 1 .. Len(t)
    BY <1>4, <2>1
  <2>3. e = SubSeq(e, 1, Len(e)) /\ SubSeq(e, 1, Len(e)) = SubSeq(t, 1, Len(e))
    BY <1>6, <2>1, SubSeqFull DEF Tree!IsPrefix, Dirs
  <2> QED
    BY <2>2, <2>3 DEF ThirdPartyDirs, t
<1> QED
  BY <1>5, <1>6 DEF t

\* The links to utils, utils/bazel and third_party_build give way to directories
\* with links to what they held.
LEMMA MaterializeKeeps ==
  ASSUME BaseInv, PathInv, way = "path", Tree!_materialize_third_party_build
  PROVE  PathInv'
<1> DEFINE D == ThirdPartyDirs
           T == Tree!ThirdParty
           O == DOMAIN Overlay
           L == Tree!Links
           N == (UNION {Tree!Entries(source, d) : d \in D}) \ D
<1>1. /\ treePc = "third party" /\ treePc' = "write"
      /\ UNCHANGED <<way, source, patch, src, stack>>
      /\ PathOK /\ LinkedOK /\ stack = <<>> /\ UtilsWhole /\ src = source /\ source \in Sources
  BY DEF Tree!_materialize_third_party_build, Tree!Step, Tree!input, PathInv, BaseInv, PathOK
<1>2. /\ Tree!IsDir(source, T)
      /\ out' = Tree!Over([p \in N |-> Tree!Link(p)], Tree!Without(out, {Utils}))
  BY <1>1 DEF Tree!_materialize_third_party_build, ThirdPartyDirs, Utils
<1>3. /\ D = {Utils, UtilsBazel, T}
      /\ \A e \in Paths : Tree!IsPrefix(e, T) => e \in D
  BY ThirdPartyDirsAre
<1>4. /\ Utils \in Dirs /\ UtilsBazel \in Dirs /\ T \in Dirs /\ Utils \in Paths
      /\ Tree!IsPrefix(Utils, Utils) /\ Tree!IsPrefix(Utils, UtilsBazel) /\ Tree!IsPrefix(Utils, T)
      /\ Tree!IsPrefix(UtilsBazel, T) /\ Tree!IsPrefix(T, T)
      /\ Len(Utils) = 1 /\ Len(UtilsBazel) = 2 /\ Len(T) = 3
  BY NamedPaths, PrefixOrders DEF Paths
<1>5. /\ DOMAIN source \subseteq Paths /\ O \subseteq Paths /\ L \subseteq Paths
      /\ \A p, q \in DOMAIN source : ~Tree!IsStrictPrefix(p, q)
      /\ \A f \in O : ~Tree!IsPrefix(Utils, f)
  BY <1>1, PathFacts, SourceFacts DEF Laid, Overlay
<1>6. /\ LinksAlone /\ SourcesAlone /\ OverlayAlone /\ SourceCovered /\ OverlayCovered
  BY <1>1 DEF LinkedOK
<1>7. ToVisit = {} /\ ToVisit' = {} /\ Pending = {} /\ Pending' = {}
  <2>1. ToVisit = {} /\ ToVisit' = {}
    <3>1. stack = <<>> /\ stack' = <<>>
      BY <1>1
    <3>2. ToVisit = {}
      BY <3>1 DEF ToVisit
    <3>3. ToVisit' = {}
      BY <3>1 DEF ToVisit
    <3> QED
      BY <3>2, <3>3
  <2>2. Pending = {} /\ Pending' = {}
    BY <2>1 DEF Pending
  <2> QED
    BY <2>1, <2>2
<1>8. Overlay' = Overlay
  BY <1>1 DEF Overlay, Tree!OverlayOf, Tree!Under
<1>9. \E p \in DOMAIN source : Tree!IsStrictPrefix(T, p)
  BY <1>2, <1>4, <1>5, EntriesAre
<1> HIDE DEF T, D
<1>10. \A d \in D : d \in Dirs /\ Tree!IsPrefix(Utils, d) /\ Tree!IsPrefix(d, T)
  BY <1>3, <1>4
<1>11. \A e : e \in N <=> /\ e \notin D
                          /\ \E d \in D : Child(d, e)
                          /\ \E p \in DOMAIN source : Tree!IsPrefix(e, p)
  <2>1. \A d \in D : \A e : e \in Tree!Entries(source, d)
                              <=> Child(d, e) /\ \E p \in DOMAIN source : Tree!IsPrefix(e, p)
    BY <1>5, <1>10, EntriesAre
  <2>2. \A e : e \in N <=> e \notin D /\ \E d \in D : e \in Tree!Entries(source, d)
    OBVIOUS
  <2> HIDE DEF N
  <2> QED
    BY <2>1, <2>2
<1> HIDE DEF N, L, O
<1>12. /\ DOMAIN out' = N \cup {p \in DOMAIN out : ~Tree!IsPrefix(Utils, p)}
       /\ \A p \in N : out'[p] = Tree!Link(p)
       /\ \A p \in DOMAIN out' : p \notin N => out'[p] = out[p]
  BY <1>2 DEF Tree!Over, Tree!Without
<1>13. \A x : Tree!Link(x).link
  BY DEF Tree!Link
<1>14. DOMAIN out = L /\ LinksAlone' /\ Tree!Links' = N \cup {q \in L : ~Tree!IsPrefix(Utils, q)}
  <2>1. DOMAIN out = L
    BY <1>6 DEF LinksAlone, Tree!Links, L
  <2>2. LinksAlone'
    BY <1>6, <1>12, <1>13 DEF LinksAlone
  <2>3. Tree!Links' = DOMAIN out'
    BY <2>2 DEF LinksAlone, Tree!Links
  <2> QED
    BY <1>12, <2>1, <2>2, <2>3
<1>15. ASSUME NEW e \in N
       PROVE  /\ e \in Paths /\ e \in Dirs /\ Tree!IsPrefix(Utils, e) /\ ~Tree!IsPrefix(e, T)
  <2>1. PICK d \in D : Child(d, e)
    BY <1>11
  <2>2. e \in Paths /\ e \in Dirs /\ Tree!IsPrefix(d, e)
    BY <1>10, <2>1, ChildPrefix DEF Child
  <2>3. Tree!IsPrefix(Utils, e)
    BY <1>4, <1>10, <2>2, PrefixOrders
  <2>4. ~Tree!IsPrefix(e, T)
    BY <1>3, <1>11, <2>2
  <2> QED
    BY <2>2, <2>3, <2>4
<1>16. \A e \in N : e \notin O /\ \A f \in O : ~Tree!IsPrefix(e, f)
  <2>1. ASSUME NEW e \in N, NEW f \in O, Tree!IsPrefix(e, f) PROVE FALSE
    <3>1. Tree!IsPrefix(Utils, f)
      BY <1>4, <1>5, <1>15, <2>1, PrefixOrders DEF Paths
    <3> QED
      BY <1>5, <3>1
  <2> QED
    BY <1>5, <1>15, <2>1
<1>17. ASSUME NEW e \in N, NEW g \in N, Tree!IsPrefix(e, g) PROVE e = g
  <2>1. PICK d \in D : Child(d, g)
    BY <1>11
  <2>2. e = g \/ Tree!IsPrefix(e, d)
    BY <1>10, <1>15, <1>17, <2>1, ChildPrefix
  <2>3. Tree!IsPrefix(e, d) => Tree!IsPrefix(e, T)
    BY <1>4, <1>10, <1>15, PrefixOrders
  <2> QED
    BY <1>15, <2>2, <2>3
<1>18. PathOK'
  <2>1. DOMAIN out' \subseteq Paths
    BY <1>5, <1>12, <1>14, <1>15
  <2>2. ASSUME NEW q \in Tree!Links', NEW r \in Tree!Links', Tree!IsPrefix(q, r) PROVE q = r
    <3>1. CASE q \in L /\ r \in L
      BY <1>1, <2>2, <3>1 DEF PathOK, L
    <3>2. CASE q \in N /\ r \in N
      BY <1>17, <2>2, <3>2
    <3>3. CASE q \in L /\ ~Tree!IsPrefix(Utils, q) /\ r \in N
      <4>1. q \in Dirs /\ r \in Dirs /\ Tree!IsPrefix(Utils, r)
        BY <1>5, <1>15, <3>3 DEF Paths
      <4>2. Tree!IsPrefix(q, Utils)
        BY <1>4, <2>2, <3>3, <4>1, PrefixOrders
      <4>3. q \in D
        BY <1>3, <1>4, <1>5, <3>3, <4>1, <4>2, PrefixOrders
      <4> QED
        BY <1>10, <3>3, <4>3
    <3>4. CASE q \in N /\ r \in L /\ ~Tree!IsPrefix(Utils, r)
      <4>1. Tree!IsPrefix(Utils, q) /\ q \in Dirs /\ r \in Dirs
        BY <1>5, <1>15, <3>4 DEF Paths
      <4> QED
        BY <1>4, <2>2, <3>4, <4>1, PrefixOrders
    <3> QED
      BY <1>14, <3>1, <3>2, <3>3, <3>4
  <2>3. ASSUME NEW q \in Tree!Links', q \in O
        PROVE  out'[q] = Tree!Link(Tree!LLVM_PROJECT_OVERLAY \o q)
    <3>1. q \notin N
      BY <1>16, <2>3
    <3>2. q \in L => out[q] = Tree!Link(Tree!LLVM_PROJECT_OVERLAY \o q)
      BY <1>1, <2>3 DEF PathOK, L, O
    <3> QED
      BY <1>12, <1>14, <3>1, <3>2
  <2>4. ASSUME NEW q \in Tree!Links', q \notin O PROVE out'[q] = Tree!Link(q)
    <3>1. q \in L => out[q] = Tree!Link(q)
      BY <1>1, <2>4 DEF PathOK, L, O
    <3> QED
      BY <1>12, <1>14, <3>1
  <2>5. src' = source' /\ source' \in Sources
    BY <1>1
  <2> QED
    BY <1>8, <2>1, <2>2, <2>3, <2>4, <2>5 DEF PathOK, O
<1>19. SourcesAlone'
  <2>1. \A q \in L : q \notin O => \A f \in O : ~Tree!IsPrefix(q, f)
    BY <1>6 DEF SourcesAlone, L, O
  <2>2. \A q \in Tree!Links' : q \notin O => \A f \in O : ~Tree!IsPrefix(q, f)
    BY <1>14, <1>16, <2>1
  <2> QED
    BY <1>8, <2>2 DEF SourcesAlone, O
<1>20. OverlayAlone'
  <2>1. \A q \in L : q \in O => \A p \in DOMAIN source : ~Tree!IsPrefix(q, p)
    BY <1>6 DEF OverlayAlone, L, O
  <2>2. \A q \in Tree!Links' : q \in O => \A p \in DOMAIN source : ~Tree!IsPrefix(q, p)
    BY <1>14, <1>16, <2>1
  <2> QED
    BY <1>1, <1>8, <2>2 DEF OverlayAlone, O
<1>21. Visited'
  BY <1>7 DEF Visited
<1>22. SourceCovered'
  <2>1. ASSUME NEW p \in DOMAIN source
        PROVE  \E q \in Tree!Links' : q \notin O /\ Tree!IsPrefix(q, p)
    <3>1. p \in Paths /\ p \in Dirs
      BY <1>5 DEF Paths
    <3>2. CASE ~Tree!IsPrefix(Utils, p)
      <4>1. PICK q \in L : q \notin O /\ Tree!IsPrefix(q, p)
        BY <1>6, <1>7 DEF SourceCovered, L, O
      <4>2. ~Tree!IsPrefix(Utils, q)
        BY <1>4, <1>5, <3>1, <3>2, <4>1, PrefixOrders DEF Paths
      <4> QED
        BY <1>14, <4>1, <4>2
    <3>3. CASE Tree!IsPrefix(Utils, p)
      <4>1. ~Tree!IsPrefix(p, T)
        <5>1. ASSUME Tree!IsPrefix(p, T) PROVE FALSE
          <6>1. PICK r \in DOMAIN source : Tree!IsStrictPrefix(T, r)
            BY <1>9
          <6>2. r \in Dirs /\ Tree!IsPrefix(T, r) /\ Len(T) < Len(r) /\ Len(p) <= Len(T)
            BY <1>4, <1>5, <3>1, <5>1, <6>1, StrictIs, PrefixIs DEF Paths
          <6>3. Tree!IsPrefix(p, r)
            BY <1>4, <3>1, <5>1, <6>2, PrefixOrders
          <6>4. Len(p) \in Nat /\ Len(T) \in Nat /\ Len(r) \in Nat
            BY <1>4, <3>1, <6>2 DEF Dirs
          <6>5. Tree!IsStrictPrefix(p, r)
            BY <3>1, <6>2, <6>3, <6>4, StrictIs
          <6> QED
            BY <1>5, <6>5
        <5> QED
          BY <5>1
      <4>2. ASSUME NEW d \in D, Tree!IsPrefix(d, p),
                   \A e \in D : Child(d, e) => ~Tree!IsPrefix(e, p)
            PROVE  \E q \in N : Tree!IsPrefix(q, p)
        <5>1. d \in Dirs /\ Tree!IsStrictPrefix(d, p)
          BY <1>10, <4>1, <4>2 DEF Tree!IsStrictPrefix
        <5>2. PICK e : Child(d, e) /\ Tree!IsPrefix(e, p)
          BY <3>1, <5>1, ChildAbove
        <5> QED
          BY <1>11, <4>2, <5>2
      <4>4. \E q \in N : Tree!IsPrefix(q, p)
        <5>1. CASE Tree!IsPrefix(T, p)
          <6>1. ASSUME NEW e \in D, Child(T, e) PROVE FALSE
            <7>1. Len(e) = Len(T) + 1
              BY <6>1 DEF Child
            <7> QED
              BY <1>3, <1>4, <7>1
          <6> QED
            BY <1>3, <4>2, <5>1, <6>1
        <5>2. CASE ~Tree!IsPrefix(T, p) /\ Tree!IsPrefix(UtilsBazel, p)
          <6>1. ASSUME NEW e \in D, Child(UtilsBazel, e) PROVE e = T
            <7>1. Len(e) = Len(UtilsBazel) + 1
              BY <6>1 DEF Child
            <7> QED
              BY <1>3, <1>4, <7>1
          <6> QED
            BY <1>3, <4>2, <5>2, <6>1
        <5>3. CASE ~Tree!IsPrefix(T, p) /\ ~Tree!IsPrefix(UtilsBazel, p)
          <6>1. ASSUME NEW e \in D, Child(Utils, e) PROVE e = UtilsBazel
            <7>1. Len(e) = Len(Utils) + 1
              BY <6>1 DEF Child
            <7> QED
              BY <1>3, <1>4, <7>1
          <6> QED
            BY <1>3, <3>3, <4>2, <5>3, <6>1
        <5> QED
          BY <5>1, <5>2, <5>3
      <4> QED
        BY <1>14, <1>16, <4>4
    <3> QED
      BY <3>2, <3>3
  <2> QED
    BY <1>1, <1>8, <2>1 DEF SourceCovered, O
<1>23. OverlayCovered'
  <2>1. O \subseteq L
    BY <1>6, <1>7 DEF OverlayCovered, L, O
  <2>2. O \subseteq Tree!Links'
    BY <1>5, <1>14, <2>1
  <2> QED
    BY <1>8, <2>2 DEF OverlayCovered, O
<1>24. UtilsOpen'
  <2>1. ASSUME NEW q \in L, ~Tree!IsPrefix(Utils, q) PROVE ~Tree!IsPrefix(q, T)
    BY <1>3, <1>5, <1>10, <2>1
  <2> QED
    BY <1>14, <1>15, <2>1 DEF UtilsOpen, T
<1>25. LinkedOK'
  BY <1>14, <1>19, <1>20, <1>21, <1>22, <1>23 DEF LinkedOK
<1> QED
  BY <1>1, <1>18, <1>24, <1>25 DEF PathInv

\* What is written in the end is no directory, and no link leads away from it.
LEMMA WrittenIsOpen ==
  ASSUME PathOK, SourcesAlone, UtilsOpen, NEW t, NEW p \in DOMAIN Tree!Written(t),
         NEW q \in Tree!Links
  PROVE  ~Tree!IsStrictPrefix(q, p)
<1>0. {"BUILD.bazel", "vars.bzl", "targets.bzl", "llvm", "bolt", ".bazelignore"} \subseteq Names
  BY PathsAssumption
<1>1. /\ source \in Sources /\ q \in Paths /\ q \in Dirs /\ p \in Dirs
      /\ DOMAIN Overlay \subseteq Paths
      /\ \A f, g \in DOMAIN Overlay : ~Tree!IsStrictPrefix(f, g)
  BY PathFacts, WrittenPaths, OverlayFacts DEF PathOK, Paths
<1>2. \/ p \in {<<"BUILD.bazel">>, <<"vars.bzl">>, <<".bazelignore">>}
      \/ p = <<"llvm", "targets.bzl">> \/ p = <<"bolt", "targets.bzl">>
      \/ p = Tree!ThirdParty \o <<"BUILD.bazel">>
  BY DEF Tree!Written
<1>3. CASE p \in {<<"BUILD.bazel">>, <<"vars.bzl">>, <<".bazelignore">>}
  <2>1. Len(p) = 1
    BY <1>3
  <2>2. Len(q) \in Nat /\ Len(q) # 0
    BY <1>1, EmptySeq DEF Paths, Dirs
  <2>3. Tree!IsStrictPrefix(q, p) => Len(q) < Len(p)
    BY <1>1, StrictIs
  <2> QED
    BY <2>1, <2>2, <2>3
<1>4. ASSUME NEW d \in Dirs, Child(d, p), \E f \in DOMAIN Overlay : Tree!IsStrictPrefix(d, f)
      PROVE  ~Tree!IsStrictPrefix(q, p)
  <2>1. PICK f \in DOMAIN Overlay : Tree!IsStrictPrefix(d, f)
    BY <1>4
  <2>2. ASSUME Tree!IsStrictPrefix(q, p) PROVE FALSE
    <3>1. Tree!IsPrefix(q, d)
      BY <1>1, <1>4, <2>2, ChildPrefix DEF Tree!IsStrictPrefix
    <3>2. f \in Dirs /\ Tree!IsPrefix(d, f) /\ Len(d) < Len(f) /\ Len(q) <= Len(d)
      BY <1>1, <1>4, <2>1, <3>1, StrictIs, PrefixIs DEF Paths
    <3>3. Tree!IsPrefix(q, f)
      BY <1>1, <1>4, <3>1, <3>2, PrefixOrders
    <3>4. q # f
      <4>1. Len(q) \in Nat /\ Len(d) \in Nat /\ Len(f) \in Nat
        BY <1>1, <1>4, <3>2 DEF Dirs
      <4> QED
        BY <3>2, <4>1
    <3>5. q \notin DOMAIN Overlay
      BY <1>1, <3>3, <3>4 DEF Tree!IsStrictPrefix
    <3> QED
      BY <3>3, <3>5 DEF SourcesAlone
  <2> QED
    BY <2>2
<1>5. ASSUME NEW x \in Names, NEW y \in Names PROVE <<x>> \in Dirs /\ Child(<<x>>, <<x, y>>)
  <2>1. <<x>> \in Dirs /\ <<x, y>> \in Dirs /\ Len(<<x>>) = 1 /\ Len(<<x, y>>) = 2
    BY DEF Dirs
  <2>2. \A i \in 1 .. 1 : <<x>>[i] = <<x, y>>[i]
    OBVIOUS
  <2>3. Tree!IsPrefix(<<x>>, <<x, y>>)
    BY <2>1, <2>2, 1 <= 2, PrefixBy
  <2> QED
    BY <2>1, <2>3 DEF Child
<1>6. CASE p = <<"llvm", "targets.bzl">>
  <2>1. <<"llvm">> \in Dirs /\ Child(<<"llvm">>, p)
    BY <1>0, <1>5, <1>6
  <2>2. \E f \in DOMAIN Overlay : Tree!IsStrictPrefix(<<"llvm">>, f)
    BY <1>1, SourceFacts DEF Overlay
  <2> QED
    BY <1>4, <2>1, <2>2
<1>7. CASE p = <<"bolt", "targets.bzl">>
  <2>1. <<"bolt">> \in Dirs /\ Child(<<"bolt">>, p)
    BY <1>0, <1>5, <1>7
  <2>2. \E f \in DOMAIN Overlay : Tree!IsStrictPrefix(<<"bolt">>, f)
    BY <1>1, SourceFacts DEF Overlay
  <2> QED
    BY <1>4, <2>1, <2>2
<1>8. CASE p = Tree!ThirdParty \o <<"BUILD.bazel">>
  <2>1. Tree!ThirdParty \in Dirs /\ <<"BUILD.bazel">> \in Dirs
    BY <1>0, NamedPaths DEF Paths, Dirs
  <2>2. Tree!IsPrefix(Tree!ThirdParty, p) /\ Len(p) = Len(Tree!ThirdParty) + 1
    <3>1. Tree!IsPrefix(Tree!ThirdParty, p)
      BY <1>8, <2>1, ConcatPrefix
    <3>2. Len(p) = Len(Tree!ThirdParty) + Len(<<"BUILD.bazel">>) /\ Len(<<"BUILD.bazel">>) = 1
      BY <1>8, <2>1, ConcatProperties DEF Dirs
    <3> QED
      BY <3>1, <3>2
  <2>3. Child(Tree!ThirdParty, p)
    BY <1>1, <2>2 DEF Child
  <2>4. Tree!IsStrictPrefix(q, p) => Tree!IsPrefix(q, Tree!ThirdParty)
    BY <1>1, <2>1, <2>3, ChildPrefix DEF Tree!IsStrictPrefix
  <2> QED
    BY <2>4 DEF UtilsOpen
<1> QED
  BY <1>2, <1>3, <1>6, <1>7, <1>8

LEMMA WriteKeepsPath ==
  ASSUME BaseInv, PathInv, way = "path", Tree!write_llvm_project_files
  PROVE  PathInv'
<1> DEFINE O == DOMAIN Overlay
           L == Tree!Links
           W == DOMAIN Tree!Written(source)
           t == Tree!Written(Tree!View)
           T == {p \in DOMAIN t : \E q \in Tree!Links : Tree!IsStrictPrefix(q, p)}
<1>1. /\ treePc = "write" /\ treePc' = "done" /\ UNCHANGED <<way, source, patch, stack>>
      /\ Tree!Write(t)
  BY DEF Tree!write_llvm_project_files, Tree!Step, Tree!input
<1>2. /\ PathOK /\ LinkedOK /\ UtilsOpen /\ stack = <<>> /\ patch = Tree!Root
      /\ src = source /\ source \in Sources
  BY <1>1 DEF PathInv, BaseInv, PathOK
<1>3. /\ LinksAlone /\ SourcesAlone /\ OverlayAlone /\ SourceCovered /\ OverlayCovered
  BY <1>2 DEF LinkedOK
<1>4. ToVisit = {} /\ Pending = {}
  <2>1. ToVisit = {}
    BY <1>2 DEF ToVisit
  <2> QED
    BY <2>1 DEF Pending
<1>5. /\ O \subseteq L
      /\ \A p \in DOMAIN source : \E q \in L : q \notin O /\ Tree!IsPrefix(q, p)
  BY <1>3, <1>4 DEF OverlayCovered, SourceCovered
<1>6. LinkedOverlay = O /\ LinkedSource = DOMAIN source
  BY <1>5 DEF LinkedOverlay, LinkedSource
<1>7. PathSeen
  BY <1>2, PathView
<1>8. \A p : p \in DOMAIN Tree!View <=> p \in O \/ p \in DOMAIN source
  BY <1>3, <1>6, <1>7 DEF PathSeen, Plain, LinksAlone
<1>9. Tree!Pfm \notin O
  <2>1. \A p \in O : ~Tree!IsPrefix(Utils, p)
    BY <1>2, SourceFacts DEF Overlay
  <2>2. /\ Utils \in Dirs /\ Tree!ThirdParty \in Dirs /\ Tree!Pfm \in Dirs
        /\ Tree!IsPrefix(Utils, Tree!ThirdParty) /\ Tree!IsPrefix(Tree!ThirdParty, Tree!Pfm)
    BY NamedPaths DEF Paths, Tree!IsStrictPrefix
  <2> QED
    BY <2>1, <2>2, PrefixOrders
<1>10. t = Tree!Written(source)
  BY <1>8, <1>9, WrittenPaths
<1>11. T = {}
  BY <1>2, <1>3, WrittenIsOpen
<1>12. /\ out' = Tree!Over([p \in DOMAIN t \ T |-> Tree!File(t[p])], out)
       /\ src' = Tree!Over([f \in {Tree!Target(p) : p \in T} |->
                              t[CHOOSE p \in T : Tree!Target(p) = f]], src)
  BY <1>1 DEF Tree!Write
<1> HIDE DEF t, T
<1>13. DOMAIN t = W /\ \A p \in W : t[p] = Tree!Written(source)[p]
  BY <1>10
<1> HIDE DEF W, O, L
<1>14. src' = src
  <2>1. src = [p \in DOMAIN src |-> src[p]]
    BY <1>2, SourceFacts
  <2> QED
    BY <1>11, <1>12, <2>1 DEF Tree!Over
<1>15. /\ DOMAIN out' = W \cup DOMAIN out
       /\ \A p \in W : out'[p] = Tree!File(t[p])
       /\ \A p \in DOMAIN out : p \notin W => out'[p] = out[p]
  BY <1>11, <1>12, <1>13 DEF Tree!Over
<1>16. \A c : ~Tree!File(c).link /\ Tree!File(c).content = c
  BY DEF Tree!File
<1>17. DOMAIN out = L /\ \A q \in L : out[q].link
  BY <1>3 DEF LinksAlone, Tree!Links, L
<1>18. Tree!Links' = L \ W
  <2>1. \A q : q \in Tree!Links' <=> q \in DOMAIN out' /\ out'[q].link
    BY DEF Tree!Links
  <2> QED
    BY <1>15, <1>16, <1>17, <2>1
<1>19. \A p : Plain(p)' <=> p \in W
  BY <1>15, <1>16, <1>17 DEF Plain
<1>20. Overlay' = Overlay
  BY <1>1 DEF Overlay, Tree!OverlayOf, Tree!Under
<1>21. W \subseteq Paths /\ W \subseteq Laid(source) /\ O \subseteq Laid(source)
       /\ DOMAIN source \subseteq Laid(source)
       /\ \A p, q \in Laid(source) : ~Tree!IsStrictPrefix(p, q)
  BY <1>2, WrittenPaths, SourceFacts DEF W, O, Overlay, Laid
<1>22. PathOK'
  <2>1. DOMAIN out' \subseteq Paths
    BY <1>2, <1>15, <1>21 DEF PathOK
  <2>2. \A q \in Tree!Links' : q \in O => out'[q] = Tree!Link(Tree!LLVM_PROJECT_OVERLAY \o q)
    BY <1>2, <1>15, <1>17, <1>18 DEF PathOK, L, O
  <2>3. \A q \in Tree!Links' : q \notin O => out'[q] = Tree!Link(q)
    BY <1>2, <1>15, <1>17, <1>18 DEF PathOK, L, O
  <2>4. \A q, r \in Tree!Links' : Tree!IsPrefix(q, r) => q = r
    BY <1>2, <1>18 DEF PathOK, L
  <2> QED
    BY <1>1, <1>2, <1>14, <1>20, <2>1, <2>2, <2>3, <2>4 DEF PathOK, O
<1>23. PathSeen'
  BY <1>22, PathViewNext
<1>24. LinkedOverlay' = O \ W
  BY <1>5, <1>18, <1>20 DEF LinkedOverlay, O
<1>25. \A p \in DOMAIN source : p \in W \/ p \in LinkedSource'
  <2>1. ASSUME NEW p \in DOMAIN source, p \notin W PROVE p \in LinkedSource'
    <3>1. PICK q \in L : q \notin O /\ Tree!IsPrefix(q, p)
      BY <1>5
    <3>2. q \notin W
      <4>1. ASSUME q \in W PROVE FALSE
        <5>1. ~Tree!IsStrictPrefix(q, p)
          BY <1>21, <4>1
        <5> QED
          BY <2>1, <3>1, <4>1, <5>1 DEF Tree!IsStrictPrefix
      <4> QED
        BY <4>1
    <3>3. q \in Tree!Links' \ DOMAIN Overlay'
      BY <1>18, <1>20, <3>1, <3>2 DEF O
    <3>4. source' = source
      BY <1>1
    <3> QED
      BY <3>1, <3>3, <3>4 DEF LinkedSource
  <2> QED
    BY <2>1
<1>26. LinkedSource' \subseteq DOMAIN source
  BY <1>1 DEF LinkedSource
<1>27. Tree!Merged = Tree!Over(Overlay, source)
  BY <1>2 DEF Tree!Merged, Tree!Patched, Overlay, BaseInv
<1>28. /\ \A p : p \in DOMAIN Tree!View' <=> p \in W \/ p \in O \/ p \in DOMAIN source
       /\ Tree!View' = [p \in DOMAIN Tree!View' |-> Tree!View'[p]]
  BY <1>19, <1>23, <1>24, <1>25, <1>26 DEF PathSeen
<1>29. \A p \in W : Tree!View'[p] = Tree!Written(source)[p]
  BY <1>13, <1>15, <1>16, <1>19, <1>23 DEF PathSeen
<1>30. \A p \in O \ W : Tree!View'[p] = Overlay[p]
  BY <1>20, <1>23, <1>24 DEF PathSeen
<1>31. \A p \in DOMAIN source : p \notin W => Tree!View'[p] = source[p]
  BY <1>1, <1>19, <1>23, <1>25 DEF PathSeen
<1> DEFINE m == Tree!Over(Tree!Written(source), Tree!Over(Overlay, source))
<1>32. /\ DOMAIN m = W \cup O \cup DOMAIN source /\ m = [p \in DOMAIN m |-> m[p]]
       /\ \A p \in DOMAIN m : m[p] = IF p \in W THEN Tree!Written(source)[p]
                                     ELSE IF p \in O THEN Overlay[p] ELSE source[p]
  BY DEF Tree!Over, W, O
<1> HIDE DEF m
<1>33. Tree!View' = m
  BY <1>28, <1>29, <1>30, <1>31, <1>32
<1>34. Tree!Merged' = Tree!Merged /\ Tree!Written(source)' = Tree!Written(source)
  BY <1>1
  DEF Tree!Merged, Tree!Written, Tree!Patched, Tree!OverlayOf, Tree!Under, Tree!Without,
      Tree!Over
<1>35. MergedShown'
  BY <1>27, <1>33, <1>34 DEF MergedShown, m, Tree!Over
<1> QED
  BY <1>1, <1>22, <1>35 DEF PathInv

LEMMA PathStutters ==
  ASSUME PathInv, UNCHANGED <<way, source, patch, src, out, stack>>,
         treePc' = treePc \/ treePc' = "failed"
  PROVE  PathInv'
<1> SUFFICES ASSUME way = "path" PROVE PathInv'
  BY DEF PathInv
<1>1. PathOK'
  BY SameTrees DEF PathInv, PathOK
<1>2. CASE treePc' = "failed"
  BY <1>1, <1>2 DEF PathInv
<1>3. CASE treePc' = treePc
  <2>1. LinkedOK => LinkedOK'
    BY SameTrees DEF LinkedOK, LinksAlone, SourcesAlone, OverlayAlone, Visited, SourceCovered,
       OverlayCovered, Pending
  <2>2. /\ UtilsWhole => UtilsWhole'
        /\ UtilsOpen => UtilsOpen'
        /\ MergedShown => MergedShown'
    BY SameTrees DEF UtilsWhole, UtilsOpen, MergedShown, Tree!Over
  <2>3. /\ treePc' \in {"overlay", "third party", "write", "done", "failed"}
        /\ treePc' = "overlay" => stack' # <<>>
        /\ treePc' \in {"third party", "write"} => stack' = <<>>
    BY <1>3 DEF PathInv
  <2> QED
    BY <1>1, <1>3, <2>1, <2>2, <2>3 DEF PathInv
<1> QED
  BY <1>2, <1>3

------------------------------------------------------------------------------
(* Whichever of the four rules makes the repository.                        *)

TreeInv == BaseInv /\ CloneInv /\ ArchiveInv /\ PathInv

LEMMA TreeInit == ASSUME Tree!Init PROVE TreeInv
<1>1. /\ way \in Tree!Ways /\ source \in Sources
      /\ patch \in IF way = "path" THEN {Tree!Root} ELSE Patches
      /\ src = source /\ out = [p \in {} |-> Tree!File("")] /\ stack = <<Tree!Root>>
      /\ treePc = IF way = "path" THEN "overlay" ELSE "fetch"
  BY DEF Tree!Init
<1>2. Tree!Root \in Patches /\ Tree!Root \in Dirs
  BY PathsAssumption DEF Tree!Root, Dirs
<1>3. ToVisit = {Tree!Root} /\ DOMAIN stack = {1} /\ stack \in Seq(Dirs) /\ stack # <<>>
  BY <1>1, <1>2 DEF ToVisit
<1>4. StackOK
  BY <1>3 DEF StackOK
<1>5. DirsOK
  <2>1. PICK f \in DOMAIN Overlay : Tree!IsStrictPrefix(<<"llvm">>, f)
    BY <1>1, SourceFacts DEF Overlay
  <2>2. f \in Paths /\ f \in Dirs /\ f # <<>>
    BY <1>1, <2>1, OverlayFacts DEF Paths
  <2>3. Tree!IsStrictPrefix(Tree!Root, f)
    BY <2>2, RootIsPrefix
  <2> QED
    BY <1>3, <2>1, <2>3 DEF DirsOK
<1>6. BaseInv
  BY <1>1, <1>2, <1>4, <1>5 DEF BaseInv
<1>7. DOMAIN out = {} /\ Tree!Links = {} /\ \A p : ~Plain(p)
  BY <1>1 DEF Tree!Links, Plain
<1>8. /\ src = [p \in DOMAIN src |-> src[p]] /\ DOMAIN src \subseteq Paths
      /\ DOMAIN src \subseteq Laid(source)
  BY <1>1, SourceFacts DEF Laid
<1>9. MirrorOK
  BY <1>7, <1>8 DEF MirrorOK
<1>10. MadeOK
  <2>1. DOMAIN Tree!View = {}
    BY <1>7, <1>9, MirrorView DEF ViewIsMirror, Mirrored
  <2> QED
    BY <1>1, <1>7, <1>8, <1>9, <2>1 DEF MadeOK, NoGit
<1>11. CloneInv /\ ArchiveInv
  BY <1>1, <1>3, <1>10 DEF CloneInv, ArchiveInv
<1>12. PathInv
  <2>1. PathOK
    BY <1>1, <1>7 DEF PathOK
  <2>2. LinkedOK
    <3>1. /\ LinksAlone /\ SourcesAlone /\ OverlayAlone /\ Visited
      BY <1>7 DEF LinksAlone, SourcesAlone, OverlayAlone, Visited
    <3>2. \A p \in Paths : Tree!IsStrictPrefix(Tree!Root, p)
      BY RootIsPrefix DEF Paths
    <3>3. SourceCovered
      BY <1>1, <1>3, <1>8, <3>2 DEF SourceCovered
    <3>4. OverlayCovered
      BY <1>1, <1>3, <3>2, OverlayFacts DEF OverlayCovered, Pending
    <3> QED
      BY <3>1, <3>3, <3>4 DEF LinkedOK
  <2>3. UtilsWhole
    BY <1>7 DEF UtilsWhole
  <2> QED
    BY <1>1, <1>3, <2>1, <2>2, <2>3 DEF PathInv
<1> QED
  BY <1>6, <1>11, <1>12 DEF TreeInv

\* The rules that do not run.
LEMMA OneWay ==
  ASSUME way' = way
  PROVE  /\ way \notin {"git", "linked"} => CloneInv'
         /\ way # "archive" => ArchiveInv'
         /\ way # "path" => PathInv'
BY DEF CloneInv, ArchiveInv, PathInv

LEMMA TreeStutters ==
  ASSUME TreeInv, UNCHANGED <<way, source, patch, src, out, stack>>,
         treePc' = treePc \/ treePc' = "failed"
  PROVE  TreeInv'
BY BaseSame, CloneStutters, ArchiveStutters, PathStutters DEF TreeInv

LEMMA TreeSteps == TreeInv /\ [Tree!Next]_tree => TreeInv'
<1> SUFFICES ASSUME TreeInv, [Tree!Next]_tree PROVE TreeInv'
  OBVIOUS
<1>1. BaseInv /\ CloneInv /\ ArchiveInv /\ PathInv
  BY DEF TreeInv
<1>2. way \in {"path", "git", "linked", "archive"}
  BY <1>1 DEF BaseInv, Tree!Ways
<1>3. CASE Tree!Fail
  BY <1>3, TreeStutters DEF Tree!Fail, Tree!input
<1>4. CASE UNCHANGED tree
  BY <1>4, TreeStutters DEF tree
<1>5. CASE UNCHANGED Tree!vars
  BY <1>5, TreeStutters DEF Tree!vars, Tree!input
<1>6. CASE Tree!Fetch
  <2>1. way \in {"git", "linked"} /\ UNCHANGED <<way, source, patch, stack>>
    BY <1>6 DEF Tree!Fetch, Tree!input
  <2> QED
    BY <1>1, <1>6, <2>1, BaseSame, FetchKeepsClone, OneWay DEF TreeInv
<1>7. CASE Tree!ExtractSource
  <2>1. way = "archive" /\ UNCHANGED <<way, source, patch, stack>>
    BY <1>7 DEF Tree!ExtractSource, Tree!input
  <2> QED
    BY <1>1, <1>7, <2>1, BaseSame, ExtractSourceKeeps, OneWay DEF TreeInv
<1>8. CASE Tree!ExtractOverlay
  <2>1. treePc = "extract" /\ UNCHANGED <<way, source, patch, stack>>
    BY <1>8 DEF Tree!ExtractOverlay, Tree!Step, Tree!input
  <2>2. way = "archive"
    BY <1>1, <1>2, <2>1 DEF CloneInv, PathInv
  <2> QED
    BY <1>1, <1>8, <2>1, <2>2, BaseSame, ExtractOverlayKeeps, OneWay DEF TreeInv
<1>9. CASE Tree!Patch
  <2>1. treePc = "patch" /\ UNCHANGED <<way, source, patch, stack>>
    BY <1>9 DEF Tree!Patch, Tree!Step, Tree!input
  <2>2. way # "path"
    BY <1>1, <2>1 DEF PathInv
  <2>3. BaseInv'
    BY <1>1, <2>1, BaseSame
  <2>4. CASE way = "archive"
    BY <1>1, <1>9, <2>1, <2>3, <2>4, PatchKeepsArchive, OneWay DEF TreeInv
  <2>5. CASE way \in {"git", "linked"}
    BY <1>1, <1>9, <2>1, <2>3, <2>5, PatchKeepsClone, OneWay DEF TreeInv
  <2> QED
    BY <1>2, <2>2, <2>4, <2>5
<1>10. CASE Tree!CopyFiles
  <2>1. treePc = "copy files" /\ UNCHANGED <<way, source, patch, stack>>
    BY <1>10 DEF Tree!CopyFiles, Tree!Step, Tree!input
  <2>2. way = "archive"
    BY <1>1, <1>2, <2>1 DEF CloneInv, PathInv
  <2> QED
    BY <1>1, <1>10, <2>1, <2>2, BaseSame, CopyKeepsArchive, OneWay DEF TreeInv
<1>11. CASE Tree!copy_overlay
  <2>1. way \in {"git", "linked"} /\ UNCHANGED <<way, source, patch>>
    BY <1>11 DEF Tree!copy_overlay, Tree!input
  <2>2. CloneInv' /\ StackOK' /\ DirsOK'
    BY <1>1, <1>11, CopyKeepsClone
  <2>3. BaseInv'
    BY <1>1, <2>1, <2>2 DEF BaseInv
  <2> QED
    BY <2>1, <2>2, <2>3, OneWay DEF TreeInv
<1>12. CASE Tree!DeleteGit
  <2>1. treePc = "delete git" /\ UNCHANGED <<way, source, patch, stack>>
    BY <1>12 DEF Tree!DeleteGit, Tree!Step, Tree!input
  <2>2. way \in {"git", "linked"}
    BY <1>1, <1>2, <2>1 DEF ArchiveInv, PathInv
  <2> QED
    BY <1>1, <1>12, <2>1, <2>2, BaseSame, DeleteKeepsClone, OneWay DEF TreeInv
<1>13. CASE Tree!symlink_source_and_overlay
  <2>1. way = "path" /\ UNCHANGED <<way, source, patch>>
    BY <1>13 DEF Tree!symlink_source_and_overlay, Tree!input
  <2>2. PathInv' /\ StackOK' /\ DirsOK'
    BY <1>1, <1>13, SymlinkKeeps
  <2>3. BaseInv'
    BY <1>1, <2>1, <2>2 DEF BaseInv
  <2> QED
    BY <2>1, <2>2, <2>3, OneWay DEF TreeInv
<1>14. CASE Tree!_materialize_third_party_build
  <2>1. treePc = "third party" /\ UNCHANGED <<way, source, patch, stack>>
    BY <1>14 DEF Tree!_materialize_third_party_build, Tree!Step, Tree!input
  <2>2. way = "path"
    BY <1>1, <1>2, <2>1 DEF CloneInv, ArchiveInv
  <2> QED
    BY <1>1, <1>14, <2>1, <2>2, BaseSame, MaterializeKeeps, OneWay DEF TreeInv
<1>15. CASE Tree!write_llvm_project_files
  <2>1. UNCHANGED <<way, source, patch, stack>>
    BY <1>15 DEF Tree!write_llvm_project_files, Tree!input
  <2>2. BaseInv'
    BY <1>1, <2>1, BaseSame
  <2>3. CASE way = "archive"
    BY <1>1, <1>15, <2>1, <2>2, <2>3, WriteKeepsArchive, OneWay DEF TreeInv
  <2>4. CASE way \in {"git", "linked"}
    BY <1>1, <1>15, <2>1, <2>2, <2>4, WriteKeepsClone, OneWay DEF TreeInv
  <2>5. CASE way = "path"
    BY <1>1, <1>15, <2>1, <2>2, <2>5, WriteKeepsPath, OneWay DEF TreeInv
  <2> QED
    BY <1>2, <2>3, <2>4, <2>5
<1>16. CASE Tree!ToolFails \/ Tree!PatchFails \/ Tree!SymlinkFails \/ Tree!MaterializeFails
  BY <1>3, <1>16 DEF Tree!ToolFails, Tree!PatchFails, Tree!SymlinkFails, Tree!MaterializeFails
<1> QED
  BY <1>4, <1>5, <1>6, <1>7, <1>8, <1>9, <1>10, <1>11, <1>12, <1>13, <1>14, <1>15, <1>16
  DEF Tree!Next

\* The types that the run checks.
LEMMA TreeTypeOK == ASSUME TreeInv PROVE Tree!TypeOK
<1>1. BaseInv /\ CloneInv /\ ArchiveInv /\ PathInv /\ source \in Sources
  BY DEF TreeInv, BaseInv
<1>2. way \in {"path", "git", "linked", "archive"}
  BY <1>1 DEF BaseInv, Tree!Ways
<1>3. treePc \in {"fetch", "extract", "patch", "copy files", "overlay", "delete git",
                  "third party", "write", "done", "failed"}
  BY <1>1, <1>2 DEF CloneInv, ArchiveInv, PathInv
<1>4. way # "path" => MadeOK
  BY <1>1, <1>2 DEF CloneInv, ArchiveInv
<1>5. way = "path" => PathOK
  BY <1>1 DEF PathInv
<1>6. DOMAIN source \subseteq DOMAIN src /\ DOMAIN src \subseteq Paths
  <2>1. CASE way = "path"
    BY <1>1, <1>5, <2>1, SourceFacts DEF PathOK
  <2>2. CASE way # "path"
    BY <1>4, <2>2 DEF MadeOK, MirrorOK
  <2> QED
    BY <2>1, <2>2
<1>7. \A k \in DOMAIN stack : Tree!IsDir(Tree!OverlayOf(src), stack[k])
  <2>1. ASSUME NEW k \in DOMAIN stack PROVE Tree!IsDir(Tree!OverlayOf(src), stack[k])
    <3>1. PICK f \in DOMAIN Overlay : Tree!IsStrictPrefix(stack[k], f)
      BY <1>1 DEF BaseInv, DirsOK, ToVisit
    <3>2. f \in Paths /\ Tree!LLVM_PROJECT_OVERLAY \o f \in DOMAIN source
      BY <1>1, <3>1, OverlayFacts, OverlayIs, SourceFacts DEF Overlay
    <3>3. f \in DOMAIN Tree!OverlayOf(src)
      BY <1>6, <3>2, OverlayIs
    <3> QED
      BY <3>1, <3>3 DEF Tree!IsDir, Tree!Under
  <2> QED
    BY <2>1
<1>8. \A p \in DOMAIN out : out[p].link => out[p].to # Tree!Root /\ out[p].content = ""
  <2>1. ASSUME NEW p \in DOMAIN out, out[p].link
        PROVE  out[p].to # Tree!Root /\ out[p].content = ""
    <3>1. \A x : Tree!Link(x).to = x /\ Tree!Link(x).content = ""
      BY DEF Tree!Link
    <3>2. p \in Tree!Links
      BY <2>1 DEF Tree!Links
    <3>3. \E x : out[p] = Tree!Link(x) /\ x # <<>>
      <4>1. CASE way # "path"
        <5>1. out[p] = Tree!Link(p) /\ p \in Paths
          BY <1>4, <2>1, <4>1 DEF MadeOK, MirrorOK
        <5> QED
          BY <5>1 DEF Paths
      <4>2. CASE way = "path" /\ p \in DOMAIN Overlay
        <5>1. out[p] = Tree!Link(Tree!LLVM_PROJECT_OVERLAY \o p)
          BY <1>5, <3>2, <4>2 DEF PathOK
        <5>2. Tree!LLVM_PROJECT_OVERLAY \o p \in Paths
          BY <1>1, <4>2, OverlayFacts, OverlayIs, SourceFacts DEF Overlay
        <5> QED
          BY <5>1, <5>2 DEF Paths
      <4>3. CASE way = "path" /\ p \notin DOMAIN Overlay
        <5>1. out[p] = Tree!Link(p) /\ p \in Paths
          BY <1>5, <3>2, <4>3 DEF PathOK
        <5> QED
          BY <5>1 DEF Paths
      <4> QED
        BY <4>1, <4>2, <4>3
    <3> QED
      BY <3>1, <3>3 DEF Tree!Root
  <2> QED
    BY <2>1
<1> QED
  BY <1>1, <1>3, <1>7, <1>8 DEF Tree!TypeOK, BaseInv, StackOK

\* In the end the overlay is laid over the sources as the run checks, and the
\* user's sources are as they were.
LEMMA TreeMerges == ASSUME TreeInv PROVE Tree!OverlayIsLaidOver
<1>1. BaseInv /\ CloneInv /\ ArchiveInv /\ PathInv
  BY DEF TreeInv
<1>2. way \in {"path", "git", "linked", "archive"}
  BY <1>1 DEF BaseInv, Tree!Ways
<1>3. Tree!TreeIsMerged
  BY <1>1, <1>2 DEF Tree!TreeIsMerged, CloneInv, ArchiveInv, PathInv, MergedShown
<1>4. Tree!SourceIsUnchanged
  BY <1>1 DEF Tree!SourceIsUnchanged, PathInv, PathOK
<1> QED
  BY <1>3, <1>4 DEF Tree!OverlayIsLaidOver

------------------------------------------------------------------------------
(* The parts together.                                                      *)

LEMMA PartsInit == RepositoriesInit => Init /\ Kernel!Init /\ Tree!Init /\ Releases!Init
BY DEF RepositoriesInit, ModulesIdle, KernelIdle, TreeIdle, IndexIdle

LEMMA PartsNext ==
  [RepositoriesNext]_all =>
    [Next]_vars /\ [Kernel!Next]_kernel /\ [Tree!Next]_tree /\ [Releases!Next]_indexing
BY DEF RepositoriesNext, Extending, ChoosingHeaders, LayingOut, Indexing, all

\* The parts share no state and each behaves as its own specification says,
\* whichever runs.
THEOREM PartsAreImplemented ==
  RepositoriesSpec => Spec /\ Kernel!Spec /\ Tree!Spec /\ Releases!Spec
<1>1. UNCHANGED kernel => UNCHANGED Kernel!vars
  BY DEF kernel, Kernel!vars
<1>2. UNCHANGED tree => UNCHANGED Tree!vars
  BY DEF tree, Tree!vars, Tree!input
<1>3. UNCHANGED indexing => UNCHANGED Releases!vars
  BY DEF indexing, Releases!vars, Releases!github
<1>4. [RepositoriesNext]_all =>
        /\ [Next]_vars /\ [Kernel!Next]_(Kernel!vars)
        /\ [Tree!Next]_(Tree!vars) /\ [Releases!Next]_(Releases!vars)
  BY <1>1, <1>2, <1>3, PartsNext
<1> QED
  BY <1>4, PartsInit, PTL DEF RepositoriesSpec, Spec, Kernel!Spec, Tree!Spec, Releases!Spec

\* The inductive invariants of the modules, the headers, LLVM's sources and the
\* releases hold of every behaviour of the parts together.
Parts == {"modules", "kernel", "tree", "index"}
PartsInv == IInv /\ AddInv /\ KernelInv /\ TreeInv /\ ReleasesInv
THEOREM RepositoriesInvariant == RepositoriesSpec => [](part \in Parts /\ PartsInv)
<1>1. RepositoriesInit => part \in Parts /\ PartsInv
  <2>1. RepositoriesInit => part \in Parts
    BY DEF RepositoriesInit, Parts
  <2> QED
    BY <2>1, PartsInit, InitIInv, InitAdds, KernelInit, TreeInit, ReleasesInit DEF PartsInv
<1>2. part \in Parts /\ PartsInv /\ [RepositoriesNext]_all => (part \in Parts /\ PartsInv)'
  <2>1. part \in Parts /\ [RepositoriesNext]_all => part' \in Parts
    BY DEF RepositoriesNext, Extending, ChoosingHeaders, LayingOut, Indexing, all, Parts
  <2> HIDE DEF IInv, AddInv, KernelInv, TreeInv, ReleasesInv
  <2> QED
    BY <2>1, PartsNext, NextKeeps, NextAdds, KernelSteps, TreeSteps, ReleasesSteps DEF PartsInv
<1> QED
  BY <1>1, <1>2, PTL DEF RepositoriesSpec

\* Every variable of the part that runs keeps its type, for every list of modules,
\* every index and every source tree.
THEOREM RepositoriesTypeOK == RepositoriesSpec => []TypesOK
<1>1. IInv => TypeOK
  BY DEF IInv, StateOK, TypeOK, Nothing, Fields
<1>2. part \in Parts /\ PartsInv => TypesOK
  <2> HIDE DEF IInv, KernelInv, TreeInv, ReleasesInv
  <2> QED
    BY <1>1, KernelTypeOK, TreeTypeOK, ReleasesTypeOK DEF TypesOK, Parts, PartsInv
<1> QED
  BY <1>2, RepositoriesInvariant, PTL

\* Whichever part runs, what the modules ask for is resolved as SpecRootElse-
\* LastDependency, SpecNoClashIsIgnored, SpecSeedFitsVersion and SpecTagsAddUp
\* say.
THEOREM ModulesAreResolved ==
  RepositoriesSpec =>
    [](RootElseLastDependency /\ NoClashIsIgnored /\ SeedFitsVersion /\ TagsAddUp)
<1>1. RepositoriesSpec => Spec
  BY PartsAreImplemented
<1> QED
  BY <1>1, SpecRootElseLastDependency, SpecNoClashIsIgnored, SpecSeedFitsVersion,
     SpecTagsAddUp, PTL

\* The Linux headers of a line are the newest patch version of the index that
\* decides, for every list of modules, every tag of theirs and every index in
\* whatever order.
THEOREM HeadersAreNewest == RepositoriesSpec => []NewestOfTheLastIndex
<1>1. PartsInv => NewestOfTheLastIndex
  BY KernelNewest DEF PartsInv, NewestOfTheLastIndex
<1> QED
  BY <1>1, RepositoriesInvariant, PTL

\* The repository of LLVM's sources shows the sources, patched, with the overlay
\* laid over them and the rule's own files, whether it is made of a clone, of
\* links to one, of an archive or of the user's sources, which stay as they are:
\* for every tree, patch and overlay that SourcesAssumption and PathsAssumption
\* admit, in whatever order the directories are visited.
THEOREM TreeIsLaidOut == RepositoriesSpec => []OverlayIsLaidOver
<1>1. PartsInv => OverlayIsLaidOver
  BY TreeMerges DEF PartsInv, OverlayIsLaidOver
<1> QED
  BY <1>1, RepositoriesInvariant, PTL

\* The index is sorted and has every release that stays as it was while the
\* pages were read, for any number of releases, of changes and of pages.
THEOREM ReleasesAreSeen == RepositoriesSpec => []EveryReleaseIsSeen
<1>1. PartsInv => EveryReleaseIsSeen
  BY OutputOrder, ReleasesSeen DEF PartsInv, EveryReleaseIsSeen
<1> QED
  BY <1>1, RepositoriesInvariant, PTL
==============================================================================
