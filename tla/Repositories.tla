------------------------------ MODULE Repositories ------------------------------
(***************************************************************************)
(* How Bazel's repositories come to be, in parts that share no state: a     *)
(* behaviour is one of one part, the others stay as they begin.             *)
(*   modules  ModuleExtensions    kernel  KernelHeaders                     *)
(*   tree     LlvmProjectTree     index   VersionsIndex                     *)
(***************************************************************************)
EXTENDS ModuleExtensions, FiniteSets

CONSTANTS
  KernelModules, Index, OwnIndex, SupportedArchs, Cpus, Lines, Libcs, LibcKernel,
  DefaultLibc, DefaultLibcs, Musl, Unconstrained, AnyKernel,
  Names, Sources, Patches, Excluded, OverlayFiles,
  Releasable, Digests, PageSize, MinMajor, MaxEvents

VARIABLES
  part,   \* the part that runs; never changes
  users, user, index, seen, map, phase, platform, headers, glibc,
  way, source, patch, src, out, stack, treePc,
  releases, start, touched, deletions, events, indexPc, page, result, warnings,
  output, exit

Kernel == INSTANCE KernelHeaders
            WITH Graphs <- KernelModules, modules <- users, at <- user
Tree == INSTANCE LlvmProjectTree WITH pc <- treePc
Releases == INSTANCE VersionsIndex WITH Versions <- Releasable, pc <- indexPc

kernel == <<users, user, index, seen, map, phase, platform, headers, glibc>>
tree == <<way, source, patch, src, out, stack, treePc>>
indexing == <<releases, start, touched, deletions, events, indexPc, page, result,
          warnings, output, exit>>
all == <<part, vars, kernel, tree, indexing>>

\* A module has the sequence of its tags, which name index files that exist; a
\* version of Linux is a triple.
KernelVersions == Nat \X Nat \X Nat
ASSUME KernelModulesAssumption == KernelModules \subseteq Seq(Seq(DOMAIN Index))
ASSUME IndexAssumption ==
  \A f \in DOMAIN Index :
    /\ IsSequence(Index[f])
    /\ \A i \in DOMAIN Index[f] : Index[f][i].version \in KernelVersions

\* The default libcs are libcs.
ASSUME LibcsAssumption ==
  DefaultLibc \in Libcs /\ \A cpu \in DOMAIN DefaultLibcs : DefaultLibcs[cpu] \in Libcs

\* A release has a major version and the number of its candidate.
ASSUME ReleasableAssumption == Releasable \subseteq [major : Nat, rc : Nat]
ASSUME PagesAssumption == PageSize \in Nat \ {0} /\ MinMajor \in Nat /\ MaxEvents \in Nat

\* A source tree holds its overlay. The two, and the files that the rules write,
\* fit together: what is a file in one is no directory in another. The overlay
\* has LLVM's and BOLT's directories and none in utils, where it is itself, and
\* nothing in a tree has the names of what the rules delete.
ASSUME SourcesAssumption ==
  \A s \in Sources :
    LET overlay == Tree!OverlayOf(s)
        laid == DOMAIN Tree!Written(s) \cup DOMAIN overlay \cup DOMAIN s
    IN  /\ IsFiniteSet(DOMAIN s) /\ s = [p \in DOMAIN s |-> s[p]]
        /\ DOMAIN s \subseteq Seq(Names) \ {<<>>}
        /\ \A p, q \in laid : ~Tree!IsStrictPrefix(p, q)
        /\ Tree!IsDir(overlay, <<"llvm">>) /\ Tree!IsDir(overlay, <<"bolt">>)
        /\ ~Tree!IsDir(overlay, <<"utils">>)
        /\ \A p \in laid : ~Tree!IsPrefix(Tree!GitDir, p) /\ ~Tree!IsPrefix(Tree!Archive, p)

\* What the archive rule leaves out and adds leaves pfm.BUILD where it is.
ASSUME PathsAssumption ==
  /\ {"utils", "bazel", "llvm-project-overlay", "third_party_build", "pfm.BUILD",
      "BUILD.bazel", "vars.bzl", "targets.bzl", "llvm", "bolt", ".bazelignore", ".git",
      ".downloaded.archive", "openmp", "runtime"} \subseteq Names
  /\ Patches \subseteq Seq(Names) /\ Tree!Root \in Patches
  /\ Excluded \subseteq Seq(Names) /\ \A d \in Excluded : ~Tree!IsPrefix(d, Tree!Pfm)
  /\ DOMAIN OverlayFiles \subseteq Seq(Names) \ {<<>>} /\ Tree!Pfm \notin DOMAIN OverlayFiles

------------------------------------------------------------------------------
\* A part that does not run, in one of its initial states.
ModulesIdle ==
  /\ walk = "gcc"
  /\ modules = CHOOSE g \in Graphs["gcc"] : TRUE
  /\ env = CHOOSE e \in Environments["gcc"] : TRUE
  /\ Init
KernelIdle == users = <<>> /\ Kernel!Init
TreeIdle ==
  way = "path" /\ source = (CHOOSE s \in Sources : TRUE) /\ patch = Tree!Root /\ Tree!Init
IndexIdle == releases = <<>> /\ Releases!Init

RepositoriesInit ==
  \/ part = "modules" /\ Init /\ KernelIdle /\ TreeIdle /\ IndexIdle
  \/ part = "kernel" /\ ModulesIdle /\ Kernel!Init /\ TreeIdle /\ IndexIdle
  \/ part = "tree" /\ ModulesIdle /\ KernelIdle /\ Tree!Init /\ IndexIdle
  \/ part = "index" /\ ModulesIdle /\ KernelIdle /\ TreeIdle /\ Releases!Init

Extending == part = "modules" /\ Next /\ UNCHANGED <<part, kernel, tree, indexing>>
ChoosingHeaders == part = "kernel" /\ Kernel!Next /\ UNCHANGED <<part, vars, tree, indexing>>
LayingOut == part = "tree" /\ Tree!Next /\ UNCHANGED <<part, vars, kernel, indexing>>
Indexing == part = "index" /\ Releases!Next /\ UNCHANGED <<part, vars, kernel, tree>>

RepositoriesNext == Extending \/ ChoosingHeaders \/ LayingOut \/ Indexing

RepositoriesSpec == RepositoriesInit /\ [][RepositoriesNext]_all

------------------------------------------------------------------------------
(* Properties.                                                              *)

\* Every variable of the part that runs has its type.
TypesOK ==
  CASE part = "modules" -> TypeOK
    [] part = "kernel" -> Kernel!TypeOK
    [] part = "tree" -> Tree!TypeOK
    [] part = "index" -> Releases!TypeOK

\* The Linux headers are the newest of their line of the index that decides
\* (KernelHeaders).
NewestOfTheLastIndex == Kernel!NewestOfTheLastIndex

\* Under the repository's tables every target gets headers, those its kernel
\* constraint or its glibc calls for (KernelHeaders).
TargetsHaveHeaders == Kernel!TargetsHaveHeaders

\* The repository of LLVM's sources is the same however it is made, and the
\* user's sources stay as they are (LlvmProjectTree).
OverlayIsLaidOver == Tree!OverlayIsLaidOver

\* Releases are indexed once, in order, and none is missed that stays while
\* the pages are read (VersionsIndex).
EveryReleaseIsSeen == Releases!OutputIsInOrder /\ Releases!EveryReleaseIsSeen

================================================================================
