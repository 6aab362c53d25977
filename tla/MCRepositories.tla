---------------------------- MODULE MCRepositories ----------------------------
(***************************************************************************)
(* The parts of Repositories for TLC.                                       *)
(*   modules  lists of up to three modules, with and without the root, each *)
(*            with any of a few combinations of an extension's tags         *)
(*   kernel   the repository's own tables of libcs, lines and headers; a    *)
(*            second index in another order that lacks a version a libc     *)
(*            needs, and a third one that lacks lines; lists of up to two   *)
(*            modules with up to two indexes                                *)
(*   tree     an LLVM tree with every file the rules name, and the ways it  *)
(*            may differ: an overlay file that the sources have too, an     *)
(*            overlay directory that they do not have, a nested one,        *)
(*            third_party_build or pfm.BUILD missing                        *)
(*   index    up to three releases before, two to a page, of two majors,    *)
(*            finals and candidates; two changes while the pages are read   *)
(***************************************************************************)
EXTENDS Repositories, KernelTables, SequencesExt

------------------------------------------------------------------------------
(* The instance: the modules.                                               *)

ListsOf(kinds) ==
  {[k \in 1 .. Len(c) |-> [root |-> r /\ k = 1, tags |-> c[k]]] :
     r \in BOOLEAN, c \in {<<x>> : x \in kinds} \cup (kinds \X kinds)
                            \cup (kinds \X kinds \X kinds)}

Upto(a, b) == {<<>>, <<a>>, <<b>>, <<a, b>>}

SdkTags ==
  [from_archive : {<<>>, <<"a">>}, from_host : {<<>>, <<"h">>}]
  \cup {("from_archive" :> <<"b">>) @@ ("frameworks" :> <<"F">>),
        ("frameworks" :> <<"G">>) @@ ("libraries" :> <<"l">>) @@ ("all_libs" :> <<"t">>),
        ("from_archive" :> <<"a", "b">>), ("from_host" :> <<"h", "h">>)}
LlvmTags ==
  [version : {<<>>, <<"21">>, <<"24">>, <<"21", "22">>},
   override : {<<>>, <<"path">>}, index : {<<>>}]
  \cup [version : {<<>>, <<"22">>}, index : {<<"mine">>, <<"theirs">>}]
  \cup {("override" :> <<"git", "archive">>), ("index" :> <<"mine", "theirs">>)}
GccTags == [gcc_path : Upto("p", "q") \cup {<<"p", "p">>}]
PlatformTags ==
  [exec : {<<>>, <<"linux">>, <<"mac">>}, target : {<<>>, <<"wasm">>}]
  \cup {("exec" :> <<"wasm">>), ("target" :> <<"s390x">>)}

MCGraphs ==
  [sdk |-> ListsOf(SdkTags), version |-> ListsOf(LlvmTags),
   gcc |-> ListsOf(GccTags), platforms |-> ListsOf(PlatformTags)]

MCEnvironments ==
  LET plain == [mac |-> FALSE, useHost |-> FALSE, allLibs |-> FALSE, frameworks |-> <<>>]
  IN  [w \in FirstWalks |->
         IF w # "sdk" THEN {plain}
         ELSE {plain, [plain EXCEPT !.mac = TRUE],
               [plain EXCEPT !.useHost = TRUE, !.frameworks = <<"", "">>],
               [mac |-> TRUE, useHost |-> TRUE, allLibs |-> TRUE, frameworks |-> <<"E", "">>]}]

\* 21 has everything, 22 no release in one index, 24 no source archive.
MCIndexedSources == ("21" :> "src21") @@ ("22" :> "src22")
MCSeeds ==
  [default |-> [latest |-> ("21" :> "r21") @@ ("24" :> "r24"), default |-> "24"],
   mine |-> [latest |-> ("22" :> "m22"), default |-> "22"],
   theirs |-> [latest |-> ("21" :> "t21"), default |-> "none"]]
MCExecs == <<"linux", "mac">>
MCTargets == <<"linux", "mac", "wasm">>

------------------------------------------------------------------------------
(* The instance: the kernel headers.                                        *)

\* Another index has the versions in the opposite order, 5.15.99 in place of
\* 5.15.182, which a libc is pinned to, and 5.12.19 for two architectures only.
MCIndex ==
  LET other(e) == CASE e.version = <<5, 15, 182>> -> [e EXCEPT !.version = <<5, 15, 99>>]
                    [] e.version = <<5, 12, 19>> -> [e EXCEPT !.archs = {"x86", "sh"}]
                    [] OTHER -> e
      own == kernel_headers_index
  IN  [own |-> own,
       reordered |-> [i \in DOMAIN own |-> other(own[Len(own) + 1 - i])],
       partial |-> SelectSeq(own, LAMBDA e : e.version[1] = 6)]
MCTags == {<<"own">>, <<"partial">>, <<"reordered", "own">>}
MCKernelModules ==
  {<<>>, <<<<>>>>, <<<<"reordered">>>>} \cup {<<t>> : t \in MCTags}
  \cup (MCTags \X {<<>>, <<"own">>, <<"reordered">>})

------------------------------------------------------------------------------
(* The instance: the source trees and the releases.                         *)

OverlayDir == <<"utils", "bazel", "llvm-project-overlay">>
ThirdPartyDir == <<"utils", "bazel", "third_party_build">>
O(path) == OverlayDir \o path
Always ==
  (<<"llvm", "CMakeLists.txt">> :> "source") @@ (<<"bolt", "lib.cpp">> :> "source")
  @@ (<<"flang", "lib.cpp">> :> "source") @@ (<<"openmp", "BUILD.bazel">> :> "source")
  @@ (<<"utils", "script">> :> "source")
  @@ (O(<<".bazelignore">>) :> "overlay") @@ (O(<<"llvm", "BUILD.bazel">>) :> "overlay")
  @@ (O(<<"bolt", "BUILD.bazel">>) :> "overlay")
Optional ==
  {{<<"llvm", "BUILD.bazel">>}, {<<"llvm", "lib", "a.cpp">>}, {O(<<"llvm", "lib", "BUILD.bazel">>)},
   {O(<<"openmp", "runtime", "BUILD.bazel">>), <<"openmp", "runtime", "a.cpp">>},
   {ThirdPartyDir \o <<"BUILD.bazel">>}, {ThirdPartyDir \o <<"pfm.BUILD">>}}
MCSources ==
  {Always @@ [p \in UNION some |-> IF IsPrefix(OverlayDir, p) THEN "overlay" ELSE "source"] :
     some \in SUBSET Optional}
MCNames ==
  {".bazelignore", ".downloaded.archive", ".git", "BUILD.bazel", "CMakeLists.txt", "a.cpp",
   "bazel", "bolt", "flang", "lib", "lib.cpp", "llvm", "llvm-project-overlay", "openmp",
   "pfm.BUILD", "runtime", "script", "targets.bzl", "third_party_build", "utils", "vars.bzl"}
MCPatches ==
  {<<>>, <<"llvm", "CMakeLists.txt">>, <<"llvm", "BUILD.bazel">>, O(<<"llvm", "BUILD.bazel">>)}
MCExcluded == {<<"flang">>}
MCOverlayFiles == <<"openmp", "BUILD.bazel">> :> "rule"

MCReleasable ==
  {[major |-> 20, rc |-> 0], [major |-> 21, rc |-> 2], [major |-> 21, rc |-> 0],
   [major |-> 21, rc |-> 1]}
================================================================================
