---------------------------- MODULE LlvmProjectTree ----------------------------
(***************************************************************************)
(* The three repository rules that make @llvm-project (private/llvm_*.bzl): *)
(* LLVM's sources with the BUILD files of its Bazel overlay laid over them. *)
(*                                                                          *)
(*   path    links into a source tree of the user, directory by directory   *)
(*   git     a clone with the overlay's files copied into it                *)
(*   linked  the same, of a directory of the clone, through links           *)
(*   archive two extractions, of the sources and of the overlay             *)
(*                                                                          *)
(* A tree is a function from the paths of its files, sequences of names, to *)
(* their contents.  Writing below a link writes where the link leads.       *)
(***************************************************************************)
EXTENDS Naturals, Sequences, SequencesExt

CONSTANTS
  Names,         \* the names of files and directories
  Sources,       \* the source trees, each with its overlay inside
  Patches,       \* the path that the patches change; <<>> without patches
  Excluded,      \* paths that the archive rule leaves out of the sources
  OverlayFiles   \* the archive rule's own files: a tree

Ways == {"path", "git", "linked", "archive"}
Root == <<>>
LLVM_PROJECT_OVERLAY == <<"utils", "bazel", "llvm-project-overlay">>
ThirdParty == <<"utils", "bazel", "third_party_build">>
Pfm == ThirdParty \o <<"pfm.BUILD">>
Archive == <<".downloaded.archive">>
GitDir == <<".git">>

VARIABLES
  way, source, patch,  \* the rule, the tree it is given, its patch; never change
  src,      \* the source tree now: the user's, or the clone that links lead to
  out,      \* the repository: path -> [link, content, to]
  stack,    \* the overlay's directories still to visit
  pc

input == <<way, source, patch>>
vars == <<input, src, out, stack, pc>>

------------------------------------------------------------------------------
(* Trees, links, and what a reader of the repository sees.                  *)

\* One tree laid over another.
Over(upper, lower) ==
  [p \in DOMAIN upper \cup DOMAIN lower |-> IF p \in DOMAIN upper THEN upper[p] ELSE lower[p]]

Rest(p, n) == SubSeq(p, n + 1, Len(p))
Under(tree, dir) == {p \in DOMAIN tree : IsStrictPrefix(dir, p)}
IsDir(tree, dir) == Under(tree, dir) # {}
Without(tree, dirs) == [p \in {q \in DOMAIN tree : \A d \in dirs : ~IsPrefix(d, q)} |-> tree[p]]
\* readdir
Entries(tree, dir) == {Append(dir, p[Len(dir) + 1]) : p \in Under(tree, dir)}

File(content) == [link |-> FALSE, content |-> content, to |-> Root]
Link(path) == [link |-> TRUE, content |-> "", to |-> path]
Files(tree) == [p \in DOMAIN tree |-> File(tree[p])]

Links == {q \in DOMAIN out : out[q].link}

\* Where a path with a link in it leads.
Target(p) == LET q == CHOOSE q \in Links : IsPrefix(q, p) IN out[q].to \o Rest(p, Len(q))

View ==
  LET plain == {p \in DOMAIN out : ~out[p].link}
      Reached(q) == {q \o Rest(f, Len(out[q].to)) : f \in {g \in DOMAIN src : IsPrefix(out[q].to, g)}}
  IN Over([p \in plain |-> out[p].content],
          [p \in UNION {Reached(q) : q \in Links} |-> src[Target(p)]])

\* rctx.file for every file of a tree.
Write(tree) ==
  LET through == {p \in DOMAIN tree : \E q \in Links : IsStrictPrefix(q, p)}
  IN /\ out' = Over([p \in DOMAIN tree \ through |-> File(tree[p])], out)
     /\ src' = Over([f \in {Target(p) : p \in through} |->
                      tree[CHOOSE p \in through : Target(p) = f]], src)

OverlayOf(tree) ==
  [p \in {Rest(f, Len(LLVM_PROJECT_OVERLAY)) : f \in Under(tree, LLVM_PROJECT_OVERLAY)} |->
     tree[LLVM_PROJECT_OVERLAY \o p]]

Patched(tree) == IF patch = Root THEN tree ELSE [tree EXCEPT ![patch] = "patched"]

------------------------------------------------------------------------------
Init ==
  /\ way \in Ways /\ source \in Sources
  /\ patch \in IF way = "path" THEN {Root} ELSE Patches
  /\ src = source
  /\ out = [p \in {} |-> File("")]
  /\ stack = <<Root>>
  /\ pc = IF way = "path" THEN "overlay" ELSE "fetch"

Step(from, to) == pc = from /\ pc' = to
Fail == pc' = "failed" /\ UNCHANGED <<input, src, out, stack>>

\* The clone, a program or a download fails; Bazel drops the repository.
ToolFails == pc \in {"fetch", "extract", "patch", "copy files"} /\ Fail

\* git_repo, into the repository or into a directory that links lead to.
Fetch ==
  /\ way \in {"git", "linked"}
  /\ Step("fetch", "patch")
  /\ out' = IF way = "git" THEN Over([p \in {GitDir} |-> File("git")], Files(src))
            ELSE [p \in Entries(src, Root) |-> Link(p)]
  /\ UNCHANGED <<input, src, stack>>

------------------------------------------------------------------------------
(* llvm_project_archive                                                     *)

ExtractSource ==
  /\ way = "archive"
  /\ Step("fetch", "extract")
  /\ out' = Over([p \in {Archive} |-> File("archive")],
                 Files(Without(src, Excluded \cup {LLVM_PROJECT_OVERLAY})))
  /\ UNCHANGED <<input, src, stack>>

\* Mutant: openmp/runtime is extracted with the rest.
ExtractWholeOverlay ==
  /\ Step("extract", "patch")
  /\ out' = Without(Over(Files(OverlayOf(src)), out), {Archive})
  /\ UNCHANGED <<input, src, stack>>

ExtractOverlay ==
  /\ Step("extract", "patch")
  /\ out' = Without(Over(Files(Without(OverlayOf(src), {<<"openmp", "runtime">>})), out), {Archive})
  /\ UNCHANGED <<input, src, stack>>

AfterPatch == IF way = "archive" THEN "copy files" ELSE "overlay"

Patch ==
  /\ Step("patch", AfterPatch)
  /\ patch = Root \/ patch \in DOMAIN View
  /\ IF patch = Root THEN UNCHANGED <<src, out>> ELSE Write([p \in {patch} |-> "patched"])
  /\ UNCHANGED <<input, stack>>

PatchFails == pc = "patch" /\ patch # Root /\ patch \notin DOMAIN View /\ Fail

CopyFiles ==
  /\ Step("copy files", "write")
  /\ Write(OverlayFiles)
  /\ UNCHANGED <<input, stack>>

------------------------------------------------------------------------------
(* The walks over the overlay.                                              *)

Here == Last(stack)
HereFiles(tree) == Entries(tree, Here) \cap DOMAIN tree
HereDirs(tree) == Entries(tree, Here) \ DOMAIN tree

\* Mutant: the name of a directory is pushed, not its path.
VisitNames(tree) ==
  \E dirs \in SetToSeqs({<<Last(d)>> : d \in HereDirs(tree)}) : stack' = Front(stack) \o dirs

\* readdir has no order.
Visit(tree) == \E dirs \in SetToSeqs(HereDirs(tree)) : stack' = Front(stack) \o dirs

GoOn(next) == pc' = IF stack' = <<>> THEN next ELSE pc

copy_overlay ==
  /\ way \in {"git", "linked"} /\ pc = "overlay"
  /\ LET overlay == OverlayOf(View)
     IN /\ Visit(overlay)
        /\ Write([p \in HereFiles(overlay) |-> overlay[p]])
  /\ GoOn("delete git")
  /\ UNCHANGED input

DeleteGit ==
  /\ Step("delete git", "write")
  /\ out' = Without(out, {GitDir})
  /\ UNCHANGED <<input, src, stack>>

\* What is linked of the sources: all but the overlay's directories.
HereOfSource == Entries(src, Here) \ HereDirs(OverlayOf(src))

\* A link that exists, or a directory that the sources do not have.
Conflict == HereOfSource \cap HereFiles(OverlayOf(src)) # {} \/ ~IsDir(src, Here)

symlink_source_and_overlay ==
  /\ way = "path" /\ pc = "overlay" /\ ~Conflict
  /\ Visit(OverlayOf(src))
  /\ GoOn("third party")
  /\ out' = Over([p \in HereFiles(OverlayOf(src)) |-> Link(LLVM_PROJECT_OVERLAY \o p)],
                 Over([p \in HereOfSource |-> Link(p)], out))
  /\ UNCHANGED <<input, src>>

SymlinkFails == way = "path" /\ pc = "overlay" /\ Conflict /\ Fail

------------------------------------------------------------------------------
(* The files that the rules write.                                          *)

\* Mutant: utils stays a link.
KeepUtils == Step("third party", "write") /\ UNCHANGED <<input, src, out, stack>>

\* utils, utils/bazel and third_party_build become directories of links.
_materialize_third_party_build ==
  LET dirs == {SubSeq(ThirdParty, 1, n) : n \in 1 .. Len(ThirdParty)}
      links == (UNION {Entries(src, d) : d \in dirs}) \ dirs
  IN /\ Step("third party", "write")
     /\ IsDir(src, ThirdParty)
     /\ out' = Over([p \in links |-> Link(p)], Without(out, {<<"utils">>}))
     /\ UNCHANGED <<input, src, stack>>

MaterializeFails == pc = "third party" /\ ~IsDir(src, ThirdParty) /\ Fail

Written(view) ==
  LET generated == {<<"BUILD.bazel">>, <<"vars.bzl">>, <<"llvm", "targets.bzl">>, <<"bolt", "targets.bzl">>}
      exposed == IF Pfm \in DOMAIN view THEN {<<".bazelignore">>, ThirdParty \o <<"BUILD.bazel">>} ELSE {}
  IN [p \in generated \cup exposed |-> "written"]

write_llvm_project_files ==
  /\ Step("write", "done")
  /\ Write(Written(View))
  /\ UNCHANGED <<input, stack>>

Next ==
  \/ ToolFails \/ Fetch \/ ExtractSource \/ ExtractOverlay
  \/ Patch \/ PatchFails \/ CopyFiles
  \/ copy_overlay \/ DeleteGit
  \/ symlink_source_and_overlay \/ SymlinkFails
  \/ _materialize_third_party_build \/ MaterializeFails
  \/ write_llvm_project_files
  \/ pc \in {"done", "failed"} /\ UNCHANGED vars

Spec == Init /\ [][Next]_vars

------------------------------------------------------------------------------
(* Properties.                                                              *)

\* Every variable has its type; the stack holds directories of the overlay,
\* each once and none inside another.
TypeOK ==
  /\ way \in Ways /\ source \in Sources /\ patch \in Patches
  /\ pc \in {"fetch", "extract", "patch", "copy files", "overlay", "delete git",
             "third party", "write", "done", "failed"}
  /\ \A p \in DOMAIN out : out[p].link => out[p].to # Root /\ out[p].content = ""
  /\ \A k \in DOMAIN stack : IsDir(OverlayOf(src), stack[k])
  /\ \A j, k \in DOMAIN stack : IsPrefix(stack[j], stack[k]) => j = k

\* The patches are made before the overlay is copied from a clone, and after it
\* is extracted from an archive.
Merged ==
  IF way = "archive"
  THEN Over(OverlayFiles,
            Patched(Over(Without(OverlayOf(source), {<<"openmp", "runtime">>}),
                         Without(source, Excluded \cup {LLVM_PROJECT_OVERLAY}))))
  ELSE Over(OverlayOf(Patched(source)), Patched(source))

\* Whichever rule makes the repository, and in whatever order directories are
\* read, what is seen in it is the rule's own files over the overlay's over the
\* sources, without a file more or less.
TreeIsMerged == pc = "done" => View = Over(Written(source), Merged)

\* The user's tree is never written to ("so source_root remains unchanged").
SourceIsUnchanged == way = "path" => src = source

\* One tree, whoever lays it out, and nobody's sources changed for it.
OverlayIsLaidOver == TreeIsMerged /\ SourceIsUnchanged
==============================================================================
