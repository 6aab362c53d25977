# A TLA+ model of the hermetic LLVM toolchain

This directory models the parts of `toolchains_llvm_bootstrapped` that decide
something: the programs Bazel runs in its actions (C, shell), the extensions and
repository rules that choose and lay out the sources, the transitions by which the
compiler is built with itself (Starlark), and the tools that pin the macOS SDK and
index LLVM's releases (Python). TLC checks small instances; TLAPS proves the properties that
matter most for every value of the constants.

Run `tlc -config X.cfg M` for a pair listed under *Runs*, and `tlapm M.tla` for a
module whose name ends in `Proofs`.

## Inventory

### The system

A Bazel module, `llvm`, that gives other builds a C/C++ cross toolchain. Module
extensions declare repositories (LLVM sources, prebuilt compilers, libc sources,
kernel headers, the macOS SDK). Toolchains are declared for pairs of execution
and target platforms. A compiler is downloaded (*stage 0*) or built from source by
the downloaded one (*stage 1*), then instrumented (*stage 2*), trained, and built
once more with the profile (*stage 3*). A toolchain's runtimes (libc, builtins,
libc++, sanitizers) are built by the toolchain itself, with lower *runtime
stages*. In the build's actions, small C programs wrap clang, llvm-nm, dsymutil
and others: they are processes that get their orders in environment variables
and report by exit status, outputs and stamps.

| Component | State | Operations | Interacts with |
| --- | --- | --- | --- |
| link wrapper (`tools/internal/link_wrapper.c`) | output files; the child it waits for; exit status | link, dSYM, strip, interface library by copy, llvm-ifs or llvm-readtapi | link features, which set its environment and pass `-Wl,-S`; the tools |
| static library validator (`tools/internal/static_library_validator.c`) | symbol list, block of duplicates, stamp | run llvm-nm, parse, sort, scan, touch or report | llvm-nm's output format; `DARWIN_TARGET` of the toolchain's arguments |
| definition file generator (`tools/def_file_generator`) | two symbol sets, response file, output | expand arguments, merge files, list objects, filter, write | other generators in its directory, llvm-nm |
| case-insensitive VFS (`tools/case_insensitive_vfs`) | sorted roots, stack of directories, text | walk, sort, validate, collapse, render, write | the file system; clang, which reads the overlay |
| header parser (`tools/internal/header_parser.c`) | stamp | touch, become clang | clang; Bazel, which trusts stamp and status |
| redirected runs of programs on Windows (in all three tools) | standard descriptors, copies of them | save, redirect, spawn, wait, point back | the child, which inherits the descriptors |
| buffers, lists, text codings (in all tools) | capacity, length, block; a text | reserve, double, append; quote, trim, decode | `size_t`; Bazel's quoting, clang's JSON reader |
| bootstrap graph (`toolchain/`, `toolchain/bootstrap/`) | build settings of a configured target | the transitions; tool and toolchain selection; the training | staged runtimes, sanitizer settings |
| staged runtimes (`runtimes/`, `toolchain/runtimes/`) | `runtime_stage` | runtime rules; resource directory | the toolchain of each stage |
| sanitizer settings (`config/`) | a flag per sanitizer, for target and for exec configurations | set, reset, read | every transition |
| module extensions (`extensions/`, `kernel/extension`, `runtimes/glibc/extension`, `3rd_party/gcc/extension`) | tags of all Bazel modules, in the order Bazel lists them | choose an SDK, a version, a source, a seed, the platforms, the kernel headers | each other through `@llvm_version`; platforms, by the select they declare |
| LLVM source repositories (`private/`) | a directory being filled, links into a user's tree | link, clone, extract, overlay, patch, write | Bazel's repository cache, the user's tree |
| archive repositories (`http_*_archive.bzl`) | a directory being filled | download, extract, delete, patch, write | Bazel's repository cache |
| macOS SDK updater (`tools/update_osx_sdk.py`) | downloads in `/tmp`, captures, `MODULE.bazel` | read catalog, download, hash, capture, rewrite | Apple's servers, Wayback Machine |
| LLVM version index generator (`tools/gen_llvm_versions_index.py`) | versions read so far | read a page, filter, sort, write | GitHub's releases, which change between pages |
| libstdc++ probes (`3rd_party/gcc/libstdcxx/autoconf`) | a directory in `/tmp` per shell, result files, a header | compile and link probes, render the header | the toolchain; shells with the same pid |
| platforms, constraints, arguments, features, prebuilt packaging, tests | tables and flags | - | - |

### What is hard, and what makes each part correct

* **Link wrapper.** Tools may tear an output, fail, be killed; `waitpid` may be
  interrupted; stripping is split between linker and wrapper. Correct if status 0
  means that every output is complete, debug information leaves the library only
  after a complete dSYM has it, and no tool outlives the wrapper.
* **Validator.** Correct if a stamp means a valid library and the report is
  exactly the duplicates, on ELF and on Mach-O, where llvm-nm's letters differ.
* **Definition file generator.** Several run in one directory, and stale response
  files lie about. Correct if status 0 means exactly the exports of this
  generator's inputs.
* **VFS generator.** `readdir` has no order; names differ by case. Correct if the
  overlay is the case-insensitive view of the tree and nothing of the tree's
  reading order is in it.
* **Bootstrap.** The graph is finite only because each transition lowers
  something; nothing says so in one place. Correct if every walk down the graph
  reaches the downloaded compiler, each step is built by the right compiler,
  sanitizers stay out of compilers, instrumentation reaches the training and the
  profile reaches stage 3 only.
* **SDK updater.** Runs die, connections close early, the Wayback Machine answers
  late or wrongly. Correct if `MODULE.bazel` never mixes packages, names only a
  captured package, and a dry run changes nothing.
* **Module extensions.** Bazel lists the root module first and then its
  dependencies; each extension has its own rule of who wins and what is an error.
  Correct if the root decides, clashes are errors and not silent choices, and what
  is chosen in one extension fits what another has chosen.
* **Kernel headers and platforms.** An exact version is pinned per libc in one place,
  the versions there are come from an index in another, and a default libc is written
  down three times. Correct if every platform has headers, those its glibc is made for.
* **LLVM source repositories.** Four ways to make one tree. Correct if they make
  the same tree, without writing through a link into the user's sources.
* **Windows runs.** A program redirects its own descriptors, and each of five calls
  may fail. Correct if a child never gets a wrong file.
* **Buffers.** Capacities double in `size_t`. Correct if no store leaves its block.
* **Probes.** Shells run at once and name directories by pid. Correct if a result is
  that of its own source.
* **Version index.** Pages shift while they are read. Correct if a release that
  stays is indexed.

Every hazard is listed in `PROJECT.json` at the line where it bites, with the
properties that guard against it.

## Modules and the code

| Module | Models |
| --- | --- |
| `LinkWrapper` | `link_wrapper.c`: one action per step of `main` and per thing that can happen to the child. `request` and `missing` are the environment, `file` the outputs, with "torn" for one a tool left in the middle. The environment is the one the features of `toolchain/features` build. |
| `LibraryVerdict` | abstract: one verdict, and a stamp for valid libraries only |
| `StaticLibraryValidator` | `static_library_validator.c`; implements `LibraryVerdict`. A symbol is a sequence of bytes because `qsort`'s comparison of prefixes matters. llvm-nm is external. |
| `DefFileGenerator` | `def_file_generator.c`, one process per generator. Names are numbers in the order of `strcmp`; decoding of an argument is "decodes or not". |
| `CaseInsensitiveVfs` | `main.c`, `vfs.c`, `filesystem.c`. The recursion of `render_directory` is a stack of calls, one action per entry; the overlay is a sequence of tokens. What a command line finds is a function from paths to kinds of file, so that trees of any depth are in it. `Qsort` is the order a strict `before` has. |
| `CaseInsensitiveView` | what the overlay must show, said of the paths alone: one whose every name is the preferred one of its directory. `Nesting` reads the tokens back. |
| `ToolchainGraph` | the bootstrap. A behaviour is a walk from what a user builds to one dependency after another; an action is an edge with its transition. `lineage` remembers the steps of the bootstrap passed, `carries` whether Bazel's exec transition keeps the sanitizer flags. |
| `SdkUpdate` | `update_osx_sdk.py`, one run after another over what earlier runs left. A hash is the file it was computed from; the Wayback Machine is an actor. |
| `ModuleExtensions` | `osx.bzl`, `llvm.bzl`, `llvm_toolchain_minimal.bzl`, `gcc.bzl`, `toolchain.bzl`: a walk over the modules that use an extension, one action per module visited. `root` and `dependency` are the local variables of those names, whatever each file calls them; `declared` is what the repositories are made from. The walks for source and seed start where the version has been chosen. |
| `KernelHeaders` | the index that wins, the loop that makes the map of kernel lines, and the `select` a target resolves; platforms and what glibc they get |
| `KernelTables` | the tables that `KernelHeaders` is about, as the repository has them: libcs and their pinned kernel versions, defaults, kernel lines, and all 109 versions of the index with their architectures |
| `LlvmProjectTree` | the rules for a path, a clone and an archive. A tree is a function from paths to contents; a link makes what is below it the user's. |
| `RedirectedSpawn` | the `_WIN32` halves of `link_wrapper.c`, `def_file_generator.c` and `static_library_validator.c`, which the component modules model as "run a program" |
| `GrowableBuffer` | `struct buffer`, `struct text_buffer`, the arrays that double, `read_line`, and the loops of `read_file` and `copy_file`; contents are counted |
| `TextCodings` | `ci_json_string`, `trim` and `decode_shell_argument`, with a writer or reader at the other end |
| `HeaderParser` | `header_parser.c`, and a Bazel action that is repeated and interrupted |
| `VersionsIndex` | `gen_llvm_versions_index.py`, with the releases as an actor |
| `AutoconfProbes` | the shell scripts of the probe and header actions, several at once |
| `...Proofs` | proofs, see below |
| `Repositories`, `ToolParts` | sums of small modules that share no state: a behaviour is one of one part, and the other parts stay in an initial state. They hold the assumptions on the constants that the parts' tables and inputs justify. |
| other `MC...` | values for TLC |

`PROJECT.json` maps every definition to its lines. Operators marked *Mutant* or
*Mutated form* are plausible errors of the operator after them. They are used by
no specification: putting one in the place of its original must break a property.

## Runs

| Run | States | Instance, and why it is enough |
| --- | --- | --- |
| `MCLinkWrapper` | 24 390 | Every link action in every environment lacking at most one variable; a failing exit code, the 127 of a failed exec, a signal; 2 interrupts. Steps are sequential and stop at the first failure, so a second missing variable or code meets no new case. |
| `MCStaticLibraryValidator` | 1 238 920 | Every archive of up to three definitions over three symbols, one a prefix of another, in names without brackets and in names with a `[` alone; the output of llvm-nm or of llvm-cxxfilt lost, or neither. Three definitions suffice for a run, a neighbour of a run and an order of the two. |
| `MCBracketedArchive` | violation | The same archives, no output lost, and names with a `]` after a `[` too, like `a[1]/lib.a`. |
| `MCDefFileGenerator` | 390 565 | Two generators, seven jobs: names shared between objects and definition files, stdcall forms, one job per way an input can be bad, a stale response file, every failing call, and the failures that the code does not see. Two processes are what interference needs. |
| `MCCaseInsensitiveVfs` | 51 596 | Roots of up to three entries, three of the four names equal but for case, every kind of entry; pairs of roots; every order of `readdir`, every failing call. |
| `MCToolchainGraph` | 78 690 | All five platforms, three execution platforms, four of the fourteen sanitizers: one that libc++ inherits, one for those every list resets, the two the shorter lists leave out. The transitions treat sanitizers by these classes only. |
| `MCStage0Objects`, `MCStage2Binary` | violation | The same instance. |
| `MCSdkUpdate` | ~140 000 | Two runs, three packages of which the newest has not the greatest URL and two share a version, two chunks, two attempts. The first run leaves what the second finds. |
| `MCTornDownload` | violation | The same instance. |
| `MCRepositories` | 395 570 | *modules* (70 721): every list of up to three modules, with and without the root: one module to decide, two to clash, three for an order of the two; tags that agree, clash and repeat; four environments, one of them with `BAZEL_MACOS_FRAMEWORKS` a comma. *kernel* (84 945): the repository's own tables in full, with every platform of five cpus, eighteen libcs or none, and seventy-nine kernel lines or none; an index in the opposite order that lacks a pinned version, and one that lacks lines; up to two modules with up to two indexes, enough for one to follow another. *tree* (13 194): sixty-four source trees over the six paths that meet the overlay (same file, directory in one tree only, excluded file), four patches, every order of `readdir`; the walk treats every directory alike, so two levels of them suffice. *index* (226 710): up to three releases, two to a page, two changes between requests. |
| `MCToolParts` | 457 132 | *spawn* (208): all three tools and every failure of every call; it is exhaustive, two calls are all a tool makes. *buffer* (18 287): `size_t` of six bits with blocks of up to 26 bytes, so that allocation fails near the wrap, as on real machines, and every capacity from the first to the last doubling occurs. *text* (4 681): every text of up to four characters of eight kinds: an escape, its context and a neighbour on each side. *header* (948): three contents, four attempts: one accepted, edited, failed, repaired. *probes* (433 008): two probes besides policies, three pids, two kills: a kill leaves a directory, another reuses its pid. |

What they show:

* `link_wrapper`: status 0 means the library is stripped as asked, the dSYM full,
  the interface of the right kind and, if copied, a copy of the final library; a
  copied interface is all or nothing; the first failure decides the status.
* `static_library_validator`: the program implements `LibraryVerdict` for the
  definitions whose listing reaches it, and its report names every strong definition of
  every duplicated symbol once. The POSIX child ignores a `dup2` that fails (line 244):
  then nothing reaches it, and it stamps whatever the archive is.
* `def_file_generator`: the output of status 0 is exactly the exports, sorted, but for
  two failures that the code does not see: a read error taken for the end of a file, and
  an `fprintf` whose result is ignored (lines 569-577); bad inputs
  leave no output; the response file goes away.
* `case_insensitive_vfs`: the overlay equals the view, in an order that does not
  depend on `readdir` or on the options' order, and failures are those the view
  calls for.
* `toolchain_graph`: every walk ends at the downloaded compiler, since every edge
  has a smaller rank; right compiler, clean compilers, instrumented training,
  profile for stage 3.
* `repositories`: the root's word on the SDK and on LLVM's version, else the last
  dependency's; clashes of sources are never resolved in silence; the seed fits the
  version; frameworks, libraries and platforms add up (`TagsAddUp`). Kernel headers are the
  newest patch version of the last index. The tables, which are edited by hand in
  different files, fit each other: the index has the version pinned for every libc, for
  every cpu, the default of glibc and the one of the kernel headers are one, and RISC-V's
  is recent (`TargetsHaveHeaders`). All
  ways to lay out LLVM's sources make one tree, and a user's tree is only read
  (`OverlayIsLaidOver`). Releases that stay while the pages are read are indexed.
* `tool_parts`: no store outside a block though sizes wrap; a child that runs has its
  files, also after a failure (`SpawnsAreClean`); only headers that parse are accepted,
  and the results and the header of a configuration are of the checks' own sources
  (`ActionsReportTheCompiler`); what is written is the text that is read
  (`TextsReadBack`); every part ends (`PartsEnd`).
* `sdk_update`: one package, the newest of the catalog; every run ends, also when a
  capture stays pending for ever.

Some properties are proved and left out of the runs, which would repeat them: the
types of four modules, `NoToolOutlivesWrapper`, `StampedIsValid` (a run checks it
where a path has a `]` after a `[`), `SymbolizerIsUnsanitized`, `CapturedBeforeWritten`,
`DryRunChangesNothing`, `HostSdkOnlyOnMac`, `CapacityGrows`. Each was checked by TLC
before it was proved.

### Findings

1. `static_library_validator.c:277` skips a line in which the first `]` after the first
   `[` is not followed by `: `. Where the archive's path or a member has such a `]`,
   as in `a[1]/lib.a` or `a[1].o`, an archive with duplicates is stamped
   (`bracketed_archive`). A `[` alone only spoils the object's name.
2. `cc_stage0_object.bzl:10` says that stage 0 objects must never be built with
   sanitizers; the list below it lacks `fuzzer` and `profile`, so these reach the start
   files that are written in C (`stage0_objects`).
3. `bootstrap_binary.bzl:127` says that `fdo_instrumented` builds an instrumented
   binary; outside exec configurations the flag it sets is not read
   (`stage2_binary`). The training itself is not affected: its compiler is in an
   exec configuration, which is what `TrainingIsInstrumented` says.
4. `update_osx_sdk.py:139` reuses a file that an earlier run left incomplete, and
   takes an early end of a connection for the end of a package: the hash is not
   that of the package (`torn_download`).

Observations, read in the code while it was modelled, that no run reports:

* `static_library_validator.c:244` ignores what `dup2` returns, which
  `def_file_generator.c:301` and `link_wrapper.c:95` check. If it fails, llvm-nm lists
  elsewhere and the archive is stamped unread (`"nm" \in lost`).
* `def_file_generator.c:569` ignores what `fprintf` returns: if a write in between fails
  and `fclose` does not, a torn `.def` is left with status 0 (`WriteDefTorn`).
* `osx.bzl:113` overwrites what lines 110-111 collect: the tag for all libraries of
  the SDK has no effect, whatever the comment at line 272 says of it.
* `toolchain.bzl:45` keeps duplicates: two modules that ask for the same platform make
  two targets of one name.
* `libc_kernel_versions.bzl:35` gives a RISC-V platform without a libc constraint the
  headers of Linux 4.19, though compiler-rt needs 5.10 there
  (`libc_versions.bzl:27`).
* `autoconf_hdr.bzl:32` drops the last line of the operations, which has no line
  break. The lists there are end with a line that says nothing.

## Fairness

* `LinkWrapper`: weak fairness of the process's next step, and of a child's end. It is
  one thread that waits for nothing but its children, and the tools terminate.
  Interrupts of `waitpid` are bounded (`MaxInterrupts`).
* `ToolchainGraph`: weak fairness of the walk. A walk that stops early shows
  nothing; liveness says no walk goes on for ever or gets stuck above the seed.
* `SdkUpdate`: weak fairness of a running program's own steps. Nothing is assumed
  of the Wayback Machine, nor that anybody starts another run; failing is never
  forced, so a run ends by its own steps even if nothing fails.
* `ToolParts`: weak fairness of the one running program of each part (a collector, a
  spawning tool, the header parser), of a child's end, of Bazel looking at a status,
  and of the probe actions together and the header's: Bazel runs every action it
  has. Kills are bounded (`MaxKills`), since a build that is killed for ever never
  ends.
* Other modules state no liveness, hence no fairness.

## Proofs

| Module | Theorems | Argument |
| --- | --- | --- |
| `LinkWrapperProofs` | `TypeCorrect`, `SuccessIsComplete`, `CopyIsAllOrNothing`, `NoOrphan`, `DsymBeforeStrip`, `FirstFailureDecides` | What is known of the files at each `pc` (`StepInv`, `InterfaceInv`) must be carried along: that the library is final before the interface is made follows from no single step. `StatusFacts`: 128 + signal is never 0 mod 256. |
| `StaticLibraryValidatorProofs` | `TypeCorrect`, `StampMeansValid`, `SpecReportIsExact`, `Implementation` | Parsing keeps a correspondence between the lines read and the entries; sorting keeps the set of entries and puts equal symbols side by side; then a scan without a pair of neighbours means no duplicates. `ReportInv` says that the scan is at the start of a run and has reported the strong definitions of the runs before, each once; since runs are the symbols, the report is exact. `Implementation` is the refinement of `LibraryVerdict`, on the listed definitions; `StampMeansValid` assumes that llvm-nm's output is captured and that no name hides a line. `NatMin`, that a set of naturals has a least element, makes the `CHOOSE` of a first position one. |
| `ToolchainGraphProofs` | `TypeCorrect`, `RightCompiler`, `CleanCompilers`, `InstrumentedTraining`, `UnsanitizedSymbolizer`, `ProfileOnlyForStage3`, `Acyclic` | The invariant says for each kind of target which runtime stage, sanitizers, platform and lineage the transitions leave it with; the properties follow from it and need it, since a transition only sets what it names. `Acyclic`: every edge lowers (phase, depth) in lexicographic order. |
| `SdkUpdateProofs` | `TypeCorrect`, `ModuleOfOnePackage`, `WrittenOnlyIfCaptured`, `DryRunsAreHarmless`, `NewestIsWritten` | Every package of the catalog is to do, in hand or a candidate, and candidates do not mix packages; so the one no candidate is newer than is the newest of the catalog; the confirmation ties the snapshot to it. |
| `RepositoriesProofs` | of the module walks: `SpecTypeOK`, `SpecRootElseLastDependency`, `SpecHostSdkOnlyOnMac`, `SpecOneSource`, `SpecSeedFitsVersion`, `SpecPathsAgree`, `SpecNoClashIsIgnored`, `SpecTagsAddUp`; of the sum: `PartsAreImplemented`, `RepositoriesInvariant`, `RepositoriesTypeOK`, `ModulesAreResolved`, `HeadersAreNewest`, `TreeIsLaidOut`, `ReleasesAreSeen` | See below. |
| `ToolPartsProofs` | `PartsInvariant`, `PartsTypesOK`, `PartsStoreIsInBlock`, `PartsSuccessIsAll`, `PartsCapacityGrows`, `PartsSpawnsAreClean`, `PartsActionsReportTheCompiler`, `PartsTextsReadBack` | See below. |
| `DefFileGeneratorProofs` | `SpecNoDefOfBadInputs`, `SpecResponseIsRemoved`, `ExportsInvariant`, `SpecTypeOK`, `SpecSuccessMeansExactDef` | An action changes its own generator's part only (`OthersUnchanged`), so the invariant is one of a single generator: what has been read was accepted and is remembered, and a response file belongs to a generator on its way to llvm-nm and back. What the string sets hold is what the arguments passed so far call for: insertion into a sorted list keeps it sorted and adds one element, and a listing adds the union of what its lines add. |
| `CaseInsensitiveVfsProofs` | `SpecIInv`, `SpecTypeOK`, `SpecOverlayIsTheView`, `SpecOverlayIsOrdered`, `SpecVerdictIsOfTheView`, `EntriesAreSorted`, `ValidateIsExact`, `CollapseIsPreferred` | See below. |

Three modules have the same facts on folds (`FoldExists`, `FoldSteps`): a fold
over a sequence is the last of its partial results, so that an invariant of each step
is one of the whole.

The walk of `CaseInsensitiveVfs`: what no single call of `render_directory` knows is
what the others have yet to do, so the invariant says it of the view. `Ahead` is the
part of the view the walk is yet to come to, through some call of the stack or a later
root; `Shown` says that the tokens are the rest of the view, each path once, nested
where it belongs, in order, and before what is ahead in the same directory. `WalkAt`
is that for the current stack, and each action moves one path, or a directory without
entries left, from one side to the other (`WalkBegins`, and a lemma for each action).
At the end nothing is ahead, and `Shown` gives the two properties of the overlay. That
the names a call walks are the preferred ones is the part on sorting:
`PrecedesOrders`, so `EntriesAreSorted` whatever `readdir` gives; in a sorted directory
the aliases of a name are neighbours, so that validation (`ValidateIsExact`) and
collapsing (`CollapseIsPreferred`), which look at neighbours only, are right. A path
that is ahead cannot be in a directory that was refused, which decides the verdict.

The arguments of the two sums, part by part:

* *Modules.* The invariant is about the modules passed so far: `RootInv` and
  `DependencyInv` say whose answer is kept, `JumpInv` that a walk the root ends has
  seen no dependency, `OverrideInv` and `AgreeInv` that a clash has not been passed,
  `ListsInv` that the lists hold the tags of the modules passed. At the end of the
  list they are the choice and the sum.
* *Kernel headers.* `IndexInv`: the index read is that of the last module passed with
  a tag. `MapInv`: after n entries the map has a line for exactly the lines of those
  n, and its version is one of theirs that none of them is newer than (`OneMoreEntry`,
  by the order on triples, `NewerThanOrders`). `SelectInv` says which branch of the
  `select` a target took.
* *LLVM's sources.* The property is about what a reader sees through the links, the
  invariants are about links and files. So each rule has two parts. The first says what a
  repository of one kind shows: `MirrorView`, for one whose links are entries of its root
  and lead to the same path of the sources, and `PathView`, for links into the user's
  tree of which none is below another. The second says of each step what it adds to that
  (`CloneInv`, `ArchiveInv`, `PathInv`). The walks over the overlay share `Pending`, the
  overlay's files in directories still to visit: a visit takes the files of its directory
  from it and nothing else (`WalkSteps`), in any order of the stack, because no directory on it is
  below another. For the user's sources, a link is made where one tree alone has
  what is below it (`SourcesAlone`, `OverlayAlone`), and everything else is linked already or in
  a directory to visit (`SourceCovered`, `OverlayCovered`), so that nothing is lost and
  nothing hidden. The user's files stay as they are because utils is linked as
  a whole until `_materialize_third_party_build` makes its directories anew (`UtilsWhole`,
  `UtilsOpen`) before anything is written below.
* *Release index.* `SeenInv`: as long as nothing has been deleted, each release at a
  position already read that nobody has touched is in the index or has been warned
  of. It is inductive because a publication only moves releases on, so that what is
  before the next page was before it already (`ChangeKeeps`). `StaysInv` ties the
  releases at the start to those listed now, `EndInv` says that the last page ends at
  the last release and that the file is the index in the order of its keys.
* *Buffers.* Blocks are at most half of what `size_t` counts, so a capacity that is a
  block's doubles without a wrap; each step of a collector is bounded by the free room
  computed before.
* *Spawns.* Which descriptors are redirected and which copies are open is a function of
  the call the tool has come to and of the call that failed; a child runs between
  spawn and wait only.
* *Header parser.* A stamp is of the attempt that made it, and status 0 comes of clang
  alone (`StampInv`, `StatusInv`).
* *Probes.* Two shells that run have different pids, hence different directories; so
  the object that a probe links is its own (`ObjectInv`), though its directory may hold
  what a killed probe left before it was compiled. A verdict, once made, is that of
  the source (`JudgedInv`), and a header is rendered when no verdict changes any more.

* *Texts.* The library's theorems on induction over sequences have an operator for a
  parameter. Here the induction is the part's own: a text grows by a character, and
  `JsonInv` and `ShellInv` say of it in which state the reader is after what the writer
  has made of it so far. That writer and reader are the runs of their steps, so that
  the next character adds one step to each, is `RunAfter`, once for all folds. A line
  of two names is refused (`TwoNames`) because trimming keeps both (`TrimmedPart`):
  after the first the decoder has an argument with no quote open, the blank
  separates it, and the next character that is not white space is an error, which
  stays (`TwoNamesFail`).

`PartsAreImplemented` shows that a behaviour of `Repositories` is one of each part's own
specification, so that what is proved of a part holds of the sum.

Assumptions are the `ASSUME`s on the constants, in the component modules and in the two
sums, which TLC evaluates on each run. They hold for any sets of requests, archives,
sanitizers with `asan` and `profile` among them, platforms, packages, lists of
modules, tables and bounds of the kinds the code can be given:

* a module's tags are sequences, and name index files that exist (Bazel resolves a
  label or fails); `None` is no value of a tag;
* a version of Linux is three numbers, one of LLVM a major version and a candidate's
  number, 0 for none: the code splits and converts them or skips them;
* the default libcs are libcs (`LibcsAssumption`);
* LLVM's sources are a finite tree with the overlay's files where the rules look for them.
  What is a file in the sources, in the overlay or among the files the rules write is a directory in
  none of them, and the overlay has the directories `llvm` and `bolt`, where the rules write, and
  none in `utils`, where it is itself (`SourcesAssumption`); the archive rule's list of
  what is left out has no directory of `pfm.BUILD`, and what it adds is not that file
  (`PathsAssumption`). These are facts on LLVM's repository: `readdir` or `symlink` fail, or a link
  would hide a file, where they are false;
* a rule's roots are different directories, as those of `runtimes/msvc` are (Bazel
  refuses a label that is twice in a list); a root has finitely many files below it, each in a directory (`CommandsAssumption`),
  and a name's folded form is folded (`NamesAssumption`);
* a generator's object has finitely many symbols, and a definition file names of the
  kinds that the generator distinguishes (`FilesAssumption`).

Only model-checked:

* Liveness (`Termination`, `ReachesTheSeed`, `PartsEnd`): the prover does not treat
  fairness and ENABLED. `Acyclic` proves what `ReachesTheSeed` rests on.

* `TargetsHaveHeaders`: it is a fact on the repository's tables, not one that holds of
  all tables. TLC checks the tables themselves (`KernelTables`), so that an edit of one
  that does not fit the others is found once it is made here too.

Every other invariant that a passing run checks is also proved.

## Not modelled, and why

* Formatting, messages, command line flags: no property is about them.
* Features and arguments of the toolchain other than those the link wrapper reads;
  `platforms/`, `constraints/`, `rbe.bzl`: tables without state.
* Sources and build files of LLVM, musl, glibc, MinGW and GCC: other projects. Their
  place in the bootstrap is in `ToolchainGraph`, where a runtime is one node.
* `http_bsdtar_archive.bzl`, `http_pkg_archive.bzl`, the extensions of glibc, musl and
  MinGW: straight-line scripts. Bazel discards the directory of a rule that fails, so
  that no step of one attempt meets another; glibc's walk keeps the last index, as
  the one of the kernel headers does.
* In `LlvmProjectTree`: the version read from CMake's files, remote files, integrity
  attributes, and the number of directories at which the walks over the overlay give up
  (a Starlark loop needs a bound). In `AutoconfProbes`: a `mkdir` that fails (it ends the action as a kill
  does) the checks' flags, and in the header's text `string_define`, several macros of one
  check and the lines skipped. In `CaseInsensitiveVfs`: the slashes of a path in
  `external-contents`, and running out of memory. In `LinkWrapper`: which format an unset
  or unknown `LLVM_INTERFACE_LIBRARY_FORMAT` stands for. In `ModuleExtensions`: the patches per LLVM version,
  the archives per host, and the calls of `xcrun` in the host SDK's repository. In
  `TextCodings`: the short escapes other than that of the line break.
* `prebuilt/`, `.github/workflows`: packaging; the repository they act on is GitHub's.
* `generate_apple_sdk_releases` in the SDK updater: `main` does not call it.

## Plan

Done, in this order: `LinkWrapper`, `LibraryVerdict` and `StaticLibraryValidator`,
`DefFileGenerator`, `CaseInsensitiveVfs`, `ToolchainGraph`, `SdkUpdate`,
`ModuleExtensions`, `KernelHeaders`, `RedirectedSpawn`, `HeaderParser`,
`VersionsIndex`, `TextCodings`, `GrowableBuffer`, `AutoconfProbes`, `LlvmProjectTree`; then the
proofs, from the components to the sums.

Theorems still worth proving: that no walk of `ReachesTheSeed` gets stuck; termination measures of the C programs as action properties.
