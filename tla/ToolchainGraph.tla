---------------------------- MODULE ToolchainGraph ----------------------------
(***************************************************************************)
(* toolchain/, toolchain/bootstrap/, toolchain/runtimes/: what a configured *)
(* target depends on.  A behaviour walks down the configured target graph   *)
(* from something a user builds: each step goes from a target to one of     *)
(* the targets it depends on, in the configuration the edge's transition    *)
(* gives it.  The compiler, its tools and the runtimes it links are built   *)
(* with a toolchain themselves, so the graph is finite only because the     *)
(* transitions make it so.                                                  *)
(*                                                                          *)
(* The walk ends at the compiler that is downloaded.                        *)
(***************************************************************************)
EXTENDS Naturals, Sequences

CONSTANTS
  Sanitizers,      \* the names of config/defs.bzl's SANITIZERS
  ShortList,       \* those cc_stage0_object and cc_unsanitized_library reset
  Symbolized,      \* those whose runtime contains the internal symbolizer
  Platforms,       \* the target platforms considered
  ExecPlatforms    \* the platforms actions may run on

ASSUME SanitizersAssumption ==
  /\ {"asan", "profile"} \subseteq Sanitizers
  /\ ShortList \subseteq Sanitizers
  /\ Symbolized \subseteq Sanitizers

(* "mingw" and "msvc" are Windows; "none" is an operating system too.  No   *)
(* execution platform has the MSVC ABI: the compilers published for Windows *)
(* are MinGW builds, and a source-built one names no ABI.                   *)
ASSUME PlatformsAssumption ==
  /\ Platforms \subseteq {"linux", "macos", "mingw", "msvc", "none"}
  /\ ExecPlatforms \subseteq Platforms \ {"msvc", "none"}

BootstrapStages == {"stage0", "stage1", "stage2", "stage3"}
RuntimeStages == {"stage0", "stage1", "stage1_hosted", "complete"}

(* The build settings that matter here.  `profile' is --fdo_profile, `exec' *)
(* whether the output directory is one of an exec configuration, `flags'    *)
(* and `host' the sanitizers X whose //config:X and //config:host_X is set. *)
Configurations ==
  [bootstrap : BootstrapStages, runtime : RuntimeStages, platform : Platforms,
   exec : BOOLEAN, profile : BOOLEAN,
   flags : SUBSET Sanitizers, host : SUBSET Sanitizers]

Targets ==
  {"program",          \* what a user builds
   "tool",             \* //tools:<binary>
   "stageLlvm",        \* a bootstrap_binary of llvm.stripped
   "stageTool",        \* a bootstrap_binary of a program of tools/internal
   "llvm",             \* the LLVM sources
   "hostedTool",       \* a program of tools/, a stage1_hosted binary
   "toolchain",        \* the cc_toolchain the configuration resolves to
   "profdata",         \* llvm_fdo_profdata
   "workload",         \* a training workload of it
   "stage0Object",     \* a start file: a cc_stage0_object
   "runtimeLibrary",   \* libc, builtins, libunwind...
   "libcxx",           \* libc++ as an archive
   "libcxxShared",     \* libc++ as a shared library
   "sanitizerRuntime", \* the runtime of a sanitizer that symbolizes
   "symbolizer",       \* the internal symbolizer linked into it
   "symbolize",        \* the LLVM libraries of the internal symbolizer
   "downloaded"}       \* the prebuilt LLVM distribution

VARIABLES
  target,    \* where the walk is
  config,    \* the configuration of target
  lineage,   \* the stages and workloads the walk went through
  carries    \* whether exec configurations keep the flags of config/

vars == <<target, config, lineage, carries>>

Latest == IF lineage = <<>> THEN "user" ELSE lineage[Len(lineage)]

(* The sanitizers in force: an exec configuration reads the host flags.     *)
Effective(c) == IF c.exec THEN c.host ELSE c.flags
-----------------------------------------------------------------------------
(* Transitions, each after its mutants.                                     *)

(* Mutant of ExecConfig: runtime_stage without scope = "universal".         *)
ExecConfigDefaultsStage(c, platform) ==
  [c EXCEPT !.platform = platform, !.exec = TRUE, !.profile = FALSE,
            !.runtime = "complete",
            !.flags = IF carries THEN @ ELSE {},
            !.host = IF carries THEN @ ELSE {}]

(* Bazel's exec transition.  The settings of scope "universal" survive it;  *)
(* whether the others do depends on the Bazel release and its flags.        *)
ExecConfig(c, platform) ==
  [c EXCEPT !.platform = platform, !.exec = TRUE, !.profile = FALSE,
            !.flags = IF carries THEN @ ELSE {},
            !.host = IF carries THEN @ ELSE {}]

(* Mutant of disable_sanitizers: only the flags of the shorter lists.       *)
disable_short_list(c) ==
  [c EXCEPT !.flags = @ \ ShortList, !.host = @ \ ShortList]

disable_sanitizers(c) == [c EXCEPT !.flags = {}, !.host = {}]

(* Mutant of source_backed: fdo_instrumented is forgotten.                  *)
source_backed_by_profile(stage) == stage = "stage3"

(* Stages 2 and 3 are source-backed: instrumented, or given a profile.      *)
source_backed(stage) == stage \in {"stage2", "stage3"}

(* Mutant of Profiled: bootstrap_binaries without its select.               *)
ProfiledEverywhere(stage, c) == stage = "stage3"

(* Only the MSVC binaries of stage 3 have no profile.                       *)
Profiled(stage, c) == stage = "stage3" /\ c.platform # "msvc"

(* Mutant of bootstrap_transition: the flag of target configurations.       *)
bootstrap_sets_target_flag(c, stage) ==
  [disable_sanitizers(c) EXCEPT
     !.bootstrap = IF source_backed(stage) THEN "stage1" ELSE "stage0",
     !.runtime = "complete",
     !.profile = Profiled(stage, c),
     !.flags = IF stage = "stage2" THEN {"profile"} ELSE {}]

bootstrap_transition(c, stage) ==
  [disable_sanitizers(c) EXCEPT
     !.bootstrap = IF source_backed(stage) THEN "stage1" ELSE "stage0",
     !.runtime = "complete",
     !.profile = Profiled(stage, c),
     !.host = IF stage = "stage2" THEN {"profile"} ELSE {}]

profile_generation_transition(c, platform) ==
  [disable_sanitizers(c) EXCEPT
     !.bootstrap = "stage2", !.runtime = "complete",
     !.profile = FALSE, !.platform = platform]

(* Mutant of profile_merge_transition: --fdo_profile is not reset.          *)
profile_merge_keeps_profile(c) == [c EXCEPT !.bootstrap = "stage1"]

profile_merge_transition(c) ==
  [c EXCEPT !.bootstrap = "stage1", !.profile = FALSE]

(* The with_cfg rules of toolchain/runtimes; `inherited' is {"asan"} for    *)
(* inherit_asan.                                                            *)
configure_builder_for_runtimes(c, stage, inherited) ==
  [c EXCEPT !.runtime = stage,
            !.flags = @ \cap inherited, !.host = @ \cap inherited]

cc_stage0_object(c) ==
  [c EXCEPT !.runtime = "stage0",
            !.flags = @ \ ShortList, !.host = @ \ ShortList]

reset_sanitizers(c) ==
  [c EXCEPT !.runtime = "complete",
            !.flags = @ \ ShortList, !.host = @ \ ShortList]
-----------------------------------------------------------------------------
(* What a user builds: a program, or a binary of some stage, with any       *)
(* bootstrap_stage and sanitizers.  runtime_stage is not a flag.            *)
Init ==
  /\ carries \in BOOLEAN
  /\ config \in
       [bootstrap : BootstrapStages, runtime : {"complete"},
        platform : Platforms, exec : {FALSE}, profile : {FALSE},
        flags : SUBSET Sanitizers, host : SUBSET Sanitizers]
  /\ \/ target \in {"program", "tool"} /\ lineage = <<>>
     \/ /\ target = "stageLlvm"
        /\ lineage \in {<<s>> : s \in BootstrapStages \ {"stage0"}}

(* An edge to target t in configuration c.                                  *)
Depend(t, c) ==
  /\ target' = t
  /\ config' = c
  /\ UNCHANGED <<lineage, carries>>

(* An edge to a binary or workload that opens a step of the bootstrap.      *)
DependOnStage(t, c, stage) ==
  /\ target' = t
  /\ config' = c
  /\ lineage' = Append(lineage, stage)
  /\ UNCHANGED carries

(* The LLVM generation that bootstrap_stage asks for.                       *)
DependOnLlvm(c) ==
  IF c.bootstrap = "stage0" THEN Depend("downloaded", c)
  ELSE DependOnStage("stageLlvm", c, c.bootstrap)

platform_llvm_binary == target = "tool" /\ DependOnLlvm(config)

(* Whatever is compiled or linked resolves the toolchain of its own         *)
(* configuration.                                                           *)
ResolveToolchain ==
  /\ target \in {"program", "llvm", "hostedTool", "profdata", "workload",
                 "stage0Object", "runtimeLibrary", "libcxx", "libcxxShared",
                 "sanitizerRuntime", "symbolizer", "symbolize"}
  /\ Depend("toolchain", config)

(* The platforms an action may run on; the workloads are tied to Linux.     *)
ExecFor ==
  IF Latest = "workload" THEN ExecPlatforms \cap {"linux"} ELSE ExecPlatforms

(* tool_map: clang, lld, llvm-ar..., of the toolchain's generation.         *)
UseCompiler ==
  /\ target = "toolchain"
  /\ \E p \in ExecFor : DependOnLlvm(ExecConfig(config, p))

(* A program of tools/, in the configuration its rule gives it.             *)
HostedTool(c) == configure_builder_for_runtimes(c, "stage1_hosted", {})

(* tool_map: header-parser, static-library-validator and link-wrapper,      *)
(* which only the complete tool maps have.  linux_complete and              *)
(* macos_complete look at the toolchain's configuration, the _for_runtime   *)
(* aliases at its exec configuration.                                       *)
UseWrapperTool ==
  /\ target = "toolchain"
  /\ \E p \in ExecFor :
       LET c == ExecConfig(config, p)
       IN /\ \/ config.platform \in {"linux", "macos"} /\ config.runtime = "complete"
             \/ c.runtime = "complete"
          /\ IF c.bootstrap = "stage0" THEN Depend("hostedTool", HostedTool(c))
             ELSE DependOnStage("stageTool", c, c.bootstrap)

(* What an MSVC toolchain takes from tools/ without a bootstrap_binary: the *)
(* DEF file generator of complete_tools_for_msvc and, in every stage, the   *)
(* case-insensitive VFS generator of its SDK overlays.                      *)
UseMsvcTool ==
  /\ target = "toolchain" /\ config.platform = "msvc"
  /\ \E p \in ExecFor :
       Depend("hostedTool", HostedTool(ExecConfig(config, p)))

(* --fdo_profile is a dependency of every toolchain of the configuration.   *)
UseFdoProfile ==
  /\ target = "toolchain" /\ config.profile
  /\ Depend("profdata", profile_merge_transition(config))
-----------------------------------------------------------------------------
(* The runtimes a toolchain links, which the arguments of its runtime_stage *)
(* name: none in stage0.                                                    *)
LinksRuntimes == target = "toolchain" /\ config.runtime # "stage0"

(* An MSVC toolchain of a runtime has no resource directory.                *)
HasResourceDir ==
  /\ LinksRuntimes
  /\ config.platform = "msvc" => config.runtime = "complete"

RuntimeLibrary(stage) ==
  Depend("runtimeLibrary", configure_builder_for_runtimes(config, stage, {}))

(* clang_rt.builtins, in every resource directory but that of macOS.        *)
UseBuiltins ==
  /\ HasResourceDir /\ config.platform # "macos"
  /\ RuntimeLibrary("stage0")

(* libc, and the start files of MinGW; for MSVC the libc++ among its        *)
(* default libraries, which hosted C programs do without.                   *)
UseDefaultLibs ==
  /\ LinksRuntimes
  /\ \/ config.platform \in {"linux", "mingw"}
     \/ config.platform = "msvc" /\ config.runtime # "stage1_hosted"
  /\ RuntimeLibrary("stage0")

UseStartFiles ==
  /\ LinksRuntimes /\ config.platform = "linux"
  /\ Depend("stage0Object", cc_stage0_object(config))

(* The runtime of every sanitizer in force.                                 *)
UseSanitizerRuntime ==
  /\ HasResourceDir
  /\ \E s \in Effective(config) :
       Depend(IF s \in Symbolized THEN "sanitizerRuntime" ELSE "runtimeLibrary",
              configure_builder_for_runtimes(config, "stage0", {}))

(* static_runtime_lib and dynamic_runtime_lib of a complete toolchain.      *)
UseLibcxx ==
  /\ LinksRuntimes /\ config.runtime = "complete"
  /\ config.platform \in {"linux", "mingw"}
  /\ Depend("libcxx",
            configure_builder_for_runtimes(config, "stage0", {"asan"}))

UseSharedLibcxx ==
  /\ LinksRuntimes /\ config.runtime = "complete" /\ config.platform = "linux"
  /\ Depend("libcxxShared",
            configure_builder_for_runtimes(config, "stage1", {"asan"}))

UseSharedLibunwind ==
  /\ LinksRuntimes /\ config.runtime = "complete" /\ config.platform = "linux"
  /\ RuntimeLibrary("stage1")

(* On Linux a symbolizing sanitizer links its own copy of LLVM and libc++.  *)
UseSymbolizer ==
  /\ target = "sanitizerRuntime" /\ config.platform = "linux"
  /\ Depend("symbolizer", config)

UseSymbolize ==
  /\ target = "symbolizer"
  /\ \/ Depend("symbolize", reset_sanitizers(config))
     \/ Depend("libcxx", config)
-----------------------------------------------------------------------------
(* The attributes `actual' and `fdo_profile' of bootstrap_binary.           *)
BuildStageBinary ==
  \/ /\ target = "stageLlvm"
     /\ Depend("llvm", bootstrap_transition(config, Latest))
  \/ /\ target = "stageTool"
     /\ Depend("hostedTool", HostedTool(bootstrap_transition(config, Latest)))

UseStageProfile ==
  /\ target \in {"stageLlvm", "stageTool"} /\ Profiled(Latest, config)
  /\ Depend("profdata", profile_merge_transition(config))

(* The profile is merged from a workload for every target but MSVC.         *)
RunWorkload ==
  /\ target = "profdata"
  /\ \E p \in Platforms \ {"msvc"} :
       DependOnStage("workload", profile_generation_transition(config, p),
                     "workload")

Done == target = "downloaded" /\ UNCHANGED vars

Next ==
  \/ platform_llvm_binary \/ ResolveToolchain
  \/ UseCompiler \/ UseWrapperTool \/ UseMsvcTool \/ UseFdoProfile
  \/ UseBuiltins \/ UseDefaultLibs \/ UseStartFiles \/ UseSanitizerRuntime
  \/ UseLibcxx \/ UseSharedLibcxx \/ UseSharedLibunwind
  \/ UseSymbolizer \/ UseSymbolize
  \/ BuildStageBinary \/ UseStageProfile \/ RunWorkload
  \/ Done

(* Fairness: a walk does not stop before a target without dependencies.     *)
Spec == Init /\ [][Next]_vars /\ WF_vars(Next)
-----------------------------------------------------------------------------
(* Every setting has a value its declaration allows.                        *)
TypeOK ==
  /\ target \in Targets
  /\ config \in Configurations
  /\ lineage \in Seq(BootstrapStages \cup {"workload"})
  /\ carries \in BOOLEAN

(* The table "Stage production and selection" of bootstrap/README.md: below *)
(* a step of the bootstrap everything is compiled with the compiler the     *)
(* table names, down to the next step.                                      *)
SelectedCompiler ==
  target \notin {"stageLlvm", "stageTool", "downloaded"} =>
    /\ Latest = "stage1" => config.bootstrap = "stage0"
    /\ Latest \in {"stage2", "stage3"} => config.bootstrap = "stage1"
    /\ Latest = "workload" => config.bootstrap = "stage2"

(* The LLVM sources are never compiled with a sanitizer the user turned on, *)
(* and with the profile instrumentation for nothing but stage 2.            *)
CompilersAreClean ==
  target = "llvm" =>
    Effective(config) \subseteq (IF Latest = "stage2" THEN {"profile"} ELSE {})

(* The compiler a training workload runs is instrumented.                   *)
TrainingIsInstrumented ==
  /\ target = "llvm"
  /\ Len(lineage) > 1 /\ lineage[Len(lineage) - 1] = "workload"
  => Effective(config) = {"profile"}

(* The internal symbolizer, linked into a sanitizer's runtime, is built     *)
(* without any sanitizer although cc_unsanitized_library does not reset     *)
(* all of them.                                                             *)
SymbolizerIsUnsanitized ==
  target \in {"symbolizer", "symbolize"} => Effective(config) = {}

(* The merged profile is applied to stage 3 only, never to an MSVC binary,  *)
(* and never to what produces the profile.                                  *)
ProfileIsForStage3 ==
  config.profile =>
    /\ Latest = "stage3"
    /\ config.platform # "msvc"
    /\ target \notin {"profdata", "workload"}

(* Every build bottoms out in the downloaded distribution.                  *)
ReachesTheSeed == <>(target = "downloaded")

(* Why it does: every dependency is of a lower rank than what depends on    *)
(* it.  First the work of the bootstrap, in the order it has to be done:    *)
(* the programs of a stage, and what its compiler compiles...               *)
StagePhase == [stage1 |-> 2, stage2 |-> 4, stage3 |-> 9]
CompilerPhase == [stage0 |-> 1, stage1 |-> 3, stage2 |-> 5, stage3 |-> 10]

Phase(t, c, latest) ==
  CASE t = "downloaded" -> 0
    [] t = "profdata" -> 7
    [] t = "workload" -> 6
    [] t \in {"stageLlvm", "stageTool"} -> StagePhase[latest]
    [] OTHER -> IF c.profile THEN 8 ELSE CompilerPhase[c.bootstrap]

(* ... then, with one compiler, the runtimes, those without dependencies    *)
(* first and those a sanitizer is in force for last.  A toolchain for MSVC  *)
(* comes after every tool of a platform that is not.                        *)
Sanitized(c) == IF Effective(c) = {} THEN 0 ELSE 7

ToolchainDepth(c) ==
  IF c.runtime = "stage0" THEN 1
  ELSE (IF c.runtime = "complete" THEN 6 ELSE 3) + Sanitized(c)

Depth(t, c) ==
  CASE t = "toolchain" -> ToolchainDepth(c)
    [] t \in {"stage0Object", "libcxx"} -> 2
    [] t = "runtimeLibrary" -> IF c.runtime = "stage0" THEN 2 ELSE 4
    [] t = "hostedTool" -> 4
    [] t = "libcxxShared" -> 5 + Sanitized(c)
    [] t = "symbolize" -> 7
    [] t = "symbolizer" -> 8
    [] t = "sanitizerRuntime" -> 9
    [] OTHER -> 14

Rank ==
  40 * Phase(target, config, Latest) + Depth(target, config)
     + (IF config.platform = "msvc" THEN 20 ELSE 0)

(* No target depends on itself, however indirectly.                         *)
EveryDependencyIsSmaller == [][Rank' < Rank]_vars

(* The comment of cc_stage0_object: "Stage0 objects must never be built     *)
(* with sanitizers enabled."                                                *)
Stage0ObjectsUnsanitized == target = "stage0Object" => Effective(config) = {}

(* The doc of bootstrap_binary's fdo_instrumented: "build the actual binary *)
(* with FDO instrumentation".                                               *)
Stage2IsInstrumented ==
  target = "llvm" /\ Latest = "stage2" => "profile" \in Effective(config)
==============================================================================
