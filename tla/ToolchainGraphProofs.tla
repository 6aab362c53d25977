------------------------- MODULE ToolchainGraphProofs -------------------------
(* The invariants of ToolchainGraph, and that its walk strictly descends,   *)
(* for every set of sanitizers and platforms.                               *)
EXTENDS ToolchainGraph, TLAPS

Bare(c) == c.flags = {} /\ c.host = {}

(* What the transitions leave a target with: its stage of runtimes...       *)
RuntimeStageOfTarget ==
  /\ target \in {"program", "llvm", "symbolize"} => config.runtime = "complete"
  /\ target \in {"stage0Object", "libcxx", "sanitizerRuntime", "symbolizer"} =>
       config.runtime = "stage0"
  /\ target = "hostedTool" => config.runtime = "stage1_hosted"
  /\ target = "libcxxShared" => config.runtime = "stage1"
  /\ target = "runtimeLibrary" => config.runtime \in {"stage0", "stage1"}

(* ... its sanitizers...                                                    *)
SanitizersOfTarget ==
  /\ target \in {"hostedTool", "runtimeLibrary", "sanitizerRuntime",
                 "symbolizer", "symbolize", "workload"} => Bare(config)
  /\ target = "llvm" =>
       /\ config.flags = {}
       /\ config.host = IF Latest = "stage2" THEN {"profile"} ELSE {}

(* ... and where it is built.                                               *)
PlaceOfTarget ==
  /\ config.exec => config.platform # "msvc"
  /\ target \in {"stageTool", "hostedTool"} => config.exec
  /\ target \in {"program", "tool", "stageLlvm", "stageTool", "downloaded",
                 "profdata", "workload"} => ~config.profile

(* The binary the walk is below, or in, was built for a workload to run.    *)
UnderWorkload == Len(lineage) > 1 /\ lineage[Len(lineage) - 1] = "workload"

(* The steps of the bootstrap the walk has opened.                          *)
LineageOfTarget ==
  /\ target \in {"stageLlvm", "stageTool", "llvm"} =>
       Latest \in {"stage1", "stage2", "stage3"}
  /\ target = "tool" => lineage = <<>>
  /\ target = "workload" => Latest = "workload"
  /\ target = "profdata" => Latest = "stage3"
  /\ UnderWorkload => config.exec /\ Latest = "stage2"

IInv ==
  /\ TypeOK
  /\ SelectedCompiler
  /\ ProfileIsForStage3
  /\ RuntimeStageOfTarget
  /\ SanitizersOfTarget
  /\ PlaceOfTarget
  /\ LineageOfTarget
-----------------------------------------------------------------------------
(* An edge that opens no step of the bootstrap leaves the lineage alone...  *)
LEMMA DependKeepsLineage ==
  ASSUME NEW t, NEW c, Depend(t, c)
  PROVE  /\ target' = t /\ config' = c
         /\ lineage' = lineage /\ carries' = carries
         /\ Latest' = Latest
         /\ UnderWorkload' = UnderWorkload
BY DEF Depend, Latest, UnderWorkload

(* ... and one that does makes the step the latest.                         *)
LEMMA DependOnStageExtendsLineage ==
  ASSUME NEW t, NEW c, NEW stage \in BootstrapStages \cup {"workload"},
         lineage \in Seq(BootstrapStages \cup {"workload"}),
         DependOnStage(t, c, stage)
  PROVE  /\ target' = t /\ config' = c /\ carries' = carries
         /\ lineage' \in Seq(BootstrapStages \cup {"workload"})
         /\ lineage' # <<>>
         /\ Latest' = stage
         /\ UnderWorkload' = (Latest = "workload")
<1> DEFINE S == BootstrapStages \cup {"workload"}
<1>1. lineage' = Append(lineage, stage)
  BY DEF DependOnStage
<1> HIDE DEF S
<1>2. lineage \in Seq(S) /\ stage \in S
  BY DEF S
<1>3. /\ lineage' \in Seq(S)
      /\ Len(lineage') = Len(lineage) + 1
      /\ lineage'[Len(lineage')] = stage
      /\ Len(lineage) > 0 => lineage'[Len(lineage)] = lineage[Len(lineage)]
      /\ Len(lineage) \in Nat
  BY <1>1, <1>2
<1>4. lineage' # <<>>
  BY <1>3
<1>5. Latest' = stage
  BY <1>3, <1>4 DEF Latest
<1>6. UnderWorkload' = (Latest = "workload")
  <2>1. CASE lineage = <<>>
    BY <1>3, <2>1 DEF Latest, UnderWorkload
  <2>2. CASE lineage # <<>>
    <3>1. Len(lineage) > 0
      BY <1>2, <2>2
    <3> QED
      BY <1>3, <2>2, <3>1 DEF Latest, UnderWorkload
  <2> QED
    BY <2>1, <2>2
<1> QED
  BY <1>3, <1>4, <1>5, <1>6 DEF DependOnStage, S

(* What each transition makes of a configuration.                           *)
LEMMA ExecConfigResult ==
  ASSUME NEW c \in Configurations, NEW p \in Platforms
  PROVE  LET d == ExecConfig(c, p)
         IN /\ d \in Configurations
            /\ d.bootstrap = c.bootstrap /\ d.runtime = c.runtime
            /\ d.platform = p /\ d.exec /\ ~d.profile
            /\ d.flags \in {c.flags, {}} /\ d.host \in {c.host, {}}
BY DEF ExecConfig, Configurations

(* bootstrap_transition: nothing but the host profile is left, for stage 2. *)
LEMMA BootstrapResult ==
  ASSUME NEW c \in Configurations, NEW stage
  PROVE  LET d == bootstrap_transition(c, stage)
         IN /\ d \in Configurations
            /\ d.bootstrap = IF source_backed(stage) THEN "stage1" ELSE "stage0"
            /\ d.runtime = "complete" /\ d.platform = c.platform
            /\ d.exec = c.exec /\ d.profile = Profiled(stage, c)
            /\ d.flags = {}
            /\ d.host = IF stage = "stage2" THEN {"profile"} ELSE {}
BY SanitizersAssumption
   DEF bootstrap_transition, disable_sanitizers, Configurations,
       BootstrapStages, RuntimeStages, Profiled

(* profile_generation_transition: the instrumented compiler, no sanitizer.  *)
LEMMA GenerationResult ==
  ASSUME NEW c \in Configurations, NEW p \in Platforms
  PROVE  LET d == profile_generation_transition(c, p)
         IN /\ d \in Configurations
            /\ d.bootstrap = "stage2" /\ d.runtime = "complete"
            /\ d.platform = p /\ d.exec = c.exec /\ ~d.profile /\ Bare(d)
BY DEF profile_generation_transition, disable_sanitizers, Configurations,
       BootstrapStages, RuntimeStages, Bare

(* profile_merge_transition: the stage 1 compiler, without a profile.       *)
LEMMA MergeResult ==
  ASSUME NEW c \in Configurations
  PROVE  LET d == profile_merge_transition(c)
         IN /\ d \in Configurations
            /\ d.bootstrap = "stage1" /\ d.runtime = c.runtime
            /\ d.platform = c.platform /\ d.exec = c.exec /\ ~d.profile
            /\ d.flags = c.flags /\ d.host = c.host
BY DEF profile_merge_transition, Configurations, BootstrapStages

(* configure_builder_for_runtimes: a stage, and what is inherited.          *)
LEMMA RuntimesResult ==
  ASSUME NEW c \in Configurations, NEW stage \in RuntimeStages, NEW inherited
  PROVE  LET d == configure_builder_for_runtimes(c, stage, inherited)
         IN /\ d \in Configurations
            /\ d.bootstrap = c.bootstrap /\ d.runtime = stage
            /\ d.platform = c.platform /\ d.exec = c.exec
            /\ d.profile = c.profile
            /\ d.flags = c.flags \cap inherited
            /\ d.host = c.host \cap inherited
BY DEF configure_builder_for_runtimes, Configurations

(* cc_stage0_object: which flags it leaves set is not needed below.         *)
LEMMA Stage0ObjectResult ==
  ASSUME NEW c \in Configurations
  PROVE  LET d == cc_stage0_object(c)
         IN /\ d \in Configurations
            /\ d.bootstrap = c.bootstrap /\ d.runtime = "stage0"
            /\ d.platform = c.platform /\ d.exec = c.exec
            /\ d.profile = c.profile
BY DEF cc_stage0_object, Configurations, RuntimeStages

(* reset_sanitizers: no sanitizer that was not in force before.             *)
LEMMA ResetResult ==
  ASSUME NEW c \in Configurations
  PROVE  LET d == reset_sanitizers(c)
         IN /\ d \in Configurations
            /\ d.bootstrap = c.bootstrap /\ d.runtime = "complete"
            /\ d.platform = c.platform /\ d.exec = c.exec
            /\ d.profile = c.profile
            /\ Bare(c) => Bare(d)
BY DEF reset_sanitizers, Configurations, RuntimeStages, Bare
-----------------------------------------------------------------------------
-----------------------------------------------------------------------------
(* Where the actions lead that change more than the target: the three kinds *)
(* of tools of a toolchain, built in an exec configuration...               *)
LEMMA UseCompilerResult ==
  ASSUME IInv, UseCompiler
  PROVE  /\ config' \in Configurations /\ config'.bootstrap = config.bootstrap
         /\ config'.platform # "msvc" /\ config'.exec /\ ~config'.profile
         /\ carries' = carries
         /\ \/ /\ config.bootstrap = "stage0" /\ target' = "downloaded"
               /\ lineage' = lineage
               /\ Latest' = Latest /\ UnderWorkload' = UnderWorkload
            \/ /\ config.bootstrap \in {"stage1", "stage2", "stage3"}
               /\ target' = "stageLlvm"
               /\ lineage' \in Seq(BootstrapStages \cup {"workload"})
               /\ lineage' # <<>>
               /\ Latest' = config.bootstrap
               /\ UnderWorkload' = (Latest = "workload")
<1>1. PICK p \in ExecFor : DependOnLlvm(ExecConfig(config, p))
  BY DEF UseCompiler
<1> DEFINE c == ExecConfig(config, p)
<1>2. p \in Platforms /\ p # "msvc"
  BY PlatformsAssumption DEF ExecFor
<1>3. /\ c \in Configurations /\ c.bootstrap = config.bootstrap
      /\ c.platform # "msvc" /\ c.exec /\ ~c.profile
  BY <1>2, ExecConfigResult DEF IInv, TypeOK
<1>4. IF c.bootstrap = "stage0" THEN Depend("downloaded", c)
      ELSE DependOnStage("stageLlvm", c, c.bootstrap)
  BY <1>1 DEF DependOnLlvm
<1> HIDE DEF c
<1>5. CASE c.bootstrap = "stage0"
  <2>1. Depend("downloaded", c)
    BY <1>4, <1>5
  <2> QED
    BY <1>3, <1>5, <2>1, DependKeepsLineage
<1>6. CASE c.bootstrap # "stage0"
  <2>1. DependOnStage("stageLlvm", c, c.bootstrap)
    BY <1>4, <1>6
  <2>2. c.bootstrap \in {"stage1", "stage2", "stage3"}
    BY <1>3, <1>6 DEF Configurations, BootstrapStages
  <2> QED
    BY <1>3, <2>1, <2>2, DependOnStageExtendsLineage
       DEF IInv, TypeOK, BootstrapStages
<1> QED
  BY <1>5, <1>6

(* Only complete toolchains have the wrapper tools.                         *)
LEMMA UseWrapperToolResult ==
  ASSUME IInv, UseWrapperTool
  PROVE  /\ config' \in Configurations /\ config'.bootstrap = config.bootstrap
         /\ config.runtime = "complete"
         /\ config'.platform # "msvc" /\ config'.exec /\ ~config'.profile
         /\ carries' = carries
         /\ \/ /\ config.bootstrap = "stage0" /\ target' = "hostedTool"
               /\ config'.runtime = "stage1_hosted" /\ Bare(config')
               /\ lineage' = lineage
               /\ Latest' = Latest /\ UnderWorkload' = UnderWorkload
            \/ /\ config.bootstrap \in {"stage1", "stage2", "stage3"}
               /\ target' = "stageTool"
               /\ lineage' \in Seq(BootstrapStages \cup {"workload"})
               /\ lineage' # <<>>
               /\ Latest' = config.bootstrap
               /\ UnderWorkload' = (Latest = "workload")
<1>1. PICK p \in ExecFor :
        /\ \/ config.runtime = "complete"
           \/ ExecConfig(config, p).runtime = "complete"
        /\ IF ExecConfig(config, p).bootstrap = "stage0"
           THEN Depend("hostedTool", HostedTool(ExecConfig(config, p)))
           ELSE DependOnStage("stageTool", ExecConfig(config, p),
                              ExecConfig(config, p).bootstrap)
  BY DEF UseWrapperTool
<1> DEFINE c == ExecConfig(config, p)
           h == HostedTool(c)
<1>2. p \in Platforms /\ p # "msvc"
  BY PlatformsAssumption DEF ExecFor
<1>3. /\ c \in Configurations /\ c.bootstrap = config.bootstrap
      /\ config.runtime = "complete"
      /\ c.platform # "msvc" /\ c.exec /\ ~c.profile
  BY <1>1, <1>2, ExecConfigResult DEF IInv, TypeOK
<1>4. IF c.bootstrap = "stage0" THEN Depend("hostedTool", h)
      ELSE DependOnStage("stageTool", c, c.bootstrap)
  BY <1>1
<1> HIDE DEF c
<1>5. CASE c.bootstrap = "stage0"
  <2>1. /\ h \in Configurations /\ h.bootstrap = c.bootstrap
        /\ h.runtime = "stage1_hosted" /\ h.platform # "msvc"
        /\ h.exec /\ ~h.profile /\ Bare(h)
    BY <1>3, RuntimesResult DEF HostedTool, RuntimeStages, Bare
  <2>2. Depend("hostedTool", h)
    BY <1>4, <1>5
  <2> HIDE DEF h
  <2> QED
    BY <1>3, <1>5, <2>1, <2>2, DependKeepsLineage
<1>6. CASE c.bootstrap # "stage0"
  <2>1. DependOnStage("stageTool", c, c.bootstrap)
    BY <1>4, <1>6
  <2>2. c.bootstrap \in {"stage1", "stage2", "stage3"}
    BY <1>3, <1>6 DEF Configurations, BootstrapStages
  <2> QED
    BY <1>3, <2>1, <2>2, DependOnStageExtendsLineage
       DEF IInv, TypeOK, BootstrapStages
<1> QED
  BY <1>5, <1>6

(* The tools of MSVC toolchains are hosted ones of another platform.        *)
LEMMA UseMsvcToolResult ==
  ASSUME IInv, UseMsvcTool
  PROVE  /\ config' \in Configurations /\ config'.bootstrap = config.bootstrap
         /\ config'.runtime = "stage1_hosted" /\ config'.platform # "msvc"
         /\ config'.exec /\ ~config'.profile /\ Bare(config')
         /\ target' = "hostedTool" /\ lineage' = lineage /\ carries' = carries
         /\ Latest' = Latest /\ UnderWorkload' = UnderWorkload
<1>1. PICK p \in ExecFor : Depend("hostedTool", HostedTool(ExecConfig(config, p)))
  BY DEF UseMsvcTool
<1> DEFINE c == ExecConfig(config, p)
           h == HostedTool(c)
<1>2. p \in Platforms /\ p # "msvc"
  BY PlatformsAssumption DEF ExecFor
<1>3. /\ c \in Configurations /\ c.bootstrap = config.bootstrap
      /\ c.platform # "msvc" /\ c.exec /\ ~c.profile
  BY <1>2, ExecConfigResult DEF IInv, TypeOK
<1>4. Depend("hostedTool", h)
  BY <1>1
<1> HIDE DEF c
<1>5. /\ h \in Configurations /\ h.bootstrap = c.bootstrap
      /\ h.runtime = "stage1_hosted" /\ h.platform # "msvc"
      /\ h.exec /\ ~h.profile /\ Bare(h)
  BY <1>3, RuntimesResult DEF HostedTool, RuntimeStages, Bare
<1> HIDE DEF h
<1> QED
  BY <1>3, <1>4, <1>5, DependKeepsLineage

(* ... the runtimes it links...                                             *)
LinksRuntime ==
  \/ UseBuiltins \/ UseDefaultLibs \/ UseSharedLibunwind
  \/ UseSanitizerRuntime \/ UseLibcxx \/ UseSharedLibcxx

(* A runtime is of a lower stage than the toolchain that links it.          *)
LEMMA LinksRuntimeResult ==
  ASSUME IInv, LinksRuntime
  PROVE  /\ target = "toolchain" /\ config.runtime # "stage0"
         /\ config' \in Configurations /\ config'.bootstrap = config.bootstrap
         /\ config'.platform = config.platform
         /\ config'.exec = config.exec /\ config'.profile = config.profile
         /\ \/ /\ target' = "runtimeLibrary" /\ config'.runtime = "stage0"
               /\ Bare(config')
            \/ /\ target' = "runtimeLibrary" /\ config'.runtime = "stage1"
               /\ config.runtime = "complete" /\ Bare(config')
            \/ /\ target' = "sanitizerRuntime" /\ config'.runtime = "stage0"
               /\ Effective(config) # {} /\ Bare(config')
            \/ target' = "libcxx" /\ config'.runtime = "stage0"
            \/ /\ target' = "libcxxShared" /\ config'.runtime = "stage1"
               /\ config.runtime = "complete"
               /\ Effective(config') \subseteq Effective(config)
         /\ lineage' = lineage /\ carries' = carries
         /\ Latest' = Latest /\ UnderWorkload' = UnderWorkload
<1>1. \A t, stage, inherited :
        stage \in RuntimeStages
        /\ Depend(t, configure_builder_for_runtimes(config, stage, inherited)) =>
          /\ target' = t
          /\ config' \in Configurations /\ config'.bootstrap = config.bootstrap
          /\ config'.runtime = stage /\ config'.platform = config.platform
          /\ config'.exec = config.exec /\ config'.profile = config.profile
          /\ inherited = {} => Bare(config')
          /\ Effective(config') \subseteq Effective(config)
          /\ lineage' = lineage /\ carries' = carries
          /\ Latest' = Latest /\ UnderWorkload' = UnderWorkload
  <2> SUFFICES ASSUME NEW t, NEW stage \in RuntimeStages, NEW inherited,
                      Depend(t, configure_builder_for_runtimes(config, stage, inherited))
               PROVE  /\ target' = t
                      /\ config' \in Configurations /\ config'.bootstrap = config.bootstrap
                      /\ config'.runtime = stage /\ config'.platform = config.platform
                      /\ config'.exec = config.exec /\ config'.profile = config.profile
                      /\ inherited = {} => Bare(config')
                      /\ Effective(config') \subseteq Effective(config)
                      /\ lineage' = lineage /\ carries' = carries
                      /\ Latest' = Latest /\ UnderWorkload' = UnderWorkload
    OBVIOUS
  <2> DEFINE d == configure_builder_for_runtimes(config, stage, inherited)
  <2>1. /\ d \in Configurations /\ d.bootstrap = config.bootstrap
        /\ d.runtime = stage /\ d.platform = config.platform
        /\ d.exec = config.exec /\ d.profile = config.profile
        /\ inherited = {} => Bare(d)
        /\ Effective(d) \subseteq Effective(config)
    BY RuntimesResult DEF IInv, TypeOK, Bare, Effective
  <2>2. Depend(t, d)
    OBVIOUS
  <2> HIDE DEF d
  <2> QED
    BY <2>1, <2>2, DependKeepsLineage
<1>2. CASE UseBuiltins \/ UseDefaultLibs \/ UseSharedLibunwind
  BY <1>1, <1>2 DEF UseBuiltins, UseDefaultLibs, UseSharedLibunwind,
     HasResourceDir, LinksRuntimes, RuntimeLibrary, RuntimeStages
<1>3. CASE UseSanitizerRuntime
  BY <1>1, <1>3 DEF UseSanitizerRuntime, HasResourceDir, LinksRuntimes, RuntimeStages
<1>4. CASE UseLibcxx \/ UseSharedLibcxx
  BY <1>1, <1>4 DEF UseLibcxx, UseSharedLibcxx, LinksRuntimes, RuntimeStages
<1> QED
  BY <1>2, <1>3, <1>4 DEF LinksRuntime

(* Start files are of stage 0.                                              *)
LEMMA UseStartFilesResult ==
  ASSUME IInv, UseStartFiles
  PROVE  /\ target = "toolchain" /\ config.runtime # "stage0"
         /\ target' = "stage0Object"
         /\ config' \in Configurations /\ config'.bootstrap = config.bootstrap
         /\ config'.runtime = "stage0" /\ config'.platform = config.platform
         /\ config'.exec = config.exec /\ config'.profile = config.profile
         /\ lineage' = lineage /\ carries' = carries
         /\ Latest' = Latest /\ UnderWorkload' = UnderWorkload
<1> DEFINE d == cc_stage0_object(config)
<1>1. /\ d \in Configurations /\ d.bootstrap = config.bootstrap
      /\ d.runtime = "stage0" /\ d.platform = config.platform
      /\ d.exec = config.exec /\ d.profile = config.profile
  BY Stage0ObjectResult DEF IInv, TypeOK
<1>2. Depend("stage0Object", d)
  BY DEF UseStartFiles
<1> HIDE DEF d
<1> QED
  BY <1>1, <1>2, DependKeepsLineage DEF UseStartFiles, LinksRuntimes

(* The symbolizer's LLVM is of the complete stage again, without sanitizers. *)
LEMMA UseSymbolizeResult ==
  ASSUME IInv, UseSymbolize
  PROVE  /\ target = "symbolizer"
         /\ config' \in Configurations /\ config'.bootstrap = config.bootstrap
         /\ config'.platform = config.platform
         /\ config'.exec = config.exec /\ config'.profile = config.profile
         /\ \/ /\ target' = "symbolize" /\ config'.runtime = "complete"
               /\ Bare(config')
            \/ target' = "libcxx" /\ config'.runtime = "stage0"
         /\ lineage' = lineage /\ carries' = carries
         /\ Latest' = Latest /\ UnderWorkload' = UnderWorkload
<1> DEFINE d == reset_sanitizers(config)
<1>1. /\ target = "symbolizer" /\ config \in Configurations
      /\ Bare(config) /\ config.runtime = "stage0"
  BY DEF UseSymbolize, IInv, TypeOK, SanitizersOfTarget, RuntimeStageOfTarget
<1>2. /\ d \in Configurations /\ d.bootstrap = config.bootstrap
      /\ d.runtime = "complete" /\ d.platform = config.platform
      /\ d.exec = config.exec /\ d.profile = config.profile /\ Bare(d)
  BY <1>1, ResetResult
<1>3. Depend("symbolize", d) \/ Depend("libcxx", config)
  BY DEF UseSymbolize
<1> HIDE DEF d
<1> QED
  BY <1>1, <1>2, <1>3, DependKeepsLineage

(* ... and the steps of the bootstrap.                                      *)
LEMMA BuildStageBinaryResult ==
  ASSUME IInv, BuildStageBinary
  PROVE  /\ target \in {"stageLlvm", "stageTool"}
         /\ Latest \in {"stage1", "stage2", "stage3"}
         /\ config' \in Configurations
         /\ config'.bootstrap = IF source_backed(Latest) THEN "stage1" ELSE "stage0"
         /\ config'.platform = config.platform /\ config'.exec = config.exec
         /\ config'.profile => Profiled(Latest, config)
         /\ \/ /\ target' = "llvm" /\ config'.runtime = "complete"
               /\ config'.flags = {}
               /\ config'.host = IF Latest = "stage2" THEN {"profile"} ELSE {}
            \/ /\ target = "stageTool" /\ target' = "hostedTool"
               /\ config'.runtime = "stage1_hosted" /\ Bare(config')
         /\ lineage' = lineage /\ carries' = carries
         /\ Latest' = Latest /\ UnderWorkload' = UnderWorkload
<1> DEFINE d == bootstrap_transition(config, Latest)
           h == HostedTool(d)
<1>1. /\ target \in {"stageLlvm", "stageTool"}
      /\ Latest \in {"stage1", "stage2", "stage3"}
  BY DEF BuildStageBinary, IInv, LineageOfTarget
<1>2. /\ d \in Configurations
      /\ d.bootstrap = IF source_backed(Latest) THEN "stage1" ELSE "stage0"
      /\ d.runtime = "complete" /\ d.platform = config.platform
      /\ d.exec = config.exec /\ (d.profile => Profiled(Latest, config))
      /\ d.flags = {} /\ d.host = IF Latest = "stage2" THEN {"profile"} ELSE {}
  BY BootstrapResult DEF IInv, TypeOK
<1>3. \/ Depend("llvm", d)
      \/ target = "stageTool" /\ Depend("hostedTool", h)
  BY DEF BuildStageBinary
<1> HIDE DEF d
<1>4. /\ h \in Configurations /\ h.bootstrap = d.bootstrap
      /\ h.runtime = "stage1_hosted" /\ h.platform = d.platform
      /\ h.exec = d.exec /\ h.profile = d.profile /\ Bare(h)
  BY <1>2, RuntimesResult DEF HostedTool, RuntimeStages, Bare
<1> HIDE DEF h
<1>5. CASE Depend("llvm", d)
  BY <1>1, <1>2, <1>5, DependKeepsLineage
<1>6. CASE target = "stageTool" /\ Depend("hostedTool", h)
  BY <1>1, <1>2, <1>4, <1>6, DependKeepsLineage
<1> QED
  BY <1>3, <1>5, <1>6

(* A profile is wanted by stage 3 and by what it compiles with.             *)
LEMMA UseProfileResult ==
  ASSUME IInv, UseFdoProfile \/ UseStageProfile
  PROVE  /\ \/ target = "toolchain" /\ config.profile
            \/ /\ target \in {"stageLlvm", "stageTool"} /\ Latest = "stage3"
               /\ config.platform # "msvc"
         /\ target' = "profdata"
         /\ config' \in Configurations /\ config'.bootstrap = "stage1"
         /\ config'.platform = config.platform /\ config'.exec = config.exec
         /\ ~config'.profile
         /\ lineage' = lineage /\ carries' = carries
         /\ Latest' = Latest /\ UnderWorkload' = UnderWorkload
<1> DEFINE d == profile_merge_transition(config)
<1>1. /\ d \in Configurations /\ d.bootstrap = "stage1"
      /\ d.platform = config.platform /\ d.exec = config.exec /\ ~d.profile
  BY MergeResult DEF IInv, TypeOK
<1>2. Depend("profdata", d)
  BY DEF UseFdoProfile, UseStageProfile
<1> HIDE DEF d
<1> QED
  BY <1>1, <1>2, DependKeepsLineage DEF UseFdoProfile, UseStageProfile, Profiled

(* A workload opens a step, with the instrumented compiler.                 *)
LEMMA RunWorkloadResult ==
  ASSUME IInv, RunWorkload
  PROVE  /\ target = "profdata" /\ target' = "workload"
         /\ config' \in Configurations /\ config'.bootstrap = "stage2"
         /\ config'.platform # "msvc" /\ ~config'.profile /\ Bare(config')
         /\ lineage' \in Seq(BootstrapStages \cup {"workload"})
         /\ lineage' # <<>> /\ carries' = carries
         /\ Latest' = "workload" /\ UnderWorkload' = (Latest = "workload")
<1>1. PICK p \in Platforms \ {"msvc"} :
        DependOnStage("workload", profile_generation_transition(config, p),
                      "workload")
  BY DEF RunWorkload
<1> DEFINE d == profile_generation_transition(config, p)
<1>2. /\ d \in Configurations /\ d.bootstrap = "stage2"
      /\ d.platform # "msvc" /\ ~d.profile /\ Bare(d)
  BY GenerationResult DEF IInv, TypeOK
<1>3. DependOnStage("workload", d, "workload")
  BY <1>1
<1> HIDE DEF d
<1> QED
  BY <1>2, <1>3, DependOnStageExtendsLineage DEF RunWorkload, IInv, TypeOK

(* The binary a user asks //tools for.                                      *)
LEMMA ToolResult ==
  ASSUME IInv, platform_llvm_binary
  PROVE  /\ target = "tool" /\ config' = config /\ carries' = carries
         /\ \/ /\ config.bootstrap = "stage0" /\ target' = "downloaded"
               /\ lineage' = lineage
               /\ Latest' = Latest /\ UnderWorkload' = UnderWorkload
            \/ /\ config.bootstrap \in {"stage1", "stage2", "stage3"}
               /\ target' = "stageLlvm"
               /\ lineage' \in Seq(BootstrapStages \cup {"workload"})
               /\ lineage' # <<>>
               /\ Latest' = config.bootstrap /\ ~UnderWorkload'
<1>1. /\ target = "tool" /\ Latest = "user" /\ config \in Configurations
      /\ lineage \in Seq(BootstrapStages \cup {"workload"})
  BY DEF platform_llvm_binary, IInv, TypeOK, LineageOfTarget, Latest
<1>2. CASE config.bootstrap = "stage0"
  <2>1. Depend("downloaded", config)
    BY <1>2 DEF platform_llvm_binary, DependOnLlvm
  <2> QED
    BY <1>1, <1>2, <2>1, DependKeepsLineage
<1>3. CASE config.bootstrap # "stage0"
  <2>1. DependOnStage("stageLlvm", config, config.bootstrap)
    BY <1>3 DEF platform_llvm_binary, DependOnLlvm
  <2>2. config.bootstrap \in {"stage1", "stage2", "stage3"}
    BY <1>1, <1>3 DEF Configurations, BootstrapStages
  <2> QED
    BY <1>1, <2>1, <2>2, DependOnStageExtendsLineage DEF BootstrapStages
<1> QED
  BY <1>2, <1>3
-----------------------------------------------------------------------------
(* The invariant, for every set of sanitizers and platforms: one step per   *)
(* action.                                                                  *)
THEOREM Invariance == Spec => []IInv
<1> USE DEF IInv, TypeOK, Targets, SelectedCompiler, ProfileIsForStage3,
            RuntimeStageOfTarget, SanitizersOfTarget, PlaceOfTarget,
            LineageOfTarget
<1>1. Init => IInv
  <2> SUFFICES ASSUME Init PROVE IInv
    OBVIOUS
  <2>1. /\ config \in Configurations /\ carries \in BOOLEAN
        /\ config.runtime = "complete" /\ ~config.exec /\ ~config.profile
    BY DEF Init, Configurations, RuntimeStages
  <2>2. CASE target \in {"program", "tool"} /\ lineage = <<>>
    <3>1. Latest = "user" /\ ~UnderWorkload
      BY <2>2 DEF Latest, UnderWorkload
    <3> QED
      BY <2>1, <2>2, <3>1
  <2>3. CASE target = "stageLlvm" /\ lineage \in {<<s>> : s \in BootstrapStages \ {"stage0"}}
    <3>1. PICK s \in {"stage1", "stage2", "stage3"} : lineage = <<s>>
      BY <2>3 DEF BootstrapStages
    <3>2. /\ Latest = s /\ ~UnderWorkload
          /\ lineage \in Seq(BootstrapStages \cup {"workload"})
      BY <3>1 DEF Latest, UnderWorkload, BootstrapStages
    <3> QED
      BY <2>1, <2>3, <3>1, <3>2
  <2> QED
    BY <2>2, <2>3 DEF Init
<1>2. IInv /\ [Next]_vars => IInv'
  <2> SUFFICES ASSUME IInv, [Next]_vars PROVE IInv'
    OBVIOUS
  <2>1. CASE platform_llvm_binary
    BY <2>1, ToolResult
  <2>2. CASE ResolveToolchain
    BY <2>2, DependKeepsLineage DEF ResolveToolchain
  <2>3. CASE UseCompiler
    <3>1. target = "toolchain"
      BY <2>3 DEF UseCompiler
    <3>2. CASE target' = "downloaded"
      BY <2>3, <3>1, <3>2, UseCompilerResult
    <3>3. CASE target' = "stageLlvm"
      BY <2>3, <3>1, <3>3, UseCompilerResult
    <3> QED
      BY <2>3, <3>2, <3>3, UseCompilerResult
  <2>4. CASE UseWrapperTool
    <3>1. target = "toolchain"
      BY <2>4 DEF UseWrapperTool
    <3>2. CASE target' = "hostedTool"
      BY <2>4, <3>1, <3>2, UseWrapperToolResult
    <3>3. CASE target' = "stageTool"
      BY <2>4, <3>1, <3>3, UseWrapperToolResult
    <3> QED
      BY <2>4, <3>2, <3>3, UseWrapperToolResult
  <2>5. CASE UseMsvcTool
    <3>1. target = "toolchain"
      BY <2>5 DEF UseMsvcTool
    <3> QED
      BY <2>5, <3>1, UseMsvcToolResult
  <2>6. CASE LinksRuntime
    BY <2>6, LinksRuntimeResult
  <2>7. CASE UseStartFiles
    BY <2>7, UseStartFilesResult
  <2>8. CASE UseSymbolizer
    BY <2>8, DependKeepsLineage DEF UseSymbolizer
  <2>9. CASE UseSymbolize
    BY <2>9, UseSymbolizeResult
  <2>10. CASE BuildStageBinary
    BY <2>10, BuildStageBinaryResult DEF source_backed, Profiled
  <2>11. CASE UseFdoProfile \/ UseStageProfile
    BY <2>11, UseProfileResult
  <2>12. CASE RunWorkload
    BY <2>12, RunWorkloadResult
  <2>13. CASE UNCHANGED vars
    BY <2>13 DEF vars, Latest, UnderWorkload
  <2> QED
    BY <2>1, <2>2, <2>3, <2>4, <2>5, <2>6, <2>7, <2>8, <2>9, <2>10, <2>11,
       <2>12, <2>13 DEF Next, Done, LinksRuntime
<1> HIDE DEF IInv
<1> QED
  BY <1>1, <1>2, PTL DEF Spec
-----------------------------------------------------------------------------
(* Every setting has a value its declaration allows, the lineage only       *)
(* stages and workloads: the transitions name no stage that does not exist. *)
THEOREM TypeCorrect == Spec => []TypeOK
<1>1. IInv => TypeOK
  BY DEF IInv
<1> QED
  BY <1>1, Invariance, PTL

(* bootstrap_binary and the transitions of fdo_profile.bzl: every step of   *)
(* the bootstrap is compiled by the compiler the README's table names.      *)
THEOREM RightCompiler == Spec => []SelectedCompiler
<1>1. IInv => SelectedCompiler
  BY DEF IInv
<1> QED
  BY <1>1, Invariance, PTL

(* disable_sanitizers: whatever sanitizers the user turns on, LLVM is       *)
(* compiled without, and with profile instrumentation in stage 2 at most.   *)
THEOREM CleanCompilers == Spec => []CompilersAreClean
<1>1. IInv => CompilersAreClean
  BY DEF IInv, SanitizersOfTarget, CompilersAreClean, Effective
<1> QED
  BY <1>1, Invariance, PTL

(* host_profile: the compiler of a training workload is an instrumented one.*)
THEOREM InstrumentedTraining == Spec => []TrainingIsInstrumented
<1>1. IInv => TrainingIsInstrumented
  BY DEF IInv, LineageOfTarget, SanitizersOfTarget, TrainingIsInstrumented,
         UnderWorkload, Effective
<1> QED
  BY <1>1, Invariance, PTL

(* The internal symbolizer has no sanitizer, although cc_unsanitized_library *)
(* does not reset them all: the sanitizer's runtime above it was built       *)
(* without any.                                                              *)
THEOREM UnsanitizedSymbolizer == Spec => []SymbolizerIsUnsanitized
<1>1. IInv => SymbolizerIsUnsanitized
  BY DEF IInv, SanitizersOfTarget, Bare, SymbolizerIsUnsanitized, Effective
<1> QED
  BY <1>1, Invariance, PTL

(* The profile reaches stage 3 and nothing that the profile is made of.     *)
THEOREM ProfileOnlyForStage3 == Spec => []ProfileIsForStage3
<1>1. IInv => ProfileIsForStage3
  BY DEF IInv
<1> QED
  BY <1>1, Invariance, PTL

(* The values Phase and Depth take.                                         *)
LEMMA PhaseValue ==
  ASSUME NEW t, NEW c, NEW l
  PROVE  /\ t = "downloaded" => Phase(t, c, l) = 0
         /\ t = "profdata" => Phase(t, c, l) = 7
         /\ t = "workload" => Phase(t, c, l) = 6
         /\ t \in {"stageLlvm", "stageTool"} =>
              /\ l = "stage1" => Phase(t, c, l) = 2
              /\ l = "stage2" => Phase(t, c, l) = 4
              /\ l = "stage3" => Phase(t, c, l) = 9
         /\ t \notin {"downloaded", "profdata", "workload", "stageLlvm",
                      "stageTool"} =>
              /\ c.profile => Phase(t, c, l) = 8
              /\ ~c.profile =>
                   /\ c.bootstrap = "stage0" => Phase(t, c, l) = 1
                   /\ c.bootstrap = "stage1" => Phase(t, c, l) = 3
                   /\ c.bootstrap = "stage2" => Phase(t, c, l) = 5
                   /\ c.bootstrap = "stage3" => Phase(t, c, l) = 10
<1>1. /\ StagePhase["stage1"] = 2 /\ StagePhase["stage2"] = 4
      /\ StagePhase["stage3"] = 9
      /\ CompilerPhase["stage0"] = 1 /\ CompilerPhase["stage1"] = 3
      /\ CompilerPhase["stage2"] = 5 /\ CompilerPhase["stage3"] = 10
  BY DEF StagePhase, CompilerPhase
<1> QED
  BY <1>1 DEF Phase

(* The order of the runtimes of one compiler.                               *)
LEMMA DepthValue ==
  ASSUME NEW t, NEW c
  PROVE  /\ Depth(t, c) \in 1..14
         /\ Sanitized(c) = IF Effective(c) = {} THEN 0 ELSE 7
         /\ t = "toolchain" =>
              /\ c.runtime = "stage0" => Depth(t, c) = 1
              /\ c.runtime # "stage0" => Depth(t, c) > 2
              /\ c.runtime = "complete" => Depth(t, c) = 6 + Sanitized(c)
              /\ Effective(c) # {} /\ c.runtime # "stage0" => Depth(t, c) > 9
              /\ c.runtime \in {"stage1", "stage1_hosted"} =>
                   Depth(t, c) = 3 + Sanitized(c)
              /\ Depth(t, c) < 14
         /\ t \in {"stage0Object", "libcxx"} => Depth(t, c) = 2
         /\ t = "runtimeLibrary" /\ c.runtime = "stage0" => Depth(t, c) = 2
         /\ t = "runtimeLibrary" /\ c.runtime = "stage1" => Depth(t, c) = 4
         /\ t = "hostedTool" => Depth(t, c) = 4
         /\ t = "libcxxShared" => Depth(t, c) = 5 + Sanitized(c)
         /\ t = "symbolize" => Depth(t, c) = 7
         /\ t = "symbolizer" => Depth(t, c) = 8
         /\ t = "sanitizerRuntime" => Depth(t, c) = 9
         /\ t \in {"program", "tool", "stageLlvm", "stageTool", "llvm",
                   "profdata", "workload", "downloaded"} => Depth(t, c) = 14
<1>1. /\ Sanitized(c) \in {0, 7}
      /\ Effective(c) = {} => Sanitized(c) = 0
      /\ Effective(c) # {} => Sanitized(c) = 7
  BY DEF Sanitized
<1>2. /\ c.runtime = "stage0" => ToolchainDepth(c) = 1
      /\ c.runtime = "complete" => ToolchainDepth(c) = 6 + Sanitized(c)
      /\ c.runtime \notin {"stage0", "complete"} =>
           ToolchainDepth(c) = 3 + Sanitized(c)
  BY DEF ToolchainDepth
<1>3. /\ t = "toolchain" => Depth(t, c) = ToolchainDepth(c)
      /\ t = "libcxxShared" => Depth(t, c) = 5 + Sanitized(c)
      /\ t \in {"stage0Object", "libcxx"} => Depth(t, c) = 2
      /\ t = "runtimeLibrary" => Depth(t, c) = IF c.runtime = "stage0" THEN 2 ELSE 4
      /\ t = "hostedTool" => Depth(t, c) = 4
      /\ t = "symbolize" => Depth(t, c) = 7
      /\ t = "symbolizer" => Depth(t, c) = 8
      /\ t = "sanitizerRuntime" => Depth(t, c) = 9
      /\ t \notin {"toolchain", "libcxxShared", "stage0Object", "libcxx",
                   "runtimeLibrary", "hostedTool", "symbolize", "symbolizer",
                   "sanitizerRuntime"} => Depth(t, c) = 14
  BY DEF Depth
<1> QED
  BY <1>1, <1>2, <1>3 DEF Sanitized

(* Two ways down: to an earlier phase, or to a lesser depth of the same.    *)
LEMMA EarlierPhase ==
  ASSUME NEW m \in Nat, NEW n \in Nat, n < m,
         Phase(target, config, Latest) = m,
         Phase(target', config', Latest') = n
  PROVE  Rank' < Rank
<1>1. /\ Depth(target, config) \in 1..14
      /\ Depth(target', config') \in 1..14
  BY DepthValue
<1> QED
  BY <1>1 DEF Rank

(* The second: with the same compiler.                                      *)
LEMMA LesserDepth ==
  ASSUME config.bootstrap \in BootstrapStages,
         {target, target'} \cap {"downloaded", "profdata", "workload",
                                 "stageLlvm", "stageTool"} = {},
         config'.bootstrap = config.bootstrap, config'.profile = config.profile,
         config'.platform = config.platform,
         Depth(target', config') < Depth(target, config)
  PROVE  Rank' < Rank
<1>1. /\ Phase(target, config, Latest) \in Nat
      /\ Phase(target', config', Latest') = Phase(target, config, Latest)
  <2>1. /\ target \notin {"downloaded", "profdata", "workload", "stageLlvm", "stageTool"}
        /\ target' \notin {"downloaded", "profdata", "workload", "stageLlvm", "stageTool"}
    OBVIOUS
  <2>2. CASE config.profile
    <3>1. config'.profile
      BY <2>2
    <3>2. Phase(target, config, Latest) = 8
      BY <2>1, <2>2, PhaseValue
    <3>3. Phase(target', config', Latest') = 8
      BY <2>1, <3>1, PhaseValue
    <3> QED
      BY <3>2, <3>3
  <2>3. CASE ~config.profile
    <3>1. ~config'.profile /\ config'.bootstrap = config.bootstrap
      BY <2>3
    <3>2. CASE config.bootstrap = "stage0"
      BY <2>1, <2>3, <3>1, <3>2, PhaseValue
    <3>3. CASE config.bootstrap = "stage1"
      BY <2>1, <2>3, <3>1, <3>3, PhaseValue
    <3>4. CASE config.bootstrap = "stage2"
      BY <2>1, <2>3, <3>1, <3>4, PhaseValue
    <3>5. CASE config.bootstrap = "stage3"
      BY <2>1, <2>3, <3>1, <3>5, PhaseValue
    <3> QED
      BY <3>2, <3>3, <3>4, <3>5 DEF BootstrapStages
  <2> QED
    BY <2>2, <2>3
<1>2. /\ Depth(target, config) \in 1..14
      /\ Depth(target', config') \in 1..14
  BY DepthValue
<1> QED
  BY <1>1, <1>2 DEF Rank

(* The configured target graph has no cycle: every dependency is of a lower *)
(* rank, for every set of sanitizers and platforms.                         *)
THEOREM Acyclic == Spec => EveryDependencyIsSmaller
<1>1. IInv /\ [Next]_vars => [Rank' < Rank]_vars
  <2> SUFFICES ASSUME IInv, Next, vars' # vars PROVE Rank' < Rank
    OBVIOUS
  <2> DEFINE before == Phase(target, config, Latest)
             after == Phase(target', config', Latest')
  <2>1. config \in Configurations /\ config.bootstrap \in BootstrapStages
    BY DEF IInv, TypeOK, Configurations
  <2>2. CASE platform_llvm_binary
    <3>1. before \in Nat /\ after \in Nat /\ after < before
      BY <2>1, <2>2, ToolResult, PhaseValue DEF IInv, PlaceOfTarget
    <3> QED
      BY <3>1, EarlierPhase
  <2>3. CASE ResolveToolchain
    <3>1. /\ target' = "toolchain" /\ config' = config /\ Latest' = Latest
          /\ target \in {"program", "llvm", "hostedTool", "profdata", "workload",
                         "stage0Object", "runtimeLibrary", "libcxx",
                         "libcxxShared", "sanitizerRuntime", "symbolizer",
                         "symbolize"}
      BY <2>3, DependKeepsLineage DEF ResolveToolchain
    <3>2. CASE target \in {"profdata", "workload"}
      <4>1. before \in Nat /\ after \in Nat /\ after < before
        BY <3>1, <3>2, PhaseValue
           DEF IInv, PlaceOfTarget, SelectedCompiler, LineageOfTarget
      <4> QED
        BY <4>1, EarlierPhase
    <3>3. CASE target \notin {"profdata", "workload"}
      <4>1. Depth(target', config') < Depth(target, config)
        <5>1. CASE target \in {"program", "llvm"}
          BY <3>1, <5>1, DepthValue
        <5>2. CASE target \in {"stage0Object", "libcxx"}
          BY <3>1, <5>2, DepthValue DEF IInv, RuntimeStageOfTarget
        <5>3. CASE target \in {"runtimeLibrary", "hostedTool",
                               "sanitizerRuntime", "symbolizer", "symbolize"}
          <6>1. Effective(config) = {}
            BY <5>3 DEF IInv, SanitizersOfTarget, Bare, Effective
          <6> QED
            BY <3>1, <5>3, <6>1, DepthValue DEF IInv, RuntimeStageOfTarget
        <5>4. CASE target = "libcxxShared"
          BY <3>1, <5>4, DepthValue DEF IInv, RuntimeStageOfTarget
        <5> QED
          BY <3>1, <3>3, <5>1, <5>2, <5>3, <5>4
      <4> QED
        BY <2>1, <3>1, <3>3, <4>1, LesserDepth
    <3> QED
      BY <3>2, <3>3
  <2>4. CASE UseCompiler
    <3>1. target = "toolchain"
      BY <2>4 DEF UseCompiler
    <3>2. before \in Nat /\ after \in Nat /\ after < before
      BY <2>1, <2>4, <3>1, UseCompilerResult, PhaseValue
         DEF IInv, SelectedCompiler, ProfileIsForStage3, BootstrapStages
    <3> QED
      BY <3>2, EarlierPhase
  <2>5. CASE UseWrapperTool
    <3>1. target = "toolchain"
      BY <2>5 DEF UseWrapperTool
    <3>2. CASE target' = "hostedTool"
      <4>1. /\ config.bootstrap = "stage0" /\ config.runtime = "complete"
            /\ config'.bootstrap = "stage0" /\ ~config'.profile
            /\ config'.platform # "msvc"
        BY <2>5, <3>2, UseWrapperToolResult
      <4>2. ~config.profile
        BY <3>1, <4>1 DEF IInv, SelectedCompiler, ProfileIsForStage3
      <4>3. before = 1 /\ after = 1
        BY <3>1, <3>2, <4>1, <4>2, PhaseValue
      <4>4. Depth(target, config) > 5 /\ Depth(target', config') = 4
        BY <3>1, <3>2, <4>1, DepthValue
      <4>5. Depth(target, config) \in 1..14
        BY DepthValue
      <4> QED
        BY <4>1, <4>3, <4>4, <4>5 DEF Rank
    <3>3. CASE target' = "stageTool"
      <4>1. before \in Nat /\ after \in Nat /\ after < before
        BY <2>1, <2>5, <3>1, <3>3, UseWrapperToolResult, PhaseValue
           DEF IInv, SelectedCompiler, ProfileIsForStage3, BootstrapStages
      <4> QED
        BY <4>1, EarlierPhase
    <3> QED
      BY <2>5, <3>2, <3>3, UseWrapperToolResult
  <2>6. CASE UseMsvcTool
    <3>1. target = "toolchain" /\ config.platform = "msvc" /\ target' = "hostedTool"
      BY <2>6, UseMsvcToolResult DEF UseMsvcTool
    <3>2. /\ config'.bootstrap = config.bootstrap /\ ~config'.profile
          /\ config'.platform # "msvc"
      BY <2>6, UseMsvcToolResult
    <3>3. ~config.profile
      BY <3>1 DEF IInv, ProfileIsForStage3
    <3>4. before \in Nat /\ after = before
      BY <2>1, <3>1, <3>2, <3>3, PhaseValue DEF BootstrapStages
    <3>5. Depth(target, config) \in 1..14 /\ Depth(target', config') = 4
      BY <3>1, DepthValue
    <3> QED
      BY <3>1, <3>2, <3>4, <3>5 DEF Rank
  <2>7. CASE LinksRuntime
    <3>1. Depth(target', config') < Depth(target, config)
      <4>1. target = "toolchain" /\ config.runtime # "stage0"
        BY <2>7, LinksRuntimeResult
      <4>2. CASE target' \in {"runtimeLibrary", "libcxx"}
        BY <2>7, <4>1, <4>2, LinksRuntimeResult, DepthValue
      <4>3. CASE target' = "sanitizerRuntime"
        BY <2>7, <4>1, <4>3, LinksRuntimeResult, DepthValue
      <4>4. CASE target' = "libcxxShared"
        BY <2>7, <4>1, <4>4, LinksRuntimeResult, DepthValue
      <4> QED
        BY <2>7, <4>2, <4>3, <4>4, LinksRuntimeResult
    <3> QED
      BY <2>1, <2>7, <3>1, LinksRuntimeResult, LesserDepth
  <2>8. CASE UseStartFiles
    <3>1. Depth(target', config') < Depth(target, config)
      BY <2>8, UseStartFilesResult, DepthValue
    <3> QED
      BY <2>1, <2>8, <3>1, UseStartFilesResult, LesserDepth
  <2>9. CASE UseSymbolizer
    <3>1. /\ target = "sanitizerRuntime" /\ target' = "symbolizer"
          /\ config' = config
      BY <2>9, DependKeepsLineage DEF UseSymbolizer
    <3>2. Depth(target', config') < Depth(target, config)
      BY <3>1, DepthValue
    <3> QED
      BY <2>1, <3>1, <3>2, LesserDepth
  <2>10. CASE UseSymbolize
    <3>1. Depth(target', config') < Depth(target, config)
      BY <2>10, UseSymbolizeResult, DepthValue
    <3> QED
      BY <2>1, <2>10, <3>1, UseSymbolizeResult, LesserDepth
  <2>11. CASE BuildStageBinary
    <3>1. before \in Nat /\ after \in Nat /\ after < before
      BY <2>11, BuildStageBinaryResult, PhaseValue DEF source_backed, Profiled
    <3> QED
      BY <3>1, EarlierPhase
  <2>12. CASE UseFdoProfile \/ UseStageProfile
    <3>1. before \in Nat /\ after \in Nat /\ after < before
      BY <2>12, UseProfileResult, PhaseValue
    <3> QED
      BY <3>1, EarlierPhase
  <2>13. CASE RunWorkload
    <3>1. before \in Nat /\ after \in Nat /\ after < before
      BY <2>13, RunWorkloadResult, PhaseValue
    <3> QED
      BY <3>1, EarlierPhase
  <2> QED
    BY <2>2, <2>3, <2>4, <2>5, <2>6, <2>7, <2>8, <2>9, <2>10, <2>11, <2>12,
       <2>13 DEF Next, Done, LinksRuntime
<1> QED
  BY <1>1, Invariance, PTL DEF Spec, EveryDependencyIsSmaller
==============================================================================
