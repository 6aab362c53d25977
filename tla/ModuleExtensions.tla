--------------------------- MODULE ModuleExtensions ---------------------------
(***************************************************************************)
(* The module extensions that choose among the tags of all Bazel modules:   *)
(* the macOS SDK and its contents (extensions/osx.bzl), the LLVM version    *)
(* and source (llvm.bzl) and, for that version, the prebuilt compiler that  *)
(* seeds the bootstrap (llvm_toolchain_minimal.bzl), GCC's source (gcc.bzl) *)
(* and the toolchains' platforms (toolchain.bzl).                           *)
(*                                                                          *)
(* Each is a walk over the modules that use it, which any fail(...) ends.   *)
(* Bazel evaluates an extension on its own; the seed's needs the version.   *)
(***************************************************************************)
EXTENDS Integers, Sequences

CONSTANTS
  Graphs,         \* first walk -> the lists of modules that use its extension
  Environments,   \* first walk -> [mac, useHost, allLibs : BOOLEAN, frameworks]: the
                  \* stripped pieces between a variable's commas, <<>> if it is empty
  IndexedSources, \* LLVM version -> its archive in llvm_versions.json
  Seeds,          \* index file -> [latest : version -> release, default : version]
  DefaultIndex,   \* llvm_toolchain_minimal_index.json
  GccReleases,    \* the archives of GCC
  DefaultFrameworks,
  SupportedExecs,
  SupportedTargets,
  None            \* Starlark's None

FirstWalks == {"sdk", "version", "gcc", "platforms"}
Walks == FirstWalks \cup {"contents", "source", "seed"}

IsSequence(s) == Len(s) \in Nat /\ s = [i \in 1 .. Len(s) |-> s[i]]

ASSUME NoneAssumption == None # "host"

\* Bazel puts the root module first, if it uses the extension at all.  A tag's
\* value is a label or a record, not None and not the word for the host.
ASSUME GraphsAssumption ==
  \A w \in FirstWalks : \A g \in Graphs[w] :
    /\ IsSequence(g)
    /\ \A k \in DOMAIN g :
         /\ g[k].root \in BOOLEAN /\ (g[k].root => k = 1)
         /\ \A c \in DOMAIN g[k].tags :
              /\ IsSequence(g[k].tags[c])
              /\ \A i \in DOMAIN g[k].tags[c] : g[k].tags[c][i] \notin {None, "host"}

\* The index files of the tags exist.
ASSUME SeedsAssumption ==
  /\ DefaultIndex \in DOMAIN Seeds
  /\ \A w \in FirstWalks : \A g \in Graphs[w] : \A k \in DOMAIN g :
       "index" \in DOMAIN g[k].tags =>
         \A i \in DOMAIN g[k].tags["index"] : g[k].tags["index"][i] \in DOMAIN Seeds

VARIABLES
  modules,    \* the modules: a module is [root, tags : tag class -> sequence]
  env,        \* the operating system and the BAZEL_MACOS_... variables
  walk,       \* the walk under way, "done" or "failed"
  at,         \* the module it has come to
  root,       \* what the root module has asked for
  dependency, \* what the last module that asks has asked for
  listed,     \* the walk's lists: [first, second], appended to by all modules
  declared    \* what the walks have declared

input == <<modules, env>>
vars == <<input, walk, at, root, dependency, listed, declared>>

Tags(m, class) == IF class \in DOMAIN m.tags THEN m.tags[class] ELSE <<>>
Values(s) == {s[i] : i \in DOMAIN s}

------------------------------------------------------------------------------
(* What a module asks for.                                                  *)

FirstTag(m, class) == IF Tags(m, class) = <<>> THEN None ELSE Tags(m, class)[1]

\* The module's host tag, if Bazel runs on macOS, else its archive.
ModuleSdk(m) ==
  IF env.mac /\ Tags(m, "from_host") # <<>> THEN "host" ELSE FirstTag(m, "from_archive")

\* What module m asks for in the walk w.
Offer(w, m) ==
  CASE w = "sdk" -> ModuleSdk(m)
    [] w = "version" -> FirstTag(m, "version")
    [] w = "source" -> FirstTag(m, "override")
    [] w = "seed" -> FirstTag(m, "index")
    [] w = "gcc" -> FirstTag(m, "gcc_path")

------------------------------------------------------------------------------
Nothing == [sdk |-> None, includes |-> None, version |-> None, source |-> None,
            seed |-> None, gcc |-> None, execs |-> None, targets |-> None]

Init ==
  /\ walk \in FirstWalks
  /\ modules \in Graphs[walk]
  /\ env \in Environments[walk]
  /\ at = 1
  /\ root = None /\ dependency = None
  /\ listed = [first |-> <<>>, second |-> <<>>]
  /\ declared = Nothing

Module == modules[at]
Visiting(w) == walk = w /\ at \in DOMAIN modules
Walked(w) == walk = w /\ at \notin DOMAIN modules

Fail == walk' = "failed" /\ UNCHANGED <<input, at, root, dependency, listed, declared>>

\* What the module asks for is kept as the root's or as a dependency's.
Take(w) ==
  /\ root' = IF Module.root THEN Offer(w, Module) ELSE root
  /\ dependency' = IF ~Module.root /\ Offer(w, Module) # None
                   THEN Offer(w, Module) ELSE dependency
  /\ UNCHANGED <<input, walk, listed, declared>>

\* The root's, else a dependency's.
Chosen == IF root # None THEN root ELSE dependency

Declare(d, next) ==
  /\ declared' = d
  /\ walk' = next
  /\ at' = 1
  /\ root' = None /\ dependency' = None
  /\ listed' = [first |-> <<>>, second |-> <<>>]
  /\ UNCHANGED input

------------------------------------------------------------------------------
(* osx.bzl                                                                  *)

SdkClash == Len(Tags(Module, "from_archive")) > 1 \/ Len(Tags(Module, "from_host")) > 1

RejectSdk == Visiting("sdk") /\ SdkClash /\ Fail

VisitSdk ==
  /\ Visiting("sdk")
  /\ ~SdkClash
  /\ Take("sdk")
  /\ at' = at + 1

ForceHost == env.mac /\ env.useHost

MissingSdk == Walked("sdk") /\ ~ForceHost /\ Chosen = None /\ Fail

ChooseSdk ==
  /\ Walked("sdk")
  /\ ForceHost \/ Chosen # None
  /\ Declare([declared EXCEPT !.sdk = IF ForceHost THEN "host" ELSE Chosen], "contents")

\* Frameworks and libraries add up; whether some module has the tag for all
\* libraries is computed as well, and thrown away at the end of the loop.
VisitContents ==
  /\ Visiting("contents")
  /\ listed' = [first |-> listed.first \o Tags(Module, "frameworks"),
                second |-> listed.second \o Tags(Module, "libraries")]
  /\ at' = at + 1
  /\ UNCHANGED <<input, walk, root, dependency, declared>>

EnvironmentFrameworks == Values(env.frameworks) \ {""}

\* Mutant: the environment's frameworks are added to those of the tags.
FrameworksAdded ==
  LET names == EnvironmentFrameworks \cup Values(listed.first)
  IN  IF names = {} THEN DefaultFrameworks ELSE names

\* Mutant: the variable counts only if it names a framework.
FrameworksIfNamed ==
  LET names == IF EnvironmentFrameworks # {} THEN EnvironmentFrameworks ELSE Values(listed.first)
  IN  IF names = {} THEN DefaultFrameworks ELSE names

\* A variable that is not empty, be it a comma, takes the place of the tags; no
\* name at all is the default.
Frameworks ==
  LET names == IF env.frameworks # <<>> THEN EnvironmentFrameworks ELSE Values(listed.first)
  IN  IF names = {} THEN DefaultFrameworks ELSE names

DeclareSdk ==
  /\ Walked("contents")
  /\ Declare([declared EXCEPT !.includes =
                [frameworks |-> Frameworks, libraries |-> Values(listed.second),
                 allLibs |-> env.allLibs]], "done")

------------------------------------------------------------------------------
(* llvm.bzl                                                                 *)

RejectVersion == Visiting("version") /\ Len(Tags(Module, "version")) > 1 /\ Fail

\* Mutant: a version found takes the place of the next module.
VisitVersionSkips ==
  /\ Visiting("version")
  /\ Len(Tags(Module, "version")) <= 1
  /\ Take("version")
  /\ at' = IF Offer("version", Module) # None THEN at + 2 ELSE at + 1

\* Mutant: the first version found is taken, whoever asks for it.
VisitVersionFirst ==
  /\ Visiting("version")
  /\ Len(Tags(Module, "version")) <= 1
  /\ Take("version")
  /\ at' = IF Offer("version", Module) # None THEN Len(modules) + 1 ELSE at + 1

\* The root's version is returned at once: later modules are not looked at.
VisitVersion ==
  /\ Visiting("version")
  /\ Len(Tags(Module, "version")) <= 1
  /\ Take("version")
  /\ at' = IF Module.root /\ Offer("version", Module) # None
           THEN Len(modules) + 1 ELSE at + 1

MissingVersion == Walked("version") /\ Chosen = None /\ Fail

ChooseVersion ==
  /\ Walked("version")
  /\ Chosen # None
  /\ Declare([declared EXCEPT !.version = Chosen], "source")

\* A second override, of the same module or of another one.
OverrideClash ==
  /\ Tags(Module, "override") # <<>>
  /\ Chosen # None \/ Len(Tags(Module, "override")) > 1

RejectOverride == Visiting("source") /\ OverrideClash /\ Fail

\* Mutant: a later override takes the place of an earlier one.
VisitOverrideLast ==
  /\ Visiting("source")
  /\ Take("source")
  /\ at' = at + 1

VisitOverride ==
  /\ Visiting("source")
  /\ ~OverrideClash
  /\ Take("source")
  /\ at' = at + 1

MissingSource ==
  /\ Walked("source")
  /\ Chosen = None
  /\ declared.version \notin DOMAIN IndexedSources
  /\ Fail

DeclareSource ==
  /\ Walked("source")
  /\ Chosen # None \/ declared.version \in DOMAIN IndexedSources
  /\ Declare([declared EXCEPT !.source =
                IF Chosen # None THEN Chosen ELSE IndexedSources[declared.version]], "seed")

------------------------------------------------------------------------------
(* llvm_toolchain_minimal.bzl                                               *)

RejectIndex == Visiting("seed") /\ Len(Tags(Module, "index")) > 1 /\ Fail

VisitIndex ==
  /\ Visiting("seed")
  /\ Len(Tags(Module, "index")) <= 1
  /\ Take("seed")
  /\ at' = IF Module.root /\ Offer("seed", Module) # None
           THEN Len(modules) + 1 ELSE at + 1

\* A dependency's index is used if the root's is the default one.
SeedIndex ==
  LET file == IF root # None THEN root ELSE DefaultIndex
  IN  IF dependency # None /\ file = DefaultIndex THEN dependency ELSE file

\* Mutant: the default version's release, also when the version has its own.
_release_key_default(index) ==
  IF index.default \in DOMAIN index.latest THEN index.latest[index.default] ELSE None

\* The latest release of the chosen version, else of the index's default.
_release_key(index) ==
  CASE declared.version \in DOMAIN index.latest -> index.latest[declared.version]
    [] declared.version \notin DOMAIN index.latest /\ index.default \in DOMAIN index.latest ->
         index.latest[index.default]
    [] OTHER -> None

MissingSeed == Walked("seed") /\ _release_key(Seeds[SeedIndex]) = None /\ Fail

DeclareSeed ==
  /\ Walked("seed")
  /\ _release_key(Seeds[SeedIndex]) # None
  /\ Declare([declared EXCEPT !.seed = _release_key(Seeds[SeedIndex])], "done")

------------------------------------------------------------------------------
(* gcc.bzl                                                                  *)

\* The root asks twice, or dependencies ask for different paths.
PathClash ==
  LET paths == Values(Tags(Module, "gcc_path"))
  IN  IF Module.root THEN Len(Tags(Module, "gcc_path")) > 1
      ELSE \E p \in paths, q \in paths \cup ({dependency} \ {None}) : p # q

RejectPath == Visiting("gcc") /\ PathClash /\ Fail

\* Mutant: a later dependency's path takes the place of an earlier one's.
VisitPathLast ==
  /\ Visiting("gcc")
  /\ Take("gcc")
  /\ at' = at + 1

VisitPath ==
  /\ Visiting("gcc")
  /\ ~PathClash
  /\ Take("gcc")
  /\ at' = at + 1

DeclareGcc ==
  /\ Walked("gcc")
  /\ Declare([declared EXCEPT !.gcc = IF Chosen # None THEN Chosen ELSE GccReleases], "done")

------------------------------------------------------------------------------
(* toolchain.bzl                                                            *)

Unsupported ==
  \/ ~(Values(Tags(Module, "exec")) \subseteq Values(SupportedExecs))
  \/ ~(Values(Tags(Module, "target")) \subseteq Values(SupportedTargets))

RejectPlatform == Visiting("platforms") /\ Unsupported /\ Fail

VisitPlatforms ==
  /\ Visiting("platforms")
  /\ ~Unsupported
  /\ listed' = [first |-> listed.first \o Tags(Module, "exec"),
                second |-> listed.second \o Tags(Module, "target")]
  /\ at' = at + 1
  /\ UNCHANGED <<input, walk, root, dependency, declared>>

\* Mutant: the targets are the supported ones unless an exec is asked for.
DeclarePlatformsByExecs ==
  /\ Walked("platforms")
  /\ Declare([declared EXCEPT
       !.execs = IF listed.first = <<>> THEN SupportedExecs ELSE listed.first,
       !.targets = IF listed.first = <<>> THEN SupportedTargets ELSE listed.second], "done")

\* No platform asked for is every supported one.
DeclarePlatforms ==
  /\ Walked("platforms")
  /\ Declare([declared EXCEPT
       !.execs = IF listed.first = <<>> THEN SupportedExecs ELSE listed.first,
       !.targets = IF listed.second = <<>> THEN SupportedTargets ELSE listed.second], "done")

------------------------------------------------------------------------------
Walk ==
  \/ RejectSdk \/ VisitSdk \/ MissingSdk \/ ChooseSdk
  \/ VisitContents \/ DeclareSdk
  \/ RejectVersion \/ VisitVersion \/ MissingVersion \/ ChooseVersion
  \/ RejectOverride \/ VisitOverride \/ MissingSource \/ DeclareSource
  \/ RejectIndex \/ VisitIndex \/ MissingSeed \/ DeclareSeed
  \/ RejectPath \/ VisitPath \/ DeclareGcc
  \/ RejectPlatform \/ VisitPlatforms \/ DeclarePlatforms

Ended == walk \in {"done", "failed"} /\ UNCHANGED vars

Next == Walk \/ Ended

Spec == Init /\ [][Next]_vars
------------------------------------------------------------------------------
(* Properties.                                                              *)

\* Every variable has its type.
TypeOK ==
  /\ walk \in Walks \cup {"done", "failed"}
  /\ at \in 1 .. Len(modules) + 1
  /\ DOMAIN listed = {"first", "second"}
  /\ DOMAIN declared = DOMAIN Nothing

\* x is what the root asks for in the walk w, or if the root asks for nothing
\* what the last module that asks does; None if no module asks.
Asking(w) == {k \in DOMAIN modules : Offer(w, modules[k]) # None}
IsChoice(w, x) ==
  \/ \E k \in Asking(w) : modules[k].root /\ x = Offer(w, modules[k])
  \/ /\ \A k \in Asking(w) : ~modules[k].root
     /\ \E k \in Asking(w) : x = Offer(w, modules[k]) /\ \A j \in Asking(w) : j <= k
  \/ Asking(w) = {} /\ x = None

\* The root module decides on the SDK and on the LLVM version, whatever its
\* dependencies ask for; without its word the last dependency does, and the
\* environment can put the host's SDK before both on macOS.
RootElseLastDependency ==
  /\ declared.sdk # None =>
       IF ForceHost THEN declared.sdk = "host" ELSE IsChoice("sdk", declared.sdk)
  /\ declared.version # None => IsChoice("version", declared.version)

\* Off macOS no from_host tag and no environment variable leads to a host SDK.
HostSdkOnlyOnMac == declared.sdk = "host" => env.mac

\* What some module asks for.
Asked(class) == UNION {Values(Tags(modules[k], class)) : k \in DOMAIN modules}

\* The frameworks are all that any module asks for, the libraries too. Only the
\* environment's variable takes the place of the modules' frameworks, one that
\* names none as well: without a name they are the default ones.
ContentsAdd ==
  declared.includes # None =>
    LET names == IF env.frameworks = <<>> THEN Asked("frameworks") ELSE EnvironmentFrameworks
    IN  /\ declared.includes.frameworks = IF names = {} THEN DefaultFrameworks ELSE names
        /\ declared.includes.libraries = Asked("libraries")

\* The LLVM sources are those of the one override there is in all the modules,
\* the root's or not, else the indexed archive of the chosen version.
Overrides ==
  {o \in (DOMAIN modules) \X (1..2) : o[2] \in DOMAIN Tags(modules[o[1]], "override")}
OneSource ==
  declared.source # None =>
    /\ \A o, p \in Overrides : o = p
    /\ \A o \in Overrides : declared.source = Tags(modules[o[1]], "override")[o[2]]
    /\ Overrides = {} => declared.source = IndexedSources[declared.version]

\* The compiler that seeds the bootstrap is the chosen version's release
\* whenever the index that the modules agree on has one.
SeedFitsVersion ==
  declared.seed # None =>
    \E file \in DOMAIN Seeds :
      /\ IsChoice("seed", file) \/ (IsChoice("seed", None) /\ file = DefaultIndex)
      /\ LET latest == Seeds[file].latest
         IN  declared.seed = IF declared.version \in DOMAIN latest
                             THEN latest[declared.version] ELSE latest[Seeds[file].default]

\* GCC's sources are the root's, or the only ones dependencies ask for: two
\* dependencies with different trees never end in one of the two.
PathsAgree ==
  declared.gcc # None =>
    /\ \A j, k \in Asking("gcc") :
         ~modules[j].root /\ ~modules[k].root =>
           Offer("gcc", modules[j]) = Offer("gcc", modules[k])
    /\ IsChoice("gcc", declared.gcc) \/ (IsChoice("gcc", None) /\ declared.gcc = GccReleases)

\* Toolchains are declared for the platforms that some module asks for, and
\* for all supported ones only if no module asks for any.
PlatformsAdd ==
  declared.execs # None =>
    /\ Values(declared.execs) =
         IF Asked("exec") = {} THEN Values(SupportedExecs) ELSE Asked("exec")
    /\ Values(declared.targets) =
         IF Asked("target") = {} THEN Values(SupportedTargets) ELSE Asked("target")

\* Two modules that ask for different sources, of LLVM or of GCC, never end in
\* one of the two, in whatever order Bazel lists them.
NoClashIsIgnored == OneSource /\ PathsAgree

\* No module's request takes away another's: frameworks, libraries and platforms
\* add up.
TagsAddUp == ContentsAdd /\ PlatformsAdd
==============================================================================
