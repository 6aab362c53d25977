---------------------------- MODULE KernelHeaders ----------------------------
(***************************************************************************)
(* Which Linux headers a target is built with.  kernel/extension reads an   *)
(* index of header archives, declares a repository for each version and     *)
(* architecture, and maps each kernel line (5.15) to its newest patch       *)
(* version; platforms/ and kernel/extension then select one by the target   *)
(* platform's kernel constraint, else by its libc.                          *)
(*                                                                          *)
(* A version is a triple; a line is its first two components.               *)
(***************************************************************************)
EXTENDS Integers, Sequences, SequencesExt, FiniteSetsExt

CONSTANTS
  Graphs,         \* lists of modules, a module the sequence of its index tags
  Index,          \* index file -> sequence of [version, archs], in file order
  OwnIndex,       \* kernel_headers_index.json
  SupportedArchs,
  Cpus,           \* the linux cpus of LIBC_SUPPORTED_TARGETS, by kernel names
  Lines,          \* LINUX_KERNEL_VERSIONS
  Libcs,          \* LIBCS
  LibcKernel,     \* LIBC_KERNEL_VERSIONS, of Libcs and Unconstrained
  DefaultLibc,    \* DEFAULT_LIBC
  DefaultLibcs,   \* cpu -> libc, DEFAULT_LIBCS
  Musl,
  Unconstrained,  \* the default value of the libc constraint
  AnyKernel,      \* the default value of the kernel constraint
  None

VARIABLES
  modules,  \* the modules that use the extension, the root first if it does
  at,       \* the module the extension has come to
  index,    \* the index read last
  seen,     \* how many versions of the index are in the map
  map,      \* LINUX_KERNEL_VERSION_MAP
  phase,    \* "walk", "declared", "loaded", "built" or "failed"
  platform, \* the target platform: [cpu, libc, kernel]
  headers,  \* the version of the headers the target gets, None if no branch
  glibc     \* the glibc it gets

vars == <<modules, at, index, seen, map, phase, platform, headers, glibc>>
Versions == {index[i].version : i \in DOMAIN index}
LineOf(v) == SubSeq(v, 1, 2)

NewerThan(v, w) ==
  \/ v[1] > w[1]
  \/ v[1] = w[1] /\ v[2] > w[2]
  \/ v[1] = w[1] /\ v[2] = w[2] /\ v[3] > w[3]

\* Mutant: the entry that is last in the file stays.
WithLaterEntry(m, entry) ==
  [l \in DOMAIN m \cup {LineOf(entry.version)} |->
     IF l = LineOf(entry.version) THEN entry.version ELSE m[l]]

WithEntry(m, entry) ==
  [l \in DOMAIN m \cup {LineOf(entry.version)} |->
     IF l = LineOf(entry.version) /\ (l \notin DOMAIN m \/ NewerThan(entry.version, m[l]))
     THEN entry.version ELSE m[l]]

ArchsOf(v) ==
  (UNION {index[i].archs : i \in {j \in DOMAIN index : index[j].version = v}}) \cap SupportedArchs

------------------------------------------------------------------------------
Init ==
  /\ modules \in Graphs
  /\ at = 1
  /\ index = <<>>
  /\ seen = 0
  /\ map = <<>>
  /\ phase = "walk"
  /\ platform = None /\ headers = None /\ glibc = None

\* Mutant: a module with two indexes takes the turn of the next one.
ReadIndexesByTag ==
  /\ phase = "walk"
  /\ at <= Len(modules)
  /\ index' = IF modules[at] = <<>> THEN index ELSE Index[Last(modules[at])]
  /\ at' = at + Max({1, Len(modules[at])})
  /\ UNCHANGED <<modules, seen, map, phase, platform, headers, glibc>>

\* Each index read takes the place of the one before: the last module's stays.
ReadIndex ==
  /\ phase = "walk"
  /\ at <= Len(modules)
  /\ index' = IF modules[at] = <<>> THEN index ELSE Index[Last(modules[at])]
  /\ at' = at + 1
  /\ UNCHANGED <<modules, seen, map, phase, platform, headers, glibc>>

\* One round of the loop of _linux_kernel_version_map, in the file's order.
MapVersion ==
  /\ phase = "walk"
  /\ at > Len(modules)
  /\ seen < Len(index)
  /\ map' = WithEntry(map, index[seen + 1])
  /\ seen' = seen + 1
  /\ UNCHANGED <<modules, at, index, phase, platform, headers, glibc>>

Declare ==
  /\ phase = "walk"
  /\ at > Len(modules)
  /\ seen = Len(index)
  /\ phase' = "declared"
  /\ UNCHANGED <<modules, at, index, seen, map, platform, headers, glibc>>

\* The package with the selects loads if every kernel line is in the map.
Load ==
  /\ phase = "declared"
  /\ phase' = IF Lines \subseteq DOMAIN map THEN "loaded" ELSE "failed"
  /\ UNCHANGED <<modules, at, index, seen, map, platform, headers, glibc>>

------------------------------------------------------------------------------
(* The platforms and the selects.                                           *)

\* Mutant: one default for all.
default_libc_of_all(cpu) == DefaultLibc

default_libc(cpu) == IF cpu \in DOMAIN DefaultLibcs THEN DefaultLibcs[cpu] ELSE DefaultLibc

\* The platforms declared here, one with the default libc and one per libc for
\* each cpu, and those that users declare, without a libc or with a kernel.
DeclaredPlatforms ==
  UNION {[cpu : {c}, libc : {default_libc(c)} \cup Libcs, kernel : {AnyKernel}] : c \in Cpus}
UserPlatforms ==
  [cpu : Cpus, libc : Libcs \cup {Unconstrained}, kernel : Lines \cup {AnyKernel}]

\* Mutant: only the newest version of a line counts as available.
NewestHeaders(cpu, v) ==
  IF LineOf(v) \in DOMAIN map /\ map[LineOf(v)] = v /\ cpu \in ArchsOf(v) THEN v ELSE None

\* A select has a branch only for the headers the index has.
AvailableHeaders(cpu, v) == IF cpu \in ArchsOf(v) THEN v ELSE None

\* Mutant: the libc's headers even if the platform names a kernel.
SelectedHeadersByLibc(p) == AvailableHeaders(p.cpu, LibcKernel[p.libc])

SelectedHeaders(p) ==
  AvailableHeaders(p.cpu, IF p.kernel = AnyKernel THEN LibcKernel[p.libc] ELSE map[p.kernel])

\* Mutant: without a constraint, the cpu's own default libc.
SelectedGlibcOfCpu(p) ==
  CASE p.libc = Unconstrained -> default_libc(p.cpu)
    [] p.libc = Musl -> None
    [] OTHER -> p.libc

SelectedGlibc(p) ==
  CASE p.libc = Unconstrained -> DefaultLibc
    [] p.libc = Musl -> None
    [] OTHER -> p.libc

Build ==
  /\ phase = "loaded"
  /\ platform' \in DeclaredPlatforms \cup UserPlatforms
  /\ headers' = SelectedHeaders(platform')
  /\ glibc' = SelectedGlibc(platform')
  /\ phase' = "built"
  /\ UNCHANGED <<modules, at, index, seen, map>>

Ended == phase \in {"built", "failed"} /\ UNCHANGED vars

Next == ReadIndex \/ MapVersion \/ Declare \/ Load \/ Build \/ Ended

Spec == Init /\ [][Next]_vars

------------------------------------------------------------------------------
(* Properties.                                                              *)

\* Every variable has its type.
TypeOK ==
  /\ at \in 1 .. Len(modules) + 1
  /\ index = <<>> \/ index \in {Index[f] : f \in DOMAIN Index}
  /\ seen \in 0 .. Len(index)
  /\ phase \in {"walk", "declared", "loaded", "built", "failed"}
  /\ platform \in UserPlatforms \cup {None}
  /\ headers \in Versions \cup {None}
  /\ glibc \in Libcs \cup {None}

\* The version map has the newest version of each line of the index in force,
\* which is that of the last module with an index, the root included, in
\* whatever order the file lists the versions.
Deciding == Max({k \in DOMAIN modules : modules[k] # <<>>})
NewestOfTheLastIndex ==
  phase \notin {"walk"} /\ (\E k \in DOMAIN modules : modules[k] # <<>>) =>
    /\ index = Index[Last(modules[Deciding])]
    /\ {map[l] : l \in DOMAIN map} \subseteq Versions
    /\ \A l \in DOMAIN map : LineOf(map[l]) = l
    /\ \A v \in Versions : LineOf(v) \in DOMAIN map /\ ~NewerThan(v, map[LineOf(v)])

\* Under the repository's own index every platform has headers: the index has
\* the version pinned for each libc and for none, for every cpu, and a platform
\* with a kernel constraint is left without only if its cpu has no headers in
\* any version of that line.
PlatformsHaveHeaders ==
  phase = "built" /\ index = Index[OwnIndex] /\ headers = None =>
    /\ platform.kernel # AnyKernel
    /\ \A v \in Versions : LineOf(v) = platform.kernel => platform.cpu \notin ArchsOf(v)

\* A kernel constraint decides, whatever the libc, down to the patch version.
KernelConstraintDecides ==
  headers # None /\ platform.kernel # AnyKernel =>
    /\ LineOf(headers) = platform.kernel
    /\ \A v \in Versions : LineOf(v) = platform.kernel => ~NewerThan(v, headers)

\* Without one the headers are those that the glibc is pinned to which another
\* package chooses, also if neither is told which libc the target has.
GlibcFitsHeaders ==
  headers # None /\ glibc # None /\ platform.kernel = AnyKernel =>
    headers = LibcKernel[glibc]

\* compiler-rt needs headers of Linux 5.10 or later on RISC-V: the default
\* platform, with the libc chosen for that reason, has them.
RiscvDefaultIsRecent ==
  phase = "built" /\ index = Index[OwnIndex] /\ platform.cpu = "riscv"
    /\ platform.libc = default_libc("riscv") /\ platform.kernel = AnyKernel =>
      headers # None /\ ~NewerThan(<<5, 10, 0>>, headers)

\* The tables fit each other: whatever a target's cpu, libc and kernel, it has
\* headers, those of its kernel constraint or those its glibc is made for.
TargetsHaveHeaders ==
  PlatformsHaveHeaders /\ KernelConstraintDecides /\ GlibcFitsHeaders /\ RiscvDefaultIsRecent
==============================================================================
