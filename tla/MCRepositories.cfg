SPECIFICATION RepositoriesSpec
CONSTANTS
  Graphs <- MCGraphs
  Environments <- MCEnvironments
  IndexedSources <- MCIndexedSources
  Seeds <- MCSeeds
  DefaultIndex = "default"
  GccReleases = "releases"
  DefaultFrameworks = {"D"}
  SupportedExecs <- MCExecs
  SupportedTargets <- MCTargets
  None = None
  KernelModules <- MCKernelModules
  Index <- MCIndex
  OwnIndex = "own"
  SupportedArchs <- _SUPPORTED_ARCHS
  Cpus <- LinuxCpus
  Lines <- LINUX_KERNEL_VERSIONS
  Libcs <- LIBCS
  LibcKernel <- LIBC_KERNEL_VERSIONS
  DefaultLibc <- DEFAULT_LIBC
  DefaultLibcs <- DEFAULT_LIBCS
  Musl = "musl"
  Unconstrained = "unconstrained"
  AnyKernel = AnyKernel
  Names <- MCNames
  Sources <- MCSources
  Patches <- MCPatches
  Excluded <- MCExcluded
  OverlayFiles <- MCOverlayFiles
  Releasable <- MCReleasable
  Digests = {"d1", "d2"}
  PageSize = 2
  MinMajor = 21
  MaxEvents = 2
INVARIANTS
  TypesOK
  RootElseLastDependency
  NoClashIsIgnored
  SeedFitsVersion
  TagsAddUp
  NewestOfTheLastIndex
  TargetsHaveHeaders
  OverlayIsLaidOver
  EveryReleaseIsSeen
