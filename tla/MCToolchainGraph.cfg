CONSTANTS
  Sanitizers <- MCSanitizers
  ShortList <- MCShortList
  Symbolized <- MCSymbolized
  Platforms <- MCPlatforms
  ExecPlatforms <- MCExecPlatforms
SPECIFICATION Spec
INVARIANTS
  SelectedCompiler
  CompilersAreClean
  TrainingIsInstrumented
  ProfileIsForStage3
PROPERTIES
  ReachesTheSeed
  EveryDependencyIsSmaller
