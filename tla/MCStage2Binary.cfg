CONSTANTS
  Sanitizers <- MCSanitizers
  ShortList <- MCShortList
  Symbolized <- MCSymbolized
  Platforms <- MCPlatforms
  ExecPlatforms <- MCExecPlatforms
SPECIFICATION Spec
INVARIANT Stage2IsInstrumented
