SPECIFICATION Spec
CONSTANTS
  Libraries <- MCLibraries
  Targets = {"elf", "macho"}
  ArchiveNames = {"plain", "open"}
  MissingSets <- MCMissingSets
  LostSets <- MCLostSets
INVARIANTS
  ReportIsExact
PROPERTIES
  ImplementsContract
