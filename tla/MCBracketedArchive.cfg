SPECIFICATION Spec
CONSTANTS
  Libraries <- MCLibraries
  Targets = {"elf", "macho"}
  ArchiveNames = {"plain", "open", "bracketed"}
  MissingSets <- MCMissingSets
  LostSets <- MCNoneLost
INVARIANT
  StampedIsValid
