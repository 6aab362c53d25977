SPECIFICATION FairSpec
CONSTANTS
  Requests <- MCRequests
  MissingSets <- MCMissingSets
  ExitCodes <- MCExitCodes
  Signals <- MCSignals
  MaxInterrupts = 2
INVARIANTS
  SuccessMeansEveryOutput
  CopiedInterfaceAllOrNothing
PROPERTIES
  StripAfterDsym
  FailureEndsTheRun
  Termination
