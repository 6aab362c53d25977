SPECIFICATION Spec
CONSTANTS
  Generators = {1, 2}
  Jobs <- MCJobs
  ObjectSymbols <- MCObjectSymbols
  BadObjects = {"bad"}
  QuotedObjects = {"quoted"}
  DefinitionLines <- MCDefinitionLines
  Undecorated <- MCUndecorated
  StaleObjects = {"vtable"}
INVARIANTS
  TypeOK
  SuccessMeansExactDef
  NoDefOfBadInputs
  ResponseIsRemoved
