SPECIFICATION PartsSpec
CONSTANTS
  Half = 32
  AllocLimit = 26
  Chunk = 4
  MaxPiece = 5
  First <- MCFirst
  EntrySize = 3
  MaxSize = 30
  Programs <- MCPrograms
  Headers = {"a", "b", "broken"}
  Good = {"a", "b"}
  MaxAttempts = 4
  Lists <- MCLists
  Pids = {1, 2, 3}
  MaxKills = 2
  MaxLength = 4
INVARIANTS
  TypesOK
  StoreIsInBlock
  SuccessIsAll
  SpawnsAreClean
  ActionsReportTheCompiler
  TextsReadBack
PROPERTY PartsEnd
