SPECIFICATION Spec
CONSTANTS
  Folded <- MCFolded
  Commands <- MCCommands
INVARIANTS
  TypeOK
  OverlayIsTheView
  OverlayIsOrdered
  VerdictIsOfTheView
