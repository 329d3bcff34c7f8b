SPECIFICATION Spec
CONSTANTS
  Slots = {s1, s2}
  Main = Main
  NoActor = NoActor
  Patient = FALSE
  Used <- WithoutPanels
  MaxGen = 3
SYMMETRY Symmetry
INVARIANTS
  TypeOK
  CurrentLaterThanBaseline
  DriverStaysWhileCommitting
  ExitLeavesNoService
