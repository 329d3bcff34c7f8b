SPECIFICATION Spec
CONSTANTS
  Slots = {s1, s2}
  Main = Main
  NoActor = NoActor
  Patient = TRUE
  Used <- EveryCommand
  MaxGen = 3
SYMMETRY Symmetry
INVARIANTS
  NothingShownOfAnOlderBaseline
  ExitCleansUp
