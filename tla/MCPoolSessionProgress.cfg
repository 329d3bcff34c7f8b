SPECIFICATION FairSpec
CONSTANTS
  Slots = {s1, s2}
  Main = Main
  NoActor = NoActor
  Patient = FALSE
  Used <- ServiceAndBaseline
  MaxGen = 1
PROPERTIES
  ShutdownIsAnswered
