SPECIFICATION Spec
CONSTANTS
  MaxFrames = 5
  MaxGens = 3
  MaxTexts = 2
INVARIANTS OneEndPerGeneration ClientHasTheTruth
CHECK_DEADLOCK FALSE
