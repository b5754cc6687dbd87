SPECIFICATION Spec
CONSTANTS
  Payload = {p1, p2}
  NoData = NoData
  BatchSize = 2
  MaxRetries = 1
  MaxLen = 2
  MaxFaults = 1
  MaxStarts = 2
SYMMETRY Symmetry
INVARIANTS Inv NoSilentLoss DeadLetterJustified WorkedOnce
PROPERTIES AckedIsAnswered ImplementsQueue
CHECK_DEADLOCK FALSE
