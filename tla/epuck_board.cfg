SPECIFICATION FairBoardSpec
CONSTANTS
  Lengths = {0, 1, 3}
  Parts = 3
  Rounds = 4
  Faults = {"open", "configure", "control", "write", "read"}
INVARIANTS Framed Fresh StoppedAtEnd
PROPERTIES StepsDone Ends
CHECK_DEADLOCK FALSE
