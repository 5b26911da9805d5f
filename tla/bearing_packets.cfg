SPECIFICATION FairSpec
CONSTANTS
  DataSize = 1
  Emitters = 1
  maxRetries = 2
  Messages = 2
  Commands = 2
  Failures = "few"
  Closes = TRUE
INVARIANTS OwnRegister OnceInOrder WholeFrames
PROPERTY Ends
