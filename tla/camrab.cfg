SPECIFICATION Spec
CONSTANTS
  NumberColors = 3
  MaxAngle <- MCMaxAngle
  Scenes <- MCScenes
  Messages <- MCMessages
  MaxPackets = 2
INVARIANTS HeardAsSent MatchedOnce OnePerRobot
CHECK_DEADLOCK FALSE
