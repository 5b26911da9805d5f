SPECIFICATION FairSpec
CONSTANTS
  EXAMPLE_ESP_MAXIMUM_RETRY = 1
  Channels <- MCChannels
  sampling_size = 1
  size = 2
  Slots = {1, 2}
  Floors = {"white", "black"}
  FirstFloors = {"white"}
  Targets = {"black"}
  MaxCalibrations = 2
  MaxMissions = 1
  MaxFaults = 1
  MaxMoves = 1
INVARIANTS CalibrationWhole ValuesKnown GroundSettles
CHECK_DEADLOCK FALSE
PROPERTY WifiReturns
