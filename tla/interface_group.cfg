SPECIFICATION Spec
CONSTANTS
  Addresses = {a1}
  Leds = 1
  Groups = {1}
  Colors = {2}
  Brightnesses = {50}
  Missions = {1, 9}
  Dialogs = {"Color", "Mission", "Config", "Brightness", "Group", "Message", "GroupColor", "GroupMission", "GroupConfig", "GroupBrightness", "GroupMessage"}
  MaxObjects = 2
INVARIANTS InStep RunsChosen ActsOnShown
PROPERTY GroupAlike
