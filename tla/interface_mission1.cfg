SPECIFICATION Spec
CONSTANTS
  Addresses = {a1}
  Leds = 1
  Groups = {1}
  Colors = {2}
  Brightnesses = {200}
  Missions = {1, 9}
  Dialogs = {"Color", "Mission", "Group", "GroupColor", "GroupMission"}
  MaxObjects = 1
INVARIANT RunsLaunched
