----------------------------- MODULE GroundSensor -----------------------------
(***************************************************************************)
(* The ground sensor of the smart object (TCS34725.c, mission2.c): the     *)
(* calibration tasks that store the mean colour of a white and of a black  *)
(* floor in flash, and mission 2, which reads them once and then tells the *)
(* floor the object stands on.  The device may restart at any time; it     *)
(* comes back through nvs_flash_init and the Wi-Fi station.                *)
(*                                                                         *)
(* A colour is abstracted to the floor it is the colour of: "mix" is the   *)
(* mean of different floors or of failed readings, "zero" the default of   *)
(* a key that is not there, "garbage" an uninitialised float.  Two floors  *)
(* differ by more than the offset of 10 and two readings of one do not.    *)
(***************************************************************************)
EXTENDS WifiStation, FiniteSets

CONSTANTS
  Channels,         \* the colour channels, in the order they are stored
  sampling_size,    \* readings of a calibration (10)
  size,             \* readings of a window of mission 2 (5)
  Slots,            \* calibration tasks that can exist at once, numbered
  Floors,           \* the floors there are
  FirstFloors,      \* those the object may start on
  Targets,          \* the floors a client asks mission 2 for
  MaxCalibrations, MaxMissions, MaxMoves,   \* bounds of a behaviour
  MaxFaults         \* restarts, erasures and failures of the flash in one

ASSUME GroundAssumption ==
  /\ Len(Channels) \in Nat \ {0}
  /\ FirstFloors \subseteq Floors /\ Floors \subseteq {"white", "black", "gray"}
  /\ Targets \subseteq {"white", "black", "gray"} /\ Slots \subseteq Nat
  /\ sampling_size \in Nat \ {0} /\ size \in Nat \ {0}

Colors == {"white", "black"}    \* what is calibrated
Keys == Colors \X {Channels[i] : i \in 1..Len(Channels)}
Means == Floors \cup {"mix"}
Absent == "absent"

VARIABLES
  floor,     \* the floor under the object
  flash,     \* the keys of the partition, which survive a restart
  pending,   \* keys that are set and not committed
  calib,     \* the calibration tasks
  m2,        \* mission 2
  led,       \* what mission 2 shows: a colour, or "dark"
  rested,    \* history: good readings of m2 since the floor changed, capped
  kept,      \* history: the colour was committed whole
  torn,      \* history: its last calibration failed, met another or a restart
  budget     \* what is left of the bounds

groundVars == <<floor, flash, pending, calib, m2, led, rested, kept, torn, budget>>
vars == <<wifiVars, groundVars>>

NoCalibration == [color |-> "none", n |-> 0, seen |-> {}, set |-> 0]
NoMission == [on |-> FALSE, color_floor |-> "none", cal |-> [c \in Colors |-> <<>>], index |-> 0,
              seen |-> {}, ground |-> "UNKNOWN", previous |-> "UNKNOWN", known |-> FALSE]

Settled == 2 * size - 1
Store == [k \in Keys |-> IF pending[k] # Absent THEN pending[k] ELSE flash[k]]
NothingPending == [k \in Keys |-> Absent]
Whole(c) == \A i \in 1..Len(Channels) : Store[<<c, Channels[i]>>] = Store[<<c, Channels[1]>>]
Complete(c) == \A i \in 1..Len(Channels) : Store[<<c, Channels[i]>>] # Absent
Writing(c) == {s \in Slots : calib[s].color = c /\ calib[s].set > 0}

Init ==
  /\ WifiInit
  /\ floor \in FirstFloors
  /\ flash = NothingPending /\ pending = NothingPending
  /\ calib = [s \in Slots |-> NoCalibration]
  /\ m2 = NoMission /\ led = "dark"
  /\ rested = 0
  /\ kept = [c \in Colors |-> FALSE] /\ torn = [c \in Colors |-> FALSE]
  /\ budget = [calibrations |-> MaxCalibrations, missions |-> MaxMissions, faults |-> MaxFaults, moves |-> MaxMoves]

Fault == budget.faults > 0 /\ budget' = [budget EXCEPT !.faults = @ - 1]

-----------------------------------------------------------------------------
(* app_main: nvs_flash_init may find a partition it has to erase.          *)
Boot ==
  /\ wifi_init_sta
  /\ \/ UNCHANGED <<flash, kept, torn, budget>>
     \/ /\ Fault
        /\ flash' = NothingPending
        /\ kept' = [c \in Colors |-> FALSE] /\ torn' = [c \in Colors |-> FALSE]
  /\ UNCHANGED <<floor, pending, calib, m2, led, rested>>

(* esp_restart or a loss of power: what was not committed may have reached *)
(* the flash or not, key by key.                                           *)
Restart ==
  /\ phase # "off"
  /\ Fault
  /\ WifiReset
  /\ \E K \in SUBSET {k \in Keys : pending[k] # Absent} :
       flash' = [k \in Keys |-> IF k \in K THEN pending[k] ELSE flash[k]]
  /\ pending' = NothingPending
  /\ torn' = [c \in Colors |-> torn[c] \/ Writing(c) # {}]
  /\ calib' = [s \in Slots |-> NoCalibration]
  /\ m2' = NoMission
  /\ rested' = 0
  /\ UNCHANGED <<floor, led, kept>>

Move(f) ==
  /\ f # floor /\ budget.moves > 0
  /\ budget' = [budget EXCEPT !.moves = @ - 1]
  /\ floor' = f
  /\ rested' = 0
  /\ UNCHANGED <<wifiVars, flash, pending, calib, m2, led, kept, torn>>

-----------------------------------------------------------------------------
(* do_config_calibration creates a task; nobody looks for one that runs.   *)
StartCalibration(s, c) ==
  /\ phase = "done" /\ budget.calibrations > 0
  /\ calib[s].color = "none" /\ \A t \in Slots : t < s => calib[t].color # "none"
  /\ calib' = [calib EXCEPT ![s] = [NoCalibration EXCEPT !.color = c]]
  /\ budget' = [budget EXCEPT !.calibrations = @ - 1]
  /\ UNCHANGED <<wifiVars, floor, flash, pending, m2, led, rested, kept, torn>>

(* A reading: of the floor, or of nothing when a transfer fails or the     *)
(* clear channel is 0.                                                     *)
Readings == {floor, "bad"}
Mean(seen) == IF Cardinality(seen) = 1 /\ seen \subseteq Floors
              THEN CHOOSE f \in seen : TRUE ELSE "mix"

Sample(s) ==
  /\ calib[s].color # "none" /\ calib[s].n < sampling_size
  /\ \E r \in Readings :
       calib' = [calib EXCEPT ![s].n = @ + 1, ![s].seen = @ \cup {r}]
  /\ UNCHANGED <<wifiVars, floor, flash, pending, m2, led, rested, kept, torn, budget>>

(* One nvs_set_i32; a failure is printed and the next key is set.  With    *)
(* the first goes nvs_open, and when that fails the task just ends.        *)
\* faulty variant: both calibrations store under the keys of white
WhiteKey(s) == <<"white", Channels[calib[s].set + 1]>>
NextKey(s) == <<calib[s].color, Channels[calib[s].set + 1]>>

Sampled(s) == calib[s].color # "none" /\ calib[s].n = sampling_size

SetKey(s) ==
  LET c == calib[s].color
  IN /\ Sampled(s) /\ calib[s].set < Len(Channels)
     /\ \/ /\ pending' = [pending EXCEPT ![NextKey(s)] = Mean(calib[s].seen)]
           /\ torn' = [torn EXCEPT ![c] = (@ /\ calib[s].set > 0) \/ Writing(c) \ {s} # {}]
           /\ calib' = [calib EXCEPT ![s].set = @ + 1]
           /\ UNCHANGED budget
        \/ /\ Fault
           /\ torn' = [torn EXCEPT ![c] = TRUE]
           /\ calib' = [calib EXCEPT ![s].set = @ + 1]
           /\ UNCHANGED pending
        \/ /\ calib[s].set = 0
           /\ Fault
           /\ calib' = [calib EXCEPT ![s] = NoCalibration]
           /\ UNCHANGED <<pending, torn>>
  /\ UNCHANGED <<wifiVars, floor, flash, m2, led, rested, kept>>

(* nvs_commit, and the task deletes itself. *)
\* faulty variant: the task ends without a commit
NoCommit == <<flash, pending>>
Committed == <<Store, NothingPending>>

Commit(s) ==
  LET c == calib[s].color
  IN /\ Sampled(s) /\ calib[s].set = Len(Channels)
     /\ calib' = [calib EXCEPT ![s] = NoCalibration]
     /\ \/ /\ flash' = Committed[1] /\ pending' = Committed[2]
           /\ kept' = [kept EXCEPT ![c] = @ \/ Complete(c)]
           /\ UNCHANGED <<torn, budget>>
        \/ /\ Fault
           /\ torn' = [torn EXCEPT ![c] = TRUE]
           /\ UNCHANGED <<flash, pending, kept>>
  /\ UNCHANGED <<wifiVars, floor, m2, led, rested>>

-----------------------------------------------------------------------------
(* mission2_start after the server has cleared the mission before it.      *)
(* Only the error of the last key is looked at.                            *)
Garbage == [i \in 1..Len(Channels) |-> "garbage"]
TCS34725_get_calibrated_values(c, opened) ==
  IF opened /\ Store[<<c, Channels[Len(Channels)]>>] # Absent
  THEN [i \in 1..Len(Channels) |->
          IF Store[<<c, Channels[i]>>] = Absent THEN "zero" ELSE Store[<<c, Channels[i]>>]]
  ELSE Garbage

mission2_start(target) ==
  /\ phase = "done" /\ budget.missions > 0
  /\ \E opened \in {TRUE} \cup (IF budget.faults > 0 THEN {FALSE} ELSE {}) :
       /\ budget' = [budget EXCEPT !.missions = @ - 1, !.faults = IF opened THEN @ ELSE @ - 1]
       /\ m2' = [NoMission EXCEPT !.on = TRUE, !.color_floor = target,
                   !.cal = [c \in Colors |-> TCS34725_get_calibrated_values(c, opened)],
                   !.known = opened /\ \A c \in Colors : kept[c]]
  /\ led' = "dark"
  /\ rested' = 0
  /\ UNCHANGED <<wifiVars, floor, flash, pending, calib, kept, torn>>

mission2_stop ==
  /\ phase = "done" /\ m2.on
  /\ m2' = NoMission
  /\ led' = "dark"
  /\ rested' = 0
  /\ UNCHANGED <<wifiVars, floor, flash, pending, calib, kept, torn, budget>>

(* Whether a window may lie within the offset of the calibrated values: a  *)
(* window on one floor certainly does when they are that floor's and does  *)
(* not when they are another's; any other pair may or may not.             *)
Pure(f) == [i \in 1..Len(Channels) |-> f]
Within(seen, cal) ==
  IF \E f, g \in Floors : seen = {f} /\ cal = Pure(g) THEN {cal = Pure(Mean(seen))} ELSE BOOLEAN

Grounds(seen, cal) ==
  {g \in {"WHITE", "BLACK", "GRAY"} :
     \/ g = "WHITE" /\ TRUE \in Within(seen, cal["white"])
     \/ g = "BLACK" /\ FALSE \in Within(seen, cal["white"]) /\ TRUE \in Within(seen, cal["black"])
     \/ g = "GRAY"  /\ FALSE \in Within(seen, cal["white"]) /\ FALSE \in Within(seen, cal["black"])}

Ground(f) == [white |-> "WHITE", black |-> "BLACK", gray |-> "GRAY"][f]
Shown(ground, target) == IF ground = Ground(target) THEN "color 2" ELSE "color 0"

\* faulty variant: a new window starts with the readings of the last one
KeepWindow(seen) == seen
NextWindow(seen) == {}
\* faulty variant: the change of the ground is not remembered
OldPrevious(g) == m2.previous
NewPrevious(g) == g

mission2_loop ==
  /\ m2.on
  /\ \E r \in Readings :
       LET seen == m2.seen \cup {r}
       IN /\ rested' = IF r = "bad" THEN 0 ELSE IF rested < Settled THEN rested + 1 ELSE rested
          /\ \/ /\ m2.index + 1 < size
                /\ m2' = [m2 EXCEPT !.index = @ + 1, !.seen = seen]
                /\ UNCHANGED led
             \/ /\ m2.index + 1 = size
                /\ \E g \in Grounds(seen, m2.cal) :
                     /\ m2' = [m2 EXCEPT !.index = 0, !.seen = NextWindow(seen), !.ground = g,
                                         !.previous = NewPrevious(g)]
                     /\ led' = IF g # m2.previous THEN Shown(g, m2.color_floor) ELSE led
  /\ UNCHANGED <<wifiVars, floor, flash, pending, calib, kept, torn, budget>>

-----------------------------------------------------------------------------
Wifi == WifiStep /\ UNCHANGED groundVars
Calibration(s) == Sample(s) \/ SetKey(s) \/ Commit(s)
                  \/ \E c \in Colors : StartCalibration(s, c)
Mission2 == mission2_loop \/ mission2_stop \/ \E f \in Targets : mission2_start(f)

Next == \/ Boot
        \/ Restart
        \/ Wifi
        \/ \E f \in Floors : Move(f)
        \/ \E s \in Slots : Calibration(s)
        \/ Mission2

Spec == Init /\ [][Next]_vars
FairSpec == Spec /\ WifiFairness
-----------------------------------------------------------------------------
Calibrations == [color : Colors \cup {"none"}, n : 0..sampling_size,
                 seen : SUBSET (Floors \cup {"bad"}), set : 0..Len(Channels)]

TypeOK ==
  /\ WifiTypeOK
  /\ floor \in Floors
  /\ flash \in [Keys -> Means \cup {Absent}] /\ pending \in [Keys -> Means \cup {Absent}]
  /\ calib \in [Slots -> Calibrations]
  /\ m2.index \in 0..(size - 1)
  /\ led \in {"dark", "color 0", "color 2"}
  /\ rested \in 0..Settled
  /\ kept \in [Colors -> BOOLEAN] /\ torn \in [Colors -> BOOLEAN]

(* The three keys of a colour come from one calibration when none of that  *)
(* colour is being stored, whatever calibrations of the other colour, the  *)
(* missions and restarts after the commit do - unless its last one met     *)
(* another one of its colour, a failure or a restart before its commit.    *)
CalibrationWhole == \A c \in Colors : ~torn[c] /\ Writing(c) = {} => Whole(c)

(* A mission started after both colours were once committed whole never    *)
(* compares with uninitialised memory, however often the device restarted  *)
(* and whatever calibrations failed since: only an erased flash forgets.   *)
ValuesKnown == m2.known => \A c \in Colors : m2.cal[c] # Garbage

(* With calibrations of the right floors in hand, after the object has     *)
(* rested for two windows the mission knows its floor and shows the right  *)
(* colour, whatever floors and failed readings the windows before had.     *)
GroundSettles ==
  (m2.on /\ rested = Settled /\ \A c \in Colors : m2.cal[c] = Pure(c)) =>
    m2.ground = Ground(floor) /\ led = Shown(m2.ground, m2.color_floor)
=============================================================================
