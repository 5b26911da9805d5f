# TLA+ models of the SmartObjectProject

The repository holds everything around a *smart object*: a small networked box
with LEDs, a ground colour sensor and an accelerometer; the tools that command
it; the e-puck robots that act beside it; and the evolutionary search that
designs their controllers. Modelled here are the parts whose mistakes only show
in particular orders of events or in particular data that nobody writes down for
a test: the firmware (FreeRTOS tasks sharing an I2C bus, calibrations in flash,
the Wi-Fi station), the MPI program of the evolution and the NEAT generation it
drives (who survives, what mutation and mating make of genomes), the programs on
the robot (a serial line without framing, two threads on one bus, the
camera's thread, the thread that matches robots seen with messages heard), and
the graphical interface (windows that outlive what they were opened for). All
are checked with TLC. TLAPS also proves the safety properties for every value of the constants that the assumptions
admit: of the firmware, the parallel evolution, the NEAT generation and its genomes, the programs on the robot and the interface.

Contents: 1 inventory, 2 modules and how they correspond to the code, 3 runs
and bounds, 4 fairness, 5 proofs, 6 where code and documents differ, 7 what is left out, 8 plan.

## 1. Inventory

### Firmware of the smart object (`smart_object_driver/main`)

*State.* The globals of `main.c` (`xHandle`, `current_mission`, `args`), the
task of the TCP server, at most a few mission and calibration tasks, the lock
of the I2C driver, and the registers of the LED chip, which keep their values
when the ESP32 restarts. Calibration values are kept in flash (NVS).

*Operations.* `app_main` connects to the Wi-Fi, creates the server task and
then installs the I2C driver. `tcp_server_task` accepts a client, reads an
identifier byte and an action byte, and for some actions up to 13 digits of
configuration; it restarts the device, tests the LEDs, replaces the running mission
by another (or by none), or calibrates a sensor, and closes the connection.

*Interactions.* Server, missions and calibrations use one bus. The server
creates tasks and deletes them through `xHandle`, at any point of their code.

*Hard.* Deletion inside a bus transaction or between the four transactions of a
display; a handle that is never reset; transfers that fail and are not looked at; a
client that closes early; commands that arrive before the bus exists.

*Correct when* one mission runs at a time and it is the one `xHandle` names;
displays never mix and a stop leaves no mission and no light, but for what the bus did
not take; every client is served.

### Graphical interface (`smart_object_interface`), command line client (`client.py`)

*State.* A table of objects with the colour, brightness, configuration, group
and mission that the interface *believes* in; the selected object or group; the
windows open.

*Operations.* Add an object, select one or a group or all, change colour,
configuration, brightness, group or mission, send a free message. Each changes the
rows first and then opens a connection for each object. The command line client
asks for the same values and sends one message.

*Hard.* An object that cannot be reached, in the middle of a group as well; two
rows with one address; windows that are not modal, so that the selection can
change under a dialog; digits that mean something by their position; messages that name
another mission than the user chose.

*Correct when* a device does what the row that reached it last says, and a
window acts on the object it shows.

### Evolution (`EvoTof/src`)

*State.* NEAT's population and its fitness values, the group of organisms being
distributed, the state of each child process, messages under way.

*Operations.* `launchNEAT` makes a population per run, evaluates it, lets it
evolve, evaluates the last one again; `parallelEvaluation` sends number of runs,
seeds and genome to each child of a group and collects the answers from any
source; `scheduler` (the child) loops until it is told to stop.

*Hard.* All messages carry one tag; answers come in any order; `MPI_Send` may
block until it is received; groups smaller than the number of children; the
experiment of a child may throw.

*Correct when* each organism gets its own fitness before the population is
replaced, no message is taken for another, none is left at the end, and the program ends.

### Robot: board (`real_epuck.cpp`, `real_epuck_main.cpp`, `real_epuck_base.cpp`)

*State.* The state of the board (`m_eBoardState`: whose turn it is), the serial
port, the packets of sensors and actuators, the steps left, the flag a signal sets.

*Operations.* Wake the PIC up, configure it, then sensors - control - sync -
actuators until the time is up or a signal came; the destructor finishes
whatever exchange is open and resets the PIC.

*Hard.* The line has no framing, so a program that leaves its loop at any of
four places must still speak in turn; signals, a fault of the program itself among them;
transfers that fail; exceptions before the controller exists.

*Correct when* both sides keep in step, the controller sees fresh readings, an
experiment has exactly its steps, and the robot is at rest when the program is over.

### Robot: I2C device, range-and-bearing threads

*State.* The mutexes of the bus, of the queue of packets and of the data to
send; the queue; the last and the next data to send.

*Operations.* A thread reads the registers of a received message one after
another and queues it; a thread writes the registers of a message to send; the
control loop moves the queue into its readings and copies the data to send; the
destructors cancel both threads and close the bus.

*Hard.* A register is read by a write and a read of the same bus; retries that
run out; cancellation that unlocks mutexes the thread may not hold; destructors that
do not join.

*Correct when* a packet's fields come from their own registers, packets arrive
once and in order, a frame is one version of the data, and the end is reached.

### Firmware: Wi-Fi station, ground sensor, mission 2 (`wifi.c`, `TCS34725.c`, `mission2.c`)

*State.* The event group of the station, the handlers registered, the number of
retries; three keys per floor colour in flash, of which some may be set and not yet
committed; a window of readings, the floor it told, the floor before.

*Operations.* `wifi_init_sta` waits for a bit that `event_handler` sets from the
event loop, then takes the handlers off and deletes the group. A calibration
samples the floor and sets key after key, then commits. Mission 2 reads the keys once
and compares window after window with them.

*Hard.* Events delivered after the handlers are gone; a wait without a limit; failures of the flash that
are printed and ignored; restarts between two keys; two calibrations at once;
readings that fail inside a window; keys read without looking whether they were found.

*Correct when* the device gets to its server with or without an access point, the keys
of a colour belong together, and a mission at rest knows its floor.

### Evolution: a generation of NEAT (`population.cpp`, `species.cpp`), genomes (`genome.cpp`, `innovation.cpp`)

*State.* The species with their organisms, ages and expected offspring; the
champion's record and since when it stands; the genes of each genome, sorted by
innovation number; the innovations of the generation.

*Operations.* `epoch` adjusts and shares fitness, counts offspring, obliterates,
codes deltas or steals babies, kills, reproduces one baby after another into the
species it fits, and drops the old. Mutations add nodes, links and sensors and
toggle genes; three ways of mating line two genomes up.

*Hard.* Counts that must add up through fractions, rounding, theft and
gifts; a vector that grows while it is read; a search for cycles that may give up; innovations recorded in one genome and found
in another; genes skipped in mating with a state that is carried on.

*Correct when* the population keeps its size, the best genome survives, every species
gets its share, one number means one link, and every genome is one that
`Genome::verify` accepts.

### Robot: omnidirectional camera (`real_epuck_omnidirectional_camera_sensor.cpp`, `vision/blob_detector.cpp`)

*State.* A frame, the blobs the detector makes of it, the readings of the control
step, a mutex, a flag, and two counters used outside the mutex.

*Operations.* The thread grabs, detects and counts; `Update` copies when there is
something new; `Enable`, `Disable`. The detector labels pixels row by row and joins
labels that touch.

*Hard.* Counters compared without the lock; a thread that is told to stop and
unlocks whatever it may not hold; blobs freed without the lock; a second thread while the first still runs;
regions whose arms only meet rows later.

*Correct when* a control step sees one frame whole and no detection is lost, and blobs are regions.

### Robot: virtual camera range-and-bearing (`*_virtual_camrab_sensor.cpp`)

*State.* Packets from the range-and-bearing sensor, the blobs of the camera, the
queue of readings, the readings of the control step.

*Operations.* `Update` moves packets in and readings out; the thread copies packets and
blobs, groups blobs into robots, matches by colour and angle, and clears.

*Hard.* Packets cleared without a lock while others come; angles around 0;
several robots of a colour; colour and data in one byte.

*Correct when* a reading is what one robot sent, a packet is used once, and a robot is one blob.

### Other parts

The remaining sensors, mission 1, neural controllers, the simulator
plugins, loop functions, the arena, test programs, unused sources and the hardware design are out of
scope: floating-point computation and geometry in a single thread, or not built
at all. `PROJECT.json` lists all of them with reasons, and lists the hazards,
each at its line, with the properties that cover it.

## 2. Modules

| module | models | state and actions |
|---|---|---|
| `SmartObjectDriver` | firmware | one action per blocking point of the server (`Listen` ... `Close`); `TaskStart`, `TaskLoop`, `CalibrationEnds` for tasks; `BeginTransfer`, `EndTransfer`, `FailTransfer` for the bus; `ClientSends`, `ClientCloses` for the client |
| `MCSmartObjectDriver` | - | message sets and symmetry for TLC |
| `SmartObjectDriverProofs` | - | proofs |
| `WifiStation` | `wifi.c` | `phase` is where `app_main` waits, `events` what the loop has still to deliver; `RadioAssociates`, `RadioGetsAddress`, `RadioFails`, `Deliver`, `BitsSeen`, `TearDown` |
| `GroundSensor` | `TCS34725.c`, `mission2.c`, their start in `main.c`; composed with `WifiStation` | `Boot`, `Restart`, `Move`; `Sample`, `SetKey`, `Commit` of each calibration task; `mission2_start`, `mission2_loop`, `mission2_stop` |
| `MCGroundSensor` | - | the two channels that matter |
| `Evaluation` | what `launchNEAT` needs | abstract: draw seeds, store the fitness of an organism, replace the population only when all have one |
| `MpiEvolution` | `evolution.cpp`, `scheduler.cpp`, `experiments.cpp` | the parent's loops as `pc` with one action per call that may block, the children's loop as `child`, one queue per channel |
| `MCMpiEvolution` | - | population sizes; the program with one process beside the one with children |
| `MpiEvolutionProofs` | - | proofs, the refinement of `Evaluation` included |
| `NeatEpoch` | `population.cpp`, `species.cpp` | the parts of `epoch` as `phase`: `Evaluate`, `Adjust`, `Count`, `Share`, `Kill`, then one action per kind of baby, `Rebuild` |
| `MCNeatEpoch` | - | populations, ages, records and results |
| `NeatEpochProofs` | - | proofs |
| `NeatGenome` | `genome.cpp`, `innovation.cpp`, the calls of `Species::reproduce` | one action per mutation and per way of mating; `Epoch` forgets the innovations |
| `MCNeatGenome` | - | the links of the starter genome |
| `NeatGenomeProofs` | - | proofs |
| `GroundSensorProofs` | - | proofs, those about the Wi-Fi station included |
| `EPuckBoard` | the program on the robot and its serial line | `fn` is the member function being called, `InMain`/`InDestructor` the order of calls, `Begin`/`Write`/`Read`/`TransferFails` move packets part by part |
| `EPuckProofs` | - | proofs about the board, the camera with its blobs, and the virtual camera range-and-bearing |
| `RangeAndBearing` | I2C device, sensor thread, actuator thread, control loop | one action per mutex operation and per bus call, `pc` per thread |
| `RangeAndBearingProofs` | - | proofs |
| `BlobDetector` | `blob_detector.cpp` for one colour | a function from images to blobs, by folds over the pixels, with its reference definition |
| `OmnidirectionalCamera` | the camera's sensor and its threads | one action per statement that takes or leaves the mutex or touches a shared counter |
| `MCOmnidirectionalCamera` | - | images |
| `VirtualCamrab` | sensor of the virtual camera range-and-bearing, with its common interface | `Hear` (a packet that comes), the thread from `GetPackets` to `DeleteLast`, `PopLast` and `Sleep`, the control step (`PushPacket`, `PopQueued`, `ReceiveData`), `ClearReadings` of the controller |
| `MCVirtualCamrab` | - | scenes of blobs, and messages |
| `SmartObjectInterface` | `Controller.java`, `SmartObject.java` with `test` and `do_config_mission` of `main.c` | one action per handler; the reachability of each object is chosen by TLC |
| `SmartObjectInterfaceProofs` | - | proofs |

The components do not share a state machine: the interface and the firmware
meet at the digits of a message, which `SmartObjectInterface` takes through
`test` and `do_config_mission`; robot and smart object never talk.

Choices worth knowing:

- **SmartObjectDriver.** A task handle is an address, and a freed block may be
  reused, because that is where `xHandle` could go wrong. The 24 channels of the
  LED chip are folded into three colours: every writer addresses all channels of
  one colour or all channels. A bus transaction is two steps, so that a task can
  be deleted inside it - the interrupt handler may still carry it out; then `bus = "orphan"` and every later transfer fails,
  which is what a 1000 ms timeout on a lock without an owner does. Any other transfer may fail as well, at any
  time and by itself, and no caller looks at the result. Bytes a client did
  not send are whatever was in memory. What missions compute is left open: any
  colour their code can show, at any time. `lost` and `disturbed` are history variables: `lost` are the colours that
  were to go dark by a write the bus did not take, until it takes one; `disturbed` tells that a test ran over a mission,
  where the code does not try to keep displays apart. A `recv` that fails behind 12 digits writes past the array and
  restarts the device (`tcp_server.c:48-61`). `START` runs the initialisation a second
  time, which aborts and restarts the device; the model has it so.
- **MpiEvolution.** A genome is the pair of its population and its place, a
  vector of seeds is its number: enough to tell whose answer is whose. A `Send`
  may return at once or only when its message was received, per message, as the standard
  leaves to the implementation. `all` in a fitness tells whether the average is
  full: an experiment that throws leaves the sum of the runs before it, divided by the
  number of all runs, and that is what the parent stores. Number of runs and seeds
  differ only in their length and travel in one queue with one tag.
- **EPuckBoard.** A packet is `Parts` pieces and the line is a queue of
  them, as read and write may move any number of bytes. The PIC is external: it
  knows packets by their length only, is asleep before the program starts, and goes
  back to sleep when a packet with a reset reaches it. `broken` records a transfer that failed
  after a piece of it moved (or in a state that is entered before its packet is
  sent), after which the two sides disagree; the properties that need the
  agreement are conditional on `~broken`: section 6 says what comes of it. The pointer to the camera is not initialised
  (`real_epuck.cpp:49-60`): it may be usable by luck, a camera or `NULL`, and following it otherwise leaves the program
  in `phase = "faulting"`, since the handler of the signal returns to the instruction. `Abort` is what exceptions that `main` does not
  catch and a division by zero `ticks_per_second` do.
- **WifiStation.** An association sets no bit; only the address does, which the access point need not give.
- **RangeAndBearing.** Mutexes are of the default kind, which anyone may unlock.
  A register holds its own number, so a value tells which register it was read
  from. The actuator is destroyed before the sensor. A failing transfer is retried as in the
  code; `Failures` says whether a retry helps.
- **GroundSensor.** A colour is the floor it is the colour of; `mix` is a mean over
  two floors or over failed readings. `pending` are the keys set and not committed,
  and a restart keeps any subset of them. `torn`, `kept` and `rested` are history
  variables for the three conditions under which the properties are claimed.
  Calibrations, missions, moves and faults are bounded by `budget`.
- **NeatEpoch.** A genome is a number and the difference of two numbers is their
  compatibility. Shares are kept exact, as a numerator over the total; where
  double precision may round a share that is exactly whole the model takes both.
  A behaviour is one generation: the initial states are populations as
  a generation may find them (ages, records and results chosen). Sorting is said by what a sort gives (`InOrder`, `At`: the element
  that so many others come before), since the library's sorts are recursive and out of the prover's reach.
- **NeatGenome.** A node is its number; weights and traits are left out. The links of the starter genome are a
  sequence, numbered from 1 as its file numbers them. Babies may
  be parents within their generation, because `reproduce` puts them into species that
  have not reproduced yet. Undefined behaviour (erasing while iterating in
  `mutate_add_sensor`) is any choice of a sensor. `history` variables
  name the known causes by which a property is lost, so that it is claimed as far as it holds. `Search` is the recursion of
  `Network::is_recur` as a list of nodes still to visit: depth first, nodes visited as often as they are reached, given up after
  as many visits as the square of the number of nodes, which `gaveup` records.
- **OmnidirectionalCamera.** A detection is named by its frame, its blobs are
  computed by `BlobDetector`. A second `Enable` starts a second thread, as in the code. `cleanBlobs` is two steps for whoever calls it,
  and so is the copy: from the first on the list is not whole. Two at once may leave any list, and lose one of their two counts.
- **VirtualCamrab.** Since the thread looks at the blobs with no lock, and the camera may
  renew or free them at any time, what it looks at is any scene. Angles are in half degrees. The blobs of a colour are a set, and a
  sorted vector of them is that set ordered by rank. Deleting a packet twice aborts the program: such a behaviour ends there.
- **SmartObjectInterface.** The windows are kept as a set because nothing closes
  a dialog when the selection changes. A dialog opened once is taken to stay usable: to
  close it is not to use it. `shown` records which row reached a device last and
  `unsent` which rows were changed without reaching it. `chosen` is the mission the user last chose for an object and `misled` the
  objects that were sent a message naming another: mission 1 in a colour, or the brightness of a group. After a free message, which
  may have been anything, the object's doing is `unknown` until the next mission or stop. How bright LEDs become is left out, since
  `atoi` reads past `pow[3]` (`main.c:177`).

## 3. Runs

All runs are exhaustive and pass, but the last one, which shows a difference between code and documents (section 6); the
largest takes about two minutes. Deadlock is checked except where noted. `TypeOK` is proved for `SmartObjectDriver`,
`MpiEvolution`, `GroundSensor` with `WifiStation`, `EPuckBoard`, `SmartObjectInterface`, `NeatEpoch` (`EpochTypeOK`) and
`NeatGenome` (whose proofs state it); in the other modules it documents the types.

| run | asks | instance and why it is enough |
|---|---|---|
| `driver_missions` | `OneMission`, `OneColour`, `StopDarkens` | two task addresses (a mission and its successor or a calibration; a handle that names a reused block needs no third), two missions with different displays, a stop, a test, a calibration, a transfer failing at any time; 6.5 M states |
| `driver_protocol` | `ClientServed` | one task address; every action byte, wrong identifiers, clients that close after any field, accept failing, a connection reset, a lost bus, failing transfers; under fairness, 282 k states |
| `driver_ground` | `CalibrationWhole`, `ValuesKnown`, `GroundSettles`, `WifiReturns` | two channels, the first and the one whose error is looked at; two calibrations, which may be of one colour and at once; one mission, one restart or failure, one move of the object from a white floor to a black one (calibrated on each, it is told for what it is); windows of two readings; one retry of the Wi-Fi, an access point that associates and gives no address; 958 k states. `CHECK_DEADLOCK FALSE`: the bounds run out |
| `evolution` | `OwnFitness`, `NeverMisread`, `PromiseKept`, `Termination` | three children, and one process alone (the same loops without messages), with populations of 2 (fewer organisms than children) and 5 (a last group that is not full); two runs with one generation and a post-evaluation; 84 k states |
| `neat_epoch` | `SizeKept`, `FairShare`, `BestKept`, `EliteOfParents` | six organisms in one, two and three species (a champion is cloned from more than five babies on), young, stagnant and ageing species, all results out of a negative one, zero and a positive one, generations 1 and 30 (where a species is flagged), with and without stolen babies; 666 k states. `CHECK_DEADLOCK FALSE`: a behaviour is one generation |
| `neat_genome` | `NumbersNameLinks`, `GenomesVerify`, `InterfaceKept`, `ForwardAcyclic` | a sensor that is linked, a bias that is not, one output; four births in up to two generations: two that make an innovation each, a mating of the results, and one step more; 219 k states. No search reaches its threshold within four births |
| `epuck_board` | `Framed`, `Fresh`, `StoppedAtEnd`, `StepsDone`, `Ends` | packets of three pieces (first, inner, last), experiments of 1 and 3 steps and without limit, with and without a camera, a signal anywhere, every kind of failure; 8 k states. Rounds are counted modulo 4: sender and receiver are never more than one apart. `CHECK_DEADLOCK FALSE`: after a cut transfer the destructor really waits for ever for a PIC that waits for it |
| `camera_blobs` | `Snapshot`, `BlobsAreRegions`, `Shown` | 32 images of 4 x 3 pixels: three fixed ones with any of five others, among them arms that join further down and a label that meets two smaller ones; areas too small and too large; the camera disabled and enabled again once, at any moment; 136 k states. `CHECK_DEADLOCK FALSE`: frames are bounded |
| `camrab` | `HeardAsSent`, `MatchedOnce`, `OnePerRobot` | all scenes of up to four blobs out of nine in two of three colours, some of them around angle 0 and one before a robot behind it, at three distances; four messages, one with data that do not fit; two packets; 979 k states. `CHECK_DEADLOCK FALSE`: the program may abort, see section 6 |
| `bearing_packets` | `OwnRegister`, `OnceInOrder`, `WholeFrames`, `Ends` | two messages received, commands modulo 2 (a frame that mixes has two), one emitter, one data byte, failing transfers that a retry repairs, destruction at any point; under fairness; 874 k states |
| `interface_group` | `InStep`, `RunsChosen`, `ActsOnShown`, `GroupAlike` | two rows with one address, which is both the case of two rows and of a group; one LED, colour 2 besides none (mission 1 is sent as 3 in it), the brightness 255 of a new object and one of two digits, mission 1 and stop, all dialogs; 800 k states |
| `interface_mission1` | `RunsLaunched` (violated) | one object: colour 2, then mission 1, and it runs mission 3 |

What the properties say:

- `OneMission`: a mission that runs is the one `xHandle` names, although no code
  resets the handle and a freed address is reused: the next command finds and
  deletes it.
- `OneColour`: at every instant at most one colour is lit, through deletions
  inside a display and through restarts, but for colours whose dark write failed.
- `StopDarkens`: after a stop no mission runs, no write is pending, and what is still
  lit is so because the bus did not take the write that was to darken it.
- `ClientServed`: the server returns to `accept` or restarts, whatever the
  client does and even when the bus is lost.
- `CalibrationWhole`: the keys of a colour come from one calibration, unless its
  last one met another of its colour, a failure or a restart before its commit.
  `ValuesKnown`: once both colours were committed whole, no later mission compares with
  uninitialised memory. `GroundSettles`: with the right values, after two
  windows of good readings the mission knows its floor and shows it.
  `WifiReturns`: `wifi_init_sta` returns, with or without an access point, unless the station stays associated and is
  never given an address.
- `OwnFitness`: a stored fitness is that of its organism. `NeverMisread`: no message is taken
  for another. `Termination`: the program ends.
  `PromiseKept` is refinement: the program implements `Evaluation`.
- `SizeKept`: the offspring expected add up to the population, through rounding,
  theft and delta coding (whose half population for a single species it names).
  `FairShare`: a species gets its share within one baby below and two above.
  `BestKept`: the best genome is in the next generation when its species may have more than five
  babies or clones it last. `EliteOfParents`: an elite clone is one of a parent, when there are
  parents enough and no guests.
- `NumbersNameLinks`: one innovation number is one link, everywhere and always.
  `GenomesVerify`: genes and nodes in order, none twice, none dangling.
  `InterfaceKept`: no sensor and no output is lost. `ForwardAcyclic`: links not marked
  recurrent make no cycle, until a search for one was given up. Each is claimed up to the causes its comment names.
- `Framed`: the two sides never speak at once, and each takes every piece for
  what it is. `Fresh`: a control step uses readings taken after the last command was
  obeyed. `StoppedAtEnd`: the robot rests when the program is over. `StepsDone`:
  an experiment that ends by itself had exactly its steps. `Ends`: it ends after its
  time, a signal or an exception, unless it is in the fault its handler returns to.
- `OwnRegister`: a field is the value of the register it was asked from.
  `OnceInOrder`: messages reach the controller's side once and in order until a thread is
  cancelled. `WholeFrames`: one frame, one version. `Ends`: as above.
- `Snapshot`: readings are the blobs of one frame, none of them freed, where no ending thread is freeing them. `BlobsAreRegions`: the two
  passes find the connected regions. `Shown`: a detection once counted is shown, or a later one is.
- `HeardAsSent`: colour and data of a reading were sent together. `MatchedOnce`: no
  packet is matched twice and no blob given to two packets of a round. `OnePerRobot`: a robot is one
  blob, between those it shows and as near as the nearest, where blobs that are alike are one robot and no robot stands before
  another of its colour.
- `InStep`: a device in a test has set the LEDs and the colour that the row holds which reached it last, where no mission runs
  or may run. `RunsChosen`: it runs the mission last chosen for it, colours,
  configurations and brightnesses sent meanwhile notwithstanding (a test does not stop a mission), unless a message named
  another. `RunsLaunched` is the same without the exception: what the documents say, and the code does not do.
  `ActsOnShown`: the object's window shows the object that handlers act on.
  `GroupAlike`: a group's configuration, when all are reached, is one.

Every property of a passing run has at least one mutant in `PROJECT.json`: a
small change of a definition that a slip in the code could cause and that makes the run
fail. The mutated forms stand in the modules beside the definitions they vary, each
under the words "faulty variant"; no specification uses them.

## 4. Fairness

- **Firmware.** FreeRTOS runs every ready task. The client is only assumed to
  close in the end (it need not send anything), and `Accept` to be reached
  by the server, not to get a client. A user that waits for the bus gets it
  (strong fairness of `BeginTransfer`): every loop of a task sleeps at least
  100 ms between transactions that last less than one, and when the holder was
  deleted the wait fails after 1000 ms (`Refused`). That a transfer on a healthy bus fails is possible but never
  assumed: nothing is fair about `FailTransfer` elsewhere.
- **Evolution.** Every process runs. `Send` is only sure to return once its
  message was received, so termination does not rest on buffers.
- **Board.** The program runs whenever it may and an awake PIC keeps its turn.
  Signals are not fair: a signal need never come.
- **Wi-Fi.** The event loop delivers, a try to associate ends one way or the other,
  and `app_main` runs. The access point need not ever answer, and having associated the station it need neither give it an
  address nor drop it.
- **Range-and-bearing.** The fetching thread runs (weak fairness); strong fairness of the
  sending thread and of the control loop, which wait for mutexes: the threads sleep
  20 ms by default between two rounds and hold no mutex then, so a mutex
  is free again and again.
- **Camera.** The control step, the controller and the threads run, and a grab ends with a frame or its
  timeout; strong fairness of the copy, since a thread waits for the camera, without the mutex, between
  two detections.
- **Interface, NEAT, virtual camera range-and-bearing.** No liveness is claimed.

## 5. Proofs

Run with `tlapm <module>.tla`, one module at a time. Every theorem holds for every value of the
constants that the assumptions named here admit; TLC evaluates these assumptions on every run. The
inductive invariants were checked by TLC on the instance of the component's run before they were
proved.

**Firmware**, `SmartObjectDriverProofs` (`HandlesAssumption`, `MessagesAssumption`: markers are not
handles; messages are messages).

- `TypeCorrect`: `Spec => []TypeOK`.
- `OneMissionHolds`: `Spec => []OneMission`. Not inductive: creating a mission
  overwrites `xHandle`, so there must be none at that moment. `MissionInv` adds
  `NoMissionBeforeCreation`: between `clear_task_handle` and the creation no mission
  exists. It holds because the server is the only one to create missions and waits there
  at most for the bus. A reused address does no harm because a task that is not a mission
  got its address only from a free block, so `xHandle` can only ever name the one mission or
  something that is not one.
- `OneColourHolds`: `Spec => []OneColour`. What is lit now says nothing of what a list of transfers
  that is half done will light. `DisplayInv` speaks of what is lit and *meant* to be, a colour whose dark write failed not being
  meant (`Meant`): a write that darkens a colour takes it out of that set whether the bus takes the write or not. It says of every list
  that it is *prepared*: it ends with the only write that lights a colour, and every meant colour is darkened by the list before
  (`AllPrepared`). A second writer would spoil that, so it also says that tasks other than the mission only read
  (`ReadersOnly`) and the server writes only when there is no mission (`ServerAlone`).
- `StopDarkensHolds`: `Spec => []StopDarkens`, from `StopInv`: while the server carries out a stop, each meant colour is
  dark or still to be darkened by its list, and no mission comes back.

**Evolution**, `MpiEvolutionProofs` (`ParametersAssumption`: parameters are natural numbers; any
number of children, organisms, runs and generations).

- `InvariantHolds`: `Spec => []Inv`, with
  `Inv == TypeOK /\ Scores /\ Progress /\ GroupProgress /\ Children`.
  *Scores*: stored values are results of their own genome. *Progress*: before the current
  group everything is scored, from its end on nothing. *GroupProgress*: in the
  current group, what was sent to whom and how many answers are still due.
  *Children*: for each child, the messages not yet read are exactly the rest of
  the three it was sent, and a child owes an answer exactly if its organism has
  none yet. That last part is what answers identified only by rank and group rest on.
- From it `TypeCorrect`, `OwnFitnessHolds`, `NeverMisreadHolds`,
  `NothingLeftHolds`, and `PromiseHolds`: `Spec => PromiseKept`, step by step,
  with `due <- Runs > 0 /\ age > 0`.

**Ground sensor and Wi-Fi**, `GroundSensorProofs` (`GroundAssumption`, `RetryAssumption`: at least one channel, a window
of at least one reading; any number of channels, calibration tasks, restarts and retries).

- `HandlerHasGroupHolds`: the event handler never sets a bit of an event group that is gone. `StationInv` orders
  the tear-down: a handler is registered only in phases in which the group exists.
- `TypeCorrect`: `Spec => []TypeOK`; `TypesInv` adds what a mission's record may hold.
- `CalibrationWholeHolds`. The property only speaks of colours nobody is storing; `StoreInv` speaks of those
  that are being stored: a colour that is not `torn` has one writer, the keys that one has set so far hold
  its mean, and once it has committed none of them is pending. That is what a restart, which may keep any subset of the pending
  keys, rests on.
- `ValuesKnownHolds`, from `KeptInv`: a colour that was once committed whole has all its keys in flash, whatever
  was torn since.
- `GroundSettlesHolds`, from `WindowInv`: it relates the number of good readings since the floor changed (`rested`)
  to what the running window has seen and to what the window before it decided.

**Board**, `EPuckProofs`, specification `BoardSpec` (`BoardAssumption`: packets of at least one part, a count of rounds that may wrap at any number).

- `TypeCorrect` and `StepsDoneHolds` from `StepInv`: which member function may be called next in each phase, and how the
  steps left, the packets sent and the length of the experiment go together.
- `FramedHolds`, `StoppedAtEndHolds`, `FreshHolds` from `LineInv`. The line carries no mark of where a packet begins, so the
  invariant accounts for every part: `Conversation` says that the two sides are in one of four situations (`Starting`,
  `Sensing`, `Acting`, `Resting`) and in each of them the line holds exactly the parts which one side has sent and the other has
  not heard, with their kind, their place and their round. `DestroyPlace` says in which state the destructor may find
  the board. Both are conditional on `~broken`, as the properties are. A program that faults leaves the line as it was.

**Range-and-bearing**, `RangeAndBearingProofs` (`BearingAssumption`; one to four bytes of data, any number of emitters, retries, messages and
versions).

- `WholeFramesHolds` from `DataInv`: while main copies the data it has the mutex, or the sender has ended - its
  cleanup frees a mutex that main may hold, and does no harm only because nobody is left who would use it.
- `OnceInOrderHolds` from `QueueInv`: as long as no thread was cancelled, the list of main, the queue and the messages fetched
  are one sequence of numbers, the message being moved counted once although it is in both lists.
- `OwnRegisterHolds`: `ASSUME Failures # "many" PROVE Spec => []OwnRegister`, from `BusInv`: whoever is between two
  calls has the bus, so the register stays the one the fetcher addressed. The hypothesis excludes transfers that fail more often than they are
  retried: the code then unlocks twice (section 6, I2C), the exclusion is lost and with it the property's
  argument. The run makes the same assumption (`Failures = "few"`).

**Camera**, `EPuckProofs`, specification `CameraSpec` (`CameraAssumption`; images of any width and height).

- `SnapshotHolds` from `CameraInv`: as long as no two threads were alive at once, the thread in the middle of a detection has the mutex,
  and so has the control loop in the middle of its copy (`Copying`), although `Enable` and a thread that ends free it regardless of
  its owner; a thread frees blobs only after the camera was disabled (`Ending`), which the control step does not do in a copy.
- `BlobsAreRegionsHolds`: `CameraSpec => []BlobsAreRegions`. The first pass over the pixels keeps `Labelled`: no set of pixels that is
  closed under touching is ever divided by labels that lead to each other (`AllDivided`), and labels that touch were joined unless one
  met two others (`Joined`). So two pixels have one root exactly if no closed set divides them. On the other side `Region` of the
  reference definition is the smallest closed set around a pixel: the pixels it has reached grow with each of its Width times Height
  steps until they are closed, which a count of them shows.

**Virtual camera range-and-bearing**, `EPuckProofs`, specification `Spec` (`CamrabAssumption`; any scenes, packets and distances, messages within
the ranges that `SetData` and `SetColor` of the actuator let through, `ci_epuck_virtual_camrab_actuator.cpp:86-128,188-191`).

- `CamrabInv`: every reading, wherever it waits, is `Truthful` (made of a packet that was spoken, with the colour and the data read back
  from its byte), the packets the thread may still take were never given to it before (`FreshPackets`), and `MatchedOnce`.
- `HeardAsSentHolds` from it, by what the shift and the mask do to a byte; `MatchedOnceHolds`: the two folds, over the blobs of a
  packet and the packets of a round, are followed through an invariant of their accumulators (a blob is erased before the next packet looks).
- `OnePerRobotHolds`: `ASSUME RobotParameters PROVE Spec => []OnePerRobot`. Blobs that are chosen by their rank are a list of all, in the
  order of their angles (`SortsByAngle`). On the circle, two blobs of a robot enclose only its own, unless the robot is seen on both sides of angle 0
  and has all blobs but those between (`WrapsIs`); what goes backward therefore leaves robots that follow one another (`BackwardRuns`). Along
  them the group that is open holds all that was seen of its robot, and every robot before it is merged once (`Open`); the colours are joined likewise
  (`Seen`), where going backward is over only past the first colour. That the merged blob lies between those of its robot is a sum between
  bounds (`AverageBetween`). The hypothesis says that no robot takes more than 59 degrees, so none is nearer than 4.2 cm:
  `AverageAngle` takes angles around 0 together only if they are more than 300 degrees apart. The run's nearest robot takes 54.

**NEAT generation**, `NeatEpochProofs`, specification `EpochSpec` (`EpochAssumption`; any populations, ages, thresholds and numbers of stolen babies).
The parts of `epoch` fold over species and organisms with several counters at once. The proofs name the trace of a fold, its value after
each element, and prove what it keeps by going from one element to the next (`PassedOn`, from the smallest element that would fail).

- `EpochTyped` and `EpochAccounted`: `EpochSpec => []EpochInv`. `Accounted`: the species together hold the population, expect it, and in
  the middle of reproduction the babies in them are those of the turns that are over and the ones of this turn.
- `SizeKeptHolds` from it; stealing, giving and delta coding each conserve the sum.
- `FairShareHolds`: through the fold of `countOffspring`, what a species was given and the fraction that is skimmed are together what
  was due, so that it is never off by a whole baby; the make-up of lost babies adds at most two.
- `BestKeptHolds` from `BestInv`: the best genome is in a baby already, or the species it is first of has its turn to come, or is in
  it with a clone still to make.
- `EliteOfParentsHolds`: `ASSUME EliteParameters`, from `EliteInv`: while a species clones its elite, the parents are at the head of its
  vector and the vector has room for the babies. `EliteParameters` (at most half of a species survive; the elite is none, or one of
  six) holds for the parameters shipped, 0.20 and 0.20 (`evocolorParamsOneByOne100k.ne:12,39`), and for those of the run, 0.50 and
  0.40. Without it the program may clone past its parents, or read a vector that has moved.

**Interface**, `SmartObjectInterfaceProofs` (`InterfaceAssumption`: any number of rows, addresses and LEDs).

- `TypeCorrect`: `Spec => []TypeOK`.
- `InStepHolds`: the proof's heart is `ReadBack`, that `test` finds the colour and the LEDs at the places where `SendColorMessage`
  wrote them when the brightness has three digits. `ColourInv` adds `Spoke`: the row that an object shows is a row of its own address.
- `RunsChosenHolds`: a test leaves the mission alone, and of the missions told to an object the last one it acts on counts (`ChosenRuns`,
  a maximum over the rows that reached it). A message that names what was chosen is that one (`FirstDigit`); an object that was
  sent another is in `misled`.
- `ActsOnShownHolds`: inductive as it stands, given the types.
- `GroupAlikeHolds`: the action property `Spec => GroupAlike`, from the invariant that no row is in a group twice.

**Genomes**, `NeatGenomeProofs` (`GenomeAssumption`: a starter genome whose links go from sensors to outputs, none twice, with the
sensors numbered before the outputs; any number of sensors, outputs, births, generations and parents).

The argument is about *marks*: a gene's number, ends and kind, without the flag that enables it. The *book* is the set of the marks
of all genomes. Toggling, enabling and mating write nothing into it; only the three mutations that add structure do.

- `TypeCorrect` and `InterfaceKeptHolds` need no book: no number above the counters is in use, and a multipoint mating puts sensors and
  outputs before anything else.
- `BookKept`: `Spec => []MarkInv`. In the book a number has one mark (`BookOK`), a mark of this generation has an innovation that
  names it (`Names`), and an innovation has its marks in the book, those of a split together with the gene that was split
  (`Added`). A known innovation that is found again therefore adds marks that are already there. Each genome is in order (`Shape`);
  for the two matings that follows from an invariant of their walk over both parents (`Mated`): what was taken
  so far has smaller numbers than what either parent still offers.
- `GenomesVerifyHolds` from `MarkInv`.
- `PureKept`: `Spec => []PureInv`. The forward links of a genome can be *ranked*: there are numbers for the nodes so that each
  enabled forward link leads upward. `PureInv` is claimed until a search was given up (`gaveup`). A search that ended without finding the link's end
  leaves a set of nodes that holds the link's start, not its end, and that no forward link leads into: the nodes it visited
  (`IncomingIs`, `VisitIs`, `SearchResult`; the list of nodes still to visit is followed through the steps). With a new link the genome is
  ranked again by lifting all nodes outside that set (`LinkRanked`). A baby of a mating is ranked
  as the better parent is. With it go uniqueness (a forward link of this generation has one number), no forward loops, and `Complete`:
  a genome that has a node of this generation has both genes it came with - what makes a link to that node a known one.
- `ForwardAcyclicHolds` from `PureInv`; `NumbersNameLinksHolds` from both.

Three properties had to be corrected, since the inductive step had no proof and a longer behaviour than the run's four births refutes
what was claimed. A link enabled again can close a cycle of forward links; a node then gets linked to itself, that link is split, and
mating keeps one of the two genes, so that the other is added with a second number: ten births, and `NumbersNameLinks` now excludes
genes that were enabled again from its second half. And with several outputs a forward link may take the number of a recurrent one
(`mistaken`), after which a mating of the two closes a cycle: five births with three outputs, and `ForwardAcyclic` now excludes it.
And a robot that stands before another of its colour ends the group of blobs of the one behind, which is counted on both sides:
`OnePerRobot` now claims nothing for such scenes (`SideBySide`), and the run has one. Its proof also found a bound of the model off by one:
angles are in half degrees and a criterion is a fraction more than its number says, so one that ends at 360 degrees is beyond the circle.

*Only model-checked:* all liveness (`ClientServed`, `Termination`, `WifiReturns`, `Shown`,
both `Ends`), which is out of the prover's reach; and `TypeOK` of `RangeAndBearing`, whose list of emitters to do comes from a `SelectSeq`
that the prover cannot unfold.

## 6. Where code and documents differ

The models follow the code. Met while modelling, code against document:

- Firmware. `main.c:70` deletes a mission without regard to the bus: deleted inside a transaction it
  leaves the driver's lock without owner, and LED tests have no effect until a restart
  (`README.md:18` of the driver).
- Board. When `SendActuatorData` fails inside a packet the destructor sends the packet with the
  reset from its beginning, in the middle of the old one (`real_epuck.cpp:172`): the PIC is not reset and the
  wheels turn on (`real_epuck.h:92`).
- I2C. `ReadRegister` and `WriteData` go on after unlocking the bus when their retries are used up, and
  unlock once more (`real_epuck_i2c_device.cpp:117`, header line 79).
- Interface. `SmartObject.java:46` adds mission and colour as numbers before it appends the zeros: mission 1
  starts another mission or none. The driver's document (`README.md:27`) says that the message of mission 1 is the digit 1 and
  then one of the colour. Run `interface_mission1`.
- Interface. `Controller.java:428` sends the brightness of a group through `SetMission`, so that 200 starts mission 2 over whatever
  runs, where `README.md:34` of the interface lists "Change the brightness" as an action of its own.
- NEAT. `population.cpp:462` announces the worst species, the code below it flags the last old one in the
  order of the species, because the list is sorted by a fitness that is 0 for every organism of a new
  generation.
- Genomes. By the comment at `genome.cpp:1449` the same innovation gets the same number in two genomes of a generation. The
  innovation of a new link always says forward (`genome.cpp:1780`, `innovation.cpp:35`), so that a recurrent
  link never finds its number again and a forward link may get that of a recurrent one.
- Camera. The common interface says that `Counter` stores the time step of the blobs
  (`ci_epuck_omnidirectional_camera_sensor.h:87`); it counts the steps that copied and what a closing thread
  cleans, so the same blobs may be shown again as new.
- Virtual camera range-and-bearing. The header says that a reading is created when no blob matches;
  when blobs of the colour are seen but none within ten degrees, none is created. It also says that
  `PickRandomColor` may return the number of colours, which the code excludes.

Seen and kept as the code has it:

- *Firmware.* `START` restarts the device (`main.c:267`); a stale `xHandle` may name a
  calibration, which a mission command then deletes; a calibration may mix with another
  of its colour, and a failed key leaves that of an older one. Nobody looks at the result of a write to the LED chip, so a
  colour may stay lit after a stop or beside another (`LP5024.c:56`). A mission message of 12 digits is printed into `char[12]`
  (`main.c:97`), and `atoi` reads past `pow[3]` (`main.c:177`): what comes of both depends on the layout of the stack and is not modelled.
  The event handlers go after the first result, so a lost access point is never looked for again (`wifi.c:169`).
- *Evolution.* Averages are partial when a run throws (`scheduler.cpp:140`).
- *NEAT.* A stagnant species has its fitness multiplied by 0.01, which rewards it when the fitness is
  negative; equal fitness everywhere makes the average 0 and gives the whole
  population to the last species; delta coding of a single species halves the
  population; the champion's clones may run past the parents into babies of earlier species, or past
  the vector.
- *Genomes.* A node's kind is compared with a constant of another enumeration
  (lines 1640 and 1706), so a check for outputs never holds; a gene split, enabled and split again in
  one generation duplicates its node; enabling a gene, `mate_singlepoint`, or a mistaken number can close a cycle of
  forward links, and a split link of such a cycle its number; so can a search for a cycle that is given up, which the code allows
  (`genome.cpp:1565,1645`) and which dense networks without any cycle reach; `mate_singlepoint` keeps linked nodes only; the wish to disable a gene is carried to the
  next one; `mutate_add_sensor` counts the genes of all sensors and erases while it
  iterates. The parameters shipped switch most structural mutations off.
- *Board.* An exception before the controller exists deletes an uninitialised pointer
  (`real_epuck.cpp:109`); without a camera in the configuration an uninitialised pointer is followed in every step
  (`real_epuck.cpp:217`), and the handler of SIGSEGV returns to it (`:801`), so that the program may hang in the fault with the wheels
  turning; the destructor of the range-and-bearing sensor empties the queue while
  its thread may still add.
- *Camera.* A thread that ends frees the blobs one by one without the mutex
  (`real_epuck_omnidirectional_camera_sensor.cpp:148`), while the controller may read them; `Enable` before the last thread has ended makes two threads; the destructor deletes image,
  grabber and detector while the thread runs; a label that meets two smaller ones forgets one, so
  one region counts as two blobs (first in an image of 4 x 3 with the pixels 4, 5, 7, 8, 9, 10, 11).
- *Virtual camera range-and-bearing.* A robot seen before another of its colour ends the group of blobs of the one behind it, which
  then is two robots. `ClearPackets` deletes packets that came after the copy, and one that comes between deletion
  and `pop_back` is deleted twice; the difference of two angles does not wrap at 0; the flag that
  stops going backward is not set again for the next colour; one packet makes a reading for
  every blob after the first that fits; the colour is uninitialised until
  `PickRandomColor`; the thread is never joined.
- *Interface.* A brightness below 100 shifts the digits behind it (`SmartObject.java:83`); a
  group's dialog acts on the members the group had when it was selected.

## 7. What is left out

- Data: register addresses, brightness (what `test` makes of it included), colour arithmetic, packet contents, fitness
  values, clocks. Delays appear only as fairness.
- Mission 1 (a step counter over accelerations: arithmetic of a single task), the accelerometer's calibration
  (the same steps as the ground sensor's), the distances of the virtual camera range-and-bearing.
- NEAT's weights, traits, activation and files; the neural controllers.
- The actuator of the virtual camera range-and-bearing: its thread writes the data of the range-and-bearing
  actuator without that one's lock, so bytes of two messages may mix.
- The console for manual tests of a robot, which asks and answers in turn over one connection.
- The simulator's plugins, loop functions and the reference model of the smart object: geometry and
  scores step by step in one thread.
- The calibration commands of the interface: they change no state there.
- Files and logs of the evolution; `evolution-sequential.cpp` is covered by
  `g_nbProcess = 1` but for its handling of zero runs.
- Assumed, not checked: the PIC is asleep when the program starts; transfers on the serial line
  keep order; MPI keeps order per channel; free memory may be reused in any order.
- What undefined behaviour does to memory (the race on the queue during
  destruction, the uninitialised pointer) is a choice between going on and aborting.

## 8. Plan

Done, in the order of importance: `SmartObjectDriver`, `MpiEvolution` with `Evaluation`,
`EPuckBoard`, `RangeAndBearing`, `SmartObjectInterface`, `WifiStation` with `GroundSensor`,
`NeatEpoch`, `NeatGenome`, `OmnidirectionalCamera` with `BlobDetector`, `VirtualCamrab`.

Still worth modelling: the actuator of the virtual camera range-and-bearing on top of `RangeAndBearing`
(two threads and one vector of data to send); the packet exchange of the loop functions.

Theorems to come, most valuable first:

- `RangeAndBearing`: `TypeOK`, once its list of emitters is said without `SelectSeq`.
