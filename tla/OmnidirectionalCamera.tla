------------------------- MODULE OmnidirectionalCamera -------------------------
(***************************************************************************)
(* The omnidirectional camera of the e-puck                                *)
(* (real_epuck_omnidirectional_camera_sensor.cpp): a thread grabs frames   *)
(* and looks for blobs, the control step copies the blobs of the last      *)
(* detection.  The two share a mutex, a flag and two counters that are     *)
(* read and raised without it; a thread that ends deletes the copied blobs *)
(* without it too.                                                         *)
(*                                                                         *)
(* A controller may disable the camera and enable it again; the second     *)
(* Enable starts a second thread, whether or not the first has ended.  A   *)
(* detection is told by its frame: its blobs are Detection[frame].blobs.   *)
(***************************************************************************)
EXTENDS BlobDetector

CONSTANTS
  FirstImages,    \* bound: what the memory of the image may hold before a frame
  Images,         \* bound: what the camera may see
  MaxCycles,      \* bound: detections of a run
  MaxEnables      \* bound: how often the controller disables and enables

ASSUME CameraAssumption == FirstImages \subseteq SUBSET Pixels /\ Images \subseteq SUBSET Pixels
                           /\ MaxCycles \in Nat \ {0} /\ MaxEnables \in Nat

Threads == 1..MaxEnables + 1
Nobody == 0                       \* holders of the mutex beside the threads
ControlLoop == MaxEnables + 2

VARIABLES
  threads,        \* program counters of the threads
  controlStep,    \* program counter of the control step
  m_bEnabled,
  m_tBlobQueueMutex,
  m_pcHSVImage,
  detected,       \* the last detection: its number, its frame, and whether it is done
  m_un_blobDetection_cycles,
  Counter,
  BlobList,       \* m_sReadings.BlobList: the detection its blobs are from, not whole when some are freed
  disabled,       \* history: the controller has disabled the camera
  crowded         \* history: Enable met a thread that was still alive

cameraVars == <<threads, controlStep, m_bEnabled, m_tBlobQueueMutex, m_pcHSVImage, detected,
                m_un_blobDetection_cycles, Counter, BlobList, disabled, crowded>>

Nothing == [number |-> 0, frame |-> {}, whole |-> TRUE]
Alive == {t \in Threads : threads[t] \notin {"none", "closed"}}

-----------------------------------------------------------------------------
(* Init, which also starts the first thread. *)
CameraInit ==
  /\ threads = [t \in Threads |-> IF t = 1 THEN "loop" ELSE "none"]
  /\ controlStep = "control"
  /\ m_bEnabled = TRUE
  /\ m_tBlobQueueMutex = Nobody
  /\ m_pcHSVImage \in FirstImages         \* not initialised
  /\ detected = Nothing
  /\ m_un_blobDetection_cycles = 0
  /\ Counter = 0
  /\ BlobList = Nothing
  /\ disabled = FALSE
  /\ crowded = FALSE

(* cleanBlobs deletes the blobs one by one, from which on the list is not  *)
(* whole, then clears it and counts a reading, also when there was none.   *)
(* What is left of a list that another is changing meanwhile is anybody's  *)
(* guess, and one of the two counts may be lost.                           *)
FreeBlobs == BlobList' = [BlobList EXCEPT !.whole = FALSE]
ClearBlobs(another) ==
  /\ BlobList' = [Nothing EXCEPT !.whole = ~another]
  /\ Counter' \in {Counter + 1} \cup (IF another THEN {Counter} ELSE {})
Freeing == {t \in Threads : threads[t] = "freeing"}

-----------------------------------------------------------------------------
(* The thread. *)

(* GrabFrame: a new frame, or after the timeout the one there was; with    *)
(* the loop's test of the flag.                                            *)
GrabFrame(t) ==
  /\ threads[t] = "loop" /\ m_bEnabled
  /\ detected.number < MaxCycles
  /\ m_pcHSVImage' \in Images \cup {m_pcHSVImage}
  /\ threads' = [threads EXCEPT ![t] = "grabbed"]
  /\ UNCHANGED <<controlStep, m_bEnabled, m_tBlobQueueMutex, detected, m_un_blobDetection_cycles,
                 Counter, BlobList, disabled, crowded>>

(* Detect, from the reset of the detector to its last blob. *)
Detect(t) ==
  /\ threads[t] = "grabbed"
  /\ m_tBlobQueueMutex = Nobody
  /\ m_tBlobQueueMutex' = t
  /\ detected' = [detected EXCEPT !.whole = FALSE]
  /\ threads' = [threads EXCEPT ![t] = "detecting"]
  /\ UNCHANGED <<controlStep, m_bEnabled, m_pcHSVImage, m_un_blobDetection_cycles, Counter,
                 BlobList, disabled, crowded>>

Detected(t) ==
  /\ threads[t] = "detecting"
  /\ detected' = [number |-> detected.number + 1, frame |-> m_pcHSVImage,
                  whole |-> TRUE]
  /\ m_tBlobQueueMutex' = Nobody
  /\ threads' = [threads EXCEPT ![t] = "detected"]
  /\ UNCHANGED <<controlStep, m_bEnabled, m_pcHSVImage, m_un_blobDetection_cycles, Counter,
                 BlobList, disabled, crowded>>

CountCycle(t) ==
  /\ threads[t] = "detected"
  /\ m_un_blobDetection_cycles' = m_un_blobDetection_cycles + 1
  /\ threads' = [threads EXCEPT ![t] = "loop"]
  /\ UNCHANGED <<controlStep, m_bEnabled, m_tBlobQueueMutex, m_pcHSVImage, detected, Counter,
                 BlobList, disabled, crowded>>

(* The flag is down: the thread cleans the readings and ends; its cleanup  *)
(* handler unlocks the mutex, whoever holds it.                            *)
LeaveLoop(t) ==
  /\ threads[t] = "loop" /\ ~m_bEnabled
  /\ threads' = [threads EXCEPT ![t] = "closing"]
  /\ UNCHANGED <<controlStep, m_bEnabled, m_tBlobQueueMutex, m_pcHSVImage, detected,
                 m_un_blobDetection_cycles, Counter, BlobList, disabled, crowded>>

FreeAtEnd(t) ==
  /\ threads[t] = "closing"
  /\ FreeBlobs
  /\ threads' = [threads EXCEPT ![t] = "freeing"]
  /\ UNCHANGED <<controlStep, m_bEnabled, m_tBlobQueueMutex, m_pcHSVImage, detected,
                 m_un_blobDetection_cycles, Counter, disabled, crowded>>

CloseThread(t) ==
  /\ threads[t] = "freeing"
  /\ ClearBlobs(controlStep \in {"freeing", "copying"} \/ Freeing # {t})
  /\ m_tBlobQueueMutex' = Nobody
  /\ threads' = [threads EXCEPT ![t] = "closed"]
  /\ UNCHANGED <<controlStep, m_bEnabled, m_pcHSVImage, detected, m_un_blobDetection_cycles,
                 disabled, crowded>>

-----------------------------------------------------------------------------
(* The control step: Update, then the controller. *)

\* faulty variant: only the next detection is news
NextNews == m_un_blobDetection_cycles = Counter + 1
News == m_un_blobDetection_cycles > Counter

Update ==
  /\ controlStep = "update"
  /\ IF m_bEnabled /\ News
     THEN FreeBlobs /\ controlStep' = "freeing"
     ELSE UNCHANGED BlobList /\ controlStep' = "control"
  /\ UNCHANGED <<threads, m_bEnabled, m_tBlobQueueMutex, m_pcHSVImage, detected,
                 m_un_blobDetection_cycles, Counter, disabled, crowded>>

ClearList ==
  /\ controlStep = "freeing"
  /\ ClearBlobs(Freeing # {})
  /\ controlStep' = "transfer"
  /\ UNCHANGED <<threads, m_bEnabled, m_tBlobQueueMutex, m_pcHSVImage, detected,
                 m_un_blobDetection_cycles, disabled, crowded>>

\* faulty variant: the blobs are copied without the mutex
Unlocked == TRUE
Lockable == m_tBlobQueueMutex = Nobody

(* The copy of the blobs, under the mutex: whole if neither the detection  *)
(* nor the list changed in it.                                             *)
Transfer ==
  /\ controlStep = "transfer"
  /\ Lockable
  /\ m_tBlobQueueMutex' = ControlLoop
  /\ BlobList' = detected
  /\ controlStep' = "copying"
  /\ UNCHANGED <<threads, m_bEnabled, m_pcHSVImage, detected, m_un_blobDetection_cycles, Counter,
                 disabled, crowded>>

Transferred ==
  /\ controlStep = "copying"
  /\ BlobList' = [detected EXCEPT !.whole = @ /\ BlobList = detected]
  /\ m_tBlobQueueMutex' = Nobody
  /\ controlStep' = "control"
  /\ UNCHANGED <<threads, m_bEnabled, m_pcHSVImage, detected, m_un_blobDetection_cycles, Counter,
                 disabled, crowded>>

Control ==
  /\ controlStep = "control"
  /\ controlStep' = "update"
  /\ UNCHANGED <<threads, m_bEnabled, m_tBlobQueueMutex, m_pcHSVImage, detected,
                 m_un_blobDetection_cycles, Counter, BlobList, disabled, crowded>>

Disable ==
  /\ controlStep = "control" /\ m_bEnabled
  /\ m_bEnabled' = FALSE
  /\ disabled' = TRUE
  /\ UNCHANGED <<threads, controlStep, m_tBlobQueueMutex, m_pcHSVImage, detected,
                 m_un_blobDetection_cycles, Counter, BlobList, crowded>>

Enable ==
  /\ controlStep = "control" /\ ~m_bEnabled
  /\ m_bEnabled' = TRUE
  /\ m_tBlobQueueMutex' = Nobody
  /\ \E t \in Threads :
       /\ threads[t] = "none" /\ \A u \in Threads : threads[u] = "none" => t <= u
       /\ threads' = [threads EXCEPT ![t] = "loop"]
  /\ crowded' = (crowded \/ Alive # {})
  /\ UNCHANGED <<controlStep, m_pcHSVImage, detected, m_un_blobDetection_cycles, Counter,
                 BlobList, disabled>>

-----------------------------------------------------------------------------
Step(t) == \/ GrabFrame(t) \/ Detect(t) \/ Detected(t) \/ CountCycle(t)
           \/ LeaveLoop(t) \/ FreeAtEnd(t) \/ CloseThread(t)
MainStep == Update \/ ClearList \/ Transfer \/ Transferred \/ Control

CameraNext == MainStep \/ Disable \/ Enable \/ \E t \in Threads : Step(t)

(* Threads and control steps are scheduled; a frame or the timeout comes;  *)
(* the thread leaves the mutex free long enough for the control step (it   *)
(* waits for the camera between two detections), hence strong fairness.    *)
CameraSpec == CameraInit /\ [][CameraNext]_cameraVars
FairCameraSpec == /\ CameraSpec /\ WF_cameraVars(MainStep) /\ SF_cameraVars(Transfer)
                  /\ \A t \in Threads : WF_cameraVars(Step(t))

-----------------------------------------------------------------------------
(* What the controller reads are the blobs of one frame, never a part of a *)
(* detection that went on while they were copied, and none of them was     *)
(* freed. Not claimed while a thread that ends is freeing them, for it     *)
(* takes no mutex and the controller that disabled the camera may still    *)
(* read them; nor once the camera was enabled while an earlier thread      *)
(* lived, for then two threads detect.                                     *)
Snapshot == controlStep = "control" /\ Freeing = {} /\ ~crowded => BlobList.whole

(* The two passes find what they should: the blobs are the regions of      *)
(* accepted pixels that touch, of an area in the range.  Claimed for the   *)
(* frames on which no label loses an equivalence: LabelParentList has room *)
(* for one, so a label that meets two smaller ones forgets the first, and  *)
(* two parts of one region are then counted as two blobs.                  *)
BlobsAreRegions ==
  ~Detection[detected.frame].met =>
    Detection[detected.frame].blobs = TrueBlobs[detected.frame]

(* A detection is not passed over: once it is counted, a control step      *)
(* shows it or a later one.  The counters are compared without the mutex,  *)
(* and Counter counts the steps that copied, not the detections, so the    *)
(* same blobs may be shown again as new ones.  Claimed while the camera    *)
(* has not been disabled: the thread that ends counts a reading as well,   *)
(* so that after the next Enable one detection more has to come.           *)
Shown == \A n \in 1..MaxCycles :
           m_un_blobDetection_cycles >= n ~> (BlobList.number >= n \/ disabled)
=============================================================================
